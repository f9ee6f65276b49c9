----------------------------- MODULE WireProofs -----------------------------
(***************************************************************************)
(* A request is read as what was asked for, just the payloads that are a   *)
(* fleet are taken for one, what the library's call returns is what the    *)
(* server told, and no byte is read or stored outside a buffer, for every  *)
(* size of a byte, of a frame, of a coordinate and of a fleet.             *)
(*                                                                         *)
(* A reply is a sequence W of bytes.  The invariant says where in W each   *)
(* byte is that is read, on the way or still to be written; HeardIsTold    *)
(* does not say it, and is not inductive.  A fleet is laid out in its      *)
(* payload by a function `at' that says where each ship begins: the        *)
(* invariants of the request say that the ships read, and those asked for, *)
(* are laid out so, which is true after every turn of the two loops.  That *)
(* such a layout is what the recursive IsFleet and Encoded speak of is     *)
(* induction over the ships, by the lemmas of BytesProofs.                 *)
(***************************************************************************)
EXTENDS Wire, BytesProofs

-----------------------------------------------------------------------------
(* Numbers.                                                                *)

LEMMA BaseAtLeast4 == Base \in Nat /\ Base >= 4 /\ Base \div 2 \in Nat /\ Base = 2 * (Base \div 2)
  BY BytesAssumption, CodecAssumption

LEMMA U8InByte == ASSUME NEW n \in Int PROVE U8(n) \in Byte
  BY BaseAtLeast4 DEF U8, Byte

LEMMA U8Same == ASSUME NEW b \in Byte PROVE U8(b) = b
  BY BaseAtLeast4 DEF U8, Byte

(* The result of a turn goes through a byte and comes back.                *)
LEMMA SignedU8 == ASSUME NEW r \in Int8 PROVE Signed(U8(r)) = r /\ U8(r) \in Byte
  BY BaseAtLeast4 DEF Signed, U8, Int8, Byte

LEMMA DivMod ==
  ASSUME NEW n \in Nat
  PROVE  /\ n \div Base \in Nat
         /\ n = (n \div Base) * Base + (n % Base)
         /\ n % Base \in 0 .. Base - 1
  BY BaseAtLeast4

LEMMA DivBound ==
  ASSUME NEW n \in Nat, NEW b \in Nat, n < b * Base
  PROVE  n \div Base < b
<1> DEFINE q == n \div Base
           r == n % Base
<1>1. q \in Nat /\ r \in Nat /\ n = q * Base + r
  BY DivMod, BaseAtLeast4
<1> HIDE DEF q, r
<1>2. SUFFICES ASSUME q >= b PROVE FALSE
  BY <1>1 DEF q
<1>3. q * Base >= b * Base
  BY <1>1, <1>2, BaseAtLeast4
<1>4. q * Base \in Nat /\ b * Base \in Nat
  BY <1>1, BaseAtLeast4
<1> QED BY <1>1, <1>3, <1>4

(* ntohs(htons(n)) for a number of two bytes.                              *)
LEMMA TwoBytes ==
  ASSUME NEW n \in Nat, n < Base * Base
  PROVE  /\ htons(n) = <<n \div Base, n % Base>>
         /\ n \div Base \in Byte /\ n % Base \in Byte
         /\ n = (n \div Base) * Base + (n % Base)
<1>1. n \div Base < Base
  BY DivBound, BaseAtLeast4
<1>2. n \div Base \in Byte /\ n % Base \in Byte
  BY <1>1, DivMod, BaseAtLeast4 DEF Byte
<1>3. htons(n) = <<n \div Base, n % Base>>
  BY <1>2, U8Same DEF htons, U8
<1> QED BY <1>2, <1>3, DivMod

LEMMA HtonlType ==
  ASSUME NEW n \in Nat
  PROVE  /\ htonl(n) \in Seq(Byte) /\ Len(htonl(n)) = 4
         /\ htonl(n)[1] = U8(((n \div Base) \div Base) \div Base)
         /\ htonl(n)[2] = U8((n \div Base) \div Base)
         /\ htonl(n)[3] = U8(n \div Base)
         /\ htonl(n)[4] = U8(n)
<1>1. \A k \in Nat : /\ htons(k) \in Seq(Byte) /\ Len(htons(k)) = 2
                     /\ htons(k)[1] = U8(k \div Base) /\ htons(k)[2] = U8(k)
  BY U8InByte, DivMod DEF htons
<1> DEFINE h == htons((n \div Base) \div Base)
           l == htons(n)
<1>2. /\ h \in Seq(Byte) /\ Len(h) = 2
      /\ h[1] = U8(((n \div Base) \div Base) \div Base) /\ h[2] = U8((n \div Base) \div Base)
  <2>1. (n \div Base) \div Base \in Nat
    BY DivMod
  <2> QED BY <1>1, <2>1
<1>3. l \in Seq(Byte) /\ Len(l) = 2 /\ l[1] = U8(n \div Base) /\ l[2] = U8(n)
  BY <1>1
<1>4. htonl(n) = h \o l
  BY DEF htonl
<1> HIDE DEF h, l
<1>5. /\ h \o l \in Seq(Byte) /\ Len(h \o l) = Len(h) + Len(l)
      /\ \A i \in 1 .. Len(h) + Len(l) :
            (h \o l)[i] = IF i <= Len(h) THEN h[i] ELSE l[i - Len(h)]
  BY <1>2, <1>3, ConcatProperties
<1>6. /\ Len(h \o l) = 4
      /\ (h \o l)[1] = h[1] /\ (h \o l)[2] = h[2]
      /\ (h \o l)[3] = l[1] /\ (h \o l)[4] = l[2]
  BY <1>2, <1>3, <1>5
<1> QED BY <1>2, <1>3, <1>4, <1>5, <1>6

(* ntohl(htonl(n)) for a number of four bytes.                             *)
LEMMA FourBytes ==
  ASSUME NEW n \in Nat, n < (Base * Base * Base) * Base,
         NEW s \in Seq(Byte), Len(s) >= 4,
         \A k \in 1 .. 4 : s[k] = htonl(n)[k]
  PROVE  Total(s) = n
<1> DEFINE q1 == n \div Base
           q2 == q1 \div Base
           q3 == q2 \div Base
<1>1. q1 \in Nat /\ q2 \in Nat /\ q3 \in Nat
  BY DivMod
<1>2. q1 < (Base * Base) * Base
  BY DivBound, BaseAtLeast4
<1>3. q2 < Base * Base
  BY <1>1, <1>2, DivBound, BaseAtLeast4
<1>4. q3 \in Byte
  BY <1>1, <1>3, TwoBytes
<1>5. U8(q3) = q3 /\ U8(q2) = q2 % Base /\ U8(q1) = q1 % Base /\ U8(n) = n % Base
  BY <1>4, U8Same DEF U8
<1>6. s[1] = q3 /\ s[2] = q2 % Base /\ s[3] = q1 % Base /\ s[4] = n % Base
  BY <1>5, HtonlType
<1>7. n = q1 * Base + (n % Base) /\ q1 = q2 * Base + (q1 % Base) /\ q2 = q3 * Base + (q2 % Base)
  BY <1>1, DivMod
<1> HIDE DEF q1, q2, q3
<1>8. s[1] * Base + s[2] = q2
  BY <1>6, <1>7
<1>9. q2 * Base + s[3] = q1
  BY <1>6, <1>7
<1>10. q1 * Base + s[4] = n
  BY <1>6, <1>7
<1> QED BY <1>8, <1>9, <1>10 DEF Total

LEMMA Squares == Base * Base + 2 < (Base * Base * Base) * Base
<1> DEFINE q == Base * Base
<1>1. q \in Nat /\ q >= 4 * Base
  BY BaseAtLeast4
<1>2. q >= 16
  BY <1>1, BaseAtLeast4
<1> HIDE DEF q
<1>3. q * q >= 16 * q
  BY <1>1, <1>2
<1>4. q * q = (Base * Base * Base) * Base
  BY BaseAtLeast4 DEF q
<1> QED BY <1>1, <1>2, <1>3, <1>4 DEF q

-----------------------------------------------------------------------------
(* Sequences.                                                              *)

LEMMA UpToIsSeq ==
  ASSUME NEW S, NEW n \in Nat, NEW p \in UpTo(n, S)
  PROVE  p \in Seq(S) /\ Len(p) <= n
<1>1. PICK k \in 0 .. n : p \in [1 .. k -> S]
  BY DEF UpTo
<1>2. p \in Seq(S)
  BY <1>1, SeqDef
<1>3. Len(p) = k
  BY <1>1, <1>2, LenProperties
<1> QED BY <1>2, <1>3

(* The strings of callers have no NUL.                                     *)
LEMMA StringIsSeq ==
  ASSUME NEW s \in Strings
  PROVE  s \in Seq(Byte)
<1>1. s \in Seq(Letters)
  BY UpToIsSeq, CodecAssumption, BaseAtLeast4 DEF Strings
<1>2. Letters \subseteq Byte
  BY WireAssumption
<1> QED BY <1>1, <1>2, SeqMonotonic

LEMMA UpToOctets ==
  ASSUME NEW n \in Nat, NEW p \in UpTo(n, Octets)
  PROVE  p \in Seq(Byte)
<1>1. p \in Seq(Octets) /\ Octets \subseteq Byte
  BY UpToIsSeq, WireAssumption
<1> QED BY <1>1, SeqMonotonic

LEMMA ExtDataIsSeq ==
  ASSUME NEW data \in ExtData
  PROVE  data \in Seq(Byte) /\ Len(data) < Base * Base
<1>1. PICK n \in 0 .. Base * Base - 1 : data = [k \in 1 .. n |-> U8(n + k)]
  BY DEF ExtData
<1>2. n \in Nat /\ n < Base * Base
  BY BaseAtLeast4
<1>3. data \in [1 .. n -> Byte]
  BY <1>1, <1>2, U8InByte
<1>4. data \in Seq(Byte)
  BY <1>2, <1>3, SeqDef
<1>5. Len(data) = n
  BY <1>2, <1>3, <1>4, LenProperties
<1> QED BY <1>2, <1>4, <1>5

(* There is a first NUL, or none, before the end of s.                     *)
LEMMA CStringIs ==
  ASSUME NEW s \in Seq(Byte)
  PROVE  /\ CString(s) \in Seq(Byte) /\ Len(CString(s)) <= Len(s)
         /\ \A k \in 1 .. Len(CString(s)) : CString(s)[k] # 0
<1> DEFINE Ends(n) == /\ \A k \in 1 .. n : s[k] # 0
                      /\ n < Len(s) => s[n + 1] = 0
           Z == {n \in 0 .. Len(s) : n < Len(s) => s[n + 1] = 0}
           strlen == CHOOSE n \in 0 .. Len(s) : Ends(n)
<1>1. Len(s) \in Z /\ Z \subseteq Nat
  OBVIOUS
<1>2. PICK m \in Z : \A n \in Z : m <= n
  <2> HIDE DEF Z
  <2> QED BY <1>1, Least
<1>3. \A n \in Z : ~(n < m)
  BY <1>1, <1>2
<1>4. \A k \in 1 .. m : s[k] # 0
  <2> SUFFICES ASSUME NEW k \in 1 .. m, s[k] = 0 PROVE FALSE
    OBVIOUS
  <2>1. k - 1 \in Z /\ k - 1 < m
    OBVIOUS
  <2> QED BY <2>1, <1>3
<1>5. m \in 0 .. Len(s) /\ Ends(m)
  BY <1>4
<1>6. strlen \in 0 .. Len(s) /\ Ends(strlen)
  BY <1>5
<1>7. CString(s) = SubSeq(s, 1, strlen)
  BY DEF CString
<1> HIDE DEF Z, strlen
<1>8. /\ SubSeq(s, 1, strlen) \in Seq(Byte) /\ Len(SubSeq(s, 1, strlen)) = strlen
      /\ \A i \in 1 .. strlen : SubSeq(s, 1, strlen)[i] = s[i]
  BY <1>6, Cut
<1> QED BY <1>6, <1>7, <1>8

(* A sequence without a NUL is its own string.                             *)
LEMMA CStringSame ==
  ASSUME NEW s \in Seq(Byte), \A k \in 1 .. Len(s) : s[k] # 0
  PROVE  CString(s) = s
<1> DEFINE Ends(n) == /\ \A k \in 1 .. n : s[k] # 0
                      /\ n < Len(s) => s[n + 1] = 0
           strlen == CHOOSE n \in 0 .. Len(s) : Ends(n)
<1>1. Len(s) \in 0 .. Len(s) /\ Ends(Len(s))
  OBVIOUS
<1>2. strlen \in 0 .. Len(s) /\ Ends(strlen)
  BY <1>1
<1>3. strlen = Len(s)
  BY <1>2
<1>4. CString(s) = SubSeq(s, 1, strlen)
  BY DEF CString
<1> QED BY <1>3, <1>4, SubSeqFull

LEMMA Joined ==
  ASSUME NEW S, NEW s \in Seq(S), NEW t \in Seq(S)
  PROVE  /\ s \o t \in Seq(S) /\ Len(s \o t) = Len(s) + Len(t)
         /\ \A i \in 1 .. Len(s) : (s \o t)[i] = s[i]
<1> DEFINE c == s \o t
<1>1. /\ c \in Seq(S) /\ Len(c) = Len(s) + Len(t)
      /\ \A i \in 1 .. Len(s) + Len(t) : c[i] = IF i <= Len(s) THEN s[i] ELSE t[i - Len(s)]
  BY ConcatProperties
<1>2. Len(s) \in Nat /\ Len(t) \in Nat
  OBVIOUS
<1> HIDE DEF c
<1>3. \A i \in 1 .. Len(s) : c[i] = s[i]
  BY <1>1, <1>2
<1> QED BY <1>1, <1>3 DEF c

LEMMA JoinedBack ==
  ASSUME NEW S, NEW s \in Seq(S), NEW t \in Seq(S), NEW c, c = s \o t
  PROVE  \A i \in 1 .. Len(t) : c[Len(s) + i] = t[i]
<1>1. \A i \in 1 .. Len(s) + Len(t) : c[i] = IF i <= Len(s) THEN s[i] ELSE t[i - Len(s)]
  BY ConcatProperties
<1>2. Len(s) \in Nat /\ Len(t) \in Nat
  OBVIOUS
<1>3. SUFFICES ASSUME NEW i \in 1 .. Len(t) PROVE c[Len(s) + i] = t[i]
  OBVIOUS
<1>4. Len(s) + i \in 1 .. Len(s) + Len(t) /\ ~(Len(s) + i <= Len(s)) /\ (Len(s) + i) - Len(s) = i
  BY <1>2
<1> QED BY <1>1, <1>4

(* What follows a known beginning.                                         *)
LEMMA AfterBeginning ==
  ASSUME NEW S, NEW s \in Seq(S), NEW t \in Seq(S), NEW m \in Nat, Len(s) = m
  PROVE  SubSeq(s \o t, m + 1, m + Len(t)) = t
<1> DEFINE c == s \o t
           u == SubSeq(c, m + 1, m + Len(t))
<1>1. /\ c \in Seq(S) /\ Len(c) = m + Len(t)
      /\ \A i \in 1 .. Len(t) : c[m + i] = t[i]
  <2>1. c \in Seq(S) /\ Len(c) = Len(s) + Len(t)
    BY Joined
  <2>2. \A i \in 1 .. Len(t) : c[Len(s) + i] = t[i]
    <3> HIDE DEF c
    <3>1. c = s \o t
      BY DEF c
    <3> QED BY <3>1, JoinedBack
  <2> QED BY <2>1, <2>2
<1> HIDE DEF c
<1>2. /\ u \in Seq(S) /\ Len(u) = Len(t)
      /\ \A i \in 1 .. Len(t) : u[i] = c[m + i]
  BY <1>1, Cut
<1> HIDE DEF u
<1>3. u = t
  BY <1>1, <1>2, SeqEqual
<1> QED BY <1>3 DEF c, u

-----------------------------------------------------------------------------
(* Every answer of the server fits a frame; it is a refusal, which has no  *)
(* payload, or what the waiting call makes of its payload is the value     *)
(* told.  An extended result is the longest answer.                        *)
Says(type, value, p) == /\ type \in Byte /\ p \in Seq(Byte)
                        /\ 1 + Len(p) <= Base * Base + 2
                        /\ IF type \in Refusals THEN p = <<>>
                           ELSE Understood(type, p) /\ Heard(type, p) = value

LEMMA Types ==
  /\ MSG_SHIPS_ACK \in Byte /\ MSG_MOVE_RESULT \in Byte
  /\ MSG_MOVE_EXT_RESULT \in Byte /\ MSG_OPP_MOVE \in Byte
  /\ Refusals \subseteq Byte
  /\ MSG_SHIPS_ACK \notin Refusals /\ MSG_MOVE_RESULT \notin Refusals
  /\ MSG_MOVE_EXT_RESULT \notin Refusals /\ MSG_OPP_MOVE \notin Refusals
  /\ MSG_SHIPS_ACK # MSG_MOVE_RESULT /\ MSG_SHIPS_ACK # MSG_MOVE_EXT_RESULT
  /\ MSG_SHIPS_ACK # MSG_OPP_MOVE /\ MSG_MOVE_RESULT # MSG_MOVE_EXT_RESULT
  /\ MSG_MOVE_RESULT # MSG_OPP_MOVE /\ MSG_MOVE_EXT_RESULT # MSG_OPP_MOVE
<1>1. /\ MsgType[1] = MSG_SHIPS_ACK /\ MsgType[2] = MSG_MOVE_RESULT
      /\ MsgType[3] = MSG_MOVE_EXT_RESULT /\ MsgType[4] = MSG_OPP_MOVE
      /\ MsgType[5] = MSG_SHIPS_FAIL /\ MsgType[6] = MSG_ERROR
  BY DEF MsgType
<1>2. \A i \in 1 .. 6 : MsgType[i] \in Byte
  BY WireAssumption
<1>3. \A i, j \in 1 .. 6 : i # j => MsgType[i] # MsgType[j]
  BY WireAssumption
<1> QED BY <1>1, <1>2, <1>3 DEF Refusals

LEMMA HeardAs ==
  ASSUME NEW p
  PROVE  /\ Heard(MSG_SHIPS_ACK, p) = p
         /\ Heard(MSG_MOVE_RESULT, p) = <<Signed(p[1])>>
         /\ Heard(MSG_MOVE_EXT_RESULT, p) = proto_read_ext_result(p)
         /\ Heard(MSG_OPP_MOVE, p) = <<proto_read_opp_move(p).result>>
                                       \o CString(proto_read_opp_move(p).coordinate)
  BY Types DEF Heard

LEMMA FrameIsLarge == /\ PROTO_MAX_FRAME \in Nat /\ PROTO_MAX_FRAME >= Base * Base + 2
                      /\ Base * Base \in Nat /\ Base * Base >= 4 * Base
  BY BytesAssumption, CodecAssumption, BaseAtLeast4

LEMMA RefusalSays ==
  ASSUME NEW type \in Refusals
  PROVE  Says(type, <<>>, <<>>)
<1>1. <<>> \in Seq(Byte) /\ Len(<<>>) = 0
  OBVIOUS
<1> QED BY <1>1, Types, FrameIsLarge, BaseAtLeast4 DEF Says

LEMMA AckSays ==
  ASSUME NEW n \in Players
  PROVE  Says(MSG_SHIPS_ACK, <<n>>, <<n>>)
<1>1. n \in Byte
  BY BaseAtLeast4 DEF Byte, Players
<1>2. <<n>> \in Seq(Byte) /\ Len(<<n>>) = 1
  BY <1>1
<1>3. Heard(MSG_SHIPS_ACK, <<n>>) = <<n>>
  BY HeardAs
<1>4. 1 + Len(<<n>>) <= Base * Base + 2
  BY <1>2, FrameIsLarge, BaseAtLeast4
<1> QED BY <1>2, <1>3, <1>4, Types DEF Says, Understood

LEMMA ResultSays ==
  ASSUME NEW r \in TurnResult
  PROVE  Says(MSG_MOVE_RESULT, <<r>>, <<U8(r)>>)
<1>1. r \in Int8
  BY WireAssumption, BaseAtLeast4 DEF TurnResult, Invalid, Int8
<1>2. U8(r) \in Byte /\ Signed(U8(r)) = r
  BY <1>1, SignedU8
<1>3. <<U8(r)>> \in Seq(Byte) /\ Len(<<U8(r)>>) = 1 /\ <<U8(r)>>[1] = U8(r)
  BY <1>2
<1>4. Heard(MSG_MOVE_RESULT, <<U8(r)>>) = <<r>>
  BY <1>2, <1>3, HeardAs
<1> QED BY <1>3, <1>4, Types, FrameIsLarge, BaseAtLeast4 DEF Says, Understood

LEMMA ExtSays ==
  ASSUME NEW data \in ExtData
  PROVE  Says(MSG_MOVE_EXT_RESULT, data, proto_write_ext_result(data))
<1> DEFINE n == Len(data)
           h == htons(n)
           p == h \o data
<1>1. data \in Seq(Byte) /\ n \in Nat /\ n < Base * Base
  BY ExtDataIsSeq, LenProperties
<1>2. /\ h = <<n \div Base, n % Base>>
      /\ n \div Base \in Byte /\ n % Base \in Byte
      /\ n = (n \div Base) * Base + (n % Base)
  BY <1>1, TwoBytes
<1>3. h \in Seq(Byte) /\ Len(h) = 2 /\ n = h[1] * Base + h[2]
  BY <1>2
<1> HIDE DEF h
<1>4. /\ p \in Seq(Byte) /\ Len(p) = 2 + n
      /\ p[1] = h[1] /\ p[2] = h[2]
  <2>1. /\ p \in Seq(Byte) /\ Len(p) = Len(h) + Len(data)
        /\ \A i \in 1 .. Len(h) : p[i] = h[i]
    BY <1>1, <1>3, Joined
  <2> QED BY <2>1, <1>3
<1>5. SubSeq(p, 2 + 1, 2 + Len(data)) = data
  BY <1>1, <1>3, AfterBeginning
<1>6. proto_write_ext_result(data) = p
  BY DEF proto_write_ext_result, h
<1> HIDE DEF p
<1>7. CanReadExt(p)
  <2>1. p[1] * Base + p[2] = n
    BY <1>3, <1>4
  <2>2. Len(p) = 2 + n /\ Len(p) >= 2 /\ n \in Nat
    BY <1>1, <1>4
  <2>3. p[1] * Base \in Int /\ p[2] \in Int
    <3>1. p[1] \in Byte /\ p[2] \in Byte
      BY <1>4, <2>2
    <3> QED BY <3>1, BaseAtLeast4 DEF Byte
  <2>4. 2 + p[1] * Base + p[2] = 2 + n
    BY <2>1, <2>2, <2>3
  <2> HIDE DEF n
  <2> QED BY <2>2, <2>4 DEF CanReadExt
<1>8. proto_read_ext_result(p) = data
  <2>1. 2 + 1 = 3 /\ 2 + Len(data) = Len(p)
    BY <1>4
  <2> QED BY <2>1, <1>5 DEF proto_read_ext_result
<1>9. Len(p) >= 1 /\ 1 + Len(p) <= Base * Base + 2
  BY <1>1, <1>4, FrameIsLarge
<1> QED BY <1>4, <1>6, <1>7, <1>8, <1>9, Types, HeardAs DEF Says, Understood

LEMMA OppMoveSays ==
  ASSUME NEW s \in Seq(Byte), NEW r \in Turns, LegalCoordLen(Len(CString(s)))
  PROVE  Says(MSG_OPP_MOVE, <<r>> \o CString(s), proto_write_opp_move(CString(s), r))
<1> DEFINE c == CString(s)
           n == Len(c)
           h == <<U8(n)>>
           t == <<U8(r)>>
           hc == h \o c
           p == hc \o t
<1>1. c \in Seq(Byte) /\ \A k \in 1 .. Len(c) : c[k] # 0
  BY CStringIs
<1>2. n \in 1 .. PROTO_MAX_COORD /\ n \in Byte
  BY CodecAssumption, BaseAtLeast4 DEF LegalCoordLen, Byte
<1>3. CString(c) = c
  BY <1>1, CStringSame
<1> HIDE DEF c
<1>4. r \in Int8 /\ U8(r) \in Byte /\ Signed(U8(r)) = r
  BY WireAssumption, SignedU8
<1>5. h \in Seq(Byte) /\ Len(h) = 1 /\ h[1] = n
  BY <1>2, U8Same
<1>6. t \in Seq(Byte) /\ Len(t) = 1 /\ t[1] = U8(r)
  BY <1>4
<1> HIDE DEF n, h, t
<1>7. n = Len(c)
  BY DEF n
<1>8. /\ hc \in Seq(Byte) /\ Len(hc) = 1 + n /\ hc[1] = n
      /\ SubSeq(hc, 2, 1 + n) = c
  <2>1. /\ hc \in Seq(Byte) /\ Len(hc) = Len(h) + Len(c)
        /\ \A i \in 1 .. Len(h) : hc[i] = h[i]
    BY <1>1, <1>5, Joined
  <2>2. SubSeq(hc, 1 + 1, 1 + Len(c)) = c
    BY <1>1, <1>5, AfterBeginning
  <2> QED BY <2>1, <2>2, <1>5, <1>7
<1> HIDE DEF hc
<1>9. /\ p \in Seq(Byte) /\ Len(p) = 2 + n /\ p[1] = n /\ p[2 + n] = U8(r)
  <2>1. /\ p \in Seq(Byte) /\ Len(p) = Len(hc) + Len(t)
        /\ \A i \in 1 .. Len(hc) : p[i] = hc[i]
    BY <1>6, <1>8, Joined
  <2>2. p[Len(hc) + 1] = t[1]
    <3>1. p = Append(hc, U8(r))
      BY <1>4, <1>8, AppendIsConcat DEF t
    <3> HIDE DEF p
    <3> QED BY <1>4, <1>6, <1>8, <3>1, AppendProperties
  <2>3. p[1] = hc[1] /\ p[(1 + n) + 1] = t[1] /\ (1 + n) + 1 = 2 + n
    BY <2>1, <2>2, <1>2, <1>6, <1>8
  <2> QED BY <2>1, <2>3, <1>2, <1>6, <1>8
<1>10. SubSeq(p, 2, 1 + n) = c
  <2>1. 2 \in 1 .. Len(hc) /\ 1 + n \in 1 .. Len(hc)
    BY <1>2, <1>8
  <2>2. SubSeq(p, 2, 1 + n) = SubSeq(hc, 2, 1 + n)
    BY <2>1, <1>6, <1>8, SubSeqOfConcat1
  <2> QED BY <2>2, <1>8
<1>11. proto_write_opp_move(CString(s), r) = p
  BY DEF proto_write_opp_move, proto_write_coord, p, hc, h, t, c, n
<1> HIDE DEF p
<1>12. CanReadOppMove(p, CoordOut)
  BY <1>2, <1>9, CodecAssumption, BaseAtLeast4 DEF CanReadOppMove, CoordOut, LegalCoordLen
<1>13. proto_read_opp_move(p) = [coordinate |-> c, result |-> r]
  BY <1>4, <1>9, <1>10 DEF proto_read_opp_move
<1>14. Heard(MSG_OPP_MOVE, p) = <<r>> \o c
  BY <1>3, <1>13, HeardAs
<1>15. Len(p) >= 1 /\ 1 + Len(p) <= Base * Base + 2
  <2>1. n \in Nat /\ n < Base
    BY <1>2, BaseAtLeast4 DEF Byte
  <2>2. 3 + n <= Base * Base + 2
    BY <2>1, FrameIsLarge, BaseAtLeast4
  <2> QED BY <2>1, <2>2, <1>9, FrameIsLarge
<1> QED BY <1>9, <1>11, <1>12, <1>14, <1>15, Types DEF Says, Understood, c

-----------------------------------------------------------------------------
(* The request: what is sent, and what the handler has read of it.         *)
RequestInv ==
    /\ pc \in {"call", "SHIPS", "MOVE", "noFleet", "noMove", "placed", "moved",
              "waiting", "answered"}
    /\ payload \in Seq(Byte) /\ pos \in 0 .. Len(payload)
    /\ pc \in {"SHIPS", "placed"} =>
          /\ read \in Seq(Ship) /\ Len(read) <= SHIPS
          /\ \A k \in 1 .. Len(read) : Len(read[k].coordinate) < CoordOut
    /\ pc \in {"MOVE", "moved"} => read \in Seq(Byte) /\ Len(read) < CoordOut
    /\ pc = "call" => pos = 0 /\ read = <<>>

LEMMA WriteShipIsSeq ==
  ASSUME NEW s \in Ships
  PROVE  WriteShip(s) \in Seq(Byte)
<1>1. s.coordinate \in Strings /\ s.length \in Byte /\ s.direction \in Byte
  BY WireAssumption DEF Ships
<1>3. s.coordinate \in Seq(Byte)
  BY <1>1, StringIsSeq
<1>4. Len(s.coordinate) \in Int
  BY <1>3
<1>5. <<U8(Len(s.coordinate))>> \in Seq(Byte)
  BY <1>4, U8InByte
<1>6. s.direction \in Int
  BY <1>1, BaseAtLeast4 DEF Byte
<1>7. <<s.length, U8(s.direction)>> \in Seq(Byte)
  BY <1>1, <1>6, U8InByte
<1>8. <<U8(Len(s.coordinate))>> \o s.coordinate \in Seq(Byte)
  BY <1>3, <1>5, ConcatProperties
<1> QED BY <1>7, <1>8, ConcatProperties DEF WriteShip, proto_write_coord

(* A ship that can be read lies within the payload, and its coordinate     *)
(* within the buffer it is copied to.                                      *)
LEMMA ReadShipIsShip ==
  ASSUME NEW p \in Seq(Byte), NEW k \in 0 .. Len(p), CanReadShip(p, k)
  PROVE  /\ ReadShip(p, k) \in Ship /\ Len(ReadShip(p, k).coordinate) < CoordOut
         /\ AfterShip(p, k) \in 0 .. Len(p)
<1> DEFINE n == p[k + 1]
           c == SubSeq(p, k + 2, k + 1 + n)
<1>1. n \in 1 .. PROTO_MAX_COORD /\ k + 1 + n + 2 <= Len(p)
  BY DEF CanReadShip, LegalCoordLen
<1> HIDE DEF n
<1>2. PROTO_MAX_COORD \in Nat
  BY CodecAssumption, BaseAtLeast4
<1>3. c \in Seq(Byte) /\ Len(c) = n
  <2>1. k + 2 \in 1 .. Len(p) + 1 /\ k + 1 + n \in 0 .. Len(p) /\ k + 2 <= (k + 1 + n) + 1
    BY <1>1, <1>2
  <2>2. SubSeq(p, k + 2, k + 1 + n) \in Seq(Byte)
        /\ Len(SubSeq(p, k + 2, k + 1 + n)) = (k + 1 + n) - (k + 2) + 1
    BY <2>1, Cut
  <2> QED BY <2>2, <1>1, <1>2
<1> HIDE DEF c
<1>4. AfterShip(p, k) = k + n + 3
  BY DEF AfterShip, n
<1>5. AfterShip(p, k) \in 1 .. Len(p) /\ AfterShip(p, k) - 1 \in 1 .. Len(p)
  BY <1>1, <1>2, <1>4
<1>6. At(p, AfterShip(p, k)) \in Byte /\ At(p, AfterShip(p, k) - 1) \in Byte
  BY <1>5 DEF At
<1>7. ReadShip(p, k) = [coordinate |-> c, length |-> At(p, AfterShip(p, k) - 1),
                        direction |-> At(p, AfterShip(p, k))]
  BY DEF ReadShip, c, n
<1>8. n < CoordOut
  BY <1>1, <1>2 DEF CoordOut
<1> QED BY <1>3, <1>5, <1>6, <1>7, <1>8 DEF Ship

LEMMA ReadCoordIsShort ==
  ASSUME NEW p \in Seq(Byte), CanReadCoord(p, CoordOut)
  PROVE  proto_read_coord(p) \in Seq(Byte) /\ Len(proto_read_coord(p)) < CoordOut
<1> DEFINE n == p[1]
<1>1. n \in 1 .. PROTO_MAX_COORD /\ Len(p) = 1 + n
  BY DEF CanReadCoord, LegalCoordLen
<1>2. PROTO_MAX_COORD \in Nat /\ CoordOut = PROTO_MAX_COORD + 1
  BY CodecAssumption, BaseAtLeast4 DEF CoordOut
<1> HIDE DEF n
<1>3. SubSeq(p, 2, 1 + n) \in Seq(Byte) /\ Len(SubSeq(p, 2, 1 + n)) = (1 + n) - 2 + 1
  <2>1. 2 \in 1 .. Len(p) + 1 /\ 1 + n \in 0 .. Len(p) /\ 2 <= (1 + n) + 1
    BY <1>1, <1>2
  <2> QED BY <2>1, Cut
<1>4. (1 + n) - 2 + 1 < CoordOut
  BY <1>1, <1>2
<1> QED BY <1>3, <1>4 DEF proto_read_coord, n

LEMMA InitRequest == Init => RequestInv
<1> SUFFICES ASSUME Init PROVE RequestInv
  OBVIOUS
<1>1. payload \in Seq(Byte) /\ pos \in 0 .. Len(payload)
  BY DEF Init
<1> QED BY <1>1 DEF Init, RequestInv

LEMMA CallerRequest == RequestInv /\ Caller => RequestInv'
<1> SUFFICES ASSUME RequestInv, Caller PROVE RequestInv'
  OBVIOUS
<1> USE DEF RequestInv
<1>1. CASE WriteNextShip
  <2>1. PICK s \in Ships : payload' = payload \o WriteShip(s)
    BY <1>1 DEF WriteNextShip
  <2>2. payload' \in Seq(Byte)
    BY <2>1, WriteShipIsSeq, ConcatProperties
  <2>3. pos' \in 0 .. Len(payload')
    BY <1>1, <2>2 DEF WriteNextShip
  <2> QED BY <1>1, <2>2, <2>3 DEF WriteNextShip
<1>2. CASE client_send_ships
  <2>1. read \in Seq(Ship) /\ Len(read) <= SHIPS
    BY <1>2, CodecAssumption DEF client_send_ships
  <2> QED BY <1>2, <2>1 DEF client_send_ships, request
<1>3. ASSUME pc = "call",
             NEW type \in {"SHIPS", "MOVE"}, NEW args, NEW p \in Seq(Byte), Sent(type, args, p)
      PROVE  RequestInv'
  <2>1. read' = <<>> /\ pos' = 0 /\ payload' = p /\ pc' = type
    BY <1>3 DEF Sent
  <2>2. <<>> \in Seq(Ship) /\ <<>> \in Seq(Byte) /\ Len(<<>>) = 0
    OBVIOUS
  <2>3. SHIPS \in Nat /\ CoordOut > 0
    BY CodecAssumption, BaseAtLeast4 DEF CoordOut
  <2>4. pos' \in 0 .. Len(payload')
    BY <1>3, <2>1
  <2> QED BY <1>3, <2>1, <2>2, <2>3, <2>4
<1>4. CASE client_send_move
  <2>1. PICK s \in Strings : Sent("MOVE", s, proto_write_coord(s))
    BY <1>4 DEF client_send_move
  <2>3. s \in Seq(Byte) /\ Len(s) \in Int
    BY StringIsSeq
  <2>4. <<U8(Len(s))>> \in Seq(Byte)
    BY <2>3, U8InByte
  <2>5. proto_write_coord(s) \in Seq(Byte)
    BY <2>3, <2>4, ConcatProperties DEF proto_write_coord
  <2> QED BY <1>3, <1>4, <2>1, <2>5 DEF client_send_move
<1>5. CASE AnyProgram
  <2>1. MaxPayload \in Nat /\ CoordBuf \in Nat
    BY WireAssumption, CodecAssumption, BaseAtLeast4 DEF CoordBuf
  <2>2. CASE \E p \in UpTo(MaxPayload, Octets) : Sent("SHIPS", <<>>, p)
    BY <1>3, <1>5, <2>1, <2>2, UpToOctets DEF AnyProgram
  <2>3. CASE \E p \in UpTo(CoordBuf, Octets) : Sent("MOVE", <<>>, p)
    BY <1>3, <1>5, <2>1, <2>3, UpToOctets DEF AnyProgram
  <2> QED BY <1>5, <2>2, <2>3 DEF AnyProgram
<1> QED BY <1>1, <1>2, <1>4, <1>5 DEF Caller

LEMMA ServerRequest == RequestInv /\ (Server \/ Rival) => RequestInv'
<1> SUFFICES ASSUME RequestInv, Server \/ Rival PROVE RequestInv'
  OBVIOUS
<1> USE DEF RequestInv
<1>1. CASE ParseShip
  <2> DEFINE ship == ReadShip(payload, pos)
  <2>1. /\ ship \in Ship /\ Len(ship.coordinate) < CoordOut
        /\ AfterShip(payload, pos) \in 0 .. Len(payload)
    BY <1>1, ReadShipIsShip DEF ParseShip
  <2>2. read' = Append(read, ship) /\ read \in Seq(Ship) /\ Len(read) < SHIPS
    BY <1>1 DEF ParseShip
  <2> HIDE DEF ship
  <2>3. /\ read' \in Seq(Ship) /\ Len(read') = Len(read) + 1
        /\ \A k \in 1 .. Len(read) : read'[k] = read[k]
        /\ read'[Len(read) + 1] = ship
    BY <2>1, <2>2, AppendProperties
  <2>4. \A k \in 1 .. Len(read') : Len(read'[k].coordinate) < CoordOut
    <3> SUFFICES ASSUME NEW k \in 1 .. Len(read') PROVE Len(read'[k].coordinate) < CoordOut
      OBVIOUS
    <3>1. CASE k \in 1 .. Len(read)
      BY <1>1, <2>3, <3>1 DEF ParseShip
    <3>2. CASE k = Len(read) + 1
      BY <2>1, <2>3, <3>2
    <3> QED BY <2>2, <2>3, <3>1, <3>2
  <2>5. Len(read') <= SHIPS
    BY <2>2, <2>3, CodecAssumption
  <2> QED BY <1>1, <2>1, <2>3, <2>4, <2>5 DEF ParseShip
<1>2. CASE ParseEnds
  BY <1>2 DEF ParseEnds, request
<1>3. CASE ParseMove
  BY <1>3, ReadCoordIsShort DEF ParseMove
<1>4. CASE ParseFails
  BY <1>4 DEF ParseFails, request
<1>5. ASSUME NEW type, NEW value, NEW p, Answer(type, value, p) PROVE RequestInv'
  <2>1. payload' = <<>> /\ pos' = 0 /\ pc' = "answered"
    BY <1>5 DEF Answer, Handled
  <2>2. payload' \in Seq(Byte) /\ pos' \in 0 .. Len(payload')
    BY <2>1
  <2> QED BY <2>1, <2>2
<1>6. CASE OutOfPhase \/ Malformed \/ MoveResult \/ MoveExtResult \/ notify_opponent_move
  BY <1>5, <1>6 DEF OutOfPhase, Malformed, Refuse, MoveResult, MoveExtResult, notify_opponent_move
<1>7. CASE write_exact
  BY <1>7 DEF write_exact, request
<1>8. CASE PlaceShips \/ Rival
  <2>1. CASE pc' = "waiting" /\ Handled
    <3>1. payload' = <<>> /\ pos' = 0
      BY <2>1 DEF Handled
    <3>2. payload' \in Seq(Byte) /\ pos' \in 0 .. Len(payload')
      BY <3>1
    <3> QED BY <2>1, <3>2
  <2> QED BY <1>5, <1>8, <2>1 DEF PlaceShips, Rival, Refuse, Ack
<1> QED BY <1>1, <1>2, <1>3, <1>4, <1>6, <1>7, <1>8 DEF Server

LEMMA RequestKept == RequestInv /\ [Next]_vars => RequestInv'
<1> SUFFICES ASSUME RequestInv, [Next]_vars PROVE RequestInv'
  OBVIOUS
<1>1. CASE Caller
  BY <1>1, CallerRequest
<1>2. CASE Server \/ Rival
  BY <1>2, ServerRequest
<1>3. CASE Break
  BY <1>3 DEF Break, RequestInv, request
<1>4. CASE Reader
  BY <1>4 DEF Reader, read_exact, Return, ReadFails, RequestInv, request
<1>5. CASE UNCHANGED vars
  BY <1>5 DEF RequestInv, vars, request
<1> QED BY <1>1, <1>2, <1>3, <1>4, <1>5 DEF Next

-----------------------------------------------------------------------------
(* The reply.  W is the frame, written in three pieces, or in two if it    *)
(* has no payload, of which Bound(W, j) bytes come before the j-th; b      *)
(* bytes of it have been written.                                          *)
Frame(type, p) == (htonl(1 + Len(p)) \o <<type>>) \o p

Bound(W, j) == CASE j = 1 -> 0 [] j = 2 -> 4 [] j = 3 -> 5 [] j = 4 -> Len(W)
After(W) == IF Len(W) = 5 THEN 3 ELSE 4        \* one more than its pieces
Begin(W, b, j, k) == IF k = 1 THEN b ELSE Bound(W, j + k - 1)

Unwritten(W, b, j) ==
    /\ j \in 1 .. After(W) /\ Bound(W, j) <= b
    /\ IF j = After(W) THEN b = Len(W) ELSE b < Bound(W, j + 1)
    /\ out \in Seq(Seq(Byte)) /\ Len(out) = After(W) - j
    /\ \A k \in 1 .. After(W) - j : out[k] = SubSeq(W, Begin(W, b, j, k) + 1, Bound(W, j + k))

OnItsWay(W, a, b) ==
    /\ got = SubSeq(W, 1, a) /\ net = SubSeq(W, a + 1, b)
    /\ IF cut THEN out = <<>> ELSE \E j \in 1 .. 4 : Unwritten(W, b, j)
    /\ rd = "returned" => told.type \notin Refusals /\ a = Len(W)
    /\ rd = "failed" => cut \/ (told.type \in Refusals /\ a = Len(W))

ReplyInv ==
    /\ cut \in BOOLEAN /\ rd \in {"reading", "returned", "failed"}
    /\ IF pc # "answered"
       THEN out = <<>> /\ net = <<>> /\ got = <<>> /\ ~cut /\ rd = "reading"
       ELSE \E p \in Seq(Byte) :
              /\ Says(told.type, told.value, p)
              /\ \E a, b \in 0 .. Len(Frame(told.type, p)) :
                    a <= b /\ OnItsWay(Frame(told.type, p), a, b)

(* The frame of a payload: its length is what its first four bytes say.    *)
LEMMA FrameIs ==
  ASSUME NEW type, NEW value, NEW p, Says(type, value, p)
  PROVE  /\ Frame(type, p) \in Seq(Byte)
         /\ Len(Frame(type, p)) = 5 + Len(p) /\ Len(p) \in Nat
         /\ 1 + Len(p) <= PROTO_MAX_FRAME
         /\ 1 + Len(p) < (Base * Base * Base) * Base
         /\ SubSeq(Frame(type, p), 1, 4) = htonl(1 + Len(p))
         /\ SubSeq(Frame(type, p), 5, 5) = <<type>>
         /\ SubSeq(Frame(type, p), 6, Len(Frame(type, p))) = p
         /\ Frame(type, p)[5] = type
         /\ \A k \in 1 .. 4 : Frame(type, p)[k] = htonl(1 + Len(p))[k]
<1> DEFINE n == 1 + Len(p)
           h == htonl(n)
           t == <<type>>
           ht == h \o t
           W == ht \o p
<1>1. /\ type \in Byte /\ p \in Seq(Byte) /\ Len(p) \in Nat /\ n \in Nat
  BY DEF Says
<1>15. n <= PROTO_MAX_FRAME /\ n < (Base * Base * Base) * Base
  <2>1. n <= Base * Base + 2
    BY DEF Says
  <2>2. (Base * Base * Base) * Base \in Nat
    BY BaseAtLeast4
  <2> HIDE DEF n
  <2> QED BY <1>1, <2>1, <2>2, FrameIsLarge, Squares
<1> HIDE DEF n
<1>2. h \in Seq(Byte) /\ Len(h) = 4
  BY <1>1, HtonlType
<1>3. t \in Seq(Byte) /\ Len(t) = 1 /\ t[1] = type
  BY <1>1
<1> HIDE DEF h, t
<1>4. ht \in Seq(Byte) /\ Len(ht) = 5 /\ ht[5] = type /\ \A k \in 1 .. 4 : ht[k] = h[k]
  <2>1. ht \in Seq(Byte) /\ Len(ht) = Len(h) + Len(t) /\ \A k \in 1 .. Len(h) : ht[k] = h[k]
    BY <1>2, <1>3, Joined
  <2>2. ht[Len(h) + 1] = type
    <3>1. ht = Append(h, type)
      BY <1>1, <1>2, AppendIsConcat DEF t
    <3> HIDE DEF ht
    <3> QED BY <1>1, <1>2, <3>1, AppendProperties
  <2> QED BY <2>1, <2>2, <1>2, <1>3
<1>5. SubSeq(ht, 1, 4) = h
  <2> DEFINE u == SubSeq(ht, 1, 4)
  <2>1. /\ u \in Seq(Byte) /\ Len(u) = 4 - 1 + 1
        /\ \A i \in 1 .. 4 - 1 + 1 : u[i] = ht[1 + i - 1]
    BY <1>4, Cut
  <2> HIDE DEF u
  <2>2. /\ Len(u) = Len(h)
        /\ \A i \in 1 .. Len(u) : u[i] = h[i]
    <3>1. 4 - 1 + 1 = 4 /\ \A i \in 1 .. 4 : 1 + i - 1 = i
      OBVIOUS
    <3> QED BY <1>2, <1>4, <2>1, <3>1
  <2>3. u = h
    BY <1>2, <2>1, <2>2, SeqEqual
  <2> QED BY <2>3 DEF u
<1>6. SubSeq(ht, 4 + 1, 4 + Len(t)) = t
  BY <1>2, <1>3, AfterBeginning
<1> HIDE DEF ht
<1>7. W \in Seq(Byte) /\ Len(W) = 5 + Len(p) /\ \A k \in 1 .. 5 : W[k] = ht[k]
  <2>1. W \in Seq(Byte) /\ Len(W) = Len(ht) + Len(p) /\ \A k \in 1 .. Len(ht) : W[k] = ht[k]
    BY <1>1, <1>4, Joined
  <2> QED BY <2>1, <1>4
<1>8. SubSeq(W, 1, 4) = SubSeq(ht, 1, 4) /\ SubSeq(W, 5, 5) = SubSeq(ht, 5, 5)
  <2>1. 1 \in 1 .. Len(ht) /\ 4 \in 1 .. Len(ht) /\ 5 \in 1 .. Len(ht)
    BY <1>4
  <2> QED BY <2>1, <1>1, <1>4, SubSeqOfConcat1
<1>9. SubSeq(W, 5 + 1, 5 + Len(p)) = p
  BY <1>1, <1>4, AfterBeginning
<1>10. Frame(type, p) = W
  BY DEF Frame, W, ht, h, t, n
<1> HIDE DEF W
<1>11. SubSeq(W, 6, Len(W)) = p
  <2>1. 5 + 1 = 6 /\ 5 + Len(p) = Len(W)
    BY <1>7
  <2> QED BY <2>1, <1>9
<1>12. SubSeq(W, 5, 5) = t
  <2>1. 4 + 1 = 5 /\ 4 + Len(t) = 5
    BY <1>3
  <2> QED BY <2>1, <1>6, <1>8
<1>13. W[5] = type /\ \A k \in 1 .. 4 : W[k] = h[k]
  BY <1>4, <1>7
<1>14. SubSeq(W, 1, 4) = h
  BY <1>5, <1>8
<1> QED BY <1>1, <1>7, <1>10, <1>11, <1>12, <1>13, <1>14, <1>15 DEF t, h, n

LEMMA Picture ==
  ASSUME ReplyInv, pc = "answered"
  PROVE  \E p, W \in Seq(Byte) : \E a, b \in 0 .. Len(W) :
            /\ Says(told.type, told.value, p) /\ W = Frame(told.type, p)
            /\ a <= b /\ OnItsWay(W, a, b)
<1>1. PICK p \in Seq(Byte) :
         /\ Says(told.type, told.value, p)
         /\ \E a, b \in 0 .. Len(Frame(told.type, p)) :
               a <= b /\ OnItsWay(Frame(told.type, p), a, b)
  BY DEF ReplyInv
<1>2. Frame(told.type, p) \in Seq(Byte)
  BY <1>1, FrameIs
<1> QED BY <1>1, <1>2

LEMMA Repainted ==
  ASSUME NEW p \in Seq(Byte), NEW W, NEW a \in 0 .. Len(W), NEW b \in 0 .. Len(W), a <= b,
         Says(told'.type, told'.value, p), W = Frame(told'.type, p),
         pc' = "answered", cut' \in BOOLEAN, rd' \in {"reading", "returned", "failed"},
         OnItsWay(W, a, b)'
  PROVE  ReplyInv'
BY DEF ReplyInv, Says

LEMMA InitReply == Init => ReplyInv
BY DEF Init, ReplyInv

LEMMA StillAsking ==
  ASSUME ReplyInv, pc # "answered", pc' # "answered", UNCHANGED reply
  PROVE  ReplyInv'
BY DEF ReplyInv, reply

LEMMA AnswerReply ==
  ASSUME ReplyInv, pc # "answered",
         NEW type, NEW value, NEW p, Says(type, value, p), Answer(type, value, p)
  PROVE  ReplyInv'
<1> DEFINE W == Frame(type, p)
<1>1. /\ W \in Seq(Byte) /\ Len(W) = 5 + Len(p) /\ Len(p) \in Nat
      /\ SubSeq(W, 1, 4) = htonl(1 + Len(p)) /\ SubSeq(W, 5, 5) = <<type>>
      /\ SubSeq(W, 6, Len(W)) = p
  BY FrameIs
<1>2. p \in Seq(Byte) /\ type \in Byte
  BY DEF Says
<1>3. htonl(1 + Len(p)) \in Seq(Byte) /\ <<type>> \in Seq(Byte)
  BY <1>1, <1>2, HtonlType
<1> DEFINE h == htonl(1 + Len(p))
           t == <<type>>
<1> HIDE DEF W, h, t
<1> DEFINE ht == <<h, t>>
<1>4. ht \in Seq(Seq(Byte)) /\ Len(ht) = 2 /\ ht[1] = h /\ ht[2] = t
  BY <1>3 DEF h, t
<1>12. out' = ht \o IF p = <<>> THEN <<>> ELSE <<p>>
  BY DEF Answer, h, t
<1> HIDE DEF ht
<1>13. Bound(W, 1) = 0 /\ Bound(W, 1 + 1) = 4
  BY DEF Bound
<1>5. ASSUME p # <<>> PROVE Unwritten(W, 0, 1)'
  <2>1. out' = Append(ht, p)
    BY <1>2, <1>4, <1>5, <1>12, AppendIsConcat
  <2>2. out' \in Seq(Seq(Byte)) /\ Len(out') = 3
    <3>1. out' \in Seq(Seq(Byte)) /\ Len(out') = Len(ht) + 1
      BY <1>2, <1>4, <2>1, AppendProperties
    <3> QED BY <1>4, <3>1
  <2>3. out'[1] = h /\ out'[2] = t /\ out'[3] = p
    <3>1. \A i \in 1 .. Len(ht) : out'[i] = ht[i]
      BY <1>2, <1>4, <2>1, AppendProperties
    <3>2. out'[Len(ht) + 1] = p
      BY <1>2, <1>4, <2>1, AppendProperties
    <3> QED BY <1>4, <3>1, <3>2
  <2>4. After(W) = 4
    <3>1. Len(p) # 0
      BY <1>2, <1>5, EmptySeq
    <3>2. Len(W) # 5
      BY <1>1, <3>1
    <3> QED BY <3>2 DEF After
  <2>5. \A k \in 1 .. 4 - 1 : out'[k] = SubSeq(W, Begin(W, 0, 1, k) + 1, Bound(W, 1 + k))
    <3> SUFFICES ASSUME NEW k \in 1 .. 3
                 PROVE  out'[k] = SubSeq(W, Begin(W, 0, 1, k) + 1, Bound(W, 1 + k))
      OBVIOUS
    <3>1. CASE k = 1
      <4>1. SubSeq(W, Begin(W, 0, 1, k) + 1, Bound(W, 1 + k)) = SubSeq(W, 1, 4)
        BY <3>1 DEF Begin, Bound
      <4> QED BY <1>1, <2>3, <3>1, <4>1 DEF h
    <3>2. CASE k = 2
      <4>1. SubSeq(W, Begin(W, 0, 1, k) + 1, Bound(W, 1 + k)) = SubSeq(W, 5, 5)
        BY <3>2 DEF Begin, Bound
      <4> QED BY <1>1, <2>3, <3>2, <4>1 DEF t
    <3>3. CASE k = 3
      <4>1. SubSeq(W, Begin(W, 0, 1, k) + 1, Bound(W, 1 + k)) = SubSeq(W, 6, Len(W))
        BY <3>3 DEF Begin, Bound
      <4> QED BY <1>1, <2>3, <3>3, <4>1
    <3> QED BY <3>1, <3>2, <3>3
  <2> QED BY <1>13, <2>2, <2>4, <2>5 DEF Unwritten
<1>14. ASSUME p = <<>> PROVE Unwritten(W, 0, 1)'
  <2>1. out' = ht
    BY <1>4, <1>12, <1>14, ConcatEmptySeq
  <2>2. Len(W) = 5 /\ After(W) = 3
    BY <1>1, <1>14 DEF After
  <2>3. \A k \in 1 .. 3 - 1 : out'[k] = SubSeq(W, Begin(W, 0, 1, k) + 1, Bound(W, 1 + k))
    <3> SUFFICES ASSUME NEW k \in 1 .. 2
                 PROVE  out'[k] = SubSeq(W, Begin(W, 0, 1, k) + 1, Bound(W, 1 + k))
      OBVIOUS
    <3>1. CASE k = 1
      <4>1. SubSeq(W, Begin(W, 0, 1, k) + 1, Bound(W, 1 + k)) = SubSeq(W, 1, 4)
        BY <3>1 DEF Begin, Bound
      <4> QED BY <1>1, <1>4, <2>1, <3>1, <4>1 DEF h
    <3>2. CASE k = 2
      <4>1. SubSeq(W, Begin(W, 0, 1, k) + 1, Bound(W, 1 + k)) = SubSeq(W, 5, 5)
        BY <3>2 DEF Begin, Bound
      <4> QED BY <1>1, <1>4, <2>1, <3>2, <4>1 DEF t
    <3> QED BY <3>1, <3>2
  <2> QED BY <1>4, <1>13, <2>1, <2>2, <2>3 DEF Unwritten
<1>6. Unwritten(W, 0, 1)'
  BY <1>5, <1>14
<1>7. SubSeq(W, 1, 0) = <<>>
  BY SubSeqEmpty
<1>8. net' = <<>> /\ got' = <<>> /\ cut' = FALSE /\ rd' = "reading" /\ pc' = "answered"
      /\ told' = [type |-> type, value |-> value]
  BY DEF ReplyInv, Answer
<1>9. OnItsWay(W, 0, 0)'
  BY <1>6, <1>7, <1>8 DEF OnItsWay
<1>10. Says(told'.type, told'.value, p) /\ W = Frame(told'.type, p)
  BY <1>8 DEF W
<1>11. 0 \in 0 .. Len(W) /\ 0 <= 0
  BY <1>1
<1> QED BY <1>2, <1>8, <1>9, <1>10, <1>11, Repainted

LEMMA BoundFacts ==
  ASSUME NEW W \in Seq(Byte), Len(W) >= 5
  PROVE  /\ After(W) \in 3 .. 4
         /\ \A j \in 1 .. After(W) : Bound(W, j) \in 0 .. Len(W)
         /\ \A j \in 1 .. After(W) - 1 : Bound(W, j) < Bound(W, j + 1)
         /\ Bound(W, After(W)) = Len(W)
<1>1. Len(W) \in Nat
  OBVIOUS
<1>2. Bound(W, 1) = 0 /\ Bound(W, 2) = 4 /\ Bound(W, 3) = 5 /\ Bound(W, 4) = Len(W)
  BY DEF Bound
<1>3. CASE Len(W) = 5
  <2>1. After(W) = 3
    BY <1>3 DEF After
  <2>2. Bound(W, 1) < Bound(W, 1 + 1) /\ Bound(W, 2) < Bound(W, 2 + 1)
    BY <1>2
  <2>3. \A j \in 1 .. 3 : Bound(W, j) \in 0 .. Len(W)
    BY <1>1, <1>2, <1>3
  <2>4. \A j \in 1 .. 2 : Bound(W, j) < Bound(W, j + 1)
    BY <2>2
  <2> QED BY <1>2, <1>3, <2>1, <2>3, <2>4
<1>4. CASE Len(W) # 5
  <2>1. After(W) = 4 /\ Len(W) > 5
    <3>1. After(W) = 4
      BY <1>4 DEF After
    <3>2. Len(W) > 5
      <4> DEFINE n == Len(W)
      <4>1. n \in Nat /\ n >= 5 /\ n # 5
        BY <1>1, <1>4
      <4> HIDE DEF n
      <4>2. n > 5
        BY <4>1
      <4> QED BY <4>2 DEF n
    <3> QED BY <3>1, <3>2
  <2>2. Bound(W, 1) < Bound(W, 1 + 1) /\ Bound(W, 2) < Bound(W, 2 + 1) /\ Bound(W, 3) < Bound(W, 3 + 1)
    BY <1>1, <1>2, <2>1
  <2>3. \A j \in 1 .. 4 : Bound(W, j) \in 0 .. Len(W)
    BY <1>1, <1>2, <2>1
  <2>4. \A j \in 1 .. 3 : Bound(W, j) < Bound(W, j + 1)
    BY <2>2
  <2> QED BY <1>2, <2>1, <2>3, <2>4
<1> QED BY <1>3, <1>4

LEMMA WriteReply == ReplyInv /\ pc = "answered" /\ write_exact => ReplyInv'
<1> SUFFICES ASSUME ReplyInv, pc = "answered", write_exact PROVE ReplyInv'
  OBVIOUS
<1>1. PICK p \in Seq(Byte), W \in Seq(Byte) : \E a, b \in 0 .. Len(W) :
         /\ Says(told.type, told.value, p) /\ W = Frame(told.type, p)
         /\ a <= b /\ OnItsWay(W, a, b)
  BY Picture
<1>2. PICK a \in 0 .. Len(W), b \in 0 .. Len(W) : a <= b /\ OnItsWay(W, a, b)
  BY <1>1
<1>3. Len(W) >= 5 /\ Len(W) \in Nat
  BY <1>1, FrameIs
<1> DEFINE l == After(W)
<1>15. /\ l \in 3 .. 4
       /\ \A i \in 1 .. l : Bound(W, i) \in 0 .. Len(W)
       /\ \A i \in 1 .. l - 1 : Bound(W, i) < Bound(W, i + 1)
       /\ Bound(W, l) = Len(W)
  BY <1>3, BoundFacts
<1>4. PICK j \in 1 .. 4 : ~cut /\ Unwritten(W, b, j)
  BY <1>2 DEF OnItsWay, write_exact
<1>16. /\ j \in 1 .. l /\ Bound(W, j) <= b
       /\ IF j = l THEN b = Len(W) ELSE b < Bound(W, j + 1)
       /\ out \in Seq(Seq(Byte)) /\ Len(out) = l - j
       /\ \A k \in 1 .. l - j : out[k] = SubSeq(W, Begin(W, b, j, k) + 1, Bound(W, j + k))
  BY <1>4 DEF Unwritten
<1> HIDE DEF l
<1>5. j \in 1 .. l - 1 /\ Len(out) = l - j /\ out \in Seq(Seq(Byte))
  <2>1. Len(out) # 0
    BY <1>16, EmptySeq DEF write_exact
  <2> QED BY <1>15, <1>16, <2>1
<1> DEFINE e == Bound(W, j + 1)
<1>6. e \in 0 .. Len(W) /\ b < e
  <2>2. j + 1 \in 1 .. l /\ j # l
    BY <1>5, <1>15
  <2> QED BY <1>15, <1>16, <2>2
<1>7. out[1] = SubSeq(W, b + 1, e)
  <2>1. 1 \in 1 .. l - j
    BY <1>5, <1>15
  <2> QED BY <1>16, <2>1 DEF Begin
<1> HIDE DEF e
<1>8. Len(out[1]) = e - b
  <2>1. b + 1 \in 1 .. Len(W) + 1 /\ b + 1 <= e + 1
    BY <1>3, <1>6
  <2>2. Len(SubSeq(W, b + 1, e)) = e - (b + 1) + 1
    BY <1>6, <2>1, Cut
  <2> QED BY <1>6, <1>7, <2>2
<1>9. PICK n \in 1 .. Len(out[1]) : net' = net \o SubSeq(out[1], 1, n) /\ Rest(n)
  BY DEF write_exact
<1>10. n \in 0 .. e - b /\ n >= 1 /\ b + n \in 0 .. Len(W) /\ a <= b + n
  BY <1>2, <1>6, <1>8, <1>9
<1>11. net' = SubSeq(W, a + 1, b + n)
  <2>1. SubSeq(out[1], 1, n) = SubSeq(W, b + 1, b + n)
    BY <1>6, <1>7, <1>10, FrontOfCut
  <2>2. SubSeq(W, a + 1, b) \o SubSeq(W, b + 1, b + n) = SubSeq(W, a + 1, b + n)
    BY <1>2, <1>10, CutsJoin
  <2> QED BY <1>2, <1>9, <2>1, <2>2 DEF OnItsWay
<1>12. \E i \in 1 .. 4 : Unwritten(W, b + n, i)'
  <2>1. CASE n = Len(out[1])
    <3>1. b + n = e
      BY <1>6, <1>8, <2>1
    <3>2. out' = Tail(out)
      BY <1>9, <2>1 DEF Rest
    <3>3. out # <<>>
      BY DEF write_exact
    <3>4. out' \in Seq(Seq(Byte)) /\ Len(out') = Len(out) - 1
      BY <1>5, <3>2, <3>3, HeadTailProperties
    <3>5. \A k \in 1 .. Len(out') : out'[k] = out[k + 1]
      BY <1>5, <3>2, <3>3, HeadTailProperties
    <3>6. \A k \in 1 .. l - (j + 1) :
             out'[k] = SubSeq(W, Begin(W, e, j + 1, k) + 1, Bound(W, (j + 1) + k))
      <4> SUFFICES ASSUME NEW k \in 1 .. l - (j + 1)
                   PROVE  out'[k] = SubSeq(W, Begin(W, e, j + 1, k) + 1, Bound(W, (j + 1) + k))
        OBVIOUS
      <4>1. k \in 1 .. Len(out') /\ k + 1 \in 1 .. l - j
        BY <1>5, <1>15, <3>4
      <4>2. out'[k] = SubSeq(W, Begin(W, b, j, k + 1) + 1, Bound(W, j + (k + 1)))
        BY <1>16, <3>5, <4>1
      <4>3. Begin(W, b, j, k + 1) = Bound(W, j + k)
        <5>1. k + 1 # 1 /\ j + (k + 1) - 1 = j + k
          OBVIOUS
        <5> QED BY <5>1 DEF Begin
      <4>4. Begin(W, e, j + 1, k) = Bound(W, j + k)
        <5>1. (j + 1) + k - 1 = j + k
          OBVIOUS
        <5>2. CASE k = 1
          BY <5>2 DEF Begin, e
        <5>3. CASE k # 1
          BY <5>1, <5>3 DEF Begin
        <5> QED BY <5>2, <5>3
      <4>5. j + (k + 1) = (j + 1) + k
        OBVIOUS
      <4> QED BY <4>2, <4>3, <4>4, <4>5
    <3>7. j + 1 \in 1 .. l /\ Len(out') = l - (j + 1) /\ Bound(W, j + 1) <= e
      BY <1>5, <1>6, <1>15, <3>4 DEF e
    <3>8. IF j + 1 = l THEN e = Len(W) ELSE e < Bound(W, (j + 1) + 1)
      <4>2. CASE j + 1 = l
        BY <1>15, <4>2 DEF e
      <4>3. CASE j + 1 # l
        <5>1. j + 1 \in 1 .. l - 1
          BY <1>5, <1>15, <4>3
        <5> QED BY <1>15, <4>3, <5>1 DEF e
      <4> QED BY <4>2, <4>3
    <3>9. Unwritten(W, e, j + 1)'
      BY <3>4, <3>6, <3>7, <3>8 DEF Unwritten, l
    <3>10. j + 1 \in 1 .. 4
      BY <1>15, <3>7
    <3> QED BY <3>1, <3>9, <3>10
  <2>2. CASE n # Len(out[1])
    <3>1. b + n < e
      BY <1>6, <1>8, <1>10, <2>2
    <3>2. out' = [out EXCEPT ![1] = SubSeq(out[1], n + 1, Len(out[1]))]
      BY <1>9, <2>2 DEF Rest
    <3>3. SubSeq(out[1], n + 1, Len(out[1])) = SubSeq(W, b + n + 1, e)
      <4>1. SubSeq(SubSeq(W, b + 1, e), n + 1, e - b) = SubSeq(W, b + n + 1, e)
        BY <1>6, <1>10, CutOfCut
      <4> QED BY <1>7, <1>8, <4>1
    <3>4. SubSeq(W, b + n + 1, e) \in Seq(Byte)
      <4>1. b + n + 1 \in 1 .. Len(W) + 1 /\ b + n + 1 <= e + 1
        BY <1>6, <1>10, <3>1
      <4> QED BY <1>6, <4>1, Cut
    <3>5. 1 \in 1 .. Len(out)
      BY <1>5, <1>15
    <3>6. out' \in Seq(Seq(Byte)) /\ Len(out') = Len(out)
      <4> DEFINE s == SubSeq(W, b + n + 1, e)
      <4>1. s \in Seq(Byte) /\ out' = [out EXCEPT ![1] = s]
        BY <3>2, <3>3, <3>4
      <4> HIDE DEF s
      <4> QED BY <1>5, <3>5, <4>1, ExceptSeq
    <3>7. \A k \in 1 .. Len(out) : out'[k] = IF k = 1 THEN SubSeq(W, b + n + 1, e) ELSE out[k]
      <4> DEFINE s == SubSeq(W, b + n + 1, e)
      <4>1. s \in Seq(Byte) /\ out' = [out EXCEPT ![1] = s]
        BY <3>2, <3>3, <3>4
      <4> HIDE DEF s
      <4>2. \A k \in 1 .. Len(out) : out'[k] = IF k = 1 THEN s ELSE out[k]
        BY <1>5, <3>5, <4>1
      <4> QED BY <4>2 DEF s
    <3>8. \A k \in 1 .. l - j :
             out'[k] = SubSeq(W, Begin(W, b + n, j, k) + 1, Bound(W, j + k))
      <4> SUFFICES ASSUME NEW k \in 1 .. l - j
                   PROVE  out'[k] = SubSeq(W, Begin(W, b + n, j, k) + 1, Bound(W, j + k))
        OBVIOUS
      <4>1. CASE k = 1
        BY <1>5, <3>7, <4>1 DEF Begin, e
      <4>2. CASE k # 1
        <5>1. Begin(W, b + n, j, k) = Begin(W, b, j, k)
          BY <4>2 DEF Begin
        <5>2. out[k] = SubSeq(W, Begin(W, b, j, k) + 1, Bound(W, j + k))
          BY <1>16
        <5> QED BY <1>5, <3>7, <4>2, <5>1, <5>2
      <4> QED BY <4>1, <4>2
    <3>9. Bound(W, j) <= b + n
      <4>1. Bound(W, j) <= b
        BY <1>16
      <4>2. Bound(W, j) \in 0 .. Len(W)
        BY <1>15, <1>16
      <4> QED BY <1>2, <1>10, <4>1, <4>2
    <3>10. j # l /\ b + n < Bound(W, j + 1)
      BY <1>5, <1>15, <3>1 DEF e
    <3>11. Unwritten(W, b + n, j)'
      BY <1>16, <3>6, <3>8, <3>9, <3>10 DEF Unwritten, l
    <3> QED BY <3>11
  <2> QED BY <2>1, <2>2
<1>13. OnItsWay(W, a, b + n)'
  BY <1>2, <1>4, <1>11, <1>12 DEF OnItsWay, write_exact
<1>14. /\ told' = told /\ pc' = "answered" /\ cut' \in BOOLEAN
       /\ rd' \in {"reading", "returned", "failed"}
  BY DEF write_exact, ReplyInv
<1> QED BY <1>1, <1>10, <1>13, <1>14, Repainted

LEMMA BreakReply == ReplyInv /\ Break => ReplyInv'
<1> SUFFICES ASSUME ReplyInv, Break PROVE ReplyInv'
  OBVIOUS
<1>1. PICK p \in Seq(Byte), W \in Seq(Byte) : \E a, b \in 0 .. Len(W) :
         /\ Says(told.type, told.value, p) /\ W = Frame(told.type, p)
         /\ a <= b /\ OnItsWay(W, a, b)
  BY Picture DEF Break
<1>2. PICK a \in 0 .. Len(W), b \in 0 .. Len(W) : a <= b /\ OnItsWay(W, a, b)
  BY <1>1
<1>3. net = SubSeq(W, a + 1, b) /\ Len(W) \in Nat
  BY <1>2 DEF OnItsWay
<1>4. Len(net) = b - a
  <2>1. a + 1 \in 1 .. Len(W) + 1 /\ a + 1 <= b + 1
    BY <1>2, <1>3
  <2>2. Len(SubSeq(W, a + 1, b)) = b - (a + 1) + 1
    BY <2>1, Cut
  <2> QED BY <1>3, <2>2
<1>5. PICK n \in 0 .. Len(net) : net' = SubSeq(net, 1, n)
  BY DEF Break
<1>6. n \in 0 .. b - a /\ a + n \in 0 .. Len(W) /\ a <= a + n
  BY <1>2, <1>3, <1>4, <1>5
<1>7. net' = SubSeq(W, a + 1, a + n)
  BY <1>2, <1>3, <1>5, <1>6, FrontOfCut
<1>8. cut' = TRUE /\ out' = <<>> /\ told' = told /\ got' = got /\ rd' = rd /\ pc' = "answered"
  BY DEF Break
<1>9. OnItsWay(W, a, a + n)'
  BY <1>2, <1>7, <1>8 DEF OnItsWay
<1>10. rd' \in {"reading", "returned", "failed"}
  BY <1>8 DEF ReplyInv
<1> QED BY <1>1, <1>6, <1>8, <1>9, <1>10, Repainted

(* What the client has read so far, and where it stands in the frame.      *)
LEMMA GotIs ==
  ASSUME NEW p, NEW W \in Seq(Byte), Says(told.type, told.value, p), W = Frame(told.type, p),
         NEW a \in 0 .. Len(W), got = SubSeq(W, 1, a)
  PROVE  /\ got \in Seq(Byte) /\ Len(got) = a
         /\ \A i \in 1 .. a : got[i] = W[i]
         /\ a >= 4 => Total(got) = 1 + Len(p)
<1>1. got \in Seq(Byte) /\ Len(got) = a /\ \A i \in 1 .. a : got[i] = W[i]
  <2>1. 1 \in 1 .. Len(W) + 1 /\ 1 <= a + 1
    OBVIOUS
  <2>2. /\ SubSeq(W, 1, a) \in Seq(Byte) /\ Len(SubSeq(W, 1, a)) = a - 1 + 1
        /\ \A i \in 1 .. a - 1 + 1 : SubSeq(W, 1, a)[i] = W[1 + i - 1]
    BY <2>1, Cut
  <2> QED BY <2>2
<1>2. ASSUME a >= 4 PROVE Total(got) = 1 + Len(p)
  <2>1. 1 + Len(p) \in Nat /\ 1 + Len(p) < (Base * Base * Base) * Base
    BY FrameIs
  <2>2. \A k \in 1 .. 4 : W[k] = htonl(1 + Len(p))[k]
    BY FrameIs
  <2>3. \A k \in 1 .. 4 : got[k] = htonl(1 + Len(p))[k]
    BY <1>1, <1>2, <2>2
  <2> QED BY <1>1, <1>2, <2>1, <2>3, FourBytes
<1> QED BY <1>1, <1>2

LEMMA ReaderReply == ReplyInv /\ Reader => ReplyInv'
<1> SUFFICES ASSUME ReplyInv, Reader PROVE ReplyInv'
  OBVIOUS
<1>1. pc = "answered"
  <2> SUFFICES ASSUME pc # "answered" PROVE FALSE
    OBVIOUS
  <2>1. net = <<>> /\ got = <<>> /\ ~cut
    BY DEF ReplyInv
  <2>2. Len(net) = 0 /\ Len(got) = 0
    BY <2>1
  <2> QED BY <2>1, <2>2 DEF Reader, read_exact, Return, ReadFails, FrameRead, BadLength
<1>2. PICK p \in Seq(Byte), W \in Seq(Byte) : \E a, b \in 0 .. Len(W) :
         /\ Says(told.type, told.value, p) /\ W = Frame(told.type, p)
         /\ a <= b /\ OnItsWay(W, a, b)
  BY <1>1, Picture
<1>3. PICK a \in 0 .. Len(W), b \in 0 .. Len(W) : a <= b /\ OnItsWay(W, a, b)
  BY <1>2
<1>4. /\ got = SubSeq(W, 1, a) /\ net = SubSeq(W, a + 1, b)
      /\ Len(W) = 5 + Len(p) /\ Len(p) \in Nat /\ 1 + Len(p) <= PROTO_MAX_FRAME
  <2>1. got = SubSeq(W, 1, a) /\ net = SubSeq(W, a + 1, b)
    BY <1>3 DEF OnItsWay
  <2>2. Len(W) = 5 + Len(p) /\ Len(p) \in Nat /\ 1 + Len(p) <= PROTO_MAX_FRAME
    BY <1>2, FrameIs
  <2> QED BY <2>1, <2>2
<1>5. got \in Seq(Byte) /\ Len(got) = a /\ (a >= 4 => Total(got) = 1 + Len(p))
  BY <1>2, <1>4, GotIs
<1>6. pc' = "answered" /\ told' = told /\ cut' = cut /\ out' = out /\ cut \in BOOLEAN
  BY <1>1 DEF Reader, read_exact, Return, ReadFails, ReplyInv
<1>7. CASE read_exact
  <2>1. PICK n \in 1 .. Missing : /\ n <= Len(net) /\ got' = got \o SubSeq(net, 1, n)
                                  /\ net' = SubSeq(net, n + 1, Len(net))
    BY <1>7 DEF read_exact
  <2>2. Len(net) = b - a
    <3>1. a + 1 \in 1 .. Len(W) + 1 /\ a + 1 <= b + 1
      BY <1>3, <1>4
    <3>2. Len(SubSeq(W, a + 1, b)) = b - (a + 1) + 1
      BY <3>1, Cut
    <3> QED BY <1>4, <3>2
  <2>3. n \in 0 .. b - a /\ a + n \in 0 .. Len(W) /\ a + n <= b /\ a <= a + n
    BY <1>3, <1>4, <2>1, <2>2
  <2>4. got' = SubSeq(W, 1, a + n)
    <3>1. SubSeq(net, 1, n) = SubSeq(W, a + 1, a + n)
      BY <1>3, <1>4, <2>3, FrontOfCut
    <3>2. SubSeq(W, 1, a) \o SubSeq(W, a + 1, a + n) = SubSeq(W, 1, a + n)
      <4>1. 0 \in 0 .. Len(W) /\ 0 <= a /\ 0 + 1 = 1
        BY <1>4
      <4>2. SubSeq(W, 0 + 1, a) \o SubSeq(W, a + 1, a + n) = SubSeq(W, 0 + 1, a + n)
        BY <2>3, <4>1, CutsJoin
      <4> QED BY <4>1, <4>2
    <3> QED BY <1>4, <2>1, <3>1, <3>2
  <2>5. net' = SubSeq(W, (a + n) + 1, b)
    <3>1. SubSeq(SubSeq(W, a + 1, b), n + 1, b - a) = SubSeq(W, a + n + 1, b)
      BY <1>3, <2>3, CutOfCut
    <3> QED BY <1>4, <2>1, <2>2, <3>1
  <2>6. rd' = "reading"
    BY <1>7 DEF read_exact
  <2>7. OnItsWay(W, a + n, b)'
    <3>1. IF cut' THEN out' = <<>> ELSE \E j \in 1 .. 4 : Unwritten(W, b, j)'
      BY <1>3, <1>6 DEF OnItsWay, Unwritten
    <3> QED BY <2>4, <2>5, <2>6, <3>1 DEF OnItsWay
  <2> QED BY <1>2, <1>6, <2>3, <2>6, <2>7, Repainted
<1>8. CASE Return
  <2>1. a > 4 /\ Missing = 0
    BY <1>5, <1>8 DEF Return, FrameRead
  <2>2. a = Len(W)
    BY <1>4, <1>5, <2>1 DEF Missing
  <2>3. got[5] = told.type /\ HeardPayload = p
    <3>1. got = W
      BY <1>4, <2>2, SubSeqFull
    <3>2. W[5] = told.type /\ SubSeq(W, 6, Len(W)) = p
      BY <1>2, FrameIs
    <3> QED BY <3>1, <3>2 DEF HeardPayload
  <2>4. /\ rd' = IF told.type \in Refusals THEN "failed" ELSE "returned"
        /\ got' = got /\ net' = net
    <3>1. told.type \in Refusals => ~Understood(told.type, p)
      BY Types DEF Understood
    <3> QED BY <1>2, <1>8, <2>3, <3>1 DEF Return, Says
  <2>5. OnItsWay(W, a, b)'
    <3>1. IF cut' THEN out' = <<>> ELSE \E j \in 1 .. 4 : Unwritten(W, b, j)'
      BY <1>3, <1>6 DEF OnItsWay, Unwritten
    <3> QED BY <1>4, <1>6, <2>2, <2>4, <3>1 DEF OnItsWay
  <2> QED BY <1>2, <1>3, <1>6, <2>4, <2>5, Repainted
<1>9. CASE ReadFails
  <2>1. ~BadLength
    <3> SUFFICES ASSUME a = 4 PROVE ~Illegal(Total(got))
      BY <1>5 DEF BadLength
    <3> QED BY <1>4, <1>5, BytesAssumption DEF Illegal
  <2>2. cut /\ rd' = "failed" /\ got' = got /\ net' = net
    BY <1>9, <2>1 DEF ReadFails
  <2>3. OnItsWay(W, a, b)'
    BY <1>3, <1>6, <2>2 DEF OnItsWay
  <2> QED BY <1>2, <1>3, <1>6, <2>2, <2>3, Repainted
<1> QED BY <1>7, <1>8, <1>9 DEF Reader

LEMMA ReplyKept == RequestInv /\ ReplyInv /\ [Next]_vars => ReplyInv'
<1> SUFFICES ASSUME RequestInv, ReplyInv, [Next]_vars PROVE ReplyInv'
  OBVIOUS
<1>1. CASE Caller
  <2>1. pc # "answered" /\ pc' # "answered" /\ UNCHANGED reply
    BY <1>1 DEF Caller, WriteNextShip, client_send_ships, client_send_move, AnyProgram, Sent
  <2> QED BY <2>1, StillAsking
<1>2. CASE ParseShip \/ ParseEnds \/ ParseMove \/ ParseFails
  <2>1. pc # "answered" /\ pc' # "answered" /\ UNCHANGED reply
    BY <1>2 DEF ParseShip, ParseEnds, ParseMove, ParseFails
  <2> QED BY <2>1, StillAsking
<1>3. CASE OutOfPhase \/ Malformed
  BY <1>3, RefusalSays, AnswerReply DEF OutOfPhase, Malformed, Refuse, Refusals
<1>11. CASE PlaceShips \/ Rival
  <2>1. pc # "answered"
    BY <1>11 DEF PlaceShips, Rival
  <2>2. CASE pc' = "waiting" /\ UNCHANGED reply
    BY <2>1, <2>2, StillAsking
  <2>3. ASSUME NEW type \in Refusals, Refuse(type) PROVE ReplyInv'
    BY <2>1, <2>3, RefusalSays, AnswerReply DEF Refuse
  <2>4. ASSUME NEW player \in Players, Ack(player) PROVE ReplyInv'
    BY <2>1, <2>4, AckSays, AnswerReply DEF Ack
  <2> QED BY <1>11, <2>2, <2>3, <2>4 DEF PlaceShips, Rival, Refusals
<1>4. CASE MoveResult
  BY <1>4, ResultSays, AnswerReply DEF MoveResult
<1>5. CASE MoveExtResult
  BY <1>5, ExtSays, AnswerReply DEF MoveExtResult
<1>6. CASE notify_opponent_move
  <2>1. read \in Seq(Byte) /\ LegalCoordLen(Len(CString(read)))
    BY <1>6 DEF RequestInv, notify_opponent_move, CanWriteOppMove
  <2> QED BY <1>6, <2>1, OppMoveSays, AnswerReply DEF notify_opponent_move
<1>7. CASE write_exact
  <2>1. pc = "answered"
    BY <1>7 DEF ReplyInv, write_exact
  <2> QED BY <1>7, <2>1, WriteReply
<1>8. CASE Break
  BY <1>8, BreakReply
<1>9. CASE Reader
  BY <1>9, ReaderReply
<1>10. CASE UNCHANGED vars
  <2>1. UNCHANGED <<pc, told, out, net, cut, got, rd>>
    BY <1>10 DEF vars, reply
  <2>2. CASE pc # "answered"
    BY <2>1, <2>2, StillAsking DEF reply
  <2>3. CASE pc = "answered"
    <3>1. PICK p \in Seq(Byte), W \in Seq(Byte) : \E a, b \in 0 .. Len(W) :
             /\ Says(told.type, told.value, p) /\ W = Frame(told.type, p)
             /\ a <= b /\ OnItsWay(W, a, b)
      BY <2>3, Picture
    <3>2. PICK a \in 0 .. Len(W), b \in 0 .. Len(W) : a <= b /\ OnItsWay(W, a, b)
      BY <3>1
    <3>3. OnItsWay(W, a, b)'
      BY <2>1, <3>2 DEF OnItsWay, Unwritten
    <3>4. cut' \in BOOLEAN /\ rd' \in {"reading", "returned", "failed"}
      BY <2>1 DEF ReplyInv
    <3> QED BY <2>1, <2>3, <3>1, <3>2, <3>3, <3>4, Repainted
  <2> QED BY <2>2, <2>3
<1> QED BY <1>1, <1>2, <1>3, <1>4, <1>5, <1>6, <1>7, <1>8, <1>9, <1>10, <1>11
     DEF Next, Server

-----------------------------------------------------------------------------
(* What the picture says of the variables.                                 *)
LEMMA PictureTyped ==
  ASSUME RequestInv, ReplyInv
  PROVE  WireTypeOK /\ HeardIsTold
<1>1. CASE pc # "answered"
  <2>1. out = <<>> /\ net = <<>> /\ got = <<>> /\ ~cut /\ rd = "reading"
    BY <1>1 DEF ReplyInv
  <2>2. Len(out) = 0 /\ net \in Seq(Byte) /\ got \in Seq(Byte) /\ Len(got) = 0
    BY <2>1
  <2>3. cut \in BOOLEAN
    BY DEF ReplyInv
  <2>4. HeardIsTold
    BY <2>1 DEF HeardIsTold
  <2>5. \A k \in 1 .. Len(out) : out[k] \in Seq(Byte)
    BY <2>2
  <2> QED BY <2>1, <2>2, <2>3, <2>4, <2>5 DEF RequestInv, WireTypeOK
<1>2. CASE pc = "answered"
  <2>1. PICK p \in Seq(Byte), W \in Seq(Byte) : \E a, b \in 0 .. Len(W) :
           /\ Says(told.type, told.value, p) /\ W = Frame(told.type, p)
           /\ a <= b /\ OnItsWay(W, a, b)
    BY <1>2, Picture
  <2>2. PICK a \in 0 .. Len(W), b \in 0 .. Len(W) : a <= b /\ OnItsWay(W, a, b)
    BY <2>1
  <2>3. /\ Len(W) = 5 + Len(p) /\ Len(p) \in Nat /\ 1 + Len(p) <= PROTO_MAX_FRAME
        /\ SubSeq(W, 6, Len(W)) = p
    BY <2>1, FrameIs
  <2>4. got = SubSeq(W, 1, a) /\ net = SubSeq(W, a + 1, b)
    BY <2>2 DEF OnItsWay
  <2>5. got \in Seq(Byte) /\ Len(got) = a
    BY <2>1, <2>4, GotIs
  <2>6. net \in Seq(Byte)
    <3>1. a + 1 \in 1 .. Len(W) + 1 /\ a + 1 <= b + 1
      BY <2>2, <2>3
    <3> QED BY <2>4, <3>1, Cut
  <2>7. Len(got) - 5 < PROTO_MAX_FRAME
    BY <2>3, <2>5, BytesAssumption
  <2>8. \A k \in 1 .. Len(out) : out[k] \in Seq(Byte)
    <3>1. CASE cut
      <4>1. Len(out) = 0
        BY <2>2, <3>1 DEF OnItsWay
      <4> QED BY <4>1
    <3>2. CASE ~cut
      <4>1. out \in Seq(Seq(Byte))
        BY <2>2, <3>2 DEF OnItsWay, Unwritten
      <4> QED BY <4>1
    <3> QED BY <3>1, <3>2
  <2>9. cut \in BOOLEAN /\ rd \in {"reading", "returned", "failed"}
    BY DEF ReplyInv
  <2>10. WireTypeOK
    BY <1>2, <2>5, <2>6, <2>7, <2>8, <2>9 DEF RequestInv, WireTypeOK
  <2>11. a = Len(W) => got = W /\ HeardPayload = p
    BY <2>3, <2>4, SubSeqFull DEF HeardPayload
  <2>12. rd = "returned" => /\ told.type \notin Refusals
                            /\ Heard(told.type, HeardPayload) = told.value
    BY <2>1, <2>2, <2>11 DEF OnItsWay, Says
  <2>13. ASSUME rd = "failed", ~cut PROVE Refused
    <3>1. told.type \in Refusals /\ a = Len(W)
      BY <2>2, <2>13 DEF OnItsWay
    <3>2. Len(p) = 0
      BY <2>1, <3>1, EmptySeq DEF Says
    <3>3. Len(got) = 5 /\ got[5] = told.type
      <4>1. W[5] = told.type
        BY <2>1, FrameIs
      <4> QED BY <2>3, <2>11, <3>1, <3>2, <4>1
    <3> QED BY <2>13, <3>1, <3>3 DEF Refused
  <2> QED BY <2>10, <2>12, <2>13 DEF HeardIsTold
<1> QED BY <1>1, <1>2

LEMMA WireInvariance == Spec => [](RequestInv /\ ReplyInv)
<1>1. Init => RequestInv /\ ReplyInv
  BY InitRequest, InitReply
<1>2. RequestInv /\ ReplyInv /\ [Next]_vars => (RequestInv /\ ReplyInv)'
  BY RequestKept, ReplyKept
<1> QED BY <1>1, <1>2, PTL DEF Spec

(* No byte is read behind the end of a payload, stored behind the end of a *)
(* coordinate's buffer or read into a frame's buffer that it does not fit  *)
(* (proto_read_ships, proto_read_frame).                                   *)
THEOREM WireTyped == Spec => []WireTypeOK
<1>1. RequestInv /\ ReplyInv => WireTypeOK
  BY PictureTyped
<1> QED BY <1>1, WireInvariance, PTL

(* A call that returns has the server's answer, whatever pieces it was     *)
(* written and read in, and fails only when the server refused or the      *)
(* connection broke: in particular no answer of the server is dismissed    *)
(* for its length or layout (proto_send_frame, proto_read_frame, the calls *)
(* of client.c).                                                           *)
THEOREM HeardAsTold == Spec => []HeardIsTold
<1>1. RequestInv /\ ReplyInv => HeardIsTold
  BY PictureTyped
<1> QED BY <1>1, WireInvariance, PTL
-----------------------------------------------------------------------------
(* A fleet in a payload.  Its ships lie one behind the other: at[k] bytes  *)
(* come before the k-th, and e up to the end of the last.                  *)
ShipAt(p, a, b, s) == CanReadShip(p, a) /\ b = AfterShip(p, a) /\ s = ReadShip(p, a)
Fleet(p, ships, at, e) ==
    /\ e \in 0 .. Len(p) /\ at \in [1 .. Len(ships) + 1 -> 0 .. Len(p)]
    /\ at[1] = 0 /\ at[Len(ships) + 1] = e
    /\ \A k \in 1 .. Len(ships) : ShipAt(p, at[k], at[k + 1], ships[k])

LEMMA Sizes == /\ PROTO_MAX_COORD \in Nat /\ PROTO_MAX_COORD >= 1 /\ PROTO_MAX_COORD < Base
               /\ SHIPS \in Nat /\ SHIPS >= 1
BY CodecAssumption, BaseAtLeast4

LEMMA ShipExtent ==
  ASSUME NEW p \in Seq(Byte), NEW a \in 0 .. Len(p), CanReadShip(p, a)
  PROVE  /\ p[a + 1] \in 1 .. PROTO_MAX_COORD /\ p[a + 1] \in Nat
         /\ AfterShip(p, a) = a + p[a + 1] + 3 /\ AfterShip(p, a) \in 0 .. Len(p)
         /\ ReadShip(p, a).coordinate = SubSeq(p, a + 2, a + 1 + p[a + 1])
         /\ ReadShip(p, a).coordinate \in Seq(Byte)
         /\ Len(ReadShip(p, a).coordinate) = p[a + 1]
         /\ ReadShip(p, a).length = p[AfterShip(p, a) - 1]
         /\ ReadShip(p, a).direction = p[AfterShip(p, a)]
<1> DEFINE n == p[a + 1]
           b == AfterShip(p, a)
           c == SubSeq(p, a + 2, a + 1 + n)
<1>1. n \in 1 .. PROTO_MAX_COORD /\ a + 1 + n + 2 <= Len(p)
  BY DEF CanReadShip, LegalCoordLen
<1>2. b = a + n + 3
  BY DEF AfterShip
<1>3. ReadShip(p, a) = [coordinate |-> c, length |-> At(p, b - 1), direction |-> At(p, b)]
  BY DEF ReadShip
<1> HIDE DEF n, b
<1>4. n \in Nat /\ b \in 0 .. Len(p) /\ b <= Len(p) /\ b - 1 <= Len(p)
  BY <1>1, <1>2, Sizes
<1>5. At(p, b - 1) = p[b - 1] /\ At(p, b) = p[b]
  BY <1>4 DEF At
<1>6. c \in Seq(Byte) /\ Len(c) = n
  <2>1. a + 2 \in 1 .. Len(p) + 1 /\ a + 1 + n \in 0 .. Len(p) /\ a + 2 <= (a + 1 + n) + 1
    BY <1>1, <1>4
  <2>2. (a + 1 + n) - (a + 2) + 1 = n
    BY <1>4
  <2> QED BY <2>1, <2>2, Cut
<1> HIDE DEF c
<1>7. /\ ReadShip(p, a).coordinate = c /\ ReadShip(p, a).length = p[b - 1]
      /\ ReadShip(p, a).direction = p[b]
  BY <1>3, <1>5
<1> QED BY <1>1, <1>2, <1>4, <1>6, <1>7 DEF n, b, c

(* What is read, written again, are the bytes it was read from.            *)
LEMMA ReadWritten ==
  ASSUME NEW p \in Seq(Byte), NEW a \in 0 .. Len(p), CanReadShip(p, a)
  PROVE  SubSeq(p, a + 1, AfterShip(p, a)) = WriteShip(ReadShip(p, a))
<1> DEFINE n == p[a + 1]
           b == AfterShip(p, a)
           s == ReadShip(p, a)
           h == SubSeq(p, a + 1, a + 1)
           c == SubSeq(p, (a + 1) + 1, a + 1 + n)
           t == SubSeq(p, (a + 1 + n) + 1, b)
<1>1. /\ n \in Nat /\ n \in 1 .. PROTO_MAX_COORD /\ b = a + n + 3 /\ b \in 0 .. Len(p)
      /\ s.coordinate = SubSeq(p, a + 2, a + 1 + n) /\ Len(s.coordinate) = n
      /\ s.length = p[b - 1] /\ s.direction = p[b]
  BY ShipExtent
<1> HIDE DEF n, b, s
<1>2. /\ a + 1 \in 0 .. Len(p) /\ a + 1 + n \in 0 .. Len(p)
      /\ a <= a + 1 /\ a + 1 <= a + 1 + n /\ a + 1 + n <= b /\ (a + 1) + 1 = a + 2
  BY <1>1
<1>3. h = <<U8(Len(s.coordinate))>>
  <2>1. h \in Seq(Byte) /\ Len(h) = 1 /\ h[1] = n
    <3> DEFINE m == a + 1
    <3>1. m \in 1 .. Len(p) + 1 /\ m \in 0 .. Len(p) /\ m <= m + 1 /\ m - m + 1 = 1 /\ m + 1 - 1 = m
      BY <1>2
    <3> HIDE DEF m
    <3>2. /\ SubSeq(p, m, m) \in Seq(Byte) /\ Len(SubSeq(p, m, m)) = m - m + 1
          /\ \A i \in 1 .. m - m + 1 : SubSeq(p, m, m)[i] = p[m + i - 1]
      BY <3>1, Cut
    <3>3. SubSeq(p, m, m)[1] = p[m + 1 - 1]
      BY <3>1, <3>2
    <3>4. SubSeq(p, m, m) \in Seq(Byte) /\ Len(SubSeq(p, m, m)) = 1 /\ SubSeq(p, m, m)[1] = p[m]
      BY <3>1, <3>2, <3>3
    <3> QED BY <3>4 DEF m, n
  <2> DEFINE u == <<U8(Len(s.coordinate))>>
  <2>2. U8(n) = n /\ n \in Byte
    <3>1. n \in Byte
      <4>1. n \in Nat /\ n <= PROTO_MAX_COORD
        BY <1>1
      <4> QED BY <4>1, Sizes, BaseAtLeast4 DEF Byte
    <3> QED BY <3>1, U8Same
  <2>3. u \in Seq(Byte) /\ Len(u) = 1 /\ u[1] = n
    BY <1>1, <2>2
  <2> HIDE DEF h, u
  <2>4. Len(h) = Len(u) /\ \A i \in 1 .. Len(h) : h[i] = u[i]
    BY <2>1, <2>3
  <2>5. h = u
    BY <2>1, <2>3, <2>4, SeqEqual
  <2> QED BY <2>5 DEF u
<1>4. t = <<s.length, U8(s.direction)>>
  <2>1. t \in Seq(Byte) /\ Len(t) = 2 /\ t[1] = p[b - 1] /\ t[2] = p[b]
    <3> DEFINE m == (a + 1 + n) + 1
    <3>1. m \in 1 .. Len(p) + 1 /\ m <= b + 1 /\ b - m + 1 = 2 /\ m + 1 - 1 = b - 1 /\ m + 2 - 1 = b
      BY <1>1
    <3> HIDE DEF m
    <3>2. /\ SubSeq(p, m, b) \in Seq(Byte) /\ Len(SubSeq(p, m, b)) = b - m + 1
          /\ \A i \in 1 .. b - m + 1 : SubSeq(p, m, b)[i] = p[m + i - 1]
      <4>1. b \in 0 .. Len(p) /\ m \in 1 .. Len(p) + 1 /\ m <= b + 1
        BY <1>1, <3>1
      <4> QED BY <4>1, Cut
    <3>3. 1 \in 1 .. b - m + 1 /\ 2 \in 1 .. b - m + 1
      BY <3>1
    <3>4. SubSeq(p, m, b)[1] = p[m + 1 - 1] /\ SubSeq(p, m, b)[2] = p[m + 2 - 1]
      BY <3>2, <3>3
    <3>5. /\ SubSeq(p, m, b) \in Seq(Byte) /\ Len(SubSeq(p, m, b)) = 2
          /\ SubSeq(p, m, b)[1] = p[b - 1] /\ SubSeq(p, m, b)[2] = p[b]
      BY <3>1, <3>2, <3>4
    <3> QED BY <3>5 DEF m
  <2> DEFINE u == <<s.length, U8(s.direction)>>
  <2>2. p[b - 1] \in Byte /\ p[b] \in Byte
    <3>1. b - 1 \in 1 .. Len(p) /\ b \in 1 .. Len(p)
      BY <1>1
    <3> QED BY <3>1
  <2>3. u \in Seq(Byte) /\ Len(u) = 2 /\ u[1] = p[b - 1] /\ u[2] = p[b]
    BY <1>1, <2>2, U8Same
  <2> HIDE DEF t, u
  <2>4. Len(t) = Len(u) /\ \A i \in 1 .. Len(t) : t[i] = u[i]
    BY <2>1, <2>3
  <2>5. t = u
    BY <2>1, <2>3, <2>4, SeqEqual
  <2> QED BY <2>5 DEF u
<1>5. h \o c = SubSeq(p, a + 1, a + 1 + n)
  BY <1>1, <1>2, CutsJoin
<1>6. SubSeq(p, a + 1, a + 1 + n) \o t = SubSeq(p, a + 1, b)
  <2>1. a <= a + 1 + n
    BY <1>1
  <2> QED BY <1>1, <1>2, <2>1, CutsJoin
<1>7. c = s.coordinate
  BY <1>1, <1>2
<1> HIDE DEF h, c, t
<1>8. WriteShip(s) = (h \o c) \o t
  BY <1>3, <1>4, <1>7 DEF WriteShip, proto_write_coord
<1> QED BY <1>5, <1>6, <1>8 DEF b, s, t

(* What the library appends is read again as what it was.                  *)
LEMMA WrittenRead ==
  ASSUME NEW q \in Seq(Byte), NEW s \in Ships, LegalCoordLen(Len(s.coordinate)),
         NEW p, p = q \o WriteShip(s)
  PROVE  /\ p \in Seq(Byte) /\ Len(p) = Len(q) + Len(s.coordinate) + 3
         /\ \A i \in 1 .. Len(q) : p[i] = q[i]
         /\ ShipAt(p, Len(q), Len(p), s)
<1> DEFINE c == s.coordinate
           n == Len(c)
           a == Len(q)
           h == <<U8(n)>>
           t == <<s.length, U8(s.direction)>>
           hc == h \o c
           w == hc \o t
<1>1. s = [coordinate |-> c, length |-> s.length, direction |-> s.direction]
  BY DEF Ships
<1>2. /\ c \in Seq(Byte) /\ s.length \in Byte /\ s.direction \in Byte
      /\ U8(s.direction) = s.direction
  <2>1. c \in Strings /\ s.length \in Byte /\ s.direction \in Byte
    BY WireAssumption DEF Ships
  <2> QED BY <2>1, StringIsSeq, U8Same
<1>3. n \in 1 .. PROTO_MAX_COORD /\ n \in Nat /\ a \in Nat
  BY Sizes DEF LegalCoordLen
<1>4. U8(n) = n /\ n \in Byte
  <2>1. n \in Byte
    BY <1>3, Sizes, BaseAtLeast4 DEF Byte
  <2> QED BY <2>1, U8Same
<1>5. WriteShip(s) = w
  BY DEF WriteShip, proto_write_coord
<1> HIDE DEF n, a
<1>6. h \in Seq(Byte) /\ Len(h) = 1 /\ h[1] = n
  BY <1>4
<1>7. t \in Seq(Byte) /\ Len(t) = 2 /\ t[1] = s.length /\ t[2] = s.direction
  BY <1>2
<1>8. n = Len(c) /\ a = Len(q)
  BY DEF n, a
<1> HIDE DEF c, h, t
<1>9. /\ hc \in Seq(Byte) /\ Len(hc) = 1 + n /\ hc[1] = n
      /\ \A i \in 1 .. n : hc[1 + i] = c[i]
  <2>1. /\ hc \in Seq(Byte) /\ Len(hc) = Len(h) + Len(c)
        /\ \A i \in 1 .. Len(h) : hc[i] = h[i]
    BY <1>2, <1>6, Joined
  <2>2. \A i \in 1 .. Len(c) : hc[Len(h) + i] = c[i]
    <3> HIDE DEF hc
    <3>1. hc = h \o c
      BY DEF hc
    <3>2. h \in Seq(Byte) /\ c \in Seq(Byte)
      BY <1>2, <1>6
    <3> QED BY <3>1, <3>2, JoinedBack
  <2> QED BY <2>1, <2>2, <1>6, <1>8
<1> HIDE DEF hc
<1>10. /\ w \in Seq(Byte) /\ Len(w) = n + 3 /\ w[1] = n
       /\ \A i \in 1 .. n : w[1 + i] = c[i]
       /\ w[n + 2] = s.length /\ w[n + 3] = s.direction
  <2>1. /\ w \in Seq(Byte) /\ Len(w) = Len(hc) + Len(t)
        /\ \A i \in 1 .. Len(hc) : w[i] = hc[i]
    BY <1>7, <1>9, Joined
  <2>2. \A i \in 1 .. Len(t) : w[Len(hc) + i] = t[i]
    <3> HIDE DEF w
    <3>1. w = hc \o t
      BY DEF w
    <3>2. hc \in Seq(Byte) /\ t \in Seq(Byte)
      BY <1>7, <1>9
    <3> QED BY <3>1, <3>2, JoinedBack
  <2>3. Len(w) = n + 3
    BY <2>1, <1>3, <1>7, <1>9
  <2>4. /\ 1 \in 1 .. 1 + n /\ \A i \in 1 .. n : 1 + i \in 1 .. 1 + n
    BY <1>3
  <2>5. w[(1 + n) + 1] = t[1] /\ w[(1 + n) + 2] = t[2]
    <3>1. 1 \in 1 .. Len(t) /\ 2 \in 1 .. Len(t) /\ Len(hc) = 1 + n
      BY <1>7, <1>9
    <3>2. w[Len(hc) + 1] = t[1] /\ w[Len(hc) + 2] = t[2]
      BY <2>2, <3>1
    <3> QED BY <3>1, <3>2
  <2>6. (1 + n) + 1 = n + 2 /\ (1 + n) + 2 = n + 3
    BY <1>3
  <2>7. w[n + 2] = s.length /\ w[n + 3] = s.direction
    BY <2>5, <2>6, <1>7
  <2>8. w[1] = n /\ \A i \in 1 .. n : w[1 + i] = c[i]
    BY <2>1, <2>4, <1>9
  <2> QED BY <2>1, <2>3, <2>7, <2>8
<1> HIDE DEF w
<1>11. /\ p \in Seq(Byte) /\ Len(p) = a + n + 3
       /\ \A i \in 1 .. a : p[i] = q[i]
       /\ \A i \in 1 .. n + 3 : p[a + i] = w[i]
  <2>1. p = q \o w
    BY <1>5
  <2>2. w \in Seq(Byte) /\ Len(w) = n + 3
    BY <1>10
  <2>3. /\ p \in Seq(Byte) /\ Len(p) = Len(q) + Len(w)
        /\ \A i \in 1 .. Len(q) : p[i] = q[i]
    <3>1. /\ q \o w \in Seq(Byte) /\ Len(q \o w) = Len(q) + Len(w)
          /\ \A i \in 1 .. Len(q) : (q \o w)[i] = q[i]
      BY <2>2, Joined
    <3> QED BY <2>1, <3>1
  <2>4. \A i \in 1 .. Len(w) : p[Len(q) + i] = w[i]
    BY <2>1, <2>2, JoinedBack
  <2>5. Len(q) + Len(w) = a + n + 3
    BY <2>2, <1>3, <1>8
  <2> QED BY <2>2, <2>3, <2>4, <2>5, <1>8
<1>12. /\ p[a + 1] = n /\ p[a + n + 2] = s.length /\ p[a + n + 3] = s.direction
       /\ \A i \in 1 .. n : p[a + 1 + i] = c[i]
  <2>1. /\ 1 \in 1 .. n + 3 /\ n + 2 \in 1 .. n + 3 /\ n + 3 \in 1 .. n + 3
        /\ a + (n + 2) = a + n + 2 /\ a + (n + 3) = a + n + 3
        /\ \A i \in 1 .. n : 1 + i \in 1 .. n + 3 /\ a + (1 + i) = a + 1 + i
    BY <1>3
  <2>2. p[a + 1] = w[1] /\ p[a + (n + 2)] = w[n + 2] /\ p[a + (n + 3)] = w[n + 3]
    BY <2>1, <1>11
  <2>3. ASSUME NEW i \in 1 .. n PROVE p[a + 1 + i] = c[i]
    <3>1. p[a + (1 + i)] = w[1 + i]
      BY <2>1, <1>11
    <3> QED BY <2>1, <3>1, <1>10
  <2> QED BY <2>1, <2>2, <2>3, <1>10
<1>13. CanReadShip(p, a) /\ a \in 0 .. Len(p)
  <2>1. a + 1 <= Len(p) /\ a + 1 + n + 2 <= Len(p) /\ a \in 0 .. Len(p)
    BY <1>3, <1>11
  <2> QED BY <2>1, <1>3, <1>12 DEF CanReadShip, LegalCoordLen
<1>14. AfterShip(p, a) = Len(p)
  <2>1. AfterShip(p, a) = a + p[a + 1] + 3
    BY DEF AfterShip
  <2> QED BY <2>1, <1>11, <1>12
<1>15. SubSeq(p, a + 2, a + 1 + n) = c
  <2> DEFINE u == SubSeq(p, a + 2, a + 1 + n)
  <2>1. /\ u \in Seq(Byte) /\ Len(u) = (a + 1 + n) - (a + 2) + 1
        /\ \A i \in 1 .. (a + 1 + n) - (a + 2) + 1 : u[i] = p[(a + 2) + i - 1]
    <3>1. a + 2 \in 1 .. Len(p) + 1 /\ a + 1 + n \in 0 .. Len(p) /\ a + 2 <= (a + 1 + n) + 1
      BY <1>3, <1>11
    <3>2. p \in Seq(Byte)
      BY <1>11
    <3> QED BY <3>1, <3>2, Cut
  <2>2. (a + 1 + n) - (a + 2) + 1 = n /\ \A i \in 1 .. n : (a + 2) + i - 1 = a + 1 + i
    BY <1>3
  <2> HIDE DEF u
  <2>3. Len(u) = n /\ \A i \in 1 .. n : u[i] = p[a + 1 + i]
    BY <2>1, <2>2
  <2>4. Len(u) = Len(c) /\ \A i \in 1 .. Len(u) : u[i] = c[i]
    BY <2>3, <1>8, <1>12
  <2>5. u = c
    BY <2>1, <2>4, <1>2, SeqEqual
  <2> QED BY <2>5 DEF u
<1>16. ReadShip(p, a) = s
  <2>1. At(p, Len(p) - 1) = s.length /\ At(p, Len(p)) = s.direction
    <3>1. Len(p) - 1 = a + n + 2 /\ Len(p) = a + n + 3 /\ Len(p) - 1 <= Len(p) /\ Len(p) <= Len(p)
      BY <1>3, <1>11
    <3> QED BY <3>1, <1>12 DEF At
  <2>2. ReadShip(p, a) = [coordinate |-> SubSeq(p, a + 2, a + 1 + n),
                          length |-> At(p, Len(p) - 1), direction |-> At(p, Len(p))]
    BY <1>12, <1>14 DEF ReadShip
  <2> QED BY <1>1, <1>15, <2>1, <2>2
<1>17. Len(p) = Len(q) + Len(s.coordinate) + 3
  BY <1>8, <1>11 DEF c
<1> QED BY <1>8, <1>11, <1>13, <1>14, <1>16, <1>17 DEF ShipAt

(* What is appended later does not change a ship.                          *)
LEMMA ShipStays ==
  ASSUME NEW p \in Seq(Byte), NEW p2 \in Seq(Byte), Len(p) <= Len(p2),
         \A i \in 1 .. Len(p) : p2[i] = p[i],
         NEW a \in 0 .. Len(p), NEW b, NEW s, ShipAt(p, a, b, s)
  PROVE  ShipAt(p2, a, b, s)
<1> DEFINE n == p[a + 1]
           e == AfterShip(p, a)
<1>1. /\ n \in 1 .. PROTO_MAX_COORD /\ n \in Nat /\ e = a + n + 3 /\ e \in 0 .. Len(p)
  BY ShipExtent DEF ShipAt
<1>2. CanReadShip(p, a) /\ s = ReadShip(p, a) /\ b = e
  BY DEF ShipAt
<1>3. p2[a + 1] = n
  <2>1. a + 1 \in 1 .. Len(p)
    BY <1>1
  <2> QED BY <2>1
<1>4. AfterShip(p2, a) = e
  BY <1>1, <1>3 DEF AfterShip
<1> HIDE DEF n, e
<1>5. CanReadShip(p2, a)
  <2>1. a + 1 <= Len(p2) /\ a + 1 + n + 2 <= Len(p2)
    BY <1>1
  <2> QED BY <2>1, <1>1, <1>3 DEF CanReadShip, LegalCoordLen
<1>6. At(p2, e - 1) = At(p, e - 1) /\ At(p2, e) = At(p, e)
  <2>1. /\ e - 1 \in 1 .. Len(p) /\ e \in 1 .. Len(p) /\ e - 1 <= Len(p) /\ e <= Len(p)
        /\ e - 1 <= Len(p2) /\ e <= Len(p2)
    BY <1>1
  <2> QED BY <2>1 DEF At
<1>7. SubSeq(p2, a + 2, a + 1 + n) = SubSeq(p, a + 2, a + 1 + n)
  <2> DEFINE m == a + 2
             j == a + 1 + n
             x == SubSeq(p, m, j)
             y == SubSeq(p2, m, j)
  <2>1. /\ m \in 1 .. Len(p) + 1 /\ j \in 0 .. Len(p) /\ m <= j + 1
        /\ m \in 1 .. Len(p2) + 1 /\ j \in 0 .. Len(p2)
    BY <1>1
  <2> HIDE DEF m, j
  <2>2. /\ x \in Seq(Byte) /\ Len(x) = j - m + 1
        /\ \A i \in 1 .. j - m + 1 : x[i] = p[m + i - 1]
    BY <2>1, Cut
  <2>3. /\ y \in Seq(Byte) /\ Len(y) = j - m + 1
        /\ \A i \in 1 .. j - m + 1 : y[i] = p2[m + i - 1]
    BY <2>1, Cut
  <2> HIDE DEF x, y
  <2>4. \A i \in 1 .. j - m + 1 : m + i - 1 \in 1 .. Len(p)
    BY <2>1
  <2>5. Len(x) = Len(y) /\ \A i \in 1 .. Len(y) : y[i] = x[i]
    BY <2>2, <2>3, <2>4
  <2>6. y = x
    BY <2>2, <2>3, <2>5, SeqEqual
  <2> QED BY <2>6 DEF x, y, m, j
<1>8. ReadShip(p2, a) = ReadShip(p, a)
  <2>1. ReadShip(p2, a) = [coordinate |-> SubSeq(p2, a + 2, a + 1 + n),
                           length |-> At(p2, e - 1), direction |-> At(p2, e)]
    BY <1>3, <1>4 DEF ReadShip
  <2>2. ReadShip(p, a) = [coordinate |-> SubSeq(p, a + 2, a + 1 + n),
                          length |-> At(p, e - 1), direction |-> At(p, e)]
    BY DEF ReadShip, n, e
  <2> QED BY <2>1, <2>2, <1>6, <1>7
<1> QED BY <1>2, <1>4, <1>5, <1>8 DEF ShipAt

LEMMA FleetStays ==
  ASSUME NEW p \in Seq(Byte), NEW p2 \in Seq(Byte), Len(p) <= Len(p2),
         \A i \in 1 .. Len(p) : p2[i] = p[i],
         NEW S, NEW ships \in Seq(S), NEW at, NEW e, Fleet(p, ships, at, e)
  PROVE  Fleet(p2, ships, at, e)
<1>1. e \in 0 .. Len(p2) /\ at \in [1 .. Len(ships) + 1 -> 0 .. Len(p2)]
  <2>1. e \in 0 .. Len(p) /\ at \in [1 .. Len(ships) + 1 -> 0 .. Len(p)]
    BY DEF Fleet
  <2>2. 0 .. Len(p) \subseteq 0 .. Len(p2)
    OBVIOUS
  <2> QED BY <2>1, <2>2
<1>2. ASSUME NEW k \in 1 .. Len(ships) PROVE ShipAt(p2, at[k], at[k + 1], ships[k])
  <2>1. ShipAt(p, at[k], at[k + 1], ships[k])
    BY DEF Fleet
  <2>2. at[k] \in 0 .. Len(p)
    <3>1. k \in 1 .. Len(ships) + 1 /\ at \in [1 .. Len(ships) + 1 -> 0 .. Len(p)]
      BY DEF Fleet
    <3> QED BY <3>1
  <2> QED BY <2>1, <2>2, ShipStays
<1> QED BY <1>1, <1>2 DEF Fleet

LEMMA NoShips ==
  ASSUME NEW p \in Seq(Byte)
  PROVE  \E at : Fleet(p, <<>>, at, 0)
<1> DEFINE at == [k \in 1 .. 1 |-> 0]
<1>1. 0 \in 0 .. Len(p) /\ at \in [1 .. 1 -> 0 .. Len(p)] /\ at[1] = 0
  OBVIOUS
<1>2. Len(<<>>) = 0 /\ Len(<<>>) + 1 = 1 /\ \A k \in 1 .. 0 : FALSE
  OBVIOUS
<1> HIDE DEF at
<1>3. Fleet(p, <<>>, at, 0)
  BY <1>1, <1>2 DEF Fleet
<1> QED BY <1>3

(* A ship more.                                                            *)
LEMMA FleetMore ==
  ASSUME NEW p \in Seq(Byte), NEW S, NEW ships \in Seq(S), NEW at, NEW a, Fleet(p, ships, at, a),
         NEW s \in S, NEW b, ShipAt(p, a, b, s)
  PROVE  \E at2 : Fleet(p, Append(ships, s), at2, b)
<1> DEFINE m == Len(ships)
           more == Append(ships, s)
           at2 == [k \in 1 .. m + 2 |-> IF k = m + 2 THEN b ELSE at[k]]
<1>1. m \in Nat
  OBVIOUS
<1>2. /\ more \in Seq(S) /\ Len(more) = m + 1 /\ more[m + 1] = s
      /\ \A k \in 1 .. m : more[k] = ships[k]
  BY AppendProperties
<1>3. /\ a \in 0 .. Len(p) /\ at \in [1 .. m + 1 -> 0 .. Len(p)] /\ at[1] = 0 /\ at[m + 1] = a
      /\ \A k \in 1 .. m : ShipAt(p, at[k], at[k + 1], ships[k])
  BY DEF Fleet
<1>4. b \in 0 .. Len(p)
  BY <1>3, ShipExtent DEF ShipAt
<1> HIDE DEF m, more
<1>5. at2 \in [1 .. m + 2 -> 0 .. Len(p)]
  BY <1>1, <1>3, <1>4
<1>6. at2[m + 2] = b /\ \A k \in 1 .. m + 1 : at2[k] = at[k]
  BY <1>1
<1> HIDE DEF at2
<1>7. ASSUME NEW k \in 1 .. m + 1 PROVE ShipAt(p, at2[k], at2[k + 1], more[k])
  <2>1. CASE k = m + 1
    <3>1. at2[k] = a /\ at2[k + 1] = b /\ more[k] = s
      BY <1>1, <1>2, <1>3, <1>6, <2>1
    <3> QED BY <3>1
  <2>2. CASE k # m + 1
    <3>1. k \in 1 .. m /\ k + 1 \in 1 .. m + 1
      BY <1>1, <2>2
    <3>2. at2[k] = at[k] /\ at2[k + 1] = at[k + 1] /\ more[k] = ships[k]
      BY <1>2, <1>6, <3>1
    <3> QED BY <1>3, <3>1, <3>2
  <2> QED BY <2>1, <2>2
<1>8. at2[1] = 0
  BY <1>1, <1>3, <1>6
<1>9. Len(more) + 1 = m + 2 /\ 1 .. Len(more) = 1 .. m + 1
  BY <1>1, <1>2
<1>10. Fleet(p, more, at2, b)
  BY <1>4, <1>5, <1>6, <1>7, <1>8, <1>9 DEF Fleet
<1> QED BY <1>10 DEF more

-----------------------------------------------------------------------------
(* What proto_read_ships has read so far is what lies before pos, and why  *)
(* it has ended.                                                           *)
ReadInv ==
    /\ pc \in {"SHIPS", "placed", "noFleet"} =>
          /\ read \in Seq(Ship) /\ Len(read) <= SHIPS
          /\ \E at : Fleet(payload, read, at, pos)
    /\ pc = "placed" => Len(read) = SHIPS /\ AllRead
    /\ pc = "noFleet" => \/ Len(read) < SHIPS /\ ~CanReadShip(payload, pos)
                         \/ Len(read) = SHIPS /\ ~AllRead

LEMMA ReadKept == RequestInv /\ ReadInv /\ [Next]_vars => ReadInv'
<1> SUFFICES ASSUME RequestInv, ReadInv, [Next]_vars PROVE ReadInv'
  OBVIOUS
<1>1. payload \in Seq(Byte) /\ pos \in 0 .. Len(payload) /\ SHIPS \in Nat /\ SHIPS >= 1
  BY Sizes DEF RequestInv
<1>2. ASSUME pc' \notin {"SHIPS", "placed", "noFleet"} PROVE ReadInv'
  BY <1>2 DEF ReadInv
<1>3. ASSUME pc' = pc, UNCHANGED request PROVE ReadInv'
  BY <1>3 DEF ReadInv, request, AllRead
<1>4. ASSUME pc' = "SHIPS", payload' \in Seq(Byte), read' = <<>>, pos' = 0 PROVE ReadInv'
  <2>1. \E at : Fleet(payload', <<>>, at, 0)
    BY <1>4, NoShips
  <2>2. <<>> \in Seq(Ship) /\ Len(<<>>) = 0
    BY EmptySeq
  <2>3. Len(<<>>) <= SHIPS
    BY <1>1, <2>2
  <2> QED BY <1>4, <2>1, <2>2, <2>3 DEF ReadInv
<1>5. CASE WriteNextShip
  BY <1>2, <1>5 DEF WriteNextShip
<1>6. CASE client_send_ships
  <2>1. pc' = "SHIPS" /\ payload' = payload /\ read' = <<>> /\ pos' = 0
    BY <1>6 DEF client_send_ships, request, RequestInv
  <2> QED BY <1>1, <1>4, <2>1
<1>7. CASE client_send_move
  BY <1>2, <1>7 DEF client_send_move, Sent
<1>8. CASE AnyProgram
  <2>1. CASE \E p \in UpTo(MaxPayload, Octets) : Sent("SHIPS", <<>>, p)
    <3>1. PICK p \in UpTo(MaxPayload, Octets) : Sent("SHIPS", <<>>, p)
      BY <2>1
    <3>2. p \in Seq(Byte)
      BY WireAssumption, UpToOctets
    <3>3. read = <<>> /\ pos = 0
      BY <1>8 DEF AnyProgram, RequestInv
    <3> QED BY <1>4, <3>1, <3>2, <3>3 DEF Sent
  <2>2. CASE \E p \in UpTo(CoordBuf, Octets) : Sent("MOVE", <<>>, p)
    BY <1>2, <2>2 DEF Sent
  <2> QED BY <1>8, <2>1, <2>2 DEF AnyProgram
<1>9. CASE ParseShip
  <2> DEFINE ship == ReadShip(payload, pos)
  <2>1. /\ pc = "SHIPS" /\ Len(read) < SHIPS /\ CanReadShip(payload, pos)
        /\ read' = Append(read, ship) /\ pos' = AfterShip(payload, pos)
        /\ pc' = pc /\ payload' = payload
    BY <1>9 DEF ParseShip
  <2>2. ship \in Ship
    BY <1>1, <2>1, ReadShipIsShip
  <2>3. ShipAt(payload, pos, pos', ship)
    BY <2>1 DEF ShipAt
  <2> HIDE DEF ship
  <2>4. read \in Seq(Ship) /\ \E at : Fleet(payload, read, at, pos)
    BY <2>1 DEF ReadInv
  <2>5. \E at : Fleet(payload, Append(read, ship), at, pos')
    BY <1>1, <2>2, <2>3, <2>4, FleetMore
  <2>6. read' \in Seq(Ship) /\ Len(read') = Len(read) + 1
    BY <2>1, <2>2, <2>4, AppendProperties
  <2>7. Len(read') <= SHIPS
    BY <1>1, <2>1, <2>4, <2>6
  <2> QED BY <2>1, <2>5, <2>6, <2>7 DEF ReadInv
<1>10. CASE ParseEnds
  BY <1>10 DEF ParseEnds, ReadInv, request, AllRead
<1>11. CASE ParseMove
  BY <1>2, <1>11 DEF ParseMove
<1>12. CASE ParseFails
  BY <1>12 DEF ParseFails, ReadInv, request, AllRead
<1>13. CASE OutOfPhase \/ Malformed \/ PlaceShips \/ Rival \/ MoveResult \/ MoveExtResult \/ notify_opponent_move
  BY <1>2, <1>13 DEF OutOfPhase, Malformed, PlaceShips, Rival, Refuse, Ack, MoveResult, MoveExtResult, notify_opponent_move, Answer
<1>14. CASE write_exact \/ Break \/ Reader \/ UNCHANGED vars
  BY <1>3, <1>14 DEF write_exact, Break, Reader, read_exact, Return, ReadFails, vars
<1> QED BY <1>5, <1>6, <1>7, <1>8, <1>9, <1>10, <1>11, <1>12, <1>13, <1>14 DEF Next, Caller, Server

(* A fleet that fills its payload is encoded by it.                        *)
LEMMA FleetEncoded ==
  ASSUME NEW p \in Seq(Byte), NEW ships \in Seq(Ship), Len(ships) = SHIPS,
         NEW at, Fleet(p, ships, at, Len(p))
  PROVE  Encoded(ships) = p
<1> DEFINE N == SHIPS + 1
           Eq(g) == g = [k \in 1 .. N |-> IF k > SHIPS THEN <<>> ELSE WriteShip(ships[k]) \o g[k + 1]]
           from == CHOOSE g : Eq(g)
           stop == {N}
           head == [k \in 1 .. N |-> WriteShip(ships[k])]
           next == [k \in 1 .. N |-> k + 1]
           tails == [k \in 1 .. N |-> SubSeq(p, at[k] + 1, Len(p))]
<1>1. Encoded(ships) = from[1]
  BY DEF Encoded
<1>2. N \in Nat /\ N = SHIPS + 1 /\ 1 \in 1 .. N /\ N \in 1 .. N
  BY Sizes
<1>3. /\ at \in [1 .. N -> 0 .. Len(p)] /\ at[1] = 0 /\ at[N] = Len(p)
      /\ \A k \in 1 .. SHIPS : ShipAt(p, at[k], at[k + 1], ships[k])
  BY DEF Fleet
<1>4. \A k \in 1 .. N : k \notin stop => next[k] = k + 1 /\ next[k] \in 1 .. N
  BY <1>2
<1>5. ASSUME NEW g PROVE Eq(g) <=> Walks(g, 1, N, stop, head, next)
  <2>1. \A k \in 1 .. N : /\ k > SHIPS <=> k \in stop
                          /\ head[k] = WriteShip(ships[k]) /\ next[k] = k + 1
    BY <1>2
  <2> HIDE DEF N, stop, head, next
  <2>2. [k \in 1 .. N |-> IF k > SHIPS THEN <<>> ELSE WriteShip(ships[k]) \o g[k + 1]]
          = [k \in 1 .. N |-> IF k \in stop THEN <<>> ELSE head[k] \o g[next[k]]]
    BY <2>1
  <2> QED BY <2>2 DEF Walks
<1>6. ASSUME NEW k \in 1 .. SHIPS
      PROVE  tails[k] = WriteShip(ships[k]) \o tails[k + 1]
  <2> DEFINE a == at[k]
             b == at[k + 1]
  <2>1. k \in 1 .. N /\ k + 1 \in 1 .. N
    BY <1>2
  <2>2. a \in 0 .. Len(p) /\ b \in 0 .. Len(p) /\ ShipAt(p, a, b, ships[k])
    BY <1>3, <2>1
  <2>3. tails[k] = SubSeq(p, a + 1, Len(p)) /\ tails[k + 1] = SubSeq(p, b + 1, Len(p))
    BY <2>1
  <2> HIDE DEF a, b, tails
  <2>4. SubSeq(p, a + 1, b) = WriteShip(ships[k])
    BY <2>2, ReadWritten DEF ShipAt
  <2>5. a <= b
    BY <2>2, ShipExtent DEF ShipAt
  <2>6. SubSeq(p, a + 1, b) \o SubSeq(p, b + 1, Len(p)) = SubSeq(p, a + 1, Len(p))
    <3>1. Len(p) \in 0 .. Len(p) /\ b <= Len(p)
      BY <2>2
    <3> QED BY <2>2, <2>5, <3>1, CutsJoin
  <2> QED BY <2>3, <2>4, <2>6
<1>7. tails[N] = <<>>
  <2>1. tails[N] = SubSeq(p, Len(p) + 1, Len(p))
    BY <1>2, <1>3
  <2> HIDE DEF tails
  <2>2. SubSeq(p, Len(p) + 1, Len(p)) = <<>>
    BY SubSeqEmpty
  <2> QED BY <2>1, <2>2
<1>8. Eq(tails)
  <2> DEFINE h == [k \in 1 .. N |-> IF k > SHIPS THEN <<>> ELSE WriteShip(ships[k]) \o tails[k + 1]]
  <2>1. tails = [k \in 1 .. N |-> tails[k]]
    OBVIOUS
  <2> HIDE DEF tails
  <2>2. ASSUME NEW k \in 1 .. N
        PROVE  tails[k] = IF k > SHIPS THEN <<>> ELSE WriteShip(ships[k]) \o tails[k + 1]
    <3>1. CASE k = N
      BY <1>2, <1>7, <3>1
    <3>2. CASE k # N
      <4>1. k \in 1 .. SHIPS /\ ~(k > SHIPS)
        BY <1>2, <3>2
      <4> QED BY <1>6, <4>1
    <3> QED BY <3>1, <3>2
  <2>3. tails = h
    BY <2>1, <2>2
  <2> QED BY <2>3
<1> HIDE DEF Eq, N, stop, head, next, tails
<1>9. Eq(from)
  BY <1>8
<1> HIDE DEF from
<1>10. from = tails
  BY <1>2, <1>4, <1>5, <1>8, <1>9, WalkUnique
<1>11. tails[1] = p
  <2>1. tails[1] = SubSeq(p, 0 + 1, Len(p))
    BY <1>2, <1>3 DEF tails
  <2> QED BY <2>1, SubSeqFull
<1> QED BY <1>1, <1>10, <1>11

(* CutInto cuts at the places that Starts gives.                           *)
Places(from, n) ==
    /\ from[1] = 1 /\ \A k \in 1 .. SHIPS : from[k + 1] = from[k] + n[k] + 3
    /\ \A k \in 1 .. SHIPS + 1 : from[k] \in Nat /\ from[k] <= from[SHIPS + 1]
CutAt(p, n, from) == /\ from[SHIPS + 1] = Len(p) + 1
                     /\ \A k \in 1 .. SHIPS : p[from[k]] = n[k]

LEMMA CutIntoStarts ==
  ASSUME NEW p, NEW n \in [1 .. SHIPS -> 1 .. PROTO_MAX_COORD]
  PROVE  \E from : Places(from, n) /\ (CutInto(p, n) <=> CutAt(p, n, from))
<1> DEFINE from == CHOOSE g : Starts(g, SHIPS + 1, n)
<1>1. CutInto(p, n) <=> CutAt(p, n, from)
  BY DEF CutInto, CutAt, Starts
<1>2. SHIPS \in Nat /\ SHIPS + 1 \in Nat /\ n \in [1 .. SHIPS -> Nat]
  BY Sizes
<1>3. Starts(from, SHIPS + 1, n)
  BY <1>2, StartsExist
<1> HIDE DEF from
<1>4. Places(from, n)
  BY <1>2, <1>3, StartsGrow DEF Places
<1> QED BY <1>1, <1>4

(* Any cut into pieces that agrees with the lengths in the payload agrees  *)
(* with the ships that have been read: they were read from the left, so    *)
(* there is only one way to cut.                                           *)
Follows(p, n, from, m) == /\ from[1] = 1
                          /\ \A k \in 1 .. m : from[k + 1] = from[k] + n[k] + 3 /\ p[from[k]] = n[k]

LEMMA CutAgrees ==
  ASSUME NEW p \in Seq(Byte), NEW ships \in Seq(Ship), Len(ships) <= SHIPS,
         NEW at, NEW e, Fleet(p, ships, at, e),
         NEW n, NEW from, Follows(p, n, from, Len(ships))
  PROVE  \A k \in 1 .. Len(ships) + 1 : from[k] = at[k] + 1
<1> DEFINE m == Len(ships)
           Z == {k \in 1 .. m + 1 : from[k] = at[k] + 1}
<1>1. m \in Nat /\ m + 1 \in Nat /\ 1 \in Nat /\ 1 \in 1 .. m + 1
  OBVIOUS
<1>2. 1 \in Z
  BY <1>1 DEF Fleet, Follows
<1>3. ASSUME NEW k \in 1 .. (m + 1) - 1, k \in Z PROVE k + 1 \in Z
  <2>1. k \in 1 .. m /\ k \in 1 .. m + 1 /\ k + 1 \in 1 .. m + 1 /\ from[k] = at[k] + 1
    BY <1>1, <1>3
  <2>2. at[k] \in 0 .. Len(p) /\ ShipAt(p, at[k], at[k + 1], ships[k])
    BY <2>1 DEF Fleet
  <2>3. at[k + 1] = at[k] + p[at[k] + 1] + 3 /\ p[at[k] + 1] \in Nat
    BY <2>2, ShipExtent DEF ShipAt
  <2>4. from[k + 1] = from[k] + p[at[k] + 1] + 3
    BY <2>1 DEF Follows
  <2>5. from[k + 1] = at[k + 1] + 1
    BY <2>1, <2>2, <2>3, <2>4
  <2> QED BY <2>1, <2>5
<1> HIDE DEF Z
<1>4. 1 .. m + 1 \subseteq Z
  BY <1>1, <1>2, <1>3, Upward
<1> QED BY <1>4 DEF Z

(* The payload is a fleet just if the ships were read to its end.          *)
LEMMA FleetIsFleet ==
  ASSUME NEW p \in Seq(Byte), NEW ships \in Seq(Ship), Len(ships) = SHIPS,
         NEW at, Fleet(p, ships, at, Len(p))
  PROVE  IsFleet(p)
<1> DEFINE n == [k \in 1 .. SHIPS |-> p[at[k] + 1]]
<1>1. ASSUME NEW k \in 1 .. SHIPS
      PROVE  /\ at[k] \in 0 .. Len(p) /\ p[at[k] + 1] \in 1 .. PROTO_MAX_COORD
             /\ p[at[k] + 1] \in Nat /\ at[k + 1] = at[k] + p[at[k] + 1] + 3
  <2>1. at[k] \in 0 .. Len(p) /\ ShipAt(p, at[k], at[k + 1], ships[k])
    <3>1. k \in 1 .. SHIPS + 1
      BY Sizes
    <3> QED BY <3>1 DEF Fleet
  <2> QED BY <2>1, ShipExtent DEF ShipAt
<1>2. n \in [1 .. SHIPS -> 1 .. PROTO_MAX_COORD] /\ \A k \in 1 .. SHIPS : n[k] = p[at[k] + 1]
  BY <1>1
<1> HIDE DEF n
<1>3. PICK from : Places(from, n) /\ (CutInto(p, n) <=> CutAt(p, n, from))
  BY <1>2, CutIntoStarts
<1> DEFINE Z == {k \in 1 .. SHIPS + 1 : from[k] = at[k] + 1}
<1>4. 1 \in Z /\ 1 \in Nat /\ SHIPS + 1 \in Nat /\ (SHIPS + 1) - 1 = SHIPS /\ SHIPS + 1 \in 1 .. SHIPS + 1
  BY <1>3, Sizes DEF Fleet, Places
<1>5. ASSUME NEW k \in 1 .. SHIPS, k \in Z PROVE k + 1 \in Z
  <2>1. k + 1 \in 1 .. SHIPS + 1 /\ from[k] = at[k] + 1
    BY <1>4, <1>5
  <2>2. from[k + 1] = from[k] + p[at[k] + 1] + 3
    BY <1>2, <1>3 DEF Places
  <2>3. from[k + 1] = at[k + 1] + 1
    <3>1. \A x, y \in Nat : (x + 1) + y + 3 = (x + y + 3) + 1
      OBVIOUS
    <3>2. at[k] \in Nat /\ p[at[k] + 1] \in Nat
      BY <1>1
    <3>3. (at[k] + 1) + p[at[k] + 1] + 3 = (at[k] + p[at[k] + 1] + 3) + 1
      BY <3>1, <3>2
    <3>4. at[k + 1] = at[k] + p[at[k] + 1] + 3
      BY <1>1
    <3>5. from[k + 1] = (at[k] + 1) + p[at[k] + 1] + 3
      BY <2>1, <2>2
    <3> QED BY <3>3, <3>4, <3>5
  <2> QED BY <2>1, <2>3
<1> HIDE DEF Z
<1>6. 1 .. SHIPS + 1 \subseteq Z
  BY <1>4, <1>5, Upward
<1>7. from[SHIPS + 1] = Len(p) + 1
  BY <1>4, <1>6 DEF Z, Fleet
<1>8. ASSUME NEW k \in 1 .. SHIPS PROVE p[from[k]] = n[k]
  <2>1. k \in 1 .. SHIPS + 1
    BY Sizes
  <2> QED BY <1>2, <1>6, <2>1 DEF Z
<1> QED BY <1>2, <1>3, <1>7, <1>8 DEF IsFleet, CutAt

LEMMA NoFleetLeft ==
  ASSUME NEW p \in Seq(Byte), NEW ships \in Seq(Ship), Len(ships) <= SHIPS,
         NEW at, NEW e, Fleet(p, ships, at, e),
         \/ Len(ships) < SHIPS /\ ~CanReadShip(p, e)
         \/ Len(ships) = SHIPS /\ e # Len(p)
  PROVE  ~IsFleet(p)
<1> SUFFICES ASSUME IsFleet(p) PROVE FALSE
  OBVIOUS
<1>1. PICK n \in [1 .. SHIPS -> 1 .. PROTO_MAX_COORD] : CutInto(p, n)
  BY DEF IsFleet
<1>2. PICK from : Places(from, n) /\ (CutInto(p, n) <=> CutAt(p, n, from))
  BY CutIntoStarts
<1>3. /\ from[SHIPS + 1] = Len(p) + 1 /\ \A k \in 1 .. SHIPS : p[from[k]] = n[k]
      /\ from[1] = 1 /\ \A k \in 1 .. SHIPS : from[k + 1] = from[k] + n[k] + 3
      /\ \A k \in 1 .. SHIPS + 1 : from[k] \in Nat /\ from[k] <= from[SHIPS + 1]
  BY <1>1, <1>2 DEF Places, CutAt
<1> DEFINE m == Len(ships)
<1>4. m \in Nat /\ m <= SHIPS /\ SHIPS \in Nat /\ m + 1 \in 1 .. m + 1
  BY Sizes
<1>5. e \in 0 .. Len(p) /\ at[m + 1] = e
  BY DEF Fleet
<1>6. from[m + 1] = e + 1
  <2>1. \A k \in 1 .. m : k \in 1 .. SHIPS
    BY <1>4
  <2>2. Follows(p, n, from, Len(ships))
    BY <1>3, <2>1 DEF Follows
  <2>3. \A k \in 1 .. Len(ships) + 1 : from[k] = at[k] + 1
    BY <2>2, CutAgrees
  <2> QED BY <1>4, <1>5, <2>3
<1> HIDE DEF m
<1>7. CASE m = SHIPS /\ e # Len(p)
  BY <1>3, <1>5, <1>6, <1>7
<1>8. CASE m < SHIPS /\ ~CanReadShip(p, e)
  <2> DEFINE k == m + 1
             l == n[m + 1]
  <2>1. k \in 1 .. SHIPS /\ k + 1 \in 1 .. SHIPS + 1
    BY <1>4, <1>8
  <2>2. l \in 1 .. PROTO_MAX_COORD /\ p[e + 1] = l
    BY <1>3, <1>6, <2>1
  <2>3. from[k + 1] = e + 1 + l + 3 /\ from[k + 1] <= Len(p) + 1
    BY <1>3, <1>6, <2>1
  <2> HIDE DEF k, l
  <2>4. e + 1 <= Len(p) /\ e + 1 + l + 2 <= Len(p)
    BY <1>5, <2>2, <2>3, Sizes
  <2> QED BY <1>8, <2>2, <2>4 DEF CanReadShip, LegalCoordLen
<1> QED BY <1>7, <1>8 DEF m

LEMMA ReadIsParsed == RequestInv /\ ReadInv => ShipsParsed
<1> SUFFICES ASSUME RequestInv, ReadInv PROVE ShipsParsed
  OBVIOUS
<1>1. payload \in Seq(Byte)
  BY DEF RequestInv
<1>2. ASSUME pc = "placed" PROVE IsFleet(payload) /\ Encoded(read) = payload
  <2>1. read \in Seq(Ship) /\ Len(read) = SHIPS /\ pos = Len(payload)
    BY <1>2 DEF ReadInv, AllRead
  <2>2. PICK at : Fleet(payload, read, at, Len(payload))
    BY <1>2, <2>1 DEF ReadInv
  <2> QED BY <1>1, <2>1, <2>2, FleetIsFleet, FleetEncoded
<1>3. ASSUME pc = "noFleet" PROVE ~IsFleet(payload)
  <2>1. read \in Seq(Ship) /\ Len(read) <= SHIPS
    BY <1>3 DEF ReadInv
  <2>2. PICK at : Fleet(payload, read, at, pos)
    BY <1>3 DEF ReadInv
  <2>3. \/ Len(read) < SHIPS /\ ~CanReadShip(payload, pos)
        \/ Len(read) = SHIPS /\ pos # Len(payload)
    BY <1>3 DEF ReadInv, AllRead
  <2> QED BY <1>1, <2>1, <2>2, <2>3, NoFleetLeft
<1> QED BY <1>2, <1>3 DEF ShipsParsed

LEMMA InitRead == Init => ReadInv
BY DEF Init, ReadInv

(* handle_ships takes just the payloads that are a fleet, without a byte   *)
(* too many, and has then read the ships they encode, whoever wrote them   *)
(* and whatever they are (proto_read_ships, protocol.c:116-139).           *)
THEOREM ShipsAreParsed == Spec => []ShipsParsed
<1>1. RequestInv /\ ReplyInv /\ ReadInv /\ [Next]_vars => ReadInv'
  BY ReadKept
<1>2. Spec => []ReadInv
  BY <1>1, InitRead, WireInvariance, PTL DEF Spec
<1> QED BY <1>2, ReadIsParsed, WireInvariance, PTL

-----------------------------------------------------------------------------
(* What the library asks for.  While it writes a fleet the payload is that *)
(* of the ships so far, and no longer than they can make it; while the     *)
(* server reads the fleet it is always before the next ship asked for.     *)
Longest == PROTO_MAX_COORD + 3
AskedInv ==
    /\ pc = "call" => /\ asked \in Seq(Ships) /\ Len(asked) <= SHIPS
                      /\ Len(payload) <= Len(asked) * Longest
                      /\ \E at : Fleet(payload, asked, at, Len(payload))
    /\ pc = "SHIPS" /\ asked # <<>> =>
          /\ asked \in Seq(Ships) /\ Len(asked) = SHIPS
          /\ \E at : Fleet(payload, asked, at, Len(payload)) /\ at[Len(read) + 1] = pos
          /\ \A k \in 1 .. Len(read) : read[k] = asked[k]
    /\ pc = "MOVE" /\ asked # <<>> =>
          CanReadCoord(payload, CoordOut) /\ proto_read_coord(payload) = asked
    /\ pc \in {"placed", "moved"} /\ asked # <<>> => read = asked
    /\ pc \in {"noFleet", "noMove"} => asked = <<>>

LEMMA CoordWrittenRead ==
  ASSUME NEW s \in Strings, CanWriteCoord(CoordBuf, s)
  PROVE  CanReadCoord(proto_write_coord(s), CoordOut) /\ proto_read_coord(proto_write_coord(s)) = s
<1> DEFINE n == Len(s)
           h == <<U8(n)>>
           p == h \o s
<1>1. s \in Seq(Byte)
  BY StringIsSeq
<1>2. n \in 1 .. PROTO_MAX_COORD /\ n \in Nat
  BY Sizes DEF CanWriteCoord, LegalCoordLen
<1>3. n \in Byte /\ U8(n) = n
  <2>1. n \in Byte
    BY <1>2, Sizes, BaseAtLeast4 DEF Byte
  <2> QED BY <2>1, U8Same
<1>4. h \in Seq(Byte) /\ Len(h) = 1 /\ h[1] = n
  BY <1>3
<1>5. proto_write_coord(s) = p
  BY DEF proto_write_coord
<1> HIDE DEF h
<1>6. SubSeq(p, 1 + 1, 1 + Len(s)) = s
  BY <1>1, <1>4, AfterBeginning
<1>7. Len(p) = 1 + n /\ p[1] = n
  <2>1. /\ Len(p) = Len(h) + Len(s)
        /\ \A i \in 1 .. Len(h) : p[i] = h[i]
    BY <1>1, <1>4, Joined
  <2> QED BY <2>1, <1>4
<1> HIDE DEF p
<1>8. CanReadCoord(p, CoordOut)
  <2>1. Len(p) >= 1 /\ n + 1 <= CoordOut
    BY <1>2, <1>7, Sizes DEF CoordOut
  <2> HIDE DEF n
  <2> QED BY <2>1, <1>2, <1>7 DEF CanReadCoord, LegalCoordLen
<1>9. proto_read_coord(p) = s
  <2>1. 1 + 1 = 2 /\ 1 + Len(s) = 1 + p[1]
    BY <1>7
  <2> QED BY <2>1, <1>6 DEF proto_read_coord
<1> QED BY <1>5, <1>8, <1>9

LEMMA ShipsAreShip == Ships \subseteq Ship
<1> SUFFICES ASSUME NEW s \in Ships PROVE s \in Ship
  OBVIOUS
<1>1. /\ s = [coordinate |-> s.coordinate, length |-> s.length, direction |-> s.direction]
      /\ s.coordinate \in Strings /\ s.length \in Byte /\ s.direction \in Byte
  BY WireAssumption DEF Ships
<1>2. s.coordinate \in Seq(Byte)
  BY <1>1, StringIsSeq
<1> QED BY <1>1, <1>2 DEF Ship

(* The room that is left for one more ship of any legal length.            *)
LEMMA Fits ==
  ASSUME RequestInv, AskedInv, pc = "call", Len(asked) < SHIPS,
         NEW s, LegalCoordLen(Len(s.coordinate))
  PROVE  /\ CanWriteShip(Len(payload), ShipsBuf, s)
         /\ Len(payload) + Len(s.coordinate) + 3 <= (Len(asked) + 1) * Longest
<1> DEFINE n == Len(s.coordinate)
           m == Len(asked)
           l == Len(payload)
<1>1. n \in 1 .. PROTO_MAX_COORD /\ m \in Nat /\ l \in Nat /\ l <= m * Longest
  BY DEF LegalCoordLen, AskedInv, RequestInv
<1> HIDE DEF n, m, l
<1>2. Longest \in Nat /\ n + 3 <= Longest
  BY <1>1, Sizes DEF Longest
<1>3. (m + 1) * Longest = m * Longest + Longest /\ m * Longest \in Nat
  BY <1>1, <1>2
<1>4. l + n + 3 <= (m + 1) * Longest
  BY <1>1, <1>2, <1>3, Sizes
<1>5. m + 1 <= SHIPS
  BY <1>1, Sizes DEF m
<1>6. (m + 1) * Longest <= SHIPS * Longest
  BY <1>1, <1>2, <1>5, Sizes
<1>7. ShipsBuf \in Nat /\ SHIPS * Longest <= ShipsBuf
  BY CodecAssumption DEF Longest
<1>8. l + 1 + n + 2 <= ShipsBuf
  <2>1. SHIPS * Longest \in Nat /\ (m + 1) * Longest \in Nat
    BY <1>1, <1>2, <1>3, Sizes
  <2> HIDE DEF Longest
  <2> QED BY <1>1, <1>4, <1>6, <1>7, <2>1, Sizes
<1> QED BY <1>4, <1>8 DEF CanWriteShip, n, m, l

LEMMA InitAsked == Init => AskedInv
<1> SUFFICES ASSUME Init PROVE AskedInv
  OBVIOUS
<1>1. pc = "call" /\ asked = <<>> /\ payload = <<>>
  BY DEF Init
<1>2. asked \in Seq(Ships) /\ Len(asked) = 0 /\ payload \in Seq(Byte) /\ Len(payload) = 0
  BY <1>1, EmptySeq
<1>3. \E at : Fleet(payload, <<>>, at, 0)
  BY <1>2, NoShips
<1>4. Len(asked) <= SHIPS /\ Len(payload) <= Len(asked) * Longest
  BY <1>2, Sizes DEF Longest
<1> QED BY <1>1, <1>2, <1>3, <1>4 DEF AskedInv

LEMMA WriteNextShipAsked == RequestInv /\ AskedInv /\ WriteNextShip => AskedInv'
<1> SUFFICES ASSUME RequestInv, AskedInv, WriteNextShip PROVE AskedInv'
  OBVIOUS
<1>1. PICK s \in Ships : /\ CanWriteShip(Len(payload), ShipsBuf, s)
                         /\ payload' = payload \o WriteShip(s) /\ asked' = Append(asked, s)
  BY DEF WriteNextShip
<1>2. pc = "call" /\ pc' = "call" /\ Len(asked) < SHIPS
  BY DEF WriteNextShip
<1>3. payload \in Seq(Byte) /\ LegalCoordLen(Len(s.coordinate))
  BY <1>1 DEF RequestInv, CanWriteShip
<1>4. asked \in Seq(Ships)
  BY <1>2 DEF AskedInv
<1>5. PICK at : Fleet(payload, asked, at, Len(payload))
  BY <1>2 DEF AskedInv
<1>6. /\ payload' \in Seq(Byte) /\ Len(payload') = Len(payload) + Len(s.coordinate) + 3
      /\ \A i \in 1 .. Len(payload) : payload'[i] = payload[i]
      /\ ShipAt(payload', Len(payload), Len(payload'), s)
  BY <1>1, <1>3, WrittenRead
<1>7. Len(payload) <= Len(payload')
  <2>1. Len(payload) \in Nat /\ Len(s.coordinate) \in Nat
    BY <1>3, Sizes DEF LegalCoordLen
  <2> QED BY <1>6, <2>1
<1>8. Fleet(payload', asked, at, Len(payload))
  BY <1>3, <1>4, <1>5, <1>6, <1>7, FleetStays
<1>9. \E at2 : Fleet(payload', Append(asked, s), at2, Len(payload'))
  BY <1>4, <1>6, <1>8, FleetMore
<1>10. asked' \in Seq(Ships) /\ Len(asked') = Len(asked) + 1
  BY <1>1, <1>4, AppendProperties
<1>11. Len(payload') <= Len(asked') * Longest
  BY <1>2, <1>3, <1>6, <1>10, Fits
<1>12. Len(asked') <= SHIPS
  BY <1>2, <1>4, <1>10, Sizes
<1> QED BY <1>1, <1>2, <1>9, <1>10, <1>11, <1>12 DEF AskedInv

LEMMA ParseShipAsked == RequestInv /\ ReadInv /\ AskedInv /\ ParseShip => AskedInv'
<1> SUFFICES ASSUME RequestInv, ReadInv, AskedInv, ParseShip PROVE AskedInv'
  OBVIOUS
<1> DEFINE ship == ReadShip(payload, pos)
           m == Len(read)
<1>1. /\ pc = "SHIPS" /\ pc' = "SHIPS" /\ m < SHIPS /\ CanReadShip(payload, pos)
      /\ read' = Append(read, ship) /\ pos' = AfterShip(payload, pos)
      /\ asked' = asked /\ payload' = payload
  BY DEF ParseShip
<1>2. SUFFICES ASSUME asked # <<>>
               PROVE  /\ asked \in Seq(Ships) /\ Len(asked) = SHIPS
                      /\ \E at : Fleet(payload, asked, at, Len(payload)) /\ at[Len(read') + 1] = pos'
                      /\ \A k \in 1 .. Len(read') : read'[k] = asked[k]
  BY <1>1 DEF AskedInv
<1>3. /\ asked \in Seq(Ships) /\ Len(asked) = SHIPS
      /\ \A k \in 1 .. m : read[k] = asked[k]
  BY <1>1, <1>2 DEF AskedInv
<1>4. PICK at : Fleet(payload, asked, at, Len(payload)) /\ at[m + 1] = pos
  BY <1>1, <1>2 DEF AskedInv
<1>5. read \in Seq(Ship) /\ m \in Nat /\ ship \in Ship
  BY <1>1, ReadShipIsShip DEF ReadInv, RequestInv
<1>6. m + 1 \in 1 .. Len(asked)
  BY <1>1, <1>3, <1>5, Sizes
<1>7. ShipAt(payload, at[m + 1], at[(m + 1) + 1], asked[m + 1])
  BY <1>4, <1>6 DEF Fleet
<1>8. at[(m + 1) + 1] = pos' /\ asked[m + 1] = ship
  BY <1>1, <1>4, <1>7 DEF ShipAt
<1> HIDE DEF ship
<1>9. /\ Len(read') = m + 1 /\ read'[m + 1] = ship
      /\ \A k \in 1 .. m : read'[k] = read[k]
  BY <1>1, <1>5, AppendProperties
<1> HIDE DEF m
<1>10. ASSUME NEW k \in 1 .. Len(read') PROVE read'[k] = asked[k]
  <2>1. CASE k = m + 1
    BY <1>8, <1>9, <2>1
  <2>2. CASE k # m + 1
    <3>1. k \in 1 .. m
      BY <1>5, <1>9, <2>2
    <3> QED BY <1>3, <1>9, <3>1
  <2> QED BY <2>1, <2>2
<1> QED BY <1>3, <1>4, <1>8, <1>9, <1>10

(* At the end of a payload that the library wrote, and nowhere else, its   *)
(* ships have all been read.                                               *)
LEMMA EndAsked ==
  ASSUME RequestInv, ReadInv, AskedInv, pc = "SHIPS", asked # <<>>
  PROVE  /\ Len(read) < SHIPS => CanReadShip(payload, pos)
         /\ Len(read) = SHIPS => AllRead /\ read = asked
<1>1. /\ asked \in Seq(Ships) /\ Len(asked) = SHIPS
      /\ \A k \in 1 .. Len(read) : read[k] = asked[k]
  BY DEF AskedInv
<1>2. PICK at : Fleet(payload, asked, at, Len(payload)) /\ at[Len(read) + 1] = pos
  BY DEF AskedInv
<1>3. read \in Seq(Ship) /\ Len(read) \in Nat
  BY DEF ReadInv
<1>4. ASSUME Len(read) < SHIPS PROVE CanReadShip(payload, pos)
  <2>1. Len(read) + 1 \in 1 .. Len(asked)
    BY <1>1, <1>3, <1>4, Sizes
  <2>2. ShipAt(payload, at[Len(read) + 1], at[(Len(read) + 1) + 1], asked[Len(read) + 1])
    BY <1>2, <2>1 DEF Fleet
  <2> QED BY <1>2, <2>2 DEF ShipAt
<1>5. ASSUME Len(read) = SHIPS PROVE AllRead /\ read = asked
  <2>1. AllRead
    BY <1>1, <1>2, <1>5 DEF Fleet, AllRead
  <2>2. asked \in Seq(Ship)
    BY <1>1, ShipsAreShip, SeqMonotonic
  <2>3. read = asked
    BY <1>1, <1>3, <1>5, <2>2, SeqEqual
  <2> QED BY <2>1, <2>3
<1> QED BY <1>4, <1>5

LEMMA AskedKept == RequestInv /\ ReadInv /\ AskedInv /\ [Next]_vars => AskedInv'
<1> SUFFICES ASSUME RequestInv, ReadInv, AskedInv, [Next]_vars PROVE AskedInv'
  OBVIOUS
<1>1. ASSUME pc' = pc, UNCHANGED request PROVE AskedInv'
  BY <1>1 DEF AskedInv, request
<1>2. ASSUME asked' = <<>>, pc' # "call" PROVE AskedInv'
  BY <1>2 DEF AskedInv
<1>3. CASE WriteNextShip
  BY <1>3, WriteNextShipAsked
<1>4. CASE client_send_ships
  <2>1. /\ pc = "call" /\ Len(asked) = SHIPS /\ pc' = "SHIPS"
        /\ asked' = asked /\ payload' = payload /\ read' = read /\ pos' = pos
    BY <1>4 DEF client_send_ships, request
  <2>2. read = <<>> /\ pos = 0
    BY <2>1 DEF RequestInv
  <2>3. Len(read) = 0 /\ Len(read) + 1 = 1
    BY <2>2
  <2>4. asked \in Seq(Ships)
    BY <2>1 DEF AskedInv
  <2>5. PICK at : Fleet(payload, asked, at, Len(payload))
    BY <2>1 DEF AskedInv
  <2>6. at[Len(read) + 1] = pos
    BY <2>2, <2>3, <2>5 DEF Fleet
  <2>7. \A k \in 1 .. Len(read) : read[k] = asked[k]
    BY <2>3
  <2> QED BY <2>1, <2>4, <2>5, <2>6, <2>7 DEF AskedInv
<1>5. CASE client_send_move
  <2>1. PICK s \in Strings : CanWriteCoord(CoordBuf, s) /\ Sent("MOVE", s, proto_write_coord(s))
    BY <1>5 DEF client_send_move
  <2>2. pc' = "MOVE" /\ asked' = s /\ payload' = proto_write_coord(s)
    BY <2>1 DEF Sent
  <2> QED BY <2>1, <2>2, CoordWrittenRead DEF AskedInv
<1>6. CASE AnyProgram
  BY <1>2, <1>6 DEF AnyProgram, Sent
<1>7. CASE ParseShip
  BY <1>7, ParseShipAsked
<1>8. CASE ParseEnds
  <2>1. CASE asked = <<>>
    BY <1>2, <1>8, <2>1 DEF ParseEnds, request
  <2>2. CASE asked # <<>>
    <3>1. pc = "SHIPS" /\ Len(read) = SHIPS /\ asked' = asked /\ read' = read
      BY <1>8 DEF ParseEnds, request
    <3>2. AllRead /\ read = asked
      BY <2>2, <3>1, EndAsked
    <3>3. pc' = "placed"
      BY <1>8, <3>2 DEF ParseEnds
    <3> QED BY <3>1, <3>2, <3>3 DEF AskedInv
  <2> QED BY <2>1, <2>2
<1>9. CASE ParseMove
  BY <1>9 DEF ParseMove, AskedInv
<1>10. CASE ParseFails
  <2>1. asked' = asked /\ pc' \in {"noFleet", "noMove"}
    BY <1>10 DEF ParseFails, request
  <2>2. asked = <<>>
    BY <1>10, EndAsked DEF ParseFails, AskedInv
  <2> QED BY <1>2, <2>1, <2>2
<1>11. CASE OutOfPhase \/ Malformed \/ PlaceShips \/ Rival \/ MoveResult \/ MoveExtResult \/ notify_opponent_move
  BY <1>2, <1>11 DEF OutOfPhase, Malformed, PlaceShips, Rival, Refuse, Ack,
                     MoveResult, MoveExtResult, notify_opponent_move, Answer, Handled
<1>12. CASE write_exact \/ Break \/ Reader \/ UNCHANGED vars
  BY <1>1, <1>12 DEF write_exact, Break, Reader, read_exact, Return, ReadFails, vars
<1> QED BY <1>3, <1>4, <1>5, <1>6, <1>7, <1>8, <1>9, <1>10, <1>11, <1>12 DEF Next, Caller, Server

LEMMA AskedIsUnaltered == RequestInv /\ AskedInv => RequestUnaltered
<1> SUFFICES ASSUME RequestInv, AskedInv PROVE RequestUnaltered
  OBVIOUS
<1>1. asked # <<>> => /\ pc \notin {"noFleet", "noMove"}
                      /\ pc \in {"placed", "moved"} => read = asked
  BY DEF AskedInv
<1>2. ASSUME pc = "call", Len(asked) < SHIPS, NEW s \in Ships, LegalCoordLen(Len(s.coordinate))
      PROVE  CanWriteShip(Len(payload), ShipsBuf, s)
  BY <1>2, Fits
<1> QED BY <1>1, <1>2 DEF RequestUnaltered

(* What a caller of the library asks for reaches the handler as it was, is *)
(* never taken for malformed, and always fits the library's buffer         *)
(* (client_send_ships, client_send_move): reading undoes writing, a ship   *)
(* at a time.                                                              *)
THEOREM RequestsUnaltered == Spec => []RequestUnaltered
<1>1. RequestInv /\ ReplyInv /\ ReadInv /\ AskedInv /\ [Next]_vars => AskedInv'
  BY AskedKept
<1>2. RequestInv /\ ReplyInv /\ ReadInv /\ [Next]_vars => ReadInv'
  BY ReadKept
<1>3. Spec => []AskedInv
  BY <1>1, <1>2, InitRead, InitAsked, WireInvariance, PTL DEF Spec
<1> QED BY <1>3, AskedIsUnaltered, WireInvariance, PTL
=============================================================================
