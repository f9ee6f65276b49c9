--------------------------- MODULE FramingProofs ----------------------------
(***************************************************************************)
(* The buffer of a connection never overflows, always has room for another *)
(* read, and holds the last of the bytes read, and the frames handed over  *)
(* are those the peer has written, for every size of a byte and every      *)
(* PROTO_MAX_FRAME.                                                        *)
(*                                                                         *)
(* RoomToRead is not inductive: that room is left after process_client_    *)
(* buffer is known from why its loop ended, so the invariant says how much *)
(* an incomplete frame can be.                                             *)
(***************************************************************************)
EXTENDS Framing, BytesProofs

(* Between two reads the buffer holds less than the longest frame.         *)
Incomplete == pc = "select" => Len(data) < 4 + PROTO_MAX_FRAME

IInv == FramingTypeOK /\ Incomplete /\ BufferIsTail

-----------------------------------------------------------------------------
LEMMA InitOK == Init => IInv
<1> SUFFICES ASSUME Init PROVE IInv
  OBVIOUS
<1>1. /\ stream \in Seq(Byte) /\ Len(stream) = 0
      /\ data \in Seq(Byte) /\ Len(data) = 0
  BY DEF Init
<1>2. taken \in 0 .. Len(stream) /\ hung \in BOOLEAN /\ pc = "select"
  <2>1. taken = 0 /\ hung = FALSE /\ pc = "select"
    BY DEF Init
  <2>2. taken \in 0 .. Len(stream)
    BY <1>1, <2>1
  <2> QED BY <2>1, <2>2
<1>3. Len(data) <= READ_BUF_SIZE /\ Len(data) < 4 + PROTO_MAX_FRAME
  BY <1>1, BytesAssumption, FramingAssumption DEF READ_BUF_SIZE
<1>4. FramingTypeOK /\ Incomplete
  BY <1>1, <1>2, <1>3 DEF FramingTypeOK, Incomplete
<1>5. SubSeq(stream, 0 - 0 + 1, 0) = <<>>
  BY SubSeqEmpty
<1>6. BufferIsTail
  BY <1>5 DEF Init, BufferIsTail
<1> QED BY <1>4, <1>6 DEF IInv

(* Write: what is already taken is not touched.                            *)
LEMMA WriteOK == IInv /\ Write => IInv'
<1> SUFFICES ASSUME IInv, Write PROVE IInv'
  OBVIOUS
<1> USE DEF IInv, FramingTypeOK
<1>1. PICK b \in Byte : stream' = Append(stream, b)
  BY DEF Write
<1>2. /\ stream' \in Seq(Byte) /\ Len(stream') = Len(stream) + 1
      /\ \A i \in 1 .. Len(stream) : stream'[i] = stream[i]
  BY <1>1, AppendProperties
<1>3. FramingTypeOK' /\ Incomplete'
  BY <1>2 DEF Write, Incomplete, READ_BUF_SIZE
<1>4. SubSeq(stream', taken - Len(data) + 1, taken) = SubSeq(stream, taken - Len(data) + 1, taken)
  <2> DEFINE m == taken - Len(data) + 1
             x == SubSeq(stream', m, taken)
             y == SubSeq(stream, m, taken)
  <2>1. m \in 1 .. Len(stream) + 1 /\ m <= taken + 1 /\ Len(stream) + 1 <= Len(stream') + 1
    BY <1>2 DEF BufferIsTail
  <2> HIDE DEF m
  <2>2. /\ y \in Seq(Byte) /\ Len(y) = taken - m + 1
        /\ \A i \in 1 .. taken - m + 1 : y[i] = stream[m + i - 1]
    BY <2>1, Cut
  <2>3. /\ x \in Seq(Byte) /\ Len(x) = taken - m + 1
        /\ \A i \in 1 .. taken - m + 1 : x[i] = stream'[m + i - 1]
    BY <2>1, <1>2, Cut
  <2> HIDE DEF x, y
  <2>4. \A i \in 1 .. taken - m + 1 : m + i - 1 \in 1 .. Len(stream)
    BY <2>1
  <2>5. \A i \in 1 .. Len(x) : x[i] = y[i]
    BY <2>2, <2>3, <2>4, <1>2
  <2>6. Len(x) = Len(y)
    BY <2>2, <2>3
  <2>7. x = y
    BY <2>2, <2>3, <2>5, <2>6, SeqEqual
  <2> QED BY <2>7 DEF x, y, m
<1>5. BufferIsTail'
  BY <1>4 DEF Write, BufferIsTail
<1> QED BY <1>3, <1>5

(* Read: no more than the room, and what is appended comes next.           *)
LEMMA ReadOK == IInv /\ Read => IInv'
<1> SUFFICES ASSUME IInv, Read PROVE IInv'
  OBVIOUS
<1> USE DEF IInv, FramingTypeOK
<1>1. PICK n \in 1 .. Room : /\ n <= Arrived
                             /\ data' = data \o SubSeq(stream, taken + 1, taken + n)
                             /\ taken' = taken + n
  BY DEF Read
<1>2. READ_BUF_SIZE \in Int /\ n \in Int /\ n <= READ_BUF_SIZE - Len(data)
  BY BytesAssumption, FramingAssumption DEF Room, READ_BUF_SIZE
<1>3. taken + n <= Len(stream)
  BY <1>1, <1>2 DEF Arrived
<1>4. /\ SubSeq(stream, taken + 1, taken + n) \in Seq(Byte)
      /\ Len(SubSeq(stream, taken + 1, taken + n)) = n
  <2>1. taken + 1 \in 1 .. Len(stream) + 1 /\ taken + n \in 0 .. Len(stream)
    BY <1>2, <1>3
  <2>2. Len(SubSeq(stream, taken + 1, taken + n)) = (taken + n) - (taken + 1) + 1
    BY <2>1, Cut
  <2> QED BY <2>1, <2>2, Cut
<1>5. data' \in Seq(Byte) /\ Len(data') = Len(data) + n
  BY <1>1, <1>4, ConcatProperties
<1>6. FramingTypeOK'
  BY <1>1, <1>2, <1>3, <1>5 DEF Read, READ_BUF_SIZE
<1>7. Incomplete'
  BY DEF Read, Incomplete
<1>8. BufferIsTail'
  <2> DEFINE a == taken - Len(data)
  <2>1. a \in 0 .. Len(stream) /\ a <= taken /\ taken <= taken + n
    BY DEF BufferIsTail
  <2>2. data = SubSeq(stream, a + 1, taken)
    BY DEF BufferIsTail
  <2>3. taken' - Len(data') = a /\ Len(data') <= taken'
    BY <1>1, <1>5 DEF BufferIsTail
  <2> HIDE DEF a
  <2>4. data' = SubSeq(stream, a + 1, taken + n)
    <3>1. taken \in 0 .. Len(stream) /\ taken + n \in 0 .. Len(stream)
      BY <1>2, <1>3
    <3>2. SubSeq(stream, a + 1, taken) \o SubSeq(stream, taken + 1, taken + n)
            = SubSeq(stream, a + 1, taken + n)
      BY <2>1, <3>1, CutsJoin
    <3> QED BY <1>1, <2>2, <3>2
  <2>5. stream' = stream
    BY DEF Read
  <2> QED BY <2>3, <2>4, <2>5, <1>1 DEF BufferIsTail
<1> QED BY <1>6, <1>7, <1>8

(* OneFrame: what is left is shorter, and still the end of what was read.  *)
LEMMA OneFrameOK == IInv /\ OneFrame => IInv'
<1> SUFFICES ASSUME IInv, OneFrame PROVE IInv'
  OBVIOUS
<1> USE DEF IInv, FramingTypeOK
<1> DEFINE k == 4 + Total(data)
<1>1. k \in 0 .. Len(data)
  <2>1. Total(data) \in Int
    BY TotalIsInt DEF OneFrame, Whole, Headed
  <2>2. Total(data) >= 1 /\ Len(data) >= 4 + Total(data)
    BY <2>1 DEF OneFrame, Whole, Illegal
  <2> QED BY <2>1, <2>2
<1>2. data' = SubSeq(data, k + 1, Len(data))
  <2>1. 5 + Total(data) = k + 1
    BY TotalIsInt DEF OneFrame, Whole, Headed
  <2> QED BY <2>1 DEF OneFrame
<1> HIDE DEF k
<1>3. data' \in Seq(Byte) /\ Len(data') = Len(data) - k
  <2>1. Len(SubSeq(data, k + 1, Len(data))) = Len(data) - (k + 1) + 1
    BY <1>1, Cut
  <2>2. SubSeq(data, k + 1, Len(data)) \in Seq(Byte)
    BY <1>1, Cut
  <2> QED BY <1>1, <1>2, <2>1, <2>2
<1>4. READ_BUF_SIZE \in Int
  BY BytesAssumption, FramingAssumption DEF READ_BUF_SIZE
<1>5. stream' = stream /\ taken' = taken /\ hung' = hung /\ pc' = pc
  BY DEF OneFrame
<1>6. FramingTypeOK'
  BY <1>1, <1>3, <1>4, <1>5 DEF READ_BUF_SIZE
<1>7. Incomplete'
  BY <1>5 DEF OneFrame, Whole, Headed, Incomplete
<1>8. BufferIsTail'
  <2> DEFINE a == taken - Len(data)
  <2>1. a \in 0 .. Len(stream) /\ a <= taken /\ taken - a = Len(data)
    BY DEF BufferIsTail
  <2>2. data = SubSeq(stream, a + 1, taken)
    BY DEF BufferIsTail
  <2>3. taken - Len(data') = a + k /\ Len(data') <= taken
    BY <1>1, <1>3 DEF BufferIsTail
  <2> HIDE DEF a
  <2>4. data' = SubSeq(stream, a + k + 1, taken)
    BY <1>1, <1>2, <2>1, <2>2, CutOfCut
  <2> QED BY <2>3, <2>4, <1>5 DEF BufferIsTail
<1> QED BY <1>6, <1>7, <1>8

(* NoFrame: what is left is an incomplete frame.                           *)
LEMMA NoFrameOK == IInv /\ NoFrame => IInv'
<1> SUFFICES ASSUME IInv, NoFrame PROVE IInv'
  OBVIOUS
<1>1. FramingTypeOK' /\ BufferIsTail'
  BY DEF NoFrame, IInv, FramingTypeOK, BufferIsTail, READ_BUF_SIZE
<1>2. Len(data) < 4 + PROTO_MAX_FRAME
  <2>1. CASE Len(data) < 4
    BY <2>1, BytesAssumption, FramingAssumption DEF IInv, FramingTypeOK
  <2>2. CASE Len(data) >= 4
    <3>1. Total(data) \in Int
      BY <2>2, TotalIsInt DEF IInv, FramingTypeOK
    <3>2. Total(data) <= PROTO_MAX_FRAME /\ Len(data) < 4 + Total(data)
      BY <2>2, <3>1, BytesAssumption, FramingAssumption DEF NoFrame, Illegal
    <3> QED BY <3>1, <3>2, BytesAssumption, FramingAssumption DEF IInv, FramingTypeOK
  <2> QED BY <2>1, <2>2 DEF IInv, FramingTypeOK
<1> QED BY <1>1, <1>2 DEF NoFrame, IInv, Incomplete

-----------------------------------------------------------------------------
LEMMA Step == IInv /\ [Next]_vars => IInv'
<1> SUFFICES ASSUME IInv, [Next]_vars PROVE IInv'
  OBVIOUS
<1>1. CASE HangUp
  BY <1>1 DEF HangUp, IInv, FramingTypeOK, Incomplete, BufferIsTail, READ_BUF_SIZE
<1>2. CASE ReadEnds
  BY <1>2 DEF ReadEnds, IInv, FramingTypeOK, Incomplete, BufferIsTail, READ_BUF_SIZE
<1>3. CASE BadLength
  BY <1>3 DEF BadLength, IInv, FramingTypeOK, Incomplete, BufferIsTail, READ_BUF_SIZE
<1>4. CASE UNCHANGED vars
  BY <1>4 DEF vars, IInv, FramingTypeOK, Incomplete, BufferIsTail, READ_BUF_SIZE
<1> QED BY <1>1, <1>2, <1>3, <1>4, WriteOK, ReadOK, OneFrameOK, NoFrameOK DEF Next, Server

LEMMA Invariance == Spec => []IInv
BY InitOK, Step, PTL DEF Spec

(* handle_client_read and process_client_buffer keep cb->len within        *)
(* cb->data, whatever the peer sends.                                      *)
THEOREM FramingTyped == Spec => []FramingTypeOK
<1>1. IInv => FramingTypeOK
  BY DEF IInv
<1> QED BY <1>1, Invariance, PTL

(* The test for a full buffer (server.c:117) never succeeds.               *)
THEOREM AlwaysRoom == Spec => []RoomToRead
<1>1. IInv => RoomToRead
  BY BytesAssumption, FramingAssumption DEF IInv, FramingTypeOK, Incomplete, RoomToRead, Room, READ_BUF_SIZE
<1> QED BY <1>1, Invariance, PTL

(* The buffer never holds anything but the last bytes read, in order.      *)
THEOREM BytesInOrder == Spec => []BufferIsTail
<1>1. IInv => BufferIsTail
  BY DEF IInv
<1> QED BY <1>1, Invariance, PTL
-----------------------------------------------------------------------------
(* Reassembled.  The frames handed over are cut from the stream one behind *)
(* the other: at[k] bytes come before the k-th, and the bytes behind the   *)
(* last are those in the buffer.                                           *)
TotalAt(s, a) == ((s[a + 1] * Base + s[a + 2]) * Base + s[a + 3]) * Base + s[a + 4]
FrameAt(s, a, b, f) == /\ TotalAt(s, a) \in Nat /\ ~Illegal(TotalAt(s, a))
                       /\ b = a + 4 + TotalAt(s, a) /\ b \in 0 .. Len(s)
                       /\ f = SubSeq(s, a + 5, b)
Laid(s, fs, at, e) ==
    /\ e \in 0 .. Len(s) /\ at \in [1 .. Len(fs) + 1 -> 0 .. e]
    /\ at[1] = 0 /\ at[Len(fs) + 1] = e
    /\ \A k \in 1 .. Len(fs) : FrameAt(s, at[k], at[k + 1], fs[k])

(* No frame can be cut from these bytes.                                   *)
Stuck(d) == Len(d) < 4 \/ Illegal(Total(d)) \/ Len(d) < 4 + Total(d)

CutInv == /\ frames \in Seq(Seq(Byte))
          /\ \E at : Laid(stream, frames, at, taken - Len(data))
          /\ pc # "process" => Stuck(data)

(* The length in front of a frame, seen in the stream and in a cut of it.  *)
LEMMA TotalOfCut ==
  ASSUME NEW s \in Seq(Byte), NEW a \in 0 .. Len(s), NEW c \in 0 .. Len(s), a + 4 <= c
  PROVE  /\ Total(SubSeq(s, a + 1, c)) = TotalAt(s, a)
         /\ SubSeq(s, a + 1, c) \in Seq(Byte) /\ Len(SubSeq(s, a + 1, c)) = c - a
<1> DEFINE t == SubSeq(s, a + 1, c)
<1>1. /\ t \in Seq(Byte) /\ Len(t) = c - a
      /\ \A i \in 1 .. c - a : t[i] = s[a + i]
  BY Cut
<1> HIDE DEF t
<1>2. t[1] = s[a + 1] /\ t[2] = s[a + 2] /\ t[3] = s[a + 3] /\ t[4] = s[a + 4]
  BY <1>1
<1>3. Total(t) = TotalAt(s, a)
  BY <1>2 DEF Total, TotalAt
<1> QED BY <1>1, <1>3 DEF t

(* What is written later does not change a frame.                          *)
LEMMA FrameStays ==
  ASSUME NEW s \in Seq(Byte), NEW s2 \in Seq(Byte), Len(s) <= Len(s2),
         \A i \in 1 .. Len(s) : s2[i] = s[i],
         NEW a \in 0 .. Len(s), NEW b, NEW f, FrameAt(s, a, b, f)
  PROVE  FrameAt(s2, a, b, f)
<1>1. b \in 0 .. Len(s) /\ a + 4 <= b /\ a + 5 <= b + 1
  <2>1. TotalAt(s, a) \in Nat /\ b = a + 4 + TotalAt(s, a) /\ b \in 0 .. Len(s)
    BY DEF FrameAt
  <2> QED BY <2>1
<1>2. TotalAt(s2, a) = TotalAt(s, a)
  <2>1. /\ a + 1 \in 1 .. Len(s) /\ a + 2 \in 1 .. Len(s)
        /\ a + 3 \in 1 .. Len(s) /\ a + 4 \in 1 .. Len(s)
    BY <1>1
  <2>2. s2[a + 1] = s[a + 1] /\ s2[a + 2] = s[a + 2] /\ s2[a + 3] = s[a + 3] /\ s2[a + 4] = s[a + 4]
    BY <2>1
  <2> QED BY <2>2 DEF TotalAt
<1>3. SubSeq(s2, a + 5, b) = SubSeq(s, a + 5, b)
  <2> DEFINE x == SubSeq(s, a + 5, b)
             y == SubSeq(s2, a + 5, b)
  <2>1. /\ x \in Seq(Byte) /\ Len(x) = b - (a + 5) + 1
        /\ \A i \in 1 .. b - (a + 5) + 1 : x[i] = s[(a + 5) + i - 1]
    <3>1. a + 5 \in 1 .. Len(s) + 1
      BY <1>1
    <3> QED BY <1>1, <3>1, Cut
  <2>2. /\ y \in Seq(Byte) /\ Len(y) = b - (a + 5) + 1
        /\ \A i \in 1 .. b - (a + 5) + 1 : y[i] = s2[(a + 5) + i - 1]
    <3>1. a + 5 \in 1 .. Len(s2) + 1 /\ b \in 0 .. Len(s2)
      BY <1>1
    <3> QED BY <1>1, <3>1, Cut
  <2> HIDE DEF x, y
  <2>3. \A i \in 1 .. b - (a + 5) + 1 : (a + 5) + i - 1 \in 1 .. Len(s)
    BY <1>1
  <2>4. x = y
    BY <2>1, <2>2, <2>3, SeqEqual
  <2> QED BY <2>4 DEF x, y
<1>4. b \in 0 .. Len(s2)
  BY <1>1
<1> QED BY <1>2, <1>3, <1>4 DEF FrameAt

LEMMA LaidStays ==
  ASSUME NEW s \in Seq(Byte), NEW s2 \in Seq(Byte), Len(s) <= Len(s2),
         \A i \in 1 .. Len(s) : s2[i] = s[i],
         NEW fs \in Seq(Seq(Byte)), NEW at, NEW e, Laid(s, fs, at, e)
  PROVE  Laid(s2, fs, at, e)
<1>1. e \in 0 .. Len(s2)
  BY DEF Laid
<1>2. \A k \in 1 .. Len(fs) : FrameAt(s2, at[k], at[k + 1], fs[k])
  <2> SUFFICES ASSUME NEW k \in 1 .. Len(fs) PROVE FrameAt(s2, at[k], at[k + 1], fs[k])
    OBVIOUS
  <2>1. FrameAt(s, at[k], at[k + 1], fs[k])
    BY DEF Laid
  <2>2. at[k] \in 0 .. e /\ e \in 0 .. Len(s)
    <3>1. k \in 1 .. Len(fs) + 1
      OBVIOUS
    <3>2. at \in [1 .. Len(fs) + 1 -> 0 .. e] /\ e \in 0 .. Len(s)
      BY DEF Laid
    <3> QED BY <3>1, <3>2
  <2>3. at[k] \in 0 .. Len(s)
    BY <2>2
  <2> QED BY <2>1, <2>3, FrameStays
<1> QED BY <1>1, <1>2 DEF Laid

(* Nor does what is cut off behind the last frame.                         *)
LEMMA LaidShrinks ==
  ASSUME NEW s \in Seq(Byte), NEW s2 \in Seq(Byte), Len(s2) <= Len(s),
         \A i \in 1 .. Len(s2) : s2[i] = s[i],
         NEW fs \in Seq(Seq(Byte)), NEW at, NEW e \in 0 .. Len(s2), Laid(s, fs, at, e)
  PROVE  Laid(s2, fs, at, e)
<1>1. ASSUME NEW k \in 1 .. Len(fs)
      PROVE  FrameAt(s2, at[k], at[k + 1], fs[k])
  <2> DEFINE a == at[k]
             b == at[k + 1]
             f == fs[k]
  <2>1. FrameAt(s, a, b, f)
    BY DEF Laid
  <2>2. a \in 0 .. e /\ b \in 0 .. e
    <3>1. k \in 1 .. Len(fs) + 1 /\ k + 1 \in 1 .. Len(fs) + 1
      OBVIOUS
    <3>2. at \in [1 .. Len(fs) + 1 -> 0 .. e]
      BY DEF Laid
    <3> QED BY <3>1, <3>2
  <2> HIDE DEF a, b, f
  <2>3. /\ a \in 0 .. Len(s2) /\ b \in 0 .. Len(s2) /\ a + 4 <= b
        /\ b \in 0 .. Len(s) /\ a + 5 <= b + 1
    <3>1. TotalAt(s, a) \in Nat /\ b = a + 4 + TotalAt(s, a) /\ b \in 0 .. Len(s)
      BY <2>1 DEF FrameAt
    <3>2. a \in 0 .. Len(s2) /\ b \in 0 .. Len(s2)
      BY <2>2
    <3>3. a + 4 <= b /\ a + 5 <= b + 1
      BY <3>1, <3>2
    <3> QED BY <3>1, <3>2, <3>3
  <2>4. TotalAt(s2, a) = TotalAt(s, a)
    <3>1. /\ a + 1 \in 1 .. Len(s2) /\ a + 2 \in 1 .. Len(s2)
          /\ a + 3 \in 1 .. Len(s2) /\ a + 4 \in 1 .. Len(s2)
      BY <2>3
    <3>2. /\ s2[a + 1] = s[a + 1] /\ s2[a + 2] = s[a + 2]
          /\ s2[a + 3] = s[a + 3] /\ s2[a + 4] = s[a + 4]
      BY <3>1
    <3> QED BY <3>2 DEF TotalAt
  <2>5. SubSeq(s2, a + 5, b) = SubSeq(s, a + 5, b)
    <3> DEFINE x == SubSeq(s, a + 5, b)
               y == SubSeq(s2, a + 5, b)
    <3>1. /\ x \in Seq(Byte) /\ Len(x) = b - (a + 5) + 1
          /\ \A i \in 1 .. b - (a + 5) + 1 : x[i] = s[(a + 5) + i - 1]
      <4>1. a + 5 \in 1 .. Len(s) + 1
        BY <2>3
      <4> QED BY <2>3, <4>1, Cut
    <3>2. /\ y \in Seq(Byte) /\ Len(y) = b - (a + 5) + 1
          /\ \A i \in 1 .. b - (a + 5) + 1 : y[i] = s2[(a + 5) + i - 1]
      <4>1. a + 5 \in 1 .. Len(s2) + 1
        BY <2>3
      <4> QED BY <2>3, <4>1, Cut
    <3> HIDE DEF x, y
    <3>3. \A i \in 1 .. b - (a + 5) + 1 : (a + 5) + i - 1 \in 1 .. Len(s2)
      BY <2>3
    <3>4. Len(x) = Len(y) /\ \A i \in 1 .. Len(x) : x[i] = y[i]
      BY <3>1, <3>2, <3>3
    <3>5. x = y
      BY <3>1, <3>2, <3>4, SeqEqual
    <3> QED BY <3>5 DEF x, y
  <2>6. FrameAt(s2, a, b, f)
    BY <2>1, <2>3, <2>4, <2>5 DEF FrameAt
  <2> QED BY <2>6 DEF a, b, f
<1> QED BY <1>1 DEF Laid

LEMMA InitCut == Init => CutInv
<1> SUFFICES ASSUME Init PROVE CutInv
  OBVIOUS
<1>1. /\ frames \in Seq(Seq(Byte)) /\ Len(frames) = 0 /\ Len(stream) = 0 /\ Len(data) = 0
      /\ taken - Len(data) = 0 /\ Len(frames) + 1 = 1
  <2>1. frames = <<>> /\ stream = <<>> /\ data = <<>> /\ taken = 0
    BY DEF Init
  <2>2. frames \in Seq(Seq(Byte)) /\ Len(frames) = 0
    BY <2>1, EmptySeq
  <2>3. Len(stream) = 0 /\ Len(data) = 0 /\ taken = 0
    BY <2>1
  <2>4. taken - Len(data) = 0 /\ Len(frames) + 1 = 1
    BY <2>2, <2>3
  <2> QED BY <2>2, <2>3, <2>4
<1> DEFINE at == [k \in 1 .. 1 |-> 0]
<1>2. at \in [1 .. 1 -> 0 .. 0] /\ at[1] = 0
  OBVIOUS
<1>3. \A k \in 1 .. 0 : FALSE
  OBVIOUS
<1> HIDE DEF at
<1>4. Laid(stream, frames, at, taken - Len(data))
  BY <1>1, <1>2, <1>3 DEF Laid
<1>5. Stuck(data)
  BY <1>1 DEF Stuck
<1> QED BY <1>1, <1>4, <1>5 DEF CutInv

(* A frame more.                                                           *)
LEMMA LaidMore ==
  ASSUME NEW s \in Seq(Byte), NEW fs \in Seq(Seq(Byte)), NEW at, NEW a, NEW b,
         NEW f \in Seq(Byte), Laid(s, fs, at, a), FrameAt(s, a, b, f)
  PROVE  \E at2 : Laid(s, Append(fs, f), at2, b)
<1> DEFINE m == Len(fs)
           gs == Append(fs, f)
           at2 == [k \in 1 .. m + 2 |-> IF k = m + 2 THEN b ELSE at[k]]
<1>1. m \in Nat
  OBVIOUS
<1>2. /\ gs \in Seq(Seq(Byte)) /\ Len(gs) = m + 1 /\ gs[m + 1] = f
      /\ \A k \in 1 .. m : gs[k] = fs[k]
  BY AppendProperties
<1>3. /\ a \in 0 .. Len(s) /\ at \in [1 .. m + 1 -> 0 .. a] /\ at[1] = 0 /\ at[m + 1] = a
      /\ \A k \in 1 .. m : FrameAt(s, at[k], at[k + 1], fs[k])
  BY DEF Laid
<1>4. b \in 0 .. Len(s) /\ a <= b
  BY <1>3 DEF FrameAt
<1> HIDE DEF m, gs
<1>5. at2 \in [1 .. m + 2 -> 0 .. b]
  <2> SUFFICES ASSUME NEW k \in 1 .. m + 2
               PROVE  (IF k = m + 2 THEN b ELSE at[k]) \in 0 .. b
    OBVIOUS
  <2>1. CASE k = m + 2
    BY <1>4, <2>1
  <2>2. CASE k # m + 2
    <3>1. k \in 1 .. m + 1
      BY <1>1, <2>2
    <3>2. at[k] \in 0 .. a
      BY <1>3, <3>1
    <3> QED BY <1>3, <1>4, <2>2, <3>2
  <2> QED BY <2>1, <2>2
<1>6. at2[m + 2] = b /\ \A k \in 1 .. m + 1 : at2[k] = at[k]
  BY <1>1
<1> HIDE DEF at2
<1>7. ASSUME NEW k \in 1 .. m + 1 PROVE FrameAt(s, at2[k], at2[k + 1], gs[k])
  <2>1. CASE k = m + 1
    <3>1. at2[k] = a /\ at2[k + 1] = b /\ gs[k] = f
      BY <1>1, <1>2, <1>3, <1>6, <2>1
    <3> QED BY <3>1
  <2>2. CASE k # m + 1
    <3>1. k \in 1 .. m /\ k + 1 \in 1 .. m + 1
      BY <1>1, <2>2
    <3>2. at2[k] = at[k] /\ at2[k + 1] = at[k + 1] /\ gs[k] = fs[k]
      BY <1>2, <1>6, <3>1
    <3> QED BY <1>3, <3>1, <3>2
  <2> QED BY <2>1, <2>2
<1>8. at2[1] = 0
  BY <1>1, <1>3, <1>6
<1>9. Len(gs) + 1 = m + 2 /\ 1 .. Len(gs) = 1 .. m + 1
  BY <1>1, <1>2
<1>10. Laid(s, gs, at2, b)
  BY <1>4, <1>5, <1>6, <1>7, <1>8, <1>9 DEF Laid
<1> QED BY <1>10 DEF gs

LEMMA OneFrameCut == IInv /\ CutInv /\ OneFrame => CutInv'
<1> SUFFICES ASSUME IInv, CutInv, OneFrame PROVE CutInv'
  OBVIOUS
<1> DEFINE t == Total(data)
           a == taken - Len(data)
           f == SubSeq(data, 5, 4 + t)
<1>1. /\ stream \in Seq(Byte) /\ data \in Seq(Byte) /\ taken \in 0 .. Len(stream)
      /\ a \in 0 .. Len(stream) /\ a <= taken /\ taken - a = Len(data)
      /\ data = SubSeq(stream, a + 1, taken)
  BY DEF IInv, FramingTypeOK, BufferIsTail
<1>2. Len(data) >= 4 /\ t \in Int /\ t >= 1 /\ Len(data) >= 4 + t /\ ~Illegal(t)
  <2>1. Len(data) >= 4 /\ t \in Int
    BY <1>1, TotalIsInt DEF OneFrame, Whole, Headed
  <2> QED BY <2>1 DEF OneFrame, Whole, Illegal
<1>3. frames' = Append(frames, f) /\ data' = SubSeq(data, (4 + t) + 1, Len(data))
  <2>1. 5 + t = (4 + t) + 1
    BY <1>2
  <2> QED BY <2>1 DEF OneFrame, Handed
<1>4. stream' = stream /\ taken' = taken /\ pc' = pc /\ pc = "process"
  BY DEF OneFrame, Whole, Headed
<1> HIDE DEF t, a
<1>5. f \in Seq(Byte) /\ f = SubSeq(stream, a + 5, a + 4 + t)
  <2>1. f \in Seq(Byte)
    <3>1. 5 \in 1 .. Len(data) + 1 /\ 4 + t \in 0 .. Len(data) /\ 5 <= (4 + t) + 1
      BY <1>1, <1>2
    <3> QED BY <1>1, <3>1, Cut
  <2>2. SubSeq(SubSeq(stream, a + 1, taken), 4 + 1, 4 + t) = SubSeq(stream, a + 4 + 1, a + (4 + t))
    BY <1>1, <1>2, CutInCut
  <2>3. 4 + 1 = 5 /\ a + 4 + 1 = a + 5 /\ a + (4 + t) = a + 4 + t
    BY <1>1, <1>2
  <2> QED BY <1>1, <2>1, <2>2, <2>3
<1>6. Len(data') = Len(data) - (4 + t)
  <2>1. (4 + t) + 1 \in 1 .. Len(data) + 1 /\ Len(data) \in 0 .. Len(data)
    BY <1>1, <1>2
  <2>2. Len(SubSeq(data, (4 + t) + 1, Len(data))) = Len(data) - ((4 + t) + 1) + 1
    BY <1>1, <1>2, <2>1, Cut
  <2> QED BY <1>1, <1>2, <1>3, <2>2
<1>7. TotalAt(stream, a) = t
  <2>1. a + 4 <= taken
    BY <1>1, <1>2
  <2> QED BY <1>1, <2>1, TotalOfCut DEF t
<1>8. FrameAt(stream, a, a + 4 + t, f)
  BY <1>1, <1>2, <1>5, <1>7 DEF FrameAt
<1>9. taken' - Len(data') = a + 4 + t
  BY <1>1, <1>2, <1>4, <1>6
<1>10. PICK at : Laid(stream, frames, at, a)
  BY DEF CutInv, a
<1>11. frames \in Seq(Seq(Byte)) /\ frames' \in Seq(Seq(Byte))
  BY <1>3, <1>5, AppendProperties DEF CutInv
<1> HIDE DEF f
<1>12. \E at2 : Laid(stream, Append(frames, f), at2, a + 4 + t)
  BY <1>1, <1>5, <1>8, <1>10, <1>11, LaidMore
<1> QED BY <1>3, <1>4, <1>9, <1>11, <1>12 DEF CutInv

LEMMA CutStep == IInv /\ CutInv /\ [Next]_vars => CutInv'
<1> SUFFICES ASSUME IInv, CutInv, [Next]_vars PROVE CutInv'
  OBVIOUS
<1>1. CASE Write
  <2>1. PICK b \in Byte : stream' = Append(stream, b)
    BY <1>1 DEF Write
  <2>2. stream \in Seq(Byte)
    BY DEF IInv, FramingTypeOK
  <2>3. /\ stream' \in Seq(Byte) /\ Len(stream') = Len(stream) + 1
        /\ \A i \in 1 .. Len(stream) : stream'[i] = stream[i]
    BY <2>1, <2>2, AppendProperties
  <2>4. Len(stream) <= Len(stream')
    BY <2>2, <2>3
  <2>5. UNCHANGED <<taken, data, frames, pc>>
    BY <1>1 DEF Write
  <2>6. \E at : Laid(stream', frames, at, taken - Len(data))
    BY <2>2, <2>3, <2>4, LaidStays DEF CutInv
  <2> QED BY <2>5, <2>6 DEF CutInv
<1>2. CASE HangUp
  BY <1>2 DEF HangUp, CutInv
<1>3. CASE Read
  <2>1. PICK n \in 1 .. Room : /\ n <= Arrived
                               /\ data' = data \o SubSeq(stream, taken + 1, taken + n)
                               /\ taken' = taken + n
    BY <1>3 DEF Read
  <2>2. stream \in Seq(Byte) /\ data \in Seq(Byte) /\ taken \in 0 .. Len(stream)
    BY DEF IInv, FramingTypeOK
  <2>3. n \in Nat /\ n >= 1 /\ taken + n <= Len(stream)
    BY <2>1, <2>2 DEF Arrived
  <2>4. /\ SubSeq(stream, taken + 1, taken + n) \in Seq(Byte)
        /\ Len(SubSeq(stream, taken + 1, taken + n)) = n
    <3>1. taken + 1 \in 1 .. Len(stream) + 1 /\ taken + n \in 0 .. Len(stream)
          /\ taken + 1 <= (taken + n) + 1 /\ (taken + n) - (taken + 1) + 1 = n
      BY <2>2, <2>3
    <3> QED BY <2>2, <3>1, Cut
  <2>5. Len(data') = Len(data) + n
    BY <2>1, <2>2, <2>4, ConcatProperties
  <2>6. taken' - Len(data') = taken - Len(data)
    BY <2>1, <2>2, <2>3, <2>5
  <2>7. pc' = "process" /\ UNCHANGED <<stream, frames>>
    BY <1>3 DEF Read
  <2> QED BY <2>6, <2>7 DEF CutInv
<1>4. CASE ReadEnds
  <2>1. pc = "select" /\ UNCHANGED <<stream, taken, data, frames>>
    BY <1>4 DEF ReadEnds
  <2> QED BY <2>1 DEF CutInv
<1>5. CASE OneFrame
  BY <1>5, OneFrameCut
<1>6. CASE BadLength
  <2>1. UNCHANGED <<stream, taken, data, frames>> /\ Stuck(data)
    BY <1>6 DEF BadLength, Stuck
  <2> QED BY <2>1 DEF CutInv
<1>7. CASE NoFrame
  <2>1. UNCHANGED <<stream, taken, data, frames>>
    BY <1>7 DEF NoFrame
  <2>2. Stuck(data)
    <3>1. data \in Seq(Byte)
      BY DEF IInv, FramingTypeOK
    <3>2. CASE Len(data) >= 4
      BY <1>7, <3>2 DEF NoFrame, Stuck
    <3>3. CASE ~(Len(data) >= 4)
      BY <3>1, <3>3 DEF Stuck
    <3> QED BY <3>2, <3>3
  <2> QED BY <2>1, <2>2 DEF CutInv
<1>8. CASE UNCHANGED vars
  BY <1>8 DEF vars, CutInv
<1> QED BY <1>1, <1>2, <1>3, <1>4, <1>5, <1>6, <1>7, <1>8 DEF Next, Server

LEMMA CutInvariance == Spec => []CutInv
BY InitCut, CutStep, Invariance, PTL DEF Spec

-----------------------------------------------------------------------------
(* FramesOf walks over a sequence of bytes; Ends is where it stops.        *)
RestAt(s, i) == SubSeq(s, i, Len(s))
Ends(s) == {i \in 1 .. Len(s) + 1 : Stuck(RestAt(s, i))}
Heads(s) == [i \in 1 .. Len(s) + 1 |-> <<SubSeq(RestAt(s, i), 5, 4 + Total(RestAt(s, i)))>>]
Nexts(s) == [i \in 1 .. Len(s) + 1 |-> i + 4 + Total(RestAt(s, i))]

(* FramesOf is defined by that walk: its recursion ends.                   *)
LEMMA FramesOfWalks ==
  ASSUME NEW s \in Seq(Byte)
  PROVE  \E f : /\ Walks(f, 1, Len(s) + 1, Ends(s), Heads(s), Nexts(s))
                /\ FramesOf(s) = f[1]
<1> DEFINE N == Len(s) + 1
           Eq(g) == g = [i \in 1 .. N |->
                           IF \/ Len(SubSeq(s, i, Len(s))) < 4 \/ Illegal(Total(SubSeq(s, i, Len(s))))
                              \/ Len(SubSeq(s, i, Len(s))) < 4 + Total(SubSeq(s, i, Len(s)))
                           THEN <<>>
                           ELSE <<SubSeq(SubSeq(s, i, Len(s)), 5, 4 + Total(SubSeq(s, i, Len(s))))>>
                                \o g[i + 4 + Total(SubSeq(s, i, Len(s)))]]
           from == CHOOSE g : Eq(g)
<1>1. FramesOf(s) = from[1]
  BY DEF FramesOf
<1>2. N \in Nat
  OBVIOUS
<1>3. ASSUME NEW g PROVE Eq(g) <=> Walks(g, 1, N, Ends(s), Heads(s), Nexts(s))
  <2>1. \A i \in 1 .. N : /\ i \in Ends(s) <=> Stuck(RestAt(s, i))
                          /\ Heads(s)[i] = <<SubSeq(RestAt(s, i), 5, 4 + Total(RestAt(s, i)))>>
                          /\ Nexts(s)[i] = i + 4 + Total(RestAt(s, i))
    BY DEF Ends, Heads, Nexts
  <2> QED BY <2>1 DEF Walks, RestAt, Stuck
<1>4. \A i \in 1 .. N : i \notin Ends(s) => Nexts(s)[i] \in i + 1 .. N
  <2> SUFFICES ASSUME NEW i \in 1 .. N, i \notin Ends(s) PROVE Nexts(s)[i] \in i + 1 .. N
    OBVIOUS
  <2> DEFINE r == RestAt(s, i)
  <2>1. r \in Seq(Byte) /\ Len(r) = Len(s) - i + 1
    <3>1. i \in 1 .. Len(s) + 1 /\ Len(s) \in 0 .. Len(s) /\ i <= Len(s) + 1
      OBVIOUS
    <3> QED BY <3>1, Cut DEF RestAt
  <2>2. ~(Len(r) < 4) /\ ~Illegal(Total(r)) /\ ~(Len(r) < 4 + Total(r))
    BY DEF Ends, Stuck
  <2>3. Nexts(s)[i] = i + 4 + Total(r)
    BY DEF Nexts
  <2> HIDE DEF r
  <2>4. Total(r) \in Int
    BY <2>1, <2>2, TotalIsInt
  <2>5. Total(r) >= 1 /\ Len(r) >= 4 + Total(r)
    BY <2>1, <2>2, <2>4 DEF Illegal
  <2> QED BY <2>1, <2>3, <2>4, <2>5
<1> HIDE DEF N
<1>5. \E g : Walks(g, 1, N, Ends(s), Heads(s), Nexts(s))
  BY <1>2, <1>4, WalkExists
<1>6. \E g : Eq(g)
  BY <1>3, <1>5
<1> HIDE DEF Eq
<1>7. Eq(from)
  BY <1>6
<1> HIDE DEF from
<1>8. Walks(from, 1, N, Ends(s), Heads(s), Nexts(s))
  BY <1>3, <1>7
<1> QED BY <1>1, <1>8 DEF N

(* The walk meets the frames that are laid one behind the other, and stops *)
(* behind the last.                                                        *)
LEMMA LaidAreFramesOf ==
  ASSUME NEW s \in Seq(Byte), NEW fs \in Seq(Seq(Byte)), NEW at, NEW e \in 0 .. Len(s),
         Laid(s, fs, at, e), Stuck(SubSeq(s, e + 1, Len(s)))
  PROVE  FramesOf(s) = fs
<1> DEFINE m == Len(fs)
           N == Len(s) + 1
<1>1. PICK f : Walks(f, 1, N, Ends(s), Heads(s), Nexts(s)) /\ FramesOf(s) = f[1]
  BY FramesOfWalks
<1>2. /\ at \in [1 .. m + 1 -> 0 .. e] /\ at[1] = 0 /\ at[m + 1] = e /\ m \in Nat
      /\ \A k \in 1 .. m : FrameAt(s, at[k], at[k + 1], fs[k])
  BY DEF Laid
<1> DEFINE Good(k) == f[at[k] + 1] = SubSeq(fs, k, m)
<1>3. Good(m + 1)
  <2>1. e + 1 \in 1 .. N /\ e + 1 \in Ends(s)
    BY DEF Ends, RestAt
  <2>2. f[e + 1] = <<>>
    BY <1>1, <2>1 DEF Walks
  <2>3. SubSeq(fs, m + 1, m) = <<>>
    BY <1>2, SubSeqEmpty
  <2> QED BY <1>2, <2>2, <2>3
<1>4. ASSUME NEW k \in 1 .. m, Good(k + 1) PROVE Good(k)
  <2> DEFINE a == at[k]
             b == at[k + 1]
             t == TotalAt(s, a)
             r == RestAt(s, a + 1)
  <2>1. /\ a \in 0 .. Len(s) /\ t \in Nat /\ ~Illegal(t) /\ b = a + 4 + t /\ b \in 0 .. Len(s)
        /\ fs[k] = SubSeq(s, a + 5, b)
    <3>1. k \in 1 .. m + 1 /\ 0 .. e \subseteq 0 .. Len(s)
      BY <1>2
    <3>2. a \in 0 .. Len(s)
      BY <1>2, <3>1
    <3>3. FrameAt(s, a, b, fs[k])
      BY <1>2
    <3> HIDE DEF a, b
    <3> QED BY <3>2, <3>3 DEF FrameAt
  <2> HIDE DEF a, b, t
  <2>2. Len(s) \in 0 .. Len(s) /\ a + 4 <= Len(s)
    BY <2>1
  <2>3. Total(r) = t /\ r \in Seq(Byte) /\ Len(r) = Len(s) - a
    <3>1. a \in 0 .. Len(s)
      BY <2>1
    <3> QED BY <2>2, <3>1, TotalOfCut DEF RestAt, t
  <2>4. ~Stuck(r)
    <3>1. Len(r) >= 4 /\ Len(r) >= 4 + t /\ ~(Len(r) < 4) /\ ~(Len(r) < 4 + t)
      BY <2>1, <2>2, <2>3
    <3> QED BY <2>1, <2>3, <3>1 DEF Stuck
  <2>5. a + 1 \in 1 .. N /\ a + 1 \notin Ends(s)
    BY <2>1, <2>4 DEF Ends
  <2>6. f[a + 1] = Heads(s)[a + 1] \o f[Nexts(s)[a + 1]]
    BY <1>1, <2>5 DEF Walks
  <2>7. Nexts(s)[a + 1] = b + 1
    <3>1. Nexts(s)[a + 1] = (a + 1) + 4 + Total(r)
      BY <2>5 DEF Nexts
    <3> QED BY <2>1, <2>3, <3>1
  <2>8. Heads(s)[a + 1] = <<fs[k]>>
    <3>1. Heads(s)[a + 1] = <<SubSeq(r, 5, 4 + t)>>
      BY <2>3, <2>5 DEF Heads
    <3>2. SubSeq(r, 4 + 1, 4 + t) = SubSeq(s, a + 4 + 1, a + (4 + t))
      BY <2>1, <2>2, CutInCut DEF RestAt
    <3>3. 4 + 1 = 5 /\ a + 4 + 1 = a + 5 /\ a + (4 + t) = b
      BY <2>1
    <3> QED BY <2>1, <3>1, <3>2, <3>3
  <2>9. f[b + 1] = SubSeq(fs, k + 1, m)
    BY <1>4 DEF b
  <2>10. <<fs[k]>> \o SubSeq(fs, k + 1, m) = SubSeq(fs, k, m)
    <3>1. k - 1 \in 0 .. m /\ k \in 0 .. m /\ m \in 0 .. m /\ k - 1 <= k /\ k <= m /\ (k - 1) + 1 = k
      BY <1>2
    <3>2. SubSeq(fs, (k - 1) + 1, k) \o SubSeq(fs, k + 1, m) = SubSeq(fs, (k - 1) + 1, m)
      BY <3>1, CutsJoin
    <3>3. SubSeq(fs, k, k) = <<fs[k]>>
      <4> DEFINE u == SubSeq(fs, k, k)
      <4>1. /\ u \in Seq(Seq(Byte)) /\ Len(u) = k - k + 1
            /\ \A i \in 1 .. k - k + 1 : u[i] = fs[k + i - 1]
        BY <3>1, Cut
      <4>2. k - k + 1 = 1 /\ k + 1 - 1 = k
        BY <3>1
      <4>3. Len(u) = 1 /\ u[1] = fs[k]
        BY <4>1, <4>2
      <4> DEFINE w == <<fs[k]>>
      <4>4. w \in Seq(Seq(Byte)) /\ Len(w) = 1 /\ w[1] = fs[k]
        OBVIOUS
      <4> HIDE DEF u, w
      <4>5. Len(u) = Len(w) /\ \A i \in 1 .. Len(u) : u[i] = w[i]
        BY <4>3, <4>4
      <4>6. u = w
        BY <4>1, <4>4, <4>5, SeqEqual
      <4> QED BY <4>6 DEF u, w
    <3> QED BY <3>1, <3>2, <3>3
  <2> QED BY <2>6, <2>7, <2>8, <2>9, <2>10 DEF a
<1> HIDE DEF Good
<1>5. Good(1)
  <2> DEFINE Z == {k \in 1 .. m + 1 : Good(k)}
  <2>1. m + 1 \in Z /\ m + 1 \in Nat /\ 1 \in Nat /\ 1 \in 1 .. m + 1
    BY <1>2, <1>3
  <2>2. ASSUME NEW k \in 1 .. (m + 1) - 1, k + 1 \in Z PROVE k \in Z
    <3>1. k \in 1 .. m /\ k \in 1 .. m + 1 /\ Good(k + 1)
      BY <1>2, <2>2
    <3> QED BY <1>4, <3>1
  <2> HIDE DEF Z
  <2>3. 1 .. m + 1 \subseteq Z
    BY <2>1, <2>2, Downward
  <2> QED BY <2>1, <2>3 DEF Z
<1>6. SubSeq(fs, 1, m) = fs
  BY SubSeqFull
<1>7. at[1] + 1 = 1
  BY <1>2
<1> QED BY <1>1, <1>5, <1>6, <1>7 DEF Good

(* The frames handed over are those of the bytes read, however the reads   *)
(* cut them (server.c:70-109): the loop, its incomplete rest and the next  *)
(* read together make the walk of FramesOf.                                *)
THEOREM FramesAreReassembled == Spec => []Reassembled
<1>1. IInv /\ CutInv => Reassembled
  <2> SUFFICES ASSUME IInv, CutInv, pc # "process" PROVE frames = FramesOf(SubSeq(stream, 1, taken))
    BY DEF Reassembled
  <2> DEFINE s == SubSeq(stream, 1, taken)
             e == taken - Len(data)
  <2>1. /\ stream \in Seq(Byte) /\ data \in Seq(Byte) /\ taken \in 0 .. Len(stream)
        /\ e \in 0 .. Len(stream) /\ e <= taken /\ data = SubSeq(stream, e + 1, taken)
    BY DEF IInv, FramingTypeOK, BufferIsTail
  <2> HIDE DEF e
  <2>2. s \in Seq(Byte) /\ Len(s) = taken /\ \A i \in 1 .. taken : s[i] = stream[i]
    <3>1. 1 \in 1 .. Len(stream) + 1 /\ 1 <= taken + 1 /\ taken - 1 + 1 = taken
          /\ \A i \in 1 .. taken : 1 + i - 1 = i
      BY <2>1
    <3> QED BY <2>1, <3>1, Cut
  <2>3. SubSeq(s, e + 1, Len(s)) = data
    <3>1. 0 \in 0 .. Len(stream) /\ e \in 0 .. taken - 0 /\ taken \in 0 .. taken - 0 /\ e <= taken
      BY <2>1
    <3>2. SubSeq(SubSeq(stream, 0 + 1, taken), e + 1, taken) = SubSeq(stream, 0 + e + 1, 0 + taken)
      BY <2>1, <3>1, CutInCut
    <3>3. 0 + 1 = 1 /\ 0 + e + 1 = e + 1 /\ 0 + taken = taken
      BY <2>1
    <3> QED BY <2>1, <2>2, <3>2, <3>3
  <2>4. frames \in Seq(Seq(Byte)) /\ Stuck(data)
    BY DEF CutInv
  <2>5. PICK at : Laid(stream, frames, at, e)
    BY DEF CutInv, e
  <2> HIDE DEF s
  <2>6. Len(s) <= Len(stream) /\ e \in 0 .. Len(s) /\ \A i \in 1 .. Len(s) : s[i] = stream[i]
    BY <2>1, <2>2
  <2>7. Laid(s, frames, at, e)
    BY <2>1, <2>2, <2>4, <2>5, <2>6, LaidShrinks
  <2>8. FramesOf(s) = frames
    BY <2>2, <2>3, <2>4, <2>6, <2>7, LaidAreFramesOf
  <2> QED BY <2>8 DEF s
<1> QED BY <1>1, Invariance, CutInvariance, PTL
=============================================================================
