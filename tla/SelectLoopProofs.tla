-------------------------- MODULE SelectLoopProofs --------------------------
(***************************************************************************)
(* The event loop of SelectLoop keeps its promises for every number of     *)
(* clients, games, descriptors and peers.                                  *)
(*                                                                         *)
(* What the loop relies on is spread over the table of game.c, the buffers *)
(* of server.c, the descriptor sets and the place where the thread stands, *)
(* so the invariant ties them together: LoopOK is its part about the loop, *)
(* stated of any values of the variables, as TablesOK is of the tables, so *)
(* that a lemma can say what one change of them does.                      *)
(***************************************************************************)
EXTENDS SelectLoop, GameServerMatchesProofs

BufType == [in_use : BOOLEAN, client_index : Clients \cup {NONE},
            data : Seq(Peers \X Data)]

(* Where the thread stands: label l, index or descriptor c, buffer b.      *)
Control(l, c, b) ==
    \/ l \in {"select", "accept"} /\ c = NONE /\ b = NONE
    \/ l = "id" /\ c \in Fds /\ b = NONE
    \/ l = "scan" /\ c \in 0 .. MAX_CLIENTS /\ b = NONE
    \/ l = "frames" /\ c \in Clients /\ b \in Bufs

(* A descriptor between accept and the table belongs to the loop alone.    *)
Pending(l, c) == IF l = "id" THEN {c} ELSE {}

(* What a peer sends first is a game id.                                   *)
Fresh(d) == /\ d.line # <<>> => d.line[1] \in GameIds
            /\ d.line = <<>> => d.say = "ID" \/ d.hung

InLine(p, bl) == \E i \in 1 .. Len(bl) : bl[i] = p

(* The connections n and the backlog bl, when the table and the loop hold  *)
(* the descriptors F, of which those of P have said nothing yet.           *)
NetOK(n, F, P, bl) ==
    /\ \A p \in Peers : n[p].fd # NONE => n[p].fd \in F
    /\ \A p, q \in Peers : n[p].fd # NONE /\ n[p].fd = n[q].fd => p = q
    /\ \A f \in F : \E p \in Peers : n[p].fd = f
    /\ \A p \in Peers : InLine(p, bl) => n[p].fd = NONE
    /\ \A i, j \in 1 .. Len(bl) : bl[i] = bl[j] => i = j
    /\ \A p \in Peers : n[p].fd \in P \/ InLine(p, bl) => Fresh(n[p])

(* The buffers bs and the clients cs: one buffer each.                     *)
BufsOK(bs, cs) ==
    /\ \A b \in Bufs : bs[b].in_use => bs[b].client_index \in Clients
    /\ \A b, c \in Bufs : bs[b].in_use /\ bs[c].in_use
                          /\ bs[b].client_index = bs[c].client_index => b = c
    /\ \A ci \in Clients : cs[ci].active =>
          \E b \in Bufs : bs[b].in_use /\ bs[b].client_index = ci

(* A buffer holds what the peer of its client has sent.                    *)
OwnData(bs, cs, n) ==
    \A b \in Bufs : bs[b].in_use /\ cs[bs[b].client_index].active =>
        \A k \in 1 .. Len(bs[b].data) :
            n[bs[b].data[k][1]].fd = cs[bs[b].client_index].fd

NoStale(bs, cs) == \A b \in Bufs : bs[b].in_use => cs[bs[b].client_index].active

Talks(d) == d.line # <<>> \/ d.hung
ReadableIn(n, f) == \E p \in Peers : n[p].fd = f /\ Talks(n[p])

(* The clients the loop has still to come to of those select reported.     *)
Due(l, c) == CASE l \in {"accept", "id"} -> Clients
               [] l = "scan" -> {ci \in Clients : ci >= c}
               [] l = "frames" -> {ci \in Clients : ci > c}
               [] OTHER -> {}

DueReadable(cs, n, R, D) ==
    \A ci \in D : cs[ci].active /\ cs[ci].fd \in R => ReadableIn(n, cs[ci].fd)

FreeEntries(cs) == \A ci \in Clients : ~cs[ci].active => cs[ci].fd = NONE

Types(bs, R, l, c, b, n, bl) ==
    /\ bs \in [Bufs -> BufType]
    /\ R \subseteq Fds \cup {LISTEN}
    /\ Control(l, c, b)
    /\ n \in [Peers -> Peer]
    /\ bl \in Seq(Peers)

LoopOK(cs, F, bs, R, l, c, b, n, bl) ==
    /\ Types(bs, R, l, c, b, n, bl)
    /\ FreeEntries(cs)
    /\ NetOK(n, F \cup Pending(l, c), Pending(l, c), bl)
    /\ BufsOK(bs, cs)
    /\ OwnData(bs, cs, n)
    /\ l \in {"select", "accept", "id"} => NoStale(bs, cs)
    /\ l \in {"accept", "id"} => R \ {LISTEN} \subseteq F
    /\ l = "id" => c \notin F
    /\ DueReadable(cs, n, R, Due(l, c))
    /\ l = "frames" => bs[b].in_use /\ bs[b].client_index = c

LInv == IInv /\ LoopOK(clients, open, bufs, readfds, pc, cur, bi, net, backlog)
-----------------------------------------------------------------------------
(* The sentinels are no descriptors.                                       *)
LEMMA Sentinels ==
  /\ NONE \notin Fds /\ LISTEN \notin Fds /\ NONE # LISTEN /\ NONE \notin Bufs
  /\ Bufs = Clients /\ Clients = 0 .. MAX_CLIENTS - 1
  /\ MAX_CLIENTS \in Nat /\ MAX_CLIENTS >= 1
  BY FdsAssumption, SizesAssumption, LoopAssumption DEF NONE, LISTEN, Bufs, Clients

(* The type invariant of the runs, part by part.                           *)
LEMMA TypeParts ==
  /\ LoopTypeOK <=> Types(bufs, readfds, pc, cur, bi, net, backlog)
  /\ LoopTypeOK' <=> Types(bufs', readfds', pc', cur', bi', net', backlog')
  BY DEF LoopTypeOK, Types, Control, BufType

(* Of more descriptors than clients one is always free.                    *)
LEMMA DescriptorLeft == IInv => \E fd \in Fds : fd \notin open
<1> SUFFICES ASSUME IInv, Fds \subseteq open PROVE FALSE
  OBVIOUS
<1> DEFINE f == [ci \in ActiveClients |-> clients[ci].fd]
<1>1. /\ \A ci \in ActiveClients : clients[ci].fd \in Fds
      /\ \A fd \in Fds : \E ci \in ActiveClients : clients[ci].fd = fd
  BY DEF IInv, TablesOK, ClientOK, ActiveClients
<1>2. f \in Surjection(ActiveClients, Fds)
  BY <1>1 DEF Surjection
<1>3. /\ IsFiniteSet(ActiveClients) /\ Cardinality(ActiveClients) <= MAX_CLIENTS
      /\ Cardinality(ActiveClients) \in Nat
  BY ClientsFinite, FS_Subset DEF ActiveClients
<1> HIDE DEF f
<1>4. IsFiniteSet(Fds) /\ Cardinality(Fds) <= Cardinality(ActiveClients)
  BY <1>2, <1>3, FS_Surjection
<1>5. Cardinality(Fds) \in Nat
  BY <1>4, FS_CardinalityType
<1> QED BY <1>3, <1>4, <1>5, Sentinels, DescriptorsAssumption

(* A step of the loop that calls no handler.                               *)
LEMMA QuietIsNext == IInv /\ Quiet => Next
<1> SUFFICES ASSUME IInv, Quiet PROVE Next
  OBVIOUS
<1>1. PICK fd \in Fds : fd \notin open
  BY DescriptorLeft
<1> QED BY <1>1 DEF Quiet, Next, NoGameId
-----------------------------------------------------------------------------
(* What a handler does to the clients the loop may have to read: some go.  *)
Survivors(cs, F, c2, F2) ==
    /\ \A ci \in Clients : c2[ci].active => cs[ci].active /\ c2[ci].fd = cs[ci].fd
    /\ F2 \subseteq F

(* Calls on the client the loop stands at.                                 *)
LEMMA CallEffect ==
  ASSUME IInv, FreeEntries(clients), NEW ci \in Clients, NEW type,
         \/ Call(server_handle_client_message(ci, type)) /\ cur = ci
         \/ Call(server_on_client_disconnect(ci)) /\ cur = ci
  PROVE  /\ [Next]_vars /\ IInv' /\ FreeEntries(clients')
         /\ Survivors(clients, open, clients', open')
<1>1. /\ [Next]_vars
      /\ \/ UNCHANGED tables
         \/ \E gi \in Games : Ending(gi)
         \/ \E gi \in Games : OnlyClients(gi, {})
  <2>1. CASE ci \in ActiveClients
    <3>1. \/ server_handle_client_message(ci, type) \/ server_on_client_disconnect(ci)
      BY <2>1 DEF Call
    <3>2. [Next]_vars
      <4>1. server_handle_client_message(ci, type) => type \in MsgType
        BY DEF server_handle_client_message, MsgType
      <4> QED BY <4>1, <3>1, <2>1 DEF Next
    <3>3. Ending(GameOf(ci)) \/ Round(GameOf(ci), games[GameOf(ci)].game_id)
      BY <3>1, <2>1, MessageCases
    <3> QED BY <3>2, <3>3, <2>1, ActiveClient DEF Round
  <2>2. CASE ci \notin ActiveClients
    BY <2>2, QuietIsNext DEF Call, Quiet
  <2> QED BY <2>1, <2>2
<1>2. IInv'
  BY <1>1, NextInv
<1>3. ASSUME NEW k \in Clients
      PROVE  /\ clients'[k].active => clients[k].active /\ clients'[k].fd = clients[k].fd
             /\ ~clients'[k].active => clients'[k].fd = NONE
  <2>1. ~clients[k].active => clients[k].fd = NONE
    BY DEF FreeEntries
  <2>2. CASE UNCHANGED tables
    BY <2>1, <2>2 DEF tables
  <2>3. ASSUME NEW gi \in Games, Ending(gi)
        PROVE  clients'[k] = clients[k] \/ clients'[k] = FreeClient
    BY <2>3 DEF Ending, CloseGame
  <2>4. ASSUME NEW gi \in Games, OnlyClients(gi, {})
        PROVE  clients'[k].active = clients[k].active /\ clients'[k].fd = clients[k].fd
    BY <2>4 DEF OnlyClients, Promoted
  <2>5. ~FreeClient.active /\ FreeClient.fd = NONE
    BY DEF FreeClient
  <2> QED BY <1>1, <2>1, <2>2, <2>3, <2>4, <2>5
<1>4. open' \subseteq open
  <2>1. \A k \in Clients : clients[k].active => clients[k].fd \in open
    BY DEF IInv, TablesOK, ClientOK
  <2>2. \A f \in open' : \E k \in Clients : clients'[k].active /\ clients'[k].fd = f
    BY <1>2 DEF IInv, TablesOK
  <2> QED BY <2>1, <2>2, <1>3
<1> QED BY <1>1, <1>2, <1>3, <1>4 DEF FreeEntries, Survivors

(* A client whose connection is lost is no client any more.                *)
LEMMA DisconnectEnds ==
  ASSUME IInv, NEW ci \in ActiveClients, server_on_client_disconnect(ci)
  PROVE  ~clients'[ci].active
<1>1. /\ ci \in Clients /\ GameOf(ci) \in Games /\ GameOf(ci) # NONE
      /\ games[GameOf(ci)].active /\ clients[ci].active /\ clients[ci].game_index = GameOf(ci)
  BY ActiveClient DEF GameOf
<1>2. ci \in Seated(GameOf(ci))
  BY <1>1, SeatedExactly
<1>3. CloseGame(GameOf(ci), Silence, <<"ERROR">>)
  BY <1>1 DEF server_on_client_disconnect, server_end_game
<1> QED BY <1>1, <1>2, <1>3 DEF CloseGame, FreeClient
-----------------------------------------------------------------------------
(* A peer that holds a descriptor is the one PeerAt names.                 *)
LEMMA PeerAtIs ==
  ASSUME NEW f, \E p \in Peers : net[p].fd = f
  PROVE  PeerAt(f) \in Peers /\ net[PeerAt(f)].fd = f
  BY DEF PeerAt

(* What select reports can be read.                                        *)
LEMMA ReadableIs ==
  ASSUME NEW f, \E p \in Peers : net[p].fd = f, Readable(f)
  PROVE  ReadableIn(net, f)
  BY PeerAtIs DEF Readable, Line, Hung, ReadableIn, Talks

(* And what is known to be readable is, descriptors being held once.       *)
LEMMA ReadableAgain ==
  ASSUME NEW f, f # NONE, ReadableIn(net, f),
         \A p, q \in Peers : net[p].fd # NONE /\ net[p].fd = net[q].fd => p = q
  PROVE  Readable(f)
<1>1. PICK p \in Peers : net[p].fd = f /\ Talks(net[p])
  BY DEF ReadableIn
<1>2. PeerAt(f) = p
  BY <1>1, PeerAtIs
<1> QED BY <1>1, <1>2 DEF Readable, Line, Hung, Talks

(* Closing the descriptors G leaves the connections of the others alone.   *)
LEMMA NetDrop ==
  ASSUME NEW n, NEW F, NEW P, NEW bl, NetOK(n, F, P, bl), bl \in Seq(Peers),
         NEW G, NONE \notin G, P \subseteq G
  PROVE  NetOK(Drop(n, G), F \ G, {}, bl)
<1> DEFINE n2 == Drop(n, G)
<1>1. \A p \in Peers : n2[p] = IF n[p].fd \in G THEN Away(n[p].dials) ELSE n[p]
  BY DEF Drop
<1>2. \A k : Away(k).fd = NONE
  BY DEF Away
<1> HIDE DEF n2
<1>3. \A p \in Peers : n2[p].fd # NONE => n2[p] = n[p] /\ n[p].fd \notin G
  BY <1>1, <1>2
<1>4. \A p \in Peers : n[p].fd \notin G => n2[p] = n[p]
  BY <1>1
<1>5. \A p \in Peers : InLine(p, bl) => n2[p] = n[p]
  BY <1>4 DEF NetOK
<1>6. \A f \in F \ G : \E p \in Peers : n2[p].fd = f
  BY <1>4 DEF NetOK
<1>7. \A p \in Peers : n2[p].fd # NONE => n2[p].fd \in F \ G
  BY <1>3 DEF NetOK
<1>8. \A p, q \in Peers : n2[p].fd # NONE /\ n2[p].fd = n2[q].fd => p = q
  BY <1>3 DEF NetOK
<1>9. \A p \in Peers : InLine(p, bl) => n2[p].fd = NONE /\ Fresh(n2[p])
  BY <1>5 DEF NetOK
<1>10. \A i, j \in 1 .. Len(bl) : bl[i] = bl[j] => i = j
  BY DEF NetOK
<1>11. NetOK(n2, F \ G, {}, bl)
  BY <1>6, <1>7, <1>8, <1>9, <1>10 DEF NetOK
<1> QED BY <1>11 DEF n2

(* A peer that is gone is still a peer.                                    *)
LEMMA DropType ==
  ASSUME NEW n \in [Peers -> Peer], NEW G
  PROVE  Drop(n, G) \in [Peers -> Peer]
<1>1. \A k \in 0 .. MaxDials : Away(k) \in Peer
  BY DEF Away, Peer
<1>2. \A p \in Peers : n[p] \in Peer /\ n[p].dials \in 0 .. MaxDials
  BY DEF Peer
<1> QED BY <1>1, <1>2 DEF Drop

(* When clients go and their connections with them, what is due is still   *)
(* readable, and what is in a buffer is still its client's.                *)
LEMMA DropReadable ==
  ASSUME NEW cs, NEW F, NEW c2, NEW F2, Survivors(cs, F, c2, F2),
         NEW n, NEW R, NEW D, NEW D2, D2 \subseteq D, D \subseteq Clients,
         \A ci \in Clients : c2[ci].active => c2[ci].fd \in F2,
         DueReadable(cs, n, R, D)
  PROVE  DueReadable(c2, Drop(n, F \ F2), R, D2)
<1> DEFINE n2 == Drop(n, F \ F2)
<1>1. \A p \in Peers : n[p].fd \notin F \ F2 => n2[p] = n[p]
  BY DEF Drop
<1> HIDE DEF n2
<1>2. ASSUME NEW ci \in D2, c2[ci].active, c2[ci].fd \in R PROVE ReadableIn(n2, c2[ci].fd)
  <2>1. cs[ci].active /\ cs[ci].fd = c2[ci].fd /\ c2[ci].fd \in F2 /\ ci \in D
    BY <1>2 DEF Survivors
  <2>2. ReadableIn(n, c2[ci].fd)
    BY <2>1, <1>2 DEF DueReadable
  <2> QED BY <2>1, <2>2, <1>1 DEF ReadableIn
<1> QED BY <1>2 DEF DueReadable, n2

(* Buffers that lose data or are freed.                                    *)
Shrunk(bs, b2) ==
    \A b \in Bufs : b2[b].in_use =>
        /\ bs[b].in_use /\ b2[b].client_index = bs[b].client_index
        /\ \A k \in 1 .. Len(b2[b].data) : \E j \in 1 .. Len(bs[b].data) :
              b2[b].data[k] = bs[b].data[j]

LEMMA DropData ==
  ASSUME NEW cs, NEW F, NEW c2, NEW F2, Survivors(cs, F, c2, F2),
         NEW bs \in [Bufs -> BufType], NEW b2, Shrunk(bs, b2), NEW n,
         \A ci \in Clients : c2[ci].active => c2[ci].fd \in F2,
         \A b \in Bufs : bs[b].in_use => bs[b].client_index \in Clients,
         OwnData(bs, cs, n)
  PROVE  OwnData(b2, c2, Drop(n, F \ F2))
<1> DEFINE n2 == Drop(n, F \ F2)
<1>1. \A p \in Peers : n[p].fd \notin F \ F2 => n2[p] = n[p]
  BY DEF Drop
<1> HIDE DEF n2
<1>2. ASSUME NEW b \in Bufs, b2[b].in_use, c2[b2[b].client_index].active,
             NEW k \in 1 .. Len(b2[b].data)
      PROVE  n2[b2[b].data[k][1]].fd = c2[b2[b].client_index].fd
  <2> DEFINE ci == b2[b].client_index
  <2>1. /\ bs[b].in_use /\ ci = bs[b].client_index /\ ci \in Clients
        /\ \E j \in 1 .. Len(bs[b].data) : b2[b].data[k] = bs[b].data[j]
    BY <1>2 DEF Shrunk
  <2>2. PICK j \in 1 .. Len(bs[b].data) : b2[b].data[k] = bs[b].data[j]
    BY <2>1
  <2>3. bs[b].data \in Seq(Peers \X Data)
    BY DEF BufType
  <2>4. bs[b].data[j] \in Peers \X Data
    BY <2>3, ElementOfSeq
  <2>5. cs[ci].active /\ cs[ci].fd = c2[ci].fd /\ c2[ci].fd \in F2
    BY <2>1, <1>2 DEF Survivors
  <2> HIDE DEF ci
  <2>6. n[bs[b].data[j][1]].fd = cs[ci].fd
    BY <2>1, <2>5 DEF OwnData
  <2>7. n2[bs[b].data[j][1]] = n[bs[b].data[j][1]]
    BY <2>4, <2>5, <2>6, <1>1
  <2> QED BY <2>2, <2>5, <2>6, <2>7 DEF ci
<1> QED BY <1>2 DEF OwnData, n2

(* Every active client keeps its buffer when clients go, and buffers with  *)
(* them.                                                                   *)
LEMMA ShrunkBufs ==
  ASSUME NEW cs, NEW F, NEW c2, NEW F2, Survivors(cs, F, c2, F2),
         NEW bs, NEW b2, Shrunk(bs, b2), BufsOK(bs, cs),
         \A b \in Bufs : bs[b].in_use /\ c2[bs[b].client_index].active => b2[b].in_use
  PROVE  BufsOK(b2, c2)
<1>1. \A b \in Bufs : b2[b].in_use => bs[b].in_use /\ b2[b].client_index = bs[b].client_index
  BY DEF Shrunk
<1>2. ASSUME NEW ci \in Clients, c2[ci].active
      PROVE  \E b \in Bufs : b2[b].in_use /\ b2[b].client_index = ci
  <2>1. cs[ci].active
    BY <1>2 DEF Survivors
  <2>2. PICK b \in Bufs : bs[b].in_use /\ bs[b].client_index = ci
    BY <2>1 DEF BufsOK
  <2> QED BY <2>2, <1>1, <1>2
<1> QED BY <1>1, <1>2 DEF BufsOK
-----------------------------------------------------------------------------
(* The parts of the invariant, as the lemmas about steps need them.        *)
LEMMA Parts ==
  ASSUME LInv
  PROVE  /\ IInv /\ FreeEntries(clients)
         /\ Types(bufs, readfds, pc, cur, bi, net, backlog)
         /\ NetOK(net, open \cup Pending(pc, cur), Pending(pc, cur), backlog)
         /\ BufsOK(bufs, clients) /\ OwnData(bufs, clients, net)
         /\ pc \in {"select", "accept", "id"} => NoStale(bufs, clients)
         /\ pc \in {"accept", "id"} => readfds \ {LISTEN} \subseteq open
         /\ pc = "id" => cur \notin open
         /\ DueReadable(clients, net, readfds, Due(pc, cur))
         /\ pc = "frames" => bufs[bi].in_use /\ bufs[bi].client_index = cur
         /\ \A ci \in Clients : clients[ci].active => clients[ci].fd \in open
         /\ open \subseteq Fds
  BY DEF LInv, LoopOK, IInv, TablesOK, ClientOK

(* A peer that says more, or hangs up, stays fresh and readable if it was. *)
Grown(n, n2) ==
    \A p \in Peers : /\ n2[p].fd = n[p].fd
                     /\ Fresh(n[p]) => Fresh(n2[p])
                     /\ Talks(n[p]) => Talks(n2[p])

LEMMA GrownOK ==
  ASSUME NEW cs, NEW F, NEW bs, NEW R, NEW l, NEW c, NEW b, NEW n, NEW bl,
         LoopOK(cs, F, bs, R, l, c, b, n, bl),
         NEW n2 \in [Peers -> Peer], Grown(n, n2)
  PROVE  LoopOK(cs, F, bs, R, l, c, b, n2, bl)
<1>1. Types(bs, R, l, c, b, n2, bl)
  BY DEF LoopOK, Types
<1>2. NetOK(n2, F \cup Pending(l, c), Pending(l, c), bl)
  <2> DEFINE P == Pending(l, c)
  <2>1. NetOK(n, F \cup P, P, bl)
    BY DEF LoopOK
  <2> HIDE DEF P
  <2>2. \A p \in Peers : n2[p].fd = n[p].fd /\ (Fresh(n[p]) => Fresh(n2[p]))
    BY DEF Grown
  <2>3. NetOK(n2, F \cup P, P, bl)
    BY <2>1, <2>2 DEF NetOK
  <2> QED BY <2>3 DEF P
<1>3. OwnData(bs, cs, n2)
  <2> SUFFICES ASSUME NEW k \in Bufs, bs[k].in_use, cs[bs[k].client_index].active,
                      NEW j \in 1 .. Len(bs[k].data)
               PROVE  n2[bs[k].data[j][1]].fd = cs[bs[k].client_index].fd
    BY DEF OwnData
  <2>1. bs[k].data \in Seq(Peers \X Data)
    BY DEF LoopOK, Types, BufType
  <2>2. bs[k].data[j] \in Peers \X Data
    BY <2>1, ElementOfSeq
  <2>3. n[bs[k].data[j][1]].fd = cs[bs[k].client_index].fd
    BY DEF LoopOK, OwnData
  <2> QED BY <2>2, <2>3 DEF Grown
<1>4. DueReadable(cs, n2, R, Due(l, c))
  <2> DEFINE D == Due(l, c)
  <2>1. DueReadable(cs, n, R, D)
    BY DEF LoopOK
  <2> HIDE DEF D
  <2>2. DueReadable(cs, n2, R, D)
    BY <2>1 DEF DueReadable, ReadableIn, Grown
  <2> QED BY <2>2 DEF D
<1> QED BY <1>1, <1>2, <1>3, <1>4 DEF LoopOK

(* What a peer says keeps the type of its connection.                      *)
LEMMA SayGrows ==
  ASSUME net \in [Peers -> Peer], NEW p \in Peers, NEW d \in Data,
         NEW next \in {"LEN", "BODY", "ANY"}, Say(p, d, next),
         d \in GameIds \/ net[p].say # "ID"
  PROVE  net' \in [Peers -> Peer] /\ Grown(net, net')
<1> DEFINE r == [net[p] EXCEPT !.line = Append(@, d), !.say = next]
<1>1. net' = [net EXCEPT ![p] = r] /\ net[p] \in Peer /\ ~net[p].hung
  BY DEF Say
<1>2. net[p].line \in Seq(Data)
  BY <1>1 DEF Peer
<1>3. Append(net[p].line, d) \in Seq(Data)
  BY <1>2
<1>4. r \in Peer /\ r.fd = net[p].fd /\ r.hung = net[p].hung /\ r.line = Append(net[p].line, d)
  BY <1>1, <1>3 DEF Peer
<1>5. r.line # <<>>
  <2>1. Len(Append(net[p].line, d)) = Len(net[p].line) + 1 /\ Len(net[p].line) \in Nat
    BY <1>2
  <2>2. Append(net[p].line, d) # <<>>
    <3> DEFINE s == Append(net[p].line, d)
    <3>1. s \in Seq(Data) /\ Len(s) # 0
      BY <2>1, <1>3
    <3> HIDE DEF s
    <3>2. s # <<>>
      BY <3>1, EmptySeq
    <3> QED BY <3>2 DEF s
  <2> QED BY <2>2, <1>4
<1>6. /\ net[p].line = <<>> => r.line[1] = d
      /\ net[p].line # <<>> => r.line[1] = net[p].line[1]
  BY <1>2, <1>4
<1> HIDE DEF r
<1>7. Fresh(net[p]) => Fresh(r)
  BY <1>1, <1>5, <1>6 DEF Fresh
<1>8. net' \in [Peers -> Peer]
  BY <1>1, <1>4
<1>9. Grown(net, net')
  BY <1>1, <1>4, <1>5, <1>7 DEF Grown, Talks
<1> QED BY <1>8, <1>9

(* A peer that dials stands last in the backlog.                           *)
LEMMA DialOK ==
  ASSUME NEW cs, NEW F, NEW bs, NEW R, NEW l, NEW c, NEW b, NEW n, NEW bl,
         LoopOK(cs, F, bs, R, l, c, b, n, bl), NONE \notin F \cup Pending(l, c),
         NEW p \in Peers, n[p].fd = NONE, ~InLine(p, bl),
         NEW k \in 0 .. MaxDials, NEW n2, n2 = [n EXCEPT ![p] = Away(k)]
  PROVE  LoopOK(cs, F, bs, R, l, c, b, n2, Append(bl, p))
<1>1. /\ n \in [Peers -> Peer] /\ bl \in Seq(Peers) /\ Types(bs, R, l, c, b, n, bl)
      /\ NetOK(n, F \cup Pending(l, c), Pending(l, c), bl)
  BY DEF LoopOK, Types
<1>2. Away(k) \in Peer /\ Away(k).fd = NONE /\ Fresh(Away(k))
  BY DEF Away, Peer, Fresh
<1>3. /\ n2 \in [Peers -> Peer] /\ \A q \in Peers : n2[q].fd = n[q].fd
      /\ \A q \in Peers : q # p => n2[q] = n[q]
      /\ Fresh(n2[p])
  BY <1>1, <1>2
<1>4. /\ Append(bl, p) \in Seq(Peers) /\ Len(Append(bl, p)) = Len(bl) + 1 /\ Len(bl) \in Nat
      /\ \A i \in 1 .. Len(bl) : Append(bl, p)[i] = bl[i]
      /\ Append(bl, p)[Len(bl) + 1] = p
  BY <1>1
<1>5. Types(bs, R, l, c, b, n2, Append(bl, p))
  BY <1>1, <1>3, <1>4 DEF Types
<1>6. \A q \in Peers : InLine(q, Append(bl, p)) <=> InLine(q, bl) \/ q = p
  <2>1. \A i \in 1 .. Len(bl) + 1 : i \in 1 .. Len(bl) \/ i = Len(bl) + 1
    BY <1>4
  <2>2. \A i \in 1 .. Len(bl) : i \in 1 .. Len(bl) + 1
    BY <1>4
  <2>3. Len(bl) + 1 \in 1 .. Len(bl) + 1
    BY <1>4
  <2> QED BY <2>1, <2>2, <2>3, <1>4 DEF InLine
<1>7. NetOK(n2, F \cup Pending(l, c), Pending(l, c), Append(bl, p))
  <2> DEFINE P == Pending(l, c)
             al == Append(bl, p)
  <2>1. \A q \in Peers : n2[q].fd \in P \/ InLine(q, al) => Fresh(n2[q])
    BY <1>1, <1>3, <1>6 DEF NetOK
  <2>2. \A i, j \in 1 .. Len(al) : al[i] = al[j] => i = j
    BY <1>1, <1>4 DEF NetOK, InLine
  <2>3. \A q \in Peers : InLine(q, al) => n2[q].fd = NONE
    BY <1>1, <1>3, <1>6 DEF NetOK
  <2> HIDE DEF P, al
  <2>4. NetOK(n, F \cup P, P, bl)
    BY <1>1 DEF P
  <2>5. NetOK(n2, F \cup P, P, al)
    BY <2>1, <2>2, <2>3, <2>4, <1>3 DEF NetOK
  <2> QED BY <2>5 DEF P, al
<1>8. OwnData(bs, cs, n2)
  <2> SUFFICES ASSUME NEW i \in Bufs, bs[i].in_use, cs[bs[i].client_index].active,
                      NEW j \in 1 .. Len(bs[i].data)
               PROVE  n2[bs[i].data[j][1]].fd = cs[bs[i].client_index].fd
    BY DEF OwnData
  <2>1. bs[i].data \in Seq(Peers \X Data)
    BY DEF LoopOK, Types, BufType
  <2>2. bs[i].data[j] \in Peers \X Data
    BY <2>1, ElementOfSeq
  <2>3. n[bs[i].data[j][1]].fd = cs[bs[i].client_index].fd
    BY DEF LoopOK, OwnData
  <2> QED BY <2>2, <2>3, <1>3
<1>9. DueReadable(cs, n2, R, Due(l, c))
  <2> DEFINE D == Due(l, c)
  <2>1. DueReadable(cs, n, R, D)
    BY DEF LoopOK
  <2>2. \A ci \in D : ci \in Clients
    BY DEF Due
  <2> HIDE DEF D
  <2>3. ASSUME NEW ci \in D, cs[ci].active, cs[ci].fd \in R PROVE ReadableIn(n2, cs[ci].fd)
    <3>1. PICK q \in Peers : n[q].fd = cs[ci].fd /\ Talks(n[q])
      BY <2>1, <2>3 DEF DueReadable, ReadableIn
    <3>2. NONE \notin R
      BY <1>1, Sentinels DEF Types
    <3>3. q # p
      BY <3>1, <3>2, <2>3
    <3> QED BY <3>1, <3>3, <1>3 DEF ReadableIn
  <2>4. DueReadable(cs, n2, R, D)
    BY <2>3 DEF DueReadable
  <2> QED BY <2>4 DEF D
<1> QED BY <1>5, <1>7, <1>8, <1>9 DEF LoopOK

(* What the peers do.                                                      *)
LEMMA PeerInv ==
  ASSUME LInv, NEW p \in Peers, PeerStep(p)
  PROVE  LInv'
<1>1. /\ IInv /\ sent' = Silence /\ UNCHANGED tables /\ UNCHANGED loop
      /\ net \in [Peers -> Peer] /\ Control(pc, cur, bi) /\ open \subseteq Fds
      /\ LoopOK(clients, open, bufs, readfds, pc, cur, bi, net, backlog)
  BY Parts DEF PeerStep, Quiet, LInv, LoopOK, Types
<1>2. IInv'
  BY <1>1, QuietIsNext, NextInv DEF Quiet
<1>3. /\ clients' = clients /\ open' = open /\ bufs' = bufs /\ readfds' = readfds
      /\ pc' = pc /\ cur' = cur /\ bi' = bi
  BY <1>1 DEF tables, loop
<1> DEFINE OK2 == LoopOK(clients, open, bufs, readfds, pc, cur, bi, net', backlog')
<1>4. CASE Dial(p)
  <2>1. /\ net[p].fd = NONE /\ ~InLine(p, backlog) /\ backlog' = Append(backlog, p)
    BY <1>4 DEF Dial, Connected, Waiting, InLine
  <2>2. PICK k : k = IF MaxDials = 0 THEN 0 ELSE net[p].dials + 1
    OBVIOUS
  <2>3. net' = [net EXCEPT ![p] = Away(k)] /\ (net[p].dials < MaxDials \/ MaxDials = 0)
    BY <1>4, <2>2 DEF Dial
  <2>4. k \in 0 .. MaxDials
    BY <2>2, <2>3, <1>1, LoopAssumption DEF Peer
  <2>5. NONE \notin open \cup Pending(pc, cur)
    BY <1>1, Sentinels DEF Pending, Control
  <2>6. OK2
    BY <1>1, <2>1, <2>3, <2>4, <2>5, DialOK
  <2> QED BY <2>6, <1>2, <1>3 DEF LInv
<1>5. CASE SayId(p) \/ SayMore(p)
  <2>1. /\ backlog' = backlog
        /\ \E d \in Data, next \in {"LEN", "BODY", "ANY"} :
              Say(p, d, next) /\ (d \in GameIds \/ net[p].say # "ID")
    BY <1>5, LoopAssumption DEF SayId, SayMore, Say, Data
  <2>2. net' \in [Peers -> Peer] /\ Grown(net, net')
    BY <2>1, <1>1, SayGrows
  <2>3. OK2
    BY <1>1, <2>1, <2>2, GrownOK
  <2> QED BY <2>3, <1>2, <1>3 DEF LInv
<1>6. CASE HangUp(p)
  <2>1. PICK line \in {net[p].line, <<>>} :
           net' = [net EXCEPT ![p] = [@ EXCEPT !.hung = TRUE, !.line = line]]
    BY <1>6 DEF HangUp
  <2>2. backlog' = backlog
    BY <1>6 DEF HangUp
  <2> DEFINE r == [net[p] EXCEPT !.hung = TRUE, !.line = line]
  <2>3. r \in Peer /\ r.fd = net[p].fd /\ r.hung /\ r.line = line
    <3>1. net[p] \in Peer /\ net[p].line \in Seq(Data)
      BY <1>1 DEF Peer
    <3>2. line = net[p].line \/ line = <<>>
      OBVIOUS
    <3>3. line \in Seq(Data)
      BY <3>1, <3>2, EmptySeq
    <3> QED BY <3>1, <3>3 DEF Peer
  <2>4. net' = [net EXCEPT ![p] = r]
    BY <2>1
  <2> HIDE DEF r
  <2>5. Fresh(net[p]) => Fresh(r)
    BY <2>3 DEF Fresh
  <2>6. net' \in [Peers -> Peer] /\ Grown(net, net')
    BY <1>1, <2>3, <2>4, <2>5 DEF Grown, Talks
  <2>7. OK2
    BY <1>1, <2>2, <2>6, GrownOK
  <2> QED BY <2>7, <1>2, <1>3 DEF LInv
<1> QED BY <1>4, <1>5, <1>6 DEF PeerStep
-----------------------------------------------------------------------------
(* Only the thread moves: from l, c, b to l2, c2, b2, with what select     *)
(* reported in R2.                                                         *)
LEMMA MoveOK ==
  ASSUME NEW cs, NEW F, NEW bs, NEW R, NEW l, NEW c, NEW b, NEW n, NEW bl,
         LoopOK(cs, F, bs, R, l, c, b, n, bl), l # "id",
         NEW R2, NEW l2, NEW c2, NEW b2,
         R2 \subseteq Fds \cup {LISTEN}, Control(l2, c2, b2), l2 \in {"select", "accept", "scan"},
         l2 = "accept" => R2 \ {LISTEN} \subseteq F,
         l2 \in {"select", "accept"} => NoStale(bs, cs),
         DueReadable(cs, n, R2, Due(l2, c2))
  PROVE  LoopOK(cs, F, bs, R2, l2, c2, b2, n, bl)
<1>1. Pending(l, c) = {} /\ Pending(l2, c2) = {}
  BY DEF Pending
<1>2. Types(bs, R2, l2, c2, b2, n, bl)
  BY DEF LoopOK, Types
<1>3. NetOK(n, F \cup Pending(l2, c2), Pending(l2, c2), bl)
  BY <1>1 DEF LoopOK
<1>4. FreeEntries(cs) /\ BufsOK(bs, cs) /\ OwnData(bs, cs, n)
  BY DEF LoopOK
<1> QED BY <1>2, <1>3, <1>4 DEF LoopOK

(* The steps of the server that touch neither the tables nor the network.  *)
LEMMA MoveInv ==
  ASSUME LInv, Select \/ NoConnection \/ Skip \/ NoFrame
  PROVE  LInv'
<1>1. /\ Quiet /\ bufs' = bufs /\ net' = net /\ backlog' = backlog
      /\ clients' = clients /\ open' = open
  BY DEF Select, NoConnection, Skip, NoFrame, Quiet, tables
<1>2. IInv'
  BY <1>1, QuietIsNext, NextInv DEF LInv
<1>3. /\ LoopOK(clients, open, bufs, readfds, pc, cur, bi, net, backlog)
      /\ Types(bufs, readfds, pc, cur, bi, net, backlog)
      /\ DueReadable(clients, net, readfds, Due(pc, cur))
      /\ NetOK(net, open \cup Pending(pc, cur), Pending(pc, cur), backlog)
      /\ readfds \subseteq Fds \cup {LISTEN} /\ Control(pc, cur, bi)
      /\ pc \in {"select", "accept"} => NoStale(bufs, clients)
      /\ \A ci \in Clients : clients[ci].active => clients[ci].fd \in open
      /\ open \subseteq Fds
  BY Parts DEF LInv, Types
<1> DEFINE OK2 == LoopOK(clients, open, bufs, readfds', pc', cur', bi', net, backlog)
<1>4. ASSUME Select PROVE OK2
  <2>1. pc = "select" /\ readfds' = Ready /\ pc' = "accept" /\ cur' = NONE /\ bi' = NONE
    BY <1>4 DEF Select, GoTo
  <2>2. \A f \in open : \E p \in Peers : net[p].fd = f
    BY <1>3, <2>1 DEF NetOK, Pending
  <2>3. \A f \in Ready : f = LISTEN \/ (f \in open /\ Readable(f))
    BY <1>3 DEF Ready, FdsOf, ActiveClients
  <2>4. Ready \subseteq Fds \cup {LISTEN} /\ Ready \ {LISTEN} \subseteq open
    BY <2>3, <1>3
  <2>5. DueReadable(clients, net, Ready, Due("accept", NONE))
    <3> SUFFICES ASSUME NEW ci \in Clients, clients[ci].active, clients[ci].fd \in Ready
                 PROVE  ReadableIn(net, clients[ci].fd)
      BY DEF DueReadable, Due
    <3>1. clients[ci].fd \in open /\ clients[ci].fd # LISTEN
      BY <1>3, Sentinels
    <3> QED BY <3>1, <2>2, <2>3, ReadableIs
  <2>6. Control("accept", NONE, NONE)
    BY DEF Control
  <2> QED BY <2>1, <2>4, <2>5, <2>6, <1>3, MoveOK
<1>5. ASSUME NoConnection PROVE OK2
  <2>1. pc = "accept" /\ readfds' = readfds /\ pc' = "scan" /\ cur' = 0 /\ bi' = NONE
    BY <1>5 DEF NoConnection, GoTo
  <2>2. DueReadable(clients, net, readfds, Due("scan", 0))
    BY <1>3, <2>1 DEF DueReadable, Due
  <2>3. Control("scan", 0, NONE)
    BY Sentinels DEF Control
  <2> QED BY <2>1, <2>2, <2>3, <1>3, MoveOK
<1>6. ASSUME Skip PROVE OK2
  <2>1. /\ pc = "scan" /\ cur \in Clients
        /\ readfds' = readfds /\ pc' = "scan" /\ cur' = cur + 1 /\ bi' = NONE
    BY <1>6 DEF Skip, GoTo
  <2>2. DueReadable(clients, net, readfds, Due("scan", cur + 1))
    BY <1>3, <2>1, Sentinels DEF DueReadable, Due
  <2>3. Control("scan", cur + 1, NONE)
    BY <2>1, Sentinels DEF Control
  <2> QED BY <2>1, <2>2, <2>3, <1>3, MoveOK
<1>7. ASSUME NoFrame PROVE OK2
  <2>1. /\ pc = "frames" /\ cur \in Clients
        /\ readfds' = readfds /\ pc' = "scan" /\ cur' = cur + 1 /\ bi' = NONE
    BY <1>7, <1>3 DEF NoFrame, GoTo, Control
  <2>2. DueReadable(clients, net, readfds, Due("scan", cur + 1))
    BY <1>3, <2>1, Sentinels DEF DueReadable, Due
  <2>3. Control("scan", cur + 1, NONE)
    BY <2>1, Sentinels DEF Control
  <2> QED BY <2>1, <2>2, <2>3, <1>3, MoveOK
<1> QED BY <1>1, <1>2, <1>4, <1>5, <1>6, <1>7 DEF LInv

(* After the scan no buffer is left to a client that is gone.              *)
LEMMA ReapInv ==
  ASSUME LInv, reap_stale_bufs
  PROVE  LInv'
<1>1. /\ Quiet /\ net' = net /\ backlog' = backlog /\ readfds' = readfds
      /\ clients' = clients /\ open' = open
      /\ pc = "scan" /\ pc' = "select" /\ cur' = NONE /\ bi' = NONE
      /\ bufs' = [b \in Bufs |-> IF Stale(b) THEN FreeBuf ELSE bufs[b]]
  BY DEF reap_stale_bufs, Quiet, tables, GoTo
<1>2. IInv'
  BY <1>1, QuietIsNext, NextInv DEF LInv
<1>3. /\ FreeEntries(clients) /\ Types(bufs, readfds, pc, cur, bi, net, backlog)
      /\ NetOK(net, open \cup Pending(pc, cur), Pending(pc, cur), backlog)
      /\ BufsOK(bufs, clients) /\ OwnData(bufs, clients, net)
  BY Parts
<1>4. Pending(pc, cur) = {} /\ Pending("select", NONE) = {} /\ Due("select", NONE) = {}
  BY <1>1 DEF Pending, Due
<1>5. bufs \in [Bufs -> BufType] /\ FreeBuf \in BufType /\ ~FreeBuf.in_use
  BY <1>3 DEF Types, FreeBuf, BufType
<1>6. Types(bufs', readfds, "select", NONE, NONE, net, backlog)
  BY <1>1, <1>3, <1>5 DEF Types, Control
<1>7. /\ \A b \in Bufs : bufs'[b].in_use => bufs'[b] = bufs[b]
      /\ \A b \in Bufs : bufs'[b].in_use =>
            bufs[b].in_use /\ bufs[b].client_index \in ActiveClients
      /\ \A b \in Bufs : bufs[b].in_use /\ bufs[b].client_index \in ActiveClients =>
            bufs'[b] = bufs[b]
  BY <1>1, <1>5 DEF Stale
<1>8. BufsOK(bufs', clients)
  BY <1>3, <1>7 DEF BufsOK, ActiveClients
<1>9. OwnData(bufs', clients, net)
  BY <1>3, <1>7 DEF OwnData
<1>10. NoStale(bufs', clients)
  BY <1>7 DEF NoStale, ActiveClients
<1>11. DueReadable(clients, net, readfds, Due("select", NONE))
  BY <1>4 DEF DueReadable
<1>12. NetOK(net, open \cup Pending("select", NONE), Pending("select", NONE), backlog)
  BY <1>3, <1>4
<1>13. LoopOK(clients, open, bufs', readfds, "select", NONE, NONE, net, backlog)
  BY <1>3, <1>6, <1>8, <1>9, <1>10, <1>11, <1>12 DEF LoopOK
<1> QED BY <1>1, <1>2, <1>13 DEF LInv
-----------------------------------------------------------------------------
(* Only the connection of peer h changes, which no client and no buffer    *)
(* knows of.                                                               *)
LEMMA Elsewhere ==
  ASSUME LInv, NEW h \in Peers, NEW n2, \A p \in Peers : p # h => n2[p] = net[p],
         net[h].fd \notin open
  PROVE  OwnData(bufs, clients, n2) /\ DueReadable(clients, n2, readfds, Due(pc, cur))
<1>1. /\ bufs \in [Bufs -> BufType] /\ OwnData(bufs, clients, net) /\ BufsOK(bufs, clients)
      /\ DueReadable(clients, net, readfds, Due(pc, cur))
      /\ \A ci \in Clients : clients[ci].active => clients[ci].fd \in open
  BY Parts DEF Types
<1>2. Due(pc, cur) \subseteq Clients
  BY DEF Due
<1>3. OwnData(bufs, clients, n2)
  <2> SUFFICES ASSUME NEW k \in Bufs, bufs[k].in_use, clients[bufs[k].client_index].active,
                      NEW j \in 1 .. Len(bufs[k].data)
               PROVE  n2[bufs[k].data[j][1]].fd = clients[bufs[k].client_index].fd
    BY DEF OwnData
  <2>1. bufs[k].data \in Seq(Peers \X Data)
    BY <1>1 DEF BufType
  <2>2. bufs[k].data[j] \in Peers \X Data
    BY <2>1, ElementOfSeq
  <2>3. net[bufs[k].data[j][1]].fd = clients[bufs[k].client_index].fd
    BY <1>1 DEF OwnData
  <2>4. clients[bufs[k].client_index].fd \in open
    BY <1>1 DEF BufsOK
  <2> QED BY <2>2, <2>3, <2>4
<1>4. DueReadable(clients, n2, readfds, Due(pc, cur))
  <2> SUFFICES ASSUME NEW ci \in Due(pc, cur), clients[ci].active, clients[ci].fd \in readfds
               PROVE  ReadableIn(n2, clients[ci].fd)
    BY DEF DueReadable
  <2>1. PICK p \in Peers : net[p].fd = clients[ci].fd /\ Talks(net[p])
    BY <1>1 DEF DueReadable, ReadableIn
  <2>2. p # h
    BY <2>1, <1>1, <1>2
  <2> QED BY <2>1, <2>2 DEF ReadableIn
<1> QED BY <1>3, <1>4

(* The first of the backlog leaves it.                                     *)
LEMMA BacklogTail ==
  ASSUME NEW bl \in Seq(Peers), bl # <<>>,
         \A i, j \in 1 .. Len(bl) : bl[i] = bl[j] => i = j
  PROVE  /\ Tail(bl) \in Seq(Peers) /\ Head(bl) \in Peers /\ InLine(Head(bl), bl)
         /\ \A i, j \in 1 .. Len(Tail(bl)) : Tail(bl)[i] = Tail(bl)[j] => i = j
         /\ \A p \in Peers : InLine(p, Tail(bl)) <=> InLine(p, bl) /\ p # Head(bl)
<1>1. /\ Len(bl) \in Nat \ {0} /\ Tail(bl) \in Seq(Peers) /\ Head(bl) \in Peers
      /\ Len(Tail(bl)) = Len(bl) - 1 /\ Head(bl) = bl[1]
      /\ \A i \in 1 .. Len(bl) - 1 : Tail(bl)[i] = bl[i + 1]
  BY EmptySeq, HeadTailProperties
<1>2. \A i \in 1 .. Len(bl) - 1 : i + 1 \in 1 .. Len(bl)
  BY <1>1
<1>3. \A i \in 1 .. Len(bl) : i = 1 \/ (i - 1 \in 1 .. Len(bl) - 1 /\ (i - 1) + 1 = i)
  BY <1>1
<1>4. 1 \in 1 .. Len(bl)
  BY <1>1
<1>5. \A i, j \in 1 .. Len(Tail(bl)) : Tail(bl)[i] = Tail(bl)[j] => i = j
  BY <1>1, <1>2
<1>6. ASSUME NEW p \in Peers PROVE InLine(p, Tail(bl)) <=> InLine(p, bl) /\ p # Head(bl)
  <2>1. ASSUME NEW i \in 1 .. Len(Tail(bl)), Tail(bl)[i] = p
        PROVE  InLine(p, bl) /\ p # Head(bl)
    <3>1. i + 1 \in 1 .. Len(bl) /\ bl[i + 1] = p /\ i + 1 # 1
      BY <2>1, <1>1, <1>2
    <3> QED BY <3>1, <1>1, <1>4 DEF InLine
  <2>2. ASSUME NEW i \in 1 .. Len(bl), bl[i] = p, p # Head(bl) PROVE InLine(p, Tail(bl))
    <3>1. i - 1 \in 1 .. Len(Tail(bl)) /\ Tail(bl)[i - 1] = p
      BY <2>2, <1>1, <1>3
    <3> QED BY <3>1 DEF InLine
  <2> QED BY <2>1, <2>2 DEF InLine
<1> QED BY <1>1, <1>4, <1>5, <1>6 DEF InLine

(* accept gives the first of the backlog a descriptor nobody holds.        *)
LEMMA AcceptInv ==
  ASSUME LInv, Accept \/ AcceptFails
  PROVE  LInv'
<1> DEFINE h == Head(backlog)
<1>1. /\ Quiet /\ bufs' = bufs /\ readfds' = readfds /\ clients' = clients /\ open' = open
      /\ pc = "accept" /\ backlog # <<>> /\ backlog' = Tail(backlog) /\ bi' = NONE
  BY DEF Accept, AcceptFails, Quiet, tables, GoTo
<1>2. IInv'
  BY <1>1, QuietIsNext, NextInv DEF LInv
<1>3. /\ FreeEntries(clients) /\ BufsOK(bufs, clients) /\ NoStale(bufs, clients)
      /\ bufs \in [Bufs -> BufType] /\ readfds \subseteq Fds \cup {LISTEN}
      /\ net \in [Peers -> Peer] /\ backlog \in Seq(Peers) /\ open \subseteq Fds
      /\ readfds \ {LISTEN} \subseteq open
      /\ NetOK(net, open \cup Pending(pc, cur), Pending(pc, cur), backlog)
  BY <1>1, Parts DEF Types
<1>4. NetOK(net, open, {}, backlog) /\ Due(pc, cur) = Clients
  BY <1>1, <1>3 DEF Pending, Due
<1>5. \A i, j \in 1 .. Len(backlog) : backlog[i] = backlog[j] => i = j
  BY <1>4 DEF NetOK
<1>6. /\ backlog' \in Seq(Peers) /\ h \in Peers /\ InLine(h, backlog)
      /\ \A i, j \in 1 .. Len(backlog') : backlog'[i] = backlog'[j] => i = j
      /\ \A p \in Peers : InLine(p, backlog') <=> InLine(p, backlog) /\ p # h
  BY <1>1, <1>3, <1>5, BacklogTail
<1>7. net[h].fd = NONE /\ Fresh(net[h]) /\ net[h].fd \notin open
  BY <1>3, <1>4, <1>6, Sentinels DEF NetOK
<1> HIDE DEF h
<1>8. CASE Accept
  <2>1. PICK fd \in Fds : /\ fd \notin open
                          /\ net' = [net EXCEPT ![h] = [@ EXCEPT !.fd = fd]]
                          /\ pc' = "id" /\ cur' = fd
    BY <1>8 DEF Accept, IsFirst, GoTo, h
  <2> DEFINE r == [net[h] EXCEPT !.fd = fd]
  <2>2. r \in Peer /\ r.fd = fd /\ r.line = net[h].line /\ r.say = net[h].say
        /\ r.hung = net[h].hung
    BY <1>3, <1>6 DEF Peer
  <2>3. net' = [net EXCEPT ![h] = r]
    BY <2>1
  <2> HIDE DEF r
  <2>4. /\ net' \in [Peers -> Peer] /\ net'[h] = r
        /\ \A p \in Peers : p # h => net'[p] = net[p]
    BY <1>3, <1>6, <2>2, <2>3
  <2>5. OwnData(bufs, clients, net') /\ DueReadable(clients, net', readfds, Clients)
    BY <2>4, <1>4, <1>6, <1>7, Elsewhere
  <2>6. NetOK(net', open \cup {fd}, {fd}, backlog')
    <3>1. \A p \in Peers : net'[p].fd # NONE => net'[p].fd \in open \cup {fd}
      BY <2>2, <2>4, <1>4 DEF NetOK
    <3>2. \A p, q \in Peers : net'[p].fd # NONE /\ net'[p].fd = net'[q].fd => p = q
      BY <2>1, <2>2, <2>4, <1>4 DEF NetOK
    <3>3. \A f \in open \cup {fd} : \E p \in Peers : net'[p].fd = f
      BY <2>2, <2>4, <1>4, <1>6, <1>7 DEF NetOK
    <3>4. \A p \in Peers : InLine(p, backlog') => net'[p].fd = NONE /\ Fresh(net'[p])
      BY <2>4, <1>4, <1>6 DEF NetOK
    <3>5. Fresh(r)
      BY <2>2, <1>7 DEF Fresh
    <3>6. \A p \in Peers : net'[p].fd \in {fd} => Fresh(net'[p])
      <4>1. \A p \in Peers : p # h => net'[p].fd # fd
        BY <2>1, <2>4, <1>4, Sentinels DEF NetOK
      <4>2. Fresh(net'[h])
        BY <3>5, <2>4
      <4> QED BY <4>1, <4>2
    <3> QED BY <3>1, <3>2, <3>3, <3>4, <3>6, <1>6 DEF NetOK
  <2>7. Pending("id", fd) = {fd} /\ Due("id", fd) = Clients /\ Control("id", fd, NONE)
    BY DEF Pending, Due, Control
  <2>8. Types(bufs, readfds, "id", fd, NONE, net', backlog')
    BY <1>3, <1>6, <2>4, <2>7 DEF Types
  <2>9. LoopOK(clients, open, bufs, readfds, "id", fd, NONE, net', backlog')
    BY <1>3, <2>1, <2>5, <2>6, <2>7, <2>8 DEF LoopOK
  <2> QED BY <2>9, <2>1, <1>1, <1>2 DEF LInv
<1>9. CASE AcceptFails
  <2>1. /\ net' = [net EXCEPT ![h] = Away(@.dials)] /\ pc' = "select" /\ cur' = NONE
    BY <1>9 DEF AcceptFails, GoTo, h
  <2>2. Away(net[h].dials) \in Peer /\ Away(net[h].dials).fd = NONE
    BY <1>3, <1>6 DEF Away, Peer
  <2>3. /\ net' \in [Peers -> Peer] /\ net'[h].fd = NONE
        /\ \A p \in Peers : p # h => net'[p] = net[p]
    BY <1>3, <1>6, <2>1, <2>2
  <2>4. OwnData(bufs, clients, net')
    BY <2>3, <1>6, <1>7, Elsewhere
  <2>5. NetOK(net', open, {}, backlog')
    <3>1. \A p \in Peers : net'[p].fd # NONE => net'[p].fd \in open
      BY <2>3, <1>4 DEF NetOK
    <3>2. \A p, q \in Peers : net'[p].fd # NONE /\ net'[p].fd = net'[q].fd => p = q
      BY <2>3, <1>4 DEF NetOK
    <3>3. \A f \in open : \E p \in Peers : net'[p].fd = f
      BY <2>3, <1>4, <1>7 DEF NetOK
    <3>4. \A p \in Peers : InLine(p, backlog') => net'[p].fd = NONE /\ Fresh(net'[p])
      BY <2>3, <1>4, <1>6 DEF NetOK
    <3> QED BY <3>1, <3>2, <3>3, <3>4, <1>6 DEF NetOK
  <2>6. /\ Pending("select", NONE) = {} /\ Due("select", NONE) = {}
        /\ Control("select", NONE, NONE)
    BY DEF Pending, Due, Control
  <2>7. Types(bufs, readfds, "select", NONE, NONE, net', backlog')
    BY <1>3, <1>6, <2>3, <2>6 DEF Types
  <2>8. NetOK(net', open \cup Pending("select", NONE), Pending("select", NONE), backlog')
    BY <2>5, <2>6
  <2>9. DueReadable(clients, net', readfds, Due("select", NONE))
    BY <2>6 DEF DueReadable
  <2>10. LoopOK(clients, open, bufs, readfds, "select", NONE, NONE, net', backlog')
    BY <1>3, <2>4, <2>7, <2>8, <2>9 DEF LoopOK
  <2> QED BY <2>10, <2>1, <1>1, <1>2 DEF LInv
<1> QED BY <1>8, <1>9

(* A connection that gets no seat is closed and forgotten.                 *)
LEMMA ForgetInv ==
  ASSUME LInv, IInv', pc = "id", clients' = clients, open' = open, bufs' = bufs,
         readfds' = readfds, backlog' = backlog, net' = Drop(net, {cur}),
         GoTo("select", NONE, NONE)
  PROVE  LInv'
<1>1. pc' = "select" /\ cur' = NONE /\ bi' = NONE
  BY DEF GoTo
<1>2. /\ FreeEntries(clients) /\ BufsOK(bufs, clients) /\ NoStale(bufs, clients)
      /\ bufs \in [Bufs -> BufType] /\ readfds \subseteq Fds \cup {LISTEN}
      /\ net \in [Peers -> Peer] /\ backlog \in Seq(Peers) /\ open \subseteq Fds
      /\ OwnData(bufs, clients, net) /\ cur \notin open /\ cur \in Fds
      /\ NetOK(net, open \cup Pending(pc, cur), Pending(pc, cur), backlog)
      /\ \A ci \in Clients : clients[ci].active => clients[ci].fd \in open
  BY Parts DEF Types, Control
<1>3. NetOK(net, open \cup {cur}, {cur}, backlog) /\ NONE \notin {cur}
  BY <1>2, Sentinels DEF Pending
<1>4. NetOK(net', (open \cup {cur}) \ {cur}, {}, backlog)
  BY <1>2, <1>3, NetDrop
<1>5. (open \cup {cur}) \ {cur} = open /\ (open \cup {cur}) \ open = {cur}
  BY <1>2
<1>6. Survivors(clients, open \cup {cur}, clients, open) /\ Shrunk(bufs, bufs)
  BY DEF Survivors, Shrunk
<1>7. OwnData(bufs, clients, Drop(net, (open \cup {cur}) \ open))
  <2>1. \A b \in Bufs : bufs[b].in_use => bufs[b].client_index \in Clients
    BY <1>2 DEF BufsOK
  <2> QED BY <2>1, <1>2, <1>6, DropData
<1>8. /\ Pending("select", NONE) = {} /\ Due("select", NONE) = {}
      /\ Control("select", NONE, NONE)
  BY DEF Pending, Due, Control
<1>9. net' \in [Peers -> Peer]
  BY <1>2, DropType
<1>10. Types(bufs, readfds, "select", NONE, NONE, net', backlog)
  BY <1>2, <1>8, <1>9 DEF Types
<1>11. NetOK(net', open \cup Pending("select", NONE), Pending("select", NONE), backlog)
  BY <1>4, <1>5, <1>8
<1>12. DueReadable(clients, net', readfds, Due("select", NONE))
  BY <1>8 DEF DueReadable
<1>13. OwnData(bufs, clients, net')
  BY <1>5, <1>7
<1>14. LoopOK(clients, open, bufs, readfds, "select", NONE, NONE, net', backlog)
  BY <1>2, <1>10, <1>11, <1>12, <1>13 DEF LoopOK
<1> QED BY <1>1, <1>14 DEF LInv
-----------------------------------------------------------------------------
(* What a new connection does to the clients and the descriptors: nothing, *)
(* or one client more.                                                     *)
LEMMA SeatedOrNot ==
  ASSUME IInv, NEW fd \in Fds, fd \notin open, NEW id \in GameIds,
         server_handle_new_connection(fd, id)
  PROVE  \/ clients' = clients /\ open' = open
         \/ /\ open' = open \cup {fd}
            /\ \E ci \in Clients :
                  /\ ~clients[ci].active /\ clients'[ci].active /\ clients'[ci].fd = fd
                  /\ \A k \in Clients : k # ci =>
                        clients'[k].active = clients[k].active /\ clients'[k].fd = clients[k].fd
<1>1. \A gs, e : Refuse(fd, gs, e) => clients' = clients /\ open' = open
  BY DEF Refuse
<1>2. ASSUME NEW gi \in Games, NEW gs, NEW e, Join(fd, id, gi, gs, e),
             ~(clients' = clients /\ open' = open)
      PROVE  \E p \in Players, ci \in Clients :
                IsFirst(ci, FreeClients) /\ SitDown(fd, id, gi, gs, ci, p)
  BY <1>1, <1>2 DEF Join, SitDownUndone
<1>3. ASSUME NEW gi \in Games, NEW gs, NEW p \in Players, NEW ci \in Clients,
             IsFirst(ci, FreeClients), SitDown(fd, id, gi, gs, ci, p)
      PROVE  /\ open' = open \cup {fd}
             /\ ~clients[ci].active /\ clients'[ci].active /\ clients'[ci].fd = fd
             /\ \A k \in Clients : k # ci =>
                    clients'[k].active = clients[k].active /\ clients'[k].fd = clients[k].fd
  <2> DEFINE g == [gs[gi] EXCEPT !.client_slots[p] = ci]
             start == EmptySeats(g) = {}
             ready == Paired(ci, g.client_slots[Opponent(p)])
             seated == [fd |-> fd, active |-> TRUE, game_id |-> id, player_num |-> p,
                        phase |-> "WAITING", game_index |-> gi]
  <2>1. /\ open' = open \cup {fd}
        /\ clients' = [k \in Clients |->
              LET c == IF k = ci THEN seated ELSE clients[k]
              IN  IF start /\ k \in ready THEN [c EXCEPT !.phase = "PLACEMENT"] ELSE c]
    BY <1>3 DEF SitDown
  <2>2. clients \in [Clients -> Client] /\ ~clients[ci].active
    BY <1>3 DEF IInv, TablesOK, IsFirst, FreeClients, ActiveClients
  <2> HIDE DEF start, ready
  <2>3. clients'[ci].active /\ clients'[ci].fd = fd
    BY <2>1
  <2>4. \A k \in Clients : k # ci =>
           clients'[k].active = clients[k].active /\ clients'[k].fd = clients[k].fd
    BY <2>1, <2>2 DEF Client
  <2> QED BY <2>1, <2>2, <2>3, <2>4
<1>4. \/ clients' = clients /\ open' = open
      \/ \E gi \in Games : \E gs, e : Join(fd, id, gi, gs, e)
  <2>1. ASSUME JoinExisting(fd, id) PROVE \E gi \in Games : \E gs, e : Join(fd, id, gi, gs, e)
    BY <2>1 DEF JoinExisting
  <2>2. ASSUME JoinCreated(fd, id) PROVE \E gi \in Games : \E gs, e : Join(fd, id, gi, gs, e)
    BY <2>2 DEF JoinCreated
  <2>3. EngineRefusesGame(fd, id) \/ NoFreeGame(fd, id) => clients' = clients /\ open' = open
    BY <1>1 DEF EngineRefusesGame, NoFreeGame
  <2> QED BY <2>1, <2>2, <2>3 DEF server_handle_new_connection
<1>5. ASSUME NEW gi \in Games, NEW gs, NEW e, Join(fd, id, gi, gs, e),
             ~(clients' = clients /\ open' = open)
      PROVE  /\ open' = open \cup {fd}
             /\ \E ci \in Clients :
                  /\ ~clients[ci].active /\ clients'[ci].active /\ clients'[ci].fd = fd
                  /\ \A k \in Clients : k # ci =>
                        clients'[k].active = clients[k].active /\ clients'[k].fd = clients[k].fd
  <2>1. PICK p \in Players, ci \in Clients :
           IsFirst(ci, FreeClients) /\ SitDown(fd, id, gi, gs, ci, p)
    BY <1>2, <1>5
  <2> QED BY <2>1, <1>3
<1> QED BY <1>4, <1>5

(* While no buffer is stale there is one for every newcomer.               *)
LEMMA BufferLeft ==
  ASSUME BufsOK(bufs, clients), NoStale(bufs, clients), NEW ci \in Clients, ~clients[ci].active
  PROVE  FreeBufs # {}
<1> SUFFICES ASSUME FreeBufs = {} PROVE FALSE
  OBVIOUS
<1> DEFINE T == Clients \ {ci}
           f == [b \in Bufs |-> bufs[b].client_index]
<1>1. \A b \in Bufs : bufs[b].in_use
  BY DEF FreeBufs
<1>2. \A b \in Bufs : bufs[b].client_index \in T
  BY <1>1 DEF BufsOK, NoStale
<1>3. \A b, c \in Bufs : f[b] = f[c] => b = c
  BY <1>1 DEF BufsOK
<1>4. f \in [Bufs -> T]
  BY <1>2
<1>5. /\ IsFiniteSet(Bufs) /\ Cardinality(Bufs) = MAX_CLIENTS
      /\ IsFiniteSet(Clients) /\ Cardinality(Clients) = MAX_CLIENTS
  BY ClientsFinite, Sentinels
<1>6. IsFiniteSet(T) /\ Cardinality(T) = Cardinality(Clients) - 1
  BY <1>5, FS_RemoveElement
<1>7. Cardinality(T) < Cardinality(Bufs)
  BY <1>5, <1>6, Sentinels
<1> HIDE DEF f, T
<1> QED BY <1>3, <1>4, <1>5, <1>6, <1>7, FS_PigeonHole

(* A connection that gets a seat gets a buffer.                            *)
LEMMA NewConnectionLoopInv ==
  ASSUME LInv, NewConnection
  PROVE  LInv' /\ [Next]_vars
<1> DEFINE h == PeerAt(cur)
           id == Head(Line(cur))
<1>1. /\ IInv /\ FreeEntries(clients) /\ BufsOK(bufs, clients) /\ NoStale(bufs, clients)
      /\ bufs \in [Bufs -> BufType] /\ readfds \subseteq Fds \cup {LISTEN}
      /\ net \in [Peers -> Peer] /\ backlog \in Seq(Peers) /\ open \subseteq Fds
      /\ OwnData(bufs, clients, net) /\ pc = "id" /\ cur \notin open /\ cur \in Fds
      /\ readfds \ {LISTEN} \subseteq open
      /\ NetOK(net, open \cup Pending(pc, cur), Pending(pc, cur), backlog)
      /\ DueReadable(clients, net, readfds, Due(pc, cur))
      /\ \A ci \in Clients : clients[ci].active => clients[ci].fd \in open
  BY Parts DEF Types, Control, NewConnection
<1>2. /\ NetOK(net, open \cup {cur}, {cur}, backlog) /\ Due(pc, cur) = Clients
      /\ cur # NONE /\ cur # LISTEN
  BY <1>1, Sentinels DEF Pending, Due
<1>3. h \in Peers /\ net[h].fd = cur /\ Line(cur) = net[h].line /\ Line(cur) # <<>>
  <2>1. \E p \in Peers : net[p].fd = cur
    BY <1>2 DEF NetOK
  <2> QED BY <2>1, PeerAtIs DEF Line, NewConnection
<1>4. id \in GameIds /\ net[h].line \in Seq(Data)
  <2>1. Fresh(net[h])
    BY <1>2, <1>3 DEF NetOK
  <2>2. net[h].line[1] \in GameIds /\ net[h].line \in Seq(Data)
    BY <2>1, <1>1, <1>3 DEF Fresh, Peer
  <2> QED BY <2>2, <1>3
<1>5. /\ server_handle_new_connection(cur, id)
      /\ readfds' = readfds /\ backlog' = backlog
  BY DEF NewConnection
<1> HIDE DEF h, id
<1>6. [Next]_vars /\ IInv'
  <2>1. Next
    BY <1>1, <1>4, <1>5 DEF Next
  <2> QED BY <2>1, <1>1, NextInv
<1>7. CASE cur \notin open'
  <2>1. clients' = clients /\ open' = open
    BY <1>1, <1>4, <1>5, <1>7, SeatedOrNot
  <2>2. net' = Drop(net, {cur}) /\ GoTo("select", NONE, NONE) /\ bufs' = bufs
    BY <1>7 DEF NewConnection
  <2> QED BY <2>1, <2>2, <1>1, <1>5, <1>6, ForgetInv
<1>8. CASE cur \in open'
  <2>1. open' = open \cup {cur}
    BY <1>1, <1>4, <1>5, <1>8, SeatedOrNot
  <2>2. PICK ci \in Clients :
           /\ ~clients[ci].active /\ clients'[ci].active /\ clients'[ci].fd = cur
           /\ \A k \in Clients : k # ci =>
                 clients'[k].active = clients[k].active /\ clients'[k].fd = clients[k].fd
    BY <1>1, <1>4, <1>5, <1>8, SeatedOrNot
  <2>3. /\ \E k \in Clients : clients'[k].active /\ clients'[k].fd = cur /\ alloc_buf(k)
        /\ net' = [net EXCEPT ![h].line = Tail(@)]
        /\ GoTo("scan", 0, NONE)
    BY <1>8 DEF NewConnection, h
  <2>3a. pc' = "scan" /\ cur' = 0 /\ bi' = NONE
    BY <2>3 DEF GoTo
  <2>4. alloc_buf(ci)
    <3>1. \A k \in Clients : clients'[k].active /\ clients'[k].fd = cur => k = ci
      BY <2>2, <1>1
    <3> QED BY <3>1, <2>3
  <2>5. PICK b \in Bufs : ~bufs[b].in_use /\ bufs' = [bufs EXCEPT ![b] = NewBuf(ci)]
    <3>1. FreeBufs # {}
      BY <2>2, <1>1, BufferLeft
    <3> QED BY <3>1, <2>4 DEF alloc_buf, IsFirst, FreeBufs
  <2>6. /\ NewBuf(ci) \in BufType /\ NewBuf(ci).in_use /\ NewBuf(ci).client_index = ci
        /\ NewBuf(ci).data = <<>>
    BY EmptySeq DEF NewBuf, FreeBuf, BufType
  <2>7. /\ bufs' \in [Bufs -> BufType] /\ bufs'[b] = NewBuf(ci)
        /\ \A k \in Bufs : k # b => bufs'[k] = bufs[k]
    BY <1>1, <2>5, <2>6
  <2> DEFINE r == [net[h] EXCEPT !.line = Tail(@)]
  <2>8. net' = [net EXCEPT ![h] = r]
    BY <2>3
  <2>9. r \in Peer /\ r.fd = cur
    <3>1. Tail(net[h].line) \in Seq(Data)
      BY <1>3, <1>4, HeadTailProperties
    <3> QED BY <3>1, <1>1, <1>3 DEF Peer
  <2> HIDE DEF r
  <2>10. /\ net' \in [Peers -> Peer] /\ \A p \in Peers : net'[p].fd = net[p].fd
         /\ \A p \in Peers : p # h => net'[p] = net[p]
    BY <1>1, <1>3, <2>8, <2>9
  <2>11. /\ OwnData(bufs, clients, net') /\ DueReadable(clients, net', readfds, Clients)
    BY <2>10, <1>1, <1>2, <1>3, Elsewhere
  <2>12. BufsOK(bufs', clients')
    <3>1. \A k \in Bufs : bufs[k].in_use => bufs[k].client_index # ci
      BY <1>1, <2>2 DEF NoStale
    <3>2. \A k \in Bufs : bufs'[k].in_use => bufs'[k].client_index \in Clients
      BY <1>1, <2>6, <2>7 DEF BufsOK
    <3>3. \A j, k \in Bufs : bufs'[j].in_use /\ bufs'[k].in_use
                             /\ bufs'[j].client_index = bufs'[k].client_index => j = k
      BY <1>1, <2>6, <2>7, <3>1 DEF BufsOK
    <3>4. ASSUME NEW k \in Clients, clients'[k].active
          PROVE  \E j \in Bufs : bufs'[j].in_use /\ bufs'[j].client_index = k
      <4>1. CASE k = ci
        BY <4>1, <2>6, <2>7
      <4>2. CASE k # ci
        <5>1. PICK j \in Bufs : bufs[j].in_use /\ bufs[j].client_index = k
          BY <4>2, <3>4, <2>2, <1>1 DEF BufsOK
        <5>2. j # b
          BY <5>1, <2>5
        <5> QED BY <5>1, <5>2, <2>7
      <4> QED BY <4>1, <4>2
    <3> QED BY <3>2, <3>3, <3>4 DEF BufsOK
  <2>13. OwnData(bufs', clients', net')
    <3> SUFFICES ASSUME NEW k \in Bufs, bufs'[k].in_use, clients'[bufs'[k].client_index].active,
                        NEW j \in 1 .. Len(bufs'[k].data)
                 PROVE  net'[bufs'[k].data[j][1]].fd = clients'[bufs'[k].client_index].fd
      BY DEF OwnData
    <3>1. k # b
      BY <2>6, <2>7
    <3>2. bufs'[k] = bufs[k] /\ bufs[k].client_index \in Clients
          /\ clients[bufs[k].client_index].active
      BY <3>1, <2>7, <1>1 DEF BufsOK, NoStale
    <3>3. bufs[k].client_index # ci
      BY <3>2, <2>2
    <3>4. clients'[bufs[k].client_index].fd = clients[bufs[k].client_index].fd
      BY <3>2, <3>3, <2>2
    <3>5. net'[bufs[k].data[j][1]].fd = clients[bufs[k].client_index].fd
      BY <3>2, <2>11 DEF OwnData
    <3> QED BY <3>2, <3>4, <3>5
  <2>14. DueReadable(clients', net', readfds, Clients)
    <3>1. cur \notin readfds
      BY <1>1, <1>2
    <3> QED BY <3>1, <2>2, <2>11 DEF DueReadable
  <2>15. DueReadable(clients', net', readfds, Due("scan", 0))
    <3>1. Due("scan", 0) \subseteq Clients
      BY DEF Due
    <3> QED BY <3>1, <2>14 DEF DueReadable
  <2>16. NetOK(net', open', {}, backlog)
    <3>1. ASSUME NEW p \in Peers, InLine(p, backlog) PROVE Fresh(net'[p])
      <4>1. net[p].fd = NONE /\ Fresh(net[p])
        BY <3>1, <1>2 DEF NetOK
      <4>2. p # h
        BY <4>1, <1>2, <1>3
      <4> QED BY <4>1, <4>2, <2>10
    <3> QED BY <3>1, <2>1, <2>10, <1>2 DEF NetOK
  <2>17. Pending("scan", 0) = {} /\ Control("scan", 0, NONE)
    BY Sentinels DEF Pending, Control
  <2>18. Types(bufs', readfds, "scan", 0, NONE, net', backlog)
    BY <1>1, <2>7, <2>10, <2>17 DEF Types
  <2>19. FreeEntries(clients')
    BY <1>1, <2>2 DEF FreeEntries
  <2>20. NetOK(net', open' \cup Pending("scan", 0), Pending("scan", 0), backlog)
    BY <2>16, <2>17
  <2>21. LoopOK(clients', open', bufs', readfds, "scan", 0, NONE, net', backlog)
    BY <2>12, <2>13, <2>15, <2>18, <2>19, <2>20 DEF LoopOK
  <2> QED BY <2>3a, <2>21, <1>5, <1>6 DEF LInv
<1> QED BY <1>7, <1>8

(* A peer that is gone before its game id has come is forgotten.           *)
LEMMA ConnectionLostInv ==
  ASSUME LInv, ConnectionLost
  PROVE  LInv' /\ [Next]_vars
<1>1. /\ IInv /\ pc = "id" /\ cur \in Fds /\ cur \notin open
  BY Parts DEF ConnectionLost, Types, Control
<1>2. /\ NoGameId(cur) /\ clients' = clients /\ open' = open /\ bufs' = bufs
      /\ readfds' = readfds /\ backlog' = backlog /\ net' = Drop(net, {cur})
      /\ GoTo("select", NONE, NONE)
  BY DEF ConnectionLost, NoGameId, tables
<1>3. Next
  BY <1>1, <1>2 DEF Next
<1>4. IInv'
  BY <1>1, <1>3, NextInv
<1> QED BY <1>1, <1>2, <1>3, <1>4, ForgetInv
-----------------------------------------------------------------------------
(* The buffer that is found for a connected client is its own.             *)
LEMMA FoundIsOwn ==
  ASSUME LInv, NEW ci \in ActiveClients, NEW b \in Bufs
  PROVE  b \in BufsOfFd(clients[ci].fd) <=> bufs[b].in_use /\ bufs[b].client_index = ci
<1>1. /\ ci \in Clients /\ clients[ci].active /\ clients[ci].fd # NONE
      /\ \A cj \in Clients : clients[cj].active /\ clients[cj].fd = clients[ci].fd => cj = ci
  BY Parts, Sentinels DEF ActiveClients, IInv, TablesOK, ClientOK
<1>2. \A cj \in Clients : ~clients[cj].active => clients[cj].fd = NONE
  BY Parts DEF FreeEntries
<1>3. bufs[b].in_use => bufs[b].client_index \in Clients
  BY Parts DEF BufsOK
<1> QED BY <1>1, <1>2, <1>3 DEF BufsOfFd

(* What one read of n items appends to a buffer.                           *)
Chunk(p, line, n) == [k \in 1 .. n |-> <<p, line[k]>>]

Received(p, line, n, old, new) ==
    /\ new \in Seq(Peers \X Data) /\ SubSeq(line, n + 1, Len(line)) \in Seq(Data)
    /\ \A k \in 1 .. Len(new) : (k \in 1 .. Len(old) /\ new[k] = old[k]) \/ new[k][1] = p

LEMMA ChunkReceived ==
  ASSUME NEW p \in Peers, NEW line \in Seq(Data), NEW n \in 1 .. Len(line),
         NEW old \in Seq(Peers \X Data)
  PROVE  Received(p, line, n, old, old \o Chunk(p, line, n))
<1> DEFINE m == Chunk(p, line, n)
           new == old \o m
<1>1. n \in Nat /\ Len(line) \in Nat /\ Len(old) \in Nat /\ n <= Len(line)
  BY LenProperties
<1>2. \A k \in 1 .. n : line[k] \in Data
  BY <1>1, ElementOfSeq
<1>3. m \in [1 .. n -> Peers \X Data]
  BY <1>2 DEF Chunk
<1>4. m \in Seq(Peers \X Data) /\ Len(m) = n
  <2> HIDE DEF m
  <2> QED BY <1>1, <1>3
<1>5. \A k \in 1 .. n : m[k][1] = p
  BY DEF Chunk
<1> HIDE DEF m
<1>6. new = old \o m
  OBVIOUS
<1> HIDE DEF new
<1>7. /\ new \in Seq(Peers \X Data) /\ Len(new) = Len(old) + n
      /\ \A i \in 1 .. Len(old) + n : new[i] = IF i <= Len(old) THEN old[i] ELSE m[i - Len(old)]
  <2>1. /\ old \o m \in Seq(Peers \X Data) /\ Len(old \o m) = Len(old) + Len(m)
        /\ \A i \in 1 .. Len(old) + Len(m) :
              (old \o m)[i] = IF i <= Len(old) THEN old[i] ELSE m[i - Len(old)]
    BY <1>4, ConcatProperties
  <2> QED BY <2>1, <1>4, <1>6
<1>8. ASSUME NEW k \in 1 .. Len(new)
      PROVE  (k \in 1 .. Len(old) /\ new[k] = old[k]) \/ new[k][1] = p
  <2>1. CASE k <= Len(old)
    BY <2>1, <1>1, <1>7
  <2>2. CASE ~(k <= Len(old))
    <3>1. k \in 1 .. Len(old) + n
      BY <1>7
    <3>2. new[k] = m[k - Len(old)]
      BY <2>2, <3>1, <1>7
    <3>3. k - Len(old) \in 1 .. n
      BY <2>2, <3>1, <1>1
    <3> QED BY <3>2, <3>3, <1>5
  <2> QED BY <2>1, <2>2
<1>9. SubSeq(line, n + 1, Len(line)) \in Seq(Data)
  <2>1. \A i \in n + 1 .. Len(line) : line[i] \in Data
    <3>1. \A i \in n + 1 .. Len(line) : i \in 1 .. Len(line)
      BY <1>1
    <3> QED BY <3>1, ElementOfSeq
  <2> QED BY <2>1, <1>1, SubSeqProperties
<1> QED BY <1>7, <1>8, <1>9 DEF new, m, Received

(* A read moves what has arrived into the buffer of that client.           *)
LEMMA ReadInv ==
  ASSUME LInv, Read
  PROVE  LInv'
<1> DEFINE fd == clients[cur].fd
           p == PeerAt(fd)
<1>1. /\ Quiet /\ readfds' = readfds /\ backlog' = backlog /\ clients' = clients /\ open' = open
      /\ pc = "scan" /\ cur \in ActiveClients /\ cur \in Clients /\ fd \in readfds
      /\ clients[cur].active
  BY DEF Read, AtReadyClient, Quiet, tables, ActiveClients
<1>2. IInv'
  BY <1>1, QuietIsNext, NextInv DEF LInv
<1>3. /\ FreeEntries(clients) /\ BufsOK(bufs, clients) /\ OwnData(bufs, clients, net)
      /\ bufs \in [Bufs -> BufType] /\ readfds \subseteq Fds \cup {LISTEN}
      /\ net \in [Peers -> Peer] /\ backlog \in Seq(Peers) /\ open \subseteq Fds
      /\ NetOK(net, open \cup Pending(pc, cur), Pending(pc, cur), backlog)
      /\ DueReadable(clients, net, readfds, Due(pc, cur))
      /\ \A ci \in Clients : clients[ci].active => clients[ci].fd \in open
  BY Parts DEF Types
<1>4. /\ NetOK(net, open, {}, backlog) /\ fd \in open /\ fd # NONE
      /\ DueReadable(clients, net, readfds, {ci \in Clients : ci >= cur})
  BY <1>1, <1>3, Sentinels DEF Pending, Due
<1>5. p \in Peers /\ net[p].fd = fd /\ Line(fd) = net[p].line
  <2>1. \E q \in Peers : net[q].fd = fd
    BY <1>4 DEF NetOK
  <2> QED BY <2>1, PeerAtIs DEF Line
<1>6. net[p].line \in Seq(Data)
  BY <1>3, <1>5 DEF Peer
<1>7. PICK b \in Bufs, n \in 1 .. Len(Line(fd)) :
         /\ find_buf_by_fd(fd, b)
         /\ bufs' = [bufs EXCEPT ![b].data = @ \o [k \in 1 .. n |-> <<p, Line(fd)[k]>>]]
         /\ net' = [net EXCEPT ![p].line = SubSeq(@, n + 1, Len(@))]
         /\ GoTo("frames", cur, b)
  BY DEF Read
<1>8. bufs[b].in_use /\ bufs[b].client_index = cur
  BY <1>1, <1>7, FoundIsOwn DEF find_buf_by_fd, IsFirst
<1>9. pc' = "frames" /\ cur' = cur /\ bi' = b
  BY <1>7 DEF GoTo
<1> DEFINE line == net[p].line
           old == bufs[b].data
           new == old \o [k \in 1 .. n |-> <<p, line[k]>>]
           rest == SubSeq(line, n + 1, Len(line))
<1>10. old \in Seq(Peers \X Data)
  BY <1>3 DEF BufType
<1>11. /\ bufs' = [bufs EXCEPT ![b] = [bufs[b] EXCEPT !.data = new]]
       /\ net' = [net EXCEPT ![p] = [net[p] EXCEPT !.line = rest]]
  BY <1>5, <1>7
<1>12. n \in 1 .. Len(line)
  BY <1>5
<1> HIDE DEF p
<1>13. /\ new \in Seq(Peers \X Data) /\ rest \in Seq(Data)
       /\ \A k \in 1 .. Len(new) : (k \in 1 .. Len(old) /\ new[k] = old[k]) \/ new[k][1] = p
  <2>1. line \in Seq(Data)
    BY <1>6
  <2>2. new = old \o Chunk(p, line, n)
    BY DEF Chunk
  <2>3. rest = SubSeq(line, n + 1, Len(line))
    OBVIOUS
  <2>4. p \in Peers
    BY <1>5
  <2> HIDE DEF line, old, new, rest
  <2>5. Received(p, line, n, old, old \o Chunk(p, line, n))
    BY <2>1, <2>4, <1>10, <1>12, ChunkReceived
  <2> QED BY <2>2, <2>3, <2>5 DEF Received
<1> HIDE DEF fd, line, old, new, rest
<1>14. /\ bufs' \in [Bufs -> BufType]
       /\ \A k \in Bufs : bufs'[k].in_use = bufs[k].in_use
                          /\ bufs'[k].client_index = bufs[k].client_index
       /\ bufs'[b].data = new /\ \A k \in Bufs : k # b => bufs'[k] = bufs[k]
  BY <1>3, <1>11, <1>13 DEF BufType
<1>15. /\ net' \in [Peers -> Peer] /\ \A q \in Peers : net'[q].fd = net[q].fd
       /\ \A q \in Peers : q # p => net'[q] = net[q]
  BY <1>3, <1>5, <1>11, <1>13 DEF Peer
<1>16. BufsOK(bufs', clients)
  BY <1>3, <1>14 DEF BufsOK
<1>17. OwnData(bufs', clients, net')
  <2> SUFFICES ASSUME NEW k \in Bufs, bufs'[k].in_use, clients[bufs'[k].client_index].active,
                      NEW j \in 1 .. Len(bufs'[k].data)
               PROVE  net'[bufs'[k].data[j][1]].fd = clients[bufs'[k].client_index].fd
    BY DEF OwnData
  <2>1. /\ bufs[k].in_use /\ bufs'[k].client_index = bufs[k].client_index
        /\ clients[bufs[k].client_index].active
    BY <1>14
  <2>2. ASSUME NEW i \in 1 .. Len(bufs[k].data)
        PROVE  net'[bufs[k].data[i][1]].fd = clients[bufs[k].client_index].fd
    <3>1. bufs[k].data \in Seq(Peers \X Data)
      BY <1>3 DEF BufType
    <3>2. bufs[k].data[i] \in Peers \X Data
      BY <3>1, ElementOfSeq
    <3>3. net[bufs[k].data[i][1]].fd = clients[bufs[k].client_index].fd
      BY <2>1, <1>3 DEF OwnData
    <3> QED BY <3>2, <3>3, <1>15
  <2>3. CASE k # b
    BY <2>1, <2>2, <2>3, <1>14
  <2>4. CASE k = b
    <3>1. j \in 1 .. Len(new) /\ bufs'[k].data[j] = new[j]
      BY <2>4, <1>14
    <3>2. CASE j \in 1 .. Len(old) /\ new[j] = old[j]
      BY <3>1, <3>2, <2>1, <2>2, <2>4 DEF old
    <3>3. CASE new[j][1] = p
      BY <3>1, <3>3, <2>1, <2>4, <1>5, <1>8, <1>15 DEF fd
    <3> QED BY <3>1, <3>2, <3>3, <1>13
  <2> QED BY <2>3, <2>4
<1>18. DueReadable(clients, net', readfds, Due("frames", cur))
  <2> SUFFICES ASSUME NEW ci \in Clients, ci > cur, clients[ci].active,
                      clients[ci].fd \in readfds
               PROVE  ReadableIn(net', clients[ci].fd)
    BY DEF DueReadable, Due
  <2>0. ci >= cur /\ ci # cur
    BY <1>1, Sentinels
  <2>1. PICK q \in Peers : net[q].fd = clients[ci].fd /\ Talks(net[q])
    BY <2>0, <1>4 DEF DueReadable, ReadableIn
  <2>2. clients[ci].fd # fd
    BY <2>0, <1>1, <1>2 DEF IInv, TablesOK, fd
  <2>3. q # p
    BY <2>1, <2>2, <1>5
  <2> QED BY <2>1, <2>3, <1>15 DEF ReadableIn
<1>19. NetOK(net', open, {}, backlog)
  <2>1. ASSUME NEW q \in Peers, InLine(q, backlog) PROVE Fresh(net'[q])
    <3>1. net[q].fd = NONE /\ Fresh(net[q])
      BY <2>1, <1>4 DEF NetOK
    <3>2. q # p
      BY <3>1, <1>4, <1>5
    <3> QED BY <3>1, <3>2, <1>15
  <2> QED BY <2>1, <1>15, <1>4 DEF NetOK
<1>20. Pending("frames", cur) = {} /\ Control("frames", cur, b)
  BY <1>1 DEF Pending, Control
<1>21. Types(bufs', readfds, "frames", cur, b, net', backlog)
  BY <1>3, <1>14, <1>15, <1>20 DEF Types
<1>22. NetOK(net', open \cup Pending("frames", cur), Pending("frames", cur), backlog)
  BY <1>19, <1>20
<1>23. bufs'[b].in_use /\ bufs'[b].client_index = cur
  BY <1>8, <1>14
<1>24. LoopOK(clients, open, bufs', readfds, "frames", cur, b, net', backlog)
  BY <1>3, <1>16, <1>17, <1>18, <1>21, <1>22, <1>23 DEF LoopOK
<1> QED BY <1>1, <1>2, <1>9, <1>24 DEF LInv
-----------------------------------------------------------------------------
(* A handler ends clients, whose connections go with them, and the loop    *)
(* takes data from a buffer or frees it.                                   *)
LEMMA CallOK ==
  ASSUME LInv, IInv', FreeEntries(clients'), Survivors(clients, open, clients', open'),
         pc \in {"scan", "frames"}, net' = Drop(net, open \ open'),
         backlog' = backlog, readfds' = readfds,
         bufs' \in [Bufs -> BufType], Shrunk(bufs, bufs'),
         \A b \in Bufs : bufs[b].in_use /\ clients'[bufs[b].client_index].active
                            => bufs'[b].in_use,
         pc' \in {"scan", "frames"}, Control(pc', cur', bi'),
         Due(pc', cur') \subseteq Due(pc, cur),
         pc' = "frames" => bufs'[bi'].in_use /\ bufs'[bi'].client_index = cur'
  PROVE  LInv'
<1>1. /\ BufsOK(bufs, clients) /\ OwnData(bufs, clients, net)
      /\ bufs \in [Bufs -> BufType] /\ readfds \subseteq Fds \cup {LISTEN}
      /\ net \in [Peers -> Peer] /\ backlog \in Seq(Peers) /\ open \subseteq Fds
      /\ NetOK(net, open \cup Pending(pc, cur), Pending(pc, cur), backlog)
      /\ DueReadable(clients, net, readfds, Due(pc, cur))
      /\ \A b \in Bufs : bufs[b].in_use => bufs[b].client_index \in Clients
  BY Parts DEF Types, BufsOK
<1>2. Pending(pc, cur) = {} /\ Pending(pc', cur') = {} /\ Due(pc, cur) \subseteq Clients
  BY DEF Pending, Due
<1>3. /\ open' \subseteq open
      /\ \A ci \in Clients : clients'[ci].active => clients'[ci].fd \in open'
  BY DEF Survivors, IInv, TablesOK, ClientOK
<1>4. open \ (open \ open') = open' /\ NONE \notin open \ open'
  BY <1>1, <1>3, Sentinels
<1>5. NetOK(net, open, {}, backlog)
  BY <1>1, <1>2
<1>6. NetOK(net', open', {}, backlog)
  <2>1. NetOK(Drop(net, open \ open'), open \ (open \ open'), {}, backlog)
    BY <1>1, <1>4, <1>5, NetDrop
  <2> QED BY <2>1, <1>4
<1>7. DueReadable(clients', net', readfds, Due(pc', cur'))
  <2> DEFINE D == Due(pc, cur)
             D2 == Due(pc', cur')
  <2>1. D2 \subseteq D /\ D \subseteq Clients /\ DueReadable(clients, net, readfds, D)
    BY <1>1, <1>2
  <2> HIDE DEF D, D2
  <2>2. DueReadable(clients', Drop(net, open \ open'), readfds, D2)
    BY <2>1, <1>3, DropReadable
  <2> QED BY <2>2 DEF D2
<1>8. OwnData(bufs', clients', net')
  BY <1>1, <1>3, DropData
<1>9. BufsOK(bufs', clients')
  BY <1>1, ShrunkBufs
<1>10. net' \in [Peers -> Peer]
  BY <1>1, DropType
<1>11. Types(bufs', readfds, pc', cur', bi', net', backlog)
  BY <1>1, <1>10 DEF Types
<1>12. NetOK(net', open' \cup Pending(pc', cur'), Pending(pc', cur'), backlog)
  BY <1>2, <1>6
<1>13. LoopOK(clients', open', bufs', readfds, pc', cur', bi', net', backlog)
  BY <1>7, <1>8, <1>9, <1>11, <1>12 DEF LoopOK
<1> QED BY <1>13 DEF LInv

(* Freeing a buffer whose client is gone after the step.                   *)
LEMMA FreedBuf ==
  ASSUME bufs \in [Bufs -> BufType], NEW b \in Bufs, free_buf(b),
         ~clients'[bufs[b].client_index].active
  PROVE  /\ bufs' \in [Bufs -> BufType] /\ Shrunk(bufs, bufs')
         /\ \A k \in Bufs : bufs[k].in_use /\ clients'[bufs[k].client_index].active
                               => bufs'[k].in_use
<1>1. FreeBuf \in BufType /\ ~FreeBuf.in_use
  <2>1. <<>> \in Seq(Peers \X Data)
    BY EmptySeq
  <2> QED BY <2>1 DEF FreeBuf, BufType
<1>2. /\ bufs' \in [Bufs -> BufType] /\ bufs'[b] = FreeBuf
      /\ \A k \in Bufs : k # b => bufs'[k] = bufs[k]
  BY <1>1 DEF free_buf
<1> QED BY <1>1, <1>2 DEF Shrunk

(* A client that hung up, or sent a length that is none, ends its game.    *)
LEMMA EndInv ==
  ASSUME LInv, ReadEnd \/ BadLength
  PROVE  LInv' /\ [Next]_vars
<1>1. /\ IInv /\ FreeEntries(clients) /\ bufs \in [Bufs -> BufType]
      /\ Control(pc, cur, bi)
      /\ pc = "frames" => bufs[bi].in_use /\ bufs[bi].client_index = cur
  BY Parts DEF Types
<1>2. /\ pc \in {"scan", "frames"} /\ cur \in Clients
      /\ net' = Drop(net, open \ open') /\ backlog' = backlog /\ readfds' = readfds
      /\ pc' = "scan" /\ cur' = cur + 1 /\ bi' = NONE
  BY <1>1 DEF ReadEnd, BadLength, AtReadyClient, ActiveClients, AtFrame, GoTo, Control
<1>3. Call(server_on_client_disconnect(cur))
  BY DEF ReadEnd, BadLength, AtReadyClient, Call
<1>4. /\ [Next]_vars /\ IInv' /\ FreeEntries(clients')
      /\ Survivors(clients, open, clients', open')
  BY <1>1, <1>2, <1>3, CallEffect
<1>5. ~clients'[cur].active
  <2>1. CASE cur \in ActiveClients
    BY <2>1, <1>1, <1>3, DisconnectEnds DEF Call
  <2>2. CASE cur \notin ActiveClients
    BY <2>2, <1>2, <1>4 DEF ActiveClients, Survivors
  <2> QED BY <2>1, <2>2
<1>6. PICK b \in Bufs : free_buf(b) /\ bufs[b].client_index = cur
  <2>1. CASE ReadEnd
    <3>1. PICK b \in Bufs : find_buf_by_fd(clients[cur].fd, b) /\ free_buf(b)
      BY <2>1 DEF ReadEnd
    <3>2. cur \in ActiveClients
      BY <2>1 DEF ReadEnd, AtReadyClient
    <3> QED BY <3>1, <3>2, FoundIsOwn DEF find_buf_by_fd, IsFirst
  <2>2. CASE BadLength
    <3>1. pc = "frames" /\ free_buf(bi)
      BY <2>2 DEF BadLength, AtFrame
    <3> QED BY <3>1, <1>1 DEF Control
  <2> QED BY <2>1, <2>2
<1>7. /\ bufs' \in [Bufs -> BufType] /\ Shrunk(bufs, bufs')
      /\ \A k \in Bufs : bufs[k].in_use /\ clients'[bufs[k].client_index].active
                            => bufs'[k].in_use
  BY <1>1, <1>5, <1>6, FreedBuf
<1>8. Control("scan", cur + 1, NONE)
  BY <1>2, Sentinels DEF Control
<1>9. Due("scan", cur + 1) \subseteq Due(pc, cur)
  BY <1>2, Sentinels DEF Due
<1> QED BY <1>2, <1>4, <1>7, <1>8, <1>9, CallOK

(* One frame leaves the buffer and its message is handled.                 *)
LEMMA OneFrameInv ==
  ASSUME LInv, OneFrame
  PROVE  LInv' /\ [Next]_vars
<1>1. /\ IInv /\ FreeEntries(clients) /\ bufs \in [Bufs -> BufType]
      /\ Control(pc, cur, bi) /\ pc = "frames"
      /\ bufs[bi].in_use /\ bufs[bi].client_index = cur
  BY Parts DEF Types, OneFrame, AtFrame
<1>2. /\ cur \in Clients /\ bi \in Bufs
      /\ net' = Drop(net, open \ open') /\ backlog' = backlog /\ readfds' = readfds
      /\ pc' = "frames" /\ cur' = cur /\ bi' = bi
  BY <1>1 DEF OneFrame, Control
<1>3. /\ [Next]_vars /\ IInv' /\ FreeEntries(clients')
      /\ Survivors(clients, open, clients', open')
  <2>1. PICK type : type = bufs[bi].data[2][2]
    OBVIOUS
  <2>2. Call(server_handle_client_message(cur, type))
    BY <2>1 DEF OneFrame
  <2> QED BY <2>2, <1>1, <1>2, CallEffect
<1> DEFINE old == bufs[bi].data
           new == SubSeq(old, 3, Len(old))
<1>4. old \in Seq(Peers \X Data)
  BY <1>1, <1>2 DEF BufType
<1>5. /\ new \in Seq(Peers \X Data)
      /\ \A k \in 1 .. Len(new) : k + 2 \in 1 .. Len(old) /\ new[k] = old[k + 2]
  <2> HIDE DEF old
  <2>1. Len(old) \in Nat
    BY <1>4, LenProperties
  <2>2. \A i \in 3 .. Len(old) : old[i] \in Peers \X Data
    <3>1. \A i \in 3 .. Len(old) : i \in 1 .. Len(old)
      BY <2>1
    <3> QED BY <3>1, <1>4, ElementOfSeq
  <2>3. /\ new \in Seq(Peers \X Data)
        /\ Len(new) = IF 3 <= Len(old) THEN Len(old) - 3 + 1 ELSE 0
        /\ \A i \in 1 .. Len(old) - 3 + 1 : new[i] = old[3 + i - 1]
    BY <2>1, <2>2, SubSeqProperties
  <2> HIDE DEF new
  <2>4. ASSUME NEW k \in 1 .. Len(new)
        PROVE  k + 2 \in 1 .. Len(old) /\ new[k] = old[k + 2]
    <3>1. k \in 1 .. Len(old) - 3 + 1 /\ 3 + k - 1 = k + 2 /\ k + 2 \in 1 .. Len(old)
      BY <2>1, <2>3
    <3> QED BY <3>1, <2>3
  <2> QED BY <2>3, <2>4
<1>6. bufs' = [bufs EXCEPT ![bi] = [bufs[bi] EXCEPT !.data = new]]
  BY DEF OneFrame
<1> HIDE DEF new
<1>7. /\ bufs' \in [Bufs -> BufType] /\ bufs'[bi].data = new
      /\ \A k \in Bufs : bufs'[k].in_use = bufs[k].in_use
                         /\ bufs'[k].client_index = bufs[k].client_index
      /\ \A k \in Bufs : k # bi => bufs'[k] = bufs[k]
  BY <1>1, <1>2, <1>5, <1>6 DEF BufType
<1>8. Shrunk(bufs, bufs')
  <2> SUFFICES ASSUME NEW b \in Bufs, bufs'[b].in_use, NEW k \in 1 .. Len(bufs'[b].data)
               PROVE  \E j \in 1 .. Len(bufs[b].data) : bufs'[b].data[k] = bufs[b].data[j]
    BY <1>7 DEF Shrunk
  <2>1. CASE b = bi
    <3>1. k + 2 \in 1 .. Len(bufs[b].data) /\ bufs'[b].data[k] = bufs[b].data[k + 2]
      BY <2>1, <1>5, <1>7
    <3> QED BY <3>1
  <2>2. CASE b # bi
    BY <2>2, <1>7
  <2> QED BY <2>1, <2>2
<1>9. Control("frames", cur, bi) /\ Due("frames", cur) \subseteq Due(pc, cur)
  BY <1>1, <1>2 DEF Control, Due
<1>10. bufs'[bi].in_use /\ bufs'[bi].client_index = cur
  BY <1>1, <1>2, <1>7
<1> QED BY <1>1, <1>2, <1>3, <1>7, <1>8, <1>9, <1>10, CallOK
-----------------------------------------------------------------------------
(* The invariant holds before anybody has connected.                       *)
LEMMA LoopInitInv == LoopInit => LInv
<1> SUFFICES ASSUME LoopInit PROVE LInv
  OBVIOUS
<1>1. /\ Init /\ bufs = [b \in Bufs |-> FreeBuf] /\ readfds = {} /\ pc = "select"
      /\ cur = NONE /\ bi = NONE /\ net = [p \in Peers |-> Away(0)] /\ backlog = <<>>
  BY DEF LoopInit
<1>2. /\ clients = [ci \in Clients |-> FreeClient] /\ open = {}
      /\ ~FreeClient.active /\ FreeClient.fd = NONE
  BY <1>1 DEF Init, FreeClient
<1>3. FreeBuf \in BufType /\ ~FreeBuf.in_use
  <2>1. <<>> \in Seq(Peers \X Data)
    BY EmptySeq
  <2> QED BY <2>1 DEF FreeBuf, BufType
<1>4. Away(0) \in Peer /\ Away(0).fd = NONE
  <2>1. <<>> \in Seq(Data)
    BY EmptySeq
  <2>2. 0 \in 0 .. MaxDials
    BY LoopAssumption
  <2> QED BY <2>1, <2>2 DEF Away, Peer
<1>5. backlog \in Seq(Peers) /\ Len(backlog) = 0
  BY <1>1, EmptySeq
<1>6. /\ Control("select", NONE, NONE) /\ Pending("select", NONE) = {}
      /\ Due("select", NONE) = {}
  BY DEF Control, Pending, Due
<1>7. Types(bufs, readfds, pc, cur, bi, net, backlog)
  BY <1>1, <1>3, <1>4, <1>5, <1>6 DEF Types
<1>8. NetOK(net, {}, {}, backlog)
  <2>1. \A p \in Peers : net[p].fd = NONE /\ ~InLine(p, backlog)
    BY <1>1, <1>4, <1>5 DEF InLine
  <2> QED BY <2>1, <1>5 DEF NetOK
<1>9. FreeEntries(clients) /\ \A ci \in Clients : ~clients[ci].active
  BY <1>2 DEF FreeEntries
<1>10. \A b \in Bufs : ~bufs[b].in_use
  BY <1>1, <1>3
<1>11. BufsOK(bufs, clients) /\ OwnData(bufs, clients, net) /\ NoStale(bufs, clients)
  BY <1>9, <1>10 DEF BufsOK, OwnData, NoStale
<1>12. DueReadable(clients, net, readfds, Due(pc, cur))
  BY <1>1, <1>6 DEF DueReadable
<1>13. NetOK(net, open \cup Pending(pc, cur), Pending(pc, cur), backlog)
  BY <1>1, <1>2, <1>6, <1>8
<1>14. LoopOK(clients, open, bufs, readfds, pc, cur, bi, net, backlog)
  BY <1>1, <1>7, <1>9, <1>11, <1>12, <1>13 DEF LoopOK
<1> QED BY <1>1, <1>14, InitInv DEF LInv

(* Every step of the loop and of its peers keeps it, and is a step of the  *)
(* table, or none.                                                         *)
LEMMA LoopNextInv == LInv /\ [LoopNext]_all => LInv' /\ [Next]_vars
<1> SUFFICES ASSUME LInv, [LoopNext]_all PROVE LInv' /\ [Next]_vars
  OBVIOUS
<1>1. IInv
  BY DEF LInv
<1>2. CASE Select \/ NoConnection \/ Skip \/ NoFrame
  <2>1. Quiet
    BY <1>2 DEF Select, NoConnection, Skip, NoFrame
  <2> QED BY <2>1, <1>1, <1>2, MoveInv, QuietIsNext
<1>3. CASE Accept \/ AcceptFails
  <2>1. Quiet
    BY <1>3 DEF Accept, AcceptFails
  <2> QED BY <2>1, <1>1, <1>3, AcceptInv, QuietIsNext
<1>4. CASE reap_stale_bufs
  <2>1. Quiet
    BY <1>4 DEF reap_stale_bufs
  <2> QED BY <2>1, <1>1, <1>4, ReapInv, QuietIsNext
<1>5. CASE Read
  <2>1. Quiet
    BY <1>5 DEF Read
  <2> QED BY <2>1, <1>1, <1>5, ReadInv, QuietIsNext
<1>6. ASSUME NEW p \in Peers, PeerStep(p) PROVE LInv' /\ [Next]_vars
  <2>1. Quiet
    BY <1>6 DEF PeerStep
  <2> QED BY <2>1, <1>1, <1>6, PeerInv, QuietIsNext
<1>7. CASE UNCHANGED all
  <2>1. /\ UNCHANGED vars /\ clients' = clients /\ open' = open /\ bufs' = bufs
        /\ readfds' = readfds /\ pc' = pc /\ cur' = cur /\ bi' = bi /\ net' = net
        /\ backlog' = backlog
    BY <1>7 DEF all, loop, vars
  <2>2. IInv'
    BY <2>1, <1>1, NextInv
  <2> QED BY <2>1, <2>2 DEF LInv
<1> QED BY <1>2, <1>3, <1>4, <1>5, <1>6, <1>7, NewConnectionLoopInv, ConnectionLostInv,
           EndInv, OneFrameInv DEF LoopNext, ServerStep

(* The event loop never leaves its invariant.                              *)
THEOREM LoopInvariance == LoopSpec => []LInv
  BY LoopInitInv, LoopNextInv, PTL DEF LoopSpec

(* The loop of main in server.c touches the tables of game.c only by       *)
(* calls of its handlers, on a client that is connected or a descriptor    *)
(* that is new: it implements the specification of the table, so that      *)
(* whatever is proved of the table holds of the program.                   *)
THEOREM LoopImplementsTable == LoopSpec => LoopCallsHandlers
<1>1. LoopInit => Init
  BY DEF LoopInit
<1> QED BY <1>1, LoopInvariance, LoopNextInv, PTL DEF LoopSpec, Spec, LoopCallsHandlers

(* What a player sees of the program is the service of Matches: seats,     *)
(* turns and ends as promised, whatever select, the kernel and the peers   *)
(* do, in whatever pieces the bytes arrive (server.c:203-252).             *)
THEOREM LoopImplementsMatches == LoopSpec => ImplementsMatches
  BY LoopImplementsTable, TableImplementsMatches DEF LoopCallsHandlers
-----------------------------------------------------------------------------
(* Every variable of the loop has its type.                                *)
THEOREM LoopTypeCorrect == LoopSpec => []LoopTypeOK
<1>1. LInv => LoopTypeOK
  BY TypeParts DEF LInv, LoopOK
<1> QED BY <1>1, LoopInvariance, PTL

(* When the server waits in select every client has one buffer and no      *)
(* buffer is left to a client that is gone (alloc_buf, free_buf and        *)
(* reap_stale_bufs of server.c).                                           *)
THEOREM BuffersDoMatch == LoopSpec => []BuffersMatchClients
<1>1. LInv => BuffersMatchClients
  <2> SUFFICES ASSUME LInv, pc = "select" PROVE BuffersMatchClients
    BY DEF BuffersMatchClients
  <2>1. BufsOK(bufs, clients) /\ NoStale(bufs, clients)
    BY Parts
  <2>2. ASSUME NEW ci \in ActiveClients
        PROVE  \E b \in Bufs : BufsOfFd(clients[ci].fd) = {b} /\ bufs[b].client_index = ci
    <3>1. PICK b \in Bufs : bufs[b].in_use /\ bufs[b].client_index = ci
      BY <2>1 DEF BufsOK, ActiveClients
    <3>2. \A k \in Bufs : bufs[k].in_use /\ bufs[k].client_index = ci => k = b
      BY <3>1, <2>1 DEF BufsOK
    <3>3. BufsOfFd(clients[ci].fd) \subseteq Bufs
      BY DEF BufsOfFd
    <3> QED BY <3>1, <3>2, <3>3, FoundIsOwn
  <2>3. \A b \in Bufs : ~Stale(b)
    BY <2>1 DEF Stale, BufsOK, NoStale, ActiveClients
  <2> QED BY <2>2, <2>3 DEF BuffersMatchClients
<1> QED BY <1>1, LoopInvariance, PTL

(* Nobody's bytes are taken for another's, although the entries of the     *)
(* client table, the descriptors and the buffers are all used again        *)
(* (find_buf_by_fd and free_buf of server.c).                              *)
THEOREM NoTalkCrosses == LoopSpec => []NoCrossTalk
<1>1. LInv => NoCrossTalk
  <2> SUFFICES ASSUME LInv, NEW b \in Bufs, bufs[b].in_use, ~Stale(b),
                      NEW k \in 1 .. Len(bufs[b].data)
               PROVE  net[bufs[b].data[k][1]].fd = clients[bufs[b].client_index].fd
    BY DEF NoCrossTalk
  <2>1. OwnData(bufs, clients, net)
    BY Parts
  <2>2. clients[bufs[b].client_index].active
    BY DEF Stale, ActiveClients
  <2> QED BY <2>1, <2>2 DEF OwnData
<1> QED BY <1>1, LoopInvariance, PTL

(* The one thread never blocks in the read of a client, nor misses its     *)
(* buffer: what select reported is still so when the scan of server.c      *)
(* comes to it, whatever the clients before it did to the descriptors.     *)
THEOREM ReadsDoNotBlock == LoopSpec => []NoBlockingRead
<1>1. LInv => NoBlockingRead
  <2> SUFFICES ASSUME LInv, AtReadyClient
               PROVE  BufsOfFd(clients[cur].fd) # {} /\ Readable(clients[cur].fd)
    BY DEF NoBlockingRead
  <2>1. /\ pc = "scan" /\ cur \in ActiveClients /\ cur \in Clients /\ clients[cur].active
        /\ clients[cur].fd \in readfds
    BY DEF AtReadyClient, ActiveClients
  <2>2. /\ BufsOK(bufs, clients) /\ DueReadable(clients, net, readfds, Due(pc, cur))
        /\ NetOK(net, open \cup Pending(pc, cur), Pending(pc, cur), backlog)
        /\ clients[cur].fd \in open /\ open \subseteq Fds
    BY <2>1, Parts
  <2>3. BufsOfFd(clients[cur].fd) # {}
    <3>1. PICK b \in Bufs : bufs[b].in_use /\ bufs[b].client_index = cur
      BY <2>1, <2>2 DEF BufsOK
    <3> QED BY <3>1, <2>1, FoundIsOwn
  <2>4. cur \in Due(pc, cur)
    BY <2>1, Sentinels DEF Due
  <2>5. ReadableIn(net, clients[cur].fd)
    BY <2>1, <2>2, <2>4 DEF DueReadable
  <2>6. clients[cur].fd # NONE
    BY <2>2, Sentinels
  <2>7. \A p, q \in Peers : net[p].fd # NONE /\ net[p].fd = net[q].fd => p = q
    BY <2>2 DEF NetOK
  <2>8. Readable(clients[cur].fd)
    BY <2>5, <2>6, <2>7, ReadableAgain
  <2> QED BY <2>3, <2>8
<1> QED BY <1>1, LoopInvariance, PTL
=============================================================================
