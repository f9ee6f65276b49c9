-------------------------- MODULE ClientServerProofs -------------------------
(***************************************************************************)
(* The client library and the server, for every number of players, games   *)
(* and moves.                                                              *)
(*                                                                         *)
(* What a client reads depends on what its opponent did before, and what   *)
(* the server may be asked depends on what both clients have read.  The    *)
(* inductive invariant therefore lists, for a client on a connection, the  *)
(* ways in which the library's state, the caller's, what is in flight in   *)
(* each direction and the server's tables can stand to each other; there   *)
(* are at most three frames in flight to a client.  A step of the server   *)
(* moves both players of one match from one of these ways to another, and  *)
(* a call or a return moves one client.                                    *)
(***************************************************************************)
EXTENDS ClientServer, GameServerMatchesProofs

LOCAL INSTANCE SequencesExt

(* What the server's tables say of client ci.                              *)
View(cs, gs, e, ci) ==
    LET g == gs[cs[ci].game_index]
        n == cs[ci].player_num
    IN  [player |-> n, phase |-> g.phase, ships |-> g.ships_received[n],
         turn |-> e[g.game_id].turn]

(* The request that each move operation sends.                             *)
Request == [move |-> "MOVE", move_ext |-> "MOVE_EXT"]

(* The frame that ends a match after a player's last move.                 *)
LastFrame(r) == IF r = "Win" THEN <<"GAME_OVER">> ELSE <<"ERROR">>

(* The library's state while it connects.                                  *)
Calling(op) == [connected |-> FALSE, call |-> op]

(* A caller that has not played: no number, nothing heard, nothing due.    *)
New(c, d) == c.player = 0 /\ c.heard = <<>> /\ d = <<>>

(* A request in flight is one that the match is ready for.                 *)
UpOK(up, v) ==
    \/ up = <<>>
    \/ up = <<"SHIPS">> /\ v.phase = "PLACEMENT" /\ ~v.ships
    \/ /\ up \in {<<"MOVE">>, <<"MOVE_EXT">>}
       /\ v.phase = "PLAYING" /\ v.turn = v.player

(* A client that has not placed its ships.                                 *)
Joining(l, c, d, k, v) ==
    /\ New(c, d) /\ k.up = <<>> /\ ~v.ships
    /\ \/ /\ c.stage = "start" /\ l = Calling("connect")
          /\ \/ v.phase = "WAITING" /\ k.down = << <<"JOIN_OK">> >>
             \/ v.phase = "PLACEMENT" /\ k.down = << <<"JOIN_OK">>, <<"READY">> >>
       \/ /\ c.stage = "joined" /\ l.connected /\ l.call \in {"none", "wait"}
          /\ \/ v.phase = "WAITING" /\ k.down = <<>>
             \/ v.phase = "PLACEMENT" /\ k.down = << <<"READY">> >>

Placing(l, c, d, k, v) ==
    /\ New(c, d) /\ c.stage = "ready" /\ l.connected
    /\ v.phase = "PLACEMENT" /\ k.down = <<>>
    /\ \/ l.call = "none" /\ k.up = <<>> /\ ~v.ships
       \/ l.call = "ships" /\ k.up = <<"SHIPS">> /\ ~v.ships
       \/ l.call = "ships" /\ k.up = <<>> /\ v.ships

(* The match has begun, and the client has not heard of it.                *)
Acked(l, c, d, k, v) ==
    /\ c.player = 0 /\ c.heard = <<>> /\ c.stage = "ready"
    /\ l.connected /\ l.call = "ships" /\ k.up = <<>> /\ v.phase = "PLAYING"
    /\ \/ k.down = << <<"SHIPS_ACK", v.player>> >> /\ d = <<>> /\ v.turn = 1
       \/ /\ k.down = << <<"SHIPS_ACK", 2>>, <<"OPP_MOVE", "Miss">> >>
          /\ d = << <<1, "Miss">> >> /\ v.player = 2 /\ v.turn = 2

(* The next move that the client hears of is its own.                      *)
OnMove(l, c, d, k, v) ==
    LET n == c.player
        h == c.heard
    IN  /\ n = v.player /\ l.connected /\ v.phase = "PLAYING"
        /\ \/ /\ c.stage \in {"mine", "over"} /\ l.call = "none"
              /\ k.up = <<>> /\ k.down = <<>> /\ d = h /\ v.turn = n
           \/ /\ c.stage = "mine" /\ l.call \in {"move", "move_ext"}
              /\ \/ k.up = <<Request[l.call]>> /\ k.down = <<>> /\ d = h /\ v.turn = n
                 \/ /\ k.up = <<>> /\ d = h /\ v.turn = n
                    /\ k.down = << <<Answer[l.call], "Invalid">> >>
                 \/ /\ k.up = <<>> /\ d = Append(h, <<n, "Miss">>) /\ v.turn = Opponent(n)
                    /\ k.down = << <<Answer[l.call], "Miss">> >>
                 \/ /\ k.up = <<>> /\ v.turn = n
                    /\ d = Append(Append(h, <<n, "Miss">>), <<Opponent(n), "Miss">>)
                    /\ k.down = << <<Answer[l.call], "Miss">>, <<"OPP_MOVE", "Miss">> >>

(* The next move that the client hears of is its opponent's.               *)
OffMove(l, c, d, k, v) ==
    LET n == c.player
    IN  /\ n = v.player /\ l.connected /\ v.phase = "PLAYING" /\ k.up = <<>>
        /\ c.stage = "theirs" /\ l.call \in {"none", "receive"}
        /\ \/ k.down = <<>> /\ d = c.heard /\ v.turn = Opponent(n)
           \/ /\ k.down = << <<"OPP_MOVE", "Miss">> >> /\ v.turn = n
              /\ d = Append(c.heard, <<Opponent(n), "Miss">>)

(* A client that the server holds.                                         *)
Served(l, c, d, k, v) ==
    \/ Joining(l, c, d, k, v)
    \/ Placing(l, c, d, k, v)
    \/ Acked(l, c, d, k, v)
    \/ OnMove(l, c, d, k, v)
    \/ OffMove(l, c, d, k, v)

(* The server has closed the connection.                                   *)
LostJoining(l, c, d, k) ==
    /\ New(c, d) /\ ~k.rst
    /\ \/ /\ c.stage = "start" /\ l = Calling("connect")
          /\ k.down \in {<<>>, << <<"JOIN_FAIL">> >>, << <<"JOIN_OK">>, <<"ERROR">> >>,
                         << <<"JOIN_OK">>, <<"READY">>, <<"ERROR">> >>}
       \/ /\ c.stage = "joined" /\ l.connected /\ l.call \in {"none", "wait"}
          /\ k.down \in {<< <<"ERROR">> >>, << <<"READY">>, <<"ERROR">> >>}

LostPlacing(l, c, d, k) ==
    /\ c.player = 0 /\ c.heard = <<>> /\ c.stage = "ready" /\ l.connected
    /\ \/ l.call \in {"none", "ships"} /\ d = <<>> /\ k.down \in {<<>>, << <<"ERROR">> >>}
       \/ /\ l.call = "ships" /\ ~k.rst /\ d = <<>>
          /\ \E n \in Players : k.down = << <<"SHIPS_ACK", n>>, <<"ERROR">> >>
       \/ /\ l.call = "ships" /\ ~k.rst
          /\ \E r \in {"Miss", "Win"} :
                /\ d = << <<1, r>> >>
                /\ k.down = << <<"SHIPS_ACK", 2>>, <<"OPP_MOVE", r>>, LastFrame(r) >>

LostOnMove(l, c, d, k) ==
    LET n == c.player
        h == c.heard
    IN  /\ n \in Players /\ l.connected /\ c.stage = "mine"
        /\ \/ /\ l.call \in {"none", "move", "move_ext"} /\ d = h
              /\ k.down \in {<<>>, << <<"ERROR">> >>}
           \/ /\ l.call \in {"move", "move_ext"} /\ ~k.rst
              /\ \/ d = h /\ k.down = << <<Answer[l.call], "Invalid">>, <<"ERROR">> >>
                 \/ \E r \in {"Miss", "Win"} :
                       /\ d = Append(h, <<n, r>>)
                       /\ k.down = << <<Answer[l.call], r>>, LastFrame(r) >>
                 \/ \E r \in {"Miss", "Win"} :
                       /\ d = Append(Append(h, <<n, "Miss">>), <<Opponent(n), r>>)
                       /\ k.down = << <<Answer[l.call], "Miss">>, <<"OPP_MOVE", r>>, LastFrame(r) >>

LostOffMove(l, c, d, k) ==
    LET n == c.player
    IN  /\ n \in Players /\ l.connected /\ c.stage = "theirs" /\ ~k.rst
        /\ l.call \in {"none", "receive"}
        /\ \/ d = c.heard /\ k.down = << <<"ERROR">> >>
           \/ \E r \in {"Miss", "Win"} :
                 /\ d = Append(c.heard, <<Opponent(n), r>>)
                 /\ k.down = << <<"OPP_MOVE", r>>, LastFrame(r) >>

LostOver(l, c, d, k) ==
    /\ l.connected /\ l.call = "none" /\ c.stage = "over"
    /\ IsPrefix(c.heard, d)

Lost(l, c, d, k) ==
    \/ LostJoining(l, c, d, k)
    \/ LostPlacing(l, c, d, k)
    \/ LostOnMove(l, c, d, k)
    \/ LostOffMove(l, c, d, k)
    \/ LostOver(l, c, d, k)

(* The server has not accepted the connection, if there is one.            *)
Outside(l, c, d, k) ==
    /\ c.stage = "start" /\ New(c, d)
    /\ \/ k = NoConnection /\ l = client_init
       \/ /\ l = Calling("connect") /\ ~k.rst /\ k.down = <<>>
          /\ \E id \in GameIds : k.up = <<id>>

(* A client that hung up and that the server has not noticed.              *)
Left(l, c, d, k) ==
    /\ l = client_init /\ c.stage = "start" /\ New(c, d)
    /\ k.down = <<>> /\ ~k.eof /\ ~k.rst
    /\ k.fd = NONE => k.up = <<>> \/ \E id \in GameIds : k.up = <<id>>

(* How a client can stand by itself: it hung up, or waits to be accepted,  *)
(* or the server closed it, or the server holds it.                        *)
PeerOK(l, c, d, k) ==
    \/ k.hung /\ Left(l, c, d, k)
    \/ ~k.hung /\ k.fd = NONE /\ ~k.eof /\ Outside(l, c, d, k)
    \/ ~k.hung /\ k.fd = NONE /\ k.eof /\ k.up = <<>> /\ Lost(l, c, d, k)
    \/ ~k.hung /\ k.fd # NONE

(* How a client that the server holds can stand, given what it holds.      *)
ClientOfPeer(l, c, d, k, v) ==
    IF k.hung THEN UpOK(k.up, v) ELSE ~k.eof /\ ~k.rst /\ Served(l, c, d, k, v)

(* Every client stands as it may, with what the server holds for it.       *)
PeersOK(ls, cr, ds, n, cs, gs, e) ==
    \A p \in Peers :
        /\ PeerOK(ls[p], cr[p], ds[p], n[p])
        /\ \A ci \in Clients : cs[ci].active /\ cs[ci].fd = n[p].fd =>
              ClientOfPeer(ls[p], cr[p], ds[p], n[p], View(cs, gs, e, ci))

(* A descriptor is open, and one client's only.                            *)
Wired(n, F) ==
    /\ \A p \in Peers : n[p].fd # NONE => n[p].fd \in F
    /\ \A p, q \in Peers : n[p].fd # NONE /\ n[p].fd = n[q].fd => p = q
    /\ \A f \in F : \E p \in Peers : n[p].fd = f

(* Nobody has placed ships in a game that still has an empty seat.         *)
NoShipsYet(gs) == \A gi \in Games : gs[gi].active /\ gs[gi].phase = "WAITING" =>
                     \A n \in Players : ~gs[gi].ships_received[n]

(* The inductive invariant of the clients and the server.                  *)
SInv == /\ IInv /\ NoShipsYet(games)
        /\ SystemTypeOK /\ Wired(net, open)
        /\ PeersOK(lib, caller, due, net, clients, games, engine)
-----------------------------------------------------------------------------
(* Short sequences.                                                        *)
LEMMA Heads == \A a, b, c : /\ Head(<<a>>) = a /\ Head(<<a, b>>) = a /\ Head(<<a, b, c>>) = a
                            /\ Tail(<<a>>) = <<>> /\ Tail(<<a, b>>) = <<b>>
                            /\ Tail(<<a, b, c>>) = <<b, c>>
                            /\ <<a>> # <<>> /\ <<a, b>> # <<>> /\ <<a, b, c>> # <<>>
  OBVIOUS

(* A frame or two behind one or two others, or behind nothing.             *)
LEMMA Joined ==
  ASSUME NEW a, NEW b, NEW c
  PROVE  /\ <<>> \o <<a>> = <<a>> /\ <<>> \o <<a, b>> = <<a, b>>
         /\ <<a>> \o <<b>> = <<a, b>> /\ <<a, b>> \o <<c>> = <<a, b, c>>
         /\ <<a>> \o <<b, c>> = <<a, b, c>>
         /\ <<a>> \o <<>> = <<a>> /\ <<>> \o <<>> = <<>>
<1> DEFINE S == {a, b, c}
<1>0. a \in S /\ b \in S /\ c \in S
  OBVIOUS
<1> HIDE DEF S
<1>1. /\ <<>> \in Seq(S) /\ <<a>> \in Seq(S) /\ <<b>> \in Seq(S) /\ <<c>> \in Seq(S)
      /\ <<a, b>> \in Seq(S) /\ <<b, c>> \in Seq(S) /\ <<a, b, c>> \in Seq(S)
  BY <1>0
<1>2. /\ <<>> \o <<a>> = <<a>> /\ <<>> \o <<a, b>> = <<a, b>>
      /\ <<a>> \o <<>> = <<a>> /\ <<>> \o <<>> = <<>>
  BY <1>1, ConcatEmptySeq
<1>3. <<a>> \o <<b>> = <<a, b>>
  <2> DEFINE s == <<a>> \o <<b>>
  <2>1. s \in Seq(S) /\ Len(s) = 2 /\ s[1] = a /\ s[2] = b
    BY <1>1, ConcatProperties
  <2>2. Len(<<a, b>>) = 2 /\ <<a, b>>[1] = a /\ <<a, b>>[2] = b
    OBVIOUS
  <2> HIDE DEF s
  <2>3. s = <<a, b>>
    BY <1>1, <2>1, <2>2, SeqEqual
  <2> QED BY <2>3 DEF s
<1>4. <<a, b>> \o <<c>> = <<a, b, c>>
  <2> DEFINE s == <<a, b>> \o <<c>>
  <2>1. s \in Seq(S) /\ Len(s) = 3 /\ s[1] = a /\ s[2] = b /\ s[3] = c
    BY <1>1, ConcatProperties
  <2>2. Len(<<a, b, c>>) = 3 /\ <<a, b, c>>[1] = a /\ <<a, b, c>>[2] = b /\ <<a, b, c>>[3] = c
    OBVIOUS
  <2> HIDE DEF s
  <2>3. s = <<a, b, c>>
    BY <1>1, <2>1, <2>2, SeqEqual
  <2> QED BY <2>3 DEF s
<1>5. <<b>> \o <<c>> = <<b, c>>
  <2> DEFINE s == <<b>> \o <<c>>
  <2>1. s \in Seq(S) /\ Len(s) = 2 /\ s[1] = b /\ s[2] = c
    BY <1>1, ConcatProperties
  <2>2. Len(<<b, c>>) = 2 /\ <<b, c>>[1] = b /\ <<b, c>>[2] = c
    OBVIOUS
  <2> HIDE DEF s
  <2>3. s = <<b, c>>
    BY <1>1, <2>1, <2>2, SeqEqual
  <2> QED BY <2>3 DEF s
<1>6. (<<a>> \o <<b>>) \o <<c>> = <<a>> \o (<<b>> \o <<c>>)
  BY <1>1, ConcatAssociative
<1>7. <<a>> \o <<b, c>> = <<a, b, c>>
  BY <1>3, <1>4, <1>5, <1>6
<1> QED BY <1>2, <1>3, <1>4, <1>7

(* What a client was told so far is the beginning of what there is to tell.*)
LEMMA Beginnings ==
  ASSUME NEW d \in Seq(Outcome), NEW x \in Outcome, NEW y \in Outcome
  PROVE  /\ IsPrefix(d, d) /\ IsPrefix(<<>>, d)
         /\ IsPrefix(d, Append(d, x)) /\ IsPrefix(d, Append(Append(d, x), y))
         /\ Append(d, x) \in Seq(Outcome) /\ Append(d, x) = d \o <<x>>
         /\ Append(<<>>, x) = <<x>>
<1>1. IsPrefix(d, d) /\ IsPrefix(<<>>, d)
  BY DEF IsPrefix
<1>2. IsPrefix(d, Append(d, x)) /\ IsPrefix(d, Append(Append(d, x), y))
  BY DEF IsPrefix
<1>3. Append(d, x) \in Seq(Outcome) /\ Append(d, x) = d \o <<x>>
  BY AppendProperties, AppendIsConcat
<1>4. Append(<<>>, x) = <<x>>
  OBVIOUS
<1> QED BY <1>1, <1>2, <1>3, <1>4

(* What a short message contains.                                          *)
LEMMA Contents == /\ \A x : ~Contains(<<>>, x)
                  /\ \A a, x : Contains(<<a>>, x) <=> a = x
                  /\ \A a, b, x : Contains(<<a, b>>, x) <=> a = x \/ b = x
  BY EmptySeq DEF Contains
-----------------------------------------------------------------------------
(* A step of one client: the tables and the other clients stay as they     *)
(* are, and so does the client's descriptor on the server.                 *)
Fits(l, c, d, k, cs, gs, e) ==
    /\ PeerOK(l, c, d, k)
    /\ \A ci \in Clients : cs[ci].active /\ cs[ci].fd = k.fd =>
          ClientOfPeer(l, c, d, k, View(cs, gs, e, ci))

(* The values that a view of the server's tables can take.                 *)
ViewType == [player : Players, phase : GamePhase, ships : BOOLEAN, turn : Players]

(* What the server holds for a client, seen as one value, has its type.    *)
LEMMA ViewIs ==
  ASSUME IInv, NEW ci \in Clients, clients[ci].active
  PROVE  View(clients, games, engine, ci) \in ViewType
<1>1. ClientOK(clients, games, open, ci)
  BY DEF IInv, TablesOK
<1>2. /\ games[clients[ci].game_index] \in Game
      /\ games[clients[ci].game_index].game_id \in GameIds
      /\ clients[ci].player_num \in Players
  BY <1>1 DEF IInv, TablesOK, ClientOK, GameOK
<1>3. engine[games[clients[ci].game_index].game_id] \in EngineGame
  BY <1>2 DEF IInv, TablesOK
<1> QED BY <1>2, <1>3 DEF View, ViewType, Game, EngineGame

(* A step of one client alone: the tables stand, nothing is sent, and the  *)
(* invariant asks only that the client's own way of standing is kept.      *)
LEMMA ClientStep ==
  ASSUME SInv, NEW p \in Peers, sent' = Silence, UNCHANGED tables, SystemTypeOK',
         \A q \in Peers : q # p => /\ lib'[q] = lib[q] /\ caller'[q] = caller[q]
                                   /\ due'[q] = due[q] /\ net'[q] = net[q],
         net'[p].fd = net[p].fd,
         PeerOK(lib'[p], caller'[p], due'[p], net'[p]),
         net[p].fd # NONE => \A v \in ViewType : ClientOfPeer(lib[p], caller[p], due[p], net[p], v) =>
             ClientOfPeer(lib'[p], caller'[p], due'[p], net'[p], v)
  PROVE  SInv'
<1>1. UNCHANGED <<clients, games, num_clients, engine, open>>
  BY DEF tables
<1>2. IInv' /\ NoShipsYet(games')
  BY <1>1, SilenceType DEF SInv, IInv
<1>3. Wired(net', open')
  BY <1>1 DEF SInv, Wired
<1>4. ASSUME NEW ci \in Clients, clients[ci].active PROVE clients[ci].fd # NONE
  BY <1>4, Nones DEF SInv, IInv, TablesOK, ClientOK
<1>5. PeersOK(lib', caller', due', net', clients, games, engine)
  <2> SUFFICES ASSUME NEW q \in Peers
               PROVE  Fits(lib'[q], caller'[q], due'[q], net'[q], clients, games, engine)
    BY DEF PeersOK, Fits
  <2>1. Fits(lib[q], caller[q], due[q], net[q], clients, games, engine)
    BY DEF SInv, PeersOK, Fits
  <2>2. CASE q # p
    BY <2>1, <2>2
  <2>3. CASE q = p
    BY <2>1, <2>3, <1>4, ViewIs DEF Fits, SInv
  <2> QED BY <2>2, <2>3
<1> QED BY <1>1, <1>2, <1>3, <1>5 DEF SInv
-----------------------------------------------------------------------------
(* Calls.                                                                  *)

(* The library starts to read the answer, or has read it.                  *)
LEMMA CallIs ==
  ASSUME SystemTypeOK, NEW p \in Peers, NEW op \in Operation \cup {"none"},
         lib' = [lib EXCEPT ![p].call = op]
  PROVE  /\ lib' \in [Peers -> Lib]
         /\ lib'[p].call = op /\ lib'[p].connected = lib[p].connected
         /\ \A q \in Peers : q # p => lib'[q] = lib[q]
  BY DEF SystemTypeOK, Lib

(* What a request comes to, if the server has closed the connection or not.*)
LEMMA WriteIs ==
  ASSUME SystemTypeOK, NEW p \in Peers, NEW m \in MsgType \cup GameIds, Write(p, m)
  PROVE  /\ net' \in [Peers -> Net]
         /\ \A q \in Peers : q # p => net'[q] = net[q]
         /\ net'[p].fd = net[p].fd /\ net'[p].down = net[p].down
         /\ net'[p].hung = net[p].hung /\ net'[p].eof = net[p].eof
         /\ net[p].eof => net'[p].up = net[p].up /\ net'[p].rst
         /\ ~net[p].eof => net'[p].up = Append(net[p].up, m) /\ net'[p].rst = net[p].rst
<1>1. net \in [Peers -> Net] /\ net[p] \in Net
  BY DEF SystemTypeOK
<1>2. Append(net[p].up, m) \in Seq(MsgType \cup GameIds)
  BY <1>1, AppendProperties DEF Net
<1>3. CASE net[p].eof
  <2>1. net' = [net EXCEPT ![p].rst = TRUE]
    BY <1>3 DEF Write
  <2> QED BY <2>1, <1>1, <1>3 DEF Net
<1>4. CASE ~net[p].eof
  <2>1. net' = [net EXCEPT ![p].up = Append(@, m)]
    BY <1>4 DEF Write
  <2> QED BY <2>1, <1>1, <1>2, <1>4 DEF Net
<1> QED BY <1>3, <1>4

(* What the types say of one client.                                       *)
LEMMA OneClient ==
  ASSUME SInv, NEW p \in Peers
  PROVE  /\ lib[p] \in Lib /\ caller[p] \in Caller /\ due[p] \in Seq(Outcome) /\ net[p] \in Net
         /\ PeerOK(lib[p], caller[p], due[p], net[p])
  BY DEF SInv, SystemTypeOK, PeersOK

(* A call of an operation: its request is written, or it has none.         *)
LEMMA Asked ==
  ASSUME SInv, NEW p \in Peers, NEW op \in Operation,
         Reads(p, op), ServerRests, UNCHANGED net \/ \E m \in MsgType \cup GameIds : Write(p, m)
  PROVE  /\ SystemTypeOK' /\ UNCHANGED <<caller, due, tables>> /\ sent' = Silence
         /\ lib'[p].call = op /\ lib'[p].connected = lib[p].connected
         /\ \A q \in Peers : q # p => net'[q] = net[q] /\ lib'[q] = lib[q]
<1>1. /\ SystemTypeOK /\ op \in Operation \cup {"none"} /\ lib' = [lib EXCEPT ![p].call = op]
      /\ UNCHANGED <<caller, due, tables>> /\ sent' = Silence
  BY DEF SInv, Reads, ServerRests
<1>2. /\ lib' \in [Peers -> Lib] /\ lib'[p].call = op /\ lib'[p].connected = lib[p].connected
      /\ \A q \in Peers : q # p => lib'[q] = lib[q]
  BY <1>1, CallIs
<1>3. net' \in [Peers -> Net] /\ \A q \in Peers : q # p => net'[q] = net[q]
  <2>1. CASE UNCHANGED net
    BY <2>1, <1>1 DEF SystemTypeOK
  <2>2. ASSUME NEW m \in MsgType \cup GameIds, Write(p, m)
        PROVE  net' \in [Peers -> Net] /\ \A q \in Peers : q # p => net'[q] = net[q]
    BY <2>2, <1>1, WriteIs
  <2> QED BY <2>1, <2>2
<1>4. SystemTypeOK'
  BY <1>1, <1>2, <1>3 DEF SystemTypeOK
<1> QED BY <1>1, <1>2, <1>3, <1>4

(* client_wait_for_opponent: READY may be there already, or an ERROR.       *)
LEMMA WaitCallInv ==
  ASSUME SInv, NEW p \in Peers, client_wait_for_opponent(p), ServerRests
  PROVE  SInv'
<1>1. Reads(p, "wait") /\ UNCHANGED net
  BY DEF client_wait_for_opponent
<1>2. /\ SystemTypeOK' /\ UNCHANGED <<caller, due, tables>> /\ sent' = Silence
      /\ \A q \in Peers : q # p => net'[q] = net[q] /\ lib'[q] = lib[q]
  BY <1>1, Asked DEF Operation
<1> DEFINE l == lib[p]
           c == caller[p]
           d == due[p]
           k == net[p]
           l2 == lib'[p]
<1>3. l \in Lib /\ c \in Caller /\ d \in Seq(Outcome) /\ k \in Net /\ PeerOK(l, c, d, k)
  BY OneClient
<1>4. c.stage = "joined" /\ l.call = "none" /\ l.connected
  BY DEF client_wait_for_opponent, Idle
<1>5. l2.call = "wait" /\ l2.connected
  BY <1>1, <1>4, Asked DEF Operation
<1> HIDE DEF l, c, d, k, l2
<1>6. PeerOK(l2, c, d, k)
  BY <1>3, <1>4, <1>5 DEF PeerOK, Lost, LostJoining, LostPlacing, LostOnMove, LostOffMove, LostOver,
     Left, Outside, client_init, Calling, New
<1>7. ASSUME NEW v, k.fd # NONE, ClientOfPeer(l, c, d, k, v) PROVE ClientOfPeer(l2, c, d, k, v)
  BY <1>3, <1>4, <1>5, <1>7 DEF PeerOK, ClientOfPeer, Served, Joining, Placing, Acked, OnMove, OffMove,
     Left, client_init, Calling, UpOK, New
<1> QED BY <1>1, <1>2, <1>6, <1>7, ClientStep DEF l, c, d, k, l2

(* client_receive_move, by a player whose opponent is on turn.             *)
LEMMA ReceiveCallInv ==
  ASSUME SInv, NEW p \in Peers, client_receive_move(p), ServerRests
  PROVE  SInv'
<1>1. Reads(p, "receive") /\ UNCHANGED net
  BY DEF client_receive_move
<1>2. /\ SystemTypeOK' /\ UNCHANGED <<caller, due, tables>> /\ sent' = Silence
      /\ \A q \in Peers : q # p => net'[q] = net[q] /\ lib'[q] = lib[q]
  BY <1>1, Asked DEF Operation
<1> DEFINE l == lib[p]
           c == caller[p]
           d == due[p]
           k == net[p]
           l2 == lib'[p]
<1>3. l \in Lib /\ c \in Caller /\ d \in Seq(Outcome) /\ k \in Net /\ PeerOK(l, c, d, k)
  BY OneClient
<1>4. c.stage = "theirs" /\ l.call = "none" /\ l.connected
  BY DEF client_receive_move, Idle
<1>5. l2.call = "receive" /\ l2.connected
  BY <1>1, <1>4, Asked DEF Operation
<1> HIDE DEF l, c, d, k, l2
<1>6. PeerOK(l2, c, d, k)
  BY <1>3, <1>4, <1>5 DEF PeerOK, Lost, LostJoining, LostPlacing, LostOnMove, LostOffMove, LostOver,
     Left, Outside, client_init, Calling, New
<1>7. ASSUME NEW v, k.fd # NONE, ClientOfPeer(l, c, d, k, v) PROVE ClientOfPeer(l2, c, d, k, v)
  BY <1>3, <1>4, <1>5, <1>7 DEF PeerOK, ClientOfPeer, Served, Joining, Placing, Acked, OnMove, OffMove,
     Left, client_init, Calling, UpOK, New
<1> QED BY <1>1, <1>2, <1>6, <1>7, ClientStep DEF l, c, d, k, l2

(* client_send_ships, after READY.                                          *)
LEMMA ShipsCallInv ==
  ASSUME SInv, NEW p \in Peers, client_send_ships(p), ServerRests
  PROVE  SInv'
<1>1. Reads(p, "ships") /\ Write(p, "SHIPS") /\ SystemTypeOK /\ "SHIPS" \in MsgType \cup GameIds
  BY DEF SInv, client_send_ships, MsgType
<1>2. /\ SystemTypeOK' /\ UNCHANGED <<caller, due, tables>> /\ sent' = Silence
      /\ \A q \in Peers : q # p => net'[q] = net[q] /\ lib'[q] = lib[q]
  BY <1>1, Asked DEF Operation
<1> DEFINE l == lib[p]
           c == caller[p]
           d == due[p]
           k == net[p]
           l2 == lib'[p]
           k2 == net'[p]
<1>3. l \in Lib /\ c \in Caller /\ d \in Seq(Outcome) /\ k \in Net /\ PeerOK(l, c, d, k)
  BY OneClient
<1>4. c.stage = "ready" /\ l.call = "none" /\ l.connected
  BY DEF client_send_ships, Idle
<1>5. l2.call = "ships" /\ l2.connected
  BY <1>1, <1>4, Asked DEF Operation
<1>6. /\ k2.fd = k.fd /\ k2.down = k.down /\ k2.hung = k.hung /\ k2.eof = k.eof
      /\ k.eof => k2.up = k.up /\ k2.rst
      /\ ~k.eof => k2.up = Append(k.up, "SHIPS") /\ k2.rst = k.rst
  BY <1>1, WriteIs
<1> HIDE DEF l, c, d, k, l2, k2
<1>7. PeerOK(l2, c, d, k2)
  BY <1>3, <1>4, <1>5, <1>6 DEF PeerOK, Lost, LostJoining, LostPlacing, LostOnMove, LostOffMove, LostOver,
     Left, Outside, client_init, Calling, New
<1>8. ASSUME NEW v, k.fd # NONE, ClientOfPeer(l, c, d, k, v) PROVE ClientOfPeer(l2, c, d, k2, v)
  <2>1. Append(<<>>, "SHIPS") = <<"SHIPS">>
    OBVIOUS
  <2> QED BY <2>1, <1>3, <1>4, <1>5, <1>6, <1>8 DEF PeerOK, ClientOfPeer, Served, Joining, Placing, Acked, OnMove, OffMove,
     Left, client_init, Calling, UpOK, New
<1> QED BY <1>2, <1>6, <1>7, <1>8, ClientStep DEF l, c, d, k, l2, k2

(* client_send_move and client_send_move_extended, by the player on turn.   *)
LEMMA MoveCallInv ==
  ASSUME SInv, NEW p \in Peers, NEW op \in {"move", "move_ext"},
         OnTurn(p), Write(p, Request[op]), Reads(p, op), ServerRests
  PROVE  SInv'
<1>1. Reads(p, op) /\ Write(p, Request[op]) /\ SystemTypeOK /\ Request[op] \in MsgType \cup GameIds
  BY DEF SInv, OnTurn, Request, MsgType
<1>2. /\ SystemTypeOK' /\ UNCHANGED <<caller, due, tables>> /\ sent' = Silence
      /\ \A q \in Peers : q # p => net'[q] = net[q] /\ lib'[q] = lib[q]
  BY <1>1, Asked DEF Operation
<1> DEFINE l == lib[p]
           c == caller[p]
           d == due[p]
           k == net[p]
           l2 == lib'[p]
           k2 == net'[p]
<1>3. l \in Lib /\ c \in Caller /\ d \in Seq(Outcome) /\ k \in Net /\ PeerOK(l, c, d, k)
  BY OneClient
<1>4. c.stage = "mine" /\ l.call = "none" /\ l.connected
  BY DEF OnTurn, Request, Idle
<1>5. l2.call = op /\ l2.connected
  BY <1>1, <1>4, Asked DEF Operation
<1>6. /\ k2.fd = k.fd /\ k2.down = k.down /\ k2.hung = k.hung /\ k2.eof = k.eof
      /\ k.eof => k2.up = k.up /\ k2.rst
      /\ ~k.eof => k2.up = Append(k.up, Request[op]) /\ k2.rst = k.rst
  BY <1>1, WriteIs
<1> HIDE DEF l, c, d, k, l2, k2
<1>7. PeerOK(l2, c, d, k2)
  BY <1>3, <1>4, <1>5, <1>6 DEF PeerOK, Lost, LostJoining, LostPlacing, LostOnMove, LostOffMove, LostOver,
     Left, Outside, client_init, Calling, New
<1>8. ASSUME NEW v, k.fd # NONE, ClientOfPeer(l, c, d, k, v) PROVE ClientOfPeer(l2, c, d, k2, v)
  <2>1. Append(<<>>, Request[op]) = <<Request[op]>>
    OBVIOUS
  <2> QED BY <2>1, <1>3, <1>4, <1>5, <1>6, <1>8 DEF PeerOK, ClientOfPeer, Served, Joining, Placing, Acked, OnMove, OffMove,
     Left, client_init, Calling, UpOK, New
<1> QED BY <1>2, <1>6, <1>7, <1>8, ClientStep DEF l, c, d, k, l2, k2

(* client_connect asks for a game with the first thing it writes.          *)
LEMMA ConnectCallInv ==
  ASSUME SInv, NEW p \in Peers, client_connect(p), ServerRests
  PROVE  SInv'
<1>0. PICK id \in GameIds : Write(p, id)
  BY DEF client_connect
<1>1. Reads(p, "connect") /\ SystemTypeOK /\ id \in MsgType \cup GameIds
  BY DEF SInv, client_connect
<1>2. /\ SystemTypeOK' /\ UNCHANGED <<caller, due, tables>> /\ sent' = Silence
      /\ \A q \in Peers : q # p => net'[q] = net[q] /\ lib'[q] = lib[q]
  BY <1>0, <1>1, Asked DEF Operation
<1> DEFINE l == lib[p]
           c == caller[p]
           d == due[p]
           k == net[p]
           l2 == lib'[p]
           k2 == net'[p]
<1>3. l \in Lib /\ c \in Caller /\ d \in Seq(Outcome) /\ k \in Net /\ PeerOK(l, c, d, k)
  BY OneClient
<1>4. c.stage = "start" /\ l.call = "none" /\ k = NoConnection
  BY DEF client_connect, Idle
<1>5. l2.call = "connect" /\ l2.connected = l.connected /\ l2 \in Lib
  BY <1>0, <1>1, <1>2, Asked DEF Operation, SystemTypeOK
<1>6. /\ k2.fd = k.fd /\ k2.down = k.down /\ k2.hung = k.hung /\ k2.eof = k.eof
      /\ ~k.eof => k2.up = Append(k.up, id) /\ k2.rst = k.rst
  BY <1>0, <1>1, WriteIs
<1> HIDE DEF l, c, d, k, l2, k2
<1>7. Append(<<>>, id) = <<id>>
  OBVIOUS
<1>8. Outside(l, c, d, k) /\ l = client_init
  BY <1>3, <1>4 DEF PeerOK, Outside, NoConnection, client_init, Calling
<1>9. l2 = Calling("connect")
  BY <1>5, <1>8 DEF Lib, client_init, Calling
<1>10. Outside(l2, c, d, k2)
  BY <1>4, <1>6, <1>7, <1>8, <1>9 DEF Outside, NoConnection
<1>11. PeerOK(l2, c, d, k2) /\ k.fd = NONE
  BY <1>4, <1>6, <1>10 DEF PeerOK, NoConnection
<1> QED BY <1>2, <1>6, <1>11, ClientStep DEF l, c, d, k, l2, k2

(* Every call.                                                             *)
LEMMA CallInv == ASSUME SInv, NEW p \in Peers, Call(p) PROVE SInv'
<1>1. ServerRests
  BY DEF Call
<1>2. CASE client_connect(p)
  BY <1>1, <1>2, ConnectCallInv
<1>3. CASE client_wait_for_opponent(p)
  BY <1>1, <1>3, WaitCallInv
<1>4. CASE client_send_ships(p)
  BY <1>1, <1>4, ShipsCallInv
<1>5. CASE client_send_move(p)
  BY <1>1, <1>5, MoveCallInv DEF client_send_move, Request
<1>6. CASE client_send_move_extended(p)
  BY <1>1, <1>6, MoveCallInv DEF client_send_move_extended, Request
<1>7. CASE client_receive_move(p)
  BY <1>1, <1>7, ReceiveCallInv
<1> QED BY <1>2, <1>3, <1>4, <1>5, <1>6, <1>7 DEF Call
-----------------------------------------------------------------------------
(* Returns.                                                                *)

(* What recv_frame takes off the connection.                               *)
LEMMA ReceivedIs ==
  ASSUME SystemTypeOK, NEW p \in Peers, NEW m, recv_frame(p, m)
  PROVE  /\ net' \in [Peers -> Net]
         /\ \A q \in Peers : q # p => net'[q] = net[q]
         /\ net'[p].fd = net[p].fd /\ net'[p].up = net[p].up /\ net'[p].hung = net[p].hung
         /\ net'[p].eof = net[p].eof /\ net'[p].rst = net[p].rst
         /\ \/ net[p].down # <<>> /\ m = Head(net[p].down) /\ net'[p].down = Tail(net[p].down)
            \/ net[p].down = <<>> /\ net[p].eof /\ m = NoFrame /\ net'[p].down = <<>>
<1>1. net \in [Peers -> Net] /\ net[p] \in Net
  BY DEF SystemTypeOK
<1>2. CASE net[p].down # <<>> /\ m = Head(net[p].down) /\ net' = [net EXCEPT ![p].down = Tail(@)]
  <2>1. Tail(net[p].down) \in Seq(Frame)
    BY <1>1, <1>2, HeadTailProperties DEF Net
  <2> QED BY <1>1, <1>2, <2>1 DEF Net
<1>3. CASE net[p].down = <<>> /\ net[p].eof /\ m = NoFrame /\ UNCHANGED net
  BY <1>1, <1>3
<1> QED BY <1>2, <1>3 DEF recv_frame

(* A client on a connection has a seat.                                    *)
LEMMA AcceptedClient ==
  ASSUME SInv, NEW p \in Peers, net[p].fd # NONE
  PROVE  \E ci \in Clients :
            /\ clients[ci].active /\ clients[ci].fd = net[p].fd
            /\ View(clients, games, engine, ci) \in ViewType
            /\ ClientOfPeer(lib[p], caller[p], due[p], net[p], View(clients, games, engine, ci))
<1>1. PICK ci \in Clients : clients[ci].active /\ clients[ci].fd = net[p].fd
  BY DEF SInv, Wired, IInv, TablesOK
<1> QED BY <1>1, ViewIs DEF SInv, PeersOK

(* The caller goes on to another stage.                                    *)
Stages == {"start", "joined", "ready", "mine", "theirs", "over"}

(* The stage is all that changes of the caller.                            *)
LEMMA StageIs ==
  ASSUME SystemTypeOK, NEW p \in Peers, NEW s \in Stages, Stage(p, s)
  PROVE  /\ caller' \in [Peers -> Caller]
         /\ \A q \in Peers : q # p => caller'[q] = caller[q]
         /\ caller'[p].stage = s /\ caller'[p].player = caller[p].player
         /\ caller'[p].heard = caller[p].heard
  BY DEF SystemTypeOK, Stage, Stages, Caller

(* client_wait_for_opponent: READY, or the loss of the game.               *)
LEMMA WaitReturnInv ==
  ASSUME SInv, NEW p \in Peers, WaitReturns(p), ServerRests
  PROVE  SInv'
<1> DEFINE l == lib[p]
           c == caller[p]
           d == due[p]
           k == net[p]
           l2 == lib'[p]
           c2 == caller'[p]
           k2 == net'[p]
<1>1. PICK m : recv_frame(p, m) /\ Stage(p, IF m = <<"READY">> THEN "ready" ELSE "over")
  BY DEF WaitReturns
<1>2. SystemTypeOK /\ lib' = [lib EXCEPT ![p].call = "none"] /\ l.call = "wait"
      /\ UNCHANGED <<tables, due>> /\ sent' = Silence
  BY DEF SInv, WaitReturns, Done, Returns, ServerRests
<1>3. /\ l \in Lib /\ c \in Caller /\ d \in Seq(Outcome) /\ k \in Net /\ PeerOK(l, c, d, k)
  BY OneClient
<1>4. /\ lib' \in [Peers -> Lib] /\ \A q \in Peers : q # p => lib'[q] = lib[q]
      /\ l2.call = "none" /\ l2.connected = l.connected
  BY <1>2, CallIs
<1>5. /\ net' \in [Peers -> Net] /\ \A q \in Peers : q # p => net'[q] = net[q]
      /\ k2.fd = k.fd /\ k2.up = k.up /\ k2.hung = k.hung /\ k2.eof = k.eof /\ k2.rst = k.rst
      /\ \/ k.down # <<>> /\ m = Head(k.down) /\ k2.down = Tail(k.down)
         \/ k.down = <<>> /\ k.eof /\ m = NoFrame /\ k2.down = <<>>
  BY <1>1, <1>2, ReceivedIs
<1>6. /\ caller' \in [Peers -> Caller] /\ \A q \in Peers : q # p => caller'[q] = caller[q]
      /\ c2.player = c.player /\ c2.heard = c.heard
      /\ c2.stage = IF m = <<"READY">> THEN "ready" ELSE "over"
  BY <1>1, <1>2, StageIs DEF Stages
<1>7. SystemTypeOK'
  BY <1>2, <1>4, <1>5, <1>6 DEF SystemTypeOK
<1> HIDE DEF l, c, d, k, l2, c2, k2
<1>8. ASSUME k.fd = NONE PROVE PeerOK(l2, c2, d, k2)
  <2>1. /\ ~k.hung /\ k.eof /\ k.up = <<>> /\ New(c, d) /\ ~k.rst /\ l.connected
        /\ k.down = << <<"ERROR">> >> \/ k.down = << <<"READY">>, <<"ERROR">> >>
    BY <1>2, <1>3, <1>8 DEF PeerOK, Lost, LostJoining, LostPlacing, LostOnMove,
       LostOffMove, LostOver, Left, Outside, client_init, Calling
  <2>2. CASE k.down = << <<"ERROR">> >>
    <3>1. c2.stage = "over"
      BY <2>2, <1>5, <1>6
    <3>2. IsPrefix(c2.heard, d)
      BY <2>1, <1>3, <1>6 DEF New, IsPrefix
    <3>3. LostOver(l2, c2, d, k2)
      BY <3>1, <3>2, <2>1, <1>4 DEF LostOver
    <3> QED BY <3>3, <2>1, <1>5, <1>8 DEF PeerOK, Lost
  <2>3. CASE k.down = << <<"READY">>, <<"ERROR">> >>
    <3>1. c2.stage = "ready" /\ k2.down = << <<"ERROR">> >>
      BY <2>3, <1>5, <1>6, Heads
    <3>2. LostPlacing(l2, c2, d, k2)
      BY <3>1, <2>1, <1>4, <1>6 DEF LostPlacing, New
    <3> QED BY <3>2, <2>1, <1>5, <1>8 DEF PeerOK, Lost
  <2> QED BY <2>1, <2>2, <2>3
<1>9. ASSUME NEW v, k.fd # NONE, ClientOfPeer(l, c, d, k, v)
      PROVE  PeerOK(l2, c2, d, k2) /\ ClientOfPeer(l2, c2, d, k2, v)
  <2>1. ~k.hung
    BY <1>2, <1>3, <1>9 DEF PeerOK, Left, client_init
  <2>2. ~k.eof /\ ~k.rst /\ Joining(l, c, d, k, v) /\ l.connected
    BY <1>2, <2>1, <1>9 DEF ClientOfPeer, Served, Joining, Placing, Acked, OnMove, OffMove, Calling
  <2>3. k.down = << <<"READY">> >> /\ v.phase = "PLACEMENT"
    BY <1>2, <1>5, <2>2 DEF Joining, Calling
  <2>4. c2.stage = "ready" /\ k2.down = <<>>
    BY <2>3, <1>5, <1>6, Heads
  <2>5. Placing(l2, c2, d, k2, v)
    BY <2>2, <2>3, <2>4, <1>4, <1>5, <1>6 DEF Placing, Joining, New
  <2> QED BY <2>1, <2>2, <2>5, <1>5, <1>9 DEF PeerOK, ClientOfPeer, Served
<1>10. PeerOK(l2, c2, d, k2)
  <2>1. CASE k.fd # NONE
    <3>1. PICK v : ClientOfPeer(l, c, d, k, v)
      BY <2>1, AcceptedClient DEF l, c, d, k
    <3> QED BY <3>1, <2>1, <1>9
  <2> QED BY <2>1, <1>8
<1> QED BY <1>2, <1>4, <1>5, <1>6, <1>7, <1>9, <1>10, ClientStep DEF l, c, d, k, l2, c2, k2

(* The end of the match, as the caller sees it.                            *)
LEMMA IsOver ==
  ASSUME NEW l2, NEW c2, NEW d, NEW k, NEW k2, ~k.hung, k.fd = NONE, k.eof, k.up = <<>>,
         k2.fd = k.fd, k2.hung = k.hung, k2.eof = k.eof, k2.up = k.up,
         l2.connected, l2.call = "none", c2.stage = "over", IsPrefix(c2.heard, d)
  PROVE  PeerOK(l2, c2, d, k2)
  BY DEF PeerOK, Lost, LostOver

(* client_send_ships: the acknowledgement and with it the player's number, *)
(* or the loss of the game.                                                *)
LEMMA ShipsReturnInv ==
  ASSUME SInv, NEW p \in Peers, ShipsReturn(p), ServerRests
  PROVE  SInv'
<1> DEFINE l == lib[p]
           c == caller[p]
           d == due[p]
           k == net[p]
           l2 == lib'[p]
           c2 == caller'[p]
           k2 == net'[p]
<1>1. PICK m : /\ recv_frame(p, m)
               /\ IF m[1] = "SHIPS_ACK"
                  THEN caller' = [caller EXCEPT ![p].player = m[2],
                                    ![p].stage = IF m[2] = 1 THEN "mine" ELSE "theirs"]
                  ELSE Stage(p, "over")
  BY DEF ShipsReturn
<1>2. SystemTypeOK /\ lib' = [lib EXCEPT ![p].call = "none"] /\ l.call = "ships"
      /\ UNCHANGED <<tables, due>> /\ sent' = Silence
  BY DEF SInv, ShipsReturn, Done, Returns, ServerRests
<1>3. /\ l \in Lib /\ c \in Caller /\ d \in Seq(Outcome) /\ k \in Net /\ PeerOK(l, c, d, k)
      /\ caller \in [Peers -> Caller]
  BY <1>2, OneClient DEF SystemTypeOK
<1>4. /\ lib' \in [Peers -> Lib] /\ \A q \in Peers : q # p => lib'[q] = lib[q]
      /\ l2.call = "none" /\ l2.connected = l.connected
  BY <1>2, CallIs
<1>5. /\ net' \in [Peers -> Net] /\ \A q \in Peers : q # p => net'[q] = net[q]
      /\ k2.fd = k.fd /\ k2.up = k.up /\ k2.hung = k.hung /\ k2.eof = k.eof /\ k2.rst = k.rst
      /\ \/ k.down # <<>> /\ m = Head(k.down) /\ k2.down = Tail(k.down)
         \/ k.down = <<>> /\ k.eof /\ m = NoFrame /\ k2.down = <<>>
  BY <1>1, <1>2, ReceivedIs
<1>6. /\ \A q \in Peers : q # p => caller'[q] = caller[q]
      /\ c2.heard = c.heard
      /\ m[1] = "SHIPS_ACK" => c2.player = m[2] /\ c2.stage = IF m[2] = 1 THEN "mine" ELSE "theirs"
      /\ m[1] # "SHIPS_ACK" => c2.player = c.player /\ c2.stage = "over"
      /\ m[1] # "SHIPS_ACK" \/ m[2] \in Players => caller' \in [Peers -> Caller]
  <2>1. CASE m[1] = "SHIPS_ACK"
    <3>1. caller' = [caller EXCEPT ![p] = [c EXCEPT !.player = m[2],
                                             !.stage = IF m[2] = 1 THEN "mine" ELSE "theirs"]]
      BY <1>1, <2>1
    <3>2. caller'[p] = [c EXCEPT !.player = m[2],
                                 !.stage = IF m[2] = 1 THEN "mine" ELSE "theirs"]
          /\ \A q \in Peers : q # p => caller'[q] = caller[q]
      BY <3>1, <1>3
    <3>3. m[2] \in Players => c2 \in Caller
      BY <3>2, <1>3 DEF Caller
    <3>4. m[2] \in Players => caller' \in [Peers -> Caller]
      BY <3>1, <3>3, <1>3
    <3> HIDE DEF c
    <3> QED BY <2>1, <3>2, <3>4, <1>3 DEF Caller
  <2>2. CASE m[1] # "SHIPS_ACK"
    <3>1. Stage(p, "over")
      BY <1>1, <2>2
    <3> QED BY <2>2, <3>1, <1>2, StageIs DEF Stages
  <2> QED BY <2>1, <2>2
<1> HIDE DEF l, c, d, k, l2, c2, k2
<1>7. 1 \in Players /\ 2 \in Players /\ Opponent(2) = 1
      /\ \A n \in Players : n = 1 \/ n = 2
  BY DEF Players, Opponent
<1>8. ASSUME k.fd = NONE PROVE PeerOK(l2, c2, d, k2) /\ caller' \in [Peers -> Caller]
  <2>1. /\ ~k.hung /\ k.eof /\ k.up = <<>> /\ LostPlacing(l, c, d, k)
    BY <1>2, <1>3, <1>8 DEF PeerOK, Lost, LostJoining, LostOnMove,
       LostOffMove, LostOver, Left, Outside, client_init, Calling
  <2>2. CASE d = <<>> /\ k.down \in {<<>>, << <<"ERROR">> >>}
    <3>1. m[1] # "SHIPS_ACK"
      BY <2>2, <1>5 DEF NoFrame
    <3>2. IsPrefix(c2.heard, d)
      BY <2>1, <2>2, <1>6 DEF LostPlacing, IsPrefix
    <3> QED BY <3>1, <3>2, <2>1, <1>4, <1>5, <1>6, <1>8, IsOver DEF LostPlacing
  <2>3. ASSUME NEW n \in Players, d = <<>>, ~k.rst,
               k.down = << <<"SHIPS_ACK", n>>, <<"ERROR">> >>
        PROVE  PeerOK(l2, c2, d, k2) /\ caller' \in [Peers -> Caller]
    <3>1. /\ c2.player = n /\ c2.stage = IF n = 1 THEN "mine" ELSE "theirs"
          /\ k2.down = << <<"ERROR">> >> /\ caller' \in [Peers -> Caller]
      BY <2>3, <1>5, <1>6
    <3>2. n = 1 => LostOnMove(l2, c2, d, k2)
      BY <3>1, <2>1, <2>3, <1>4, <1>6, <1>7 DEF LostOnMove, LostPlacing
    <3>3. n = 2 => LostOffMove(l2, c2, d, k2)
      BY <3>1, <2>1, <2>3, <1>4, <1>5, <1>6, <1>7 DEF LostOffMove, LostPlacing
    <3> QED BY <3>1, <3>2, <3>3, <2>1, <1>5, <1>7, <1>8 DEF PeerOK, Lost
  <2>4. ASSUME NEW r \in {"Miss", "Win"}, d = << <<1, r>> >>, ~k.rst,
               k.down = << <<"SHIPS_ACK", 2>>, <<"OPP_MOVE", r>>, LastFrame(r) >>
        PROVE  PeerOK(l2, c2, d, k2) /\ caller' \in [Peers -> Caller]
    <3>1. /\ c2.player = 2 /\ c2.stage = "theirs"
          /\ k2.down = << <<"OPP_MOVE", r>>, LastFrame(r) >> /\ caller' \in [Peers -> Caller]
      BY <2>4, <1>5, <1>6, <1>7
    <3>2. c2.heard = <<>> /\ Append(<<>>, <<1, r>>) = << <<1, r>> >>
      BY <2>1, <1>6 DEF LostPlacing
    <3>3. LostOffMove(l2, c2, d, k2)
      BY <3>1, <3>2, <2>1, <2>4, <1>4, <1>5, <1>7 DEF LostOffMove, LostPlacing
    <3> QED BY <3>1, <3>3, <2>1, <1>5, <1>8 DEF PeerOK, Lost
  <2> QED BY <2>1, <2>2, <2>3, <2>4, <1>2 DEF LostPlacing
<1>9. ASSUME NEW v \in ViewType, k.fd # NONE, ClientOfPeer(l, c, d, k, v)
      PROVE  /\ PeerOK(l2, c2, d, k2) /\ caller' \in [Peers -> Caller]
             /\ ClientOfPeer(l2, c2, d, k2, v)
  <2>0. v.player \in Players
    BY DEF ViewType
  <2>1. ~k.hung
    BY <1>2, <1>3, <1>9 DEF PeerOK, Left, client_init
  <2>2. ~k.eof /\ ~k.rst
    BY <2>1, <1>9 DEF ClientOfPeer
  <2>3. Acked(l, c, d, k, v)
    BY <1>2, <1>5, <2>1, <2>2, <1>9
    DEF ClientOfPeer, Served, Joining, Placing, OnMove, OffMove, Calling
  <2>4. c2.heard = <<>> /\ Append(<<>>, <<1, "Miss">>) = << <<1, "Miss">> >>
    BY <2>3, <1>6 DEF Acked
  <2>5. CASE k.down = << <<"SHIPS_ACK", v.player>> >> /\ d = <<>> /\ v.turn = 1
    <3>1. /\ c2.player = v.player /\ c2.stage = IF v.player = 1 THEN "mine" ELSE "theirs"
          /\ k2.down = <<>> /\ caller' \in [Peers -> Caller]
      BY <2>0, <2>5, <1>5, <1>6
    <3>2. v.player = 1 => OnMove(l2, c2, d, k2, v)
      BY <3>1, <2>3, <2>4, <2>5, <1>4, <1>5 DEF OnMove, Acked
    <3>3. v.player = 2 => OffMove(l2, c2, d, k2, v)
      BY <3>1, <2>3, <2>4, <2>5, <1>4, <1>5, <1>7 DEF OffMove, Acked
    <3> QED BY <2>0, <3>1, <3>2, <3>3, <2>1, <2>2, <1>5, <1>7, <1>9 DEF PeerOK, ClientOfPeer, Served
  <2>6. CASE /\ k.down = << <<"SHIPS_ACK", 2>>, <<"OPP_MOVE", "Miss">> >>
             /\ d = << <<1, "Miss">> >> /\ v.player = 2 /\ v.turn = 2
    <3>1. /\ c2.player = 2 /\ c2.stage = "theirs"
          /\ k2.down = << <<"OPP_MOVE", "Miss">> >> /\ caller' \in [Peers -> Caller]
      BY <2>6, <1>5, <1>6, <1>7
    <3>2. OffMove(l2, c2, d, k2, v)
      BY <3>1, <2>3, <2>4, <2>6, <1>4, <1>5, <1>7 DEF OffMove, Acked
    <3> QED BY <3>1, <3>2, <2>1, <2>2, <1>5, <1>9 DEF PeerOK, ClientOfPeer, Served
  <2> QED BY <2>3, <2>5, <2>6 DEF Acked
<1>10. PeerOK(l2, c2, d, k2) /\ caller' \in [Peers -> Caller]
       /\ \A v \in ViewType : k.fd # NONE /\ ClientOfPeer(l, c, d, k, v) => ClientOfPeer(l2, c2, d, k2, v)
  <2>1. CASE k.fd # NONE
    <3>1. PICK v \in ViewType : ClientOfPeer(l, c, d, k, v)
      BY <2>1, AcceptedClient DEF l, c, d, k
    <3> QED BY <3>1, <2>1, <1>9
  <2> QED BY <2>1, <1>8
<1>11. SystemTypeOK'
  BY <1>2, <1>4, <1>5, <1>10 DEF SystemTypeOK
<1> QED BY <1>2, <1>4, <1>5, <1>6, <1>10, <1>11, ClientStep DEF l, c, d, k, l2, c2, k2

(* The caller passes on a move, or makes the best of a failure.            *)
LEMMA HearIs ==
  ASSUME SystemTypeOK, NEW p \in Peers, NEW n \in Players, NEW r \in {"Miss", "Win"},
         NEW s \in Stages, Hear(p, n, r, s)
  PROVE  /\ caller' \in [Peers -> Caller]
         /\ \A q \in Peers : q # p => caller'[q] = caller[q]
         /\ caller'[p].stage = (IF r = "Win" THEN "over" ELSE s)
         /\ caller'[p].player = caller[p].player
         /\ caller'[p].heard = Append(caller[p].heard, <<n, r>>)
<1> DEFINE c == caller[p]
           h == Append(c.heard, <<n, r>>)
           c2 == [c EXCEPT !.heard = h, !.stage = IF r = "Win" THEN "over" ELSE s, !.retries = 0]
<1>1. caller \in [Peers -> Caller] /\ c \in Caller
  BY DEF SystemTypeOK
<1>2. h \in Seq(Outcome)
  BY <1>1, AppendProperties DEF Caller, Outcome
<1>3. caller' = [caller EXCEPT ![p] = c2]
  BY DEF Hear
<1> HIDE DEF c, h
<1>4. /\ c2.stage = (IF r = "Win" THEN "over" ELSE s)
      /\ c2.player = c.player /\ c2.heard = h
  BY <1>1 DEF Caller
<1>5. c2 \in Caller
  <2>1. (IF r = "Win" THEN "over" ELSE s) \in Stages /\ 0 \in 0 .. MaxRetries
    BY CallerAssumption DEF Stages
  <2> QED BY <2>1, <1>1, <1>2 DEF Caller, Stages
<1> HIDE DEF c2
<1> QED BY <1>1, <1>3, <1>4, <1>5 DEF c, h

(* The caller asks again or gives up: its player and what it heard stay.   *)
LEMMA RetryIs ==
  ASSUME SystemTypeOK, NEW p \in Peers, Retry(p)
  PROVE  /\ caller' \in [Peers -> Caller]
         /\ \A q \in Peers : q # p => caller'[q] = caller[q]
         /\ caller'[p].stage \in {caller[p].stage, "over"}
         /\ caller'[p].player = caller[p].player
         /\ caller'[p].heard = caller[p].heard
<1>1. CASE Stage(p, "over")
  BY <1>1, StageIs DEF Stages
<1>2. CASE /\ caller[p].retries < MaxRetries
           /\ caller' = [caller EXCEPT ![p].retries = @ + 1]
  <2>1. caller \in [Peers -> Caller] /\ caller[p] \in Caller
    BY DEF SystemTypeOK
  <2>2. caller[p].retries + 1 \in 0 .. MaxRetries
    BY <2>1, <1>2, CallerAssumption DEF Caller
  <2> QED BY <1>2, <2>1, <2>2 DEF Caller
<1> QED BY <1>1, <1>2 DEF Retry

(* client_send_move and client_send_move_extended: the result of the move, *)
(* or Invalid, which the caller may take for a reason to move again.       *)
LEMMA MoveReturnInv ==
  ASSUME SInv, NEW p \in Peers, NEW op \in {"move", "move_ext"},
         MoveReturns(p, op, Answer[op]), ServerRests
  PROVE  SInv'
<1> DEFINE l == lib[p]
           c == caller[p]
           d == due[p]
           k == net[p]
           l2 == lib'[p]
           c2 == caller'[p]
           k2 == net'[p]
           ans == Answer[op]
           Same == /\ caller' \in [Peers -> Caller]
                   /\ \A q \in Peers : q # p => caller'[q] = caller[q]
<1>1. PICK m : /\ recv_frame(p, m)
               /\ IF m[1] = ans /\ m[2] # "Invalid"
                  THEN Hear(p, caller[p].player, m[2], "theirs") ELSE Retry(p)
  BY DEF MoveReturns
<1>2. SystemTypeOK /\ lib' = [lib EXCEPT ![p].call = "none"] /\ l.call = op
      /\ UNCHANGED <<tables, due>> /\ sent' = Silence
  BY DEF SInv, MoveReturns, Done, Returns, ServerRests
<1>3. /\ l \in Lib /\ c \in Caller /\ d \in Seq(Outcome) /\ k \in Net /\ PeerOK(l, c, d, k)
      /\ c.heard \in Seq(Outcome)
  BY OneClient DEF Caller
<1>4. /\ lib' \in [Peers -> Lib] /\ \A q \in Peers : q # p => lib'[q] = lib[q]
      /\ l2.call = "none" /\ l2.connected = l.connected
  BY <1>2, CallIs
<1>5. /\ net' \in [Peers -> Net] /\ \A q \in Peers : q # p => net'[q] = net[q]
      /\ k2.fd = k.fd /\ k2.up = k.up /\ k2.hung = k.hung /\ k2.eof = k.eof /\ k2.rst = k.rst
      /\ \/ k.down # <<>> /\ m = Head(k.down) /\ k2.down = Tail(k.down)
         \/ k.down = <<>> /\ k.eof /\ m = NoFrame /\ k2.down = <<>>
  BY <1>1, <1>2, ReceivedIs
<1>6. ~(m[1] = ans /\ m[2] # "Invalid") =>
         /\ Same
         /\ c2.stage \in {c.stage, "over"} /\ c2.player = c.player /\ c2.heard = c.heard
  BY <1>1, <1>2, RetryIs
<1>7. ASSUME c.player \in Players, NEW r \in {"Miss", "Win"}, m = <<ans, r>>
      PROVE  /\ Same
             /\ c2.stage = (IF r = "Win" THEN "over" ELSE "theirs") /\ c2.player = c.player
             /\ c2.heard = Append(c.heard, <<c.player, r>>)
  <2>1. Hear(p, caller[p].player, r, "theirs") /\ "theirs" \in Stages
    BY <1>1, <1>7 DEF Stages
  <2> QED BY <2>1, <1>2, <1>7, HearIs
<1>8. ans \in {"MOVE_RESULT", "MOVE_EXT_RESULT"}
  BY DEF Answer
<1>9. ASSUME NEW n \in Players, NEW r \in {"Miss", "Win"}
      PROVE  <<n, r>> \in Outcome /\ <<Opponent(n), r>> \in Outcome
  BY <1>9, Opponents DEF Outcome
<1>14. /\ l.call = op /\ (op = "move" \/ op = "move_ext") /\ ans = Answer[l.call]
  BY <1>2
<1> HIDE DEF l, c, d, k, l2, c2, k2, ans, Same
<1>10. ASSUME k.fd = NONE PROVE PeerOK(l2, c2, d, k2) /\ Same
  <2>1. /\ ~k.hung /\ k.eof /\ k.up = <<>> /\ LostOnMove(l, c, d, k) /\ l.connected
        /\ c.stage = "mine" /\ c.player \in Players
    <3>1. ~k.hung /\ k.eof /\ k.up = <<>> /\ Lost(l, c, d, k)
      BY <1>14, <1>3, <1>10 DEF PeerOK, Left, Outside, client_init, Calling
    <3>2. LostOnMove(l, c, d, k)
      BY <3>1, <1>14 DEF Lost, LostJoining, LostPlacing, LostOffMove, LostOver, Calling
    <3> QED BY <3>1, <3>2 DEF LostOnMove
  <2>2. ASSUME d = c.heard, ~(m[1] = ans /\ m[2] # "Invalid"), k2.down \in {<<>>, << <<"ERROR">> >>}
        PROVE  PeerOK(l2, c2, d, k2) /\ Same
    <3>1. Same /\ c2.stage \in {c.stage, "over"} /\ c2.player = c.player /\ c2.heard = c.heard
      BY <2>2, <1>6
    <3>2. CASE c2.stage = "over"
      <4>1. IsPrefix(c2.heard, d)
        BY <3>1, <2>2, <1>3 DEF IsPrefix
      <4> QED BY <4>1, <3>1, <3>2, <2>1, <1>4, <1>5, <1>10, IsOver
    <3>3. CASE c2.stage = c.stage
      <4>1. LostOnMove(l2, c2, d, k2)
        BY <3>1, <3>3, <2>1, <2>2, <1>4 DEF LostOnMove
      <4> QED BY <4>1, <3>1, <2>1, <1>5, <1>10 DEF PeerOK, Lost
    <3> QED BY <3>1, <3>2, <3>3
  <2>3. CASE d = c.heard /\ k.down \in {<<>>, << <<"ERROR">> >>}
    <3>1. m[1] # ans /\ k2.down \in {<<>>, << <<"ERROR">> >>}
      <4>1. CASE k.down = <<>>
        BY <4>1, <1>5, <1>8 DEF NoFrame
      <4>2. CASE k.down = << <<"ERROR">> >>
        <5>1. m = <<"ERROR">> /\ k2.down = <<>>
          BY <4>2, <1>5
        <5> QED BY <5>1, <1>8
      <4> QED BY <4>1, <4>2, <2>3
    <3>2. ~(m[1] = ans /\ m[2] # "Invalid")
      BY <3>1
    <3> QED BY <3>1, <3>2, <2>2, <2>3
  <2>4. CASE d = c.heard /\ k.down = << <<ans, "Invalid">>, <<"ERROR">> >>
    <3>1. m = <<ans, "Invalid">> /\ k2.down \in {<<>>, << <<"ERROR">> >>}
      BY <2>4, <1>5
    <3>2. ~(m[1] = ans /\ m[2] # "Invalid")
      BY <3>1
    <3> QED BY <3>1, <3>2, <2>2, <2>4
  <2>5. ASSUME NEW r \in {"Miss", "Win"}, ~k.rst, d = Append(c.heard, <<c.player, r>>),
               k.down = << <<ans, r>>, LastFrame(r) >>
        PROVE  PeerOK(l2, c2, d, k2) /\ Same
    <3>1. m = <<ans, r>> /\ k2.down = <<LastFrame(r)>>
      BY <2>5, <1>5
    <3>2. /\ Same /\ c2.player = c.player /\ c2.heard = d
          /\ c2.stage = (IF r = "Win" THEN "over" ELSE "theirs")
      BY <3>1, <2>1, <2>5, <1>7
    <3>3. CASE r = "Win"
      <4>1. IsPrefix(c2.heard, d)
        BY <3>2, <1>3 DEF IsPrefix
      <4> QED BY <4>1, <3>2, <3>3, <2>1, <1>4, <1>5, <1>10, IsOver
    <3>4. CASE r = "Miss"
      <4>1. LostOffMove(l2, c2, d, k2)
        BY <3>1, <3>2, <3>4, <2>1, <2>5, <1>4, <1>5 DEF LostOffMove, LastFrame
      <4> QED BY <4>1, <3>2, <2>1, <1>5, <1>10 DEF PeerOK, Lost
    <3> QED BY <3>3, <3>4
  <2>6. ASSUME NEW r \in {"Miss", "Win"}, ~k.rst,
               d = Append(Append(c.heard, <<c.player, "Miss">>), <<Opponent(c.player), r>>),
               k.down = << <<ans, "Miss">>, <<"OPP_MOVE", r>>, LastFrame(r) >>
        PROVE  PeerOK(l2, c2, d, k2) /\ Same
    <3>1. m = <<ans, "Miss">> /\ k2.down = << <<"OPP_MOVE", r>>, LastFrame(r) >>
      BY <2>6, <1>5
    <3>2. /\ Same /\ c2.player = c.player /\ c2.stage = "theirs"
          /\ c2.heard = Append(c.heard, <<c.player, "Miss">>)
      BY <3>1, <2>1, <1>7
    <3>3. LostOffMove(l2, c2, d, k2)
      BY <3>1, <3>2, <2>1, <2>6, <1>4, <1>5 DEF LostOffMove
    <3> QED BY <3>2, <3>3, <2>1, <1>5, <1>10 DEF PeerOK, Lost
  <2> QED BY <2>1, <2>3, <2>4, <2>5, <2>6, <1>14 DEF LostOnMove
<1>11. ASSUME NEW v \in ViewType, k.fd # NONE, ClientOfPeer(l, c, d, k, v)
      PROVE  /\ PeerOK(l2, c2, d, k2) /\ Same /\ ClientOfPeer(l2, c2, d, k2, v)
  <2>1. ~k.hung
    BY <1>14, <1>3, <1>11 DEF PeerOK, Left, client_init
  <2>2. ~k.eof /\ ~k.rst /\ v.player \in Players
    BY <2>1, <1>11 DEF ClientOfPeer, ViewType
  <2>3. OnMove(l, c, d, k, v) /\ k.down # <<>>
    BY <1>14, <1>5, <2>1, <2>2, <1>11
    DEF ClientOfPeer, Served, Joining, Placing, Acked, OnMove, OffMove, Calling
  <2>4. /\ c.player = v.player /\ c.stage = "mine" /\ k.up = <<>> /\ l.connected /\ v.phase = "PLAYING"
    BY <2>3, <1>14 DEF OnMove
  <2>5. CASE d = c.heard /\ v.turn = c.player /\ k.down = << <<ans, "Invalid">> >>
    <3>1. m = <<ans, "Invalid">> /\ k2.down = <<>>
      BY <2>5, <1>5
    <3>2. Same /\ c2.stage \in {c.stage, "over"} /\ c2.player = c.player /\ c2.heard = c.heard
      BY <3>1, <1>6
    <3>3. OnMove(l2, c2, d, k2, v)
      BY <3>1, <3>2, <2>4, <2>5, <1>4, <1>5 DEF OnMove
    <3> QED BY <3>2, <3>3, <2>1, <2>2, <1>5, <1>11 DEF PeerOK, ClientOfPeer, Served
  <2>6. CASE /\ d = Append(c.heard, <<c.player, "Miss">>) /\ v.turn = Opponent(c.player)
             /\ k.down = << <<ans, "Miss">> >>
    <3>1. m = <<ans, "Miss">> /\ k2.down = <<>>
      BY <2>6, <1>5
    <3>2. Same /\ c2.stage = "theirs" /\ c2.player = c.player /\ c2.heard = d
      BY <3>1, <2>2, <2>4, <2>6, <1>7
    <3>3. OffMove(l2, c2, d, k2, v)
      BY <3>1, <3>2, <2>4, <2>6, <1>4, <1>5 DEF OffMove
    <3> QED BY <3>2, <3>3, <2>1, <2>2, <1>5, <1>11 DEF PeerOK, ClientOfPeer, Served
  <2>7. CASE /\ v.turn = c.player
             /\ d = Append(Append(c.heard, <<c.player, "Miss">>), <<Opponent(c.player), "Miss">>)
             /\ k.down = << <<ans, "Miss">>, <<"OPP_MOVE", "Miss">> >>
    <3>1. m = <<ans, "Miss">> /\ k2.down = << <<"OPP_MOVE", "Miss">> >>
      BY <2>7, <1>5
    <3>2. /\ Same /\ c2.stage = "theirs" /\ c2.player = c.player
          /\ c2.heard = Append(c.heard, <<c.player, "Miss">>)
      BY <3>1, <2>2, <2>4, <1>7
    <3>3. OffMove(l2, c2, d, k2, v)
      BY <3>1, <3>2, <2>4, <2>7, <1>4, <1>5 DEF OffMove
    <3> QED BY <3>2, <3>3, <2>1, <2>2, <1>5, <1>11 DEF PeerOK, ClientOfPeer, Served
  <2> QED BY <2>3, <2>5, <2>6, <2>7, <1>14 DEF OnMove
<1>12. PeerOK(l2, c2, d, k2) /\ Same
       /\ \A v \in ViewType : k.fd # NONE /\ ClientOfPeer(l, c, d, k, v) =>
                              ClientOfPeer(l2, c2, d, k2, v)
  <2>1. CASE k.fd # NONE
    <3>1. PICK v \in ViewType : ClientOfPeer(l, c, d, k, v)
      BY <2>1, AcceptedClient DEF l, c, d, k
    <3> QED BY <3>1, <2>1, <1>11
  <2> QED BY <2>1, <1>10
<1>13. SystemTypeOK'
  BY <1>2, <1>4, <1>5, <1>12 DEF SystemTypeOK, Same
<1> QED BY <1>2, <1>4, <1>5, <1>12, <1>13, ClientStep DEF l, c, d, k, l2, c2, k2, Same

(* client_receive_move: the opponent's move, or the loss of the game.      *)
LEMMA ReceiveReturnInv ==
  ASSUME SInv, NEW p \in Peers, ReceiveReturns(p), ServerRests
  PROVE  SInv'
<1> DEFINE l == lib[p]
           c == caller[p]
           d == due[p]
           k == net[p]
           l2 == lib'[p]
           c2 == caller'[p]
           k2 == net'[p]
           n == c.player
           Same == /\ caller' \in [Peers -> Caller]
                   /\ \A q \in Peers : q # p => caller'[q] = caller[q]
<1>1. PICK m : /\ recv_frame(p, m)
               /\ IF m[1] = "OPP_MOVE" /\ m[2] # "Invalid"
                  THEN Hear(p, Opponent(caller[p].player), m[2], "mine") ELSE Stage(p, "over")
  BY DEF ReceiveReturns
<1>2. SystemTypeOK /\ lib' = [lib EXCEPT ![p].call = "none"] /\ l.call = "receive"
      /\ UNCHANGED <<tables, due>> /\ sent' = Silence
  BY DEF SInv, ReceiveReturns, Done, Returns, ServerRests
<1>3. /\ l \in Lib /\ c \in Caller /\ d \in Seq(Outcome) /\ k \in Net /\ PeerOK(l, c, d, k)
      /\ c.heard \in Seq(Outcome)
  BY OneClient DEF Caller
<1>4. /\ lib' \in [Peers -> Lib] /\ \A q \in Peers : q # p => lib'[q] = lib[q]
      /\ l2.call = "none" /\ l2.connected = l.connected
  BY <1>2, CallIs
<1>5. /\ net' \in [Peers -> Net] /\ \A q \in Peers : q # p => net'[q] = net[q]
      /\ k2.fd = k.fd /\ k2.up = k.up /\ k2.hung = k.hung /\ k2.eof = k.eof /\ k2.rst = k.rst
      /\ \/ k.down # <<>> /\ m = Head(k.down) /\ k2.down = Tail(k.down)
         \/ k.down = <<>> /\ k.eof /\ m = NoFrame /\ k2.down = <<>>
  BY <1>1, <1>2, ReceivedIs
<1>6. m[1] # "OPP_MOVE" => Same /\ c2.stage = "over" /\ c2.player = n /\ c2.heard = c.heard
  BY <1>1, <1>2, StageIs DEF Stages
<1>7. ASSUME n \in Players, NEW r \in {"Miss", "Win"}, m = <<"OPP_MOVE", r>>
      PROVE  /\ Same
             /\ c2.stage = (IF r = "Win" THEN "over" ELSE "mine") /\ c2.player = n
             /\ c2.heard = Append(c.heard, <<Opponent(n), r>>)
  <2>1. Hear(p, Opponent(n), r, "mine") /\ "mine" \in Stages /\ Opponent(n) \in Players
    BY <1>1, <1>7, Opponents DEF Stages
  <2> QED BY <2>1, <1>2, HearIs
<1> HIDE DEF l, c, d, k, l2, c2, k2, n, Same
<1>8. ASSUME k.fd = NONE PROVE PeerOK(l2, c2, d, k2) /\ Same
  <2>1. ~k.hung /\ k.eof /\ k.up = <<>> /\ LostOffMove(l, c, d, k)
    <3>1. ~k.hung /\ k.eof /\ k.up = <<>> /\ Lost(l, c, d, k)
      BY <1>2, <1>3, <1>8 DEF PeerOK, Left, Outside, client_init, Calling
    <3>2. LostOffMove(l, c, d, k)
      BY <3>1, <1>2 DEF Lost, LostJoining, LostPlacing, LostOnMove, LostOver, Calling
    <3> QED BY <3>1, <3>2
  <2>2. n \in Players /\ l.connected /\ ~k.rst
    BY <2>1 DEF LostOffMove, n
  <2>3. CASE d = c.heard /\ k.down = << <<"ERROR">> >>
    <3>1. m = <<"ERROR">>
      BY <2>3, <1>5
    <3>2. Same /\ c2.stage = "over" /\ c2.heard = d
      BY <3>1, <2>3, <1>6
    <3>3. IsPrefix(c2.heard, d)
      BY <3>2, <1>3 DEF IsPrefix
    <3> QED BY <3>2, <3>3, <2>1, <2>2, <1>4, <1>5, <1>8, IsOver
  <2>4. ASSUME NEW r \in {"Miss", "Win"}, d = Append(c.heard, <<Opponent(n), r>>),
               k.down = << <<"OPP_MOVE", r>>, LastFrame(r) >>
        PROVE  PeerOK(l2, c2, d, k2) /\ Same
    <3>1. m = <<"OPP_MOVE", r>> /\ k2.down = <<LastFrame(r)>>
      BY <2>4, <1>5
    <3>2. /\ Same /\ c2.player = n /\ c2.heard = d
          /\ c2.stage = (IF r = "Win" THEN "over" ELSE "mine")
      BY <3>1, <2>2, <2>4, <1>7
    <3>3. CASE r = "Win"
      <4>1. IsPrefix(c2.heard, d)
        BY <3>2, <1>3 DEF IsPrefix
      <4> QED BY <4>1, <3>2, <3>3, <2>1, <2>2, <1>4, <1>5, <1>8, IsOver
    <3>4. CASE r = "Miss"
      <4>1. LostOnMove(l2, c2, d, k2)
        BY <3>1, <3>2, <3>4, <2>2, <1>4 DEF LostOnMove, LastFrame
      <4> QED BY <4>1, <3>2, <2>1, <1>5, <1>8 DEF PeerOK, Lost
    <3> QED BY <3>3, <3>4
  <2> QED BY <2>1, <2>3, <2>4 DEF LostOffMove, n
<1>9. ASSUME NEW v \in ViewType, k.fd # NONE, ClientOfPeer(l, c, d, k, v)
      PROVE  PeerOK(l2, c2, d, k2) /\ Same /\ ClientOfPeer(l2, c2, d, k2, v)
  <2>1. ~k.hung
    BY <1>2, <1>3, <1>9 DEF PeerOK, Left, client_init
  <2>2. ~k.eof /\ ~k.rst /\ v.player \in Players
    BY <2>1, <1>9 DEF ClientOfPeer, ViewType
  <2>3. OffMove(l, c, d, k, v)
    BY <1>2, <2>1, <1>9
    DEF ClientOfPeer, Served, Joining, Placing, Acked, OnMove, Calling
  <2>4. /\ k.down = << <<"OPP_MOVE", "Miss">> >> /\ v.turn = n
        /\ d = Append(c.heard, <<Opponent(n), "Miss">>)
        /\ n = v.player /\ l.connected /\ v.phase = "PLAYING" /\ k.up = <<>>
    BY <2>2, <2>3, <1>5 DEF OffMove, n
  <2>5. m = <<"OPP_MOVE", "Miss">> /\ k2.down = <<>>
    BY <2>4, <1>5
  <2>6. Same /\ c2.stage = "mine" /\ c2.player = n /\ c2.heard = d
    BY <2>2, <2>4, <2>5, <1>7
  <2>7. OnMove(l2, c2, d, k2, v)
    BY <2>4, <2>5, <2>6, <1>4, <1>5 DEF OnMove
  <2> QED BY <2>6, <2>7, <2>1, <2>2, <1>5, <1>9 DEF PeerOK, ClientOfPeer, Served
<1>10. PeerOK(l2, c2, d, k2) /\ Same
       /\ \A v \in ViewType : k.fd # NONE /\ ClientOfPeer(l, c, d, k, v) =>
                              ClientOfPeer(l2, c2, d, k2, v)
  <2>1. CASE k.fd # NONE
    <3>1. PICK v \in ViewType : ClientOfPeer(l, c, d, k, v)
      BY <2>1, AcceptedClient DEF l, c, d, k
    <3> QED BY <3>1, <2>1, <1>9
  <2> QED BY <2>1, <1>8
<1>11. SystemTypeOK'
  BY <1>2, <1>4, <1>5, <1>10 DEF SystemTypeOK, Same
<1> QED BY <1>2, <1>4, <1>5, <1>10, <1>11, ClientStep DEF l, c, d, k, l2, c2, k2, Same

(* A write to a connection that the server has closed.                     *)
LEMMA WriteFailsInv ==
  ASSUME SInv, NEW p \in Peers, WriteFails(p), ServerRests
  PROVE  SInv'
<1> DEFINE l == lib[p]
           c == caller[p]
           d == due[p]
           k == net[p]
           l2 == lib'[p]
           c2 == caller'[p]
           Same == /\ caller' \in [Peers -> Caller]
                   /\ \A q \in Peers : q # p => caller'[q] = caller[q]
<1>1. SystemTypeOK /\ lib' = [lib EXCEPT ![p].call = "none"] /\ k.rst
      /\ l.call \in {"ships", "move", "move_ext"}
      /\ UNCHANGED <<tables, due, net>> /\ sent' = Silence
  BY DEF SInv, WriteFails, Done, ServerRests
<1>2. /\ l \in Lib /\ c \in Caller /\ d \in Seq(Outcome) /\ k \in Net /\ PeerOK(l, c, d, k)
      /\ c.heard \in Seq(Outcome)
  BY OneClient DEF Caller
<1>3. /\ lib' \in [Peers -> Lib] /\ \A q \in Peers : q # p => lib'[q] = lib[q]
      /\ l2.call = "none" /\ l2.connected = l.connected
  BY <1>1, CallIs
<1>4. Stage(p, "over") \/ (l.call # "ships" /\ Retry(p))
  BY DEF WriteFails
<1>5. /\ Same /\ c2.player = c.player /\ c2.heard = c.heard
      /\ c2.stage = "over" \/ (l.call # "ships" /\ c2.stage = c.stage)
  <2>1. CASE Stage(p, "over")
    BY <2>1, <1>1, StageIs DEF Stages
  <2>2. CASE l.call # "ships" /\ Retry(p)
    BY <2>2, <1>1, RetryIs
  <2> QED BY <2>1, <2>2, <1>4
<1>6. k.fd = NONE
  <2> SUFFICES ASSUME k.fd # NONE PROVE FALSE
    OBVIOUS
  <2>1. PICK v : ClientOfPeer(l, c, d, k, v)
    BY AcceptedClient
  <2> QED BY <2>1, <1>1, <1>2 DEF ClientOfPeer, PeerOK, Left
<1> HIDE DEF l, c, d, k, l2, c2, Same
<1>7. ~k.hung /\ k.eof /\ k.up = <<>> /\ Lost(l, c, d, k)
  BY <1>1, <1>2, <1>6 DEF PeerOK, Left, Outside, NoConnection
<1>8. /\ l.connected /\ d = c.heard
      /\ l.call # "ships" => LostOnMove(l, c, d, k) /\ k.down \in {<<>>, << <<"ERROR">> >>}
  BY <1>1, <1>7 DEF Lost, LostJoining, LostPlacing, LostOnMove, LostOffMove, LostOver, Calling
<1>9. PeerOK(l2, c2, d, k)
  <2>1. CASE c2.stage = "over"
    <3>1. IsPrefix(c2.heard, d)
      BY <1>2, <1>5, <1>8 DEF IsPrefix
    <3> QED BY <2>1, <3>1, <1>3, <1>6, <1>7, <1>8, IsOver
  <2>2. CASE l.call # "ships" /\ c2.stage = c.stage
    <3>1. LostOnMove(l2, c2, d, k)
      BY <2>2, <1>3, <1>5, <1>8 DEF LostOnMove
    <3> QED BY <3>1, <1>6, <1>7 DEF PeerOK, Lost
  <2> QED BY <2>1, <2>2, <1>5
<1>10. SystemTypeOK'
  BY <1>1, <1>3, <1>5 DEF SystemTypeOK, Same
<1> QED BY <1>1, <1>3, <1>5, <1>6, <1>9, <1>10, ClientStep DEF l, c, d, k, l2, c2, Same

(* Closing the socket.                                                     *)
LEMMA HangIs ==
  ASSUME SystemTypeOK, NEW p \in Peers, Hang(p)
  PROVE  /\ net' \in [Peers -> Net]
         /\ \A q \in Peers : q # p => net'[q] = net[q]
         /\ net[p].eof => net'[p] = NoConnection
         /\ ~net[p].eof => /\ net'[p].fd = net[p].fd /\ net'[p].up \in {net[p].up, <<>>}
                           /\ net'[p].down = <<>> /\ net'[p].hung /\ ~net'[p].eof
                           /\ net'[p].rst = net[p].rst
<1>1. net \in [Peers -> Net] /\ net[p] \in Net
  BY DEF SystemTypeOK
<1>2. <<>> \in Seq(MsgType \cup GameIds) /\ <<>> \in Seq(Frame)
  BY EmptySeq
<1>3. CASE net[p].eof
  <2>1. net' = [net EXCEPT ![p] = NoConnection]
    BY <1>3 DEF Hang
  <2>2. NoConnection \in Net
    BY <1>2 DEF NoConnection, Net
  <2> QED BY <1>1, <1>3, <2>1, <2>2
<1>4. CASE ~net[p].eof
  <2>1. PICK up \in {net[p].up, <<>>} :
           net' = [net EXCEPT ![p].hung = TRUE, ![p].up = up, ![p].down = <<>>]
    BY <1>4 DEF Hang
  <2>2. up \in Seq(MsgType \cup GameIds)
    BY <1>1, <1>2 DEF Net
  <2> QED BY <1>1, <1>2, <1>4, <2>1, <2>2 DEF Net
<1> QED BY <1>3, <1>4

(* The server closes what it has accepted, and gives the descriptor back.  *)
LEMMA ClosedIs ==
  ASSUME SInv, NEW p \in Peers, net[p].eof
  PROVE  net[p].fd = NONE /\ ~net[p].hung
<1>1. PeerOK(lib[p], caller[p], due[p], net[p])
  BY OneClient
<1>2. ~net[p].hung
  BY <1>1 DEF PeerOK, Left
<1>3. ASSUME net[p].fd # NONE PROVE FALSE
  <2>1. PICK v : ClientOfPeer(lib[p], caller[p], due[p], net[p], v)
    BY <1>3, AcceptedClient
  <2> QED BY <2>1, <1>2 DEF ClientOfPeer
<1> QED BY <1>2, <1>3

(* client_connect: only JOIN_OK makes a connection of it.                  *)
LEMMA ConnectReturnInv ==
  ASSUME SInv, NEW p \in Peers, ConnectReturns(p), ServerRests
  PROVE  SInv'
<1> DEFINE l == lib[p]
           c == caller[p]
           d == due[p]
           k == net[p]
           l2 == lib'[p]
           c2 == caller'[p]
           k2 == net'[p]
<1>1. /\ SystemTypeOK /\ l.call = "connect" /\ UNCHANGED <<tables, due>> /\ sent' = Silence
      /\ lib \in [Peers -> Lib]
  BY DEF SInv, SystemTypeOK, ConnectReturns, Returns, ServerRests
<1>2. /\ l \in Lib /\ c \in Caller /\ d \in Seq(Outcome) /\ k \in Net /\ PeerOK(l, c, d, k)
  BY OneClient
<1>3. CASE /\ k.down # <<>> /\ Head(k.down) = <<"JOIN_OK">> /\ recv_frame(p, <<"JOIN_OK">>)
           /\ lib' = [lib EXCEPT ![p] = [connected |-> TRUE, call |-> "none"]]
           /\ Stage(p, "joined")
  <2>1. /\ lib' \in [Peers -> Lib] /\ \A q \in Peers : q # p => lib'[q] = lib[q]
        /\ l2.call = "none" /\ l2.connected
    BY <1>1, <1>3 DEF Lib
  <2>2. /\ net' \in [Peers -> Net] /\ \A q \in Peers : q # p => net'[q] = net[q]
        /\ k2.fd = k.fd /\ k2.up = k.up /\ k2.hung = k.hung /\ k2.eof = k.eof /\ k2.rst = k.rst
        /\ k2.down = Tail(k.down)
    BY <1>1, <1>3, ReceivedIs
  <2>3. /\ caller' \in [Peers -> Caller] /\ \A q \in Peers : q # p => caller'[q] = caller[q]
        /\ c2.player = c.player /\ c2.heard = c.heard /\ c2.stage = "joined"
    BY <1>1, <1>3, StageIs DEF Stages
  <2>4. SystemTypeOK'
    BY <1>1, <2>1, <2>2, <2>3 DEF SystemTypeOK
  <2> HIDE DEF l, c, d, k, l2, c2, k2
  <2>5. ASSUME k.fd = NONE PROVE PeerOK(l2, c2, d, k2)
    <3>1. ~k.hung /\ k.eof /\ k.up = <<>> /\ Lost(l, c, d, k)
      BY <1>1, <1>2, <1>3, <2>5 DEF PeerOK, Left, Outside, client_init, NoConnection
    <3>a. LostJoining(l, c, d, k)
      BY <3>1, <1>1
      DEF Lost, LostPlacing, LostOnMove, LostOffMove, LostOver, LostJoining, Calling
    <3>2. /\ New(c, d) /\ ~k.rst
          /\ \/ k.down = << <<"JOIN_OK">>, <<"ERROR">> >>
             \/ k.down = << <<"JOIN_OK">>, <<"READY">>, <<"ERROR">> >>
      <4>1. /\ New(c, d) /\ ~k.rst
            /\ k.down \in {<<>>, << <<"JOIN_FAIL">> >>, << <<"JOIN_OK">>, <<"ERROR">> >>,
                           << <<"JOIN_OK">>, <<"READY">>, <<"ERROR">> >>}
        BY <3>a, <1>1 DEF LostJoining
      <4>2. k.down # << <<"JOIN_FAIL">> >>
        BY <1>3, Heads
      <4> QED BY <4>1, <4>2, <1>3
    <3>3. k2.down = << <<"ERROR">> >> \/ k2.down = << <<"READY">>, <<"ERROR">> >>
      <4>1. ASSUME k.down = << <<"JOIN_OK">>, <<"ERROR">> >>
            PROVE  k2.down = << <<"ERROR">> >>
        BY <4>1, <2>2, Heads
      <4>2. ASSUME k.down = << <<"JOIN_OK">>, <<"READY">>, <<"ERROR">> >>
            PROVE  k2.down = << <<"READY">>, <<"ERROR">> >>
        BY <4>2, <2>2, Heads
      <4> QED BY <3>2, <4>1, <4>2
    <3>4. LostJoining(l2, c2, d, k2)
      BY <3>2, <3>3, <2>1, <2>2, <2>3 DEF LostJoining, New
    <3> QED BY <3>1, <3>4, <2>2, <2>5 DEF PeerOK, Lost
  <2>6. ASSUME NEW v, k.fd # NONE, ClientOfPeer(l, c, d, k, v)
        PROVE  PeerOK(l2, c2, d, k2) /\ ClientOfPeer(l2, c2, d, k2, v)
    <3>1. ~k.hung /\ ~k.eof /\ ~k.rst
      BY <1>1, <1>2, <2>6 DEF PeerOK, Left, client_init, ClientOfPeer
    <3>2. Joining(l, c, d, k, v)
      BY <3>1, <1>1, <2>6 DEF ClientOfPeer, Served, Joining, Placing, Acked, OnMove, OffMove
    <3>a. \/ v.phase = "WAITING" /\ k.down = << <<"JOIN_OK">> >>
          \/ v.phase = "PLACEMENT" /\ k.down = << <<"JOIN_OK">>, <<"READY">> >>
      <4>1. l.call \notin {"none", "wait"}
        BY <1>1
      <4> QED BY <3>2, <4>1 DEF Joining
    <3>3. \/ v.phase = "WAITING" /\ k2.down = <<>>
          \/ v.phase = "PLACEMENT" /\ k2.down = << <<"READY">> >>
      <4>1. ASSUME k.down = << <<"JOIN_OK">> >> PROVE k2.down = <<>>
        BY <4>1, <2>2, Heads
      <4>2. ASSUME k.down = << <<"JOIN_OK">>, <<"READY">> >> PROVE k2.down = << <<"READY">> >>
        BY <4>2, <2>2, Heads
      <4> QED BY <3>a, <4>1, <4>2
    <3>4. Joining(l2, c2, d, k2, v)
      BY <3>2, <3>3, <2>1, <2>2, <2>3 DEF Joining, New
    <3> QED BY <3>1, <3>4, <2>2, <2>6 DEF PeerOK, ClientOfPeer, Served
  <2>7. PeerOK(l2, c2, d, k2)
    <3>1. CASE k.fd # NONE
      <4>1. PICK v : ClientOfPeer(l, c, d, k, v)
        BY <3>1, AcceptedClient DEF l, c, d, k
      <4> QED BY <4>1, <3>1, <2>6
    <3> QED BY <3>1, <2>5
  <2> QED BY <1>1, <2>1, <2>2, <2>3, <2>4, <2>6, <2>7, ClientStep DEF l, c, d, k, l2, c2, k2
<1>4. CASE /\ IF k.down = <<>> THEN k.eof ELSE Head(k.down) # <<"JOIN_OK">>
           /\ Hang(p) /\ Done(p) /\ UNCHANGED caller
  <2>1. /\ lib' \in [Peers -> Lib] /\ \A q \in Peers : q # p => lib'[q] = lib[q]
        /\ l2.call = "none" /\ l2.connected = l.connected
    BY <1>1, <1>4, CallIs DEF Done
  <2>2. /\ net' \in [Peers -> Net] /\ \A q \in Peers : q # p => net'[q] = net[q]
        /\ k.eof => k2 = NoConnection
    BY <1>1, <1>4, HangIs
  <2>3. SystemTypeOK' /\ l2 \in Lib
    BY <1>1, <1>4, <2>1, <2>2 DEF SystemTypeOK
  <2>4. k.eof => k.fd = NONE /\ ~k.hung
    BY ClosedIs
  <2>5. k.eof
    <3> SUFFICES ASSUME ~k.eof PROVE FALSE
      OBVIOUS
    <3>1. ~k.hung /\ k.down # <<>> /\ Head(k.down) # <<"JOIN_OK">>
      BY <1>1, <1>2, <1>4 DEF PeerOK, Left, client_init
    <3>2. k.fd # NONE
      BY <3>1, <1>1, <1>2 DEF PeerOK, Outside, NoConnection
    <3>3. PICK v : ClientOfPeer(l, c, d, k, v)
      BY <3>2, AcceptedClient
    <3>4. Joining(l, c, d, k, v)
      BY <3>1, <3>3, <1>1 DEF ClientOfPeer, Served, Joining, Placing, Acked, OnMove, OffMove
    <3> QED BY <3>1, <3>4, <1>1 DEF Joining
  <2> HIDE DEF l, c, d, k, l2, c2, k2
  <2>6. New(c, d) /\ c.stage = "start" /\ ~l.connected
    <3>1. Lost(l, c, d, k)
      BY <1>1, <1>2, <2>4, <2>5 DEF PeerOK
    <3> QED BY <3>1, <1>1
        DEF Lost, LostJoining, LostPlacing, LostOnMove, LostOffMove, LostOver, Calling
  <2>7. l2 = client_init
    BY <2>1, <2>3, <2>6 DEF Lib, client_init
  <2>8. PeerOK(l2, c, d, k2) /\ k2.fd = k.fd
    BY <2>2, <2>4, <2>5, <2>6, <2>7 DEF PeerOK, Outside, NoConnection
  <2> QED BY <1>1, <1>4, <2>1, <2>2, <2>3, <2>4, <2>5, <2>8, ClientStep DEF l, c, d, k, l2, c2, k2
<1> QED BY <1>3, <1>4 DEF ConnectReturns

(* Every return.                                                           *)
LEMMA ReturnInv == ASSUME SInv, NEW p \in Peers, Return(p) PROVE SInv'
<1>1. ServerRests
  BY DEF Return
<1>2. CASE ConnectReturns(p)
  BY <1>1, <1>2, ConnectReturnInv
<1>3. CASE WaitReturns(p)
  BY <1>1, <1>3, WaitReturnInv
<1>4. CASE ShipsReturn(p)
  BY <1>1, <1>4, ShipsReturnInv
<1>5. CASE MoveReturns(p, "move", "MOVE_RESULT")
  BY <1>1, <1>5, MoveReturnInv DEF Answer
<1>6. CASE MoveReturns(p, "move_ext", "MOVE_EXT_RESULT")
  BY <1>1, <1>6, MoveReturnInv DEF Answer
<1>7. CASE ReceiveReturns(p)
  BY <1>1, <1>7, ReceiveReturnInv
<1>8. CASE WriteFails(p)
  BY <1>1, <1>8, WriteFailsInv
<1> QED BY <1>2, <1>3, <1>4, <1>5, <1>6, <1>7, <1>8 DEF Return
-----------------------------------------------------------------------------
(* A client that goes away, or whose connection is reset.                  *)

(* What is in flight to the server, whether or not its sender is alive.    *)
LEMMA UpIs ==
  ASSUME NEW l, NEW c, NEW d, NEW k, NEW v, ClientOfPeer(l, c, d, k, v)
  PROVE  UpOK(k.up, v)
<1>1. CASE k.hung
  BY <1>1 DEF ClientOfPeer
<1>2. ASSUME Joining(l, c, d, k, v) \/ Acked(l, c, d, k, v) \/ OffMove(l, c, d, k, v)
      PROVE  k.up = <<>>
  BY <1>2 DEF Joining, Acked, OffMove
<1>3. ASSUME Placing(l, c, d, k, v) PROVE UpOK(k.up, v)
  BY <1>3 DEF Placing, UpOK
<1>4. ASSUME OnMove(l, c, d, k, v) PROVE UpOK(k.up, v)
  <2>1. ASSUME k.up # <<>>
        PROVE  /\ l.call \in {"move", "move_ext"} /\ k.up = <<Request[l.call]>>
               /\ v.phase = "PLAYING" /\ v.turn = v.player
    BY <1>4, <2>1 DEF OnMove
  <2>2. Request["move"] = "MOVE" /\ Request["move_ext"] = "MOVE_EXT"
    BY DEF Request
  <2> QED BY <2>1, <2>2 DEF UpOK
<1>5. ~k.hung => Served(l, c, d, k, v)
  BY DEF ClientOfPeer
<1> QED BY <1>1, <1>2, <1>3, <1>4, <1>5 DEF Served, UpOK

(* client_close, or a crash: the request in flight may be lost.            *)
LEMMA GoneInv ==
  ASSUME SInv, NEW p \in Peers, Gone(p)
  PROVE  SInv'
<1> DEFINE l == lib[p]
           c == caller[p]
           d == due[p]
           k == net[p]
           k2 == net'[p]
<1>1. /\ SystemTypeOK /\ UNCHANGED tables /\ sent' = Silence /\ Hang(p)
      /\ lib' = [lib EXCEPT ![p] = client_init]
      /\ caller' = [caller EXCEPT ![p] = Newcomer]
      /\ due' = [due EXCEPT ![p] = <<>>]
      /\ lib \in [Peers -> Lib] /\ caller \in [Peers -> Caller] /\ due \in [Peers -> Seq(Outcome)]
  BY DEF SInv, SystemTypeOK, Gone, Forget
<1>2. /\ l \in Lib /\ c \in Caller /\ d \in Seq(Outcome) /\ k \in Net /\ PeerOK(l, c, d, k)
  BY OneClient
<1>3. client_init \in Lib /\ Newcomer \in Caller /\ <<>> \in Seq(Outcome)
  BY CallerAssumption DEF client_init, Lib, Newcomer, Caller
<1>4. /\ lib' \in [Peers -> Lib] /\ caller' \in [Peers -> Caller] /\ due' \in [Peers -> Seq(Outcome)]
      /\ lib'[p] = client_init /\ caller'[p] = Newcomer /\ due'[p] = <<>>
      /\ \A q \in Peers : q # p => lib'[q] = lib[q] /\ caller'[q] = caller[q] /\ due'[q] = due[q]
  BY <1>1, <1>3
<1>5. /\ net' \in [Peers -> Net] /\ \A q \in Peers : q # p => net'[q] = net[q]
      /\ k.eof => k2 = NoConnection
      /\ ~k.eof => /\ k2.fd = k.fd /\ k2.up \in {k.up, <<>>} /\ k2.down = <<>> /\ k2.hung /\ ~k2.eof
                   /\ k2.rst = k.rst
  BY <1>1, HangIs
<1>6. SystemTypeOK'
  BY <1>4, <1>5 DEF SystemTypeOK
<1>7. k.eof => k.fd = NONE
  BY ClosedIs
<1>8. Newcomer.stage = "start" /\ New(Newcomer, <<>>)
  BY DEF Newcomer, New
<1> HIDE DEF l, c, d, k, k2
<1>9. CASE k.eof
  <2>1. PeerOK(client_init, Newcomer, <<>>, k2) /\ k2.fd = k.fd
    BY <1>5, <1>7, <1>8, <1>9 DEF PeerOK, Outside, NoConnection
  <2> QED BY <1>1, <1>4, <1>5, <1>6, <1>7, <1>9, <2>1, ClientStep DEF l, c, d, k, k2
<1>10. CASE ~k.eof
  <2>1. ASSUME NEW v, k.fd # NONE, ClientOfPeer(l, c, d, k, v)
        PROVE  ~k.rst /\ ClientOfPeer(client_init, Newcomer, <<>>, k2, v)
    <3>1. ~k.rst
      BY <2>1, <1>2 DEF PeerOK, Left, ClientOfPeer
    <3>2. UpOK(k.up, v)
      BY <2>1, UpIs
    <3>3. UpOK(k2.up, v)
      BY <3>2, <1>5, <1>10 DEF UpOK
    <3> QED BY <3>1, <3>3, <1>5, <1>10 DEF ClientOfPeer
  <2>2. ~k.rst /\ (k.fd = NONE => k.up = <<>> \/ \E id \in GameIds : k.up = <<id>>)
    <3>1. CASE k.fd # NONE
      <4>1. PICK v : ClientOfPeer(l, c, d, k, v)
        BY <3>1, AcceptedClient DEF l, c, d, k
      <4> QED BY <4>1, <3>1, <2>1
    <3>2. CASE k.fd = NONE
      BY <3>2, <1>2, <1>10 DEF PeerOK, Left, Outside, NoConnection
    <3> QED BY <3>1, <3>2
  <2>3. PeerOK(client_init, Newcomer, <<>>, k2)
    BY <2>2, <1>5, <1>8, <1>10 DEF PeerOK, Left
  <2> QED BY <1>1, <1>4, <1>5, <1>6, <1>10, <2>1, <2>3, ClientStep DEF l, c, d, k, k2
<1> QED BY <1>9, <1>10

(* A reset takes what the client has not read yet.                         *)
LEMMA ResetInv ==
  ASSUME SInv, NEW p \in Peers, Reset(p)
  PROVE  SInv'
<1> DEFINE l == lib[p]
           c == caller[p]
           d == due[p]
           k == net[p]
           k2 == net'[p]
<1>1. /\ SystemTypeOK /\ UNCHANGED <<tables, callers, due>> /\ sent' = Silence
      /\ k.rst /\ net' = [net EXCEPT ![p].down = <<>>] /\ net \in [Peers -> Net]
  BY DEF SInv, SystemTypeOK, Reset, ServerRests
<1>2. /\ l \in Lib /\ c \in Caller /\ d \in Seq(Outcome) /\ k \in Net /\ PeerOK(l, c, d, k)
  BY OneClient
<1>3. /\ net' \in [Peers -> Net] /\ \A q \in Peers : q # p => net'[q] = net[q]
      /\ k2.fd = k.fd /\ k2.up = k.up /\ k2.hung = k.hung /\ k2.eof = k.eof /\ k2.rst = k.rst
      /\ k2.down = <<>>
  BY <1>1, EmptySeq DEF Net
<1>4. SystemTypeOK' /\ UNCHANGED <<lib, caller>>
  BY <1>1, <1>3 DEF SystemTypeOK, callers
<1>5. k.fd = NONE
  <2> SUFFICES ASSUME k.fd # NONE PROVE FALSE
    OBVIOUS
  <2>1. PICK v : ClientOfPeer(l, c, d, k, v)
    BY AcceptedClient
  <2> QED BY <2>1, <1>1, <1>2 DEF ClientOfPeer, PeerOK, Left
<1> HIDE DEF l, c, d, k, k2
<1>6. ~k.hung /\ k.eof /\ k.up = <<>> /\ Lost(l, c, d, k)
  BY <1>1, <1>2, <1>5 DEF PeerOK, Left, Outside, NoConnection
<1>7. Lost(l, c, d, k2)
  BY <1>1, <1>3, <1>6 DEF Lost, LostJoining, LostPlacing, LostOnMove, LostOffMove, LostOver
<1>8. PeerOK(l, c, d, k2)
  BY <1>3, <1>5, <1>6, <1>7 DEF PeerOK
<1> QED BY <1>1, <1>3, <1>4, <1>5, <1>8, ClientStep DEF l, c, d, k, k2
-----------------------------------------------------------------------------
(* What a handler does to the connections.                                 *)

(* The connection k becomes k2 when the server has written s to it; it is  *)
(* closed if its descriptor is not in F, the open ones.                    *)
Handed(k, k2, s, F) ==
    /\ k.fd = NONE \/ (k.hung /\ k.fd \in F) => k2 = k
    /\ k.fd # NONE /\ k.hung /\ k.fd \notin F => k2 = NoConnection
    /\ k.fd # NONE /\ ~k.hung =>
          /\ k2.down = k.down \o s /\ ~k2.hung
          /\ k.fd \in F => k2.fd = k.fd /\ k2.up = k.up /\ k2.eof = k.eof /\ k2.rst = k.rst
          /\ k.fd \notin F => /\ k2.fd = NONE /\ k2.up = <<>> /\ k2.eof
                              /\ k2.rst <=> k.up # <<>>

(* Deliver does that to each.                                              *)
LEMMA DeliverIs ==
  ASSUME NEW n \in [Peers -> Net], sent' \in [Fds -> Seq(Frame)], Deliver(n)
  PROVE  /\ net' \in [Peers -> Net]
         /\ \A q \in Peers : Handed(n[q], net'[q], sent'[n[q].fd], open')
<1>1. <<>> \in Seq(MsgType \cup GameIds) /\ <<>> \in Seq(Frame)
  BY EmptySeq
<1>2. NoConnection \in Net
  BY <1>1 DEF NoConnection, Net
<1>3. ASSUME NEW k \in Net, NEW s, k.fd # NONE => s \in Seq(Frame), NEW F, NEW k2,
             k2 = IF k.fd = NONE THEN k
                  ELSE LET c == IF k.hung THEN k ELSE [k EXCEPT !.down = @ \o s]
                       IN  IF k.fd \in F THEN c ELSE Closed(c)
      PROVE  k2 \in Net /\ Handed(k, k2, s, F)
  <2>1. CASE k.fd = NONE
    BY <1>3, <2>1 DEF Handed
  <2>2. CASE k.fd # NONE /\ k.hung
    BY <1>2, <1>3, <2>2 DEF Handed, Closed
  <2>3. CASE k.fd # NONE /\ ~k.hung
    <3> DEFINE c == [k EXCEPT !.down = @ \o s]
    <3>1. k.down \o s \in Seq(Frame)
      BY <1>3, <2>3, ConcatProperties DEF Net
    <3>2. /\ c \in Net /\ c.fd = k.fd /\ c.up = k.up /\ c.hung = k.hung /\ c.eof = k.eof
          /\ c.rst = k.rst /\ c.down = k.down \o s
      BY <3>1 DEF Net
    <3>3. k2 = IF k.fd \in F THEN c ELSE Closed(c)
      BY <1>3, <2>3
    <3> HIDE DEF c
    <3>4. CASE k.fd \in F
      BY <2>3, <3>2, <3>3, <3>4 DEF Handed
    <3>5. CASE k.fd \notin F
      <4>1. k2 = [c EXCEPT !.fd = NONE, !.eof = TRUE, !.rst = c.up # <<>>, !.up = <<>>]
        BY <2>3, <3>2, <3>3, <3>5 DEF Closed
      <4>2. /\ k2 \in Net /\ k2.fd = NONE /\ k2.up = <<>> /\ k2.down = c.down /\ k2.hung = c.hung
            /\ k2.eof /\ (k2.rst <=> c.up # <<>>)
        BY <4>1, <3>2, <1>1 DEF Net
      <4> QED BY <4>2, <2>3, <3>2, <3>5 DEF Handed
    <3> QED BY <3>4, <3>5
  <2> QED BY <2>1, <2>2, <2>3
<1>4. ASSUME NEW q \in Peers
      PROVE  net'[q] \in Net /\ Handed(n[q], net'[q], sent'[n[q].fd], open')
  <2>1. net'[q] = IF n[q].fd = NONE THEN n[q]
                  ELSE LET c == IF n[q].hung THEN n[q] ELSE [n[q] EXCEPT !.down = @ \o sent'[n[q].fd]]
                       IN  IF n[q].fd \in open' THEN c ELSE Closed(c)
    BY DEF Deliver
  <2>2. n[q] \in Net
    OBVIOUS
  <2>3. n[q].fd # NONE => sent'[n[q].fd] \in Seq(Frame)
    BY <2>2 DEF Net
  <2> QED BY <2>1, <2>2, <2>3, <1>3
<1>5. net' = [q \in Peers |-> net'[q]]
  BY DEF Deliver
<1> QED BY <1>4, <1>5
-----------------------------------------------------------------------------
(* What one client makes of what the server does: its match goes on.       *)

(* The frames that may be under way to a client.                           *)
LEMMA FramesAre ==
  /\ \A t \in {"JOIN_OK", "JOIN_FAIL", "READY", "ERROR", "GAME_OVER"} : <<t>> \in Frame
  /\ \A n \in Players : <<"SHIPS_ACK", n>> \in Frame
  /\ \A op \in {"move", "move_ext"}, r \in {"Miss", "Win", "Invalid"} : <<Answer[op], r>> \in Frame
  /\ \A r \in {"Miss", "Win"} : <<"OPP_MOVE", r>> \in Frame
<1>1. Answer["move"] = "MOVE_RESULT" /\ Answer["move_ext"] = "MOVE_EXT_RESULT"
  BY DEF Answer
<1> QED BY <1>1, FrameTypes DEF TurnResult

(* One request is in flight, and the library waits for its answer.         *)
LEMMA RequestIs ==
  ASSUME NEW l, NEW c, NEW d, NEW k, NEW v, Served(l, c, d, k, v), k.up # <<>>
  PROVE  \/ /\ k.up = <<"SHIPS">> /\ Placing(l, c, d, k, v) /\ l.call = "ships" /\ ~v.ships
         \/ /\ c.player = v.player /\ l.connected /\ v.phase = "PLAYING" /\ c.stage = "mine"
            /\ l.call \in {"move", "move_ext"} /\ k.up = <<Request[l.call]>>
            /\ k.down = <<>> /\ d = c.heard /\ v.turn = v.player
<1>1. ~Joining(l, c, d, k, v) /\ ~Acked(l, c, d, k, v) /\ ~OffMove(l, c, d, k, v)
  BY DEF Joining, Acked, OffMove
<1>2. CASE Placing(l, c, d, k, v)
  BY <1>2 DEF Placing
<1>3. CASE OnMove(l, c, d, k, v)
  BY <1>3 DEF OnMove
<1> QED BY <1>1, <1>2, <1>3 DEF Served

(* SHIPS is not a move.                                                    *)
LEMMA NoMove == \A op \in {"move", "move_ext"} : <<Request[op]>> # <<"SHIPS">> /\ <<"SHIPS">> # <<>>
<1>1. Request["move"] # "SHIPS" /\ Request["move_ext"] # "SHIPS"
  BY DEF Request
<1>2. \A x, y : <<x>> = <<y>> => x = y
  OBVIOUS
<1> QED BY <1>1, <1>2

(* It is answered Invalid.                                                 *)
LEMMA InvalidFits ==
  ASSUME NEW l, NEW c, NEW d, NEW k, NEW k2, NEW v, Served(l, c, d, k, v),
         k.up # <<>>, l.call \in {"move", "move_ext"},
         k2.up = <<>>, k2.down = k.down \o << <<Answer[l.call], "Invalid">> >>
  PROVE  Served(l, c, d, k2, v)
<1>1. /\ c.player = v.player /\ l.connected /\ v.phase = "PLAYING" /\ c.stage = "mine"
      /\ k.down = <<>> /\ d = c.heard /\ v.turn = v.player
  BY RequestIs
<1>2. k2.down = << <<Answer[l.call], "Invalid">> >>
  BY <1>1, FramesAre, Joined
<1> QED BY <1>1, <1>2 DEF Served, OnMove

(* The player on turn is answered Miss.                                    *)
LEMMA OwnMissFits ==
  ASSUME NEW l, NEW c, NEW d \in Seq(Outcome), NEW k, NEW k2, NEW v, NEW v2, Served(l, c, d, k, v),
         k.up # <<>>, l.call \in {"move", "move_ext"}, v.player \in Players,
         k2.up = <<>>, k2.down = k.down \o << <<Answer[l.call], "Miss">> >>,
         v2.player = v.player, v2.phase = v.phase, v2.turn = Opponent(v.player)
  PROVE  Served(l, c, d \o << <<v.player, "Miss">> >>, k2, v2)
<1>1. /\ c.player = v.player /\ l.connected /\ v.phase = "PLAYING" /\ c.stage = "mine"
      /\ k.down = <<>> /\ d = c.heard /\ v.turn = v.player
  BY RequestIs
<1>2. k2.down = << <<Answer[l.call], "Miss">> >>
  BY <1>1, FramesAre, Joined
<1>3. d \o << <<v.player, "Miss">> >> = Append(c.heard, <<v.player, "Miss">>)
  BY <1>1, Beginnings DEF Outcome
<1> QED BY <1>1, <1>2, <1>3 DEF Served, OnMove

(* The other player of the match: what it may wait for.                    *)
LEMMA AwaitingIs ==
  ASSUME NEW l, NEW c, NEW d, NEW k, NEW v \in ViewType, Served(l, c, d, k, v),
         v.phase = "PLAYING", v.turn = Opponent(v.player)
  PROVE  /\ k.up = <<>>
         /\ \/ /\ c.player = 0 /\ c.heard = <<>> /\ c.stage = "ready" /\ l.connected
               /\ l.call = "ships" /\ d = <<>> /\ v.player = 2 /\ k.down = << <<"SHIPS_ACK", 2>> >>
            \/ /\ c.player = v.player /\ l.connected /\ c.stage = "mine"
               /\ l.call \in {"move", "move_ext"}
               /\ d = Append(c.heard, <<v.player, "Miss">>)
               /\ k.down = << <<Answer[l.call], "Miss">> >>
            \/ /\ c.player = v.player /\ l.connected /\ c.stage = "theirs"
               /\ l.call \in {"none", "receive"} /\ d = c.heard /\ k.down = <<>>
<1>1. v.player \in Players /\ v.turn # v.player /\ (v.turn = 1 => v.player = 2)
      /\ (v.turn = 2 => v.player = 1)
  BY DEF ViewType, Players, Opponent
<1>2. ~Joining(l, c, d, k, v) /\ ~Placing(l, c, d, k, v)
  BY DEF Joining, Placing
<1>3. CASE Acked(l, c, d, k, v)
  BY <1>1, <1>3 DEF Acked
<1>4. CASE OnMove(l, c, d, k, v)
  BY <1>1, <1>4 DEF OnMove
<1>5. CASE OffMove(l, c, d, k, v)
  BY <1>1, <1>5 DEF OffMove
<1> QED BY <1>2, <1>3, <1>4, <1>5 DEF Served

(* It is told of the move.                                                 *)
LEMMA RivalMissFits ==
  ASSUME NEW l, NEW c, NEW d \in Seq(Outcome), NEW k, NEW k2, NEW v \in ViewType, NEW v2,
         Served(l, c, d, k, v), v.phase = "PLAYING", v.turn = Opponent(v.player),
         k2.up = k.up, k2.down = k.down \o << <<"OPP_MOVE", "Miss">> >>,
         v2.player = v.player, v2.phase = v.phase, v2.turn = v.player, c \in Caller
  PROVE  Served(l, c, d \o << <<v.turn, "Miss">> >>, k2, v2)
<1>1. v.player \in Players /\ v.turn \in Players /\ (v.player = 2 => v.turn = 1) /\ c.heard \in Seq(Outcome)
  BY DEF ViewType, Players, Opponent, Caller
<1>2. CASE /\ c.player = 0 /\ c.heard = <<>> /\ c.stage = "ready" /\ l.connected
           /\ l.call = "ships" /\ d = <<>> /\ v.player = 2 /\ k.down = << <<"SHIPS_ACK", 2>> >>
           /\ k.up = <<>>
  <2>1. k2.down = << <<"SHIPS_ACK", 2>>, <<"OPP_MOVE", "Miss">> >>
    <3>1. 2 \in Players
      BY DEF Players
    <3>2. <<"SHIPS_ACK", 2>> \in Frame /\ <<"OPP_MOVE", "Miss">> \in Frame
      BY <3>1, FramesAre
    <3>3. << <<"SHIPS_ACK", 2>> >> \o << <<"OPP_MOVE", "Miss">> >>
             = << <<"SHIPS_ACK", 2>>, <<"OPP_MOVE", "Miss">> >>
      BY <3>2, Joined
    <3>4. k.down = << <<"SHIPS_ACK", 2>> >>
      BY <1>2
    <3> QED BY <3>3, <3>4
  <2>2. d \o << <<v.turn, "Miss">> >> = << <<1, "Miss">> >>
    <3>1. <<v.turn, "Miss">> \in Outcome
      BY <1>1 DEF Outcome
    <3> QED BY <1>1, <1>2, <3>1, Joined
  <2> QED BY <1>2, <2>1, <2>2 DEF Served, Acked
<1>3. CASE /\ c.player = v.player /\ l.connected /\ c.stage = "mine"
           /\ l.call \in {"move", "move_ext"} /\ d = Append(c.heard, <<v.player, "Miss">>)
           /\ k.down = << <<Answer[l.call], "Miss">> >> /\ k.up = <<>>
  <2>1. k2.down = << <<Answer[l.call], "Miss">>, <<"OPP_MOVE", "Miss">> >>
    BY <1>3, FramesAre, Joined
  <2>2. d \o << <<v.turn, "Miss">> >>
          = Append(Append(c.heard, <<v.player, "Miss">>), <<Opponent(v.player), "Miss">>)
    <3>1. <<v.turn, "Miss">> \in Outcome
      BY <1>1 DEF Outcome
    <3> QED BY <1>3, <3>1, Beginnings
  <2> QED BY <1>3, <2>1, <2>2 DEF Served, OnMove
<1>4. CASE /\ c.player = v.player /\ l.connected /\ c.stage = "theirs"
           /\ l.call \in {"none", "receive"} /\ d = c.heard /\ k.down = <<>> /\ k.up = <<>>
  <2>1. k2.down = << <<"OPP_MOVE", "Miss">> >>
    BY <1>4, FramesAre, Joined
  <2>2. d \o << <<v.turn, "Miss">> >> = Append(c.heard, <<Opponent(v.player), "Miss">>)
    <3>1. <<v.turn, "Miss">> \in Outcome
      BY <1>1 DEF Outcome
    <3> QED BY <1>4, <3>1, Beginnings
  <2> QED BY <1>4, <2>1, <2>2 DEF Served, OffMove
<1> QED BY <1>2, <1>3, <1>4, AwaitingIs

(* Its ships are in, and the other player's are not, or they are too.      *)
LEMMA ShipsPlacedFits ==
  ASSUME NEW l, NEW c, NEW d, NEW k, NEW k2, NEW v, NEW v2,
         Served(l, c, d, k, v), k.up = <<"SHIPS">>, k2.up = <<>>, k2.down = k.down \o <<>>,
         v2.phase = "PLACEMENT", v2.ships
  PROVE  Served(l, c, d, k2, v2)
<1>1. Placing(l, c, d, k, v) /\ l.call = "ships"
  <2>1. k.up # <<>>
    BY NoMove
  <2>2. \/ Placing(l, c, d, k, v) /\ l.call = "ships"
        \/ l.call \in {"move", "move_ext"} /\ k.up = <<Request[l.call]>>
    BY <2>1, RequestIs
  <2>3. ASSUME l.call \in {"move", "move_ext"} PROVE k.up # <<Request[l.call]>>
    BY <2>3, NoMove
  <2> QED BY <2>2, <2>3
<1>2. k2.down = <<>>
  BY <1>1, FramesAre, Joined DEF Placing
<1> QED BY <1>1, <1>2 DEF Served, Placing

(* Both players' ships are in, those of this player now or before.         *)
LEMMA BothPlacedFits ==
  ASSUME NEW l, NEW c, NEW d, NEW k, NEW k2, NEW v \in ViewType, NEW v2,
         Served(l, c, d, k, v), k.up = <<"SHIPS">> \/ v.ships, v.phase = "PLACEMENT",
         k2.up = <<>>, k2.down = k.down \o << <<"SHIPS_ACK", v.player>> >>,
         v2.player = v.player, v2.phase = "PLAYING", v2.turn = 1
  PROVE  Served(l, c, d, k2, v2)
<1>1. v.player \in Players
  BY DEF ViewType
<1>2. Placing(l, c, d, k, v) /\ l.call = "ships"
  <2>1. CASE k.up = <<"SHIPS">>
    BY ZenonT(40), <2>1, RequestIs, NoMove
  <2>2. CASE v.ships
    <3>1. ~Joining(l, c, d, k, v) /\ ~Acked(l, c, d, k, v) /\ ~OnMove(l, c, d, k, v)
          /\ ~OffMove(l, c, d, k, v)
      BY <2>2 DEF Joining, Acked, OnMove, OffMove
    <3> QED BY <3>1, <2>2 DEF Served, Placing
  <2> QED BY <2>1, <2>2
<1>3. k2.down = << <<"SHIPS_ACK", v.player>> >>
  BY <1>1, <1>2, FramesAre, Joined DEF Placing
<1> QED BY <1>2, <1>3 DEF Served, Placing, Acked, New

(* The second player sits down.                                            *)
LEMMA ReadyFits ==
  ASSUME NEW l, NEW c, NEW d, NEW k, NEW k2, NEW v, NEW v2,
         Served(l, c, d, k, v), v.phase = "WAITING", v2.phase = "PLACEMENT", v2.ships = v.ships,
         k2.up = k.up, k2.down = k.down \o << <<"READY">> >>
  PROVE  Served(l, c, d, k2, v2)
<1>1. Joining(l, c, d, k, v)
  BY DEF Served, Placing, Acked, OnMove, OffMove
<1>2. CASE c.stage = "start" /\ l = Calling("connect") /\ k.down = << <<"JOIN_OK">> >>
  <2>1. k2.down = << <<"JOIN_OK">>, <<"READY">> >>
    BY <1>2, FramesAre, Joined
  <2> QED BY <1>1, <1>2, <2>1 DEF Served, Joining
<1>3. CASE c.stage = "joined" /\ l.connected /\ l.call \in {"none", "wait"} /\ k.down = <<>>
  <2>1. k2.down = << <<"READY">> >>
    BY <1>3, FramesAre, Joined
  <2> QED BY <1>1, <1>3, <2>1 DEF Served, Joining
<1> QED BY <1>1, <1>2, <1>3 DEF Joining
-----------------------------------------------------------------------------
(* What one client makes of what the server does: its match ends.          *)

(* Frames behind frames.                                                   *)
LEMMA FramesJoin ==
  /\ \A a \in Frame : <<>> \o <<a>> = <<a>>
  /\ \A a, b \in Frame : <<a>> \o <<b>> = <<a, b>> /\ <<>> \o <<a, b>> = <<a, b>>
  /\ \A a, b, c \in Frame : <<a, b>> \o <<c>> = <<a, b, c>> /\ <<a>> \o <<b, c>> = <<a, b, c>>
<1>1. \A a, b, c \in Frame : /\ <<>> \o <<a>> = <<a>>
                            /\ <<a>> \o <<b>> = <<a, b>> /\ <<>> \o <<a, b>> = <<a, b>>
                            /\ <<a, b>> \o <<c>> = <<a, b, c>> /\ <<a>> \o <<b, c>> = <<a, b, c>>
  BY Joined
<1> QED BY <1>1

(* The match ends with ERROR, whatever was under way.                      *)
LEMMA ErrorFits ==
  ASSUME NEW l, NEW c \in Caller, NEW d \in Seq(Outcome), NEW k, NEW k2, NEW v \in ViewType,
         Served(l, c, d, k, v), k2.down = k.down \o << <<"ERROR">> >>, k2.rst => k.up # <<>>
  PROVE  Lost(l, c, d, k2)
<1>1. v.player \in Players /\ c.heard \in Seq(Outcome) /\ LastFrame("Miss") = <<"ERROR">>
  BY DEF ViewType, Caller, LastFrame
<1> DEFINE E == <<"ERROR">>
<1>2. /\ E \in Frame /\ <<"JOIN_OK">> \in Frame /\ <<"READY">> \in Frame
      /\ <<"OPP_MOVE", "Miss">> \in Frame /\ <<"SHIPS_ACK", v.player>> \in Frame
      /\ v.player = 2 => <<"SHIPS_ACK", 2>> \in Frame
  BY <1>1, FramesAre
<1>3. /\ k.down = <<>> => k2.down = <<E>>
      /\ \A a \in Frame : k.down = <<a>> => k2.down = <<a, E>>
      /\ \A a, b \in Frame : k.down = <<a, b>> => k2.down = <<a, b, E>>
  <2>1. E \in Frame /\ k2.down = k.down \o <<E>>
    BY <1>2
  <2> HIDE DEF E
  <2>2. k.down = <<>> => k2.down = <<E>>
    BY <2>1, Joined
  <2>3. ASSUME NEW a \in Frame, k.down = <<a>> PROVE k2.down = <<a, E>>
    BY <2>1, <2>3, Joined
  <2>4. ASSUME NEW a \in Frame, NEW b \in Frame, k.down = <<a, b>> PROVE k2.down = <<a, b, E>>
    BY <2>1, <2>4, Joined
  <2> QED BY <2>2, <2>3, <2>4
<1> HIDE DEF E
<1>4. CASE Joining(l, c, d, k, v)
  <2>1. New(c, d) /\ ~k2.rst
    BY <1>4 DEF Joining
  <2>2. CASE c.stage = "start" /\ l = Calling("connect")
    <3>1. k.down = << <<"JOIN_OK">> >> \/ k.down = << <<"JOIN_OK">>, <<"READY">> >>
      <4>1. l.call \notin {"none", "wait"}
        BY <2>2 DEF Calling
      <4> QED BY <4>1, <1>4 DEF Joining
    <3>2. k2.down = << <<"JOIN_OK">>, <<"ERROR">> >>
             \/ k2.down = << <<"JOIN_OK">>, <<"READY">>, <<"ERROR">> >>
      BY <3>1, <1>2, <1>3 DEF E
    <3> QED BY <2>1, <2>2, <3>2 DEF Lost, LostJoining
  <2>3. CASE c.stage = "joined" /\ l.connected /\ l.call \in {"none", "wait"}
    <3>1. k.down = <<>> \/ k.down = << <<"READY">> >>
      BY <2>3, <1>4 DEF Joining, Calling
    <3>2. k2.down = << <<"ERROR">> >> \/ k2.down = << <<"READY">>, <<"ERROR">> >>
      BY <3>1, <1>2, <1>3 DEF E
    <3> QED BY <2>1, <2>3, <3>2 DEF Lost, LostJoining
  <2> QED BY <1>4, <2>2, <2>3 DEF Joining
<1>5. CASE Placing(l, c, d, k, v)
  <2>1. k2.down = << <<"ERROR">> >>
    BY <1>3, <1>5 DEF Placing, E
  <2> QED BY <1>5, <2>1 DEF Placing, New, Lost, LostPlacing
<1>6. CASE Acked(l, c, d, k, v)
  <2>1. /\ c.player = 0 /\ c.heard = <<>> /\ c.stage = "ready" /\ l.connected /\ l.call = "ships"
        /\ ~k2.rst
    BY <1>6 DEF Acked
  <2>2. CASE k.down = << <<"SHIPS_ACK", v.player>> >> /\ d = <<>>
    <3>1. k2.down = << <<"SHIPS_ACK", v.player>>, <<"ERROR">> >>
      BY <2>2, <1>2, <1>3 DEF E
    <3> QED BY <2>1, <2>2, <3>1, <1>1 DEF Lost, LostPlacing
  <2>3. CASE /\ k.down = << <<"SHIPS_ACK", 2>>, <<"OPP_MOVE", "Miss">> >>
             /\ d = << <<1, "Miss">> >> /\ v.player = 2
    <3>1. k2.down = << <<"SHIPS_ACK", 2>>, <<"OPP_MOVE", "Miss">>, LastFrame("Miss") >>
      BY <2>3, <1>1, <1>2, <1>3 DEF E
    <3> QED BY <2>1, <2>3, <3>1 DEF Lost, LostPlacing
  <2> QED BY <1>6, <2>2, <2>3 DEF Acked
<1>7. CASE OnMove(l, c, d, k, v)
  <2>1. c.player \in Players /\ l.connected
    BY <1>1, <1>7 DEF OnMove
  <2>2. CASE c.stage \in {"mine", "over"} /\ l.call = "none" /\ k.up = <<>> /\ k.down = <<>> /\ d = c.heard
    <3>1. k2.down = << <<"ERROR">> >>
      BY <2>2, <1>3 DEF E
    <3>2. IsPrefix(c.heard, d)
      BY <2>2, <1>1 DEF IsPrefix
    <3> QED BY <2>1, <2>2, <3>1, <3>2 DEF Lost, LostOnMove, LostOver
  <2>3. CASE c.stage = "mine" /\ l.call \in {"move", "move_ext"} /\ k.down = <<>> /\ d = c.heard
    <3>1. k2.down = << <<"ERROR">> >>
      BY <2>3, <1>3 DEF E
    <3> QED BY <2>1, <2>3, <3>1 DEF Lost, LostOnMove
  <2>4. CASE /\ c.stage = "mine" /\ l.call \in {"move", "move_ext"} /\ k.up = <<>> /\ d = c.heard
             /\ k.down = << <<Answer[l.call], "Invalid">> >>
    <3>1. <<Answer[l.call], "Invalid">> \in Frame
      BY <2>4, FramesAre
    <3>2. k2.down = << <<Answer[l.call], "Invalid">>, <<"ERROR">> >>
      BY <2>4, <3>1, <1>3 DEF E
    <3> QED BY <2>1, <2>4, <3>2 DEF Lost, LostOnMove
  <2>5. CASE /\ c.stage = "mine" /\ l.call \in {"move", "move_ext"} /\ k.up = <<>>
             /\ d = Append(c.heard, <<c.player, "Miss">>)
             /\ k.down = << <<Answer[l.call], "Miss">> >>
    <3>1. <<Answer[l.call], "Miss">> \in Frame
      BY <2>5, FramesAre
    <3>2. k2.down = << <<Answer[l.call], "Miss">>, LastFrame("Miss") >>
      BY <2>5, <3>1, <1>1, <1>3 DEF E
    <3> QED BY <2>1, <2>5, <3>2 DEF Lost, LostOnMove
  <2>6. CASE /\ c.stage = "mine" /\ l.call \in {"move", "move_ext"} /\ k.up = <<>>
             /\ d = Append(Append(c.heard, <<c.player, "Miss">>), <<Opponent(c.player), "Miss">>)
             /\ k.down = << <<Answer[l.call], "Miss">>, <<"OPP_MOVE", "Miss">> >>
    <3>1. <<Answer[l.call], "Miss">> \in Frame
      BY <2>6, FramesAre
    <3>2. k2.down = << <<Answer[l.call], "Miss">>, <<"OPP_MOVE", "Miss">>, E >>
      <4> DEFINE a == <<Answer[l.call], "Miss">>
                 b == <<"OPP_MOVE", "Miss">>
      <4>1. a \in Frame /\ b \in Frame /\ k.down = <<a, b>>
        BY <2>6, <3>1, <1>2
      <4> HIDE DEF a, b
      <4>2. k2.down = <<a, b, E>>
        BY <4>1, <1>3
      <4> QED BY <4>2 DEF a, b
    <3>3. E = LastFrame("Miss")
      BY <1>1 DEF E
    <3> QED BY <2>1, <2>6, <3>2, <3>3 DEF Lost, LostOnMove
  <2> QED BY <1>7, <2>2, <2>3, <2>4, <2>5, <2>6 DEF OnMove
<1>8. CASE OffMove(l, c, d, k, v)
  <2>1. /\ c.player \in Players /\ l.connected /\ c.stage = "theirs"
        /\ l.call \in {"none", "receive"} /\ ~k2.rst
    BY <1>1, <1>8 DEF OffMove
  <2>2. CASE k.down = <<>> /\ d = c.heard
    <3>1. k2.down = << <<"ERROR">> >>
      BY <2>2, <1>3 DEF E
    <3> QED BY <2>1, <2>2, <3>1 DEF Lost, LostOffMove
  <2>3. CASE /\ k.down = << <<"OPP_MOVE", "Miss">> >>
             /\ d = Append(c.heard, <<Opponent(c.player), "Miss">>)
    <3>1. k2.down = << <<"OPP_MOVE", "Miss">>, LastFrame("Miss") >>
      BY <2>3, <1>1, <1>2, <1>3 DEF E
    <3> QED BY <2>1, <2>3, <3>1 DEF Lost, LostOffMove
  <2> QED BY <1>8, <2>2, <2>3 DEF OffMove
<1> QED BY <1>4, <1>5, <1>6, <1>7, <1>8 DEF Served

(* The player on turn has won.                                             *)
LEMMA OwnWinFits ==
  ASSUME NEW l, NEW c, NEW d \in Seq(Outcome), NEW k, NEW k2, NEW v, Served(l, c, d, k, v),
         k.up # <<>>, l.call \in {"move", "move_ext"}, v.player \in Players, ~k2.rst,
         k2.down = k.down \o << <<Answer[l.call], "Win">>, <<"GAME_OVER">> >>
  PROVE  Lost(l, c, d \o << <<v.player, "Win">> >>, k2)
<1>1. /\ c.player = v.player /\ l.connected /\ v.phase = "PLAYING" /\ c.stage = "mine"
      /\ k.down = <<>> /\ d = c.heard /\ v.turn = v.player
  BY RequestIs
<1>2. k2.down = << <<Answer[l.call], "Win">>, LastFrame("Win") >>
  <2>1. <<Answer[l.call], "Win">> \in Frame /\ <<"GAME_OVER">> \in Frame
    BY FramesAre
  <2> QED BY <1>1, <2>1, Joined DEF LastFrame
<1>3. d \o << <<v.player, "Win">> >> = Append(c.heard, <<v.player, "Win">>)
  BY <1>1, Beginnings DEF Outcome
<1> QED BY <1>1, <1>2, <1>3 DEF Lost, LostOnMove

(* The opponent of the player on turn has lost.                            *)
LEMMA RivalWinFits ==
  ASSUME NEW l, NEW c \in Caller, NEW d \in Seq(Outcome), NEW k, NEW k2, NEW v \in ViewType,
         Served(l, c, d, k, v), v.phase = "PLAYING", v.turn = Opponent(v.player), ~k2.rst,
         k2.down = k.down \o << <<"OPP_MOVE", "Win">>, <<"GAME_OVER">> >>
  PROVE  Lost(l, c, d \o << <<v.turn, "Win">> >>, k2)
<1>1. v.player \in Players /\ v.turn \in Players /\ (v.player = 2 => v.turn = 1) /\ c.heard \in Seq(Outcome)
  BY DEF ViewType, Players, Opponent, Caller
<1> DEFINE o == <<"OPP_MOVE", "Win">>
           g == LastFrame("Win")
<1>2. o \in Frame /\ g \in Frame /\ g = <<"GAME_OVER">> /\ <<v.turn, "Win">> \in Outcome
  BY <1>1, FramesAre DEF LastFrame, Outcome
<1> HIDE DEF g
<1>3. CASE /\ c.player = 0 /\ c.heard = <<>> /\ c.stage = "ready" /\ l.connected
           /\ l.call = "ships" /\ d = <<>> /\ v.player = 2 /\ k.down = << <<"SHIPS_ACK", 2>> >>
  <2>1. k2.down = << <<"SHIPS_ACK", 2>>, o, g >>
    <3>1. <<"SHIPS_ACK", 2>> \in Frame
      BY FramesAre DEF Players
    <3>2. << <<"SHIPS_ACK", 2>> >> \o <<o, g>> = << <<"SHIPS_ACK", 2>>, o, g >>
      BY <3>1, <1>2, FramesJoin
    <3> QED BY <3>2, <1>2, <1>3
  <2>2. d \o << <<v.turn, "Win">> >> = << <<1, "Win">> >>
    BY <1>1, <1>2, <1>3, Joined
  <2> QED BY <1>3, <2>1, <2>2 DEF Lost, LostPlacing, g
<1>4. CASE /\ c.player = v.player /\ l.connected /\ c.stage = "mine"
           /\ l.call \in {"move", "move_ext"} /\ d = Append(c.heard, <<v.player, "Miss">>)
           /\ k.down = << <<Answer[l.call], "Miss">> >>
  <2>1. k2.down = << <<Answer[l.call], "Miss">>, o, g >>
    <3>1. <<Answer[l.call], "Miss">> \in Frame
      BY <1>4, FramesAre
    <3>2. << <<Answer[l.call], "Miss">> >> \o <<o, g>> = << <<Answer[l.call], "Miss">>, o, g >>
      BY <3>1, <1>2, FramesJoin
    <3> QED BY <3>2, <1>2, <1>4
  <2>2. d \o << <<v.turn, "Win">> >>
          = Append(Append(c.heard, <<v.player, "Miss">>), <<Opponent(v.player), "Win">>)
    BY <1>2, <1>4, Beginnings
  <2> QED BY <1>1, <1>4, <2>1, <2>2 DEF Lost, LostOnMove, g
<1>5. CASE /\ c.player = v.player /\ l.connected /\ c.stage = "theirs"
           /\ l.call \in {"none", "receive"} /\ d = c.heard /\ k.down = <<>>
  <2>1. k2.down = << o, g >>
    BY <1>2, <1>5, Joined
  <2>2. d \o << <<v.turn, "Win">> >> = Append(c.heard, <<Opponent(v.player), "Win">>)
    BY <1>2, <1>5, Beginnings
  <2> QED BY <1>1, <1>5, <2>1, <2>2 DEF Lost, LostOffMove, g
<1> QED BY <1>3, <1>4, <1>5, AwaitingIs
-----------------------------------------------------------------------------
(* A step of the server in one match.                                      *)

(* Who is told what: the client itself, the other one of its game, others. *)
LEMMA Companions ==
  ASSUME IInv, NEW ci \in Clients, clients[ci].active, NEW cj \in Clients, clients[cj].active,
         NEW gi, gi = clients[ci].game_index
  PROVE  /\ gi \in Games /\ games[gi].active /\ clients[ci].fd \in open /\ clients[ci].fd \in Fds
         /\ clients[ci].fd # NONE
         /\ clients[cj].fd = clients[ci].fd => cj = ci
         /\ clients[ci].fd \notin RivalFd(ci)
         /\ clients[cj].game_index # gi =>
               clients[cj].fd \notin RivalFd(ci) /\ clients[cj].fd \notin FdsOf(Seated(gi))
         /\ clients[cj].game_index = gi =>
               /\ clients[cj].fd \in FdsOf(Seated(gi)) /\ cj \in Seated(gi)
               /\ cj # ci => /\ clients[cj].fd \in RivalFd(ci)
                             /\ clients[cj].player_num = Opponent(clients[ci].player_num)
                             /\ clients[ci].player_num = Opponent(clients[cj].player_num)
<1> DEFINE p == clients[ci].player_num
           q == Opponent(p)
           r == games[gi].client_slots[q]
<1>1. /\ ClientOK(clients, games, open, ci) /\ ClientOK(clients, games, open, cj) /\ open \subseteq Fds
      /\ \A a, b \in Clients : clients[a].active /\ clients[b].active
                               /\ clients[a].fd = clients[b].fd => a = b
  BY DEF IInv, TablesOK
<1>2. /\ gi \in Games /\ games[gi].active /\ clients[ci].fd \in open /\ p \in Players
      /\ games[gi].client_slots[p] = ci
  BY <1>1 DEF ClientOK
<1>3. q \in Players /\ q # p /\ Players = {p, q}
  BY <1>2, Opponents
<1>4. RivalFd(ci) = FdsOf({r} \cap ActiveClients)
  BY DEF RivalFd, GameOf
<1>5. \A a \in Clients : clients[a].active => (clients[a].fd \in RivalFd(ci) <=> a = r)
  BY <1>1, <1>4 DEF FdsOf, ActiveClients
<1>6. SeatOK(clients, games, gi, q)
  BY <1>2, <1>3 DEF IInv, TablesOK, GameOK
<1>7. \A a \in Clients : clients[a].active =>
         (clients[a].fd \in FdsOf(Seated(gi)) <=> a \in Seated(gi))
  BY <1>1 DEF FdsOf, Seated, ActiveClients
<1>8. cj \in Seated(gi) <=> clients[cj].game_index = gi
  BY <1>2, SeatedExactly
<1>9. clients[ci].fd \notin RivalFd(ci)
  BY <1>3, <1>5, <1>6, Nones DEF SeatOK
<1>10. ASSUME clients[cj].game_index # gi PROVE clients[cj].fd \notin RivalFd(ci)
  BY <1>5, <1>6, <1>10, Nones DEF SeatOK
<1>11. ASSUME clients[cj].game_index = gi, cj # ci
       PROVE  clients[cj].fd \in RivalFd(ci) /\ clients[cj].player_num = q
  <2>1. clients[cj].player_num \in Players /\ games[gi].client_slots[clients[cj].player_num] = cj
    BY <1>1, <1>11 DEF ClientOK
  <2>2. clients[cj].player_num = q
    BY <2>1, <1>2, <1>3, <1>11
  <2> QED BY <2>1, <2>2, <1>5
<1>12. p = Opponent(q)
  BY <1>2 DEF Players, Opponent
<1>13. clients[ci].fd \in Fds /\ clients[ci].fd # NONE
  BY <1>1, <1>2, Nones
<1> QED BY <1>1, <1>2, <1>7, <1>8, <1>9, <1>10, <1>11, <1>12, <1>13

(* A message leaves the clients of other games, and what it leaves of its  *)
(* own, in their seats.                                                    *)
LEMMA ClientAfter ==
  ASSUME IInv, NEW gi \in Games, games[gi].active, Ending(gi) \/ Round(gi, games[gi].game_id),
         NEW ci \in Clients
  PROVE  /\ clients'[ci].active => /\ clients[ci].active
                                   /\ clients'[ci].fd = clients[ci].fd
                                   /\ clients'[ci].game_index = clients[ci].game_index
                                   /\ clients'[ci].player_num = clients[ci].player_num
         /\ clients[ci].active /\ clients[ci].game_index # gi =>
               /\ clients'[ci].active
               /\ View(clients', games', engine', ci) = View(clients, games, engine, ci)
               /\ engine'[clients[ci].game_id].turn = engine[clients[ci].game_id].turn
<1> DEFINE id == games[gi].game_id
           gj == clients[ci].game_index
<1>1. /\ \A k \in Games : k # gi /\ games[k].active => games[k].game_id # id
      /\ games \in [Games -> Game] /\ engine \in [GameIds -> EngineGame]
      /\ clients \in [Clients -> Client] /\ id \in GameIds
  BY DEF IInv, TablesOK, GameOK
<1>2. clients[ci].active => /\ gj \in Games /\ games[gj].active /\ games[gj].game_id \in GameIds
                            /\ clients[ci].game_id = games[gj].game_id
  BY DEF IInv, TablesOK, ClientOK, GameOK
<1> HIDE DEF id
<1>3. CASE Ending(gi)
  <2>1. /\ clients' = [k \in Clients |-> IF k \in Seated(gi) THEN FreeClient ELSE clients[k]]
        /\ engine' = engine_end_game(engine, id)
        /\ games' = [games EXCEPT ![gi] = FreeGame]
    BY <1>3 DEF Ending, CloseGame, id
  <2>2. clients'[ci] = IF ci \in Seated(gi) THEN FreeClient ELSE clients[ci]
    BY <2>1
  <2>3. \A j \in GameIds : j # id => engine'[j] = engine[j]
    BY <2>1, <1>1 DEF engine_end_game
  <2>4. clients[ci].active /\ gj # gi => ci \notin Seated(gi)
    BY SeatedExactly
  <2>5. clients'[ci].active => clients'[ci] = clients[ci]
    BY <2>2 DEF FreeClient
  <2>6. ASSUME clients[ci].active, gj # gi
        PROVE  /\ clients'[ci] = clients[ci] /\ games'[gj] = games[gj]
               /\ engine'[games[gj].game_id] = engine[games[gj].game_id]
    BY <2>1, <2>2, <2>3, <2>4, <2>6, <1>1, <1>2
  <2> QED BY <1>2, <2>5, <2>6 DEF View
<1>4. CASE Round(gi, games[gi].game_id)
  <2>1. OnlyGame(gi, id) /\ OnlyClients(gi, {})
    BY <1>4 DEF Round, id
  <2>2. /\ Promoted(clients[ci], clients'[ci])
        /\ clients'[ci] # clients[ci] => clients[ci].active /\ gj = gi
    BY <2>1 DEF OnlyClients
  <2>3. \A f \in {"fd", "active", "game_id", "player_num", "game_index"} :
           clients'[ci][f] = clients[ci][f]
    BY <2>2 DEF Promoted
  <2>4. /\ clients'[ci].fd = clients[ci].fd /\ clients'[ci].active = clients[ci].active
        /\ clients'[ci].player_num = clients[ci].player_num
        /\ clients'[ci].game_index = clients[ci].game_index
    BY <2>3
  <2>5. ASSUME clients[ci].active, gj # gi
        PROVE  /\ games'[gj] = games[gj] /\ engine'[games[gj].game_id] = engine[games[gj].game_id]
               /\ clients'[ci] = clients[ci]
    BY <2>1, <2>2, <2>5, <1>1, <1>2 DEF OnlyGame, id
  <2> QED BY <1>2, <2>4, <2>5 DEF View
<1> QED BY <1>3, <1>4

(* What becomes of the descriptor, and of a connection left alone.         *)
LEMMA HandedFd ==
  ASSUME NEW k, NEW k2, NEW s, NEW F, Handed(k, k2, s, F)
  PROVE  /\ k2.fd # NONE => k2.fd = k.fd /\ k.fd \in F
         /\ k.fd # NONE /\ k.fd \in F => k2.fd = k.fd
<1>1. CASE k.fd = NONE
  BY <1>1 DEF Handed
<1>2. CASE k.fd # NONE /\ k.hung
  BY <1>2 DEF Handed, NoConnection
<1>3. CASE k.fd # NONE /\ ~k.hung
  BY <1>3 DEF Handed
<1> QED BY <1>1, <1>2, <1>3

(* A connection to which nothing is written stays as it is.                *)
LEMMA HandedNothing ==
  ASSUME NEW k \in Net, NEW k2 \in Net, NEW F, Handed(k, k2, <<>>, F), k.fd \in F,
         k.down \o <<>> = k.down
  PROVE  k2 = k
<1>1. CASE k.fd = NONE \/ k.hung
  BY <1>1 DEF Handed
<1>2. CASE k.fd # NONE /\ ~k.hung
  <2>1. /\ k2.fd = k.fd /\ k2.up = k.up /\ k2.down = k.down /\ k2.hung = k.hung /\ k2.eof = k.eof
        /\ k2.rst = k.rst
    BY <1>2 DEF Handed, Net
  <2> QED BY <2>1 DEF Net
<1> QED BY <1>1, <1>2

(* Such a step keeps the invariant when it does so for the clients of the  *)
(* match; n is net with the message taken.                                 *)
LEMMA MatchStep ==
  ASSUME SInv, IInv', NoShipsYet(games'),
         NEW gi \in Games, games[gi].active, Ending(gi) \/ Round(gi, games[gi].game_id),
         UNCHANGED callers, due' \in [Peers -> Seq(Outcome)],
         NEW n \in [Peers -> Net], Deliver(n), \A q \in Peers : n[q].fd = net[q].fd,
         \A q \in Peers : net[q].fd = NONE => n[q] = net[q] /\ due'[q] = due[q],
         \A q \in Peers, ci \in Clients :
            clients[ci].active /\ clients[ci].fd = net[q].fd =>
               IF clients[ci].game_index = gi
               THEN /\ PeerOK(lib[q], caller[q], due'[q], net'[q])
                    /\ clients'[ci].active => ClientOfPeer(lib[q], caller[q], due'[q], net'[q],
                                                           View(clients', games', engine', ci))
               ELSE n[q] = net[q] /\ due'[q] = due[q] /\ sent'[net[q].fd] = <<>>
  PROVE  SInv'
<1>1. /\ IInv /\ SystemTypeOK /\ Wired(net, open)
      /\ UNCHANGED lib /\ UNCHANGED caller
  BY DEF SInv, callers
<1>2. sent' \in [Fds -> Seq(Frame)] /\ open' \subseteq Fds
  BY DEF IInv, TablesOK
<1>3. /\ net' \in [Peers -> Net]
      /\ \A q \in Peers : Handed(n[q], net'[q], sent'[n[q].fd], open')
  BY <1>2, DeliverIs
<1>4. SystemTypeOK'
  BY <1>1, <1>3 DEF SystemTypeOK
<1>5. ASSUME NEW q \in Peers
      PROVE  /\ net'[q].fd # NONE => net'[q].fd = net[q].fd /\ net[q].fd \in open'
             /\ net[q].fd # NONE /\ net[q].fd \in open' => net'[q].fd = net[q].fd
  <2>1. n[q].fd = net[q].fd /\ Handed(n[q], net'[q], sent'[n[q].fd], open')
    BY <1>3
  <2> QED BY <2>1, HandedFd
<1>6. \A ci \in Clients : clients'[ci].active =>
         /\ clients'[ci].fd \in open' /\ clients'[ci].fd # NONE
         /\ clients[ci].active /\ clients'[ci].fd = clients[ci].fd
  BY <1>1, <1>2, ClientAfter, Nones DEF IInv, TablesOK, ClientOK
<1>7. open' \subseteq open
  <2> SUFFICES ASSUME NEW f \in open' PROVE f \in open
    OBVIOUS
  <2>1. PICK ci \in Clients : clients'[ci].active /\ clients'[ci].fd = f
    BY DEF IInv, TablesOK
  <2>2. clients[ci].active /\ clients[ci].fd = f
    BY <2>1, <1>6
  <2> QED BY <2>2, <1>1 DEF IInv, TablesOK, ClientOK
<1>8. Wired(net', open')
  <2>1. \A q \in Peers : net'[q].fd # NONE => net'[q].fd \in open'
    BY <1>5
  <2>2. \A q, r \in Peers : net'[q].fd # NONE /\ net'[q].fd = net'[r].fd => q = r
    BY <1>1, <1>5 DEF Wired
  <2>3. ASSUME NEW f \in open' PROVE \E q \in Peers : net'[q].fd = f
    <3>1. PICK q \in Peers : net[q].fd = f
      BY <1>1, <1>7 DEF Wired
    <3>2. f # NONE
      BY <1>2, Nones
    <3> QED BY <3>1, <3>2, <1>5
  <2> QED BY <2>1, <2>2, <2>3 DEF Wired
<1>9. ASSUME NEW q \in Peers
      PROVE  /\ PeerOK(lib[q], caller[q], due'[q], net'[q])
             /\ \A ci \in Clients : clients'[ci].active /\ clients'[ci].fd = net'[q].fd =>
                   ClientOfPeer(lib[q], caller[q], due'[q], net'[q], View(clients', games', engine', ci))
  <2>1. CASE net[q].fd = NONE
    <3>1. net'[q] = net[q] /\ due'[q] = due[q]
      <4>1. n[q] = net[q] /\ n[q].fd = NONE
        BY <2>1
      <4> QED BY <4>1, <2>1, <1>3 DEF Handed
    <3>2. PeerOK(lib[q], caller[q], due[q], net[q])
      BY OneClient
    <3> QED BY <3>1, <3>2, <2>1, <1>6
  <2>2. CASE net[q].fd # NONE
    <3>1. PICK ci \in Clients :
             /\ clients[ci].active /\ clients[ci].fd = net[q].fd
             /\ ClientOfPeer(lib[q], caller[q], due[q], net[q], View(clients, games, engine, ci))
      BY <2>2, AcceptedClient
    <3>2. \A cj \in Clients : clients'[cj].active /\ clients'[cj].fd = net'[q].fd => cj = ci
      <4> SUFFICES ASSUME NEW cj \in Clients, clients'[cj].active, clients'[cj].fd = net'[q].fd
                   PROVE  cj = ci
        OBVIOUS
      <4>1. clients[cj].active /\ clients[cj].fd = net[q].fd
        BY <1>5, <1>6
      <4> QED BY <4>1, <3>1, <1>1 DEF IInv, TablesOK
    <3>3. CASE clients[ci].game_index = gi
      BY <3>1, <3>2, <3>3
    <3>4. CASE clients[ci].game_index # gi
      <4>1. n[q] = net[q] /\ due'[q] = due[q] /\ sent'[net[q].fd] = <<>>
        BY <3>1, <3>4
      <4>2. /\ clients'[ci].active
            /\ View(clients', games', engine', ci) = View(clients, games, engine, ci)
        BY <1>1, <3>1, <3>4, ClientAfter
      <4>3. net[q].fd \in open'
        BY <4>2, <3>1, <1>6
      <4>4. net'[q] = net[q]
        <5>1. Handed(net[q], net'[q], <<>>, open')
          BY <4>1, <4>3, <1>3
        <5>2. net[q] \in Net /\ net'[q] \in Net
          BY <1>1, <1>3 DEF SystemTypeOK
        <5>3. net[q].down \in Seq(Frame) /\ net[q].down \o <<>> = net[q].down
          BY <5>2, ConcatEmptySeq DEF Net
        <5> QED BY <4>3, <5>1, <5>2, <5>3, HandedNothing
      <4>5. PeerOK(lib[q], caller[q], due[q], net[q])
        BY OneClient
      <4> QED BY <4>1, <4>2, <4>4, <4>5, <3>1, <3>2
    <3> QED BY <3>3, <3>4
  <2> QED BY <2>1, <2>2
<1>10. PeersOK(lib', caller', due', net', clients', games', engine')
  BY <1>1, <1>9 DEF PeersOK
<1> QED BY <1>4, <1>8, <1>10 DEF SInv
-----------------------------------------------------------------------------
(* The server hears a message, or the end of a connection.                 *)

(* It knows the client by the descriptor.                                  *)
LEMMA HeardClient ==
  ASSUME SInv, NEW p \in Peers, net[p].fd # NONE, NEW ci, ci = ClientOf(p)
  PROVE  /\ ci \in Clients /\ ci \in ActiveClients /\ clients[ci].active /\ clients[ci].fd = net[p].fd
         /\ \A cj \in Clients : clients[cj].active /\ clients[cj].fd = net[p].fd => cj = ci
         /\ View(clients, games, engine, ci) \in ViewType
         /\ ClientOfPeer(lib[p], caller[p], due[p], net[p], View(clients, games, engine, ci))
<1>1. PICK cj \in Clients :
         /\ clients[cj].active /\ clients[cj].fd = net[p].fd
         /\ View(clients, games, engine, cj) \in ViewType
         /\ ClientOfPeer(lib[p], caller[p], due[p], net[p], View(clients, games, engine, cj))
  BY AcceptedClient
<1>2. \A a, b \in Clients : clients[a].active /\ clients[b].active
                            /\ clients[a].fd = clients[b].fd => a = b
  BY DEF SInv, IInv, TablesOK
<1>3. cj \in ActiveClients /\ clients[cj].fd = net[p].fd
  BY <1>1 DEF ActiveClients
<1>4. ci \in ActiveClients /\ clients[ci].fd = net[p].fd
  BY <1>3 DEF ClientOf
<1>5. ci = cj
  BY <1>1, <1>2, <1>4 DEF ActiveClients
<1> QED BY <1>1, <1>2, <1>4, <1>5

(* n is net with p's only message taken, if there was one.                 *)
TakenFrom(p, n) ==
    /\ n \in [Peers -> Net]
    /\ \A q \in Peers : q # p => n[q] = net[q]
    /\ n[p].fd = net[p].fd /\ n[p].down = net[p].down /\ n[p].hung = net[p].hung
    /\ n[p].eof = net[p].eof /\ n[p].rst = net[p].rst /\ n[p].up = <<>>

(* There is never more than one message in flight from a client.           *)
LEMMA TakenIs ==
  ASSUME SInv, NEW p \in Peers, net[p].fd # NONE,
         NEW v, ClientOfPeer(lib[p], caller[p], due[p], net[p], v)
  PROVE  /\ net[p].up # <<>> => TakenFrom(p, Taken(p)) /\ net[p].up = <<Head(net[p].up)>>
         /\ net[p].up = <<>> => TakenFrom(p, net)
<1>1. UpOK(net[p].up, v)
  BY UpIs
<1>2. net \in [Peers -> Net]
  BY DEF SInv, SystemTypeOK
<1>3. CASE net[p].up = <<>>
  BY <1>2, <1>3 DEF TakenFrom
<1>4. CASE net[p].up # <<>>
  <2>1. PICK m : net[p].up = <<m>>
    BY <1>1, <1>4 DEF UpOK
  <2>2. Head(net[p].up) = m /\ Tail(net[p].up) = <<>>
    BY <2>1, Heads
  <2>3. Taken(p) = [net EXCEPT ![p].up = <<>>]
    BY <2>2 DEF Taken
  <2>4. <<>> \in Seq(MsgType \cup GameIds)
    BY EmptySeq
  <2>5. TakenFrom(p, Taken(p))
    BY <1>2, <2>3, <2>4 DEF TakenFrom, Net
  <2> QED BY <1>4, <2>1, <2>2, <2>5
<1> QED BY <1>3, <1>4

(* What Record adds to a match.                                            *)
LEMMA DueIs ==
  ASSUME SInv, Record
  PROVE  /\ due' \in [Peers -> Seq(Outcome)]
         /\ \A q \in Peers : net[q].fd = NONE \/ net[q].hung => due'[q] = due[q]
         /\ \A q \in Peers : \A ci \in Clients :
               /\ clients[ci].active /\ clients[ci].fd = net[q].fd /\ net[q].fd # NONE /\ ~net[q].hung
               => due'[q] = due[q] \o Made(ci)
<1>1. due \in [Peers -> Seq(Outcome)]
  BY DEF SInv, SystemTypeOK
<1>2. \A q \in Peers : net[q].fd = NONE \/ net[q].hung => due'[q] = due[q]
  BY DEF Record
<1>3. ASSUME NEW q \in Peers, net[q].fd # NONE, ~net[q].hung
      PROVE  /\ due'[q] = due[q] \o Made(ClientOf(q)) /\ ClientOf(q) \in Clients
             /\ clients[ClientOf(q)].active
             /\ \A ci \in Clients : clients[ci].active /\ clients[ci].fd = net[q].fd => ci = ClientOf(q)
  BY <1>3, HeardClient DEF Record
<1>4. ASSUME NEW ci \in Clients, clients[ci].active PROVE Made(ci) \in Seq(Outcome)
  <2>1. clients[ci].game_id \in GameIds /\ engine \in [GameIds -> EngineGame]
    BY <1>4 DEF SInv, IInv, TablesOK, ClientOK, GameOK
  <2>2. engine[clients[ci].game_id].turn \in Players
    BY <2>1 DEF EngineGame
  <2>3. \A r \in {"Miss", "Win"} : <<engine[clients[ci].game_id].turn, r>> \in Outcome
    BY <2>2 DEF Outcome
  <2> QED BY <2>3, EmptySeq DEF Made
<1>5. ASSUME NEW q \in Peers PROVE due'[q] \in Seq(Outcome)
  <2>1. CASE net[q].fd = NONE \/ net[q].hung
    BY <2>1, <1>1, <1>2
  <2>2. CASE net[q].fd # NONE /\ ~net[q].hung
    <3>1. Made(ClientOf(q)) \in Seq(Outcome) /\ due[q] \in Seq(Outcome)
      BY <2>2, <1>1, <1>3, <1>4
    <3>2. due[q] \o Made(ClientOf(q)) \in Seq(Outcome)
      BY <3>1, ConcatProperties
    <3> QED BY <2>2, <3>2, <1>3
  <2> QED BY <2>1, <2>2
<1>6. due' = [q \in Peers |-> due'[q]]
  BY DEF Record
<1> QED BY <1>2, <1>3, <1>5, <1>6

(* Nothing is added for those who are told nothing, ...                    *)
LEMMA NothingMade ==
  ASSUME NEW ci,
         engine'[clients[ci].game_id].init => engine'[clients[ci].game_id].turn = engine[clients[ci].game_id].turn,
         ~Contains(sent'[clients[ci].fd], <<"GAME_OVER">>)
  PROVE  Made(ci) = <<>>
  BY DEF Made

(* A step in one match, with the others left alone: who is told nothing    *)
(* has nothing recorded.                                                   *)
LEMMA MessageStep ==
  ASSUME SInv, IInv', NoShipsYet(games'), UNCHANGED callers,
         NEW p \in Peers, NEW n, TakenFrom(p, n), Deliver(n),
         NEW ci \in Clients, clients[ci].active, clients[ci].fd = net[p].fd,
         NEW gi, gi = clients[ci].game_index,
         Ending(gi) \/ Round(gi, games[gi].game_id),
         Record \/ UNCHANGED due,
         \A cj \in Clients : clients[cj].active /\ clients[cj].game_index # gi =>
                                sent'[clients[cj].fd] = <<>>,
         \A q \in Peers, cj \in Clients :
            clients[cj].active /\ clients[cj].fd = net[q].fd /\ clients[cj].game_index = gi =>
               /\ PeerOK(lib[q], caller[q], due'[q], net'[q])
               /\ clients'[cj].active => ClientOfPeer(lib[q], caller[q], due'[q], net'[q],
                                                      View(clients', games', engine', cj))
  PROVE  SInv'
<1>1. gi \in Games /\ games[gi].active /\ IInv
  BY Companions DEF SInv
<1>2. n \in [Peers -> Net] /\ \A q \in Peers : n[q].fd = net[q].fd
  BY DEF TakenFrom
<1>3. due \in [Peers -> Seq(Outcome)]
  BY DEF SInv, SystemTypeOK
<1>4. /\ due' \in [Peers -> Seq(Outcome)]
      /\ \A q \in Peers : net[q].fd = NONE => due'[q] = due[q]
  BY <1>3, DueIs
<1>5. \A cj \in Clients : clients[cj].active => clients[cj].fd # NONE
  BY <1>1, Companions
<1>6. ASSUME NEW q \in Peers, NEW cj \in Clients, clients[cj].active, clients[cj].fd = net[q].fd,
             clients[cj].game_index # gi
      PROVE  n[q] = net[q] /\ due'[q] = due[q] /\ sent'[net[q].fd] = <<>>
  <2>1. q # p
    <3>1. q = p => cj = ci
      BY <1>1, <1>6, Companions
    <3> QED BY <3>1, <1>6
  <2>2. sent'[clients[cj].fd] = <<>>
    BY <1>6
  <2>3. Made(cj) = <<>>
    <3>1. engine'[clients[cj].game_id].turn = engine[clients[cj].game_id].turn
      BY <1>1, <1>6, ClientAfter
    <3>2. ~Contains(sent'[clients[cj].fd], <<"GAME_OVER">>)
      BY <2>2, Contents
    <3> QED BY <3>1, <3>2, NothingMade
  <2>4. due'[q] = due[q]
    <3>1. CASE Record
      <4>1. due[q] \o <<>> = due[q]
        BY <1>3, ConcatEmptySeq
      <4> QED BY <3>1, <4>1, <2>3, <1>5, <1>6, DueIs
    <3> QED BY <3>1
  <2> QED BY <2>1, <2>2, <2>4, <1>6 DEF TakenFrom
<1>7. ASSUME NEW q \in Peers, net[q].fd = NONE PROVE n[q] = net[q] /\ due'[q] = due[q]
  BY <1>4, <1>5, <1>7 DEF TakenFrom
<1> QED BY ZenonT(40), <1>1, <1>2, <1>4, <1>6, <1>7, MatchStep
-----------------------------------------------------------------------------
(* The match ends.                                                         *)

(* What closing a game does to those who play it, and what they are sent.  *)
LEMMA CloseGameIs ==
  ASSUME IInv, NoShipsYet(games), NEW gi \in Games, games[gi].active,
         NEW r \in [Fds -> Seq(Frame)], NEW m, CloseGame(gi, r, m)
  PROVE  /\ NoShipsYet(games')
         /\ \A cj \in Clients : clients[cj].active /\ clients[cj].game_index = gi =>
               /\ ~clients'[cj].active /\ clients[cj].fd \notin open'
               /\ ~engine'[clients[cj].game_id].init
               /\ sent'[clients[cj].fd] = r[clients[cj].fd] \o <<m>>
         /\ \A cj \in Clients : clients[cj].active /\ clients[cj].game_index # gi =>
               sent'[clients[cj].fd] = r[clients[cj].fd]
<1>1. /\ clients' = [k \in Clients |-> IF k \in Seated(gi) THEN FreeClient ELSE clients[k]]
      /\ open' = open \ FdsOf(Seated(gi))
      /\ engine' = engine_end_game(engine, games[gi].game_id)
      /\ games' = [games EXCEPT ![gi] = FreeGame]
      /\ sent' = Then(r, Tell(FdsOf(Seated(gi)), m))
  BY DEF CloseGame
<1>2. games \in [Games -> Game] /\ engine \in [GameIds -> EngineGame] /\ games[gi].game_id \in GameIds
  BY DEF IInv, TablesOK, GameOK
<1>3. NoShipsYet(games')
  BY <1>1, <1>2 DEF NoShipsYet, FreeGame
<1>4. ASSUME NEW cj \in Clients, clients[cj].active
      PROVE  /\ clients[cj].fd \in Fds
             /\ clients[cj].fd \in FdsOf(Seated(gi)) <=> clients[cj].game_index = gi
             /\ cj \in Seated(gi) <=> clients[cj].game_index = gi
             /\ clients[cj].game_index = gi => clients[cj].game_id = games[gi].game_id
  <2>1. cj \in Seated(gi) <=> clients[cj].game_index = gi
    BY <1>4, SeatedExactly
  <2>2. /\ clients[cj].fd \in Fds
        /\ \A a \in Clients : clients[a].active /\ clients[a].fd = clients[cj].fd => a = cj
        /\ clients[cj].game_index = gi => clients[cj].game_id = games[gi].game_id
    BY <1>4 DEF IInv, TablesOK, ClientOK
  <2> QED BY <2>1, <2>2 DEF FdsOf, Seated, ActiveClients
<1>5. ASSUME NEW f \in Fds
      PROVE  sent'[f] = IF f \in FdsOf(Seated(gi)) THEN r[f] \o <<m>> ELSE r[f]
  <2>1. sent'[f] = r[f] \o (IF f \in FdsOf(Seated(gi)) THEN <<m>> ELSE <<>>)
    BY <1>1 DEF Then, Tell
  <2>2. r[f] \o <<>> = r[f]
    BY ConcatEmptySeq
  <2> QED BY <2>1, <2>2
<1>6. ~engine'[games[gi].game_id].init
  BY <1>1, <1>2 DEF engine_end_game, NoEngineGame
<1>7. ASSUME NEW cj \in Clients, clients[cj].active, clients[cj].game_index = gi
      PROVE  /\ ~clients'[cj].active /\ clients[cj].fd \notin open'
             /\ ~engine'[clients[cj].game_id].init
             /\ sent'[clients[cj].fd] = r[clients[cj].fd] \o <<m>>
  BY <1>1, <1>4, <1>5, <1>6, <1>7 DEF FreeClient
<1>8. ASSUME NEW cj \in Clients, clients[cj].active, clients[cj].game_index # gi
      PROVE  sent'[clients[cj].fd] = r[clients[cj].fd]
  BY <1>4, <1>5, <1>8
<1> QED BY <1>3, <1>7, <1>8

(* A connection that the server closes; if the client has gone too,        *)
(* nothing remains of it.                                                  *)
LEMMA ClosedFits ==
  ASSUME NEW l, NEW c, NEW d, NEW d2, NEW k, NEW k2, NEW kn, NEW s, NEW F,
         PeerOK(l, c, d, k), k.fd # NONE, kn.fd = k.fd, kn.hung = k.hung,
         Handed(kn, k2, s, F), k.fd \notin F,
         k.hung => d2 = d, ~k.hung => Lost(l, c, d2, k2)
  PROVE  PeerOK(l, c, d2, k2)
<1>1. CASE k.hung
  <2>1. Left(l, c, d, k)
    BY <1>1 DEF PeerOK
  <2>2. k2 = NoConnection
    BY <1>1 DEF Handed
  <2>3. ~k2.hung /\ k2.fd = NONE /\ ~k2.eof
    BY <2>2 DEF NoConnection
  <2> QED BY <1>1, <2>1, <2>2, <2>3 DEF PeerOK, Left, Outside
<1>2. CASE ~k.hung
  <2>1. ~k2.hung /\ k2.fd = NONE /\ k2.eof /\ k2.up = <<>>
    BY <1>2 DEF Handed
  <2> QED BY <1>2, <2>1 DEF PeerOK
<1> QED BY <1>1, <1>2

(* Both players are sent ERROR: a message the server does not accept, or   *)
(* the end of a connection.                                                *)
LEMMA EndedInv ==
  ASSUME SInv, UNCHANGED callers, NEW p \in Peers, NEW n, TakenFrom(p, n), Deliver(n),
         NEW ci \in Clients, clients[ci].active, clients[ci].fd = net[p].fd,
         NEW gi, gi = clients[ci].game_index, server_end_game(gi), Record \/ UNCHANGED due
  PROVE  SInv'
<1>1. gi \in Games /\ games[gi].active /\ IInv /\ NoShipsYet(games)
  BY Companions DEF SInv
<1>2. IInv'
  BY <1>1, EndGameInv
<1>3. CloseGame(gi, Silence, <<"ERROR">>) /\ Silence \in [Fds -> Seq(Frame)]
  BY SilenceType DEF server_end_game
<1>4. Ending(gi)
  BY <1>1, <1>3 DEF Ending
<1>5. /\ NoShipsYet(games')
      /\ \A cj \in Clients : clients[cj].active /\ clients[cj].game_index = gi =>
            /\ ~clients'[cj].active /\ clients[cj].fd \notin open'
            /\ ~engine'[clients[cj].game_id].init
            /\ sent'[clients[cj].fd] = Silence[clients[cj].fd] \o << <<"ERROR">> >>
      /\ \A cj \in Clients : clients[cj].active /\ clients[cj].game_index # gi =>
            sent'[clients[cj].fd] = Silence[clients[cj].fd]
  BY <1>1, <1>3, CloseGameIs
<1>6. \A cj \in Clients : clients[cj].active => clients[cj].fd \in Fds /\ clients[cj].fd # NONE
  BY <1>1, Companions
<1>7. \A f \in Fds : Silence[f] = <<>>
  BY DEF Silence
<1>8. <<>> \o << <<"ERROR">> >> = << <<"ERROR">> >>
  BY FramesAre, FramesJoin
<1>9. sent' \in [Fds -> Seq(Frame)]
  BY <1>2 DEF IInv
<1>10. \A q \in Peers : Handed(n[q], net'[q], sent'[n[q].fd], open')
  BY <1>9, DeliverIs DEF TakenFrom
<1>11. ASSUME NEW q \in Peers, NEW cj \in Clients, clients[cj].active, clients[cj].fd = net[q].fd,
              clients[cj].game_index = gi
       PROVE  PeerOK(lib[q], caller[q], due'[q], net'[q]) /\ ~clients'[cj].active
  <2> DEFINE l == lib[q]
             c == caller[q]
             d == due[q]
             k == net[q]
             kn == n[q]
             k2 == net'[q]
             v == View(clients, games, engine, cj)
  <2>1. /\ c \in Caller /\ d \in Seq(Outcome) /\ k \in Net /\ PeerOK(l, c, d, k)
        /\ v \in ViewType /\ ClientOfPeer(l, c, d, k, v)
    BY <1>1, <1>11, OneClient, ViewIs DEF SInv, PeersOK
  <2>2. /\ kn.fd = k.fd /\ kn.hung = k.hung /\ kn.down = k.down
        /\ kn.up = k.up \/ kn.up = <<>>
    BY DEF TakenFrom
  <2>3. /\ k.fd # NONE /\ k.fd \notin open' /\ ~clients'[cj].active
        /\ sent'[k.fd] = << <<"ERROR">> >> /\ ~engine'[clients[cj].game_id].init
    BY <1>5, <1>6, <1>7, <1>8, <1>11
  <2>4. due'[q] = d
    <3>1. ~Contains(sent'[clients[cj].fd], <<"GAME_OVER">>)
      <4>1. <<"ERROR">> # <<"GAME_OVER">>
        OBVIOUS
      <4> QED BY <4>1, <2>3, <1>11, Contents
    <3>2. Made(cj) = <<>>
      BY <3>1, <2>3, NothingMade
    <3>3. CASE Record
      <4>1. d \o <<>> = d
        BY <2>1, ConcatEmptySeq
      <4> QED BY <3>2, <3>3, <4>1, <2>3, <1>11, DueIs
    <3> QED BY <3>3
  <2>5. Handed(kn, k2, << <<"ERROR">> >>, open')
    BY <1>10, <2>2, <2>3
  <2> HIDE DEF l, c, d, k, kn, k2, v
  <2>6. ASSUME ~k.hung PROVE Lost(l, c, d, k2)
    <3>1. Served(l, c, d, k, v)
      BY <2>1, <2>6 DEF ClientOfPeer
    <3>2. k2.down = k.down \o << <<"ERROR">> >> /\ (k2.rst => k.up # <<>>)
      BY <2>2, <2>3, <2>5, <2>6 DEF Handed
    <3> QED BY <3>1, <3>2, <2>1, ErrorFits
  <2>7. PeerOK(l, c, d, k2)
    BY <2>1, <2>2, <2>3, <2>5, <2>6, ClosedFits
  <2> QED BY <2>3, <2>4, <2>7 DEF l, c, d, k2
<1>12. \A cj \in Clients : clients[cj].active /\ clients[cj].game_index # gi =>
                              sent'[clients[cj].fd] = <<>>
  BY <1>5, <1>6, <1>7
<1> QED BY <1>2, <1>4, <1>5, <1>11, <1>12, MessageStep
-----------------------------------------------------------------------------
(* Moves.                                                                  *)

(* A move is answered to who made it and shown to the opponent.            *)
Replied(ci, reply, r, s) ==
    \A cj \in Clients : clients[cj].active =>
       s[clients[cj].fd] = IF cj = ci THEN << <<reply, r>> >>
                           ELSE IF clients[cj].game_index = clients[ci].game_index
                           THEN << <<"OPP_MOVE", r>> >> ELSE <<>>

(* Who is told of a move: the mover the result, its opponent the move.     *)
LEMMA RepliesAre ==
  ASSUME IInv, NEW ci \in Clients, clients[ci].active,
         NEW reply \in {"MOVE_RESULT", "MOVE_EXT_RESULT"}, NEW r \in TurnResult
  PROVE  /\ MoveReplies(ci, reply, r) \in [Fds -> Seq(Frame)]
         /\ Replied(ci, reply, r, MoveReplies(ci, reply, r))
<1> DEFINE gi == clients[ci].game_index
           s == MoveReplies(ci, reply, r)
<1>1. <<reply, r>> \in Frame /\ <<"OPP_MOVE", r>> \in Frame
  BY FrameTypes
<1>2. s \in [Fds -> Seq(Frame)]
  BY <1>1, TellType, ThenType DEF MoveReplies
<1>3. ASSUME NEW f \in Fds
      PROVE  s[f] = (IF f = clients[ci].fd THEN << <<reply, r>> >> ELSE <<>>)
                    \o (IF f \in RivalFd(ci) THEN << <<"OPP_MOVE", r>> >> ELSE <<>>)
  BY DEF MoveReplies, Then, Tell
<1>4. \A a \in Frame : <<a>> \o <<>> = <<a>> /\ <<>> \o <<a>> = <<a>>
  BY Joined
<1>5. <<>> \o <<>> = <<>>
  OBVIOUS
<1>6. clients[ci].fd \in Fds /\ clients[ci].fd \notin RivalFd(ci)
  BY Companions
<1>7. s[clients[ci].fd] = << <<reply, r>> >>
  BY <1>1, <1>3, <1>4, <1>6
<1>8. ASSUME NEW cj \in Clients, clients[cj].active, clients[cj].game_index = gi, cj # ci
      PROVE  s[clients[cj].fd] = << <<"OPP_MOVE", r>> >>
  <2>1. clients[cj].fd \in Fds /\ clients[cj].fd \in RivalFd(ci) /\ clients[cj].fd # clients[ci].fd
    BY <1>8, Companions
  <2> QED BY <2>1, <1>1, <1>3, <1>4
<1>9. ASSUME NEW cj \in Clients, clients[cj].active, clients[cj].game_index # gi
      PROVE  s[clients[cj].fd] = <<>>
  <2>1. clients[cj].fd \in Fds /\ clients[cj].fd \notin RivalFd(ci) /\ clients[cj].fd # clients[ci].fd
    BY <1>9, Companions
  <2> QED BY <2>1, <1>3, <1>5
<1> QED BY <1>2, <1>7, <1>8, <1>9 DEF Replied

(* The reply is the answer to the operation that waits for it.             *)
Moves(type, reply) == \/ type = "MOVE" /\ reply = "MOVE_RESULT"
                      \/ type = "MOVE_EXT" /\ reply = "MOVE_EXT_RESULT"

(* A result goes to a client whose move operation waits for it.            *)
LEMMA ReplyIs ==
  ASSUME NEW l, NEW c, NEW d, NEW k, NEW v, Served(l, c, d, k, v),
         NEW type, NEW reply \in {"MOVE_RESULT", "MOVE_EXT_RESULT"},
         k.up = <<type>>, Moves(type, reply)
  PROVE  k.up # <<>> /\ l.call \in {"move", "move_ext"} /\ reply = Answer[l.call]
<1>1. k.up # <<>> /\ type # "SHIPS"
  BY Heads DEF Moves
<1>2. k.up # <<"SHIPS">>
  BY <1>1
<1>3. l.call \in {"move", "move_ext"} /\ k.up = <<Request[l.call]>>
  BY <1>1, <1>2, RequestIs
<1>4. type = Request[l.call]
  BY <1>3
<1>5. /\ Request["move"] = "MOVE" /\ Request["move_ext"] = "MOVE_EXT"
      /\ Answer["move"] = "MOVE_RESULT" /\ Answer["move_ext"] = "MOVE_EXT_RESULT"
  BY DEF Request, Answer
<1> QED BY <1>1, <1>3, <1>4, <1>5 DEF Moves

(* How the two players of a match see a turn: it is one's, and not the     *)
(* other's.                                                                *)
LEMMA TurnIs ==
  ASSUME IInv, NEW ci \in Clients, clients[ci].active, EngineTurn(ci),
         NEW cj \in Clients, clients[cj].active, clients[cj].game_index = clients[ci].game_index,
         NEW v, v = View(clients, games, engine, cj)
  PROVE  /\ v.phase = "PLAYING" /\ v.player = clients[cj].player_num
         /\ engine[clients[cj].game_id].turn = v.turn
         /\ v.turn = clients[ci].player_num
         /\ cj = ci => v.turn = v.player
         /\ cj # ci => v.turn = Opponent(v.player)
<1>1. /\ games[clients[ci].game_index].phase = "PLAYING"
      /\ engine[games[clients[ci].game_index].game_id].turn = clients[ci].player_num
  BY DEF EngineTurn, InPhase, CanTakeTurn, GameOf
<1>2. clients[cj].game_id = games[clients[ci].game_index].game_id
  BY DEF IInv, TablesOK, ClientOK
<1>3. cj # ci => clients[ci].player_num = Opponent(clients[cj].player_num)
  BY Companions
<1> QED BY <1>1, <1>2, <1>3 DEF View

(* The move wins.                                                          *)
LEMMA WonInv ==
  ASSUME SInv, UNCHANGED callers, NEW p \in Peers, NEW n, TakenFrom(p, n), Deliver(n),
         NEW ci \in Clients, clients[ci].active, clients[ci].fd = net[p].fd,
         NEW type, NEW reply \in {"MOVE_RESULT", "MOVE_EXT_RESULT"}, net[p].up = <<type>>,
         Moves(type, reply), MoveWins(ci, reply), Record
  PROVE  SInv'
<1> DEFINE gi == clients[ci].game_index
           rs == MoveReplies(ci, reply, "Win")
<1>1. gi \in Games /\ games[gi].active /\ IInv /\ NoShipsYet(games)
  BY Companions DEF SInv
<1>2. rs \in [Fds -> Seq(Frame)] /\ Replied(ci, reply, "Win", rs)
  <2>1. "Win" \in TurnResult
    BY DEF TurnResult
  <2> QED BY <1>1, <2>1, RepliesAre
<1>3. EngineTurn(ci) /\ CloseGame(gi, rs, <<"GAME_OVER">>)
  BY DEF MoveWins, GameOf
<1> HIDE DEF gi, rs
<1>4. Ending(gi) /\ IInv'
  BY <1>1, <1>2, <1>3, CloseGameInv DEF Ending
<1>5. /\ NoShipsYet(games')
      /\ \A cj \in Clients : clients[cj].active /\ clients[cj].game_index = gi =>
            /\ ~clients'[cj].active /\ clients[cj].fd \notin open'
            /\ ~engine'[clients[cj].game_id].init
            /\ sent'[clients[cj].fd] = rs[clients[cj].fd] \o << <<"GAME_OVER">> >>
      /\ \A cj \in Clients : clients[cj].active /\ clients[cj].game_index # gi =>
            sent'[clients[cj].fd] = rs[clients[cj].fd]
  BY <1>1, <1>2, <1>3, CloseGameIs
<1>6. \A cj \in Clients : clients[cj].active => clients[cj].fd \in Fds /\ clients[cj].fd # NONE
  BY <1>1, Companions
<1>7. sent' \in [Fds -> Seq(Frame)]
  BY <1>4 DEF IInv
<1>8. \A q \in Peers : Handed(n[q], net'[q], sent'[n[q].fd], open')
  BY <1>7, DeliverIs DEF TakenFrom
<1>9. ASSUME NEW q \in Peers, NEW cj \in Clients, clients[cj].active, clients[cj].fd = net[q].fd,
             clients[cj].game_index = gi
      PROVE  PeerOK(lib[q], caller[q], due'[q], net'[q]) /\ ~clients'[cj].active
  <2> DEFINE l == lib[q]
             c == caller[q]
             d == due[q]
             d2 == due'[q]
             k == net[q]
             kn == n[q]
             k2 == net'[q]
             v == View(clients, games, engine, cj)
             a == <<IF cj = ci THEN reply ELSE "OPP_MOVE", "Win">>
  <2>1. /\ c \in Caller /\ d \in Seq(Outcome) /\ k \in Net /\ PeerOK(l, c, d, k)
        /\ v \in ViewType /\ ClientOfPeer(l, c, d, k, v)
    BY <1>1, <1>9, OneClient, ViewIs DEF SInv, PeersOK
  <2>2. /\ kn.fd = k.fd /\ kn.hung = k.hung /\ kn.down = k.down
        /\ IF q = p THEN kn.up = <<>> ELSE kn.up = k.up
    BY DEF TakenFrom
  <2>3. /\ k.fd # NONE /\ k.fd \notin open' /\ ~clients'[cj].active
        /\ ~engine'[clients[cj].game_id].init
        /\ sent'[k.fd] = rs[k.fd] \o << <<"GAME_OVER">> >>
    BY <1>5, <1>6, <1>9
  <2>4. rs[k.fd] = <<a>> /\ a \in Frame /\ <<"GAME_OVER">> \in Frame
    <3>1. rs[k.fd] = <<a>>
      BY <1>2, <1>9 DEF Replied, gi
    <3>2. a \in Frame /\ <<"GAME_OVER">> \in Frame
      BY FrameTypes DEF TurnResult
    <3> QED BY <3>1, <3>2
  <2>5. sent'[k.fd] = <<a, <<"GAME_OVER">> >>
    <3> HIDE DEF a
    <3> QED BY <2>3, <2>4, FramesJoin
  <2>6. q = p <=> cj = ci
    BY <1>1, <1>6, <1>9, Companions DEF SInv, Wired
  <2>7. /\ v.phase = "PLAYING" /\ engine[clients[cj].game_id].turn = v.turn
        /\ cj = ci => v.turn = v.player
        /\ cj # ci => v.turn = Opponent(v.player)
    BY <1>1, <1>3, <1>9, TurnIs DEF gi
  <2>8. Made(cj) = << <<v.turn, "Win">> >>
    <3>1. Contains(sent'[clients[cj].fd], <<"GAME_OVER">>)
      BY <2>5, <1>9, Contents
    <3> QED BY <3>1, <2>3, <2>7 DEF Made
  <2>9. d2 = IF k.hung THEN d ELSE d \o << <<v.turn, "Win">> >>
    BY ZenonT(40), <2>3, <2>8, <1>9, DueIs
  <2>10. Handed(kn, k2, <<a, <<"GAME_OVER">> >>, open')
    BY <1>8, <2>2, <2>5
  <2>11. k.up = <<type>> \/ cj # ci
    BY <2>6
  <2> HIDE DEF l, c, d, d2, k, kn, k2, v
  <2>12. ASSUME ~k.hung PROVE Lost(l, c, d2, k2)
    <3>1. Served(l, c, d, k, v)
      BY <2>1, <2>12 DEF ClientOfPeer
    <3>2. /\ k2.down = k.down \o <<a, <<"GAME_OVER">> >> /\ (k2.rst <=> kn.up # <<>>)
          /\ d2 = d \o << <<v.turn, "Win">> >>
      BY <2>2, <2>3, <2>9, <2>10, <2>12 DEF Handed
    <3>3. CASE cj = ci
      <4>1. k.up # <<>> /\ l.call \in {"move", "move_ext"} /\ reply = Answer[l.call]
        <5>1. k.up = <<type>>
          BY <3>3, <2>11
        <5> QED BY <3>1, <5>1, ReplyIs
      <4>2. k2.down = k.down \o << <<Answer[l.call], "Win">>, <<"GAME_OVER">> >> /\ ~k2.rst
        BY <3>2, <3>3, <4>1, <2>2, <2>6
      <4>3. v.player \in Players /\ v.turn = v.player
        BY <3>3, <2>1, <2>7 DEF ViewType
      <4> QED BY <3>1, <3>2, <4>1, <4>2, <4>3, <2>1, OwnWinFits
    <3>4. CASE cj # ci
      <4>1. v.turn = Opponent(v.player)
        BY <3>4, <2>7
      <4>2. k.up = <<>>
        BY <4>1, <3>1, <2>1, <2>7, AwaitingIs
      <4>3. k2.down = k.down \o << <<"OPP_MOVE", "Win">>, <<"GAME_OVER">> >> /\ ~k2.rst
        BY <3>2, <3>4, <4>2, <2>2, <2>6
      <4> QED BY <3>1, <3>2, <4>1, <4>3, <2>1, <2>7, RivalWinFits
    <3> QED BY <3>3, <3>4
  <2>13. PeerOK(l, c, d2, k2)
    <3>1. k.hung => d2 = d
      BY <2>9
    <3> QED BY <2>1, <2>2, <2>3, <3>1, <2>10, <2>12, ClosedFits
  <2> QED BY <2>3, <2>13 DEF l, c, d2, k2
<1>10. \A cj \in Clients : clients[cj].active /\ clients[cj].game_index # gi =>
                              sent'[clients[cj].fd] = <<>>
  <2> SUFFICES ASSUME NEW cj \in Clients, clients[cj].active, clients[cj].game_index # gi
               PROVE  sent'[clients[cj].fd] = <<>>
    OBVIOUS
  <2>1. cj # ci
    BY DEF gi
  <2> QED BY <2>1, <1>2, <1>5 DEF Replied, gi
<1> QED BY <1>4, <1>5, <1>9, <1>10, MessageStep DEF gi

(* Nothing but what is in flight matters of a connection that is served.   *)
LEMMA ServedSame ==
  ASSUME NEW l, NEW c, NEW d, NEW k, NEW k2, NEW v,
         Served(l, c, d, k, v), k2.up = k.up, k2.down = k.down
  PROVE  Served(l, c, d, k2, v)
<1>1. CASE Joining(l, c, d, k, v)
  <2> Joining(l, c, d, k2, v)
    BY <1>1 DEF Joining
  <2> QED BY DEF Served
<1>2. CASE Placing(l, c, d, k, v)
  <2> Placing(l, c, d, k2, v)
    BY <1>2 DEF Placing
  <2> QED BY DEF Served
<1>3. CASE Acked(l, c, d, k, v)
  <2> Acked(l, c, d, k2, v)
    BY <1>3 DEF Acked
  <2> QED BY DEF Served
<1>4. CASE OnMove(l, c, d, k, v)
  <2> OnMove(l, c, d, k2, v)
    BY <1>4 DEF OnMove
  <2> QED BY DEF Served
<1>5. CASE OffMove(l, c, d, k, v)
  <2> OffMove(l, c, d, k2, v)
    BY <1>5 DEF OffMove
  <2> QED BY DEF Served
<1> QED BY <1>1, <1>2, <1>3, <1>4, <1>5 DEF Served


(* A connection that the server goes on serving.                           *)
LEMMA ServedFits ==
  ASSUME NEW l, NEW c, NEW d, NEW d2, NEW k, NEW k2, NEW kn, NEW s, NEW F, NEW v, NEW v2,
         PeerOK(l, c, d, k), ClientOfPeer(l, c, d, k, v), k.fd # NONE,
         kn.fd = k.fd, kn.down = k.down, kn.hung = k.hung, kn.eof = k.eof, kn.rst = k.rst,
         Handed(kn, k2, s, F), k.fd \in F,
         k.hung => d2 = d /\ UpOK(kn.up, v2),
         ~k.hung => Served(l, c, d2, k2, v2)
  PROVE  PeerOK(l, c, d2, k2) /\ ClientOfPeer(l, c, d2, k2, v2)
<1>1. CASE k.hung
  <2>1. Left(l, c, d, k)
    BY <1>1 DEF PeerOK
  <2>2. k2 = kn
    BY <1>1 DEF Handed
  <2> QED BY <1>1, <2>1, <2>2 DEF PeerOK, Left, ClientOfPeer
<1>2. CASE ~k.hung
  <2>1. ~k2.hung /\ k2.fd = k.fd /\ k2.eof = k.eof /\ k2.rst = k.rst
    BY <1>2 DEF Handed
  <2> QED BY <1>2, <2>1 DEF PeerOK, ClientOfPeer
<1> QED BY <1>1, <1>2

(* The move is invalid.                                                    *)
LEMMA InvalidInv ==
  ASSUME SInv, IInv', UNCHANGED callers, NEW p \in Peers, NEW n, TakenFrom(p, n), Deliver(n),
         NEW ci \in Clients, clients[ci].active, clients[ci].fd = net[p].fd,
         NEW gi, gi = clients[ci].game_index, Ending(gi) \/ Round(gi, games[gi].game_id),
         NEW type, NEW reply \in {"MOVE_RESULT", "MOVE_EXT_RESULT"}, net[p].up = <<type>>,
         Moves(type, reply), MoveInvalid(ci, reply), Record
  PROVE  SInv'
<1> DEFINE m == <<reply, "Invalid">>
<1>1. IInv /\ NoShipsYet(games) /\ m \in Frame /\ m # <<"GAME_OVER">>
  BY FrameTypes DEF SInv, TurnResult
<1>2. /\ UNCHANGED <<clients, games, engine, open>>
      /\ sent' = Tell({clients[ci].fd}, m)
  BY DEF MoveInvalid, Reply, tables
<1> HIDE DEF m
<1>3. NoShipsYet(games')
  BY <1>1, <1>2
<1>4. ASSUME NEW cj \in Clients, clients[cj].active
      PROVE  /\ clients[cj].fd \in open' /\ clients[cj].fd # NONE
             /\ sent'[clients[cj].fd] = IF cj = ci THEN <<m>> ELSE <<>>
  <2>1. /\ clients[cj].fd \in Fds /\ clients[cj].fd \in open /\ clients[cj].fd # NONE
        /\ clients[cj].fd = clients[ci].fd => cj = ci
    BY <1>1, <1>4, Companions
  <2> QED BY <2>1, <1>2 DEF Tell
<1>5. sent' \in [Fds -> Seq(Frame)]
  BY DEF IInv
<1>6. \A q \in Peers : Handed(n[q], net'[q], sent'[n[q].fd], open')
  BY <1>5, DeliverIs DEF TakenFrom
<1>7. ASSUME NEW q \in Peers, NEW cj \in Clients, clients[cj].active, clients[cj].fd = net[q].fd,
             clients[cj].game_index = gi
      PROVE  /\ PeerOK(lib[q], caller[q], due'[q], net'[q])
             /\ ClientOfPeer(lib[q], caller[q], due'[q], net'[q], View(clients', games', engine', cj))
  <2> DEFINE l == lib[q]
             c == caller[q]
             d == due[q]
             d2 == due'[q]
             k == net[q]
             kn == n[q]
             k2 == net'[q]
             v == View(clients, games, engine, cj)
             v2 == View(clients', games', engine', cj)
             s == sent'[n[q].fd]
  <2>1. /\ c \in Caller /\ d \in Seq(Outcome) /\ k \in Net /\ PeerOK(l, c, d, k)
        /\ v \in ViewType /\ ClientOfPeer(l, c, d, k, v) /\ v2 = v
    BY <1>1, <1>2, <1>7, OneClient, ViewIs DEF SInv, PeersOK
  <2>2. /\ kn.fd = k.fd /\ kn.hung = k.hung /\ kn.down = k.down /\ kn.eof = k.eof /\ kn.rst = k.rst
        /\ IF q = p THEN kn.up = <<>> ELSE kn.up = k.up
    BY DEF TakenFrom
  <2>3. k.fd # NONE /\ k.fd \in open' /\ s = IF cj = ci THEN <<m>> ELSE <<>>
    BY <1>4, <1>7, <2>2
  <2>4. q = p <=> cj = ci
    BY <1>1, <1>4, <1>7, Companions DEF SInv, Wired
  <2>5. d2 = d
    <3>1. ~Contains(sent'[clients[cj].fd], <<"GAME_OVER">>)
      BY <1>1, <1>4, <1>7, Contents
    <3>2. Made(cj) = <<>>
      BY <3>1, <1>2, NothingMade
    <3>3. d \o <<>> = d
      BY <2>1, ConcatEmptySeq
    <3> QED BY <3>2, <3>3, <2>3, <1>7, DueIs
  <2>6. Handed(kn, k2, s, open')
    BY <1>6
  <2>7. k.up = <<type>> \/ cj # ci
    BY <2>4
  <2> HIDE DEF l, c, d, d2, k, kn, k2, v, v2, s
  <2>8. UpOK(k.up, v) /\ UpOK(kn.up, v2)
    BY <2>1, <2>2, UpIs DEF UpOK
  <2>9. ASSUME ~k.hung PROVE Served(l, c, d2, k2, v2)
    <3>1. Served(l, c, d, k, v)
      BY <2>1, <2>9 DEF ClientOfPeer
    <3>2. k2.down = k.down \o s /\ k2.up = kn.up
      BY <2>2, <2>3, <2>6, <2>9 DEF Handed
    <3>3. CASE cj = ci
      <4>1. k.up # <<>> /\ l.call \in {"move", "move_ext"} /\ reply = Answer[l.call]
        <5>1. k.up = <<type>>
          BY <3>3, <2>7
        <5> QED BY <3>1, <5>1, ReplyIs
      <4>2. k2.down = k.down \o << <<Answer[l.call], "Invalid">> >> /\ k2.up = <<>>
        BY <3>2, <3>3, <4>1, <2>2, <2>3, <2>4 DEF m
      <4> QED BY <3>1, <4>1, <4>2, <2>1, <2>5, InvalidFits
    <3>4. CASE cj # ci
      <4>1. k2.down = k.down /\ k2.up = k.up
        <5>1. k.down \o <<>> = k.down
          BY <2>1, ConcatEmptySeq DEF Net
        <5> QED BY <5>1, <3>2, <3>4, <2>2, <2>3, <2>4
      <4>2. Served(l, c, d, k2, v)
        BY <3>1, <4>1, ServedSame
      <4> QED BY <4>2, <2>1, <2>5
    <3> QED BY <3>3, <3>4
  <2>10. PeerOK(l, c, d2, k2) /\ ClientOfPeer(l, c, d2, k2, v2)
    BY <2>1, <2>2, <2>3, <2>5, <2>6, <2>8, <2>9, ServedFits
  <2> QED BY <2>10 DEF l, c, d2, k2, v2
<1>8. \A cj \in Clients : clients[cj].active /\ clients[cj].game_index # gi =>
                              sent'[clients[cj].fd] = <<>>
  BY <1>4
<1> QED BY <1>3, <1>7, <1>8, MessageStep

(* The move is taken, and the turn passes.                                 *)
LEMMA PlayedInv ==
  ASSUME SInv, IInv', UNCHANGED callers, NEW p \in Peers, NEW n, TakenFrom(p, n), Deliver(n),
         NEW ci \in Clients, clients[ci].active, clients[ci].fd = net[p].fd,
         NEW gi, gi = clients[ci].game_index, Ending(gi) \/ Round(gi, games[gi].game_id),
         NEW type, NEW reply \in {"MOVE_RESULT", "MOVE_EXT_RESULT"}, net[p].up = <<type>>,
         Moves(type, reply), MovePlayed(ci, reply), Record
  PROVE  SInv'
<1> DEFINE id == games[gi].game_id
           rs == MoveReplies(ci, reply, "Miss")
<1>1. /\ IInv /\ NoShipsYet(games) /\ gi \in Games /\ games[gi].active /\ id \in GameIds
      /\ games \in [Games -> Game] /\ engine \in [GameIds -> EngineGame]
      /\ games[gi] \in Game /\ engine[id] \in EngineGame
  BY Companions DEF SInv, IInv, TablesOK, GameOK
<1>2. Replied(ci, reply, "Miss", rs)
  <2>1. "Miss" \in TurnResult
    BY DEF TurnResult
  <2> QED BY <1>1, <2>1, RepliesAre
<1>3. /\ EngineTurn(ci) /\ engine' = engine_take_turn(engine, id) /\ sent' = rs
      /\ games' = [games EXCEPT ![gi].current_turn = IF @ = 1 THEN 2 ELSE 1]
      /\ UNCHANGED <<clients, open>>
  BY DEF MovePlayed, GameOf
<1> HIDE DEF rs
<1>4. /\ games'[gi].phase = games[gi].phase /\ games'[gi].game_id = id
      /\ games'[gi].ships_received = games[gi].ships_received
      /\ games'[gi].active = games[gi].active
      /\ \A g \in Games : g # gi => games'[g] = games[g]
  BY <1>1, <1>3 DEF Game
<1>5. /\ engine'[id].turn = Opponent(engine[id].turn) /\ engine'[id].init
      /\ engine[id].turn \in Players
  BY <1>1, <1>3 DEF engine_take_turn, EngineGame, EngineTurn, CanTakeTurn, GameOf
<1>6. NoShipsYet(games')
  BY <1>1, <1>4 DEF NoShipsYet
<1> HIDE DEF id
<1>7. ASSUME NEW cj \in Clients, clients[cj].active
      PROVE  clients[cj].fd \in open' /\ clients[cj].fd # NONE
  BY <1>1, <1>3, <1>7, Companions
<1>8. sent' \in [Fds -> Seq(Frame)]
  BY DEF IInv
<1>9. \A q \in Peers : Handed(n[q], net'[q], sent'[n[q].fd], open')
  BY <1>8, DeliverIs DEF TakenFrom
<1>10. ASSUME NEW q \in Peers, NEW cj \in Clients, clients[cj].active, clients[cj].fd = net[q].fd,
              clients[cj].game_index = gi
      PROVE  /\ PeerOK(lib[q], caller[q], due'[q], net'[q])
             /\ ClientOfPeer(lib[q], caller[q], due'[q], net'[q], View(clients', games', engine', cj))
  <2> DEFINE l == lib[q]
             c == caller[q]
             d == due[q]
             d2 == due'[q]
             k == net[q]
             kn == n[q]
             k2 == net'[q]
             v == View(clients, games, engine, cj)
             v2 == View(clients', games', engine', cj)
             s == sent'[n[q].fd]
  <2>1. /\ c \in Caller /\ d \in Seq(Outcome) /\ k \in Net /\ PeerOK(l, c, d, k)
        /\ v \in ViewType /\ ClientOfPeer(l, c, d, k, v)
    BY <1>1, <1>10, OneClient, ViewIs DEF SInv, PeersOK
  <2>2. /\ kn.fd = k.fd /\ kn.hung = k.hung /\ kn.down = k.down /\ kn.eof = k.eof /\ kn.rst = k.rst
        /\ IF q = p THEN kn.up = <<>> ELSE kn.up = k.up
    BY DEF TakenFrom
  <2>3. /\ k.fd # NONE /\ k.fd \in open'
        /\ s = IF cj = ci THEN << <<reply, "Miss">> >> ELSE << <<"OPP_MOVE", "Miss">> >>
    BY <1>2, <1>3, <1>7, <1>10, <2>2 DEF Replied
  <2>4. q = p <=> cj = ci
    BY <1>1, <1>7, <1>10, Companions DEF SInv, Wired
  <2>5. /\ v.phase = "PLAYING" /\ engine[clients[cj].game_id].turn = v.turn
        /\ cj = ci => v.turn = v.player
        /\ cj # ci => v.turn = Opponent(v.player)
    BY <1>1, <1>3, <1>10, TurnIs
  <2>6. clients[cj].game_id = id
    BY <1>1, <1>10 DEF IInv, TablesOK, ClientOK, id
  <2>7. v2.phase = v.phase /\ v2.player = v.player /\ v2.ships = v.ships /\ v2.turn = Opponent(v.turn)
    <3> DEFINE x == clients[cj].player_num
    <3>1. v = [player |-> x, phase |-> games[gi].phase, ships |-> games[gi].ships_received[x],
               turn |-> engine[id].turn]
      BY <1>10 DEF View, id
    <3>2. v2 = [player |-> x, phase |-> games'[gi].phase, ships |-> games'[gi].ships_received[x],
                turn |-> engine'[id].turn]
      BY <1>3, <1>4, <1>10 DEF View
    <3> QED BY <3>1, <3>2, <1>4, <1>5
  <2>8. v.turn \in Players /\ v.player \in Players /\ Opponent(v.turn) # v.turn
        /\ (cj = ci => v2.turn = Opponent(v.player)) /\ (cj # ci => v2.turn = v.player)
    BY <2>1, <2>5, <2>7 DEF ViewType, Players, Opponent
  <2>9. d2 = IF k.hung THEN d ELSE d \o << <<v.turn, "Miss">> >>
    <3>1. Made(cj) = << <<v.turn, "Miss">> >>
      BY <1>5, <2>5, <2>6, <2>8 DEF Made
    <3> QED BY <3>1, <2>3, <1>10, DueIs
  <2>10. Handed(kn, k2, s, open')
    BY <1>9
  <2>11. k.up = <<type>> \/ cj # ci
    BY <2>4
  <2> HIDE DEF l, c, d, d2, k, kn, k2, v, v2, s
  <2>12. UpOK(kn.up, v2)
    <3>1. CASE cj = ci
      BY <3>1, <2>2, <2>4 DEF UpOK
    <3>2. CASE cj # ci
      <4>1. UpOK(k.up, v)
        BY <2>1, UpIs
      <4>2. k.up = <<>>
        BY <4>1, <3>2, <2>5, <2>8 DEF UpOK
      <4> QED BY <4>2, <3>2, <2>2, <2>4 DEF UpOK
    <3> QED BY <3>1, <3>2
  <2>13. ASSUME ~k.hung PROVE Served(l, c, d2, k2, v2)
    <3>1. Served(l, c, d, k, v) /\ d2 = d \o << <<v.turn, "Miss">> >>
      BY <2>1, <2>9, <2>13 DEF ClientOfPeer
    <3>2. k2.down = k.down \o s /\ k2.up = kn.up
      BY <2>2, <2>3, <2>10, <2>13 DEF Handed
    <3>3. CASE cj = ci
      <4>1. k.up # <<>> /\ l.call \in {"move", "move_ext"} /\ reply = Answer[l.call]
        <5>1. k.up = <<type>>
          BY <3>3, <2>11
        <5> QED BY <3>1, <5>1, ReplyIs
      <4>2. k2.down = k.down \o << <<Answer[l.call], "Miss">> >> /\ k2.up = <<>>
        BY <3>2, <3>3, <4>1, <2>2, <2>3, <2>4
      <4>3. v.turn = v.player /\ v2.turn = Opponent(v.player)
        BY <3>3, <2>5, <2>8
      <4> QED BY <3>1, <4>1, <4>2, <4>3, <2>1, <2>7, <2>8, OwnMissFits
    <3>4. CASE cj # ci
      <4>1. k2.down = k.down \o << <<"OPP_MOVE", "Miss">> >> /\ k2.up = k.up
        BY <3>2, <3>4, <2>2, <2>3, <2>4
      <4>2. v.turn = Opponent(v.player) /\ v2.turn = v.player
        BY <3>4, <2>5, <2>8
      <4> QED BY <3>1, <4>1, <4>2, <2>1, <2>5, <2>7, RivalMissFits
    <3> QED BY <3>3, <3>4
  <2>14. k.hung => d2 = d /\ UpOK(kn.up, v2)
    BY <2>9, <2>12
  <2>15. PeerOK(l, c, d2, k2) /\ ClientOfPeer(l, c, d2, k2, v2)
    BY <2>1, <2>2, <2>3, <2>10, <2>13, <2>14, ServedFits
  <2> QED BY <2>15 DEF l, c, d2, k2, v2
<1>11. ASSUME NEW cj \in Clients, clients[cj].active, clients[cj].game_index # gi
       PROVE  sent'[clients[cj].fd] = <<>>
  BY <1>2, <1>3, <1>11 DEF Replied
<1> QED BY <1>6, <1>10, <1>11, MessageStep
-----------------------------------------------------------------------------
(* Ships.                                                                  *)

(* Each player of the match is told its number.                            *)
Acknowledged(gi, s) ==
    \A cj \in Clients : clients[cj].active =>
       s[clients[cj].fd] = IF clients[cj].game_index = gi
                           THEN << <<"SHIPS_ACK", clients[cj].player_num>> >> ELSE <<>>

(* send_ships_ack writes its number to each player of the match only.      *)
LEMMA AcksAre ==
  ASSUME IInv, NEW gi \in Games, games[gi].active
  PROVE  Acknowledged(gi, send_ships_ack(gi))
<1>1. SUFFICES ASSUME NEW cj \in Clients, clients[cj].active
               PROVE  send_ships_ack(gi)[clients[cj].fd] =
                         IF clients[cj].game_index = gi
                         THEN << <<"SHIPS_ACK", clients[cj].player_num>> >> ELSE <<>>
  BY DEF Acknowledged
<1> DEFINE f == clients[cj].fd
           m == clients[cj].player_num
<1>2. /\ f \in Fds /\ m \in Players /\ clients[cj].game_index \in Games
      /\ games[clients[cj].game_index].client_slots[m] = cj
  BY <1>1 DEF IInv, TablesOK, ClientOK
<1>3. ASSUME NEW q \in Players
      PROVE  f \in PlayerFd(gi, q) <=> clients[cj].game_index = gi /\ m = q
  <2>1. ASSUME f \in PlayerFd(gi, q) PROVE clients[cj].game_index = gi /\ m = q
    <3>1. PICK k \in {games[gi].client_slots[q]} \cap ActiveClients : clients[k].fd = f
      BY <2>1 DEF PlayerFd, FdsOf
    <3>2. k = cj /\ games[gi].client_slots[q] = cj
      BY <1>1, <3>1 DEF IInv, TablesOK, ActiveClients
    <3> QED BY <3>2, <1>2, Nones DEF IInv, TablesOK, GameOK, SeatOK
  <2>2. ASSUME clients[cj].game_index = gi, m = q PROVE f \in PlayerFd(gi, q)
    <3>1. cj \in {games[gi].client_slots[q]} \cap ActiveClients
      BY <1>1, <1>2, <2>2 DEF ActiveClients
    <3> QED BY <3>1 DEF PlayerFd, FdsOf
  <2> QED BY <2>1, <2>2
<1>4. send_ships_ack(gi)[f] =
         (IF f \in PlayerFd(gi, 1) THEN << <<"SHIPS_ACK", 1>> >> ELSE <<>>)
         \o (IF f \in PlayerFd(gi, 2) THEN << <<"SHIPS_ACK", 2>> >> ELSE <<>>)
  BY <1>2 DEF send_ships_ack, Then, Tell
<1>5. /\ <<"SHIPS_ACK", 1>> \in Frame /\ <<"SHIPS_ACK", 2>> \in Frame /\ <<>> \o <<>> = <<>>
      /\ \A a \in Frame : <<a>> \o <<>> = <<a>> /\ <<>> \o <<a>> = <<a>>
  BY FrameTypes, Joined DEF Players
<1> HIDE DEF f, m
<1>6. CASE clients[cj].game_index = gi /\ m = 1
  <2>1. f \in PlayerFd(gi, 1) /\ f \notin PlayerFd(gi, 2)
    BY <1>3, <1>6 DEF Players
  <2> QED BY <1>4, <1>5, <1>6, <2>1 DEF f, m
<1>7. CASE clients[cj].game_index = gi /\ m = 2
  <2>1. f \notin PlayerFd(gi, 1) /\ f \in PlayerFd(gi, 2)
    BY <1>3, <1>7 DEF Players
  <2> QED BY <1>4, <1>5, <1>7, <2>1 DEF f, m
<1>8. CASE clients[cj].game_index # gi
  <2>1. f \notin PlayerFd(gi, 1) /\ f \notin PlayerFd(gi, 2)
    BY <1>3, <1>8 DEF Players
  <2> QED BY <1>4, <1>5, <1>8, <2>1 DEF f
<1> QED BY <1>2, <1>6, <1>7, <1>8 DEF Players

(* What the placement does to the match.                                   *)
LEMMA PlacementIs ==
  ASSUME IInv, NEW ci \in Clients, clients[ci].active, ShipsAccepted(ci),
         NEW gi, gi = clients[ci].game_index, NEW id, id = games[gi].game_id,
         NEW n, n = clients[ci].player_num
  PROVE  LET both == games[gi].ships_received[Opponent(n)]
         IN  /\ UNCHANGED open /\ \A g \in Games : g # gi => games'[g] = games[g]
             /\ games[gi].phase = "PLACEMENT" /\ engine[id].turn = 1
             /\ ~games[gi].ships_received[n] /\ games'[gi].ships_received[n]
             /\ games'[gi].ships_received[Opponent(n)] = both
             /\ games'[gi].game_id = id /\ engine'[id].turn = 1
             /\ games'[gi].phase = IF both THEN "PLAYING" ELSE "PLACEMENT"
             /\ sent' = IF both THEN send_ships_ack(gi) ELSE Silence
             /\ \A cj \in Clients : /\ clients'[cj].player_num = clients[cj].player_num
                                    /\ clients'[cj].game_index = clients[cj].game_index
<1> DEFINE g == [games[gi] EXCEPT !.ships_received[n] = TRUE]
           both == games[gi].ships_received[Opponent(n)]
<1>1. /\ gi \in Games /\ games[gi].active /\ id \in GameIds /\ n \in Players
      /\ games \in [Games -> Game] /\ games[gi] \in Game /\ engine \in [GameIds -> EngineGame]
      /\ clients \in [Clients -> Client] /\ GameOf(ci) = gi
      /\ BoardsOK(games[gi], engine[id])
  BY DEF IInv, TablesOK, ClientOK, GameOK, GameOf
<1>2. /\ games[gi].phase = "PLACEMENT" /\ engine' = engine_place_ships(engine, id, n)
      /\ UNCHANGED open /\ ~games[gi].ships_received[n]
      /\ games' = [games EXCEPT ![gi] = IF \A q \in Players : g.ships_received[q]
                                        THEN [g EXCEPT !.phase = "PLAYING", !.current_turn = 1]
                                        ELSE g]
      /\ clients' = [k \in Clients |-> IF (\A q \in Players : g.ships_received[q]) /\ k \in Seated(gi)
                                       THEN [clients[k] EXCEPT !.phase = "PLAYING"] ELSE clients[k]]
      /\ sent' = IF \A q \in Players : g.ships_received[q] THEN send_ships_ack(gi) ELSE Silence
  BY <1>1 DEF ShipsAccepted, PlaceShips, InPhase
<1>3. /\ g \in Game /\ g.phase = "PLACEMENT" /\ g.game_id = id
      /\ g.ships_received[n] /\ g.ships_received[Opponent(n)] = both
      /\ Opponent(n) \in Players /\ Players = {n, Opponent(n)}
  <2>1. Opponent(n) \in Players /\ Players = {n, Opponent(n)} /\ Opponent(n) # n
    BY <1>1, Opponents
  <2>2. games[gi].ships_received \in [Players -> BOOLEAN]
    BY <1>1 DEF Game
  <2>3. g.ships_received = [games[gi].ships_received EXCEPT ![n] = TRUE]
    BY <1>1 DEF Game
  <2>4. g.ships_received[n] /\ g.ships_received[Opponent(n)] = both
    BY <1>1, <2>1, <2>2, <2>3
  <2>5. g \in Game /\ g.phase = "PLACEMENT" /\ g.game_id = id
    BY <1>1, <1>2 DEF Game
  <2> QED BY <2>1, <2>4, <2>5
<1>4. (\A q \in Players : g.ships_received[q]) <=> both
  <2> HIDE DEF g, both
  <2>1. ASSUME NEW q \in Players PROVE q = n \/ q = Opponent(n)
    BY <1>3
  <2>2. (\A q \in Players : g.ships_received[q]) => g.ships_received[Opponent(n)]
    BY <1>3
  <2>3. g.ships_received[Opponent(n)] => \A q \in Players : g.ships_received[q]
    BY <1>3, <2>1
  <2> QED BY <1>3, <2>2, <2>3
<1>5. engine[id].turn = 1 /\ engine'[id].turn = engine[id].turn
  <2> HIDE DEF g, both
  <2>1. engine[id].turn = 1
    <3>1. games[gi].phase = "PLACEMENT"
      BY <1>2
    <3> QED BY <3>1, <1>1 DEF BoardsOK
  <2>2. engine' = [engine EXCEPT ![id].fleet[NextBoard(engine, id)] = n]
    BY <1>2 DEF engine_place_ships
  <2>3. engine'[id] = [engine[id] EXCEPT !.fleet[NextBoard(engine, id)] = n]
    BY <1>1, <2>2
  <2>4. engine[id] \in EngineGame
    BY <1>1
  <2>5. engine'[id].turn = engine[id].turn
    BY <2>3, <2>4 DEF EngineGame
  <2> QED BY <2>1, <2>5
<1>6. games'[gi] = IF both THEN [g EXCEPT !.phase = "PLAYING", !.current_turn = 1] ELSE g
  BY <1>1, <1>2, <1>4
<1>7. \A k \in Clients : clients'[k] = IF both /\ k \in Seated(gi)
                                       THEN [clients[k] EXCEPT !.phase = "PLAYING"] ELSE clients[k]
  BY <1>2, <1>4
<1>8. /\ games'[gi].ships_received = g.ships_received /\ games'[gi].game_id = g.game_id
      /\ games'[gi].phase = IF both THEN "PLAYING" ELSE "PLACEMENT"
  <2> HIDE DEF g, both
  <2>1. CASE both
    BY <2>1, <1>3, <1>6 DEF Game
  <2>2. CASE ~both
    BY <2>2, <1>3, <1>6 DEF Game
  <2> QED BY <2>1, <2>2
<1>9. \A cj \in Clients : /\ clients'[cj].player_num = clients[cj].player_num
                          /\ clients'[cj].game_index = clients[cj].game_index
  <2> SUFFICES ASSUME NEW cj \in Clients
               PROVE  /\ clients'[cj].player_num = clients[cj].player_num
                      /\ clients'[cj].game_index = clients[cj].game_index
    OBVIOUS
  <2>1. \/ clients'[cj] = [clients[cj] EXCEPT !.phase = "PLAYING"]
        \/ clients'[cj] = clients[cj]
    BY <1>7
  <2>2. clients[cj] \in Client
    BY <1>1
  <2> QED BY <2>1, <2>2 DEF Client
<1>10. \A h \in Games : h # gi => games'[h] = games[h]
  BY <1>1, <1>2
<1>11. sent' = IF both THEN send_ships_ack(gi) ELSE Silence
  BY <1>2, <1>4
<1>12. games'[gi].ships_received[n] /\ games'[gi].ships_received[Opponent(n)] = both
  BY <1>3, <1>8
<1>13. games[gi].phase = "PLACEMENT" /\ ~games[gi].ships_received[n] /\ UNCHANGED open
  BY <1>2
<1>14. games'[gi].game_id = id /\ games'[gi].phase = IF both THEN "PLAYING" ELSE "PLACEMENT"
  BY <1>3, <1>8
<1>15. engine'[id].turn = 1
  BY <1>5
<1> QED BY <1>5, <1>9, <1>10, <1>11, <1>12, <1>13, <1>14, <1>15

(* The ships are accepted; the match begins when the opponent's are in.    *)
LEMMA PlacedInv ==
  ASSUME SInv, IInv', UNCHANGED callers, NEW p \in Peers, NEW n, TakenFrom(p, n), Deliver(n),
         NEW ci \in Clients, clients[ci].active, clients[ci].fd = net[p].fd,
         NEW gi, gi = clients[ci].game_index, Ending(gi) \/ Round(gi, games[gi].game_id),
         net[p].up = <<"SHIPS">>, ShipsAccepted(ci), Record
  PROVE  SInv'
<1> DEFINE id == games[gi].game_id
           pn == clients[ci].player_num
           both == games[gi].ships_received[Opponent(pn)]
<1>1. /\ IInv /\ NoShipsYet(games) /\ gi \in Games /\ games[gi].active
      /\ pn \in Players
  BY Companions DEF SInv, IInv, TablesOK, ClientOK
<1>2. /\ UNCHANGED open /\ \A g \in Games : g # gi => games'[g] = games[g]
      /\ games[gi].phase = "PLACEMENT" /\ engine[id].turn = 1
      /\ ~games[gi].ships_received[pn] /\ games'[gi].ships_received[pn]
      /\ games'[gi].ships_received[Opponent(pn)] = both
      /\ games'[gi].game_id = id /\ engine'[id].turn = 1
      /\ games'[gi].phase = IF both THEN "PLAYING" ELSE "PLACEMENT"
      /\ sent' = IF both THEN send_ships_ack(gi) ELSE Silence
      /\ \A cj \in Clients : /\ clients'[cj].player_num = clients[cj].player_num
                             /\ clients'[cj].game_index = clients[cj].game_index
  BY <1>1, PlacementIs
<1>3. Acknowledged(gi, send_ships_ack(gi))
  BY <1>1, AcksAre
<1> HIDE DEF id, pn, both
<1>4. NoShipsYet(games')
  <2> SUFFICES ASSUME NEW g \in Games, games'[g].active, games'[g].phase = "WAITING",
                      NEW q \in Players
               PROVE  ~games'[g].ships_received[q]
    BY DEF NoShipsYet
  <2>1. g # gi
    BY <1>2
  <2> QED BY <2>1, <1>1, <1>2 DEF NoShipsYet
<1>5. ASSUME NEW cj \in Clients, clients[cj].active
      PROVE  /\ clients[cj].fd \in Fds /\ clients[cj].fd \in open' /\ clients[cj].fd # NONE
             /\ sent'[clients[cj].fd] = IF both /\ clients[cj].game_index = gi
                                        THEN << <<"SHIPS_ACK", clients[cj].player_num>> >> ELSE <<>>
  <2>1. clients[cj].fd \in Fds /\ clients[cj].fd \in open /\ clients[cj].fd # NONE
    BY <1>1, <1>5, Companions
  <2>2. sent'[clients[cj].fd] = IF both THEN send_ships_ack(gi)[clients[cj].fd] ELSE <<>>
    BY <2>1, <1>2 DEF Silence
  <2>3. send_ships_ack(gi)[clients[cj].fd] = IF clients[cj].game_index = gi
                                     THEN << <<"SHIPS_ACK", clients[cj].player_num>> >> ELSE <<>>
    BY <1>3, <1>5 DEF Acknowledged
  <2> QED BY <2>1, <2>2, <2>3, <1>2
<1>6. sent' \in [Fds -> Seq(Frame)]
  BY DEF IInv
<1>7. \A q \in Peers : Handed(n[q], net'[q], sent'[n[q].fd], open')
  BY <1>6, DeliverIs DEF TakenFrom
<1>8. ASSUME NEW q \in Peers, NEW cj \in Clients, clients[cj].active, clients[cj].fd = net[q].fd,
             clients[cj].game_index = gi
      PROVE  /\ PeerOK(lib[q], caller[q], due'[q], net'[q])
             /\ ClientOfPeer(lib[q], caller[q], due'[q], net'[q], View(clients', games', engine', cj))
  <2> DEFINE l == lib[q]
             c == caller[q]
             d == due[q]
             d2 == due'[q]
             k == net[q]
             kn == n[q]
             k2 == net'[q]
             v == View(clients, games, engine, cj)
             v2 == View(clients', games', engine', cj)
             s == sent'[n[q].fd]
  <2>1. /\ c \in Caller /\ d \in Seq(Outcome) /\ k \in Net /\ PeerOK(l, c, d, k)
        /\ v \in ViewType /\ ClientOfPeer(l, c, d, k, v)
    BY <1>1, <1>8, OneClient, ViewIs DEF SInv, PeersOK
  <2>2. /\ kn.fd = k.fd /\ kn.hung = k.hung /\ kn.down = k.down /\ kn.eof = k.eof /\ kn.rst = k.rst
        /\ IF q = p THEN kn.up = <<>> ELSE kn.up = k.up
    BY DEF TakenFrom
  <2>3. v.player = clients[cj].player_num
    BY DEF View
  <2>4. /\ k.fd # NONE /\ k.fd \in open'
        /\ s = IF both THEN << <<"SHIPS_ACK", v.player>> >> ELSE <<>>
    BY <1>5, <1>8, <2>2, <2>3
  <2>5. /\ q = p <=> cj = ci
        /\ cj # ci => clients[cj].player_num = Opponent(pn)
    BY <1>1, <1>5, <1>8, Companions DEF SInv, Wired, pn
  <2>6. clients[cj].game_id = id
    BY <1>1, <1>8 DEF IInv, TablesOK, ClientOK, id
  <2>7. /\ v.phase = "PLACEMENT" /\ v.turn = 1 /\ v2.player = v.player /\ v2.turn = 1
        /\ v2.phase = IF both THEN "PLAYING" ELSE "PLACEMENT"
    BY <1>2, <1>8 DEF View, id
  <2>8. IF cj = ci THEN ~v.ships /\ v2.ships ELSE v.ships = both /\ v2.ships = both
    <3>1. v.ships = games[gi].ships_received[clients[cj].player_num]
      BY <1>8 DEF View
    <3>2. v2.ships = games'[gi].ships_received[clients[cj].player_num]
      BY <1>2, <1>8 DEF View
    <3>3. CASE cj = ci
      BY <3>1, <3>2, <3>3, <1>2 DEF pn
    <3>4. CASE cj # ci
      BY <3>1, <3>2, <3>4, <2>5, <1>2 DEF both
    <3> QED BY <3>3, <3>4
  <2>9. d2 = d
    <3>1. ~Contains(sent'[clients[cj].fd], <<"GAME_OVER">>)
      <4>1. <<"SHIPS_ACK", v.player>> # <<"GAME_OVER">>
        OBVIOUS
      <4>2. sent'[clients[cj].fd] = IF both THEN << <<"SHIPS_ACK", v.player>> >> ELSE <<>>
        BY <2>4, <2>2, <1>8
      <4> HIDE DEF v
      <4> QED BY <4>1, <4>2, Contents
    <3>2. Made(cj) = <<>>
      BY <3>1, <1>2, <2>6, NothingMade
    <3>3. d \o <<>> = d
      BY <2>1, ConcatEmptySeq
    <3> QED BY <3>2, <3>3, <2>4, <1>8, DueIs
  <2>10. Handed(kn, k2, s, open')
    BY <1>7
  <2>11. cj = ci => k.up = <<"SHIPS">>
    BY <2>5
  <2>12. cj # ci /\ ~both => v2 = v
    <3>1. cj # ci /\ ~both => v2.phase = v.phase /\ v2.ships = v.ships /\ v2.turn = v.turn
      BY <2>7, <2>8
    <3> QED BY <3>1, <2>7 DEF View
  <2> HIDE DEF l, c, d, d2, k, kn, k2, v, v2, s
  <2>13. cj # ci /\ both => k.up = <<>>
    <3>1. UpOK(k.up, v)
      BY <2>1, UpIs
    <3> QED BY <3>1, <2>7, <2>8 DEF UpOK
  <2>14. UpOK(kn.up, v2)
    <3>1. CASE cj = ci
      BY <3>1, <2>2, <2>5 DEF UpOK
    <3>2. CASE cj # ci /\ both
      BY <3>2, <2>2, <2>5, <2>13 DEF UpOK
    <3>3. CASE cj # ci /\ ~both
      BY <3>3, <2>1, <2>2, <2>5, <2>12, UpIs
    <3> QED BY <3>1, <3>2, <3>3
  <2>15. ASSUME ~k.hung PROVE Served(l, c, d, k2, v2)
    <3>1. Served(l, c, d, k, v)
      BY <2>1, <2>15 DEF ClientOfPeer
    <3>2. k2.down = k.down \o s /\ k2.up = kn.up
      BY <2>2, <2>4, <2>10, <2>15 DEF Handed
    <3>3. CASE both
      <4>1. k2.up = <<>> /\ k2.down = k.down \o << <<"SHIPS_ACK", v.player>> >>
        BY <3>2, <3>3, <2>2, <2>4, <2>5, <2>13
      <4>2. (k.up = <<"SHIPS">> \/ v.ships) /\ v2.phase = "PLAYING"
        BY <3>3, <2>7, <2>8, <2>11
      <4> QED BY <3>1, <4>1, <4>2, <2>1, <2>7, BothPlacedFits
    <3>4. CASE ~both /\ cj = ci
      <4>1. k2.up = <<>> /\ k2.down = k.down \o <<>>
        BY <3>2, <3>4, <2>2, <2>4, <2>5
      <4>2. v2.phase = "PLACEMENT" /\ v2.ships
        BY <3>4, <2>7, <2>8
      <4> QED BY <3>1, <3>4, <4>1, <4>2, <2>11, ShipsPlacedFits
    <3>5. CASE ~both /\ cj # ci
      <4>1. k2.down = k.down /\ k2.up = k.up
        <5>1. k.down \o <<>> = k.down
          BY <2>1, ConcatEmptySeq DEF Net
        <5> QED BY <5>1, <3>2, <3>5, <2>2, <2>4, <2>5
      <4> QED BY <3>1, <3>5, <4>1, <2>12, ServedSame
    <3> QED BY <3>3, <3>4, <3>5
  <2>16. PeerOK(l, c, d, k2) /\ ClientOfPeer(l, c, d, k2, v2)
    BY <2>1, <2>2, <2>4, <2>10, <2>14, <2>15, ServedFits
  <2> QED BY <2>9, <2>16 DEF l, c, d, d2, k2, v2
<1>9. \A cj \in Clients : clients[cj].active /\ clients[cj].game_index # gi =>
                              sent'[clients[cj].fd] = <<>>
  BY <1>5
<1> QED BY <1>4, <1>8, <1>9, MessageStep

-----------------------------------------------------------------------------
(* What the server hears.                                                  *)

(* SHIPS, which come in PLACEMENT and once.                                *)
LEMMA HearShipsInv ==
  ASSUME SInv, IInv', UNCHANGED callers, NEW p \in Peers, NEW n, TakenFrom(p, n), Deliver(n),
         NEW ci \in Clients, clients[ci].active, clients[ci].fd = net[p].fd,
         NEW gi, gi = clients[ci].game_index, Ending(gi) \/ Round(gi, games[gi].game_id),
         net[p].up = <<"SHIPS">>, UpOK(net[p].up, View(clients, games, engine, ci)),
         handle_ships(ci), Record
  PROVE  SInv'
<1>1. gi = GameOf(ci) /\ games[gi].active
  BY Companions DEF SInv, GameOf
<1>2. games[gi].phase = "PLACEMENT" /\ ~games[gi].ships_received[clients[ci].player_num]
  BY Heads DEF UpOK, View
<1>3. ~OutOfPhase(ci, "PLACEMENT") /\ ~ShipsRepeated(ci)
  BY <1>1, <1>2 DEF OutOfPhase, InPhase, ShipsRepeated
<1>4. CASE \E valid \in BOOLEAN : ShipsRejected(ci, valid)
  <2>1. server_end_game(gi)
    BY <1>1, <1>4 DEF ShipsRejected
  <2> QED BY <2>1, EndedInv
<1>5. CASE ShipsAccepted(ci)
  BY <1>5, PlacedInv
<1> QED BY <1>3, <1>4, <1>5 DEF handle_ships

(* A move, which comes in PLAYING from the player on turn; the engine may  *)
(* find it invalid all the same.                                           *)
LEMMA HearMoveInv ==
  ASSUME SInv, IInv', UNCHANGED callers, NEW p \in Peers, NEW n, TakenFrom(p, n), Deliver(n),
         NEW ci \in Clients, clients[ci].active, clients[ci].fd = net[p].fd,
         NEW gi, gi = clients[ci].game_index, Ending(gi) \/ Round(gi, games[gi].game_id),
         NEW type, NEW reply \in {"MOVE_RESULT", "MOVE_EXT_RESULT"}, net[p].up = <<type>>,
         Moves(type, reply), UpOK(net[p].up, View(clients, games, engine, ci)),
         handle_move(ci, reply), Record
  PROVE  SInv'
<1>1. gi = GameOf(ci) /\ games[gi].active
  BY Companions DEF SInv, GameOf
<1>2. games[gi].phase = "PLAYING"
  <2>1. type # "SHIPS"
    BY DEF Moves
  <2>2. <<type>> # <<>> /\ <<type>> # <<"SHIPS">>
    BY <2>1
  <2> QED BY <2>2 DEF UpOK, View
<1>3. ~OutOfPhase(ci, "PLAYING")
  BY <1>1, <1>2 DEF OutOfPhase, InPhase
<1>4. CASE MoveMalformed(ci) \/ MoveUnanswered(ci)
  <2>1. server_end_game(gi)
    BY <1>1, <1>4 DEF MoveMalformed, MoveUnanswered
  <2> QED BY <2>1, EndedInv
<1>5. CASE MoveInvalid(ci, reply)
  BY <1>5, InvalidInv
<1>6. CASE MovePlayed(ci, reply)
  BY <1>6, PlayedInv
<1>7. CASE MoveWins(ci, reply)
  BY <1>7, WonInv
<1> QED BY <1>3, <1>4, <1>5, <1>6, <1>7 DEF handle_move

(* The oldest message of a connection, whether or not its sender lives.    *)
LEMMA HearMessageInv ==
  ASSUME SInv, NEW p \in Peers, HearMessage(p), UNCHANGED callers
  PROVE  SInv'
<1> DEFINE ci == ClientOf(p)
           gi == clients[ci].game_index
           type == Head(net[p].up)
           n == Taken(p)
<1>1. /\ net[p].fd # NONE /\ net[p].up # <<>> /\ server_handle_client_message(ci, type)
      /\ Deliver(n) /\ Record
  BY DEF HearMessage
<1>2. /\ ci \in Clients /\ ci \in ActiveClients /\ clients[ci].active /\ clients[ci].fd = net[p].fd
      /\ ClientOfPeer(lib[p], caller[p], due[p], net[p], View(clients, games, engine, ci))
  BY <1>1, HeardClient
<1>3. TakenFrom(p, n) /\ net[p].up = <<type>>
  BY <1>1, <1>2, TakenIs
<1>4. UpOK(net[p].up, View(clients, games, engine, ci))
  BY <1>2, UpIs
<1>5. IInv' /\ (Ending(gi) \/ Round(gi, games[gi].game_id))
  <2>1. IInv
    BY DEF SInv
  <2>2. IInv'
    BY <1>1, <1>2, <2>1, ClientMessageInv
  <2>3. Ending(GameOf(ci)) \/ Round(GameOf(ci), games[GameOf(ci)].game_id)
    BY <1>1, <1>2, <2>1, MessageCases
  <2> QED BY <2>2, <2>3 DEF GameOf
<1> HIDE DEF ci, type, n
<1>6. CASE type = "SHIPS" /\ handle_ships(ci)
  BY <1>1, <1>2, <1>3, <1>4, <1>5, <1>6, HearShipsInv
<1>7. CASE type = "MOVE" /\ handle_move(ci, "MOVE_RESULT")
  <2>1. Moves(type, "MOVE_RESULT")
    BY <1>7 DEF Moves
  <2> QED BY <1>1, <1>2, <1>3, <1>4, <1>5, <1>7, <2>1, HearMoveInv
<1>8. CASE type = "MOVE_EXT" /\ handle_move(ci, "MOVE_EXT_RESULT")
  <2>1. Moves(type, "MOVE_EXT_RESULT")
    BY <1>8 DEF Moves
  <2> QED BY <1>1, <1>2, <1>3, <1>4, <1>5, <1>8, <2>1, HearMoveInv
<1>9. type # "OTHER"
  <2>1. \A a, b : <<a>> = <<b>> => a = b
    BY Heads
  <2>2. <<type>> # <<"OTHER">>
    <3>1. <<"OTHER">> # <<"SHIPS">> /\ <<"OTHER">> # <<"MOVE">> /\ <<"OTHER">> # <<"MOVE_EXT">>
      BY <2>1
    <3>2. <<"OTHER">> # <<>>
      BY Heads
    <3> QED BY <3>1, <3>2, <1>3, <1>4 DEF UpOK
  <2> QED BY <2>2
<1> QED BY <1>1, <1>6, <1>7, <1>8, <1>9 DEF server_handle_client_message

(* The end of a connection whose client is gone.                           *)
LEMMA HearEndInv ==
  ASSUME SInv, NEW p \in Peers, HearEnd(p), UNCHANGED callers
  PROVE  SInv'
<1> DEFINE ci == ClientOf(p)
           gi == clients[ci].game_index
<1>1. /\ net[p].fd # NONE /\ net[p].up = <<>> /\ server_on_client_disconnect(ci)
      /\ Deliver(net) /\ UNCHANGED due
  BY DEF HearEnd
<1>2. /\ ci \in Clients /\ ci \in ActiveClients /\ clients[ci].active /\ clients[ci].fd = net[p].fd
      /\ ClientOfPeer(lib[p], caller[p], due[p], net[p], View(clients, games, engine, ci))
  BY <1>1, HeardClient
<1>3. TakenFrom(p, net)
  BY <1>1, <1>2, TakenIs
<1>4. server_end_game(gi)
  <2>1. GameOf(ci) = gi /\ GameOf(ci) # NONE
    BY <1>2, ActiveClient DEF SInv, GameOf
  <2> QED BY <1>1, <2>1 DEF server_on_client_disconnect
<1> HIDE DEF ci
<1> QED BY <1>1, <1>2, <1>3, <1>4, EndedInv

(* A client that was gone before the server got to it.                     *)
LEMMA NewcomerLostInv ==
  ASSUME SInv, NEW p \in Peers, NewcomerLost(p), UNCHANGED callers
  PROVE  SInv'
<1> DEFINE l == lib[p]
           c == caller[p]
           d == due[p]
           k == net[p]
           k2 == net'[p]
<1>1. k.fd = NONE /\ k.up = <<>> /\ k.hung /\ net' = [net EXCEPT ![p] = NoConnection]
      /\ sent' = Silence /\ UNCHANGED <<tables, due>>
  BY DEF NewcomerLost
<1>2. lib' = lib /\ caller' = caller /\ due' = due
  BY <1>1 DEF callers
<1>3. NoConnection \in Net
  BY DEF NoConnection, Net, Frame
<1>4. net \in [Peers -> Net] /\ SystemTypeOK
  BY DEF SInv, SystemTypeOK
<1>5. k2 = NoConnection /\ net' \in [Peers -> Net] /\ \A q \in Peers : q # p => net'[q] = net[q]
  BY <1>1, <1>3, <1>4
<1>6. SystemTypeOK'
  BY <1>2, <1>4, <1>5 DEF SystemTypeOK
<1>7. Left(l, c, d, k)
  BY <1>1, OneClient DEF PeerOK
<1>8. PeerOK(l, c, d, k2)
  BY <1>5, <1>7 DEF PeerOK, Left, Outside, NoConnection
<1>9. k2.fd = k.fd
  BY <1>1, <1>5 DEF NoConnection
<1> QED BY <1>1, <1>2, <1>5, <1>6, <1>8, <1>9, ClientStep

-----------------------------------------------------------------------------
(* A newcomer.                                                             *)

(* n is net with p's connection accepted and its game id read.             *)
ArrivedFrom(p, fd, n) ==
    /\ n \in [Peers -> Net]
    /\ \A q \in Peers : q # p => n[q] = net[q]
    /\ n[p].fd = fd /\ n[p].up = <<>> /\ n[p].down = <<>> /\ ~n[p].eof /\ ~n[p].rst
    /\ n[p].hung = net[p].hung

(* p has asked for a game, and may be gone since.                          *)
Asking(p) == /\ caller[p].stage = "start" /\ New(caller[p], due[p])
             /\ net[p].fd = NONE
             /\ lib[p] = IF net[p].hung THEN client_init ELSE Calling("connect")

(* The first thing that comes from a new connection is an id of a game.    *)
LEMMA ArrivedIs ==
  ASSUME SInv, NEW p \in Peers, net[p].fd = NONE, net[p].up # <<>>, NEW fd \in Fds
  PROVE  /\ Head(net[p].up) \in GameIds /\ Asking(p)
         /\ ArrivedFrom(p, fd, [Taken(p) EXCEPT ![p].fd = fd])
<1> DEFINE l == lib[p]
           c == caller[p]
           d == due[p]
           k == net[p]
           n == [Taken(p) EXCEPT ![p].fd = fd]
<1>1. PeerOK(l, c, d, k) /\ net \in [Peers -> Net] /\ k \in Net
  BY OneClient DEF SInv, SystemTypeOK
<1>2. NoConnection.up = <<>>
  BY DEF NoConnection
<1>3. /\ c.stage = "start" /\ New(c, d) /\ k.down = <<>> /\ ~k.eof /\ ~k.rst
      /\ l = IF k.hung THEN client_init ELSE Calling("connect")
      /\ \E id \in GameIds : k.up = <<id>>
  BY <1>1, <1>2 DEF PeerOK, Left, Outside
<1>4. Head(k.up) \in GameIds /\ Tail(k.up) = <<>>
  BY <1>3, Heads
<1>5. /\ Taken(p) \in [Peers -> Net] /\ \A q \in Peers : q # p => Taken(p)[q] = net[q]
      /\ Taken(p)[p] = [k EXCEPT !.up = <<>>]
  <2>1. [k EXCEPT !.up = Tail(k.up)] \in Net
    <3>1. k \in Net /\ Tail(k.up) = <<>>
      BY <1>1, <1>4
    <3> HIDE DEF k
    <3>2. [k EXCEPT !.up = <<>>] \in Net
      BY <3>1, EmptySeq DEF Net
    <3> QED BY <3>1, <3>2
  <2>2. Taken(p) = [net EXCEPT ![p] = [k EXCEPT !.up = Tail(k.up)]]
    BY <1>1 DEF Taken
  <2> QED BY <1>1, <1>4, <2>1, <2>2
<1>6. [[k EXCEPT !.up = <<>>] EXCEPT !.fd = fd] \in Net
  <2>1. k \in Net
    BY <1>1
  <2> HIDE DEF k
  <2> QED BY <2>1, EmptySeq DEF Net
<1>7. n \in [Peers -> Net] /\ (\A q \in Peers : q # p => n[q] = net[q])
      /\ n[p] = [[k EXCEPT !.up = <<>>] EXCEPT !.fd = fd]
  BY <1>5, <1>6
<1>8. ArrivedFrom(p, fd, n)
  <2> HIDE DEF n
  <2> QED BY <1>1, <1>3, <1>7 DEF ArrivedFrom, Net
<1> QED BY <1>3, <1>4, <1>8 DEF Asking

(* A new connection keeps the invariant when it does so for the newcomer   *)
(* and for those who have a seat.                                          *)
LEMMA NewcomerStep ==
  ASSUME SInv, IInv', NoShipsYet(games'), UNCHANGED callers, UNCHANGED due,
         NEW p \in Peers, net[p].fd = NONE, NEW fd \in Fds, fd \notin open,
         NEW n, ArrivedFrom(p, fd, n), Deliver(n),
         open' = open \/ open' = open \cup {fd},
         PeerOK(lib[p], caller[p], due[p], net'[p]),
         \A ci \in Clients : clients'[ci].active /\ clients'[ci].fd = net'[p].fd =>
            ClientOfPeer(lib[p], caller[p], due[p], net'[p], View(clients', games', engine', ci)),
         \A q \in Peers, ci \in Clients :
            q # p /\ clients'[ci].active /\ clients'[ci].fd = net[q].fd =>
               ClientOfPeer(lib[q], caller[q], due[q], net'[q], View(clients', games', engine', ci))
  PROVE  SInv'
<1>1. lib' = lib /\ caller' = caller /\ due' = due
  BY DEF callers
<1>2. SystemTypeOK /\ Wired(net, open) /\ NONE \notin open /\ NONE \notin open' /\ fd # NONE
  BY Nones DEF SInv, IInv, TablesOK
<1>3. net' \in [Peers -> Net] /\ \A q \in Peers : Handed(n[q], net'[q], sent'[n[q].fd], open')
  BY DeliverIs DEF ArrivedFrom, IInv
<1>4. SystemTypeOK'
  BY <1>1, <1>2, <1>3 DEF SystemTypeOK
<1>5. \A q \in Peers : /\ q # p => n[q] = net[q]
                       /\ q = p => n[q].fd = fd
  BY DEF ArrivedFrom
<1>6. \A q \in Peers : /\ net'[q].fd # NONE => net'[q].fd = n[q].fd /\ n[q].fd \in open'
                       /\ n[q].fd # NONE /\ n[q].fd \in open' => net'[q].fd = n[q].fd
  BY <1>3, HandedFd
<1>7. Wired(net', open')
  <2>1. \A q \in Peers : net'[q].fd # NONE => net'[q].fd \in open'
    BY <1>6
  <2>2. ASSUME NEW q \in Peers, NEW r \in Peers, net'[q].fd # NONE, net'[q].fd = net'[r].fd
        PROVE  q = r
    <3>1. n[q].fd = n[r].fd /\ n[q].fd # NONE
      BY <1>6, <2>2
    <3>2. \A s \in Peers : s # p /\ n[s].fd # NONE => n[s].fd \in open
      BY <1>2, <1>5 DEF Wired
    <3>3. q = p <=> r = p
      BY <1>5, <3>1, <3>2
    <3>4. q # p => net[q].fd # NONE /\ net[q].fd = net[r].fd
      BY <1>5, <3>1, <3>3
    <3> QED BY <1>2, <3>3, <3>4 DEF Wired
  <2>3. ASSUME NEW f \in open' PROVE \E q \in Peers : net'[q].fd = f
    <3>1. CASE f = fd
      BY <3>1, <2>3, <1>2, <1>5, <1>6
    <3>2. CASE f # fd
      <4>1. f \in open
        BY <3>2, <2>3
      <4>2. PICK q \in Peers : net[q].fd = f
        BY <1>2, <4>1 DEF Wired
      <4>3. q # p /\ n[q].fd = f /\ f # NONE
        BY <1>2, <1>5, <4>1, <4>2
      <4> QED BY <1>6, <2>3, <4>3
    <3> QED BY <3>1, <3>2
  <2> QED BY <2>1, <2>2, <2>3 DEF Wired
<1>8. ASSUME NEW q \in Peers, q # p
      PROVE  PeerOK(lib[q], caller[q], due[q], net'[q])
  <2>1. Handed(net[q], net'[q], sent'[net[q].fd], open') /\ PeerOK(lib[q], caller[q], due[q], net[q])
    BY <1>3, <1>5, <1>8, OneClient
  <2>2. net[q].fd # NONE => net[q].fd \in open'
    BY <1>2 DEF Wired
  <2>3. CASE net[q].fd = NONE \/ net[q].hung
    <3>1. net'[q] = net[q]
      BY <2>1, <2>2, <2>3 DEF Handed
    <3> QED BY <2>1, <3>1
  <2>4. CASE net[q].fd # NONE /\ ~net[q].hung
    <3>1. net'[q].fd = net[q].fd /\ ~net'[q].hung
      BY <2>1, <2>2, <2>4 DEF Handed
    <3> QED BY <2>4, <3>1 DEF PeerOK
  <2> QED BY <2>3, <2>4
<1>9. ASSUME NEW q \in Peers, NEW ci \in Clients, clients'[ci].active, clients'[ci].fd = net'[q].fd, q # p
      PROVE  ClientOfPeer(lib[q], caller[q], due[q], net'[q], View(clients', games', engine', ci))
  <2>1. clients'[ci].fd \in open'
    BY <1>9 DEF IInv, TablesOK, ClientOK
  <2>2. net'[q].fd = net[q].fd
    BY <1>2, <1>5, <1>6, <1>9, <2>1
  <2> QED BY <1>9, <2>2
<1>10. PeersOK(lib', caller', due', net', clients', games', engine')
  BY <1>1, <1>8, <1>9 DEF PeersOK
<1> QED BY <1>4, <1>7, <1>10 DEF SInv

(* A game may be found, made or given back: those that are played stay.    *)
Kept(gs, e) ==
    /\ NoShipsYet(gs)
    /\ \A gj \in Games : games[gj].active =>
          gs[gj] = games[gj] /\ e[games[gj].game_id] = engine[games[gj].game_id]

(* Nobody sits down, or somebody on an empty seat of game gi.              *)
TurnedAway(fd) ==
    /\ Kept(games', engine') /\ UNCHANGED <<clients, open>>
    /\ sent' = Silence \/ sent' = Tell({fd}, <<"JOIN_FAIL">>)

(* The parts of handle_join that seat a newcomer in slot n of game gi.     *)
SeatTaken(fd, id, gi, gs, ci, n) ==
    /\ Kept(gs, engine') /\ TablesOK(clients, gs, engine', open)
    /\ gs[gi].active /\ gs[gi].game_id = id /\ gs[gi].client_slots[n] = NONE
    /\ ~clients[ci].active
    /\ SitDown(fd, id, gi, gs, ci, n)

Met(fd, id) ==
    \/ TurnedAway(fd)
    \/ \E gs : \E gi \in Games, ci \in Clients, n \in Players : SeatTaken(fd, id, gi, gs, ci, n)

(* The game is there; a seat may be.                                       *)
LEMMA JoinIs ==
  ASSUME NEW fd, NEW id, NEW gi \in Games, NEW gs, NEW e,
         Kept(gs, e), TablesOK(clients, gs, e, open), gs[gi].active, gs[gi].game_id = id,
         Join(fd, id, gi, gs, e)
  PROVE  Met(fd, id)
<1>1. CASE Refuse(fd, gs, e)
  BY <1>1 DEF Refuse, Met, TurnedAway
<1>2. ASSUME engine' = e, SitDownUndone(gs) PROVE Met(fd, id)
  BY <1>2 DEF SitDownUndone, Met, TurnedAway
<1>3. ASSUME NEW n \in Players, NEW ci \in Clients,
             IsFirst(n, EmptySeats(gs[gi])), IsFirst(ci, FreeClients),
             engine' = e, SitDown(fd, id, gi, gs, ci, n)
      PROVE  Met(fd, id)
  <2>1. gs[gi].client_slots[n] = NONE /\ ~clients[ci].active
    BY <1>3 DEF IsFirst, EmptySeats, FreeClients, ActiveClients
  <2>2. SeatTaken(fd, id, gi, gs, ci, n)
    BY <1>3, <2>1 DEF SeatTaken
  <2> QED BY <2>2 DEF Met
<1> QED BY <1>1, <1>2, <1>3 DEF Join

(* A game is made in the first free entry.                                 *)
LEMMA CreatedOK ==
  ASSUME IInv, NEW gi \in Games, ~games[gi].active, NEW id \in GameIds, ~engine[id].init
  PROVE  TablesOK(clients, Created(gi, id), engine_init_game(engine, id), open)
<1>1. TablesOK(clients, games, engine, open)
  BY DEF IInv
<1> QED BY <1>1, CreateOK, ZenonT(30) DEF Created

(* Every way to answer a new connection.                                   *)
LEMMA NewcomerCases ==
  ASSUME IInv, NoShipsYet(games), NEW fd, NEW id \in GameIds,
         server_handle_new_connection(fd, id)
  PROVE  Met(fd, id)
<1>0. TablesOK(clients, games, engine, open) /\ games \in [Games -> Game]
      /\ engine \in [GameIds -> EngineGame] /\ Kept(games, engine)
  BY DEF IInv, TablesOK, Kept
<1>1. CASE JoinExisting(fd, id)
  <2>1. PICK gi \in Games : IsFirst(gi, GamesWithId(id)) /\ Join(fd, id, gi, games, engine)
    BY <1>1 DEF JoinExisting
  <2>2. games[gi].active /\ games[gi].game_id = id
    BY <2>1 DEF IsFirst, GamesWithId, ActiveGames
  <2> QED BY <1>0, <2>1, <2>2, JoinIs
<1>2. CASE JoinCreated(fd, id)
  <2>1. PICK gi \in Games :
           /\ IsFirst(gi, FreeGames)
           /\ Join(fd, id, gi, Created(gi, id), engine_init_game(engine, id))
    BY <1>2 DEF JoinCreated
  <2>2. ~games[gi].active /\ ~engine[id].init
    BY <1>2, <2>1 DEF IsFirst, FreeGames, ActiveGames, JoinCreated, CanInitGame
  <2>3. TablesOK(clients, Created(gi, id), engine_init_game(engine, id), open)
    BY <2>2, CreatedOK
  <2> DEFINE gs == Created(gi, id)
             e == engine_init_game(engine, id)
  <2>4. /\ gs[gi].active /\ gs[gi].game_id = id /\ \A n \in Players : ~gs[gi].ships_received[n]
        /\ \A gj \in Games : gj # gi => gs[gj] = games[gj]
    BY <1>0 DEF Created, FreeGame
  <2>5. \A gj \in Games : games[gj].active => games[gj].game_id # id
    BY <1>2 DEF JoinCreated, GamesWithId, ActiveGames
  <2>6. \A j \in GameIds : j # id => e[j] = engine[j]
    BY <1>0 DEF engine_init_game
  <2>7. \A gj \in Games : games[gj].active => games[gj].game_id \in GameIds
    BY <1>0 DEF TablesOK, GameOK
  <2> HIDE DEF gs, e
  <2>8. NoShipsYet(gs)
    BY <2>4 DEF NoShipsYet
  <2>9. Kept(gs, e)
    BY <2>2, <2>4, <2>5, <2>6, <2>7, <2>8 DEF Kept
  <2> QED BY <2>1, <2>3, <2>4, <2>9, JoinIs DEF gs, e
<1>3. CASE EngineRefusesGame(fd, id)
  <2>1. PICK gi \in Games : /\ IsFirst(gi, FreeGames)
                            /\ Refuse(fd, [games EXCEPT ![gi] = FreeGame], engine)
    BY <1>3 DEF EngineRefusesGame
  <2>2. ~games[gi].active
    BY <2>1 DEF IsFirst, FreeGames, ActiveGames
  <2>3. /\ games' = [games EXCEPT ![gi] = FreeGame] /\ engine' = engine
        /\ UNCHANGED <<clients, open>> /\ sent' = Tell({fd}, <<"JOIN_FAIL">>)
    BY <2>1 DEF Refuse
  <2>4. ~games'[gi].active /\ \A gj \in Games : gj # gi => games'[gj] = games[gj]
    BY <1>0, <2>3 DEF FreeGame
  <2>5. Kept(games', engine')
    BY <2>2, <2>3, <2>4 DEF Kept, NoShipsYet
  <2> QED BY <2>3, <2>5 DEF Met, TurnedAway
<1>4. CASE NoFreeGame(fd, id)
  BY <1>0, <1>4 DEF NoFreeGame, Refuse, Met, TurnedAway, Kept
<1> QED BY <1>1, <1>2, <1>3, <1>4 DEF server_handle_new_connection

(* Nobody sits down: the players of the games see nothing of it.           *)
LEMMA TurnedAwayInv ==
  ASSUME SInv, IInv', UNCHANGED callers, UNCHANGED due,
         NEW p \in Peers, Asking(p), net[p].up # <<>>, NEW fd \in Fds, fd \notin open,
         NEW n, ArrivedFrom(p, fd, n), Deliver(n), TurnedAway(fd)
  PROVE  SInv'
<1> DEFINE l == lib[p]
           c == caller[p]
           d == due[p]
           k == net[p]
           kn == n[p]
           k2 == net'[p]
           s == sent'[fd]
<1>1. /\ Kept(games', engine') /\ clients' = clients /\ open' = open
      /\ sent' = Silence \/ sent' = Tell({fd}, <<"JOIN_FAIL">>)
  BY DEF TurnedAway
<1>2. /\ s = <<>> \/ s = << <<"JOIN_FAIL">> >>
      /\ \A f \in Fds : f # fd => sent'[f] = <<>>
  BY <1>1 DEF Silence, Tell
<1>3. /\ net' \in [Peers -> Net] /\ \A q \in Peers : Handed(n[q], net'[q], sent'[n[q].fd], open')
      /\ IInv /\ Wired(net, open) /\ NONE \notin open' /\ fd # NONE /\ open \subseteq Fds
  BY DeliverIs, Nones DEF ArrivedFrom, IInv, SInv, TablesOK
<1>4. /\ kn.fd = fd /\ kn.up = <<>> /\ kn.down = <<>> /\ kn.hung = k.hung
      /\ \A q \in Peers : q # p => n[q] = net[q]
  BY DEF ArrivedFrom
<1>5. Handed(kn, k2, s, open') /\ kn.fd # NONE /\ kn.fd \notin open'
  BY <1>1, <1>3, <1>4
<1>6. PeerOK(l, c, d, k2) /\ k2.fd = NONE
  <2>1. /\ c.stage = "start" /\ New(c, d)
        /\ l = IF k.hung THEN client_init ELSE Calling("connect")
    BY DEF Asking
  <2>2. <<>> \o s = s
    BY <1>2, FramesJoin, FramesAre, Joined
  <2> HIDE DEF l, c, d, k, kn, k2, s
  <2>3. CASE k.hung
    <3>1. k2 = NoConnection
      BY <2>3, <1>4, <1>5 DEF Handed
    <3>2. Outside(l, c, d, k2)
      BY <2>1, <2>3, <3>1 DEF Outside
    <3> QED BY <3>1, <3>2 DEF PeerOK, NoConnection
  <2>4. CASE ~k.hung
    <3>1. k2.fd = NONE /\ k2.up = <<>> /\ k2.eof /\ ~k2.rst /\ ~k2.hung /\ k2.down = s
      BY <2>2, <2>4, <1>4, <1>5 DEF Handed
    <3>2. LostJoining(l, c, d, k2)
      BY <1>2, <2>1, <2>4, <3>1 DEF LostJoining
    <3>3. Lost(l, c, d, k2)
      BY <3>2 DEF Lost
    <3> QED BY <3>1, <3>3 DEF PeerOK
  <2> QED BY <2>3, <2>4
<1>7. ASSUME NEW q \in Peers, NEW ci \in Clients, q # p, clients'[ci].active,
             clients'[ci].fd = net[q].fd
      PROVE  ClientOfPeer(lib[q], caller[q], due[q], net'[q], View(clients', games', engine', ci))
  <2>1. /\ clients[ci].fd \in open /\ clients[ci].game_index \in Games
        /\ games[clients[ci].game_index].active
    BY <1>1, <1>3, <1>7 DEF IInv, TablesOK, ClientOK
  <2>2. View(clients', games', engine', ci) = View(clients, games, engine, ci)
    BY <1>1, <2>1 DEF View, Kept
  <2>3. ClientOfPeer(lib[q], caller[q], due[q], net[q], View(clients, games, engine, ci))
    BY <1>1, <1>7 DEF SInv, PeersOK
  <2>4. net'[q] = net[q]
    <3>1. /\ net[q] \in Net /\ net'[q] \in Net /\ net[q].fd \in open' /\ sent'[net[q].fd] = <<>>
          /\ net[q].down \in Seq(Frame)
      BY <1>1, <1>2, <1>3, <1>7, <2>1, OneClient DEF Net
    <3>2. Handed(net[q], net'[q], <<>>, open') /\ net[q].down \o <<>> = net[q].down
      BY <1>3, <1>4, <1>7, <3>1, ConcatEmptySeq
    <3> QED BY <3>1, <3>2, HandedNothing
  <2> QED BY <2>2, <2>3, <2>4
<1>8. \A ci \in Clients : clients'[ci].active => clients'[ci].fd # net'[p].fd
  BY <1>3, <1>6 DEF IInv, TablesOK, ClientOK
<1>9. NoShipsYet(games') /\ net[p].fd = NONE
  BY <1>1 DEF Kept, Asking
<1> QED BY <1>1, <1>6, <1>7, <1>8, <1>9, NewcomerStep

(* The other seat is taken.                                                *)
Second(gs, gi, m) == gs[gi].client_slots[Opponent(m)] # NONE

(* What sitting down does to the tables: the game is announced when the    *)
(* other seat is taken.                                                    *)
SatDown(fd, gi, gs, ci, m) ==
    /\ open' = open \cup {fd} /\ \A g \in Games : g # gi => games'[g] = gs[g]
    /\ gs[gi].phase = "WAITING"
    /\ games'[gi].phase = IF Second(gs, gi, m) THEN "PLACEMENT" ELSE "WAITING"
    /\ games'[gi].ships_received = gs[gi].ships_received /\ games'[gi].game_id = gs[gi].game_id
    /\ clients'[ci].fd = fd /\ clients'[ci].player_num = m /\ clients'[ci].game_index = gi
    /\ \A k \in Clients : k # ci =>
          /\ clients'[k].active = clients[k].active /\ clients'[k].fd = clients[k].fd
          /\ clients'[k].game_index = clients[k].game_index
          /\ clients'[k].player_num = clients[k].player_num
    /\ sent' = Then(Tell({fd}, <<"JOIN_OK">>),
                    Tell(IF Second(gs, gi, m) THEN {fd} \cup FdsOf({gs[gi].client_slots[Opponent(m)]}
                                                       \cap ActiveClients)
                         ELSE {}, <<"READY">>))

(* The newcomer's seat: its own record and reply, and READY for both once  *)
(* the second player sits down.                                            *)
LEMMA SitDownIs ==
  ASSUME IInv, NEW fd \in Fds, fd \notin open, NEW id, NEW gs,
         NEW gi \in Games, NEW ci \in Clients, NEW m \in Players, SeatTaken(fd, id, gi, gs, ci, m)
  PROVE  SatDown(fd, gi, gs, ci, m)
<1> DEFINE q == Opponent(m)
           start == Second(gs, gi, m)
           g == [gs[gi] EXCEPT !.client_slots[m] = ci]
           ready == Paired(ci, g.client_slots[q])
           seated == [fd |-> fd, active |-> TRUE, game_id |-> id, player_num |-> m,
                      phase |-> "WAITING", game_index |-> gi]
<1>1. /\ gs \in [Games -> Game] /\ gs[gi] \in Game /\ clients \in [Clients -> Client]
      /\ GameOK(clients, gs, engine', gi) /\ ~clients[ci].active
      /\ gs[gi].client_slots[m] = NONE /\ SitDown(fd, id, gi, gs, ci, m)
  BY DEF SeatTaken, TablesOK
<1>2. gs[gi].phase = "WAITING" /\ q \in Players /\ q # m /\ Players = {m, q}
  BY <1>1, Opponents DEF GameOK
<1>3. /\ g \in Game /\ g.game_id = gs[gi].game_id /\ g.phase = "WAITING"
      /\ g.client_slots[m] = ci /\ g.client_slots[q] = gs[gi].client_slots[q]
      /\ g.ships_received = gs[gi].ships_received
  BY <1>1, <1>2 DEF Game
<1>4. EmptySeats(g) = {} <=> start
  BY <1>2, <1>3, Nones DEF EmptySeats, Second
<1>5. ready \ {ci} = {gs[gi].client_slots[q]} \cap ActiveClients
  BY <1>1, <1>3 DEF Paired, ActiveClients
<1> HIDE DEF g, ready, q, start
<1>6. /\ games' = [gs EXCEPT ![gi] = IF start THEN [g EXCEPT !.phase = "PLACEMENT"] ELSE g]
      /\ clients' = [k \in Clients |->
             LET c == IF k = ci THEN seated ELSE clients[k]
             IN  IF start /\ k \in ready THEN [c EXCEPT !.phase = "PLACEMENT"] ELSE c]
      /\ sent' = Then(Tell({fd}, <<"JOIN_OK">>),
                      Tell(IF start THEN {fd} \cup FdsOf(ready \ {ci}) ELSE {}, <<"READY">>))
      /\ open' = open \cup {fd}
  BY <1>1, <1>4 DEF SitDown, g, ready, q
<1>7. /\ \A h \in Games : h # gi => games'[h] = gs[h]
      /\ games'[gi].phase = IF start THEN "PLACEMENT" ELSE "WAITING"
      /\ games'[gi].ships_received = gs[gi].ships_received
      /\ games'[gi].game_id = gs[gi].game_id
  BY <1>1, <1>3, <1>6 DEF Game
<1>8. \/ clients'[ci] = seated
      \/ clients'[ci] = [seated EXCEPT !.phase = "PLACEMENT"]
  BY <1>6
<1>9. clients'[ci].fd = fd /\ clients'[ci].player_num = m /\ clients'[ci].game_index = gi
  BY <1>8
<1>10. ASSUME NEW k \in Clients, k # ci
       PROVE  /\ clients'[k].active = clients[k].active /\ clients'[k].fd = clients[k].fd
              /\ clients'[k].game_index = clients[k].game_index
              /\ clients'[k].player_num = clients[k].player_num
  <2>1. \/ clients'[k] = clients[k]
        \/ clients'[k] = [clients[k] EXCEPT !.phase = "PLACEMENT"]
    BY <1>6, <1>10
  <2>2. clients[k] \in Client
    BY <1>1
  <2> QED BY <2>1, <2>2 DEF Client
<1>11. sent' = Then(Tell({fd}, <<"JOIN_OK">>),
                    Tell(IF start THEN {fd} \cup FdsOf({gs[gi].client_slots[q]} \cap ActiveClients)
                         ELSE {}, <<"READY">>))
  BY <1>5, <1>6
<1> HIDE DEF seated
<1> QED BY <1>2, <1>6, <1>7, <1>9, <1>10, <1>11 DEF SatDown, q, start

(* How it looks to the newcomer, ...                                       *)
Welcomed(v, s) ==
    /\ ~v.ships
    /\ \/ v.phase = "WAITING" /\ s = << <<"JOIN_OK">> >>
       \/ v.phase = "PLACEMENT" /\ s = << <<"JOIN_OK">>, <<"READY">> >>

(* ... and to those who have a seat.                                       *)
Bystanding(v, v2, s) ==
    \/ v2 = v /\ s = <<>>
    \/ /\ v.phase = "WAITING" /\ v2.phase = "PLACEMENT" /\ v2.ships = v.ships
       /\ s = << <<"READY">> >>

(* After a client sat down, the newcomer is welcomed and every other       *)
(* client stays where it was, or is told READY with its match.             *)
LEMMA SeatViews ==
  ASSUME IInv, IInv', NEW fd \in Fds, fd \notin open, NEW id, NEW gs,
         NEW gi \in Games, NEW ci \in Clients, NEW m \in Players, SeatTaken(fd, id, gi, gs, ci, m)
  PROVE  /\ NoShipsYet(games') /\ open' = open \cup {fd} /\ clients'[ci].fd = fd
         /\ Welcomed(View(clients', games', engine', ci), sent'[fd])
         /\ \A cj \in Clients : cj # ci /\ clients'[cj].active =>
               /\ clients[cj].active /\ clients'[cj].fd = clients[cj].fd
               /\ Bystanding(View(clients, games, engine, cj), View(clients', games', engine', cj),
                          sent'[clients[cj].fd])
<1> DEFINE q == Opponent(m)
           rival == gs[gi].client_slots[q]
           start == Second(gs, gi, m)
           F == FdsOf({rival} \cap ActiveClients)
<1>1. /\ Kept(gs, engine') /\ gs[gi].active /\ TablesOK(clients, gs, engine', open)
      /\ gs[gi].client_slots[m] = NONE
  BY DEF SeatTaken
<1>2. /\ open' = open \cup {fd} /\ \A g \in Games : g # gi => games'[g] = gs[g]
      /\ gs[gi].phase = "WAITING" /\ games'[gi].phase = IF start THEN "PLACEMENT" ELSE "WAITING"
      /\ games'[gi].ships_received = gs[gi].ships_received /\ games'[gi].game_id = gs[gi].game_id
      /\ clients'[ci].fd = fd /\ clients'[ci].player_num = m /\ clients'[ci].game_index = gi
      /\ \A k \in Clients : k # ci =>
            /\ clients'[k].active = clients[k].active /\ clients'[k].fd = clients[k].fd
            /\ clients'[k].game_index = clients[k].game_index
            /\ clients'[k].player_num = clients[k].player_num
      /\ sent' = Then(Tell({fd}, <<"JOIN_OK">>),
                      Tell(IF start THEN {fd} \cup F ELSE {}, <<"READY">>))
  <2>1. SatDown(fd, gi, gs, ci, m)
    BY SitDownIs
  <2> QED BY <2>1 DEF SatDown
<1> HIDE DEF start, q
<1>3. /\ \A n \in Players : ~gs[gi].ships_received[n]
      /\ \A n \in Players : n = m \/ n = q
  BY <1>1, <1>2, Opponents DEF Kept, NoShipsYet, q
<1>4. /\ <<"JOIN_OK">> \in Frame /\ <<"READY">> \in Frame /\ <<>> \o <<>> = <<>>
      /\ \A a \in Frame : <<a>> \o <<>> = <<a>> /\ <<>> \o <<a>> = <<a>>
      /\ << <<"JOIN_OK">> >> \o << <<"READY">> >> = << <<"JOIN_OK">>, <<"READY">> >>
  BY FramesAre, Joined
<1>5. ASSUME NEW f \in Fds
      PROVE  sent'[f] = (IF f = fd THEN << <<"JOIN_OK">> >> ELSE <<>>)
                        \o (IF start /\ f \in {fd} \cup F THEN << <<"READY">> >> ELSE <<>>)
  <2> HIDE DEF F
  <2> QED BY <1>2 DEF Then, Tell
<1>6. NoShipsYet(games')
  <2> SUFFICES ASSUME NEW g \in Games, games'[g].active, games'[g].phase = "WAITING", NEW n \in Players
               PROVE  ~games'[g].ships_received[n]
    BY DEF NoShipsYet
  <2>1. CASE g = gi
    BY <2>1, <1>2, <1>3
  <2>2. CASE g # gi
    BY <2>2, <1>1, <1>2 DEF Kept, NoShipsYet
  <2> QED BY <2>1, <2>2
<1>7. Welcomed(View(clients', games', engine', ci), sent'[fd])
  <2> DEFINE v == View(clients', games', engine', ci)
  <2>1. ~v.ships /\ v.phase = IF start THEN "PLACEMENT" ELSE "WAITING"
    BY <1>2, <1>3 DEF View
  <2>2. sent'[fd] = IF start THEN << <<"JOIN_OK">>, <<"READY">> >> ELSE << <<"JOIN_OK">> >>
    BY <1>4, <1>5
  <2> HIDE DEF v
  <2>3. ASSUME start PROVE Welcomed(v, sent'[fd])
    BY <2>1, <2>2, <2>3 DEF Welcomed
  <2>4. ASSUME ~start PROVE Welcomed(v, sent'[fd])
    BY <2>1, <2>2, <2>4 DEF Welcomed
  <2> QED BY <2>3, <2>4 DEF v
<1>8. ASSUME NEW cj \in Clients, cj # ci, clients'[cj].active
      PROVE  /\ clients[cj].active /\ clients'[cj].fd = clients[cj].fd
             /\ Bystanding(View(clients, games, engine, cj), View(clients', games', engine', cj),
                        sent'[clients[cj].fd])
  <2> DEFINE v == View(clients, games, engine, cj)
             v2 == View(clients', games', engine', cj)
             gj == clients[cj].game_index
  <2>1. /\ clients[cj].active /\ clients'[cj].fd = clients[cj].fd /\ clients'[cj].game_index = gj
        /\ clients'[cj].player_num = clients[cj].player_num
    BY <1>2, <1>8
  <2>2. /\ clients[cj].fd \in Fds /\ clients[cj].fd \in open /\ gj \in Games /\ games[gj].active
        /\ gs[gj] = games[gj] /\ engine'[games[gj].game_id] = engine[games[gj].game_id]
        /\ clients[cj].player_num \in Players
        /\ gs[gj].client_slots[clients[cj].player_num] = cj
    BY <1>1, <2>1 DEF IInv, TablesOK, ClientOK, Kept
  <2>3. clients[cj].fd # fd
    BY <2>2
  <2>4. clients[cj].fd \in F <=> rival = cj
    <3>1. ASSUME clients[cj].fd \in F PROVE rival = cj
      <4>1. PICK k \in {rival} \cap ActiveClients : clients[k].fd = clients[cj].fd
        BY <3>1 DEF FdsOf
      <4> QED BY <4>1, <2>1 DEF IInv, TablesOK, ActiveClients
    <3>2. ASSUME rival = cj PROVE clients[cj].fd \in F
      <4>1. cj \in {rival} \cap ActiveClients
        BY <3>2, <2>1 DEF ActiveClients
      <4> QED BY <4>1 DEF FdsOf
    <3> QED BY <3>1, <3>2
  <2>5. sent'[clients[cj].fd] = IF start /\ rival = cj THEN << <<"READY">> >> ELSE <<>>
    BY <2>2, <2>3, <2>4, <1>4, <1>5
  <2>6. gj = gi <=> rival = cj
    <3>1. ASSUME gj = gi PROVE rival = cj
      <4>1. clients[cj].player_num # m
        BY <3>1, <2>2, <1>1, Nones
      <4> QED BY <4>1, <3>1, <2>2, <1>3
    <3>2. ASSUME rival = cj PROVE gj = gi
      BY <3>2, <1>1, Nones, Opponents DEF TablesOK, GameOK, SeatOK, q
    <3> QED BY <3>1, <3>2
  <2> HIDE DEF F
  <2>7. CASE gj = gi
    <3>1. start /\ rival = cj
      BY <2>6, <2>7, Nones DEF start, Second, q
    <3>2. v.phase = "WAITING" /\ v2.phase = "PLACEMENT" /\ v2.ships = v.ships
      BY <3>1, <2>1, <2>2, <2>7, <1>2 DEF View
    <3> HIDE DEF v, v2
    <3> QED BY <3>1, <3>2, <2>1, <2>5 DEF Bystanding, v, v2
  <2>8. CASE gj # gi
    <3>1. v2 = v
      BY <2>1, <2>2, <2>8, <1>2 DEF View
    <3>2. sent'[clients[cj].fd] = <<>>
      BY <2>5, <2>6, <2>8
    <3> HIDE DEF v, v2
    <3> QED BY <3>1, <3>2, <2>1 DEF Bystanding, v, v2
  <2> QED BY <2>7, <2>8
<1> QED BY <1>2, <1>6, <1>7, <1>8

(* Somebody sits down.                                                     *)
LEMMA SeatTakenInv ==
  ASSUME SInv, IInv', UNCHANGED callers, UNCHANGED due,
         NEW p \in Peers, Asking(p), NEW fd \in Fds, fd \notin open,
         NEW n, ArrivedFrom(p, fd, n), Deliver(n),
         NEW id, NEW gs, NEW gi \in Games, NEW ci \in Clients, NEW m \in Players,
         SeatTaken(fd, id, gi, gs, ci, m)
  PROVE  SInv'
<1> DEFINE w == View(clients', games', engine', ci)
<1>1. /\ IInv /\ Wired(net, open) /\ NONE \notin open /\ fd # NONE /\ open \subseteq Fds
      /\ net' \in [Peers -> Net] /\ \A q \in Peers : Handed(n[q], net'[q], sent'[n[q].fd], open')
  BY DeliverIs, Nones DEF ArrivedFrom, IInv, SInv, TablesOK
<1>2. /\ NoShipsYet(games') /\ open' = open \cup {fd} /\ clients'[ci].fd = fd
      /\ Welcomed(w, sent'[fd])
      /\ \A cj \in Clients : cj # ci /\ clients'[cj].active =>
            /\ clients[cj].active /\ clients'[cj].fd = clients[cj].fd
            /\ Bystanding(View(clients, games, engine, cj), View(clients', games', engine', cj),
                       sent'[clients[cj].fd])
  BY <1>1, SeatViews
<1>3. \A cj \in Clients : cj # ci /\ clients'[cj].active => clients[cj].fd \in open
  BY <1>1, <1>2 DEF IInv, TablesOK, ClientOK
<1>4. /\ n[p].fd = fd /\ n[p].up = <<>> /\ n[p].down = <<>> /\ ~n[p].eof /\ ~n[p].rst
      /\ n[p].hung = net[p].hung /\ \A q \in Peers : q # p => n[q] = net[q]
  BY DEF ArrivedFrom
<1>5. /\ PeerOK(lib[p], caller[p], due[p], net'[p]) /\ net'[p].fd = fd
      /\ ClientOfPeer(lib[p], caller[p], due[p], net'[p], w)
  <2> DEFINE l == lib[p]
             c == caller[p]
             d == due[p]
             k == net[p]
             kn == n[p]
             k2 == net'[p]
             s == sent'[fd]
  <2>1. /\ c.stage = "start" /\ New(c, d)
        /\ l = IF k.hung THEN client_init ELSE Calling("connect")
    BY DEF Asking
  <2>2. Handed(kn, k2, s, open') /\ kn.fd = fd /\ kn.fd \in open' /\ kn.fd # NONE
    BY <1>1, <1>2, <1>4
  <2>3. /\ kn.up = <<>> /\ kn.down = <<>> /\ ~kn.eof /\ ~kn.rst /\ kn.hung = k.hung
    BY <1>4
  <2>4. Welcomed(w, s)
    BY <1>2
  <2>5. <<>> \o s = s
    BY <2>4, FramesJoin, FramesAre DEF Welcomed
  <2> HIDE DEF l, c, d, k, kn, k2, s, w
  <2>6. ASSUME k.hung PROVE PeerOK(l, c, d, k2) /\ k2.fd = fd /\ ClientOfPeer(l, c, d, k2, w)
    <3>1. k2 = kn
      BY <2>2, <2>3, <2>6 DEF Handed
    <3>2. Left(l, c, d, k2)
      BY <2>1, <2>2, <2>3, <2>6, <3>1 DEF Left
    <3> QED BY <2>2, <2>3, <2>6, <3>1, <3>2 DEF PeerOK, ClientOfPeer, UpOK
  <2>7. ASSUME ~k.hung PROVE PeerOK(l, c, d, k2) /\ k2.fd = fd /\ ClientOfPeer(l, c, d, k2, w)
    <3>1. /\ k2.fd = fd /\ k2.up = <<>> /\ ~k2.hung /\ ~k2.eof /\ ~k2.rst /\ k2.down = s
      BY <2>2, <2>3, <2>5, <2>7 DEF Handed
    <3>2. Joining(l, c, d, k2, w)
      BY <2>1, <2>4, <2>7, <3>1 DEF Joining, Welcomed
    <3>3. Served(l, c, d, k2, w)
      BY <3>2 DEF Served
    <3> QED BY <3>1, <3>3, <1>1 DEF PeerOK, ClientOfPeer
  <2> QED BY <2>6, <2>7 DEF l, c, d, k2
<1>6. ASSUME NEW q \in Peers, NEW cj \in Clients, q # p, clients'[cj].active,
             clients'[cj].fd = net[q].fd
      PROVE  ClientOfPeer(lib[q], caller[q], due[q], net'[q], View(clients', games', engine', cj))
  <2> DEFINE l == lib[q]
             c == caller[q]
             d == due[q]
             k == net[q]
             k2 == net'[q]
             v == View(clients, games, engine, cj)
             v2 == View(clients', games', engine', cj)
             s == sent'[k.fd]
  <2>1. cj # ci
    <3>1. net[q].fd # NONE => net[q].fd \in open
      BY <1>1 DEF Wired
    <3> QED BY <3>1, <1>1, <1>2, <1>6
  <2>2. /\ clients[cj].active /\ clients[cj].fd = k.fd /\ k.fd \in open' /\ k.fd # NONE
        /\ Bystanding(v, v2, s)
    BY <1>1, <1>2, <1>3, <1>6, <2>1
  <2>3. /\ PeerOK(l, c, d, k) /\ k \in Net /\ ClientOfPeer(l, c, d, k, v)
        /\ k2 \in Net /\ Handed(k, k2, s, open') /\ k.down \in Seq(Frame)
    BY <1>1, <1>4, <1>6, <2>2, OneClient DEF SInv, PeersOK, Net
  <2> HIDE DEF l, c, d, k, k2, v, v2, s
  <2>4. CASE v2 = v /\ s = <<>>
    <3>1. k2 = k
      BY <2>2, <2>3, <2>4, HandedNothing, ConcatEmptySeq
    <3>2. ClientOfPeer(l, c, d, k2, v2)
      BY <3>1, <2>3, <2>4
    <3> QED BY <3>2 DEF l, c, d, k2, v2
  <2>5. CASE /\ v.phase = "WAITING" /\ v2.phase = "PLACEMENT" /\ v2.ships = v.ships
             /\ s = << <<"READY">> >>
    <3>1. ASSUME k.hung PROVE ClientOfPeer(l, c, d, k2, v2)
      <4>1. k2 = k /\ UpOK(k.up, v)
        BY <2>2, <2>3, <3>1, UpIs DEF Handed
      <4>2. k.up = <<>>
        BY <4>1, <2>5 DEF UpOK
      <4> QED BY <3>1, <4>1, <4>2 DEF ClientOfPeer, UpOK
    <3>2. ASSUME ~k.hung PROVE ClientOfPeer(l, c, d, k2, v2)
      <4>1. Served(l, c, d, k, v) /\ ~k.eof /\ ~k.rst
        BY <2>3, <3>2 DEF ClientOfPeer
      <4>2. /\ k2.up = k.up /\ k2.down = k.down \o << <<"READY">> >>
            /\ ~k2.hung /\ ~k2.eof /\ ~k2.rst
        BY <2>2, <2>3, <2>5, <3>2, <4>1 DEF Handed
      <4>3. Served(l, c, d, k2, v2)
        BY <4>1, <4>2, <2>5, ReadyFits
      <4> QED BY <4>2, <4>3 DEF ClientOfPeer
    <3>3. ClientOfPeer(l, c, d, k2, v2)
      BY <3>1, <3>2
    <3> QED BY <3>3 DEF l, c, d, k2, v2
  <2> QED BY <2>2, <2>4, <2>5 DEF Bystanding
<1>7. ASSUME NEW cj \in Clients, clients'[cj].active, clients'[cj].fd = net'[p].fd
      PROVE  ClientOfPeer(lib[p], caller[p], due[p], net'[p], View(clients', games', engine', cj))
  <2>1. cj = ci
    BY <1>1, <1>2, <1>3, <1>5, <1>7
  <2> QED BY <2>1, <1>5
<1>8. net[p].fd = NONE
  BY DEF Asking
<1> HIDE DEF w
<1> QED BY <1>2, <1>5, <1>6, <1>7, <1>8, NewcomerStep

(* A new connection is accepted, and what it asks for is there.            *)
LEMMA HearNewcomerInv ==
  ASSUME SInv, NEW p \in Peers, HearNewcomer(p), UNCHANGED callers
  PROVE  SInv'
<1> DEFINE id == Head(net[p].up)
<1>1. PICK fd \in Fds \ open : /\ server_handle_new_connection(fd, id)
                               /\ Deliver([Taken(p) EXCEPT ![p].fd = fd])
  BY DEF HearNewcomer
<1>2. net[p].fd = NONE /\ net[p].up # <<>> /\ due' = due
  BY DEF HearNewcomer
<1> DEFINE n == [Taken(p) EXCEPT ![p].fd = fd]
<1>3. id \in GameIds /\ Asking(p) /\ ArrivedFrom(p, fd, n) /\ Deliver(n)
  BY <1>1, <1>2, ArrivedIs
<1>4. IInv /\ NoShipsYet(games)
  BY DEF SInv
<1>5. IInv'
  BY <1>1, <1>3, <1>4, NewConnectionInv
<1>6. Met(fd, id)
  BY <1>1, <1>3, <1>4, NewcomerCases
<1> HIDE DEF id, n
<1>7. CASE TurnedAway(fd)
  BY <1>1, <1>2, <1>3, <1>5, <1>7, TurnedAwayInv
<1>8. CASE \E gs : \E gi \in Games, ci \in Clients, m \in Players : SeatTaken(fd, id, gi, gs, ci, m)
  <2>1. PICK gs : \E gi \in Games, ci \in Clients, m \in Players : SeatTaken(fd, id, gi, gs, ci, m)
    BY <1>8
  <2>2. PICK gi \in Games, ci \in Clients, m \in Players : SeatTaken(fd, id, gi, gs, ci, m)
    BY <2>1
  <2> QED BY <1>1, <1>2, <1>3, <1>5, <2>2, SeatTakenInv
<1> QED BY <1>6, <1>7, <1>8 DEF Met
-----------------------------------------------------------------------------
(* The invariant holds when nobody has connected.                          *)
LEMMA SystemInitInv == SystemInit => SInv
<1> SUFFICES ASSUME SystemInit PROVE SInv
  OBVIOUS
<1>1. /\ Init /\ lib = [p \in Peers |-> client_init] /\ caller = [p \in Peers |-> Newcomer]
      /\ net = [p \in Peers |-> NoConnection] /\ due = [p \in Peers |-> <<>>]
  BY DEF SystemInit
<1>2. IInv
  BY <1>1, InitInv
<1>3. NoShipsYet(games)
  BY <1>1 DEF Init, NoShipsYet, FreeGame
<1>4. open = {} /\ \A ci \in Clients : ~clients[ci].active
  BY <1>1 DEF Init, FreeClient
<1>5. Newcomer \in Caller
  <2>1. 0 \in 0 .. MaxRetries /\ <<>> \in Seq(Outcome)
    BY CallerAssumption, EmptySeq
  <2> QED BY <2>1 DEF Newcomer, Caller
<1>6. NoConnection \in Net /\ client_init \in Lib /\ <<>> \in Seq(Outcome)
  BY EmptySeq DEF NoConnection, Net, client_init, Lib
<1>7. SystemTypeOK
  BY <1>1, <1>5, <1>6 DEF SystemTypeOK
<1>8. NoConnection.fd = NONE /\ NoConnection.hung = FALSE /\ NoConnection.eof = FALSE
  BY DEF NoConnection
<1>9. Wired(net, open)
  BY <1>1, <1>4, <1>8 DEF Wired
<1>10. PeerOK(client_init, Newcomer, <<>>, NoConnection)
  BY <1>8 DEF PeerOK, Outside, New, Newcomer
<1>11. PeersOK(lib, caller, due, net, clients, games, engine)
  BY <1>1, <1>4, <1>10 DEF PeersOK
<1> QED BY <1>2, <1>3, <1>7, <1>9, <1>11 DEF SInv

(* Every step of a client or of the server keeps it.                       *)
LEMMA SystemNextInv == SInv /\ [SystemNext]_system => SInv'
<1> SUFFICES ASSUME SInv, [SystemNext]_system PROVE SInv'
  OBVIOUS
<1>1. ASSUME NEW p \in Peers, Call(p) PROVE SInv'
  BY <1>1, CallInv
<1>2. ASSUME NEW p \in Peers, Return(p) PROVE SInv'
  BY <1>2, ReturnInv
<1>3. ASSUME NEW p \in Peers, client_close(p) \/ Crash(p) PROVE SInv'
  BY <1>3, GoneInv DEF client_close, Crash
<1>4. ASSUME NEW p \in Peers, Reset(p) PROVE SInv'
  BY <1>4, ResetInv
<1>5. ASSUME NEW p \in Peers, ServerHears(p) PROVE SInv'
  BY <1>5, HearNewcomerInv, NewcomerLostInv, HearMessageInv, HearEndInv DEF ServerHears
<1>6. CASE UNCHANGED system
  <2>1. UNCHANGED <<clients, games, num_clients, engine, open, sent, lib, caller, net, due>>
    BY <1>6 DEF system, vars, callers
  <2>2. IInv' /\ SystemTypeOK' /\ NoShipsYet(games') /\ Wired(net', open')
    BY <2>1 DEF SInv, IInv, SystemTypeOK
  <2>3. PeersOK(lib', caller', due', net', clients', games', engine')
    BY <2>1 DEF SInv
  <2> QED BY <2>2, <2>3 DEF SInv
<1> QED BY <1>1, <1>2, <1>3, <1>4, <1>5, <1>6 DEF SystemNext

(* Whatever callers do, crash or lose, the clients, what is in flight and  *)
(* the server's tables stand to each other in one of the listed ways.      *)
THEOREM SystemInvariance == SystemSpec => []SInv
  BY SystemInitInv, SystemNextInv, PTL DEF SystemSpec

-----------------------------------------------------------------------------
(* The properties that the runs check.                                     *)

(* Objects, callers, connections and histories have their types.           *)
THEOREM SystemTypeCorrect == SystemSpec => []SystemTypeOK
<1>1. SInv => SystemTypeOK
  BY DEF SInv
<1> QED BY <1>1, SystemInvariance, PTL

(* What may be read first.                                                 *)
LEMMA AnswerIs == /\ Answer["connect"] = "JOIN_OK" /\ Answer["wait"] = "READY"
                  /\ Answer["ships"] = "SHIPS_ACK" /\ Answer["receive"] = "OPP_MOVE"
  BY DEF Answer

(* The next frame is one that the operation under way may read.            *)
Readable(l, k) == l.call # "none" /\ k.down # <<>> =>
                     Head(k.down)[1] \in {Answer[l.call], "JOIN_FAIL", "ERROR"}

(* A served client reads the answer to its own operation next.             *)
LEMMA ServedReads ==
  ASSUME NEW l, NEW c, NEW d, NEW k, NEW v, Served(l, c, d, k, v)
  PROVE  Readable(l, k)
<1>1. CASE Joining(l, c, d, k, v)
  BY <1>1, Heads, AnswerIs DEF Readable, Joining, Calling
<1>2. CASE Placing(l, c, d, k, v)
  BY <1>2, Heads, AnswerIs DEF Readable, Placing
<1>3. CASE Acked(l, c, d, k, v)
  BY <1>3, Heads, AnswerIs DEF Readable, Acked
<1>4. CASE OnMove(l, c, d, k, v)
  BY <1>4, Heads DEF Readable, OnMove
<1>5. CASE OffMove(l, c, d, k, v)
  BY <1>5, Heads, AnswerIs DEF Readable, OffMove
<1> QED BY <1>1, <1>2, <1>3, <1>4, <1>5 DEF Served

(* So does a client that the server closed, whatever is left on its way.   *)
LEMMA LostReads ==
  ASSUME NEW l, NEW c, NEW d, NEW k, Lost(l, c, d, k)
  PROVE  Readable(l, k)
<1>1. CASE LostJoining(l, c, d, k)
  BY <1>1, Heads, AnswerIs DEF Readable, LostJoining, Calling
<1>2. CASE LostPlacing(l, c, d, k)
  BY <1>2, Heads, AnswerIs DEF Readable, LostPlacing
<1>3. CASE LostOnMove(l, c, d, k)
  BY <1>3, Heads DEF Readable, LostOnMove
<1>4. CASE LostOffMove(l, c, d, k)
  BY <1>4, Heads, AnswerIs DEF Readable, LostOffMove
<1>5. CASE LostOver(l, c, d, k)
  BY <1>5 DEF Readable, LostOver
<1> QED BY <1>1, <1>2, <1>3, <1>4, <1>5 DEF Lost

(* No operation takes the answer to another, or an opponent's move, for    *)
(* its own (client.c:100, 133, 171, 212, 254, 297: each reads one frame).  *)
THEOREM AnswersDoFit == SystemSpec => []AnswersFit
<1>1. ASSUME SInv, NEW p \in Peers PROVE Readable(lib[p], net[p])
  <2> DEFINE l == lib[p]
             c == caller[p]
             d == due[p]
             k == net[p]
  <2>1. PeerOK(l, c, d, k)
    BY <1>1, OneClient
  <2>2. CASE k.hung /\ Left(l, c, d, k)
    BY <2>2 DEF Left, Readable
  <2>3. CASE Outside(l, c, d, k)
    BY <2>3 DEF Outside, NoConnection, Readable
  <2>4. CASE Lost(l, c, d, k)
    BY <2>4, LostReads
  <2>5. CASE ~k.hung /\ k.fd # NONE
    <3>1. PICK v : ClientOfPeer(l, c, d, k, v)
      BY <1>1, <2>5, AcceptedClient
    <3> QED BY <2>5, <3>1, ServedReads DEF ClientOfPeer
  <2> QED BY <2>1, <2>2, <2>3, <2>4, <2>5 DEF PeerOK
<1>2. SInv => AnswersFit
  BY <1>1 DEF AnswersFit, Readable
<1> QED BY <1>2, SystemInvariance, PTL

(* A client on a connection, as the server's tables and the properties     *)
(* name it.                                                                *)
LEMMA SeatIs ==
  ASSUME SInv, NEW p \in Peers, Accepted(p)
  PROVE  /\ View(clients, games, engine, ClientOf(p)) =
               [player |-> SeatOf(p).player_num, phase |-> MatchOf(p).phase,
                ships |-> MatchOf(p).ships_received[SeatOf(p).player_num],
                turn |-> engine[MatchOf(p).game_id].turn]
         /\ View(clients, games, engine, ClientOf(p)) \in ViewType
         /\ ClientOfPeer(lib[p], caller[p], due[p], net[p], View(clients, games, engine, ClientOf(p)))
         /\ ClientOf(p) \in Clients /\ clients[ClientOf(p)].active
         /\ clients[ClientOf(p)].fd = net[p].fd
         /\ SeatOf(p).game_index \in Games /\ SeatOf(p).player_num \in Players
         /\ SeatOf(p).game_id = MatchOf(p).game_id
         /\ GameOK(clients, games, engine, SeatOf(p).game_index)
<1> DEFINE ci == ClientOf(p)
<1>1. /\ ci \in Clients /\ clients[ci].active /\ clients[ci].fd = net[p].fd
      /\ View(clients, games, engine, ci) \in ViewType
      /\ ClientOfPeer(lib[p], caller[p], due[p], net[p], View(clients, games, engine, ci))
  BY HeardClient DEF Accepted
<1> HIDE DEF ci
<1>2. /\ clients[ci].game_index \in Games /\ clients[ci].player_num \in Players
      /\ clients[ci].game_id = games[clients[ci].game_index].game_id
      /\ GameOK(clients, games, engine, clients[ci].game_index)
  BY <1>1 DEF SInv, IInv, TablesOK, ClientOK
<1> QED BY <1>1, <1>2 DEF ci, View, SeatOf, MatchOf

(* A request that reaches the server is one the match is ready for         *)
(* (game.c:187, 209, 247, 267, 335: no request is refused for its phase,   *)
(* for ships placed twice or for a move out of turn).                      *)
THEOREM RequestsAreInPhase == SystemSpec => []RequestsInPhase
<1>1. ASSUME SInv, NEW p \in Peers, Accepted(p), net[p].up # <<>>
      PROVE  LET request == Head(net[p].up)
             IN  /\ request = "SHIPS" => /\ MatchOf(p).phase = "PLACEMENT"
                                         /\ ~MatchOf(p).ships_received[SeatOf(p).player_num]
                 /\ request \in {"MOVE", "MOVE_EXT"} =>
                       /\ MatchOf(p).phase = "PLAYING"
                       /\ CanTakeTurn(engine, SeatOf(p).game_id, SeatOf(p).player_num)
  <2> DEFINE v == View(clients, games, engine, ClientOf(p))
             request == Head(net[p].up)
             g == MatchOf(p)
             e == engine[g.game_id]
  <2>1. /\ v.phase = g.phase /\ v.ships = g.ships_received[SeatOf(p).player_num]
        /\ v.player = SeatOf(p).player_num /\ v.turn = e.turn
        /\ SeatOf(p).game_id = g.game_id /\ BoardsOK(g, e)
        /\ ClientOfPeer(lib[p], caller[p], due[p], net[p], v)
    BY <1>1, SeatIs DEF GameOK, MatchOf
  <2>2. UpOK(net[p].up, v)
    BY <2>1, UpIs
  <2>3. \/ request = "SHIPS" /\ v.phase = "PLACEMENT" /\ ~v.ships
        \/ request \in {"MOVE", "MOVE_EXT"} /\ v.phase = "PLAYING" /\ v.turn = v.player
    BY <1>1, <2>2, Heads DEF UpOK
  <2>4. g.phase = "PLAYING" => e.init /\ \A q \in Players : e.fleet[q] # NoFleet
    BY <2>1 DEF BoardsOK, Players
  <2> HIDE DEF v, request, g, e
  <2>5. request = "SHIPS" => g.phase = "PLACEMENT" /\ ~g.ships_received[SeatOf(p).player_num]
    BY <2>1, <2>3
  <2>6. request \in {"MOVE", "MOVE_EXT"} =>
           /\ g.phase = "PLAYING" /\ e.init /\ \A q \in Players : e.fleet[q] # NoFleet
           /\ e.turn = SeatOf(p).player_num
    BY <2>1, <2>3, <2>4
  <2> QED BY <2>1, <2>5, <2>6 DEF CanTakeTurn, request, g, e
<1>2. SInv => RequestsInPhase
  BY <1>1 DEF RequestsInPhase
<1> QED BY <1>2, SystemInvariance, PTL

(* client_send_ships returns the client's number, and only when both       *)
(* players have placed their ships (game.c:163-178, 216, client.c:171-186). *)
THEOREM ShipsAreAckedTogether == SystemSpec => []ShipsAckedTogether
<1>1. ASSUME SInv, NEW p \in Peers, caller[p].player # 0, Accepted(p)
      PROVE  MatchOf(p).phase = "PLAYING" /\ SeatOf(p).player_num = caller[p].player
  <2> DEFINE l == lib[p]
             c == caller[p]
             d == due[p]
             k == net[p]
             v == View(clients, games, engine, ClientOf(p))
  <2>1. /\ v.phase = MatchOf(p).phase /\ v.player = SeatOf(p).player_num
        /\ ClientOfPeer(l, c, d, k, v)
    BY <1>1, SeatIs
  <2>2. PeerOK(l, c, d, k) /\ c.player # 0 /\ k.fd # NONE
    BY <1>1, OneClient DEF Accepted
  <2> HIDE DEF l, c, d, k, v
  <2>3. ~k.hung
    BY <2>2 DEF PeerOK, Left, New
  <2>4. Served(l, c, d, k, v)
    BY <2>1, <2>3 DEF ClientOfPeer
  <2>5. OnMove(l, c, d, k, v) \/ OffMove(l, c, d, k, v)
    BY <2>2, <2>4 DEF Served, Joining, Placing, Acked, New
  <2>6. c.player = v.player /\ v.phase = "PLAYING"
    BY <2>5 DEF OnMove, OffMove
  <2> QED BY <2>1, <2>6 DEF c
<1>2. SInv => ShipsAckedTogether
  BY <1>1 DEF ShipsAckedTogether
<1> QED BY <1>2, SystemInvariance, PTL

(* One or two moves more.                                                  *)
LEMMA MovesMore ==
  ASSUME NEW h \in Seq(Outcome), NEW n \in Players, NEW m \in Players,
         NEW r \in {"Miss", "Win"}, NEW d,
         \/ d = h
         \/ d = Append(h, <<n, r>>)
         \/ d = Append(Append(h, <<n, "Miss">>), <<m, r>>)
  PROVE  IsPrefix(h, d)
<1>1. <<n, r>> \in Outcome /\ <<n, "Miss">> \in Outcome /\ <<m, r>> \in Outcome
  BY DEF Outcome
<1>2. IsPrefix(h, h) /\ IsPrefix(h, Append(h, <<n, r>>))
  BY <1>1, Beginnings
<1>3. IsPrefix(h, Append(Append(h, <<n, "Miss">>), <<m, r>>))
  BY <1>1, Beginnings
<1> QED BY <1>2, <1>3

(* What was heard is the beginning of what there is to hear.               *)
LEMMA ServedHeard ==
  ASSUME NEW l, NEW c \in Caller, NEW d \in Seq(Outcome), NEW k, NEW v \in ViewType,
         Served(l, c, d, k, v)
  PROVE  IsPrefix(c.heard, d)
<1>0. c.heard \in Seq(Outcome) /\ \A n \in Players, r \in {"Miss", "Win"} : <<n, r>> \in Outcome
  BY DEF Caller, Outcome
<1>1. CASE c.heard = <<>>
  BY <1>1, <1>0, Beginnings DEF Outcome, Players
<1>2. CASE OnMove(l, c, d, k, v)
  <2>1. v.player \in Players /\ c.player = v.player /\ Opponent(v.player) \in Players
    BY <1>2, Opponents DEF OnMove, ViewType
  <2>2. \/ d = c.heard
        \/ d = Append(c.heard, <<c.player, "Miss">>)
        \/ d = Append(Append(c.heard, <<c.player, "Miss">>), <<Opponent(c.player), "Miss">>)
    BY <1>2 DEF OnMove
  <2> QED BY <1>0, <2>1, <2>2, MovesMore
<1>3. CASE OffMove(l, c, d, k, v)
  <2>1. v.player \in Players /\ c.player = v.player /\ Opponent(v.player) \in Players
    BY <1>3, Opponents DEF OffMove, ViewType
  <2>2. \/ d = c.heard
        \/ d = Append(c.heard, <<Opponent(c.player), "Miss">>)
    BY <1>3 DEF OffMove
  <2> QED BY <1>0, <2>1, <2>2, MovesMore
<1> QED BY <1>1, <1>2, <1>3 DEF Served, Joining, Placing, Acked, New

(* What the caller of a closed client heard is a prefix of what was due.   *)
LEMMA LostHeard ==
  ASSUME NEW l, NEW c \in Caller, NEW d \in Seq(Outcome), NEW k, Lost(l, c, d, k)
  PROVE  IsPrefix(c.heard, d)
<1>0. c.heard \in Seq(Outcome) /\ \A n \in Players, r \in {"Miss", "Win"} : <<n, r>> \in Outcome
  BY DEF Caller, Outcome
<1>1. CASE c.heard = <<>>
  BY <1>1, <1>0, Beginnings DEF Outcome, Players
<1>2. CASE LostOnMove(l, c, d, k)
  <2>1. c.player \in Players /\ Opponent(c.player) \in Players
    BY <1>2, Opponents DEF LostOnMove
  <2>2. \/ d = c.heard
        \/ \E r \in {"Miss", "Win"} : d = Append(c.heard, <<c.player, r>>)
        \/ \E r \in {"Miss", "Win"} :
              d = Append(Append(c.heard, <<c.player, "Miss">>), <<Opponent(c.player), r>>)
    BY <1>2 DEF LostOnMove
  <2> QED BY <1>0, <2>1, <2>2, MovesMore
<1>3. CASE LostOffMove(l, c, d, k)
  <2>1. c.player \in Players /\ Opponent(c.player) \in Players
    BY <1>3, Opponents DEF LostOffMove
  <2>2. \/ d = c.heard
        \/ \E r \in {"Miss", "Win"} : d = Append(c.heard, <<Opponent(c.player), r>>)
    BY <1>3 DEF LostOffMove
  <2> QED BY <1>0, <2>1, <2>2, MovesMore
<1>4. CASE LostOver(l, c, d, k)
  BY <1>4 DEF LostOver
<1> QED BY <1>1, <1>2, <1>3, <1>4 DEF Lost, LostJoining, LostPlacing, New

(* The moves that the library returned to a player are the first moves of  *)
(* its match, in their order (client.c:212, 254, 297; game.c:297, 347).    *)
THEOREM ViewsDoAgree == SystemSpec => []ViewsAgree
<1>1. ASSUME SInv, NEW p \in Peers PROVE IsPrefix(caller[p].heard, due[p])
  <2> DEFINE l == lib[p]
             c == caller[p]
             d == due[p]
             k == net[p]
  <2>1. PeerOK(l, c, d, k) /\ c \in Caller /\ d \in Seq(Outcome)
    BY <1>1, OneClient
  <2>2. ASSUME New(c, d) PROVE IsPrefix(c.heard, d)
    <3>1. <<1, "Miss">> \in Outcome
      BY DEF Outcome, Players
    <3>2. IsPrefix(<<>>, d)
      BY <2>1, <3>1, Beginnings
    <3> QED BY <2>2, <3>2 DEF New
  <2>3. CASE k.hung /\ Left(l, c, d, k)
    BY <2>2, <2>3 DEF Left
  <2>4. CASE Outside(l, c, d, k)
    BY <2>2, <2>4 DEF Outside
  <2>5. CASE Lost(l, c, d, k)
    BY <2>1, <2>5, LostHeard
  <2>6. CASE ~k.hung /\ k.fd # NONE
    <3>1. PICK v \in ViewType : ClientOfPeer(l, c, d, k, v)
      BY <1>1, <2>6, AcceptedClient
    <3> QED BY <2>1, <2>6, <3>1, ServedHeard DEF ClientOfPeer
  <2> QED BY <2>1, <2>3, <2>4, <2>5, <2>6 DEF PeerOK
<1>2. SInv => ViewsAgree
  BY <1>1 DEF ViewsAgree
<1> QED BY <1>2, SystemInvariance, PTL

(* For what a blocked operation waits.                                     *)
LEMMA WaitsFor ==
  ASSUME NEW l, NEW c, NEW d, NEW k, NEW v \in ViewType, Served(l, c, d, k, v),
         l.call # "none", k.up = <<>>, k.down = <<>>
  PROVE  \/ v.phase = "WAITING"
         \/ v.phase = "PLACEMENT" /\ v.ships
         \/ v.phase = "PLAYING" /\ v.turn = Opponent(v.player)
<1>1. CASE Joining(l, c, d, k, v)
  BY <1>1, Heads DEF Joining
<1>2. CASE Placing(l, c, d, k, v)
  BY <1>2, Heads DEF Placing
<1>3. CASE Acked(l, c, d, k, v)
  BY <1>3, Heads DEF Acked
<1>4. CASE OnMove(l, c, d, k, v)
  BY <1>4, Heads DEF OnMove
<1>5. CASE OffMove(l, c, d, k, v)
  BY <1>5, Heads DEF OffMove
<1> QED BY <1>1, <1>2, <1>3, <1>4, <1>5 DEF Served

(* A client on a connection that is blocked is one of these.               *)
LEMMA BlockedIs ==
  ASSUME SInv, NEW p \in Peers, Accepted(p), Blocked(p)
  PROVE  \/ MatchOf(p).phase = "WAITING"
         \/ /\ MatchOf(p).phase = "PLACEMENT"
            /\ MatchOf(p).ships_received[SeatOf(p).player_num]
         \/ /\ MatchOf(p).phase = "PLAYING"
            /\ engine[MatchOf(p).game_id].turn = Opponent(SeatOf(p).player_num)
<1> DEFINE l == lib[p]
           c == caller[p]
           d == due[p]
           k == net[p]
           v == View(clients, games, engine, ClientOf(p))
<1>1. /\ l.call # "none" /\ k.up = <<>> /\ k.down = <<>>
      /\ ClientOfPeer(l, c, d, k, v) /\ PeerOK(l, c, d, k) /\ k.fd # NONE /\ v \in ViewType
  BY SeatIs, OneClient DEF Blocked, Accepted
<1>2. /\ v.player = SeatOf(p).player_num /\ v.phase = MatchOf(p).phase
      /\ v.ships = MatchOf(p).ships_received[SeatOf(p).player_num]
      /\ v.turn = engine[MatchOf(p).game_id].turn
  BY SeatIs
<1> HIDE DEF l, c, d, k, v
<1>3. ~k.hung
  BY <1>1 DEF PeerOK, Left, client_init
<1>4. Served(l, c, d, k, v)
  BY <1>1, <1>3 DEF ClientOfPeer
<1>5. \/ v.phase = "WAITING"
      \/ v.phase = "PLACEMENT" /\ v.ships
      \/ v.phase = "PLAYING" /\ v.turn = Opponent(v.player)
  BY <1>1, <1>4, WaitsFor
<1> QED BY <1>2, <1>5

(* The opponent in a match that has begun.                                 *)
LEMMA OpponentIs ==
  ASSUME SInv, NEW p \in Peers, Accepted(p), MatchOf(p).phase # "WAITING"
  PROVE  \E q \in Peers : /\ Accepted(q) /\ SeatOf(q).game_index = SeatOf(p).game_index
                          /\ SeatOf(q).player_num = Opponent(SeatOf(p).player_num)
<1> DEFINE gi == SeatOf(p).game_index
           m == Opponent(SeatOf(p).player_num)
           cj == games[gi].client_slots[m]
<1>1. /\ gi \in Games /\ m \in Players /\ GameOK(clients, games, engine, gi)
      /\ games[gi].phase # "WAITING"
  BY SeatIs, Opponents DEF MatchOf
<1>2. cj \in Clients /\ clients[cj].active /\ clients[cj].game_index = gi /\ clients[cj].player_num = m
  BY <1>1 DEF GameOK, SeatOK
<1>3. clients[cj].fd \in open /\ clients[cj].fd # NONE
  <2>1. ClientOK(clients, games, open, cj)
    BY <1>2 DEF SInv, IInv, TablesOK
  <2>2. clients[cj].fd \in open /\ open \subseteq Fds
    BY <2>1, <1>2 DEF ClientOK, SInv, IInv, TablesOK
  <2> QED BY <2>2, Nones
<1>4. PICK q \in Peers : net[q].fd = clients[cj].fd
  BY <1>3 DEF SInv, Wired
<1>5. Accepted(q) /\ ClientOf(q) = cj
  <2>1. net[q].fd # NONE
    BY <1>3, <1>4
  <2>2. \A k \in Clients : clients[k].active /\ clients[k].fd = net[q].fd => k = ClientOf(q)
    BY <2>1, HeardClient
  <2> QED BY <1>2, <1>4, <2>1, <2>2 DEF Accepted
<1>6. SeatOf(q).game_index = gi /\ SeatOf(q).player_num = m
  BY <1>2, <1>5 DEF SeatOf
<1> QED BY <1>5, <1>6

(* Two players of a match never wait for each other: one of them has       *)
(* something to read or to do, unless a seat is still empty (client.c:29,  *)
(* recv_frame blocks).                                                     *)
THEOREM NobodyIsStuck == SystemSpec => []NobodyStuck
<1>1. ASSUME SInv, NEW p \in Peers, Accepted(p), Blocked(p), EmptySeats(MatchOf(p)) = {}
      PROVE  \E q \in Peers : /\ Accepted(q) /\ ~Blocked(q)
                               /\ SeatOf(q).game_index = SeatOf(p).game_index
  <2> DEFINE g == MatchOf(p)
             n == SeatOf(p).player_num
  <2>1. n \in Players /\ GameOK(clients, games, engine, SeatOf(p).game_index)
    BY <1>1, SeatIs
  <2>2. g.phase # "WAITING"
    BY <1>1, <2>1 DEF GameOK, EmptySeats, MatchOf
  <2>3. PICK q \in Peers : /\ Accepted(q) /\ SeatOf(q).game_index = SeatOf(p).game_index
                           /\ SeatOf(q).player_num = Opponent(n)
    BY <1>1, <2>2, OpponentIs
  <2>4. MatchOf(q) = g
    BY <2>3 DEF MatchOf
  <2>5. BoardsOK(g, engine[g.game_id])
    BY <2>1 DEF GameOK, MatchOf
  <2>6. Opponent(n) # n /\ Opponent(Opponent(n)) = n /\ Players = {n, Opponent(n)}
    BY <2>1, Opponents DEF Opponent, Players
  <2>7. \/ g.phase = "PLACEMENT" /\ g.ships_received[n]
        \/ g.phase = "PLAYING" /\ engine[g.game_id].turn = Opponent(n)
    BY <1>1, <2>2, BlockedIs
  <2>8. ASSUME Blocked(q)
        PROVE  \/ g.phase = "PLACEMENT" /\ g.ships_received[Opponent(n)]
               \/ g.phase = "PLAYING" /\ engine[g.game_id].turn = n
    <3>1. \/ MatchOf(q).phase = "WAITING"
          \/ /\ MatchOf(q).phase = "PLACEMENT"
             /\ MatchOf(q).ships_received[SeatOf(q).player_num]
          \/ /\ MatchOf(q).phase = "PLAYING"
             /\ engine[MatchOf(q).game_id].turn = Opponent(SeatOf(q).player_num)
      BY <1>1, <2>3, <2>8, BlockedIs
    <3> QED BY <3>1, <2>2, <2>3, <2>4, <2>6
  <2> HIDE DEF g, n
  <2>9. ~Blocked(q)
    <3> SUFFICES ASSUME Blocked(q) PROVE FALSE
      OBVIOUS
    <3>1. g.phase = "PLACEMENT" /\ g.ships_received[n] /\ g.ships_received[Opponent(n)]
      BY <2>6, <2>7, <2>8
    <3>2. \A m \in Players : g.ships_received[m]
      BY <2>6, <3>1
    <3>3. g.phase = "PLAYING"
      BY <2>5, <3>2 DEF BoardsOK
    <3> QED BY <3>1, <3>3
  <2> QED BY <2>3, <2>9
<1>2. SInv => NobodyStuck
  BY <1>1 DEF NobodyStuck
<1> QED BY <1>2, SystemInvariance, PTL

(* A step of the system on the server's tables.                            *)
LEMMA ServerSteps == SInv /\ [SystemNext]_system => [Next]_tables
<1> SUFFICES ASSUME SInv, [SystemNext]_system PROVE Next \/ UNCHANGED tables
  OBVIOUS
<1>1. ASSUME NEW p \in Peers, Call(p) \/ Return(p) \/ client_close(p) \/ Crash(p) \/ Reset(p)
      PROVE  UNCHANGED tables
  BY <1>1 DEF Call, Return, client_close, Crash, Reset, Gone, ServerRests
<1>2. ASSUME NEW p \in Peers, HearNewcomer(p) PROVE Next
  <2>1. PICK fd \in Fds \ open : server_handle_new_connection(fd, Head(net[p].up))
    BY <1>2 DEF HearNewcomer
  <2>2. Head(net[p].up) \in GameIds
    BY <1>2, <2>1, ArrivedIs DEF HearNewcomer
  <2> QED BY <2>1, <2>2 DEF Next
<1>3. ASSUME NEW p \in Peers, NewcomerLost(p) PROVE UNCHANGED tables
  BY <1>3 DEF NewcomerLost
<1>4. ASSUME NEW p \in Peers, HearMessage(p) PROVE Next
  <2>1. /\ ClientOf(p) \in ActiveClients
        /\ server_handle_client_message(ClientOf(p), Head(net[p].up))
    BY <1>4, HeardClient DEF HearMessage
  <2>2. Head(net[p].up) \in MsgType
    BY <2>1 DEF server_handle_client_message, MsgType
  <2> QED BY <2>1, <2>2 DEF Next
<1>5. ASSUME NEW p \in Peers, HearEnd(p) PROVE Next
  <2>1. ClientOf(p) \in ActiveClients /\ server_on_client_disconnect(ClientOf(p))
    BY <1>5, HeardClient DEF HearEnd
  <2> QED BY <2>1 DEF Next
<1>6. CASE UNCHANGED system
  BY <1>6 DEF system, vars, tables
<1> QED BY <1>1, <1>2, <1>3, <1>4, <1>5, <1>6 DEF SystemNext, ServerHears

(* The server in the system is the server by itself: a step of the system  *)
(* is a step of its tables by one handler, or leaves them alone.           *)
THEOREM SystemRunsServer == SystemSpec => Init /\ [][Next]_tables
<1>1. SystemInit => Init
  BY DEF SystemInit
<1> QED BY <1>1, ServerSteps, SystemInvariance, PTL DEF SystemSpec

(* Played through the library, with callers that crash, hang up and lose   *)
(* their connections, the matches are those that Matches promises: the     *)
(* seats, turns and ends that the clients of client.c are served with.     *)
THEOREM SystemImplementsMatches == SystemSpec => ImplementsMatches
<1>1. SystemInit => MInv /\ Match!Init
  BY InitImplements DEF SystemInit
<1>2. SInv /\ MInv /\ SInv' /\ [SystemNext]_system => MInv' /\ [Match!Next]_Match!vars
  <2>1. SInv' => IInv'
    BY DEF SInv
  <2> QED BY <2>1, ServerSteps, TablesImplement
<1> QED BY <1>1, <1>2, SystemInvariance, PTL DEF SystemSpec, ImplementsMatches, Match!Spec
=============================================================================
