----------------------------- MODULE SelectLoop -----------------------------
(***************************************************************************)
(* The server's event loop (server_c/server.c) over the game table: one    *)
(* thread that waits in select, accepts a connection and reads its game    *)
(* id, then reads every ready client into its ClientBuffer and hands the   *)
(* frames found there to the handlers of game.c.                           *)
(*                                                                         *)
(* The atomic steps are the points at which the thread can meet the        *)
(* network: select, accept, the read of a game id, one read of one client, *)
(* one frame.  The kernel and the peers are external: a connection is a    *)
(* line of data in flight towards the server, and a peer that may hang up. *)
(*                                                                         *)
(* Data are cut where the server can tell the difference: a game id; the   *)
(* length of a frame, good or "BAD" (0 or above PROTO_MAX_FRAME); the body *)
(* of a frame, named by its message type.  A read may end between the      *)
(* length and the body.  The byte counts are not modelled here, nor the    *)
(* error returns of select, which only repeat it.                          *)
(***************************************************************************)
EXTENDS GameServer

CONSTANTS Peers,        \* programs that connect to the server
          Bodies,       \* the message types they send, among MsgType
          MaxLine,      \* bound: data in flight on a connection
          MaxDials      \* bound: connections a peer makes; 0: no bound

LISTEN == 0             \* the listening descriptor

ASSUME LoopAssumption == /\ Fds \subseteq Nat \ {LISTEN}
                         /\ Bodies \subseteq MsgType
                         /\ MaxLine \in Nat \ {0}
                         /\ MaxDials \in Nat

(* accept always finds a descriptor: a process may have more of them than  *)
(* there are client entries (at least the FD_SETSIZE of select, 1024, and  *)
(* MAX_CLIENTS is 64).                                                     *)
ASSUME DescriptorsAssumption == IsFiniteSet(Fds) => Cardinality(Fds) > MAX_CLIENTS

VARIABLES bufs,         \* client_bufs
          readfds,      \* the descriptors select reported
          pc,           \* where the loop of main stands
          cur,          \* "id": the descriptor; "scan", "frames": the client
          bi,           \* "frames": the buffer being processed
          net,          \* what the peers have done
          backlog       \* connections waiting for accept

loop == <<bufs, readfds, pc, cur, bi>>
all  == <<vars, loop, net, backlog>>

Bufs == Clients
Data == GameIds \cup {"LEN", "BAD"} \cup MsgType

(* fd: the server's descriptor for the peer; line: sent and not yet read;  *)
(* say: what the peer sends next; hung: it has closed its end.             *)
Peer == [fd : Fds \cup {NONE}, line : Seq(Data), say : {"ID", "LEN", "BODY", "ANY"},
         hung : BOOLEAN, dials : 0 .. MaxDials]

Away(n) == [fd |-> NONE, line |-> <<>>, say |-> "ID", hung |-> FALSE, dials |-> n]

FreeBuf == [in_use |-> FALSE, client_index |-> NONE, data |-> <<>>]

LoopInit ==
    /\ Init
    /\ bufs = [b \in Bufs |-> FreeBuf]
    /\ readfds = {}
    /\ pc = "select"
    /\ cur = NONE
    /\ bi = NONE
    /\ net = [p \in Peers |-> Away(0)]
    /\ backlog = <<>>
-----------------------------------------------------------------------------
(* The peers.                                                              *)

Waiting(p) == \E i \in 1 .. Len(backlog) : backlog[i] = p
Connected(p) == net[p].fd # NONE \/ Waiting(p)

Quiet == sent' = Silence /\ UNCHANGED tables

Dial(p) ==
    /\ ~Connected(p)
    /\ net[p].dials < MaxDials \/ MaxDials = 0
    /\ net' = [net EXCEPT ![p] = Away(IF MaxDials = 0 THEN 0 ELSE @.dials + 1)]
    /\ backlog' = Append(backlog, p)

(* A frame is a length and then a body; after a bad length anything.       *)
Say(p, d, next) ==
    /\ Connected(p)
    /\ ~net[p].hung
    /\ Len(net[p].line) < MaxLine
    /\ net' = [net EXCEPT ![p].line = Append(@, d), ![p].say = next]
    /\ UNCHANGED backlog

SayId(p)   == net[p].say = "ID" /\ \E id \in GameIds : Say(p, id, "LEN")
SayMore(p) == \/ net[p].say = "LEN" /\ Say(p, "LEN", "BODY")
              \/ net[p].say = "LEN" /\ Say(p, "BAD", "ANY")
              \/ net[p].say = "BODY" /\ \E t \in Bodies : Say(p, t, "LEN")

(* Closing leaves the data in flight readable, or a reset discards them.   *)
HangUp(p) ==
    /\ Connected(p)
    /\ ~net[p].hung
    /\ \E line \in {net[p].line, <<>>} :
          net' = [net EXCEPT ![p].hung = TRUE, ![p].line = line]
    /\ UNCHANGED backlog

PeerStep(p) == /\ Dial(p) \/ SayId(p) \/ SayMore(p) \/ HangUp(p)
               /\ Quiet
               /\ UNCHANGED loop
-----------------------------------------------------------------------------
(* The server.                                                             *)

PeerAt(fd) == CHOOSE p \in Peers : net[p].fd = fd
Line(fd)   == net[PeerAt(fd)].line
Hung(fd)   == net[PeerAt(fd)].hung

(* A closed descriptor takes its connection and the data in flight along.  *)
Drop(n, F) == [p \in Peers |-> IF n[p].fd \in F THEN Away(n[p].dials) ELSE n[p]]

Readable(fd) == Line(fd) # <<>> \/ Hung(fd)
Ready == {fd \in FdsOf(ActiveClients) : Readable(fd)}
         \cup (IF backlog # <<>> THEN {LISTEN} ELSE {})

GoTo(label, c, b) == pc' = label /\ cur' = c /\ bi' = b

StaleSelect ==                          \* fault: no FD_ZERO
    /\ pc = "select"
    /\ Ready # {}
    /\ readfds' = readfds \cup Ready
    /\ GoTo("accept", NONE, NONE)
    /\ UNCHANGED <<bufs, net, backlog>>
    /\ Quiet

Select ==
    /\ pc = "select"
    /\ Ready # {}
    /\ readfds' = Ready
    /\ GoTo("accept", NONE, NONE)
    /\ UNCHANGED <<bufs, net, backlog>>
    /\ Quiet

(* accept returns the lowest descriptor that is free.                      *)
Accept ==
    /\ pc = "accept"
    /\ LISTEN \in readfds
    /\ backlog # <<>>
    /\ \E fd \in Fds :
          /\ IsFirst(fd, Fds \ open)
          /\ net' = [net EXCEPT ![Head(backlog)].fd = fd]
          /\ GoTo("id", fd, NONE)
    /\ backlog' = Tail(backlog)
    /\ UNCHANGED <<bufs, readfds>>
    /\ Quiet

(* The connection was aborted while it waited.                             *)
AcceptFails ==
    /\ pc = "accept"
    /\ LISTEN \in readfds
    /\ backlog # <<>>
    /\ net[Head(backlog)].hung
    /\ net' = [net EXCEPT ![Head(backlog)] = Away(@.dials)]
    /\ GoTo("select", NONE, NONE)
    /\ backlog' = Tail(backlog)
    /\ UNCHANGED <<bufs, readfds>>
    /\ Quiet

NoConnection ==
    /\ pc = "accept"
    /\ LISTEN \notin readfds
    /\ GoTo("scan", 0, NONE)
    /\ UNCHANGED <<bufs, readfds, net, backlog>>
    /\ Quiet

FreeBufs == {b \in Bufs : ~bufs[b].in_use}
NewBuf(ci) == [FreeBuf EXCEPT !.in_use = TRUE, !.client_index = ci]

NoBuf(ci) == UNCHANGED bufs             \* fault: no buffer is taken

alloc_buf(ci) ==
    IF FreeBufs = {} THEN UNCHANGED bufs
    ELSE \E b \in Bufs : IsFirst(b, FreeBufs) /\ bufs' = [bufs EXCEPT ![b] = NewBuf(ci)]

free_buf(b) == bufs' = [bufs EXCEPT ![b] = FreeBuf]

(* The blocking read of the game id, and all that follows from it.         *)
NewConnection ==
    /\ pc = "id"
    /\ Line(cur) # <<>>
    /\ server_handle_new_connection(cur, Head(Line(cur)))
    /\ IF cur \in open'
       THEN /\ \E ci \in Clients : clients'[ci].active /\ clients'[ci].fd = cur
                                   /\ alloc_buf(ci)
            /\ net' = [net EXCEPT ![PeerAt(cur)].line = Tail(@)]
            /\ GoTo("scan", 0, NONE)
       ELSE /\ net' = Drop(net, {cur})
            /\ GoTo("select", NONE, NONE)
            /\ UNCHANGED bufs
    /\ UNCHANGED <<readfds, backlog>>

ConnectionLost ==
    /\ pc = "id"
    /\ Line(cur) = <<>> /\ Hung(cur)
    /\ NoGameId(cur)
    /\ net' = Drop(net, {cur})
    /\ GoTo("select", NONE, NONE)
    /\ UNCHANGED <<bufs, readfds, backlog>>
-----------------------------------------------------------------------------
(* The scan of the clients.                                                *)

AtReadyClient == /\ pc = "scan"
                 /\ cur \in ActiveClients
                 /\ clients[cur].fd \in readfds

SkipPastEnd ==                          \* fault: i <= MAX_CLIENTS
    /\ pc = "scan"
    /\ cur \in 0 .. MAX_CLIENTS
    /\ ~AtReadyClient
    /\ GoTo("scan", cur + 1, NONE)
    /\ UNCHANGED <<bufs, readfds, net, backlog>>
    /\ Quiet

Skip ==
    /\ pc = "scan"
    /\ cur \in Clients
    /\ ~AtReadyClient
    /\ GoTo("scan", cur + 1, NONE)
    /\ UNCHANGED <<bufs, readfds, net, backlog>>
    /\ Quiet

BufsOfFd(fd) == {b \in Bufs : bufs[b].in_use /\ clients[bufs[b].client_index].fd = fd}
find_buf_by_fd(fd, b) == IsFirst(b, BufsOfFd(fd))

(* read returns a part of what is in flight, never nothing.                *)
Read ==
    /\ AtReadyClient
    /\ LET fd == clients[cur].fd
           p  == PeerAt(fd)
       IN  \E b \in Bufs, n \in 1 .. Len(Line(fd)) :
              /\ find_buf_by_fd(fd, b)
              /\ bufs' = [bufs EXCEPT ![b].data =
                            @ \o [k \in 1 .. n |-> <<p, Line(fd)[k]>>]]
              /\ net' = [net EXCEPT ![p].line = SubSeq(@, n + 1, Len(@))]
              /\ GoTo("frames", cur, b)
    /\ UNCHANGED <<readfds, backlog>>
    /\ Quiet

(* read returns 0 or an error.                                             *)
EndRemovesClient ==                     \* fault: the game goes on without it
    /\ AtReadyClient
    /\ Line(clients[cur].fd) = <<>> /\ Hung(clients[cur].fd)
    /\ \E b \in Bufs : find_buf_by_fd(clients[cur].fd, b) /\ free_buf(b)
    /\ server_remove_client(cur) /\ sent' = Silence
    /\ net' = Drop(net, open \ open')
    /\ GoTo("scan", cur + 1, NONE)
    /\ UNCHANGED <<readfds, backlog>>

ReadEnd ==
    /\ AtReadyClient
    /\ Line(clients[cur].fd) = <<>> /\ Hung(clients[cur].fd)
    /\ \E b \in Bufs : find_buf_by_fd(clients[cur].fd, b) /\ free_buf(b)
    /\ server_on_client_disconnect(cur)
    /\ net' = Drop(net, open \ open')
    /\ GoTo("scan", cur + 1, NONE)
    /\ UNCHANGED <<readfds, backlog>>

AtFrame(d) == pc = "frames" /\ bufs[bi].data # <<>> /\ bufs[bi].data[1][2] = d

(* Less than a frame is left in the buffer.                                *)
NoFrame ==
    /\ pc = "frames"
    /\ \/ bufs[bi].data = <<>>
       \/ AtFrame("LEN") /\ Len(bufs[bi].data) = 1
    /\ GoTo("scan", cur + 1, NONE)
    /\ UNCHANGED <<bufs, readfds, net, backlog>>
    /\ Quiet

(* server_on_client_disconnect and server_handle_client_message return at  *)
(* once for a client that an earlier frame has ended.                      *)
Call(handler) ==
    IF cur \in ActiveClients THEN handler ELSE Quiet

BadLength ==
    /\ AtFrame("BAD")
    /\ Call(server_on_client_disconnect(cur))
    /\ free_buf(bi)
    /\ net' = Drop(net, open \ open')
    /\ GoTo("scan", cur + 1, NONE)
    /\ UNCHANGED <<readfds, backlog>>

OneFrame ==
    /\ AtFrame("LEN")
    /\ Len(bufs[bi].data) > 1
    /\ Call(server_handle_client_message(cur, bufs[bi].data[2][2]))
    /\ bufs' = [bufs EXCEPT ![bi].data = SubSeq(@, 3, Len(@))]
    /\ net' = Drop(net, open \ open')
    /\ UNCHANGED <<readfds, pc, cur, bi, backlog>>

Stale(b) == bufs[b].in_use /\ bufs[b].client_index \notin ActiveClients

NotReaped ==                            \* fault: no reap_stale_bufs
    /\ pc = "scan" /\ cur = MAX_CLIENTS
    /\ GoTo("select", NONE, NONE)
    /\ UNCHANGED <<bufs, readfds, net, backlog>>
    /\ Quiet

reap_stale_bufs ==
    /\ pc = "scan" /\ cur = MAX_CLIENTS
    /\ bufs' = [b \in Bufs |-> IF Stale(b) THEN FreeBuf ELSE bufs[b]]
    /\ GoTo("select", NONE, NONE)
    /\ UNCHANGED <<readfds, net, backlog>>
    /\ Quiet

ServerStep == \/ Select \/ Accept \/ AcceptFails \/ NoConnection
              \/ NewConnection \/ ConnectionLost
              \/ Skip \/ Read \/ ReadEnd
              \/ NoFrame \/ BadLength \/ OneFrame
              \/ reap_stale_bufs

LoopNext == ServerStep \/ \E p \in Peers : PeerStep(p)

LoopSpec == LoopInit /\ [][LoopNext]_all

(* The operating system runs the server's thread as long as it can step.   *)
FairLoop == LoopSpec /\ WF_all(ServerStep)

(* Besides, every peer sends its game id or hangs up.                      *)
Identify(p) == PeerStep(p) /\ Connected(p) /\ net[p].say = "ID"
PatientLoop == FairLoop /\ \A p \in Peers : WF_all(Identify(p))
-----------------------------------------------------------------------------
LoopTypeOK ==
    /\ bufs \in [Bufs -> [in_use : BOOLEAN, client_index : Clients \cup {NONE},
                         data : Seq(Peers \X Data)]]
    /\ readfds \subseteq Fds \cup {LISTEN}
    /\ pc \in {"select", "accept", "id", "scan", "frames"}
    /\ cur \in CASE pc = "id" -> Fds
                 [] pc = "scan" -> 0 .. MAX_CLIENTS
                 [] pc = "frames" -> Clients
                 [] OTHER -> {NONE}
    /\ bi \in IF pc = "frames" THEN Bufs ELSE {NONE}
    /\ net \in [Peers -> Peer]
    /\ backlog \in Seq(Peers)

(* Whenever the server waits, each connected client has exactly one buffer *)
(* and no buffer is left to a client that is gone: a client without one    *)
(* would never be read, and a buffer that outlives its client would be     *)
(* found for the next client of that entry.                                *)
BuffersMatchClients ==
    pc = "select" =>
        /\ \A ci \in ActiveClients :
              \E b \in Bufs : BufsOfFd(clients[ci].fd) = {b} /\ bufs[b].client_index = ci
        /\ \A b \in Bufs : ~Stale(b)

(* What is in the buffer of a connected client came from the peer at the   *)
(* other end of that client's descriptor, although entries, descriptors    *)
(* and buffers are all reused.                                             *)
NoCrossTalk ==
    \A b \in Bufs : bufs[b].in_use /\ ~Stale(b) =>
        \A k \in 1 .. Len(bufs[b].data) :
            net[bufs[b].data[k][1]].fd = clients[bufs[b].client_index].fd

(* The scan finds a buffer for every client it is about to read, and the   *)
(* read will not block, even when a client earlier in the scan has ended   *)
(* games and closed descriptors since select returned.                     *)
NoBlockingRead ==
    AtReadyClient => BufsOfFd(clients[cur].fd) # {} /\ Readable(clients[cur].fd)

(* Whatever the loop does to the tables is one call of a handler on a      *)
(* client that is connected, or on a descriptor that is new.               *)
LoopCallsHandlers == Spec

(* A client that has sent something, or has hung up, is read before long   *)
(* or its game ends.                                                       *)
ClientsAreRead ==
    \A ci \in Clients :
        (ci \in ActiveClients /\ Readable(clients[ci].fd))
            ~> (pc = "frames" /\ cur = ci) \/ ci \notin ActiveClients
=============================================================================
