# A verification of the Battleship server and client

The repository is a networked Battleship in C: a server (`server_c/`), a client
library (`client_c/`), what they share (`common/`), and a game engine that comes
prebuilt (`server_c/engine.h`, `libengine.a`).  The directory holds TLA+ modules
that model it, TLC configurations that check them on small instances, and proofs
checked by TLAPS that hold for tables, game ids and descriptors of any size.

## 1. The system

| Part | State | Operations | Interacts with |
|------|-------|-----------|----------------|
| game table, `server_c/game.c` | `ServerState`: 64 `Client` entries, 32 `Game` entries, `num_clients` | `server_handle_new_connection`, `server_handle_client_message` (`SHIPS`, `MOVE`, `MOVE_EXT`, anything else), `server_on_client_disconnect` | called by the event loop; calls the engine; writes frames to clients and closes them |
| event loop, `server_c/server.c` | `client_bufs`, the `fd_set` of select | one thread: select, accept, read of the game id, scan of the clients, one read each, all whole frames in the buffer, reaping of buffers | the kernel, the peers, the game table |
| client library, `client_c/client.c` | one `Client` object: `fd`, `connected` | `client_connect`, `client_wait_for_opponent`, `client_send_ships`, `client_send_move`, `client_send_move_extended`, `client_receive_move`, `client_close` | blocks on the connection; called by a runner |
| wire protocol, `common/protocol.c` | buffers of the caller | frames, and the payloads of ships, coordinates, moves, extended results, written and read | both sides |
| socket helpers, `common/netutil.c` | none | `read_exact`, `write_exact` and big-endian numbers | both sides |
| engine, `libengine.a` (external) | per game id: initialised, two boards, whose turn | `engine_init_game`, `engine_place_ships`, `engine_take_turn[_extended]`, `engine_end_game` | called by the game table |
| startup and shutdown, `server.c` | `global_engine`, `engine_lock`, the installed handlers | argument checks and exit codes, `SIGINT`/`SIGTERM` handler at any point of the thread | engine, kernel |
| Rust bindings (`server_rs/`, `client_rs/`) | `ENGINE_INITIALIZED` | skeletons and wrappers that come with the assignment | not part of the C program |

**What is hard here.**  The server is one thread, so its handlers do not
interleave; but every order of connections, messages and losses of several
clients can occur, every table entry, buffer and descriptor is reused for
strangers, and a set of ready descriptors or a buffered frame may be older than
the entry it is used for.  Handlers fail half way (no entry, the engine refuses,
the answer cannot be sent) and have to undo what they did.  Reads and writes in
the only thread block.  The clients block too: each library call takes the next
frame for its answer, while the server sends `READY`, `SHIPS_ACK`, `OPP_MOVE`,
`ERROR` and `GAME_OVER` whenever the *other* player makes it.  Frames and
payloads are cut into reads and writes anywhere, their lengths come from programs
that need not be the library, and results go through bytes and back.  A signal
frees the engine at any point, also between the lock and the call.  `PROJECT.json`
lists the hazards at their lines with the properties that watch them.

**What makes it correct.**

* game table: entries, seats, descriptors and the engine's games stay matched
  under reuse; games do not affect each other; both players learn of every turn
  and of the end; full tables contain only used entries.
* event loop: bytes are attributed to the client they came from; handlers are
  called for connected clients only; the loop never blocks in a scan; every
  client is read.
* client and server together: an answer reaches the call it belongs to; both
  players see the same match; nobody waits for ever.
* wire: no byte is read or stored outside its buffer; a request is understood as
  it was meant and a malformed one refused; each is answered, a fleet when both
  players have placed theirs; a call returns what the server told.
* shutdown: a process that exits has given back its engine, and never while
  the loop goes on using it; a signal ends it, whoever holds the lock.

## 2. The modules

| Module | Models | How |
|--------|--------|-----|
| `Engine` | the engine, external | a value `[GameIds -> EngineGame]` and the calls as operators on it |
| `GameServer` | `game.c` | one action per handler call, one disjunct per branch; `EXTENDS Engine` |
| `Matches` | nothing in the code: the service a player sees | abstract specification |
| `GameServerMatches` | the refinement mapping from `GameServer` to `Matches` | `INSTANCE ... WITH` |
| `SelectLoop` | `server.c`'s loop, with peers and kernel | `EXTENDS GameServer`; the handlers are its actions' calls |
| `ClientServer` | `client.c`, connections, and the server | `EXTENDS GameServer`; a call and its return are separate steps |
| `Bytes` | bytes, `ntohl`, the lengths of frames that are refused | operators, shared by `Framing` and `Codec` |
| `Framing` | the bytes of one client's buffer, `server.c` | a peer that writes any bytes; reads of any size; the loop that cuts frames; `EXTENDS Bytes` |
| `Codec` | the payloads of `protocol.c` | pure operators, a `Can...` for what a function returns and another for what it writes; `EXTENDS Bytes` |
| `Wire` | one request and its reply: `protocol.c`, `netutil.c`, the parsing in `game.c` and the reading in `client.c` | `EXTENDS Codec`; a turn of each loop is an action |
| `Shutdown` | `main` and `shutdown_server` of `server.c` | one thread with handlers stacked on it |
| `GameServerProofs`, `FramingProofs`, `WireProofs`, `ShutdownProofs` | theorems on these modules | each `EXTENDS` its module and TLAPS |
| `GameServerMatchesProofs` | theorems on `GameServerMatches` | besides, it `EXTENDS` `GameServerProofs`, whose lemmas it cites |
| `SelectLoopProofs`, `ClientServerProofs` | theorems on `SelectLoop` and `ClientServer` | besides, they `EXTEND` `GameServerMatchesProofs`, to cite both |
| `BytesProofs` | facts about numbers of bytes, cuts of sequences and recursive functions over them | lemmas only, for `FramingProofs` and `WireProofs` |
| `MCGameServer`, `MCSelectLoop`, `MCClientServer` | symmetry sets for TLC | |

### GameServer

`clients`, `games`, `num_clients` are `ServerState`; `engine` is the engine's
state; `open` the descriptors accepted and not closed; `sent` the frames that the
last step sent to each descriptor, so that properties can speak of them.  The
operators carry the names of the C functions where there is one.  A seat is
indexed by the player number (`client_slots[p]` is `client_slots[p - 1]`).  Fields
of an entry that is not active are not kept apart, because no code reads them
before `memset` clears them.

Payloads are abstracted to what the handlers tell apart: ships parse or not, a
move is malformed, invalid, played or winning.  Hits and misses and sunk ships are
one result, "Miss", as the server treats them alike.  The failure of a write is a
choice at the places where the code looks at it (`JOIN_OK`, `MOVE_RESULT`,
`MOVE_EXT_RESULT`); elsewhere the code ignores it.

### SelectLoop

The steps are the points at which the thread meets the network: `Select`,
`Accept`, `NewConnection` (the blocking read of the id and all that follows),
`Read`/`ReadEnd` for one client, `OneFrame`/`BadLength`/`NoFrame` for one frame,
`reap_stale_bufs`.  A connection is a line of data in flight.  A frame is two
items, its length and its body, so that a read may end between them; a bad length
is an item of its own.  Every item in a buffer carries, as history, the peer that
sent it.  `accept` takes the lowest free descriptor.  `LISTEN` is descriptor 0
and there are more descriptors than client entries.

### ClientServer

A library call writes its request and then blocks; the return is a separate step
that takes the oldest frame, or finds the end of the data.  The server's step is
one handler, called with the oldest message of some connection.  Closing, resets
that discard unread answers, writes to a closed socket and killed callers are
modelled.  The program that calls the library is external; it makes one call at a
time and takes turns, repeats an invalid move at most `MaxRetries` times and gives
up on failure.  `due` records, from the engine, how the match of each client
really went.

### Framing

`SelectLoop` counts a frame as two items; `Framing` has the bytes.  `data` is
`cb->data` below `cb->len`, `Read` is `handle_client_read` with any number of the
bytes that have arrived, and one step of `OneFrame`, `BadLength` or `NoFrame` is one
turn of the `while` in `process_client_buffer`.  The first byte of a frame, its
type, is not kept apart from its payload.  A peer writes any bytes, so illegal
lengths and frames that never end are among them.

### Codec and Wire

`Codec` has each `proto_write_...` and `proto_read_...` as an operator on sequences
of bytes, with the conversions (`htons`, `htonl`, `uint8_t`, `int8_t`, the C string
that ends at a NUL) by what they compute and the byte's number of values as a
constant.  `Wire` follows one message through them.  The request is written by the
library, one ship per step, or is any payload of another program; it is parsed one
ship per step as `handle_ships` and `handle_move` do it.  What the handlers do then
depends on the match and the engine, which `GameServer` has and `Wire` leaves open:
the match may be in another phase (`ERROR`), the engine may refuse the fleet (`ERROR`, as
for a malformed payload), the server may have one of this player already
(`SHIPS_FAIL`), and otherwise the fleet is acknowledged if it is the second one and
waits if it is the first (`pc = "waiting"`), until the rival sends its own or ends the
game (`Rival`).  The reply, to one of the two clients, is one of the four with a payload
or a refusal without one; it leaves as the three or two writes of
`proto_send_frame`, each cut by `write` anywhere, and is read
as the three or two reads of `proto_read_frame`, each cut by `read` anywhere, while
the connection may break.  `told` remembers what the server meant; what the
blocked call makes of its bytes is compared with it.

### Shutdown

`main` goes through startup with its exit statuses 1, 2 and 3 and comes to the loop,
of which only the engine calls under `engine_lock` are told apart.  A signal puts its
handler on top of whatever runs, `main` or the other handler, and only the topmost
one makes steps.  The build passes `-std=c11`, with which `signal` resets the
handler on delivery and masks nothing: the same signal again ends the process.
Where the engine is entered twice or after it was freed it may abort or not notice.
How the listening socket is made is the choice between its success and failure.

### Mistakes kept beside the code

Definitions marked "fault" are variants of the definition they stand next to, with
a plausible mistake: a seat not cleared, a descriptor not closed, a guard dropped.
They are in no specification.  `PROJECT.json` says, for each property of each
passing run, which of them violates it; this is how we know that the properties
can fail.

## 3. The runs

| Run | Bounds | Shows |
|-----|--------|-------|
| `table` | 4 clients, 2 games, 3 ids, 4 descriptors | all invariants and step properties of the table, in the proportions of `game.h` (two clients per game), with tables that run full; the table implements `Matches` |
| `loop` | 2 clients, 1 game, 3 peers, 3 descriptors, 1 item in flight, one connection per peer | no blocking read with more peers than entries, so that connections are refused; every client is read |
| `pipe` | as `loop`, 2 peers without a bound on connections, 3 items in flight | pieces of frames and several frames per read; buffers and clients match, no cross-talk; the loop refines the handlers' specification (`LoopCallsHandlers`) |
| `match` | 3 peers, 1 match, 2 moves, 1 retry | answers, phases, acknowledgements, no deadlock between players |
| `returns` | 2 peers, 3 moves, 1 retry | both views of the match agree; every call returns |
| `bytes` | 12 bytes of 2 values, frames of at most 2 | the buffer never overflows or fills up; the frames handed on are the frames written, and each is handed on at last |
| `reply` | bytes of 6 values, coordinates up to 2 long, 2 ships, frames up to 38, payloads of up to 9 bytes | no access outside a payload or buffer; exactly the encodings of fleets are accepted; a library's request is read as meant; the reply is heard as told or the refusal as one; every request but a fleet that waits for the rival's is answered |
| `signals` | both signals, any number of times | the engine is given back, the loop never calls a freed one, a signal ends the process |
| `boards`, `full`, `slow`, `freed` | smallest instance | statements of the documents that the code does not keep (section 6) |

**Why the bounds are enough.**  A handler touches one game and at most two
clients, so two games show every interference between games, and three ids and
four clients exhaust both tables and force reuse.  That a game is created and then
no client entry is left (`game.c:442`) needs fewer than two client entries per
game; `SeatsSuffice` (section 4) says that it cannot happen with the sizes of
`game.h`, and the lemmas behind the other theorems cover the branch for every size.
Game ids and (in `GameServer`, `ClientServer`) descriptors are only compared, so
they are symmetric.  In `SelectLoop` the descriptors are ordered and not symmetric.
Connections are not bounded in `table`, `pipe`, `match` and `returns`: the state
space is finite because entries are reused.  Named bounds: `MaxLine` (data in
flight), `MaxDials` (connections per peer, 0 for no bound), `MaxMoves` (moves of a
match), `MaxRetries`, `MaxBytes` (what a peer writes), and for requests
`Letters` (the bytes of a library's coordinate), `Octets` and `MaxPayload` (the bytes of
another program's payload and their number).

In `bytes` the buffer has ten places and the longest frame takes six, so the twelve
bytes hold two frames and the beginning of a third and can be cut anywhere;
`PROTO_MAX_FRAME` is 65552 in the program, and the proofs of section 4 hold for it.
In `reply` a byte of six values has a sign bit and tells six types of reply apart;
payloads from other programs use the values 0 to 3 (the NUL, and no length, every legal
one and one too many), a library's coordinates 1 to 3.  The longest extended result fills
the frame limit exactly, which is tighter than the program's 65552, and the fleet's
buffer is exactly full; coordinates can be one too long, and a payload can be cut
off in each field or be too long.  The proofs hold for every size there, too.

**Fairness.**  `FairLoop`: the operating system runs the server's thread.
`PatientLoop` adds that every peer sends its game id or hangs up; the code needs
it (run `slow`), it does not guarantee it.  `loop` bounds reconnections: when
peers reconnect without end and each is refused, the loop returns to `select`
before the scan every time (`server.c:231-233`).  `FairSystem`: the server takes
each connection's messages, and callers that are not killed go on with their
match; the first is what `loop` shows of the loop.  `FairFraming`: the loop
comes back to a connection that has data, as in `loop`.  `FairWire`: the thread of
the server and that of the blocked caller run, and the network does not hold bytes
back; nothing makes the rival send a fleet, so `ReplyArrives` promises no answer to a
fleet that waits for it.  `FairShutdown`: a handler that has begun goes on; it is the
only thread, and it waits for nobody.  No run assumes that anybody
crashes, disconnects or succeeds.

## 4. The proofs

`GameServerProofs` proves, for any `MAX_CLIENTS`, `MAX_GAMES`, `GameIds` and `Fds`
with the assumptions `SizesAssumption` (positive sizes) and `FdsAssumption` (-1 is
no descriptor), that every reachable state satisfies each invariant of run `table`
and that every step satisfies `GamesIsolated`, `SessionsStable`, `EndIsTold` and
`TurnIsBroadcast`.
`SeatImpliesClientEntry` needs two client entries per game entry.  `ClientsCounted`
(`num_clients` is the number of connected clients) is proved and not in a run.

The inductive invariant `IInv` says, of every entry, what ties it to the other
tables: an active client's game is active, has the client's id and holds the
client in the seat of its number (`ClientOK`); a seat of an active game is empty
or holds a client who says so (`SeatOK`); ids of active games are distinct; the
engine has a game exactly for these ids, with boards of just the players that the
server's flags name, and the server's turn; the open descriptors are those of the
active clients.  None of these is inductive alone: a handler finds the rival through a seat, so closing the
right descriptor needs the seats, which need the distinct ids when a game is
created, which need the engine to refuse none of them.

The tables change in four ways, each with its lemma: a game is created
(`CreateOK`), a client sits down (`SitDownOK`), a game goes on (`RoundOK`), a game
ends (`CloseOK`).  Lemmas for the handlers (`NewConnectionInv`, `ShipsInv`,
`MovePlayedInv`, ...) reduce each branch to one of them, and `NextInv` puts them
together.  The step properties and the count of clients rest on `StepCases`: a
step leaves the tables alone, ends one game, goes on with one game, or seats one
client; `EndsAreTold` and `TurnsAreBroadcast` also on what each branch sends
(`TurnCases`).

`GameServerMatchesProofs` proves that `GameServer` implements `Matches`.  The mapping
reads the stage of an id off its game entry, the seats off the client table and the
turn off the engine, so every branch of every handler has to be shown to be one
abstract step (`Announce`, `EnterFirst`, `EnterSecond`, `Start`, `Move`, `End`) or
none.  `IInv` does not suffice.  `EnterFirst` and `EnterSecond` need that player 2
never sits where seat 1 is empty (`SeatedInOrder`: the search takes the first empty
seat and a game loses both its clients at once), and a new match starts with player 1
because the engine keeps nothing of a game that ended (`NothingLeft`).  `MInv` adds
the two; `TableInvariance` proves it and `TableImplementsMatches` the refinement.
`TablesImplement` says the same of one step of anything that changes the tables by
handlers only, for the two modules that put the table to use.

`SelectLoopProofs` proves, under the further assumptions `LoopAssumption` and
`DescriptorsAssumption` (`accept` finds a descriptor: there are more of them than client
entries), all three invariants of the loop, `NoBlockingRead` among them, and that the
loop implements `GameServer` (`LoopImplementsTable`), so that what is proved of the
table holds of the program around it: a running server is a table of matches
(`LoopImplementsMatches`).  No property of the loop is inductive, because
what makes it true is spread over the client table, the buffers, the kernel's
connections, the old result of select and the place of the thread.  `LInv` adds to `IInv`
(`LoopOK`): each open descriptor belongs to one connected peer, the one that `accept` has
just returned included (`NetOK`); each client has one buffer (`BufsOK`) and what is in it
came from the peer at its descriptor (`OwnData`); entries that are not in use have no
descriptor, so `find_buf_by_fd` cannot take a stale buffer (`FreeEntries`); no buffer is
stale from the end of a scan to the next (`NoStale`), so a newcomer finds one
(`BufferLeft`, by the pigeonhole principle); and the clients that the scan has *still to
come to* are readable if they are in the set (`DueReadable`) - not all of them, for one
that has been read may have nothing left.  Handlers end clients and close their
descriptors in the middle of a scan: `CallOK` shows that what survives them
(`Survivors`, `Shrunk`) keeps all of this.

`ClientServerProofs` proves, under `CallerAssumption` (the bounds on moves and retries
are numbers, of any size) and for any set of players, all six invariants of the clients
against the server, and that the server's tables take only steps of `GameServer`
(`SystemRunsServer`), so that what is proved of the table holds here, and matches that
are played through the library are those of `Matches` (`SystemImplementsMatches`).  What a client
reads depends on what its opponent did before, and what the server may be asked on what
both clients have read, so no property of one client is inductive.  `SInv` lists the ways
in which a client's library, its caller, the frames in flight in each direction and the
server's tables can stand to each other.  A client that the server holds is joining,
placing ships, acknowledged, on move or off move (`Served`); one that the server closed
has frames left to read in one of as many ways (`Lost`); one that has hung up leaves at
most a request behind (`Left`).  At most one request, and at most three frames to a
client, are in flight.  `NoShipsYet` (no ships before both players sit) ties a client that
still waits to the placement of its match.  A call or a return moves one client from one
of these ways to another and leaves the tables (`ClientStep`); a step of the server moves
both players of one match and no other client (`MatchStep`), and the lemmas named `...Fits`
say for each thing the server can do to a match - READY, an acknowledgement, a move, a
win, an error - that the way a player stood fits it and which way it stands then.  The six
properties are read off `SInv`: `NobodyStuck` looks up the opponent of a client that
waits, which has a turn to take, a frame to read or a request on its way.

`FramingProofs` proves, for any byte size and any `PROTO_MAX_FRAME`
(`BytesAssumption`: a byte has a value, a length is a number) and streams of any length
(`FramingAssumption`: their bound `MaxBytes` is a number), `FramingTypeOK` (which bounds
`cb->len`), `RoomToRead`, `BufferIsTail` and `Reassembled`.  `RoomToRead` is not
inductive: after `process_client_buffer` there is room because its loop ended on an
incomplete frame, which the conjunct `Incomplete` measures.  `BufferIsTail` rests on
two lemmas about `SubSeq`: neighbouring cuts join (`CutsJoin`, for `Read`), and the
end of a cut is a cut (`CutOfCut`, for `OneFrame`).  `Reassembled` compares the frames
handed on with `FramesOf`, a recursive function of all the bytes, and speaks only of the
moments between two reads; while the loop cuts a frame it says nothing.  `CutInv` holds
after each turn: there is a function `at` by which the frames handed on lie one behind the
other in the stream, from its first byte up to the first one in the buffer (`Laid`), and
outside the loop no frame can be cut from what the buffer holds (`Stuck`).  What the peer
writes later moves none of them (`LaidStays`), and a turn adds one at the end
(`LaidMore`).  That such a layout is what `FramesOf` computes is `LaidAreFramesOf`, an
induction from the last frame to the first.

`WireProofs` proves, for every size of a byte, of a coordinate, of a fleet and of a
frame that `BytesAssumption`, `CodecAssumption` and `WireAssumption` allow (among
them the program's: a coordinate's length is a byte, the longest extended result is
a frame, the fleet's buffer holds a fleet), `WireTypeOK`, `HeardIsTold`, `ShipsParsed`
and `RequestUnaltered`.  None is inductive.  `RequestInv` types the locals of the
parsers; `ReplyInv` says where in the frame every byte is: there is a sequence `W` that
encodes what was told, of which the client has read the first part, the next part is on the way, and
the rest is what the server has still to write, in pieces that end where
`proto_send_frame` ends them.  When the connection breaks the bytes on the way end
earlier and nothing else changes.  `FourBytes` and `TwoBytes` (`ntohl` after
`htonl`), `SignedU8` (an `int8_t` through a byte) and one lemma per kind of reply
(`AckSays`, `ResultSays`, `ExtSays`, `OppMoveSays`, and `RefusalSays` for the frames
without a payload, which no call takes for its result) show that `W` is understood as it
was told; `FrameIs` that its first four bytes say how long it is.

For a fleet, `Fleet` says that ships lie one behind the other in a payload, with the
places in a function `at`.  `ReadInv` says so of the ships that the server has read and of
the bytes up to its position, and why the loop of `proto_read_ships` ended (a ship that
cannot be read, bytes too many, or neither); `AskedInv` of the ships that the library has
written, with a bound on their bytes, and that the server, reading them, is always before
the next one asked for.  `ShipsParsed` then needs that a payload is laid out as ships
exactly if it is one that the recursive `IsFleet` and `Encoded` describe: they cut it at
the places that the lengths in it give (`CutIntoStarts`), two layouts of one payload agree
as far as both go (`CutAgrees`), and a layout is the encoding of its ships.  That a fleet
fits the library's buffer is the bound of `AskedInv` and the size of the buffer in
`CodecAssumption`.

These proofs about recursive functions are inductions over data.  The library's
induction theorems take an operator, which the provers cannot instantiate;
`BytesProofs` therefore states induction for sets of numbers: a nonempty one has a least
element (`Least`, from the well-foundedness of `<`), so a set that contains one end of an
interval and from each number the next is the interval (`Upward`, `Downward`).  A
recursive function over positions is `CHOOSE`n: `WalkExists` and `StartsExist` show for
every length that there is one to choose, `WalkUnique` that there is no other.

`ShutdownProofs` proves `EngineReleased` and `CallsLiveEngine` for any number and
order of signals.  `ShutdownInv` follows the engine: from its publication on,
`global_engine` is set or the engine is freed, and as long as no handler has run, it
is alive where `main` uses it; a handler that has started is on the stack for good,
because it ends with the process.

Every safety invariant and every step property of a passing run is proved, and so are
both refinements.  Only model-checked are the five liveness properties, which are out of
the prover's reach: `ClientsAreRead`, `CallsReturn`, `Delivered`, `ReplyArrives` and
`SignalEnds`.

## 5. Not modelled

* Writes that block because a client does not read (a hazard without a property).
* Callers that move out of turn, make two calls at once or connect twice.
* An extended result that is empty with data or not empty and "Invalid", and a turn
  taken for an empty coordinate: only the engine could produce them.
* The steps of making a socket and looking up an address; they succeed or fail.
* `proto_send_u8` and `proto_send_i8`, which nothing calls.
* The Rust skeletons, build files and scripts; they are not part of the C program.
* What the engine computes; only its calls' effects on the server.

## 6. Where code and documents disagree

* `boards`: the engine gives board 1 to whoever's `SHIPS` message comes first, the
  server numbers players by joining; if player 2 is quicker, the boards are swapped.
* `full`: a connection whose `JOIN_OK` cannot be sent leaves a game with nobody in
  it; such games fill the table of 32.
* `slow`: a connection that does not send its game id stops every game, against
  "A slow client in one game must not block another game".
* `freed`: the signal handler calls `engine_free` without `engine_lock` and may
  interrupt an engine call, against "`pthread_mutex_t` around every engine call"; the
  engine aborts on concurrent access, if it notices.

Two hazards are no disagreement and have no property.  The engine can be freed twice: by a
second signal that interrupts the handler of the first between its test of
`global_engine` and the assignment (`server.c:33-35`), or by a signal after `main` freed the
engine because the listening socket failed (`server.c:191`).  `Shutdown` has these steps
as the code does; a property that forbids them would fail, and no document promises that the
engine is freed once.

## 7. Plan

Done: the game table, the abstract service that it implements, the event loop, the client
library against the server, the bytes of a buffer, the payloads and the exchange of a
request and a reply, and the life of the process, with proofs of all their safety
properties.  Next: callers that move out of turn, and writes that block.
