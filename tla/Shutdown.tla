------------------------------ MODULE Shutdown ------------------------------
(***************************************************************************)
(* The life of the server process (server_c/server.c, main and             *)
(* shutdown_server): startup with its exit codes, the engine calls of the  *)
(* loop under engine_lock (server_c/game.c), and the handler of SIGTERM    *)
(* and SIGINT, which frees the engine without that lock.                   *)
(*                                                                         *)
(* There is one thread.  A handler runs on top of what it interrupts, and  *)
(* only the topmost one makes steps.  Built with -std=c11 alone, signal()  *)
(* is the System V one: delivery sets the signal back to its default and   *)
(* blocks nothing, so another signal interrupts the handler and the same   *)
(* one again ends the process.                                             *)
(*                                                                         *)
(* The engine aborts the process on concurrent access (engine.h); that it  *)
(* does not notice, or is freed twice, is undefined, and a choice here.    *)
(* A definition marked "fault" is explained in GameServer.                 *)
(***************************************************************************)
EXTENDS Integers, Sequences

Signals == {"SIGTERM", "SIGINT"}
Running == -1                   \* no exit status yet
Killed  == 128                  \* ended by a signal's default action
Aborted == 134                  \* ended by the engine

VARIABLES
    main,           \* where main is, by what it has done last
    engine,         \* "none", "live", "freed"
    global_engine,  \* it is not NULL
    engine_lock,    \* it is held
    handled,        \* the signals with shutdown_server as their handler
    stack,          \* the handlers that run, the topmost last
    at,             \* where the handler of a signal is
    status          \* how the process ended, or Running

vars == <<main, engine, global_engine, engine_lock, handled, stack, at, status>>

Init == /\ main = "args" /\ engine = "none" /\ global_engine = FALSE
        /\ engine_lock = FALSE /\ handled = {} /\ stack = <<>>
        /\ at = [s \in Signals |-> "idle"]
        /\ status = Running

(* Nobody is inside a call of the engine.                                  *)
EngineIdle == /\ main \notin {"calling", "freeing"}
              /\ \A s \in Signals : at[s] # "freeing"
-----------------------------------------------------------------------------
(* main runs when no handler does.                                         *)
Goes(from, to) == /\ status = Running /\ stack = <<>> /\ main = from
                  /\ main' = to
                  /\ UNCHANGED <<stack, at>>
Returns(from, n) == /\ Goes(from, "returned") /\ status' = n
                    /\ UNCHANGED <<engine, global_engine, engine_lock, handled>>

BadArguments == Returns("args", 1)
InitFails    == Returns("args", 2)

engine_init == /\ Goes("args", "initialised") /\ engine' = "live"
               /\ UNCHANGED <<global_engine, engine_lock, handled, status>>

PublishShadowed ==                      \* fault: a local of the same name
    /\ Goes("initialised", "published")
    /\ UNCHANGED <<engine, global_engine, engine_lock, handled, status>>
Publish == /\ Goes("initialised", "published") /\ global_engine' = TRUE
           /\ UNCHANGED <<engine, engine_lock, handled, status>>

Install == /\ \/ Goes("published", "halfReady") /\ handled' = {"SIGTERM"}
              \/ Goes("halfReady", "ready") /\ handled' = handled \cup {"SIGINT"}
           /\ UNCHANGED <<engine, global_engine, engine_lock, status>>

(* The loop is entered, or create_listen_socket fails and main gives the   *)
(* engine back itself; global_engine still points to it then.              *)
Listens     == /\ \/ Goes("ready", "loop")
                  \/ Goes("ready", "freeing")
               /\ UNCHANGED <<engine, global_engine, engine_lock, handled, status>>
MainFrees   == /\ Goes("freeing", "freed") /\ engine' = "freed"
               /\ UNCHANGED <<global_engine, engine_lock, handled, status>>
ListenFails == Returns("freed", 3)

(* Any of the engine calls in game.c.                                      *)
Lock   == /\ Goes("loop", "locked") /\ engine_lock' = TRUE
          /\ UNCHANGED <<engine, global_engine, handled, status>>
Call   == /\ \/ Goes("locked", "calling")
             \/ Goes("calling", "called")
          /\ UNCHANGED <<engine, global_engine, engine_lock, handled, status>>
Unlock == /\ Goes("called", "loop") /\ engine_lock' = FALSE
          /\ UNCHANGED <<engine, global_engine, handled, status>>

Main == \/ BadArguments \/ InitFails \/ engine_init \/ Publish \/ Install
        \/ Listens \/ MainFrees \/ ListenFails \/ Lock \/ Call \/ Unlock
-----------------------------------------------------------------------------
(* The kernel delivers a signal, at any time.                              *)
Deliver(s) == /\ status = Running
              /\ IF s \in handled
                 THEN /\ stack' = Append(stack, s)
                      /\ at' = [at EXCEPT ![s] = "test"]
                      /\ handled' = handled \ {s} /\ status' = status
                 ELSE status' = Killed /\ UNCHANGED <<stack, at, handled>>
              /\ UNCHANGED <<main, engine, global_engine, engine_lock>>

Top(s) == status = Running /\ stack # <<>> /\ s = stack[Len(stack)]
Handler(s, from, to) == /\ Top(s) /\ at[s] = from
                        /\ at' = [at EXCEPT ![s] = to]
                        /\ UNCHANGED <<main, engine_lock, handled, stack>>

Test(s) == /\ Handler(s, "test", IF global_engine THEN "enter" ELSE "exit")
           /\ UNCHANGED <<engine, global_engine, status>>

EnterLocked(s) ==                       \* fault: pthread_mutex_lock(&engine_lock)
    /\ ~engine_lock /\ Handler(s, "enter", "freeing")
    /\ UNCHANGED <<engine, global_engine, status>>
Enter(s) == /\ Handler(s, "enter", "freeing")
            /\ \/ status' = status
               \/ status' = Aborted /\ ~(EngineIdle /\ engine = "live")
            /\ UNCHANGED <<engine, global_engine>>

Free(s)  == /\ Handler(s, "freeing", "clear") /\ engine' = "freed"
            /\ UNCHANGED <<global_engine, status>>
Clear(s) == /\ Handler(s, "clear", "exit") /\ global_engine' = FALSE
            /\ UNCHANGED <<engine, status>>

ExitReturns(s) ==                       \* fault: return instead of _exit
    /\ Top(s) /\ at[s] = "exit"
    /\ stack' = SubSeq(stack, 1, Len(stack) - 1)
    /\ at' = [at EXCEPT ![s] = "idle"]
    /\ UNCHANGED <<main, engine, global_engine, engine_lock, handled, status>>
Exit(s)  == /\ Handler(s, "exit", "exit") /\ status' = 0
            /\ UNCHANGED <<engine, global_engine>>

shutdown_server == \E s \in Signals : \/ Test(s) \/ Enter(s) \/ Free(s)
                                      \/ Clear(s) \/ Exit(s)

Next == Main \/ shutdown_server \/ \E s \in Signals : Deliver(s)
Spec == Init /\ [][Next]_vars

(* The thread runs.                                                        *)
FairShutdown == Spec /\ WF_vars(shutdown_server)
-----------------------------------------------------------------------------
(* The variables have their types.                                         *)
ShutdownTypeOK ==
    /\ engine \in {"none", "live", "freed"}
    /\ global_engine \in BOOLEAN /\ engine_lock \in BOOLEAN
    /\ handled \subseteq Signals
    /\ stack \in Seq(Signals)
    /\ at \in [Signals -> {"idle", "test", "enter", "freeing", "clear", "exit"}]
    /\ status \in {Running, 0, 1, 2, 3, Killed, Aborted}

(* A process that ends with one of its own statuses has given back the     *)
(* engine it initialised, wherever the signals came, also one signal in    *)
(* the handler of the other (server.c:33, 191).                            *)
EngineReleased == status \in 0 .. 3 => engine # "live"

(* The loop never calls an engine that is gone: a handler that freed it    *)
(* does not come back to what it interrupted (server.c:37).                *)
CallsLiveEngine == main \in {"calling", "called"} /\ stack = <<>> => engine = "live"

(* A signal ends the process, although the engine_lock may be held by what *)
(* it interrupted, which does not go on before the handler ends.           *)
SignalEnds == stack # <<>> ~> status # Running

(* No engine call begins while the loop is inside another one, which is    *)
(* what the mutex around every engine call is for (server.c:34).           *)
EngineCallsAlone == main = "calling" => \A s \in Signals : at[s] # "freeing"
=============================================================================
