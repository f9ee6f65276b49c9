--------------------------- MODULE ShutdownProofs ---------------------------
(***************************************************************************)
(* Proofs about Shutdown.  The inductive invariant follows the engine      *)
(* through startup: from its publication on, global_engine points to it or *)
(* it is freed, and as long as no handler has run it is alive.             *)
(***************************************************************************)
EXTENDS Shutdown, TLAPS

Early == {"args", "initialised"}
Alive == {"initialised", "published", "halfReady", "ready", "loop", "locked",
          "calling", "called", "freeing"}

ShutdownInv ==
    /\ ShutdownTypeOK
    /\ main = "args" => engine = "none"
    /\ main = "freed" => engine = "freed"
    /\ main \in Alive /\ stack = <<>> => engine = "live"
    /\ main \in Early => /\ handled = {} /\ stack = <<>>
                         /\ \A s \in Signals : at[s] = "idle"
    /\ main \notin Early /\ status = Running => global_engine \/ engine = "freed"
    /\ \A s \in Signals : at[s] \in {"clear", "exit"} => engine = "freed"
    /\ EngineReleased

LEMMA InitInv == Init => ShutdownInv
  <1> SUFFICES ASSUME Init PROVE ShutdownInv
    OBVIOUS
  <1>1. ShutdownTypeOK
    <2>1. stack \in Seq(Signals) BY DEF Init
    <2>2. at \in [Signals -> {"idle", "test", "enter", "freeing", "clear", "exit"}]
      BY DEF Init
    <2>3. status \in {Running, 0, 1, 2, 3, Killed, Aborted} BY DEF Init
    <2>4. handled \subseteq Signals BY DEF Init
    <2>5. QED BY <2>1, <2>2, <2>3, <2>4 DEF Init, ShutdownTypeOK
  <1>2. EngineReleased
    BY DEF Init, EngineReleased
  <1>3. QED
    BY <1>1, <1>2 DEF Init, ShutdownInv, Running, Early, Alive

(* Each step of main.                                                      *)
LEMMA MainInv == ShutdownInv /\ Main => ShutdownInv'
  <1> SUFFICES ASSUME ShutdownInv, Main PROVE ShutdownInv'
    OBVIOUS
  <1> USE DEF ShutdownInv, ShutdownTypeOK, EngineReleased, Signals, Running,
              Killed, Aborted, Early, Alive, Goes, Returns
  <1>1. CASE BadArguments BY <1>1 DEF BadArguments
  <1>2. CASE InitFails BY <1>2 DEF InitFails
  <1>3. CASE engine_init BY <1>3 DEF engine_init
  <1>4. CASE Publish BY <1>4 DEF Publish
  <1>5. CASE Install BY <1>5 DEF Install
  <1>6. CASE Listens BY <1>6 DEF Listens
  <1>7. CASE MainFrees BY <1>7 DEF MainFrees
  <1>8. CASE ListenFails BY <1>8 DEF ListenFails
  <1>9. CASE Lock BY <1>9 DEF Lock
  <1>10. CASE Call BY <1>10 DEF Call
  <1>11. CASE Unlock BY <1>11 DEF Unlock
  <1>12. QED
    BY <1>1, <1>2, <1>3, <1>4, <1>5, <1>6, <1>7, <1>8, <1>9, <1>10, <1>11 DEF Main

(* Each step of a handler, on top of main or of the other handler.         *)
LEMMA HandlerInv == ShutdownInv /\ shutdown_server => ShutdownInv'
  <1> SUFFICES ASSUME ShutdownInv, NEW s \in Signals,
                      Test(s) \/ Enter(s) \/ Free(s) \/ Clear(s) \/ Exit(s)
               PROVE  ShutdownInv'
    BY DEF shutdown_server
  <1> USE DEF ShutdownInv, ShutdownTypeOK, EngineReleased, Signals, Running,
              Killed, Aborted, Early, Alive, Handler, Top
  <1>1. CASE Test(s) BY <1>1 DEF Test
  <1>2. CASE Enter(s) BY <1>2 DEF Enter
  <1>3. CASE Free(s) BY <1>3 DEF Free
  <1>4. CASE Clear(s) BY <1>4 DEF Clear
  <1>5. CASE Exit(s) BY <1>5 DEF Exit
  <1>6. QED BY <1>1, <1>2, <1>3, <1>4, <1>5

(* Signals come at any time; before the handlers are installed they end    *)
(* the process by themselves.                                              *)
LEMMA DeliverInv == ASSUME ShutdownInv, NEW s \in Signals, Deliver(s)
                    PROVE  ShutdownInv'
  <1> USE DEF ShutdownInv, ShutdownTypeOK, EngineReleased, Running, Killed,
              Aborted, Early, Alive, Deliver
  <1>1. CASE s \in handled
    <2>1. stack' \in Seq(Signals) /\ stack' # <<>> BY <1>1
    <2>2. at' \in [Signals -> {"idle", "test", "enter", "freeing", "clear", "exit"}]
      BY <1>1
    <2>3. \A t \in Signals : at'[t] \in {"clear", "exit"} => engine' = "freed"
      BY <1>1
    <2>4. QED BY <1>1, <2>1, <2>2, <2>3
  <1>2. CASE s \notin handled BY <1>2
  <1>3. QED BY <1>1, <1>2

LEMMA ShutdownInvariance == Spec => []ShutdownInv
  <1>1. ShutdownInv /\ UNCHANGED vars => ShutdownInv'
    BY DEF ShutdownInv, ShutdownTypeOK, EngineReleased, vars
  <1>2. ShutdownInv /\ [Next]_vars => ShutdownInv'
    BY <1>1, MainInv, HandlerInv, DeliverInv DEF Next
  <1>3. QED BY InitInv, <1>2, PTL DEF Spec

(* EngineReleased: no exit status of the program leaves the engine behind. *)
THEOREM EngineIsReleased == Spec => []EngineReleased
  BY ShutdownInvariance, PTL DEF ShutdownInv

(* CallsLiveEngine: the loop never goes on with a freed engine.            *)
THEOREM LoopCallsLiveEngine == Spec => []CallsLiveEngine
  <1>1. ShutdownInv => CallsLiveEngine
    BY DEF ShutdownInv, CallsLiveEngine, Alive
  <1>2. QED BY <1>1, ShutdownInvariance, PTL
=============================================================================
