\* The process from its start, with both signals at any time.
SPECIFICATION FairShutdown
CHECK_DEADLOCK FALSE
INVARIANTS
    EngineReleased
    CallsLiveEngine
PROPERTIES
    SignalEnds
