CONSTANTS
    s1 = s1
    s2 = s2
    N = 2
    Nets <- NotCdma
    Setups <- MCSetups
    Retries = 3
    MaxEvents = 32
    MaxDeactivations = 1
    MaxChecks = 1
SPECIFICATION FairSpec
\* the requests and the calls may come to an end
CHECK_DEADLOCK FALSE
INVARIANTS TypeOK SetupAnsweredOnce EntryManaged ReportedUpIsManaged NoFreedSetUsed
PROPERTIES SetupAnswered DeadLinkNoticed StopIsFinal
