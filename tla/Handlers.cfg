\* Every handler on every model; the pairs that break a property are named.
CONSTANTS
    Code <- MCCode
    Requests <- MCRequests
    Events <- MCEvents
    Unanswered <- MCUnanswered
    Leaking <- MCLeaking
    FreeingTwice <- MCFreeingTwice
    ReadingStale <- MCReadingStale
SPECIFICATION Spec
INVARIANTS TypeOK AnsweredOnce  NeverFreedTwice NoStaleRead
