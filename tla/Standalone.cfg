CONSTANTS
    p1 = p1
    p2 = p2
    bootcmd = bootcmd
    e1 = e1
    e2 = e2
    e3 = e3
    runner = runner
    atreader = atreader
    Tools <- MCTools
    Names = {bootcmd}
    Sizes = {1, 2, 3}
    Capacity = 2
    MaxRuns = 3
    MaxStarts = 3
    MaxLines = 3
    Characters = {45, 127, 200}
    MaxLength <- MCMaxLength
    Nodes <- MCNodes
    Null = Null
    Second = 2
    Delays <- MCDelays
    MaxTime = 3
    MaxChanges = 4
    Threads <- MCThreads
    MaxSets = 2
    MaxEvents = 8
    MAX_AT_RESPONSE = 6
    Messages <- MCMessages
    Echo <- MCEcho
    MaxMessages = 3
    MaxSessions = 2
    MaxFailures = 1
SPECIFICATION Spec
\* the tools end, and so do the calls of the framework
CHECK_DEADLOCK FALSE
INVARIANTS TypeOK KeptUntilReplaced OneCopyGood PositionHasTime RoundTrip NoChangeLost LogSetAlive LinesThatFitReturned
PROPERTIES ReplacedAtOnce SessionsNested StopReturns EventsInOrder
