\* Raw, numeric and single-line commands, every kind of unsolicited line, with the runner alone.
CONSTANTS
  Runner = runner
  Reader = reader
  None = none
  ext = ext
  Others <- NoOthers
  Ops <- MixedOps
  Finals <- AllFinals
  Strays <- AllStrays
  MaxCalls <- TwoEach
  MaxStrays = 1
  MaxSpurious = 1
  HandshakeTries = 1
SPECIFICATION Spec
INVARIANTS
  TypeOK
  AnswerIsMine
  RunnerWritesOpenFd
PROPERTY FinalStable
