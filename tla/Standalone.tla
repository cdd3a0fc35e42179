----------------------------- MODULE Standalone -----------------------------
(***************************************************************************)
(* The parts that are checked each by itself: the tools for the boot        *)
(* environment, the GPS HAL and the conversions of short messages, which    *)
(* share nothing with the radio interface layer; and of the layer the event *)
(* list, the hardware monitor, the log of push to talk and the line buffer  *)
(* of the AT channel.  A behaviour is one of a program, that Init chooses;  *)
(* the variables of the others do not change.                               *)
(***************************************************************************)
EXTENDS Integers, Sequences

CONSTANTS
    Tools, Names, Sizes, Capacity, MaxRuns,  \* see FwEnv
    MaxStarts, MaxLines,                     \* see GpsHal
    Characters, MaxLength,                   \* see SmsPdu
    Nodes, Null, Second, Delays, MaxTime,    \* see EventList
    MaxChanges,                              \* see HardwareMonitor
    Threads, MaxSets, MaxEvents,             \* see PttLog
    MAX_AT_RESPONSE, Messages, Echo, MaxMessages, MaxSessions,  \* see LineBuffer
    MaxFailures                              \* bound on what the environment does to each

VARIABLES
    program,
    scheme, sectors, copy, tool, runs, toolFailures, kept, interrupted, spoilt,
    caller, init, control, thread, started, power, told, hung, reader, fix,
    starts, lines, portFailures, lost, malformed,
    at, format, text, pdu, out,
    now, node, head,
    link, seen, monitor, hardware, ready, awake, changes, owed, late, excuse,
    pttlog_init, ptt_es, set, log, logCaller, fault, logSpoilt,
    bufferAt, buf, cur, wire, session, sent, stream, returned, discarded

Env    == INSTANCE FwEnv WITH failures <- toolFailures
Gps    == INSTANCE GpsHal WITH failures <- portFailures
Sms    == INSTANCE SmsPdu
Events == INSTANCE EventList
Modem  == INSTANCE HardwareMonitor WITH at <- monitor
Ptt    == INSTANCE PttLog WITH caller <- logCaller, spoilt <- logSpoilt
Buffer == INSTANCE LineBuffer WITH at <- bufferAt, lines <- returned

ASSUME StandaloneAssumption ==
    /\ Env!FwEnvAssumption /\ Gps!GpsAssumption /\ Sms!SmsAssumption
    /\ Events!EventListAssumption /\ Modem!HardwareAssumption /\ Ptt!PttLogAssumption
    /\ Buffer!LineBufferAssumption

envVars   == <<scheme, sectors, copy, tool, runs, toolFailures, kept, interrupted, spoilt>>
gpsVars   == <<caller, init, control, thread, started, power, told, hung, reader, fix,
               starts, lines, portFailures, lost, malformed>>
smsVars   == <<at, format, text, pdu, out>>
eventVars == <<now, node, head>>
modemVars == <<link, seen, monitor, hardware, ready, awake, changes, owed, late, excuse>>
pttVars   == <<pttlog_init, ptt_es, set, log, logCaller, fault, logSpoilt>>
lineVars  == <<bufferAt, buf, cur, wire, session, sent, stream, returned, discarded>>
rilVars   == <<eventVars, modemVars, pttVars, lineVars>>
vars      == <<program, envVars, gpsVars, smsVars, rilVars>>

Init ==
    /\ program \in {"fw_env", "gps", "sms", "events", "modem", "ptt", "buffer"}
    /\ Env!Init /\ Gps!Init /\ Sms!Init /\ Events!Init /\ Modem!Init /\ Ptt!Init
    /\ Buffer!Init
    /\ program # "fw_env" => scheme = "none"

Next ==
    /\ UNCHANGED program
    /\ \/ program = "fw_env" /\ Env!Next /\ UNCHANGED <<gpsVars, smsVars, rilVars>>
       \/ program = "gps"    /\ Gps!Next /\ UNCHANGED <<envVars, smsVars, rilVars>>
       \/ program = "sms"    /\ Sms!Next /\ UNCHANGED <<envVars, gpsVars, rilVars>>
       \/ /\ UNCHANGED <<envVars, gpsVars, smsVars>>
          /\ \/ program = "events" /\ Events!Next /\ UNCHANGED <<modemVars, pttVars, lineVars>>
             \/ program = "modem"  /\ Modem!Next  /\ UNCHANGED <<eventVars, pttVars, lineVars>>
             \/ program = "ptt"    /\ Ptt!Next    /\ UNCHANGED <<eventVars, modemVars, lineVars>>
             \/ program = "buffer" /\ Buffer!Next /\ UNCHANGED <<eventVars, modemVars, pttVars>>

\* The GPS thread and a call of gps_stop go on; epoll_wait reports the
\* control socket together with the port, so that a port that keeps being
\* readable does not hide a command.
GpsOnly(A) == program = "gps" /\ A /\ UNCHANGED <<program, envVars, smsVars, rilVars>>
Fairness ==
    /\ WF_vars(GpsOnly(Gps!Quit)) /\ WF_vars(GpsOnly(Gps!Join))
    /\ WF_vars(GpsOnly(Gps!Begin)) /\ WF_vars(GpsOnly(Gps!PortError))
    /\ WF_vars(GpsOnly(Gps!Drained))
    /\ SF_vars(GpsOnly(Gps!TakeStart \/ Gps!TakeStop \/ Gps!TakeQuit))

Spec == Init /\ [][Next]_vars /\ Fairness

\* The state of every program has its type.
TypeOK ==
    Env!TypeOK /\ Gps!TypeOK /\ Sms!TypeOK /\ Events!TypeOK /\ Modem!TypeOK /\ Ptt!TypeOK
    /\ Buffer!TypeOK

\* The boot environment is what the last fw_setenv that reported success has
\* written (see FwEnv).
KeptUntilReplaced == Env!KeptUntilReplaced

\* One of two copies of the boot environment is always good (see FwEnv).
OneCopyGood == Env!OneCopyGood

\* What is visible of the boot environment is replaced in one step (see FwEnv).
ReplacedAtOnce == Env!ReplacedAtOnce

\* Engine and sessions of the GPS are reported in their order (see GpsHal).
SessionsNested == Gps!SessionsNested

\* A position that the GPS reports has a time (see GpsHal).
PositionHasTime == Gps!PositionHasTime

\* gps_stop returns, and the chip is off then (see GpsHal).
StopReturns == Gps!StopReturns

\* A short message survives being packed and unpacked (see SmsPdu).
RoundTrip == Sms!RoundTrip

\* The linked list of events is a queue sorted by time (see EventList).
EventsInOrder == Events!EventsInOrder

\* A change of the link that the modem's driver reports is told to the
\* framework (see HardwareMonitor).
NoChangeLost == Modem!NoChangeLost

\* The event set of the push to talk log is alive when it is used (see PttLog).
LogSetAlive == Ptt!LogSetAlive

\* Every line that the modem sent and that fits into the buffer of the AT
\* channel is returned, however the reads cut it (see LineBuffer).
LinesThatFitReturned == Buffer!LinesThatFitReturned
=============================================================================
