------------------------------- MODULE GpsHal -------------------------------
(***************************************************************************)
(* The GPS HAL, src/libgps/gpshal.c.  The framework's thread starts and     *)
(* stops it; gps_start creates a state thread, which takes commands from a  *)
(* socket pair and NMEA sentences from the serial port, switches the power  *)
(* of the chip, and tells the framework of the engine, the session and the  *)
(* fixes.                                                                   *)
(*                                                                          *)
(* Of a sentence the model keeps what a fix depends on: the kind, whether   *)
(* its date, its time and its position have the right length, and whether   *)
(* the line is longer than the buffer.                                      *)
(***************************************************************************)
EXTENDS Integers, Sequences

CONSTANTS
    MaxStarts,     \* bound on calls of gps_start
    MaxLines,      \* bound on the lines that arrive in a session
    MaxFailures    \* bound on failures of the port, and of what gps_start creates

GpsAssumption == MaxStarts \in Nat /\ MaxLines \in Nat /\ MaxFailures \in Nat

VARIABLES
    caller,        \* where the framework's thread is
    init,          \* state->init
    control,       \* the commands in the socket pair
    thread,        \* the state thread
    started,       \* its local of that name
    power,         \* the power attribute of the chip
    told,          \* the status that the framework was told last
    hung,          \* the port is gone
    reader,        \* the NMEA reader: date, time, pending position, overflow
    fix,           \* the last fix that location_cb got
    starts, lines, failures,
    lost,          \* the thread has left through an error of the port
    malformed      \* a date or time of this session had the wrong length

vars == <<caller, init, control, thread, started, power, told, hung, reader, fix,
          starts, lines, failures, lost, malformed>>
framework == <<caller, init, starts>>
session   == <<started, power, told>>
parsing   == <<reader, fix, lines, malformed>>

NewReader == [date |-> FALSE, time |-> FALSE, position |-> FALSE, overflow |-> FALSE]
NoFix     == [position |-> FALSE, time |-> FALSE]

\* The threads, the commands and the reader have values of their types.
TypeOK ==
    /\ caller \in {"idle", "stop", "join"} /\ init \in BOOLEAN
    /\ control \in Seq({"START", "STOP", "QUIT"}) /\ Len(control) <= MaxStarts + 2
    /\ thread \in {"none", "new", "poll", "read", "spin", "exited"}
    /\ started \in BOOLEAN /\ power \in BOOLEAN
    /\ told \in {"OFF", "ON", "BEGIN", "END"}
    /\ hung \in BOOLEAN
    /\ reader \in [date : BOOLEAN, time : BOOLEAN, position : BOOLEAN, overflow : BOOLEAN]
    /\ fix \in [position : BOOLEAN, time : BOOLEAN]
    /\ starts \in 0 .. MaxStarts /\ lines \in 0 .. MaxLines /\ failures \in 0 .. MaxFailures
    /\ lost \in BOOLEAN /\ malformed \in BOOLEAN

Init ==
    /\ caller = "idle" /\ init = FALSE /\ control = << >>
    /\ thread = "none" /\ started = FALSE /\ power = FALSE /\ told = "OFF" /\ hung = FALSE
    /\ reader = NewReader /\ fix = NoFix
    /\ starts = 0 /\ lines = 0 /\ failures = 0
    /\ lost = FALSE /\ malformed = FALSE

(***************************************************************************)
(* The framework's thread                                                   *)
(***************************************************************************)
\* gps_start: gps_state_init, unless it has been done, then the command
Start ==
    /\ caller = "idle" /\ starts < MaxStarts
    /\ starts' = starts + 1
    /\ control' = Append(control, "START")
    /\ IF init THEN UNCHANGED <<init, thread, power, hung, lost, parsing>>
       ELSE /\ init' = TRUE /\ thread' = "new" /\ power' = FALSE
            /\ hung' = FALSE
            /\ reader' = NewReader /\ fix' = NoFix /\ lines' = 0
            /\ malformed' = FALSE
    /\ UNCHANGED <<caller, started, told, failures, lost>>

\* the port cannot be opened, or the socket pair or the thread not created
StartFails ==
    /\ caller = "idle" /\ starts < MaxStarts /\ ~init /\ failures < MaxFailures
    /\ starts' = starts + 1 /\ failures' = failures + 1
    /\ power' = FALSE
    /\ UNCHANGED <<caller, init, control, thread, started, told, hung, lost, parsing>>

\* a mutant: the thread is told to quit only
StopQuitsOnly ==
    /\ caller = "idle" /\ init
    /\ caller' = "stop"
    /\ UNCHANGED <<init, control, thread, session, hung, starts, failures, lost, parsing>>

\* gps_stop, then gps_state_deinit
Stop ==
    /\ caller = "idle" /\ init
    /\ control' = Append(control, "STOP")
    /\ caller' = "stop"
    /\ UNCHANGED <<init, thread, session, hung, starts, failures, lost, parsing>>

Quit ==
    /\ caller = "stop"
    /\ control' = Append(control, "QUIT")
    /\ caller' = "join"
    /\ UNCHANGED <<init, thread, session, hung, starts, failures, lost, parsing>>

\* pthread_join returns, and everything is closed
Join ==
    /\ caller = "join" /\ thread = "exited"
    /\ caller' = "idle" /\ init' = FALSE /\ control' = << >> /\ thread' = "none"
    /\ started' = FALSE
    /\ UNCHANGED <<power, told, hung, starts, failures, lost, parsing>>

(***************************************************************************)
(* gps_state_thread                                                         *)
(***************************************************************************)
Begin ==
    /\ thread = "new"
    /\ thread' = "poll" /\ told' = "ON" /\ lost' = FALSE
    /\ UNCHANGED <<framework, control, started, power, hung, failures, parsing>>

Take(cmd) ==
    /\ thread = "poll" /\ control # << >> /\ Head(control) = cmd
    /\ control' = Tail(control)

\* CMD_START and CMD_STOP do nothing in a state that is theirs already
TakeStart ==
    /\ Take("START")
    /\ IF started THEN UNCHANGED <<session, reader>>
       ELSE started' = TRUE /\ power' = TRUE /\ told' = "BEGIN" /\ reader' = NewReader
    /\ UNCHANGED <<framework, thread, hung, fix, lines, failures, lost, malformed>>

\* a mutant: the end of a session is not told
TakeStopSilent ==
    /\ Take("STOP")
    /\ started' = FALSE /\ power' = FALSE /\ UNCHANGED told
    /\ UNCHANGED <<framework, thread, hung, failures, lost, parsing>>

TakeStop ==
    /\ Take("STOP")
    /\ IF started THEN started' = FALSE /\ power' = FALSE /\ told' = "END"
       ELSE UNCHANGED session
    /\ UNCHANGED <<framework, thread, hung, failures, lost, parsing>>

TakeQuit ==
    /\ Take("QUIT")
    /\ thread' = "exited" /\ told' = "OFF"
    /\ UNCHANGED <<framework, started, power, hung, failures, lost, parsing>>

\* The port reports an error or a hangup: the thread leaves as it is.
PortError ==
    /\ thread = "poll" /\ hung
    /\ thread' = "exited" /\ lost' = TRUE
    /\ UNCHANGED <<framework, control, session, hung, failures, parsing>>

\* Bytes have arrived.  They are read until a read fails; one that returns 0
\* because the port is gone does not, and the loop never ends.
Readable ==
    /\ thread = "poll" /\ ~hung /\ lines < MaxLines
    /\ thread' = "read"
    /\ UNCHANGED <<framework, control, session, hung, failures, lost, parsing>>

Drained ==
    /\ thread = "read"
    /\ thread' = IF hung THEN "spin" ELSE "poll"
    /\ UNCHANGED <<framework, control, session, hung, failures, lost, parsing>>

(***************************************************************************)
(* nmea_reader_addc and nmea_reader_parse                                   *)
(***************************************************************************)
Arrives == thread = "read" /\ ~hung /\ lines < MaxLines /\ lines' = lines + 1

\* A sentence has been parsed: what is pending is told, and a position stays
\* pending in no other case.
Deliver(r) ==
    /\ fix' = IF r.position THEN [position |-> TRUE, time |-> r.time] ELSE fix
    /\ reader' = [r EXCEPT !.position = FALSE]

Parsed == UNCHANGED <<framework, control, thread, session, hung, failures, lost>>

\* a mutant: the date is not waited for
GgaAtOnce ==
    /\ Arrives /\ ~reader.overflow
    /\ Deliver([reader EXCEPT !.position = TRUE])
    /\ UNCHANGED malformed /\ Parsed

\* GGA and GLL: a position, once there is a date
Gga ==
    /\ Arrives /\ ~reader.overflow
    /\ Deliver([reader EXCEPT !.position = reader.date])
    /\ UNCHANGED malformed /\ Parsed

\* RMC: a date and a time, if they have the right lengths, and the position
\* in any case
Rmc(date, time, position) ==
    /\ Arrives /\ ~reader.overflow
    /\ malformed' = (malformed \/ ~date \/ ~time)
    /\ Deliver([reader EXCEPT !.date = @ \/ date,
                              !.time = @ \/ (date /\ time),
                              !.position = position])
    /\ Parsed

\* ZDA: a date, and then a time if there is a date
Zda(date, time) ==
    /\ Arrives /\ ~reader.overflow
    /\ malformed' = (malformed \/ ~date \/ ~time)
    /\ Deliver([reader EXCEPT !.date = @ \/ date,
                              !.time = @ \/ (time /\ (reader.date \/ date))])
    /\ Parsed

\* A line that follows one that filled the buffer up to its newline is
\* skipped in its place.
Skipped ==
    /\ Arrives /\ reader.overflow
    /\ reader' = [reader EXCEPT !.overflow = FALSE]
    /\ UNCHANGED <<fix, malformed>> /\ Parsed

\* A line that is too long is dropped up to its newline.
TooLong ==
    /\ Arrives /\ ~reader.overflow
    /\ UNCHANGED <<reader, fix, malformed>> /\ Parsed

\* its newline is the character that does not fit any more
JustTooLong ==
    /\ Arrives /\ ~reader.overflow
    /\ reader' = [reader EXCEPT !.overflow = TRUE]
    /\ UNCHANGED <<fix, malformed>> /\ Parsed

HangUp ==
    /\ init /\ ~hung /\ failures < MaxFailures
    /\ hung' = TRUE /\ failures' = failures + 1
    /\ UNCHANGED <<framework, control, thread, session, lost, parsing>>

Line == \/ Gga \/ \E date, time, position \in BOOLEAN : Rmc(date, time, position)
        \/ \E date, time \in BOOLEAN : Zda(date, time)
        \/ Skipped \/ TooLong \/ JustTooLong

Thread == Begin \/ TakeStart \/ TakeStop \/ TakeQuit \/ PortError \/ Drained
Next == Start \/ StartFails \/ Stop \/ Quit \/ Join \/ Thread \/ Readable \/ Line \/ HangUp

Spec == Init /\ [][Next]_vars

(***************************************************************************)
(* Properties                                                               *)
(***************************************************************************)
\* The framework sees an engine that is on, in it sessions that begin and end
\* one at a time, then an engine that is off; unless the port was lost, after
\* which a session that has begun is never said to have ended.
SessionsNested ==
    [][told' # told => \/ told = "OFF" /\ told' = "ON"
                       \/ told \in {"ON", "END"} /\ told' = "BEGIN"
                       \/ told = "BEGIN" /\ told' = "END"
                       \/ told \in {"ON", "END"} /\ told' = "OFF"
                       \/ lost /\ told' = "ON"]_told

\* A position that is reported has a time, unless a date or a time of the
\* session was malformed: an RMC sentence reports its position whatever
\* becomes of its date.
PositionHasTime == fix.position => fix.time \/ malformed

\* gps_stop returns, unless the port is lost while it is being read, and the
\* chip is off then, unless the port was lost before.
StopReturns == caller = "join" ~> (caller = "idle" /\ (~power \/ lost)) \/ thread = "spin"
=============================================================================
