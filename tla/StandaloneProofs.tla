--------------------------- MODULE StandaloneProofs ---------------------------
(***************************************************************************)
(* Theorems about the programs of Standalone, for any bounds: the GPS HAL, *)
(* the hardware monitor, the log of push to talk, the boot environment     *)
(* and, of the line buffer, that it stays inside of its array.             *)
(*                                                                         *)
(* Each program has an inductive invariant of its own, of which a step of  *)
(* another program changes nothing.                                        *)
(***************************************************************************)
EXTENDS SmsProofs

(* A step is one of a program, and the others stay as they are. *)
LEMMA OneProgram ==
  ASSUME [Next]_vars
  PROVE  /\ Gps!Next \/ UNCHANGED gpsVars
         /\ Modem!Next \/ UNCHANGED modemVars
         /\ Ptt!Next \/ UNCHANGED pttVars
BY DEF Next, vars, rilVars

-----------------------------------------------------------------------------
(* The GPS HAL: a position and its time.                                    *)

(* Between two lines no position is pending; a date comes with a time or    *)
(* from a malformed sentence, and so does the position told last.           *)
FixInv ==
  /\ reader \in [date : BOOLEAN, time : BOOLEAN, position : BOOLEAN, overflow : BOOLEAN]
  /\ fix \in [position : BOOLEAN, time : BOOLEAN]
  /\ malformed \in BOOLEAN
  /\ ~reader.position
  /\ reader.date => reader.time \/ malformed
  /\ fix.position => fix.time \/ malformed

LEMMA FixStep ==
  ASSUME FixInv, Gps!Next
  PROVE  FixInv'
<1> USE DEF Gps!framework, Gps!session, Gps!parsing
<1>1. ASSUME reader' \in {reader, Gps!NewReader}, fix' = fix, malformed' = malformed PROVE FixInv'
  <2>1. CASE reader' = reader
    BY <1>1, <2>1 DEF FixInv
  <2>2. CASE reader' = Gps!NewReader
    BY <1>1, <2>2 DEF FixInv, Gps!NewReader
  <2>3. QED
    BY <1>1, <2>1, <2>2
<1>2. CASE Gps!Start
  <2>1. CASE init
    BY <1>1, <1>2, <2>1 DEF Gps!Start
  <2>2. CASE ~init
    <3>1. reader' = Gps!NewReader /\ fix' = Gps!NoFix /\ malformed' = FALSE
      BY <1>2, <2>2 DEF Gps!Start
    <3>2. QED
      BY <3>1 DEF FixInv, Gps!NewReader, Gps!NoFix
  <2>3. QED
    BY <2>1, <2>2
<1>3. CASE Gps!StartFails \/ Gps!Stop \/ Gps!Quit \/ Gps!Join
  BY <1>1, <1>3 DEF Gps!StartFails, Gps!Stop, Gps!Quit, Gps!Join
<1>4. CASE Gps!Thread \/ Gps!Readable \/ Gps!HangUp
  <2>1. CASE Gps!TakeStart
    <3>1. CASE started
      BY <1>1, <2>1, <3>1 DEF Gps!TakeStart
    <3>2. CASE ~started
      BY <1>1, <2>1, <3>2 DEF Gps!TakeStart
    <3>3. QED
      BY <3>1, <3>2
  <2>2. QED
    BY <1>1, <1>4, <2>1 DEF Gps!Thread, Gps!Begin, Gps!TakeStop, Gps!TakeQuit,
       Gps!PortError, Gps!Drained, Gps!Readable, Gps!HangUp
<1>5. ASSUME NEW r \in [date : BOOLEAN, time : BOOLEAN, position : BOOLEAN, overflow : BOOLEAN],
             Gps!Deliver(r), malformed' \in BOOLEAN, malformed => malformed',
             r.date \/ r.position => r.time \/ malformed'
      PROVE  FixInv'
  <2>1. reader' = [r EXCEPT !.position = FALSE]
    BY <1>5 DEF Gps!Deliver
  <2>2. /\ reader' \in [date : BOOLEAN, time : BOOLEAN, position : BOOLEAN, overflow : BOOLEAN]
        /\ ~reader'.position /\ (reader'.date => reader'.time \/ malformed')
    BY <1>5, <2>1
  <2>3. CASE r.position
    <3>1. fix' = [position |-> TRUE, time |-> r.time]
      BY <1>5, <2>3 DEF Gps!Deliver
    <3>2. QED
      BY <1>5, <2>2, <2>3, <3>1 DEF FixInv
  <2>4. CASE ~r.position
    <3>1. fix' = fix
      BY <1>5, <2>4 DEF Gps!Deliver
    <3>2. QED
      BY <1>5, <2>2, <3>1 DEF FixInv
  <2>5. QED
    BY <2>3, <2>4
<1>6. CASE Gps!Gga
  <2> DEFINE r == [reader EXCEPT !.position = reader.date]
  <2>1. Gps!Deliver(r) /\ malformed' = malformed
    BY <1>6 DEF Gps!Gga
  <2>2. /\ r \in [date : BOOLEAN, time : BOOLEAN, position : BOOLEAN, overflow : BOOLEAN]
        /\ r.date = reader.date /\ r.time = reader.time /\ r.position = reader.date
    BY DEF FixInv
  <2> HIDE DEF r
  <2>3. QED
    BY <1>5, <2>1, <2>2 DEF FixInv
<1>7. ASSUME NEW date \in BOOLEAN, NEW time \in BOOLEAN, NEW position \in BOOLEAN,
             Gps!Rmc(date, time, position)
      PROVE  FixInv'
  <2> DEFINE r == [reader EXCEPT !.date = @ \/ date, !.time = @ \/ (date /\ time),
                                 !.position = position]
  <2>1. Gps!Deliver(r) /\ malformed' = (malformed \/ ~date \/ ~time)
    BY <1>7 DEF Gps!Rmc
  <2>2. /\ r \in [date : BOOLEAN, time : BOOLEAN, position : BOOLEAN, overflow : BOOLEAN]
        /\ r.date = (reader.date \/ date) /\ r.time = (reader.time \/ (date /\ time))
        /\ r.position = position
    BY DEF FixInv
  <2> HIDE DEF r
  <2>3. r.date \/ r.position => r.time \/ malformed'
    BY <2>1, <2>2 DEF FixInv
  <2>4. QED
    BY <1>5, <2>1, <2>2, <2>3 DEF FixInv
<1>8. ASSUME NEW date \in BOOLEAN, NEW time \in BOOLEAN, Gps!Zda(date, time)
      PROVE  FixInv'
  <2> DEFINE r == [reader EXCEPT !.date = @ \/ date, !.time = @ \/ (time /\ (reader.date \/ date))]
  <2>1. Gps!Deliver(r) /\ malformed' = (malformed \/ ~date \/ ~time)
    BY <1>8 DEF Gps!Zda
  <2>2. /\ r \in [date : BOOLEAN, time : BOOLEAN, position : BOOLEAN, overflow : BOOLEAN]
        /\ r.date = (reader.date \/ date)
        /\ r.time = (reader.time \/ (time /\ (reader.date \/ date)))
        /\ r.position = reader.position
    BY DEF FixInv
  <2> HIDE DEF r
  <2>3. r.date \/ r.position => r.time \/ malformed'
    BY <2>1, <2>2 DEF FixInv
  <2>4. QED
    BY <1>5, <2>1, <2>2, <2>3 DEF FixInv
<1>9. CASE Gps!Skipped \/ Gps!TooLong \/ Gps!JustTooLong
  <2>1. \E b \in BOOLEAN : reader' \in {reader, [reader EXCEPT !.overflow = b]}
    BY <1>9 DEF Gps!Skipped, Gps!TooLong, Gps!JustTooLong
  <2>2. fix' = fix /\ malformed' = malformed
    BY <1>9 DEF Gps!Skipped, Gps!TooLong, Gps!JustTooLong
  <2>3. QED
    BY <2>1, <2>2 DEF FixInv
<1>10. CASE Gps!Line
  <2>1. CASE \E date, time, position \in BOOLEAN : Gps!Rmc(date, time, position)
    BY <1>7, <2>1, Zenon
  <2>2. CASE \E date, time \in BOOLEAN : Gps!Zda(date, time)
    BY <1>8, <2>2, Zenon
  <2>3. QED
    BY <1>6, <1>9, <1>10, <2>1, <2>2, Zenon DEF Gps!Line
<1>11. QED
  BY <1>2, <1>3, <1>4, <1>10, Zenon DEF Gps!Next

LEMMA FixInvariant == Spec => []FixInv
<1>1. Init => FixInv
  <2>1. Init => reader = Gps!NewReader /\ fix = Gps!NoFix /\ malformed = FALSE
    BY Zenon DEF Init, Gps!Init
  <2>2. ASSUME reader = Gps!NewReader, fix = Gps!NoFix, malformed = FALSE PROVE FixInv
    BY <2>2 DEF Gps!NewReader, Gps!NoFix, FixInv
  <2>3. QED
    BY <2>1, <2>2
<1>2. FixInv /\ [Next]_vars => FixInv'
  <2>1. ASSUME FixInv, UNCHANGED gpsVars PROVE FixInv'
    BY <2>1 DEF gpsVars, FixInv
  <2>2. QED
    BY <2>1, FixStep, OneProgram
<1>3. QED
  BY <1>1, <1>2, PTL DEF Spec

(* A position that the GPS reports has a time, unless a date or a time of   *)
(* the session was malformed.                                               *)
THEOREM ReportedPositionHasTime == Spec => []PositionHasTime
<1>1. FixInv => PositionHasTime
  BY DEF FixInv, PositionHasTime, Gps!PositionHasTime
<1>2. QED
  BY FixInvariant, <1>1, PTL

-----------------------------------------------------------------------------
(* The GPS HAL: the engine and its sessions.                                *)

(* A QUIT is the last command in the socket pair, and the STOP in front of  *)
(* it has been taken, and has ended the session, before the QUIT is.        *)
CommandsInOrder ==
  /\ \A i \in 1 .. Len(control) : control[i] = "QUIT" => caller = "join" /\ i = Len(control)
  /\ caller = "stop" /\ control = << >> => started = FALSE
  /\ caller = "stop" /\ control # << >> => control[Len(control)] = "STOP"
  /\ caller = "join" /\ control # << >> => control[Len(control)] = "QUIT"
  /\ caller = "join" /\ Len(control) = 1 => started = FALSE
  /\ caller = "join" /\ Len(control) > 1 => control[Len(control) - 1] = "STOP"

(* What the framework was told last agrees with the thread's view.          *)
SessionInv ==
  /\ caller \in {"idle", "stop", "join"} /\ init \in BOOLEAN
  /\ control \in Seq({"START", "STOP", "QUIT"})
  /\ thread \in {"none", "new", "poll", "read", "spin", "exited"}
  /\ started \in BOOLEAN /\ told \in {"OFF", "ON", "BEGIN", "END"} /\ lost \in BOOLEAN
  /\ ~init => caller = "idle" /\ control = << >> /\ thread = "none"
  /\ thread \in {"none", "new"} => started = FALSE
  /\ thread \in {"none", "new", "exited"} => told = "OFF" \/ lost
  /\ thread \in {"poll", "read", "spin"} =>
        \/ started = TRUE /\ told = "BEGIN"
        \/ started = FALSE /\ told \in {"ON", "END"}
  /\ CommandsInOrder

LEMMA EmptyByLength ==
  ASSUME NEW S, NEW s \in Seq(S) PROVE s = << >> <=> Len(s) = 0
OBVIOUS

LEMMA NoCommands == << >> \in Seq({"START", "STOP", "QUIT"})
OBVIOUS

(* The commands that are left when the first has been taken, and those when *)
(* one more has been sent.                                                  *)
LEMMA TailOfCommands ==
  ASSUME control \in Seq({"START", "STOP", "QUIT"}), control # << >>, control' = Tail(control)
  PROVE  /\ control' \in Seq({"START", "STOP", "QUIT"})
         /\ Len(control) \in Nat \ {0} /\ Len(control') = Len(control) - 1
         /\ \A i \in 1 .. Len(control') : control'[i] = control[i + 1]
         /\ Head(control) = control[1]
         /\ control' = << >> <=> Len(control) = 1
<1>1. /\ Tail(control) \in Seq({"START", "STOP", "QUIT"})
      /\ Len(control) \in Nat \ {0} /\ Len(Tail(control)) = Len(control) - 1
      /\ \A i \in 1 .. Len(Tail(control)) : Tail(control)[i] = control[i + 1]
      /\ Head(control) = control[1]
  OBVIOUS
<1>2. Tail(control) = << >> <=> Len(Tail(control)) = 0
  BY <1>1, EmptyByLength
<1>3. QED
  BY <1>1, <1>2

LEMMA OneMoreCommand ==
  ASSUME control \in Seq({"START", "STOP", "QUIT"}), NEW cmd \in {"START", "STOP", "QUIT"},
         control' = Append(control, cmd)
  PROVE  /\ control' \in Seq({"START", "STOP", "QUIT"})
         /\ Len(control) \in Nat /\ Len(control') = Len(control) + 1
         /\ \A i \in 1 .. Len(control) : control'[i] = control[i]
         /\ control'[Len(control')] = cmd
         /\ control' # << >>
         /\ control = << >> <=> Len(control) = 0
<1>1. /\ Append(control, cmd) \in Seq({"START", "STOP", "QUIT"})
      /\ Len(control) \in Nat /\ Len(Append(control, cmd)) = Len(control) + 1
      /\ \A i \in 1 .. Len(control) : Append(control, cmd)[i] = control[i]
      /\ Append(control, cmd)[Len(control) + 1] = cmd
  OBVIOUS
<1>2. Append(control, cmd) # << >>
  <2>1. Len(Append(control, cmd)) # Len(<< >>)
    BY <1>1
  <2>2. QED
    BY <2>1, Zenon
<1>3. QED
  BY <1>1, <1>2

(* The order in the socket pair when a command that is there has been       *)
(* taken, and how the session has to be then.                               *)
LEMMA OrderAfterTake ==
  ASSUME SessionInv, control # << >>, control' = Tail(control), caller' = caller,
         Head(control) = "START" => started' = TRUE,
         Head(control) = "STOP" => started' = FALSE
  PROVE  CommandsInOrder'
<1> DEFINE n == Len(control)
<1>1. /\ n \in Nat \ {0} /\ Len(control') = n - 1 /\ Head(control) = control[1]
      /\ \A i \in 1 .. n - 1 : control'[i] = control[i + 1]
      /\ control' = << >> <=> n = 1
      /\ control \in Seq({"START", "STOP", "QUIT"})
  <2>1. control \in Seq({"START", "STOP", "QUIT"})
    BY DEF SessionInv
  <2>2. QED
    BY <2>1, TailOfCommands
<1>2. ASSUME NEW i \in 1 .. Len(control'), control'[i] = "QUIT"
      PROVE  caller' = "join" /\ i = Len(control')
  <2>1. i + 1 \in 1 .. n /\ control[i + 1] = "QUIT"
    BY <1>1, <1>2
  <2>2. caller = "join" /\ i + 1 = n
    BY <2>1 DEF SessionInv, CommandsInOrder
  <2>3. i \in Int /\ n \in Int /\ Len(control') = n - 1
    BY <1>1
  <2> HIDE DEF n
  <2>4. i = n - 1
    BY <2>2, <2>3
  <2>5. QED
    BY <2>2, <2>3, <2>4
<1>3. n > 1 => control'[n - 1] = control[n]
  BY <1>1
<1>4. n > 2 => control'[n - 2] = control[n - 1]
  BY <1>1
<1>5. caller = "stop" => control[n] = "STOP"
  BY <1>1 DEF SessionInv, CommandsInOrder
<1>6. caller = "join" => control[n] = "QUIT" /\ (n > 1 => control[n - 1] = "STOP")
  BY <1>1 DEF SessionInv, CommandsInOrder
<1> HIDE DEF n
<1>7. caller' = "stop" /\ control' = << >> => started' = FALSE
  BY <1>1, <1>5
<1>8. caller' = "stop" /\ control' # << >> => control'[Len(control')] = "STOP"
  BY <1>1, <1>3, <1>5
<1>9. caller' = "join" /\ control' # << >> => control'[Len(control')] = "QUIT"
  BY <1>1, <1>3, <1>6
<1>10. caller' = "join" /\ Len(control') = 1 => started' = FALSE
  <2>1. ASSUME caller = "join", n - 1 = 1 PROVE control[1] = "STOP"
    BY <1>1, <1>6, <2>1
  <2>2. QED
    BY <1>1, <2>1
<1>11. caller' = "join" /\ Len(control') > 1 => control'[Len(control') - 1] = "STOP"
  BY <1>1, <1>4, <1>6
<1>12. QED
  BY <1>2, <1>7, <1>8, <1>9, <1>10, <1>11 DEF CommandsInOrder

(* What the framework may be told next.                                     *)
NextTold ==
  \/ told = "OFF" /\ told' = "ON"
  \/ told \in {"ON", "END"} /\ told' = "BEGIN"
  \/ told = "BEGIN" /\ told' = "END"
  \/ told \in {"ON", "END"} /\ told' = "OFF"
  \/ lost /\ told' = "ON"

LEMMA SessionStep ==
  ASSUME SessionInv, Gps!Next
  PROVE  SessionInv' /\ (told' # told => NextTold)
<1> USE DEF Gps!framework, Gps!session, NextTold
<1>1. CASE Gps!Start
  <2>1. /\ caller = "idle" /\ UNCHANGED <<caller, started, told, lost>>
        /\ control' = Append(control, "START")
    BY <1>1 DEF Gps!Start
  <2>2. CommandsInOrder'
    BY <2>1, OneMoreCommand DEF SessionInv, CommandsInOrder
  <2>3. CASE init
    <3>1. UNCHANGED <<init, thread>>
      BY <1>1, <2>3 DEF Gps!Start
    <3>2. QED
      BY <2>1, <2>2, <2>3, <3>1, OneMoreCommand DEF SessionInv
  <2>4. CASE ~init
    <3>1. init' = TRUE /\ thread' = "new" /\ thread = "none"
      BY <1>1, <2>4 DEF Gps!Start, SessionInv
    <3>2. QED
      BY <2>1, <2>2, <3>1, OneMoreCommand DEF SessionInv
  <2>5. QED
    BY <2>3, <2>4
<1>2. CASE Gps!StartFails \/ Gps!Readable \/ Gps!Drained \/ Gps!Line \/ Gps!HangUp
  <2>1. /\ UNCHANGED <<caller, init, control, started, told, lost>>
        /\ \/ thread' = thread
           \/ thread \in {"poll", "read"} /\ thread' \in {"poll", "read", "spin"}
    <3>1. CASE Gps!StartFails
      BY <3>1, Zenon DEF Gps!StartFails
    <3>2. CASE Gps!Readable \/ Gps!HangUp
      BY <3>2 DEF Gps!Readable, Gps!HangUp
    <3>3. CASE Gps!Drained
      BY <3>3 DEF Gps!Drained
    <3>4. CASE Gps!Line
      <4>1. Gps!Parsed
        BY <3>4, Zenon DEF Gps!Line, Gps!Gga, Gps!Rmc, Gps!Zda, Gps!Skipped, Gps!TooLong,
           Gps!JustTooLong
      <4>2. QED
        BY <4>1 DEF Gps!Parsed
    <3>5. QED
      BY <1>2, <3>1, <3>2, <3>3, <3>4, Zenon
  <2>2. CommandsInOrder'
    BY <2>1 DEF SessionInv, CommandsInOrder
  <2>3. QED
    BY <2>1, <2>2 DEF SessionInv
<1>3. CASE Gps!Stop
  <2>1. /\ caller = "idle" /\ init /\ caller' = "stop" /\ control' = Append(control, "STOP")
        /\ UNCHANGED <<init, thread, started, told, lost>>
    BY <1>3 DEF Gps!Stop
  <2>2. CommandsInOrder'
    BY <2>1, OneMoreCommand DEF SessionInv, CommandsInOrder
  <2>3. QED
    BY <2>1, <2>2, OneMoreCommand DEF SessionInv
<1>4. CASE Gps!Quit
  <2>1. /\ caller = "stop" /\ caller' = "join" /\ control' = Append(control, "QUIT")
        /\ UNCHANGED <<init, thread, started, told, lost>>
    BY <1>4 DEF Gps!Quit
  <2>2. CommandsInOrder'
    BY <2>1, OneMoreCommand DEF SessionInv, CommandsInOrder
  <2>3. QED
    BY <2>1, <2>2, OneMoreCommand DEF SessionInv
<1>5. CASE Gps!Join
  <2>1. /\ thread = "exited" /\ caller' = "idle" /\ init' = FALSE /\ control' = << >>
        /\ thread' = "none" /\ started' = FALSE /\ UNCHANGED <<told, lost>>
    BY <1>5 DEF Gps!Join
  <2>2. CommandsInOrder'
    BY <2>1 DEF CommandsInOrder
  <2>3. QED
    BY <2>1, <2>2, NoCommands DEF SessionInv
<1>6. CASE Gps!Begin
  <2>1. /\ thread = "new" /\ thread' = "poll" /\ told' = "ON" /\ lost' = FALSE
        /\ UNCHANGED <<caller, init, control, started>>
    BY <1>6 DEF Gps!Begin
  <2>2. CommandsInOrder'
    BY <2>1 DEF SessionInv, CommandsInOrder
  <2>3. started = FALSE /\ (told = "OFF" \/ lost)
    BY <2>1 DEF SessionInv
  <2>4. NextTold
    BY <2>1, <2>3
  <2>5. QED
    BY <2>1, <2>2, <2>3, <2>4 DEF SessionInv
<1>7. CASE Gps!TakeStart
  <2>1. /\ thread = "poll" /\ control # << >> /\ Head(control) = "START" /\ control' = Tail(control)
        /\ UNCHANGED <<caller, init, thread, lost>>
        /\ started' = TRUE /\ (started = TRUE => told' = told) /\ (started = FALSE => told' = "BEGIN")
    BY <1>7 DEF Gps!TakeStart, Gps!Take, SessionInv
  <2>2. CommandsInOrder'
    BY <2>1, OrderAfterTake
  <2>3. QED
    BY <2>1, <2>2, TailOfCommands DEF SessionInv
<1>8. CASE Gps!TakeStop
  <2>1. /\ thread = "poll" /\ control # << >> /\ Head(control) = "STOP" /\ control' = Tail(control)
        /\ UNCHANGED <<caller, init, thread, lost>>
        /\ started' = FALSE /\ (started = TRUE => told' = "END") /\ (started = FALSE => told' = told)
    BY <1>8 DEF Gps!TakeStop, Gps!Take, SessionInv
  <2>2. CommandsInOrder'
    BY <2>1, OrderAfterTake
  <2>3. QED
    BY <2>1, <2>2, TailOfCommands DEF SessionInv
<1>9. CASE Gps!TakeQuit
  <2>1. /\ thread = "poll" /\ control # << >> /\ Head(control) = "QUIT" /\ control' = Tail(control)
        /\ thread' = "exited" /\ told' = "OFF" /\ UNCHANGED <<caller, init, started, lost>>
    BY <1>9 DEF Gps!TakeQuit, Gps!Take
  <2>2. Len(control) = 1 /\ caller = "join"
    <3>1. control[1] = "QUIT" /\ 1 \in 1 .. Len(control)
      BY <2>1, TailOfCommands DEF SessionInv
    <3>2. QED
      BY <3>1 DEF SessionInv, CommandsInOrder
  <2>3. CommandsInOrder'
    BY <2>1, OrderAfterTake
  <2>4. told \in {"ON", "END"}
    BY <2>1, <2>2 DEF SessionInv, CommandsInOrder
  <2>5. QED
    BY <2>1, <2>2, <2>3, <2>4, TailOfCommands DEF SessionInv
<1>10. CASE Gps!PortError
  <2>1. /\ thread = "poll" /\ thread' = "exited" /\ lost' = TRUE
        /\ UNCHANGED <<caller, init, control, started, told>>
    BY <1>10 DEF Gps!PortError
  <2>2. CommandsInOrder'
    BY <2>1 DEF SessionInv, CommandsInOrder
  <2>3. QED
    BY <2>1, <2>2 DEF SessionInv
<1>11. QED
  BY <1>1, <1>2, <1>3, <1>4, <1>5, <1>6, <1>7, <1>8, <1>9, <1>10, Zenon DEF Gps!Next, Gps!Thread

LEMMA SessionInvariant == Spec => []SessionInv
<1>1. Init => SessionInv
  <2>1. Init => /\ caller = "idle" /\ init = FALSE /\ control = << >> /\ thread = "none"
                /\ started = FALSE /\ told = "OFF" /\ lost = FALSE
    BY Zenon DEF Init, Gps!Init
  <2>2. Init => CommandsInOrder
    BY <2>1 DEF CommandsInOrder
  <2>3. QED
    BY <2>1, <2>2, NoCommands DEF SessionInv
<1>2. SessionInv /\ [Next]_vars => SessionInv'
  <2>1. ASSUME SessionInv, UNCHANGED gpsVars PROVE SessionInv'
    BY <2>1 DEF gpsVars, SessionInv, CommandsInOrder
  <2>2. QED
    BY <2>1, SessionStep, OneProgram
<1>3. QED
  BY <1>1, <1>2, PTL DEF Spec

(* The framework sees an engine that is on, in it sessions that begin and   *)
(* end one at a time, then an engine that is off; unless the port was lost. *)
THEOREM SessionsInOrder == Spec => SessionsNested
<1>1. SessionInv /\ [Next]_vars => [told' # told => NextTold]_told
  BY SessionStep, OneProgram DEF gpsVars
<1>2. QED
  BY SessionInvariant, <1>1, PTL DEF Spec, SessionsNested, Gps!SessionsNested, NextTold

-----------------------------------------------------------------------------
(* The hardware monitor.                                                    *)

(* What the monitor has read and not told, and what is written over, have   *)
(* an excuse; as long as the change is in the file or in the monitor's      *)
(* hands, none is needed.                                                   *)
MonitorType ==
  /\ link \in 0 .. 2 /\ seen \in 0 .. 2
  /\ monitor \in {"select", "clear", "tell", "crashed"}
  /\ owed \in BOOLEAN /\ late \in BOOLEAN
  /\ hardware \in BOOLEAN /\ ready \in BOOLEAN /\ awake \in BOOLEAN

Excused ==
  /\ monitor = "select" => seen = 0
  /\ monitor = "clear" => seen # 0
  /\ monitor \in {"select", "tell"} /\ seen = 0 /\ link = 0 /\ owed => excuse # {}

MonitorInv == MonitorType /\ Excused

LEMMA MonitorStep ==
  ASSUME MonitorInv, Modem!Next
  PROVE  MonitorInv'
<1> USE DEF Modem!around
<1>1. ASSUME NEW state \in {1, 2}, Modem!Change(state) PROVE MonitorInv'
  <2>1. late' \in BOOLEAN /\ link' = state /\ owed' = TRUE
    BY <1>1 DEF Modem!Change, MonitorInv, MonitorType, Excused
  <2>2. UNCHANGED <<seen, monitor, hardware, ready, awake, excuse>>
    BY <1>1 DEF Modem!Change
  <2>3. QED
    BY <2>1, <2>2 DEF MonitorInv, MonitorType, Excused
<1>2. ASSUME hardware' \in BOOLEAN, ready' \in BOOLEAN, awake' \in BOOLEAN,
             UNCHANGED <<link, seen, monitor, owed, late, excuse>>
      PROVE  MonitorInv'
  BY <1>2 DEF MonitorInv, MonitorType, Excused
<1>3. ASSUME NEW b \in BOOLEAN, Modem!SetRadioState(b) \/ Modem!FindMatchedDevice(b)
      PROVE  MonitorInv'
  BY <1>2, <1>3 DEF Modem!SetRadioState, Modem!FindMatchedDevice, MonitorInv, MonitorType, Excused
<1>4. CASE Modem!PortMissing
  BY <1>2, <1>4 DEF Modem!PortMissing, MonitorInv, MonitorType, Excused
<1>5. ASSUME NEW valid \in 0 .. 1, NEW count \in 0 .. 1, Modem!CurrentCalls(valid, count)
      PROVE  MonitorInv'
  <2>1. awake' \in BOOLEAN
    BY <1>5 DEF Modem!CurrentCalls, Modem!WakeLock
  <2>2. QED
    BY <1>2, <1>5, <2>1 DEF Modem!CurrentCalls, MonitorInv, MonitorType, Excused
<1>6. CASE Modem!Read
  <2>1. UNCHANGED <<link, hardware, ready, awake, owed, late, excuse>>
    BY <1>6 DEF Modem!Read
  <2>2. monitor = "select" /\ seen' = link
    BY <1>6 DEF Modem!Read
  <2>3. (link = 0 => monitor' = "tell") /\ (link # 0 => monitor' = "clear")
    BY <1>6 DEF Modem!Read
  <2>4. QED
    BY <2>1, <2>2, <2>3 DEF MonitorInv, MonitorType, Excused
<1>7. CASE Modem!Clear
  <2>1. UNCHANGED <<seen, hardware, ready, awake, owed, late, excuse>>
    BY <1>7 DEF Modem!Clear
  <2>2. monitor = "clear" /\ link' = 0 /\ monitor' = "tell"
    BY <1>7 DEF Modem!Clear
  <2>3. QED
    BY <2>1, <2>2 DEF MonitorInv, MonitorType, Excused
<1>8. CASE Modem!Tell
  <2>1. monitor = "tell" /\ UNCHANGED <<link, hardware, ready, awake>>
    BY <1>8 DEF Modem!Tell
  <2>2. 0 \in 0 .. 2
    OBVIOUS
  <2>3. CASE ~hardware
    <3>1. monitor' = "crashed" /\ UNCHANGED <<seen, owed, late, excuse>>
      BY <1>8, <2>3 DEF Modem!Tell
    <3>2. QED
      BY <2>1, <3>1 DEF MonitorInv, MonitorType, Excused
  <2>4. CASE hardware
    <3>1. monitor' = "select" /\ seen' = 0 /\ late' = FALSE
      BY <1>8, <2>4 DEF Modem!Tell
    <3>2. CASE ready /\ (seen = 2 \/ (seen = 1 /\ ~awake))
      <4>1. owed' = (late \/ link # 0) /\ excuse' = {e \in {"late"} : late}
        BY <1>8, <2>4, <3>2 DEF Modem!Tell
      <4>2. owed' \in BOOLEAN /\ (link = 0 /\ owed' => excuse' # {})
        BY <4>1 DEF MonitorInv, MonitorType, Excused
      <4>3. MonitorType'
        BY <2>1, <2>2, <3>1, <4>2, Zenon DEF MonitorInv, MonitorType
      <4>4. Excused'
        BY <2>1, <3>1, <4>2 DEF Excused
      <4>5. QED
        BY <4>3, <4>4 DEF MonitorInv
    <3>3. CASE ~(ready /\ (seen = 2 \/ (seen = 1 /\ ~awake)))
      <4>1. owed' = owed /\ excuse' = excuse \cup {e \in {"late"} : late}
                                       \cup {e \in {"not ready"} : seen # 0 /\ ~ready}
                                       \cup {e \in {"awake"} : seen = 1 /\ awake}
        BY <1>8, <2>4, <3>3 DEF Modem!Tell
      <4>2. CASE seen = 0
        BY <2>1, <3>1, <4>1, <4>2 DEF MonitorInv, MonitorType, Excused
      <4>3. CASE seen # 0
        <5>1. seen \in {1, 2}
          BY <4>3 DEF MonitorInv, MonitorType, Excused
        <5>2. ~ready \/ (seen = 1 /\ awake)
          BY <3>3, <5>1
        <5>3. excuse' # {}
          BY <4>1, <4>3, <5>2, Zenon
        <5>4. MonitorType'
          BY <2>1, <2>2, <3>1, <4>1, Zenon DEF MonitorInv, MonitorType
        <5>5. Excused'
          BY <3>1, <5>3 DEF Excused
        <5>6. QED
          BY <5>4, <5>5 DEF MonitorInv
      <4>4. QED
        BY <4>2, <4>3
    <3>4. QED
      BY <3>2, <3>3
  <2>5. QED
    BY <2>3, <2>4
<1>9. QED
  <2>1. CASE \E state \in {1, 2} : Modem!Change(state)
    BY <1>1, <2>1, Zenon
  <2>2. CASE \E b \in BOOLEAN : Modem!SetRadioState(b) \/ Modem!FindMatchedDevice(b)
    BY <1>3, <2>2, Zenon
  <2>3. CASE \E valid, count \in 0 .. 1 : Modem!CurrentCalls(valid, count)
    BY <1>5, <2>3, Zenon
  <2>4. QED
    BY <1>4, <1>6, <1>7, <1>8, <2>1, <2>2, <2>3, Zenon DEF Modem!Next

LEMMA MonitorInvariant == Spec => []MonitorInv
<1>1. Init => MonitorInv
  <2>1. Init => /\ link = 0 /\ seen = 0 /\ monitor = "select" /\ hardware = TRUE /\ ready = TRUE
                /\ awake = FALSE /\ owed = FALSE /\ late = FALSE
    BY Zenon DEF Init, Modem!Init
  <2>2. Init => MonitorType
    <3>1. 0 \in 0 .. 2
      OBVIOUS
    <3>2. QED
      BY <2>1, <3>1, Zenon DEF MonitorType
  <2>3. Init => Excused
    BY <2>1 DEF Excused
  <2>4. QED
    BY <2>2, <2>3 DEF MonitorInv
<1>2. MonitorInv /\ [Next]_vars => MonitorInv'
  <2>1. ASSUME MonitorInv, UNCHANGED modemVars PROVE MonitorInv'
    BY <2>1 DEF modemVars, MonitorInv, MonitorType, Excused
  <2>2. QED
    BY <2>1, MonitorStep, OneProgram
<1>3. QED
  BY <1>1, <1>2, PTL DEF Spec

(* A change of the link that is not in the file any more has been told to   *)
(* the framework, unless it came while another was being read, the radio    *)
(* was not ready, or a call was going on.                                   *)
THEOREM LinkChangeTold == Spec => []NoChangeLost
<1>1. MonitorInv => NoChangeLost
  BY DEF MonitorInv, MonitorType, Excused, NoChangeLost, Modem!NoChangeLost
<1>2. QED
  BY MonitorInvariant, <1>1, PTL

-----------------------------------------------------------------------------
(* The log of push to talk.                                                 *)

Bits      == {1, 2, 3}
SetStates == [alive : BOOLEAN, sig : SUBSET Bits]
LogStates == [at : {"none", "loop", "wait", "read", "ended"}, on : 0 .. MaxSets,
              trigger : BOOLEAN, open : BOOLEAN]

LogType ==
  /\ pttlog_init \in Int /\ ptt_es \in 0 .. MaxSets
  /\ set \in [Ptt!Ids -> SetStates] /\ log \in [Ptt!Ids -> LogStates]
  /\ logCaller \in [Threads -> {"idle", "asking", "sleep"}]
  /\ fault \in BOOLEAN

(* No log is running.                                                       *)
NoLog ==
  /\ pttlog_init = 0
  /\ \A t \in Threads : logCaller[t] = "idle"
  /\ \A i \in Ptt!Ids : log[i].at \in {"none", "ended"}

(* One is, on the event set ptt_es; it ends when ptt_log_stop asks for it.  *)
OneLog ==
  /\ pttlog_init = 1 /\ ptt_es \in Ptt!Ids /\ set[ptt_es].alive
  /\ \A t, u \in Threads : logCaller[t] # "idle" /\ logCaller[u] # "idle" => t = u
  /\ log[ptt_es].at # "none" /\ (log[ptt_es].at = "wait" => log[ptt_es].on = ptt_es)
  /\ \A i \in Ptt!Ids \ {ptt_es} : log[i].at \in {"none", "ended"}
  /\ IF \E t \in Threads : logCaller[t] = "sleep"
     THEN log[ptt_es].at = "ended" \/ Ptt!eventLogStop \in set[ptt_es].sig
     ELSE log[ptt_es].at # "ended" /\ Ptt!eventLogStop \notin set[ptt_es].sig

LogInv == LogType /\ (logSpoilt = {} => ~fault /\ (NoLog \/ OneLog))

LEMMA LowestBit ==
  ASSUME NEW sig \in SUBSET Bits, sig # {}
  PROVE  Ptt!FindFirstBit(sig) \in sig
<1>1. \E e \in sig : \A f \in sig : e <= f
  <2>1. CASE 1 \in sig
    BY <2>1 DEF Bits
  <2>2. CASE 1 \notin sig /\ 2 \in sig
    BY <2>2 DEF Bits
  <2>3. CASE 1 \notin sig /\ 2 \notin sig
    <3>1. 3 \in sig
      BY <2>3 DEF Bits
    <3>2. QED
      BY <2>3, <3>1 DEF Bits
  <2>4. QED
    BY <2>1, <2>2, <2>3
<1>2. QED
  BY <1>1 DEF Ptt!FindFirstBit

(* The states of sets and log threads after each kind of change.            *)
LEMMA WithBit ==
  ASSUME LogType, NEW e \in Bits
  PROVE  /\ Ptt!With(ptt_es, e) \in [Ptt!Ids -> SetStates]
         /\ \A i \in Ptt!Ids : Ptt!With(ptt_es, e)[i].alive = set[i].alive
         /\ ptt_es \in Ptt!Ids /\ set[ptt_es].alive =>
               Ptt!With(ptt_es, e)[ptt_es].sig = set[ptt_es].sig \cup {e}
<1> USE DEF Ptt!With, Ptt!SetBit
<1>1. CASE ptt_es # 0 /\ set[ptt_es].alive
  <2>1. ptt_es \in Ptt!Ids
    BY <1>1 DEF LogType, Ptt!Ids
  <2>2. Ptt!With(ptt_es, e) = [set EXCEPT ![ptt_es].sig = @ \cup {e}]
    BY <1>1
  <2>3. QED
    BY <2>1, <2>2 DEF LogType, SetStates
<1>2. CASE ~(ptt_es # 0 /\ set[ptt_es].alive)
  <2>1. Ptt!With(ptt_es, e) = set
    BY <1>2
  <2>2. QED
    BY <1>2, <2>1 DEF LogType, Ptt!Ids
<1>3. QED
  BY <1>1, <1>2

LEMMA LogChange ==
  ASSUME LogType, NEW i \in Ptt!Ids, NEW l \in LogStates, log' = [log EXCEPT ![i] = l]
  PROVE  log' \in [Ptt!Ids -> LogStates] /\ log'[i] = l /\ \A j \in Ptt!Ids \ {i} : log'[j] = log[j]
BY DEF LogType

LEMMA SetChange ==
  ASSUME LogType, NEW i \in Ptt!Ids, NEW s \in SetStates, set' = [set EXCEPT ![i] = s]
  PROVE  set' \in [Ptt!Ids -> SetStates] /\ set'[i] = s /\ \A j \in Ptt!Ids \ {i} : set'[j] = set[j]
BY DEF LogType

LEMMA CallerChange ==
  ASSUME LogType, NEW t \in Threads, NEW c \in {"idle", "asking", "sleep"},
         logCaller' = [logCaller EXCEPT ![t] = c]
  PROVE  /\ logCaller' \in [Threads -> {"idle", "asking", "sleep"}] /\ logCaller'[t] = c
         /\ \A u \in Threads \ {t} : logCaller'[u] = logCaller[u]
BY DEF LogType

(* The bits that a command sets.                                            *)
LEMMA EventBits ==
  /\ Ptt!eventLogStart \in Bits /\ Ptt!eventLogStop \in Bits /\ Ptt!eventLogTrigger \in Bits
  /\ Ptt!eventLogStart # Ptt!eventLogStop /\ Ptt!eventLogTrigger # Ptt!eventLogStop
BY DEF Bits, Ptt!eventLogStart, Ptt!eventLogStop, Ptt!eventLogTrigger

(* What Signal does to a log that is running, and how it starts one.        *)
LEMMA SignalRunning ==
  ASSUME LogType, OneLog, ~fault, NEW e \in Bits, Ptt!Signal(e)
  PROVE  /\ UNCHANGED <<pttlog_init, ptt_es, log, fault>>
         /\ set' \in [Ptt!Ids -> SetStates] /\ set'[ptt_es].alive
         /\ set'[ptt_es].sig = set[ptt_es].sig \cup {e}
<1>1. pttlog_init # 0 /\ ptt_es \in Ptt!Ids /\ set[ptt_es].alive
  BY DEF OneLog
<1>2. ~Ptt!Freed(ptt_es)
  BY <1>1 DEF Ptt!Freed
<1>3. set' = Ptt!With(ptt_es, e) /\ fault' = (fault \/ Ptt!Freed(ptt_es))
      /\ UNCHANGED <<pttlog_init, ptt_es, log>>
  BY <1>1 DEF Ptt!Signal
<1>4. fault' = fault
  BY <1>2, <1>3 DEF LogType
<1>5. /\ Ptt!With(ptt_es, e) \in [Ptt!Ids -> SetStates] /\ Ptt!With(ptt_es, e)[ptt_es].alive
      /\ Ptt!With(ptt_es, e)[ptt_es].sig = set[ptt_es].sig \cup {e}
  <2>1. /\ Ptt!With(ptt_es, e) \in [Ptt!Ids -> SetStates]
        /\ \A i \in Ptt!Ids : Ptt!With(ptt_es, e)[i].alive = set[i].alive
        /\ ptt_es \in Ptt!Ids /\ set[ptt_es].alive =>
              Ptt!With(ptt_es, e)[ptt_es].sig = set[ptt_es].sig \cup {e}
    BY WithBit, Zenon
  <2>2. QED
    BY <1>1, <2>1, Zenon
<1>6. QED
  BY <1>3, <1>4, <1>5, Zenon

LEMMA SignalNew ==
  ASSUME LogType, NoLog, NEW e \in Bits, Ptt!Signal(e)
  PROVE  /\ pttlog_init' = 1 /\ ptt_es' \in Ptt!Ids /\ fault' = fault
         /\ set' \in [Ptt!Ids -> SetStates] /\ set'[ptt_es'] = [alive |-> TRUE, sig |-> {e}]
         /\ log' \in [Ptt!Ids -> LogStates] /\ log'[ptt_es'].at = "loop"
         /\ \A i \in Ptt!Ids \ {ptt_es'} : log'[i].at \in {"none", "ended"}
<1>1. pttlog_init = 0
  BY DEF NoLog
<1>2. PICK n \in Ptt!Ids :
         /\ pttlog_init' = 1 /\ ptt_es' = n
         /\ set' = [set EXCEPT ![n] = [alive |-> TRUE, sig |-> {e}]]
         /\ log' = [log EXCEPT ![n].at = "loop"]
         /\ fault' = fault
  BY <1>1, Zenon DEF Ptt!Signal
<1>3. [alive |-> TRUE, sig |-> {e}] \in SetStates
  BY DEF SetStates
<1>4. DEFINE l == [log[n] EXCEPT !.at = "loop"]
<1>5. l \in LogStates /\ l.at = "loop" /\ log' = [log EXCEPT ![n] = l]
  BY <1>2 DEF LogType, LogStates
<1> HIDE DEF l
<1>6. log' \in [Ptt!Ids -> LogStates] /\ log'[n] = l /\ \A j \in Ptt!Ids \ {n} : log'[j] = log[j]
  BY <1>5, LogChange
<1>7. set' \in [Ptt!Ids -> SetStates] /\ set'[n] = [alive |-> TRUE, sig |-> {e}]
  BY <1>2, <1>3, SetChange
<1>8. \A i \in Ptt!Ids \ {n} : log'[i].at \in {"none", "ended"}
  BY <1>6 DEF NoLog
<1>9. QED
  BY <1>2, <1>5, <1>6, <1>7, <1>8

(* Every step keeps the types.                                              *)
LEMMA SignalType ==
  ASSUME LogType, NEW e \in Bits, Ptt!Signal(e)
  PROVE  /\ pttlog_init' \in Int /\ ptt_es' \in 0 .. MaxSets /\ fault' \in BOOLEAN
         /\ set' \in [Ptt!Ids -> SetStates] /\ log' \in [Ptt!Ids -> LogStates]
<1>1. CASE pttlog_init # 0
  <2>1. set' = Ptt!With(ptt_es, e) /\ fault' = (fault \/ Ptt!Freed(ptt_es))
        /\ UNCHANGED <<pttlog_init, ptt_es, log>>
    BY <1>1 DEF Ptt!Signal
  <2>2. fault' \in BOOLEAN
    BY <2>1 DEF LogType, Ptt!Freed
  <2>3. QED
    BY <2>1, <2>2, WithBit DEF LogType
<1>2. CASE pttlog_init = 0
  <2>1. PICK n \in Ptt!Ids :
           /\ pttlog_init' = 1 /\ ptt_es' = n
           /\ set' = [set EXCEPT ![n] = [alive |-> TRUE, sig |-> {e}]]
           /\ log' = [log EXCEPT ![n].at = "loop"]
           /\ fault' = fault
    BY <1>2, Zenon DEF Ptt!Signal
  <2>2. [alive |-> TRUE, sig |-> {e}] \in SetStates
    BY DEF SetStates
  <2>3. set' \in [Ptt!Ids -> SetStates] /\ ptt_es' \in 0 .. MaxSets /\ pttlog_init' \in Int
    BY <2>1, <2>2 DEF LogType, Ptt!Ids
  <2>4. log' \in [Ptt!Ids -> LogStates] /\ fault' \in BOOLEAN
    BY <2>1 DEF LogType, LogStates
  <2>5. QED
    BY <2>3, <2>4
<1>3. QED
  BY <1>1, <1>2 DEF LogType

LEMMA LogTypeStep ==
  ASSUME LogType, Ptt!Next
  PROVE  LogType'
<1>1. ASSUME NEW t \in Threads, Ptt!Start(t) \/ Ptt!Trigger(t) PROVE LogType'
  <2>1. PICK e \in Bits : Ptt!Signal(e)
    BY <1>1, EventBits DEF Ptt!Start, Ptt!Trigger
  <2>2. logCaller' \in [Threads -> {"idle", "asking", "sleep"}]
    BY <1>1 DEF Ptt!Start, Ptt!Trigger, LogType
  <2>3. QED
    BY <2>1, <2>2, SignalType DEF LogType
<1>2. ASSUME NEW t \in Threads, Ptt!Stop(t) PROVE LogType'
  <2>1. set' \in [Ptt!Ids -> SetStates]
    BY <1>2, WithBit, EventBits DEF Ptt!Stop
  <2>2. logCaller' \in [Threads -> {"idle", "asking", "sleep"}]
    BY <1>2 DEF Ptt!Stop, LogType
  <2>3. fault' \in BOOLEAN /\ UNCHANGED <<pttlog_init, ptt_es, log>>
    BY <1>2 DEF Ptt!Stop, Ptt!Freed, LogType
  <2>4. QED
    BY <2>1, <2>2, <2>3 DEF LogType
<1>3. ASSUME NEW t \in Threads, Ptt!Awake(t) PROVE LogType'
  <2>1. logCaller' \in [Threads -> {"idle", "asking", "sleep"}] /\ UNCHANGED <<ptt_es, log>>
    BY <1>3 DEF Ptt!Awake, Ptt!Destroy, LogType
  <2>2. CASE pttlog_init = 0
    <3>1. UNCHANGED <<pttlog_init, set, fault>>
      BY <1>3, <2>2 DEF Ptt!Awake, Ptt!Destroy
    <3>2. QED
      BY <2>1, <3>1 DEF LogType
  <2>3. CASE pttlog_init # 0
    <3>1. pttlog_init' \in Int /\ fault' \in BOOLEAN
      <4>1. pttlog_init' = pttlog_init - 1
        BY <1>3, <2>3 DEF Ptt!Awake, Ptt!Destroy
      <4>2. fault' = (fault \/ Ptt!Freed(ptt_es)
                            \/ \E i \in Ptt!Ids : log[i].at = "wait" /\ log[i].on = ptt_es)
        BY <1>3, <2>3, Zenon DEF Ptt!Awake, Ptt!Destroy
      <4>3. fault' \in BOOLEAN
        BY <4>2, Zenon
      <4>4. QED
        BY <4>1, <4>3 DEF LogType
    <3>2. set' = IF ptt_es = 0 THEN set ELSE [set EXCEPT ![ptt_es].alive = FALSE]
      BY <1>3, <2>3 DEF Ptt!Awake, Ptt!Destroy
    <3>3. set' \in [Ptt!Ids -> SetStates]
      BY <3>2 DEF LogType, SetStates, Ptt!Ids
    <3>4. QED
      BY <2>1, <3>1, <3>3 DEF LogType
  <2>4. QED
    BY <2>2, <2>3
<1>4. ASSUME NEW i \in Ptt!Ids, Ptt!Wait(i) PROVE LogType'
  <2>1. log' = [log EXCEPT ![i].at = "wait", ![i].on = ptt_es]
    BY <1>4 DEF Ptt!Wait
  <2>2. log' \in [Ptt!Ids -> LogStates]
    BY <2>1 DEF LogType, LogStates
  <2>3. fault' \in BOOLEAN /\ UNCHANGED <<pttlog_init, ptt_es, set, logCaller>>
    BY <1>4 DEF Ptt!Wait, Ptt!Freed, LogType
  <2>4. QED
    BY <2>2, <2>3 DEF LogType
<1>5. ASSUME NEW i \in Ptt!Ids, Ptt!Take(i) PROVE LogType'
  <2>1. set' \in [Ptt!Ids -> SetStates]
    BY <1>5 DEF Ptt!Take, Ptt!ClearBit, LogType, SetStates
  <2>2. log' \in [Ptt!Ids -> LogStates]
    <3>1. \/ log' = [log EXCEPT ![i].at = "loop", ![i].open = TRUE]
          \/ log' = [log EXCEPT ![i].at = "ended", ![i].open = FALSE]
          \/ log' = [log EXCEPT ![i].at = "loop", ![i].trigger = TRUE]
      <4>1. Ptt!Take(i)
        BY <1>5
      <4> DEFINE start == [log EXCEPT ![i].at = "loop", ![i].open = TRUE]
                 stop == [log EXCEPT ![i].at = "ended", ![i].open = FALSE]
                 other == [log EXCEPT ![i].at = "loop", ![i].trigger = TRUE]
                 e == Ptt!FindFirstBit(set[log[i].on].sig)
      <4>2. log' = CASE e = Ptt!eventLogStart -> start
                     [] e = Ptt!eventLogStop -> stop
                     [] OTHER -> other
        BY <4>1 DEF Ptt!Take
      <4> HIDE DEF e, start, stop, other
      <4>3. log' = start \/ log' = stop \/ log' = other
        BY <4>2
      <4>4. QED
        BY <4>3 DEF start, stop, other
    <3>2. log \in [Ptt!Ids -> LogStates]
      BY DEF LogType
    <3>3. QED
      BY <3>1, <3>2 DEF LogStates
  <2>3. UNCHANGED <<pttlog_init, ptt_es, logCaller, fault>>
    BY <1>5 DEF Ptt!Take
  <2>4. QED
    BY <2>1, <2>2, <2>3 DEF LogType
<1>6. ASSUME NEW i \in Ptt!Ids, Ptt!TimeOut(i) \/ Ptt!ReadDone(i) PROVE LogType'
  <2>1. PICK a \in {"read", "loop"} : log' = [log EXCEPT ![i].at = a]
    BY <1>6 DEF Ptt!TimeOut, Ptt!ReadDone
  <2>2. log' \in [Ptt!Ids -> LogStates]
    BY <2>1 DEF LogType, LogStates
  <2>3. UNCHANGED <<pttlog_init, ptt_es, set, logCaller, fault>>
    BY <1>6 DEF Ptt!TimeOut, Ptt!ReadDone
  <2>4. QED
    BY <2>2, <2>3 DEF LogType
<1>7. QED
  BY <1>1, <1>2, <1>3, <1>4, <1>5, <1>6, Zenon DEF Ptt!Next

(* While nothing has happened that the code does not guard against, the     *)
(* step of a thread is that of the only one in ptt_log_start or             *)
(* ptt_log_stop.                                                            *)
LEMMA StartStep ==
  ASSUME LogInv, LogType', NEW t \in Threads, Ptt!Start(t), logSpoilt' = {}
  PROVE  ~fault' /\ OneLog'
<1>1. logSpoilt = {} /\ \A u \in Threads \ {t} : logCaller[u] = "idle"
  <2>1. logSpoilt' = logSpoilt \cup {s \in {"overlap"} : Ptt!Busy(t)}
    BY DEF Ptt!Start, Ptt!Spoil
  <2>2. logSpoilt = {} /\ ~Ptt!Busy(t)
    BY <2>1
  <2>3. QED
    BY <2>2 DEF Ptt!Busy
<1>2. /\ logCaller[t] = "idle" /\ logCaller'[t] = "asking"
      /\ \A u \in Threads \ {t} : logCaller'[u] = "idle"
  <2>1. logCaller[t] = "idle" /\ logCaller' = [logCaller EXCEPT ![t] = "asking"]
    BY DEF Ptt!Start
  <2>2. QED
    BY <1>1, <2>1, CallerChange DEF LogInv
<1>3. /\ ~\E u \in Threads : logCaller'[u] = "sleep"
      /\ \A u, v \in Threads : logCaller'[u] # "idle" /\ logCaller'[v] # "idle" => u = v
  BY <1>2
<1>4. Ptt!Signal(Ptt!eventLogStart) /\ LogType /\ ~fault /\ (NoLog \/ OneLog)
  BY <1>1 DEF Ptt!Start, LogInv
<1>5. CASE NoLog
  <2>1. /\ pttlog_init' = 1 /\ ptt_es' \in Ptt!Ids /\ fault' = fault
        /\ set'[ptt_es'] = [alive |-> TRUE, sig |-> {Ptt!eventLogStart}]
        /\ log'[ptt_es'].at = "loop"
        /\ \A i \in Ptt!Ids \ {ptt_es'} : log'[i].at \in {"none", "ended"}
    BY <1>4, <1>5, EventBits, SignalNew
  <2>2. set'[ptt_es'].alive /\ Ptt!eventLogStop \notin set'[ptt_es'].sig
    BY <2>1, EventBits
  <2>3. QED
    BY <1>3, <1>4, <2>1, <2>2 DEF OneLog
<1>6. CASE OneLog
  <2>1. /\ UNCHANGED <<pttlog_init, ptt_es, log, fault>> /\ set'[ptt_es].alive
        /\ set'[ptt_es].sig = set[ptt_es].sig \cup {Ptt!eventLogStart}
    BY <1>4, <1>6, EventBits, SignalRunning
  <2>2. ~\E u \in Threads : logCaller[u] = "sleep"
    BY <1>1, <1>2
  <2>3. log[ptt_es].at # "ended" /\ Ptt!eventLogStop \notin set'[ptt_es].sig
    BY <1>6, <2>1, <2>2, EventBits DEF OneLog
  <2>4. QED
    BY <1>3, <1>4, <1>6, <2>1, <2>3 DEF OneLog
<1>7. QED
  BY <1>4, <1>5, <1>6

LEMMA TriggerStep ==
  ASSUME LogInv, LogType', NEW t \in Threads, Ptt!Trigger(t), logSpoilt' = {}
  PROVE  ~fault' /\ OneLog'
<1>1. logSpoilt = {}
  BY DEF Ptt!Trigger, Ptt!Spoil
<1>2. logCaller[t] = "asking" /\ LogType /\ OneLog /\ ~fault /\ Ptt!Signal(Ptt!eventLogTrigger)
  BY <1>1 DEF Ptt!Trigger, LogInv, NoLog
<1>3. \A u \in Threads \ {t} : logCaller[u] = "idle"
  BY <1>2 DEF OneLog
<1>4. logCaller'[t] = "idle" /\ \A u \in Threads \ {t} : logCaller'[u] = "idle"
  <2>1. logCaller' = [logCaller EXCEPT ![t] = "idle"]
    BY DEF Ptt!Trigger
  <2>2. QED
    BY <1>2, <1>3, <2>1, CallerChange
<1>5. /\ UNCHANGED <<pttlog_init, ptt_es, log, fault>> /\ set'[ptt_es].alive
      /\ set'[ptt_es].sig = set[ptt_es].sig \cup {Ptt!eventLogTrigger}
  BY <1>2, EventBits, SignalRunning
<1>6. ~\E u \in Threads : logCaller[u] = "sleep"
  BY <1>2, <1>3
<1>7. log[ptt_es].at # "ended" /\ Ptt!eventLogStop \notin set'[ptt_es].sig
  BY <1>2, <1>5, <1>6, EventBits DEF OneLog
<1>8. QED
  BY <1>2, <1>4, <1>5, <1>7 DEF OneLog

LEMMA StopStep ==
  ASSUME LogInv, LogType', NEW t \in Threads, Ptt!Stop(t), logSpoilt' = {}
  PROVE  ~fault' /\ OneLog'
<1>1. logSpoilt = {} /\ pttlog_init # 0 /\ \A u \in Threads \ {t} : logCaller[u] = "idle"
  <2>1. logSpoilt' = logSpoilt \cup ({s \in {"overlap"} : Ptt!Busy(t)}
                                   \cup {s \in {"stopped"} : pttlog_init = 0})
    BY DEF Ptt!Stop, Ptt!Spoil
  <2>2. logSpoilt = {} /\ ~Ptt!Busy(t) /\ pttlog_init # 0
    BY <2>1
  <2>3. QED
    BY <2>2 DEF Ptt!Busy
<1>2. LogType /\ OneLog /\ ~fault
  BY <1>1 DEF LogInv, NoLog
<1>3. logCaller'[t] = "sleep" /\ \A u \in Threads \ {t} : logCaller'[u] = "idle"
  <2>1. logCaller' = [logCaller EXCEPT ![t] = "sleep"]
    BY DEF Ptt!Stop
  <2>2. QED
    BY <1>1, <1>2, <2>1, CallerChange
<1>4. ptt_es \in Ptt!Ids /\ set[ptt_es].alive
  BY <1>2 DEF OneLog
<1>5. set'[ptt_es].alive /\ Ptt!eventLogStop \in set'[ptt_es].sig
  <2>1. set' = Ptt!With(ptt_es, Ptt!eventLogStop)
    BY DEF Ptt!Stop
  <2>2. /\ \A i \in Ptt!Ids : set'[i].alive = set[i].alive
        /\ set'[ptt_es].sig = set[ptt_es].sig \cup {Ptt!eventLogStop}
    BY <1>2, <1>4, <2>1, WithBit, EventBits
  <2>3. QED
    BY <1>4, <2>2
<1>6. ~fault' /\ UNCHANGED <<pttlog_init, ptt_es, log>>
  <2>1. ~Ptt!Freed(ptt_es)
    BY <1>4 DEF Ptt!Freed
  <2>2. QED
    BY <1>2, <2>1 DEF Ptt!Stop
<1>7. QED
  BY <1>2, <1>3, <1>5, <1>6 DEF OneLog

(* When ptt_log_stop wakes up, the log thread has ended.                    *)
LEMMA AwakeStep ==
  ASSUME LogInv, LogType', NEW t \in Threads, Ptt!Awake(t), logSpoilt' = {}
  PROVE  ~fault' /\ NoLog'
<1>1. logSpoilt = {} /\ \A i \in Ptt!Ids : log[i].at # "read"
  <2>1. logSpoilt' = logSpoilt \cup {s \in {"held up"} : \E i \in Ptt!Ids : log[i].at = "read"}
    BY DEF Ptt!Awake, Ptt!Destroy, Ptt!Spoil
  <2>2. QED
    BY <2>1
<1>2. logCaller[t] = "sleep" /\ LogType /\ OneLog /\ ~fault
  BY <1>1 DEF Ptt!Awake, LogInv, NoLog
<1>3. log[ptt_es].at = "ended"
  <2>1. log[ptt_es].at = "ended" \/ Ptt!eventLogStop \in set[ptt_es].sig
    BY <1>2 DEF OneLog
  <2>2. \/ log[ptt_es].at \in {"none", "read", "ended"}
        \/ log[ptt_es].at = "wait" /\ set[log[ptt_es].on].sig = {}
    BY <1>2 DEF Ptt!Awake, Ptt!TimedOut, OneLog
  <2>3. log[ptt_es].at \notin {"none", "read"} /\ (log[ptt_es].at = "wait" => log[ptt_es].on = ptt_es)
    BY <1>1, <1>2 DEF OneLog
  <2>4. QED
    BY <2>1, <2>2, <2>3
<1>4. \A i \in Ptt!Ids : log[i].at \in {"none", "ended"}
  BY <1>2, <1>3 DEF OneLog
<1>5. \A u \in Threads : logCaller'[u] = "idle"
  <2>1. logCaller' = [logCaller EXCEPT ![t] = "idle"]
    BY DEF Ptt!Awake, Ptt!Destroy
  <2>2. \A u \in Threads \ {t} : logCaller[u] = "idle"
    BY <1>2 DEF OneLog
  <2>3. QED
    BY <1>2, <2>1, <2>2, CallerChange
<1>6. pttlog_init = 1 /\ ptt_es \in Ptt!Ids /\ set[ptt_es].alive
  BY <1>2 DEF OneLog
<1>7. pttlog_init' = pttlog_init - 1 /\ UNCHANGED log
      /\ fault' = (fault \/ Ptt!Freed(ptt_es)
                         \/ \E i \in Ptt!Ids : log[i].at = "wait" /\ log[i].on = ptt_es)
  <2>1. pttlog_init # 0
    BY <1>6
  <2>2. QED
    BY <2>1, Zenon DEF Ptt!Awake, Ptt!Destroy
<1>8. ~fault'
  <2>1. ~Ptt!Freed(ptt_es) /\ ~\E i \in Ptt!Ids : log[i].at = "wait" /\ log[i].on = ptt_es
    BY <1>4, <1>6 DEF Ptt!Freed
  <2>2. QED
    BY <1>2, <1>7, <2>1, Zenon
<1>9. QED
  BY <1>4, <1>5, <1>6, <1>7, <1>8 DEF NoLog

(* The log thread waits for a set that is there, and takes its bits.        *)
LEMMA LogThreadStep ==
  ASSUME LogInv, LogType', logSpoilt' = {}, NEW i \in Ptt!Ids,
         Ptt!Wait(i) \/ Ptt!Take(i) \/ Ptt!TimeOut(i) \/ Ptt!ReadDone(i)
  PROVE  ~fault' /\ OneLog'
<1>1. logSpoilt = {} /\ log[i].at \in {"loop", "wait", "read"}
      /\ UNCHANGED <<pttlog_init, ptt_es, logCaller>>
  BY DEF Ptt!Wait, Ptt!Take, Ptt!TimeOut, Ptt!ReadDone
<1>2. LogType /\ OneLog /\ ~fault /\ i = ptt_es
  BY <1>1 DEF LogInv, NoLog, OneLog
<1>3. set[ptt_es].alive
  BY <1>2 DEF OneLog
<1>4. \A a : log' = [log EXCEPT ![i].at = a] =>
              log'[i].at = a /\ \A j \in Ptt!Ids \ {i} : log'[j].at = log[j].at
  BY <1>2 DEF LogType, LogStates
<1>5. CASE Ptt!Wait(i)
  <2>1. log' = [log EXCEPT ![i].at = "wait", ![i].on = ptt_es]
    BY <1>5 DEF Ptt!Wait
  <2>2. log'[i].at = "wait" /\ log'[i].on = ptt_es
        /\ \A j \in Ptt!Ids \ {i} : log'[j].at = log[j].at
    BY <1>2, <2>1 DEF LogType, LogStates
  <2>3. log[i].at = "loop" /\ ~fault' /\ UNCHANGED set
    BY <1>2, <1>3, <1>5 DEF Ptt!Wait, Ptt!Freed
  <2>4. QED
    BY <1>1, <1>2, <2>2, <2>3 DEF OneLog
<1>6. CASE Ptt!ReadDone(i)
  <2>1. log[i].at = "read" /\ log' = [log EXCEPT ![i].at = "loop"] /\ UNCHANGED <<set, fault>>
    BY <1>6 DEF Ptt!ReadDone
  <2>2. QED
    BY <1>1, <1>2, <1>4, <2>1 DEF OneLog
<1>7. CASE Ptt!TimeOut(i)
  <2>1. log[i].at = "wait" /\ log[i].on = ptt_es /\ set[ptt_es].sig = {} /\ UNCHANGED <<set, fault>>
    BY <1>2, <1>7 DEF Ptt!TimeOut, Ptt!TimedOut, OneLog
  <2>2. PICK a \in {"read", "loop"} : log' = [log EXCEPT ![i].at = a]
    BY <1>7 DEF Ptt!TimeOut
  <2>3. ~\E t \in Threads : logCaller[t] = "sleep"
    BY <1>2, <2>1 DEF OneLog
  <2>4. log'[i].at = a /\ \A j \in Ptt!Ids \ {i} : log'[j].at = log[j].at
    BY <1>4, <2>2
  <2>5. QED
    BY <1>1, <1>2, <2>1, <2>2, <2>3, <2>4 DEF OneLog
<1>8. CASE Ptt!Take(i)
  <2> DEFINE e == Ptt!FindFirstBit(set[ptt_es].sig)
  <2>1. log[i].at = "wait" /\ log[i].on = ptt_es /\ set[ptt_es].sig # {} /\ UNCHANGED fault
    BY <1>2, <1>8 DEF Ptt!Take, Ptt!TimedOut, OneLog
  <2>2. e \in set[ptt_es].sig
    <3>1. set[ptt_es].sig \in SUBSET Bits
      BY <1>2 DEF LogType, SetStates, OneLog
    <3>2. QED
      BY <2>1, <3>1, LowestBit
  <2>3. set' = [set EXCEPT ![ptt_es].sig = Ptt!ClearBit(@, e)]
    BY <1>8, <2>1 DEF Ptt!Take
  <2>4. set'[ptt_es].alive /\ set'[ptt_es].sig = set[ptt_es].sig \ {e}
    BY <1>2, <1>3, <2>3 DEF LogType, SetStates, Ptt!ClearBit
  <2>5. CASE e = Ptt!eventLogStop
    <3>1. log' = [log EXCEPT ![i].at = "ended", ![i].open = FALSE]
      BY <1>8, <2>1, <2>5, EventBits DEF Ptt!Take
    <3>2. log'[i].at = "ended" /\ \A j \in Ptt!Ids \ {i} : log'[j].at = log[j].at
      BY <1>2, <3>1 DEF LogType, LogStates
    <3>3. \E t \in Threads : logCaller[t] = "sleep"
      BY <1>2, <2>2, <2>5 DEF OneLog
    <3>4. QED
      BY <1>1, <1>2, <2>1, <2>4, <3>2, <3>3 DEF OneLog
  <2>6. CASE e # Ptt!eventLogStop
    <3>1. \/ log' = [log EXCEPT ![i].at = "loop", ![i].open = TRUE]
          \/ log' = [log EXCEPT ![i].at = "loop", ![i].trigger = TRUE]
      BY <1>8, <2>1, <2>6 DEF Ptt!Take
    <3>2. log'[i].at = "loop" /\ \A j \in Ptt!Ids \ {i} : log'[j].at = log[j].at
      BY <1>2, <3>1 DEF LogType, LogStates
    <3>3. Ptt!eventLogStop \in set'[ptt_es].sig <=> Ptt!eventLogStop \in set[ptt_es].sig
      BY <2>4, <2>6
    <3>4. QED
      BY <1>1, <1>2, <2>1, <2>4, <3>2, <3>3 DEF OneLog
  <2>7. QED
    BY <2>5, <2>6
<1>9. QED
  BY <1>5, <1>6, <1>7, <1>8

LEMMA LogInvariant == Spec => []LogInv
<1>1. Init => LogInv
  <2>1. ASSUME Init
        PROVE  /\ pttlog_init = 0 /\ ptt_es = 0 /\ fault = FALSE /\ logSpoilt = {}
               /\ set = [i \in Ptt!Ids |-> [alive |-> FALSE, sig |-> {}]]
               /\ log = [i \in Ptt!Ids |-> [at |-> "none", on |-> 0, trigger |-> FALSE, open |-> FALSE]]
               /\ logCaller = [t \in Threads |-> "idle"]
    BY <2>1, Zenon DEF Init, Ptt!Init
  <2>2. ASSUME Init PROVE LogType
    <3>1. 0 \in 0 .. MaxSets
      BY StandaloneAssumption DEF Ptt!PttLogAssumption
    <3>2. [alive |-> FALSE, sig |-> {}] \in SetStates
      BY DEF SetStates
    <3>3. [at |-> "none", on |-> 0, trigger |-> FALSE, open |-> FALSE] \in LogStates
      BY <3>1 DEF LogStates
    <3>4. QED
      <4>1. pttlog_init \in Int /\ ptt_es \in 0 .. MaxSets /\ fault \in BOOLEAN
        BY <2>1, <2>2, <3>1
      <4>2. set \in [Ptt!Ids -> SetStates] /\ log \in [Ptt!Ids -> LogStates]
        BY <2>1, <2>2, <3>2, <3>3
      <4>3. logCaller \in [Threads -> {"idle", "asking", "sleep"}]
        BY <2>1, <2>2
      <4>4. QED
        BY <4>1, <4>2, <4>3 DEF LogType
  <2>3. ASSUME Init PROVE NoLog
    BY <2>1, <2>3 DEF NoLog
  <2>4. QED
    BY <2>1, <2>2, <2>3 DEF LogInv
<1>2. LogInv /\ [Next]_vars => LogInv'
  <2>1. ASSUME LogInv, UNCHANGED pttVars PROVE LogInv'
    BY <2>1 DEF pttVars, LogInv, LogType, NoLog, OneLog
  <2>2. ASSUME LogInv, Ptt!Next PROVE LogInv'
    <3>1. LogType'
      BY <2>2, LogTypeStep DEF LogInv
    <3>2. ASSUME logSpoilt' = {} PROVE ~fault' /\ (NoLog' \/ OneLog')
      <4>1. CASE \E t \in Threads : Ptt!Start(t) \/ Ptt!Trigger(t) \/ Ptt!Stop(t) \/ Ptt!Awake(t)
        BY <2>2, <3>1, <3>2, <4>1, StartStep, TriggerStep, StopStep, AwakeStep, Zenon
      <4>2. CASE \E i \in Ptt!Ids : Ptt!Wait(i) \/ Ptt!Take(i) \/ Ptt!TimeOut(i) \/ Ptt!ReadDone(i)
        BY <2>2, <3>1, <3>2, <4>2, LogThreadStep, Zenon
      <4>3. QED
        BY <2>2, <4>1, <4>2, Zenon DEF Ptt!Next
    <3>3. QED
      BY <3>1, <3>2 DEF LogInv
  <2>3. QED
    BY <2>1, <2>2, OneProgram
<1>3. QED
  BY <1>1, <1>2, PTL DEF Spec

(* The event set of the log is not used after it was destroyed, unless the  *)
(* calls overlap, a log that is not running is stopped, or the log thread   *)
(* is held up by a read for longer than ptt_log_stop sleeps.                *)
THEOREM LogSetUsedAlive == Spec => []LogSetAlive
<1>1. LogInv => LogSetAlive
  BY DEF LogInv, LogSetAlive, Ptt!LogSetAlive
<1>2. QED
  BY LogInvariant, <1>1, PTL

-----------------------------------------------------------------------------
(* fw_setenv and fw_printenv, for any variables, sizes, numbers of tools,   *)
(* runs and failures.                                                       *)
(*                                                                          *)
(* The invariant says what a tool that is alone holds in its hands: the     *)
(* first copy, while it reads the second; then the copy that is current     *)
(* and its flag, until it has written the other one.                        *)

CopyStates == [ok : BOOLEAN, flag : 0 .. 255, env : Env!Envs]
ToolStates == [at : {"idle", "half", "edit", "erase", "write", "mark"},
               kind : {"print", "set", "script"}, first : CopyStates, dev : {0, 1},
               flag : 0 .. 255, env : Env!Envs, ret : {0, -1}]

EnvType ==
  /\ scheme \in {"none", "boolean", "incremental"} /\ sectors \in {1, 2}
  /\ sectors = 2 => scheme = "boolean"
  /\ copy \in [{0, 1} -> CopyStates] /\ tool \in [Tools -> ToolStates]

(* The second of the copies a and b is current.                             *)
SecondWins(s, a, b) ==
  /\ s # "none" /\ b.ok
  /\ \/ ~a.ok
     \/ /\ s = "boolean"
        /\ \/ a.flag = 0 /\ b.flag = 1
           \/ a.flag # b.flag /\ a.flag # 255 /\ b.flag = 255
     \/ s = "incremental" /\ ((a.flag = 255 /\ b.flag = 0) \/ b.flag > a.flag)

(* One tool runs at a time.                                                 *)
Alone == \A p, q \in Tools : tool[p].at # "idle" /\ tool[q].at # "idle" => p = q

(* What a tool holds in its hands is what is in the flash.                  *)
Holds(p) ==
  /\ tool[p].at = "half" => tool[p].first = copy[0]
  /\ tool[p].at \in {"edit", "erase", "write"} /\ scheme = "none" => tool[p].dev = 0
  /\ tool[p].at \in {"edit", "erase", "write"} /\ scheme # "none" =>
        /\ copy[tool[p].dev].ok /\ copy[tool[p].dev].flag = tool[p].flag
        /\ tool[p].dev = 1 <=> SecondWins(scheme, copy[0], copy[1])
  /\ tool[p].at = "mark" =>
        /\ scheme = "boolean" /\ copy[tool[p].dev].ok
        /\ copy[1 - tool[p].dev] = [ok |-> TRUE, flag |-> 1, env |-> tool[p].env]

OneGood == scheme # "none" => copy[0].ok \/ copy[1].ok

(* What is visible has been written by a run that exited with 0 and by none *)
(* since, or by one that failed since, or by one that is about to mark the  *)
(* other copy; a single copy that is being written is not looked at.        *)
Shown ==
  \/ scheme = "none" /\ \E p \in Tools : tool[p].at = "write"
  \/ Env!Visible \in {kept} \cup interrupted
  \/ \E p \in Tools : tool[p].at = "mark" /\ Env!Visible = tool[p].env

EnvInv ==
  /\ EnvType
  /\ "overlap" \notin spoilt => Alone /\ (\A p \in Tools : Holds(p)) /\ OneGood
  /\ spoilt = {} => Shown

-----------------------------------------------------------------------------
(* Which copy is current, and what is visible then, before and after a step. *)

LEMMA CurrentIs ==
  ASSUME EnvType, NEW a \in CopyStates, NEW b \in CopyStates
  PROVE  /\ SecondWins(scheme, a, b) => Env!Current(a, b) = 1
         /\ ~SecondWins(scheme, a, b) => Env!Current(a, b) = 0
<1>1. CASE scheme = "none"
  BY <1>1 DEF SecondWins, Env!Current
<1>2. CASE scheme # "none"
  <2>1. Env!Current(a, b) = Env!Choice(a, b)
    BY <1>2 DEF Env!Current
  <2>2. a.ok \in BOOLEAN /\ b.ok \in BOOLEAN /\ a.flag \in Int /\ b.flag \in Int
    BY DEF CopyStates
  <2>3. CASE ~(a.ok /\ b.ok)
    <3>1. CASE ~b.ok
      BY <2>1, <3>1 DEF SecondWins, Env!Choice
    <3>2. CASE b.ok /\ ~a.ok
      BY <1>2, <2>1, <3>2 DEF SecondWins, Env!Choice
    <3>3. QED
      BY <2>3, <3>1, <3>2
  <2>4. CASE a.ok /\ b.ok /\ scheme = "boolean"
    BY <2>1, <2>2, <2>4 DEF SecondWins, Env!Choice, Env!Obsolete, Env!Active, Env!Erased
  <2>5. CASE a.ok /\ b.ok /\ scheme = "incremental"
    BY <2>1, <2>2, <2>5 DEF SecondWins, Env!Choice
  <2>6. QED
    BY <1>2, <2>3, <2>4, <2>5 DEF EnvType
<1>3. QED
  BY <1>1, <1>2

LEMMA VisibleIs ==
  EnvType => /\ SecondWins(scheme, copy[0], copy[1]) => Env!Visible = copy[1].env
             /\ ~SecondWins(scheme, copy[0], copy[1]) /\ copy[0].ok => Env!Visible = copy[0].env
<1> SUFFICES ASSUME EnvType
             PROVE  /\ SecondWins(scheme, copy[0], copy[1]) => Env!Visible = copy[1].env
                    /\ ~SecondWins(scheme, copy[0], copy[1]) /\ copy[0].ok => Env!Visible = copy[0].env
  OBVIOUS
<1>1. copy[0] \in CopyStates /\ copy[1] \in CopyStates
  BY DEF EnvType
<1>2. CASE SecondWins(scheme, copy[0], copy[1])
  <2>1. Env!Current(copy[0], copy[1]) = 1 /\ copy[1].ok
    BY <1>1, <1>2, CurrentIs DEF SecondWins
  <2>2. QED
    BY <1>2, <2>1 DEF Env!Visible, Env!Loaded
<1>3. CASE ~SecondWins(scheme, copy[0], copy[1])
  <2>1. Env!Current(copy[0], copy[1]) = 0
    BY <1>1, <1>3, CurrentIs
  <2>2. QED
    BY <1>3, <2>1 DEF Env!Visible, Env!Loaded
<1>4. QED
  BY <1>2, <1>3

LEMMA VisibleIsNext ==
  EnvType' => /\ SecondWins(scheme', copy'[0], copy'[1]) => Env!Visible' = copy'[1].env
              /\ ~SecondWins(scheme', copy'[0], copy'[1]) /\ copy'[0].ok => Env!Visible' = copy'[0].env
<1>1. (EnvType => /\ SecondWins(scheme, copy[0], copy[1]) => Env!Visible = copy[1].env
                  /\ ~SecondWins(scheme, copy[0], copy[1]) /\ copy[0].ok => Env!Visible = copy[0].env)'
  BY VisibleIs, PTL
<1>2. QED
  BY <1>1

-----------------------------------------------------------------------------
(* Every step keeps the types.                                              *)

LEMMA DefaultStates ==
  /\ Env!Torn \in CopyStates /\ ~Env!Torn.ok
  /\ Env!Gone \in ToolStates /\ Env!Gone.at = "idle"
<1>1. Env!Default \in Env!Envs
  BY DEF Env!Default, Env!Envs
<1>2. Env!Torn \in CopyStates /\ ~Env!Torn.ok
  BY <1>1 DEF Env!Torn, CopyStates, Env!Erased
<1>3. QED
  BY <1>1, <1>2 DEF Env!Gone, ToolStates

LEMMA Becomes ==
  ASSUME EnvType, NEW p \in Tools, NEW t \in ToolStates, Env!Become(p, t)
  PROVE  /\ tool' \in [Tools -> ToolStates] /\ tool'[p] = t
         /\ \A q \in Tools \ {p} : tool'[q] = tool[q]
BY DEF EnvType, Env!Become

LEMMA FlashType ==
  ASSUME EnvType, NEW d \in {0, 1}, NEW c \in CopyStates, copy' = [copy EXCEPT ![d] = c]
  PROVE  copy' \in [{0, 1} -> CopyStates] /\ copy'[d] = c /\ copy'[1 - d] = copy[1 - d]
<1>1. 1 - d \in {0, 1} /\ 1 - d # d
  OBVIOUS
<1>2. QED
  BY <1>1 DEF EnvType

(* What the tool p becomes in each of its steps.                            *)
LEMMA OpenState ==
  ASSUME EnvType, NEW kind \in {"print", "set", "script"}
  PROVE  /\ [Env!Gone EXCEPT !.at = "half", !.kind = kind, !.first = copy[0]] \in ToolStates
         /\ [Env!Gone EXCEPT !.at = "half", !.kind = kind, !.first = copy[0]].at = "half"
         /\ [Env!Gone EXCEPT !.at = "half", !.kind = kind, !.first = copy[0]].first = copy[0]
<1>1. copy[0] \in CopyStates
  BY DEF EnvType
<1>2. QED
  BY <1>1, DefaultStates DEF ToolStates

LEMMA ChooseState ==
  ASSUME EnvType, NEW p \in Tools, Env!Choose(p)
  PROVE  /\ tool[p].at = "half" /\ UNCHANGED <<scheme, sectors, copy, kept, interrupted, spoilt>>
         /\ \E t \in ToolStates :
               /\ Env!Become(p, t) /\ t.at = "edit"
               /\ t.dev = 1 => t.flag = copy[1].flag
               /\ t.dev = 0 => t.flag = tool[p].first.flag
               /\ t.dev = 1 <=> SecondWins(scheme, tool[p].first, copy[1])
<1> DEFINE d == Env!Current(tool[p].first, copy[1])
           c == IF d = 0 THEN tool[p].first ELSE copy[1]
           t == [Env!Gone EXCEPT !.at = "edit", !.kind = tool[p].kind, !.dev = d,
                                 !.flag = c.flag, !.env = Env!Loaded(c)]
<1>1. tool[p].first \in CopyStates /\ copy[1] \in CopyStates /\ tool[p].kind \in {"print", "set", "script"}
  BY DEF EnvType, ToolStates
<1>2. d \in {0, 1} /\ (d = 1 <=> SecondWins(scheme, tool[p].first, copy[1]))
  BY <1>1, CurrentIs
<1>3. tool[p].at = "half" /\ Env!Become(p, t) /\ UNCHANGED <<scheme, sectors, copy, kept, interrupted, spoilt>>
  BY DEF Env!Choose
<1> HIDE DEF d
<1>4. c \in CopyStates /\ (d = 0 => c = tool[p].first) /\ (d = 1 => c = copy[1])
  BY <1>1, <1>2
<1> HIDE DEF c
<1>5. Env!Loaded(c) \in Env!Envs /\ c.flag \in 0 .. 255
  BY <1>4 DEF Env!Loaded, CopyStates, Env!Default, Env!Envs
<1>6. t \in ToolStates /\ t.at = "edit" /\ t.dev = d /\ t.flag = c.flag
  BY <1>1, <1>2, <1>5, DefaultStates DEF ToolStates
<1> HIDE DEF t
<1>7. /\ t.dev = 1 => t.flag = copy[1].flag
      /\ t.dev = 0 => t.flag = tool[p].first.flag
      /\ t.dev = 1 <=> SecondWins(scheme, tool[p].first, copy[1])
  BY <1>2, <1>4, <1>6
<1>8. QED
  BY <1>3, <1>6, <1>7

(* The steps that lead from editing to writing keep the copy and its flag.  *)
LEMMA EditState ==
  ASSUME EnvType, NEW p \in Tools,
         Env!Close(p) \/ \E n \in Names, v \in Sizes \cup {Env!Absent} : Env!Assign(p, n, v)
  PROVE  /\ tool[p].at = "edit" /\ UNCHANGED <<scheme, sectors, copy, kept, interrupted, spoilt>>
         /\ \E t \in ToolStates :
               /\ Env!Become(p, t) /\ t.at \in {"edit", "erase"}
               /\ t.dev = tool[p].dev /\ t.flag = tool[p].flag
<1>1. tool[p] \in ToolStates
  BY DEF EnvType
<1>2. CASE Env!Close(p)
  <2> DEFINE t == [tool[p] EXCEPT !.at = "erase"]
  <2>1. t \in ToolStates /\ t.at = "erase" /\ t.dev = tool[p].dev /\ t.flag = tool[p].flag
    BY <1>1 DEF ToolStates
  <2>2. /\ tool[p].at = "edit" /\ Env!Become(p, t)
        /\ UNCHANGED <<scheme, sectors, copy, kept, interrupted, spoilt>>
    BY <1>2 DEF Env!Close
  <2> HIDE DEF t
  <2>3. QED
    BY <2>1, <2>2
<1>3. ASSUME NEW n \in Names, NEW v \in Sizes \cup {Env!Absent}, Env!Assign(p, n, v)
      PROVE  /\ tool[p].at = "edit" /\ UNCHANGED <<scheme, sectors, copy, kept, interrupted, spoilt>>
             /\ \E t \in ToolStates :
                   /\ Env!Become(p, t) /\ t.at \in {"edit", "erase"}
                   /\ t.dev = tool[p].dev /\ t.flag = tool[p].flag
  <2> DEFINE e == Env!Put(tool[p].env, n, v)
             fits == Env!Fits(tool[p].env, n, v)
             r == IF tool[p].kind = "script" /\ ~fits THEN -1 ELSE tool[p].ret
             a == IF tool[p].kind = "script" /\ fits THEN tool[p].at ELSE "erase"
             t == [tool[p] EXCEPT !.env = e, !.ret = r, !.at = a]
  <2>1. tool[p].at = "edit" /\ UNCHANGED <<scheme, sectors, copy, kept, interrupted, spoilt>>
    BY <1>3 DEF Env!Assign
  <2>2. Env!Become(p, t)
    BY <1>3 DEF Env!Assign
  <2>3. e \in Env!Envs
    BY <1>1 DEF Env!Put, Env!Envs, Env!Absent, ToolStates
  <2>4. r \in {0, -1} /\ a \in {"edit", "erase"}
    BY <1>1, <2>1 DEF ToolStates
  <2> HIDE DEF e, fits, r, a
  <2>5. t \in ToolStates /\ t.at = a /\ t.dev = tool[p].dev /\ t.flag = tool[p].flag
    BY <1>1, <2>3, <2>4 DEF ToolStates
  <2> HIDE DEF t
  <2>6. QED
    BY <2>1, <2>2, <2>4, <2>5
<1>4. QED
  BY <1>2, <1>3, Zenon

-----------------------------------------------------------------------------
(* The steps that leave the flash as it is.                                 *)

(* A change of what is visible is a change to what a tool has written.      *)
Replaces ==
  scheme # "none" /\ spoilt' = {} /\ Env!Visible' # Env!Visible =>
      \E p \in Tools : tool[p].at \in {"write", "mark"} /\ Env!Visible' = tool[p].env

LEMMA Lonely ==
  ASSUME EnvInv, "overlap" \notin spoilt, NEW p \in Tools, tool[p].at # "idle"
  PROVE  Holds(p) /\ OneGood /\ \A q \in Tools \ {p} : tool[q].at = "idle"
BY DEF EnvInv, Alone

LEMMA StillAlone ==
  ASSUME NEW p \in Tools, \A q \in Tools \ {p} : tool'[q].at = "idle", Holds(p)'
  PROVE  Alone' /\ \A q \in Tools : Holds(q)'
<1>1. Alone'
  BY DEF Alone
<1>2. ASSUME NEW q \in Tools \ {p} PROVE Holds(q)'
  BY <1>2 DEF Holds
<1>3. QED
  BY <1>1, <1>2

LEMMA SameFlash ==
  ASSUME EnvType, UNCHANGED <<scheme, copy>>
  PROVE  Env!Visible' = Env!Visible /\ (OneGood => OneGood')
BY DEF Env!Visible, Env!Loaded, Env!Current, Env!Choice, OneGood

LEMMA QuietStep ==
  ASSUME EnvInv, NEW p \in Tools, NEW t \in ToolStates, Env!Become(p, t),
         UNCHANGED <<scheme, sectors, copy, kept, interrupted>>, spoilt \subseteq spoilt',
         "overlap" \notin spoilt' => Holds(p)' /\ \A q \in Tools \ {p} : tool[q].at = "idle",
         spoilt' = {} => tool[p].at # "mark" /\ (tool[p].at = "write" => scheme # "none")
  PROVE  EnvInv' /\ Replaces
<1>1. EnvType
  BY DEF EnvInv
<1>2. /\ tool' \in [Tools -> ToolStates] /\ tool'[p] = t
      /\ \A q \in Tools \ {p} : tool'[q] = tool[q]
  BY <1>1, Becomes
<1>3. EnvType'
  BY <1>1, <1>2 DEF EnvType
<1>4. Env!Visible' = Env!Visible /\ (OneGood => OneGood')
  BY <1>1, SameFlash
<1>5. ASSUME "overlap" \notin spoilt'
      PROVE  Alone' /\ (\A q \in Tools : Holds(q)') /\ OneGood'
  <2>1. OneGood
    BY <1>5 DEF EnvInv
  <2>2. \A q \in Tools \ {p} : tool'[q].at = "idle"
    BY <1>2, <1>5
  <2>3. QED
    BY <1>4, <1>5, <2>1, <2>2, StillAlone
<1>6. ASSUME spoilt' = {} PROVE Shown'
  <2>1. spoilt = {} /\ "overlap" \notin spoilt'
    BY <1>6
  <2>2. Shown /\ \A q \in Tools \ {p} : tool[q].at = "idle"
    BY <2>1 DEF EnvInv
  <2>3. Env!Visible \in {kept} \cup interrupted
    BY <1>6, <2>2 DEF Shown
  <2>4. QED
    BY <1>4, <2>3 DEF Shown
<1>7. QED
  BY <1>3, <1>4, <1>5, <1>6 DEF EnvInv, Replaces

LEMMA OpenStep ==
  ASSUME EnvInv, NEW p \in Tools, NEW kind \in {"print", "set", "script"}, Env!Open(p, kind)
  PROVE  EnvInv' /\ Replaces
<1> DEFINE t == [Env!Gone EXCEPT !.at = "half", !.kind = kind, !.first = copy[0]]
<1>1. t \in ToolStates /\ t.at = "half" /\ t.first = copy[0]
  BY OpenState DEF EnvInv
<1>2. /\ Env!Become(p, t) /\ tool[p].at = "idle"
      /\ UNCHANGED <<scheme, sectors, copy, kept, interrupted>>
      /\ spoilt' = spoilt \cup {s \in {"overlap"} : \E q \in Tools : tool[q].at # "idle"}
  BY DEF Env!Open
<1> HIDE DEF t
<1>3. tool'[p] = t
  BY <1>1, <1>2, Becomes DEF EnvInv
<1>4. Holds(p)'
  BY <1>1, <1>2, <1>3 DEF Holds
<1>5. "overlap" \notin spoilt' => \A q \in Tools : tool[q].at = "idle"
  BY <1>2
<1>6. QED
  BY <1>1, <1>2, <1>4, <1>5, QuietStep

LEMMA ChooseStep ==
  ASSUME EnvInv, NEW p \in Tools, Env!Choose(p)
  PROVE  EnvInv' /\ Replaces
<1>1. tool[p].at = "half" /\ UNCHANGED <<scheme, sectors, copy, kept, interrupted, spoilt>>
  BY ChooseState DEF EnvInv
<1>2. PICK t \in ToolStates :
         /\ Env!Become(p, t) /\ t.at = "edit"
         /\ t.dev = 1 => t.flag = copy[1].flag
         /\ t.dev = 0 => t.flag = tool[p].first.flag
         /\ t.dev = 1 <=> SecondWins(scheme, tool[p].first, copy[1])
  BY ChooseState DEF EnvInv
<1>3. tool'[p] = t
  BY <1>2, Becomes DEF EnvInv
<1>4. ASSUME "overlap" \notin spoilt' PROVE Holds(p)' /\ \A q \in Tools \ {p} : tool[q].at = "idle"
  <2>1. Holds(p) /\ OneGood /\ \A q \in Tools \ {p} : tool[q].at = "idle"
    BY <1>1, <1>4, Lonely
  <2>2. tool[p].first = copy[0]
    BY <1>1, <2>1 DEF Holds
  <2>3. t.dev \in {0, 1}
    BY DEF ToolStates
  <2>4. scheme = "none" => t.dev = 0
    BY <1>2, <2>3 DEF SecondWins
  <2>5. scheme # "none" => copy[t.dev].ok /\ copy[t.dev].flag = t.flag
    <3>1. CASE t.dev = 1
      BY <1>2, <3>1 DEF SecondWins
    <3>2. CASE t.dev = 0
      BY <1>2, <2>1, <2>2, <3>2 DEF SecondWins, OneGood
    <3>3. QED
      BY <2>3, <3>1, <3>2
  <2>6. Holds(p)'
    BY <1>1, <1>2, <1>3, <2>2, <2>4, <2>5 DEF Holds
  <2>7. QED
    BY <2>1, <2>6
<1>5. QED
  BY <1>1, <1>2, <1>4, QuietStep

LEMMA EditStep ==
  ASSUME EnvInv, NEW p \in Tools,
         Env!Close(p) \/ \E n \in Names, v \in Sizes \cup {Env!Absent} : Env!Assign(p, n, v)
  PROVE  EnvInv' /\ Replaces
<1>1. tool[p].at = "edit" /\ UNCHANGED <<scheme, sectors, copy, kept, interrupted, spoilt>>
  BY EditState DEF EnvInv
<1>2. PICK t \in ToolStates :
         /\ Env!Become(p, t) /\ t.at \in {"edit", "erase"}
         /\ t.dev = tool[p].dev /\ t.flag = tool[p].flag
  BY EditState DEF EnvInv
<1>3. tool'[p] = t
  BY <1>2, Becomes DEF EnvInv
<1>4. ASSUME "overlap" \notin spoilt' PROVE Holds(p)' /\ \A q \in Tools \ {p} : tool[q].at = "idle"
  <2>1. Holds(p) /\ \A q \in Tools \ {p} : tool[q].at = "idle"
    BY <1>1, <1>4, Lonely
  <2>2. Holds(p)'
    BY <1>1, <1>2, <1>3, <2>1 DEF Holds
  <2>3. QED
    BY <2>1, <2>2
<1>5. QED
  BY <1>1, <1>2, <1>4, QuietStep

(* The tool ends without having written, or its write has failed.           *)
LEMMA EndStep ==
  ASSUME EnvInv, NEW p \in Tools,
         Env!OpenFails(p) \/ Env!PrintEnv(p) \/ Env!WriteFails(p)
  PROVE  EnvInv' /\ Replaces
<1>1. /\ tool[p].at \in {"half", "edit", "write"} /\ Env!Become(p, Env!Gone)
      /\ UNCHANGED <<scheme, sectors, copy, kept, interrupted>>
      /\ spoilt \subseteq spoilt'
      /\ spoilt' = {} /\ tool[p].at = "write" => scheme # "none"
  <2>1. CASE Env!OpenFails(p) \/ Env!PrintEnv(p)
    BY <2>1 DEF Env!OpenFails, Env!PrintEnv
  <2>2. CASE Env!WriteFails(p)
    BY <2>2 DEF Env!WriteFails
  <2>3. QED
    BY <2>1, <2>2
<1>2. Env!Gone \in ToolStates /\ Env!Gone.at = "idle"
  BY DefaultStates
<1>3. Holds(p)'
  <2>1. tool'[p] = Env!Gone
    BY <1>1, <1>2, Becomes DEF EnvInv
  <2>2. QED
    BY <1>2, <2>1 DEF Holds
<1>4. "overlap" \notin spoilt' => \A q \in Tools \ {p} : tool[q].at = "idle"
  BY <1>1, Lonely
<1>5. QED
  BY <1>1, <1>2, <1>3, <1>4, QuietStep

(* The power fails: what was about to be marked may be what is left.        *)
LEMMA PowerStep ==
  ASSUME EnvInv, Env!PowerFails
  PROVE  EnvInv' /\ Replaces
<1>1. /\ tool' = [p \in Tools |-> Env!Gone] /\ UNCHANGED <<scheme, sectors, copy, kept>>
      /\ interrupted' = interrupted \cup {tool[p].env : p \in {q \in Tools : tool[q].at = "mark"}}
      /\ spoilt' = spoilt \cup {s \in {"single"} : scheme = "none"
                                                  /\ \E p \in Tools : tool[p].at = "write"}
  BY DEF Env!PowerFails
<1>2. EnvType /\ EnvType'
  BY <1>1, DefaultStates DEF EnvInv, EnvType
<1>3. Env!Visible' = Env!Visible /\ (OneGood => OneGood')
  BY <1>1, <1>2, SameFlash
<1>4. \A p \in Tools : tool'[p].at = "idle"
  BY <1>1, DefaultStates
<1>5. Alone' /\ \A p \in Tools : Holds(p)'
  BY <1>4 DEF Alone, Holds
<1>6. "overlap" \notin spoilt' => OneGood'
  BY <1>1, <1>3 DEF EnvInv
<1>7. ASSUME spoilt' = {} PROVE Shown'
  <2>1. Shown /\ ~(scheme = "none" /\ \E p \in Tools : tool[p].at = "write")
    BY <1>1, <1>7 DEF EnvInv
  <2>2. Env!Visible \in {kept} \cup interrupted'
    BY <1>1, <2>1 DEF Shown
  <2>3. QED
    BY <1>1, <1>3, <2>2 DEF Shown
<1>8. QED
  BY <1>2, <1>3, <1>5, <1>6, <1>7 DEF EnvInv, Replaces

-----------------------------------------------------------------------------
(* The steps that write.                                                    *)

(* What is visible while the copy in the tool's hands is the current one.   *)
LEMMA VisibleHeld ==
  ASSUME EnvType, NEW d \in {0, 1}, copy[d].ok,
         d = 1 <=> SecondWins(scheme, copy[0], copy[1])
  PROVE  Env!Visible = copy[d].env
BY VisibleIs

LEMMA VisibleHeldNext ==
  ASSUME EnvType', NEW d \in {0, 1}, copy'[d].ok,
         d = 1 <=> SecondWins(scheme', copy'[0], copy'[1])
  PROVE  Env!Visible' = copy'[d].env
BY VisibleIsNext

(* The copy that is not current is erased.                                  *)
LEMMA EraseStep ==
  ASSUME EnvInv, NEW p \in Tools, Env!Erase(p)
  PROVE  EnvInv' /\ Replaces
<1> DEFINE d == tool[p].dev
           t == [tool[p] EXCEPT !.at = "write"]
<1>1. /\ tool[p].at = "erase" /\ Env!Become(p, t) /\ copy' = [copy EXCEPT ![Env!Target(p)] = Env!Torn]
      /\ UNCHANGED <<scheme, sectors, kept, interrupted, spoilt>>
  BY DEF Env!Erase
<1>2. EnvType /\ tool[p] \in ToolStates /\ d \in {0, 1} /\ 1 - d \in {0, 1}
  BY DEF EnvInv, EnvType, ToolStates
<1>3. /\ t \in ToolStates /\ t.at = "write" /\ t.dev = d /\ t.flag = tool[p].flag
  BY <1>2 DEF ToolStates
<1>4. (scheme = "none" => Env!Target(p) = d) /\ (scheme # "none" => Env!Target(p) = 1 - d)
  BY DEF Env!Target
<1> HIDE DEF d, t
<1>5. /\ tool' \in [Tools -> ToolStates] /\ tool'[p] = t
      /\ \A q \in Tools \ {p} : tool'[q] = tool[q]
  BY <1>1, <1>2, <1>3, Becomes
<1>6. copy' \in [{0, 1} -> CopyStates]
  BY <1>1, <1>2, <1>4, DefaultStates DEF EnvType
<1>7. EnvType'
  BY <1>1, <1>2, <1>5, <1>6 DEF EnvType
<1>8. ASSUME "overlap" \notin spoilt
      PROVE  /\ Holds(p) /\ \A q \in Tools \ {p} : tool[q].at = "idle" /\ tool'[q].at = "idle"
             /\ scheme = "none" => d = 0
             /\ scheme # "none" => copy[d].ok /\ copy[d].flag = tool[p].flag
                                 /\ (d = 1 <=> SecondWins(scheme, copy[0], copy[1]))
  <2>1. Holds(p) /\ \A q \in Tools \ {p} : tool[q].at = "idle"
    BY <1>1, <1>8, Lonely
  <2>2. QED
    BY <1>1, <1>5, <2>1 DEF Holds, d
<1>9. ASSUME "overlap" \notin spoilt, scheme # "none"
      PROVE  /\ copy'[d] = copy[d] /\ copy'[d].ok
             /\ d = 1 <=> SecondWins(scheme', copy'[0], copy'[1])
             /\ Env!Visible' = Env!Visible
  <2>1. copy'[d] = copy[d] /\ ~copy'[1 - d].ok
    BY <1>1, <1>2, <1>4, <1>9, FlashType, DefaultStates
  <2>2. copy'[d].ok
    BY <1>8, <1>9, <2>1
  <2>3. d = 1 <=> SecondWins(scheme', copy'[0], copy'[1])
    <3>1. CASE d = 1
      BY <1>1, <1>9, <2>1, <2>2, <3>1 DEF SecondWins
    <3>2. CASE d = 0
      BY <2>1, <3>2 DEF SecondWins
    <3>3. QED
      BY <1>2, <3>1, <3>2
  <2>4. Env!Visible' = copy'[d].env
    BY <1>2, <1>7, <2>2, <2>3, VisibleHeldNext
  <2>5. Env!Visible = copy[d].env
    BY <1>2, <1>8, <1>9, VisibleHeld
  <2>6. QED
    BY <2>1, <2>2, <2>3, <2>4, <2>5
<1>10. ASSUME "overlap" \notin spoilt'
       PROVE  Alone' /\ (\A q \in Tools : Holds(q)') /\ OneGood'
  <2>1. "overlap" \notin spoilt
    BY <1>1, <1>10
  <2>2. Holds(p)'
    BY <1>1, <1>3, <1>5, <1>8, <1>9, <2>1 DEF Holds
  <2>3. OneGood'
    BY <1>1, <1>2, <1>9, <2>1 DEF OneGood
  <2>4. QED
    BY <1>8, <2>1, <2>2, <2>3, StillAlone
<1>11. ASSUME spoilt' = {} PROVE Shown'
  <2>1. Shown /\ \A q \in Tools : tool[q].at \notin {"write", "mark"}
    BY <1>1, <1>8, <1>11 DEF EnvInv
  <2>2. CASE scheme = "none"
    BY <1>1, <1>3, <1>5, <2>2 DEF Shown
  <2>3. CASE scheme # "none"
    BY <1>1, <1>9, <1>11, <2>1, <2>3 DEF Shown
  <2>4. QED
    BY <2>2, <2>3
<1>12. Replaces
  BY <1>1, <1>9 DEF Replaces
<1>13. QED
  BY <1>7, <1>10, <1>11, <1>12 DEF EnvInv

(* What a tool has written is accounted for when it ends.                   *)
LEMMA ExitFacts ==
  ASSUME EnvType, NEW p \in Tools, NEW ret, Env!Exit(p, ret)
  PROVE  /\ tool' \in [Tools -> ToolStates] /\ tool'[p].at = "idle"
         /\ \A q \in Tools \ {p} : tool'[q] = tool[q]
         /\ tool[p].env \in {kept'} \cup interrupted'
         /\ ret # 0 => {kept} \cup interrupted \subseteq {kept'} \cup interrupted'
<1>1. Env!Become(p, Env!Gone)
  BY DEF Env!Exit
<1>2. /\ tool' \in [Tools -> ToolStates] /\ tool'[p].at = "idle"
      /\ \A q \in Tools \ {p} : tool'[q] = tool[q]
  BY <1>1, Becomes, DefaultStates
<1>3. CASE ret = 0
  BY <1>2, <1>3 DEF Env!Exit
<1>4. CASE ret # 0
  <2>1. interrupted' = interrupted \cup {tool[p].env} /\ kept' = kept
    BY <1>4 DEF Env!Exit
  <2>2. QED
    BY <1>2, <1>4, <2>1
<1>5. QED
  BY <1>3, <1>4

(* The mark makes the copy that has been written the current one.           *)
LEMMA MarkStep ==
  ASSUME EnvInv, NEW p \in Tools, Env!Mark(p)
  PROVE  EnvInv' /\ Replaces
<1> DEFINE d == tool[p].dev
<1>1. tool[p].at = "mark" /\ Env!Exit(p, tool[p].ret) /\ UNCHANGED <<scheme, sectors>>
  BY DEF Env!Mark
<1>2. \/ copy' = [copy EXCEPT ![d].flag = 0] /\ UNCHANGED spoilt
      \/ UNCHANGED copy /\ spoilt' = spoilt \cup {"mark"}
  BY DEF Env!Mark, Env!Obsolete
<1>3. EnvType /\ d \in {0, 1} /\ 1 - d \in {0, 1}
  BY DEF EnvInv, EnvType, ToolStates
<1> HIDE DEF d
<1>4. /\ tool' \in [Tools -> ToolStates] /\ tool'[p].at = "idle"
      /\ \A q \in Tools \ {p} : tool'[q] = tool[q]
      /\ tool[p].env \in {kept'} \cup interrupted'
  BY <1>1, <1>3, ExitFacts
<1>5. /\ copy' \in [{0, 1} -> CopyStates] /\ copy'[1 - d] = copy[1 - d]
      /\ copy'[d].ok = copy[d].ok
      /\ spoilt' = {} => copy'[d].flag = 0
  BY <1>2, <1>3 DEF EnvType, CopyStates
<1>6. EnvType'
  BY <1>1, <1>3, <1>4, <1>5 DEF EnvType
<1>7. ASSUME "overlap" \notin spoilt
      PROVE  /\ \A q \in Tools \ {p} : tool[q].at = "idle" /\ tool'[q].at = "idle"
             /\ scheme = "boolean" /\ copy[d].ok
             /\ copy[1 - d] = [ok |-> TRUE, flag |-> 1, env |-> tool[p].env]
  <2>1. Holds(p) /\ \A q \in Tools \ {p} : tool[q].at = "idle"
    BY <1>1, <1>7, Lonely
  <2>2. QED
    BY <1>1, <1>4, <2>1 DEF Holds, d
<1>8. "overlap" \notin spoilt' => "overlap" \notin spoilt
  BY <1>2
<1>9. ASSUME "overlap" \notin spoilt'
      PROVE  Alone' /\ (\A q \in Tools : Holds(q)') /\ OneGood'
  <2>1. copy'[0].ok \/ copy'[1].ok
    BY <1>3, <1>5, <1>7, <1>8, <1>9
  <2>2. Holds(p)'
    BY <1>4 DEF Holds
  <2>3. QED
    BY <1>7, <1>8, <1>9, <2>1, <2>2, StillAlone DEF OneGood
<1>10. ASSUME spoilt' = {} PROVE Env!Visible' = tool[p].env
  <2>1. "overlap" \notin spoilt /\ copy'[d].flag = 0
    BY <1>2, <1>5, <1>10
  <2>2. scheme' = "boolean" /\ copy'[1 - d] = [ok |-> TRUE, flag |-> 1, env |-> tool[p].env]
    BY <1>1, <1>5, <1>7, <2>1
  <2>3. 1 - d = 1 <=> SecondWins(scheme', copy'[0], copy'[1])
    <3>1. CASE d = 0
      BY <2>1, <2>2, <3>1 DEF SecondWins
    <3>2. CASE d = 1
      <4>1. copy'[0] = [ok |-> TRUE, flag |-> 1, env |-> tool[p].env]
        BY <2>2, <3>2
      <4>2. copy'[0].ok /\ copy'[0].flag = 1 /\ copy'[1].flag = 0
        BY <2>1, <3>2, <4>1
      <4>3. QED
        BY <2>2, <3>2, <4>2 DEF SecondWins
    <3>3. QED
      BY <1>3, <3>1, <3>2
  <2>4. copy'[1 - d].ok /\ copy'[1 - d].env = tool[p].env
    BY <2>2
  <2>5. QED
    BY <1>3, <1>6, <2>3, <2>4, VisibleHeldNext
<1>11. spoilt' = {} => Shown'
  BY <1>4, <1>10 DEF Shown
<1>12. Replaces
  BY <1>1, <1>10 DEF Replaces
<1>13. QED
  BY <1>6, <1>9, <1>11, <1>12 DEF EnvInv

(* The flag of the incremental scheme wins over the one it follows, unless  *)
(* it wraps in the first copy.                                              *)
LEMMA NextFlag ==
  ASSUME NEW f \in 0 .. 255
  PROVE  (f + 1) % 256 = IF f = 255 THEN 0 ELSE f + 1
OBVIOUS

LEMMA WriteStep ==
  ASSUME EnvInv, NEW p \in Tools, Env!Write(p)
  PROVE  EnvInv' /\ Replaces
<1> DEFINE d == tool[p].dev
           f == tool[p].flag
           c == Env!Image(p)
           t == [tool[p] EXCEPT !.at = "mark"]
<1>1. /\ tool[p].at = "write" /\ copy' = [copy EXCEPT ![Env!Target(p)] = c]
      /\ spoilt' = spoilt \cup {s \in {"wrap"} : Env!NewFlag(p) < f /\ Env!Target(p) = 0
                                                /\ scheme = "incremental"}
      /\ UNCHANGED <<scheme, sectors>>
  BY DEF Env!Write
<1>2. EnvType /\ tool[p] \in ToolStates /\ d \in {0, 1} /\ 1 - d \in {0, 1} /\ f \in 0 .. 255
  BY DEF EnvInv, EnvType, ToolStates
<1>3. (scheme = "none" => Env!Target(p) = d) /\ (scheme # "none" => Env!Target(p) = 1 - d)
  BY DEF Env!Target
<1>4. /\ Env!NewFlag(p) \in 0 .. 255
      /\ scheme = "boolean" => Env!NewFlag(p) = 1
      /\ scheme = "incremental" => Env!NewFlag(p) = IF f = 255 THEN 0 ELSE f + 1
  <2>1. CASE scheme = "none"
    BY <1>2, <2>1 DEF Env!NewFlag
  <2>2. CASE scheme = "boolean"
    BY <2>2 DEF Env!NewFlag, Env!Active
  <2>3. CASE scheme = "incremental"
    BY <1>2, <2>3, NextFlag DEF Env!NewFlag
  <2>4. QED
    BY <1>2, <2>1, <2>2, <2>3 DEF EnvType
<1>5. /\ c \in CopyStates /\ c.ok /\ c.env = tool[p].env /\ c.flag = Env!NewFlag(p)
      /\ scheme = "boolean" => c = [ok |-> TRUE, flag |-> 1, env |-> tool[p].env]
  BY <1>2, <1>4 DEF Env!Image, CopyStates, ToolStates
<1>6. /\ t \in ToolStates /\ t.at = "mark" /\ t.dev = d /\ t.env = tool[p].env
  BY <1>2 DEF ToolStates
(* The tool ends, or goes on to mark the other copy.                        *)
<1>7. \/ sectors = 2 /\ Env!Exit(p, -1)
      \/ sectors = 1 /\ scheme = "boolean" /\ Env!Become(p, t) /\ UNCHANGED <<kept, interrupted>>
      \/ scheme # "boolean" /\ Env!Exit(p, tool[p].ret)
  <2>1. CASE sectors = 2
    BY <2>1 DEF Env!Write
  <2>2. CASE sectors = 1 /\ scheme = "boolean"
    BY <2>2 DEF Env!Write
  <2>3. CASE sectors = 1 /\ scheme # "boolean"
    BY <2>3 DEF Env!Write
  <2>4. QED
    BY <1>2, <2>1, <2>2, <2>3 DEF EnvType
<1> HIDE DEF d, f, c, t
<1>8. /\ tool' \in [Tools -> ToolStates] /\ \A q \in Tools \ {p} : tool'[q] = tool[q]
      /\ tool'[p].at = "idle" \/ (scheme = "boolean" /\ tool'[p] = t)
  BY <1>2, <1>6, <1>7, ExitFacts, Becomes
<1>9. /\ copy' \in [{0, 1} -> CopyStates]
      /\ scheme = "none" => copy'[d] = c
      /\ scheme # "none" => copy'[1 - d] = c /\ copy'[d] = copy[d]
  <2>1. CASE scheme = "none"
    BY <1>1, <1>2, <1>3, <1>5, <2>1, FlashType
  <2>2. CASE scheme # "none"
    BY <1>1, <1>2, <1>3, <1>5, <2>2 DEF EnvType
  <2>3. QED
    BY <2>1, <2>2
<1>10. EnvType'
  BY <1>1, <1>2, <1>8, <1>9 DEF EnvType
<1>11. spoilt \subseteq spoilt' /\ ("overlap" \notin spoilt' => "overlap" \notin spoilt)
  BY <1>1
<1>12. ASSUME "overlap" \notin spoilt
       PROVE  /\ \A q \in Tools \ {p} : tool[q].at = "idle" /\ tool'[q].at = "idle"
              /\ scheme = "none" => d = 0
              /\ scheme # "none" => copy[d].ok /\ copy[d].flag = f
                                  /\ (d = 1 <=> SecondWins(scheme, copy[0], copy[1]))
  <2>1. Holds(p) /\ \A q \in Tools \ {p} : tool[q].at = "idle"
    BY <1>1, <1>12, Lonely
  <2>2. QED
    BY <1>1, <1>8, <2>1 DEF Holds, d, f
<1>13. ASSUME "overlap" \notin spoilt'
       PROVE  Alone' /\ (\A q \in Tools : Holds(q)') /\ OneGood'
  <2>1. OneGood'
    BY <1>1, <1>2, <1>5, <1>9 DEF OneGood
  <2>2. Holds(p)'
    <3>1. CASE tool'[p].at = "idle"
      BY <3>1 DEF Holds
    <3>2. CASE scheme = "boolean" /\ tool'[p] = t
      BY <1>1, <1>5, <1>6, <1>9, <1>11, <1>12, <1>13, <3>2 DEF Holds
    <3>3. QED
      BY <1>8, <3>1, <3>2
  <2>3. QED
    BY <1>11, <1>12, <1>13, <2>1, <2>2, StillAlone
(* Both copies are good now: one is what was visible, the other is new.     *)
<1>14. ASSUME "overlap" \notin spoilt, scheme # "none"
       PROVE  Env!Visible' \in {Env!Visible, tool[p].env}
  <2>1. copy'[d].ok /\ copy'[1 - d].ok /\ copy'[1 - d].env = tool[p].env /\ copy'[d].env = copy[d].env
    BY <1>5, <1>9, <1>12, <1>14
  <2>2. Env!Visible = copy[d].env
    BY <1>2, <1>12, <1>14, VisibleHeld
  <2>3. PICK e \in {0, 1} : e = 1 <=> SecondWins(scheme', copy'[0], copy'[1])
    OBVIOUS
  <2>4. e = d \/ e = 1 - d
    BY <1>2, <2>3
  <2>5. Env!Visible' = copy'[e].env
    BY <1>10, <2>1, <2>3, <2>4, VisibleHeldNext
  <2>6. QED
    BY <2>1, <2>2, <2>4, <2>5
<1>15. ASSUME spoilt' = {}, scheme # "boolean"
       PROVE  Env!Visible' = tool[p].env
  <2>1. "overlap" \notin spoilt
    BY <1>11, <1>15
  <2>2. CASE scheme = "none"
    <3>1. copy'[0] = c
      BY <1>9, <1>12, <2>1, <2>2
    <3>2. ~SecondWins(scheme', copy'[0], copy'[1])
      BY <1>1, <2>2 DEF SecondWins
    <3>3. QED
      BY <1>5, <1>10, <3>1, <3>2, VisibleHeldNext
  <2>3. CASE scheme = "incremental"
    <3>1. /\ copy'[1 - d] = c /\ copy'[d] = copy[d] /\ copy[d].ok /\ copy[d].flag = f
      BY <1>9, <1>12, <2>1, <2>3
    <3>2. ~(Env!NewFlag(p) < f /\ 1 - d = 0)
      BY <1>1, <1>3, <1>15, <2>3
    <3>3. 1 - d = 1 <=> SecondWins(scheme', copy'[0], copy'[1])
      <4>1. CASE d = 0
        <5>1. copy'[1].ok /\ copy'[1].flag = Env!NewFlag(p) /\ copy'[0].flag = f
          BY <1>5, <3>1, <4>1
        <5>2. QED
          BY <1>1, <1>2, <1>4, <2>3, <4>1, <5>1 DEF SecondWins
      <4>2. CASE d = 1
        <5>1. copy'[0].ok /\ copy'[0].flag = Env!NewFlag(p) /\ copy'[1].flag = f
          BY <1>5, <3>1, <4>2
        <5>2. f # 255
          BY <1>4, <2>3, <3>2, <4>2
        <5>3. QED
          BY <1>1, <1>2, <1>4, <2>3, <4>2, <5>1, <5>2 DEF SecondWins
      <4>3. QED
        BY <1>2, <4>1, <4>2
    <3>4. QED
      BY <1>2, <1>5, <1>10, <3>1, <3>3, VisibleHeldNext
  <2>4. QED
    BY <1>2, <1>15, <2>2, <2>3 DEF EnvType
<1>16. ASSUME spoilt' = {} PROVE Shown'
  <2>1. "overlap" \notin spoilt /\ Shown
    BY <1>11, <1>16 DEF EnvInv
  <2>2. CASE scheme # "boolean"
    <3>1. Env!Exit(p, tool[p].ret) \/ Env!Exit(p, -1)
      BY <1>7, <2>2
    <3>2. tool[p].env \in {kept'} \cup interrupted'
      BY <1>2, <3>1, ExitFacts
    <3>3. QED
      BY <1>15, <1>16, <2>2, <3>2 DEF Shown
  <2>3. CASE scheme = "boolean"
    <3>1. Env!Visible \in {kept} \cup interrupted
      BY <1>1, <1>12, <2>1, <2>3 DEF Shown
    <3>2. Env!Visible' \in {Env!Visible, tool[p].env}
      BY <1>14, <2>1, <2>3
    <3>3. CASE Env!Exit(p, -1)
      <4>1. tool[p].env \in {kept'} \cup interrupted' /\ {kept} \cup interrupted \subseteq {kept'} \cup interrupted'
        BY <1>2, <3>3, ExitFacts
      <4>2. QED
        BY <3>1, <3>2, <4>1 DEF Shown
    <3>4. CASE Env!Become(p, t) /\ UNCHANGED <<kept, interrupted>>
      <4>1. tool'[p].at = "mark" /\ tool'[p].env = tool[p].env
        BY <1>2, <1>6, <3>4, Becomes
      <4>2. QED
        BY <3>1, <3>2, <3>4, <4>1 DEF Shown
    <3>5. QED
      BY <1>7, <2>3, <3>3, <3>4
  <2>4. QED
    BY <2>2, <2>3
<1>17. Replaces
  BY <1>1, <1>11, <1>14 DEF Replaces
<1>18. QED
  BY <1>10, <1>13, <1>16, <1>17 DEF EnvInv

-----------------------------------------------------------------------------
(* The theorems.                                                            *)

LEMMA EnvStep ==
  ASSUME EnvInv, [Next]_vars
  PROVE  EnvInv' /\ Replaces
<1>1. CASE UNCHANGED envVars
  BY <1>1 DEF envVars, EnvInv, EnvType, Alone, Holds, OneGood, Shown, Replaces, Env!Visible,
     Env!Loaded, Env!Current, Env!Choice
<1>2. ASSUME NEW p \in Tools, Env!Step(p) PROVE EnvInv' /\ Replaces
  <2>1. CASE \E kind \in {"print", "set", "script"} : Env!Open(p, kind)
    BY <2>1, OpenStep
  <2>2. CASE Env!Close(p) \/ \E n \in Names, v \in Sizes \cup {Env!Absent} : Env!Assign(p, n, v)
    BY <2>2, EditStep
  <2>3. CASE Env!OpenFails(p) \/ Env!PrintEnv(p) \/ Env!WriteFails(p)
    BY <2>3, EndStep
  <2>4. QED
    BY <1>2, <2>1, <2>2, <2>3, ChooseStep, EraseStep, WriteStep, MarkStep, Zenon DEF Env!Step
<1>3. CASE Env!Next
  BY <1>2, <1>3, PowerStep, Zenon DEF Env!Next
<1>4. QED
  <2>1. Env!Next \/ UNCHANGED envVars
    BY DEF Next, vars
  <2>2. QED
    BY <1>1, <1>3, <2>1

LEMMA EnvInit == Init => EnvInv
<1> SUFFICES ASSUME Init PROVE EnvInv
  OBVIOUS
<1>1. /\ scheme \in {"none", "boolean", "incremental"}
      /\ sectors \in IF scheme = "boolean" THEN {1, 2} ELSE {1}
      /\ kept = [n \in Names |-> 1] /\ tool = [p \in Tools |-> Env!Gone]
  BY Zenon DEF Init, Env!Init
<1>2. PICK d \in {0, 1} : Env!Written(d, kept)
  BY Zenon DEF Init, Env!Init, Env!Devices
<1>3. 1 - d \in {0, 1} /\ 1 - d # d
  OBVIOUS
<1>4. kept \in Env!Envs /\ Env!Default \in Env!Envs
  <2>1. 1 \in Sizes
    BY StandaloneAssumption DEF Env!FwEnvAssumption
  <2>2. QED
    BY <1>1, <2>1 DEF Env!Envs, Env!Default
(* In each scheme one copy is current, and holds what has been kept.        *)
<1>5. /\ copy \in [{0, 1} -> CopyStates] /\ copy[d].ok /\ copy[d].env = kept
      /\ d = 1 <=> SecondWins(scheme, copy[0], copy[1])
  <2>1. CASE scheme = "none"
    <3>1. d = 0 /\ copy = [x \in {0, 1} |-> IF x = 0 THEN [ok |-> TRUE, flag |-> 0, env |-> kept]
                                                    ELSE Env!Torn]
      BY <1>2, <2>1 DEF Env!Written, Env!Devices
    <3>2. [ok |-> TRUE, flag |-> 0, env |-> kept] \in CopyStates
      BY <1>4 DEF CopyStates
    <3>3. copy \in [{0, 1} -> CopyStates] /\ copy[0] = [ok |-> TRUE, flag |-> 0, env |-> kept]
      BY <3>1, <3>2, DefaultStates
    <3>4. QED
      BY <2>1, <3>1, <3>3 DEF SecondWins
  <2>2. CASE scheme = "boolean"
    <3>1. copy = [x \in {0, 1} |-> [ok |-> TRUE, flag |-> IF x = d THEN 1 ELSE 0,
                                    env |-> IF x = d THEN kept ELSE Env!Default]]
      BY <1>2, <2>2 DEF Env!Written, Env!Devices, Env!Active, Env!Obsolete
    <3>2. copy \in [{0, 1} -> CopyStates]
      BY <1>4, <3>1 DEF CopyStates
    <3>3. copy[d] = [ok |-> TRUE, flag |-> 1, env |-> kept]
          /\ copy[1 - d] = [ok |-> TRUE, flag |-> 0, env |-> Env!Default]
      BY <1>3, <3>1
    <3>4. QED
      BY <2>2, <3>2, <3>3 DEF SecondWins
  <2>3. CASE scheme = "incremental"
    <3>1. PICK f \in {1, 254} :
            copy = [x \in {0, 1} |-> [ok |-> TRUE, flag |-> IF x = d THEN f ELSE f - 1,
                                      env |-> IF x = d THEN kept ELSE Env!Default]]
      BY <1>2, <2>3 DEF Env!Written, Env!Devices
    <3>2. copy \in [{0, 1} -> CopyStates]
      BY <1>4, <3>1 DEF CopyStates
    <3>3. copy[d] = [ok |-> TRUE, flag |-> f, env |-> kept]
          /\ copy[1 - d] = [ok |-> TRUE, flag |-> f - 1, env |-> Env!Default]
      BY <1>3, <3>1
    <3>4. QED
      BY <2>3, <3>2, <3>3 DEF SecondWins
  <2>4. QED
    BY <1>1, <2>1, <2>2, <2>3
<1>6. EnvType
  BY <1>1, <1>5, DefaultStates DEF EnvType
<1>7. \A p \in Tools : tool[p].at = "idle"
  BY <1>1, DefaultStates
<1>8. Alone /\ (\A p \in Tools : Holds(p)) /\ OneGood
  BY <1>5, <1>7 DEF Alone, Holds, OneGood
<1>9. Shown
  BY <1>5, <1>6, VisibleHeld DEF Shown
<1>10. QED
  BY <1>6, <1>8, <1>9 DEF EnvInv

LEMMA EnvInvariant == Spec => []EnvInv
<1>1. EnvInv /\ [Next]_vars => EnvInv'
  BY EnvStep
<1>2. QED
  BY EnvInit, <1>1, PTL DEF Spec

(* One of two copies of the boot environment is good at every moment, as    *)
(* long as one tool runs at a time: whatever is torn by a failure of the    *)
(* power or of a write, the other one is not.                               *)
THEOREM ACopyIsGood == Spec => []OneCopyGood
<1>1. EnvInv => OneCopyGood
  BY DEF EnvInv, OneGood, OneCopyGood, Env!OneCopyGood, Env!Devices
<1>2. QED
  BY EnvInvariant, <1>1, PTL

(* Between the runs of the tools the environment is the one that the last   *)
(* run that exited with 0 has written, or one of a run that failed since.   *)
THEOREM EnvironmentKept == Spec => []KeptUntilReplaced
<1>1. EnvInv => KeptUntilReplaced
  BY DEF EnvInv, Shown, KeptUntilReplaced, Env!KeptUntilReplaced
<1>2. QED
  BY EnvInvariant, <1>1, PTL

(* What is visible is replaced in one step, by what the tool that takes it  *)
(* has written, if there are two copies.                                    *)
THEOREM EnvironmentReplacedAtOnce == Spec => ReplacedAtOnce
<1>1. EnvInv /\ [Next]_vars =>
        [(scheme # "none" /\ spoilt' = {} /\ Env!Visible' # Env!Visible) =>
            \E p \in Tools : tool[p].at \in {"write", "mark"} /\ Env!Visible' = tool[p].env]_envVars
  BY EnvStep DEF Replaces
<1>2. QED
  BY EnvInvariant, <1>1, PTL DEF Spec, ReplacedAtOnce, Env!ReplacedAtOnce, Env!vars, envVars

-----------------------------------------------------------------------------
(* The types of all programs.                                               *)

(* The GPS HAL: each start leaves one command in the socket pair, and a     *)
(* stop two more.                                                           *)
Counted ==
  /\ power \in BOOLEAN /\ hung \in BOOLEAN
  /\ starts \in 0 .. MaxStarts /\ lines \in 0 .. MaxLines /\ portFailures \in 0 .. MaxFailures
  /\ caller = "idle" => Len(control) <= starts
  /\ caller = "stop" => Len(control) <= starts + 1
  /\ caller = "join" => Len(control) <= starts + 2

LEMMA CountedStep ==
  ASSUME SessionInv, Counted, Gps!Next
  PROVE  Counted'
<1> USE DEF Gps!framework, Gps!session, Gps!parsing
<1>1. MaxStarts \in Nat /\ MaxLines \in Nat /\ MaxFailures \in Nat
  BY StandaloneAssumption DEF Gps!GpsAssumption
<1>2. control \in Seq({"START", "STOP", "QUIT"}) /\ Len(control) \in Nat
      /\ caller \in {"idle", "stop", "join"}
  BY DEF SessionInv
<1>3. ASSUME UNCHANGED <<caller, control, starts>>, power' \in BOOLEAN, hung' \in BOOLEAN,
             lines' \in 0 .. MaxLines, portFailures' \in 0 .. MaxFailures
      PROVE  Counted'
  BY <1>3 DEF Counted
<1>4. ASSUME NEW c \in {"START", "STOP", "QUIT"}, control' = Append(control, c)
      PROVE  Len(control') = Len(control) + 1
  BY <1>2, <1>4
<1>5. CASE Gps!Start
  <2>1. caller = "idle" /\ starts < MaxStarts /\ starts' = starts + 1 /\ caller' = caller
        /\ control' = Append(control, "START") /\ portFailures' = portFailures
    BY <1>5 DEF Gps!Start
  <2>2. Len(control') = Len(control) + 1
    BY <1>4, <2>1
  <2>3. power' \in BOOLEAN /\ hung' \in BOOLEAN /\ lines' \in 0 .. MaxLines
    <3>1. CASE init
      <4>1. UNCHANGED <<power, hung, lines>>
        BY <1>5, <3>1 DEF Gps!Start
      <4>2. QED
        BY <4>1 DEF Counted
    <3>2. CASE ~init
      <4>1. power' = FALSE /\ hung' = FALSE /\ lines' = 0
        BY <1>5, <3>2 DEF Gps!Start
      <4>2. 0 \in 0 .. MaxLines
        BY <1>1
      <4>3. QED
        BY <4>1, <4>2, Zenon
    <3>3. QED
      BY <3>1, <3>2
  <2>4. QED
    BY <1>1, <1>2, <2>1, <2>2, <2>3 DEF Counted
<1>6. CASE Gps!StartFails
  <2>1. /\ caller = "idle" /\ starts < MaxStarts /\ starts' = starts + 1
        /\ portFailures < MaxFailures /\ portFailures' = portFailures + 1 /\ power' = FALSE
        /\ UNCHANGED <<caller, control, hung, lines>>
    BY <1>6 DEF Gps!StartFails
  <2>2. /\ starts' \in 0 .. MaxStarts /\ portFailures' \in 0 .. MaxFailures
        /\ hung' \in BOOLEAN /\ lines' \in 0 .. MaxLines
    BY <1>1, <2>1 DEF Counted
  <2>3. power' \in BOOLEAN
    BY <2>1, Zenon
  <2>4. Len(control') <= starts'
    BY <1>1, <1>2, <2>1 DEF Counted
  <2>5. QED
    BY <2>1, <2>2, <2>3, <2>4 DEF Counted
<1>7. CASE Gps!Stop
  <2>1. caller = "idle" /\ caller' = "stop" /\ control' = Append(control, "STOP")
        /\ UNCHANGED <<power, hung, starts, lines, portFailures>>
    BY <1>7 DEF Gps!Stop
  <2>2. Len(control') = Len(control) + 1
    BY <1>4, <2>1
  <2>3. QED
    BY <1>1, <1>2, <2>1, <2>2 DEF Counted
<1>8. CASE Gps!Quit
  <2>1. caller = "stop" /\ caller' = "join" /\ control' = Append(control, "QUIT")
        /\ UNCHANGED <<power, hung, starts, lines, portFailures>>
    BY <1>8 DEF Gps!Quit
  <2>2. Len(control') = Len(control) + 1
    BY <1>4, <2>1
  <2>3. QED
    BY <1>1, <1>2, <2>1, <2>2 DEF Counted
<1>9. CASE Gps!Join
  <2>1. caller' = "idle" /\ control' = << >> /\ UNCHANGED <<power, hung, starts, lines, portFailures>>
    BY <1>9 DEF Gps!Join
  <2>2. QED
    BY <1>1, <2>1 DEF Counted
<1>10. CASE Gps!TakeStart \/ Gps!TakeStop \/ Gps!TakeQuit
  <2>1. control # << >> /\ control' = Tail(control) /\ power' \in BOOLEAN
        /\ UNCHANGED <<caller, hung, starts, lines, portFailures>>
    BY <1>10 DEF Gps!TakeStart, Gps!TakeStop, Gps!TakeQuit, Gps!Take, Counted
  <2>2. Len(control') <= Len(control) /\ Len(control') \in Nat
    BY <1>2, <2>1
  <2>3. QED
    BY <1>1, <1>2, <2>1, <2>2 DEF Counted
<1>11. CASE Gps!Begin \/ Gps!PortError \/ Gps!Drained \/ Gps!Readable
  BY <1>3, <1>11 DEF Gps!Begin, Gps!PortError, Gps!Drained, Gps!Readable, Counted
<1>12. CASE Gps!Line
  <2>1. Gps!Arrives /\ Gps!Parsed
    BY <1>12 DEF Gps!Line, Gps!Gga, Gps!Rmc, Gps!Zda, Gps!Skipped, Gps!TooLong, Gps!JustTooLong
  <2>2. QED
    BY <1>1, <1>3, <2>1 DEF Gps!Arrives, Gps!Parsed, Counted
<1>13. CASE Gps!HangUp
  BY <1>1, <1>3, <1>13 DEF Gps!HangUp, Counted
<1>14. QED
  BY <1>5, <1>6, <1>7, <1>8, <1>9, <1>10, <1>11, <1>12, <1>13, Zenon DEF Gps!Next, Gps!Thread

LEMMA GpsTypes == Spec => []Gps!TypeOK
<1>1. Init => Counted
  <2>1. MaxStarts \in Nat /\ MaxLines \in Nat /\ MaxFailures \in Nat
    BY StandaloneAssumption DEF Gps!GpsAssumption
  <2>2. ASSUME Init
        PROVE  /\ caller = "idle" /\ control = << >> /\ power = FALSE /\ hung = FALSE
               /\ starts = 0 /\ lines = 0 /\ portFailures = 0
    BY <2>2, Zenon DEF Init, Gps!Init
  <2>3. ASSUME Init PROVE Counted
    BY <2>1, <2>2, <2>3 DEF Counted
  <2>4. QED
    BY <2>3
<1>2. SessionInv /\ Counted /\ [Next]_vars => Counted'
  <2>1. ASSUME Counted, UNCHANGED gpsVars PROVE Counted'
    BY <2>1 DEF gpsVars, Counted
  <2>2. QED
    BY <2>1, CountedStep, OneProgram
<1>3. SessionInv /\ FixInv /\ Counted => Gps!TypeOK
  <2>1. MaxStarts \in Nat
    BY StandaloneAssumption DEF Gps!GpsAssumption
  <2>2. SUFFICES ASSUME SessionInv, FixInv, Counted PROVE Gps!TypeOK
    OBVIOUS
  <2>3. Len(control) <= MaxStarts + 2
    <3>1. Len(control) \in Nat
      BY <2>2 DEF SessionInv
    <3>2. QED
      BY <2>1, <2>2, <3>1 DEF SessionInv, Counted
  <2>4. QED
    BY <2>2, <2>3 DEF SessionInv, FixInv, Counted, Gps!TypeOK
<1>4. QED
  BY <1>1, <1>2, <1>3, SessionInvariant, FixInvariant, PTL DEF Spec

(* The hardware monitor. *)
ExcuseType == changes \in 0 .. MaxChanges /\ excuse \subseteq {"late", "not ready", "awake"}

LEMMA ModemTypes == Spec => []Modem!TypeOK
<1>1. MaxChanges \in Nat
  BY StandaloneAssumption DEF Modem!HardwareAssumption
<1>2. Init => ExcuseType
  <2>1. ASSUME Init PROVE changes = 0 /\ excuse = {}
    BY <2>1, Zenon DEF Init, Modem!Init
  <2>2. ASSUME Init PROVE ExcuseType
    <3>1. 0 \in 0 .. MaxChanges
      BY <1>1
    <3>2. QED
      BY <2>1, <2>2, <3>1, Zenon DEF ExcuseType
  <2>3. QED
    BY <2>2
<1>3. ExcuseType /\ [Next]_vars => ExcuseType'
  <2>1. ASSUME ExcuseType, UNCHANGED modemVars PROVE ExcuseType'
    BY <2>1 DEF modemVars, ExcuseType
  <2>2. ASSUME ExcuseType, Modem!Next PROVE ExcuseType'
    <3>1. CASE \E state \in {1, 2} : Modem!Change(state)
      <4>1. changes < MaxChanges /\ changes' = changes + 1
        BY <3>1 DEF Modem!Change
      <4>2. changes \in 0 .. MaxChanges
        BY <2>2 DEF ExcuseType
      <4>3. changes' \in 0 .. MaxChanges
        BY <1>1, <4>1, <4>2
      <4>4. excuse' = excuse
        BY <3>1 DEF Modem!Change
      <4>5. QED
        BY <2>2, <4>3, <4>4, Zenon DEF ExcuseType
    <3>2. CASE Modem!Tell
      <4>1. excuse' \subseteq excuse \cup {"late", "not ready", "awake"} /\ changes' = changes
        BY <3>2 DEF Modem!Tell
      <4>2. QED
        BY <2>2, <4>1 DEF ExcuseType
    <3>3. CASE UNCHANGED <<changes, excuse>>
      BY <2>2, <3>3 DEF ExcuseType
    <3>4. QED
      BY <2>2, <3>1, <3>2, <3>3
      DEF Modem!Next, Modem!SetRadioState, Modem!FindMatchedDevice, Modem!PortMissing,
          Modem!CurrentCalls, Modem!Read, Modem!Clear
  <2>3. QED
    BY <2>1, <2>2, OneProgram
<1>4. MonitorInv /\ ExcuseType => Modem!TypeOK
  BY DEF MonitorInv, MonitorType, Excused, ExcuseType, Modem!TypeOK
<1>5. QED
  BY <1>2, <1>3, <1>4, MonitorInvariant, PTL DEF Spec

(* The log of push to talk: there is a log or there is none.                *)
LogCount == pttlog_init \in {0, 1} /\ logSpoilt \subseteq {"overlap", "stopped", "held up"}

LEMMA LogCountStep ==
  ASSUME LogCount, Ptt!Next
  PROVE  LogCount'
<1>1. ASSUME NEW e, Ptt!Signal(e) PROVE pttlog_init' \in {0, 1}
  BY <1>1 DEF Ptt!Signal, LogCount
<1>2. ASSUME NEW t \in Threads, Ptt!Start(t) \/ Ptt!Trigger(t) PROVE LogCount'
  BY <1>1, <1>2 DEF Ptt!Start, Ptt!Trigger, Ptt!Spoil, LogCount
<1>3. ASSUME NEW t \in Threads, Ptt!Stop(t) PROVE LogCount'
  BY <1>3 DEF Ptt!Stop, Ptt!Spoil, LogCount
<1>4. ASSUME NEW t \in Threads, Ptt!Awake(t) PROVE LogCount'
  <2>1. logSpoilt' \subseteq logSpoilt \cup {"held up"}
    BY <1>4 DEF Ptt!Awake, Ptt!Destroy, Ptt!Spoil
  <2>2. pttlog_init' = IF pttlog_init = 0 THEN pttlog_init ELSE pttlog_init - 1
    BY <1>4 DEF Ptt!Awake, Ptt!Destroy
  <2>3. CASE pttlog_init = 0
    BY <2>1, <2>2, <2>3 DEF LogCount
  <2>4. CASE pttlog_init = 1
    <3>1. pttlog_init' = 0
      BY <2>2, <2>4
    <3>2. QED
      BY <2>1, <3>1 DEF LogCount
  <2>5. QED
    BY <2>3, <2>4 DEF LogCount
<1>5. ASSUME NEW i \in Ptt!Ids, Ptt!Wait(i) \/ Ptt!Take(i) \/ Ptt!TimeOut(i) \/ Ptt!ReadDone(i)
      PROVE  LogCount'
  BY <1>5 DEF Ptt!Wait, Ptt!Take, Ptt!TimeOut, Ptt!ReadDone, LogCount
<1>6. QED
  BY <1>2, <1>3, <1>4, <1>5, Zenon DEF Ptt!Next

LEMMA PttTypes == Spec => []Ptt!TypeOK
<1>1. Init => LogCount
  <2>1. Init => pttlog_init = 0 /\ logSpoilt = {}
    BY Zenon DEF Init, Ptt!Init
  <2>2. QED
    BY <2>1 DEF LogCount
<1>2. LogCount /\ [Next]_vars => LogCount'
  <2>1. ASSUME LogCount, UNCHANGED pttVars PROVE LogCount'
    BY <2>1 DEF pttVars, LogCount
  <2>2. QED
    BY <2>1, LogCountStep, OneProgram
<1>3. LogInv /\ LogCount => Ptt!TypeOK
  <2>1. pttlog_init \in {0, 1} => pttlog_init \in -1 .. 2
    OBVIOUS
  <2>2. QED
    BY <2>1 DEF LogInv, LogType, LogCount, Ptt!TypeOK, SetStates, LogStates, Bits,
       Ptt!eventLogStart, Ptt!eventLogStop, Ptt!eventLogTrigger
<1>4. QED
  BY <1>1, <1>2, <1>3, LogInvariant, PTL DEF Spec

-----------------------------------------------------------------------------
(* The room that an environment takes is a sum over the variables, and what *)
(* adds up in the same way is this sum.                                     *)

First(s) == CHOOSE n \in s : TRUE

Adds(e, f) ==
  f = [s \in SUBSET Names |-> IF s = {} THEN 0 ELSE e[First(s)] + f[s \ {First(s)}]]

LEMMA NamesFinite ==
  /\ IsFiniteSet(Names) /\ Cardinality(Names) \in Nat /\ Cardinality(Names) <= Capacity
  /\ Capacity \in Nat /\ MaxRuns \in Nat /\ MaxFailures \in Nat /\ Sizes \subseteq Nat \ {0}
  /\ 1 \in Sizes
<1>1. Env!IsFiniteSet(Names) = IsFiniteSet(Names)
  BY DEF Env!IsFiniteSet, IsFiniteSet
<1>2. Env!Cardinality(Names) = Cardinality(Names)
  BY DEF Env!Cardinality, Cardinality
<1>3. /\ Env!IsFiniteSet(Names) /\ Env!Cardinality(Names) <= Capacity
      /\ Capacity \in Nat /\ MaxRuns \in Nat /\ MaxFailures \in Nat /\ Sizes \subseteq Nat \ {0}
      /\ 1 \in Sizes
  BY StandaloneAssumption, Zenon DEF Env!FwEnvAssumption
<1>4. QED
  BY <1>1, <1>2, <1>3, FS_CardinalityType

LEMMA SizesAre == Sizes \cup {Env!Absent} \subseteq Nat
<1>1. Sizes \subseteq Nat
  BY NamesFinite
<1>2. QED
  BY <1>1 DEF Env!Absent

LEMMA OneLess ==
  ASSUME NEW s \in SUBSET Names, s # {}
  PROVE  /\ First(s) \in s /\ First(s) \in Names /\ s \ {First(s)} \in SUBSET Names
         /\ Cardinality(s) \in Nat /\ Cardinality(s \ {First(s)}) \in Nat
         /\ Cardinality(s) = Cardinality(s \ {First(s)}) + 1
<1>1. First(s) \in s
  BY DEF First
<1>2. IsFiniteSet(s)
  BY NamesFinite, FS_Subset
<1>3. /\ IsFiniteSet(s \ {First(s)})
      /\ Cardinality(s \ {First(s)}) = IF First(s) \in s THEN Cardinality(s)-1 ELSE Cardinality(s)
  BY <1>2, FS_RemoveElement
<1>4. Cardinality(s) \in Nat /\ Cardinality(s \ {First(s)}) \in Nat
  BY <1>2, <1>3, FS_CardinalityType
<1>5. QED
  BY <1>1, <1>3, <1>4

(* The smallest set on which two sums differ does not exist.                *)
LEMMA OneSum ==
  ASSUME NEW e, NEW f, NEW g, Adds(e, f), Adds(e, g)
  PROVE  f = g
<1> DEFINE Differ == {s \in SUBSET Names : f[s] # g[s]}
           S == {Cardinality(s) : s \in Differ}
<1>1. ASSUME NEW s \in SUBSET Names
      PROVE  /\ s = {} => f[s] = 0 /\ g[s] = 0
             /\ s # {} => f[s] = e[First(s)] + f[s \ {First(s)}] /\ g[s] = e[First(s)] + g[s \ {First(s)}]
  BY <1>1 DEF Adds
<1>2. S = {}
  <2>1. SUFFICES ASSUME S # {} PROVE FALSE
    OBVIOUS
  <2>2. S \subseteq Nat
    <3>1. ASSUME NEW s \in SUBSET Names PROVE Cardinality(s) \in Nat
      BY <3>1, NamesFinite, FS_Subset, FS_CardinalityType
    <3>2. QED
      BY <3>1
  <2>3. PICK m \in S : \A k \in S : m <= k
    <3> HIDE DEF S
    <3>1. QED
      BY <2>1, <2>2, LeastNumber
  <2>4. PICK s \in Differ : Cardinality(s) = m
    BY <2>3
  <2>5. s # {}
    BY <1>1, <2>4
  <2>6. s \ {First(s)} \in Differ
    BY <1>1, <2>4, <2>5, OneLess
  <2>7. m <= Cardinality(s \ {First(s)})
    <3>1. Cardinality(s \ {First(s)}) \in S
      BY <2>6
    <3>2. QED
      BY <2>3, <3>1
  <2>8. Cardinality(s) = Cardinality(s \ {First(s)}) + 1 /\ Cardinality(s \ {First(s)}) \in Nat
    BY <2>4, <2>5, OneLess
  <2>9. QED
    BY <2>4, <2>7, <2>8
<1>3. \A s \in SUBSET Names : f[s] = g[s]
  BY <1>2
<1>4. QED
  BY <1>3 DEF Adds

(* There is one, and its value is the room.                                 *)
LEMMA SumExists ==
  ASSUME NEW e \in Env!Envs
  PROVE  \E f \in [SUBSET Names -> Nat] : Adds(e, f)
<1> DEFINE D == SUBSET Names
           done == {{}}
           last == [s \in D |-> 0]
           succ == [s \in D |-> IF s = {} THEN {} ELSE s \ {First(s)}]
           step == [c \in D \X Nat |-> IF c[1] = {} THEN 0 ELSE e[First(c[1])] + c[2]]
           rank == [s \in D |-> Cardinality(s)]
           N == Cardinality(Names)
<1>1. \A n \in Names : e[n] \in Nat
  BY SizesAre DEF Env!Envs
<1>2. last \in [D -> Nat]
  OBVIOUS
<1>3. succ \in [D -> D]
  BY OneLess
<1>4. step \in [D \X Nat -> Nat]
  <2>1. ASSUME NEW s \in D, NEW x \in Nat, s # {} PROVE e[First(s)] + x \in Nat
    <3>1. First(s) \in Names
      BY <2>1, OneLess
    <3>2. QED
      BY <1>1, <3>1
  <2>2. QED
    BY <2>1
<1>5. rank \in [D -> 0 .. N]
  <2>1. ASSUME NEW s \in D PROVE Cardinality(s) \in 0 .. N
    <3>1. IsFiniteSet(s) /\ Cardinality(s) <= N
      BY NamesFinite, FS_Subset
    <3>2. Cardinality(s) \in Nat
      BY <3>1, FS_CardinalityType
    <3>3. QED
      BY <3>1, <3>2, NamesFinite
  <2>2. QED
    BY <2>1
<1>6. \A s \in D : s \notin done => rank[succ[s]] < rank[s]
  <2>1. ASSUME NEW s \in D, s # {} PROVE rank[succ[s]] < rank[s]
    <3>1. succ[s] = s \ {First(s)} /\ succ[s] \in D
      BY <2>1, OneLess
    <3>2. rank[succ[s]] = Cardinality(s \ {First(s)}) /\ rank[s] = Cardinality(s)
      BY <3>1
    <3>3. QED
      BY <2>1, <3>2, OneLess
  <2>2. QED
    BY <2>1
<1>7. PICK f : IsLoop(f, D, Nat, done, last, succ, step)
  <2>1. N \in Nat
    BY NamesFinite
  <2> HIDE DEF D, done, last, succ, step, rank, N
  <2>2. QED
    BY <1>2, <1>3, <1>4, <1>5, <1>6, <2>1, LoopExists
<1>8. f \in [D -> Nat] /\ \A s \in D : f[s] = IF s \in done THEN last[s] ELSE step[<<s, f[succ[s]]>>]
  BY <1>7 DEF IsLoop
<1>9. ASSUME NEW s \in D
      PROVE  f[s] = IF s = {} THEN 0 ELSE e[First(s)] + f[s \ {First(s)}]
  <2>1. CASE s = {}
    BY <1>8, <2>1
  <2>2. CASE s # {}
    <3>1. succ[s] = s \ {First(s)} /\ succ[s] \in D
      BY <2>2, OneLess
    <3>2. f[s] = step[<<s, f[s \ {First(s)}]>>] /\ f[s \ {First(s)}] \in Nat
      BY <1>8, <2>2, <3>1
    <3>3. step[<<s, f[s \ {First(s)}]>>] = e[First(s)] + f[s \ {First(s)}]
      BY <2>2, <3>2
    <3>4. QED
      BY <2>2, <3>2, <3>3
  <2>3. QED
    BY <2>1, <2>2
<1>10. Adds(e, f)
  BY <1>8, <1>9 DEF Adds
<1>11. QED
  BY <1>8, <1>10

LEMMA RoomIsSum ==
  ASSUME NEW e \in Env!Envs, NEW f, Adds(e, f)
  PROVE  Env!Room(e) = f[Names]
<1> DEFINE h == CHOOSE g : Adds(e, g)
<1>1. Env!Room(e) = h[Names]
  BY DEF Env!Room, Env!MapThenFoldSet, Adds, First
<1>2. Adds(e, h)
  OBVIOUS
<1>3. h = f
  <2> HIDE DEF h
  <2>1. QED
    BY <1>2, OneSum
<1>4. QED
  BY <1>1, <1>3

(* The environments that there are at the beginning have room.              *)
LEMMA FirstRoom ==
  /\ Env!Default \in Env!Envs /\ Env!Room(Env!Default) = 0
  /\ [n \in Names |-> 1] \in Env!Envs /\ Env!Room([n \in Names |-> 1]) = Cardinality(Names)
<1>1. Env!Default \in Env!Envs /\ [n \in Names |-> 1] \in Env!Envs
  BY NamesFinite DEF Env!Default, Env!Envs
<1>2. Env!Room(Env!Default) = 0
  <2> DEFINE f == [s \in SUBSET Names |-> 0]
  <2>1. ASSUME NEW s \in SUBSET Names, s # {} PROVE Env!Default[First(s)] + f[s \ {First(s)}] = 0
    <3>1. Env!Default[First(s)] = 0 /\ f[s \ {First(s)}] = 0
      BY <2>1, OneLess DEF Env!Default, Env!Absent
    <3> HIDE DEF f
    <3>2. QED
      BY <3>1
  <2>2. Adds(Env!Default, f)
    BY <2>1 DEF Adds
  <2>3. f[Names] = 0
    OBVIOUS
  <2> HIDE DEF f
  <2>4. QED
    BY <1>1, <2>2, <2>3, RoomIsSum
<1>3. Env!Room([n \in Names |-> 1]) = Cardinality(Names)
  <2> DEFINE f == [s \in SUBSET Names |-> Cardinality(s)]
             e == [n \in Names |-> 1]
  <2>1. ASSUME NEW s \in SUBSET Names
        PROVE  Cardinality(s) = IF s = {} THEN 0 ELSE e[First(s)] + f[s \ {First(s)}]
    <3>1. CASE s = {}
      BY <3>1, FS_EmptySet
    <3>2. CASE s # {}
      <4>1. e[First(s)] = 1 /\ f[s \ {First(s)}] = Cardinality(s \ {First(s)})
        BY <3>2, OneLess
      <4> HIDE DEF e, f
      <4>2. QED
        BY <3>2, <4>1, OneLess
    <3>3. QED
      BY <3>1, <3>2
  <2>2. Adds(e, f)
    BY <2>1 DEF Adds
  <2>3. f[Names] = Cardinality(Names)
    OBVIOUS
  <2> HIDE DEF f
  <2>4. QED
    BY <1>1, <2>2, <2>3, RoomIsSum
<1>4. QED
  BY <1>1, <1>2, <1>3

(* A variable adds its size to the room of the others.                      *)
LEMMA RoomOfOne ==
  ASSUME NEW e \in Env!Envs, NEW n \in Names, NEW v \in Sizes \cup {Env!Absent}
  PROVE  /\ Env!Room([e EXCEPT ![n] = Env!Absent]) \in Nat
         /\ Env!Room([e EXCEPT ![n] = v]) = Env!Room([e EXCEPT ![n] = Env!Absent]) + v
<1> DEFINE e0 == [e EXCEPT ![n] = Env!Absent]
           ev == [e EXCEPT ![n] = v]
<1>1. e0 \in Env!Envs /\ ev \in Env!Envs /\ v \in Nat
  BY NamesFinite DEF Env!Envs, Env!Absent
<1>2. \A m \in Names : e0[m] \in Nat /\ ev[m] = IF m = n THEN v ELSE e0[m]
  <2>1. \A m \in Names : e0[m] \in Nat
    <3> HIDE DEF e0
    <3>1. QED
      BY <1>1, SizesAre DEF Env!Envs
  <2>2. \A m \in Names : ev[m] = IF m = n THEN v ELSE e0[m]
    BY DEF Env!Envs
  <2>3. QED
    BY <2>1, <2>2
<1>3. e0[n] = 0
  BY DEF Env!Envs, Env!Absent
<1> HIDE DEF e0, ev
<1>4. PICK f \in [SUBSET Names -> Nat] : Adds(e0, f)
  BY <1>1, SumExists
<1> DEFINE Value(s) == IF n \in s THEN v ELSE 0
           g == [s \in SUBSET Names |-> f[s] + Value(s)]
<1>5. ASSUME NEW s \in SUBSET Names
      PROVE  f[s] + Value(s) = IF s = {} THEN 0 ELSE ev[First(s)] + g[s \ {First(s)}]
  <2>1. CASE s = {}
    BY <1>4, <2>1 DEF Adds
  <2>2. CASE s # {}
    <3> DEFINE r == s \ {First(s)}
    <3>1. r \in SUBSET Names /\ First(s) \in Names /\ First(s) \in s
      BY <2>2, OneLess
    <3>2. f[s] = e0[First(s)] + f[r]
      BY <1>4, <2>2 DEF Adds
    <3>3. g[r] = f[r] + Value(r)
      BY <3>1
    <3>4. f[r] \in Nat
      BY <3>1
    <3>5. CASE First(s) = n
      <4>1. Value(r) = 0 /\ Value(s) = v /\ ev[First(s)] = v /\ e0[First(s)] = 0
        BY <1>2, <1>3, <3>1, <3>5
      <4> HIDE DEF g, r, Value
      <4>2. QED
        BY <1>1, <2>2, <3>2, <3>3, <3>4, <4>1 DEF r
    <3>6. CASE First(s) # n
      <4>1. Value(r) = Value(s) /\ ev[First(s)] = e0[First(s)] /\ e0[First(s)] \in Nat
        BY <1>2, <3>1, <3>6
      <4>2. Value(s) \in Nat
        BY <1>1
      <4> HIDE DEF g, r, Value
      <4>3. QED
        BY <2>2, <3>2, <3>3, <3>4, <4>1, <4>2 DEF r
    <3>7. QED
      BY <3>5, <3>6
  <2>3. QED
    BY <2>1, <2>2
<1>6. Adds(ev, g)
  BY <1>5 DEF Adds
<1>7. g[Names] = f[Names] + v /\ f[Names] \in Nat
  OBVIOUS
<1> HIDE DEF g
<1>8. Env!Room(e0) = f[Names] /\ Env!Room(ev) = g[Names]
  BY <1>1, <1>4, <1>6, RoomIsSum
<1>9. QED
  BY <1>7, <1>8 DEF e0, ev

-----------------------------------------------------------------------------
(* Every environment in the flash or in the hands of a tool has room.       *)
Small == {e \in Env!Envs : Env!Room(e) <= Capacity}

ToolFits(t) == t.env \in Small /\ t.first.env \in Small

EnvFits ==
  /\ \A d \in {0, 1} : copy[d].env \in Small
  /\ \A p \in Tools : ToolFits(tool[p])

EnvCount ==
  /\ runs \in 0 .. MaxRuns /\ toolFailures \in 0 .. MaxFailures
  /\ kept \in Env!Envs /\ interrupted \subseteq Env!Envs
  /\ spoilt \subseteq {"overlap", "wrap", "mark", "single"}

LEMMA GoneFits ==
  /\ Env!Default \in Small /\ Env!Torn.env \in Small /\ ToolFits(Env!Gone)
<1>1. Env!Default \in Small
  BY FirstRoom, NamesFinite DEF Small
<1>2. QED
  BY <1>1 DEF Env!Torn, Env!Gone, ToolFits

LEMMA PutFits ==
  ASSUME NEW e \in Small, NEW n \in Names, NEW v \in Sizes \cup {Env!Absent}
  PROVE  Env!Put(e, n, v) \in Small
<1> DEFINE e0 == [e EXCEPT ![n] = Env!Absent]
           ev == [e EXCEPT ![n] = v]
<1>1. e \in Env!Envs /\ Env!Room(e) <= Capacity /\ Capacity \in Nat
  BY NamesFinite DEF Small
<1>2. e0 \in Env!Envs /\ ev \in Env!Envs
  BY <1>1 DEF Env!Envs
<1>3. e[n] \in Sizes \cup {Env!Absent} /\ [e EXCEPT ![n] = e[n]] = e
  BY <1>1 DEF Env!Envs
<1>4. Env!Room(e0) \in Nat /\ Env!Room(ev) = Env!Room(e0) + v
  BY <1>1, RoomOfOne
<1>5. Env!Room([e EXCEPT ![n] = e[n]]) = Env!Room(e0) + e[n]
  <2> HIDE DEF ev
  <2>1. QED
    BY <1>1, <1>3, RoomOfOne
<1>6. Env!Put(e, n, v) = IF Env!Room(e0) + v <= Capacity THEN ev ELSE e0
  <2>1. CASE Env!Fits(e, n, v)
    <3>1. Env!Room(e0) + v <= Capacity /\ Env!Put(e, n, v) = ev
      BY <2>1 DEF Env!Put, Env!Fits
    <3>2. QED
      BY <3>1
  <2>2. CASE ~Env!Fits(e, n, v)
    <3>1. ~(Env!Room(e0) + v <= Capacity) /\ Env!Put(e, n, v) = e0
      BY <2>2 DEF Env!Put, Env!Fits
    <3>2. QED
      BY <3>1
  <2>3. QED
    BY <2>1, <2>2
<1>7. Env!Room(e) = Env!Room(e0) + e[n] /\ e[n] \in Nat
  BY <1>3, <1>5, SizesAre
<1> HIDE DEF e0, ev
<1>8. Env!Room(e0) <= Capacity
  BY <1>1, <1>4, <1>7
<1>9. QED
  BY <1>2, <1>4, <1>6, <1>8 DEF Small

LEMMA ToolsFit ==
  ASSUME EnvType, EnvFits, NEW p \in Tools, NEW t, ToolFits(t), Env!Become(p, t)
  PROVE  \A q \in Tools : ToolFits(tool'[q])
<1>1. tool' = [tool EXCEPT ![p] = t]
  BY DEF Env!Become
<1>2. \A q \in Tools : tool'[q] = t \/ tool'[q] = tool[q]
  BY <1>1 DEF EnvType
<1>3. QED
  BY <1>2 DEF EnvFits

LEMMA FlashFits ==
  ASSUME EnvType, EnvFits, NEW d \in {0, 1}, NEW c, c.env \in Small, copy' = [copy EXCEPT ![d] = c]
  PROVE  \A x \in {0, 1} : copy'[x].env \in Small
<1>1. \A x \in {0, 1} : copy'[x] = c \/ copy'[x] = copy[x]
  BY DEF EnvType
<1>2. QED
  BY <1>1 DEF EnvFits

LEMMA EnvFitsStep ==
  ASSUME EnvType, EnvFits, NEW p \in Tools, Env!Step(p)
  PROVE  EnvFits'
<1>1. tool[p] \in ToolStates /\ ToolFits(tool[p]) /\ copy \in [{0, 1} -> CopyStates]
      /\ copy[0].env \in Small /\ copy[1].env \in Small
  BY DEF EnvType, EnvFits
<1>2. ASSUME NEW t, ToolFits(t), Env!Become(p, t), copy' = copy PROVE EnvFits'
  <2>1. \A q \in Tools : ToolFits(tool'[q])
    BY <1>2, ToolsFit
  <2>2. QED
    BY <1>2, <2>1 DEF EnvFits, ToolFits
<1>3. ASSUME NEW t, ToolFits(t), Env!Become(p, t),
             NEW d \in {0, 1}, NEW c, c.env \in Small, copy' = [copy EXCEPT ![d] = c]
      PROVE  EnvFits'
  <2>1. \A q \in Tools : ToolFits(tool'[q])
    BY <1>3, ToolsFit
  <2>2. \A x \in {0, 1} : copy'[x].env \in Small
    BY <1>3, FlashFits
  <2>3. QED
    BY <2>1, <2>2 DEF EnvFits, ToolFits
<1>4. ASSUME NEW kind \in {"print", "set", "script"}, Env!Open(p, kind) PROVE EnvFits'
  <2> DEFINE t == [Env!Gone EXCEPT !.at = "half", !.kind = kind, !.first = copy[0]]
  <2>1. Env!Become(p, t) /\ copy' = copy
    BY <1>4 DEF Env!Open
  <2>2. t.env = Env!Default /\ t.first = copy[0]
    BY DEF Env!Gone
  <2> HIDE DEF t
  <2>3. ToolFits(t)
    BY <1>1, <2>2, GoneFits DEF ToolFits
  <2>4. QED
    BY <1>2, <2>1, <2>3
<1>5. CASE Env!Choose(p)
  <2> DEFINE d == Env!Current(tool[p].first, copy[1])
             c == IF d = 0 THEN tool[p].first ELSE copy[1]
             t == [Env!Gone EXCEPT !.at = "edit", !.kind = tool[p].kind, !.dev = d,
                                   !.flag = c.flag, !.env = Env!Loaded(c)]
  <2>1. Env!Become(p, t) /\ copy' = copy
    BY <1>5 DEF Env!Choose
  <2>2. c.env \in Small
    <3> HIDE DEF d
    <3>1. QED
      BY <1>1 DEF ToolFits
  <2> HIDE DEF d, c
  <2>3. Env!Loaded(c) \in Small
    BY <2>2, GoneFits DEF Env!Loaded
  <2>4. t.env = Env!Loaded(c) /\ t.first = Env!Torn
    BY DEF Env!Gone
  <2> HIDE DEF t
  <2>5. ToolFits(t)
    BY <2>3, <2>4, GoneFits DEF ToolFits
  <2>6. QED
    BY <1>2, <2>1, <2>5
<1>6. CASE Env!OpenFails(p) \/ Env!PrintEnv(p) \/ Env!WriteFails(p)
  <2>1. Env!Become(p, Env!Gone) /\ copy' = copy
    BY <1>6 DEF Env!OpenFails, Env!PrintEnv, Env!WriteFails
  <2>2. QED
    BY <1>2, <2>1, GoneFits
<1>7. ASSUME NEW n \in Names, NEW v \in Sizes \cup {Env!Absent}, Env!Assign(p, n, v) PROVE EnvFits'
  <2> DEFINE e == Env!Put(tool[p].env, n, v)
             fits == Env!Fits(tool[p].env, n, v)
             r == IF tool[p].kind = "script" /\ ~fits THEN -1 ELSE tool[p].ret
             a == IF tool[p].kind = "script" /\ fits THEN tool[p].at ELSE "erase"
             t == [tool[p] EXCEPT !.env = e, !.ret = r, !.at = a]
  <2>1. Env!Become(p, t) /\ copy' = copy
    BY <1>7 DEF Env!Assign
  <2>2. e \in Small
    BY <1>1, PutFits DEF ToolFits
  <2> HIDE DEF e, fits, r, a
  <2>3. t.env = e /\ t.first = tool[p].first
    BY <1>1 DEF ToolStates
  <2> HIDE DEF t
  <2>4. ToolFits(t)
    BY <1>1, <2>2, <2>3 DEF ToolFits
  <2>5. QED
    BY <1>2, <2>1, <2>4
<1>8. ASSUME NEW s PROVE ToolFits([tool[p] EXCEPT !.at = s])
  BY <1>1 DEF ToolStates, ToolFits
<1>9. CASE Env!Close(p)
  <2>1. Env!Become(p, [tool[p] EXCEPT !.at = "erase"]) /\ copy' = copy
    BY <1>9 DEF Env!Close
  <2>2. QED
    BY <1>2, <1>8, <2>1
<1>10. Env!Target(p) \in {0, 1} /\ tool[p].dev \in {0, 1}
  BY <1>1 DEF Env!Target, ToolStates
<1>11. CASE Env!Erase(p)
  <2>1. Env!Become(p, [tool[p] EXCEPT !.at = "write"])
        /\ copy' = [copy EXCEPT ![Env!Target(p)] = Env!Torn]
    BY <1>11 DEF Env!Erase
  <2>2. QED
    BY <1>3, <1>8, <1>10, <2>1, GoneFits
<1>12. CASE Env!Write(p)
  <2>1. copy' = [copy EXCEPT ![Env!Target(p)] = Env!Image(p)]
    BY <1>12 DEF Env!Write
  <2>2. Env!Image(p).env \in Small
    BY <1>1 DEF Env!Image, ToolFits
  <2>3. Env!Become(p, Env!Gone) \/ Env!Become(p, [tool[p] EXCEPT !.at = "mark"])
    BY <1>12 DEF Env!Write, Env!Exit
  <2>4. QED
    BY <1>3, <1>8, <1>10, <2>1, <2>2, <2>3, GoneFits
<1>13. CASE Env!Mark(p)
  <2>1. Env!Become(p, Env!Gone)
    BY <1>13 DEF Env!Mark, Env!Exit
  <2>2. CASE copy' = copy
    BY <1>2, <2>1, <2>2, GoneFits
  <2>3. CASE copy' = [copy EXCEPT ![tool[p].dev].flag = Env!Obsolete]
    <3> DEFINE d == tool[p].dev
               c == [copy[d] EXCEPT !.flag = Env!Obsolete]
    <3>1. copy' = [copy EXCEPT ![d] = c]
      BY <2>3
    <3>2. c.env = copy[d].env
      BY <1>1, <1>10 DEF CopyStates
    <3> HIDE DEF c
    <3>3. c.env \in Small
      BY <1>1, <1>10, <3>2
    <3>4. QED
      BY <1>3, <1>10, <2>1, <3>1, <3>3, GoneFits
  <2>4. QED
    BY <1>13, <2>2, <2>3 DEF Env!Mark
<1>14. QED
  <2>1. CASE \E kind \in {"print", "set", "script"} : Env!Open(p, kind)
    BY <1>4, <2>1
  <2>2. CASE \E n \in Names, v \in Sizes \cup {Env!Absent} : Env!Assign(p, n, v)
    BY <1>7, <2>2, Zenon
  <2>3. QED
    BY <1>5, <1>6, <1>9, <1>11, <1>12, <1>13, <2>1, <2>2, Zenon DEF Env!Step

LEMMA EnvCountStep ==
  ASSUME EnvType, EnvCount, NEW p \in Tools, Env!Step(p)
  PROVE  EnvCount'
<1>1. MaxRuns \in Nat /\ MaxFailures \in Nat
  BY NamesFinite
<1>2. tool[p].env \in Env!Envs
  BY DEF EnvType, ToolStates
<1>3. ASSUME NEW kind \in {"print", "set", "script"}, Env!Open(p, kind) PROVE EnvCount'
  <2>1. runs < MaxRuns /\ runs' = runs + 1
    BY <1>3 DEF Env!Open
  <2>2. runs \in 0 .. MaxRuns
    BY DEF EnvCount
  <2>3. runs' \in 0 .. MaxRuns
    BY <1>1, <2>1, <2>2
  <2>4. UNCHANGED <<toolFailures, kept, interrupted>> /\ spoilt' \subseteq spoilt \cup {"overlap"}
    BY <1>3 DEF Env!Open
  <2>5. QED
    BY <2>3, <2>4 DEF EnvCount
<1>4. ASSUME toolFailures < MaxFailures, toolFailures' = toolFailures + 1
      PROVE  toolFailures' \in 0 .. MaxFailures
  <2>1. toolFailures \in 0 .. MaxFailures
    BY DEF EnvCount
  <2>2. QED
    BY <1>1, <1>4, <2>1
<1>5. CASE Env!OpenFails(p) \/ Env!WriteFails(p)
  <2>1. toolFailures < MaxFailures /\ toolFailures' = toolFailures + 1
    BY <1>5 DEF Env!OpenFails, Env!WriteFails
  <2>2. UNCHANGED <<runs, kept, interrupted>> /\ spoilt' \subseteq spoilt \cup {"single"}
    BY <1>5 DEF Env!OpenFails, Env!WriteFails
  <2>3. QED
    BY <1>4, <2>1, <2>2 DEF EnvCount
<1>6. ASSUME UNCHANGED <<runs, toolFailures, kept, interrupted, spoilt>> PROVE EnvCount'
  BY <1>6 DEF EnvCount
<1>7. CASE Env!Choose(p) \/ Env!PrintEnv(p) \/ Env!Close(p) \/ Env!Erase(p)
  BY <1>6, <1>7 DEF Env!Choose, Env!PrintEnv, Env!Close, Env!Erase
<1>8. CASE \E n \in Names, v \in Sizes \cup {Env!Absent} : Env!Assign(p, n, v)
  BY <1>6, <1>8 DEF Env!Assign
<1>9. ASSUME NEW ret, Env!Exit(p, ret) PROVE kept' \in Env!Envs /\ interrupted' \subseteq Env!Envs
  BY <1>2, <1>9 DEF Env!Exit, EnvCount
<1>10. CASE Env!Write(p)
  <2>1. UNCHANGED <<runs, toolFailures>> /\ spoilt' \subseteq spoilt \cup {"wrap"}
    BY <1>10 DEF Env!Write
  <2>2. UNCHANGED <<kept, interrupted>> \/ \E ret \in Int : Env!Exit(p, ret)
    <3>1. tool[p].ret \in Int
      BY DEF EnvType, ToolStates
    <3>2. CASE sectors > 1
      BY <1>10, <3>2 DEF Env!Write
    <3>3. CASE ~(sectors > 1)
      BY <1>10, <3>1, <3>3 DEF Env!Write
    <3>4. QED
      BY <3>2, <3>3
  <2>3. kept' \in Env!Envs /\ interrupted' \subseteq Env!Envs
    BY <1>9, <2>2 DEF EnvCount
  <2>4. QED
    BY <2>1, <2>3 DEF EnvCount
<1>11. CASE Env!Mark(p)
  <2>1. runs' = runs /\ spoilt' \subseteq spoilt \cup {"mark"}
    BY <1>11 DEF Env!Mark
  <2>2. toolFailures' \in 0 .. MaxFailures
    <3>1. toolFailures' = toolFailures \/ (toolFailures < MaxFailures /\ toolFailures' = toolFailures + 1)
      BY <1>11 DEF Env!Mark
    <3>2. QED
      BY <1>4, <3>1 DEF EnvCount
  <2>3. kept' \in Env!Envs /\ interrupted' \subseteq Env!Envs
    BY <1>9, <1>11 DEF Env!Mark
  <2>4. QED
    BY <2>1, <2>2, <2>3 DEF EnvCount
<1>12. QED
  <2>1. CASE \E kind \in {"print", "set", "script"} : Env!Open(p, kind)
    BY <1>3, <2>1
  <2>2. QED
    BY <1>5, <1>7, <1>8, <1>10, <1>11, <2>1, Zenon DEF Env!Step

LEMMA PowerFits ==
  ASSUME EnvType, EnvFits, EnvCount, Env!PowerFails
  PROVE  EnvFits' /\ EnvCount'
<1>1. /\ toolFailures < MaxFailures /\ toolFailures' = toolFailures + 1
      /\ UNCHANGED <<copy, runs, kept>> /\ tool' = [q \in Tools |-> Env!Gone]
  BY DEF Env!PowerFails
<1>2. EnvFits'
  <2>1. \A q \in Tools : tool'[q] = Env!Gone
    BY <1>1
  <2>2. QED
    BY <1>1, <2>1, GoneFits DEF EnvFits, ToolFits
<1>3. toolFailures' \in 0 .. MaxFailures
  <2>1. toolFailures \in 0 .. MaxFailures /\ MaxFailures \in Nat
    BY NamesFinite DEF EnvCount
  <2>2. QED
    BY <1>1, <2>1
<1>4. spoilt' \subseteq spoilt \cup {"single"}
  BY DEF Env!PowerFails
<1>5. interrupted' \subseteq Env!Envs
  <2>1. \A q \in Tools : tool[q].env \in Env!Envs
    BY DEF EnvType, ToolStates
  <2>2. interrupted' \subseteq interrupted \cup {tool[q].env : q \in Tools}
    BY DEF Env!PowerFails
  <2>3. QED
    BY <2>1, <2>2 DEF EnvCount
<1>6. EnvCount'
  BY <1>1, <1>3, <1>4, <1>5 DEF EnvCount
<1>7. QED
  BY <1>2, <1>6

LEMMA EnvTypes == Spec => []Env!TypeOK
<1>1. Init => EnvFits /\ EnvCount
  <2> SUFFICES ASSUME Init PROVE EnvFits /\ EnvCount
    OBVIOUS
  <2>1. /\ kept = [n \in Names |-> 1] /\ tool = [p \in Tools |-> Env!Gone]
        /\ runs = 0 /\ toolFailures = 0 /\ interrupted = {} /\ spoilt = {}
    BY Zenon DEF Init, Env!Init
  <2>2. PICK d \in {0, 1} : Env!Written(d, kept)
    BY Zenon DEF Init, Env!Init, Env!Devices
  <2>3. kept \in Small /\ Env!Default \in Small
    BY <2>1, FirstRoom, NamesFinite, GoneFits DEF Small
  <2>4. \A x \in {0, 1} : copy[x].env \in Small
    <3>1. \A x \in {0, 1} : copy[x].env \in {kept, Env!Default}
      BY <2>2 DEF Env!Written, Env!Devices, Env!Torn
    <3>2. QED
      BY <2>3, <3>1
  <2>5. EnvFits
    BY <2>1, <2>4, GoneFits DEF EnvFits
  <2>6. 0 \in 0 .. MaxRuns /\ 0 \in 0 .. MaxFailures
    BY NamesFinite
  <2>7. EnvCount
    BY <2>1, <2>3, <2>6 DEF EnvCount, Small
  <2>8. QED
    BY <2>5, <2>7
<1>2. EnvInv /\ EnvFits /\ EnvCount /\ [Next]_vars => EnvFits' /\ EnvCount'
  <2> SUFFICES ASSUME EnvInv, EnvFits, EnvCount, [Next]_vars PROVE EnvFits' /\ EnvCount'
    OBVIOUS
  <2>1. EnvType
    BY DEF EnvInv
  <2>2. CASE UNCHANGED envVars
    BY <2>2 DEF envVars, EnvFits, EnvCount, ToolFits
  <2>3. CASE Env!Next
    BY <2>1, <2>3, EnvFitsStep, EnvCountStep, PowerFits, Zenon DEF Env!Next
  <2>4. Env!Next \/ UNCHANGED envVars
    BY DEF Next, vars
  <2>5. QED
    BY <2>2, <2>3, <2>4
<1>3. EnvInv /\ EnvFits /\ EnvCount => Env!TypeOK
  <2> SUFFICES ASSUME EnvInv, EnvFits, EnvCount PROVE Env!TypeOK
    OBVIOUS
  <2>1. EnvType
    BY DEF EnvInv
  <2>2. \A p \in Tools : tool[p] \in ToolStates /\ Env!Room(tool[p].env) <= Capacity
    BY <2>1 DEF EnvType, EnvFits, ToolFits, Small
  <2>3. copy \in [{0, 1} -> [ok : BOOLEAN, flag : 0 .. 255, env : Env!Envs]]
    BY <2>1 DEF EnvType, CopyStates
  <2>4. QED
    BY <2>1, <2>2, <2>3 DEF EnvType, EnvCount, ToolStates, Env!TypeOK, Env!Devices
<1>4. QED
  BY <1>1, <1>2, <1>3, EnvInvariant, PTL DEF Spec

-----------------------------------------------------------------------------
(* The line buffer: the cursor is inside of what has been read.             *)

LEMMA BufferBounds ==
  /\ MAX_AT_RESPONSE \in Nat /\ MAX_AT_RESPONSE > 2 /\ MaxMessages \in Nat
  /\ MaxSessions \in Nat /\ MaxSessions > 0
  /\ \A m \in Messages \cup {Echo} : m \in Seq(Buffer!Range(m))
<1>1. /\ MAX_AT_RESPONSE \in Nat /\ MAX_AT_RESPONSE > 2 /\ MaxMessages \in Nat
      /\ MaxSessions \in Nat \ {0} /\ \A m \in Messages \cup {Echo} : m \in Seq(Buffer!Range(m))
  BY StandaloneAssumption, Zenon DEF Buffer!LineBufferAssumption
<1>2. MaxSessions \in Nat /\ MaxSessions > 0
  BY <1>1
<1>3. QED
  BY <1>1, <1>2

LEMMA BufferMin ==
  ASSUME NEW S, S \subseteq Nat, S # {}
  PROVE  Buffer!Min(S) \in S
BY LeastNumber DEF Buffer!Min

LEMMA BufferMax ==
  ASSUME NEW N \in Nat, NEW S, S \subseteq 0 .. N, S # {}
  PROVE  Buffer!Max(S) \in S
<1>1. PICK m \in S : \A k \in S : k <= m
  BY GreatestNumber
<1>2. \A k \in S : m >= k
  BY <1>1
<1>3. QED
  BY <1>2 DEF Buffer!Max

(* What of a sequence is cut out. *)
LEMMA Cutting ==
  ASSUME NEW S, NEW b \in Seq(S), NEW i \in Nat, NEW j \in Nat, j <= Len(b), i >= 1
  PROVE  /\ SubSeq(b, i, j) \in Seq(S)
         /\ i <= j => Len(SubSeq(b, i, j)) = j - i + 1
         /\ i > j => Len(SubSeq(b, i, j)) = 0
<1>1. \A k \in i .. j : b[k] \in S
  <2>1. ASSUME NEW k \in i .. j PROVE b[k] \in S
    <3>1. k \in 1 .. Len(b)
      OBVIOUS
    <3>2. QED
      BY <3>1
  <2>2. QED
    BY <2>1
<1>2. i \in Int /\ j \in Int
  OBVIOUS
<1>3. /\ SubSeq(b, i, j) \in Seq(S)
      /\ Len(SubSeq(b, i, j)) = IF i <= j THEN j - i + 1 ELSE 0
  BY <1>1, <1>2, SubSeqProperties
<1>4. QED
  BY <1>3

LEMMA SkipInside ==
  ASSUME NEW b \in Seq(Buffer!Bytes), NEW c \in 0 .. Len(b)
  PROVE  Buffer!Skip(b, c) \in c .. Len(b)
<1> DEFINE N == (Len(b) - c) \div 2
           S == {n \in 0 .. N : \A i \in 1 .. n : Buffer!Newline(b, c + 2*i - 1)}
<1>1. Len(b) \in Nat /\ N \in Nat /\ 2 * N <= Len(b) - c
  OBVIOUS
<1>2. S \subseteq 0 .. N /\ 0 \in S
  <2> HIDE DEF N
  <2>1. QED
    BY <1>1
<1>3. Buffer!Skip(b, c) = c + 2 * Buffer!Max(S)
  BY DEF Buffer!Skip
<1>4. Buffer!Max(S) \in 0 .. N
  <2> HIDE DEF S, N
  <2>1. QED
    BY <1>1, <1>2, BufferMax
<1> HIDE DEF S, N
<1>5. QED
  BY <1>1, <1>3, <1>4

LEMMA EndInside ==
  ASSUME NEW b \in Seq(Buffer!Bytes), NEW c \in 0 .. Len(b), Buffer!Found(b, c)
  PROVE  Buffer!findNextEOL(b, c) \in 0 .. Len(b) /\ Buffer!Line(b, c) \in Seq(Buffer!Bytes)
<1>1. CASE Buffer!IsPrompt(b, c)
  <2>1. Buffer!findNextEOL(b, c) = Len(b) /\ Buffer!Line(b, c) = SubSeq(b, c + 1, Len(b))
    BY <1>1 DEF Buffer!findNextEOL, Buffer!Line, Buffer!Rest
  <2>2. QED
    BY <2>1, Cutting
<1>2. CASE ~Buffer!IsPrompt(b, c)
  <2> DEFINE e == Buffer!Min(Buffer!Ends(b, c))
  <2>1. Buffer!Ends(b, c) # {}
    BY <1>2 DEF Buffer!Found
  <2>2. Buffer!Ends(b, c) \subseteq c + 1 .. Len(b) - 1 /\ Buffer!Ends(b, c) \subseteq Nat
    BY DEF Buffer!Ends
  <2>3. e \in c + 1 .. Len(b) - 1
    BY <2>1, <2>2, BufferMin
  <2>4. Buffer!findNextEOL(b, c) = e + 1 /\ Buffer!Line(b, c) = SubSeq(b, c + 1, e - 1)
    BY <1>2 DEF Buffer!findNextEOL, Buffer!Line
  <2> HIDE DEF e
  <2>5. SubSeq(b, c + 1, e - 1) \in Seq(Buffer!Bytes)
    <3>1. c + 1 \in Nat /\ c + 1 >= 1 /\ e - 1 \in Nat /\ e - 1 <= Len(b)
      BY <2>3
    <3>2. QED
      BY <3>1, Cutting
  <2>6. QED
    BY <2>3, <2>4, <2>5
<1>3. QED
  BY <1>1, <1>2

(* What tryALine leaves. *)
BufferFits(b, c) ==
  /\ b \in Seq(Buffer!Bytes) /\ Len(b) <= MAX_AT_RESPONSE
  /\ c \in 0 .. Len(b)

LEMMA EmptyFits == BufferFits(<< >>, 0)
<1>1. << >> \in Seq(Buffer!Bytes) /\ Len(<< >>) = 0
  BY EmptySeq
<1>2. QED
  BY <1>1, BufferBounds DEF BufferFits

LEMMA TryType ==
  ASSUME NEW b, NEW c0, BufferFits(b, c0), returned \in Seq(Seq(Buffer!Bytes)), Buffer!tryALine(b, c0)
  PROVE  /\ bufferAt' \in {"cut", "read"} /\ BufferFits(buf', cur')
         /\ returned' \in Seq(Seq(Buffer!Bytes))
<1> DEFINE c == Buffer!Skip(b, c0)
<1>1. b \in Seq(Buffer!Bytes) /\ Len(b) <= MAX_AT_RESPONSE /\ c0 \in 0 .. Len(b) /\ Len(b) \in Nat
  BY DEF BufferFits
<1>2. c \in 0 .. Len(b)
  <2>1. c \in c0 .. Len(b)
    BY <1>1, SkipInside
  <2>2. QED
    BY <1>1, <2>1
<1>3. CASE Buffer!Found(b, c)
  <2> DEFINE eol == Buffer!findNextEOL(b, c)
  <2>1. eol \in 0 .. Len(b) /\ Buffer!Line(b, c) \in Seq(Buffer!Bytes)
    BY <1>1, <1>2, <1>3, EndInside
  <2>2. /\ bufferAt' = "cut" /\ returned' = Append(returned, Buffer!Line(b, c))
        /\ IF eol = Len(b) THEN buf' = << >> /\ cur' = 0 ELSE buf' = b /\ cur' = eol
    BY <1>3 DEF Buffer!tryALine
  <2> HIDE DEF eol, c
  <2>3. BufferFits(buf', cur')
    <3>1. CASE eol = Len(b)
      BY <2>2, <3>1, EmptyFits
    <3>2. CASE eol # Len(b)
      BY <1>1, <2>1, <2>2, <3>2 DEF BufferFits
    <3>3. QED
      BY <3>1, <3>2
  <2>4. returned' \in Seq(Seq(Buffer!Bytes))
    BY <2>1, <2>2
  <2>5. QED
    BY <2>2, <2>3, <2>4
<1>4. CASE ~Buffer!Found(b, c)
  <2>1. /\ bufferAt' = "read" /\ returned' = returned
        /\ IF Len(b) - c >= 2 THEN buf' = SubSeq(b, c + 1, Len(b)) /\ cur' = 0
                              ELSE buf' = b /\ cur' = c
    BY <1>4 DEF Buffer!tryALine, Buffer!Moved, Buffer!Rest
  <2> HIDE DEF c
  <2>2. CASE Len(b) - c >= 2
    <3>1. SubSeq(b, c + 1, Len(b)) \in Seq(Buffer!Bytes) /\ Len(SubSeq(b, c + 1, Len(b))) = Len(b) - c
      <4>1. c + 1 \in Nat /\ c + 1 >= 1 /\ c + 1 <= Len(b) /\ Len(b) - (c + 1) + 1 = Len(b) - c
        BY <1>1, <1>2, <2>2
      <4>2. QED
        BY <1>1, <4>1, Cutting
    <3>2. buf' = SubSeq(b, c + 1, Len(b)) /\ cur' = 0
      BY <2>1, <2>2
    <3>3. buf' \in Seq(Buffer!Bytes) /\ Len(buf') = Len(b) - c
      BY <3>1, <3>2, Zenon
    <3>4. Len(buf') <= MAX_AT_RESPONSE /\ 0 \in 0 .. Len(buf')
      BY <1>1, <1>2, <2>2, <3>3, BufferBounds
    <3>5. BufferFits(buf', cur')
      BY <3>2, <3>3, <3>4, Zenon DEF BufferFits
    <3>6. QED
      BY <2>1, <3>5
  <2>3. CASE ~(Len(b) - c >= 2)
    BY <1>1, <1>2, <2>1, <2>3 DEF BufferFits
  <2>4. QED
    BY <2>2, <2>3
<1>5. QED
  BY <1>3, <1>4

BufferInv ==
  /\ bufferAt \in {"cut", "read", "ended"} /\ BufferFits(buf, cur)
  /\ wire \in Seq(Buffer!Bytes) /\ stream \in Seq(Buffer!Bytes)
  /\ returned \in Seq(Seq(Buffer!Bytes))
  /\ session \in 1 .. MaxSessions /\ sent \in 0 .. MaxMessages
  /\ discarded \subseteq 1 .. MAX_AT_RESPONSE

LEMMA KeptFits ==
  ASSUME BufferInv
  PROVE  /\ BufferFits(Buffer!Kept, Buffer!KeptCursor)
         /\ Len(Buffer!Kept) \in Nat /\ Len(Buffer!Kept) < MAX_AT_RESPONSE
         /\ Buffer!Discard => discarded' \subseteq 1 .. MAX_AT_RESPONSE
<1>1. BufferFits(buf, cur) /\ buf \in Seq(Buffer!Bytes) /\ Len(buf) \in Nat
      /\ Len(buf) <= MAX_AT_RESPONSE /\ cur \in 0 .. Len(buf)
  BY DEF BufferInv, BufferFits
<1>2. CASE Buffer!Full
  <2>1. Buffer!Kept = << >> /\ Buffer!KeptCursor = 0
    BY <1>2 DEF Buffer!Kept, Buffer!KeptCursor
  <2>2. Len(<< >>) = 0
    OBVIOUS
  <2>3. Len(Buffer!Kept) \in Nat /\ Len(Buffer!Kept) < MAX_AT_RESPONSE
    BY <2>1, <2>2, BufferBounds
  <2>4. BufferFits(Buffer!Kept, Buffer!KeptCursor)
    BY <2>1, EmptyFits
  <2>5. QED
    <3>1. Len(buf) - cur \in 0 .. MAX_AT_RESPONSE
      BY <1>1, BufferBounds
    <3>2. ASSUME Buffer!Discard PROVE discarded' \subseteq 1 .. MAX_AT_RESPONSE
      <4>1. discarded' \subseteq discarded \cup {n \in {Len(buf) - cur} : n > 0}
        BY <3>2 DEF Buffer!Discard
      <4>2. {n \in {Len(buf) - cur} : n > 0} \subseteq 1 .. MAX_AT_RESPONSE
        BY <3>1, BufferBounds
      <4>3. discarded \subseteq 1 .. MAX_AT_RESPONSE
        BY DEF BufferInv
      <4>4. QED
        BY <4>1, <4>2, <4>3
    <3>3. QED
      BY <2>3, <2>4, <3>2
<1>3. CASE ~Buffer!Full
  <2>1. Buffer!Kept = buf /\ Buffer!KeptCursor = cur
    BY <1>3 DEF Buffer!Kept, Buffer!KeptCursor
  <2>2. Len(buf) # MAX_AT_RESPONSE
    BY <1>3 DEF Buffer!Full
  <2>3. Len(buf) < MAX_AT_RESPONSE
    BY <1>1, <2>2, BufferBounds
  <2>4. ASSUME Buffer!Discard PROVE discarded' \subseteq 1 .. MAX_AT_RESPONSE
    <3>1. discarded' = discarded \cup {n \in {Len(buf) - cur} : Buffer!Full /\ n > 0}
      BY <2>4 DEF Buffer!Discard
    <3>2. {n \in {Len(buf) - cur} : Buffer!Full /\ n > 0} = {}
      BY <1>3
    <3>3. discarded \subseteq 1 .. MAX_AT_RESPONSE
      BY DEF BufferInv
    <3>4. QED
      BY <3>1, <3>2, <3>3
  <2>5. QED
    BY <1>1, <2>1, <2>3, <2>4
<1>4. QED
  BY <1>2, <1>3

(* The bytes that a read takes, which are no more than there is room for.   *)
LEMMA ReadFits ==
  ASSUME BufferInv, wire # << >>, NEW n \in 1 .. Buffer!Min({Buffer!Room, Len(wire)})
  PROVE  /\ BufferFits(Buffer!Kept \o SubSeq(wire, 1, n), Buffer!KeptCursor)
         /\ SubSeq(wire, n + 1, Len(wire)) \in Seq(Buffer!Bytes)
<1>1. wire \in Seq(Buffer!Bytes) /\ Len(wire) \in Nat
  BY DEF BufferInv
<1>2. /\ Buffer!Kept \in Seq(Buffer!Bytes) /\ Buffer!KeptCursor \in 0 .. Len(Buffer!Kept)
      /\ Len(Buffer!Kept) \in Nat /\ Len(Buffer!Kept) < MAX_AT_RESPONSE
  BY KeptFits DEF BufferFits
<1>3. Buffer!Room = MAX_AT_RESPONSE - Len(Buffer!Kept) /\ Buffer!Room \in Nat
  BY <1>2, BufferBounds DEF Buffer!Room
<1>4. n <= Buffer!Room /\ n <= Len(wire) /\ n \in Nat /\ n >= 1
  <2> DEFINE S == {Buffer!Room, Len(wire)}
             m == Buffer!Min(S)
  <2>1. S \subseteq Nat /\ S # {}
    BY <1>1, <1>3
  <2>2. m \in S /\ \A k \in S : m <= k
    <3> HIDE DEF S
    <3>1. \E x \in S : \A k \in S : x <= k
      BY <2>1, LeastNumber
    <3>2. QED
      BY <3>1 DEF Buffer!Min
  <2>3. m <= Buffer!Room /\ m <= Len(wire) /\ m \in Nat
    BY <2>1, <2>2
  <2>4. n \in 1 .. m
    OBVIOUS
  <2> HIDE DEF m, S
  <2>5. QED
    BY <1>1, <1>3, <2>3, <2>4
<1>5. SubSeq(wire, 1, n) \in Seq(Buffer!Bytes) /\ Len(SubSeq(wire, 1, n)) = n
  <2>1. n - 1 + 1 = n /\ 1 \in Nat /\ 1 >= 1
    BY <1>4
  <2>2. QED
    BY <1>1, <1>4, <2>1, Cutting
<1>6. SubSeq(wire, n + 1, Len(wire)) \in Seq(Buffer!Bytes)
  <2>1. n + 1 \in Nat /\ n + 1 >= 1 /\ Len(wire) <= Len(wire)
    BY <1>1, <1>4
  <2>2. QED
    BY <1>1, <2>1, Cutting
<1> DEFINE k == Buffer!Kept
           r == SubSeq(wire, 1, n)
<1>7. k \o r \in Seq(Buffer!Bytes) /\ Len(k \o r) = Len(k) + Len(r)
  <2>1. k \in Seq(Buffer!Bytes) /\ r \in Seq(Buffer!Bytes)
    BY <1>2, <1>5
  <2> HIDE DEF k, r
  <2>2. QED
    BY <2>1
<1>8. Len(k \o r) <= MAX_AT_RESPONSE /\ Buffer!KeptCursor \in 0 .. Len(k \o r)
  <2>1. Len(k \o r) = Len(Buffer!Kept) + n
    BY <1>5, <1>7
  <2> HIDE DEF k, r
  <2>2. QED
    BY <1>2, <1>3, <1>4, <2>1, BufferBounds
<1>9. QED
  BY <1>6, <1>7, <1>8 DEF BufferFits

LEMMA SentBytes ==
  ASSUME NEW m \in Messages \cup {Echo}, session \in 1 .. MaxSessions, NEW bytes,
         bytes = [i \in DOMAIN m |-> [char |-> m[i], of |-> session]]
  PROVE  bytes \in Seq(Buffer!Bytes)
<1>1. \A x \in Messages \cup {Echo} : x \in Seq(Buffer!Range(x))
  BY BufferBounds, Zenon
<1>2. m \in Seq(Buffer!Range(m))
  BY <1>1, Zenon
<1>3. DOMAIN m = 1 .. Len(m) /\ Len(m) \in Nat
  <2> DEFINE R == Buffer!Range(m)
  <2>1. m \in Seq(R)
    BY <1>2
  <2> HIDE DEF R
  <2>2. QED
    BY <2>1
<1>4. ASSUME NEW i \in DOMAIN m PROVE bytes[i] \in Buffer!Bytes
  <2>1. m[i] \in Buffer!Range(m)
    BY DEF Buffer!Range
  <2>2. m[i] \in UNION {Buffer!Range(x) : x \in Messages \cup {Echo}}
    BY <2>1
  <2>3. [char |-> m[i], of |-> session] \in Buffer!Bytes
    BY <2>2 DEF Buffer!Bytes
  <2>4. QED
    BY <2>3
<1>5. bytes = [i \in 1 .. Len(m) |-> bytes[i]]
  BY <1>3
<1>6. bytes \in [1 .. Len(m) -> Buffer!Bytes]
  BY <1>3, <1>4, <1>5
<1>7. QED
  BY <1>3, <1>6

LEMMA BufferStep ==
  ASSUME BufferInv, Buffer!Next
  PROVE  BufferInv'
<1>1. CASE Buffer!Cut
  <2>1. Buffer!tryALine(buf, cur) /\ UNCHANGED <<wire, session, sent, stream, discarded>>
    BY <1>1 DEF Buffer!Cut
  <2>2. BufferFits(buf, cur) /\ returned \in Seq(Seq(Buffer!Bytes))
    BY DEF BufferInv
  <2>3. /\ bufferAt' \in {"cut", "read"} /\ BufferFits(buf', cur')
        /\ returned' \in Seq(Seq(Buffer!Bytes))
    BY <2>1, <2>2, TryType
  <2>4. QED
    BY <2>1, <2>3 DEF BufferInv, BufferFits
<1>2. CASE Buffer!Read
  <2>1. wire # << >> /\ Buffer!Discard /\ UNCHANGED <<session, sent, stream>>
    BY <1>2 DEF Buffer!Read
  <2>2. PICK n \in 1 .. Buffer!Min({Buffer!Room, Len(wire)}) :
          /\ Buffer!tryALine(Buffer!Kept \o SubSeq(wire, 1, n), Buffer!KeptCursor)
          /\ wire' = SubSeq(wire, n + 1, Len(wire))
    BY <1>2 DEF Buffer!Read
  <2>3. /\ BufferFits(Buffer!Kept \o SubSeq(wire, 1, n), Buffer!KeptCursor)
        /\ wire' \in Seq(Buffer!Bytes)
    BY <2>1, <2>2, ReadFits
  <2>4. returned \in Seq(Seq(Buffer!Bytes))
    BY DEF BufferInv
  <2>5. /\ bufferAt' \in {"cut", "read"} /\ BufferFits(buf', cur')
        /\ returned' \in Seq(Seq(Buffer!Bytes))
    BY <2>2, <2>3, <2>4, TryType
  <2>6. discarded' \subseteq 1 .. MAX_AT_RESPONSE
    BY <2>1, KeptFits
  <2>7. QED
    BY <2>1, <2>3, <2>5, <2>6 DEF BufferInv, BufferFits
<1>3. CASE Buffer!EndOfFile
  <2>1. /\ bufferAt' = "ended" /\ buf' = Buffer!Kept /\ cur' = Buffer!KeptCursor /\ wire' = << >>
        /\ Buffer!Discard /\ UNCHANGED <<session, sent, stream, returned>>
    BY <1>3 DEF Buffer!EndOfFile
  <2>2. BufferFits(buf', cur')
    BY <2>1, KeptFits
  <2>3. discarded' \subseteq 1 .. MAX_AT_RESPONSE
    BY <2>1, KeptFits
  <2>4. wire' \in Seq(Buffer!Bytes)
    BY <2>1, EmptySeq
  <2>5. QED
    BY <2>1, <2>2, <2>3, <2>4 DEF BufferInv, BufferFits
<1>4. CASE Buffer!Open
  <2>1. /\ session < MaxSessions /\ bufferAt' = "cut" /\ session' = session + 1
        /\ stream' = SubSeq(buf, cur + 1, Len(buf)) /\ returned' = << >> /\ discarded' = {}
        /\ UNCHANGED <<buf, cur, wire, sent>>
    BY <1>4 DEF Buffer!Open, Buffer!Rest
  <2>2. stream' \in Seq(Buffer!Bytes)
    <3>1. buf \in Seq(Buffer!Bytes) /\ cur \in 0 .. Len(buf)
      BY DEF BufferInv, BufferFits
    <3>2. QED
      BY <2>1, <3>1, Cutting
  <2>3. session' \in 1 .. MaxSessions
    BY <2>1, BufferBounds DEF BufferInv
  <2>4. returned' \in Seq(Seq(Buffer!Bytes)) /\ discarded' \subseteq 1 .. MAX_AT_RESPONSE
    BY <2>1, EmptySeq
  <2>5. QED
    BY <2>1, <2>2, <2>3, <2>4 DEF BufferInv, BufferFits
<1>5. ASSUME NEW m \in Messages \cup {Echo}, Buffer!Send(m) PROVE BufferInv'
  <2> DEFINE bytes == [i \in DOMAIN m |-> [char |-> m[i], of |-> session]]
  <2>1. /\ sent < MaxMessages /\ sent' = sent + 1
        /\ wire' = wire \o bytes /\ stream' = stream \o bytes
        /\ UNCHANGED <<bufferAt, buf, cur, session, returned, discarded>>
    BY <1>5 DEF Buffer!Send
  <2>2. bytes \in Seq(Buffer!Bytes)
    <3>1. session \in 1 .. MaxSessions
      BY DEF BufferInv
    <3>2. QED
      BY <3>1, SentBytes DEF bytes
  <2> HIDE DEF bytes
  <2>3. wire' \in Seq(Buffer!Bytes) /\ stream' \in Seq(Buffer!Bytes)
    BY <2>1, <2>2 DEF BufferInv
  <2>4. sent' \in 0 .. MaxMessages
    BY <2>1, BufferBounds DEF BufferInv
  <2>5. QED
    BY <2>1, <2>3, <2>4 DEF BufferInv, BufferFits
<1>6. QED
  BY <1>1, <1>2, <1>3, <1>4, <1>5, Zenon DEF Buffer!Next

LEMMA BufferTypes == Spec => []Buffer!TypeOK
<1>1. Init => BufferInv
  <2> SUFFICES ASSUME Init PROVE BufferInv
    OBVIOUS
  <2>1. /\ bufferAt = "cut" /\ buf = << >> /\ cur = 0 /\ wire = << >> /\ session = 1 /\ sent = 0
        /\ stream = << >> /\ returned = << >> /\ discarded = {}
    BY Zenon DEF Init, Buffer!Init
  <2>2. BufferFits(buf, cur)
    BY <2>1, EmptyFits
  <2>3. wire \in Seq(Buffer!Bytes) /\ stream \in Seq(Buffer!Bytes) /\ returned \in Seq(Seq(Buffer!Bytes))
    BY <2>1, EmptySeq
  <2>4. session \in 1 .. MaxSessions /\ sent \in 0 .. MaxMessages
    BY <2>1, BufferBounds
  <2>5. QED
    BY <2>1, <2>2, <2>3, <2>4 DEF BufferInv
<1>2. BufferInv /\ [Next]_vars => BufferInv'
  <2>1. ASSUME BufferInv, UNCHANGED lineVars PROVE BufferInv'
    BY <2>1 DEF lineVars, BufferInv, BufferFits
  <2>2. [Next]_vars => Buffer!Next \/ UNCHANGED lineVars
    BY DEF Next, vars, rilVars
  <2>3. QED
    BY <2>1, <2>2, BufferStep
<1>3. BufferInv => Buffer!TypeOK
  BY DEF BufferInv, BufferFits, Buffer!TypeOK
<1>4. QED
  BY <1>1, <1>2, <1>3, PTL DEF Spec

-----------------------------------------------------------------------------
(* The state of every program has its type.                                 *)
THEOREM ProgramsTypeCorrect == Spec => []TypeOK
<1>1. Init => EventInv
  BY EventInit
<1>2. EventInv /\ [Next]_vars => EventInv'
  BY EventStep
<1>3. Spec => []EventInv
  BY <1>1, <1>2, PTL DEF Spec
<1>4. EventInv => Events!TypeOK
  BY DEF EventInv
<1>5. SmsInv => Sms!TypeOK
  BY DEF SmsInv
<1>6. TypeOK <=> /\ Env!TypeOK /\ Gps!TypeOK /\ Sms!TypeOK /\ Events!TypeOK
                 /\ Modem!TypeOK /\ Ptt!TypeOK /\ Buffer!TypeOK
  BY DEF TypeOK
<1>7. QED
  BY <1>3, <1>4, <1>5, <1>6, SmsInvariant, EnvTypes, GpsTypes, ModemTypes, PttTypes, BufferTypes, PTL
=============================================================================
