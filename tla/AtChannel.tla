------------------------------ MODULE AtChannel ------------------------------
(***************************************************************************)
(* One session of the AT channel of libril (src/libril/atchannel.c), from  *)
(* the return of at_open to the end of both of its threads:                *)
(*                                                                         *)
(*   - the command thread (the queue runner of ril-core.c) and, once the   *)
(*     channel is the default one, any other thread that issues commands;  *)
(*   - the reader thread, which parses the lines the modem sends;          *)
(*   - the modem at the other end of the stream, an environment that       *)
(*     answers late, out of turn or never, sends unsolicited lines and     *)
(*     hangs up.                                                           *)
(*                                                                         *)
(* A step is what a thread does between two points where another thread    *)
(* can observe it: the acquisition of commandmutex, a wait on a condition  *)
(* variable, a system call on the descriptor or an unlocked access to a    *)
(* shared field.  Text is abstracted to the kind of the line and to the    *)
(* number of the command it answers (0 for an unsolicited line).           *)
(***************************************************************************)
EXTENDS Naturals, Sequences, FiniteSets

CONSTANTS
  Runner,          \* the queue runner's thread
  Others,          \* further threads that issue commands on the default channel
  Reader,          \* the reader thread of this session
  None,            \* no thread: a free mutex
  Ops,             \* the command wrappers the threads use
  Finals,          \* the final responses the modem gives
  Strays,          \* the kinds of unsolicited lines the modem may send
  MaxCalls,        \* bound, of each thread: calls of the wrappers
  MaxStrays,       \* bound: unsolicited lines in the session
  MaxSpurious,     \* bound: spurious wakeups of condition waits
  HandshakeTries   \* HANDSHAKE_RETRY_COUNT

Clients == {Runner} \cup Others
Threads == Clients \cup {Reader}

(* One wrapper of at_send_command_full each, and at_handshake. *)
AllOps == {"command", "raw", "numeric", "singleline", "multiline", "sms", "pdu"}

(* Unsolicited lines: an ordinary one, one that begins with the prefix the  *)
(* pending command expects, the NO CARRIER that s_finalResponsesError lists *)
(* with the comment "Sometimes!", and the first line of an SMS pair.        *)
AllStrays == {"urc", "prefixed", "NO CARRIER", "sms"}

ASSUME ThreadsAssumption ==
  /\ Runner \notin Others
  /\ Reader \notin Clients
  /\ None \notin Threads
  /\ IsFiniteSet(Others)

ASSUME BoundsAssumption ==
  /\ Ops \subseteq AllOps
  /\ Finals \subseteq {"OK", "ERROR"}
  /\ Strays \subseteq AllStrays
  /\ MaxCalls \in [Clients -> Nat]
  /\ MaxStrays \in Nat
  /\ MaxSpurious \in Nat
  /\ HandshakeTries \in Nat \ {0}

TypeOf(o) ==
  [handshake  |-> "NO_RESULT",  command |-> "NO_RESULT", pdu |-> "NO_RESULT",
   raw        |-> "RAW_RESULT", numeric |-> "NUMERIC",
   singleline |-> "SINGLELINE", sms     |-> "SINGLELINE",
   multiline  |-> "MULTILINE"][o]

HasPdu(o) == o \in {"sms", "pdu"}

(* Mutation of Timed: timeoutMsec left at the 0 of a zeroed context. *)
NeverTimed(o) == FALSE

(* at_send_command_raw passes timeoutMsec = 0: it waits for ever. *)
Timed(o) == o # "raw"

(* The wrappers that turn a successful answer without an intermediate line  *)
(* into AT_ERROR_INVALID_RESPONSE.                                          *)
NeedsInfo(o) == o \in {"numeric", "singleline", "sms"}

Line(k, id) == [kind |-> k, of |-> id]
NoLine == Line("none", 0)

LineKinds == {"none", "OK", "ERROR", "NO CARRIER", "info", "digits", "> ",
              "urc", "prefixed", "sms", "smsbody"}
Lines == [kind : LineKinds, of : Nat]

ResultTypes == {"NO_RESULT", "RAW_RESULT", "NUMERIC", "SINGLELINE", "MULTILINE"}

(* struct ATResponse with the type recorded beside it; of = 0 is NULL. *)
Responses == [of : Nat, type : ResultTypes, final : Lines, info : Seq(Lines)]
NoResponse == [of |-> 0, type |-> "NO_RESULT", final |-> NoLine, info |-> <<>>]

(* What the modem knows of a command. *)
Commands == [of : Nat, op : AllOps \cup {"handshake"},
             stage : {"new", "informed", "prompted", "pdu"}]

Codes == {"none", "OK", "TIMEOUT", "CHANNEL_CLOSED", "COMMAND_PENDING", "INVALID_RESPONSE"}
Outcomes == [of : Nat, code : Codes, final : Lines, info : Seq(Lines)]
NoOutcome == [of |-> 0, code |-> "none", final |-> NoLine, info |-> <<>>]

ClientPcs == {"opened", "idle", "lock", "try", "reqWait", "reqWake", "write",
              "respWait", "respWake", "respLate", "drain", "timeout",
              "close1", "close2", "close3", "done"}
ReaderPcs == {"read", "got", "gotSms", "eof", "eofLock", "callback",
              "close1", "close2", "close3", "done"}

VARIABLES
  pc,             \* where each thread is
  op,             \* the wrapper each client is in
  cmd,            \* the number of the command each client has written last
  outcome,        \* what the last call of each client returned
  phase,          \* the runner: "setup", "init" (modem_init) or "serve" (inner loop)
  tries,          \* attempts at_handshake has made
  cmdMutex,       \* ac->commandmutex: its holder or None
  reqMutex,       \* ac->requestmutex: its holder or None
  response,       \* ac->response, ac->type
  smsPDU,         \* ac->smsPDU: the command whose PDU it points to, 0 for NULL
  fd,             \* ac->fd: "open", "closed" (stale number) or "none" (-1)
  readerClosed,   \* ac->readerClosed
  callbacks,      \* onReaderClosed and onTimeout are registered
  queueClosed,    \* closed of the request queue: 0, 1 (stream closed), 2 (timeout)
  line,           \* the line the reader has read
  wire,           \* lines sent by the modem and not yet read
  modem,          \* commands the modem has received and not finished
  hungup,         \* the modem's end of the stream is gone
  calls,          \* calls of the wrappers each client has made
  sent,           \* number of commands written: the number of the last one
  strays,         \* number of unsolicited lines sent
  spurious,       \* number of spurious wakeups
  abandoned       \* commands whose caller returned without their own final response

clientVars  == <<op, cmd, outcome, phase, tries, calls>>
channelVars == <<response, smsPDU, readerClosed>>
modemVars   == <<modem, hungup, strays>>
mutexVars   == <<cmdMutex, reqMutex>>
linkVars    == <<fd, callbacks, queueClosed, line>>
ghostVars   == <<sent, spurious, abandoned>>
vars == <<pc, op, cmd, outcome, phase, tries, cmdMutex, reqMutex, response, smsPDU,
          fd, readerClosed, callbacks, queueClosed, line, wire, modem, hungup,
          calls, sent, strays, spurious, abandoned>>

Pending == response.of # 0

Init ==
  /\ pc = [t \in Threads |-> IF t = Runner THEN "opened"
                             ELSE IF t = Reader THEN "read" ELSE "idle"]
  /\ op = [c \in Clients |-> IF c = Runner THEN "handshake" ELSE "command"]
  /\ cmd = [c \in Clients |-> 0]
  /\ outcome = [c \in Clients |-> NoOutcome]
  /\ phase = "setup"
  /\ tries = 0
  /\ cmdMutex = None /\ reqMutex = None
  /\ response = NoResponse
  /\ smsPDU = 0
  /\ fd = "open"
  /\ readerClosed = FALSE
  /\ callbacks \in BOOLEAN      \* registered by the session before this one
  /\ queueClosed \in {1, 2}     \* why the session before this one ended
  /\ line = NoLine
  /\ wire = <<>>
  /\ modem = <<>>
  /\ hungup = FALSE
  /\ calls = [c \in Clients |-> 0] /\ sent = 0 /\ strays = 0 /\ spurious = 0
  /\ abandoned = {}

-----------------------------------------------------------------------------
(* Condition variables: a waiter has released commandmutex and must take it *)
(* again after it is woken.                                                 *)

SignalCommand(p) ==
  LET waiting == {c \in Clients : p[c] = "respWait"}
  IN  IF waiting = {} THEN {p} ELSE {[p EXCEPT ![c] = "respWake"] : c \in waiting}

(* Mutation of BroadcastRequest: the threads queued on requestcond stay there. *)
BroadcastNobody(p) == p

BroadcastRequest(p) ==
  [t \in Threads |-> IF p[t] = "reqWait" THEN "reqWake" ELSE p[t]]

-----------------------------------------------------------------------------
(* The command threads.                                                     *)

(* queueRunner registers its callbacks after at_open has started the reader. *)
SetCallbacks ==
  /\ pc[Runner] = "opened"
  /\ callbacks' = TRUE
  /\ pc' = [pc EXCEPT ![Runner] = "lock"]
  /\ UNCHANGED <<clientVars, mutexVars, channelVars, fd, queueClosed, line, wire, modemVars,
                 ghostVars>>

(* A thread calls one of the wrappers.  The runner does so in modem_init and *)
(* in the handlers of the requests, also after the queue has been closed     *)
(* under it; others find the channel once it is the default.                 *)
Call(c, o) ==
  /\ pc[c] = "idle"
  /\ c = Runner \/ phase = "serve"
  /\ calls[c] < MaxCalls[c]
  /\ calls' = [calls EXCEPT ![c] = @ + 1]
  /\ op' = [op EXCEPT ![c] = o]
  /\ pc' = [pc EXCEPT ![c] = "lock"]
  /\ outcome' = [outcome EXCEPT ![c] = NoOutcome]
  /\ UNCHANGED <<cmd, phase, tries, mutexVars, channelVars, linkVars, wire, modemVars,
                 ghostVars>>

Lock(c) ==
  /\ pc[c] = "lock"
  /\ cmdMutex = None
  /\ cmdMutex' = c
  /\ pc' = [pc EXCEPT ![c] = "try"]
  /\ UNCHANGED <<clientVars, reqMutex, channelVars, linkVars, wire, modemVars, ghostVars>>

(* pthread_mutex_trylock(requestmutex) says EBUSY: wait on requestcond. *)
TryBusy(c) ==
  /\ pc[c] = "try"
  /\ reqMutex # None
  /\ cmdMutex' = None
  /\ pc' = [pc EXCEPT ![c] = "reqWait"]
  /\ UNCHANGED <<clientVars, reqMutex, channelVars, linkVars, wire, modemVars, ghostVars>>

RequestRelock(c) ==
  /\ pc[c] = "reqWake"
  /\ cmdMutex = None
  /\ cmdMutex' = c
  /\ pc' = [pc EXCEPT ![c] = "try"]
  /\ UNCHANGED <<clientVars, reqMutex, channelVars, linkVars, wire, modemVars, ghostVars>>

(* What a caller does next with the result of at_send_command_full_nolock:   *)
(* at_handshake keeps commandmutex and tries again or pauses to drain the    *)
(* stream; at_send_command_full unlocks and reports a timeout.               *)
AfterAttempt(c, code) ==
  IF op[c] # "handshake" THEN IF code = "TIMEOUT" /\ callbacks THEN "timeout" ELSE "idle"
  ELSE IF code = "OK" THEN "drain"
  ELSE IF tries + 1 < HandshakeTries THEN "try" ELSE "close1"

(* The error label: clearPendingCommand, broadcast of requestcond, unlock of *)
(* requestmutex, and the caller's unlock of commandmutex.                    *)
Finish(c, code, answer) ==
  LET next == AfterAttempt(c, code)
  IN  /\ response' = NoResponse
      /\ smsPDU' = 0
      /\ reqMutex' = None
      /\ cmdMutex' = IF next \in {"try", "drain"} THEN c ELSE None
      /\ tries' = IF op[c] = "handshake" THEN tries + 1 ELSE tries
      /\ pc' = BroadcastRequest([pc EXCEPT ![c] = next])
      /\ outcome' = [outcome EXCEPT ![c] =
                       [of |-> cmd'[c], code |-> code,
                        final |-> answer.final, info |-> answer.info]]
      /\ UNCHANGED <<op, phase, calls, readerClosed, callbacks, queueClosed, line, hungup,
                     strays, spurious>>

(* requestmutex was free, but a command is pending, or writeline finds the   *)
(* channel closed.                                                           *)
TryRefused(c) ==
  /\ pc[c] = "try"
  /\ reqMutex = None
  /\ Pending \/ fd = "none" \/ readerClosed
  /\ cmd' = [cmd EXCEPT ![c] = 0]
  /\ Finish(c, IF Pending THEN "COMMAND_PENDING" ELSE "CHANNEL_CLOSED", NoResponse)
  /\ UNCHANGED <<fd, wire, modem, sent, abandoned>>

TryAcquire(c) ==
  /\ pc[c] = "try"
  /\ reqMutex = None
  /\ ~Pending
  /\ fd # "none" /\ ~readerClosed
  /\ reqMutex' = c
  /\ pc' = [pc EXCEPT ![c] = "write"]
  /\ UNCHANGED <<clientVars, cmdMutex, channelVars, linkVars, wire, modemVars, ghostVars>>

(* write() succeeds; the response is allocated and the wait begins. *)
Write(c) ==
  /\ pc[c] = "write"
  /\ fd = "open" /\ ~hungup
  /\ sent' = sent + 1
  /\ cmd' = [cmd EXCEPT ![c] = sent + 1]
  /\ modem' = Append(modem, [of |-> sent + 1, op |-> op[c], stage |-> "new"])
  /\ response' = [of |-> sent + 1, type |-> TypeOf(op[c]), final |-> NoLine, info |-> <<>>]
  /\ smsPDU' = IF HasPdu(op[c]) THEN sent + 1 ELSE 0
  /\ cmdMutex' = None
  /\ pc' = [pc EXCEPT ![c] = "respWait"]
  /\ UNCHANGED <<op, outcome, phase, tries, calls, reqMutex, readerClosed, linkVars, wire,
                 hungup, strays, spurious, abandoned>>

(* write() fails: writeline reports it as AT_ERROR_TIMEOUT. *)
WriteFails(c) ==
  /\ pc[c] = "write"
  /\ fd # "open" \/ hungup
  /\ cmd' = [cmd EXCEPT ![c] = 0]
  /\ Finish(c, "TIMEOUT", NoResponse)
  /\ UNCHANGED <<fd, wire, modem, sent, abandoned>>

(* pthread_cond_timedwait reaches its deadline. *)
Deadline(c) ==
  /\ pc[c] = "respWait"
  /\ Timed(op[c])
  /\ pc' = [pc EXCEPT ![c] = "respLate"]
  /\ UNCHANGED <<clientVars, mutexVars, channelVars, linkVars, wire, modemVars, ghostVars>>

SpuriousWakeup(c) ==
  /\ spurious < MaxSpurious
  /\ \/ pc[c] = "respWait" /\ pc' = [pc EXCEPT ![c] = "respWake"]
     \/ pc[c] = "reqWait"  /\ pc' = [pc EXCEPT ![c] = "reqWake"]
  /\ spurious' = spurious + 1
  /\ UNCHANGED <<clientVars, mutexVars, channelVars, linkVars, wire, modemVars, sent,
                 abandoned>>

(* Mutation of GiveUp: a return that skips clearPendingCommand. *)
GiveUpKeepsSlot(c) ==
  /\ pc[c] = "respLate"
  /\ cmdMutex = None
  /\ abandoned' = abandoned \cup {cmd[c]}
  /\ reqMutex' = None
  /\ pc' = BroadcastRequest([pc EXCEPT ![c] = AfterAttempt(c, "TIMEOUT")])
  /\ UNCHANGED <<clientVars, cmdMutex, channelVars, linkVars, wire, modemVars, sent, spurious>>

(* ETIMEDOUT is tested before the loop's condition: an answer that arrived   *)
(* between the deadline and the reacquisition of the mutex is dropped.       *)
GiveUp(c) ==
  /\ pc[c] = "respLate"
  /\ cmdMutex = None
  /\ abandoned' = abandoned \cup {cmd[c]}
  /\ UNCHANGED cmd
  /\ Finish(c, "TIMEOUT", NoResponse)
  /\ UNCHANGED <<fd, wire, modem, sent>>

WaitAgain(c) ==
  /\ pc[c] = "respWake"
  /\ cmdMutex = None
  /\ response.final = NoLine /\ ~readerClosed
  /\ pc' = [pc EXCEPT ![c] = "respWait"]
  /\ UNCHANGED <<clientVars, mutexVars, channelVars, linkVars, wire, modemVars, ghostVars>>

ReturnClosed(c) ==
  /\ pc[c] = "respWake"
  /\ cmdMutex = None
  /\ readerClosed
  /\ abandoned' = abandoned \cup {cmd[c]}
  /\ UNCHANGED cmd
  /\ Finish(c, "CHANNEL_CLOSED", NoResponse)
  /\ UNCHANGED <<fd, wire, modem, sent>>

ReturnAnswer(c) ==
  /\ pc[c] = "respWake"
  /\ cmdMutex = None
  /\ response.final # NoLine /\ ~readerClosed
  /\ UNCHANGED cmd
  /\ abandoned' = IF response.final.of = cmd[c] THEN abandoned ELSE abandoned \cup {cmd[c]}
  /\ IF NeedsInfo(op[c]) /\ response.final.kind = "OK" /\ response.info = <<>>
     THEN Finish(c, "INVALID_RESPONSE", NoResponse)
     ELSE Finish(c, "OK", response)
  /\ UNCHANGED <<fd, wire, modem, sent>>

(* at_handshake sleeps HANDSHAKE_TIMEOUT_MSEC with commandmutex held. *)
HandshakeDone ==
  /\ pc[Runner] = "drain"
  /\ cmdMutex' = None
  /\ phase' = "init"
  /\ pc' = [pc EXCEPT ![Runner] = "idle"]
  /\ UNCHANGED <<op, cmd, outcome, tries, calls, reqMutex, channelVars, linkVars, wire,
                 modemVars, ghostVars>>

(* onATTimeout: at_send_escape, then signalCloseQueues(2). *)
OnTimeout(c) ==
  /\ pc[c] = "timeout"
  /\ queueClosed' = 2
  /\ pc' = [pc EXCEPT ![c] = "idle"]
  /\ UNCHANGED <<clientVars, mutexVars, channelVars, fd, callbacks, line, wire, modemVars,
                 ghostVars>>

(* The end of the initialisation in queueRunner: q->closed = 0, then         *)
(* at_make_default_channel.                                                  *)
Serve ==
  /\ pc[Runner] = "idle"
  /\ phase = "init"
  /\ phase' = "serve"
  /\ queueClosed' = 0
  /\ UNCHANGED <<pc, op, cmd, outcome, tries, calls, mutexVars, channelVars, fd, callbacks,
                 line, wire, modemVars, ghostVars>>

(* Mutation of LeaveLoop: the loop ends for an EOF, not for a timeout. *)
LeaveLoopOnEof ==
  /\ pc[Runner] = "idle"
  /\ phase = "serve"
  /\ queueClosed = 1
  /\ pc' = [pc EXCEPT ![Runner] = "close1"]
  /\ UNCHANGED <<clientVars, mutexVars, channelVars, linkVars, wire, modemVars, ghostVars>>

(* The inner loop of queueRunner ends when it finds its queue closed. *)
LeaveLoop ==
  /\ pc[Runner] = "idle"
  /\ phase = "serve"
  /\ queueClosed # 0
  /\ pc' = [pc EXCEPT ![Runner] = "close1"]
  /\ UNCHANGED <<clientVars, mutexVars, channelVars, linkVars, wire, modemVars, ghostVars>>

-----------------------------------------------------------------------------
(* at_close, called by the runner and by the reader's callback.             *)

CloseFd(t) ==
  /\ pc[t] = "close1"
  /\ fd' = IF fd = "none" THEN fd ELSE "closed"
  /\ pc' = [pc EXCEPT ![t] = "close2"]
  /\ UNCHANGED <<clientVars, mutexVars, channelVars, callbacks, queueClosed, line, wire,
                 modemVars, ghostVars>>

ForgetFd(t) ==
  /\ pc[t] = "close2"
  /\ fd' = "none"
  /\ pc' = [pc EXCEPT ![t] = "close3"]
  /\ UNCHANGED <<clientVars, mutexVars, channelVars, callbacks, queueClosed, line, wire,
                 modemVars, ghostVars>>

CloseSignal(t) ==
  /\ pc[t] = "close3"
  /\ cmdMutex = None
  /\ readerClosed' = TRUE
  /\ pc' \in SignalCommand([pc EXCEPT ![t] = "done"])
  /\ UNCHANGED <<clientVars, mutexVars, response, smsPDU, linkVars, wire, modemVars,
                 ghostVars>>

-----------------------------------------------------------------------------
(* The reader thread.                                                       *)

(* readline returns the next line: of the first line of an SMS pair the     *)
(* reader keeps a copy and reads once more.                                 *)
ReadLine ==
  /\ pc[Reader] \in {"read", "gotSms"}
  /\ wire # <<>>
  /\ wire' = Tail(wire)
  /\ line' = Head(wire)
  /\ pc' = [pc EXCEPT ![Reader] =
              IF pc[Reader] = "gotSms" THEN "read"
              ELSE IF Head(wire).kind = "sms" THEN "gotSms" ELSE "got"]
  /\ UNCHANGED <<clientVars, mutexVars, channelVars, fd, callbacks, queueClosed, modemVars,
                 ghostVars>>

(* read() reports the end of the stream or an error. *)
ReadFails ==
  /\ pc[Reader] \in {"read", "gotSms"}
  /\ (hungup /\ wire = <<>>) \/ fd # "open"
  /\ pc' = [pc EXCEPT ![Reader] = "eof"]
  /\ UNCHANGED <<clientVars, mutexVars, channelVars, linkVars, wire, modemVars, ghostVars>>

(* Mutation of IsFinal: a terse (digit) result code ends the command. *)
IsFinalOrDigits(l) == l.kind \in {"OK", "ERROR", "NO CARRIER", "digits"}

IsFinal(l) == l.kind \in {"OK", "ERROR", "NO CARRIER"}

(* Mutation of TakenAsInfo: SINGLELINE does not compare the prefix. *)
TakenWithoutPrefix(l) ==
  \/ response.type \in {"RAW_RESULT", "SINGLELINE"} /\ response.info = <<>>
  \/ response.type = "NUMERIC"   /\ response.info = <<>> /\ l.kind = "digits"
  \/ response.type = "MULTILINE" /\ l.kind \in {"info", "prefixed"}

(* Does processLine store the line as an intermediate of the response? *)
TakenAsInfo(l) ==
  \/ response.type = "RAW_RESULT" /\ response.info = <<>>
  \/ response.type = "NUMERIC"    /\ response.info = <<>> /\ l.kind = "digits"
  \/ response.type = "SINGLELINE" /\ response.info = <<>> /\ l.kind \in {"info", "prefixed"}
  \/ response.type = "MULTILINE"  /\ l.kind \in {"info", "prefixed"}

(* processLine holds commandmutex from its first to its last statement. *)
ProcessFinal ==
  /\ pc[Reader] = "got"
  /\ cmdMutex = None
  /\ Pending
  /\ IsFinal(line)
  /\ response' = [response EXCEPT !.final = line]
  /\ pc' \in SignalCommand([pc EXCEPT ![Reader] = "read"])
  /\ UNCHANGED <<clientVars, mutexVars, smsPDU, readerClosed, linkVars, wire, modemVars,
                 ghostVars>>

(* writeCtrlZ writes the PDU unless the channel is closed. *)
ProcessPrompt ==
  /\ pc[Reader] = "got"
  /\ cmdMutex = None
  /\ Pending
  /\ smsPDU # 0
  /\ line.kind = "> "
  /\ smsPDU' = 0
  /\ modem' = IF fd = "open" /\ ~readerClosed
              THEN [i \in DOMAIN modem |->
                      IF i = 1 /\ modem[i].stage = "prompted"
                      THEN [modem[i] EXCEPT !.stage = "pdu"] ELSE modem[i]]
              ELSE modem
  /\ pc' = [pc EXCEPT ![Reader] = "read"]
  /\ UNCHANGED <<clientVars, mutexVars, response, readerClosed, linkVars, wire, hungup,
                 strays, ghostVars>>

ProcessInfo ==
  /\ pc[Reader] = "got"
  /\ cmdMutex = None
  /\ Pending
  /\ ~IsFinal(line) /\ ~(smsPDU # 0 /\ line.kind = "> ")
  /\ TakenAsInfo(line)
  /\ response' = [response EXCEPT !.info = Append(@, line)]
  /\ pc' = [pc EXCEPT ![Reader] = "read"]
  /\ UNCHANGED <<clientVars, mutexVars, smsPDU, readerClosed, linkVars, wire, modemVars,
                 ghostVars>>

(* Every other line goes to the unsolicited handler. *)
ProcessUnsolicited ==
  /\ pc[Reader] = "got"
  /\ cmdMutex = None
  /\ Pending => /\ ~IsFinal(line)
                /\ ~(smsPDU # 0 /\ line.kind = "> ")
                /\ ~TakenAsInfo(line)
  /\ pc' = [pc EXCEPT ![Reader] = "read"]
  /\ UNCHANGED <<clientVars, mutexVars, channelVars, linkVars, wire, modemVars, ghostVars>>

(* onReaderClosed tests the callback and readerClosed without the mutex. *)
TestClosed ==
  /\ pc[Reader] = "eof"
  /\ pc' = [pc EXCEPT ![Reader] = IF callbacks /\ ~readerClosed THEN "eofLock" ELSE "done"]
  /\ UNCHANGED <<clientVars, mutexVars, channelVars, linkVars, wire, modemVars, ghostVars>>

(* Mutation of MarkClosed: readerClosed is left for at_close to set. *)
MarkClosedLate ==
  /\ pc[Reader] = "eofLock"
  /\ cmdMutex = None
  /\ pc' \in SignalCommand([pc EXCEPT ![Reader] = "callback"])
  /\ UNCHANGED <<clientVars, mutexVars, channelVars, linkVars, wire, modemVars, ghostVars>>

MarkClosed ==
  /\ pc[Reader] = "eofLock"
  /\ cmdMutex = None
  /\ readerClosed' = TRUE
  /\ pc' \in SignalCommand([pc EXCEPT ![Reader] = "callback"])
  /\ UNCHANGED <<clientVars, mutexVars, response, smsPDU, linkVars, wire, modemVars,
                 ghostVars>>

(* Mutation of OnReaderClosed: the reasons for closing add up. *)
OnReaderClosedAdds ==
  /\ pc[Reader] = "callback"
  /\ queueClosed' = queueClosed + 1
  /\ pc' = [pc EXCEPT ![Reader] = "close1"]
  /\ UNCHANGED <<clientVars, mutexVars, channelVars, fd, callbacks, line, wire, modemVars,
                 ghostVars>>

(* onATReaderClosed: signalCloseQueues(1), then at_close on this thread. *)
OnReaderClosed ==
  /\ pc[Reader] = "callback"
  /\ queueClosed' = 1
  /\ pc' = [pc EXCEPT ![Reader] = "close1"]
  /\ UNCHANGED <<clientVars, mutexVars, channelVars, fd, callbacks, line, wire, modemVars,
                 ghostVars>>

-----------------------------------------------------------------------------
(* The modem, an environment modelled from what the channel accepts.        *)

InfoKind(o) == IF o = "numeric" THEN "digits" ELSE "info"

ModemInfo ==
  /\ ~hungup /\ modem # <<>>
  /\ \/ Head(modem).op \in {"raw", "numeric", "singleline", "multiline"} /\ Head(modem).stage = "new"
     \/ Head(modem).op = "sms" /\ Head(modem).stage = "pdu"
  /\ wire' = Append(wire, Line(InfoKind(Head(modem).op), Head(modem).of))
  /\ modem' = [modem EXCEPT ![1].stage = "informed"]
  /\ UNCHANGED <<pc, clientVars, mutexVars, channelVars, linkVars, hungup, strays,
                 ghostVars>>

ModemPrompt ==
  /\ ~hungup /\ modem # <<>>
  /\ HasPdu(Head(modem).op) /\ Head(modem).stage = "new"
  /\ wire' = Append(wire, Line("> ", Head(modem).of))
  /\ modem' = [modem EXCEPT ![1].stage = "prompted"]
  /\ UNCHANGED <<pc, clientVars, mutexVars, channelVars, linkVars, hungup, strays,
                 ghostVars>>

ModemFinal(k) ==
  /\ ~hungup /\ modem # <<>>
  /\ wire' = Append(wire, Line(k, Head(modem).of))
  /\ modem' = Tail(modem)
  /\ UNCHANGED <<pc, clientVars, mutexVars, channelVars, linkVars, hungup, strays,
                 ghostVars>>

(* A command lost, or aborted by the escape of onATTimeout. *)
ModemDrops ==
  /\ modem # <<>>
  /\ modem' = Tail(modem)
  /\ UNCHANGED <<pc, clientVars, mutexVars, channelVars, linkVars, wire, hungup, strays,
                 ghostVars>>

ModemStray(k) ==
  /\ ~hungup
  /\ strays < MaxStrays
  /\ strays' = strays + 1
  /\ wire' = wire \o (IF k = "sms" THEN <<Line("sms", 0), Line("smsbody", 0)>>
                      ELSE <<Line(k, 0)>>)
  /\ UNCHANGED <<pc, clientVars, mutexVars, channelVars, linkVars, modem, hungup,
                 ghostVars>>

HangUp ==
  /\ ~hungup
  /\ hungup' = TRUE
  /\ UNCHANGED <<pc, clientVars, mutexVars, channelVars, linkVars, wire, modem, strays,
                 ghostVars>>

-----------------------------------------------------------------------------

Locking(c) == Lock(c) \/ RequestRelock(c) \/ TryBusy(c) \/ TryRefused(c)
              \/ TryAcquire(c) \/ Write(c) \/ WriteFails(c)
Waiting(c) == GiveUp(c) \/ WaitAgain(c) \/ ReturnClosed(c) \/ ReturnAnswer(c)
Closing(t) == CloseFd(t) \/ ForgetFd(t) \/ CloseSignal(t)

RunnerSteps == SetCallbacks \/ HandshakeDone \/ Serve \/ LeaveLoop \/ Closing(Runner)
ClientSteps(c) == Locking(c) \/ Waiting(c) \/ OnTimeout(c)
ReaderSteps == ReadLine \/ ReadFails \/ ProcessFinal \/ ProcessPrompt \/ ProcessInfo
               \/ ProcessUnsolicited \/ TestClosed \/ MarkClosed \/ OnReaderClosed
               \/ Closing(Reader)
ModemSteps == ModemInfo \/ ModemPrompt \/ ModemDrops \/ HangUp
              \/ (\E k \in Finals : ModemFinal(k))
              \/ (\E k \in Strays : ModemStray(k))

(* Nothing left to do: every thread has ended or waits for a request. *)
Quiescent ==
  /\ \A t \in Threads : pc[t] \in {"idle", "done"}
  /\ UNCHANGED vars

Next ==
  \/ RunnerSteps
  \/ \E c \in Clients : ClientSteps(c) \/ Deadline(c) \/ SpuriousWakeup(c)
  \/ \E c \in Clients, o \in Ops : Call(c, o)
  \/ ReaderSteps
  \/ ModemSteps
  \/ Quiescent

Spec == Init /\ [][Next]_vars

(* The scheduler runs every thread that can take a step and lets deadlines  *)
(* pass; the reader is woken by data and by a hangup, but not by the close  *)
(* of the descriptor it blocks on.  Nothing is asked of the modem, and no   *)
(* thread has to issue a command.                                           *)
Awake == pc[Reader] \in {"read", "gotSms"} => wire # <<>> \/ hungup

Fairness ==
  /\ WF_vars(RunnerSteps)
  /\ \A c \in Clients : WF_vars(ClientSteps(c)) /\ WF_vars(Deadline(c))
  /\ WF_vars(Awake /\ ReaderSteps)

FairSpec == Spec /\ Fairness

-----------------------------------------------------------------------------
(* Properties.                                                              *)

InFlight == {"respWait", "respWake", "respLate"}

(* The fields of the AT context hold values the C types allow. *)
TypeOK ==
  /\ pc \in [Threads -> ClientPcs \cup ReaderPcs]
  /\ pc[Reader] \in ReaderPcs /\ \A c \in Clients : pc[c] \in ClientPcs
  /\ op \in [Clients -> AllOps \cup {"handshake"}]
  /\ cmd \in [Clients -> Nat]
  /\ outcome \in [Clients -> Outcomes]
  /\ phase \in {"setup", "init", "serve"}
  /\ tries \in Nat
  /\ cmdMutex \in Threads \cup {None}
  /\ reqMutex \in Clients \cup {None}
  /\ response \in Responses
  /\ smsPDU \in Nat
  /\ fd \in {"open", "closed", "none"}
  /\ readerClosed \in BOOLEAN /\ callbacks \in BOOLEAN /\ hungup \in BOOLEAN
  /\ queueClosed \in 0 .. 2
  /\ line \in Lines
  /\ wire \in Seq(Lines)
  /\ modem \in Seq(Commands)
  /\ calls \in [Clients -> Nat] /\ strays \in 0 .. MaxStrays /\ spurious \in 0 .. MaxSpurious
  /\ sent \in Nat
  /\ abandoned \subseteq Nat

(* The pending slot (response, type, responsePrefix, smsPDU) always belongs *)
(* to the thread that holds requestmutex and is inside its wait: no other   *)
(* thread's command can be answered, cleared or freed through it, and the   *)
(* reader never writes a PDU of a caller that has returned.                 *)
ResponseOwned ==
  /\ Pending => /\ reqMutex \in Clients
                /\ pc[reqMutex] \in InFlight
                /\ cmd[reqMutex] = response.of
  /\ smsPDU # 0 => smsPDU = response.of

(* AT_ERROR_COMMAND_PENDING is never returned: its path would clear the     *)
(* slot of the thread that owns it.                                         *)
NeverCommandPending == \A c \in Clients : outcome[c].code # "COMMAND_PENDING"

(* The answer a call returns consists of lines the modem sent for that very *)
(* command.  The exceptions are the ones the parser cannot tell apart: late *)
(* lines of a command abandoned before, a stray NO CARRIER, and an          *)
(* unsolicited line with the expected prefix (any, for a raw command).     *)
AnswerIsMine ==
  \A c \in Clients :
    LET o == outcome[c] IN
    o.code = "OK" =>
      /\ o.final.of \in abandoned \cup {o.of} \/ o.final = Line("NO CARRIER", 0)
      /\ \A i \in DOMAIN o.info :
           \/ o.info[i].of \in abandoned \cup {o.of}
           \/ o.info[i].kind = "prefixed"
           \/ op[c] = "raw" /\ o.info[i].of = 0

(* A command's own final response, not yet collected by its caller, is      *)
(* replaced only by a stray NO CARRIER or by the late answer of an          *)
(* abandoned command: processLine does not test whether it has one.         *)
FinalStable ==
  [][(response.final # NoLine /\ response'.of = response.of /\ Pending) =>
       \/ response'.final = response.final
       \/ response'.final.of \in abandoned
       \/ response'.final = Line("NO CARRIER", 0)
       \/ response.final.of # response.of]_vars

(* The runner never writes to a descriptor that has been closed under it.   *)
RunnerWritesOpenFd == pc[Runner] = "write" => fd = "open"

(* A command that was written returns whatever the modem does, unless it is *)
(* a raw one: every other is given a timeout.  (One that still waits for    *)
(* the slot of a raw command has none.)                                     *)
TimedCallReturns ==
  \A c \in Clients : (pc[c] \in InFlight /\ op[c] # "raw") ~> (pc[c] \notin InFlight)

(* When the channel closes every call returns: the one that waits for the   *)
(* modem, also without a timeout, and those queued behind it.               *)
CloseReleasesCallers ==
  \A c \in Clients :
    (readerClosed /\ pc[c] \in InFlight \cup {"lock", "reqWait", "reqWake"})
      ~> (pc[c] \in {"idle", "done"})

(* The runner waits, for its own answer or behind another thread, for a raw *)
(* command, which has no timeout and which the modem has not answered.      *)
HeldUpByRaw ==
  /\ pc[Runner] \in {"respWait", "reqWait"}
  /\ reqMutex \in Clients /\ pc[reqMutex] = "respWait" /\ op[reqMutex] = "raw"

(* Once the inner loop runs, a close signalled to the queue ends the        *)
(* session, whoever else uses the channel, unless a raw command holds the   *)
(* runner up: its own, or that of a thread that has the slot before it.     *)
ServedSessionEnds ==
  (phase = "serve" /\ queueClosed # 0) ~> (pc[Runner] = "done" \/ HeldUpByRaw)

(* Refuted, see README: the pause of at_handshake drains the unmatched OKs, *)
(* so that no later command is completed by the OK of a handshake attempt.  *)
HandshakeDrained ==
  \A c \in Clients :
    (op[c] # "handshake" /\ outcome[c].code = "OK") => outcome[c].final.of \notin 1 .. tries

(* Refuted, see README: a close reported by the reader is acted upon.       *)
ClosedSessionEnds == (pc[Reader] = "callback") ~> (pc[Runner] = "done")

=============================================================================
