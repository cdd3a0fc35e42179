---------------------------- MODULE HandlerCode ----------------------------
(***************************************************************************)
(* The vocabulary in which the request handlers of libril are written.     *)
(* A handler of src/libril is a C function that sends AT commands, reads    *)
(* their answers, and calls RIL_onRequestComplete; what it does with the    *)
(* pointers it was given on the way is where it goes wrong.  A handler is   *)
(* a record of blocks, one per label of the C function ("main" is its       *)
(* body); a block is a sequence of steps, and running off its end is the    *)
(* return of the function.  The steps are given a meaning by HandlerRun.    *)
(*                                                                          *)
(* The variables of a handler are the pointers to what the heap holds for   *)
(* it: the responses of at_send_command*, and the buffers that outlive a    *)
(* branch.  A buffer that is allocated and freed with no branch between     *)
(* is left out.                                                             *)
(***************************************************************************)
EXTENDS Sequences, FiniteSets, Naturals

(***************************************************************************)
(* The models of rilhw->model that the handlers tell apart; "other" stands  *)
(* for every model they treat by default.                                   *)
(***************************************************************************)
Models == {"MF210", "MC2716", "AD3812", "M305", "MC8630", "EM350", "other"}
CDMA   == {"MC2716", "MC8630"}

Labels == {"main", "error", "finally", "next", "other"}
Vars   == {"r", "s", "t", "cmd", "buf"}
NoVar  == "NULL"

Step(op, v, l, among) == [op |-> op, var |-> v, to |-> l, among |-> among]

\* at_send_command_singleline, _numeric, _sms: success comes with a line
Ask(v)  == Step("ask", v, "main", {})
\* at_send_command, _multiline, _with_pdu: success may come without
Do(v)   == Step("do", v, "main", {})
\* at_send_command_raw: the same, and it waits for ever
Raw(v)  == Step("raw", v, "main", {})
\* the answer is not looked at, and no response is asked for
Tell    == Do(NoVar)
\* goto l unless the last command was answered by one of among
Unless(among, l) == Step("unless", NoVar, l, among)
OrFail  == Unless({"ok"}, "error")               \* err < 0 || success == 0
OrLost  == Unless({"ok", "refused"}, "error")    \* err < 0
\* goto l if the last command was answered by one of among
IfAnswered(among, l) == Unless({"ok", "refused", "lost"} \ among, l)

\* the tokens of the first line: p_intermediates->line is read, and a
\* token that is missing goes to the label
ParseTo(v, l) == Step("parse", v, l, {})
Parse(v)      == ParseTo(v, "error")
\* the first line is read and its tokens are not checked
Read(v)       == Step("read", v, "main", {})
\* a loop over p_intermediates, of which there may be none
Scan(v)       == Step("scan", v, "error", {})
\* goto l unless p_intermediates is there
Lined(v, l)   == Step("lined", v, l, {})
\* what v points to is read: the response itself, or a string
Look(v)       == Step("look", v, "main", {})

Make(v) == Step("make", v, "main", {})           \* malloc, asprintf, strdup
Free(v) == Step("free", v, "main", {})           \* at_response_free, free
Shed(v) == Step("shed", v, "main", {})           \* free() of a whole response
Null(v) == Step("null", v, "main", {})           \* v = NULL
Wild(v) == Step("wild", v, "main", {})           \* v declared, not initialised
Shift(v) == Step("shift", v, "main", {})         \* v moved on inside its buffer

\* a token that may be missing is read without a test: t stands for it
Missing       == <<Null("t"), Look("t")>>

Done        == Step("answer", NoVar, "main", {}) \* RIL_onRequestComplete
Fail        == Step("answer", NoVar, "main", {}) \* with an error code
DoneWith(v) == Step("answer", v, "main", {})     \* with data that points into v
                                                 \* (a line of it, when it is a response)
\* a call of another function of the table; what it returns is a Maybe.
\* It runs on the same variables, so that a function that is called has
\* names of its own for its locals, and sets them as their declaration does.
Call(f)  == Step("call", f, "main", {})
\* a condition on the data of the request or on the state of the library
Maybe(l) == Step("maybe", NoVar, l, {})
Goto(l)  == Step("goto", NoVar, l, {})

(***************************************************************************)
(* Shapes that many handlers share: one question whose line is parsed, and  *)
(* one command whose refusal is reported.  Where the code frees before it   *)
(* answers or after makes no difference unless the answer points into the   *)
(* response.                                                                *)
(***************************************************************************)
Only(steps)  == [main |-> steps]
Query        == [main  |-> <<Ask("r"), OrFail, Parse("r"), Done, Free("r")>>,
                 error |-> <<Fail, Free("r")>>]
Command      == [main  |-> <<Do("r"), OrFail, Done, Free("r")>>,
                 error |-> <<Fail, Free("r")>>]
Unsupported  == Only(<<Fail>>)

(***************************************************************************)
(* The discipline of most handlers.  One command of the body, at place k,   *)
(* leaves a response, or none does and k is 0; its outcome is looked at in  *)
(* the next step, and only then its lines are read; every block answers     *)
(* once and frees the response once, and does nothing else from then on.    *)
(***************************************************************************)
Jumps  == {"unless", "maybe", "goto", "lined", "parse", "scan"}
Ending == {"answer", "free"}
Asking == {"ask", "do", "raw"}

Once(b, op)     == \E i \in DOMAIN b : b[i].op = op /\ \A j \in DOMAIN b : b[j].op = op => j = i
Looked(k, l, i) == l = "main" /\ k > 0 /\ i > k + 1
\* the answer was looked at in a way that leaves none but those with a line
HasLine(c, k)   == c["main"][k].op = "ask" /\ c["main"][k + 1].among = {"ok"}

Allowed(c, k, l, i) ==
    LET s == c[l][i]
    IN  /\ s.op \in Ending \cup Asking \cup {"unless", "maybe", "goto", "parse", "read", "scan", "look"}
        /\ s.op \in Jumps => s.to # "main"
        /\ s.op \in Asking => s.var = IF l = "main" /\ i = k THEN "r" ELSE NoVar
        /\ s.op \in {"parse", "read", "scan", "look"} => s.var = "r" /\ Looked(k, l, i)
        /\ s.op \in {"parse", "read"} => HasLine(c, k)
        /\ s.op = "answer" =>
              \/ s.var = NoVar
              \/ s.var = "r" /\ Looked(k, l, i) /\ \A j \in DOMAIN c[l] : j < i => c[l][j].op # "free"
        /\ s.op = "free" => s.var = "r"
        /\ s.op \in Ending => \A j \in DOMAIN c[l] : j > i => c[l][j].op \in Ending

OneResponse(c, k) ==
    /\ k > 0 => /\ k + 1 \in DOMAIN c["main"] /\ c["main"][k].op \in Asking
                /\ c["main"][k + 1].op = "unless"
                /\ c["main"][k + 1].among \subseteq {"ok", "refused"}
    /\ \A l \in DOMAIN c :
          /\ \A i \in DOMAIN c[l] : Allowed(c, k, l, i)
          /\ Once(c[l], "answer") /\ (k > 0 => Once(c[l], "free"))

Disciplined(c) == \E k \in 0 .. Len(c["main"]) : OneResponse(c, k)
=============================================================================
