---------------------------- MODULE CoreHandlers ----------------------------
(***************************************************************************)
(* What src/libril/ril-core.c, ril-pdp.c and ril-pdp-em350.c do with        *)
(* responses and buffers: the functions handlers share, the data call list, *)
(* the debug requests, and onUnsolicited, which runs on the reader's thread *)
(* and may send no command.  The life of a data call is in DataCall.        *)
(***************************************************************************)
EXTENDS HandlerCode

\* The EM350 asks three questions of one variable and frees it after each,
\* whatever became of the command.  A run of commands whose answers nobody
\* looks at is one Tell.
modem_init(hw) ==
    CASE hw \in CDMA   -> Only(<<Tell>>)
      [] hw = "EM350"  ->
            [main |-> <<Null("s"), Tell, Do("s"), IfAnswered({"ok"}, "next"), Tell, Goto("next")>>,
             next |-> <<Free("s"), Tell, Ask("s"), Free("s"), Ask("s"), Free("s"), Tell>>]
      [] OTHER         ->
            [main |-> <<Null("s"), Tell, Do("s"), IfAnswered({"ok"}, "next"), Tell, Goto("next")>>,
             next |-> <<Free("s"), Tell>>]

setPreferredMessageStorage(hw) ==
    [main |-> <<Null("s"), Ask("s"), Unless({"ok"}, "next"), ParseTo("s", "next"), Done,
                Goto("next")>>,
     next |-> <<Free("s")>>]

\* an event: the signal is reported whatever the modem said
onRssiChanged(hw) ==
    [main |-> <<Ask("r"), Unless({"ok"}, "next"), ParseTo("r", "next"), Goto("next")>>,
     next |-> <<Free("r"), Done>>]

requestDebug(hw) ==
    [main  |-> <<Maybe("other"), Raw("r"), OrLost, Done, Free("r")>>,
     other |-> <<Fail>>,
     error |-> <<Fail, Free("r")>>]

\* at_tok_start moves line on, or sets it to NULL when there is no colon;
\* then line is freed.  One command of ptt.c stands for the seven.
pttDebug(hw) ==
    [main  |-> <<Make("buf"), Maybe("other"), Shift("buf"), Maybe("error"), Maybe("next"),
                 Call("hangup_ptt_group_p2p_call"), Goto("error")>>,
     next  |-> <<Call("ptt_log_start"), Goto("error")>>,
     other |-> <<Null("buf"), Goto("error")>>,
     error |-> <<Free("buf"), Done>>]

(***************************************************************************)
(* Data calls                                                               *)
(***************************************************************************)
\* The list of a CDMA model is made of what the library keeps.  Without a
\* request the list is reported, and that counts as its answer.
requestOrSendPDPContextList(hw) ==
    CASE hw = "EM350"  -> Only(<<Call("requestDataCallListEM350")>>)
      [] hw \in CDMA   -> Only(<<Make("buf"), DoneWith("buf"), Free("buf")>>)
      [] OTHER         ->
            [main    |-> <<Do("r"), OrFail, Maybe("finally"), Scan("r"), Free("r"), Null("r"),
                           Do("r"), OrFail, Scan("r"), Goto("finally")>>,
             finally |-> <<Done, Free("r")>>,
             error   |-> <<Fail, Free("r")>>]

onDataCallListChanged(hw) == Only(<<Call("requestOrSendPDPContextList")>>)
requestDataCallList(hw) ==
    IF hw = "EM350" THEN Only(<<Call("requestDataCallListEM350")>>)
    ELSE requestOrSendPDPContextList(hw)
requestLastDataCallFailCause(hw) == Only(<<Done>>)
requestScreenState(hw)           == Only(<<Done>>)

\* The address and the second name server may be missing from the line; the
\* pointers to them are used all the same.
requestDataCallListEM350(hw) ==
    [main  |-> <<Null("r"), Ask("r"), OrFail, Parse("r"), Maybe("other"),
                 Make("buf"), DoneWith("buf"), Free("r"), Free("buf")>>,
     other |-> Missing,
     error |-> <<Free("r"), Fail>>]

ndis_stat_query(hw) ==
    [main |-> <<Wild("t"), Ask("t"), Unless({"ok"}, "next"), ParseTo("t", "next"), Goto("next")>>,
     next |-> <<Free("t")>>]

\* The state is polled ten times in the code, twice here.
requestSetupDataCallEM350(hw) ==
    LET poll == <<Call("ndis_stat_query"), Maybe("finally")>>
    IN  [main    |-> <<Wild("s"), Call("ndis_stat_query"), Maybe("next"), Tell, Goto("next")>>,
         next    |-> <<Do("s"), OrFail, Free("s")>> \o poll \o poll \o <<Tell, Goto("error")>>,
         finally |-> <<Call("requestDataCallListEM350")>>,
         error   |-> <<Fail>>]

requestDeactivateDataCallEM350(hw) == Only(<<Tell, Done>>)

\* ptt.c: the log the debug request starts
ptt_log_start(hw) ==
    [main  |-> <<Null("s"), Ask("s"), OrFail, Parse("s"), Maybe("other"), Goto("error")>>,
     other |-> Missing,
     error |-> <<Free("s")>>]

(***************************************************************************)
(* onUnsolicited: one operator per kind of line.  The line is copied, the   *)
(* copy is tokenized, the event is reported and the copy is freed; three    *)
(* branches tokenize through the only pointer to the copy they have.        *)
(***************************************************************************)
Reported == Only(<<Done>>)
Copied   == Only(<<Make("buf"), Done, Free("buf")>>)
Moved    == [main |-> <<Make("buf"), Shift("buf"), Maybe("next"), Done, Goto("next")>>,
             next |-> <<Free("buf")>>]

NitzTime(hw)            == Moved                      \* %CTZV:
CallStateChanged(hw)    == Reported                   \* RING, +CRING:, ^CONN ...
NetworkStateChanged(hw) == Reported                   \* +CREG:, +CGREG:, ^MODE: ...
SmsStored(hw)           == IF hw \in CDMA THEN Moved ELSE Copied   \* +CMTI:
SmsReported(hw)         == Reported                   \* ^HCMT:, +CMGR:, +CMGL:
RssiReport(hw)          == Copied                     \* ^RSSI:
PttGroupReport(hw)      == Copied                     \* +CGAL:, +CAPTTG:, +CSIND:
PttCallReport(hw)       == Copied                     \* +CTICN:, +CTCC:, +CTGR:, +CTCR:
PttStateReport(hw)      == Copied                     \* ^CPTTINFO:, +CTBI:
PttSceneReport(hw)      == Copied                     \* +CTOCP:
PttGroupsChanged(hw)    == [main |-> <<Make("buf"), Maybe("other"), Done, Free("buf")>>,
                            other |-> Missing]        \* +CGIU:
Dormant(hw)             == Moved                      \* ^DSDORMANT
CellReport(hw)          == Copied                     \* +CCED:, ^JOININD:, +CDINFO: ...

CoreTable(hw) ==
    [requestDebug         |-> requestDebug(hw),
     pttDebug             |-> pttDebug(hw),
     requestDataCallList  |-> requestDataCallList(hw),
     requestLastDataCallFailCause |-> requestLastDataCallFailCause(hw),
     requestScreenState   |-> requestScreenState(hw)]

\* what the two requests for a data call are on this model
EM350Table(hw) ==
    [requestSetupDataCallEM350      |-> requestSetupDataCallEM350(hw),
     requestDeactivateDataCallEM350 |-> requestDeactivateDataCallEM350(hw)]

CoreEvents(hw) ==
    [onRssiChanged         |-> onRssiChanged(hw),
     onDataCallListChanged |-> onDataCallListChanged(hw)]

Unsolicited(hw) ==
    [NitzTime            |-> NitzTime(hw),
     CallStateChanged    |-> CallStateChanged(hw),
     NetworkStateChanged |-> NetworkStateChanged(hw),
     SmsStored           |-> SmsStored(hw),
     SmsReported         |-> SmsReported(hw),
     RssiReport          |-> RssiReport(hw),
     PttGroupReport      |-> PttGroupReport(hw),
     PttCallReport       |-> PttCallReport(hw),
     PttStateReport      |-> PttStateReport(hw),
     PttSceneReport      |-> PttSceneReport(hw),
     PttGroupsChanged    |-> PttGroupsChanged(hw),
     Dormant             |-> Dormant(hw),
     CellReport          |-> CellReport(hw)]

CoreCalls(hw) ==
    [modem_init                  |-> modem_init(hw),
     setPreferredMessageStorage  |-> setPreferredMessageStorage(hw),
     requestOrSendPDPContextList |-> requestOrSendPDPContextList(hw),
     requestDataCallListEM350    |-> requestDataCallListEM350(hw),
     ndis_stat_query             |-> ndis_stat_query(hw),
     ptt_log_start               |-> ptt_log_start(hw)]
=============================================================================
