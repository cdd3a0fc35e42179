---------------------------- MODULE CallHandlers ----------------------------
(***************************************************************************)
(* The handlers of src/libril/ril-call.c and src/libril/ptt.c.  A push-to-  *)
(* talk model (EM350) takes its calls through ptt.c.                        *)
(***************************************************************************)
EXTENDS HandlerCode

\* The response of the AD3812 is given to free, not to at_response_free.
HangupWith(hw) ==
    Only((CASE hw = "EM350"  -> <<Call("hangup_ptt_group_p2p_call")>>
            [] hw = "AD3812" -> <<Do("r")>>
            [] OTHER         -> <<Tell>>) \o <<Shed("r"), Done>>)

requestHangupWaitingOrBackground(hw)       == HangupWith(hw)
requestHangupForegroundResumeBackground(hw) == HangupWith(hw)
requestSwitchWaitingOrHoldingAndActive(hw) == HangupWith(hw)
requestConference(hw)                      == Only(<<Do("r"), Shed("r"), Done>>)

requestSeparateConnection(hw) == [main |-> <<Maybe("other"), Tell, Done>>, other |-> <<Fail>>]
requestExplicitCallTransfer(hw) == Only(<<Tell, Done>>)
\* a mutant: the request is not completed
requestUDUBSilent(hw)           == Only(<<Tell>>)
requestUDUB(hw)                 == Only(<<Tell, Done>>)
requestSetMute(hw)              == Only(<<Tell, Done>>)

requestGetMute(hw) ==
    [main  |-> <<Wild("r"), Ask("r"), OrFail, Parse("r"), Done, Free("r")>>,
     error |-> <<Fail, Free("r")>>]

requestLastCallFailCause(hw) == Only(<<Done>>)

\* the call that is current is in memory: there is no command for it
requestGetCurrentCallsPTT(hw) == Only(<<Done>>)

\* a line that does not parse is skipped
requestGetCurrentCalls(hw) ==
    IF hw = "EM350" THEN requestGetCurrentCallsPTT(hw)
    ELSE [main  |-> <<Wild("r"), Do("r"), OrFail, Look("r"), DoneWith("r"), Free("r")>>,
          error |-> <<Fail, Free("r")>>]

requestDial(hw) ==
    Only((IF hw = "EM350" THEN <<Call("request_ptt_group_p2p_call2")>> ELSE <<Tell>>)
         \o <<Done>>)

requestAnswer(hw) == Command

\* the AD3812 falls through from AT+CHLD into ATH
requestHangup(hw) ==
    Only((CASE hw = "EM350"  -> <<Call("hangup_ptt_group_p2p_call")>>
            [] hw = "AD3812" -> <<Tell, Tell>>
            [] OTHER         -> <<Tell>>) \o <<Done>>)

requestDTMF(hw)      == Only(<<Tell, Done>>)
requestDTMFStart(hw) == Only(<<Tell, Tell, Done>>)
requestDTMFStop(hw)  == Only(<<Tell, Done>>)
requestCDMADTMF(hw)  == Only(<<Tell, Done>>)

\* ptt.c: the functions the handlers above call, then its own handlers
PttCommand == [main  |-> <<Null("s"), Do("s"), OrFail, Goto("error")>>,
               error |-> <<Free("s")>>]
request_ptt_group_p2p_call2(hw) == PttCommand
hangup_ptt_group_p2p_call(hw)   == PttCommand

\* parse_cgiu goes on past a semicolon that may not be there
requestPttQueryAvailableGroups(hw) ==
    [main  |-> <<Ask("r"), OrFail, Read("r"), Maybe("other"), Free("r"), Done>>,
     other |-> Missing,
     error |-> <<Free("r"), Fail>>]

requestPttGroupSetup(hw)   == [Command EXCEPT !.main = <<Do("r"), OrFail, Free("r"), Done>>]
requestPttGroupRelease(hw) == [Command EXCEPT !.main = <<Do("r"), OrFail, Free("r"), Done>>]
requestPttCallDial(hw)     == [Command EXCEPT !.main = <<Do("r"), OrFail, Free("r"), Done>>]
requestPttCallHangup(hw)   == [Command EXCEPT !.main = <<Do("r"), OrFail, Free("r"), Done>>]
requestPttCurrentGroupScanlistUpdate(hw) ==
    [Command EXCEPT !.main = <<Do("r"), OrFail, Free("r"), Done>>]
requestPttQueryBlockedIndicator(hw) ==
    [Query EXCEPT !.main = <<Ask("r"), OrFail, Parse("r"), Free("r"), Done>>]
requestPttDeviceInfo(hw) ==
    [Query EXCEPT !.main = <<Ask("r"), OrFail, Parse("r"), Free("r"), Done>>]

\* parse_pttinfo copies the names, so that the answer does not point into
\* the response
requestPttBizState(hw) ==
    [main  |-> <<Ask("r"), OrFail, Read("r"), Free("r"), Done>>,
     error |-> <<Free("r"), Fail>>]

CallTable(hw) ==
    [requestHangupWaitingOrBackground |-> requestHangupWaitingOrBackground(hw),
     requestHangupForegroundResumeBackground |-> requestHangupForegroundResumeBackground(hw),
     requestSwitchWaitingOrHoldingAndActive |-> requestSwitchWaitingOrHoldingAndActive(hw),
     requestConference           |-> requestConference(hw),
     requestSeparateConnection   |-> requestSeparateConnection(hw),
     requestExplicitCallTransfer |-> requestExplicitCallTransfer(hw),
     requestUDUB                 |-> requestUDUB(hw),
     requestSetMute              |-> requestSetMute(hw),
     requestGetMute              |-> requestGetMute(hw),
     requestLastCallFailCause    |-> requestLastCallFailCause(hw),
     requestGetCurrentCalls      |-> requestGetCurrentCalls(hw),
     requestDial                 |-> requestDial(hw),
     requestAnswer               |-> requestAnswer(hw),
     requestHangup               |-> requestHangup(hw),
     requestDTMF                 |-> requestDTMF(hw),
     requestDTMFStart            |-> requestDTMFStart(hw),
     requestDTMFStop             |-> requestDTMFStop(hw),
     requestCDMADTMF             |-> requestCDMADTMF(hw)]

CallCalls(hw) ==
    [request_ptt_group_p2p_call2 |-> request_ptt_group_p2p_call2(hw),
     hangup_ptt_group_p2p_call   |-> hangup_ptt_group_p2p_call(hw)]

PttTable(hw) ==
    [requestPttQueryAvailableGroups  |-> requestPttQueryAvailableGroups(hw),
     requestPttGroupSetup            |-> requestPttGroupSetup(hw),
     requestPttGroupRelease          |-> requestPttGroupRelease(hw),
     requestPttCallDial              |-> requestPttCallDial(hw),
     requestPttCallHangup            |-> requestPttCallHangup(hw),
     requestPttCurrentGroupScanlistUpdate |-> requestPttCurrentGroupScanlistUpdate(hw),
     requestPttQueryBlockedIndicator |-> requestPttQueryBlockedIndicator(hw),
     requestPttDeviceInfo            |-> requestPttDeviceInfo(hw),
     requestPttBizState              |-> requestPttBizState(hw)]
=============================================================================
