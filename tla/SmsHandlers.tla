---------------------------- MODULE SmsHandlers ----------------------------
(***************************************************************************)
(* The handlers of src/libril/ril-message.c and ril-services.c, in the      *)
(* vocabulary of HandlerCode.                                               *)
(***************************************************************************)
EXTENDS HandlerCode

\* configInfo is declared without a value and freed on every path; the
\* answer is the address of the pointer
requestGSMGetBroadcastSMSConfig(hw) ==
    [main    |-> <<Wild("buf"), Ask("r"), OrFail, Make("buf"), Parse("r"), Done,
                   Goto("finally")>>,
     finally |-> <<Free("buf"), Free("r")>>,
     error   |-> <<Fail, Goto("finally")>>]

\* the command string is never freed
requestGSMSetBroadcastSMSConfig(hw) ==
    [main  |-> <<Maybe("error"), Make("cmd"), Do("r"), OrFail, Done, Free("r")>>,
     error |-> <<Fail, Free("r")>>]

\* the first response is freed and its variable used for the second
requestGSMSMSBroadcastActivation(hw) ==
    [main  |-> <<Ask("r"), OrFail, Parse("r"), Free("r"), Do("r"), OrFail, Done, Free("r")>>,
     error |-> <<Fail, Free("r")>>]

requestCDMASendSMS(hw) ==
    [main  |-> <<Tell, Ask("r"), OrFail, Parse("r"), Done, Free("r")>>,
     error |-> <<Fail, Free("r")>>]

\* both strings of the command stay allocated
requestSendSMS(hw) ==
    IF hw \in CDMA THEN requestCDMASendSMS(hw)
    ELSE [main  |-> <<Make("cmd"), Make("buf"), Ask("r"), OrFail, Done, Free("r")>>,
          error |-> <<Fail, Free("r")>>]

requestSendSMSExpectMore(hw) == Only(<<Tell, Call("requestSendSMS")>>)
requestSMSAcknowledge(hw) ==
    IF hw \in CDMA THEN Only(<<Tell, Done>>)
    ELSE [main |-> <<Maybe("error"), Tell, Done>>, error |-> <<Fail>>]
requestCDMASMSAcknowledge(hw) == Only(<<Tell, Done>>)

requestWriteSmsToSim(hw)  == [Command EXCEPT !.main = <<Ask("r"), OrFail, Done, Free("r")>>]
requestDeleteSmsOnSim(hw) == Command
\* a mutant: the response that holds the address is freed before the answer
requestGetSMSCAddressFreesFirst(hw) ==
    [Query EXCEPT !.main = <<Ask("r"), OrFail, Parse("r"), Free("r"), DoneWith("r")>>]
requestGetSMSCAddress(hw) ==
    [Query EXCEPT !.main = <<Ask("r"), OrFail, Parse("r"), DoneWith("r"), Free("r")>>]
requestSetSMSCAddress(hw) == Command

\* the events: a poll that queues itself again, and commands; the CDMA
\* indication is allocated by onUnsolicited and freed here
checkMessageStorageReady(hw) ==
    [main  |-> <<Ask("r"), OrFail, Call("setPreferredMessageStorage"), Free("r")>>,
     error |-> <<Free("r")>>]
sm_sms_delete(hw) == Only(<<Tell>>)
on_new_gsm_sms(hw) == Only(<<Tell, Tell>>)
on_new_cdma_sms(hw) ==
    [main |-> <<Make("buf"), Maybe("next"), Tell, Tell, Goto("next")>>,
     next |-> <<Free("buf")>>]

(***************************************************************************)
(* ril-services.c                                                           *)
(***************************************************************************)
requestQueryClip(hw)  == Query
requestCancelUSSD(hw) ==
    [main |-> <<Ask("r"), OrFail, DoneWith("r"), Free("r")>>, error |-> <<Fail, Free("r")>>]
requestSendUSSD(hw)   == Unsupported
requestGetCLIR(hw)    == Query
requestSetCLIR(hw)    == [main |-> <<Tell, OrLost, Done>>, error |-> <<Fail>>]

\* the numbers of the answer point into the response, which is freed before
requestQueryCallForwardStatus(hw) ==
    [main  |-> <<Do("r"), OrFail, Scan("r"), Free("r"), DoneWith("r")>>,
     error |-> <<Free("r"), Fail>>]

requestSetCallForward(hw) ==
    [main  |-> <<Maybe("error"), Make("cmd"), Tell, OrLost, Done, Free("cmd")>>,
     error |-> <<Fail, Free("cmd")>>]

requestQueryCallWaiting(hw) ==
    [main  |-> <<Make("cmd"), Ask("r"), OrFail, Parse("r"), Done, Free("r"), Free("cmd")>>,
     error |-> <<Fail, Free("r"), Free("cmd")>>]

requestSetCallWaiting(hw) == requestSetCallForward(hw)
requestSetSuppSvcNotification(hw) == requestSetCLIR(hw)

SmsTable(hw) ==
    [requestGSMGetBroadcastSMSConfig |-> requestGSMGetBroadcastSMSConfig(hw),
     requestGSMSetBroadcastSMSConfig |-> requestGSMSetBroadcastSMSConfig(hw),
     requestGSMSMSBroadcastActivation |-> requestGSMSMSBroadcastActivation(hw),
     requestCDMASendSMS         |-> requestCDMASendSMS(hw),
     requestSendSMS             |-> requestSendSMS(hw),
     requestSendSMSExpectMore   |-> requestSendSMSExpectMore(hw),
     requestSMSAcknowledge      |-> requestSMSAcknowledge(hw),
     requestCDMASMSAcknowledge  |-> requestCDMASMSAcknowledge(hw),
     requestWriteSmsToSim       |-> requestWriteSmsToSim(hw),
     requestDeleteSmsOnSim      |-> requestDeleteSmsOnSim(hw),
     requestGetSMSCAddress      |-> requestGetSMSCAddress(hw),
     requestSetSMSCAddress      |-> requestSetSMSCAddress(hw)]

ServiceTable(hw) ==
    [requestQueryClip              |-> requestQueryClip(hw),
     requestCancelUSSD             |-> requestCancelUSSD(hw),
     requestSendUSSD               |-> requestSendUSSD(hw),
     requestGetCLIR                |-> requestGetCLIR(hw),
     requestSetCLIR                |-> requestSetCLIR(hw),
     requestQueryCallForwardStatus |-> requestQueryCallForwardStatus(hw),
     requestSetCallForward         |-> requestSetCallForward(hw),
     requestQueryCallWaiting       |-> requestQueryCallWaiting(hw),
     requestSetCallWaiting         |-> requestSetCallWaiting(hw),
     requestSetSuppSvcNotification |-> requestSetSuppSvcNotification(hw)]

\* callbacks of enqueueRILEvent: nothing is owed an answer
SmsEvents(hw) == [checkMessageStorageReady |-> checkMessageStorageReady(hw),
                  sm_sms_delete            |-> sm_sms_delete(hw),
                  on_new_gsm_sms           |-> on_new_gsm_sms(hw),
                  on_new_cdma_sms          |-> on_new_cdma_sms(hw)]
=============================================================================
