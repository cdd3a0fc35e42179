--------------------------- MODULE DeviceHandlers ---------------------------
(***************************************************************************)
(* The handlers of src/libril/ril-sim.c, ril-device.c, ril-stk.c and        *)
(* ril-oem.c, in the vocabulary of HandlerCode.                             *)
(***************************************************************************)
EXTENDS HandlerCode

\* ril-sim.c: AT+CIMI is sent raw, and may succeed without a line
cdma_init(hw) ==
    [main |-> <<Null("s"), Raw("s"), Unless({"ok"}, "next"), Read("s"), Goto("next")>>,
     next |-> <<Free("s")>>]

\* The event setRadioState queues when the card is ready.  The storage is
\* checked with a variable of the callee's.
onSIMReady(hw) ==
    Only(<<Call("modem_init"), Tell, Call("checkMessageStorageReady"), Done>> \o
         (IF hw \in CDMA THEN <<Call("cdma_init")>> ELSE << >>))

getSIMStatus(hw) ==
    [main    |-> <<Null("s"), Maybe("finally"), Ask("s"), Unless({"ok"}, "finally"),
                   ParseTo("s", "finally"), Goto("finally")>>,
     finally |-> <<Free("s")>>]
pollSIMState(hw) == [main |-> <<Maybe("next"), Call("getSIMStatus")>>, next |-> << >>]

\* the card status is allocated for its caller, and never refused
getCardStatus  == <<Call("getSIMStatus"), Make("buf")>>
freeCardStatus == Free("buf")
requestGetSimStatus(hw) == Only(getCardStatus \o <<DoneWith("buf"), freeCardStatus>>)

\* a mutant: the success path falls through into the error path's frees
requestSIM_IOFallsThrough(hw) ==
    [main  |-> <<Maybe("other"), Make("cmd"), Ask("r"), OrFail, Parse("r"),
                 DoneWith("r"), Free("r"), Free("cmd"), Goto("next")>>,
     next  |-> <<Free("r"), Free("cmd")>>,
     other |-> <<Fail>>,
     error |-> <<Fail, Free("r"), Free("cmd")>>]
requestSIM_IO(hw) ==
    [main  |-> <<Maybe("other"), Make("cmd"), Ask("r"), OrFail, Parse("r"),
                 DoneWith("r"), Free("r"), Free("cmd")>>,
     other |-> <<Fail>>,
     error |-> <<Fail, Free("r"), Free("cmd")>>]

requestChangePassword == [Command EXCEPT !.main = <<Maybe("error")>> \o @]
requestChangeSimPin(hw) == requestChangePassword

\* on success the modem is set up again while the response is held
requestEnterSimPin(hw) ==
    [main  |-> <<Maybe("error"), Do("r"), OrFail, Done, Call("modem_init"), Free("r")>>,
     error |-> <<Fail, Free("r")>>]

(***************************************************************************)
(* ril-device.c.  A model that is not named here asks for the IMSI with a   *)
(* prefix or without one; the memory is handled alike.                      *)
(***************************************************************************)
requestGetIMSI(hw) ==
    IF hw \in {"MC2716", "MC8630", "AD3812", "EM350"}
    THEN [main  |-> <<Ask("r"), OrFail, DoneWith("r"), Free("r")>>,
          error |-> <<Fail, Free("r")>>]
    ELSE [main  |-> <<Ask("r"), OrFail, Parse("r"), DoneWith("r"), Free("r")>>,
          error |-> <<Fail, Free("r")>>]

\* buf stands for the strings of the answer, which are freed when they are
\* there; the raw command goes into the variable of the refused response
requestDeviceIdentity(hw) ==
    LET end == [finally |-> <<Free("buf"), Free("r")>>,
                error   |-> <<Fail, Goto("finally")>>,
                other   |-> <<DoneWith("buf"), Goto("finally")>>]
    IN  IF hw \in CDMA
        THEN [main    |-> <<Ask("r"), OrFail, Read("r"), Make("buf"), Free("r"), Null("r"),
                            Ask("r"), Unless({"ok"}, "next"), Read("r"), Goto("next")>>,
              next    |-> <<Free("r"), Null("r"), Goto("other")>>,
              finally |-> end.finally, error |-> end.error, other |-> end.other]
        ELSE [main    |-> <<Ask("r"), Unless({"ok"}, "next"), Parse("r"), Make("buf"),
                            Goto("other")>>,
              next    |-> <<Free("r"), Raw("r"), OrFail, Read("r"), Make("buf"), Goto("other")>>,
              finally |-> end.finally, error |-> end.error, other |-> end.other]

\* radio_state_ready is RADIO_STATE_RUIM_READY on a CDMA model, so that the
\* MEID is asked for; when it comes, nothing answers the request
requestGetIMEI(hw) ==
    IF hw \in CDMA
    THEN [main  |-> <<Ask("r"), OrFail, Free("r")>>, error |-> <<Done, Free("r")>>]
    ELSE [main  |-> <<Ask("r"), Unless({"ok"}, "next"), Parse("r"), DoneWith("r"), Free("r")>>,
          next  |-> <<Free("r"), Raw("r"), OrFail, Read("r"), DoneWith("r"), Free("r")>>,
          error |-> <<Done, Free("r")>>]

requestGetIMEISV(hw) == Only(<<Make("buf"), DoneWith("buf"), Free("buf")>>)

requestBasebandVersion(hw) ==
    [main  |-> <<Ask("r"), Unless({"ok"}, "next"), DoneWith("r"), Free("r")>>,
     next  |-> <<Free("r"), Raw("r"), OrFail, Lined("r", "error"), DoneWith("r"), Free("r")>>,
     error |-> <<Fail, Free("r")>>]

\* ril-stk.c and ril-oem.c
requestReportSTKServiceIsRunning(hw) == Only(<<Done>>)
requestOEMHookRaw(hw)     == Only(<<Done>>)
requestOEMHookStrings(hw) == Only(<<Done>>)

DeviceTable(hw) ==
    [requestGetSimStatus    |-> requestGetSimStatus(hw),
     requestSIM_IO          |-> requestSIM_IO(hw),
     requestChangeSimPin    |-> requestChangeSimPin(hw),
     requestEnterSimPin     |-> requestEnterSimPin(hw),
     requestGetIMSI         |-> requestGetIMSI(hw),
     requestDeviceIdentity  |-> requestDeviceIdentity(hw),
     requestGetIMEI         |-> requestGetIMEI(hw),
     requestGetIMEISV       |-> requestGetIMEISV(hw),
     requestBasebandVersion |-> requestBasebandVersion(hw),
     requestReportSTKServiceIsRunning |-> requestReportSTKServiceIsRunning(hw),
     requestOEMHookRaw      |-> requestOEMHookRaw(hw),
     requestOEMHookStrings  |-> requestOEMHookStrings(hw)]

DeviceEvents(hw) == [onSIMReady |-> onSIMReady(hw), pollSIMState |-> pollSIMState(hw)]
DeviceCalls(hw)  == [cdma_init |-> cdma_init(hw), getSIMStatus |-> getSIMStatus(hw)]
=============================================================================
