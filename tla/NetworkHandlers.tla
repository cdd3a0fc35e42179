-------------------------- MODULE NetworkHandlers --------------------------
(***************************************************************************)
(* The handlers of src/libril/ril-network.c, in the vocabulary of           *)
(* HandlerCode.  hw is rilhw->model.  requestRadioPower, setRadioState and  *)
(* getRadioState are in RilSession.                                         *)
(***************************************************************************)
EXTENDS HandlerCode

requestSetNetworkSelectionAutomatic(hw) ==
    IF hw \in CDMA THEN Only(<<Done>>)
    ELSE [main |-> <<Tell, OrLost, Done>>, error |-> <<Fail>>]

requestSetNetworkSelectionManual(hw) ==
    IF hw \in CDMA THEN Unsupported
    ELSE [main  |-> <<Maybe("error"), Make("cmd"), Do("r"), OrFail,
                      Free("cmd"), Free("r"), Done>>,
          error |-> <<Free("cmd"), Free("r"), Fail>>]

requestSetPreferredNetworkType(hw) ==
    LET set == <<Make("cmd"), Do("r"), OrFail, Free("cmd"), Free("r"), Done>>
    IN  [main  |-> <<Maybe("other")>> \o
                   CASE hw = "EM350" -> <<Fail>>
                     [] hw = "M305"  -> <<Fail>>
                     [] hw = "MF210" -> <<Tell, OrLost, Done>>
                     [] OTHER        -> set,
         other |-> <<Fail>>,
         error |-> <<Free("cmd"), Free("r"), Fail>>]

\* The second question is asked of a CDMA model, where its failure is an
\* error, and of the EM350, where it is not.
requestSignalStrength(hw) ==
    [main  |-> <<Ask("r"), OrFail, Parse("r")>> \o
               (CASE hw \in CDMA    -> <<Ask("s"), OrFail, Parse("s"), Free("s")>>
                  [] hw = "EM350"   -> <<Ask("s"), Unless({"ok"}, "other"), Read("s")>>
                  [] OTHER          -> << >>) \o <<Goto("other")>>,
     other |-> (IF hw = "EM350" THEN <<Free("s")>> ELSE << >>) \o <<Done, Free("r")>>,
     error |-> <<Fail, Free("r")>>]

\* the names of the operators point into the line
requestQueryAvailableNetworks(hw) ==
    IF hw \in CDMA THEN Unsupported
    ELSE [main  |-> <<Ask("r"), OrFail, Parse("r"), DoneWith("r"), Free("r")>>,
          error |-> <<Free("r"), Fail>>]

requestQueryNetworkSelectionMode(hw) == IF hw \in CDMA THEN Unsupported ELSE Query

\* A function the registration handlers call.  The second answer of the last
\* case goes into the variable whose first content was freed.
_requestNetworkType(hw) ==
    CASE hw \in CDMA \cup {"M305"} ->
            [main  |-> <<Null("s"), Ask("s"), OrFail, Parse("s"), Free("s")>>,
             error |-> <<Free("s")>>]
      [] hw = "EM350" -> Only(<< >>)
      [] OTHER ->
            [main  |-> <<Null("s"), Ask("s"), Unless({"ok"}, "next"),
                         ParseTo("s", "next"), Maybe("next"), Free("s")>>,
             next  |-> <<Free("s"), Ask("s"), Unless({"ok"}, "error"), Parse("s"),
                         Free("s")>>,
             error |-> <<Free("s")>>]

_requestCDMARegistrationState(hw) == Query

\* The short forms of the line leave the technology to _requestNetworkType,
\* which is asked while the response is held.
_requestRegistrationState(hw) ==
    [main  |-> <<Ask("r"), OrFail, Parse("r"), Maybe("next"),
                 Call("_requestNetworkType"), Goto("next")>>,
     next  |-> <<Done, Free("r")>>,
     error |-> <<Fail, Free("r")>>]

requestRegistrationState(hw) ==
    IF hw \in CDMA THEN _requestCDMARegistrationState(hw)
    ELSE _requestRegistrationState(hw)

_requestGPRSRegistrationState(hw) ==
    [main  |-> <<Ask("r"), OrFail, Parse("r"), Maybe("next"),
                 Call("_requestNetworkType"), Goto("next")>>,
     next  |-> <<Done, Free("r")>>,
     error |-> <<Fail, Free("r")>>]

\* For a CDMA model everything, the answer included, is under the test that
\* the command succeeded.
requestGPRSRegistrationState(hw) ==
    IF hw \in CDMA
    THEN [main  |-> <<Ask("r"), Unless({"ok"}, "other"), ParseTo("r", "next"), Goto("next")>>,
          next  |-> <<Free("r"), Call("_requestNetworkType"), Done>>,
          other |-> << >>]
    ELSE _requestGPRSRegistrationState(hw)

\* AT+CIMI is sent raw: it may succeed without a line.
requestCDMAOperator(hw) ==
    [main |-> <<Raw("r"), Unless({"ok"}, "next"), Read("r"), Goto("next")>>,
     next |-> <<Free("r"), Done>>]

requestGSMOperator(hw) ==
    [main  |-> <<Do("r"), OrLost, Scan("r"), Maybe("error"), DoneWith("r"), Free("r")>>,
     error |-> <<Fail, Free("r")>>]

requestOperator(hw) ==
    IF hw \in CDMA THEN requestCDMAOperator(hw) ELSE requestGSMOperator(hw)

requestCDMAGetPreferredNetworkType(hw) ==
    [main  |-> <<Wild("r"), Ask("r"), OrLost, Parse("r"), Done, Free("r")>>,
     error |-> <<Fail, Free("r")>>]

requestGSMGetPreferredNetworkType(hw) ==
    IF hw \in {"M305", "EM350"} THEN Only(<<Done>>) ELSE Query

requestGetPreferredNetworkType(hw) ==
    IF hw \in CDMA THEN requestCDMAGetPreferredNetworkType(hw)
    ELSE requestGSMGetPreferredNetworkType(hw)

requestSetFacilityLock(hw)   == Command
requestQueryFacilityLock(hw) == Query
requestCDMASubScription(hw)  == Only(<<Done>>)
requestSetLocationUpdates(hw) == Command

\* Up to four questions, all into one variable.  A line of four commas gives
\* the cell as a pointer into the response, which is freed before the answer;
\* a shorter one gives it as a new string.
requestNeighboringCellIds(hw) ==
    LET again == <<IfAnswered({"ok", "refused"}, "next"), Ask("r")>>
    IN  [main  |-> <<Ask("r")>> \o again \o again \o again \o <<Goto("next")>>,
         next  |-> <<Unless({"ok"}, "error"), Parse("r"), Maybe("other"),
                     Make("buf"), Maybe("error"), Free("r"), DoneWith("buf")>>,
         other |-> <<Free("r"), DoneWith("r")>>,
         error |-> <<Free("r"), Fail>>]

isRadioOn(hw) ==
    [main  |-> <<Null("s"), Ask("s"), OrFail, Parse("s"), Free("s")>>,
     error |-> <<Free("s")>>]

\* A refused or lost command still succeeds when the radio turns out to be on.
requestRadioPower(hw) ==
    [main  |-> <<Maybe("other"), Maybe("next"), Do("r"), Goto("next")>>,
     other |-> <<Do("r"), IfAnswered({"ok"}, "finally"), Call("isRadioOn"),
                 Maybe("error"), Goto("finally")>>,
     finally |-> <<Call("modem_init"), Goto("next")>>,
     next  |-> <<Free("r"), Done>>,
     error |-> <<Free("r"), Fail>>]

NetworkTable(hw) ==
    [requestSetNetworkSelectionAutomatic |-> requestSetNetworkSelectionAutomatic(hw),
     requestSetNetworkSelectionManual |-> requestSetNetworkSelectionManual(hw),
     requestSetPreferredNetworkType   |-> requestSetPreferredNetworkType(hw),
     requestSignalStrength            |-> requestSignalStrength(hw),
     requestQueryAvailableNetworks    |-> requestQueryAvailableNetworks(hw),
     requestQueryNetworkSelectionMode |-> requestQueryNetworkSelectionMode(hw),
     requestRegistrationState         |-> requestRegistrationState(hw),
     requestGPRSRegistrationState     |-> requestGPRSRegistrationState(hw),
     requestOperator                  |-> requestOperator(hw),
     requestGetPreferredNetworkType   |-> requestGetPreferredNetworkType(hw),
     requestSetFacilityLock           |-> requestSetFacilityLock(hw),
     requestQueryFacilityLock         |-> requestQueryFacilityLock(hw),
     requestCDMASubScription          |-> requestCDMASubScription(hw),
     requestSetLocationUpdates        |-> requestSetLocationUpdates(hw),
     requestNeighboringCellIds        |-> requestNeighboringCellIds(hw),
     requestRadioPower                |-> requestRadioPower(hw)]

NetworkCalls(hw) ==
    [_requestNetworkType |-> _requestNetworkType(hw), isRadioOn |-> isRadioOn(hw)]
=============================================================================
