----------------------------- MODULE MCHandlers -----------------------------
(***************************************************************************)
(* Every handler on every model, and the pairs of a model and a handler     *)
(* that do not keep a property of HandlerRun: each is a defect of the code, *)
(* and the README says which line.  A pair that is not needed, or one that  *)
(* is missing, shows: the sets are what the violations of the properties    *)
(* without them come to.                                                    *)
(***************************************************************************)
EXTENDS Handlers, HandlerRun

MCCode     == FunctionTable
MCRequests == UNION {DOMAIN DispTable(hw) : hw \in Models}
MCEvents   == UNION {DOMAIN EventTable(hw) : hw \in Models}
NoPairs    == {}

Others == Models \ (CDMA \cup {"EM350"})

MCUnanswered == CDMA \X {"requestGPRSRegistrationState", "requestGetIMEI"}

MCLeaking ==
    Models \X {"copyGsmBrSmsCnf", "pttDebug", "requestConference",
               "requestGSMSetBroadcastSMSConfig", "requestNeighboringCellIds"}
    \cup (Models \ CDMA) \X {"requestSendSMS", "requestSendSMSExpectMore"}
    \cup CDMA \X {"requestGPRSRegistrationState", "requestSignalStrength"}
    \cup {"AD3812"} \X {"requestHangupForegroundResumeBackground",
                        "requestHangupWaitingOrBackground",
                        "requestSwitchWaitingOrHoldingAndActive"}
    \cup {"EM350"} \X {"requestSetupDataCallEM350"}

MCFreeingTwice ==
    Models \X {"Dormant", "NitzTime", "pttDebug", "requestBasebandVersion",
               "requestGSMGetBroadcastSMSConfig", "requestGSMSMSBroadcastActivation",
               "requestGetMute"}
    \cup (Models \ CDMA) \X {"requestDeviceIdentity", "requestGetIMEI"}
    \cup (Others \ {"M305"}) \X {"requestGPRSRegistrationState", "requestRegistrationState"}
    \cup (Models \ {"EM350"}) \X {"requestGetCurrentCalls"}
    \cup CDMA \X {"SmsStored", "requestGetPreferredNetworkType"}
    \cup {"EM350"} \X {"onSIMReady", "requestEnterSimPin", "requestRadioPower",
                       "requestSetupDataCallEM350"}

MCReadingStale ==
    Models \X {"PttGroupsChanged", "copyCdmaSms", "pttDebug",
               "requestNeighboringCellIds", "requestPttQueryAvailableGroups", "requestQueryCallForwardStatus"}
    \cup (Models \ CDMA) \X {"requestDeviceIdentity", "requestGetIMEI"}
    \cup CDMA \X {"onSIMReady", "requestGetPreferredNetworkType", "requestOperator"}
    \cup {"EM350"} \X {"onDataCallListChanged", "requestDataCallList",
                       "requestSetupDataCallEM350"}

\* The discipline is that of more than half of the requests of every model.
ASSUME MostDisciplined ==
    /\ \A c \in {Query, Command, Unsupported} : Disciplined(c)
    /\ \A hw \in Models :
          LET all == DOMAIN DispTable(hw)
          IN  2 * Cardinality({f \in all : Disciplined(FunctionTable[hw][f])}) > Cardinality(all)
=============================================================================
