---------------------------- MODULE RequestFilter ----------------------------
(***************************************************************************)
(* requestStateFilter of src/libril/ril-core.c: which requests of the      *)
(* telephony framework are answered at once because of the radio's state,  *)
(* and with which error.                                                   *)
(***************************************************************************)

(* RIL_RadioState, for a modem with a SIM and for one with a RUIM. *)
RadioStates == {"OFF", "UNAVAILABLE", "SIM_NOT_READY", "SIM_LOCKED_OR_ABSENT", "SIM_READY",
                "RUIM_NOT_READY", "RUIM_READY", "RUIM_LOCKED_OR_ABSENT"}

(* The requests the filter names; "OTHER" stands for all the rest. *)
SimStorage   == {"WRITE_SMS_TO_SIM", "DELETE_SMS_ON_SIM"}
Basic        == {"RADIO_POWER", "REPORT_STK_SERVICE_IS_RUNNING", "GET_SIM_STATUS",
                 "GET_IMEISV", "GET_IMEI", "DEVICE_IDENTITY", "BASEBAND_VERSION", "SCREEN_STATE"}
StkProfile   == {"STK_GET_PROFILE", "STK_SET_PROFILE"}
Unlocking    == {"ENTER_SIM_PIN", "ENTER_SIM_PUK", "ENTER_SIM_PIN2", "ENTER_SIM_PUK2",
                 "ENTER_NETWORK_DEPERSONALIZATION"}
Calling      == {"DIAL", "GET_CURRENT_CALLS", "HANGUP", "HANGUP_FOREGROUND_RESUME_BACKGROUND",
                 "SET_TTY_MODE", "QUERY_TTY_MODE", "DTMF", "DTMF_START", "DTMF_STOP",
                 "LAST_CALL_FAIL_CAUSE"}
RequestNames == SimStorage \cup Basic \cup StkProfile \cup Unlocking \cup Calling \cup {"OTHER"}

AllowedLocked == Unlocking \cup Calling
                 \cup (Basic \ {"REPORT_STK_SERVICE_IS_RUNNING", "DEVICE_IDENTITY"})

(* The error the filter completes the request with, or "PASSED".  The error *)
(* given for GET_SIM_STATUS is the number of the request, 1, which is the   *)
(* number of RIL_E_RADIO_NOT_AVAILABLE.                                     *)
Filter(request, state) ==
  CASE state # "SIM_READY" /\ request \in SimStorage -> "GENERIC_FAILURE"
    [] state = "UNAVAILABLE" /\ request = "SCREEN_STATE" -> "GENERIC_FAILURE"
    [] state = "UNAVAILABLE" /\ request \notin SimStorage \cup {"SCREEN_STATE"} -> "RADIO_NOT_AVAILABLE"
    [] state = "OFF" /\ request \notin Basic \cup StkProfile \cup SimStorage -> "RADIO_NOT_AVAILABLE"
    [] state = "OFF" /\ request \in StkProfile -> "GENERIC_FAILURE"
    [] state = "SIM_NOT_READY" /\ request \notin Basic \cup SimStorage -> "GENERIC_FAILURE"
    [] state = "SIM_LOCKED_OR_ABSENT" /\ request \notin AllowedLocked \cup SimStorage -> "GENERIC_FAILURE"
    [] OTHER -> "PASSED"

Passes(request, state) == Filter(request, state) = "PASSED"

=============================================================================
