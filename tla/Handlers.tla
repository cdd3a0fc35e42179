------------------------------ MODULE Handlers ------------------------------
(***************************************************************************)
(* The functions of libril that HandlerRun runs, by name: RIL_DISP_TABLE    *)
(* of src/libril/ril-core.c (requestSetupDataCall and                       *)
(* requestDeactivateDataCall, but for the EM350, are in DataCall), the      *)
(* callbacks of enqueueRILEvent, the branches of onUnsolicited, the copies  *)
(* of a request's data, and the functions those call.                       *)
(***************************************************************************)
EXTENDS NetworkHandlers, CallHandlers, SmsHandlers, DeviceHandlers, CoreHandlers,
        RequestCopies, TLC

DispTable(hw) == NetworkTable(hw) @@ CallTable(hw) @@ PttTable(hw) @@ SmsTable(hw)
                 @@ ServiceTable(hw) @@ DeviceTable(hw) @@ CoreTable(hw)
                 @@ (IF hw = "EM350" THEN EM350Table(hw) ELSE << >>)
EventTable(hw) == SmsEvents(hw) @@ DeviceEvents(hw) @@ CoreEvents(hw) @@ Unsolicited(hw)
                  @@ CopyEvents(hw)
CalledTable(hw) == NetworkCalls(hw) @@ CallCalls(hw) @@ DeviceCalls(hw) @@ CoreCalls(hw)
                   @@ CopyCalls(hw)

FunctionTable == [hw \in Models |-> DispTable(hw) @@ EventTable(hw) @@ CalledTable(hw)]
=============================================================================
