--------------------------- MODULE RequestCopies ---------------------------
(***************************************************************************)
(* src/libril/ril-requestdatahandler.c: onRequest copies the data of a      *)
(* request, because the framework's is gone when it returns; the runner     *)
(* frees the copy after the handler has returned.  Which pair of functions  *)
(* a request has is in ril_commands.h of the framework.  The block is buf;  *)
(* the strings in it, or the elements of an array, are the other variables. *)
(***************************************************************************)
EXTENDS HandlerCode

\* a pointer of the request that may be NULL
Strdup(v) == [main |-> <<Maybe("next"), Make(v)>>, next |-> << >>]

dispatchVoid        == << >>
dummyDispatch       == <<Null("buf")>>
dispatchRaw         == <<Make("buf")>>
dispatchString      == <<Call("strdup_buf")>>
dispatchDial        == dispatchRaw \o <<Call("strdup_r")>>
dispatchCallForward == dispatchRaw \o <<Call("strdup_r")>>
dispatchSmsWrite    == dispatchRaw \o <<Call("strdup_r"), Call("strdup_s")>>
dispatchSIM_IO      == dispatchRaw \o
    <<Call("strdup_r"), Call("strdup_s"), Call("strdup_t"), Call("strdup_cmd")>>
\* two of the strings stand for them all
dispatchStrings     == dispatchRaw \o <<Call("strdup_r"), Call("strdup_s")>>
\* r stands for the first fifth of the elements and s for the others; there
\* may be fewer than five
dispatchGsmBrSmsCnf == dispatchRaw \o <<Make("s"), Call("strdup_r")>>

freeCallForward == <<Free("r"), Free("buf")>>
freeDial        == <<Free("r"), Free("buf")>>
freeSmsWrite    == <<Free("r"), Free("s"), Free("buf")>>
freeSIM_IO      == <<Free("r"), Free("s"), Free("t"), Free("cmd"), Free("buf")>>
freeStrings     == <<Free("r"), Free("s"), Free("buf")>>
\* the length is divided by the size of an element, five words, and not by
\* that of a pointer
freeGsmBrSmsCnf == <<Free("r"), Free("buf")>>

\* freeRequestData, by the function that made the copy.  The handler reads
\* the copy in between, but that of a void request.
Handled == <<Look("buf")>>
CopyEvents(hw) ==
    [copyVoid        |-> Only(dispatchVoid),
     copyRaw         |-> Only(dispatchRaw \o Handled \o <<Free("buf")>>),
     copyString      |-> Only(dispatchString \o <<Free("buf")>>),
     copyStrings     |-> Only(dispatchStrings \o Handled \o freeStrings),
     copyDial        |-> Only(dispatchDial \o Handled \o freeDial),
     copyCallForward |-> Only(dispatchCallForward \o Handled \o freeCallForward),
     copySmsWrite    |-> Only(dispatchSmsWrite \o Handled \o freeSmsWrite),
     copySIM_IO      |-> Only(dispatchSIM_IO \o Handled \o freeSIM_IO),
     copyGsmBrSmsCnf |-> Only(dispatchGsmBrSmsCnf \o Handled \o freeGsmBrSmsCnf),
     \* a message of CDMA is not copied, and its handler reads it
     copyCdmaSms     |-> Only(dummyDispatch \o Handled)]

CopyCalls(hw) ==
    [strdup_r |-> Strdup("r"), strdup_s |-> Strdup("s"), strdup_t |-> Strdup("t"),
     strdup_cmd |-> Strdup("cmd"), strdup_buf |-> Strdup("buf")]
=============================================================================
