----------------------------- MODULE MCDataCall -----------------------------
EXTENDS DataCall, TLC
CONSTANTS s1, s2
MCSetups == {s1, s2}
\* What the calls of a CDMA modem do, those of another may do as well: it may
\* list every context, in any order, and refuse none.
NotCdma  == {FALSE}
=============================================================================
