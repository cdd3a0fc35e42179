---------------------------- MODULE MCStandalone ----------------------------
EXTENDS Standalone, TLC
CONSTANTS p1, p2, bootcmd, e1, e2, e3, runner, atreader
MCTools     == {p1, p2}
MCMaxLength == [ascii |-> 5, unicode |-> 5, gsm |-> 10]
MCNodes     == {e1, e2, e3}
MCDelays    == {[sec |-> 0, nsec |-> 0], [sec |-> 0, nsec |-> 1]}
MCThreads   == {runner, atreader}
\* a short line, one that does not fit, and the prompt, each behind a line end
MCMessages  == {<<"\r", "\n", "A", "\r", "\n">>,
                <<"\r", "\n", "X", "X", "X", "X", "X", "X", "\r", "\n">>,
                <<"\r", "\n", ">", " ">>}
MCEcho      == <<"E", "\r">>
=============================================================================
