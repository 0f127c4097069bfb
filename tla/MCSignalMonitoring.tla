------------------------- MODULE MCSignalMonitoring -------------------------
(* A small instance of SignalMonitoring: two US stocks and a Korean one. *)
EXTENDS SignalMonitoring

CONSTANTS aapl, other, korean

AllSymbols == {aapl, other, korean}
UsSymbols  == {aapl, other}

\* Bound: only one symbol has alarms besides the one that init subscribes.
OneBesides == ~ {other, korean} \subseteq Symbols

MCInit == SignalInit /\ OneBesides
MCNext == SignalNext /\ OneBesides'
MCSpec == MCInit /\ [][MCNext]_marketVars /\ SignalFairness
=============================================================================
