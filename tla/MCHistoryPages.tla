--------------------------- MODULE MCHistoryPages ---------------------------
(* Finite instances of HistoryPages for TLC: windows that begin before the *)
(* fund, at a later day, and that end before the newest day.               *)
EXTENDS HistoryPages

SomeWindows == {<<First - 1, Horizon>>, <<First + 1, Horizon>>,
                <<First, Listed - 1>>}

=============================================================================
