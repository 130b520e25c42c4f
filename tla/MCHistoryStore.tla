--------------------------- MODULE MCHistoryStore ---------------------------
(* HistoryStore, with the recorder that feeds it, on small instances for TLC. *)
EXTENDS HistoryStore

CONSTANTS a, b

MCSong == {a, b}
E(i, s) == [id |-> i, song |-> s]

\* A file from before records had ids, and one that save() wrote.
MCFiles == {<<E(0, a), E(0, b)>>, <<E(0, b), E(0, a)>>, <<E(2, a)>>, <<E(2, b)>>}

\* The songs may change places: MCFiles has every list with both names.
MCSymmetry == Permutations(MCSong)

\* The disk works, or it is neither read nor written.
MCFaults == {{"read", "write"}, {}}
=============================================================================
