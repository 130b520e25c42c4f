------------------------------- MODULE Lists -------------------------------
(***************************************************************************)
(* The loop that copies what it keeps of a list, which the program writes  *)
(* out wherever it filters one: the names of playlistsWithDefault(), the   *)
(* matches of rebuildSearchRows(), the records HistoryStore::remove()      *)
(* leaves.                                                                 *)
(***************************************************************************)
EXTENDS Integers, Sequences

\* The elements of a list that are in a set, in their order: what SelectSeq
\* would pick, as a function that can be reasoned about.
Selected(list, elements) ==
  LET upto[i \in 0 .. Len(list)] ==
        IF i = 0 THEN <<>>
        ELSE IF list[i] \in elements THEN Append(upto[i - 1], list[i]) ELSE upto[i - 1]
  IN upto[Len(list)]
=============================================================================
