-------------------------- MODULE MCPlaybackSession --------------------------
(* PlaybackSession on small instances for TLC. *)
EXTENDS PlaybackSession, TLC

CONSTANTS a, b, c

MCUri == {a, b}
MCUri3 == {a, b, c}
MCId  == 0..3

\* The ids MPD gives are the smallest free ones: ids are only ever compared
\* for equality, so the choice loses nothing.
RECURSIVE Smallest(_, _)
Smallest(n, free) ==
  IF n = 0 THEN <<>>
  ELSE LET k == CHOOSE k \in free : \A j \in free : k <= j
       IN <<k>> \o Smallest(n - 1, free \ {k})

MCFresh(n, used) ==
  IF Cardinality(MCId \ used) < n THEN {} ELSE {Smallest(n, MCId \ used)}

MCDistinctLists == {<<a, b>>, <<b>>}
MCShuffleLists == {<<a, b, c>>}
MCDuplicateLists == {<<a, b, a>>}
=============================================================================
