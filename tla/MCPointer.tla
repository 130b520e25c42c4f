----------------------------- MODULE MCPointer -----------------------------
(* Pointer on small instances for TLC. *)
EXTENDS Pointer, TLC

MCTreeRow == {"library", "playlist"}
MCTrackRow == {"first", "second"}

\* A row of eight cells.  The immersive page has the player bar there, without
\* its toggles and the volume when the terminal is small; the workspace has
\* rows of its two lists in the same cells.
Bars ==
  [large |-> "shuffle" :> {1} @@ "previous" :> {2} @@ "play" :> {3}
               @@ "next" :> {4} @@ "repeat" :> {5} @@ "progress" :> {6, 7}
               @@ "volume" :> {8},
   small |-> "shuffle" :> {} @@ "previous" :> {1} @@ "play" :> {2}
               @@ "next" :> {3} @@ "repeat" :> {} @@ "progress" :> {4, 5}
               @@ "volume" :> {}]
Lists ==
  [large |-> "library" :> {6} @@ "playlist" :> {} @@ "first" :> {7} @@ "second" :> {8},
   small |-> "library" :> {6} @@ "playlist" :> {} @@ "first" :> {7} @@ "second" :> {}]
MCLayout == [s \in {"large", "small"} |-> Bars[s] @@ Lists[s]]
=============================================================================
