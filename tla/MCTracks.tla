------------------------------ MODULE MCTracks ------------------------------
(* Tracks on small instances for TLC. *)
EXTENDS Tracks, TLC

CONSTANTS one, two, three

MCSong == {one, two, three}
MCMatching == ("low" :> {one, two}) @@ ("none" :> {})
MCCollections ==
  {[kind |-> "generated", rows |-> <<one, two, one>>],
   [kind |-> "playlist", rows |-> <<one, two, one, three>>],
   [kind |-> "playlist", rows |-> <<two>>],
   [kind |-> "history", rows |-> <<two, three>>]}
=============================================================================
