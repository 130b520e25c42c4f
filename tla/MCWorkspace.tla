---------------------------- MODULE MCWorkspace ----------------------------
(* Workspace on small instances for TLC. *)
EXTENDS Workspace

CONSTANTS s, t

MCTrack == {s, t}
MCOrder == <<"a", "Default", "b">>
MCDatabase == <<s, t>>
MCQueue == <<t>>

\* One playlist of the user, beside one that is hidden by the virtual Default.
MCStored == {("b" :> <<s, t>>) @@ ("Default" :> <<s>>)}
=============================================================================
