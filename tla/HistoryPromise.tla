--------------------------- MODULE HistoryPromise ---------------------------
(***************************************************************************)
(* What the playback history promises (src/src/app/history.hpp): a list of *)
(* records, oldest first, with identities of their own; a new record goes  *)
(* to the end and the oldest one leaves when there are too many; deleting  *)
(* rows takes the records that were on screen there and no other; every    *)
(* change is on disk at once, unless the disk refuses it; and a start      *)
(* shows the newest of what is on disk, and changes nothing there.         *)
(*                                                                         *)
(* Two losses are part of the promise.  A change that the disk refused is  *)
(* undone by a start before the next change.  And a start that cannot read *)
(* the list begins with none, which the next change puts in its place.     *)
(***************************************************************************)
EXTENDS Integers, SequencesExt

CONSTANTS
  Files,   \* the lists that may be on disk in the beginning
  Limits   \* how many records may be kept, over the restarts

VARIABLES
  shown,     \* the list in memory
  durable,   \* the list on disk
  onscreen,  \* the rows of the History view, newest first
  limit,     \* how many records are kept
  usable     \* whether the list on disk may be read, and be replaced

promise_vars == <<shown, durable, onscreen, limit, usable>>

Uses == SUBSET {"read", "write"}

RecordIds(list) == {r.id : r \in ToSet(list)}

\* The first list has the order of the second one.
Follows(s, t) ==
  \A i, j \in DOMAIN s : i < j =>
    \E k, l \in DOMAIN t : k < l /\ t[k] = s[i] /\ t[l] = s[j]

\* The last n of a list, or all of it.
LastOf(list, n) ==
  SubSeq(list, IF Len(list) > n THEN Len(list) - n + 1 ELSE 1, Len(list))

\* The same records; those that have no identity on disk have got one.
Restores(list, stored) ==
  /\ DOMAIN list = DOMAIN stored
  /\ \A i \in DOMAIN list : /\ list[i].song = stored[i].song
                            /\ stored[i].id > 0 => list[i] = stored[i]
  /\ \A i, j \in DOMAIN list : list[i].id = list[j].id => i = j

Loaded(list, n, use) ==
  IF "read" \in use THEN Restores(list, LastOf(durable, n)) ELSE list = <<>>

PromiseInit ==
  /\ durable \in Files /\ limit \in Limits /\ usable \in Uses
  /\ Loaded(shown, limit, usable)
  /\ onscreen = <<>>

Saved == durable' = IF "write" \in usable THEN shown' ELSE durable

\* A song was played: one record, with an identity that no record has and none
\* of the rows on screen had.
PromiseRecord ==
  /\ shown' # <<>>
  /\ Last(shown').id \notin RecordIds(shown) \cup RecordIds(onscreen)
  /\ shown' = LastOf(Append(shown, Last(shown')), limit)
  /\ Saved
  /\ UNCHANGED <<onscreen, limit, usable>>

\* Rows are deleted: the records that they name go, and the others stay.
PromiseDelete ==
  /\ \E lo, hi \in DOMAIN onscreen :
       LET named == {onscreen[i].id : i \in lo..hi}
       IN  ToSet(shown') = {r \in ToSet(shown) : r.id \notin named}
  /\ Follows(shown', shown)
  /\ IF ToSet(shown') = ToSet(shown) THEN UNCHANGED durable ELSE Saved
  /\ onscreen' = Reverse(shown')
  /\ UNCHANGED <<limit, usable>>

PromiseRefresh ==
  /\ onscreen' = Reverse(shown)
  /\ UNCHANGED <<shown, durable, limit, usable>>

\* The program ended, in whatever way, and starts again.
PromiseRestart ==
  /\ limit' \in Limits /\ usable' \in Uses
  /\ Loaded(shown', limit', usable')
  /\ onscreen' = <<>>
  /\ UNCHANGED durable

PromiseDisk ==
  /\ usable' \in Uses
  /\ UNCHANGED <<shown, durable, onscreen, limit>>

PromiseNext ==
  \/ PromiseRecord \/ PromiseDelete \/ PromiseRefresh
  \/ PromiseRestart \/ PromiseDisk

PromiseSpec == PromiseInit /\ [][PromiseNext]_promise_vars
=============================================================================
