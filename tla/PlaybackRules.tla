---------------------------- MODULE PlaybackRules ----------------------------
(***************************************************************************)
(* The pure playback-context rules of src/src/app/playback.cpp: which row  *)
(* of an ordered list a track is, when the list may hold one URI twice.    *)
(*                                                                         *)
(* A list is a sequence of URIs.  Rows are counted from 0 as in the code,  *)
(* so row i of a list is its element i + 1.                                *)
(***************************************************************************)
EXTENDS Integers, Sequences, FiniteSets

Rows(tracks) == 0 .. Len(tracks) - 1
Row(tracks, i) == tracks[i + 1]

\* The rows up to i that carry the URI of row i.
SameUriUpTo(tracks, i) == {j \in 0..i : Row(tracks, j) = Row(tracks, i)}

\* playback_occurrence of row i: 1 for the first `A` of a list, 2 for the
\* second, and so on.
Occurrence(tracks, i) == Cardinality(SameUriUpTo(tracks, i))

\* The counter a lookup asks for: 0 means "not filled in" and counts as 1.
Wanted(occurrence) == IF occurrence > 0 THEN occurrence ELSE 1

OccurrenceRows(tracks, uri, occurrence) ==
  {i \in Rows(tracks) : /\ Row(tracks, i) = uri
                        /\ Occurrence(tracks, i) = Wanted(occurrence)}

\* The row that is the given occurrence of `uri`, or -1.
OccurrenceIndexIn(tracks, uri, occurrence) ==
  LET rows == OccurrenceRows(tracks, uri, occurrence)
  IN IF rows = {} THEN -1 ELSE CHOOSE i \in rows : TRUE

\* The row of a History list that shows the record: two rows may share a URI,
\* and a record that was deleted while it plays has none.
RecordIndexIn(records, record) ==
  LET rows == {i \in Rows(records) : Row(records, i) = record}
  IN IF record = 0 \/ rows = {} THEN -1
     ELSE CHOOSE i \in rows : \A j \in rows : i <= j

\* The row of the list on screen that carries the marker, or -1: only a list of
\* the collection that owns playback has one. `records` are the ids of the rows
\* of History (0: none), `playing` is the row of the session's snapshot.
PlayingRowIn(displayed, context, valid, tracks, records, playing, is_history) ==
  IF ~valid \/ displayed # context THEN -1
  ELSE IF is_history THEN RecordIndexIn(records, playing.record)
  ELSE OccurrenceIndexIn(tracks, playing.uri, playing.occurrence)

\* What assignOccurrenceCounters() leaves in row i of a snapshot.
SnapshotRow(tracks, records, i) ==
  [uri |-> Row(tracks, i), occurrence |-> Occurrence(tracks, i),
   record |-> Row(records, i)]

Distinct(tracks) ==
  \A i, j \in 1..Len(tracks) : tracks[i] = tracks[j] => i = j
=============================================================================
