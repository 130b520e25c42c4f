---------------------------- MODULE HistoryStore ----------------------------
(***************************************************************************)
(* The store of the playback history (src/src/app/history.cpp): the        *)
(* records with their ids and their cap, the file behind them, and the     *)
(* view of the UI whose rows can be deleted (src/src/ui/app.cpp).          *)
(*                                                                         *)
(* It stores what the recorder (module HistoryRecorder) hands it, in the   *)
(* same step.  The process may end and start again at any time, with       *)
(* another cap; and the disk may refuse to be read or to be written.       *)
(***************************************************************************)
EXTENDS HistoryRecorder, SequencesExt

CONSTANTS
  Caps,      \* the values of history_max_entries over the restarts
  Switches,  \* the values of history_enabled over the restarts
  Files,     \* the histories that may be on disk in the beginning
  Disks,     \* what the disk may allow: sets of "read" and "write"
  MaxId      \* bound: the last id that is given to a record

ASSUME StoreAssumption ==
  /\ Caps \subseteq Nat \ {0}
  /\ Switches \subseteq BOOLEAN
  /\ \A f \in Files : f \in Seq([id : Nat, song : Song])
  /\ Disks \subseteq SUBSET {"read", "write"}
  /\ MaxId \in Nat

\* A file that was written before records had ids, or by save(). A file that is
\* edited by hand may be neither.
Unnumbered(list) == \A i \in DOMAIN list : list[i].id = 0
Numbered(list) ==
  /\ \A i \in DOMAIN list : list[i].id > 0
  /\ \A i, j \in DOMAIN list : i < j => list[i].id < list[j].id

FilesAreWritten == \A f \in Files : Unnumbered(f) \/ Numbered(f)

VARIABLES
  entries,  \* entries_, oldest first
  next_id,  \* next_id_
  cap,      \* max_entries_
  enabled,  \* config_.history_enabled
  view,     \* history_songs_, newest first
  file,     \* the history file
  disk      \* what the disk allows at present

store_vars == <<entries, next_id, cap, enabled, view, file, disk>>
history_vars == <<vars, store_vars>>

Entry == [id : Nat, song : Song]

StoreTypeOK ==
  /\ TypeOK
  /\ entries \in Seq(Entry) /\ Len(entries) <= cap
  /\ next_id \in Nat \ {0}
  /\ cap \in Caps
  /\ enabled \in Switches
  /\ view \in Seq(Entry)
  /\ file \in Seq(Entry)
  /\ disk \in Disks

Ids(list) == {list[i].id : i \in DOMAIN list}

-----------------------------------------------------------------------------
(* Loading.                                                                *)

\* MUTANT of Newest: the cap is one off.
NewestAndOne(list, n) ==
  SubSeq(list, IF Len(list) > n + 1 THEN Len(list) - n ELSE 1, Len(list))

Newest(list, n) ==
  SubSeq(list, IF Len(list) > n THEN Len(list) - n + 1 ELSE 1, Len(list))

\* The smallest id, from 1 on, above all of these.
Above(ids) == 1 + Max({0} \cup ids)

\* The ids of a loaded list: those stored, and for an entry without one the
\* next id of that moment, which is ahead of every id before it.
LoadedIds(list) ==
  LET id[i \in DOMAIN list] ==
        IF list[i].id > 0 THEN list[i].id
        ELSE Above({id[j] : j \in 1 .. i - 1})
  IN id

StoredEntries(list) ==
  [i \in DOMAIN list |-> [list[i] EXCEPT !.id = LoadedIds(list)[i]]]

\* MUTANT of NextIdAfterLoad: the counter only counts what it has given out.
NextIdAfterLoadUnmoved(list) ==
  Above({LoadedIds(list)[i] : i \in {j \in DOMAIN list : list[j].id = 0}})

NextIdAfterLoad(list) == Above(Ids(StoredEntries(list)))

\* What the constructor makes of a file: nothing when it is not read, and else
\* its newest entries.
LoadHistory(f, n, reads) ==
  IF reads THEN [entries |-> StoredEntries(Newest(f, n)),
                 next |-> NextIdAfterLoad(Newest(f, n))]
  ELSE [entries |-> <<>>, next |-> 1]

-----------------------------------------------------------------------------
(* Recording and saving.                                                   *)

\* MUTANT of Save: the file itself is written, and a failure cuts it short.
SaveInPlace ==
  IF "write" \in disk THEN file' = entries'
  ELSE \E n \in 0 .. Len(entries') : file' = SubSeq(entries', 1, n)

\* save(): a sibling file is written and renamed over the old one.  A failure
\* leaves the old file, as does the end of the process before the rename: then
\* it is as if the song had not been noticed, or the rows not been deleted.
Save == file' = IF "write" \in disk THEN entries' ELSE file

\* record() of a song that started, and save().
Record(song) ==
  /\ next_id <= MaxId
  /\ entries' = Newest(Append(entries, [id |-> next_id, song |-> song]), cap)
  /\ next_id' = next_id + 1
  /\ Save
  /\ UNCHANGED <<cap, enabled, view, disk>>

-----------------------------------------------------------------------------
(* The view and the deletion of its rows.                                  *)

\* The list without the entries at these indices.
Kept(list, gone) ==
  LET left == {i \in DOMAIN list : i \notin gone}
      nth(k) == CHOOSE i \in left : Cardinality({j \in left : j <= i}) = k
  IN [k \in 1 .. Cardinality(left) |-> list[nth(k)]]

RowsWith(lo, hi, id) == {k \in lo..hi : view[k].id = id}
EntriesBefore(i) == {j \in 1 .. i - 1 : entries[j].id = entries[i].id}

\* MUTANT of Doomed: the rows are looked up in the store of today.
DoomedByRow(lo, hi) == {i \in DOMAIN entries : Len(entries) + 1 - i \in lo..hi}

\* The entries that deleting the rows lo..hi of the view takes away: for every
\* row the first entry with its id, if there is one.
Doomed(lo, hi) ==
  {i \in DOMAIN entries :
     Cardinality(EntriesBefore(i)) < Cardinality(RowsWith(lo, hi, entries[i].id))}

\* The recorder has nothing to do with it.
NothingPlayed ==
  /\ recorded' = {}
  /\ UNCHANGED <<mpd, attached, recorder, unheard, seen>>

\* deleteHistoryRows() and removeHistoryRecords(): ids are collected from the
\* view on screen, removed one by one and saved at once; the view is rebuilt.
DeleteRows(lo, hi) ==
  /\ entries' = Kept(entries, Doomed(lo, hi))
  /\ IF Doomed(lo, hi) = {} THEN UNCHANGED file ELSE Save
  /\ view' = Reverse(entries')
  /\ UNCHANGED <<next_id, cap, enabled, disk>>

\* The timer, or opening History: the view follows the store.
RefreshHistoryView ==
  /\ view' = Reverse(entries)
  /\ UNCHANGED <<entries, next_id, cap, enabled, file, disk>>

-----------------------------------------------------------------------------
\* A sample: maybeRecordHistory() records the song that started, if one did.
Samples ==
  /\ RefreshPlayer \/ Attach
  /\ IF recorded' = {} THEN UNCHANGED store_vars
     ELSE \E song \in recorded' : Record(song)

\* Whatever else happens to the connection and in MPD.
Elsewhere ==
  /\ Detach \/ (\E s \in Song : MpdStarts(s)) \/ MpdHolds
  /\ UNCHANGED store_vars

\* The process ends, in any way, and starts again.
StartAgain ==
  /\ Restart
  /\ \E n \in Caps, on \in Switches :
       LET load == LoadHistory(file, n, on /\ "read" \in disk)
       IN  /\ cap' = n
           /\ enabled' = on
           /\ entries' = load.entries
           /\ next_id' = load.next
  /\ view' = <<>>
  /\ UNCHANGED <<file, disk>>

DiskChanges ==
  /\ disk' \in Disks \ {disk}
  /\ UNCHANGED <<entries, next_id, cap, enabled, view, file>>

StoreInit ==
  /\ Init
  /\ file \in Files
  /\ cap \in Caps
  /\ enabled \in Switches
  /\ disk \in Disks
  /\ LET load == LoadHistory(file, cap, enabled /\ "read" \in disk)
     IN  entries = load.entries /\ next_id = load.next
  /\ view = <<>>

StoreNext ==
  \/ Samples
  \/ Elsewhere
  \/ \E lo, hi \in DOMAIN view : lo <= hi /\ DeleteRows(lo, hi) /\ NothingPlayed
  \/ RefreshHistoryView /\ NothingPlayed
  \/ StartAgain
  \/ DiskChanges /\ NothingPlayed

StoreSpec == StoreInit /\ [][StoreNext]_history_vars

-----------------------------------------------------------------------------
(* Properties.                                                             *)

\* IdsIncrease: the records are in the order of their ids, and the next id is
\* ahead of all of them: an id names one record, which is what the deletion of
\* a row of an old view relies on, after any sequence of deletions, evictions,
\* failed saves, loads of old files and changes of the cap.
IdsIncrease ==
  /\ \A i, j \in DOMAIN entries : i < j => entries[i].id < entries[j].id
  /\ \A i \in DOMAIN entries : entries[i].id \in 1 .. next_id - 1

\* DeletionHitsView: deleting rows takes away exactly the records that were on
\* screen there and are still stored, although songs may have been recorded and
\* evicted since the view was built.
DeletionHitsView ==
  [][NothingPlayed =>
       \A lo, hi \in DOMAIN view : lo <= hi /\ DeleteRows(lo, hi)
         => ToSet(entries') = ToSet(entries) \ {view[i] : i \in lo..hi}]_history_vars

\* KeepsPromise: store, view and file implement HistoryPromise, where history
\* that is switched off is not to use the disk at all ("neither a read nor a
\* write", controller.cpp:34). Switched off it does not, since recording and
\* deleting save without asking: the theorem has []enabled as its hypothesis.
Promise == INSTANCE HistoryPromise
  WITH shown <- entries, durable <- file, onscreen <- view, limit <- cap, Limits <- Caps,
       usable <- IF enabled THEN disk ELSE {}
KeepsPromise == Promise!PromiseSpec
=============================================================================
