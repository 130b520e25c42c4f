--------------------------- MODULE HistoryRecorder ---------------------------
(***************************************************************************)
(* The recorder of the playback history (src/src/controller/controller.cpp,*)
(* maybeRecordHistory): it decides from the player samples of the          *)
(* Controller which songs started, and hands each of them to the store     *)
(* (module HistoryStore), with which it shares no other state.             *)
(*                                                                         *)
(* MPD plays on between two samples and between the two replies of one,    *)
(* the connection is lost and made again, and termusic is started again.   *)
(*                                                                         *)
(* A song stands for one entry of MPD's queue: its id and its tags.        *)
(***************************************************************************)
EXTENDS Integers

CONSTANTS
  Song,   \* entries of MPD's queue
  NoSong  \* nothing is loaded

ASSUME RecorderAssumption == NoSong \notin Song

VARIABLES
  mpd,       \* state and loaded song of the server
  attached,  \* backend_.connected()
  recorder,  \* history_identity_, history_last_state_ and history_primed_
  recorded,  \* what this step has handed to history_.record(), if anything
  unheard,   \* auxiliary: songs that started since the last sample
  seen       \* auxiliary: the song of the last sample

vars == <<mpd, attached, recorder, recorded, unheard, seen>>

MaybeSong == Song \cup {NoSong}
PlayState == {"stopped", "playing", "paused"}
Loaded == [state : PlayState, song : Song]
Empty == [state |-> "stopped", song |-> NoSong]
Unprimed == [identity |-> NoSong, last |-> "stopped", primed |-> FALSE]

TypeOK ==
  /\ mpd \in Loaded \cup {Empty}
  /\ attached \in BOOLEAN
  /\ recorder \in [identity : MaybeSong, last : PlayState, primed : BOOLEAN]
  /\ recorded \in SUBSET Song
  /\ unheard \in SUBSET Song
  /\ seen \in MaybeSong

-----------------------------------------------------------------------------
(* Does a sample show the start of a song?                                 *)

\* `status` answered in state m, `currentsong` in state n.
Sample(m, n) == [state |-> m.state, id |-> m.song, tags |-> n.song]

\* What a fetch leaves that breaks at the first or at the second reply.
BrokenSamples(m) == {Sample(Empty, Empty), Sample(m, Empty)}

\* Both replies name a song.
HasSong(p) == p.id # NoSong /\ p.tags # NoSong

IsStart(p, r) ==
  /\ HasSong(p)
  /\ r.primed
  /\ \/ r.identity = NoSong
     \/ p.id # r.identity
     \/ p.state = "playing" /\ r.last = "stopped"

\* MUTANT of Observed: a sample without a song does not prime the recorder.
ObservedSongOnly(p, r) ==
  [identity |-> IF HasSong(p) THEN p.id ELSE NoSong,
   last |-> p.state, primed |-> r.primed \/ HasSong(p)]

\* The recorder after a sample.
Observed(p, r) ==
  [identity |-> IF HasSong(p) THEN p.id ELSE NoSong,
   last |-> p.state, primed |-> TRUE]

-----------------------------------------------------------------------------
(* Samples: the one after attaching, and any other.                        *)

\* Nothing happens between the two replies, a song starts, or the queue ends.
DuringSample(m) == {m, Empty} \cup [state : {"playing"}, song : Song]

StartsNow(m, n) == IF n = m THEN {} ELSE {n.song} \ {NoSong}

\* maybeRecordHistory() with the sample p, from the recorder state r.
MaybeRecordHistory(p, r) ==
  /\ recorder' = Observed(p, r)
  /\ recorded' = IF IsStart(p, r) THEN {p.tags} ELSE {}

Sampled(r) ==
  \/ \E n \in DuringSample(mpd) :
       /\ attached' = TRUE
       /\ mpd' = n
       /\ MaybeRecordHistory(Sample(mpd, n), r)
       /\ unheard' = StartsNow(mpd, n)
       /\ seen' = mpd.song
  \/ \E p \in BrokenSamples(mpd) :
       /\ attached' = FALSE
       /\ MaybeRecordHistory(p, r)
       /\ unheard' = {}
       /\ seen' = NoSong
       /\ UNCHANGED mpd

\* refreshPlayer(), for an event or after a command.
RefreshPlayer == attached /\ Sampled(recorder)

\* MUTANT of Attach: the new connection goes on with the old observation.
AttachPrimed == Sampled(recorder)

\* reconnect() on a fresh connection.
Attach == Sampled([recorder EXCEPT !.primed = FALSE])

Detach ==
  /\ attached
  /\ attached' = FALSE
  /\ recorded' = {}
  /\ unheard' = {}
  /\ seen' = NoSong
  /\ UNCHANGED <<mpd, recorder>>

\* The process ends and starts again.
Restart ==
  /\ attached' = FALSE
  /\ recorder' = Unprimed
  /\ recorded' = {}
  /\ unheard' = {}
  /\ seen' = NoSong
  /\ UNCHANGED mpd

-----------------------------------------------------------------------------
(* MPD and its clients, termusic among them.                               *)

MpdStarts(s) ==
  /\ mpd' = [state |-> "playing", song |-> s]
  /\ recorded' = {}
  /\ unheard' = IF attached THEN unheard \cup {s} ELSE unheard
  /\ UNCHANGED <<attached, recorder, seen>>

\* Pause, resume and stop keep the song; at the end of the queue it is gone.
MpdHolds ==
  /\ \/ mpd.state = "playing" /\ mpd' = [mpd EXCEPT !.state = "paused"]
     \/ mpd.state = "paused" /\ mpd' = [mpd EXCEPT !.state = "playing"]
     \/ mpd' = [mpd EXCEPT !.state = "stopped"]
     \/ mpd' = Empty
  /\ recorded' = {}
  /\ UNCHANGED <<attached, recorder, unheard, seen>>

-----------------------------------------------------------------------------
\* MPD has been running before termusic starts.
Init ==
  /\ mpd \in Loaded \cup {Empty}
  /\ attached = FALSE
  /\ recorder = Unprimed
  /\ recorded = {}
  /\ unheard = {}
  /\ seen = NoSong

Next ==
  \/ RefreshPlayer
  \/ Attach
  \/ Detach
  \/ Restart
  \/ \E s \in Song : MpdStarts(s)
  \/ MpdHolds

Spec == Init /\ [][Next]_vars

-----------------------------------------------------------------------------
(* Properties.                                                             *)

\* RecordsAreStarts: a record is only made of a song that MPD started since the
\* last sample, while termusic was attached: none for a resume, a reconnect, a
\* restart of termusic, or the song that was playing all along.
RecordsAreStarts == [][recorded' \subseteq unheard \cup unheard']_vars

\* StartIsRecorded: a song that was started since the last sample and is loaded
\* now, when it is not the one the last sample saw, gets its record, also when
\* nothing was loaded at the last sample or the song was paused meanwhile.
StartIsRecorded ==
  [][mpd.song \in unheard /\ mpd.song # seen
     /\ attached' /\ mpd' = mpd /\ RefreshPlayer
     => mpd.song \in recorded']_vars

\* RecorderInv: while attached, a loaded song that did not start since the last
\* sample is the one the recorder knows, and the recorder has not seen it
\* stopped; and what the recorder knows is what the last sample saw.
RecorderInv ==
  /\ TypeOK
  /\ attached =>
       /\ recorder.primed
       /\ recorder.identity # NoSong => recorder.identity = seen
       /\ mpd.song # NoSong /\ mpd.song \notin unheard
            => /\ recorder.identity = mpd.song
               /\ mpd.state # "stopped" => recorder.last # "stopped"
=============================================================================
