--------------------------- MODULE PlaybackSession ---------------------------
(***************************************************************************)
(* The playback context of the Controller                                  *)
(* (src/src/controller/controller.cpp): the snapshot a run was started     *)
(* from, the row of it that is playing, and how Next, Previous, MPD's own  *)
(* progress, other clients and a failing connection move it.               *)
(*                                                                         *)
(* One action is one handler of the UI thread, with every MPD command it   *)
(* sends; between two handlers MPD plays on, other clients use it, and the *)
(* connection may break.  Inside a handler the connection may break after  *)
(* any command, and the track may end between the two replies that make up *)
(* one player sample.                                                      *)
(*                                                                         *)
(* The history recorder, which observes the same samples and shares no     *)
(* state with the session, is module HistoryRecorder.                      *)
(***************************************************************************)
EXTENDS MpdServer, PlaybackRules

CONSTANTS
  Outside,    \* what the world around termusic does, to bound a run
  Lists,      \* the track lists a run may be started from
  Contexts,   \* the collections those lists may be shown in
  NoContext   \* PlaybackCollection::Kind::None

ASSUME SessionAssumption ==
  /\ Outside \subseteq {"client", "remote", "link", "shuffle"}
  /\ \A l \in Lists : l \in Seq(Uri) /\ Len(l) \in 1..MaxQueue
  /\ NoContext \notin Contexts

VARIABLES
  mpd,            \* the server
  link,           \* "up", "deaf": only the event connection is dead, "down"
  pending,        \* idle events raised and not yet handled by the UI thread
  mpd_connected,  \* state_.mpd_connected
  player,         \* state_.player: the last sample
  session,        \* session_
  observed        \* observed_uri_ and observed_song_id_

vars == <<mpd, link, pending, mpd_connected, player, session, observed>>

Link == {"up", "deaf", "down"}
Event == {"player", "options", "queue"}
Connected == link = "up"
LinkMayBreak == "link" \in Outside

PlayerSample ==
  [state : PlayState, uri : Uri \cup {NoUri}, id : Id \cup {NoId},
   random : BOOLEAN]
BlankPlayer ==
  [state |-> "stopped", uri |-> NoUri, id |-> NoId, random |-> FALSE]

NoSession == [context |-> NoContext, seq |-> <<>>, occ |-> -1]
Valid(s) == s.context # NoContext
Session ==
  {NoSession} \cup
  {s \in [context : Contexts, seq : Lists, occ : Nat] : s.occ \in Rows(s.seq)}

NotObserved == [uri |-> NoUri, id |-> NoId]
Observed == [uri : Uri \cup {NoUri}, id : Id \cup {NoId}]

TypeOK ==
  /\ ServerOk(mpd)
  /\ link \in Link
  /\ pending \in SUBSET Event
  /\ mpd_connected \in BOOLEAN
  /\ player \in PlayerSample
  /\ session \in Session
  /\ observed \in Observed

-----------------------------------------------------------------------------
(* One player sample, and what the session makes of it.                    *)

\* `status` answered in state m, `currentsong` in state n.
Sample(m, n) ==
  [state |-> m.state, uri |-> CurrentUri(n), id |-> CurrentId(m),
   random |-> m.random]

\* The samples an aborted fetch leaves: nothing, or the status alone.
BrokenSamples(m) == {BlankPlayer, [Sample(m, m) EXCEPT !.uri = NoUri]}

HasSong(p) == p.uri # NoUri /\ p.id # NoId
Identity(p) == [uri |-> p.uri, id |-> p.id]

\* MUTANT of Resolved: a song that left the snapshot keeps the session.
ResolvedKeepingLost(s, uri) ==
  LET index == OccurrenceIndexIn(s.seq, uri, 0)
  IN IF index < 0 THEN s ELSE [s EXCEPT !.occ = index]

\* MUTANT of Resolved: a song of the snapshot leaves the row where it was.
ResolvedKeepingRow(s, uri) ==
  IF OccurrenceIndexIn(s.seq, uri, 0) < 0 THEN NoSession ELSE s

\* MPD's current song carries no duplicate counter, so it is looked up as the
\* first occurrence of its URI.
Resolved(s, uri) ==
  LET index == OccurrenceIndexIn(s.seq, uri, 0)
  IN IF index < 0 THEN NoSession ELSE [s EXCEPT !.occ = index]

\* From sample p, session s and observation o to the new session.
SyncPlaybackSession(p, s, o) ==
  \/ /\ ~HasSong(p)
     /\ observed' = NotObserved
     /\ session' = IF p.state = "stopped" THEN NoSession ELSE s
  \/ /\ HasSong(p)
     /\ Identity(p) = o
     /\ observed' = o
     /\ session' = s
  \/ /\ HasSong(p)
     /\ Identity(p) # o
     /\ observed' = Identity(p)
     /\ session' = IF Valid(s) THEN Resolved(s, p.uri) ELSE s

\* refreshPlayer() with the server in state m.  Both replies arrive, and the
\* track may end between them; or the connection breaks.
RefreshPlayer(m, s, o, events) ==
  \/ \E n \in {m} \cup TrackEnd(m) :
       /\ link' = "up"
       /\ mpd' = n
       /\ player' = Sample(m, n)
       /\ SyncPlaybackSession(Sample(m, n), s, o)
       /\ pending' = events \cup Raised(mpd, m) \cup Raised(m, n)
       /\ mpd_connected' = TRUE
  \/ \E p \in BrokenSamples(m) :
       /\ LinkMayBreak
       /\ link' = "down"
       /\ mpd' = m
       /\ player' = p
       /\ SyncPlaybackSession(p, s, o)
       /\ pending' = events
       /\ mpd_connected' = FALSE

\* refreshQueue() copies the queue into state_.queue, which no rule of this
\* module reads; what matters here is that it may find the connection broken.
RefreshQueueAndPlayer(m, s, o, events) ==
  \/ RefreshPlayer(m, s, o, events)
  \/ /\ LinkMayBreak
     /\ link' = "down"
     /\ mpd' = m
     /\ pending' = events
     /\ mpd_connected' = FALSE
     /\ session' = s
     /\ observed' = o
     /\ UNCHANGED player

RefreshPlayerAndQueue(m, s, o, events) ==
  \/ RefreshPlayer(m, s, o, events)
  \/ \E n \in {m} \cup TrackEnd(m) :
       /\ LinkMayBreak
       /\ link' = "down"
       /\ mpd' = n
       /\ player' = Sample(m, n)
       /\ SyncPlaybackSession(Sample(m, n), s, o)
       /\ pending' = events
       /\ mpd_connected' = FALSE

RefreshQueue(events) ==
  /\ \/ mpd_connected' = TRUE /\ UNCHANGED link
     \/ LinkMayBreak /\ link' = "down" /\ mpd_connected' = FALSE
  /\ pending' = events
  /\ UNCHANGED <<mpd, player, session, observed>>

-----------------------------------------------------------------------------
(* Transport commands: send one command, report it, take a sample.         *)

\* The command is answered while connected() is false: reportResult(true) says
\* connected all the same, and no sample is taken.
AnsweredDeaf(cmd, s, o) ==
  /\ link = "deaf"
  /\ mpd' \in cmd
  /\ mpd_connected' = TRUE
  /\ session' = s
  /\ observed' = o
  /\ UNCHANGED <<link, pending, player>>

\* An ACK error from a server that is otherwise deaf.
RefusedDeaf ==
  /\ link = "deaf"
  /\ mpd_connected' = FALSE
  /\ UNCHANGED <<mpd, link, pending, player, session, observed>>

\* The connection is dead, or dies under the command; MPD may or may not have
\* carried it out.
CommandLost(cmd) ==
  /\ LinkMayBreak \/ link = "down"
  /\ mpd' \in IF link = "down" THEN {mpd} ELSE cmd \cup {mpd}
  /\ link' = "down"
  /\ mpd_connected' = FALSE
  /\ UNCHANGED <<pending, player, session, observed>>

\* reportResult() of the command, then refreshPlayer() whatever the result.
CommandThenRefresh(cmd) ==
  \/ /\ Connected
     /\ \E m \in cmd \cup {mpd} : RefreshPlayer(m, session, observed, pending)
  \/ AnsweredDeaf(cmd, session, observed)
  \/ RefusedDeaf
  \/ CommandLost(cmd)

\* reportResult() of the command, then refreshPlayer() only when it was done,
\* with session s and observation o set in between.
CommandThenRefreshIfDone(cmd, s, o) ==
  \/ /\ Connected
     /\ \E m \in cmd : RefreshPlayer(m, s, o, pending)
  \/ /\ Connected
     /\ mpd_connected' = TRUE
     /\ UNCHANGED <<mpd, link, pending, player, session, observed>>
  \/ AnsweredDeaf(cmd, s, o)
  \/ RefusedDeaf
  \/ CommandLost(cmd)

\* Space: pause, resume or play, by the state of the last sample.
TogglePlay ==
  CommandThenRefreshIfDone(
    CASE player.state = "playing" -> CmdPause(mpd, TRUE)
      [] player.state = "paused"  -> CmdPause(mpd, FALSE)
      [] player.state = "stopped" -> CmdPlay(mpd),
    session, observed)

ToggleShuffle ==
  /\ "shuffle" \in Outside
  /\ CommandThenRefresh(CmdRandom(mpd, ~player.random))

\* Seek, volume and repeat: commands that change nothing modelled here, and
\* still take a sample.
SeekVolumeRepeat == CommandThenRefresh({mpd})

\* MUTANT of StepTarget: no wrapping at the ends.
StepTargetClamped(s, delta) ==
  IF s.occ + delta \in Rows(s.seq) THEN s.occ + delta ELSE s.occ

\* The row Next (delta 1) or Previous (delta -1) leads to, wrapping at the ends.
\* (% is never negative here, which in the code takes a second addition.)
StepTarget(s, delta) == (s.occ + delta) % Len(s.seq)

SteppedTo(s, to) == [s EXCEPT !.occ = to]

\* MPD decides the next entry: there is no context, or MPD shuffles.
StepByMpd(delta) ==
  CommandThenRefresh(IF delta > 0 THEN CmdNext(mpd) ELSE CmdPrevious(mpd))

\* MUTANT of StepInSnapshot: observed_song_id_ is not reset.
StepInSnapshotObserved(delta) ==
  LET to == StepTarget(session, delta)
  IN CommandThenRefreshIfDone(CmdPlayPos(mpd, to), SteppedTo(session, to),
                              observed)

\* Sequential: play the queue position of the neighbouring snapshot row.
StepInSnapshot(delta) ==
  LET to == StepTarget(session, delta)
  IN CommandThenRefreshIfDone(CmdPlayPos(mpd, to), SteppedTo(session, to),
                              [uri |-> Row(session.seq, to), id |-> NoId])

\* MUTANT of StepContext: the step ignores shuffle.
StepContextByRow(delta) ==
  IF Valid(session) THEN StepInSnapshot(delta) ELSE StepByMpd(delta)

StepContext(delta) ==
  IF Valid(session) /\ ~player.random
  THEN StepInSnapshot(delta) ELSE StepByMpd(delta)

-----------------------------------------------------------------------------
(* Starting a run: Enter on a row.                                         *)

\* MUTANT of NewSession: the row is counted from 1.
NewSessionFromOne(tracks, start, context) ==
  [context |-> context, seq |-> tracks, occ |-> start + 1]

NewSession(tracks, start, context) ==
  [context |-> context, seq |-> tracks, occ |-> start]

\* playSequence: the command list, clear and adds, replaced the queue by the
\* first k tracks.
Loaded(tracks, k) ==
  {Refilled(mpd, SubSeq(tracks, 1, k), ids) :
     ids \in Fresh(Len(tracks), {observed.id, player.id})}

Started(tracks, start) ==
  UNION {CmdPlayPos(m, start) : m \in Loaded(tracks, Len(tracks))}

\* What a failing playSequence leaves: MPD carries out a command list up to
\* the command it refuses, and the position is a command of its own.
HalfLoaded(tracks) == UNION {Loaded(tracks, k) : k \in 0..Len(tracks)}

PlayTrackAt(tracks, start, context) ==
  LET new  == NewSession(tracks, start, context)
      seen == [uri |-> Row(tracks, start), id |-> NoId]
  IN /\ Connected
     /\ \/ \E m \in Started(tracks, start) :
             RefreshQueueAndPlayer(m, new, seen, pending)
        \/ /\ mpd' \in HalfLoaded(tracks)
           /\ pending' = pending \cup Raised(mpd, mpd')
           /\ mpd_connected' = TRUE
           /\ UNCHANGED <<link, player, session, observed>>
        \/ CommandLost(HalfLoaded(tracks) \cup Started(tracks, start))

-----------------------------------------------------------------------------
(* Backend events, timers and reconnecting.                                *)

\* MUTANT of AsksPlayer: a queue event is handled instead of a player event.
AsksPlayerUnlessQueue(events) ==
  events \cap {"player", "options"} # {} /\ "queue" \notin events

\* Player, Mixer and Options ask for a sample, Queue for the queue.
AsksPlayer(events) == events \cap {"player", "options"} # {}
AsksQueue(events) == "queue" \in events

\* handleBackendEvent(events): an arbitrary part of what is pending has been
\* batched by MPD and posted to the UI thread.
HandleBackendEvent(events) ==
  /\ events # {}
  /\ \/ /\ Connected
        /\ AsksPlayer(events) /\ AsksQueue(events)
        /\ RefreshPlayerAndQueue(mpd, session, observed, pending \ events)
     \/ /\ Connected
        /\ AsksPlayer(events) /\ ~AsksQueue(events)
        /\ RefreshPlayer(mpd, session, observed, pending \ events)
     \/ /\ Connected
        /\ AsksQueue(events) /\ ~AsksPlayer(events)
        /\ RefreshQueue(pending \ events)
     \/ /\ ~Connected
        /\ pending' = pending \ events
        /\ mpd_connected' = FALSE
        /\ UNCHANGED <<mpd, link, player, session, observed>>

\* processTimers(): the UI notices a dead connection.
NoticeDisconnect ==
  /\ mpd_connected
  /\ ~Connected
  /\ mpd_connected' = FALSE
  /\ UNCHANGED <<mpd, link, pending, player, session, observed>>

\* reconnect() when the 300 ms probe fails.  The old connection is not closed.
ProbeFailed ==
  /\ LinkMayBreak \/ link = "down"
  /\ mpd_connected' = FALSE
  /\ player' = IF mpd_connected THEN BlankPlayer ELSE player
  /\ UNCHANGED <<mpd, link, pending, session, observed>>

\* reconnect() when the probe succeeds and the connection cannot be set up.
ConnectFailed ==
  /\ LinkMayBreak \/ link = "down"
  /\ link' = "down"
  /\ mpd_connected' = FALSE
  /\ player' = BlankPlayer
  /\ UNCHANGED <<mpd, pending, session, observed>>

\* reconnect() on a fresh connection: sample, then queue.
ConnectSucceeded == RefreshPlayerAndQueue(mpd, session, observed, pending)

Reconnect == ProbeFailed \/ ConnectFailed \/ ConnectSucceeded

-----------------------------------------------------------------------------
(* What happens around termusic.                                           *)

\* The server changes without termusic.
ServerMoves(next) ==
  /\ mpd' \in next
  /\ pending' = IF Connected THEN pending \cup Raised(mpd, mpd') ELSE pending
  /\ UNCHANGED <<link, mpd_connected, player, session, observed>>

TrackEnds == ServerMoves(TrackEnd(mpd))

ClientPlays   == \E p \in Positions(mpd) : ServerMoves(CmdPlayPos(mpd, p))
ClientPauses  == \E on \in BOOLEAN : ServerMoves(CmdPause(mpd, on))
ClientStops   == ServerMoves(CmdStop(mpd))
ClientDeletes == \E p \in Positions(mpd) : ServerMoves(CmdDelete(mpd, p))
ClientShuffles ==
  /\ "shuffle" \in Outside
  /\ ServerMoves(CmdRandom(mpd, ~mpd.random))
ClientAdds ==
  /\ Len(mpd.queue) < MaxQueue
  /\ \E u \in Uri : ServerMoves(CmdAdd(mpd, u, {observed.id, player.id}))

\* Another client; a remote only picks what plays.
OtherClient ==
  \/ /\ Outside \cap {"client", "remote"} # {}
     /\ ClientPlays \/ ClientShuffles
  \/ /\ "client" \in Outside
     /\ ClientPauses \/ ClientStops \/ ClientDeletes \/ ClientAdds

LinkBreaks ==
  /\ LinkMayBreak
  /\ link # "down"
  /\ link' \in {"deaf", "down"} \ {link}
  /\ UNCHANGED <<mpd, pending, mpd_connected, player, session, observed>>

\* A restarted MPD numbers its queue anew, and a new id may be an old one.
ServerRestarts ==
  /\ LinkMayBreak
  /\ link' = "down"
  /\ mpd' \in {[mpd EXCEPT !.queue = [i \in 1..Len(mpd.queue) |->
                                       [mpd.queue[i] EXCEPT !.id = ids[i]]],
                           !.state = "stopped", !.heard = {}] :
                ids \in Fresh(Len(mpd.queue), {})}
  /\ UNCHANGED <<pending, mpd_connected, player, session, observed>>

-----------------------------------------------------------------------------
\* Startup: the first connection attempt of initialize() is a Reconnect.
Init ==
  /\ mpd = EmptyServer
  /\ link = "down"
  /\ pending = {}
  /\ mpd_connected = FALSE
  /\ player = BlankPlayer
  /\ session = NoSession
  /\ observed = NotObserved

UserActs ==
  \/ \E l \in Lists : \E i \in Rows(l) : \E c \in Contexts : PlayTrackAt(l, i, c)
  \/ \E delta \in {1, -1} : StepContext(delta)
  \/ TogglePlay
  \/ ToggleShuffle
  \/ SeekVolumeRepeat

Next ==
  \/ UserActs
  \/ \E events \in SUBSET pending : HandleBackendEvent(events)
  \/ NoticeDisconnect
  \/ Reconnect
  \/ TrackEnds
  \/ OtherClient
  \/ LinkBreaks
  \/ ServerRestarts

Spec == Init /\ [][Next]_vars

\* handleBackendEvent(events) when nothing interferes: the two replies of the
\* sample are of one state, or the dead connection is noticed.
HandledCleanly(events) ==
  \/ /\ Connected
     /\ SyncPlaybackSession(Sample(mpd, mpd), session, observed)
     /\ player' = Sample(mpd, mpd)
     /\ pending' = pending \ events
     /\ mpd_connected' = TRUE
     /\ UNCHANGED <<mpd, link>>
  \/ /\ ~Connected
     /\ pending' = pending \ events
     /\ mpd_connected' = FALSE
     /\ UNCHANGED <<mpd, link, player, session, observed>>

\* The events of the event thread reach the UI thread in order, each batch with
\* every flag MPD had raised, and the UI loop runs every posted closure: a
\* player event that stays pending is handled.  The two replies of a sample are
\* one round trip apart, so neither the track nor the connection ends between
\* them every time.
PlayerEventHandled ==
  \E events \in SUBSET pending : "player" \in events /\ HandledCleanly(events)

FairSpec == Spec /\ WF_vars(PlayerEventHandled)

-----------------------------------------------------------------------------
(* Properties.                                                             *)

PlayerNewsPending == pending \cap {"player", "options"} # {}

\* MarkerTruth: while the connection is up and no player event is waiting, a
\* run is only ever shown when MPD really is on a song of its snapshot, at the
\* row the session names.  This is what syncPlaybackSession() is for: another
\* client, a failed start, a shuffle step, an end of the queue, a reconnect
\* or a sample torn by the end of a track must never leave the marker on a
\* song that is not the current one.
MarkerTruth ==
  Connected /\ "player" \notin pending /\ Valid(session)
    => Row(session.seq, session.occ) = CurrentUri(mpd)

\* ObservedNamesRow: the identity the next sample is compared with belongs to
\* the row the session names, so an unchanged sample may keep the row.
ObservedNamesRow ==
  Valid(session) /\ observed.id # NoId
    => Row(session.seq, session.occ) = observed.uri

\* SessionInv: MarkerTruth made inductive.
SessionInv == TypeOK /\ MarkerTruth /\ ObservedNamesRow

\* PlayerViewFresh: what the player bar shows is the server's state, or an
\* event that will refresh it is waiting, or it is blank (a failed probe
\* blanks it and leaves the connection open).
PlayerViewFresh ==
  Connected => \/ player = Sample(mpd, mpd)
               \/ PlayerNewsPending
               \/ player = BlankPlayer

Quiet == Connected /\ pending = {}
OnSnapshotQueue == Valid(session) /\ Uris(mpd.queue) = session.seq

\* StepPlaysNeighbour: with nothing pending, no shuffle, and the queue still
\* the snapshot of a list without duplicates, Next and Previous start exactly
\* the entry one row on, wrapping at both ends; a refused step moves nothing.
\* It ties session_.occurrence, which the step is computed from, to the entry
\* MPD is really on.
StepPlaysNeighbour ==
  [][\A delta \in {1, -1} :
       /\ Quiet /\ link' = "up"
       /\ OnSnapshotQueue /\ Distinct(session.seq) /\ ~player.random
       /\ StepContext(delta)
       => \/ UNCHANGED <<mpd, session>>
          \/ LET to == (mpd.current + delta) % Len(mpd.queue)
             IN player'.id = mpd.queue[to + 1].id
    ]_vars

\* ShuffleNeverRepeats: with shuffle on, Next never goes back to an entry that
\* was already played in this round while others are left; a step computed
\* from the snapshot row would.
ShuffleNeverRepeats ==
  [][/\ Quiet /\ link' = "up"
     /\ player.random /\ mpd.random /\ Unheard(mpd) # {}
     /\ StepContext(1)
     => \/ player'.id = CurrentId(mpd)        \* refused
        \/ player'.id \notin mpd.heard
    ]_vars

\* MarkerSettles: whatever MPD and other clients do, the marker is right, or
\* gone, again and again: it cannot stay on a song that is not the current one
\* while the connection is up.
MarkerSettles ==
  []<>(Connected /\ Valid(session)
         => Row(session.seq, session.occ) = CurrentUri(mpd))

\* MarkerNamesTheEntry: while the queue is the snapshot, the row the session
\* names is the queue position MPD is on -- also when the list holds a song
\* twice (state.hpp, playback_occurrence: "which is what lets `the second A is
\* playing' be expressed at all").
MarkerNamesTheEntry ==
  Quiet /\ OnSnapshotQueue /\ HasCurrent(mpd) => session.occ = mpd.current
=============================================================================
