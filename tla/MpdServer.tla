------------------------------ MODULE MpdServer ------------------------------
(***************************************************************************)
(* The part of the MPD daemon that termusic talks to: the play queue, the  *)
(* current entry, the play state and the random flag.  MPD is not part of  *)
(* the repository; every operator below is the behaviour that              *)
(* src/src/backend/mpd_backend.cpp and src/src/controller/controller.cpp   *)
(* rely on when they issue the command of the same name.                   *)
(*                                                                         *)
(* The server is a record, and a command is the set of states it may lead  *)
(* to.  The empty set means that MPD answers with an ACK error.            *)
(***************************************************************************)
EXTENDS Integers, Sequences, FiniteSets

CONSTANTS
  Uri,          \* song URIs
  NoUri,        \* "no song", different from every URI
  Id,           \* queue ids MPD may hand out
  NoId,         \* the -1 of PlayerState::current_song_id
  MaxQueue,     \* bound: longest queue considered
  Fresh(_, _)   \* Fresh(n, used): the id tuples MPD may give n new entries

\* MPD never hands out an id that is in use.
FreshOk(n, used) ==
  \A ids \in Fresh(n, used) :
     /\ ids \in [1..n -> Id \ used]
     /\ \A i, j \in 1..n : ids[i] = ids[j] => i = j

ASSUME ServerAssumption ==
  /\ NoUri \notin Uri
  /\ NoId \notin Id
  /\ MaxQueue \in Nat \ {0}
  /\ \A n \in 0..MaxQueue : \A used \in SUBSET (Id \cup {NoId}) : FreshOk(n, used)

PlayState == {"stopped", "playing", "paused"}

Entry == [uri : Uri, id : Id]

ServerType ==
  [queue : Seq(Entry), current : Int, state : PlayState,
   random : BOOLEAN, heard : SUBSET Id]

Positions(m) == 0 .. Len(m.queue) - 1
Ids(m) == {m.queue[i].id : i \in 1..Len(m.queue)}
HasCurrent(m) == m.current # -1
CurrentId(m) == IF HasCurrent(m) THEN m.queue[m.current + 1].id ELSE NoId
CurrentUri(m) == IF HasCurrent(m) THEN m.queue[m.current + 1].uri ELSE NoUri
Uris(q) == [i \in 1..Len(q) |-> q[i].uri]

\* A well-formed server: the queue is within the bound, ids are unique, the current entry exists, and a server
\* with no current entry is stopped.
ServerOk(m) ==
  /\ m \in ServerType
  /\ Len(m.queue) <= MaxQueue
  /\ \A i, j \in 1..Len(m.queue) : m.queue[i].id = m.queue[j].id => i = j
  /\ m.current \in Positions(m) \cup {-1}
  /\ m.current = -1 => m.state = "stopped"

EmptyServer ==
  [queue |-> <<>>, current |-> -1, state |-> "stopped",
   random |-> FALSE, heard |-> {}]

-----------------------------------------------------------------------------
(* What a command does to the server.                                      *)

\* heard: the ids played since the random round began.
PlayingAt(m, p) ==
  [m EXCEPT !.current = p, !.state = "playing",
            !.heard = IF m.random THEN @ \cup {m.queue[p + 1].id} ELSE @]

Finished(m) ==
  [m EXCEPT !.current = -1, !.state = "stopped", !.heard = {}]

Unheard(m) == {p \in Positions(m) : m.queue[p + 1].id \notin m.heard}

\* The end of a track, and `next`: the following entry, or with random one that
\* has not been played in this round; at the end the queue stops, or with
\* repeat starts over.
Following(m) ==
  IF m.random
  THEN IF Unheard(m) # {}
       THEN {PlayingAt(m, p) : p \in Unheard(m)}
       ELSE {Finished(m)} \cup
            {PlayingAt([m EXCEPT !.heard = {}], p) : p \in Positions(m)}
  ELSE IF m.current + 1 \in Positions(m)
       THEN {PlayingAt(m, m.current + 1)}
       ELSE {Finished(m), PlayingAt(m, 0)}

\* With random, `previous` goes back along what was played.
Preceding(m) ==
  IF m.random
  THEN {PlayingAt(m, p) : p \in Positions(m) \ Unheard(m)}
  ELSE IF m.current > 0
       THEN {PlayingAt(m, m.current - 1)}
       ELSE {PlayingAt(m, 0), PlayingAt(m, Len(m.queue) - 1)}

TrackEnd(m)    == IF m.state = "playing" THEN Following(m) ELSE {}
CmdNext(m)     == IF m.state # "stopped" THEN Following(m) ELSE {}
CmdPrevious(m) == IF m.state # "stopped" THEN Preceding(m) ELSE {}
CmdPlayPos(m, p) == IF p \in Positions(m) THEN {PlayingAt(m, p)} ELSE {}

CmdPlay(m) ==
  IF HasCurrent(m) THEN {PlayingAt(m, m.current)}
  ELSE IF m.queue = <<>> THEN {m}
  ELSE {PlayingAt(m, p) : p \in IF m.random THEN Positions(m) ELSE {0}}

CmdPause(m, on) ==
  {[m EXCEPT !.state = IF m.state = "stopped" THEN @
                       ELSE IF on THEN "paused" ELSE "playing"]}

CmdStop(m) == {[m EXCEPT !.state = "stopped"]}

CmdRandom(m, on) ==
  {[m EXCEPT !.random = on,
             !.heard = IF on /\ HasCurrent(m) THEN {CurrentId(m)} ELSE {}]}

\* `clear` followed by adding `tracks`.
Refilled(m, tracks, ids) ==
  [m EXCEPT !.queue = [i \in 1..Len(tracks) |->
                         [uri |-> tracks[i], id |-> ids[i]]],
            !.current = -1, !.state = "stopped", !.heard = {}]

CmdAdd(m, u, used) ==
  {[m EXCEPT !.queue = Append(@, [uri |-> u, id |-> ids[1]])] :
     ids \in Fresh(1, used \cup Ids(m))}

\* Deleting position p.  When it is the current entry of a playing queue, MPD
\* goes on with the entry that takes its place; otherwise nothing is current.
CmdDelete(m, p) ==
  LET q    == [i \in 1 .. Len(m.queue) - 1 |->
                 m.queue[IF i <= p THEN i ELSE i + 1]]
      rest == [m EXCEPT !.queue = q, !.heard = @ \ {m.queue[p + 1].id}]
  IN IF p \notin Positions(m) THEN {}
     ELSE IF p < m.current THEN {[rest EXCEPT !.current = @ - 1]}
     ELSE IF p > m.current THEN {rest}
     ELSE IF m.state = "playing" /\ p < Len(q) THEN {PlayingAt(rest, p)}
     ELSE {Finished(rest)}

\* The idle events MPD raises for a change from m to n.
Raised(m, n) ==
  {e \in {"player", "options", "queue"} :
     \/ e = "player"  /\ <<m.state, CurrentId(m)>> # <<n.state, CurrentId(n)>>
     \/ e = "options" /\ m.random # n.random
     \/ e = "queue"   /\ m.queue # n.queue}
=============================================================================
