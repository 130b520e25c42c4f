---------------------------- MODULE Backend_proofs ----------------------------
(* Proofs about the two halves of the MPD backend, for all values of the      *)
(* constants: the connection with its event thread (Connection), then the     *)
(* listings and sizes that are read over it (Database).                       *)
EXTENDS Connection, Database, SequenceTheorems, TLAPS

\* What the two properties rest on: before the launch there is no connection,
\* and nobody asks the event thread to stop as long as termusic is in use.
NotAskedToStop == phase = "running" => ~stop
NothingBeforeLaunch == phase = "starting" => command.to = NoEndpoint /\ ~stop

ConnectionInv ==
  /\ TypeOK
  /\ NothingBeforeLaunch
  /\ NotAskedToStop
  /\ EventsAreHeard
  /\ NewsReachScreen

-----------------------------------------------------------------------------
(* Panes and attempts.                                                       *)

\* Reading makes exactly the kinds that were read current.
LEMMA ReadTypes ==
  ASSUME NEW p \in [Kind -> PaneState], NEW kinds
  PROVE  /\ Read(p, kinds) \in [Kind -> PaneState]
         /\ \A k \in Kind : Read(p, kinds)[k] = "stale"
                              => k \notin kinds /\ p[k] = "stale"
  BY DEF Read, PaneState

\* A notice that is thrown away leaves nothing that waits for it.
LEMMA MissedTypes ==
  ASSUME NEW p \in [Kind -> PaneState], NEW kinds
  PROVE  /\ Missed(p, kinds) \in [Kind -> PaneState]
         /\ \A k \in Kind : Missed(p, kinds)[k] = "stale"
                              => k \notin kinds /\ p[k] = "stale"
  BY DEF Missed, PaneState

LEMMA ReadUpToTypes ==
  ASSUME NEW p \in [Kind -> PaneState], NEW kinds, NEW b
  PROVE  /\ ReadUpTo(p, kinds, b) \in [Kind -> PaneState]
         /\ \A k \in Kind : ReadUpTo(p, kinds, b)[k] = "stale"
                              => p[k] = "stale"
<1> DEFINE q == ReadUpTo(p, kinds, b)
<1>1. ASSUME NEW k \in Kind
      PROVE  q[k] \in PaneState /\ (q[k] = "stale" => p[k] = "stale")
  <2>1. CASE k = b
    BY <2>1 DEF ReadUpTo, PaneState
  <2>2. CASE k # b /\ k \in kinds /\ Rank(k) < Rank(b)
    BY <2>2 DEF ReadUpTo, PaneState
  <2>3. CASE k # b /\ ~(k \in kinds /\ Rank(k) < Rank(b))
    BY <2>3 DEF ReadUpTo, PaneState
  <2> QED BY <2>1, <2>2, <2>3
<1>2. q \in [Kind -> PaneState]
  BY <1>1 DEF ReadUpTo
<1> QED BY <1>1, <1>2

\* A failed attempt leaves a connection that was there before as it was, or
\* none at all.
LEMMA FailureTypes ==
  ASSUME TypeOK, NEW connected \in BOOLEAN, AttemptFailed(connected)
  PROVE  /\ command' \in Command /\ events' \in Events
         /\ healthy' \in BOOLEAN /\ thread' \in ThreadState
         /\ stop' \in BOOLEAN /\ posted' \in SUBSET Event
         /\ mpd_connected' \in BOOLEAN /\ pane' \in [Kind -> PaneState]
         /\ stop' => stop
         /\ \/ UNCHANGED <<backend, posted>>
               /\ \A k \in Kind : pane'[k] = "stale" => pane[k] = "stale"
            \/ command' = NoCommand
<1>1. CASE ProbeFailed(connected)
  BY <1>1 DEF ProbeFailed, TypeOK, PaneState, backend
<1>2. CASE ConnectFailed
  BY <1>2 DEF ConnectFailed, Disconnect, TypeOK, PaneState, NoCommand,
              Command, NoEvents, Events, ThreadState, Event
<1> QED BY <1>1, <1>2 DEF AttemptFailed

\* A new connection is there, perhaps with a refusal on it, and everything on
\* screen is up to date, or it is known to be broken.
LEMMA SuccessTypes ==
  ASSUME TypeOK, NEW e \in Endpoint, ConnectSucceeded(e)
  PROVE  /\ command' \in Command /\ events' \in Events
         /\ healthy' \in BOOLEAN /\ stop' = FALSE /\ posted' \in SUBSET Event
         /\ mpd_connected' \in BOOLEAN /\ pane' \in [Kind -> PaneState]
         /\ \/ mpd_connected' /\ \A k \in Kind : pane'[k] # "stale"
            \/ ~command'.ok /\ ~command'.alive
<1> DEFINE old == [k \in Kind |-> IF pane[k] = "blank" THEN "blank"
                                                       ELSE "stale"]
<1>1. old \in [Kind -> PaneState]
  BY DEF PaneState
<1>2. /\ events' \in Events /\ healthy' \in BOOLEAN /\ stop' = FALSE
      /\ posted' \in SUBSET Event
  BY DEF ConnectSucceeded, Reachable, Made, TypeOK, Events, Event
<1>3. CASE /\ command' \in {Made(e), Refused(Made(e))}
           /\ pane' = Read(old, Kind)
           /\ mpd_connected' = TRUE
  <2>1. command' \in Command
    <3>1. Made(e) \in Command
      BY DEF Made, Command
    <3>2. Refused(Made(e)) \in Command
      BY <3>1 DEF Refused, Command
    <3> QED BY <1>3, <3>1, <3>2
  <2>2. pane' \in [Kind -> PaneState] /\ \A k \in Kind : pane'[k] # "stale"
    BY <1>1, <1>3, ReadTypes
  <2> QED BY <1>2, <1>3, <2>1, <2>2
<1>4. ASSUME NEW b \in Source,
             command' = [to |-> e, alive |-> FALSE, ok |-> FALSE],
             pane' = ReadUpTo(old, Kind, b),
             mpd_connected' = (b \in {"playlists", "library"})
      PROVE  /\ command' \in Command /\ ~command'.ok /\ ~command'.alive
             /\ pane' \in [Kind -> PaneState] /\ mpd_connected' \in BOOLEAN
  BY <1>1, <1>4, ReadUpToTypes DEF Command
<1> QED BY <1>2, <1>3, <1>4 DEF ConnectSucceeded, Reachable

-----------------------------------------------------------------------------
(* Every step keeps the invariant.                                           *)

LEMMA InitInv == Init => ConnectionInv
<1> SUFFICES ASSUME Init PROVE ConnectionInv
  OBVIOUS
<1>1. command \in Command /\ events \in Events
  BY DEF Init, Command, NoCommand, Events, NoEvents
<1>2. attempts \in 0..Rungs /\ waited \in 0..Rungs
  BY ConnectionAssumption DEF Init
<1>3. TypeOK
  BY <1>1, <1>2 DEF Init, TypeOK, ThreadState, PaneState, Phase
<1> QED
  BY <1>3 DEF Init, ConnectionInv, NothingBeforeLaunch, NotAskedToStop,
              EventsAreHeard, NewsReachScreen, NoCommand, Connected

\* The event thread hands over what it has heard before it forgets it, and an
\* end of its loop is written down.
LEMMA EventLoopInv == ConnectionInv /\ EventLoop => ConnectionInv'
<1> SUFFICES ASSUME ConnectionInv, EventLoop PROVE ConnectionInv'
  OBVIOUS
<1> USE DEF EventLoop, ladder, ConnectionInv
<1>1. CASE Subscribe
  <2>1. TypeOK'
    BY <1>1 DEF Subscribe, ThreadFails, TypeOK, ThreadState
  <2>2. NewsReachScreen'
    BY <1>1 DEF Subscribe, ThreadFails, NewsReachScreen, Linked
  <2> QED
    BY <1>1, <2>1, <2>2 DEF Subscribe, ThreadFails, Linked, TypeOK,
       NothingBeforeLaunch, NotAskedToStop, EventsAreHeard, Working
<1>2. CASE Receive
  <2>1. TypeOK'
    BY <1>2 DEF Receive, ThreadFails, TypeOK, Events, ThreadState
  <2>2. NewsReachScreen'
    BY <1>2 DEF Receive, ThreadFails, TypeOK, Events, NewsReachScreen,
                Linked
  <2> QED
    BY <1>2, <2>1, <2>2 DEF Receive, ThreadFails, TypeOK, Events, Linked,
       NothingBeforeLaunch, NotAskedToStop, EventsAreHeard, Working
<1>3. CASE ThreadStops
  BY <1>3 DEF ThreadStops, TypeOK, NothingBeforeLaunch, NotAskedToStop,
              EventsAreHeard, NewsReachScreen, Linked, Working, ThreadState
<1> QED BY <1>1, <1>2, <1>3

\* One pass of the timers: the ladder stays on its rungs, and an attempt that
\* succeeds starts a thread.
LEMMA TickInv == ConnectionInv /\ Tick => ConnectionInv'
<1> SUFFICES ASSUME ConnectionInv, Tick PROVE ConnectionInv'
  OBVIOUS
<1> USE DEF Tick, ConnectionInv
<1>0. 0 \in 0..Rungs /\ LadderAttempts \in 0..Rungs /\ LadderWaited \in 0..Rungs
  BY ConnectionAssumption DEF TypeOK, LadderAttempts, LadderWaited
<1>1. CASE TickConnected
  <2>1. /\ UNCHANGED <<command, events, healthy, thread, stop, posted,
                      mpd_connected, pane, serving, endpoint, phase>>
        /\ attempts' = 0 /\ waited' = LadderWaited /\ epoch_new' = FALSE
    BY <1>1 DEF TickConnected, backend, screen
  <2>2. TypeOK'
    BY <1>0, <2>1 DEF TypeOK
  <2> QED
    BY <2>1, <2>2 DEF NothingBeforeLaunch, NotAskedToStop, EventsAreHeard,
                      NewsReachScreen, Linked
<1>2. CASE TickWaiting
  <2>1. /\ UNCHANGED <<command, events, healthy, thread, stop, posted, pane,
                      serving, endpoint, phase>>
        /\ mpd_connected' = FALSE /\ attempts' = LadderAttempts
        /\ waited' = LadderWaited /\ epoch_new' = FALSE
    BY <1>2 DEF TickWaiting, backend
  <2>2. TypeOK'
    BY <1>0, <2>1 DEF TypeOK
  <2> QED
    BY <2>1, <2>2 DEF NothingBeforeLaunch, NotAskedToStop, EventsAreHeard,
                      NewsReachScreen, Linked
<1>3. CASE TickAttempts /\ AttemptSucceeds
  <2>1. /\ UNCHANGED <<serving, endpoint, phase>> /\ phase # "starting"
        /\ endpoint \in Endpoint
    BY DEF UiRuns, TypeOK
  <2>2. /\ ConnectSucceeded(endpoint)
        /\ thread' = "starting"
        /\ attempts' = 0 /\ waited' = 0 /\ epoch_new' = FALSE
    BY <1>3 DEF TickAttempts, AttemptSucceeds
  <2>3. TypeOK'
    BY <1>0, <2>1, <2>2, SuccessTypes DEF TypeOK, ThreadState
  <2>4. EventsAreHeard'
    BY <2>2 DEF EventsAreHeard, Working
  <2>5. NewsReachScreen'
    BY <2>1, <2>2, SuccessTypes DEF NewsReachScreen, Linked
  <2> QED
    BY <2>1, <2>2, <2>3, <2>4, <2>5, SuccessTypes
       DEF NothingBeforeLaunch, NotAskedToStop
<1>4. CASE TickAttempts /\ AttemptFails
  <2>1. attempts' \in 0..Rungs /\ waited' \in 0..Rungs
    BY <1>0, <1>4, ConnectionAssumption DEF TickAttempts, AttemptFails
  <2>2. AttemptFailed(FALSE)
    BY <1>4 DEF AttemptFails
  <2>3. TypeOK' /\ NotAskedToStop'
    BY <2>1, <2>2, FailureTypes DEF TypeOK, NotAskedToStop
  <2>4. UNCHANGED phase
    OBVIOUS
  <2>5. EventsAreHeard' /\ NewsReachScreen'
    <3>1. CASE command' = NoCommand
      BY <3>1 DEF EventsAreHeard, NewsReachScreen, Linked, NoCommand
    <3>2. CASE /\ UNCHANGED <<backend, posted>>
               /\ \A k \in Kind : pane'[k] = "stale" => pane[k] = "stale"
      <4>1. UNCHANGED <<command, events, healthy, thread, stop, posted>>
        BY <3>2 DEF backend
      <4> QED
        BY <2>4, <3>2, <4>1 DEF EventsAreHeard, NewsReachScreen, Linked
    <3> QED BY <2>2, <3>1, <3>2, FailureTypes
  <2> QED BY <2>3, <2>5 DEF NothingBeforeLaunch, UiRuns
<1> QED BY <1>1, <1>2, <1>3, <1>4 DEF TickAttempts

\* Events that are handled: what was posted is read, or the connection is known
\* to be broken afterwards.
LEMMA HandlePostedInv ==
  ASSUME ConnectionInv, NEW kinds \in SUBSET Event, HandlePosted(kinds)
  PROVE  ConnectionInv'
<1> USE DEF HandlePosted, ConnectionInv, ladder
<1>1. /\ UNCHANGED <<serving, endpoint, events, healthy, thread, stop,
                     attempts, waited, epoch_new, phase>>
      /\ posted' = posted \ kinds /\ phase # "starting"
  BY DEF UiRuns
<1>2. NothingBeforeLaunch' /\ NotAskedToStop'
  BY <1>1 DEF NothingBeforeLaunch, NotAskedToStop
<1>3. CASE /\ Connected /\ command.alive
           /\ pane' = Read(pane, kinds)
           /\ command' \in {command, Refused(command)}
           /\ mpd_connected' = command'.ok
  <2>1. /\ command' \in Command /\ command'.to = command.to
        /\ command'.ok \in BOOLEAN
    BY <1>3 DEF TypeOK, Command, Refused
  <2>2. TypeOK'
    BY <1>1, <1>3, <2>1, ReadTypes DEF TypeOK
  <2>3. Linked
    BY <1>3 DEF Connected, Linked
  <2>4. EventsAreHeard'
    BY <1>1, <2>3 DEF EventsAreHeard
  <2>5. NewsReachScreen'
    BY <1>1, <1>3, <2>3, ReadTypes DEF TypeOK, NewsReachScreen
  <2> QED BY <1>2, <2>2, <2>4, <2>5
<1>4. ASSUME NEW b \in kinds \ {"update"},
             Connected,
             command' = Broken,
             pane' = ReadUpTo(pane, kinds, b),
             mpd_connected' = FALSE
      PROVE  ConnectionInv'
  <2>1. command' \in Command /\ ~command'.ok /\ ~command'.alive
    BY <1>4 DEF TypeOK, Broken, Command
  <2>2. TypeOK'
    BY <1>1, <1>4, <2>1, ReadUpToTypes DEF TypeOK
  <2> QED
    BY <1>2, <2>1, <2>2 DEF EventsAreHeard, NewsReachScreen, Linked
<1>5. CASE /\ ~Connected
           /\ mpd_connected' = FALSE
           /\ pane' = Missed(pane, kinds)
           /\ UNCHANGED command
  <2>1. TypeOK'
    BY <1>1, <1>5, MissedTypes DEF TypeOK
  <2>2. Linked' = Linked
    BY <1>1, <1>5 DEF Linked
  <2>3. NewsReachScreen'
    BY <1>1, <1>5, <2>2, MissedTypes DEF TypeOK, NewsReachScreen
  <2> QED BY <1>1, <1>2, <2>1, <2>2, <2>3 DEF EventsAreHeard
<1> QED BY <1>3, <1>4, <1>5

\* A command that is answered changes nothing here but the player; one that is
\* not breaks the connection.
LEMMA SendCommandInv == ConnectionInv /\ SendCommand => ConnectionInv'
<1> SUFFICES ASSUME ConnectionInv, SendCommand PROVE ConnectionInv'
  OBVIOUS
<1> USE DEF SendCommand, ConnectionInv, ladder
<1>1. /\ UNCHANGED <<serving, endpoint, events, healthy, thread, stop, posted,
                     attempts, waited, epoch_new, phase>>
      /\ phase # "starting"
  BY DEF UiRuns
<1>2. NothingBeforeLaunch' /\ NotAskedToStop'
  BY <1>1 DEF NothingBeforeLaunch, NotAskedToStop
<1>3. Linked \in BOOLEAN
  BY DEF TypeOK, Linked, Events, Command
<1>4. CASE /\ command.alive
           /\ command' = Answered
           /\ mpd_connected' \in {TRUE, Linked}
           /\ pane' \in {pane} \cup
                IF Linked THEN {Read(pane, {"player"})} ELSE {}
  <2>1. /\ pane' \in [Kind -> PaneState]
        /\ \A k \in Kind : pane'[k] = "stale" => pane[k] = "stale"
    BY <1>4, ReadTypes DEF TypeOK
  <2>2. mpd_connected' \in BOOLEAN
    BY <1>3, <1>4
  <2>3. /\ command' \in Command /\ command'.to = command.to
        /\ command'.ok /\ command'.alive
    BY <1>4 DEF TypeOK, Command, Answered
  <2>4. Linked' = Linked
    BY <1>1, <1>4, <2>3 DEF Linked
  <2> QED
    BY <1>1, <1>2, <2>1, <2>2, <2>3, <2>4
       DEF TypeOK, EventsAreHeard, NewsReachScreen
<1>5. CASE command' = Broken /\ mpd_connected' = FALSE
  <2>1. command' \in Command /\ ~command'.ok /\ ~command'.alive
    BY <1>5 DEF TypeOK, Broken, Command
  <2>2. pane \in [Kind -> PaneState]
    BY DEF TypeOK
  <2>3. pane' \in {pane, Read(pane, {"player"}), ReadUpTo(pane, {}, "player")}
    OBVIOUS
  <2>4. pane' \in [Kind -> PaneState]
    BY <2>2, <2>3, ReadTypes, ReadUpToTypes
  <2> QED
    BY <1>1, <1>2, <1>5, <2>1, <2>4
       DEF TypeOK, EventsAreHeard, NewsReachScreen, Linked
<1> QED BY <1>4, <1>5

\* Opening the library reads it, leaves a refusal, or breaks the connection.
LEMMA SelectDatabaseInv == ConnectionInv /\ SelectDatabase => ConnectionInv'
<1> SUFFICES ASSUME ConnectionInv, SelectDatabase PROVE ConnectionInv'
  OBVIOUS
<1> USE DEF SelectDatabase, ConnectionInv, ladder
<1>1. /\ UNCHANGED <<serving, endpoint, events, healthy, thread, stop, posted,
                     mpd_connected, attempts, waited, epoch_new, phase>>
      /\ phase # "starting"
  BY DEF UiRuns
<1>2. /\ pane' \in {Read(pane, {"library"}), ReadUpTo(pane, {}, "library")}
      /\ command' \in {command, Refused(command), Broken}
  OBVIOUS
<1>3. /\ pane' \in [Kind -> PaneState]
      /\ \A k \in Kind : pane'[k] = "stale" => pane[k] = "stale"
  BY <1>2, ReadTypes, ReadUpToTypes DEF TypeOK
<1>4. command' \in Command /\ command'.to = command.to
  BY <1>2 DEF TypeOK, Command, Refused, Broken
<1>5. Linked
  BY DEF Connected, Linked
<1> QED
  BY <1>1, <1>3, <1>4, <1>5 DEF TypeOK, NothingBeforeLaunch, NotAskedToStop,
     EventsAreHeard, NewsReachScreen

\* "Save and reconnect": either the attempt fails and nothing is connected anew,
\* or there is a thread, or the new connection is already known to be broken.
LEMMA SaveInv ==
  /\ ConnectionInv /\ (\E e \in Endpoint : SaveEndpoint(e)) => ConnectionInv'
  /\ ConnectionInv /\ SaveRefused => ConnectionInv'
<1> USE DEF ConnectionInv, ladder
<1>1. ASSUME ConnectionInv, NEW e \in Endpoint, SaveEndpoint(e)
      PROVE  ConnectionInv'
  <2>1. /\ UNCHANGED <<serving, attempts, waited, phase>>
        /\ endpoint' \in Endpoint /\ epoch_new' = TRUE /\ phase = "running"
    BY <1>1 DEF SaveEndpoint
  <2>2. CASE AttemptFailed(mpd_connected)
    <3>1. mpd_connected \in BOOLEAN
      BY <1>1 DEF TypeOK
    <3>2. TypeOK' /\ NotAskedToStop'
      BY <1>1, <2>1, <2>2, <3>1, FailureTypes DEF TypeOK, NotAskedToStop
    <3>3. CASE command' = NoCommand
      BY <2>1, <3>2, <3>3 DEF NothingBeforeLaunch, EventsAreHeard,
         NewsReachScreen, Linked, NoCommand
    <3>4. CASE /\ UNCHANGED <<backend, posted>>
               /\ \A k \in Kind : pane'[k] = "stale" => pane[k] = "stale"
      <4>1. UNCHANGED <<command, events, healthy, thread, stop, posted>>
        BY <3>4 DEF backend
      <4> QED
        BY <1>1, <2>1, <3>2, <3>4, <4>1 DEF NothingBeforeLaunch,
           EventsAreHeard, NewsReachScreen, Linked
    <3> QED BY <1>1, <2>2, <3>1, <3>3, <3>4, FailureTypes
  <2>3. CASE /\ ConnectSucceeded(e)
             /\ thread' = IF mpd_connected' THEN "starting" ELSE "none"
    <3>1. TypeOK'
      BY <1>1, <2>1, <2>3, SuccessTypes DEF TypeOK, ThreadState
    <3>2. EventsAreHeard'
      BY <1>1, <2>3, SuccessTypes DEF EventsAreHeard, Working, Linked
    <3>3. NewsReachScreen'
      BY <1>1, <2>3, SuccessTypes DEF NewsReachScreen, Linked
    <3> QED
      BY <1>1, <2>1, <2>3, <3>1, <3>2, <3>3, SuccessTypes
         DEF NothingBeforeLaunch, NotAskedToStop
  <2> QED BY <1>1, <2>2, <2>3 DEF SaveEndpoint
<1>2. ASSUME ConnectionInv, SaveRefused
      PROVE  ConnectionInv'
  <2>1. /\ UNCHANGED <<serving, endpoint, command, healthy, mpd_connected,
                       attempts, waited, epoch_new, phase>>
        /\ RestartEventLoop /\ phase = "running"
    BY <1>2 DEF SaveRefused
  <2>2. /\ thread' = "starting" /\ stop' = FALSE
        /\ events' \in {events, [events EXCEPT !.news = {}]}
    BY <2>1 DEF RestartEventLoop
  <2>3. events' \in Events /\ events'.alive = events.alive
    BY <1>2, <2>2 DEF TypeOK, Events
  <2>4. /\ posted' \in SUBSET Event /\ pane' \in [Kind -> PaneState]
    BY <1>2, <2>1, MissedTypes DEF RestartEventLoop, TypeOK, Events
  <2>5. ASSUME NEW k \in Kind, pane'[k] = "stale", ConnectionInv,
               k \in events.news \cup posted
        PROVE  pane[k] = "stale" /\ k \in events'.news \cup posted'
    BY <2>1, <2>5 DEF RestartEventLoop, TypeOK, Events, Missed
  <2>6. ASSUME NEW k \in Kind, pane'[k] = "stale"
        PROVE  pane[k] = "stale"
    BY <1>2, <2>1, <2>6 DEF RestartEventLoop, TypeOK, Missed
  <2>7. TypeOK'
    BY <1>2, <2>1, <2>2, <2>3, <2>4 DEF TypeOK, ThreadState
  <2>8. NewsReachScreen'
    <3>1. Linked' => Linked
      BY <1>2, <2>1, <2>2 DEF Linked, TypeOK, Events
    <3> QED
      BY <1>2, <2>1, <2>3, <2>5, <2>6, <3>1 DEF NewsReachScreen
  <2> QED
    BY <2>1, <2>2, <2>7, <2>8 DEF NothingBeforeLaunch, NotAskedToStop,
       EventsAreHeard, Working
<1> QED BY <1>1, <1>2

\* The first attempt, before which there is no connection.
LEMMA LaunchInv == ConnectionInv /\ Launch => ConnectionInv'
<1> SUFFICES ASSUME ConnectionInv, Launch PROVE ConnectionInv'
  OBVIOUS
<1> USE DEF ConnectionInv, Launch, ladder
<1>1. /\ UNCHANGED <<serving, endpoint, attempts, waited, epoch_new>>
      /\ phase' = "running" /\ command.to = NoEndpoint /\ stop = FALSE
      /\ "running" \in Phase
  BY DEF NothingBeforeLaunch, TypeOK, Phase
<1>2. CASE AttemptFailed(FALSE)
  <2>1. TypeOK' /\ NotAskedToStop'
    BY <1>1, <1>2, FailureTypes DEF TypeOK, NotAskedToStop
  <2>2. command'.to = NoEndpoint
    <3>1. CASE command' = NoCommand
      BY <3>1 DEF NoCommand
    <3>2. CASE UNCHANGED backend
      BY <1>1, <3>2 DEF backend
    <3> QED BY <1>2, <3>1, <3>2, FailureTypes
  <2> QED
    BY <1>1, <2>1, <2>2 DEF NothingBeforeLaunch, EventsAreHeard, NewsReachScreen,
                      Linked
<1>3. CASE ConnectSucceeded(endpoint) /\ thread' = "starting"
  <2>1. endpoint \in Endpoint
    BY DEF TypeOK
  <2>2. TypeOK' /\ NewsReachScreen'
    BY <1>1, <1>3, <2>1, SuccessTypes
       DEF TypeOK, ThreadState, NewsReachScreen, Linked
  <2> QED
    BY <1>1, <1>3, <2>1, <2>2, SuccessTypes DEF NothingBeforeLaunch,
       NotAskedToStop, EventsAreHeard, Working
<1> QED BY <1>2, <1>3

\* Once termusic leaves, only the types are left to keep.
LEMMA ShutdownInv ==
  ConnectionInv /\ (Quit \/ LoopIsClosed \/ StopWorkers \/ Exit)
    => ConnectionInv'
<1> SUFFICES ASSUME ConnectionInv, Quit \/ LoopIsClosed \/ StopWorkers \/ Exit
             PROVE  ConnectionInv'
  OBVIOUS
<1> USE DEF ConnectionInv, Quit, LoopIsClosed, StopWorkers, Exit, ladder,
            backend, screen
<1>1. phase' \in Phase \ {"starting", "running"}
  BY DEF Phase
<1>2. UNCHANGED <<serving, endpoint, posted, mpd_connected, pane, attempts,
                  waited, epoch_new>>
  BY DEF PrepareShutdown, StopPlaybackForExit
<1>3. /\ Broken \in Command /\ Answered \in Command /\ NoCommand \in Command
      /\ NoEvents \in Events
  BY DEF TypeOK, Broken, Answered, NoCommand, Command, NoEvents, Events
<1>4. /\ command' \in Command /\ events' \in Events /\ healthy' \in BOOLEAN
      /\ thread' \in ThreadState /\ stop' \in BOOLEAN
  BY <1>3 DEF PrepareShutdown, StopPlaybackForExit, Disconnect, TypeOK, ThreadState
<1>5. TypeOK'
  BY <1>1, <1>2, <1>4 DEF TypeOK
<1> QED
  BY <1>1, <1>5 DEF NothingBeforeLaunch, NotAskedToStop, EventsAreHeard,
                    NewsReachScreen

\* What changes in MPD is news to an event connection that is alive; a
\* connection that breaks is only known to later.
LEMMA EnvironmentInv ==
  ConnectionInv
  /\ ( \/ TimePasses \/ LinkDrops
       \/ \E e \in Endpoint : ServerStarts(e) \/ ServerEnds(e)
       \/ \E k \in Event : ServerChanges(k) )
    => ConnectionInv'
<1> USE DEF ConnectionInv, ladder, backend, screen
<1>1. ASSUME ConnectionInv, TimePasses
      PROVE  ConnectionInv'
  <2>1. /\ UNCHANGED <<serving, endpoint, command, events, healthy, thread,
                       stop, posted, mpd_connected, pane, attempts, epoch_new,
                       phase>>
        /\ waited' = waited + 1 /\ waited < Rungs
    BY <1>1 DEF TimePasses
  <2>2. waited' \in 0..Rungs
    BY <1>1, <2>1, ConnectionAssumption DEF TypeOK
  <2> QED
    BY <1>1, <2>1, <2>2 DEF TypeOK, NothingBeforeLaunch, NotAskedToStop,
       EventsAreHeard, NewsReachScreen, Linked
<1>2. ASSUME ConnectionInv,
             UNCHANGED <<endpoint, healthy, thread, stop, posted,
                         mpd_connected, pane, attempts, waited, epoch_new,
                         phase>>,
             serving' \in SUBSET Endpoint,
             command' \in {command, [command EXCEPT !.alive = FALSE]},
             events' \in {events, [events EXCEPT !.alive = FALSE]}
      PROVE  ConnectionInv'
  <2>1. /\ command' \in Command
        /\ command'.to = command.to /\ command'.ok = command.ok
        /\ command'.alive => command.alive
    BY <1>2 DEF TypeOK, Command
  <2>2. /\ events' \in Events
        /\ events'.open = events.open /\ events'.news = events.news
        /\ events'.alive => events.alive
    BY <1>2 DEF TypeOK, Events
  <2>3. TypeOK' /\ (Linked' => Linked)
    BY <1>2, <2>1, <2>2 DEF TypeOK, Linked
  <2> QED
    BY <1>2, <2>1, <2>2, <2>3 DEF NothingBeforeLaunch, NotAskedToStop,
       EventsAreHeard, NewsReachScreen
<1>3. ASSUME ConnectionInv, LinkDrops
      PROVE  ConnectionInv'
  BY <1>2, <1>3 DEF LinkDrops, TypeOK
<1>4. ASSUME ConnectionInv,
             \E e \in Endpoint : ServerStarts(e) \/ ServerEnds(e)
      PROVE  ConnectionInv'
  BY <1>2, <1>4 DEF ServerStarts, ServerEnds, TypeOK
<1>5. ASSUME ConnectionInv, NEW k \in Event, ServerChanges(k)
      PROVE  ConnectionInv'
  <2>1. UNCHANGED <<serving, endpoint, command, healthy, thread, stop, posted,
                    mpd_connected, attempts, waited, epoch_new, phase>>
    BY <1>5 DEF ServerChanges
  <2>2. /\ events' \in Events
        /\ events'.open = events.open /\ events'.alive = events.alive
        /\ events.news \subseteq events'.news
        /\ events.alive => k \in events'.news
    BY <1>5 DEF ServerChanges, TypeOK, Events
  <2>3. /\ pane' \in [Kind -> PaneState]
        /\ \A j \in Kind : pane'[j] = "stale" => j = k \/ pane[j] = "stale"
    BY <1>5 DEF ServerChanges, TypeOK, PaneState
  <2>4. TypeOK' /\ Linked' = Linked
    BY <1>5, <2>1, <2>2, <2>3 DEF TypeOK, Linked
  <2> QED
    BY <1>5, <2>1, <2>2, <2>3, <2>4 DEF NothingBeforeLaunch, NotAskedToStop,
       EventsAreHeard, NewsReachScreen
<1> QED BY <1>1, <1>3, <1>4, <1>5

-----------------------------------------------------------------------------
(* The theorems.                                                             *)

\* In every reachable state the connection has its thread and its news.
THEOREM ConnectionInvariant == Spec => []ConnectionInv
<1>1. ConnectionInv /\ [Next]_vars => ConnectionInv'
  <2> SUFFICES ASSUME ConnectionInv, [Next]_vars PROVE ConnectionInv'
    OBVIOUS
  <2>1. CASE Next
    BY <2>1, EventLoopInv, TickInv, HandlePostedInv, SendCommandInv,
       SelectDatabaseInv, SaveInv,
       LaunchInv, ShutdownInv, EnvironmentInv DEF Next
  <2>2. CASE UNCHANGED vars
    <3>1. UNCHANGED <<serving, endpoint, command, events, healthy, thread,
                      stop, posted, mpd_connected, pane, attempts, waited,
                      epoch_new, phase>>
      BY <2>2 DEF vars, backend, screen, ladder
    <3> QED
      BY <3>1 DEF ConnectionInv, TypeOK, NothingBeforeLaunch, NotAskedToStop,
                  EventsAreHeard, NewsReachScreen, Linked
  <2> QED BY <2>1, <2>2
<1> QED BY InitInv, <1>1, PTL DEF Spec

\* EventsAreHeard: as long as neither connection is known to be lost, an event
\* thread is at work on the one for events (MpdBackend::startEventLoop).
THEOREM ConnectionHasItsThread == Spec => []EventsAreHeard
<1>1. ConnectionInv => EventsAreHeard
  BY DEF ConnectionInv
<1> QED BY ConnectionInvariant, <1>1, PTL

\* NewsReachScreen: as long as neither connection is known to be lost, what is
\* behind on screen has a notice on its way, but for what is "missed" (MpdBackend::eventLoop, handleBackendEvent).
THEOREM NoNewsIsLost == Spec => []NewsReachScreen
<1>1. ConnectionInv => NewsReachScreen
  BY DEF ConnectionInv
<1> QED BY ConnectionInvariant, <1>1, PTL

\* ConnectionTypes: the two connections, the thread and the ladder stay in their
\* ranges, for any endpoints, sources and length of the ladder.
THEOREM ConnectionTypes == Spec => []TypeOK
<1>1. ConnectionInv => TypeOK
  BY DEF ConnectionInv
<1> QED BY ConnectionInvariant, <1>1, PTL

-----------------------------------------------------------------------------
(* The listings and the sizes.                                                *)

Holds(seq, x) == \E k \in 1..Len(seq) : seq[k] = x

\* The songs that have ended, and the one that has begun.
SongsTaken ==
  ReadingSongs =>
    /\ received \in 0..Len(Listing) /\ parsed \in Seq(Song)
    /\ received = 0 => song = NoSong /\ parsed = <<>>
    /\ received > 0 =>
         /\ song \in Song
         /\ song.uri = Listing[received].uri /\ song.tags \subseteq Listing[received].tags
         /\ Len(parsed) = received - 1
         /\ \A i \in 1..(received - 1) : parsed[i] = Listing[i]

\* The entries of a directory up to its n-th are in what was taken from it.
Taken(d, n, found, measured) ==
  \A i \in 1..n :
    LET e == Entries[server][d][i]
    IN  /\ e.kind = "directory" => Holds(found, UriOf(d, e.base))
        /\ e.kind = "file" /\ e.size > 0 => UriOf(d, e.base) \in DOMAIN measured

\* The directories before the present one are whole, and so is what was told of
\* this one, but for a size that is to come.
WalkTaken ==
  reading = "sizes" =>
    /\ parsed = Songs[server]["all"]
    /\ pending \in Seq(Paths[server]) /\ index \in 1..Len(pending) /\ pending[1] = <<>>
    /\ directories \in Seq(Paths[server])
    /\ told \in 0..Len(Told) /\ owed \in BOOLEAN
    /\ owed => /\ told > 0 /\ Told[told].kind = "file"
               /\ current_file = Told[told].base
    /\ \A i \in 1..(index - 1) :
         Taken(pending[i], Len(Entries[server][pending[i]]), pending, sizes)
    /\ Taken(Directory, IF owed THEN told - 1 ELSE told, directories, sizes)
    /\ \A uri \in DOMAIN sizes : Measures(uri, sizes[uri])

ListingsInv ==
  /\ ServerData /\ server \in Server
  /\ reading \in {"nothing", "queue", "all", "sizes"}
  /\ SongsTaken /\ WalkTaken
  /\ ListingIsWhole /\ SizesAreTrue

-----------------------------------------------------------------------------
LEMMA Listings ==
  ASSUME ListingsInv
  PROVE  /\ Songs[server]["queue"] \in Seq(Song) /\ Songs[server]["all"] \in Seq(Song)
         /\ \A d \in Paths[server] : Entries[server][d] \in Seq(Entry)
         /\ ReadingSongs => Listing \in Seq(Song)
BY DEF ListingsInv, ServerData, Listing, ReadingSongs

\* What is in hand is a part of the listing; at its end it is the listing.
LEMMA FlushedIsSent ==
  ASSUME ListingsInv, ReadingSongs
  PROVE  /\ Flushed \in Seq(Song) /\ Len(Flushed) = received
         /\ received \in 0..Len(Listing)
         /\ \A i \in 1..received :
              Flushed[i].uri = Listing[i].uri /\ Flushed[i].tags \subseteq Listing[i].tags
         /\ SongIsTold => \A i \in 1..received : Flushed[i] = Listing[i]
<1>1. Listing \in Seq(Song)
  BY Listings
<1>2. CASE received = 0
  BY <1>2 DEF ListingsInv, SongsTaken, Flushed
<1>3. CASE received > 0
  <2>1. /\ received \in 1..Len(Listing) /\ parsed \in Seq(Song) /\ song \in Song
        /\ song.uri = Listing[received].uri /\ song.tags \subseteq Listing[received].tags
        /\ Len(parsed) = received - 1
        /\ \A i \in 1..(received - 1) : parsed[i] = Listing[i]
    BY <1>3 DEF ListingsInv, SongsTaken
  <2>2. song # NoSong
    BY <2>1 DEF Song, NoSong
  <2>3. Flushed = Append(parsed, song)
    BY <2>2 DEF Flushed
  <2>4. /\ Flushed \in Seq(Song) /\ Len(Flushed) = received /\ Flushed[received] = song
        /\ \A i \in 1..(received - 1) : Flushed[i] = parsed[i]
    BY <2>1, <2>3
  <2>5. \A i \in 1..received :
          Flushed[i].uri = Listing[i].uri /\ Flushed[i].tags \subseteq Listing[i].tags
    BY <2>1, <2>4
  <2>6. ASSUME SongIsTold PROVE Flushed[received] = Listing[received]
    <3>1. Listing[received] \in Song /\ song.tags = Listing[received].tags
      BY <1>1, <1>3, <2>1, <2>6 DEF SongIsTold
    <3> QED BY <2>1, <2>4, <3>1 DEF Song
  <2> QED BY <2>1, <2>4, <2>5, <2>6
<1> QED BY <1>2, <1>3 DEF ListingsInv, SongsTaken

\* The whole of a reply is the listing.
LEMMA EndIsListing ==
  ASSUME ListingsInv, ReplyEnded
  PROVE  Flushed = Listing
<1>1. /\ Flushed \in Seq(Song) /\ Listing \in Seq(Song) /\ Len(Flushed) = Len(Listing)
      /\ \A i \in 1..Len(Listing) : Flushed[i] = Listing[i]
  BY FlushedIsSent, Listings DEF ReplyEnded
<1> QED BY <1>1, SeqEqual

-----------------------------------------------------------------------------
(* What a step leaves alone.                                                 *)

LEMMA KeepSongs ==
  ASSUME SongsTaken, UNCHANGED <<server, reading, reply>>
  PROVE  SongsTaken'
BY DEF SongsTaken, ReadingSongs, Listing, reply

LEMMA KeepWalk ==
  ASSUME WalkTaken, UNCHANGED <<server, reading, parsed, walk>>
  PROVE  WalkTaken'
BY DEF WalkTaken, Told, Directory, Taken, Measures, walk

LEMMA KeepShown ==
  ASSUME ListingIsWhole, SizesAreTrue, UNCHANGED <<server, size_by_uri_, shown>>
  PROVE  ListingIsWhole' /\ SizesAreTrue'
BY DEF ListingIsWhole, SizesAreTrue, Measures, shown

LEMMA IdleStep ==
  ASSUME ListingsInv, reading' = "nothing"
  PROVE  SongsTaken' /\ WalkTaken'
BY DEF SongsTaken, WalkTaken, ReadingSongs

-----------------------------------------------------------------------------
(* One lemma per action.                                                     *)

LEMMA ConnectInv ==
  ASSUME ListingsInv, NEW s \in Server, Connect(s)
  PROVE  ListingsInv'
<1>1. SongsTaken' /\ WalkTaken'
  BY IdleStep DEF Connect
<1>2. ListingIsWhole' /\ SizesAreTrue'
  BY DEF Connect, ListingIsWhole, SizesAreTrue, Nothing, Unknown, None
<1> QED BY <1>1, <1>2 DEF ListingsInv, Connect, ServerData

LEMMA AskInv ==
  ASSUME ListingsInv, NEW of \in {"queue", "all"}, Ask(of)
  PROVE  ListingsInv'
<1>1. SongsTaken'
  <2>1. Songs[server][of] \in Seq(Song)
    BY Listings
  <2> QED BY <2>1 DEF Ask, SongsTaken, ReadingSongs, Listing
<1>2. WalkTaken'
  BY DEF Ask, WalkTaken
<1>3. ListingIsWhole' /\ SizesAreTrue'
  BY KeepShown DEF Ask, ListingsInv
<1> QED BY <1>1, <1>2, <1>3 DEF ListingsInv, Ask, ServerData

LEMMA CommandInv ==
  ASSUME ListingsInv, OtherCommand
  PROVE  ListingsInv'
<1>1. SongsTaken' /\ WalkTaken'
  BY IdleStep DEF OtherCommand
<1>2. ListingIsWhole' /\ SizesAreTrue'
  BY KeepShown DEF OtherCommand, ListingsInv
<1> QED BY <1>1, <1>2 DEF ListingsInv, OtherCommand, ServerData

LEMMA SampleInv ==
  ASSUME ListingsInv, NEW uri, Sample(uri)
  PROVE  ListingsInv'
<1>1. SongsTaken' /\ WalkTaken'
  BY IdleStep DEF Sample
<1>2. ListingIsWhole'
  BY DEF Sample, ListingsInv, ListingIsWhole
<1>3. SizesAreTrue'
  BY DEF Sample, ListingsInv, SizesAreTrue, CachedSize, Measures
<1> QED BY <1>1, <1>2, <1>3 DEF ListingsInv, Sample, ServerData

LEMMA ReceiveSongInv ==
  ASSUME ListingsInv, ReceiveSong
  PROVE  ListingsInv'
<1>1. SongsTaken'
  <2>1. /\ Listing \in Seq(Song) /\ Flushed \in Seq(Song) /\ Len(Flushed) = received
        /\ \A i \in 1..received : Flushed[i] = Listing[i]
        /\ received \in 0..Len(Listing) /\ received < Len(Listing)
    BY FlushedIsSent, Listings DEF ReceiveSong
  <2>2. Listing[received + 1] \in Song
    BY <2>1
  <2>3. song' \in Song /\ song'.uri = Listing[received + 1].uri /\ song'.tags = {}
    BY <2>2 DEF ReceiveSong, Song
  <2>4. /\ Listing' = Listing /\ received' = received + 1 /\ parsed' = Flushed
    BY DEF ReceiveSong, Listing
  <2> QED BY <2>1, <2>3, <2>4 DEF SongsTaken
<1>2. WalkTaken'
  BY DEF ReceiveSong, ReadingSongs, WalkTaken
<1>3. ListingIsWhole' /\ SizesAreTrue'
  BY KeepShown DEF ReceiveSong, ListingsInv
<1> QED BY <1>1, <1>2, <1>3 DEF ListingsInv, ReceiveSong, ServerData

LEMMA ReceiveTagInv ==
  ASSUME ListingsInv, ReceiveTag
  PROVE  ListingsInv'
<1>1. SongsTaken'
  <2>1. received > 0 /\ received \in 0..Len(Listing) /\ Listing \in Seq(Song)
    BY Listings DEF ReceiveTag, SongIsTold, ListingsInv, SongsTaken
  <2>2. PICK t \in Listing[received].tags : song' = [song EXCEPT !.tags = @ \cup {t}]
    BY DEF ReceiveTag
  <2>3. /\ song \in Song /\ song.uri = Listing[received].uri
        /\ song.tags \subseteq Listing[received].tags /\ Listing[received] \in Song
    BY <2>1 DEF ReceiveTag, ListingsInv, SongsTaken
  <2>4. /\ song' \in Song /\ song'.uri = Listing[received].uri
        /\ song'.tags \subseteq Listing[received].tags
    BY <2>2, <2>3 DEF Song
  <2>5. Listing' = Listing /\ received' = received /\ parsed' = parsed
    BY DEF ReceiveTag, Listing
  <2> QED BY <2>1, <2>4, <2>5 DEF SongsTaken, ListingsInv, ReceiveTag
<1>2. WalkTaken'
  BY DEF ReceiveTag, ReadingSongs, WalkTaken
<1>3. ListingIsWhole' /\ SizesAreTrue'
  BY KeepShown DEF ReceiveTag, ListingsInv
<1> QED BY <1>1, <1>2, <1>3 DEF ListingsInv, ReceiveTag, ServerData

LEMMA QueueIsReadInv ==
  ASSUME ListingsInv, QueueIsRead
  PROVE  ListingsInv'
<1>1. SongsTaken' /\ WalkTaken'
  BY IdleStep DEF QueueIsRead
<1>2. Flushed = Songs[server]["queue"]
  BY EndIsListing DEF QueueIsRead, Listing
<1>3. ListingIsWhole'
  BY <1>2 DEF QueueIsRead, ListingIsWhole
<1>4. SizesAreTrue'
  BY DEF QueueIsRead, ListingsInv, SizesAreTrue, Measures
<1> QED BY <1>1, <1>3, <1>4 DEF ListingsInv, QueueIsRead, ServerData

LEMMA SongsBreakInv ==
  ASSUME ListingsInv, NEW how, SongsBreak(how)
  PROVE  ListingsInv'
<1>1. SongsTaken' /\ WalkTaken'
  BY IdleStep DEF SongsBreak
<1>2. /\ Flushed \in Seq(Song) /\ Listing \in Seq(Song) /\ Len(Flushed) <= Len(Listing)
      /\ \A i \in DOMAIN Flushed :
           Flushed[i].uri = Listing[i].uri /\ Flushed[i].tags \subseteq Listing[i].tags
  BY FlushedIsSent, Listings DEF SongsBreak
<1>3. ListingIsWhole'
  <2>1. DOMAIN Flushed \subseteq DOMAIN Listing
    BY <1>2
  <2> QED BY <1>2, <2>1 DEF SongsBreak, ListingIsWhole, Listing
<1>4. SizesAreTrue'
  BY DEF SongsBreak, ListingsInv, SizesAreTrue, Measures
<1> QED BY <1>1, <1>3, <1>4 DEF ListingsInv, SongsBreak, ServerData

LEMMA OneIsASequence ==
  ASSUME NEW S, NEW x \in S
  PROVE  /\ <<x>> \in Seq(S) /\ Len(<<x>>) = 1 /\ <<x>>[1] = x
         /\ <<>> \in Seq(S)
OBVIOUS

LEMMA DatabaseIsReadInv ==
  ASSUME ListingsInv, DatabaseIsRead
  PROVE  ListingsInv'
<1>1. SongsTaken'
  BY DEF DatabaseIsRead, SongsTaken, ReadingSongs
<1>2. Flushed = Songs[server]["all"]
  BY EndIsListing DEF DatabaseIsRead, Listing
<1>3. WalkTaken'
  <2>1. <<>> \in Paths[server] /\ Entries[server][<<>>] \in Seq(Entry)
    BY Listings DEF ListingsInv, ServerData, Found
  <2>2. index' = 1 /\ pending'[1] = <<>> /\ Len(pending') = 1
    BY <2>1, OneIsASequence DEF DatabaseIsRead
  <2>3. pending' \in Seq(Paths[server]) /\ directories' \in Seq(Paths[server])
    <3> DEFINE root == <<>>
    <3>1. root \in Paths[server] /\ pending' = <<root>>
      BY <2>1 DEF DatabaseIsRead
    <3> HIDE DEF root
    <3>2. pending' \in Seq(Paths[server])
      BY <3>1, OneIsASequence
    <3> QED BY <2>1, <3>2, OneIsASequence DEF DatabaseIsRead
  <2>4. told' = 0 /\ owed' = FALSE /\ 0 \in 0..Len(Told')
    BY <2>1, <2>2 DEF DatabaseIsRead, Told, Directory
  <2>5. \A uri \in DOMAIN sizes' : Measures(uri, sizes[uri])'
    BY DEF DatabaseIsRead, None
  <2>6. told' - 1 < 1 /\ told' < 1 /\ index' - 1 < 1 /\ index' \in 1..Len(pending')
    BY <2>2, <2>4
  <2>7. Entries[server'][pending'[index']] \in Seq(Entry)
    BY <2>1, <2>2 DEF DatabaseIsRead
  <2>8. server' = server /\ parsed' = Flushed /\ sizes' = None /\ DOMAIN None = {}
    BY DEF DatabaseIsRead, None
  <2>9. parsed' = Songs[server']["all"] /\ ~owed' /\ owed' \in BOOLEAN
    BY <1>2, <2>4, <2>8
  <2>10. pending' \in Seq(Paths[server']) /\ directories' \in Seq(Paths[server'])
    BY <2>3, <2>8
  <2>11. told' \in 0..Len(Told')
    BY <2>4, <2>7 DEF Told, Directory
  <2>12. (\A i \in 1..(index - 1) :
           Taken(pending[i], Len(Entries[server][pending[i]]), pending, sizes))'
    <3>1. 1..(index' - 1) = {}
      BY <2>2
    <3> QED BY <3>1, Zenon
  <2>13. Taken(Directory, IF owed THEN told - 1 ELSE told, directories, sizes)'
    BY <2>4, <2>6 DEF Taken
  <2>14. (\A uri \in DOMAIN sizes : Measures(uri, sizes[uri]))'
    BY <2>8
  <2> QED BY <2>2, <2>6, <2>9, <2>10, <2>11, <2>12, <2>13, <2>14 DEF WalkTaken
<1>4. ListingIsWhole' /\ SizesAreTrue'
  BY KeepShown DEF DatabaseIsRead, ListingsInv
<1> QED BY <1>1, <1>3, <1>4 DEF ListingsInv, DatabaseIsRead, ServerData

\* The directory that is listed, and what is told of it.
LEMMA InDirectory ==
  ASSUME ListingsInv, reading = "sizes"
  PROVE  /\ Directory \in Paths[server] /\ Told \in Seq(Entry)
         /\ \A i \in 1..Len(Told) : Told[i] \in Entry
         /\ \A i \in 1..Len(Told) :
              Told[i].kind = "directory" => UriOf(Directory, Told[i].base) \in Paths[server]
<1>1. Directory \in Paths[server]
  BY DEF ListingsInv, WalkTaken, Directory
<1>2. Told \in Seq(Entry)
  BY <1>1, Listings DEF Told
<1> QED BY <1>1, <1>2 DEF ListingsInv, ServerData, Found, Told

LEMMA ReceiveFileInv ==
  ASSUME ListingsInv, ReceiveFile
  PROVE  ListingsInv'
<1>1. SongsTaken'
  BY DEF ReceiveFile, Begins, SongsTaken, ReadingSongs
<1>2. WalkTaken'
  <2>1. /\ told \in 0..Len(Told) /\ told < Len(Told) /\ Told \in Seq(Entry)
        /\ Told[told + 1] \in Entry /\ Told[told + 1].kind = "file" /\ ~owed
        /\ reading = "sizes"
    <3>1. /\ reading = "sizes" /\ told < Len(Told)
          /\ Told[told + 1].kind = "file" /\ ~owed
      BY DEF ReceiveFile, Begins, Told, Directory
    <3>2. told \in 0..Len(Told) /\ index \in 1..Len(pending)
      BY <3>1 DEF ListingsInv, WalkTaken
    <3>3. Told \in Seq(Entry)
      BY <3>1, <3>2, InDirectory
    <3> QED BY <3>1, <3>2, <3>3
  <2>2. /\ Told' = Told /\ Directory' = Directory /\ told' = told + 1
        /\ current_file' = Told[told + 1].base
    BY DEF ReceiveFile, Begins, Told, Directory
  <2>3. owed' \in BOOLEAN /\ (~owed' => ~(Told[told + 1].size > 0))
    BY DEF ReceiveFile
  <2>4. Taken(Directory, told, directories, sizes)
    BY <2>1 DEF ListingsInv, WalkTaken
  <2>5. Taken(Directory, IF owed' THEN told' - 1 ELSE told', directories, sizes)
    <3>1. CASE owed'
      BY <2>1, <2>2, <2>4, <3>1
    <3>2. CASE ~owed'
      BY <2>1, <2>2, <2>3, <2>4, <3>2 DEF Taken, Told
    <3> QED BY <3>1, <3>2
  <2>6. /\ UNCHANGED <<server, parsed, pending, index, directories, sizes>>
        /\ \A i \in 1..(index - 1) :
             Taken(pending[i], Len(Entries[server][pending[i]]), pending, sizes)
        /\ \A uri \in DOMAIN sizes : Measures(uri, sizes[uri])
    BY <2>1 DEF ReceiveFile, reply, ListingsInv, WalkTaken
  <2>7. owed' => told' > 0 /\ Told'[told'].kind = "file" /\ current_file' = Told'[told'].base
    BY <2>1, <2>2
  <2> QED BY <2>1, <2>2, <2>3, <2>5, <2>6, <2>7 DEF ListingsInv, WalkTaken, Taken, Measures
<1>3. ListingIsWhole' /\ SizesAreTrue'
  BY KeepShown DEF ReceiveFile, ListingsInv
<1> QED BY <1>1, <1>2, <1>3 DEF ListingsInv, ReceiveFile, Begins, ServerData

LEMMA AppendHolds ==
  ASSUME NEW S, NEW seq \in Seq(S), NEW e \in S
  PROVE  /\ Append(seq, e) \in Seq(S) /\ Holds(Append(seq, e), e)
         /\ \A x : Holds(seq, x) => Holds(Append(seq, e), x)
<1>1. /\ Append(seq, e) \in Seq(S) /\ Len(Append(seq, e)) = Len(seq) + 1
      /\ Append(seq, e)[Len(seq) + 1] = e /\ Len(seq) \in Nat
      /\ \A k \in 1..Len(seq) : Append(seq, e)[k] = seq[k]
  OBVIOUS
<1> QED BY <1>1 DEF Holds

LEMMA ConcatHolds ==
  ASSUME NEW S, NEW s \in Seq(S), NEW t \in Seq(S)
  PROVE  /\ s \o t \in Seq(S) /\ Len(s \o t) = Len(s) + Len(t)
         /\ \A k \in 1..Len(s) : (s \o t)[k] = s[k]
         /\ \A x : Holds(s, x) \/ Holds(t, x) => Holds(s \o t, x)
<1>1. /\ s \o t \in Seq(S) /\ Len(s \o t) = Len(s) + Len(t)
      /\ Len(s) \in Nat /\ Len(t) \in Nat
      /\ \A k \in 1..Len(s) : (s \o t)[k] = s[k]
      /\ \A k \in 1..Len(t) : (s \o t)[Len(s) + k] = t[k]
  BY ConcatProperties
<1>2. ASSUME NEW x, Holds(s, x) PROVE Holds(s \o t, x)
  BY <1>1, <1>2 DEF Holds
<1>3. ASSUME NEW x, Holds(t, x) PROVE Holds(s \o t, x)
  <2>1. PICK k \in 1..Len(t) : t[k] = x
    BY <1>3 DEF Holds
  <2>2. Len(s) + k \in 1..Len(s \o t) /\ (s \o t)[Len(s) + k] = x
    BY <1>1, <2>1
  <2> QED BY <2>2 DEF Holds
<1> QED BY <1>1, <1>2, <1>3

\* What was taken stays taken when more is found or measured.
LEMMA TakenGrows ==
  ASSUME NEW d, NEW n, NEW found, NEW measured, Taken(d, n, found, measured),
         NEW more, \A x : Holds(found, x) => Holds(more, x),
         NEW measures, DOMAIN measured \subseteq DOMAIN measures
  PROVE  Taken(d, n, more, measures)
BY DEF Taken

LEMMA ReceiveDirectoryInv ==
  ASSUME ListingsInv, ReceiveDirectory
  PROVE  ListingsInv'
<1>1. SongsTaken'
  BY DEF ReceiveDirectory, Begins, SongsTaken, ReadingSongs
<1>2. WalkTaken'
  <2> DEFINE e == Told[told + 1]
             path == UriOf(Directory, e.base)
  <2>1. /\ told \in 0..Len(Told) /\ told < Len(Told) /\ Told \in Seq(Entry)
        /\ e \in Entry /\ e.kind = "directory" /\ ~owed /\ reading = "sizes"
        /\ path \in Paths[server] /\ directories \in Seq(Paths[server])
    BY InDirectory DEF ReceiveDirectory, Begins, ListingsInv, WalkTaken
  <2>2. /\ Told' = Told /\ Directory' = Directory /\ told' = told + 1 /\ owed' = owed
        /\ directories' = Append(directories, path)
    BY DEF ReceiveDirectory, Begins, Told, Directory
  <2>3. /\ directories' \in Seq(Paths[server]) /\ Holds(directories', path)
        /\ \A x : Holds(directories, x) => Holds(directories', x)
    <3>1. path \in Paths[server] /\ directories \in Seq(Paths[server])
      BY <2>1
    <3>2. directories' = Append(directories, path)
      BY <2>2
    <3> HIDE DEF path
    <3> QED BY <3>1, <3>2, AppendHolds
  <2>4. Taken(Directory, told, directories', sizes)
    <3>1. Taken(Directory, told, directories, sizes)
      BY <2>1 DEF ListingsInv, WalkTaken
    <3> QED BY <2>3, <3>1, TakenGrows
  <2>5. e = Entries[server][Directory][told + 1]
    BY DEF Told
  <2> HIDE DEF e
  <2>6. Taken(Directory, told + 1, directories', sizes)
    BY <2>1, <2>3, <2>4, <2>5 DEF Taken
  <2>7. /\ UNCHANGED <<server, reading, parsed, pending, index, sizes>>
        /\ \A i \in 1..(index - 1) :
             Taken(pending[i], Len(Entries[server][pending[i]]), pending, sizes)
        /\ \A uri \in DOMAIN sizes : Measures(uri, sizes[uri])
    BY <2>1 DEF ReceiveDirectory, reply, ListingsInv, WalkTaken
  <2> QED BY <2>1, <2>2, <2>3, <2>6, <2>7 DEF ListingsInv, WalkTaken, Taken, Measures
<1>3. ListingIsWhole' /\ SizesAreTrue'
  BY KeepShown DEF ReceiveDirectory, ListingsInv
<1> QED BY <1>1, <1>2, <1>3 DEF ListingsInv, ReceiveDirectory, Begins, ServerData

LEMMA ReceiveSizeInv ==
  ASSUME ListingsInv, ReceiveSize
  PROVE  ListingsInv'
<1>1. SongsTaken'
  BY DEF ReceiveSize, SongsTaken, ReadingSongs
<1>2. WalkTaken'
  <2> DEFINE e == Told[told]
             uri == UriOf(Directory, current_file)
  <2>1. /\ told \in 1..Len(Told) /\ Told \in Seq(Entry) /\ reading = "sizes" /\ owed
        /\ e \in Entry /\ e.kind = "file" /\ current_file = e.base
        /\ Directory \in Paths[server]
    BY InDirectory DEF ReceiveSize, ListingsInv, WalkTaken
  <2>2. /\ Told' = Told /\ Directory' = Directory /\ told' = told /\ owed' = FALSE
    BY DEF ReceiveSize, Told, Directory
  <2>3. current_file # NoFile
    BY <2>1 DEF Entry, ListingsInv, ServerData
  <2>4. e = Entries[server][Directory][told] /\ e.size \in Nat
    BY <2>1 DEF Told, Entry
  <2>5. /\ DOMAIN sizes \subseteq DOMAIN sizes'
        /\ e.size > 0 => uri \in DOMAIN sizes'
        /\ \A u \in DOMAIN sizes' :
             \/ u \in DOMAIN sizes /\ sizes'[u] = sizes[u]
             \/ u = uri /\ sizes'[u] = e.size /\ e.size > 0
    BY <2>3, <2>4 DEF ReceiveSize
  <2>6. Measures(uri, e.size) \/ ~(e.size > 0)
    <3>1. told \in DOMAIN Entries[server][Directory]
      BY <2>1 DEF Told
    <3> QED BY <2>1, <2>4, <3>1 DEF Measures
  <2>7. \A u \in DOMAIN sizes' : Measures(u, sizes'[u])
    <3>1. \A u \in DOMAIN sizes : Measures(u, sizes[u])
      BY <2>1 DEF ListingsInv, WalkTaken
    <3> HIDE DEF e, uri
    <3> QED BY <2>5, <2>6, <3>1
  <2>8. Taken(Directory, told - 1, directories, sizes')
    BY <2>1, <2>5, TakenGrows DEF ListingsInv, WalkTaken
  <2> HIDE DEF e
  <2>9. Taken(Directory, told, directories, sizes')
    BY <2>1, <2>4, <2>5, <2>8 DEF Taken
  <2>10. UNCHANGED <<server, reading, parsed, pending, index, directories>>
    BY DEF ReceiveSize, reply
  <2>11. \A i \in 1..(index - 1) :
           Taken(pending[i], Len(Entries[server][pending[i]]), pending, sizes')
    BY <2>1, <2>5, TakenGrows DEF ListingsInv, WalkTaken
  <2> QED BY <2>1, <2>2, <2>7, <2>9, <2>10, <2>11 DEF ListingsInv, WalkTaken, Taken, Measures
<1>3. ListingIsWhole' /\ SizesAreTrue'
  BY KeepShown DEF ReceiveSize, ListingsInv
<1> QED BY <1>1, <1>2, <1>3 DEF ListingsInv, ReceiveSize, ServerData

LEMMA NextDirectoryInv ==
  ASSUME ListingsInv, NextDirectory
  PROVE  ListingsInv'
<1>1. SongsTaken'
  BY DEF NextDirectory, DirectoryEnded, SongsTaken, ReadingSongs
<1>2. WalkTaken'
  <2>1. /\ reading = "sizes" /\ ~owed /\ told = Len(Told) /\ index \in 1..Len(pending)
        /\ pending \in Seq(Paths[server]) /\ directories \in Seq(Paths[server])
        /\ pending[1] = <<>> /\ Taken(Directory, Len(Told), directories, sizes)
        /\ \A i \in 1..(index - 1) :
             Taken(pending[i], Len(Entries[server][pending[i]]), pending, sizes)
        /\ \A uri \in DOMAIN sizes : Measures(uri, sizes[uri])
    BY DEF NextDirectory, DirectoryEnded, ListingsInv, WalkTaken
  <2>2. /\ pending' = pending \o directories /\ index < Len(pending')
        /\ index' = index + 1 /\ told' = 0 /\ owed' = FALSE /\ directories' = <<>>
        /\ UNCHANGED <<server, reading, parsed, sizes>>
    BY <2>1 DEF NextDirectory, DirectoryEnded, reply
  <2>3. /\ pending' \in Seq(Paths[server])
        /\ \A k \in 1..Len(pending) : pending'[k] = pending[k]
        /\ \A x : Holds(pending, x) \/ Holds(directories, x) => Holds(pending', x)
    BY <2>1, <2>2, ConcatHolds
  <2>4. /\ index' \in 1..Len(pending') /\ pending'[1] = <<>>
        /\ \A i \in 1..(index' - 1) : pending'[i] = pending[i]
    BY <2>1, <2>2, <2>3
  <2>5. ASSUME NEW i \in 1..(index' - 1)
        PROVE  Taken(pending[i], Len(Entries[server][pending[i]]), pending', sizes)
    <3>1. CASE i = index
      <4>1. pending[i] = Directory /\ Len(Entries[server][pending[i]]) = Len(Told)
        BY <3>1 DEF Directory, Told
      <4> QED BY <2>1, <2>3, <4>1, TakenGrows
    <3>2. CASE i # index
      <4>1. i \in 1..(index - 1)
        BY <2>1, <2>2, <3>2
      <4>2. Taken(pending[i], Len(Entries[server][pending[i]]), pending, sizes)
        BY <2>1, <4>1
      <4> QED BY <2>3, <4>2, TakenGrows
    <3> QED BY <3>1, <3>2
  <2>6. \A i \in 1..(index' - 1) :
          Taken(pending'[i], Len(Entries[server][pending'[i]]), pending', sizes)
    BY <2>4, <2>5
  <2>7. told' \in 0..Len(Told')
    <3>1. pending'[index'] \in Paths[server]
      BY <2>3, <2>4
    <3>2. Told' \in Seq(Entry)
      BY <2>2, <3>1, Listings DEF Told, Directory
    <3> QED BY <2>2, <3>2
  <2>8. Taken(Directory, IF owed THEN told - 1 ELSE told, directories, sizes)'
    <3>1. (IF owed THEN told - 1 ELSE told)' < 1
      BY <2>2
    <3> QED BY <3>1, <2>2 DEF Taken
  <2>9. (\A i \in 1..(index - 1) :
          Taken(pending[i], Len(Entries[server][pending[i]]), pending, sizes))'
    BY <2>2, <2>6 DEF Taken
  <2>10. (\A uri \in DOMAIN sizes : Measures(uri, sizes[uri]))'
    BY <2>1, <2>2 DEF Measures
  <2>11. directories' \in Seq(Paths[server]) /\ parsed = Songs[server]["all"]
    BY <2>1, <2>2 DEF ListingsInv, WalkTaken
  <2> QED BY <2>2, <2>3, <2>4, <2>7, <2>8, <2>9, <2>10, <2>11 DEF WalkTaken
<1>3. ListingIsWhole' /\ SizesAreTrue'
  BY KeepShown DEF NextDirectory, ListingsInv
<1> QED BY <1>1, <1>2, <1>3 DEF ListingsInv, NextDirectory, DirectoryEnded, ServerData

\* What fetchAllSongs() returns is what was read, with sizes that are true.
LEMMA LibraryIsTrue ==
  ASSUME ListingsInv, reading = "sizes", NEW measured,
         \A uri \in DOMAIN measured : Measures(uri, measured[uri])
  PROVE  LET l == Library(measured)
         IN  /\ l.of = "all" /\ DOMAIN l.songs = DOMAIN Songs[server]["all"]
             /\ \A i \in DOMAIN l.songs :
                  /\ l.songs[i].uri = Songs[server]["all"][i].uri
                  /\ l.songs[i].tags = Songs[server]["all"][i].tags
                  /\ l.songs[i].size # 0 => Measures(l.songs[i].uri, l.songs[i].size)
<1>1. parsed = Songs[server]["all"]
  BY DEF ListingsInv, WalkTaken
<1> QED BY <1>1 DEF Library

LEMMA WalkStops ==
  ASSUME ListingsInv, reading = "sizes", reading' = "nothing", UNCHANGED <<server, player>>,
         \A uri \in DOMAIN size_by_uri_' : Measures(uri, size_by_uri_'[uri]),
         list' = Library(size_by_uri_')
  PROVE  ListingsInv'
<1>1. SongsTaken' /\ WalkTaken'
  BY IdleStep
<1> DEFINE l == Library(size_by_uri_')
<1>2. /\ l.of = "all" /\ DOMAIN l.songs = DOMAIN Songs[server]["all"]
      /\ \A i \in DOMAIN l.songs :
           /\ l.songs[i].uri = Songs[server]["all"][i].uri
           /\ l.songs[i].tags = Songs[server]["all"][i].tags
           /\ l.songs[i].size # 0 => Measures(l.songs[i].uri, l.songs[i].size)
  BY LibraryIsTrue
<1>3. list' = l
  OBVIOUS
<1> HIDE DEF l
<1>4. ListingIsWhole'
  BY <1>2, <1>3 DEF ListingIsWhole
<1>5. SizesAreTrue'
  BY <1>2, <1>3 DEF ListingsInv, SizesAreTrue, Measures
<1> QED BY <1>1, <1>4, <1>5 DEF ListingsInv, ServerData

LEMMA WalkEndsInv ==
  ASSUME ListingsInv, WalkEnds
  PROVE  ListingsInv'
<1>1. \A uri \in DOMAIN size_by_uri_' : Measures(uri, size_by_uri_'[uri])
  BY DEF WalkEnds, SizesAreKept, DirectoryEnded, ListingsInv, WalkTaken, SizesAreTrue
<1> QED BY <1>1, WalkStops DEF WalkEnds, SizesAreKept, DirectoryEnded

LEMMA WalkFailsInv ==
  ASSUME ListingsInv, NEW how, WalkFails(how)
  PROVE  ListingsInv'
<1>1. \A uri \in DOMAIN size_by_uri_' : Measures(uri, size_by_uri_'[uri])
  BY DEF WalkFails, SizesAreKept, ListingsInv, WalkTaken, SizesAreTrue
<1> QED BY <1>1, WalkStops DEF WalkFails, SizesAreKept

-----------------------------------------------------------------------------
LEMMA ListingsInitInv ==
  ASSUME ServerData, ListingsInit
  PROVE  ListingsInv
BY DEF ListingsInit, ListingsInv, SongsTaken, WalkTaken, ReadingSongs, ListingIsWhole, SizesAreTrue,
       Nothing, Unknown, None

LEMMA ListingsNextInv ==
  ASSUME ListingsInv, [ListingsNext]_reader
  PROVE  ListingsInv'
<1>1. CASE ListingsNext
  BY <1>1, ConnectInv, AskInv, CommandInv, SampleInv, ReceiveSongInv, ReceiveTagInv,
     QueueIsReadInv, DatabaseIsReadInv, ReceiveFileInv, ReceiveDirectoryInv,
     ReceiveSizeInv, NextDirectoryInv, WalkEndsInv, SongsBreakInv, WalkFailsInv DEF ListingsNext
<1>2. CASE UNCHANGED reader
  BY <1>2, KeepSongs, KeepWalk, KeepShown DEF ListingsInv, reader, reply, ServerData
<1> QED BY <1>1, <1>2

LEMMA InvHolds == ServerData /\ ListingsSpec => []ListingsInv
<1>1. ServerData /\ ListingsInit => ListingsInv
  BY ListingsInitInv
<1>2. ListingsInv /\ [ListingsNext]_reader => ListingsInv'
  BY ListingsNextInv
<1> QED BY <1>1, <1>2, PTL DEF ListingsSpec

\* A listing that fetchQueue() or fetchAllSongs() returns is the one MPD sent, the
\* tags of a song are its own, and the last song is among them; a listing that
\* was cut off has the beginning of it.
THEOREM ListingsAreWhole == ServerData /\ ListingsSpec => []ListingIsWhole
<1>1. ListingsInv => ListingIsWhole
  BY DEF ListingsInv
<1> QED BY <1>1, InvHolds, PTL

\* No size that is shown is that of another file, of another server, or of a file
\* that MPD could not measure.
THEOREM SizesAreOfTheFiles == ServerData /\ ListingsSpec => []SizesAreTrue
<1>1. ListingsInv => SizesAreTrue
  BY DEF ListingsInv
<1> QED BY <1>1, InvHolds, PTL

\* At the end of a walk the directories that were listed are all there are.
LEMMA WalkFindsAll ==
  ASSUME ListingsInv, WalkEnds, NEW d \in Paths[server]
  PROVE  Taken(d, Len(Entries[server][d]), pending, sizes)
<1> DEFINE paths == {pending[i] : i \in 1..Len(pending)}
<1>1. /\ reading = "sizes" /\ ~owed /\ told = Len(Told) /\ index \in 1..Len(pending)
      /\ pending \in Seq(Paths[server]) /\ directories \in Seq(Paths[server])
      /\ pending[1] = <<>> /\ Taken(Directory, Len(Told), directories, sizes)
      /\ \A i \in 1..(index - 1) :
           Taken(pending[i], Len(Entries[server][pending[i]]), pending, sizes)
      /\ index = Len(pending \o directories)
  BY DEF WalkEnds, DirectoryEnded, ListingsInv, WalkTaken
<1>2. index = Len(pending) /\ Len(directories) = 0
  BY <1>1, ConcatHolds
<1>3. Taken(Directory, Len(Told), pending, sizes)
  BY <1>1, <1>2 DEF Taken, Holds
<1>4. ASSUME NEW i \in 1..Len(pending)
      PROVE  Taken(pending[i], Len(Entries[server][pending[i]]), pending, sizes)
  <2>1. CASE i = index
    BY <1>3, <2>1 DEF Directory, Told
  <2>2. CASE i # index
    <3>1. i \in 1..(index - 1)
      BY <1>2, <2>2, <1>1
    <3> QED BY <1>1, <3>1
  <2> QED BY <2>1, <2>2
<1>5. Found(server, paths)
  <2>1. <<>> \in paths
    BY <1>1
  <2>2. ASSUME NEW c \in paths, NEW i \in DOMAIN Entries[server][c],
               Entries[server][c][i].kind = "directory"
        PROVE  UriOf(c, Entries[server][c][i].base) \in paths
    <3>1. PICK k \in 1..Len(pending) : c = pending[k]
      OBVIOUS
    <3>2. c \in Paths[server]
      BY <1>1, <3>1
    <3>3. i \in 1..Len(Entries[server][c])
      BY <3>2, <2>2, Listings
    <3>4. Holds(pending, UriOf(c, Entries[server][c][i].base))
      BY <1>4, <3>1, <3>3, <2>2 DEF Taken
    <3> QED BY <3>4 DEF Holds
  <2> QED BY <2>1, <2>2 DEF Found
<1>6. paths \in SUBSET Paths[server]
  BY <1>1
<1>7. d \in paths
  <2> HIDE DEF paths
  <2> QED BY <1>5, <1>6 DEF ListingsInv, ServerData
<1> QED BY <1>4, <1>7

\* When readAllFileSizes() ends well, no file of the server that has a size is
\* missing from the sizes, however deep its directory is.
THEOREM EveryFileIsMeasured == ServerData /\ ListingsSpec => WalkIsComplete
<1> DEFINE Complete == \A d \in Paths[server] : \A i \in DOMAIN Entries[server][d] :
             Entries[server][d][i].kind = "file" /\ Entries[server][d][i].size > 0
               => UriOf(d, Entries[server][d][i].base) \in DOMAIN size_by_uri_'
<1>1. ASSUME ListingsInv, WalkEnds PROVE Complete
  <2> SUFFICES ASSUME NEW d \in Paths[server], NEW i \in DOMAIN Entries[server][d],
                      Entries[server][d][i].kind = "file",
                      Entries[server][d][i].size > 0
               PROVE  UriOf(d, Entries[server][d][i].base) \in DOMAIN size_by_uri_'
    OBVIOUS
  <2>1. i \in 1..Len(Entries[server][d])
    BY <1>1, Listings
  <2>2. UriOf(d, Entries[server][d][i].base) \in DOMAIN sizes
    BY <1>1, <2>1, WalkFindsAll DEF Taken
  <2> QED BY <1>1, <2>2 DEF WalkEnds, SizesAreKept
<1>2. ListingsInv => [WalkEnds => Complete]_reader
  BY <1>1
<1> QED BY <1>2, InvHolds, PTL DEF WalkIsComplete
=============================================================================
