----------------------------- MODULE Connection -----------------------------
(***************************************************************************)
(* How termusic stays connected to an MPD, and how it lets go of it: the   *)
(* two connections of the backend and its event thread                     *)
(* (src/src/backend/mpd_backend.cpp), the probe and the attempts of the    *)
(* Controller, and the reconnect ladder, the timers and the shutdown of    *)
(* the UI (src/src/ui/app.cpp).                                            *)
(*                                                                         *)
(* Handlers of the UI thread are atomic; the event thread, the servers and *)
(* the network take their steps between them.  A broken connection is only *)
(* known once somebody uses it.                                            *)
(***************************************************************************)
EXTENDS Integers

\* What an attempt reads from MPD, in this order.
Source == {"player", "queue", "playlists", "library"}
Rank(k) == CASE k = "player" -> 1 [] k = "queue" -> 2
             [] k = "playlists" -> 3 [] k = "library" -> 4

\* What the event thread subscribes to: not the stored playlists.
\* (Bound: the library is the source on screen, else its event is ignored.)
Mask == Source \ {"playlists"}

CONSTANTS
  Endpoint,    \* addresses an MPD may be configured at
  NoEndpoint,  \* no connection
  Kind,        \* the sources whose freshness on screen is followed
  Rungs,       \* the number of delays in the ladder
  auto_reconnect  \* whether the ladder is used

ASSUME ConnectionAssumption ==
  /\ NoEndpoint \notin Endpoint
  /\ Kind \subseteq Mask
  /\ Rungs \in Nat \ {0}
  /\ auto_reconnect \in BOOLEAN

VARIABLES
  serving,        \* the endpoints whose MPD accepts connections
  endpoint,       \* connection_: the endpoint that is configured
  command,        \* command_
  events,         \* events_, and what MPD has to tell on it
  healthy,        \* events_healthy_
  thread,         \* the event thread
  stop,           \* the stop request of the event thread
  posted,         \* kinds whose event waits for the UI thread
  mpd_connected,  \* state_.mpd_connected
  pane,           \* how up to date each kind is on screen
  attempts,       \* reconnect_attempts_, up to the last rung
  waited,         \* rungs that have passed since last_reconnect_
  epoch_new,      \* connectionEpoch() # connection_epoch_seen_
  phase           \* of the process

backend == <<command, events, healthy, thread, stop>>
screen == <<posted, mpd_connected, pane>>
ladder == <<attempts, waited, epoch_new>>
vars == <<serving, endpoint, backend, screen, ladder, phase>>

\* ok: libmpdclient holds no error; alive: the other end is there.  An answer
\* that was refused and not cleared is an error on a connection that is alive.
Command == [to : Endpoint \cup {NoEndpoint}, alive : BOOLEAN, ok : BOOLEAN]
NoCommand == [to |-> NoEndpoint, alive |-> FALSE, ok |-> FALSE]
\* The rescan of the database has an event and nothing to read.
Event == Kind \cup {"update"}
Events == [open : BOOLEAN, alive : BOOLEAN, news : SUBSET Event]
NoEvents == [open |-> FALSE, alive |-> FALSE, news |-> {}]

\* "awake" has received and not subscribed again, "done" has left its loop.
ThreadState == {"none", "starting", "idle", "awake", "done"}
Working == {"starting", "idle", "awake"}
\* "missed": behind the server, and MPD's notice was thrown away.
PaneState == {"current", "stale", "missed", "blank"}
Phase == {"starting", "running", "leaving", "joining", "ended"}

TypeOK ==
  /\ serving \in SUBSET Endpoint
  /\ endpoint \in Endpoint
  /\ command \in Command
  /\ events \in Events
  /\ healthy \in BOOLEAN
  /\ thread \in ThreadState
  /\ stop \in BOOLEAN
  /\ posted \in SUBSET Event
  /\ mpd_connected \in BOOLEAN
  /\ pane \in [Kind -> PaneState]
  /\ attempts \in 0..Rungs
  /\ waited \in 0..Rungs
  /\ epoch_new \in BOOLEAN
  /\ phase \in Phase

\* connected()
Connected == command.to # NoEndpoint /\ command.ok /\ healthy /\ events.open

\* The next command goes out: commandReady() clears a refusal.
Linked ==
  command.to # NoEndpoint /\ (command.ok \/ command.alive)
  /\ healthy /\ events.open

UiRuns == phase \in {"running", "leaving"}

-----------------------------------------------------------------------------
(* Reading from MPD.                                                       *)

\* The panes when all of these kinds are read.
Read(p, kinds) == [k \in Kind |-> IF k \in kinds THEN "current" ELSE p[k]]

\* The panes when the connection is found broken while kind b is read.
ReadUpTo(p, kinds, b) ==
  [k \in Kind |-> CASE k = b -> "blank"
                    [] k \in kinds /\ Rank(k) < Rank(b) -> "current"
                    [] OTHER -> p[k]]

\* The panes when the notices of these kinds are thrown away.
Missed(p, kinds) ==
  [k \in Kind |-> IF k \in kinds /\ p[k] = "stale" THEN "missed" ELSE p[k]]

Broken == [command EXCEPT !.alive = FALSE, !.ok = FALSE]

\* commandReady() and finish(), on a connection that is alive.
Answered == [command EXCEPT !.ok = TRUE]

\* fetchAllSongs() has all the songs and leaves a refused `listfiles` uncleared.
Refused(c) == [c EXCEPT !.ok = FALSE]

-----------------------------------------------------------------------------
(* The event thread.                                                       *)

\* A failure on the event connection ends the loop.
ThreadFails ==
  /\ ~events.alive
  /\ healthy' = FALSE
  /\ thread' = "done"
  /\ UNCHANGED <<events, posted>>

\* MUTANT of Subscribe: what MPD has remembered is flushed first.
SubscribeFlushed ==
  /\ \/ thread = "starting"
     \/ thread = "awake" /\ ~stop
  /\ \/ ThreadFails
     \/ /\ events.alive
        /\ thread' = "idle"
        /\ events' = [events EXCEPT !.news = {}]
        /\ UNCHANGED <<healthy, posted>>

Subscribe ==
  /\ \/ thread = "starting"
     \/ thread = "awake" /\ ~stop
  /\ \/ ThreadFails
     \/ /\ events.alive
        /\ thread' = "idle"
        /\ UNCHANGED <<events, healthy, posted>>

\* poll() and recv_idle: the news are posted to the UI thread, in one batch.
Receive ==
  /\ thread = "idle"
  /\ \/ ThreadFails
     \/ /\ events.alive /\ events.news # {}
        /\ posted' = posted \cup events.news
        /\ events' = [events EXCEPT !.news = {}]
        /\ thread' = "awake"
        /\ UNCHANGED healthy

\* The loop sees the stop request at its next turn.
ThreadStops ==
  /\ stop
  /\ thread \in {"idle", "awake"}
  /\ thread' = "done"
  /\ UNCHANGED <<events, healthy, posted>>

EventLoop ==
  /\ Subscribe \/ Receive \/ ThreadStops
  /\ UNCHANGED <<serving, endpoint, command, stop, mpd_connected, pane,
                 ladder, phase>>

\* startEventLoop() on a connection that a loop has just been started on: the
\* running one is joined.  It hands over what it has just received, or cancels
\* its subscription and throws away the reply, and with it the news.
RestartEventLoop ==
  /\ events.open
  /\ thread' = "starting"
  /\ stop' = FALSE
  /\ \/ /\ thread \in {"starting", "idle"}
        /\ events' = [events EXCEPT !.news = {}]
        /\ \/ /\ posted' = posted \cup events.news
              /\ UNCHANGED pane
           \/ /\ pane' = Missed(pane, events.news)
              /\ UNCHANGED posted
     \/ /\ thread \notin {"starting", "idle"}
        /\ UNCHANGED <<events, posted, pane>>

-----------------------------------------------------------------------------
(* One connection attempt of the Controller, to endpoint e.                *)

\* The probe fails, for an endpoint that does not answer within 300 ms.  The
\* screen is emptied, and the old connection stays.
ProbeFailed(connected) ==
  /\ mpd_connected' = FALSE
  /\ pane' = IF connected THEN [k \in Kind |-> "blank"] ELSE pane
  /\ UNCHANGED <<backend, posted>>

\* disconnect(): the event thread is joined and both connections are closed.
Disconnect ==
  /\ command' = NoCommand
  /\ events' = NoEvents
  /\ healthy' = FALSE
  /\ thread' = "none"
  /\ stop' = FALSE

ConnectFailed ==
  /\ Disconnect
  /\ mpd_connected' = FALSE
  /\ pane' = [k \in Kind |-> "blank"]
  /\ UNCHANGED posted

\* reachable(): the probe opens a socket to one of the addresses of the host.
\* (A local socket is not probed: the connection itself fails or not.)
Reachable(e) == e \in serving

\* makeConnection(): the handshake and the password have been accepted.
Made(e) == [to |-> e, alive |-> TRUE, ok |-> TRUE]

\* Both connections are made anew, the one for events first of all; then all
\* there is to see is read, the sizes of the library perhaps refused, unless the
\* new connection breaks.
ConnectSucceeded(e) ==
  /\ Reachable(e)
  /\ events' = [open |-> TRUE, alive |-> TRUE, news |-> {}]
  /\ healthy' = TRUE
  /\ stop' = FALSE
  /\ UNCHANGED posted
  /\ LET old == [k \in Kind |-> IF pane[k] = "blank" THEN "blank" ELSE "stale"]
     IN \/ /\ command' \in {Made(e), Refused(Made(e))}
           /\ pane' = Read(old, Kind)
           /\ mpd_connected' = TRUE
        \/ \E b \in Source :
             /\ command' = [to |-> e, alive |-> FALSE, ok |-> FALSE]
             /\ pane' = ReadUpTo(old, Kind, b)
             /\ mpd_connected' = (b \in {"playlists", "library"})

AttemptFailed(connected) == ProbeFailed(connected) \/ ConnectFailed

-----------------------------------------------------------------------------
(* The timers of the UI.                                                   *)

\* MUTANT of Rung: the ladder ends after its last rung.
RungOrNever(n) == IF n <= Rungs THEN n ELSE Rungs + 1

\* The delay before the n-th attempt, on a ladder that ends with its last rung.
Rung(n) == IF n < Rungs THEN n ELSE Rungs

\* A new endpoint starts the ladder over.
LadderAttempts == IF epoch_new THEN 0 ELSE attempts
LadderWaited == IF epoch_new THEN 0 ELSE waited

StillConnected == mpd_connected /\ Connected
Due == auto_reconnect /\ LadderWaited >= Rung(LadderAttempts + 1)

TickConnected ==
  /\ StillConnected
  /\ attempts' = 0
  /\ waited' = LadderWaited
  /\ UNCHANGED <<backend, screen>>

TickWaiting ==
  /\ ~StillConnected /\ ~Due
  /\ mpd_connected' = FALSE
  /\ attempts' = LadderAttempts
  /\ waited' = LadderWaited
  /\ UNCHANGED <<backend, posted, pane>>

\* MUTANT of AttemptSucceeds: nobody listens on the new connection.
AttemptSucceedsUnheard ==
  /\ ConnectSucceeded(endpoint)
  /\ thread' = "none"
  /\ attempts' = 0

AttemptSucceeds ==
  /\ ConnectSucceeded(endpoint)
  /\ thread' = "starting"
  /\ attempts' = 0

\* MUTANT of AttemptFails: the ladder is left at its end.
AttemptFailsPastEnd ==
  /\ AttemptFailed(FALSE)
  /\ attempts' = LadderAttempts + 1

AttemptFails ==
  /\ AttemptFailed(FALSE)
  /\ attempts' = IF LadderAttempts < Rungs THEN LadderAttempts + 1 ELSE Rungs

TickAttempts ==
  /\ ~StillConnected /\ Due
  /\ waited' = 0
  /\ AttemptSucceeds \/ AttemptFails

\* processTimers()
Tick ==
  /\ UiRuns
  /\ TickConnected \/ TickWaiting \/ TickAttempts
  /\ epoch_new' = FALSE
  /\ UNCHANGED <<serving, endpoint, phase>>

TimePasses ==
  /\ UiRuns /\ waited < Rungs
  /\ waited' = waited + 1
  /\ UNCHANGED <<serving, endpoint, backend, screen, attempts, epoch_new,
                 phase>>

-----------------------------------------------------------------------------
(* Events and keys.                                                        *)

\* handleBackendEvent() with these kinds.
HandlePosted(kinds) ==
  /\ UiRuns
  /\ kinds # {} /\ kinds \subseteq posted
  /\ posted' = posted \ kinds
  /\ \/ /\ Connected /\ command.alive
        /\ pane' = Read(pane, kinds)
        /\ command' \in {command} \cup
             IF "library" \in kinds THEN {Refused(command)} ELSE {}
        /\ mpd_connected' = command'.ok
     \/ \E b \in kinds \ {"update"} :
          /\ Connected
          /\ command' = Broken
          /\ pane' = ReadUpTo(pane, kinds, b)
          /\ mpd_connected' = FALSE
     \/ /\ ~Connected
        /\ mpd_connected' = FALSE
        /\ pane' = Missed(pane, kinds)
        /\ UNCHANGED command
  /\ UNCHANGED <<serving, endpoint, events, healthy, thread, stop, ladder,
                 phase>>

\* A key that sends a command and, when it is answered, takes a sample.
SendCommand ==
  /\ UiRuns
  /\ \/ /\ command.alive
        /\ \/ /\ command' = Answered
              /\ mpd_connected' \in {TRUE, Linked}
              /\ pane' \in {pane} \cup
                   IF Linked THEN {Read(pane, {"player"})} ELSE {}
           \/ /\ Linked
              /\ command' = Broken
              /\ pane' = ReadUpTo(pane, {}, "player")
              /\ mpd_connected' = FALSE
     \/ /\ command' = Broken
        /\ mpd_connected' = FALSE
        /\ UNCHANGED pane
  /\ UNCHANGED <<serving, endpoint, events, healthy, thread, stop, posted,
                 ladder, phase>>

\* selectDatabase(): the library is read again, and "connected" left alone.
SelectDatabase ==
  /\ UiRuns
  /\ Connected
  /\ \/ /\ command.alive
        /\ command' \in {command, Refused(command)}
        /\ pane' = Read(pane, {"library"})
     \/ /\ command' = Broken
        /\ pane' = ReadUpTo(pane, {}, "library")
  /\ UNCHANGED <<serving, endpoint, events, healthy, thread, stop, posted,
                 mpd_connected, ladder, phase>>

\* "Save and reconnect" with a valid port.
SaveEndpoint(e) ==
  /\ phase = "running"
  /\ endpoint' = e
  /\ epoch_new' = TRUE
  /\ \/ AttemptFailed(mpd_connected)
     \/ /\ ConnectSucceeded(e)
        /\ thread' = IF mpd_connected' THEN "starting" ELSE "none"
  /\ UNCHANGED <<serving, attempts, waited, phase>>

\* "Save and reconnect" with a port that is refused.
SaveRefused ==
  /\ phase = "running"
  /\ mpd_connected
  /\ RestartEventLoop
  /\ UNCHANGED <<serving, endpoint, command, healthy, mpd_connected,
                 ladder, phase>>

-----------------------------------------------------------------------------
(* The beginning and the end of the process.                               *)

\* run(): one attempt, and a loop on whatever connection there is.
Launch ==
  /\ phase = "starting"
  /\ phase' = "running"
  /\ \/ AttemptFailed(FALSE)
     \/ ConnectSucceeded(endpoint) /\ thread' = "starting"
  /\ UNCHANGED <<serving, endpoint, ladder>>

\* stopPlaybackForExit(): MPD is told to stop, which a broken connection does
\* not carry, or with stop_on_exit = false left playing and disconnected.
StopPlaybackForExit ==
  \/ /\ stop' = (thread # "none")
     /\ command' \in IF command.alive THEN {Answered, Broken} ELSE {Broken}
     /\ UNCHANGED <<events, healthy, thread>>
  \/ Disconnect

\* prepareShutdown(): the workers are asked to stop first.
PrepareShutdown ==
  /\ StopPlaybackForExit
  /\ UNCHANGED <<serving, endpoint, screen, ladder>>

\* requestQuit(): the loop still runs what was queued before it ends.
Quit ==
  /\ phase = "running"
  /\ phase' = "leaving"
  /\ PrepareShutdown

\* The terminal is gone and the loop ends on its own.
LoopIsClosed ==
  /\ phase = "running"
  /\ phase' = "joining"
  /\ PrepareShutdown

\* MUTANT of StopWorkers: the stop was requested by prepareShutdown() already.
StopWorkersUnasked ==
  /\ phase = "leaving"
  /\ phase' = "joining"
  /\ UNCHANGED <<serving, endpoint, backend, screen, ladder>>

\* The loop has ended; stopWorkers() requests the stop, of whichever thread.
StopWorkers ==
  /\ phase = "leaving"
  /\ phase' = "joining"
  /\ stop' = (thread # "none")
  /\ UNCHANGED <<serving, endpoint, command, events, healthy, thread,
                 screen, ladder>>

\* The join returns, and disconnect() closes what is left.
Exit ==
  /\ phase = "joining"
  /\ thread \in {"none", "done"}
  /\ phase' = "ended"
  /\ Disconnect
  /\ UNCHANGED <<serving, endpoint, screen, ladder>>

-----------------------------------------------------------------------------
(* MPD and the network.                                                    *)

ServerStarts(e) ==
  /\ phase # "ended" /\ e \notin serving
  /\ serving' = serving \cup {e}
  /\ UNCHANGED <<endpoint, backend, screen, ladder, phase>>

ServerEnds(e) ==
  /\ phase # "ended" /\ e \in serving
  /\ serving' = serving \ {e}
  /\ IF command.to = e
     THEN /\ command' = [command EXCEPT !.alive = FALSE]
          /\ events' = [events EXCEPT !.alive = FALSE]
     ELSE UNCHANGED <<command, events>>
  /\ UNCHANGED <<endpoint, healthy, thread, stop, screen, ladder, phase>>

\* One connection breaks, or both.
LinkDrops ==
  /\ \/ /\ command.alive
        /\ command' = [command EXCEPT !.alive = FALSE]
        /\ UNCHANGED events
     \/ /\ events.alive
        /\ events' = [events EXCEPT !.alive = FALSE]
        /\ UNCHANGED command
  /\ UNCHANGED <<serving, endpoint, healthy, thread, stop, screen, ladder,
                 phase>>

\* Something changes in MPD, which it remembers for every open connection.
\* (Bound: nothing does any more while termusic shuts down.)
ServerChanges(k) ==
  /\ phase = "running"
  /\ command.to \in serving
  /\ pane' = [j \in Kind |->
                IF j = k /\ pane[j] # "blank" THEN "stale" ELSE pane[j]]
  /\ events' = IF events.alive
               THEN [events EXCEPT !.news = @ \cup {k}] ELSE events
  /\ UNCHANGED <<serving, endpoint, command, healthy, thread, stop, posted,
                 mpd_connected, ladder, phase>>

-----------------------------------------------------------------------------
Init ==
  /\ serving \in SUBSET Endpoint
  /\ endpoint \in Endpoint
  /\ command = NoCommand
  /\ events = NoEvents
  /\ healthy = FALSE
  /\ thread = "none"
  /\ stop = FALSE
  /\ posted = {}
  /\ mpd_connected = FALSE
  /\ pane = [k \in Kind |-> "blank"]
  /\ attempts = 0
  /\ waited = 0
  /\ epoch_new = FALSE
  /\ phase = "starting"

Next ==
  \/ EventLoop
  \/ Tick \/ TimePasses
  \/ \E kinds \in SUBSET Event : HandlePosted(kinds)
  \/ SendCommand \/ SelectDatabase
  \/ \E e \in Endpoint : SaveEndpoint(e)
  \/ SaveRefused
  \/ Launch \/ Quit \/ LoopIsClosed \/ StopWorkers \/ Exit
  \/ \E e \in Endpoint : ServerStarts(e) \/ ServerEnds(e)
  \/ LinkDrops
  \/ \E k \in Event : ServerChanges(k)

Spec == Init /\ [][Next]_vars

\* The threads are scheduled, the ticker ticks and time passes; the loop ends
\* when it was told to; and of endlessly many attempts at a server that serves
\* one gets through.
Fairness ==
  /\ WF_vars(EventLoop)
  /\ WF_vars(Tick) /\ WF_vars(TimePasses)
  /\ WF_vars(StopWorkers) /\ WF_vars(Exit)
  /\ SF_vars(Tick /\ AttemptSucceeds /\ command'.alive)

FairSpec == Spec /\ Fairness

-----------------------------------------------------------------------------
(* Properties.                                                             *)

\* EventsAreHeard: as long as neither connection is known to be lost, an event
\* thread is at work on the one for events, whichever way they came about: a
\* connection nobody listens on would look healthy and never change.
EventsAreHeard ==
  phase = "running" /\ Linked => thread \in Working

\* NewsReachScreen: as long as neither connection is known to be lost, what is on
\* screen is up to date, or blank, or a notice about it is on its way: at MPD, or
\* posted; but for what a refused "Save and reconnect" throws away, and what is
\* handled while a refused `listfiles` makes a whole connection look lost.
NewsReachScreen ==
  phase = "running" /\ Linked /\ events.alive =>
    \A k \in Kind : pane[k] = "stale" => k \in events.news \cup posted

\* LadderReconnects: with auto_reconnect, once the configured server serves for
\* good and no longer refuses `listfiles`, and the user leaves the endpoint
\* alone, termusic is connected again and again, for as long as it runs, however
\* often the connection drops and however many attempts have failed before ("It
\* NEVER gives up", app.cpp).
SavesEndpoint == \E e \in Endpoint : SaveEndpoint(e)
LadderReconnects ==
  <>[](endpoint \in serving /\ phase = "running")
  /\ <>[](command.alive => command.ok)
  /\ <>[][~SavesEndpoint]_vars
    => []<>(mpd_connected /\ Connected)

\* ShutdownEnds: a quit ends the process without the watchdog, also when the
\* reconnect ladder makes a connection and starts a thread after the workers
\* were asked to stop.
ShutdownEnds == phase = "leaving" ~> phase = "ended"

\* ConnectedToEndpoint: "connected" is said of the endpoint that is configured
\* and shown as the one in use.
ConnectedToEndpoint == mpd_connected /\ Connected => command.to = endpoint
=============================================================================
