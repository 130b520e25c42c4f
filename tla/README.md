# A TLA+ model of termusic

termusic is a terminal client for MPD (the Music Player Daemon): a queue, stored playlists, a library, a playback
history, a spectrum view, all driven by the keyboard. This directory holds a formal model of the parts of it whose
correctness depends on the *order* of things: what MPD did meanwhile, what another client did, which reply was the
last one to arrive, which list was on screen, when the process ended. The modules are translated from the C++ code
under `src/src/`; `PROJECT.json` maps every definition to the lines it stands for.

Paths below are relative to `src/`: `src/controller/controller.cpp` is `src/src/controller/controller.cpp` in
`PROJECT.json`.

## 1. Inventory of the system

### Threads

| thread | what it does | how it talks to the others |
|---|---|---|
| UI thread | every handler, every MPD command of the main connection, all of the application state | runs the closures and events posted to the FTXUI screen, in order |
| event thread | `MpdBackend::eventLoop`: a connection of its own, in `idle` | posts `handleBackendEvent(batch)` to the screen |
| ticker thread | `Application::startTicker` | posts an empty event at intervals: `processTimers` runs on the UI thread |
| analyzer thread | `visualizer/analyzer.cpp`: reads MPD's FIFO | a mutex-protected frame |
| quit watchdog | detached; ends the process when a shutdown takes too long | an atomic flag |

Because the whole application state belongs to the UI thread, a handler is atomic with respect to the other
threads. It is not atomic with respect to *MPD*: it sends several commands and reads several replies, between which
the server plays on, other clients act and the connection may break. That is where most of the hazards are.

### Components

| component | state | operations | what makes it correct |
|---|---|---|---|
| **Playback context** (`controller.cpp`, `app/playback.cpp`) | `session_` (the list a run was started from, the row that plays), `observed_uri_`/`observed_song_id_`, `state_.player` | `playTrackAt`, `stepContext`, `refreshPlayer`/`syncPlaybackSession`, transport commands, `handleBackendEvent`, `reconnect` | the marker is on the song that plays; Next/Previous go to the neighbouring row; shuffle does not repeat; the player bar is not stale |
| **MPD** (external) | queue with ids, current entry, state, random order, stored playlists, music directory | commands, automatic advance, `idle` | modelled from how the backend uses it |
| **Backend: connection** (`backend/mpd_backend.cpp`) | both connections, stop request | `connect`, `disconnect`, `reachable`, `eventLoop` | a broken connection is noticed and replaced; no event is lost for good; shutdown joins |
| **Backend: listings and sizes** (same file) | song under construction, directories to list, `size_by_uri_` | `fetchQueue`, `fetchAllSongs`, `readAllFileSizes` | nothing of the listing is dropped; a size is that of the file |
| **History** (`controller.cpp`, `app/history.cpp`, `app.cpp`) | recorder; `entries_`, `next_id_`, the file, the rows on screen | `maybeRecordHistory`, `load`, `save`, `record`, `removeRecord`, deletion of rows | one record per start; an id names one record; deleting a row deletes that record; no crash loses the list |
| **Workspace** (`app.cpp`, `workspace_tree.hpp`, `controller.cpp`) | tree, cursor, open collection, `active_playlist_index_`, prompts, register | tree keys and clicks, prompts, `refreshPlaylists`, edits of playlists | an edit hits the playlist on screen; what a prompt was opened for is what it does |
| **Track list** (`app.cpp`) | `track_cursor_`, scroll, visual anchor, search box and its results | cursor keys, Visual, yank, delete, reorder, search, clicks, frames | a key acts on the row that is shown under the cursor, in lists that shrink and filters that hide |
| **Keymap** (`app/keymap.cpp`, `app/actions.cpp`, `ui/core/keybindings.cpp`) | tables, prefixes, pending sequence, overrides, the capture | `feed`, override and reset, recording, load at launch | a sequence is unambiguous; q always quits; a recording reaches nothing else |
| **Configuration** (`config/config.cpp`, `config/paths.cpp`, `main.cpp`) | the settings, the preserved lines, the file | load, environment, options, save | what is set survives; foreign lines stay; a save is whole or not at all |
| **Settings sections** (`ui/core/settings.cpp`, `general.cpp`, `appearance.cpp`) | rows, drafts, pickers | move, edit, choose, confirm, Save and reconnect | a draft enters the file only when confirmed |
| **Mouse** (`app.cpp`) | hit boxes, pressed control, drag | frames that reflect, press, release | a click does what the screen shows there |
| **Reconnect ladder and timers** (`app/reconnect.cpp`, `app.cpp`) | next attempt, rung | notice, attempt, give way to the user | it never stops trying while there is no connection |
| **Shutdown and workers** (`app.cpp`) | quit flags, threads | `requestQuit`, `prepareShutdown`, join | every thread is joined |
| **Layout metrics** (`ui/metrics.cpp`) | none | `computeMetrics` | what is laid out fits the terminal |
| **Analyzer** (`visualizer/analyzer.cpp`) | running flag, window of samples | start, stop, reconfigure | not modelled |
| **Rendering** (`ui/theme.cpp`, `widgets.cpp`, `ui/visualizer/*`, `visualizer/beat.cpp`) | none of its own | pure functions | not modelled |
| **Diagnostics** (`app/diagnostics.cpp`) | a log file | append | not modelled |

The hazards that are specific to this code, each at its line, are the list `hazards` of `PROJECT.json`, with the
properties that cover them; the few that none covers say why.

## 2. Plan

Modelled and checked: playback context, history, connection with ladder and shutdown, workspace, track list, keymap
and rebinding, configuration and settings, mouse. Proved without a run: layout metrics, listings of the backend. What is left,
in order of importance:

1. The composition of `Workspace` and `Tracks`: an edit goes by the rows of the cursor in the collection that the tree
   has open. Each module takes the other's part as any change.
2. An abstract specification of the playback context (what a listener is promised) and of the connection (up, down,
   being repaired), with the detailed modules shown to implement them.
3. The start and stop of the analyzer thread.

## 3. Modules

| module | models | extends |
|---|---|---|
| `MpdServer` | MPD's player: queue of entries with ids, current entry, state, random order; one operator per command or event, each the set of possible successors | |
| `PlaybackRules` | `occurrenceIndexIn`, `playingRowIn` and the duplicate counters of `app/playback.cpp` | |
| `PlaybackSession` | the playback context of the controller | the two above |
| `HistoryRecorder` | `maybeRecordHistory` | |
| `HistoryStore` | records, file, view and deletion | `HistoryRecorder` |
| `HistoryPromise` | abstract specification of the history | |
| `Connection` | how termusic gets connected, stays connected and lets go | |
| `Database` | the readers of the backend, pair by pair | |
| `Workspace` | tree, open collection, prompts, register, stored playlists | `Lists` |
| `Metrics` | `computeMetrics`, as functions | |
| `Lists` | the loop that filters a list, as a function that can be proved about | |
| `Tracks` | the track list | `Metrics` (the height of a page), `Lists` |
| `KeymapTables` | the shipped bindings and the tables of actions | |
| `Keymap` | tables, prefixes, overrides, pending sequence, `[keybindings]` on disk | `Lists` |
| `Keys` | the way of a key through the UI, and the binding table | `Keymap` |
| `ConfigText` | quoting and unquoting of one value | |
| `ConfigFile` | the document: reading, writing, the steps of a save | `Lists` |
| `Settings` | launch, General, Appearance, saves and crashes | `ConfigFile`; `ConfigText` by INSTANCE |
| `Pointer` | frames, hit boxes, clicks | |
| `MC*` | the instances for TLC | the module each is named after; `MCKeys` also `KeymapTables` |
| `*_proofs` | theorems | the module each is named after; `PlaybackSession_proofs` also has those about `MpdServer`, `HistoryStore_proofs` about `HistoryRecorder`, `Tracks_proofs` about `Metrics`, `Settings_proofs` about `ConfigFile` |

A definition whose comment begins with `Mutant` is a wrong version of its neighbour: with it in the place of that
definition a named property of a run fails (list `mutants` of `PROJECT.json`). Nothing in the specifications uses them.

### MpdServer and PlaybackSession

`mpd` is the whole server, one record. A handler of the UI thread is one action, and everything MPD does inside of
it is composed as sets of successor states: `StepInSnapshot(delta)` stands for `playPosition`, `reportResult`,
`refreshPlayer` (two replies, between which the track may end, or the connection break) and
`syncPlaybackSession`.

* `link` is what the two connections of the backend are good for: `"up"`, `"deaf"` (only the event connection has
  failed: `connected()` is false, commands are still answered), `"down"`.
* `pending` is the set of idle flags raised and not yet handled. MPD coalesces flags, the backend posts batches;
  `HandleBackendEvent(events)` takes any non-empty part of what is pending, in the order of the code: the player
  first, then the queue.
* `player`, `session`, `observed` are the members of the controller. A session is `[context, seq, occ]`: the
  collection, the snapshot of URIs, the row. A snapshot row stands for the pair (URI, duplicate counter) of the code.
* `Outside` is a constant that says what the environment does in a run: another client, a failing link, shuffle.

The volume, the elapsed time, the tags and the texts of notices are left out: nothing the properties speak about
depends on them. `SeekVolumeRepeat` keeps what such a command does to the rest, which is a new sample. `PlaybackRules` also
has `playingRowIn`, which finds the row that gets the marker on screen.

### HistoryRecorder

Maps `maybeRecordHistory` and the two places that reset it (`history_primed_ = false` in `reconnect`, the
constructor). `IsStart` is the three-way rule of the code: nothing was known, another id, or playing after stopped.
`unheard` and `seen` are auxiliary: the songs MPD started since the last sample while termusic was attached, and the
song of the last sample. The properties compare the records with what MPD *did*, not with the recorder's own state.

### HistoryStore and HistoryPromise

`HistoryStore` extends the recorder: the record that a sample decides on is stored and saved in the same step, as in
`refreshPlayer`. `entries`, `next_id`, `cap` and `file` are those of the class; `view` is the list of rows the UI built
last, newest first. A record without an id (older files) has id 0 in `file`. `Save` may fail: the code writes a
sibling file and renames it, so that a failure or a crash leaves the old file whole. `DeleteRows(lo, hi)` collects the ids of
the rows of the *view* and removes, for each, the first record with that id: exactly the loop of
`removeHistoryRecords`. `StartAgain` is the end of the process at any moment and a new start, with another cap.

`disk` is what the disk allows at present, a set of "read" and "write", which `DiskChanges` changes; `enabled` is
`history_enabled`, which the code only asks before it reads.

`HistoryPromise` says from outside what becomes of each record. `shown` is the list in memory, `durable` the list on disk,
`onscreen` the rows of the view, `limit` the cap, `usable` whether the disk may be used.
* `PromiseRecord`: one record more at the end, under an id that no record and no row has; the oldest go only by the cap.
* `PromiseDelete`: exactly the records go whose ids the chosen rows name; the others stay, in their order.
* After either the file is the list (`Saved`), unless the disk refuses it.
* `PromiseRestart`: the newest `limit` records of the file come back, all of them and as they were, those without an id
  under new ones (`Restores`, `Loaded`); the file is untouched. Only a file that cannot be read gives an empty list.

So a record is lost in three ways and no other: by the cap, by a deletion that names it, or with a change that the disk
refused; and the whole file by the next change after a start that could not read it. `HistoryStore` implements it with
`shown <- entries`, `durable <- file`, `usable <- disk`, nothing when history is switched off (property `KeepsPromise`, theorem
`StoreKeepsPromise`). Switched off it does not: the switch only guards the load (section 6).

`FilesAreWritten`: a file has ids everywhere, ascending, or nowhere, as every version of termusic wrote them. It is a hypothesis of
the theorems that need it; what happens to the others is in section 6.

### Connection

A handler of the UI thread is one action; the event thread, MPD and the network act between them.

* `command` is `command_` (which endpoint it goes to, whether the other end is still there, whether libmpdclient has
  seen a fatal error), `events` is `events_` with the idle flags MPD has collected for it, `healthy` is
  `events_healthy_`, and `Connected` is `connected()`. A connection that breaks only loses `alive`; `ok` and `healthy`
  change when somebody uses it. An MPD that ends closes its sockets, which the loop sees as `POLLHUP` or as a failed
  receive; a host that vanishes without a word is a later `LinkDrops`.
* `thread` is where the event thread is in `eventLoop`: `starting` (before the first subscription), `idle`, `awake`
  (has received, has not subscribed again), `done`. `stop` is the stop request of the `jthread`.
* A load of the library may end with a refused `listfiles`, whose error nobody clears (`Refused`): the songs are there, the
  connection is whole, and `connected()` is false until a command comes along that clears it (`Answered`). `Linked` is what a
  command would find: it tells a refusal from a broken connection, which `Connected` does not.
* `pane[k]` says how the rows of a kind on screen compare with MPD: `current`, `stale`, `blank`, or `missed` - behind, with the
  notice thrown away: by `noidle`, which is what `startEventLoop` on a live connection may do to the loop it replaces
  (`SaveRefused`), or by `handleBackendEvent`, which reads nothing while `connected()` is false.
* An attempt is `ProbeFailed` (the old connection stays), `ConnectFailed`, or `ConnectSucceeded`, which reads the
  player, the queue, the playlists and the library in that order and may break at any of them. `Launch`, `Tick` and
  `SaveEndpoint` each do with the result what the code does: `reconnect()` has returned true even when the connection
  broke while reading, and only `SaveEndpoint` looks at `mpd_connected` before it starts the thread.
* `attempts`, `waited`, `epoch_new` are the ladder: time is counted in rungs.
* `phase`: `PrepareShutdown` is `prepareShutdown`; what the screen has queued still runs in `leaving`, the ladder
  included; `StopWorkers` requests the stop again and `Exit` is the end of the join and `disconnect()`.

Left out: the watchdog (the point is that the process ends without it), the ticker's and the analyzer's own joins (each
a bounded wait), passwords, and `Action::Reconnect`, which no context of the keymap can produce.

### Workspace

A key or a click is one action, with every command it sends to MPD.

* `stored` is what MPD has: names to lists of tracks. `Order` is the fixed order in which it lists them.
* `library` is `state_.library`: the list of playlists (virtual `Default` first), `current`, `database_view`, `songs`.
  `Shown(library)` is what `refreshLibrary` reads the songs from.
* `tree` and `cursor` are the playlist rows and the row under the cursor, named by its id as `rebuild()` does. `Sync` is
  `syncTreeFromPlaylists`, at a frame or before the timer pass.
* `active` is `active_collection_`, `active_playlist_name_` and `active_playlist_index_`; `prompt` stands for
  `playlist_prompt_`, `playlist_prompt_rename_`, `rename_original_` and `delete_playlist_pending_`; `register` is the
  music register.
* Every prompt names its target when it is *committed*, by the cursor of that moment. `asked` is auxiliary: what the
  user asked for (`create`, `rename`, `delete`), and the row that was highlighted when the prompt was opened, or the row
  clicked behind it since.
* `unseen` is auxiliary: another client has changed a playlist since the last connect. termusic does not subscribe to
  that event, so most properties are about the time before. `ahead` is auxiliary: a key was handled before the frame that shows
  what the key before it did.
* `MoveTo(row)` is a key or a click that moves the cursor, with `autoLoadTreeCursor`. `DeleteRows` sends positions
  highest first (`Removed`), and every edit of the open playlist ends in `Reloaded`: the list is read again, and then
  what is open *by its index*.
* `CreateSucceeds`, `CreateBreaks` and `CreateFails` are the three ends of a creation: the save and the clear are two
  commands.

Left out: the pane, folded groups and the rows under Core (`Keys`), the cursor in the track list (`Tracks`), the deletion of
history rows (`HistoryStore`), a connection
that breaks in the middle of a handler other than a creation or a reconnect, and actions without a binding
(`NewPlaylist`, `AddToPlaylist` and the like). A playlist whose name is the id of a fixed row (`library`) is excluded by
`WorkspaceAssumption`: `rebuild()` would put the cursor on the fixed row.

### Tracks

A key is one action; a frame (`Draw`) is another, in a terminal that may have another height each time. `behind`
counts what was handled since the last frame, at most `MaxBehind`. The cursor is what it is in the code, an `int` that
keys move without looking at the list: `Plus` wraps it where it wraps, `Jump` is `G` with `INT_MAX`, and `Settled`
is the clamping and scrolling in `renderTrackBuffer`. `Land` replaces the list as the tree does, `Refresh` as timers and edits
elsewhere do. `frame` is auxiliary: the rows the last frame drew, the row it highlighted and the rows in the colour of the
selection; `taken` is the rows the last step yanked, deleted or played. `KeysFollowTheScreen` relates the two.

### Keymap and Keys

`Keymap` has the C++ tables (`bindings`, `order`, `prefixes`, `custom`) and the `[keybindings]` in memory and on disk. Loading
at launch is a loop that the model walks row by row (`LoadEntry`, `LoadEnds`), because each row is validated against what the rows
before it left. `Feed(chain, t)` is `Keymap::feed`: nearest context first, sequences before prefixes, and a dead end that is
tried again alone. `Keys` sends a key through everything that may take it before the keymap does, in the order of
`handleEvent`: recording, text field, prompts, confirmations, module of Core, keymap, quit. What the keymap does not take, or
an action does not want (`Unhandled`), falls through to the end of `handleEvent` (`FallsThrough`): the quit key, then the text
field. `KeymapTables` has the shipped table, of which a run takes the keys it presses.

### ConfigText, ConfigFile and Settings

A document is the sequence of its lines `[section, key, value]`. `Read` and `Write` are `loadDetailed` and
`serialize`, line by line, with the range and the fallback of each setting, the legacy keys and the preserved lines. A file that a
person left is any document that a reader can be in (`DocumentOk`): the lines above the first header come first, since
every header opens a section with a name; an empty header `[]` is left out. A value is a member of a small set there; `ConfigText` has what the quoting does to it, character by character over the characters that mean something,
and `ValuesSurvive` checks that what is written is read back. `Settings` has the launch (path, file, environment, options), the
rows of General and Appearance with their drafts and pickers, and the save: `Save` can be refused or blind (the file
could not be read), and a crash in the middle of it leaves the old or the new document, since the code writes a temporary
file, syncs and renames it. `SettingsSurvive` compares what is held with what the file says, `SectionsStay` the file with the file that
was there before, so that it also sees what reading drops.

### Pointer

`Draw` is a frame: the controls of the page that is drawn store the cells they got (`boxes`), those of the other page keep
what they had. `Press` and `Release` look a cell up in `boxes` in the order of `handleEvent`. `Layout` is a constant that says
which cells a target has in a terminal of a size.

### Metrics and Database

`Metrics` is one operator per field of `UiMetrics`, in integers as in the code. `Database` is a reader of a stream of pairs
(`ReceiveSong`, `ReceiveTag`, `ReceiveFile`, `ReceiveDirectory`, `ReceiveSize`), any of which may be the last before the
connection breaks, and the walk over the directories. Both hold for every input and are proved; an instance small enough for TLC
would not say more.

## 4. Runs

| run | module, configuration | bounds | what it shows |
|---|---|---|---|
| `faults` | `MCPlaybackSession`, `PlaybackSession_faults.cfg` | 2 URIs, 4 ids, queue of at most 2, snapshots `<<a,b>>` and `<<b>>`, another client, failing link, server restarts | `TypeOK`, `MarkerTruth`, `ObservedNamesRow`, `PlayerViewFresh` |
| `steps` | `PlaybackSession_steps.cfg` | 3 URIs, one snapshot of three rows, shuffle, another client that picks what plays; fairness | `StepPlaysNeighbour` (wrapping both ways), `ShuffleNeverRepeats`, `MarkerSettles` |
| `duplicate` | `PlaybackSession_duplicate.cfg` | snapshot `<<a,b,a>>`, nobody else | a **violation**, finding 1 |
| `history` | `MCHistoryStore`, `HistoryStore_store.cfg` | two songs, caps 1 and 2, ids up to 3, two initial files (without ids, written by this version) up to the names of the songs, a disk that works or not | `StoreTypeOK`, `RecordsAreStarts`, `StartIsRecorded`, `IdsIncrease`, `DeletionHitsView`, `KeepsPromise` |
| `connection` | `MCConnection`, `Connection_ladder.cfg` | one endpoint, the library as the only source, two rungs, `auto_reconnect`; fairness | `TypeOK`, `EventsAreHeard`, `NewsReachScreen`, `LadderReconnects`, `ShutdownEnds` |
| `endpoint` | `Connection_endpoint.cfg` | two endpoints, one rung | a **violation**, finding 2 |
| `workspace` | `MCWorkspace`, `Workspace_edits.cfg` | two tracks, names `a` and `b` beside a stored `Default`, one key ahead of a frame, another client at `a` | `TypeOK`, `CursorIsOpen`, `ListingIsFresh`, `BufferIsFresh`, `OnlyRowIsLost`, `DeletesTheRows`, `HiddenIsUntouched` |
| `buffer` | `Workspace_buffer.cfg` | as above | a **violation**, finding 3 |
| `keys` | `MCKeys`, `Keys.cfg` | the shipped bindings of eleven keys, three rows that can be rebound, of which one is in the table and one works behind the immersive view, recorded sequences of at most 2, two initial files | `TypeOK`, `TablesSound`, `PendingContinues`, `RowsAreConfigured`, `QuitKeyWorks`, `RecordingIsPrivate` |
| `core` | `MCSettings`, `Settings.cfg` | two files, three ways to launch, two confirmed edits, crashes, refused saves, unreadable files; values of up to three characters | `TypeOK`, `SettingsSurvive`, `NextLaunchConnects`, `SaveIsAtomic`, `SectionsStay`, `EndpointIsConfirmed` |
| `tracks` | `MCTracks`, `Tracks.cfg` | three songs, lists of at most four rows, terminals of 6 and 8 rows (pages of 1 and of more), two keys between frames | `TypeOK`, `ScreenShowsCursor`, `KeysFollowTheScreen` |
| `pointer` | `MCPointer`, `Pointer.cfg` | eight cells, two sizes | a **violation**, finding 4 |

Why the bounds are enough. The session compares identities for equality and counts rows up to the length of the
snapshot. Two URIs and a queue of two give a current song inside and outside of the snapshot, at the row and not at
the row, an id that is reused after a server restart, and an emptied queue; four ids are as many as can be remembered
at the same time (two in the queue, one in the last sample, one observed), and MPD is made to give the smallest free
one, since ids are only compared for equality. `steps` has three rows because `+1` and `-1` are the same step modulo two. Its other client only
plays rows and toggles shuffle (`remote` in `Outside`): it moves the song off the row the session names, which is all that
`MarkerSettles` needs to be at stake, and what the edits of a full client and a failing link do to the marker is in `faults`.

The history needs two records (first and last), a cap that evicts at once, and an id for a record after an eviction and
a restart. Two songs tell "the song of the last sample" from "the song loaded now"; the theorems hold for any number. The two
songs may change places (`MCSymmetry`), since the files are given with both names; none of the properties is a liveness one.

The connection has one endpoint because none of its five properties compares endpoints (saving the same endpoint again
still goes through probe, failure and success); the finding needs two. Its one source is the library, the one whose load can be refused. Two rungs are the first ladder with a delay
below the last one; the five delays of the code differ only in their length. What a second source adds - a
batch that breaks in the middle - is covered by the proof, which holds for any set of sources. Nothing changes in
MPD any more once termusic shuts down, since nobody looks.

The workspace has two names that a playlist may have and a third that is hidden: `a` is listed before `b`, which is
there at the start, so a creation, a renaming or a deletion shifts the index of the open one, and a broken listing or
another client can take it away. Two tracks are the shortest list in which rows have neighbours to be confused with.
No playlist gets the same track twice (`Paste`), which bounds the lists; one key may be handled ahead of its frame
(`MayType`); another client acts once between two connects, and only deletes `a` or saves the queue under that name; a listing
that breaks delivers nothing (`Cuts`); one row is yanked at a time (`MaxYank`), while ranges of any length are deleted.

The eleven keys include every key that the dispatcher treats in a way of its own (quit, Esc, Enter, search), a
page key, a toggle of the presentation, the movements, and `d`, which begins `d d`. One row is rebound in the table and
the file, the other in the file only, where it clashes with it; recorded sequences of two keys are the shortest with a
prefix. In `core` one file has every kind of line (settings, foreign lines in and under sections, legacy keys, bindings)
and one has values that nothing accepts; two edits are the fewest of which one can be saved and the next one refused.
Values of three characters have an escape with something on both sides of it. In `tracks` the shortest page has one row and
the longest list four, so that lists are shorter and longer than a page; two keys between two frames are the fewest of which
the second acts on what the first left. `Drift` bounds how far the cursor can be moved off an empty list, where nothing
clamps it.

`CHECK_DEADLOCK` is switched off for `Connection` only, whose process really ends. No state of the other
specifications is without a successor.

### Fairness

`steps`: `FairSpec == Spec /\ WF_vars(PlayerEventHandled)`. The event thread posts every batch it
reads to the screen and the UI loop runs every posted closure (`startBackendEvents`, `ui/app.cpp` 814-818), so a
player event that stays pending is handled. `HandledCleanly` adds that the sample taken then is not torn: the two replies
of a sample are one round trip apart while a track lasts minutes, so the track does not end between them every
time. Nothing is assumed of the other client, which may act for ever.

`connection`: the event thread is scheduled (`WF EventLoop`; its poll has a timeout of 250 ms), the ticker posts an
event at intervals and time passes (`WF Tick`, `WF TimePasses`), the FTXUI loop ends once it was told to (`WF
StopWorkers`), and a join returns when the thread is done (`WF Exit`). About the network it is assumed that of endlessly
many attempts at a server that serves for good one gets through (`SF` of an attempt that ends with a whole connection); without it a
network that drops every connection would refute any client. That MPD answers every `listfiles` of that load is no fairness but a
hypothesis of `LadderReconnects`, `<>[](command.alive => command.ok)`: without it the property is false, since each
connection that the ladder makes is given up at the next tick (section 6). Links may still drop for ever, and the user may press
anything; `LadderReconnects` only asks that the endpoint is left alone from some time on, since every save starts the
ladder over.

## 5. Theorems

Proved by TLAPS for *every* value of the constants (any set of URIs, ids, songs, lists, contexts, bindings, directories,
terminals; any number of steps of any client), from the named assumptions of the modules, which TLC evaluates on the instances.

**Playback** (`PlaybackSession_proofs`, which begins with the lemmas about the server).
`SessionInvariant`: `Spec => []SessionInv`, with `SessionInv == TypeOK /\ MarkerTruth /\ ObservedNamesRow`.
`MarkerTruth` alone is not inductive: a sample that shows an *unchanged* identity leaves the row alone, so one
has to know that the remembered identity belongs to that row, which is `ObservedNamesRow`. After a step or a start
the id of `observed` is reset, so the next sample always compares unequal and is resolved. The argument: `SyncSample` (a sample
with both replies from one state establishes the marker), `TornSample` (a torn one may break it, but then a player event is
pending, since the track end raised it), and one lemma per handler. `TypeCorrect`, `MarkerIsTrue`, `ObservationNamesRow` are
its parts; `PlayerBarIsFresh` is the bar; `MarkerIsOnItsRow` and `MarkerNamesWhatPlays` say that `playingRowIn` marks the right
row, also in a list that holds the song several times.
`StepsPlayNeighbour` and `ShuffleStepsAreNew` are the two action properties of `steps`. The first rests on
`DistinctRow`: when no event waits and the queue is the snapshot of a list without duplicates, the true marker *is* MPD's
position, so that counting from the row is counting from what plays. `MarkerNamesDistinctEntry` states this as a
theorem: the property that `duplicate` refutes holds for every other list.

**History** (`HistoryStore_proofs`). `RecorderInvariant`: while attached, a loaded song that has not
started since the last sample is the one the recorder knows. This makes the two action properties provable
(`OnlyStartsAreRecorded`, `SeenStartsAreRecorded`; with the store, `OnlyStartsAreStored`, `SeenStartsAreStored`).
`StoreInvariant`, for files that termusic wrote (`FilesAreWritten`): `StoreInv` is the types, `IdsIncrease`, `ViewOk` (a row of the view has
an id that was given out, and the record of that id, if there still is one, is the row) and that the file is numbered by one version. `IdsIncrease` is not
inductive without the last: `load` gives fresh ids to entries without one from a counter that only knows the ids before it.
`DeletionsHitTheView` needs `ViewOk`: the view may be older than the records, and an id must not have come to mean another
one since. Its loop removes the first record with each id, and the lemmas about it say what remains: the others, in
their order. `StoreKeepsPromise` is the refinement, step by step: `FilesAreWritten /\ StoreSpec /\ []enabled => KeepsPromise`. That
history is switched on throughout is needed, since the store writes also when it is off (section 6); that the records which a deletion
names are those that go needs `ViewOk`, and that ids restored from a file name one record each needs `FilesAreWritten`.
`StoreTypes` and `IdsNameRecords` are parts.

**Connection** (`Backend_proofs`). `ConnectionInvariant`, for any endpoints, sources and length of the ladder. `EventsAreHeard`
is not inductive alone: a loop may end because it was asked to, so one has to know that nobody asks while termusic is
in use (`NotAskedToStop`), and that a launch whose probe fails finds no connection (`NothingBeforeLaunch`). The
argument is one lemma per outcome of an attempt (`FailureTypes`, `SuccessTypes`: a new connection is either whole or refused, with
everything on screen up to date, or known to be broken) and one per group of actions. The properties speak of connections that
are not known to be lost (`Linked`), a refused one among them. `ConnectionTypes`,
`ConnectionHasItsThread` and `NoNewsIsLost` are the properties the run checks.

**Keymap and Keys** (`Keys_proofs`). For every shipped table that is itself sound (`ShippedAssumption`), every file and every
order of loads, keys, clicks, recordings, resets, failed saves and launches, by the invariant `KeysInv` in four parts:
* `KeymapInv`, the tables. An override which `validate` accepts leaves a table of sequences none of which begins another
  (`OverriddenApart`), and touches no other row. `TablesStaySound`, `QuitStaysReserved`, `RowsStayConfigured` follow.
  (`QuitIsReserved` is proved only; what the user sees of it is `QuitKeyWorks`, which the run checks.)
* `KeymapTyped`: the order of a context lists exactly its table, which is what `bindingsFor` and the rows of the editor rest on.
* `PendingInv`: `PendingStaysAlive`, since every operation that changes a table drops the sequence being typed.
* `ScreenInv`, by one lemma per handler for each of its parts: the cursor of the tree is on a visible row (`PlaceInv`), that of
  the table on one of its rows (`RowsInv`), and a recording keeps the table open (`CaptureInv`). The launch builds the rows
  without looking at the cursor, so `Untouched` says that the cursor is still on the first one then.

`QuitKeyQuits` is the step of `QuitKeyWorks`: where it is not text, a key to record or an answer, the key sets `quit`. (`QuitKeyWorks`
also says that this step is possible and no other is, with ENABLED, which is model-checked.) It needs all of them: that the key resolves to `quit` whatever was begun before it (`ReservedResolves`: no
sequence that is bound or begun in any context has it, but that one), that no module takes it as a move, and that the action finds
no reason to leave it. `RecordingStaysPrivate` needs that a recording has the Settings page open, so that no click reaches the
tree. `KeysTyped` is the types.

Two statements that the run had not refuted turned out to be wrong when their proofs failed, and the model was corrected. A
text field was said to be edited only with its module on screen; but `activate` may be bound in the immersive view, where it works on
the module that is hidden, so the field can be edited behind it, and `FallsThrough` now has what `handleEvent` does then.
And a recording was said to leave the cursor of the table alone; but rows that the defaults leave without a key stay in the table
until the next frame, which takes them away and the cursor with them. `RecordingIsPrivate` now says that the cursor moves only
with the rows.

**Layout** (first part of `Tracks_proofs`). `RowsFit`, `WorkspaceAddsUp`, `ImmersiveAddsUp`, `GridIsCentred`, `PlayerBarGeometry`: for every
terminal, by cases over the breakpoints.

**Listings** (`Backend_proofs`). `ListingsAreWhole`, `SizesAreOfTheFiles`, `EveryFileIsMeasured`: the invariant says how much of
the stream of pairs has been taken in, and that the directories before the present one are whole. `ServerData`, what MPD is, is
part of the initial state.

**Workspace** (`Workspace_proofs`). `WorkspaceHolds`: `Spec => []WorkspaceInv`, for any names, songs, stored playlists, other
clients and lost connections. The three invariants of the run are not inductive:
* `CursorIsOpen` only speaks of a tree that is up to date. An edit changes the list first and the tree with the next frame, so
  `CursorOpens` states it of any tree, for a row that is still listed; bringing the tree up to date then finds the row again.
* `BufferIsFresh` leaves out the time after keys typed ahead. `OpenSongsAreFresh` says that also then the songs are fresh if they
  are shown under the name the edits go to, which is what a reload after an edit needs.
* `ListingIsFresh` needs that the list names each playlist once, Default first (`PlaylistsSound`): otherwise an index does not
  name a playlist, and what `selectPlaylist` opens need not be what the cursor is on.
* What a prompt is committed to is looked up when `Enter` comes: `PromptIsAboutRow` says that the question that is open is still
  about the row under the cursor. With it, `OnlyTheRowIsLost` follows from the invariant, step by step.
`WorkspaceTyped`, `CursorStaysOpen`, `ListingStaysFresh`, `BufferStaysFresh`, `OnlyTheRowIsLost`, `HiddenStaysUntouched` and
`RowsAreDeleted` are the properties of the run. The last one is an induction over the commands,
highest row first: after k of them the list has its rows up to the ones removed, and behind them those that followed the range.

**Track list** (`Tracks_proofs`). `TracksHold`: `Spec => []TracksInv`, for lists, queries and terminals of any size. `TypeOK`
contains that the result cursor stays in its list and that a closed box is as `closeSearchPrompt` leaves it; `ListsBounded`
makes sums of rows ints, so that only the cursor can wrap. Of what is handled between two frames (`Handles`, one lemma
per action) only the types have to be kept; of a frame (`Draws`) it is shown that the viewport it settles on has the cursor in it and
no room after the last row (`FollowIs`), that the rows it shows are a full page or all (`RowsShown`), and that writing the
cursor back changes neither the view nor the selection. `CursorDrawn`, the rest of the invariant, is what the next key
finds: the cursor in the list, nothing highlighted while the tree has the keyboard, the selection in its colour.
`CursorStaysOnScreen` and `ScreenIsFollowed` follow from it.

**Settings** (`Settings_proofs`). `SettingsInductive`: `Spec => []Inv`, for any files that a person left, any environment and
options, any themes, any number of edits, crashes and refused saves. The properties of the run are not inductive; `Inv` adds:
* `Held`: what is held can be written and read again, that is every setting is legal, a binding is a sequence in a section of its own,
  and the preserved lines without a section come first. With it `RoundTrip` says that the document which `Write` makes is read as what
  was held. It has to follow the lines through `serialize` and back: `WriteIs` says what is in the document and in which order,
  and `ReadsOwn`, `ReadsKeys` and `ReadsKept` what the reader makes of each part.
* `DiskOk`: every file is one that a reader can be in. `LeftByIs` says that a save that is cut off anywhere leaves the old
  document or the new one, since what is renamed has been flushed before.
* `FileAgrees`: while nothing is unsaved, the file says what is held, and the endpoint also when lines from above the first header
  have been moved below one: those are never keys of `[mpd]`, since the last section that `Write` makes is another.
* `Dialled` and `Confirmed`: without an environment or options the connection goes to what is held, and what is held of the
  endpoint was in the file or was confirmed with Save and reconnect.
* `ListOk`: the cursor of a pane is on a row of it that can be chosen, so that what is committed is a value of that row
  (`RowsAre`, `NextSelectableIs`, and one lemma per handler).

`SettingsTyped`, `NextLaunchAgrees`, `SavesAreAtomic` and `EndpointOnlyConfirmed` are properties of the run.
`SettingsSurvive` has two parts. `ConfigSurvives`, that the file is read as what is held, is theorem `ConfigSurvivesLaunch`. The
other, `ValuesSurvive`, does not speak of the state: it says that quoting and unquoting give back each of the texts of the
instance, and computes by folds over their characters. Both leave out a file with foreign lines above its first header, which are
written below another one (section 6). `SettingsSurviveLaunch` has it as a hypothesis, which TLC finds true in `core`.
`TextAssumption` only says that five constants of the code are strings, which the provers do not know of themselves.
TLC checked `Inv` over all the states of `core` before it was proved. That the lines are read by recursive functions, and
a setting is put by `EXCEPT`, is what makes the lemmas provable by induction up to the number of lines.

`Lists_proofs` has what the last four rest on: what the loop that filters a list keeps (`SelectedOf`), by induction up to a number over a
set (`UpToInduction`), since a proof cannot use the induction theorems of the library.

Model-checked only: `MarkerSettles`, `LadderReconnects` and `ShutdownEnds`, which are liveness under fairness, the ENABLED of
`QuitKeyWorks`, and `ValuesSurvive`, an induction over data; these are out of reach of the prover. `SectionsStay` is model-checked and
not proved: it follows each line from one file through `Read` into the next, of which `RoundTrip` is the second half.

## 6. Findings

1. **A duplicate moves the marker** (`duplicate`, `src/controller/controller.cpp:1037`). The session is looked up by
   URI with the counter 0: starting the second A of A B A moves the marker to the first one at the first sample.
   `src/tests/context_stub.cpp:95` and `src/app/state.hpp:146` say the opposite.
2. **Connected to the endpoint that was left** (`endpoint`, `src/controller/controller.cpp:87`). A new endpoint whose
   probe fails leaves the old connection open; the next answer or event on it makes termusic say connected, next to the new
   address, and the ladder ends. `src/ui/core/general.cpp:81` calls that row "The endpoint actually in use", and
   `src/ui/app.cpp:4600` says that the ladder never gives up.
3. **The reload after an edit shows another playlist** (`buffer`, `src/ui/app.cpp:2202`). The index of the open playlist is
   kept from the time it was opened. With `b` open, create `a`, which is listed before it, and delete a row of `b`: the row
   goes from `b`, by name, and then `a` is shown, by index. The next `d d` removes an entry of `b` at a position of `a`.
   `src/ui/app.cpp:2433` says that the reload is there so that no edit works from a stale list.
4. **A click on what is not drawn** (`pointer`, `src/ui/app.cpp:4071`). Boxes of the page that is not drawn are still tested: on
   the immersive page a click opens the tree row that the workspace had in that cell. `src/ui/app.cpp:3781` says that
   "the hit test can never disagree with what was drawn".

### Observations

Seen while modelling, without a run that states them. The first seven are what the models do, so that no property that holds
can say otherwise; the properties next to them say in their comments what they leave out.

* *History that is switched off* (`controller.cpp:397`). The switch only guards the load: the first song that starts replaces the
  file, which was not read, by a list of one. `controller.cpp:35` and `config.hpp:105` say that the file is left alone.
* *The ladder and a refusal* (`mpd_backend.cpp:557`). When MPD refuses one `listfiles`, nobody clears the error: `connected()` is false
  after a complete load, the next timer pass takes the connection for lost, and the ladder replaces it and meets the
  same refusal, every few seconds. `app.cpp:4600` says that it tries "until the server answers". Meanwhile a batch of events is
  thrown away unread (`controller.cpp:157`); a key that clears the error leaves the rows behind until the next event
  (`missed` in `Connection`).
* *A creation that renames* (`app.cpp:2331`). After `r`, `Esc` the next `a` renames the playlist under the cursor, since
  `cancelPlaylistPrompt` leaves `playlist_prompt_rename_` set. `help.cpp:101` says that it creates one.
* *A quit that is swallowed* (`app.cpp:1793`, `1810`). While the deletion of a playlist or the restoring of the bindings waits for
  its answer, `q` does nothing: `handleGlobalKey` is given it before `handleEvent`. `app.cpp:4043` says that quit must escape a
  pending confirmation.
* *A selection that outlives its list* (`app.cpp:1936`). `visual_list_size_` is never compared: after a refresh, or when the tree has
  opened another collection, `y` and `d` act on rows that nobody selected. `app.hpp:488` says that the size is kept so that
  this cannot be. `1` and a click on the tree (`app.cpp:1358`, `2491`) move the keyboard there under a selection, which `app.cpp:1929`
  says is impossible.
* *Foreign lines.* A key of `[mpd]` in `[mpd.extra]` counts as known, is not preserved and matches no setting, so the next save
  drops it (`config.cpp:228`, against 269 and `config.hpp:110`); the first file of `core` has such a line. Preserved lines from above the first
  header are written last, without one (`config.cpp:476`): `enabled = false` at the top becomes a line of `[history]`, and the next launch has
  no history. The comment at 473 says that they are put back exactly as they were written.
* *Ids of records.* In a file edited by hand, a record without an id above the record with the id 1 gets 1 as well, and deleting the
  row of one takes the other (`history.cpp:197`, against 192); `FilesAreWritten` leaves such files out. The counter is made from the ids that
  are left, so that after the newest record has been deleted a restart gives its id out again (`history.cpp:198`, against
  `history.hpp:127`); no row of the running program has it, so nothing goes wrong by it.
* *Playlists.* A creation whose second command meets a broken connection leaves a copy of the queue behind (`mpd_backend.cpp:733`), since the roll-back needs that connection; `CreateBreaks` models
  it. A playlist called `library`, `history` or `vault` moves the cursor to the fixed row of that id (`workspace_tree.hpp:246`),
  excluded by `WorkspaceAssumption`. `README.md:286` says that `K`/`J` move a track in the queue; they move it in the open playlist
  (`app.cpp:1530`).
* *Track list.* `search_rows_` is not rebuilt when the list is refreshed behind the open box. `G` sets the cursor to `INT_MAX`
  (`app.cpp:1389`), and a `j` before the next frame adds one to it.
* *Keys.* A set of bindings that was accepted live may be refused at the next launch, which loads in another order
  (`keybindings.cpp:216`). In the immersive view `1` and `2` move the pane and the cursor underneath, and `activate`, if it is bound
  there, edits a field that is not on screen. Some actions that can be configured have no handler.
* *Settings.* `slider` and `transport_gap` are read and not written, so that the first save drops them; a config that cannot be read is replaced by
  defaults at the next save; an empty host is saved as 127.0.0.1 although the help says `MPD_HOST` applies, and port 0 is
  refused although it says that 0 uses `MPD_PORT`; options that are settings become permanent with any save (`main.cpp:261`); Save
  and reconnect drops a `--timeout`.
* *Listings.* A walk that breaks replaces a complete size cache by a partial one, since `ok` is still that of the songs
  (`mpd_backend.cpp:556`, against the comment at 553). `search()` has no caller.
* *Layout.* A player bar of one row with a volume bar is wider than the terminal (theorem `PlayerBarGeometry`), although
  `metrics.cpp:115` says that widening a gap and reserving for it can never disagree.
* *Mouse.* The preview of a drag never follows the pointer (`handleEvent` returns at `Moved`, `app.cpp:4105`), though the comment
  at 4177 says that it does.
* *Analyzer.* A pending half sample is dropped on a reconfiguration although the comment says it is kept (`analyzer.cpp:314`);
  the window is not trimmed by whole frames of channels (370).

## 7. Not modelled, and why

* The analyzer thread: one reader behind a mutex with a flag and a join, around floating-point signal processing.
* Theme, widgets, spectrum, disc and beat: functions from state to colours, cells and floating point.
* Diagnostics: an append-only log.
* The queue of events of the terminal library, and with it what still runs after `q`: the library is not in the repository.
* Of the modelled parts: the folding of case and accents in the search, the format of the history file, the options that print and
  exit, MPD's outputs and statistics, actions that no key is bound to, and the joins of the ticker and the analyzer.
