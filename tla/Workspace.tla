----------------------------- MODULE Workspace -----------------------------
(***************************************************************************)
(* The media workspace: the tree with its cursor (workspace_tree.hpp), the *)
(* collection that is open and the prompts of the tree (app.cpp), the list *)
(* of playlists and the songs on screen (controller.cpp), and the stored   *)
(* playlists of MPD that all of them talk about.                           *)
(*                                                                         *)
(* Four things name the open playlist: the row under the cursor by its id, *)
(* the open collection by name and by index, the songs on screen by an     *)
(* index, and MPD by name.  Every handler moves some of them.              *)
(*                                                                         *)
(* MPD tells of changes to stored playlists by an event termusic does not  *)
(* ask for, so what another client does is unseen until the next connect.  *)
(* The row vault stands for every folder and every row under Core, which   *)
(* open nothing here.  The pane with the keyboard and the cursor in the    *)
(* track list are left out.  Indices count from 0, as in C++.              *)
(***************************************************************************)
EXTENDS Integers, SequencesExt, Lists

CONSTANTS
  Track,      \* songs
  Order,      \* all names of stored playlists, as MPD lists them
  Database,   \* the media database, a list of tracks
  Queue,      \* what MPD's queue holds
  Stored,     \* the stored playlists termusic may find at the start
  Touched,    \* bound: the playlists other clients change
  MaxYank,    \* bound: how many rows are yanked at once
  Cuts        \* bound: how many playlists a listing delivers before it breaks

Default == "Default"                \* kDefaultPlaylistName
Reserved == {Default, "Library"}    \* the names termusic gives to no playlist
Name == Range(Order)
FixedRow == {"vault", "library", "history"}

ASSUME WorkspaceAssumption ==
  /\ Track # {}
  /\ Order \in Seq(Name) /\ IsInjective(Order)
  /\ "" \notin Name /\ Name \cap FixedRow = {}
  /\ Database \in Seq(Track) /\ Queue \in Seq(Track)
  /\ Touched \subseteq Name /\ Cuts \subseteq Nat /\ MaxYank \in Nat \ {0}
  /\ \A s \in Stored : /\ DOMAIN s \subseteq Name
                       /\ \A n \in DOMAIN s : s[n] \in Seq(Track)

VARIABLES
  stored,     \* MPD: the stored playlists, name -> tracks
  connected,  \* the command connection works
  library,    \* state_.library: playlists, current, database_view, songs
  tree,       \* the playlist rows of workspace_tree_
  cursor,     \* the row under the tree cursor, by its id
  active,     \* active_collection_, active_playlist_name_, _index_
  prompt,     \* the open prompt; playlist_prompt_rename_; rename_original_
  register,   \* state_.music_register
  asked,      \* auxiliary: what the user asked for with the open prompt, and
              \* the playlist that was highlighted then, or clicked on since
  unseen,     \* auxiliary: another client has changed a playlist since the
              \* last connect
  ahead       \* auxiliary: a key was handled before the frame that shows what
              \* the one before it did, and nothing was opened since

vars == <<stored, connected, library, tree, cursor, active, prompt, register,
          asked, unseen, ahead>>
ui == <<tree, cursor, active, prompt, register, asked>>

Collection ==
  [collection : {"Library", "History"}, name : {""}, index : {-1}]
    \cup [collection : {"Playlist"}, name : Name \cup {Default}, index : Nat]
Prompt ==
  [open : {"no", "text", "delete"}, rename : BOOLEAN, original : Name \cup {""}]
Question ==
  [what : {"nothing", "create", "rename", "delete"}, name : Name \cup {"", Default}]

TypeOK ==
  /\ DOMAIN stored \subseteq Name
  /\ \A n \in DOMAIN stored : stored[n] \in Seq(Track)
  /\ connected \in BOOLEAN
  /\ library \in [playlists : Seq(Name \cup {Default}), current : Nat,
                  database_view : BOOLEAN, songs : Seq(Track)]
  /\ library.playlists # <<>> /\ library.playlists[1] = Default
  /\ library.current < Len(library.playlists)
  /\ tree \in Seq(Name \cup {Default})
  /\ cursor \in FixedRow \cup Range(tree)
  /\ active \in Collection
  /\ prompt \in Prompt
  /\ register \in Seq(Track)
  /\ asked \in Question
  /\ {unseen, ahead} \subseteq BOOLEAN

-----------------------------------------------------------------------------
(* What MPD answers, and the refreshes that ask it: s are its playlists.   *)

\* The stored playlists, in MPD's order.
Listing(s) == Selected(Order, DOMAIN s)

\* playlistsWithDefault(): the virtual Default first, a stored one hidden.
PlaylistsWithDefault(list) ==
  <<Default>> \o Selected(list, Name \ {Default})

\* Where a name is, -1 when it is not there.
IndexOf(list, n) ==
  IF n \in Range(list) THEN (CHOOSE i \in DOMAIN list : list[i] = n) - 1 ELSE -1

Clamped(i, lo, hi) == IF i < lo THEN lo ELSE IF i > hi THEN hi ELSE i

\* The collection the songs on screen were, or will be, read from.
Shown(lib) ==
  IF lib.database_view THEN Default ELSE lib.playlists[lib.current + 1]

\* fetchAllSongs() or listPlaylist(): a list that is not there has no songs.
Contents(n, s) ==
  IF n = Default THEN Database ELSE IF n \in DOMAIN s THEN s[n] ELSE <<>>

\* MUTANT of WithPlaylists: the index is kept, whatever it now stands for.
WithPlaylistsByIndex(lib, list) ==
  [lib EXCEPT !.playlists = list,
              !.current = Clamped(lib.current, 0, Len(list) - 1)]

\* The selection follows its name into the new list, or falls back to Default.
WithPlaylists(lib, list) ==
  [lib EXCEPT !.playlists = list,
              !.current = LET i == IndexOf(list, lib.playlists[lib.current + 1])
                          IN IF i = -1 THEN 0 ELSE i]

RefreshPlaylists(lib, s) ==
  IF connected THEN WithPlaylists(lib, PlaylistsWithDefault(Listing(s))) ELSE lib

RefreshLibrary(lib, s) ==
  IF connected THEN [lib EXCEPT !.songs = Contents(Shown(lib), s)] ELSE lib

SelectDatabase(lib, s) ==
  RefreshLibrary([lib EXCEPT !.current = 0, !.database_view = TRUE], s)

SelectPlaylist(lib, i, s) ==
  RefreshLibrary([lib EXCEPT !.current = Clamped(i, 0, Len(lib.playlists) - 1),
                             !.database_view = FALSE], s)

-----------------------------------------------------------------------------
(* The tree.                                                               *)

OnPlaylist == cursor \in Range(tree)

\* treePlaylistIndex(): where the playlist under the cursor is, -1 if none.
TreePlaylistIndex == IF OnPlaylist THEN IndexOf(library.playlists, cursor) ELSE -1

\* MUTANT of CursorAfter: nobody looks whether the row is still there.
CursorAfterBlindly(old, new) == cursor

\* MUTANT of CursorAfter: the cursor keeps its place instead of its row.
CursorAfterByPlace(old, new) ==
  IF cursor \in Range(old) /\ IndexOf(old, cursor) < Len(new)
  THEN new[IndexOf(old, cursor) + 1]
  ELSE IF cursor \in FixedRow THEN cursor ELSE "vault"

\* rebuild(): the cursor goes back to the row with its id, or to the first row.
CursorAfter(old, new) ==
  IF cursor \in FixedRow \cup Range(new) THEN cursor ELSE "vault"

\* syncTreeFromPlaylists(), at every frame and before every timer pass.
Sync ==
  /\ tree # library.playlists
  /\ tree' = library.playlists
  /\ cursor' = CursorAfter(tree, library.playlists)
  /\ UNCHANGED <<stored, connected, library, active, prompt, register, asked,
                 unseen>>

OpenNothing == UNCHANGED <<active, library>>

OpenHistory ==
  /\ active' = [collection |-> "History", name |-> "", index |-> -1]
  /\ UNCHANGED library

OpenDatabase ==
  /\ active' = [collection |-> "Library", name |-> "", index |-> -1]
  /\ library' = SelectDatabase(library, stored)

OpenPlaylist(n) ==
  LET i == IndexOf(library.playlists, n)
  IN /\ active' = [collection |-> "Playlist", name |-> n, index |-> i]
     /\ library' = SelectPlaylist(library, i, stored)

\* loadTreeNode(): a folder opens nothing, and neither does a playlist that is
\* no longer in the list.
Load(row) ==
  CASE row = "history" -> OpenHistory
    [] row = "library" -> OpenDatabase
    [] row \in Range(library.playlists) -> OpenPlaylist(row)
    [] OTHER -> OpenNothing

Rows == FixedRow \cup Range(tree)

\* MUTANT of MoveTo: the cursor moves over a collection without opening it.
MoveToQuietly(row) ==
  /\ row \in Rows
  /\ cursor' = row
  /\ IF row \in FixedRow THEN Load(row) ELSE OpenNothing
  /\ UNCHANGED <<stored, connected, tree, prompt, register, asked, unseen>>

\* The cursor is moved by a key or a click, and the row it lands on is opened.
\* A click gets there behind a prompt, too, and the row it highlights is the one
\* the user knows of from then on.
MoveTo(row) ==
  /\ row \in Rows
  /\ cursor' = row
  /\ Load(row)
  /\ asked' = IF asked.what = "nothing" THEN asked
              ELSE [asked EXCEPT !.name = IF row \in FixedRow THEN "" ELSE row]
  /\ UNCHANGED <<stored, connected, tree, prompt, register, unseen>>

-----------------------------------------------------------------------------
(* The prompts: `a` creates, `r` renames, `d d` deletes.                   *)

NothingAsked == [what |-> "nothing", name |-> ""]
NoPrompt == [open |-> "no", rename |-> FALSE, original |-> ""]

OpenCreate ==
  /\ prompt.open = "no"
  /\ prompt' = [prompt EXCEPT !.open = "text"]
  /\ asked' = [what |-> "create", name |-> IF OnPlaylist THEN cursor ELSE ""]
  /\ UNCHANGED <<stored, connected, library, tree, cursor, active, register,
                 unseen>>

OpenRename ==
  /\ prompt.open = "no" /\ TreePlaylistIndex > 0
  /\ prompt' = [open |-> "text", rename |-> TRUE, original |-> cursor]
  /\ asked' = [what |-> "rename", name |-> cursor]
  /\ UNCHANGED <<stored, connected, library, tree, cursor, active, register,
                 unseen>>

\* cancelPlaylistPrompt(): Esc closes the prompt and forgets its text only.
CancelPrompt ==
  /\ prompt.open = "text"
  /\ prompt' = [prompt EXCEPT !.open = "no"]
  /\ asked' = NothingAsked
  /\ UNCHANGED <<stored, connected, library, tree, cursor, active, register,
                 unseen>>

\* The playlists with this one, which may be there already.
With(s, n, tracks) == [m \in DOMAIN s \cup {n} |-> IF m = n THEN tracks ELSE s[m]]

\* A name MPD accepts; termusic lets no reserved one through.
Acceptable(n) == n \in Name \ (DOMAIN stored \cup Reserved)

\* The playlists with a renamed one.
Renamed(old, new) ==
  [n \in (DOMAIN stored \ {old}) \cup {new} |->
     stored[IF n = new THEN old ELSE n]]

\* The selection after a renaming is the playlist with the new name.
Reselected(lib, new) ==
  [lib EXCEPT !.current =
     IF new \in Range(lib.playlists) THEN IndexOf(lib.playlists, new) ELSE @]

\* The branch of commitPlaylistPrompt() that renames what the cursor is on.
RenameTo(new) ==
  LET lib == SelectPlaylist(library, TreePlaylistIndex, stored)
      old == Shown(lib)
  IN IF connected /\ old \in DOMAIN stored /\ Acceptable(new)
     THEN /\ stored' = Renamed(old, new)
          /\ library' = RefreshLibrary(
                          Reselected(RefreshPlaylists(lib, stored'), new), stored')
          /\ active' = IF active.name = prompt.original
                       THEN [active EXCEPT !.name = new] ELSE active
     ELSE library' = lib /\ UNCHANGED <<stored, active>>

CommitRename(new) ==
  /\ prompt.open = "text" /\ prompt.rename
  /\ prompt' = NoPrompt /\ asked' = NothingAsked
  /\ IF TreePlaylistIndex > 0 /\ new \notin Reserved
     THEN RenameTo(new) ELSE UNCHANGED <<stored, library, active>>
  /\ UNCHANGED <<connected, tree, cursor, register, unseen>>

\* MUTANT of CreateSucceeds: the list of playlists is not read again.
CreateUnlisted(n) ==
  /\ connected /\ Acceptable(n)
  /\ stored' = With(stored, n, register)
  /\ UNCHANGED <<connected, library>>

\* createPlaylist() saves the queue under the name and clears the new list;
\* a register that holds tracks is pasted into it.
CreateSucceeds(n) ==
  /\ connected /\ Acceptable(n)
  /\ stored' = With(stored, n, register)
  /\ library' = RefreshPlaylists(library, stored')
  /\ UNCHANGED connected

\* The connection breaks after the save: the copy of the queue stays.
CreateBreaks(n) ==
  /\ connected /\ Acceptable(n)
  /\ stored' = With(stored, n, Queue)
  /\ connected' = FALSE
  /\ UNCHANGED library

\* The name is reserved or taken, MPD cannot save, or the copy is taken back.
CreateFails == UNCHANGED <<stored, connected, library>>

CommitCreate(n) ==
  /\ prompt.open = "text" /\ ~prompt.rename
  /\ prompt' = NoPrompt /\ asked' = NothingAsked
  /\ CreateSucceeds(n) \/ CreateBreaks(n) \/ CreateFails
  /\ UNCHANGED <<tree, cursor, active, register, unseen>>

AskDelete ==
  /\ prompt.open = "no" /\ TreePlaylistIndex > 0
  /\ prompt' = [prompt EXCEPT !.open = "delete"]
  /\ asked' = [what |-> "delete", name |-> cursor]
  /\ UNCHANGED <<stored, connected, library, tree, cursor, active, register,
                 unseen>>

CancelDelete ==
  /\ prompt.open = "delete"
  /\ prompt' = [prompt EXCEPT !.open = "no"]
  /\ asked' = NothingAsked
  /\ UNCHANGED <<stored, connected, library, tree, cursor, active, register,
                 unseen>>

\* Enter on the question: the playlist under the cursor is selected and
\* deleted; when it was open, the database is opened instead.
DeleteSelected(lib) ==
  /\ stored' = [n \in DOMAIN stored \ {Shown(lib)} |-> stored[n]]
  /\ LET rest == RefreshLibrary(
                   RefreshPlaylists([lib EXCEPT !.current = 0], stored'), stored')
     IN IF active.name = Shown(lib)
        THEN /\ active' = [collection |-> "Library", name |-> "", index |-> -1]
             /\ library' = SelectDatabase(rest, stored')
             /\ cursor' = "library"
        ELSE library' = rest /\ UNCHANGED <<active, cursor>>

ConfirmDelete ==
  /\ prompt.open = "delete"
  /\ prompt' = [prompt EXCEPT !.open = "no"]
  /\ asked' = NothingAsked
  /\ LET lib == SelectPlaylist(library, TreePlaylistIndex, stored)
     IN IF TreePlaylistIndex = -1
        THEN UNCHANGED <<stored, library, active, cursor>>
        ELSE IF connected /\ lib.current > 0 /\ Shown(lib) \in DOMAIN stored
        THEN DeleteSelected(lib)
        ELSE library' = lib /\ UNCHANGED <<stored, active, cursor>>
  /\ UNCHANGED <<connected, tree, register, unseen>>

-----------------------------------------------------------------------------
(* The register, and the edits of the track list.                          *)

\* collectionWritable()
Writable == active.collection = "Playlist" /\ active.index > 0

\* yy, or v and y: rows lo..hi of the songs on screen; History has songs of
\* its own, of which any may be there.
Yank(lo, hi) ==
  /\ prompt.open = "no"
  /\ active.collection # "History" /\ lo <= hi /\ hi - lo < MaxYank
  /\ lo \in DOMAIN library.songs /\ hi \in DOMAIN library.songs
  /\ register' = SubSeq(library.songs, lo, hi)
  /\ UNCHANGED <<stored, connected, library, tree, cursor, active, prompt, asked,
                 unseen>>

YankHistory(x) ==
  /\ prompt.open = "no" /\ active.collection = "History"
  /\ register' = <<x>>
  /\ UNCHANGED <<stored, connected, library, tree, cursor, active, prompt, asked,
                 unseen>>

\* The screen after an edit of playlist n that MPD has made: the list of
\* playlists is read again, and then what is open, by its index.
Reloaded(s) == SelectPlaylist(RefreshPlaylists(library, s), active.index, s)

\* MUTANT of TakesTracks: the virtual Default is not kept out.
TakesTracksOrHides(row) == row \in Rows \ FixedRow

\* What p may paste into: any playlist but the virtual Default.
TakesTracks(row) == row \in Rows \ (FixedRow \cup {Default})

\* What MPD has under a name.
Kept(n) == IF n \in DOMAIN stored THEN stored[n] ELSE <<>>

\* p on a playlist: pasteRegisterToTreeSelection().  MPD makes the playlist
\* when it is not there.  Bound: no playlist gets the same track twice.
Paste ==
  /\ prompt.open = "no" /\ connected
  /\ register # <<>>
  /\ TakesTracks(cursor)
  /\ IsInjective(Kept(cursor) \o register)
  /\ stored' = With(stored, cursor, Kept(cursor) \o register)
  /\ library' = IF active.collection = "Playlist" /\ active.name = cursor
                THEN Reloaded(stored') ELSE RefreshPlaylists(library, stored')
  /\ UNCHANGED <<connected, tree, cursor, active, prompt, register, asked, unseen>>

\* A position that is not there is refused by MPD.
Without(list, i) == IF i \in DOMAIN list THEN RemoveAt(list, i) ELSE list

\* MUTANT of Removed: the positions are sent lowest first.
RemovedLowestFirst(list, lo, hi) ==
  LET upto[i \in lo - 1 .. hi] == IF i = lo - 1 THEN list ELSE Without(upto[i - 1], i)
  IN upto[hi]

\* removePlaylistEntries() sends the positions one by one, highest first.
Removed(list, lo, hi) ==
  LET from[i \in lo .. hi + 1] == IF i > hi THEN list ELSE Without(from[i + 1], i)
  IN from[lo]

\* dd, or v and d, on rows lo..hi of the screen: deleteRange() sends them to
\* the playlist of that name, and reloads the one at that index.
DeleteRows(lo, hi) ==
  /\ prompt.open = "no" /\ connected
  /\ Writable /\ lo <= hi
  /\ lo \in DOMAIN library.songs /\ hi \in DOMAIN library.songs
  /\ active.name \in DOMAIN stored /\ active.name # Default
  /\ Len(stored[active.name]) >= lo
  /\ stored' = [stored EXCEPT ![active.name] = Removed(@, lo, hi)]
  /\ library' = Reloaded(stored')
  /\ UNCHANGED <<connected, tree, cursor, active, prompt, register, asked, unseen>>

\* A list in which the item at one place is moved to another.
Moved(list, from, to) == InsertAt(RemoveAt(list, from), to, list[from])

\* K and J: moveCurrentPlaylistItem() takes the playlist from the selection.
MoveItem(from, to) ==
  /\ prompt.open = "no" /\ connected
  /\ Writable /\ ~library.database_view /\ library.current > 0
  /\ from \in DOMAIN library.songs /\ to \in DOMAIN library.songs
  /\ to \in {from - 1, from + 1}
  /\ Shown(library) \in DOMAIN stored
  /\ {from, to} \subseteq DOMAIN stored[Shown(library)]
  /\ stored' = [stored EXCEPT ![Shown(library)] = Moved(@, from, to)]
  /\ library' = RefreshLibrary(library, stored')
  /\ UNCHANGED <<connected, tree, cursor, active, prompt, register, asked, unseen>>

-----------------------------------------------------------------------------
(* The connection and the other clients.                                   *)

LinkBreaks ==
  /\ connected /\ connected' = FALSE
  /\ UNCHANGED <<stored, library, ui, unseen>>

\* A retry that fails may clear the songs on screen.
ReconnectFails ==
  /\ ~connected /\ tree = library.playlists
  /\ library' = [library EXCEPT !.songs = <<>>]
  /\ UNCHANGED <<stored, connected, ui, unseen>>

\* The new connection breaks again while the playlists arrive: those that came
\* are the list.
ReconnectBreaks ==
  /\ ~connected /\ tree = library.playlists
  /\ \E k \in {n \in Cuts : n <= Len(Listing(stored))} :
       library' = WithPlaylists(library,
                    PlaylistsWithDefault(SubSeq(Listing(stored), 1, k)))
  /\ UNCHANGED <<stored, connected, ui, unseen>>

\* reconnect() from the timer, which has brought the tree up to date before:
\* refreshPlaylists() and refreshLibrary() on the new connection.
Reconnect ==
  /\ ~connected /\ tree = library.playlists
  /\ connected' = TRUE
  /\ LET lib == WithPlaylists(library, PlaylistsWithDefault(Listing(stored)))
     IN library' = [lib EXCEPT !.songs = Contents(Shown(lib), stored)]
  /\ unseen' = FALSE
  /\ UNCHANGED <<stored, ui>>

\* Another client deletes a stored playlist, or saves the queue as one.
OtherClient ==
  /\ ~unseen /\ unseen' = TRUE
  /\ \E n \in Touched :
       \/ n \in DOMAIN stored /\ stored' = [m \in DOMAIN stored \ {n} |-> stored[m]]
       \/ stored' = With(stored, n, Queue)
  /\ UNCHANGED <<connected, library, ui>>

-----------------------------------------------------------------------------
Init ==
  /\ stored \in Stored
  /\ connected = TRUE
  /\ library = [playlists |-> PlaylistsWithDefault(Listing(stored)),
                current |-> 0, database_view |-> TRUE, songs |-> Database]
  /\ tree = <<>>
  /\ cursor = "library"
  /\ active = [collection |-> "Library", name |-> "", index |-> -1]
  /\ prompt = NoPrompt
  /\ register = <<>>
  /\ asked = NothingAsked
  /\ unseen = FALSE
  /\ ahead = FALSE

\* Keys and clicks.  They may be handled before the next frame: a command
\* blocks until MPD answers, and what is typed meanwhile is handled at once.
Key ==
  \/ OpenCreate \/ OpenRename \/ CancelPrompt
  \/ \E n \in Name \cup {Default} : CommitRename(n) \/ CommitCreate(n)
  \/ AskDelete \/ CancelDelete \/ ConfirmDelete
  \/ \E lo, hi \in DOMAIN library.songs :
       Yank(lo, hi) \/ DeleteRows(lo, hi) \/ MoveItem(lo, hi)
  \/ \E x \in Track : YankHistory(x)
  \/ Paste

Move == \E row \in Rows : MoveTo(row)
Opens(row) == row \in {"library"} \cup (Range(tree) \cap Range(library.playlists))

\* What happens on its own.
Background ==
  \/ Sync
  \/ LinkBreaks \/ ReconnectFails \/ ReconnectBreaks \/ Reconnect
  \/ OtherClient

\* Bound: one key or click is handled before its frame, until a playlist is
\* opened again.
MayType == ahead => tree = library.playlists

Next ==
  \/ MayType /\ Key /\ ahead' = (ahead \/ tree # library.playlists)
  \/ MayType /\ Move /\ ahead' = (tree # library.playlists \/ (ahead /\ ~Opens(cursor')))
  \/ Background /\ UNCHANGED ahead

Spec == Init /\ [][Next]_vars

-----------------------------------------------------------------------------
(* Properties.                                                             *)

\* Once the tree is up to date, the playlist under the cursor is the one that
\* is open, unless keys were typed ahead: app.cpp says the pane can never
\* disagree with the tree.
CursorIsOpen ==
  tree = library.playlists /\ ~ahead /\ OnPlaylist =>
    active.collection = "Playlist" /\ active.name = cursor

\* Every playlist termusic has made, renamed or deleted shows in its list of
\* playlists at once, as long as nobody else changes any.
ListingIsFresh ==
  connected /\ ~unseen => library.playlists = PlaylistsWithDefault(Listing(stored))

\* The songs on screen are those of the selected playlist as MPD has them:
\* every edit goes by their positions.
BufferIsFresh ==
  connected /\ ~unseen /\ ~ahead => library.songs = Contents(Shown(library), stored)

\* No stored playlist disappears but the one that was highlighted when the
\* prompt was opened, or clicked on since: while it waits for Enter a new
\* connection, a frame or another client may reorder the rows, and Enter must not
\* hit another one.  It does not say what was asked: after r and Esc the prompt of
\* a renames that row, since Esc leaves playlist_prompt_rename_ set.
OnlyRowIsLost ==
  [][~unseen' \/ unseen =>
       \A n \in DOMAIN stored \ DOMAIN stored' : asked.name = n]_vars

\* Deleting rows of a playlist that is on screen removes these rows and no
\* other, although they go one by one and each shifts the rest.
DeletesTheRows ==
  [][\A lo, hi \in DOMAIN library.songs :
       DeleteRows(lo, hi) /\ ~unseen /\ Shown(library) = active.name =>
         stored'[active.name] =
           SubSeq(library.songs, 1, lo - 1) \o
           SubSeq(library.songs, hi + 1, Len(library.songs))]_vars

\* A stored playlist that happens to be called Default is hidden behind the
\* virtual one, and no operation of termusic touches it.
HiddenIsUntouched ==
  [][~unseen' \/ unseen =>
       /\ Default \in DOMAIN stored <=> Default \in DOMAIN stored'
       /\ Default \in DOMAIN stored => stored[Default] = stored'[Default]]_vars

\* The songs on screen are those of the playlist an edit goes to: app.cpp
\* reloads after an edit so that no edit works from a stale list.
EditsWhatIsShown ==
  connected /\ ~unseen /\ Writable => Shown(library) = active.name

\* WorkspaceInv: the three invariants made inductive.  The list of playlists
\* names each once, the virtual Default first; the row under the cursor is open
\* also before the tree is brought up to date, as far as it is still listed; the
\* songs of the open playlist are fresh even when keys were typed ahead; and a
\* prompt that waits for Enter knows the playlist under the cursor, if any.
PlaylistsSound ==
  /\ IsInjective(library.playlists)
  /\ library.database_view => library.current = 0

CursorOpens ==
  ~ahead /\ cursor \in Range(library.playlists) =>
    active.collection = "Playlist" /\ active.name = cursor

OpenSongsAreFresh ==
  connected /\ ~unseen /\ (ahead => Shown(library) = active.name) =>
    library.songs = Contents(Shown(library), stored)

PromptIsAboutRow ==
  /\ prompt.open = "text" => asked.what \in {"create", "rename"}
  /\ prompt.open = "delete" => asked.what = "delete"
  /\ prompt.open # "no" /\ cursor \notin FixedRow => asked.name = cursor
  /\ prompt.rename => prompt.original \in Name \ {Default}

WorkspaceInv ==
  /\ TypeOK
  /\ PlaylistsSound
  /\ ListingIsFresh
  /\ CursorOpens
  /\ OpenSongsAreFresh
  /\ PromptIsAboutRow
=============================================================================
