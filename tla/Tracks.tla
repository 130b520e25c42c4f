------------------------------- MODULE Tracks -------------------------------
(***************************************************************************)
(* The track list of app.cpp: its cursor and viewport, the visual          *)
(* selection, the search box, and the frames that draw them.               *)
(*                                                                         *)
(* The cursor is a number the keys move without looking at the list, and   *)
(* the list is replaced by timers, edits and the tree without looking at   *)
(* the cursor; renderTrackBuffer() puts the two together again.  A key     *)
(* acts on the cursor, the user on the frame: behind counts what was       *)
(* handled since the last one.  A frame has the rows Metrics gives a       *)
(* terminal that may have another size by then.                            *)
(*                                                                         *)
(* What opens a collection and what MPD stores is Workspace's, what the    *)
(* history holds is HistoryStore's: here the tree opens any list, an edit  *)
(* finds the list it shows, and a refresh brings any other.  The keys are  *)
(* the shipped ones; the marker, messages and columns are left out.        *)
(* Indices count from 0, as in C++.                                        *)
(***************************************************************************)
EXTENDS Metrics, SequencesExt, Lists

CONSTANTS
  Song,        \* what a row shows
  Collections, \* what the tree may open: kinds and their rows
  NoQuery,     \* the empty query
  Matching,    \* songMatches(): query -> the songs it matches
  Heights,     \* the rows a terminal may have
  MaxRows,     \* bound: the longest list
  MaxBehind,   \* bound: what is handled between two frames
  Drift        \* bound: how far the cursor leaves an empty list

None == -1
MaxInt == 2147483647
MinInt == -2147483647 - 1
Query == DOMAIN Matching

ASSUME TracksAssumption ==
  /\ Collections \subseteq [kind : {"generated", "history", "playlist"},
                            rows : Seq(Song)]
  /\ \A c \in Collections : Len(c.rows) <= MaxRows
  /\ \A c \in Collections : c.kind = "history" => IsInjective(c.rows)
  /\ NoQuery \notin Query /\ \A q \in Query : Matching[q] \subseteq Song
  /\ Heights \subseteq 1 .. MaxInt /\ Heights # {}
  /\ MaxRows \in 1 .. MaxInt /\ MaxBehind \in Nat /\ Drift \in 0 .. MaxInt

VARIABLES
  songs,      \* activeTracks(); a history row stands for its record
  kind,       \* active_collection_: generated is Library or Default
  pane,       \* workspace_pane_
  track,      \* track_cursor_, track_scroll_
  anchor,     \* visual_anchor_ while in Visual mode, else None
  search,     \* the search box, its results and their cursor
  pattern,    \* search_pattern_
  last_click, \* last_click_track_
  taken,      \* auxiliary: the rows the last step yanked, deleted or played
  page,       \* how many rows the last frame had room for, from metrics_
  frame,      \* the rows of the last frame, the highlighted row or None, the
              \* rows in the selection's colour
  behind      \* bound and auxiliary: what was handled since the last frame

vars == <<songs, kind, pane, track, anchor, search, pattern, last_click, taken,
          page, frame, behind>>
list == <<songs, kind>>
box == <<search, pattern>>

Position == MinInt .. MaxInt
Closed == [open |-> FALSE, query |-> NoQuery, rows |-> <<>>, cursor |-> 0,
           scroll |-> 0, start |-> 0]
Blank == [rows |-> <<>>, at |-> None, marked |-> {}]

TypeOK ==
  /\ songs \in Seq(Song) /\ kind \in {"generated", "history", "playlist"}
  /\ pane \in {"tree", "tracks"}
  /\ track \in [cursor : Position, scroll : 0 .. MaxRows]
  /\ anchor \in {None} \cup 0 .. MaxRows - 1
  /\ search \in [open : BOOLEAN, query : Query \cup {NoQuery},
                 rows : Seq(0 .. MaxRows - 1), cursor : Nat, scroll : 0 .. MaxRows,
                 start : Position]
  /\ search.cursor <= Most(0, Len(search.rows) - 1)
  /\ search.open \/ search = Closed
  /\ search.open => anchor = None /\ pane = "tracks"
  /\ pattern \in Query \cup {NoQuery}
  /\ last_click \in Position
  /\ taken \subseteq 0 .. MaxRows - 1
  /\ page \in 1 .. MaxInt
  /\ frame.rows \in Seq(0 .. MaxRows - 1)
  /\ frame.at \in {None} \cup Range(frame.rows)
  /\ frame.marked \subseteq Range(frame.rows)
  /\ behind \in 0 .. MaxBehind

-----------------------------------------------------------------------------
(* Numbers and lists.                                                      *)

\* The sum of two ints, which wraps at 32 bits.
Plus(i, d) ==
  IF d > 0 /\ i > MaxInt - d THEN MinInt + (d - 1 - (MaxInt - i))
  ELSE IF d < 0 /\ i < MinInt - d THEN MaxInt + (d + 1 + (i - MinInt))
  ELSE i + d

Size == Len(songs)
Row(i) == songs[i + 1]
Nearest(i) == Clamped(i, 0, Most(0, Size - 1))
Cut(s, lo, hi) == SubSeq(s, 1, lo) \o SubSeq(s, hi + 2, Len(s))
Swapped(s, i, j) == [s EXCEPT ![i + 1] = s[j + 1], ![j + 1] = s[i + 1]]

Visual == anchor # None
\* visualRange()
From == Least(Nearest(anchor), Nearest(track.cursor))
To == Most(Nearest(anchor), Nearest(track.cursor))

\* searchActive(), and the rows the pane shows.
Filtering == search.open /\ search.query # NoQuery
Whole == [i \in 1 .. Size |-> i - 1]
View == IF Filtering THEN search.rows ELSE Whole
Results(q) ==
  IF q = NoQuery THEN <<>>
  ELSE Selected(Whole, {i \in 0 .. Size - 1 : Row(i) \in Matching[q]})

\* Which keys are alive: the box takes all of them, and Visual mode takes the
\* place of the pane, whichever it is.
InPane(p) == ~search.open /\ pane = p
InTracks == InPane("tracks") /\ ~Visual

-----------------------------------------------------------------------------
(* The keys that move the cursor.                                          *)

\* moveWorkspaceCursor() for j and k: wraps, or stops at an end in Visual mode.
Step(d) ==
  /\ InPane("tracks")
  /\ track' = LET next == Plus(track.cursor, d) % Size
                  end == IF next = 0 /\ d = 1 THEN 0
                         ELSE IF next = Size - 1 /\ d = -1 THEN Size
                         ELSE track.scroll
              IN IF Size = 0 THEN track
                 ELSE IF Visual
                 THEN [track EXCEPT !.cursor = Nearest(Plus(@, d))]
                 ELSE [cursor |-> next, scroll |-> end]
  /\ taken' = {} /\ UNCHANGED <<list, pane, anchor, box>>

\* gg, G and half a page: to a place no list need have.
Jump ==
  /\ InPane("tracks")
  /\ \/ track' = [cursor |-> 0, scroll |-> 0]
     \/ track' = [track EXCEPT !.cursor = MaxInt]
     \/ \E d \in {1, -1} :
          LET far == Plus(track.cursor, d * Most(1, page \div 2))
          IN /\ Size = 0 => far \in -Drift .. Drift
             /\ track' = [track EXCEPT !.cursor = far]
  /\ taken' = {} /\ UNCHANGED <<list, pane, anchor, box>>

\* The tree cursor, on whatever it lands: loadTreeNode().  The selection stays.
Land(p) ==
  /\ \E c \in Collections : songs' = c.rows /\ kind' = c.kind
  /\ track' = [cursor |-> 0, scroll |-> 0]
  /\ pane' = p
  /\ taken' = {} /\ UNCHANGED <<anchor, box>>

MoveInTree == InPane("tree") /\ Land("tree")
OpenFromTree == InPane("tree") /\ ~Visual /\ Land("tracks")

\* h, and 1 in any mode; l.
Focus(p) ==
  /\ ~search.open /\ (p = "tracks" => ~Visual) /\ pane # p
  /\ pane' = p
  /\ taken' = {} /\ UNCHANGED <<list, track, anchor, box>>

-----------------------------------------------------------------------------
(* Selecting, copying, playing and editing.                                *)

\* v: the anchor is where the cursor shows.
EnterVisual ==
  /\ InTracks /\ Size > 0
  /\ anchor' = Nearest(track.cursor)
  /\ taken' = {} /\ UNCHANGED <<list, pane, track, box>>

CancelVisual ==
  /\ Visual /\ anchor' = None
  /\ taken' = {} /\ UNCHANGED <<list, pane, track, box>>

YankSelection ==
  /\ Visual /\ anchor' = None
  /\ taken' = IF Size = 0 THEN {} ELSE From .. To
  /\ UNCHANGED <<list, pane, track, box>>

\* yy, and Enter in the list, which plays the row.
TakeRow ==
  /\ InTracks /\ Size > 0
  /\ taken' = {Nearest(track.cursor)}
  /\ UNCHANGED <<list, pane, track, anchor, box>>

\* The history as it may be by now: a play was recorded, the oldest gave way.
Grown ==
  {songs} \cup {SubSeq(<<s>> \o songs, 1, Least(MaxRows, Size + 1)) :
                s \in Song \ Range(songs)}

\* deleteHistoryRows(): the records shown in these rows, wherever they are now.
DeleteRecords(lo, hi) ==
  /\ \E h \in Grown :
       songs' = Selected(h, Song \ {Row(i) : i \in lo .. hi})
  /\ track' = [track EXCEPT !.cursor = Clamped(@, 0, Most(0, Len(songs') - 1))]

\* deleteRange(): MPD removes the rows, refuses them, or is gone after some of
\* them, and what is on screen stays.
DeleteEntries(lo, hi) ==
  \/ UNCHANGED <<songs, track>>
  \/ /\ songs' \in {songs, Cut(songs, lo, hi)}
     /\ track' = [track EXCEPT !.cursor = Most(0, Least(lo, Len(songs') - 1))]

Delete(lo, hi) ==
  /\ taken' = IF kind = "generated" THEN {} ELSE lo .. hi
  /\ CASE kind = "history" -> DeleteRecords(lo, hi)
       [] kind = "playlist" -> DeleteEntries(lo, hi)
       [] OTHER -> UNCHANGED <<songs, track>>
  /\ UNCHANGED <<kind, pane, box>>

DeleteCurrent ==
  /\ InTracks /\ Size > 0
  /\ Delete(Nearest(track.cursor), Nearest(track.cursor))
  /\ UNCHANGED anchor

\* d: an empty history keeps the selection.
DeleteSelection ==
  /\ Visual
  /\ IF Size > 0 THEN Delete(From, To)
     ELSE taken' = {} /\ UNCHANGED <<list, pane, track, box>>
  /\ anchor' = IF Size = 0 /\ kind = "history" THEN anchor ELSE None

\* K and J: moveCurrentPlaylistItem(), then the cursor goes to where the entry
\* went.  The list may fail to arrive afterwards.
Reorder(d) ==
  LET from == Nearest(track.cursor)
      to == Nearest(from + d)
  IN /\ InTracks /\ kind = "playlist" /\ from # to
     /\ songs' \in {songs, Swapped(songs, from, to)}
     /\ track' = [track EXCEPT !.cursor = to]
     /\ taken' = {} /\ UNCHANGED <<kind, pane, anchor, box>>

-----------------------------------------------------------------------------
(* The search box.                                                         *)

\* / in either pane: openSearchPrompt()
OpenSearch ==
  /\ ~search.open /\ ~Visual
  /\ search' = [Closed EXCEPT !.open = TRUE, !.start = track.cursor]
  /\ pane' = "tracks"
  /\ taken' = {} /\ UNCHANGED <<list, track, anchor, pattern>>

\* rebuildSearchRows(): begins at the first result from the cursor on.
Rebuilt(q) ==
  LET rows == Results(q)
      ahead == {v \in DOMAIN rows : rows[v] >= search.start}
  IN [search EXCEPT !.query = q, !.rows = rows, !.scroll = 0,
        !.cursor = IF ahead = {} THEN 0 ELSE Min(ahead) - 1]

TypeQuery(q) ==
  /\ search.open /\ q # search.query
  /\ search' = Rebuilt(q)
  /\ taken' = {} /\ UNCHANGED <<list, pane, track, anchor, pattern>>

\* MUTANT of ResultAfter: the result cursor leaves its list.
ResultAfterUnclamped(d) == search.cursor + d

ResultAfter(d) == Clamped(search.cursor + d, 0, Len(search.rows) - 1)

\* Up and Down: moveSearchCursor()
MoveResult(d) ==
  /\ search.open /\ search.rows # <<>>
  /\ search' = [search EXCEPT !.cursor = ResultAfter(d)]
  /\ taken' = {} /\ UNCHANGED <<list, pane, track, anchor, pattern>>

\* jumpToSearchResult()
JumpTo(row) ==
  /\ track' = [track EXCEPT !.cursor = row]
  /\ pattern' = search.query /\ search' = Closed
  /\ taken' = {} /\ UNCHANGED <<list, pane, anchor>>

AcceptSearch ==
  /\ search.open /\ search.rows # <<>>
  /\ JumpTo(search.rows[search.cursor + 1])

\* Esc: closeSearchPrompt()
CancelSearch ==
  /\ search.open /\ search' = Closed
  /\ track' = [track EXCEPT !.cursor = search.start]
  /\ taken' = {} /\ UNCHANGED <<list, pane, anchor, pattern>>

\* n and N: the next row that matches, once around the list.
Find(d) ==
  LET after(k) == Plus(track.cursor, d * k) % Size
      hits == {k \in 1 .. Size : Row(after(k)) \in Matching[pattern]}
  IN /\ InTracks /\ pattern # NoQuery /\ Size > 0 /\ hits # {}
     /\ track' = [track EXCEPT !.cursor = after(Min(hits))]
     /\ taken' = {} /\ UNCHANGED <<list, pane, anchor, box>>

-----------------------------------------------------------------------------
(* The mouse, which hits what was drawn.                                   *)

ClickTree == ~search.open /\ (Land("tree") \/ Focus("tree")) /\ last_click' = None

\* A second click on a row plays it if it comes within 400 ms.
ClickRow(row) ==
  /\ ~search.open
  /\ pane' = "tracks" /\ track' = [track EXCEPT !.cursor = row]
  /\ \/ last_click' = row /\ taken' = {}
     \/ /\ last_click = row /\ last_click' = None
        /\ taken' = IF Size = 0 THEN {} ELSE {Nearest(row)}
  /\ UNCHANGED <<list, anchor, box>>

ClickResult(row) ==
  /\ search.open /\ row \in Range(search.rows)
  /\ JumpTo(row) /\ UNCHANGED last_click

-----------------------------------------------------------------------------
(* Refreshes and frames.                                                   *)

\* processTimers() follows the history, an event or a reconnect reads the
\* list again or clears it: the rows change and nothing else does.
Refresh ==
  /\ songs' \in IF kind = "history" THEN Grown
                ELSE {<<>>} \cup {c.rows : c \in {e \in Collections : e.kind = kind}}
  /\ songs' # songs
  /\ taken' = {} /\ UNCHANGED <<kind, pane, track, anchor, box, last_click>>

\* MUTANT of Follow: a list that got shorter keeps its viewport.
FollowDown(cursor, scroll, size, room) ==
  IF cursor < scroll THEN cursor
  ELSE IF cursor >= scroll + room THEN cursor - room + 1 ELSE scroll

\* The viewport follows the cursor and leaves no room after the last row.
Follow(cursor, scroll, size, room) ==
  Clamped(IF cursor < scroll THEN cursor
          ELSE IF cursor >= scroll + room THEN cursor - room + 1 ELSE scroll,
          0, Most(0, size - room))

\* MUTANT of Settled: the frame draws the cursor in the list and leaves it out.
SettledOnScreen(c, size, room) ==
  [c EXCEPT !.scroll = Follow(Clamped(c.cursor, 0, size - 1), c.scroll, size, room)]

\* What the frame writes back to a cursor and its viewport.
Settled(c, size, room) ==
  LET cursor == Clamped(c.cursor, 0, size - 1)
  IN [c EXCEPT !.cursor = cursor, !.scroll = Follow(cursor, c.scroll, size, room)]

\* renderTrackBuffer()
DrawIn(room) ==
  LET shown == Settled(IF Filtering THEN search ELSE track, Len(View), room)
      at == Clamped(shown.cursor, 0, Len(View) - 1)
      rows == SubSeq(View, shown.scroll + 1, Least(shown.scroll + room, Len(View)))
  IN /\ behind > 0 \/ room # page
     /\ page' = room
     /\ IF View = <<>> THEN frame' = Blank /\ UNCHANGED <<track, search>>
        ELSE /\ frame' = [rows |-> rows,
                          at |-> IF Filtering \/ pane = "tracks"
                                 THEN View[at + 1] ELSE None,
                          marked |-> IF Visual THEN {i \in Range(rows) : i \in From .. To}
                                     ELSE {}]
             /\ IF Filtering THEN search' = shown /\ UNCHANGED track
                ELSE track' = shown /\ UNCHANGED search
     /\ behind' = 0
     /\ taken' = {} /\ UNCHANGED <<list, pane, anchor, pattern, last_click>>

\* renderRoot() asks the terminal for its size, and the box costs rows.
Draw == \E h \in Heights : DrawIn(Page(h, search.open))

-----------------------------------------------------------------------------
Init ==
  /\ songs = <<>> /\ kind = "generated"
  /\ pane = "tree"
  /\ track = [cursor |-> 0, scroll |-> 0]
  /\ anchor = None
  /\ search = Closed /\ pattern = NoQuery
  /\ last_click = None
  /\ taken = {}
  /\ page = Most(1, 20 - 5)
  /\ frame = Blank /\ behind = 0

Key ==
  \/ \E d \in {1, -1} : Step(d) \/ Reorder(d) \/ MoveResult(d) \/ Find(d)
  \/ Jump \/ MoveInTree \/ OpenFromTree
  \/ \E p \in {"tree", "tracks"} : Focus(p)
  \/ EnterVisual \/ CancelVisual \/ YankSelection \/ DeleteSelection
  \/ TakeRow \/ DeleteCurrent
  \/ OpenSearch \/ AcceptSearch \/ CancelSearch
  \/ \E q \in Query \cup {NoQuery} : TypeQuery(q)

\* Any key but a click forgets the first click of two.
Handled ==
  \/ Key /\ last_click' = None
  \/ ClickTree
  \/ \E row \in Range(frame.rows) : ClickRow(row) \/ ClickResult(row)
  \/ Refresh

Next ==
  \/ behind < MaxBehind /\ behind' = behind + 1 /\ Handled
     /\ UNCHANGED <<page, frame>>
  \/ Draw

Spec == Init /\ [][Next]_vars

-----------------------------------------------------------------------------
(* Properties.                                                             *)

\* The results are those of the list that is searched; a refresh behind the
\* open box leaves the old ones.
Searched == search.rows = Results(search.query)

\* renderTrackBuffer(): what is drawn when nothing was handled since is a
\* full page of consecutive rows of the view, or all of it, and the row with
\* the cursor is among them and highlighted whenever the list has the keyboard.
ScreenShowsCursor ==
  behind = 0 =>
    /\ Len(frame.rows) = Least(page, Len(View))
    /\ \E top \in 0 .. Len(View) :
         frame.rows = SubSeq(View, top + 1, top + Len(frame.rows))
    /\ pane = "tracks" /\ View # <<>> =>
         frame.at = IF Filtering THEN search.rows[search.cursor + 1] ELSE track.cursor

\* A key that comes when the screen is up to date does what the screen says,
\* wherever the cursor was left by jumps, edits and refreshes: j and k go to
\* the neighbour of the highlighted row, yy, dd and Enter take that row, y and
\* d the rows in the selection's colour, J and K move its entry and the
\* highlight with it, Enter in the box goes to the highlighted result.
FollowsTheScreen ==
  behind = 0 =>
    /\ \A d \in {1, -1} : Step(d) /\ frame.at # None =>
         track'.cursor = IF Visual THEN Nearest(frame.at + d) ELSE (frame.at + d) % Size
    /\ TakeRow \/ DeleteCurrent => taken' \in {{}, {frame.at}}
    /\ YankSelection \/ DeleteSelection =>
         \/ taken' = {}
         \/ taken' \cap Range(frame.rows) = frame.marked /\ frame.at \in taken' \cup {None}
    /\ \A d \in {1, -1} : Reorder(d) /\ songs' # songs =>
         songs'[track'.cursor + 1] = Row(frame.at)
    /\ AcceptSearch /\ Searched =>
         track'.cursor = frame.at /\ Row(frame.at) \in Matching[pattern']

KeysFollowTheScreen == [][FollowsTheScreen]_vars

\* TracksInv: the invariants made inductive.  No list, and no result of a
\* search, is longer than the bound; a frame that nothing was handled since has
\* brought the cursor of its list into it, highlights nothing while the tree
\* has the keyboard, and has coloured what is selected now.
ListsBounded == Len(songs) <= MaxRows /\ Len(search.rows) <= MaxRows

CursorDrawn ==
  behind = 0 =>
    /\ ~Filtering /\ Size > 0 => track.cursor \in 0 .. Size - 1
    /\ pane = "tree" => frame.at = None
    /\ frame.marked = IF Visual THEN {i \in Range(frame.rows) : i \in From .. To} ELSE {}

TracksInv == TypeOK /\ ListsBounded /\ ScreenShowsCursor /\ CursorDrawn
=============================================================================
