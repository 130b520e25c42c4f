------------------------------- MODULE Pointer -------------------------------
(***************************************************************************)
(* The mouse: the hit boxes of app.cpp and the events they are tested      *)
(* against.                                                                *)
(*                                                                         *)
(* renderRoot() draws the workspace or the immersive page.  What can be    *)
(* clicked is wrapped in reflect(), by which the layout engine (external)  *)
(* stores the cells it gave it in a member of Application; handleEvent()   *)
(* looks the cell of a click up in those members.  A page that is not      *)
(* drawn stores nothing, and nothing takes back what it stored.            *)
(*                                                                         *)
(* A click that reaches a playlist, a row, a control or a bar leaves the   *)
(* module as sent: what comes of it is Workspace's, Tracks' and            *)
(* PlaybackSession's.  Hovering and the preview of a drag are left out.    *)
(***************************************************************************)
EXTENDS Naturals

CONSTANTS
  Cell,      \* the cells of the terminal
  Size,      \* the sizes a terminal may have
  TreeRow,   \* the rows of the tree
  TrackRow,  \* the slots of the track list
  Layout     \* the layout engine: the cells each target has in a size, none
             \* when it has no room for it

Control == {"shuffle", "previous", "play", "next", "repeat"}
Bar == {"progress", "volume"}
Target == Control \cup Bar \cup TreeRow \cup TrackRow

None == "none"

VARIABLES
  size,      \* of the terminal
  immersive, \* state_.presentation
  library,   \* state_.page is Library, not Settings
  owner,     \* who takes an event before the hit test: the search box, or a
             \* field or dialog that is open
  screen,    \* auxiliary: target -> the cells the last frame drew it in
  current,   \* auxiliary: nothing has happened since the last frame
  boxes,     \* target -> the cells of its hit box
  pressed,   \* pressed_control_
  dragged,   \* drag_target_
  clicked,   \* last_click_track_
  sent       \* auxiliary: what the last event of the mouse did, and where

view == <<size, immersive, library, owner>>
mouse == <<pressed, dragged, clicked, sent>>
vars == <<view, screen, current, boxes, mouse>>

Nothing == [target |-> None, cell |-> None]

TypeOK ==
  /\ size \in Size /\ immersive \in BOOLEAN /\ library \in BOOLEAN
  /\ owner \in {None, "search", "field"} /\ current \in BOOLEAN
  /\ screen \in [Target -> SUBSET Cell] /\ boxes \in [Target -> SUBSET Cell]
  /\ pressed \in Control \cup {None} /\ dragged \in Bar \cup {None}
  /\ clicked \in TrackRow \cup {None}
  /\ sent \in [target : Target, cell : Cell] \cup {Nothing}

-----------------------------------------------------------------------------
(* Frames.                                                                 *)

\* renderRoot(): the player bar belongs to the immersive page, the tree to the
\* workspace, the track list to its Library half.
OnPage(t) ==
  IF t \in Control \cup Bar THEN immersive
  ELSE ~immersive /\ (t \in TreeRow \/ library)

Drawn == [t \in Target |-> IF OnPage(t) THEN Layout[size][t] ELSE {}]

\* A list empties the boxes of all its rows before it draws some; a control
\* or bar that is not drawn keeps the box it had.
Rewritten(t) == OnPage(t) /\ (t \in Control \cup Bar => Drawn[t] # {})

Draw ==
  /\ screen' = Drawn /\ current' = TRUE
  /\ boxes' = [t \in Target |-> IF Rewritten(t) THEN Drawn[t] ELSE boxes[t]]
  /\ UNCHANGED <<view, mouse>>

-----------------------------------------------------------------------------
(* Keys and the terminal: what the next frame draws.                       *)

Show(s, i, l, o) ==
  /\ size' = s /\ immersive' = i /\ library' = l /\ owner' = o
  /\ current' = FALSE /\ sent' = Nothing
  /\ UNCHANGED <<screen, boxes, pressed, dragged, clicked>>

Resize(s) == s # size /\ Show(s, immersive, library, owner)
ToggleImmersive == owner = None /\ Show(size, ~immersive, library, owner)
SelectPage == owner = None /\ ~immersive /\ Show(size, immersive, ~library, owner)
OpenSearch ==
  owner = None /\ ~immersive /\ library /\ Show(size, immersive, library, "search")
OpenField ==
  owner = None /\ ~immersive /\ ~library /\ Show(size, immersive, library, "field")
Close == owner # None /\ Show(size, immersive, library, None)

-----------------------------------------------------------------------------
(* The mouse.                                                              *)

Send(t, c) == sent' = [target |-> t, cell |-> c]

\* The first of the targets in T whose box has the cell is hit; at most one of
\* those that were drawn together has it.
Hits(T, c) == {t \in T : c \in boxes[t]}

\* handleWorkspaceMouse(): the search box takes every click, one on a result
\* jumps there.
PressSearch(c) ==
  /\ IF Hits(TrackRow, c) = {}
     THEN sent' = Nothing /\ UNCHANGED owner
     ELSE \E t \in Hits(TrackRow, c) : Send(t, c) /\ owner' = None
  /\ UNCHANGED <<pressed, dragged, clicked>>

\* A click on the tree opens the row.
PressTree(t, c) ==
  /\ Send(t, c) /\ clicked' = None
  /\ UNCHANGED <<pressed, dragged, owner>>

\* A click on a track moves the cursor there, a second one soon after plays it.
PressTrack(t, c) ==
  /\ Send(t, c)
  /\ \/ clicked' = t
     \/ clicked = t /\ clicked' = None
  /\ UNCHANGED <<pressed, dragged, owner>>

\* A control waits for the release, a bar is dragged from here.
PressControl(t) ==
  /\ pressed' = t /\ sent' = Nothing
  /\ UNCHANGED <<dragged, clicked, owner>>
PressElsewhere(c) ==
  /\ dragged' = IF Hits({"progress"}, c) # {} THEN "progress"
                ELSE IF Hits({"volume"}, c) # {} THEN "volume" ELSE dragged
  /\ sent' = Nothing
  /\ UNCHANGED <<pressed, clicked, owner>>

PressPlayer(c) ==
  IF Hits(Control, c) # {} THEN \E t \in Hits(Control, c) : PressControl(t)
  ELSE PressElsewhere(c)

\* The order of handleEvent(): the workspace's rows are looked at on the
\* Library page, whatever is presented, and then the player bar.
Press(c) ==
  /\ owner # "field"
  /\ IF ~library THEN PressPlayer(c)
     ELSE IF owner = "search" THEN PressSearch(c)
     ELSE IF Hits(TreeRow, c) # {} THEN \E t \in Hits(TreeRow, c) : PressTree(t, c)
     ELSE IF Hits(TrackRow, c) # {} THEN \E t \in Hits(TrackRow, c) : PressTrack(t, c)
     ELSE PressPlayer(c)
  /\ current' = FALSE
  /\ UNCHANGED <<size, immersive, library, screen, boxes>>

\* A control acts when it is released where it was pressed.  A bar acts wherever
\* it is let go, for the nearest of its cells: seekAbsolute(), without effect
\* when nothing is loaded, or setVolume().
ReleaseControl(c) ==
  /\ pressed' = None
  /\ IF pressed \in Hits(Control, c) THEN Send(pressed, c) ELSE sent' = Nothing
  /\ UNCHANGED dragged
ReleaseBar(c) ==
  /\ dragged' = None
  /\ IF dragged = None THEN sent' = Nothing
     ELSE \E d \in boxes[dragged] : (c \in boxes[dragged] => d = c) /\ Send(dragged, d)
  /\ UNCHANGED pressed
Release(c) ==
  /\ owner # "field"
  /\ IF pressed # None THEN ReleaseControl(c) ELSE ReleaseBar(c)
  /\ current' = FALSE
  /\ UNCHANGED <<view, screen, boxes, clicked>>

-----------------------------------------------------------------------------

\* The first frame, of the workspace; nothing has been reflected yet.
Init ==
  /\ size \in Size /\ immersive = FALSE /\ library = TRUE /\ owner = None
  /\ screen = [t \in Target |-> {}] /\ boxes = screen /\ current = FALSE
  /\ pressed = None /\ dragged = None /\ clicked = None /\ sent = Nothing

Key == ToggleImmersive \/ SelectPage \/ OpenSearch \/ OpenField \/ Close
Mouse == \E c \in Cell : Press(c) \/ Release(c)

Next == Draw \/ Key \/ Mouse \/ \E s \in Size : Resize(s)

Spec == Init /\ [][Next]_vars

\* HitsWhatIsDrawn: "reflect() records the box the layout engine actually
\* assigned, so the hit test can never disagree with what was drawn"
\* (renderPlayerBar()): a click on a screen that is up to date does something
\* only to what the screen shows in that cell.
HitsWhatIsDrawn ==
  [][current /\ Mouse /\ sent'.target # None
       => sent'.cell \in screen[sent'.target]]_vars
=============================================================================
