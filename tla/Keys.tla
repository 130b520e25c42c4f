-------------------------------- MODULE Keys --------------------------------
(***************************************************************************)
(* The way of a key through the UI (src/src/ui/app.cpp): prompts and       *)
(* confirmations first, then the keymap in the context of the moment, then *)
(* the action; and the binding table of Core, where keys are recorded      *)
(* (src/src/ui/core/keybindings.cpp).                                      *)
(*                                                                         *)
(* Of the screen it keeps what decides where a key goes: the presentation, *)
(* the page, the pane, the row of the tree and the module on the right.    *)
(* The tree has one playlist, and two modules of Core: the table and one   *)
(* with text fields.                                                       *)
(***************************************************************************)
EXTENDS Keymap

CONSTANTS
  Keys,        \* bound: the keys that are pressed
  Recorded,    \* bound: the keys that are pressed while recording
  MaxLength,   \* bound: of a recorded sequence
  EditorRows   \* the rows the table may show, in their order

ASSUME KeysAssumption ==
  /\ Keys \cup Recorded \subseteq Token
  /\ Reserved \in Keys
  /\ EditorRows \in Seq(Configurable)
  /\ Global = "Global"
  /\ \A c \in {"Immersive", "Settings", "Visual"} : c \in Context /\ Chain[c] = <<c, "Global">>
  /\ \A c \in {"Tree", "Tracks"} : c \in Context /\ Chain[c] = <<c, "Library", "Global">>
  /\ \A i \in DOMAIN Shipped : Shipped[i].seq = <<Reserved>> => Shipped[i].action = "quit"

VARIABLES
  immersive,      \* state_.presentation is ImmersiveNowPlaying
  page,           \* state_.page
  pane,           \* workspace_pane_
  visual,         \* vim_mode_ is Visual
  node,           \* the row of the tree the cursor is on
  expanded,       \* the folders of the tree that are open
  module,         \* the module of Core the panel has selected
  editing,        \* a text field of the module with fields is edited
  prompt,         \* the prompt that is open
  rows,           \* rows_: the rows of the table when it was last built
  selected,       \* selected_, from 1
  focus,          \* focus_
  drawn,          \* the reset control has been drawn, and can be clicked
  reset_pending,  \* the restoring of the defaults awaits its confirmation
  capture,        \* capture_: the row that is rebound
  buffer,         \* capture_buffer_
  quit            \* requestQuit() was called

place == <<immersive, page, pane, visual, node, expanded, module>>
table == <<rows, selected, focus, drawn, reset_pending, capture, buffer>>
vars == <<keymap_vars, place, table, editing, prompt, quit>>

NoRow == <<>>
Modules == {"general", "keybindings"}
Collections == {"library", "playlist"}
Folders == {"vault", "core"}

\* The visible rows of the tree.
Tree ==
  <<"vault">>
    \o (IF "vault" \in expanded THEN <<"library", "playlist">> ELSE <<>>)
    \o <<"core">>
    \o (IF "core" \in expanded THEN <<"general", "keybindings">> ELSE <<>>)

Cursor == CHOOSE i \in DOMAIN Tree : Tree[i] = node

KeybindingsOpen ==
  page = "Settings" /\ node = "keybindings" /\ module = "keybindings"

\* coreEditing(): the module that is selected has the field.
CoreEditing == editing /\ module = "general"

InModule == page = "Settings" /\ ~immersive /\ pane = "TrackList" /\ ~KeybindingsOpen

TypeOK ==
  /\ KeymapTypeOK
  /\ immersive \in BOOLEAN /\ visual \in BOOLEAN /\ drawn \in BOOLEAN
  /\ page \in {"Library", "Settings"} /\ pane \in {"Tree", "TrackList"}
  /\ node \in ToSet(Tree) /\ module \in Modules
  /\ editing \in BOOLEAN
  /\ prompt \in {"none", "search", "playlist", "delete"}
  /\ rows = NoRow \/ selected \in DOMAIN rows
  /\ focus \in {"Rows", "ResetFooter"}
  /\ reset_pending \in BOOLEAN /\ quit \in BOOLEAN
  /\ capture # NoRow => KeybindingsOpen /\ capture \in Configurable
  /\ capture = NoRow => buffer = <<>>

-----------------------------------------------------------------------------
(* Where a key is looked up.                                               *)

CurrentKeyContexts ==
  IF immersive THEN <<"Immersive", "Global">>
  ELSE IF page = "Settings" THEN <<"Settings", "Global">>
  ELSE IF visual THEN <<"Visual", "Global">>
  ELSE IF pane = "Tree" THEN <<"Tree", "Library", "Global">>
  ELSE <<"Tracks", "Library", "Global">>

\* A single key of the row and its actions, in any context of the chain.
KeyOf(t, actions) ==
  \E i \in DOMAIN CurrentKeyContexts :
    LET c == CurrentKeyContexts[i]
    IN <<t>> \in DOMAIN bindings[c] /\ bindings[c][<<t>>] \in actions

\* isQuitKey().
IsQuitKey(t) == t = Reserved \/ KeyOf(t, {"quit"})

-----------------------------------------------------------------------------
(* The tree and the pages.                                                 *)

\* loadTreeNode() from autoLoadTreeCursor(): a collection or a module appears on
\* the right; selectPage() does nothing while Immersive is open.
Show(n) ==
  /\ module' = IF n \in Modules THEN n ELSE module
  /\ page' = IF immersive \/ n \in Folders THEN page
             ELSE IF n \in Modules THEN "Settings" ELSE "Library"

Clamp(i, seq) ==
  IF i < 1 \/ seq = <<>> THEN 1 ELSE IF i > Len(seq) THEN Len(seq) ELSE i

MoveTo(i) ==
  /\ node' = Tree[Clamp(i, Tree)]
  /\ Show(node')

\* moveWorkspaceCursor(): in the tree, in the table, or in a list.
MoveTable(delta) ==
  IF focus = "ResetFooter"
  THEN /\ focus' = IF delta > 0 THEN "Rows" ELSE focus
       /\ selected' = IF delta > 0 /\ rows = <<>> THEN 1 ELSE selected
  ELSE IF delta < 0 /\ selected <= 1
  THEN focus' = "ResetFooter" /\ UNCHANGED selected
  ELSE selected' = Clamp(selected + delta, rows) /\ UNCHANGED focus

MoveCursor(delta) ==
  IF pane = "Tree"
  THEN /\ MoveTo(Cursor + delta)
       /\ UNCHANGED <<immersive, pane, visual, expanded, table, editing>>
  ELSE /\ IF KeybindingsOpen THEN MoveTable(delta) ELSE UNCHANGED <<selected, focus>>
       /\ UNCHANGED <<place, rows, drawn, reset_pending, capture, buffer, editing>>

\* The folder under the cursor is opened or closed; the cursor stays.
Fold(folders) ==
  /\ expanded' = folders
  /\ UNCHANGED <<immersive, page, pane, visual, node, module>>

FocusPane(p) ==
  /\ pane' = p
  /\ UNCHANGED <<immersive, page, visual, node, expanded, module>>

MoveLeft ==
  /\ IF pane = "Tree" /\ node \in expanded THEN Fold(expanded \ {node})
     ELSE FocusPane("Tree")
  /\ UNCHANGED <<table, editing>>

MoveRight ==
  /\ IF pane = "Tree" /\ node \in Folders \ expanded THEN Fold(expanded \cup {node})
     ELSE FocusPane("TrackList")
  /\ UNCHANGED <<table, editing>>

\* activateTreeNode(): a folder folds, anything else is opened to work in.
ActivateTreeNode ==
  /\ IF node \in Folders
     THEN Fold(IF node \in expanded THEN expanded \ {node} ELSE expanded \cup {node})
     ELSE /\ Show(node)
          /\ pane' = "TrackList"
          /\ UNCHANGED <<immersive, visual, node, expanded>>
  /\ UNCHANGED <<table, editing>>

\* 1 and 2: to the root of the media or of the settings.
GoToRoot(root) ==
  /\ pane' = "Tree"
  /\ node' = root
  /\ expanded' = expanded \cup {root}
  /\ UNCHANGED <<immersive, page, visual, module, table, editing>>

-----------------------------------------------------------------------------
(* The binding table.                                                      *)

\* rebuild(): the rows that have a key; the selection stays inside.
Rebuilt ==
  Selected(EditorRows, {r \in ToSet(EditorRows) : BindingsFor(r[1], r[2]) # <<>>})

Rebuild ==
  /\ rows' = Rebuilt'
  /\ selected' = IF rows' = <<>> THEN selected ELSE Clamp(selected, rows')

\* Enter: the reset control asks, a row starts to record.
ActivateTable ==
  /\ IF focus = "ResetFooter"
     THEN reset_pending' = TRUE /\ UNCHANGED <<capture, buffer>>
     ELSE /\ capture' = IF selected \in DOMAIN rows THEN rows[selected] ELSE capture
          /\ buffer' = <<>>
          /\ UNCHANGED reset_pending
  /\ UNCHANGED <<place, editing, rows, selected, focus, drawn>>

\* A module with fields: Enter flips, runs or edits the row; a field that is
\* edited is begun anew.
ActivateModule ==
  /\ editing' \in {editing, TRUE}
  /\ UNCHANGED <<place, table>>

RequestReset ==
  /\ reset_pending' = TRUE
  /\ UNCHANGED <<place, editing, rows, selected, focus, drawn, capture, buffer>>

\* MUTANT of CancelCapture: what was typed is kept for the next recording.
CancelCaptureOnly == capture' = NoRow /\ UNCHANGED buffer

CancelCapture == capture' = NoRow /\ buffer' = <<>>

-----------------------------------------------------------------------------
(* performKeymapAction(): what an action does to the screen.               *)

\* Actions that send a command or edit a list, and leave the keyboard alone.
Elsewhere ==
  {"toggle_play", "toggle_shuffle", "toggle_repeat", "volume_up", "volume_down",
   "next", "previous", "seek_forward", "seek_backward", "yank_current",
   "delete_current", "paste_register", "move_queue_up", "move_queue_down",
   "go_parent", "enter_directory"}

Stays == UNCHANGED <<place, table, editing, prompt, quit>>

Navigate(a) ==
  \/ a = "move_down" /\ MoveCursor(1)
  \/ a = "move_up" /\ MoveCursor(-1)
  \/ a = "move_left" /\ MoveLeft
  \/ a = "move_right" /\ MoveRight
  \/ a = "page_library" /\ GoToRoot("vault")
  \/ a = "page_settings" /\ GoToRoot("core")
  \/ /\ a \in {"move_first", "move_last", "half_page_down", "half_page_up"}
     /\ IF pane = "Tree"
        THEN \/ a = "move_first" /\ MoveTo(1)
             \/ a = "move_last" /\ MoveTo(Len(Tree))
             \/ a = "half_page_down" /\ \E n \in DOMAIN Tree : MoveTo(Cursor + n)
             \/ a = "half_page_up" /\ \E n \in DOMAIN Tree : MoveTo(Cursor - n)
        ELSE UNCHANGED <<node, module, page>>
     /\ UNCHANGED <<immersive, pane, visual, expanded, table, editing>>

Present(a) ==
  /\ \/ a = "open_immersive" /\ immersive' = TRUE /\ UNCHANGED <<pane, visual>>
     \/ a = "toggle_immersive" /\ immersive' = ~immersive /\ UNCHANGED <<pane, visual>>
     \/ /\ a = "cancel_visual"
        /\ immersive' = FALSE
        /\ visual' = (immersive /\ visual)
        /\ UNCHANGED pane
     \/ /\ a = "enter_visual"
        /\ visual' \in {visual, visual \/ pane = "TrackList"}
        /\ UNCHANGED <<immersive, pane>>
     \/ /\ a \in {"yank_selection", "delete_selection"}
        /\ visual' \in {visual, FALSE}
        /\ UNCHANGED <<immersive, pane>>
     \/ /\ a \in {"next_match", "previous_match"}
        /\ pane' \in {pane, "TrackList"}
        /\ UNCHANGED <<immersive, visual>>
     \/ a = "focus_tree" /\ pane' = "Tree" /\ UNCHANGED <<immersive, visual>>
     \/ a = "focus_tracks" /\ pane' = "TrackList" /\ UNCHANGED <<immersive, visual>>
  /\ UNCHANGED <<page, node, expanded, module, table, editing>>

\* Enter belongs to what has the keyboard: the table, a module, the tree, a list.
Activate ==
  IF page = "Settings" /\ pane = "TrackList"
  THEN IF KeybindingsOpen THEN ActivateTable ELSE ActivateModule
  ELSE IF pane = "Tree" THEN ActivateTreeNode
  ELSE UNCHANGED <<place, table, editing>>

\* Esc closes a curtain of a module, and else hands the keyboard to the tree.
Cancel ==
  /\ \/ /\ page = "Settings" /\ pane = "TrackList" /\ ~KeybindingsOpen /\ ~CoreEditing
        /\ FocusPane("Tree")
     \/ UNCHANGED place
  /\ UNCHANGED <<table, editing>>

OpensPrompt(a) ==
  /\ \/ a = "create_playlist" /\ prompt' = "playlist" /\ UNCHANGED pane
     \/ a \in {"search", "search_tracks"} /\ prompt' = "search" /\ pane' = "TrackList"
     \/ /\ a \in {"rename_playlist", "delete_playlist"}
        /\ prompt' = IF node # "playlist" THEN prompt
                     ELSE IF a = "rename_playlist" THEN "playlist" ELSE "delete"
        /\ UNCHANGED pane
  /\ UNCHANGED <<immersive, page, visual, node, expanded, module, table, editing, quit>>

\* The actions that have a case, but those that no context can have.
Handled ==
  Elsewhere \cup
  {"move_down", "move_up", "move_left", "move_right", "page_library", "page_settings",
   "move_first", "move_last", "half_page_down", "half_page_up", "open_immersive",
   "toggle_immersive", "cancel_visual", "enter_visual", "yank_selection",
   "delete_selection", "next_match", "previous_match", "focus_tree", "focus_tracks",
   "activate", "cancel", "reset_all_bindings", "create_playlist", "search",
   "search_tracks", "rename_playlist", "delete_playlist", "quit"}

\* The actions that leave their key to handleEvent(): those without a case, and
\* those that find no module to work on or one with a field that is edited.
Unhandled(a) ==
  \/ a \in Action \ Handled
  \/ /\ page = "Settings" /\ pane = "TrackList" /\ ~KeybindingsOpen
     /\ \/ a \in {"move_down", "move_up"} /\ (CoreEditing \/ node # "general")
        \/ a = "activate" /\ node # "general"

\* Without a pattern n and N find nothing, and leave their key too.
MayBeUnhandled(a) == Unhandled(a) \/ a \in {"next_match", "previous_match"}

PerformKeymapAction(a) ==
  \/ /\ \/ Navigate(a)
        \/ Present(a)
        \/ a = "activate" /\ Activate
        \/ a = "cancel" /\ Cancel
        \/ a = "reset_all_bindings" /\ RequestReset
     /\ UNCHANGED <<prompt, quit>>
  \/ OpensPrompt(a)
  \/ a = "quit" /\ quit' = TRUE /\ UNCHANGED <<place, table, editing, prompt>>
  \/ a \in Elsewhere /\ Stays

-----------------------------------------------------------------------------
(* The handlers of a key, each for what the ones before it let through.    *)

\* handleCaptureKey(): whatever is typed is recorded, but Esc.
CaptureKey(t) ==
  /\ IF t = "Esc" THEN CancelCapture
     ELSE /\ t \in Recorded /\ Len(buffer) < MaxLength
          /\ buffer' = Append(buffer, t)
          /\ UNCHANGED capture
  /\ UNCHANGED <<keymap_vars, place, editing, prompt, quit,
                 rows, selected, focus, drawn, reset_pending>>

\* Esc leaves the field that is edited; Enter commits, and what the field refuses
\* stays open. With the tree on a folder there is no field, and Esc goes there.
FieldTakes(t) ==
  IF node = "general"
  THEN /\ editing' \in IF t = "Esc" THEN {FALSE} ELSE IF t = "Enter" THEN BOOLEAN ELSE {TRUE}
       /\ UNCHANGED place
  ELSE /\ IF t = "Esc" THEN FocusPane("Tree") ELSE UNCHANGED place
       /\ UNCHANGED editing

\* handleEvent(): q leaves the program wherever no text is typed, and then a
\* field that is edited has the key, also while Immersive hides it.
FallsThrough(t) ==
  /\ quit' = (prompt \notin {"search", "playlist"} /\ IsQuitKey(t))
  /\ IF ~quit' /\ page = "Settings" /\ CoreEditing THEN FieldTakes(t)
     ELSE UNCHANGED <<place, editing>>
  /\ UNCHANGED <<table, prompt>>

FieldKey(t) == FallsThrough(t) /\ UNCHANGED keymap_vars

\* In a module the keys of the rows are taken ahead of the widgets.
ModuleKey(t) ==
  /\ MoveCursor(IF KeyOf(t, {"move_down"}) THEN 1 ELSE -1)
  /\ UNCHANGED <<keymap_vars, prompt, quit>>

\* The playlist of the tree is deleted, and another takes its place in the tree.
ConfirmDelete(t) ==
  /\ prompt' = IF t \in {"Enter", "Esc"} THEN "none" ELSE prompt
  /\ node' \in IF t = "Enter" /\ "vault" \in expanded THEN {node, "library"} ELSE {node}
  /\ UNCHANGED <<keymap_vars, immersive, page, pane, visual, expanded, module,
                 table, editing, quit>>

ConfirmReset(t) ==
  /\ IF t = "Enter" THEN RestoreDefaults ELSE UNCHANGED keymap_vars
  /\ reset_pending' = (t \notin {"Enter", "Esc"})
  /\ UNCHANGED <<place, editing, prompt, quit,
                 rows, selected, focus, drawn, capture, buffer>>

\* Enter may be refused: the name is taken, or nothing was found.
PromptKey(t) ==
  /\ prompt' \in IF t = "Esc" THEN {"none"} ELSE IF t = "Enter" THEN {"none", prompt}
                 ELSE {prompt}
  /\ UNCHANGED <<keymap_vars, place, table, editing, quit>>

\* The keymap, in the contexts of the moment; handleEvent() sees what is left.
MappedKey(t) ==
  LET resolution == Resolution(CurrentKeyContexts, t)
  IN /\ Feed(CurrentKeyContexts, t)
     /\ CASE resolution = Unmapped -> FallsThrough(t)
          [] resolution = Begun -> Stays
          [] OTHER -> \/ ~Unhandled(resolution.action) /\ PerformKeymapAction(resolution.action)
                      \/ MayBeUnhandled(resolution.action) /\ FallsThrough(t)

\* MUTANT of Press: the module takes its keys before the recording does.
PressModuleFirst(t) ==
  IF InModule /\ CoreEditing THEN FieldKey(t)
  ELSE IF page = "Settings" /\ pane = "TrackList" /\ KeyOf(t, {"move_down", "move_up"})
  THEN ModuleKey(t)
  ELSE IF capture # NoRow THEN CaptureKey(t)
  ELSE IF prompt = "delete" THEN ConfirmDelete(t)
  ELSE IF reset_pending THEN ConfirmReset(t)
  ELSE IF prompt # "none" THEN PromptKey(t)
  ELSE MappedKey(t)

\* handleGlobalKey(), and handleEvent() for what it does not take.
Press(t) ==
  IF capture # NoRow THEN CaptureKey(t)
  ELSE IF InModule /\ CoreEditing THEN FieldKey(t)
  ELSE IF InModule /\ KeyOf(t, {"move_down", "move_up"}) THEN ModuleKey(t)
  ELSE IF prompt = "delete" THEN ConfirmDelete(t)
  ELSE IF reset_pending THEN ConfirmReset(t)
  ELSE IF prompt # "none" THEN PromptKey(t)
  ELSE MappedKey(t)

-----------------------------------------------------------------------------
(* What else happens: the timer, a frame, the mouse, the next launch.      *)

\* commitCapture(), when nothing was typed for a second.
CommitCapture ==
  /\ capture # NoRow /\ buffer # <<>>
  /\ Bind(capture[1], capture[2], buffer)
  /\ IF Accepted(capture[1], capture[2], <<buffer>>) THEN Rebuild
     ELSE UNCHANGED <<rows, selected>>
  /\ CancelCapture
  /\ UNCHANGED <<place, editing, prompt, quit, focus, drawn, reset_pending>>

\* A frame that shows the table: it follows a keymap that changed.
Frame ==
  /\ page = "Settings" /\ ~immersive /\ module = "keybindings"
  /\ drawn' = TRUE
  /\ UNCHANGED keymap_vars /\ Rebuild
  /\ UNCHANGED <<place, editing, prompt, quit, focus, reset_pending, capture, buffer>>

\* A click where the reset control was drawn, whatever is there now.
ClickReset ==
  /\ page = "Settings" /\ drawn
  /\ focus' = "ResetFooter"
  /\ reset_pending' = TRUE
  /\ UNCHANGED <<keymap_vars, place, editing, prompt, quit,
                 rows, selected, drawn, capture, buffer>>

\* A click on a row of the tree or of the list, on the page of the media.
ClickTree(n) ==
  /\ page = "Library"
  /\ pane' = "Tree"
  /\ node' = n
  /\ Show(n)
  /\ UNCHANGED <<keymap_vars, immersive, visual, expanded, table, editing, prompt, quit>>

ClickList ==
  /\ page = "Library"
  /\ FocusPane("TrackList")
  /\ UNCHANGED <<keymap_vars, table, editing, prompt, quit>>

\* While the search box is open a click can only take a result, and closes it.
ClickResult ==
  /\ prompt = "search" /\ page = "Library"
  /\ prompt' = "none"
  /\ FocusPane("TrackList")
  /\ UNCHANGED <<keymap_vars, table, editing, quit>>

FreshScreen ==
  /\ immersive' = FALSE /\ visual' = FALSE
  /\ page' = "Library" /\ pane' = "Tree" /\ node' = "library"
  /\ expanded' = {"vault"} /\ module' = "general"
  /\ editing' = FALSE /\ prompt' = "none"
  /\ selected' = 1 /\ focus' = "Rows" /\ drawn' = FALSE
  /\ reset_pending' = FALSE /\ capture' = NoRow /\ buffer' = <<>> /\ quit' = FALSE

Relaunch == Launch /\ FreshScreen /\ rows' = <<>>

\* The constructor: configureKeymap(), and the table is built.
Configure ==
  /\ LoadEntry \/ LoadEnds
  /\ rows' = Rebuilt'
  /\ UNCHANGED <<place, editing, prompt, quit, selected, focus, drawn,
                 reset_pending, capture, buffer>>

Init ==
  /\ KeymapInit
  /\ immersive = FALSE /\ visual = FALSE
  /\ page = "Library" /\ pane = "Tree" /\ node = "library"
  /\ expanded = {"vault"} /\ module = "general"
  /\ editing = FALSE /\ prompt = "none"
  /\ rows = <<>> /\ selected = 1 /\ focus = "Rows" /\ drawn = FALSE
  /\ reset_pending = FALSE /\ capture = NoRow /\ buffer = <<>> /\ quit = FALSE

Mouse ==
  \/ ClickReset
  \/ /\ capture = NoRow /\ prompt # "search"
     /\ (\E n \in ToSet(Tree) : ClickTree(n)) \/ ClickList
  \/ ClickResult

Next ==
  \/ Configure
  \/ ~loading /\ ~quit /\ (\E t \in Keys : Press(t))
  \/ ~loading /\ ~quit /\ (CommitCapture \/ Frame \/ Mouse)
  \/ ~loading /\ Relaunch

Spec == Init /\ [][Next]_vars

-----------------------------------------------------------------------------
(* Properties.                                                             *)

\* q leaves the program, and does nothing else: not even nothing at all.
QuitsOnly ==
  /\ ENABLED (Press(Reserved) /\ quit')
  /\ ~ENABLED (Press(Reserved) /\ ~quit')

\* QuitKeyWorks: q leaves the program wherever it is not text, not a key to record
\* and not the answer to a confirmation, whatever was rebound and whatever sequence
\* was begun (app.cpp, isQuitKey: "whatever the configuration says, whatever pane
\* holds the keyboard"). An open confirmation takes the key away before handleEvent
\* sees it, although app.cpp:4043 has quit escape that as well.
QuitKeyWorks ==
  ~loading /\ ~quit /\ capture = NoRow /\ prompt = "none" /\ ~reset_pending => QuitsOnly

\* RecordingIsPrivate: while a key is recorded for a row, whatever is typed,
\* clicked or timed out, nothing behind the table moves and no other row of the
\* configuration changes (app.cpp, handleCaptureKey: the capture comes first).
\* The cursor of the table moves only when rows have gone that a restoring of the
\* defaults left without a key, which the table learns at the next frame.
RecordingIsPrivate ==
  [][capture # NoRow /\ ~loading'
     => /\ UNCHANGED <<place, editing, prompt, quit>>
        /\ rows' = rows => selected' = selected
        /\ focus' \in {focus, "ResetFooter"}
        /\ \A r \in (DOMAIN config \cup DOMAIN config') \ {capture} :
             /\ r \in DOMAIN config \cap DOMAIN config'
             /\ config'[r] = config[r]]_vars

=============================================================================
