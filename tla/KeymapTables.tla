---------------------------- MODULE KeymapTables ----------------------------
(***************************************************************************)
(* The tables of the shipped keymap: the contexts and their chains and the *)
(* shipped bindings (src/src/app/keymap.cpp), and which actions may be     *)
(* overridden where and have a row in the editor (src/src/app/actions.cpp).*)
(* An action is its id, a context the name of the enumerator.              *)
(***************************************************************************)
EXTENDS Naturals, SequencesExt

AllContexts ==
  <<"Global", "Library", "Tree", "Tracks", "Visual", "Immersive", "Settings">>

\* chainFor(): Visual does not inherit the panes, and nothing Immersive.
ChainFor ==
  [c \in ToSet(AllContexts) |->
     CASE c = "Global" -> <<"Global">>
       [] c \in {"Tree", "Tracks"} -> <<c, "Library", "Global">>
       [] OTHER -> <<c, "Global">>]

\* kActionInfo, in its order.
AllActions ==
  <<"quit", "page_library", "page_settings", "help", "focus_next", "toggle_play",
    "next", "previous", "seek_forward", "seek_backward", "volume_up", "volume_down",
    "toggle_repeat", "toggle_shuffle", "search", "cancel", "reconnect",
    "update_database", "move_down", "move_up", "move_first", "move_last",
    "half_page_down", "half_page_up", "activate", "go_parent", "enter_directory",
    "prev_playlist", "next_playlist", "toggle_queue", "add_to_queue",
    "remove_selected", "clear_queue", "move_queue_up", "move_queue_down",
    "load_playlist", "add_to_playlist", "new_playlist", "rename_playlist",
    "delete_playlist", "section_previous", "section_next", "open_immersive",
    "toggle_immersive", "focus_tree", "focus_tracks", "move_left", "move_right",
    "create_playlist", "paste_register", "enter_visual", "yank_current",
    "yank_selection", "delete_current", "delete_selection", "cancel_visual",
    "search_tracks", "next_match", "previous_match", "confirm", "reset_binding",
    "reset_all_bindings">>

\* Withdrawn from every context (kNoContext), or from all but Immersive.
Withdrawn ==
  {"quit", "help", "reconnect", "update_database", "section_previous",
   "section_next", "reset_binding"}
ImmersiveOnly ==
  {"next", "previous", "seek_forward", "seek_backward", "volume_up",
   "volume_down", "toggle_repeat"}

\* actionConfigurableIn().
ConfigurableIn(c, a) ==
  a \notin Withdrawn /\ (a \in ImmersiveOnly => c = "Immersive")

\* actionEditable().
Editable(a) == a \notin Withdrawn \cup {"reset_all_bindings"}

\* The rows of the editor, of which rebuild() leaves out those without a key.
EditorTable ==
  FlattenSeq([i \in DOMAIN AllContexts |->
    LET c == AllContexts[i]
        shown == SelectSeq(AllActions, LAMBDA a : Editable(a) /\ ConfigurableIn(c, a))
    IN [j \in DOMAIN shown |-> <<c, shown[j]>>]])

-----------------------------------------------------------------------------
In(c, bound) ==
  [i \in DOMAIN bound |-> [context |-> c, action |-> bound[i][1], seq |-> bound[i][2]]]

GlobalBindings == In("Global", <<
  <<"quit", <<"q">>>>, <<"cancel", <<"Esc">>>>, <<"toggle_play", <<"Space">>>>,
  <<"toggle_shuffle", <<"s">>>>, <<"page_library", <<"1">>>>,
  <<"page_settings", <<"2">>>>, <<"toggle_immersive", <<"i">>>> >>)

TreeBindings == In("Tree", <<
  <<"move_down", <<"j">>>>, <<"move_up", <<"k">>>>, <<"move_left", <<"h">>>>,
  <<"move_right", <<"l">>>>, <<"move_first", <<"g", "g">>>>, <<"move_last", <<"G">>>>,
  <<"half_page_down", <<"PageDown">>>>, <<"half_page_up", <<"PageUp">>>>,
  <<"activate", <<"Enter">>>>, <<"create_playlist", <<"a">>>>,
  <<"rename_playlist", <<"r">>>>, <<"delete_playlist", <<"d", "d">>>>,
  <<"paste_register", <<"p">>>>, <<"search_tracks", <<"/">>>> >>)

TracksBindings == In("Tracks", <<
  <<"move_down", <<"j">>>>, <<"move_up", <<"k">>>>, <<"move_left", <<"h">>>>,
  <<"move_first", <<"g", "g">>>>, <<"move_last", <<"G">>>>,
  <<"half_page_down", <<"Ctrl+d">>>>, <<"half_page_down", <<"PageDown">>>>,
  <<"half_page_up", <<"Ctrl+u">>>>, <<"half_page_up", <<"PageUp">>>>,
  <<"activate", <<"Enter">>>>, <<"enter_visual", <<"v">>>>,
  <<"yank_current", <<"y", "y">>>>, <<"delete_current", <<"d", "d">>>>,
  <<"create_playlist", <<"a">>>>, <<"search_tracks", <<"/">>>>,
  <<"next_match", <<"n">>>>, <<"previous_match", <<"N">>>>,
  <<"move_queue_up", <<"K">>>>, <<"move_queue_down", <<"J">>>> >>)

VisualBindings == In("Visual", <<
  <<"move_down", <<"j">>>>, <<"move_up", <<"k">>>>, <<"move_first", <<"g", "g">>>>,
  <<"move_last", <<"G">>>>, <<"half_page_down", <<"Ctrl+d">>>>,
  <<"half_page_down", <<"PageDown">>>>, <<"half_page_up", <<"Ctrl+u">>>>,
  <<"half_page_up", <<"PageUp">>>>, <<"yank_selection", <<"y">>>>,
  <<"delete_selection", <<"d">>>>, <<"cancel_visual", <<"Esc">>>> >>)

ImmersiveBindings == In("Immersive", <<
  <<"cancel_visual", <<"Esc">>>>, <<"toggle_immersive", <<"i">>>>,
  <<"volume_down", <<"j">>>>, <<"volume_up", <<"k">>>>, <<"previous", <<"h">>>>,
  <<"next", <<"l">>>>, <<"seek_backward", <<",">>>>, <<"seek_forward", <<".">>>>,
  <<"toggle_repeat", <<"r">>>> >>)

SettingsBindings == In("Settings", <<
  <<"move_down", <<"j">>>>, <<"move_up", <<"k">>>>, <<"move_left", <<"h">>>>,
  <<"move_right", <<"l">>>>, <<"activate", <<"Enter">>>>,
  <<"reset_all_bindings", <<"R">>>> >>)

ShippedKeymap ==
  GlobalBindings \o TreeBindings \o TracksBindings \o VisualBindings
    \o ImmersiveBindings \o SettingsBindings

=============================================================================
