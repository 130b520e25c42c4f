SPECIFICATION Spec
CONSTANTS
  Context = {"Global", "Library", "Tree", "Tracks", "Visual", "Immersive", "Settings"}
  Global = "Global"
  Chain <- ChainFor
  Action = {
    "quit", "cancel", "toggle_play", "toggle_shuffle", "page_library", "page_settings",
    "toggle_immersive", "move_down", "move_up", "move_left", "move_right", "move_first",
    "move_last", "half_page_down", "half_page_up", "activate", "create_playlist",
    "rename_playlist", "delete_playlist", "paste_register", "search_tracks",
    "enter_visual", "yank_current", "delete_current", "next_match", "previous_match",
    "move_queue_up", "move_queue_down", "yank_selection", "delete_selection",
    "cancel_visual", "volume_down", "volume_up", "previous", "next", "seek_backward",
    "seek_forward", "toggle_repeat", "reset_all_bindings"}
  Token = {"q", "Esc", "Enter", "2", "i", "j", "k", "h", "l", "d", "/", "x"}
  Reserved = "q"
  Shipped <- MCShipped
  Configurable <- MCConfigurable
  Files <- MCFiles
  Before <- MCBefore
  EditorRows <- MCEditorRows
  Keys = {"q", "Esc", "Enter", "i", "j", "k", "l", "d", "2", "x", "/"}
  Recorded = {"q", "x"}
  MaxLength = 2
INVARIANTS TypeOK TablesSound PendingContinues RowsAreConfigured QuitKeyWorks
PROPERTIES RecordingIsPrivate
