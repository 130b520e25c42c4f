------------------------------- MODULE MCKeys -------------------------------
(* The shipped keymap, as far as the keys of MCKeyboard go; three rows can be rebound.               *)
EXTENDS Keys, KeymapTables

MCKeyboard == {"q", "Esc", "Enter", "2", "i", "j", "k", "h", "l", "d", "/"}
MCShipped == SelectSeq(ShippedKeymap, LAMBDA b : ToSet(b.seq) \subseteq MCKeyboard)

Left == <<"Settings", "move_left">>
Right == <<"Settings", "move_right">>
Behind == <<"Immersive", "activate">>
MCConfigurable == {r \in {Left, Right, Behind} : ConfigurableIn(r[1], r[2])}
\* Left and Behind can be rebound in the file only.
MCEditorRows == SelectSeq(EditorTable, LAMBDA r : r = Right)

\* Right has a sequence that Left begins and a key that is none, either of which
\* is refused; one row is obsolete and one unknown. Behind activates what
\* Immersive hides.
MCFiles ==
  {<<>>,
   (<<"Global", "quit">> :> << <<"x">> >>) @@ (<<"nowhere", "move_up">> :> << <<"x">> >>)
     @@ (Left :> << <<"x">> >>) @@ (Right :> << <<"x", "d">>, <<"Banana">> >>)
     @@ (Behind :> << <<"Enter">> >>)}

FileRank(r) ==
  CASE r[1] = "Global" -> 1 [] r[1] = "nowhere" -> 2 [] r = Left -> 3 [] r = Behind -> 4 [] OTHER -> 5
MCBefore(r, s) == FileRank(r) < FileRank(s)
=============================================================================
