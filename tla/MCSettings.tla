------------------------------ MODULE MCSettings ------------------------------
(* Settings on a small instance for TLC. *)
EXTENDS Settings, TLC

CONSTANTS home, given

\* Nothing; a file with settings, other people's lines, old keys and bindings;
\* one with values that are not legal.
MCFull == <<
  Line(<<>>, "schema_version", 2),
  Line(General, "seek_step", 10), Line(General, "future", "kept"),
  Line(Mpd, "host", "musicbox"), Line(Mpd, "port", 0), Line(Mpd, "password", "secret"),
  Line(<<"theme">>, "name", "kanagawa"), Line(Bars, "style", "bars"),
  Line(<<"plugin", "disc">>, "speed", 33), Line(<<"mpd", "extra">>, "host", "lost"),
  Line(<<"keybindings", "global">>, "quit", "Z Z"), Line(Past, "future", 1) >>
MCBroken == <<
  Line(General, "seek_step", 61), Line(General, "stop_on_exit", Garbage),
  Line(General, "start_page", "nowhere"),
  Line(Mpd, "port", Garbage), Line(Looks, "display", "disc"), Line(Looks, "slider", "half"),
  Line(<<"keybindings", "tree">>, "next", Garbage) >>
MCDisks ==
  {[p \in {home, given} |-> IF p = home THEN Whole(d) ELSE NoFile] : d \in {MCFull, MCBroken}}

MCStart == [option |-> Nowhere, variable |-> Nowhere, xdg |-> Nowhere, home |-> home,
            cli |-> NoOptions, env |-> NoOptions, flags |-> <<>>]
MCLaunches == {
  MCStart,
  [MCStart EXCEPT !.home = Nowhere, !.env.host = "env", !.env.port = 6601],
  [MCStart EXCEPT !.variable = given, !.flags = (<<Looks, "icons">> :> "unicode"),
                  !.cli.host = "cli", !.cli.password = NoText, !.cli.timeout = 0,
                  !.env.host = "env", !.env.port = Garbage]}

MCThemes == <<"kanagawa", "crimson">>

\* Every text of up to three of the characters that mean something in the file,
\* and one that does only behind an escape; the lists of one or two short ones.
MCCharacters == {"n", " ", "#", ",", "[", "]", "\"", "\\", "\n", "\t"}
MCTexts == BoundedSeq(MCCharacters, 3)
MCKeys == BoundedSeq(MCCharacters, 2) \ {<<>>}
MCKeyLists == {<<k>> : k \in MCKeys} \cup {<<k, l>> : k \in MCKeys, l \in MCKeys}

MCOffered == {"Startup page", "Host", "Port", "Auto reconnect", "Save and reconnect",
              "Disc", "Sensitivity"}
MCTyped ==
  [r \in MCOffered |->
     CASE r = "Host"        -> {"lan"}
       [] r = "Sensitivity" -> {214748365}
       [] OTHER             -> {}]
=============================================================================
