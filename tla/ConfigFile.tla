------------------------------ MODULE ConfigFile ------------------------------
(* config.toml: the settings it holds, how it is read, how it is written and   *)
(* how a save replaces it (config.cpp). A document has the sequence of its      *)
(* `key = value` lines, each with the section that a reader finds it in;       *)
(* comments and malformed lines are read as nothing. A section is the sequence *)
(* of the names between its dots, <<>> before the first header. A value is a   *)
(* number (the sensitivity in tenths), a text, or Garbage: what none of the    *)
(* parsers accepts.                                                            *)
EXTENDS Lists, FiniteSets, SequencesExt

CONSTANTS
  Garbage,   \* a value that is no number, no switch and no key list
  NoText     \* the text without a character

\* TLC finds this true; the provers know of no string that it is a STRING.
ASSUME TextAssumption ==
  {NoText, "127.0.0.1", "default", "/tmp/mpd.fifo", "wave"} \subseteq STRING

General == <<"general">>
Mpd     == <<"mpd">>
Looks   == <<"appearance">>
Bars    == <<"visualizer">>
Past    == <<"history">>

LastPort == 65535

Setting(section, key, legal, low, high, default, bad) ==
  [name |-> <<section, key>>, legal |-> legal, low |-> low, high |-> high,
   default |-> default, bad |-> bad]
Number(section, key, low, high, default) ==
  Setting(section, key, low..high, low, high, default, "default")
Version(key, low, high, default) ==
  Setting(<<>>, key, low..high, low, high, default, "keep")
Choice(section, key, legal, default, bad) == Setting(section, key, legal, 0, 0, default, bad)
Bool(section, key, default) == Choice(section, key, {"true", "false"}, default, "default")
Text(section, key, default) == Choice(section, key, STRING, default, "keep")

\* The settings in the order serialize() writes them; `bad` is what an illegal
\* value leaves behind, the default or the value there was.
Written == <<
  Version("schema_version",          1, 1000, 1),
  Choice(General, "start_page",      {"library", "core"}, "library", "keep"),
  Bool(  General, "stop_on_exit",    "true"),
  Number(General, "seek_step",       1, 60, 5),
  Number(General, "volume_step",     1, 25, 5),
  Text(<<"library">>, "path",        NoText),
  Text(  Mpd,     "host",            "127.0.0.1"),
  Number(Mpd,     "port",            0, LastPort, 6600),
  Text(  Mpd,     "password",        NoText),
  Number(Mpd,     "timeout_ms",      100, 60000, 2000),
  Bool(  Mpd,     "auto_reconnect",  "true"),
  Text(  Looks,   "theme",           "default"),
  Text(  Looks,   "theme_directory", NoText),
  Choice(Looks,   "icons",           {"nerd", "unicode"}, "nerd", "keep"),
  Choice(Looks,   "display",         {"spectrum", "disc"}, "spectrum", "keep"),
  Choice(Bars,   "palette",          {"theme", "ice", "fire", "rainbow"}, "theme", "default"),
  Number(Bars,    "refresh_hz",      5, 60, 60),
  Number(Bars,    "sensitivity",     1, 50, 10),
  Number(Bars,    "bar_density",     32, 96, 64),
  Text(  Bars,    "fifo_path",       "/tmp/mpd.fifo"),
  Number(Bars,    "sample_rate",     8000, 192000, 44100),
  Number(Bars,    "channels",        1, 8, 2),
  Bool(  Past,    "enabled",         "true"),
  Number(Past,    "max_entries",     1, 10000, 100) >>

\* Read, but not written back.
Unwritten == << Text(Looks, "slider", "wave"), Number(Looks, "transport_gap", 0, 4, 2) >>

Table        == Written \o Unwritten
Names        == {Table[i].name : i \in DOMAIN Table}
WrittenNames == {Written[i].name : i \in DOMAIN Written}
Row          == [n \in Names |-> CHOOSE i \in DOMAIN Table : Table[i].name = n]
Legal        == [n \in Names |-> Table[Row[n]].legal]
Clamp(n, v)  == LET r == Table[Row[n]]
                IN  IF v < r.low THEN r.low ELSE IF v > r.high THEN r.high ELSE v
Defaults     == [n \in Names |-> Table[Row[n]].default]

-----------------------------------------------------------------------------
(* Reading.                                                                  *)
Line(section, key, value) == [section |-> section, key |-> key, value |-> value]

\* What a path may hold: a document, none, or one that was cut off.
Whole(lines) == [left |-> "all", lines |-> lines]
NoFile       == [left |-> "nothing", lines |-> <<>>]
Torn         == [left |-> "a part", lines |-> <<>>]

\* A header opens a section that has a name, and every line behind it is in one.
TopLinesFirst(lines) ==
  \A i \in DOMAIN lines : lines[i].section = <<>> => \A j \in 1..i : lines[j].section = <<>>

IsSequence(s) == Len(s) \in Nat /\ s = [i \in 1..Len(s) |-> s[i]]

LineOk(line) ==
  line = Line(line.section, line.key, line.value) /\ IsSequence(line.section)

DocumentOk(document) ==
  /\ IsSequence(document.lines)
  /\ \A i \in DOMAIN document.lines : LineOk(document.lines[i])
  /\ TopLinesFirst(document.lines)

\* The other names of two settings, and two old settings without an effect.
Alias(section, key) ==
  CASE section = <<"theme">> /\ key = "name"      -> <<Looks, "theme">>
    [] section = <<"theme">> /\ key = "directory" -> <<Looks, "theme_directory">>
    [] OTHER                                      -> <<section, key>>
Legacy == {<<Bars, "style">>, <<Bars, "enabled">>}

Known == Names \cup Legacy

\* Mutant: every key of a section that termusic has is taken for its own.
SectionIsKnown(section, key) ==
  section # <<>> /\ <<section[1]>> \in {<<"keybindings">>, <<"theme">>} \cup {n[1] : n \in Known}

\* Only the first name of a dotted section is looked at.
KeyIsKnown(section, key) ==
  LET head == IF section = <<>> THEN <<>> ELSE <<section[1]>>
  IN  head = <<"keybindings">> \/ Alias(head, key) \in Known

\* What a program without a file runs with.
Blank == [config |-> Defaults, bindings |-> <<>>, preserved |-> <<>>]

Accepted(name, value, current) ==
  IF value \in Legal[name] THEN value
  ELSE IF Table[Row[name]].bad = "keep" THEN current ELSE Defaults[name]

Keep(load, line) == [load EXCEPT !.preserved = Append(@, line)]

Bind(load, bound, keys) ==
  [load EXCEPT !.bindings =
     [b \in DOMAIN @ \cup {bound} |-> IF b = bound THEN keys ELSE @[b]]]

Put(load, name, value) == [load EXCEPT !.config[name] = Accepted(name, value, @)]

IsBinding(line) == line.section # <<>> /\ line.section[1] = "keybindings"
Bound(line)     == <<Tail(line.section), line.key>>

\* A known key in a deeper section and an old one change nothing.
ReadLine(load, line) ==
  LET name == Alias(line.section, line.key)
  IN  IF ~KeyIsKnown(line.section, line.key) THEN Keep(load, line)
      ELSE IF IsBinding(line)
      THEN IF Len(line.section) = 1 \/ line.value = Garbage THEN load
           ELSE Bind(load, Bound(line), line.value)
      ELSE IF name \in Names THEN Put(load, name, line.value) ELSE load

Read(document) ==
  LET upto[i \in 0..Len(document.lines)] ==
        IF i = 0 THEN Blank ELSE ReadLine(upto[i - 1], document.lines[i])
  IN  upto[Len(document.lines)]

-----------------------------------------------------------------------------
(* Writing.                                                                  *)
\* Mutant: a section that termusic writes itself has no other lines.
ForeignSections(preserved) ==
  LET own == {n[1] : n \in WrittenNames}
  IN  SetToSeq({preserved[i].section : i \in DOMAIN preserved} \ own)

PreservedSections(preserved) ==
  LET seen[i \in 0..Len(preserved)] ==
        IF i = 0 THEN <<>>
        ELSE IF preserved[i].section \in ToSet(seen[i - 1]) THEN seen[i - 1]
        ELSE Append(seen[i - 1], preserved[i].section)
  IN  seen[Len(preserved)]

LinesOf(preserved, section) ==
  Selected(preserved, {l \in ToSet(preserved) : l.section = section})

\* Lines that were read before the first header have no header to be put under:
\* they follow the last line that was written, in its section.
Placed(lines, section, before) ==
  IF section # <<>> THEN lines
  ELSE [i \in DOMAIN lines |-> [lines[i] EXCEPT !.section = Last(before).section]]

PutBack(lines, preserved) ==
  LET sections == PreservedSections(preserved)
      out[i \in 0..Len(sections)] ==
        IF i = 0 THEN lines
        ELSE out[i - 1] \o Placed(LinesOf(preserved, sections[i]), sections[i], out[i - 1])
  IN  out[Len(sections)]

OwnLines(config) ==
  [i \in DOMAIN Written |->
     Line(Written[i].name[1], Written[i].name[2], config[Written[i].name])]

KeyLines(bindings) ==
  LET bound == SetToSeq(DOMAIN bindings)
  IN  [i \in DOMAIN bound |->
         Line(<<"keybindings">> \o bound[i][1], bound[i][2], bindings[bound[i]])]

Write(load) ==
  Whole(PutBack(OwnLines(load.config) \o KeyLines(load.bindings), load.preserved))

-----------------------------------------------------------------------------
(* Saving: the new document is written beside the old one and renamed over it. *)
(* `behind` is what a power failure would leave of what the kernel was told.   *)
\* Mutant: nothing is flushed before the rename.
UnsyncedSteps == <<"open", "write", "rename", "settle">>

SaveSteps == <<"open", "write", "fsync", "rename", "settle">>

Advance(fs, step, document) ==
  LET flushed == IF fs.synced THEN fs.temp ELSE Torn
  IN  CASE step = "open"   -> [fs EXCEPT !.temp = Torn, !.synced = FALSE]
        [] step = "write"  -> [fs EXCEPT !.temp = document]
        [] step = "fsync"  -> [fs EXCEPT !.synced = TRUE]
        [] step = "rename" -> [fs EXCEPT !.file = fs.temp, !.behind = {fs.file, flushed}]
        [] step = "settle" -> [fs EXCEPT !.behind = {flushed}]

\* What a run that ends after n steps of a save leaves as the file.
LeftBy(file, n, document) ==
  LET start == [file |-> file, temp |-> NoFile, synced |-> FALSE, behind |-> {file}]
      after[i \in 0..n] ==
        IF i = 0 THEN start ELSE Advance(after[i - 1], SaveSteps[i], document)
  IN  {after[n].file} \cup after[n].behind
=============================================================================
