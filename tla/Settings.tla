------------------------------- MODULE Settings -------------------------------
(* What becomes of a setting: a launch reads config.toml, lays the environment *)
(* and the options over it, the panes General and Appearance edit it, and each *)
(* confirmed edit rewrites the file (main.cpp, paths.cpp, settings.cpp,        *)
(* general.cpp, appearance.cpp, controller.cpp). A save can be refused, and    *)
(* the program can be killed, or the power be lost, in the middle of one.      *)
(* The reconnection itself is Connection's; the other panes are Keys'.         *)
EXTENDS ConfigFile

CONSTANTS
  Place,     \* the paths that a launch can name
  Relative,  \* those that are not absolute
  Nowhere,   \* no path
  Disks,     \* what a person left there: path -> document
  Launches,  \* how the program is started
  Themes,    \* the ids of the installed themes, in their order
  Offered,   \* the rows of the panes that are kept, to bound a run
  Typed,     \* row -> what is typed into it
  Empty,     \* nothing typed, or nothing given
  Faults,    \* what may go wrong
  MaxEdits,  \* how many confirmed edits a run explores
  Texts,     \* texts a value may be, character by character
  KeyLists   \* lists of keys a binding may be

ASSUME SettingsAssumption ==
  /\ Relative \subseteq Place /\ Nowhere \notin Place
  /\ Faults \subseteq {"crash", "readonly", "unreadable"}
  /\ MaxEdits \in Nat /\ Empty \notin 1..LastPort
  /\ \A left \in Disks : left = [p \in Place |-> left[p]] /\ \A p \in Place : DocumentOk(left[p])

VARIABLES
  disk,       \* path -> document
  running,
  launch,     \* how this run was started
  path,       \* ConfigStore::path_
  config,     \* Controller::config_: the settings, the bindings, the preserved lines
  connection, \* Controller::connection_
  analyzer,   \* what the spectrum thread was started with
  drafts,     \* host_, port_ and password_ of the General pane
  pane,       \* the section on screen
  list,       \* section -> its SettingList
  sync,       \* how the file stands to config_: "agrees", "unsaved", or "blind"
  edits

file == <<disk, sync, edits, running>>
vars == <<file, launch, path, config, connection, analyzer, drafts, pane, list>>

Host     == <<Mpd, "host">>
Port     == <<Mpd, "port">>
Password == <<Mpd, "password">>
Timeout  == <<Mpd, "timeout_ms">>
Display  == <<Looks, "display">>
Drafts   == {Host, Port, Password}

\* An option that is a setting is none of the endpoint, and has been validated.
ASSUME LaunchAssumption ==
  \A l \in Launches :
    /\ {l.option, l.variable, l.xdg, l.home} \subseteq Place \cup {Nowhere}
    /\ l.cli.port \in 1..LastPort \cup {Empty}
    /\ \A n \in DOMAIN l.flags :
         n \in Names \ (Drafts \cup {Timeout}) /\ l.flags[n] \in Legal[n]

-----------------------------------------------------------------------------
(* The rows of the two panes and the engine that walks and edits them.       *)
Item(kind, label, name) ==
  [kind |-> kind, label |-> label, name |-> name, options |-> <<>>, scale |-> 1]
Heading(label)               == Item("heading", label, Host)
Note                         == Item("note", NoText, Host)
Toggle(label, name)          == Item("toggle", label, name)
Numeric(label, name)         == Item("number", label, name)
Select(label, name, options) == [Item("select", label, name) EXCEPT !.options = options]

GeneralRows == <<
  Heading("Startup"),
  Select("Startup page", <<General, "start_page">>, <<"library", "core">>),
  Toggle("Stop MPD on exit", <<General, "stop_on_exit">>),
  Heading("Steps"),
  Numeric("Seek step", <<General, "seek_step">>),
  Numeric("Volume step", <<General, "volume_step">>),
  Heading("MPD server"), Note, Note, Note,
  Item("input", "Host", Host),
  Numeric("Port", Port),
  Item("input", "Password", Password),
  Toggle("Auto reconnect", <<Mpd, "auto_reconnect">>),
  Heading("Actions"),
  Item("action", "Save and reconnect", Host),
  Item("action", "Update database", Host), Note >>

ThemeRows == <<
  Heading("Theme"),
  Select("Theme", <<Looks, "theme">>, Themes),
  Heading("Visualization"),
  Toggle("Spectrum", Display),
  Toggle("Disc", Display) >>

SpectrumRows == <<
  Heading("Spectrum settings"),
  Select("Palette", <<Bars, "palette">>, <<"theme", "ice", "fire", "rainbow">>),
  [Numeric("Sensitivity", <<Bars, "sensitivity">>) EXCEPT !.scale = 10],
  Numeric("Refresh", <<Bars, "refresh_hz">>),
  Numeric("Bands", <<Bars, "bar_density">>) >>

\* The rows of the Spectrum are only built while it is the display.
AppearanceRows(display) ==
  ThemeRows \o IF display = "spectrum" THEN SpectrumRows ELSE <<>>

Sections == {"General", "Appearance"}

\* `built` is the display the rows of a section were last filled for.
Rows ==
  [section \in Sections |-> [built \in {"spectrum", "disc"} |->
     LET rows == IF section = "General" THEN GeneralRows ELSE AppearanceRows(built)
     IN  Selected(rows, {r \in ToSet(rows) : r.kind = "heading" \/ r.label \in Offered})]]

Selectable(rows) == {i \in DOMAIN rows : rows[i].kind # "heading"}

\* There is always a built-in theme, and each section has a row for the cursor.
ASSUME PaneAssumption ==
  /\ Themes \in Seq(STRING) \ {<<>>}
  /\ \A section \in Sections : \A built \in {"spectrum", "disc"} :
       LET rows == Rows[section][built]
       IN  /\ Selectable(rows) # {}
           /\ \A i \in Selectable(rows) :
                /\ rows[i].kind = "input"  => Typed[rows[i].label] \subseteq STRING
                /\ rows[i].kind = "number" => Typed[rows[i].label] \subseteq Int \cup {Garbage}

NextSelectable(rows, from, delta) ==
  LET all    == Selectable(rows)
      beyond == {i \in all : (i - from) * delta > 0}
  IN  CHOOSE i \in IF beyond = {} THEN all ELSE beyond :
        \A j \in IF beyond = {} THEN all ELSE beyond : i * delta <= j * delta

Filled(section, built, selected) ==
  [built |-> built, selected |-> selected, editing |-> FALSE, buffer |-> Empty,
   open |-> FALSE, candidate |-> 1]

\* set(): the cursor stays on the row with the same label, if it is still there.
Refilled(section, display, old) ==
  LET rows  == Rows[section][display]
      label == Rows[section][old.built][old.selected].label
      same  == {i \in Selectable(rows) : rows[i].label = label}
  IN  Filled(section, display,
             IF same = {} THEN NextSelectable(rows, 0, 1)
             ELSE CHOOSE i \in same : \A j \in same : i <= j)

cursor == list[pane]
here   == Rows[pane][cursor.built][cursor.selected]
With(c) == list' = [list EXCEPT ![pane] = c]
Closed  == [cursor EXCEPT !.editing = FALSE, !.buffer = Empty, !.open = FALSE, !.candidate = 1]

-----------------------------------------------------------------------------
(* Launching.                                                                *)

\* A relative XDG_CONFIG_HOME is ignored; what an option or TERMUSIC_CONFIG
\* names is used as it is given.
ConfigPath(l) ==
  IF l.option # Nowhere THEN l.option
  ELSE IF l.variable # Nowhere THEN l.variable
  ELSE IF l.xdg \in Place \ Relative THEN l.xdg
  ELSE l.home

\* Command line over environment over file over built-in default. MPD_PORT hides
\* the port of the file even when it is no port number.
Resolve(c, cli, env) ==
  LET asked == IF cli.timeout # Empty THEN cli.timeout ELSE c[Timeout]
  IN  [host     |-> IF cli.host \notin {Empty, NoText} THEN cli.host
                    ELSE IF env.host # Empty THEN env.host
                    ELSE IF c[Host] # NoText THEN c[Host] ELSE Defaults[Host],
       port     |-> IF cli.port # Empty THEN cli.port
                    ELSE IF env.port \in 1..LastPort THEN env.port
                    ELSE IF env.port = Empty /\ c[Port] # 0 THEN c[Port] ELSE Defaults[Port],
       password |-> IF cli.password # Empty THEN cli.password
                    ELSE IF env.password # Empty THEN env.password ELSE c[Password],
       timeout  |-> IF asked \in Legal[Timeout] THEN asked ELSE Defaults[Timeout],
       source   |-> "launch"]

\* Mutant: --host is an option like the others.
OverlaidHost(load, l) ==
  IF l.cli.host = Empty THEN load ELSE [load EXCEPT !.config[Host] = l.cli.host]

\* The options that are settings are laid over what was read; the host, the port
\* and the password are not among them.
Overlaid(load, l) ==
  [load EXCEPT !.config = [n \in Names |-> IF n \in DOMAIN l.flags THEN l.flags[n] ELSE @[n]]]

AnalyzerNames ==
  {<<Bars, k>> : k \in {"fifo_path", "sample_rate", "channels", "bar_density", "sensitivity",
                        "refresh_hz"}}
AnalyzerParameters(c) == [n \in AnalyzerNames |-> c[n]]

DraftsOf(c) == [n \in Drafts |-> c[n]]

Launch(l) ==
  /\ ~running
  /\ \E readable \in IF "unreadable" \in Faults THEN BOOLEAN ELSE {TRUE} :
       LET p    == ConfigPath(l)
           read == p # Nowhere /\ (readable \/ disk[p] = NoFile)
           load == IF read THEN Read(disk[p]) ELSE Blank
           mine == Overlaid(load, l)
       IN  /\ launch' = l
           /\ path' = p
           /\ config' = mine
           /\ connection' = Resolve(load.config, l.cli, l.env)
           /\ analyzer' = AnalyzerParameters(mine.config)
           /\ drafts' = DraftsOf(mine.config)
           /\ list' = [s \in Sections |->
                         LET built == mine.config[Display]
                         IN  Filled(s, built, NextSelectable(Rows[s][built], 0, 1))]
           /\ sync' = IF read THEN "agrees" ELSE "blind"
  /\ running' = TRUE
  /\ pane' = "General"
  /\ UNCHANGED <<disk, edits>>

-----------------------------------------------------------------------------
(* Editing. A key reaches the row under the cursor of the section on screen. *)

\* Mutant: the field that is typed into knows no range.
ScaledFreely(row, typed) == (typed % 65536) * row.scale

\* What is typed times the scale of the row, as the 32 bits of an int hold it,
\* brought into the range of the row.
Scaled(row, typed) ==
  LET low  == (typed % 65536) * row.scale
      high == ((typed \div 65536) * row.scale + (low \div 65536)) % 65536
      int  == (IF high >= 32768 THEN high - 65536 ELSE high) * 65536 + (low % 65536)
  IN  Clamp(row.name, int)

\* Controller::saveConfig. When the program is cut off in the middle, the file is
\* what the steps of the save that were done have left.
Save(new) ==
  /\ edits < MaxEdits
  /\ edits' = edits + 1
  /\ config' = new
  /\ \/ /\ path # Nowhere
        /\ disk' = [disk EXCEPT ![path] = Write(new)]
        /\ sync' = "agrees"
        /\ UNCHANGED running
     \/ /\ path = Nowhere \/ "readonly" \in Faults
        /\ sync' = IF sync = "blind" THEN sync ELSE "unsaved"
        /\ UNCHANGED <<disk, running>>
     \/ /\ path # Nowhere /\ "crash" \in Faults
        /\ \E done \in 0..Len(SaveSteps) : \E left \in LeftBy(disk[path], done, Write(new)) :
             disk' = [disk EXCEPT ![path] = left]
        /\ running' = FALSE
        /\ UNCHANGED sync

\* A setter of the Controller; those of the Spectrum restart the analyzer.
Set(name, value) ==
  LET new == [config EXCEPT !.config[name] = value]
  IN  /\ Save(new)
      /\ analyzer' = IF name[1] = Bars THEN AnalyzerParameters(new.config) ELSE analyzer
      /\ UNCHANGED connection

\* j and k walk the candidates of an open curtain, the rows otherwise.
MoveCursor(delta) ==
  /\ running /\ ~cursor.editing
  /\ With(IF cursor.open
          THEN [cursor EXCEPT !.candidate =
                  IF @ + delta \in DOMAIN here.options THEN @ + delta ELSE @]
          ELSE [cursor EXCEPT !.selected = NextSelectable(Rows[pane][cursor.built], @, delta)])
  /\ UNCHANGED <<file, launch, path, config, connection, analyzer, drafts, pane>>

\* Esc closes the field or the curtain and changes no value.
LeaveEditing ==
  /\ running /\ (cursor.editing \/ cursor.open)
  /\ With(Closed)
  /\ UNCHANGED <<file, launch, path, config, connection, analyzer, drafts, pane>>

\* Enter on a field, or on a select that is closed. Fields open empty.
\* The option that is set, or the first.
Chosen(row) ==
  CHOOSE i \in DOMAIN row.options :
    \/ row.options[i] = config.config[row.name]
    \/ i = 1 /\ config.config[row.name] \notin ToSet(row.options)

Open ==
  /\ running /\ ~cursor.editing /\ ~cursor.open
  /\ \/ /\ here.kind \in {"input", "number"}
        /\ With([cursor EXCEPT !.editing = TRUE, !.buffer = Empty])
     \/ /\ here.kind = "select"
        /\ With([cursor EXCEPT !.open = TRUE, !.candidate = Chosen(here)])
  /\ UNCHANGED <<file, launch, path, config, connection, analyzer, drafts, pane>>

Type(text) ==
  /\ running /\ cursor.editing
  /\ With([cursor EXCEPT !.buffer = text])
  /\ UNCHANGED <<file, launch, path, config, connection, analyzer, drafts, pane>>

\* Enter in a field. A number that is empty or cannot be read keeps the value.
Unread == here.kind = "number" /\ cursor.buffer \in {Empty, Garbage}
Entered ==
  IF here.kind = "number" THEN Scaled(here, cursor.buffer)
  ELSE IF cursor.buffer = Empty THEN NoText
  ELSE cursor.buffer

CommitDraft ==
  /\ running /\ cursor.editing /\ here.name \in Drafts /\ ~Unread
  /\ drafts' = [drafts EXCEPT ![here.name] = Entered]
  /\ With(Closed)
  /\ UNCHANGED <<file, launch, path, config, connection, analyzer, pane>>

CommitNumber ==
  /\ running /\ cursor.editing /\ here.name \notin Drafts /\ ~Unread
  /\ Set(here.name, Entered)
  /\ With(Closed)
  /\ UNCHANGED <<launch, path, drafts, pane>>

CommitNothing ==
  /\ running /\ cursor.editing /\ Unread
  /\ With(Closed)
  /\ UNCHANGED <<file, launch, path, config, connection, analyzer, drafts, pane>>

\* Enter on a candidate: the one way a select changes its setting.
Confirm ==
  /\ running /\ cursor.open
  /\ Set(here.name, here.options[cursor.candidate])
  /\ With(Closed)
  /\ UNCHANGED <<launch, path, drafts, pane>>

Flip ==
  /\ running /\ ~cursor.open /\ here.kind = "toggle" /\ here.name # Display
  /\ Set(here.name, IF config.config[here.name] = "true" THEN "false" ELSE "true")
  /\ UNCHANGED <<launch, path, drafts, pane, list>>

\* The two displays are two switches; the one that is on cannot be put off.
ShowDisplay ==
  /\ running /\ ~cursor.open /\ here.kind = "toggle" /\ here.name = Display
  /\ LET mine == IF here.label = "Disc" THEN "disc" ELSE "spectrum"
     IN  config.config[Display] # mine /\ Set(Display, mine)
  /\ UNCHANGED <<launch, path, drafts, pane, list>>

\* Mutant: the help of the field says that 0 is a port to save.
ValidPortOrZero(port) == port \in 0..65535

ValidPort(port) == port \in 1..LastPort

\* Hosts are typed without blanks at their ends. An empty one becomes the
\* default, and a port of 0 is refused with a message.
SaveAndReconnect ==
  /\ running /\ ~cursor.open /\ here.label = "Save and reconnect"
  /\ ValidPort(drafts[Port])
  /\ LET host == IF drafts[Host] = NoText THEN Defaults[Host] ELSE drafts[Host]
         new  == [config EXCEPT !.config[Host] = host, !.config[Port] = drafts[Port],
                                !.config[Password] = drafts[Password]]
     IN  /\ Save(new)
         /\ connection' = [host |-> host, port |-> drafts[Port], password |-> drafts[Password],
                           timeout |-> config.config[Timeout], source |-> "Core > General"]
  /\ UNCHANGED <<launch, path, analyzer, drafts, pane, list>>

\* The tree shows another section; a field keeps every key and click.
OpenSection(section) ==
  /\ running /\ ~cursor.editing /\ section # pane
  /\ pane' = section
  /\ UNCHANGED <<file, launch, path, config, connection, analyzer, drafts, list>>

\* A frame is drawn: the section on screen is refilled when the display changed.
\* Keys that were queued before it still meet the old rows.
Frame ==
  /\ running /\ pane = "Appearance" /\ cursor.built # config.config[Display]
  /\ With(Refilled(pane, config.config[Display], cursor))
  /\ UNCHANGED <<file, launch, path, config, connection, analyzer, drafts, pane>>

-----------------------------------------------------------------------------
\* Nothing of a program that does not run is left but the file.
NoOptions == [host |-> Empty, port |-> Empty, password |-> Empty, timeout |-> Empty]
FreshConnection == Resolve(Defaults, NoOptions, NoOptions)
FreshList == [s \in Sections |-> Filled(s, "spectrum", NextSelectable(Rows[s]["spectrum"], 0, 1))]

Quit ==
  /\ running
  /\ running' = FALSE /\ sync' = "blind" /\ path' = Nowhere /\ config' = Blank
  /\ connection' = FreshConnection
  /\ analyzer' = AnalyzerParameters(Defaults) /\ drafts' = DraftsOf(Defaults)
  /\ pane' = "General" /\ list' = FreshList
  /\ UNCHANGED <<disk, edits, launch>>

Init ==
  /\ disk \in Disks /\ running = FALSE /\ sync = "blind" /\ edits = 0
  /\ launch \in Launches /\ path = Nowhere /\ config = Blank
  /\ connection = FreshConnection
  /\ analyzer = AnalyzerParameters(Defaults) /\ drafts = DraftsOf(Defaults)
  /\ pane = "General" /\ list = FreshList

Next ==
  \/ \E l \in Launches : Launch(l)
  \/ \E delta \in {-1, 1} : MoveCursor(delta)
  \/ LeaveEditing \/ Open \/ CommitDraft \/ CommitNumber \/ CommitNothing \/ Confirm \/ Flip \/ ShowDisplay
  \/ \E text \in Typed[here.label] : Type(text)
  \/ SaveAndReconnect \/ Frame \/ Quit
  \/ \E section \in Sections : OpenSection(section)

Spec == Init /\ [][Next]_vars

-----------------------------------------------------------------------------
(* Properties.                                                               *)

\* Types. No edit, no file and no number that is typed puts a setting out of its
\* range, and the analyzer runs with the settings on screen.
TypeOK ==
  /\ running \in BOOLEAN /\ sync \in {"agrees", "unsaved", "blind"} /\ edits \in 0..MaxEdits
  /\ \A n \in Names : config.config[n] \in Legal[n]
  /\ \A n \in Drafts : drafts[n] \in Legal[n]
  /\ connection.port \in 1..LastPort
  /\ analyzer = AnalyzerParameters(config.config)
  /\ pane \in Sections
  /\ \A s \in Sections :
       /\ list[s].selected \in Selectable(Rows[s][list[s].built])
       /\ ~(list[s].editing /\ list[s].open)
       /\ list[s].open => list[s].candidate \in DOMAIN Rows[s][list[s].built][list[s].selected].options

\* A crash at any step of a save leaves a whole document, the one from before or
\* the new one, and no program but termusic's own save touches the file
\* (config.cpp:625: "either the old file or the new one -- never a half-written
\* config").
SaveIsAtomic ==
  [][\A p \in Place : disk'[p] \in {disk[p]} \cup (IF p = path THEN {Write(config')} ELSE {})]_vars

\* What a value says may be any text, and what a binding says any list of keys.
Characters == INSTANCE ConfigText
ValuesSurvive ==
  Characters!TextsSurvive(Texts) /\ Characters!KeysSurvive(KeyLists)

\* What a run holds is what the next one reads: every setting that is written
\* (slider and transport_gap are not), every binding, and every line that
\* parseDocument kept, in its section and in its order (serialize, config.cpp:413).
\* The options of this run are no settings of the file. It speaks of what is held,
\* not of what the file once said, which is SectionsStay, and not of kept lines
\* without a header: serialize puts them below the last one, where they may become
\* settings, against its comment (config.cpp:473).
SurvivesIn(document) ==
  LET next     == Read(document)
      sections == {config.preserved[i].section : i \in DOMAIN config.preserved}
  IN  <<>> \notin sections =>
        /\ \A n \in WrittenNames \ DOMAIN launch.flags : next.config[n] = config.config[n]
        /\ next.bindings = config.bindings
        /\ \A s \in sections : LinesOf(next.preserved, s) = LinesOf(config.preserved, s)

ConfigSurvives == running /\ sync = "agrees" => SurvivesIn(disk[path])

\* The same, whatever characters the texts among it have.
SettingsSurvive == ValuesSurvive /\ ConfigSurvives

\* Neither a setting, nor a former one, nor a binding.
SomebodyElses(line) == ~IsBinding(line) /\ Alias(line.section, line.key) \notin Known

LinesOfOthers(document, section) ==
  SelectSeq(document.lines, LAMBDA l : l.section = section /\ SomebodyElses(l))

\* A section below one of termusic's own, such as [mpd.extra].
OwnHeads == {"theme"} \cup {n[1][1] : n \in {m \in Known : m[1] # <<>>}}
BelowOwn(section) == Len(section) > 1 /\ section[1] \in OwnHeads

Stays(old, new, section) == LinesOfOthers(new, section) = LinesOfOthers(old, section)

\* From file to file: whatever a run, a refused save or a crash does to a file
\* that it could read, each section keeps the lines of somebody else that it had,
\* as they were and in their order (config.cpp:269, config.hpp:110). In two cases
\* the code breaks its word, and they are left out: a section below one of
\* termusic's own, where keyIsKnown takes foreign keys for known ones, and a file
\* with lines of somebody else above its first header, which move below the last.
SectionsStay ==
  [][\A p \in Place : disk'[p] # disk[p] /\ sync # "blind" =>
       \/ LinesOfOthers(disk[p], <<>>) # <<>>
       \/ \A i \in DOMAIN disk[p].lines :
            LET section == disk[p].lines[i].section
            IN  ~BelowOwn(section) => Stays(disk[p], disk'[p], section)]_vars

Stored(document) == DraftsOf(Read(document).config)

\* The host, the port and the password of a connection.
Told(to) == [n \in Drafts |-> IF n = Host THEN to.host ELSE IF n = Port THEN to.port ELSE to.password]

\* A host, port or password only enters the file by Save and reconnect: no other
\* edit freezes what the command line or the environment said (main.cpp:253),
\* nor a draft that was typed and left (general.cpp:29).
EndpointIsConfirmed ==
  [][disk' # disk /\ sync # "blind" /\ path # Nowhere /\ Stored(disk'[path]) # Stored(disk[path])
      => /\ connection'.source = "Core > General"
         /\ Stored(disk'[path]) = Told(connection')]_vars

\* The file and the live connection agree (controller.cpp:746): without options
\* and variables the next launch connects to where this run is connected.
NextLaunchConnects ==
  running /\ sync = "agrees" /\ launch.cli = NoOptions /\ launch.env = NoOptions =>
    LET next == Resolve(Read(disk[path]).config, NoOptions, NoOptions)
    IN  \A k \in {"host", "port", "password", "timeout"} : next[k] = connection[k]
=============================================================================
