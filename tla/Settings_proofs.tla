--------------------------- MODULE Settings_proofs ---------------------------
(* Proofs about Settings and ConfigFile. A document that is written is read as *)
(* what was held: RoundTrip, from lemmas that read it line by line. With it the *)
(* invariant Inv is inductive, and says of the file, the connection and the    *)
(* panes what the properties of the run say.                                   *)
EXTENDS Settings, Lists_proofs, FiniteSetTheorems

-----------------------------------------------------------------------------
(* The table of the settings.                                                *)

\* A setting starts with a legal value; that of a number is in its range.
Sound(row)  == row.default \in row.legal
Ranged(row) == row.legal = row.low..row.high /\ row.low \in Int /\ row.high \in Int /\ row.low <= row.high

\* What a row says, by its kind.
LEMMA NumberIs ==
  ASSUME NEW section, NEW key, NEW low, NEW high, NEW default,
         low \in Int, high \in Int, default \in Int, low <= default, default <= high
  PROVE  /\ Number(section, key, low, high, default).name = <<section, key>>
         /\ Ranged(Number(section, key, low, high, default))
         /\ Sound(Number(section, key, low, high, default))
  BY DEF Number, Setting, Ranged, Sound

\* The version of the schema is a number that stands before the first header.
LEMMA VersionIs ==
  ASSUME NEW key, NEW low, NEW high, NEW default,
         low \in Int, high \in Int, default \in Int, low <= default, default <= high
  PROVE  /\ Version(key, low, high, default).name = <<<<>>, key>>
         /\ Ranged(Version(key, low, high, default))
         /\ Sound(Version(key, low, high, default))
  BY DEF Version, Setting, Ranged, Sound

\* A choice is one of some texts; one that starts with one of them is sound.
LEMMA ChoiceIs ==
  ASSUME NEW section, NEW key, NEW legal, NEW default, NEW bad, default \in legal
  PROVE  /\ Choice(section, key, legal, default, bad).name = <<section, key>>
         /\ Choice(section, key, legal, default, bad).legal = legal
         /\ Sound(Choice(section, key, legal, default, bad))
  BY DEF Choice, Setting, Sound

\* A switch is a choice of two.
LEMMA BoolIs ==
  ASSUME NEW section, NEW key, NEW default, default \in {"true", "false"}
  PROVE  /\ Bool(section, key, default).name = <<section, key>>
         /\ Bool(section, key, default).legal = {"true", "false"}
         /\ Sound(Bool(section, key, default))
  BY ChoiceIs DEF Bool

\* A text may be any.
LEMMA TextIs ==
  ASSUME NEW section, NEW key, NEW default, default \in STRING
  PROVE  /\ Text(section, key, default).name = <<section, key>>
         /\ Text(section, key, default).legal = STRING
         /\ Sound(Text(section, key, default))
  BY ChoiceIs DEF Text

\* The rows of the settings that are written.
LEMMA WrittenRows ==
  /\ Written \in Seq(ToSet(Written)) /\ Len(Written) = 24
  /\ Written[1] = Version("schema_version", 1, 1000, 1)
  /\ Written[2] = Choice(General, "start_page", {"library", "core"}, "library", "keep")
  /\ Written[3] = Bool(General, "stop_on_exit", "true")
  /\ Written[4] = Number(General, "seek_step", 1, 60, 5)
  /\ Written[5] = Number(General, "volume_step", 1, 25, 5)
  /\ Written[6] = Text(<<"library">>, "path", NoText)
  /\ Written[7] = Text(Mpd, "host", "127.0.0.1")
  /\ Written[8] = Number(Mpd, "port", 0, LastPort, 6600)
  /\ Written[9] = Text(Mpd, "password", NoText)
  /\ Written[10] = Number(Mpd, "timeout_ms", 100, 60000, 2000)
  /\ Written[11] = Bool(Mpd, "auto_reconnect", "true")
  /\ Written[12] = Text(Looks, "theme", "default")
  /\ Written[13] = Text(Looks, "theme_directory", NoText)
  /\ Written[14] = Choice(Looks, "icons", {"nerd", "unicode"}, "nerd", "keep")
  /\ Written[15] = Choice(Looks, "display", {"spectrum", "disc"}, "spectrum", "keep")
  /\ Written[16] = Choice(Bars, "palette", {"theme", "ice", "fire", "rainbow"}, "theme", "default")
  /\ Written[17] = Number(Bars, "refresh_hz", 5, 60, 60)
  /\ Written[18] = Number(Bars, "sensitivity", 1, 50, 10)
  /\ Written[19] = Number(Bars, "bar_density", 32, 96, 64)
  /\ Written[20] = Text(Bars, "fifo_path", "/tmp/mpd.fifo")
  /\ Written[21] = Number(Bars, "sample_rate", 8000, 192000, 44100)
  /\ Written[22] = Number(Bars, "channels", 1, 8, 2)
  /\ Written[23] = Bool(Past, "enabled", "true")
  /\ Written[24] = Number(Past, "max_entries", 1, 10000, 100)
<1>1. Written \in Seq(ToSet(Written)) /\ Len(Written) = 24
  BY DEF Written, ToSet
<1>2. /\ Written[1] = Version("schema_version", 1, 1000, 1)
      /\ Written[2] = Choice(General, "start_page", {"library", "core"}, "library", "keep")
      /\ Written[3] = Bool(General, "stop_on_exit", "true")
      /\ Written[4] = Number(General, "seek_step", 1, 60, 5)
      /\ Written[5] = Number(General, "volume_step", 1, 25, 5)
      /\ Written[6] = Text(<<"library">>, "path", NoText)
  BY DEF Written
<1>3. /\ Written[7] = Text(Mpd, "host", "127.0.0.1")
      /\ Written[8] = Number(Mpd, "port", 0, LastPort, 6600)
      /\ Written[9] = Text(Mpd, "password", NoText)
      /\ Written[10] = Number(Mpd, "timeout_ms", 100, 60000, 2000)
      /\ Written[11] = Bool(Mpd, "auto_reconnect", "true")
  BY DEF Written
<1>4. /\ Written[12] = Text(Looks, "theme", "default")
      /\ Written[13] = Text(Looks, "theme_directory", NoText)
      /\ Written[14] = Choice(Looks, "icons", {"nerd", "unicode"}, "nerd", "keep")
      /\ Written[15] = Choice(Looks, "display", {"spectrum", "disc"}, "spectrum", "keep")
  BY DEF Written
<1>5. /\ Written[16] = Choice(Bars, "palette", {"theme", "ice", "fire", "rainbow"}, "theme", "default")
      /\ Written[17] = Number(Bars, "refresh_hz", 5, 60, 60)
      /\ Written[18] = Number(Bars, "sensitivity", 1, 50, 10)
      /\ Written[19] = Number(Bars, "bar_density", 32, 96, 64)
  BY DEF Written
<1>6. /\ Written[20] = Text(Bars, "fifo_path", "/tmp/mpd.fifo")
      /\ Written[21] = Number(Bars, "sample_rate", 8000, 192000, 44100)
      /\ Written[22] = Number(Bars, "channels", 1, 8, 2)
      /\ Written[23] = Bool(Past, "enabled", "true")
      /\ Written[24] = Number(Past, "max_entries", 1, 10000, 100)
  BY DEF Written
<1> QED BY <1>1, <1>2, <1>3, <1>4, <1>5, <1>6

\* How many settings are written.
LEMMA WrittenPlaces == DOMAIN Written = 1..24
  BY WrittenRows

\* What the rows say, by their place in the table.
LEMMA WrittenSays ==
  /\ Written[1].name = <<<<>>, "schema_version">> /\ Ranged(Written[1])
  /\ Written[2].name = <<General, "start_page">> /\ Written[2].legal = {"library", "core"}
  /\ Written[3].name = <<General, "stop_on_exit">> /\ Written[3].legal = {"true", "false"}
  /\ Written[4].name = <<General, "seek_step">> /\ Ranged(Written[4])
  /\ Written[5].name = <<General, "volume_step">> /\ Ranged(Written[5])
  /\ Written[6].name = <<<<"library">>, "path">> /\ Written[6].legal = STRING
  /\ Written[7].name = <<Mpd, "host">> /\ Written[7].legal = STRING
  /\ Written[8].name = <<Mpd, "port">> /\ Ranged(Written[8])
  /\ Written[9].name = <<Mpd, "password">> /\ Written[9].legal = STRING
  /\ Written[10].name = <<Mpd, "timeout_ms">> /\ Ranged(Written[10])
  /\ Written[11].name = <<Mpd, "auto_reconnect">> /\ Written[11].legal = {"true", "false"}
  /\ Written[12].name = <<Looks, "theme">> /\ Written[12].legal = STRING
  /\ Written[13].name = <<Looks, "theme_directory">> /\ Written[13].legal = STRING
  /\ Written[14].name = <<Looks, "icons">> /\ Written[14].legal = {"nerd", "unicode"}
  /\ Written[15].name = <<Looks, "display">> /\ Written[15].legal = {"spectrum", "disc"}
  /\ Written[16].name = <<Bars, "palette">> /\ Written[16].legal = {"theme", "ice", "fire", "rainbow"}
  /\ Written[17].name = <<Bars, "refresh_hz">> /\ Ranged(Written[17])
  /\ Written[18].name = <<Bars, "sensitivity">> /\ Ranged(Written[18])
  /\ Written[19].name = <<Bars, "bar_density">> /\ Ranged(Written[19])
  /\ Written[20].name = <<Bars, "fifo_path">> /\ Written[20].legal = STRING
  /\ Written[21].name = <<Bars, "sample_rate">> /\ Ranged(Written[21])
  /\ Written[22].name = <<Bars, "channels">> /\ Ranged(Written[22])
  /\ Written[23].name = <<Past, "enabled">> /\ Written[23].legal = {"true", "false"}
  /\ Written[24].name = <<Past, "max_entries">> /\ Ranged(Written[24])
  /\ \A i \in 1..24 : Sound(Written[i])
<1>1. /\ Written[1].name = <<<<>>, "schema_version">> /\ Ranged(Written[1])
      /\ Written[2].name = <<General, "start_page">> /\ Written[2].legal = {"library", "core"}
      /\ Written[3].name = <<General, "stop_on_exit">> /\ Written[3].legal = {"true", "false"}
      /\ Written[4].name = <<General, "seek_step">> /\ Ranged(Written[4])
      /\ Written[5].name = <<General, "volume_step">> /\ Ranged(Written[5])
      /\ Written[6].name = <<<<"library">>, "path">> /\ Written[6].legal = STRING
      /\ Sound(Written[1])
      /\ Sound(Written[2])
      /\ Sound(Written[3])
      /\ Sound(Written[4])
      /\ Sound(Written[5])
      /\ Sound(Written[6])
  <2>1. Written[1] = Version("schema_version", 1, 1000, 1)
    BY WrittenRows
  <2>2. Written[2] = Choice(General, "start_page", {"library", "core"}, "library", "keep")
    BY WrittenRows
  <2>3. Written[3] = Bool(General, "stop_on_exit", "true")
    BY WrittenRows
  <2>4. Written[4] = Number(General, "seek_step", 1, 60, 5)
    BY WrittenRows
  <2>5. Written[5] = Number(General, "volume_step", 1, 25, 5)
    BY WrittenRows
  <2>6. Written[6] = Text(<<"library">>, "path", NoText)
    BY WrittenRows
  <2>7. Written[1].name = <<<<>>, "schema_version">> /\ Ranged(Written[1]) /\ Sound(Written[1])
    BY <2>1, VersionIs
  <2>8. Written[2].name = <<General, "start_page">> /\ Written[2].legal = {"library", "core"} /\ Sound(Written[2])
    BY <2>2, ChoiceIs
  <2>9. Written[3].name = <<General, "stop_on_exit">> /\ Written[3].legal = {"true", "false"} /\ Sound(Written[3])
    BY <2>3, BoolIs
  <2>10. Written[4].name = <<General, "seek_step">> /\ Ranged(Written[4]) /\ Sound(Written[4])
    BY <2>4, NumberIs
  <2>11. Written[5].name = <<General, "volume_step">> /\ Ranged(Written[5]) /\ Sound(Written[5])
    BY <2>5, NumberIs
  <2>12. Written[6].name = <<<<"library">>, "path">> /\ Written[6].legal = STRING /\ Sound(Written[6])
    BY <2>6, TextIs, TextAssumption
  <2> QED BY <2>7, <2>8, <2>9, <2>10, <2>11, <2>12
<1>2. /\ Written[7].name = <<Mpd, "host">> /\ Written[7].legal = STRING
      /\ Written[8].name = <<Mpd, "port">> /\ Ranged(Written[8])
      /\ Written[9].name = <<Mpd, "password">> /\ Written[9].legal = STRING
      /\ Written[10].name = <<Mpd, "timeout_ms">> /\ Ranged(Written[10])
      /\ Written[11].name = <<Mpd, "auto_reconnect">> /\ Written[11].legal = {"true", "false"}
      /\ Sound(Written[7])
      /\ Sound(Written[8])
      /\ Sound(Written[9])
      /\ Sound(Written[10])
      /\ Sound(Written[11])
  <2>1. Written[7] = Text(Mpd, "host", "127.0.0.1")
    BY WrittenRows
  <2>2. Written[8] = Number(Mpd, "port", 0, LastPort, 6600)
    BY WrittenRows
  <2>3. Written[9] = Text(Mpd, "password", NoText)
    BY WrittenRows
  <2>4. Written[10] = Number(Mpd, "timeout_ms", 100, 60000, 2000)
    BY WrittenRows
  <2>5. Written[11] = Bool(Mpd, "auto_reconnect", "true")
    BY WrittenRows
  <2>6. Written[7].name = <<Mpd, "host">> /\ Written[7].legal = STRING /\ Sound(Written[7])
    BY <2>1, TextIs, TextAssumption
  <2>7. Written[8].name = <<Mpd, "port">> /\ Ranged(Written[8]) /\ Sound(Written[8])
    BY <2>2, NumberIs DEF LastPort
  <2>8. Written[9].name = <<Mpd, "password">> /\ Written[9].legal = STRING /\ Sound(Written[9])
    BY <2>3, TextIs, TextAssumption
  <2>9. Written[10].name = <<Mpd, "timeout_ms">> /\ Ranged(Written[10]) /\ Sound(Written[10])
    BY <2>4, NumberIs
  <2>10. Written[11].name = <<Mpd, "auto_reconnect">> /\ Written[11].legal = {"true", "false"} /\ Sound(Written[11])
    BY <2>5, BoolIs
  <2> QED BY <2>6, <2>7, <2>8, <2>9, <2>10
<1>3. /\ Written[12].name = <<Looks, "theme">> /\ Written[12].legal = STRING
      /\ Written[13].name = <<Looks, "theme_directory">> /\ Written[13].legal = STRING
      /\ Written[14].name = <<Looks, "icons">> /\ Written[14].legal = {"nerd", "unicode"}
      /\ Written[15].name = <<Looks, "display">> /\ Written[15].legal = {"spectrum", "disc"}
      /\ Sound(Written[12])
      /\ Sound(Written[13])
      /\ Sound(Written[14])
      /\ Sound(Written[15])
  <2>1. Written[12] = Text(Looks, "theme", "default")
    BY WrittenRows
  <2>2. Written[13] = Text(Looks, "theme_directory", NoText)
    BY WrittenRows
  <2>3. Written[14] = Choice(Looks, "icons", {"nerd", "unicode"}, "nerd", "keep")
    BY WrittenRows
  <2>4. Written[15] = Choice(Looks, "display", {"spectrum", "disc"}, "spectrum", "keep")
    BY WrittenRows
  <2>5. Written[12].name = <<Looks, "theme">> /\ Written[12].legal = STRING /\ Sound(Written[12])
    BY <2>1, TextIs, TextAssumption
  <2>6. Written[13].name = <<Looks, "theme_directory">> /\ Written[13].legal = STRING /\ Sound(Written[13])
    BY <2>2, TextIs, TextAssumption
  <2>7. Written[14].name = <<Looks, "icons">> /\ Written[14].legal = {"nerd", "unicode"} /\ Sound(Written[14])
    BY <2>3, ChoiceIs
  <2>8. Written[15].name = <<Looks, "display">> /\ Written[15].legal = {"spectrum", "disc"} /\ Sound(Written[15])
    BY <2>4, ChoiceIs
  <2> QED BY <2>5, <2>6, <2>7, <2>8
<1>4. /\ Written[16].name = <<Bars, "palette">> /\ Written[16].legal = {"theme", "ice", "fire", "rainbow"}
      /\ Written[17].name = <<Bars, "refresh_hz">> /\ Ranged(Written[17])
      /\ Written[18].name = <<Bars, "sensitivity">> /\ Ranged(Written[18])
      /\ Written[19].name = <<Bars, "bar_density">> /\ Ranged(Written[19])
      /\ Sound(Written[16])
      /\ Sound(Written[17])
      /\ Sound(Written[18])
      /\ Sound(Written[19])
  <2>1. Written[16] = Choice(Bars, "palette", {"theme", "ice", "fire", "rainbow"}, "theme", "default")
    BY WrittenRows
  <2>2. Written[17] = Number(Bars, "refresh_hz", 5, 60, 60)
    BY WrittenRows
  <2>3. Written[18] = Number(Bars, "sensitivity", 1, 50, 10)
    BY WrittenRows
  <2>4. Written[19] = Number(Bars, "bar_density", 32, 96, 64)
    BY WrittenRows
  <2>5. Written[16].name = <<Bars, "palette">> /\ Written[16].legal = {"theme", "ice", "fire", "rainbow"} /\ Sound(Written[16])
    BY <2>1, ChoiceIs
  <2>6. Written[17].name = <<Bars, "refresh_hz">> /\ Ranged(Written[17]) /\ Sound(Written[17])
    BY <2>2, NumberIs
  <2>7. Written[18].name = <<Bars, "sensitivity">> /\ Ranged(Written[18]) /\ Sound(Written[18])
    BY <2>3, NumberIs
  <2>8. Written[19].name = <<Bars, "bar_density">> /\ Ranged(Written[19]) /\ Sound(Written[19])
    BY <2>4, NumberIs
  <2> QED BY <2>5, <2>6, <2>7, <2>8
<1>5. /\ Written[20].name = <<Bars, "fifo_path">> /\ Written[20].legal = STRING
      /\ Written[21].name = <<Bars, "sample_rate">> /\ Ranged(Written[21])
      /\ Written[22].name = <<Bars, "channels">> /\ Ranged(Written[22])
      /\ Written[23].name = <<Past, "enabled">> /\ Written[23].legal = {"true", "false"}
      /\ Written[24].name = <<Past, "max_entries">> /\ Ranged(Written[24])
      /\ Sound(Written[20])
      /\ Sound(Written[21])
      /\ Sound(Written[22])
      /\ Sound(Written[23])
      /\ Sound(Written[24])
  <2>1. Written[20] = Text(Bars, "fifo_path", "/tmp/mpd.fifo")
    BY WrittenRows
  <2>2. Written[21] = Number(Bars, "sample_rate", 8000, 192000, 44100)
    BY WrittenRows
  <2>3. Written[22] = Number(Bars, "channels", 1, 8, 2)
    BY WrittenRows
  <2>4. Written[23] = Bool(Past, "enabled", "true")
    BY WrittenRows
  <2>5. Written[24] = Number(Past, "max_entries", 1, 10000, 100)
    BY WrittenRows
  <2>6. Written[20].name = <<Bars, "fifo_path">> /\ Written[20].legal = STRING /\ Sound(Written[20])
    BY <2>1, TextIs, TextAssumption
  <2>7. Written[21].name = <<Bars, "sample_rate">> /\ Ranged(Written[21]) /\ Sound(Written[21])
    BY <2>2, NumberIs
  <2>8. Written[22].name = <<Bars, "channels">> /\ Ranged(Written[22]) /\ Sound(Written[22])
    BY <2>3, NumberIs
  <2>9. Written[23].name = <<Past, "enabled">> /\ Written[23].legal = {"true", "false"} /\ Sound(Written[23])
    BY <2>4, BoolIs
  <2>10. Written[24].name = <<Past, "max_entries">> /\ Ranged(Written[24]) /\ Sound(Written[24])
    BY <2>5, NumberIs
  <2> QED BY <2>6, <2>7, <2>8, <2>9, <2>10
<1>6. \A i \in 1..24 : Sound(Written[i])
  <2>1. \A i \in 1..6 : Sound(Written[i])
    BY <1>1
  <2>2. \A i \in 7..15 : Sound(Written[i])
    BY <1>2, <1>3
  <2>3. \A i \in 16..24 : Sound(Written[i])
    BY <1>4, <1>5
  <2> QED BY <2>1, <2>2, <2>3
<1> QED BY <1>1, <1>2, <1>3, <1>4, <1>5, <1>6

\* The places of two tables that are joined.
LEMMA JoinedAt ==
  ASSUME NEW S, NEW s \in Seq(S), NEW t \in Seq(S)
  PROVE  /\ s \o t \in Seq(S) /\ Len(s \o t) = Len(s) + Len(t) /\ s \o t \in Seq(ToSet(s \o t))
         /\ \A i \in 1..Len(s) : (s \o t)[i] = s[i]
         /\ \A i \in Len(s) + 1..Len(s) + Len(t) : (s \o t)[i] = t[i - Len(s)]
<1> DEFINE u == s \o t
<1>1. u \in Seq(S) /\ Len(u) = Len(s) + Len(t)
  BY ConcatProperties
<1>2. \A i \in 1..Len(s) : u[i] = s[i]
  BY ConcatProperties
<1>3. \A i \in Len(s) + 1..Len(s) + Len(t) : u[i] = t[i - Len(s)]
  BY ConcatProperties
<1> HIDE DEF u
<1>4. u \in Seq(ToSet(u))
  BY <1>1 DEF ToSet
<1>5. /\ u \in Seq(S) /\ Len(u) = Len(s) + Len(t) /\ u \in Seq(ToSet(u))
      /\ \A i \in 1..Len(s) : u[i] = s[i]
      /\ \A i \in Len(s) + 1..Len(s) + Len(t) : u[i] = t[i - Len(s)]
  BY <1>1, <1>2, <1>3, <1>4
<1> QED BY <1>5 DEF u

\* The table with the two settings that are only read.
LEMMA TableRows ==
  /\ Table \in Seq(ToSet(Table)) /\ Len(Table) = 26 /\ DOMAIN Table = 1..26
  /\ \A i \in 1..24 : Table[i] = Written[i]
  /\ Table[25].name = <<Looks, "slider">> /\ Table[26].name = <<Looks, "transport_gap">>
  /\ Sound(Table[25]) /\ Sound(Table[26])
<1>1. /\ Unwritten \in Seq(ToSet(Unwritten)) /\ Len(Unwritten) = 2
      /\ Unwritten[1] = Text(Looks, "slider", "wave")
      /\ Unwritten[2] = Number(Looks, "transport_gap", 0, 4, 2)
  BY DEF Unwritten, ToSet
<1>2. Written \in Seq(ToSet(Written)) /\ Len(Written) = 24
  BY WrittenRows
<1> DEFINE S == ToSet(Written) \cup ToSet(Unwritten)
<1>3. Written \in Seq(S) /\ Unwritten \in Seq(S) /\ Len(Written) = 24 /\ Len(Unwritten) = 2
  BY <1>1, <1>2
<1> HIDE DEF S
<1>4. /\ Table \in Seq(ToSet(Table)) /\ Len(Table) = 26
      /\ \A i \in 1..24 : Table[i] = Written[i]
      /\ \A i \in 25..26 : Table[i] = Unwritten[i - 24]
  <2>1. /\ Table \in Seq(ToSet(Table)) /\ Len(Table) = Len(Written) + Len(Unwritten)
        /\ \A i \in 1..Len(Written) : Table[i] = Written[i]
        /\ \A i \in Len(Written) + 1..Len(Written) + Len(Unwritten) :
             Table[i] = Unwritten[i - Len(Written)]
    <3> DEFINE s == Written  t == Unwritten  u == s \o t
    <3>1. s \in Seq(S) /\ t \in Seq(S) /\ Table = u
      BY <1>3 DEF Table
    <3> HIDE DEF s, t
    <3>2. /\ u \in Seq(ToSet(u)) /\ Len(u) = Len(s) + Len(t)
          /\ \A i \in 1..Len(s) : u[i] = s[i]
          /\ \A i \in Len(s) + 1..Len(s) + Len(t) : u[i] = t[i - Len(s)]
      BY <3>1, JoinedAt
    <3> HIDE DEF u
    <3> QED BY <3>1, <3>2 DEF s, t
  <2> QED BY <1>3, <2>1
<1>5. Table[25] = Unwritten[1] /\ Table[26] = Unwritten[2]
  BY <1>4
<1>6. Unwritten[1].name = <<Looks, "slider">> /\ Sound(Unwritten[1])
  BY <1>1, TextIs, TextAssumption
<1>7. Unwritten[2].name = <<Looks, "transport_gap">> /\ Sound(Unwritten[2])
  BY <1>1, NumberIs
<1>8. DOMAIN Table = 1..26
  BY <1>4
<1> QED BY <1>4, <1>5, <1>6, <1>7, <1>8

\* The table starts with the settings that are written,
LEMMA TableStarts == \A i \in 1..24 : Table[i] = Written[i]
  BY TableRows

\* has two more,
LEMMA TablePlaces == DOMAIN Table = 1..26
  BY TableRows

\* whose keys are these.
LEMMA TableEnds ==
  ASSUME NEW i \in {25, 26} PROVE Table[i].name[2] \in {"slider", "transport_gap"}
<1>1. Table[25].name[2] = "slider"
  BY TableRows
<1>2. Table[26].name[2] = "transport_gap"
  BY TableRows
<1> QED BY <1>1, <1>2

\* Every setting starts with a legal value.
LEMMA TableSound == \A i \in 1..26 : Sound(Table[i])
<1>1. \A i \in 1..24 : Sound(Table[i])
  BY TableRows, WrittenSays
<1>2. Sound(Table[25]) /\ Sound(Table[26])
  BY TableRows
<1> QED BY <1>1, <1>2

\* No two settings have one key.
LEMMA WrittenKeys ==
  /\ Written[1].name[2] = "schema_version" /\ Written[2].name[2] = "start_page" /\ Written[3].name[2] = "stop_on_exit"
  /\ Written[4].name[2] = "seek_step" /\ Written[5].name[2] = "volume_step" /\ Written[6].name[2] = "path"
  /\ Written[7].name[2] = "host" /\ Written[8].name[2] = "port" /\ Written[9].name[2] = "password"
  /\ Written[10].name[2] = "timeout_ms" /\ Written[11].name[2] = "auto_reconnect" /\ Written[12].name[2] = "theme"
  /\ Written[13].name[2] = "theme_directory" /\ Written[14].name[2] = "icons" /\ Written[15].name[2] = "display"
  /\ Written[16].name[2] = "palette" /\ Written[17].name[2] = "refresh_hz" /\ Written[18].name[2] = "sensitivity"
  /\ Written[19].name[2] = "bar_density" /\ Written[20].name[2] = "fifo_path" /\ Written[21].name[2] = "sample_rate"
  /\ Written[22].name[2] = "channels" /\ Written[23].name[2] = "enabled" /\ Written[24].name[2] = "max_entries"
  BY WrittenSays

\* The key of a setting that is written tells its row,
LEMMA KeysDiffer ==
  ASSUME NEW i \in 1..24, NEW j \in 1..24, Written[i].name[2] = Written[j].name[2] PROVE i = j
<1> DEFINE Nth(k) ==
             IF k = "schema_version" THEN 1 ELSE IF k = "start_page" THEN 2 ELSE
             IF k = "stop_on_exit" THEN 3 ELSE IF k = "seek_step" THEN 4 ELSE
             IF k = "volume_step" THEN 5 ELSE IF k = "path" THEN 6 ELSE
             IF k = "host" THEN 7 ELSE IF k = "port" THEN 8 ELSE
             IF k = "password" THEN 9 ELSE IF k = "timeout_ms" THEN 10 ELSE
             IF k = "auto_reconnect" THEN 11 ELSE IF k = "theme" THEN 12 ELSE
             IF k = "theme_directory" THEN 13 ELSE IF k = "icons" THEN 14 ELSE
             IF k = "display" THEN 15 ELSE IF k = "palette" THEN 16 ELSE
             IF k = "refresh_hz" THEN 17 ELSE IF k = "sensitivity" THEN 18 ELSE
             IF k = "bar_density" THEN 19 ELSE IF k = "fifo_path" THEN 20 ELSE
             IF k = "sample_rate" THEN 21 ELSE IF k = "channels" THEN 22 ELSE
             IF k = "enabled" THEN 23 ELSE IF k = "max_entries" THEN 24 ELSE 25
<1>1. \A k \in 1..8 : Nth(Written[k].name[2]) = k
  BY WrittenKeys
<1>2. \A k \in 9..16 : Nth(Written[k].name[2]) = k
  BY WrittenKeys
<1>3. \A k \in 17..24 : Nth(Written[k].name[2]) = k
  BY WrittenKeys
<1> HIDE DEF Nth
<1>4. Nth(Written[i].name[2]) = i /\ Nth(Written[j].name[2]) = j
  BY <1>1, <1>2, <1>3
<1> QED BY <1>4

\* and is not that of one that is only read.
LEMMA KeysAreOthers ==
  ASSUME NEW i \in 1..24 PROVE Written[i].name[2] \notin {"slider", "transport_gap"}
  BY WrittenKeys

\* Where a name is found.
LEMMA RowIs ==
  ASSUME NEW n \in Names
  PROVE  Row[n] \in 1..26 /\ Table[Row[n]].name = n /\ Table[Row[n]] \in ToSet(Table)
<1>1. PICK i \in DOMAIN Table : Table[i].name = n
  BY DEF Names
<1>2. Row[n] = CHOOSE j \in DOMAIN Table : Table[j].name = n
  BY DEF Row
<1>3. Row[n] \in DOMAIN Table /\ Table[Row[n]].name = n
  BY <1>1, <1>2
<1>4. DOMAIN Table = 1..26
  BY TablePlaces
<1> QED BY <1>3, <1>4 DEF ToSet

\* A setting that is written has a row, with its legal values.
Found(i) ==
  /\ Written[i].name \in Names /\ Legal[Written[i].name] = Written[i].legal
  /\ Row[Written[i].name] = i /\ Table[i] = Written[i]

\* Every setting that is written has its row.
LEMMA RowAt == ASSUME NEW i \in 1..24 PROVE Found(i)
<1>1. Table[i] = Written[i] /\ i \in DOMAIN Table
  BY TableStarts, TablePlaces
<1>2. Written[i].name \in Names
  BY <1>1 DEF Names
<1> DEFINE j == Row[Written[i].name]
<1>3. j \in 1..26 /\ Table[j].name = Written[i].name
  BY <1>2, RowIs
<1> HIDE DEF j
<1>4. CASE j \in 1..24
  <2>1. Table[j] = Written[j]
    BY <1>4, TableStarts
  <2>2. Written[j].name[2] = Written[i].name[2]
    BY <1>3, <2>1, Zenon
  <2>3. j = i
    BY <1>4, <2>2, KeysDiffer
  <2> QED BY <1>1, <1>2, <2>3 DEF Legal, Found, j
<1>5. CASE j \in {25, 26}
  <2>1. Table[j].name[2] \in {"slider", "transport_gap"}
    BY <1>5, TableEnds
  <2> QED BY <1>3, <2>1, KeysAreOthers
<1>6. j \in 1..24 \/ j \in {25, 26}
  BY <1>3
<1> QED BY <1>4, <1>5, <1>6

\* The configuration that is built in is legal.
LEMMA DefaultsAreLegal ==
  /\ Defaults = [n \in Names |-> Defaults[n]]
  /\ \A n \in Names : Defaults[n] \in Legal[n]
<1>1. ASSUME NEW n \in Names PROVE Defaults[n] \in Legal[n]
  <2>1. Sound(Table[Row[n]])
    BY RowIs, TableSound
  <2> QED BY <2>1 DEF Sound, Defaults, Legal
<1>2. Defaults = [n \in Names |-> Defaults[n]]
  BY DEF Defaults
<1> QED BY <1>1, <1>2

\* A number that is clamped is legal.
LEMMA ClampIsLegal ==
  ASSUME NEW n \in Names, Ranged(Table[Row[n]]), NEW v \in Int
  PROVE  Clamp(n, v) \in Legal[n]
  BY DEF Ranged, Clamp, Legal

\* The settings that the panes show, and their legal values.
LEMMA PaneNames ==
  /\ <<General, "start_page">> \in Names /\ Legal[<<General, "start_page">>] = {"library", "core"}
  /\ <<General, "stop_on_exit">> \in Names /\ Legal[<<General, "stop_on_exit">>] = {"true", "false"}
  /\ <<General, "seek_step">> \in Names /\ Ranged(Table[Row[<<General, "seek_step">>]])
  /\ <<General, "volume_step">> \in Names /\ Ranged(Table[Row[<<General, "volume_step">>]])
  /\ <<Mpd, "host">> \in Names /\ Legal[<<Mpd, "host">>] = STRING
  /\ <<Mpd, "port">> \in Names /\ Ranged(Table[Row[<<Mpd, "port">>]])
  /\ <<Mpd, "password">> \in Names /\ Legal[<<Mpd, "password">>] = STRING
  /\ <<Mpd, "timeout_ms">> \in Names /\ Ranged(Table[Row[<<Mpd, "timeout_ms">>]])
  /\ <<Mpd, "auto_reconnect">> \in Names /\ Legal[<<Mpd, "auto_reconnect">>] = {"true", "false"}
  /\ <<Looks, "theme">> \in Names /\ Legal[<<Looks, "theme">>] = STRING
  /\ <<Looks, "display">> \in Names /\ Legal[<<Looks, "display">>] = {"spectrum", "disc"}
  /\ <<Bars, "palette">> \in Names /\ Legal[<<Bars, "palette">>] = {"theme", "ice", "fire", "rainbow"}
  /\ <<Bars, "refresh_hz">> \in Names /\ Ranged(Table[Row[<<Bars, "refresh_hz">>]])
  /\ <<Bars, "sensitivity">> \in Names /\ Ranged(Table[Row[<<Bars, "sensitivity">>]])
  /\ <<Bars, "bar_density">> \in Names /\ Ranged(Table[Row[<<Bars, "bar_density">>]])
<1>1. Found(2) /\ Found(3) /\ Found(4) /\ Found(5)
  BY RowAt
<1>2. Found(7) /\ Found(8) /\ Found(9) /\ Found(10) /\ Found(11)
  BY RowAt
<1>3. Found(12) /\ Found(15) /\ Found(16) /\ Found(17) /\ Found(18) /\ Found(19)
  BY RowAt
<1>4. /\ <<General, "start_page">> \in Names /\ Legal[<<General, "start_page">>] = {"library", "core"}
      /\ <<General, "stop_on_exit">> \in Names /\ Legal[<<General, "stop_on_exit">>] = {"true", "false"}
  BY <1>1, WrittenSays DEF Found
<1>5. /\ <<General, "seek_step">> \in Names /\ Ranged(Table[Row[<<General, "seek_step">>]])
      /\ <<General, "volume_step">> \in Names /\ Ranged(Table[Row[<<General, "volume_step">>]])
  BY <1>1, WrittenSays DEF Found
<1>6. /\ <<Mpd, "host">> \in Names /\ Legal[<<Mpd, "host">>] = STRING
      /\ <<Mpd, "port">> \in Names /\ Ranged(Table[Row[<<Mpd, "port">>]])
  BY <1>2, WrittenSays DEF Found
<1>7. /\ <<Mpd, "password">> \in Names /\ Legal[<<Mpd, "password">>] = STRING
      /\ <<Mpd, "timeout_ms">> \in Names /\ Ranged(Table[Row[<<Mpd, "timeout_ms">>]])
      /\ <<Mpd, "auto_reconnect">> \in Names /\ Legal[<<Mpd, "auto_reconnect">>] = {"true", "false"}
  BY <1>2, WrittenSays DEF Found
<1>8. /\ <<Looks, "theme">> \in Names /\ Legal[<<Looks, "theme">>] = STRING
      /\ <<Looks, "display">> \in Names /\ Legal[<<Looks, "display">>] = {"spectrum", "disc"}
  BY <1>3, WrittenSays DEF Found
<1>9. /\ <<Bars, "palette">> \in Names /\ Legal[<<Bars, "palette">>] = {"theme", "ice", "fire", "rainbow"}
  <2>1. Found(16) /\ Written[16].name = <<Bars, "palette">>
        /\ Written[16].legal = {"theme", "ice", "fire", "rainbow"}
    BY <1>3, WrittenSays
  <2> QED BY <2>1 DEF Found
<1>10. <<Bars, "refresh_hz">> \in Names /\ Ranged(Table[Row[<<Bars, "refresh_hz">>]])
  BY <1>3, WrittenSays DEF Found
<1>11. /\ <<Bars, "sensitivity">> \in Names /\ Ranged(Table[Row[<<Bars, "sensitivity">>]])
       /\ <<Bars, "bar_density">> \in Names /\ Ranged(Table[Row[<<Bars, "bar_density">>]])
  BY <1>3, WrittenSays DEF Found
<1> QED BY <1>5, <1>6, <1>8, <1>4, <1>7, <1>9, <1>11, <1>10
-----------------------------------------------------------------------------
(* Reading a document.                                                       *)

\* Every setting has a legal value.
ConfigOk(c) == c = [n \in Names |-> c[n]] /\ \A n \in Names : c[n] \in Legal[n]

\* What a binding is for: the sections under [keybindings] and the action.
BindingsOk(bindings) ==
  /\ bindings = [b \in DOMAIN bindings |-> bindings[b]]
  /\ IsFiniteSet(DOMAIN bindings)
  /\ \A b \in DOMAIN bindings :
       /\ b = <<b[1], b[2]>> /\ IsSequence(b[1]) /\ b[1] # <<>>
       /\ bindings[b] # Garbage

\* No line that is kept says anything to termusic.
PreservedOk(preserved) ==
  /\ IsSequence(preserved)
  /\ \A i \in DOMAIN preserved :
       LineOk(preserved[i]) /\ ~KeyIsKnown(preserved[i].section, preserved[i].key)

LoadOk(load) ==
  /\ load = [config |-> load.config, bindings |-> load.bindings, preserved |-> load.preserved]
  /\ ConfigOk(load.config) /\ BindingsOk(load.bindings) /\ PreservedOk(load.preserved)

\* What a load holds.
LEMMA LoadParts ==
  ASSUME NEW load, LoadOk(load)
  PROVE  ConfigOk(load.config) /\ BindingsOk(load.bindings) /\ PreservedOk(load.preserved)
  BY Zenon DEF LoadOk

\* A sequence over a set is one over its own elements,
LEMMA OwnSeq ==
  ASSUME NEW S, NEW s \in Seq(S)
  PROVE  IsSequence(s) /\ s \in Seq(ToSet(s))
  BY DEF ToSet, IsSequence

\* and has its places from 1 on.
LEMMA SequenceIs ==
  ASSUME NEW s, IsSequence(s)
  PROVE  s \in Seq(ToSet(s)) /\ Len(s) \in Nat /\ DOMAIN s = 1..Len(s)
<1>1. DOMAIN s = 1..Len(s) /\ Len(s) \in Nat /\ s = [i \in 1..Len(s) |-> s[i]]
  BY DEF IsSequence
<1> DEFINE S == {s[i] : i \in 1..Len(s)}
<1>2. \A i \in 1..Len(s) : s[i] \in S
  OBVIOUS
<1> HIDE DEF S
<1>3. s \in Seq(S)
  BY <1>1, <1>2
<1> QED BY <1>1, <1>3 DEF S, ToSet

\* The places of a sequence to which one more is appended.
LEMMA AppendAt ==
  ASSUME NEW s, IsSequence(s), NEW x
  PROVE  /\ IsSequence(Append(s, x))
         /\ Len(Append(s, x)) = Len(s) + 1 /\ Len(s) \in Nat /\ DOMAIN s = 1..Len(s)
         /\ DOMAIN Append(s, x) = 1..Len(s) + 1
         /\ \A i \in 1..Len(s) : Append(s, x)[i] = s[i]
         /\ Append(s, x)[Len(s) + 1] = x
<1> DEFINE S == ToSet(s) \cup {x}
<1>1. s \in Seq(S) /\ x \in S
  <2>1. s \in Seq(ToSet(s)) /\ ToSet(s) \subseteq S /\ x \in S
    BY SequenceIs
  <2> HIDE DEF S
  <2> QED BY <2>1
<1> HIDE DEF S
<1> DEFINE t == Append(s, x)
<1>2. /\ t \in Seq(S) /\ Len(t) = Len(s) + 1 /\ Len(s) \in Nat /\ DOMAIN s = 1..Len(s)
      /\ DOMAIN t = 1..Len(s) + 1
      /\ \A i \in 1..Len(s) : t[i] = s[i]
      /\ t[Len(s) + 1] = x
  BY <1>1
<1> HIDE DEF t
<1>3. IsSequence(t)
  BY <1>2, OwnSeq
<1> QED BY <1>2, <1>3 DEF t

\* A load is made of three parts.
LEMMA LoadMade ==
  ASSUME NEW c, NEW b, NEW p, ConfigOk(c), BindingsOk(b), PreservedOk(p)
  PROVE  LoadOk([config |-> c, bindings |-> b, preserved |-> p])
  BY DEF LoadOk

\* What is left of a longer sequence without its first.
LEMMA TailOf ==
  ASSUME NEW S, NEW s \in Seq(S), s # <<>>, Len(s) # 1
  PROVE  Tail(s) \in Seq(S) /\ Tail(s) # <<>>
<1>1. Len(s) \in Nat /\ Len(s) # 0
  BY EmptySeq, LenProperties
<1>2. Tail(s) \in Seq(S) /\ Len(Tail(s)) = Len(s) - 1
  BY HeadTailProperties
<1>3. Len(Tail(s)) # 0
  BY <1>1, <1>2
<1> QED BY <1>2, <1>3

\* What a program without a file runs with is in order.
LEMMA BlankOk == LoadOk(Blank)
<1>1. ConfigOk(Defaults)
  BY DefaultsAreLegal DEF ConfigOk
<1>2. BindingsOk(<<>>)
  <2>1. DOMAIN <<>> = {} /\ <<>> = [b \in DOMAIN <<>> |-> <<>>[b]]
    OBVIOUS
  <2>2. IsFiniteSet({})
    BY FS_EmptySet
  <2> QED BY <2>1, <2>2 DEF BindingsOk
<1>3. PreservedOk(<<>>)
  BY DEF PreservedOk, IsSequence
<1> QED BY <1>1, <1>2, <1>3 DEF LoadOk, Blank

\* The lines that say something: a binding, a setting; and those that are kept.
Foreign(line) == ~KeyIsKnown(line.section, line.key)
Binds(line)   == ~Foreign(line) /\ IsBinding(line)
Empties(line) == Len(line.section) = 1 \/ line.value = Garbage
Sets(line)    == ~Foreign(line) /\ ~IsBinding(line) /\ Alias(line.section, line.key) \in Names

\* A line is kept, binds, sets, or changes nothing (config.cpp: ConfigStore::load).
LEMMA ReadLineIs ==
  ASSUME NEW load, NEW line
  PROVE  /\ Foreign(line) => ReadLine(load, line) = Keep(load, line)
         /\ Binds(line) /\ Empties(line) => ReadLine(load, line) = load
         /\ Binds(line) /\ ~Empties(line) =>
              ReadLine(load, line) = Bind(load, Bound(line), line.value)
         /\ Sets(line) =>
              ReadLine(load, line) = Put(load, Alias(line.section, line.key), line.value)
         /\ ~Foreign(line) /\ ~Binds(line) /\ ~Sets(line) => ReadLine(load, line) = load
  BY DEF ReadLine, Foreign, Binds, Empties, Sets

\* Whatever a line says, a setting keeps a legal value.
LEMMA AcceptedIsLegal ==
  ASSUME NEW n \in Names, NEW value, NEW current \in Legal[n]
  PROVE  Accepted(n, value, current) \in Legal[n]
  BY DefaultsAreLegal DEF Accepted

\* Whatever a line says, what has been read stays in order.
LEMMA ReadLineOk ==
  ASSUME NEW load, LoadOk(load), NEW line, LineOk(line)
  PROVE  LoadOk(ReadLine(load, line))
<1> DEFINE new == ReadLine(load, line)
<1> SUFFICES LoadOk(new)
  OBVIOUS
<1>1. /\ load = [config |-> load.config, bindings |-> load.bindings, preserved |-> load.preserved]
      /\ ConfigOk(load.config) /\ BindingsOk(load.bindings) /\ PreservedOk(load.preserved)
  BY DEF LoadOk
<1>2. CASE new = load
  BY <1>2
<1>3. CASE Foreign(line)
  <2>1. new = [load EXCEPT !.preserved = Append(@, line)]
    BY <1>3, ReadLineIs DEF Keep
  <2> DEFINE s == load.preserved  t == Append(s, line)
  <2>2. new = [config |-> load.config, bindings |-> load.bindings, preserved |-> t]
    BY <1>1, <2>1
  <2>3. IsSequence(s)
    BY <1>1 DEF PreservedOk
  <2>4. /\ IsSequence(t) /\ DOMAIN t = 1..Len(s) + 1 /\ Len(s) \in Nat /\ DOMAIN s = 1..Len(s)
        /\ \A i \in 1..Len(s) : t[i] = s[i]
        /\ t[Len(s) + 1] = line
    BY <2>3, AppendAt
  <2>5. \A i \in DOMAIN s : LineOk(s[i]) /\ ~KeyIsKnown(s[i].section, s[i].key)
    BY <1>1 DEF PreservedOk
  <2>6. ~KeyIsKnown(line.section, line.key)
    BY <1>3 DEF Foreign
  <2> HIDE DEF s, t
  <2>7. \A i \in DOMAIN t : LineOk(t[i]) /\ ~KeyIsKnown(t[i].section, t[i].key)
    BY <2>4, <2>5, <2>6
  <2>8. PreservedOk(t)
    BY <2>4, <2>7 DEF PreservedOk
  <2> HIDE DEF new
  <2> QED BY <1>1, <2>2, <2>8, LoadMade
<1>4. CASE Binds(line) /\ ~Empties(line)
  <2> DEFINE bound == Bound(line)
             bs == [b \in DOMAIN load.bindings \cup {bound} |->
                      IF b = bound THEN line.value ELSE load.bindings[b]]
  <2>1. new = [load EXCEPT !.bindings = bs]
    BY <1>4, ReadLineIs DEF Bind
  <2>2. new = [config |-> load.config, bindings |-> bs, preserved |-> load.preserved]
    BY <1>1, <2>1
  <2>3. bound = <<bound[1], bound[2]>> /\ IsSequence(bound[1]) /\ bound[1] # <<>>
    <3>1. IsSequence(line.section) /\ line.section # <<>> /\ Len(line.section) # 1
      BY <1>4 DEF LineOk, Binds, Empties, IsBinding
    <3>2. line.section \in Seq(ToSet(line.section)) /\ line.section # <<>> /\ Len(line.section) # 1
      BY <3>1, SequenceIs
    <3>3. Tail(line.section) \in Seq(ToSet(line.section)) /\ Tail(line.section) # <<>>
      BY <3>2, TailOf
    <3>4. IsSequence(Tail(line.section))
      BY <3>3, OwnSeq
    <3>5. bound = <<Tail(line.section), line.key>> /\ bound[1] = Tail(line.section)
      BY DEF Bound
    <3>6. bound = <<bound[1], bound[2]>>
      BY DEF Bound
    <3> HIDE DEF bound
    <3> QED BY <3>3, <3>4, <3>5, <3>6
  <2> HIDE DEF bound
  <2>4. DOMAIN bs = DOMAIN load.bindings \cup {bound} /\ bs = [b \in DOMAIN bs |-> bs[b]]
    OBVIOUS
  <2>5. IsFiniteSet(DOMAIN bs)
    BY <1>1, <2>4, FS_AddElement DEF BindingsOk
  <2>6. ASSUME NEW b \in DOMAIN bs
        PROVE  /\ b = <<b[1], b[2]>> /\ IsSequence(b[1]) /\ b[1] # <<>>
               /\ bs[b] # Garbage
    BY <1>1, <1>4, <2>3, <2>4 DEF BindingsOk, Empties
  <2> HIDE DEF bs, new
  <2>7. BindingsOk(bs)
    BY <2>4, <2>5, <2>6 DEF BindingsOk
  <2> QED BY <1>1, <2>2, <2>7, LoadMade
<1>5. CASE Sets(line)
  <2> DEFINE n == Alias(line.section, line.key)
             c == [load.config EXCEPT ![n] = Accepted(n, line.value, load.config[n])]
  <2>1. n \in Names
    BY <1>5 DEF Sets
  <2>2. new = [load EXCEPT !.config = c]
    BY <1>5, ReadLineIs DEF Put
  <2>3. new = [config |-> c, bindings |-> load.bindings, preserved |-> load.preserved]
    BY <1>1, <2>2
  <2> HIDE DEF n
  <2>4. Accepted(n, line.value, load.config[n]) \in Legal[n]
    BY <1>1, <2>1, AcceptedIsLegal DEF ConfigOk
  <2>5. ConfigOk(c)
    BY <1>1, <2>1, <2>4 DEF ConfigOk
  <2> HIDE DEF c, new
  <2> QED BY <1>1, <2>3, <2>5, LoadMade
<1> QED BY <1>2, <1>3, <1>4, <1>5, ReadLineIs
\* The recursive function of Read, for the first n lines.
Readings(f, lines, n) ==
  f = [i \in 0..n |-> IF i = 0 THEN Blank ELSE ReadLine(f[i - 1], lines[i])]

\* The recursive function of Read exists.
LEMMA ReadingsExist ==
  ASSUME NEW lines, NEW n \in Nat
  PROVE  \E f : Readings(f, lines, n)
<1> DEFINE T == {k \in 0..n : \E f : Readings(f, lines, k)}
<1>1. 0 \in T
  <2>1. Readings([i \in 0..0 |-> Blank], lines, 0)
    BY DEF Readings
  <2> QED BY <2>1
<1>2. ASSUME NEW k \in 1..n, k - 1 \in T PROVE k \in T
  <2>1. PICK f : Readings(f, lines, k - 1)
    BY <1>2
  <2> DEFINE g == [i \in 0..k |-> IF i < k THEN f[i] ELSE ReadLine(f[k - 1], lines[k])]
  <2>2. \A i \in 0..k - 1 : f[i] = IF i = 0 THEN Blank ELSE ReadLine(f[i - 1], lines[i])
    BY <2>1 DEF Readings
  <2>3. \A i \in 0..k : g[i] = IF i = 0 THEN Blank ELSE ReadLine(g[i - 1], lines[i])
    BY <2>2
  <2>4. Readings(g, lines, k)
    BY <2>3 DEF Readings
  <2> QED BY <2>4
<1> HIDE DEF T
<1>3. 0..n \subseteq T
  BY <1>1, <1>2, UpToInduction
<1> QED BY <1>3 DEF T

\* A document is read line by line.
LEMMA ReadSteps ==
  ASSUME NEW document, Len(document.lines) \in Nat
  PROVE  \E f : /\ f[0] = Blank
                /\ \A i \in 1..Len(document.lines) :
                     f[i] = ReadLine(f[i - 1], document.lines[i])
                /\ Read(document) = f[Len(document.lines)]
<1> DEFINE n == Len(document.lines)
           f == CHOOSE g : Readings(g, document.lines, n)
<1>1. Read(document) = f[n]
  BY DEF Read, Readings
<1>2. Readings(f, document.lines, n)
  BY ReadingsExist
<1>3. n \in Nat
  OBVIOUS
<1> HIDE DEF f, n
<1>4. f = [i \in 0..n |-> IF i = 0 THEN Blank ELSE ReadLine(f[i - 1], document.lines[i])]
  BY <1>2 DEF Readings
<1>5. f[0] = Blank /\ \A i \in 1..n : f[i] = ReadLine(f[i - 1], document.lines[i])
  <2>1. 0 \in 0..n /\ \A i \in 1..n : i \in 0..n /\ i # 0
    BY <1>3
  <2> QED BY <1>4, <2>1
<1> QED BY <1>1, <1>5 DEF n

\* What is kept of a line: the line, behind the lines that were kept before it.
LEMMA KeptBy ==
  ASSUME NEW load, LoadOk(load), NEW line
  PROVE  \/ ReadLine(load, line).preserved = load.preserved
         \/ Foreign(line) /\ ReadLine(load, line).preserved = Append(load.preserved, line)
<1>1. load = [config |-> load.config, bindings |-> load.bindings, preserved |-> load.preserved]
  BY DEF LoadOk
<1>2. CASE Foreign(line)
  <2>1. ReadLine(load, line) = [load EXCEPT !.preserved = Append(load.preserved, line)]
    BY <1>2, ReadLineIs DEF Keep
  <2> QED BY <1>1, <1>2, <2>1
<1>3. CASE Binds(line) /\ ~Empties(line)
  <2>1. ReadLine(load, line) =
          [load EXCEPT !.bindings = [b \in DOMAIN load.bindings \cup {Bound(line)} |->
             IF b = Bound(line) THEN line.value ELSE load.bindings[b]]]
    BY <1>3, ReadLineIs DEF Bind
  <2> QED BY <1>1, <2>1
<1>4. CASE Sets(line)
  <2> DEFINE n == Alias(line.section, line.key)
  <2> HIDE DEF n
  <2>1. ReadLine(load, line) =
          [load EXCEPT !.config = [load.config EXCEPT ![n] = Accepted(n, line.value, load.config[n])]]
    BY <1>4, ReadLineIs DEF Put, n
  <2> QED BY <1>1, <2>1
<1>5. CASE ReadLine(load, line) = load
  BY <1>5
<1> QED BY <1>2, <1>3, <1>4, <1>5, ReadLineIs

\* What a document is read as is in order, and what is kept of it has the lines
\* before the first header first.
LEMMA ReadOk ==
  ASSUME NEW document, DocumentOk(document)
  PROVE  LoadOk(Read(document)) /\ TopLinesFirst(Read(document).preserved)
<1> DEFINE lines == document.lines  n == Len(lines)
<1>1. n \in Nat /\ DOMAIN lines = 1..n
  BY SequenceIs DEF DocumentOk
<1>2. /\ \A i \in 1..n : LineOk(lines[i])
      /\ \A i \in 1..n : lines[i].section = <<>> => \A j \in 1..i : lines[j].section = <<>>
  BY <1>1 DEF DocumentOk, TopLinesFirst
<1>3. PICK f : /\ f[0] = Blank
               /\ \A i \in 1..n : f[i] = ReadLine(f[i - 1], lines[i])
               /\ Read(document) = f[n]
  BY <1>1, ReadSteps
<1> HIDE DEF lines, n
<1> DEFINE Good(i) ==
             /\ LoadOk(f[i]) /\ TopLinesFirst(f[i].preserved)
             /\ \A k \in DOMAIN f[i].preserved : \E j \in 1..i : f[i].preserved[k] = lines[j]
           T == {i \in 0..n : Good(i)}
<1>4. 0 \in T
  <2>1. LoadOk(f[0]) /\ f[0].preserved = <<>> /\ DOMAIN <<>> = {}
    BY <1>3, BlankOk DEF Blank
  <2>2. TopLinesFirst(f[0].preserved) /\ DOMAIN f[0].preserved = {}
    BY <2>1 DEF TopLinesFirst
  <2>3. Good(0)
    BY <2>1, <2>2
  <2> QED BY <1>1, <2>3
<1>5. ASSUME NEW i \in 1..n, i - 1 \in T PROVE i \in T
  <2> DEFINE line == lines[i]  old == f[i - 1].preserved  new == f[i].preserved
  <2>1. Good(i - 1) /\ f[i] = ReadLine(f[i - 1], line)
    BY <1>3, <1>5
  <2>2. LoadOk(f[i])
    BY <1>2, <2>1, ReadLineOk
  <2>3. /\ LoadOk(f[i - 1]) /\ TopLinesFirst(old)
        /\ \A k \in DOMAIN old : \E j \in 1..i - 1 : old[k] = lines[j]
    BY <2>1
  <2>4. i \in 1..n /\ 1..i - 1 \subseteq 1..i /\ i \in 1..i /\ i \in 0..n /\ n \in Nat
    BY <1>1
  <2>5. \/ new = old
        \/ new = Append(old, line)
    BY <2>1, <2>3, KeptBy
  <2>6. IsSequence(old)
    BY <2>3 DEF LoadOk, PreservedOk
  <2> HIDE DEF Good, line, old, new
  <2>7. CASE new = old
    <3>1. TopLinesFirst(new) /\ \A k \in DOMAIN new : \E j \in 1..i : new[k] = lines[j]
      BY <2>3, <2>4, <2>7
    <3> QED BY <2>2, <2>4, <3>1 DEF Good, new
  <2>8. CASE new = Append(old, line)
    <3> DEFINE m == Len(old)
    <3>1. /\ m \in Nat /\ DOMAIN old = 1..m /\ DOMAIN new = 1..m + 1
          /\ \A k \in 1..m : new[k] = old[k]
          /\ new[m + 1] = line
      BY <2>6, <2>8, AppendAt
    <3> HIDE DEF m
    <3>2. \A k \in DOMAIN new : \E j \in 1..i : new[k] = lines[j]
      <4>1. ASSUME NEW k \in 1..m + 1 PROVE \E j \in 1..i : new[k] = lines[j]
        <5>1. CASE k = m + 1
          BY <2>4, <3>1, <5>1 DEF line
        <5>2. CASE k # m + 1
          <6>1. k \in 1..m
            BY <3>1, <5>2
          <6>2. new[k] = old[k] /\ k \in DOMAIN old
            BY <3>1, <6>1
          <6> QED BY <2>3, <2>4, <6>2
        <5> QED BY <5>1, <5>2
      <4> QED BY <3>1, <4>1
    <3>3. ASSUME NEW k \in 1..m + 1, new[k].section = <<>>, NEW j \in 1..k
          PROVE  new[j].section = <<>>
      <4>1. CASE k \in 1..m
        <5>1. new[k] = old[k] /\ new[j] = old[j] /\ k \in DOMAIN old
          BY <3>1, <4>1
        <5> QED BY <2>3, <3>3, <5>1 DEF TopLinesFirst
      <4>2. CASE k = m + 1
        <5>1. lines[i].section = <<>>
          BY <3>1, <3>3, <4>2 DEF line
        <5>2. \A l \in 1..i : lines[l].section = <<>>
          BY <1>2, <2>4, <5>1
        <5>3. j \in DOMAIN new
          BY <3>1
        <5> QED BY <3>2, <5>2, <5>3
      <4> QED BY <3>1, <4>1, <4>2
    <3>4. TopLinesFirst(new)
      BY <3>1, <3>3 DEF TopLinesFirst
    <3> QED BY <2>2, <2>4, <3>2, <3>4 DEF Good, new
  <2> QED BY <2>5, <2>7, <2>8
<1> HIDE DEF T
<1>6. 0..n \subseteq T
  BY <1>1, <1>4, <1>5, UpToInduction
<1>7. n \in T
  BY <1>1, <1>6
<1> QED BY <1>3, <1>7 DEF T
-----------------------------------------------------------------------------
(* What is put back when a document is written.                              *)

\* The recursive function of PreservedSections, for the first n lines.
Seen(f, lines, n) ==
  f = [i \in 0..n |->
         IF i = 0 THEN <<>>
         ELSE IF lines[i].section \in ToSet(f[i - 1]) THEN f[i - 1]
         ELSE Append(f[i - 1], lines[i].section)]

\* The recursive function of PreservedSections exists.
LEMMA SeenExist ==
  ASSUME NEW lines, NEW n \in Nat
  PROVE  \E f : Seen(f, lines, n)
<1> DEFINE T == {k \in 0..n : \E f : Seen(f, lines, k)}
<1>1. 0 \in T
  <2>1. Seen([i \in 0..0 |-> <<>>], lines, 0)
    BY DEF Seen
  <2> QED BY <2>1
<1>2. ASSUME NEW k \in 1..n, k - 1 \in T PROVE k \in T
  <2>1. PICK f : Seen(f, lines, k - 1)
    BY <1>2
  <2> DEFINE g == [i \in 0..k |->
                     IF i < k THEN f[i]
                     ELSE IF lines[k].section \in ToSet(f[k - 1]) THEN f[k - 1]
                     ELSE Append(f[k - 1], lines[k].section)]
  <2>2. \A i \in 0..k - 1 :
          f[i] = IF i = 0 THEN <<>>
                 ELSE IF lines[i].section \in ToSet(f[i - 1]) THEN f[i - 1]
                 ELSE Append(f[i - 1], lines[i].section)
    BY <2>1 DEF Seen
  <2>3. \A i \in 0..k :
          g[i] = IF i = 0 THEN <<>>
                 ELSE IF lines[i].section \in ToSet(g[i - 1]) THEN g[i - 1]
                 ELSE Append(g[i - 1], lines[i].section)
    BY <2>2
  <2>4. Seen(g, lines, k)
    BY <2>3 DEF Seen
  <2> QED BY <2>4
<1> HIDE DEF T
<1>3. 0..n \subseteq T
  BY <1>1, <1>2, UpToInduction
<1> QED BY <1>3 DEF T

\* The sections are collected line by line.
LEMMA SeenSteps ==
  ASSUME NEW preserved, Len(preserved) \in Nat
  PROVE  \E f : /\ f[0] = <<>>
                /\ \A i \in 1..Len(preserved) :
                     f[i] = IF preserved[i].section \in ToSet(f[i - 1]) THEN f[i - 1]
                            ELSE Append(f[i - 1], preserved[i].section)
                /\ PreservedSections(preserved) = f[Len(preserved)]
<1> DEFINE n == Len(preserved)
           f == CHOOSE g : Seen(g, preserved, n)
<1>1. PreservedSections(preserved) = f[n]
  BY DEF PreservedSections, Seen
<1>2. Seen(f, preserved, n)
  BY SeenExist
<1>3. n \in Nat
  OBVIOUS
<1> HIDE DEF f, n
<1>4. f = [i \in 0..n |->
             IF i = 0 THEN <<>>
             ELSE IF preserved[i].section \in ToSet(f[i - 1]) THEN f[i - 1]
             ELSE Append(f[i - 1], preserved[i].section)]
  BY <1>2 DEF Seen
<1>5. f[0] = <<>> /\ \A i \in 1..n :
        f[i] = IF preserved[i].section \in ToSet(f[i - 1]) THEN f[i - 1]
               ELSE Append(f[i - 1], preserved[i].section)
  <2>1. 0 \in 0..n /\ \A i \in 1..n : i \in 0..n /\ i # 0
    BY <1>3
  <2> QED BY <1>4, <2>1
<1> QED BY <1>1, <1>5 DEF n

\* The sections of the lines, each once; what is before the first header comes
\* first, if the lines before it do.
SectionsOf(lines) == {lines[i].section : i \in 1..Len(lines)}

\* Every section that was kept is collected, and once; the one before the first
\* header can only be the first.
LEMMA PreservedSectionsAre ==
  ASSUME NEW lines, IsSequence(lines), TopLinesFirst(lines)
  PROVE  /\ PreservedSections(lines) \in Seq(SectionsOf(lines))
         /\ \A k, l \in 1..Len(PreservedSections(lines)) :
              PreservedSections(lines)[k] = PreservedSections(lines)[l] => k = l
         /\ \A s \in SectionsOf(lines) :
              \E k \in 1..Len(PreservedSections(lines)) : PreservedSections(lines)[k] = s
         /\ \A k \in 1..Len(PreservedSections(lines)) :
              PreservedSections(lines)[k] = <<>> => k = 1
<1> DEFINE n == Len(lines)
<1>1. n \in Nat /\ DOMAIN lines = 1..n
  BY SequenceIs
<1>2. PICK f : /\ f[0] = <<>>
               /\ \A i \in 1..n :
                    f[i] = IF lines[i].section \in ToSet(f[i - 1]) THEN f[i - 1]
                           ELSE Append(f[i - 1], lines[i].section)
               /\ PreservedSections(lines) = f[n]
  BY <1>1, SeenSteps
<1>3. \A i \in 1..n : lines[i].section = <<>> => \A j \in 1..i : lines[j].section = <<>>
  BY <1>1 DEF TopLinesFirst
<1> DEFINE S == SectionsOf(lines)
<1>4. \A i \in 1..n : lines[i].section \in S
  BY DEF SectionsOf
<1> HIDE DEF n, S
<1> DEFINE Good(s, i) ==
             /\ s \in Seq(S)
             /\ \A k, l \in 1..Len(s) : s[k] = s[l] => k = l
             /\ \A j \in 1..i : \E k \in 1..Len(s) : s[k] = lines[j].section
             /\ \A k \in 1..Len(s) : \E j \in 1..i : s[k] = lines[j].section
             /\ \A k \in 1..Len(s) : s[k] = <<>> => k = 1
           T == {i \in 0..n : Good(f[i], i)}
<1>5. 0 \in T
  <2>1. Good(<<>>, 0)
    OBVIOUS
  <2> HIDE DEF Good
  <2> QED BY <1>1, <1>2, <2>1
<1>6. ASSUME NEW i \in 1..n, i - 1 \in T PROVE i \in T
  <2> DEFINE s == f[i - 1]  x == lines[i].section
  <2>1. Good(s, i - 1)
    <3> HIDE DEF Good, s
    <3> QED BY <1>6 DEF s
  <2>2. f[i] = (IF x \in ToSet(s) THEN s ELSE Append(s, x)) /\ x \in S /\ i \in 0..n /\ n \in Nat
    <3> HIDE DEF Good, T
    <3> QED BY <1>1, <1>2, <1>4
  <2>3. x = <<>> => \A j \in 1..i : lines[j].section = <<>>
    <3> HIDE DEF Good, T
    <3> QED BY <1>3
  <2>4. x = lines[i].section
    OBVIOUS
  <2> HIDE DEF s, x, T
  <2>5. ToSet(s) = {s[k] : k \in 1..Len(s)}
    <3>1. DOMAIN s = 1..Len(s)
      BY <2>1
    <3> QED BY <3>1 DEF ToSet
  <2>6. \A j \in 1..i : j = i \/ j \in 1..i - 1
    BY <2>2
  <2>7. CASE x \in ToSet(s)
    <3>1. Good(s, i)
      <4>1. ASSUME NEW j \in 1..i PROVE \E k \in 1..Len(s) : s[k] = lines[j].section
        <5>1. CASE j = i
          BY <2>4, <2>5, <2>7, <5>1
        <5>2. CASE j \in 1..i - 1
          BY <2>1, <5>2
        <5> QED BY <2>6, <5>1, <5>2
      <4> QED BY <2>1, <4>1
    <3> HIDE DEF Good
    <3> QED BY <2>2, <2>7, <3>1 DEF T
  <2>8. CASE x \notin ToSet(s)
    <3> DEFINE t == Append(s, x)  m == Len(s)
    <3>1. /\ t \in Seq(S) /\ m \in Nat /\ Len(t) = m + 1
          /\ \A k \in 1..m : t[k] = s[k]
          /\ t[m + 1] = x
      BY <2>1, <2>2
    <3>2. \A k \in 1..m : s[k] # x
      BY <2>5, <2>8
    <3> HIDE DEF t, m
    <3>3. \A k, l \in 1..m : s[k] = s[l] => k = l
      BY <2>1 DEF m
    <3>4. \A k, l \in 1..m + 1 : t[k] = t[l] => k = l
      BY <3>1, <3>2, <3>3
    <3>5. \A j \in 1..i : \E k \in 1..m + 1 : t[k] = lines[j].section
      <4>1. \A j \in 1..i - 1 : \E k \in 1..m : s[k] = lines[j].section
        BY <2>1 DEF m
      <4> QED BY <2>4, <2>6, <3>1, <4>1
    <3>6. \A k \in 1..m + 1 : \E j \in 1..i : t[k] = lines[j].section
      <4>1. \A k \in 1..m : \E j \in 1..i - 1 : s[k] = lines[j].section
        BY <2>1 DEF m
      <4>2. \A k \in 1..m + 1 : k = m + 1 \/ k \in 1..m
        BY <3>1
      <4>3. i \in 1..i /\ 1..i - 1 \subseteq 1..i
        BY <2>2
      <4> QED BY <2>4, <3>1, <4>1, <4>2, <4>3
    <3>7. \A k \in 1..m + 1 : t[k] = <<>> => k = 1
      <4>1. ASSUME x = <<>> PROVE m = 0
        <5>1. \A k \in 1..m : \E j \in 1..i - 1 : s[k] = lines[j].section
          BY <2>1 DEF m
        <5>2. \A k \in 1..m : s[k] = <<>>
          BY <2>3, <2>6, <4>1, <5>1
        <5> QED BY <3>1, <3>2, <4>1, <5>2
      <4>2. \A k \in 1..m : s[k] = <<>> => k = 1
        BY <2>1 DEF m
      <4>3. \A k \in 1..m + 1 : k = m + 1 \/ k \in 1..m
        BY <3>1
      <4> QED BY <3>1, <4>1, <4>2, <4>3
    <3>8. Good(t, i)
      BY <3>1, <3>4, <3>5, <3>6, <3>7
    <3> HIDE DEF Good
    <3> QED BY <2>2, <2>8, <3>8 DEF T, t
  <2> QED BY <2>7, <2>8
<1>7. n \in T
  <2> HIDE DEF T
  <2>1. 0..n \subseteq T
    BY <1>1, <1>5, <1>6, UpToInduction
  <2> QED BY <1>1, <2>1
<1> DEFINE s == f[n]
<1>8. Good(s, n)
  <2> HIDE DEF Good, s
  <2> QED BY <1>7 DEF s
<1>9. \A q \in S : \E j \in 1..n : lines[j].section = q
  BY DEF S, SectionsOf, n
<1> HIDE DEF s, T
<1>10. \A q \in S : \E k \in 1..Len(s) : s[k] = q
  <2>1. \A j \in 1..n : \E k \in 1..Len(s) : s[k] = lines[j].section
    BY <1>8
  <2> HIDE DEF Good
  <2> QED BY <1>9, <2>1
<1>11. /\ s \in Seq(S)
       /\ \A k, l \in 1..Len(s) : s[k] = s[l] => k = l
       /\ \A k \in 1..Len(s) : s[k] = <<>> => k = 1
  BY <1>8
<1>12. PreservedSections(lines) = s
  BY <1>2 DEF s
<1> HIDE DEF Good
<1> QED BY <1>10, <1>11, <1>12 DEF S
\* The recursive function of PutBack, for the first n sections.
Putting(f, lines, preserved, sections, n) ==
  f = [i \in 0..n |->
         IF i = 0 THEN lines
         ELSE f[i - 1] \o Placed(LinesOf(preserved, sections[i]), sections[i], f[i - 1])]

\* The recursive function of PutBack exists.
LEMMA PuttingExist ==
  ASSUME NEW lines, NEW preserved, NEW sections, NEW n \in Nat
  PROVE  \E f : Putting(f, lines, preserved, sections, n)
<1> DEFINE T == {k \in 0..n : \E f : Putting(f, lines, preserved, sections, k)}
<1>1. 0 \in T
  <2>1. Putting([i \in 0..0 |-> lines], lines, preserved, sections, 0)
    BY DEF Putting
  <2> QED BY <2>1
<1>2. ASSUME NEW k \in 1..n, k - 1 \in T PROVE k \in T
  <2>1. PICK f : Putting(f, lines, preserved, sections, k - 1)
    BY <1>2
  <2> DEFINE g == [i \in 0..k |->
                     IF i < k THEN f[i]
                     ELSE f[k - 1] \o Placed(LinesOf(preserved, sections[k]), sections[k], f[k - 1])]
  <2>2. \A i \in 0..k - 1 :
          f[i] = IF i = 0 THEN lines
                 ELSE f[i - 1] \o Placed(LinesOf(preserved, sections[i]), sections[i], f[i - 1])
    BY <2>1 DEF Putting
  <2>3. \A i \in 0..k :
          g[i] = IF i = 0 THEN lines
                 ELSE g[i - 1] \o Placed(LinesOf(preserved, sections[i]), sections[i], g[i - 1])
    BY <2>2
  <2>4. Putting(g, lines, preserved, sections, k)
    BY <2>3 DEF Putting
  <2> QED BY <2>4
<1> HIDE DEF T
<1>3. 0..n \subseteq T
  BY <1>1, <1>2, UpToInduction
<1> QED BY <1>3 DEF T

\* The sections are put back one after the other.
PutsBack(f, lines, preserved) ==
  LET sections == PreservedSections(preserved)
  IN  /\ f[0] = lines
      /\ \A i \in 1..Len(sections) :
           f[i] = f[i - 1] \o Placed(LinesOf(preserved, sections[i]), sections[i], f[i - 1])
      /\ PutBack(lines, preserved) = f[Len(sections)]

\* What was kept is put back section by section.
LEMMA PutBackSteps ==
  ASSUME NEW lines, NEW preserved, Len(PreservedSections(preserved)) \in Nat
  PROVE  \E f : PutsBack(f, lines, preserved)
<1> DEFINE sections == PreservedSections(preserved)
           n == Len(sections)
           f == CHOOSE g : Putting(g, lines, preserved, sections, n)
<1>1. PutBack(lines, preserved) = f[n]
  BY DEF PutBack, Putting
<1>2. Putting(f, lines, preserved, sections, n)
  BY PuttingExist
<1>3. n \in Nat
  OBVIOUS
<1> HIDE DEF f, n, sections
<1>4. f = [i \in 0..n |->
             IF i = 0 THEN lines
             ELSE f[i - 1] \o Placed(LinesOf(preserved, sections[i]), sections[i], f[i - 1])]
  BY <1>2 DEF Putting
<1>5. f[0] = lines /\ \A i \in 1..n :
        f[i] = f[i - 1] \o Placed(LinesOf(preserved, sections[i]), sections[i], f[i - 1])
  <2>1. 0 \in 0..n /\ \A i \in 1..n : i \in 0..n /\ i # 0
    BY <1>3
  <2> QED BY <1>4, <2>1
<1> QED BY <1>1, <1>5 DEF n, sections, PutsBack

\* The lines of a section, whatever larger set they are looked for in.
LEMMA LinesOfIn ==
  ASSUME NEW U, NEW lines \in Seq(U), NEW section
  PROVE  LinesOf(lines, section) = Selected(lines, {l \in U : l.section = section})
<1>1. \A i \in 1..Len(lines) : lines[i] \in U /\ lines[i] \in ToSet(lines)
  BY DEF ToSet
<1>2. \A i \in 1..Len(lines) : lines[i] \in {l \in ToSet(lines) : l.section = section}
                              <=> lines[i] \in {l \in U : l.section = section}
  BY <1>1
<1> QED BY <1>2, SelectedAlike DEF LinesOf

\* The lines of a section are lines that were kept, of that section.
LEMMA LinesOfAre ==
  ASSUME NEW lines, IsSequence(lines), NEW section
  PROVE  LinesOf(lines, section) \in Seq({l \in ToSet(lines) : l.section = section})
<1> DEFINE E == {l \in ToSet(lines) : l.section = section}  s == LinesOf(lines, section)
<1>1. lines \in Seq(ToSet(lines))
  BY SequenceIs
<1>2. s = Selected(lines, E)
  BY DEF LinesOf
<1> HIDE DEF E, s
<1>3. s \in Seq(ToSet(lines)) /\ Range(s) = Range(lines) \cap E
  BY <1>1, <1>2, SelectedOf
<1>4. DOMAIN s = 1..Len(s) /\ \A i \in 1..Len(s) : s[i] \in Range(s)
  BY <1>3 DEF Range
<1>5. \A i \in 1..Len(s) : s[i] \in E
  BY <1>3, <1>4
<1>6. s \in Seq(E)
  BY <1>3, <1>5, LenProperties
<1> QED BY <1>6 DEF E, s

\* What may stand behind the lines that termusic writes: what was kept, its top
\* lines under the last header there is.
Restored(preserved, under) ==
  {l \in ToSet(preserved) : l.section # <<>>}
    \cup {[l EXCEPT !.section = under] : l \in {k \in ToSet(preserved) : k.section = <<>>}}

\* Where a section is put back, its lines are under its own header or, for those
\* before the first header, under the last one that stands.
LEMMA PlacedAre ==
  ASSUME NEW preserved, IsSequence(preserved), NEW section, NEW before
  PROVE  Placed(LinesOf(preserved, section), section, before)
           \in Seq(Restored(preserved, Last(before).section))
<1> DEFINE E == {l \in ToSet(preserved) : l.section = section}
           s == LinesOf(preserved, section)
           R == Restored(preserved, Last(before).section)
<1>1. s \in Seq(E)
  BY LinesOfAre
<1>2. CASE section # <<>>
  <2>1. E \subseteq R
    BY <1>2 DEF Restored
  <2>2. Placed(s, section, before) = s
    BY <1>2 DEF Placed
  <2> HIDE DEF E, s, R
  <2>3. s \in Seq(R)
    BY <1>1, <2>1
  <2> QED BY <2>2, <2>3 DEF s, R
<1>3. CASE section = <<>>
  <2> DEFINE t == [i \in DOMAIN s |-> [s[i] EXCEPT !.section = Last(before).section]]
  <2>1. \A l \in E : [l EXCEPT !.section = Last(before).section] \in R
    BY <1>3 DEF Restored
  <2>2. Placed(s, section, before) = t
    BY <1>3 DEF Placed
  <2> HIDE DEF E, s, R
  <2>3. DOMAIN s = 1..Len(s) /\ Len(s) \in Nat /\ \A i \in 1..Len(s) : s[i] \in E
    BY <1>1
  <2>4. t \in Seq(R)
    <3>1. \A i \in 1..Len(s) : [s[i] EXCEPT !.section = Last(before).section] \in R
      BY <2>1, <2>3
    <3> DEFINE g(i) == [s[i] EXCEPT !.section = Last(before).section]
    <3>2. t = [i \in 1..Len(s) |-> g(i)] /\ \A i \in 1..Len(s) : g(i) \in R
      BY <2>3, <3>1
    <3> HIDE DEF g, t
    <3> QED BY <2>3, <3>2
  <2> QED BY <2>2, <2>4 DEF s, R
<1> QED BY <1>2, <1>3
\* The lines that follow what was written.
Restores(rest, lines, preserved) ==
  /\ rest \in Seq(Restored(preserved, Last(lines).section))
  /\ PutBack(lines, preserved) = lines \o rest
  /\ <<>> \notin SectionsOf(preserved) =>
       \A s \in SectionsOf(preserved) : LinesOf(rest, s) = LinesOf(preserved, s)

\* Every line that was kept is put back behind the lines that are there; without
\* lines before the first header each section keeps its lines in their order.
LEMMA PutBackIs ==
  ASSUME NEW lines, IsSequence(lines),
         NEW preserved, IsSequence(preserved), TopLinesFirst(preserved)
  PROVE  \E rest : Restores(rest, lines, preserved)
<1> DEFINE secs == SectionsOf(preserved)
           sections == PreservedSections(preserved)
           n == Len(sections)
           R == Restored(preserved, Last(lines).section)
           all == ToSet(lines) \cup R
           put(i, before) == Placed(LinesOf(preserved, sections[i]), sections[i], before)
<1>1. /\ sections \in Seq(secs) /\ n \in Nat
      /\ \A k, l \in 1..n : sections[k] = sections[l] => k = l
      /\ \A s \in secs : \E k \in 1..n : sections[k] = s
      /\ \A k \in 1..n : sections[k] = <<>> => k = 1
      /\ \A k \in 1..n : sections[k] \in secs
  <2>1. sections \in Seq(secs) /\ \A k \in 1..n : sections[k] = <<>> => k = 1
    BY PreservedSectionsAre
  <2>2. n \in Nat /\ \A k \in 1..n : sections[k] \in secs
    <3> HIDE DEF sections, secs
    <3> QED BY <2>1
  <2> QED BY <2>1, <2>2, PreservedSectionsAre
<1>2. PICK f : /\ f[0] = lines
               /\ \A i \in 1..n : f[i] = f[i - 1] \o put(i, f[i - 1])
               /\ PutBack(lines, preserved) = f[n]
  <2>1. PICK f : PutsBack(f, lines, preserved)
    BY <1>1, PutBackSteps
  <2>2. /\ f[0] = lines
        /\ \A i \in 1..n : f[i] = f[i - 1] \o put(i, f[i - 1])
        /\ PutBack(lines, preserved) = f[n]
    BY <2>1 DEF PutsBack
  <2> QED BY <2>2
<1>3. lines \in Seq(ToSet(lines)) /\ preserved \in Seq(ToSet(preserved))
  BY SequenceIs
<1>4. \A i \in 1..n : \A before : put(i, before) \in Seq(Restored(preserved, Last(before).section))
  BY PlacedAre
<1>5. \A i \in 1..n : \A before : sections[i] # <<>> => put(i, before) = LinesOf(preserved, sections[i])
  BY DEF Placed
<1>6. \A s : LinesOf(preserved, s) \in Seq({l \in ToSet(preserved) : l.section = s})
  BY LinesOfAre
<1> DEFINE Agrees(rest, i) ==
             <<>> \notin secs =>
               \A s \in secs : LinesOf(rest, s) = IF \E k \in 1..i : sections[k] = s
                                                  THEN LinesOf(preserved, s) ELSE <<>>
           Good(i) == \E rest \in Seq(R) : f[i] = lines \o rest /\ Agrees(rest, i)
           T == {i \in 0..n : Good(i)}
<1> HIDE DEF sections, n, R, put, secs
<1>7. 0 \in T
  <2>1. lines \o <<>> = lines /\ <<>> \in Seq(R)
    BY <1>3
  <2>2. \A s : LinesOf(<<>>, s) = <<>>
    <3>1. <<>> \in Seq({}) /\ Len(<<>>) = 0
      OBVIOUS
    <3>2. ASSUME NEW E PROVE Selected(<<>>, E) = <<>>
      <4>1. \A k \in 1..Len(<<>>) : <<>>[k] \notin E
        BY <3>1
      <4> QED BY <3>1, <4>1, SelectedWhole
    <3> QED BY <3>2 DEF LinesOf
  <2>3. Agrees(<<>>, 0)
    BY <2>2
  <2> HIDE DEF Agrees
  <2>4. Good(0)
    BY <1>2, <2>1, <2>3
  <2> HIDE DEF Good
  <2> QED BY <1>1, <2>4
<1>8. ASSUME NEW i \in 1..n, i - 1 \in T PROVE i \in T
  <2> DEFINE q == sections[i]  before == f[i - 1]  new == put(i, before)
  <2>1. Good(i - 1)
    <3> HIDE DEF Good
    <3> QED BY <1>8
  <2>2. i \in 0..n /\ n \in Nat /\ i \in 1..i /\ 1..i - 1 \subseteq 1..n
    BY <1>1
  <2>3. q \in secs /\ f[i] = before \o new
    <3> HIDE DEF T
    <3> QED BY <1>1, <1>2
  <2>4. PICK rest \in Seq(R) : before = lines \o rest /\ Agrees(rest, i - 1)
    <3> HIDE DEF Agrees
    <3> QED BY <2>1
  <2>5. new \in Seq(R)
    <3>1. CASE q = <<>>
      <4>1. i = 1
        BY <1>1, <3>1
      <4>2. before = lines
        BY <1>2, <4>1
      <4> QED BY <1>4, <4>2 DEF R
    <3>2. CASE q # <<>>
      <4>1. new = LinesOf(preserved, q)
        BY <1>5, <3>2
      <4>2. {l \in ToSet(preserved) : l.section = q} \subseteq R
        BY <3>2 DEF R, Restored
      <4>3. LinesOf(preserved, q) \in Seq({l \in ToSet(preserved) : l.section = q})
        BY <1>6
      <4>4. LinesOf(preserved, q) \in Seq(R)
        BY <4>2, <4>3, SeqMonotonic
      <4> QED BY <4>1, <4>4
    <3> QED BY <3>1, <3>2
  <2> HIDE DEF Good, T, Agrees, new, before, q
  <2>6. rest \o new \in Seq(R) /\ f[i] = lines \o (rest \o new)
    <3>1. rest \o new \in Seq(R)
      BY <2>4, <2>5, ConcatProperties
    <3>2. ToSet(lines) \subseteq all /\ R \subseteq all
      OBVIOUS
    <3> HIDE DEF all
    <3>3. lines \in Seq(all) /\ rest \in Seq(all) /\ new \in Seq(all)
      BY <1>3, <2>4, <2>5, <3>2, SeqMonotonic
    <3>4. (lines \o rest) \o new = lines \o (rest \o new)
      BY <3>3, ConcatAssociative
    <3> QED BY <2>3, <2>4, <3>1, <3>4
  <2>7. ASSUME <<>> \notin secs, NEW s \in secs
        PROVE  LinesOf(rest \o new, s) = IF \E k \in 1..i : sections[k] = s
                                         THEN LinesOf(preserved, s) ELSE <<>>
    <3> DEFINE E == {l \in R : l.section = s}
    <3>1. new = LinesOf(preserved, q)
      BY <1>5, <2>3, <2>7 DEF new, q
    <3>2. LinesOf(rest \o new, s) = LinesOf(rest, s) \o LinesOf(new, s)
      <4>1. /\ LinesOf(rest, s) = Selected(rest, E)
            /\ LinesOf(new, s) = Selected(new, E)
            /\ LinesOf(rest \o new, s) = Selected(rest \o new, E)
        BY <2>4, <2>5, <2>6, LinesOfIn
      <4>2. Selected(rest \o new, E) = Selected(rest, E) \o Selected(new, E)
        BY <2>4, <2>5, SelectedJoined
      <4> QED BY <4>1, <4>2
    <3>3. LinesOf(rest, s) = IF \E k \in 1..i - 1 : sections[k] = s
                             THEN LinesOf(preserved, s) ELSE <<>>
      BY <2>4, <2>7 DEF Agrees
    <3>4. new \in Seq({l \in ToSet(preserved) : l.section = q})
      BY <1>6, <3>1
    <3>5. \A k \in 1..Len(new) : new[k] \in ToSet(new) /\ new[k].section = q
      BY <3>4 DEF ToSet
    <3>6. new \in Seq(ToSet(new))
      BY <3>4 DEF ToSet
    <3>7. LinesOf(preserved, s) \in Seq(ToSet(preserved))
      <4>1. {l \in ToSet(preserved) : l.section = s} \subseteq ToSet(preserved)
        OBVIOUS
      <4> QED BY <1>6, <4>1, SeqMonotonic
    <3>8. CASE s = q
      <4>1. ~ \E k \in 1..i - 1 : sections[k] = s
        <5>1. \A k \in 1..i - 1 : k \in 1..n /\ k # i
          BY <2>2
        <5>2. s = sections[i] /\ i \in 1..n
          BY <3>8 DEF q
        <5> QED BY <1>1, <5>1, <5>2
      <4>2. \A k \in 1..Len(new) : new[k] \in {l \in ToSet(new) : l.section = s}
        BY <3>5, <3>8
      <4>3. LinesOf(new, s) = new
        BY <3>6, <4>2, SelectedWhole DEF LinesOf
      <4>4. LinesOf(rest, s) = <<>>
        BY <3>3, <4>1
      <4>5. <<>> \o new = new
        BY <3>6
      <4>6. \E k \in 1..i : sections[k] = s
        BY <2>2, <3>8 DEF q
      <4> QED BY <3>1, <3>2, <3>8, <4>3, <4>4, <4>5, <4>6
    <3>9. CASE s # q
      <4>1. \A k \in 1..Len(new) : new[k] \notin {l \in ToSet(new) : l.section = s}
        BY <3>5, <3>9
      <4>2. LinesOf(new, s) = <<>>
        BY <3>6, <4>1, SelectedWhole DEF LinesOf
      <4>3. LinesOf(rest, s) \o <<>> = LinesOf(rest, s)
        <5>1. LinesOf(rest, s) \in Seq(ToSet(preserved))
          BY <3>3, <3>7
        <5> QED BY <5>1
      <4>4. (\E k \in 1..i : sections[k] = s) <=> (\E k \in 1..i - 1 : sections[k] = s)
        <5>1. \A k \in 1..i : k = i \/ k \in 1..i - 1
          BY <2>2
        <5>2. 1..i - 1 \subseteq 1..i
          BY <2>2
        <5> QED BY <3>9, <5>1, <5>2 DEF q
      <4> QED BY <3>2, <3>3, <4>2, <4>3, <4>4
    <3> QED BY <3>8, <3>9
  <2>8. Agrees(rest \o new, i)
    BY <2>7 DEF Agrees
  <2>9. Good(i)
    BY <2>6, <2>8 DEF Good
  <2> QED BY <2>2, <2>9 DEF T
<1>9. n \in T
  <2> HIDE DEF T
  <2>1. 0..n \subseteq T
    BY <1>1, <1>7, <1>8, UpToInduction
  <2> QED BY <1>1, <2>1
<1>10. PICK rest \in Seq(R) : f[n] = lines \o rest /\ Agrees(rest, n)
  <2> HIDE DEF Agrees
  <2> QED BY <1>9
<1>11. <<>> \notin secs => \A s \in secs : LinesOf(rest, s) = LinesOf(preserved, s)
  BY <1>1, <1>10
<1> HIDE DEF Agrees, Good, T
<1>12. Restores(rest, lines, preserved)
  BY <1>2, <1>10, <1>11 DEF R, secs, Restores
<1> QED BY <1>12
\* The elements of a finite set, each once.
LEMMA SetToSeqIs ==
  ASSUME NEW S, IsFiniteSet(S)
  PROVE  /\ SetToSeq(S) \in Seq(S)
         /\ IsInjective(SetToSeq(S))
         /\ \A x \in S : \E k \in 1..Len(SetToSeq(S)) : SetToSeq(S)[k] = x
<1> DEFINE n == Cardinality(S)  s == SetToSeq(S)
<1>1. n \in Nat /\ ExistsBijection(1..n, S)
  BY FS_CardinalityType
<1>2. \E f \in [1..n -> S] : IsInjective(f)
  BY <1>1 DEF ExistsBijection, Bijection, Injection
<1>3. s \in [1..n -> S] /\ IsInjective(s)
  BY <1>2 DEF SetToSeq
<1>4. s \in Injection(1..n, S)
  BY <1>3 DEF Injection
<1>5. IsFiniteSet(1..n) /\ Cardinality(1..n) = n
  BY <1>1, FS_Interval
<1> HIDE DEF s, n
<1>6. s \in Surjection(1..n, S)
  BY <1>4, <1>5, FS_Injection DEF n
<1>7. \A x \in S : \E k \in 1..n : s[k] = x
  BY <1>6 DEF Surjection
<1>8. s \in Seq(S) /\ Len(s) = n
  <2>1. n \in Nat
    BY <1>1
  <2>2. s \in [1..n -> S]
    BY <1>3
  <2> QED BY <2>1, <2>2
<1> QED BY <1>3, <1>7, <1>8 DEF s

\* The name of a setting that is written: its section has at most one part, and
\* is neither that of a theme nor that of the keys.
OwnName(w) ==
  /\ w \in Names /\ w = <<w[1], w[2]>>
  /\ w[1] = <<>> \/ \E s : w[1] = <<s>> /\ s # "theme" /\ s # "keybindings"

\* The names of the settings that are written.
LEMMA OwnNames ==
  /\ Written[1].name[1] = <<>>
  /\ \A i \in 2..24 : Written[i].name[1] # <<>>
  /\ \A i \in 1..24 :
       /\ Written[i].name \in Names
       /\ Written[i].name = <<Written[i].name[1], Written[i].name[2]>>
       /\ \/ Written[i].name[1] = <<>>
          \/ \E s : Written[i].name[1] = <<s>> /\ s # "theme" /\ s # "keybindings"
  /\ Written[24].name[1] = <<"history">>
<1> DEFINE Own(n) ==
             /\ n = <<n[1], n[2]>>
             /\ \/ n[1] = <<>>
                \/ \E s : n[1] = <<s>> /\ s # "theme" /\ s # "keybindings"
<1>1. \A i \in 1..24 : Written[i].name \in Names
  <2>1. \A i \in 1..26 : Table[i].name \in Names
    BY TablePlaces DEF Names
  <2>2. \A i \in 1..24 : Table[i] = Written[i]
    BY TableStarts
  <2>3. \A i \in 1..24 : i \in 1..26
    OBVIOUS
  <2> QED BY <2>1, <2>2, <2>3
<1>2. ASSUME NEW key PROVE Own(<< <<>>, key>>)
  OBVIOUS
<1>3. ASSUME NEW key, NEW s, s # "theme", s # "keybindings"
      PROVE  Own(<< <<s>>, key>>) /\ << <<s>>, key>>[1] # <<>>
  <2> DEFINE n == << <<s>>, key>>
  <2>1. n[1] = <<s>> /\ n[2] = key /\ <<s>> # <<>>
    OBVIOUS
  <2>2. n = <<n[1], n[2]>>
    OBVIOUS
  <2> HIDE DEF n
  <2>3. \E q : n[1] = <<q>> /\ q # "theme" /\ q # "keybindings"
    BY <1>3, <2>1
  <2>4. Own(n)
    BY <2>2, <2>3
  <2>5. n[1] # <<>>
    BY <2>1
  <2> HIDE DEF Own
  <2> QED BY <2>4, <2>5 DEF n
<1> HIDE DEF Own
<1> DEFINE Deep(n) == Own(n) /\ n[1] # <<>>
<1>4. \A key : Deep(<<General, key>>) /\ Deep(<<Mpd, key>>) /\ Deep(<<Looks, key>>)
  BY <1>3 DEF General, Mpd, Looks
<1>5. \A key : Deep(<<Bars, key>>) /\ Deep(<<Past, key>>) /\ Deep(<<<<"library">>, key>>)
  BY <1>3 DEF Bars, Past
<1> HIDE DEF Deep
<1>6. /\ Deep(Written[2].name)
      /\ Deep(Written[3].name)
      /\ Deep(Written[4].name)
      /\ Deep(Written[5].name)
      /\ Deep(Written[6].name)
  <2>1. /\ Written[2].name = <<General, "start_page">>
        /\ Written[3].name = <<General, "stop_on_exit">>
        /\ Written[4].name = <<General, "seek_step">>
        /\ Written[5].name = <<General, "volume_step">>
        /\ Written[6].name = <<<<"library">>, "path">>
    BY WrittenSays
  <2> QED BY <1>4, <1>5, <2>1
<1>7. /\ Deep(Written[7].name)
      /\ Deep(Written[8].name)
      /\ Deep(Written[9].name)
      /\ Deep(Written[10].name)
      /\ Deep(Written[11].name)
  <2>1. /\ Written[7].name = <<Mpd, "host">>
        /\ Written[8].name = <<Mpd, "port">>
        /\ Written[9].name = <<Mpd, "password">>
        /\ Written[10].name = <<Mpd, "timeout_ms">>
        /\ Written[11].name = <<Mpd, "auto_reconnect">>
    BY WrittenSays
  <2> QED BY <1>4, <1>5, <2>1
<1>8. /\ Deep(Written[12].name)
      /\ Deep(Written[13].name)
      /\ Deep(Written[14].name)
      /\ Deep(Written[15].name)
  <2>1. /\ Written[12].name = <<Looks, "theme">>
        /\ Written[13].name = <<Looks, "theme_directory">>
        /\ Written[14].name = <<Looks, "icons">>
        /\ Written[15].name = <<Looks, "display">>
    BY WrittenSays
  <2> QED BY <1>4, <1>5, <2>1
<1>9. /\ Deep(Written[16].name)
      /\ Deep(Written[17].name)
      /\ Deep(Written[18].name)
      /\ Deep(Written[19].name)
  <2>1. /\ Written[16].name = <<Bars, "palette">>
        /\ Written[17].name = <<Bars, "refresh_hz">>
        /\ Written[18].name = <<Bars, "sensitivity">>
        /\ Written[19].name = <<Bars, "bar_density">>
    BY WrittenSays
  <2> QED BY <1>4, <1>5, <2>1
<1>10. /\ Deep(Written[20].name)
       /\ Deep(Written[21].name)
       /\ Deep(Written[22].name)
       /\ Deep(Written[23].name)
       /\ Deep(Written[24].name)
  <2>1. /\ Written[20].name = <<Bars, "fifo_path">>
        /\ Written[21].name = <<Bars, "sample_rate">>
        /\ Written[22].name = <<Bars, "channels">>
        /\ Written[23].name = <<Past, "enabled">>
        /\ Written[24].name = <<Past, "max_entries">>
    BY WrittenSays
  <2> QED BY <1>4, <1>5, <2>1
<1>11. \A i \in 2..24 : Deep(Written[i].name)
  BY <1>6, <1>7, <1>8, <1>9, <1>10
<1>12. Written[1].name = <<<<>>, "schema_version">> /\ Written[24].name = <<Past, "max_entries">>
  BY WrittenSays
<1>13. Written[1].name[1] = <<>> /\ Written[24].name[1] = <<"history">>
  <2>1. \A a, b : <<a, b>>[1] = a
    OBVIOUS
  <2> QED BY <1>12, <2>1 DEF Past
<1>14. \A i \in 2..24 : Own(Written[i].name) /\ Written[i].name[1] # <<>>
  BY <1>11 DEF Deep
<1>15. \A i \in 1..24 : Own(Written[i].name)
  <2>1. Own(Written[1].name)
    BY <1>2, <1>12
  <2>2. \A i \in 1..24 : i = 1 \/ i \in 2..24
    OBVIOUS
  <2> QED BY <1>14, <2>1, <2>2
<1> QED BY <1>1, <1>13, <1>14, <1>15, Zenon DEF Own

\* Each of them, and the section of each but the first.
LEMMA OwnIs == ASSUME NEW i \in 1..24 PROVE OwnName(Written[i].name)
  BY OwnNames, Zenon DEF OwnName

\* The version of the schema stands before the first header,
LEMMA FirstOwn == Written[1].name[1] = <<>>
  BY OwnNames, Zenon

\* every other setting under one,
LEMMA LaterOwn == \A i \in 2..24 : Written[i].name[1] # <<>>
  BY OwnNames, Zenon

\* and the last under that of the history.
LEMMA LastOwn == Written[24].name[1] = <<"history">>
  BY OwnNames, Zenon

\* A line that termusic writes for a setting is read as that setting.
LEMMA OwnLineSets ==
  ASSUME NEW n \in Names, n = <<n[1], n[2]>>,
         n[1] = <<>> \/ \E s : n[1] = <<s>> /\ s # "theme" /\ s # "keybindings",
         NEW value
  PROVE  /\ Sets(Line(n[1], n[2], value))
         /\ Alias(n[1], n[2]) = n
         /\ IsSequence(n[1])
<1> DEFINE section == n[1]  key == n[2]
<1>1. section = <<>> \/ \E s : section = <<s>> /\ s # "theme" /\ s # "keybindings"
  OBVIOUS
<1>2. n = <<section, key>>
  OBVIOUS
<1> HIDE DEF section, key
<1>3. section # <<"theme">> /\ (IF section = <<>> THEN <<>> ELSE <<section[1]>>) = section
  BY <1>1
<1>4. Alias(section, key) = n
  BY <1>2, <1>3 DEF Alias
<1>5. KeyIsKnown(section, key)
  BY <1>3, <1>4 DEF KeyIsKnown, Known
<1>6. ~(section # <<>> /\ section[1] = "keybindings")
  BY <1>1
<1>7. IsSequence(section)
  <2>1. \A s : <<s>> \in Seq({s})
    OBVIOUS
  <2>2. <<>> \in Seq({})
    OBVIOUS
  <2> QED BY <1>1, <2>1, <2>2, OwnSeq
<1>8. Line(section, key, value).section = section /\ Line(section, key, value).key = key
  BY DEF Line
<1>9. Sets(Line(section, key, value))
  BY <1>4, <1>5, <1>6, <1>8 DEF Sets, Foreign, IsBinding
<1> QED BY <1>4, <1>7, <1>9 DEF section, key

\* A line that termusic writes for a binding is read as that binding.
LEMMA KeyLineBinds ==
  ASSUME NEW b, b = <<b[1], b[2]>>, IsSequence(b[1]), b[1] # <<>>,
         NEW keys, keys # Garbage
  PROVE  LET line == Line(<<"keybindings">> \o b[1], b[2], keys)
         IN  /\ Binds(line) /\ ~Empties(line)
             /\ Bound(line) = b
             /\ line.section[1] = "keybindings" /\ line.section # <<>> /\ LineOk(line)
<1> DEFINE under == b[1]  section == <<"keybindings">> \o under
           line == Line(section, b[2], keys)
<1>1. b = <<under, b[2]>>
  OBVIOUS
<1>2. under \in Seq(ToSet(under)) /\ under # <<>>
  BY SequenceIs
<1> DEFINE S == ToSet(under) \cup {"keybindings"}
<1>3. under \in Seq(S) /\ <<"keybindings">> \in Seq(S)
  <2>1. ToSet(under) \subseteq S /\ "keybindings" \in S
    OBVIOUS
  <2> HIDE DEF S, under
  <2> QED BY <1>2, <2>1, SeqMonotonic
<1> HIDE DEF S, under
<1>4. /\ section \in Seq(S) /\ Len(section) = 1 + Len(under) /\ section[1] = "keybindings"
      /\ section # <<>> /\ Len(under) # 0 /\ Len(under) \in Nat
  <2>1. section \in Seq(S) /\ Len(section) = 1 + Len(under)
    BY <1>3, ConcatProperties
  <2>2. Len(under) # 0 /\ Len(under) \in Nat
    BY <1>2, <1>3, EmptySeq, LenProperties
  <2>3. section[1] = "keybindings"
    BY <1>3
  <2>4. section # <<>>
    BY <2>1, <2>2
  <2> QED BY <2>1, <2>2, <2>3, <2>4
<1>5. Tail(section) = under
  BY <1>3
<1>6. IsSequence(section)
  BY <1>4, OwnSeq
<1>7. line.section = section /\ line.key = b[2] /\ line.value = keys
      /\ line = Line(line.section, line.key, line.value)
  BY DEF Line
<1> HIDE DEF section, line
<1>8. <<section[1]>> = <<"keybindings">>
  BY <1>4
<1>9. KeyIsKnown(section, b[2])
  BY <1>4, <1>8 DEF KeyIsKnown
<1>10. Binds(line)
  BY <1>4, <1>7, <1>9 DEF Binds, Foreign, IsBinding
<1>11. ~Empties(line)
  BY <1>4, <1>7 DEF Empties
<1>12. Bound(line) = b
  BY <1>1, <1>5, <1>7 DEF Bound
<1>13. LineOk(line)
  BY <1>6, <1>7 DEF LineOk
<1> QED BY <1>4, <1>7, <1>10, <1>11, <1>12, <1>13 DEF line, section, under
\* A function on the first numbers is a sequence.
LEMMA Listed ==
  ASSUME NEW n \in Nat, NEW s, s = [i \in 1..n |-> s[i]]
  PROVE  IsSequence(s) /\ Len(s) = n /\ DOMAIN s = 1..n
<1> DEFINE S == {s[i] : i \in 1..n}
<1>1. s \in [1..n -> S]
  OBVIOUS
<1> HIDE DEF S
<1>2. s \in Seq(S) /\ Len(s) = n
  BY <1>1
<1> QED BY <1>2, OwnSeq

\* Two sequences one behind the other.
LEMMA Joined ==
  ASSUME NEW s, IsSequence(s), NEW t, IsSequence(t)
  PROVE  /\ IsSequence(s \o t)
         /\ Len(s) \in Nat /\ Len(t) \in Nat /\ Len(s \o t) = Len(s) + Len(t)
         /\ DOMAIN s = 1..Len(s) /\ DOMAIN t = 1..Len(t)
         /\ DOMAIN (s \o t) = 1..Len(s) + Len(t)
         /\ \A i \in 1..Len(s) : (s \o t)[i] = s[i]
         /\ \A k \in 1..Len(t) : (s \o t)[Len(s) + k] = t[k]
<1> DEFINE S == ToSet(s) \cup ToSet(t)  u == s \o t  m == Len(s)  n == Len(t)
<1>1. /\ s \in Seq(ToSet(s)) /\ t \in Seq(ToSet(t)) /\ m \in Nat /\ n \in Nat
      /\ DOMAIN s = 1..m /\ DOMAIN t = 1..n
  BY SequenceIs
<1>2. ToSet(s) \subseteq S /\ ToSet(t) \subseteq S
  OBVIOUS
<1> HIDE DEF S
<1>3. s \in Seq(S) /\ t \in Seq(S)
  BY <1>1, <1>2, SeqMonotonic
<1>4. /\ u \in Seq(S) /\ Len(u) = m + n
      /\ \A i \in 1..m : u[i] = s[i]
      /\ \A i \in m + 1..m + n : u[i] = t[i - m]
  BY <1>3, JoinedAt
<1>5. IsSequence(u)
  BY <1>4, OwnSeq
<1>6. DOMAIN u = 1..m + n
  BY <1>4, SequenceIs, <1>5
<1> HIDE DEF u, m, n
<1>7. ASSUME NEW k \in 1..n PROVE u[m + k] = t[k]
  <2>1. m + k \in m + 1..m + n /\ (m + k) - m = k
    <3>1. m \in Nat /\ n \in Nat
      BY <1>1
    <3> QED BY <3>1
  <2>2. u[m + k] = t[(m + k) - m]
    BY <1>4, <2>1
  <2> QED BY <2>1, <2>2
<1> QED BY <1>1, <1>4, <1>5, <1>6, <1>7 DEF u, m, n

\* The lines for the settings, one for each.
LEMMA OwnLinesAre ==
  ASSUME NEW c
  PROVE  /\ IsSequence(OwnLines(c)) /\ Len(OwnLines(c)) = 24
         /\ \A i \in 1..24 : OwnLines(c)[i] = Line(Written[i].name[1], Written[i].name[2],
                                                   c[Written[i].name])
<1> DEFINE own == OwnLines(c)
           line(i) == Line(Written[i].name[1], Written[i].name[2], c[Written[i].name])
<1>1. DOMAIN Written = 1..24
  BY WrittenPlaces
<1>2. own = [i \in 1..24 |-> line(i)]
  BY <1>1 DEF OwnLines
<1> HIDE DEF own, line
<1>3. own = [i \in 1..24 |-> own[i]] /\ \A i \in 1..24 : own[i] = line(i)
  BY <1>2
<1>4. IsSequence(own) /\ Len(own) = 24
  BY <1>3, Listed
<1> QED BY <1>3, <1>4 DEF own, line

\* The lines for the bindings, one for each.
LEMMA KeyLinesAre ==
  ASSUME NEW b, BindingsOk(b)
  PROVE  \E bound \in Seq(DOMAIN b) :
           /\ IsInjective(bound)
           /\ \A x \in DOMAIN b : \E k \in 1..Len(bound) : bound[k] = x
           /\ IsSequence(KeyLines(b)) /\ Len(KeyLines(b)) = Len(bound)
           /\ \A k \in 1..Len(bound) :
                KeyLines(b)[k] = Line(<<"keybindings">> \o bound[k][1], bound[k][2], b[bound[k]])
<1> DEFINE bound == SetToSeq(DOMAIN b)  keys == KeyLines(b)
           line(k) == Line(<<"keybindings">> \o bound[k][1], bound[k][2], b[bound[k]])
<1>1. /\ bound \in Seq(DOMAIN b) /\ IsInjective(bound)
      /\ \A x \in DOMAIN b : \E k \in 1..Len(bound) : bound[k] = x
  BY SetToSeqIs DEF BindingsOk
<1>2. keys = [k \in DOMAIN bound |-> line(k)]
  BY DEF KeyLines
<1> HIDE DEF keys, bound, line
<1>3. DOMAIN bound = 1..Len(bound) /\ Len(bound) \in Nat
  BY <1>1
<1>4. keys = [k \in 1..Len(bound) |-> keys[k]] /\ \A k \in 1..Len(bound) : keys[k] = line(k)
  BY <1>2, <1>3
<1>5. IsSequence(keys) /\ Len(keys) = Len(bound)
  BY <1>3, <1>4, Listed
<1> USE DEF line
<1> QED BY <1>1, <1>4, <1>5 DEF keys

\* The document of a load: its settings, its bindings, and then what was kept,
\* whose top lines come under the last header.
Laid(load, bound, rest, under) ==
  LET lines == Write(load).lines
      last  == 24 + Len(bound)
      b     == load.bindings
  IN  /\ Write(load) = Whole(lines) /\ IsSequence(lines) /\ DOMAIN lines = 1..Len(lines)
      /\ bound \in Seq(DOMAIN b) /\ Len(bound) \in Nat /\ IsInjective(bound)
      /\ \A x \in DOMAIN b : \E k \in 1..Len(bound) : bound[k] = x
      /\ \A k \in 1..Len(bound) : bound[k] \in DOMAIN b
      /\ Len(rest) \in Nat /\ Len(lines) = last + Len(rest)
      /\ \A i \in 1..24 : lines[i] = Line(Written[i].name[1], Written[i].name[2],
                                          load.config[Written[i].name])
      /\ \A k \in 1..Len(bound) :
           lines[24 + k] = Line(<<"keybindings">> \o bound[k][1], bound[k][2], b[bound[k]])
      /\ \A k \in 1..Len(rest) : lines[last + k] = rest[k]
      /\ rest \in Seq(Restored(load.preserved, under)) /\ IsSequence(rest)
      /\ \A k \in 1..Len(rest) : rest[k] \in Restored(load.preserved, under)
      /\ under # <<>> /\ IsSequence(under)
      /\ under = <<"history">> \/ under[1] = "keybindings"
      /\ <<>> \notin SectionsOf(load.preserved) =>
           \A s \in SectionsOf(load.preserved) : LinesOf(rest, s) = LinesOf(load.preserved, s)

\* Every load that can be held is written this way.
LEMMA WriteIs ==
  ASSUME NEW load, LoadOk(load), TopLinesFirst(load.preserved)
  PROVE  \E bound, rest, under : Laid(load, bound, rest, under)
<1> DEFINE own == OwnLines(load.config)  keys == KeyLines(load.bindings)
           head == own \o keys  lines == Write(load).lines  b == load.bindings
           line(x) == Line(<<"keybindings">> \o x[1], x[2], b[x])
<1>1. /\ IsSequence(own) /\ Len(own) = 24
      /\ \A i \in 1..24 : own[i] = Line(Written[i].name[1], Written[i].name[2],
                                        load.config[Written[i].name])
  BY OwnLinesAre
<1>2. BindingsOk(b) /\ IsSequence(load.preserved)
  BY DEF LoadOk, PreservedOk
<1>3. PICK bound \in Seq(DOMAIN b) :
           /\ IsInjective(bound)
           /\ \A x \in DOMAIN b : \E k \in 1..Len(bound) : bound[k] = x
           /\ IsSequence(keys) /\ Len(keys) = Len(bound)
           /\ \A k \in 1..Len(bound) : keys[k] = line(bound[k])
  BY <1>2, KeyLinesAre
<1> DEFINE n == Len(bound)
<1>4. n \in Nat /\ \A k \in 1..n : bound[k] \in DOMAIN b
  BY <1>3
<1> HIDE DEF own, keys, n, b
<1>5. /\ IsSequence(head) /\ Len(head) = 24 + n
      /\ \A i \in 1..24 : head[i] = own[i]
      /\ \A k \in 1..n : head[24 + k] = keys[k]
  <2>1. /\ IsSequence(head) /\ Len(head) = Len(own) + Len(keys)
        /\ \A i \in 1..Len(own) : head[i] = own[i]
        /\ \A k \in 1..Len(keys) : head[Len(own) + k] = keys[k]
    <3>1. IsSequence(own) /\ IsSequence(keys)
      BY <1>1, <1>3
    <3> QED BY <3>1, Joined
  <2>2. Len(own) = 24 /\ Len(keys) = n
    BY <1>1, <1>3 DEF n
  <2> HIDE DEF head
  <2> QED BY <2>1, <2>2
<1> DEFINE under == Last(head).section
<1>6. /\ under # <<>> /\ IsSequence(under)
      /\ under = <<"history">> \/ under[1] = "keybindings"
  <2>1. CASE n = 0
    <3>1. Last(head) = own[24]
      <4>1. Len(head) = 24 /\ head[24] = own[24]
        <5> HIDE DEF head
        <5>1. 24 \in 1..24
          OBVIOUS
        <5>2. Len(head) = 24 + n
          BY <1>5
        <5>3. head[24] = own[24]
          BY <1>5, <5>1, Zenon
        <5> QED BY <2>1, <5>2, <5>3
      <4> HIDE DEF head
      <4> QED BY <4>1 DEF Last
    <3>2. own[24].section = <<"history">>
      <4>1. own[24] = Line(Written[24].name[1], Written[24].name[2], load.config[Written[24].name])
        <5>1. 24 \in 1..24
          OBVIOUS
        <5> QED BY <1>1, <5>1
      <4>2. own[24].section = Written[24].name[1]
        BY <4>1 DEF Line
      <4> QED BY <4>2, LastOwn
    <3>3. IsSequence(<<"history">>) /\ <<"history">> # <<>>
      <4>1. <<"history">> \in Seq({"history"})
        OBVIOUS
      <4>2. IsSequence(<<"history">>)
        BY <4>1, OwnSeq
      <4> QED BY <4>2
    <3> HIDE DEF head
    <3> QED BY <3>1, <3>2, <3>3
  <2>2. CASE n # 0
    <3> DEFINE x == bound[n]
    <3>1. n \in 1..n
      BY <1>4, <2>2
    <3>2. x \in DOMAIN b /\ keys[n] = line(x)
      BY <1>3, <1>4, <3>1 DEF n
    <3>3. Last(head) = line(x)
      BY <1>5, <3>1, <3>2 DEF Last
    <3>4. x = <<x[1], x[2]>> /\ IsSequence(x[1]) /\ x[1] # <<>> /\ b[x] # Garbage
      BY <1>2, <3>2 DEF BindingsOk
    <3> HIDE DEF x, head
    <3>5. line(x).section[1] = "keybindings" /\ line(x).section # <<>> /\ LineOk(line(x))
      BY <3>4, KeyLineBinds
    <3> HIDE DEF line
    <3> QED BY <3>3, <3>5 DEF LineOk
  <2> QED BY <2>1, <2>2
<1> HIDE DEF head
<1>7. PICK rest : Restores(rest, head, load.preserved)
  BY <1>2, <1>5, PutBackIs
<1>8. /\ rest \in Seq(Restored(load.preserved, under))
      /\ <<>> \notin SectionsOf(load.preserved) =>
           \A s \in SectionsOf(load.preserved) : LinesOf(rest, s) = LinesOf(load.preserved, s)
  BY <1>7 DEF Restores
<1>9. Write(load) = Whole(head \o rest)
  BY <1>7 DEF Write, Restores, head, own, keys, b
<1>10. lines = head \o rest /\ Write(load) = Whole(lines)
  BY <1>9 DEF Whole
<1>11. IsSequence(rest) /\ \A k \in 1..Len(rest) : rest[k] \in Restored(load.preserved, under)
  <2> DEFINE R == Restored(load.preserved, under)
  <2>1. rest \in Seq(R)
    BY <1>7 DEF Restores
  <2> HIDE DEF R
  <2>2. IsSequence(rest) /\ \A k \in 1..Len(rest) : rest[k] \in R
    BY <2>1, OwnSeq
  <2> QED BY <2>2 DEF R
<1> HIDE DEF lines, under
<1>12. /\ IsSequence(lines) /\ Len(rest) \in Nat /\ Len(lines) = 24 + n + Len(rest)
       /\ DOMAIN lines = 1..Len(lines)
       /\ \A i \in 1..24 + n : lines[i] = head[i]
       /\ \A k \in 1..Len(rest) : lines[24 + n + k] = rest[k]
  <2>1. /\ IsSequence(head \o rest) /\ Len(rest) \in Nat /\ Len(head \o rest) = Len(head) + Len(rest)
        /\ \A i \in 1..Len(head) : (head \o rest)[i] = head[i]
        /\ \A k \in 1..Len(rest) : (head \o rest)[Len(head) + k] = rest[k]
        /\ DOMAIN (head \o rest) = 1..Len(head) + Len(rest)
    <3>1. IsSequence(head) /\ IsSequence(rest)
      BY <1>5, <1>11
    <3> QED BY <3>1, Joined
  <2>2. Len(head) = 24 + n
    BY <1>5
  <2> QED BY <1>10, <2>1, <2>2
<1>13. \A i \in 1..24 : i \in 1..24 + n
  BY <1>4
<1>14. \A k \in 1..n : 24 + k \in 1..24 + n
  BY <1>4
<1>15. \A i \in 1..24 : lines[i] = Line(Written[i].name[1], Written[i].name[2],
                                        load.config[Written[i].name])
  BY <1>1, <1>5, <1>12, <1>13
<1>16. \A k \in 1..n : lines[24 + k] = line(bound[k])
  BY <1>3, <1>5, <1>12, <1>14 DEF n
<1>17. Laid(load, bound, rest, under)
  <2> HIDE DEF head
  <2>1. Write(load) = Whole(lines) /\ IsSequence(lines) /\ DOMAIN lines = 1..Len(lines)
    BY <1>10, <1>12, Zenon
  <2>2. Len(bound) \in Nat /\ \A k \in 1..Len(bound) : bound[k] \in DOMAIN load.bindings
    BY <1>4 DEF n, b
  <2>3. /\ Len(rest) \in Nat /\ Len(lines) = 24 + Len(bound) + Len(rest)
        /\ \A k \in 1..Len(rest) : lines[24 + Len(bound) + k] = rest[k]
    BY <1>12, Zenon DEF n
  <2>4. \A k \in 1..Len(bound) :
          lines[24 + k] = Line(<<"keybindings">> \o bound[k][1], bound[k][2], load.bindings[bound[k]])
    BY <1>16, Zenon DEF n, b, line
  <2>5. /\ bound \in Seq(DOMAIN load.bindings) /\ IsInjective(bound)
        /\ \A x \in DOMAIN load.bindings : \E k \in 1..Len(bound) : bound[k] = x
    BY <1>3, Zenon DEF b
  <2> QED BY <1>6, <1>8, <1>11, <1>15, <2>1, <2>2, <2>3, <2>4, <2>5, Zenon DEF Laid, lines
<1> QED BY <1>17
-----------------------------------------------------------------------------
(* What is written is read again.                                            *)

\* A line that is put back is not taken for one of termusic's, unless it stood
\* before the first header and now stands under the last one.
LEMMA RestoredIs ==
  ASSUME NEW preserved, PreservedOk(preserved),
         NEW under, under # <<>>, IsSequence(under),
         NEW line \in Restored(preserved, under)
  PROVE  /\ LineOk(line) /\ line.section # <<>>
         /\ Foreign(line) \/ line.section = under
         /\ <<>> \notin SectionsOf(preserved) => Foreign(line)
<1>1. \A l \in ToSet(preserved) : LineOk(l) /\ Foreign(l) /\ l.section \in SectionsOf(preserved)
  <2>1. DOMAIN preserved = 1..Len(preserved)
    BY SequenceIs DEF PreservedOk
  <2> QED BY <2>1 DEF ToSet, PreservedOk, Foreign, SectionsOf
<1>2. CASE line \in ToSet(preserved) /\ line.section # <<>>
  BY <1>1, <1>2
<1>3. ASSUME NEW l \in ToSet(preserved), l.section = <<>>, line = [l EXCEPT !.section = under]
      PROVE  LineOk(line) /\ line.section = under
  <2>1. l = Line(l.section, l.key, l.value)
    BY <1>1 DEF LineOk
  <2>2. line = Line(under, l.key, l.value)
    BY <1>3, <2>1 DEF Line
  <2>3. line.section = under /\ line = Line(line.section, line.key, line.value)
    BY <2>2 DEF Line
  <2> QED BY <2>3 DEF LineOk
<1>4. ASSUME NEW l \in ToSet(preserved), l.section = <<>> PROVE <<>> \in SectionsOf(preserved)
  BY <1>1, <1>4
<1> QED BY <1>2, <1>3, <1>4 DEF Restored

\* What is written is a document whose lines before the first header come first.
LEMMA WriteOk ==
  ASSUME NEW load, LoadOk(load), TopLinesFirst(load.preserved)
  PROVE  DocumentOk(Write(load))
<1>1. PICK bound, rest, under : Laid(load, bound, rest, under)
  BY WriteIs
<1> DEFINE lines == Write(load).lines  b == load.bindings  n == Len(bound)  m == Len(rest)
<1>2. BindingsOk(b) /\ PreservedOk(load.preserved)
  BY DEF LoadOk
<1>3. /\ IsSequence(lines) /\ DOMAIN lines = 1..24 + n + m /\ n \in Nat /\ m \in Nat
      /\ \A i \in 1..24 : lines[i] = Line(Written[i].name[1], Written[i].name[2],
                                          load.config[Written[i].name])
      /\ \A k \in 1..n : lines[24 + k] = Line(<<"keybindings">> \o bound[k][1], bound[k][2], b[bound[k]])
      /\ \A k \in 1..n : bound[k] \in DOMAIN b
      /\ \A k \in 1..m : lines[24 + n + k] = rest[k]
      /\ \A k \in 1..m : rest[k] \in Restored(load.preserved, under)
      /\ under # <<>> /\ IsSequence(under)
  BY <1>1 DEF Laid
<1> HIDE DEF lines, b, n, m
<1>4. ASSUME NEW i \in 1..24 PROVE LineOk(lines[i]) /\ (i # 1 => lines[i].section # <<>>)
  <2> DEFINE w == Written[i].name
  <2>1. /\ w \in Names /\ w = <<w[1], w[2]>>
        /\ w[1] = <<>> \/ \E s : w[1] = <<s>> /\ s # "theme" /\ s # "keybindings"
    BY OwnIs, Zenon DEF OwnName
  <2>2. i # 1 => w[1] # <<>>
    <3>1. i # 1 => i \in 2..24
      OBVIOUS
    <3> QED BY <3>1, LaterOwn, Zenon
  <2>3. lines[i] = Line(w[1], w[2], load.config[w])
    BY <1>3
  <2> HIDE DEF w
  <2>4. IsSequence(w[1])
    BY <2>1, OwnLineSets
  <2>5. lines[i].section = w[1] /\ lines[i] = Line(lines[i].section, lines[i].key, lines[i].value)
    BY <2>3 DEF Line
  <2>6. IsSequence(lines[i].section)
    BY <2>4, <2>5, Zenon
  <2>7. LineOk(lines[i])
    BY <2>5, <2>6, Zenon DEF LineOk
  <2>8. i # 1 => lines[i].section # <<>>
    BY <2>2, <2>5, Zenon
  <2> QED BY <2>7, <2>8
<1>5. ASSUME NEW k \in 1..n PROVE LineOk(lines[24 + k]) /\ lines[24 + k].section # <<>>
  <2> DEFINE x == bound[k]
  <2>1. x = <<x[1], x[2]>> /\ IsSequence(x[1]) /\ x[1] # <<>> /\ b[x] # Garbage
    BY <1>2, <1>3 DEF BindingsOk
  <2>2. lines[24 + k] = Line(<<"keybindings">> \o x[1], x[2], b[x])
    BY <1>3
  <2> HIDE DEF x
  <2> DEFINE line == Line(<<"keybindings">> \o x[1], x[2], b[x])
  <2>3. LineOk(line) /\ line.section # <<>>
    BY <2>1, KeyLineBinds
  <2> HIDE DEF line
  <2> QED BY <2>2, <2>3 DEF line
<1>6. ASSUME NEW k \in 1..m PROVE LineOk(lines[24 + n + k]) /\ lines[24 + n + k].section # <<>>
  <2>1. rest[k] \in Restored(load.preserved, under) /\ lines[24 + n + k] = rest[k]
    BY <1>3
  <2>2. LineOk(rest[k]) /\ rest[k].section # <<>>
    BY <1>2, <1>3, <2>1, RestoredIs
  <2> QED BY <2>1, <2>2
<1>7. ASSUME NEW i \in 1..24 + n + m
      PROVE  LineOk(lines[i]) /\ (i # 1 => lines[i].section # <<>>)
  <2>1. CASE i \in 1..24
    BY <1>4, <2>1
  <2>2. CASE i \in 25..24 + n
    <3>1. i - 24 \in 1..n /\ i = 24 + (i - 24)
      BY <1>3, <2>2
    <3> QED BY <1>5, <3>1
  <2>3. CASE i \in 25 + n..24 + n + m
    <3>1. i - (24 + n) \in 1..m /\ i = 24 + n + (i - (24 + n))
      BY <1>3, <2>3
    <3> QED BY <1>6, <3>1
  <2> QED BY <1>3, <2>1, <2>2, <2>3
<1>8. TopLinesFirst(lines)
  <2>1. ASSUME NEW i \in 1..24 + n + m, lines[i].section = <<>>, NEW j \in 1..i
        PROVE  lines[j].section = <<>>
    <3>1. i = 1
      BY <1>7, <2>1
    <3>2. j = i
      BY <3>1
    <3> QED BY <2>1, <3>2
  <2> QED BY <1>3, <2>1 DEF TopLinesFirst
<1> QED BY <1>3, <1>7, <1>8 DEF DocumentOk, lines

\* A document is read line by line: the states of the reader.
Reads(f, lines) ==
  f[0] = Blank /\ \A i \in 1..Len(lines) : f[i] = ReadLine(f[i - 1], lines[i])

\* One such line is read as the value that it says, and changes nothing else.
LEMMA OwnLineRead ==
  ASSUME NEW w, OwnName(w), NEW v, v \in Legal[w],
         NEW old, NEW load, load = [config |-> old, bindings |-> <<>>, preserved |-> <<>>]
  PROVE  ReadLine(load, Line(w[1], w[2], v))
           = [config |-> [old EXCEPT ![w] = v], bindings |-> <<>>, preserved |-> <<>>]
<1> DEFINE line == Line(w[1], w[2], v)
<1>1. /\ w \in Names /\ w = <<w[1], w[2]>>
      /\ w[1] = <<>> \/ \E s : w[1] = <<s>> /\ s # "theme" /\ s # "keybindings"
  BY Zenon DEF OwnName
<1>2. Sets(line) /\ Alias(w[1], w[2]) = w
  BY <1>1, OwnLineSets
<1>3. line.section = w[1] /\ line.key = w[2] /\ line.value = v
  BY DEF Line
<1> HIDE DEF line
<1>4. ReadLine(load, line) = Put(load, Alias(line.section, line.key), line.value)
  BY <1>2, ReadLineIs, Zenon
<1>5. ReadLine(load, line) = Put(load, w, v)
  BY <1>2, <1>3, <1>4, Zenon
<1>6. load.config = old
  OBVIOUS
<1>7. Accepted(w, v, old[w]) = v
  BY DEF Accepted
<1> DEFINE new == [old EXCEPT ![w] = v]
<1>8. Put(load, w, v) = [load EXCEPT !.config = new]
  BY <1>6, <1>7 DEF Put
<1> HIDE DEF new
<1>9. [load EXCEPT !.config = new] = [config |-> new, bindings |-> <<>>, preserved |-> <<>>]
  OBVIOUS
<1> QED BY <1>5, <1>8, <1>9 DEF new, line

\* The document opens with the lines for the settings.
Opens(lines, c) ==
  \A i \in 1..24 : lines[i] = Line(Written[i].name[1], Written[i].name[2], c[Written[i].name])

\* The lines for the settings are read as the settings that were written.
LEMMA ReadsOwn ==
  ASSUME NEW c, ConfigOk(c), NEW f, NEW lines, Reads(f, lines),
         NEW n, n = Len(lines), n \in Nat, n >= 24, Opens(lines, c)
  PROVE  f[24] = [config |-> [m \in Names |-> IF m \in WrittenNames THEN c[m] ELSE Defaults[m]],
                  bindings |-> <<>>, preserved |-> <<>>]
<1> DEFINE Is(i, m) == \E j \in 1..i : Written[j].name = m
           Mixed(i) == [m \in Names |-> IF Is(i, m) THEN c[m] ELSE Defaults[m]]
           Own(i) == [config |-> Mixed(i), bindings |-> <<>>, preserved |-> <<>>]
           T == {i \in 0..24 : f[i] = Own(i)}
<1>1. f[0] = Blank /\ \A i \in 1..24 : f[i] = ReadLine(f[i - 1], lines[i])
  <2>1. f[0] = Blank /\ \A i \in 1..n : f[i] = ReadLine(f[i - 1], lines[i])
    BY DEF Reads
  <2>2. \A i \in 1..24 : i \in 1..n
    OBVIOUS
  <2> QED BY <2>1, <2>2
<1>2. 0 \in T
  <2>1. \A m \in Names : ~Is(0, m)
    OBVIOUS
  <2> HIDE DEF Is
  <2>2. Mixed(0) = [m \in Names |-> Defaults[m]]
    BY <2>1
  <2>3. Mixed(0) = Defaults
    BY <2>2, DefaultsAreLegal
  <2> HIDE DEF Mixed
  <2>4. Blank = Own(0)
    BY <2>3 DEF Blank
  <2> HIDE DEF Own
  <2>5. f[0] = Own(0) /\ 0 \in 0..24
    BY <1>1, <2>4
  <2> QED BY <2>5
<1>3. ASSUME NEW i \in 1..24, i - 1 \in T PROVE i \in T
  <2> DEFINE w == Written[i].name  old == Mixed(i - 1)
  <2>1. OwnName(w) /\ w \in Names
    BY OwnIs, Zenon DEF OwnName
  <2>2. c[w] \in Legal[w]
    BY <2>1 DEF ConfigOk
  <2>3. \A m \in Names : Is(i, m) <=> m = w \/ Is(i - 1, m)
    <3>1. \A j \in 1..i : j = i \/ j \in 1..i - 1
      OBVIOUS
    <3>2. 1..i - 1 \subseteq 1..i /\ i \in 1..i
      OBVIOUS
    <3> QED BY <3>1, <3>2
  <2>4. Mixed(i) = [old EXCEPT ![w] = c[w]]
    <3> HIDE DEF Is, w
    <3> QED BY <2>1, <2>3
  <2>5. f[i - 1] = Own(i - 1)
    <3> HIDE DEF Own
    <3> QED BY <1>3
  <2> DEFINE load == f[i - 1]
  <2>6. load = [config |-> old, bindings |-> <<>>, preserved |-> <<>>]
    BY <2>5
  <2>7. f[i] = ReadLine(load, lines[i]) /\ lines[i] = Line(w[1], w[2], c[w])
    <3> HIDE DEF T
    <3> QED BY <1>1 DEF Opens
  <2> HIDE DEF w, old, load, T, Mixed
  <2>8. ReadLine(load, Line(w[1], w[2], c[w]))
          = [config |-> [old EXCEPT ![w] = c[w]], bindings |-> <<>>, preserved |-> <<>>]
    BY <2>1, <2>2, <2>6, OwnLineRead
  <2>9. f[i] = Own(i)
    BY <2>4, <2>7, <2>8
  <2> HIDE DEF Own
  <2>10. i \in 0..24
    OBVIOUS
  <2> QED BY <2>9, <2>10 DEF T
<1>4. 24 \in T
  <2> HIDE DEF T
  <2>1. 24 \in Nat /\ 24 \in 0..24
    OBVIOUS
  <2> QED BY <1>2, <1>3, <2>1, UpToInduction
<1>5. \A m \in Names : Is(24, m) <=> m \in WrittenNames
  <2>1. DOMAIN Written = 1..24
    BY WrittenPlaces
  <2> QED BY <2>1 DEF WrittenNames
<1> HIDE DEF Is
<1>6. Mixed(24) = [m \in Names |-> IF m \in WrittenNames THEN c[m] ELSE Defaults[m]]
  BY <1>5
<1>7. f[24] = Own(24)
  <2> HIDE DEF Own
  <2> QED BY <1>4
<1> HIDE DEF Mixed
<1> QED BY <1>6, <1>7
\* Behind the lines for the settings there is one for each binding.
KeysAt(lines, bound, b) ==
  /\ bound \in Seq(DOMAIN b)
  /\ \A x \in DOMAIN b : \E k \in 1..Len(bound) : bound[k] = x
  /\ \A k \in 1..Len(bound) :
       lines[24 + k] = Line(<<"keybindings">> \o bound[k][1], bound[k][2], b[bound[k]])

\* The lines for the bindings are read as the bindings that were written.
LEMMA ReadsKeys ==
  ASSUME NEW c, NEW b, BindingsOk(b), NEW f, NEW lines, Reads(f, lines),
         NEW bound, KeysAt(lines, bound, b),
         NEW last, last = 24 + Len(bound), NEW n \in Nat, n = Len(lines), n >= last,
         f[24] = [config |-> c, bindings |-> <<>>, preserved |-> <<>>]
  PROVE  f[last] = [config |-> c, bindings |-> b, preserved |-> <<>>]
<1> DEFINE m == Len(bound)
           Some(k) == [x \in {bound[j] : j \in 1..k} |-> b[x]]
           Bound24(k) == [config |-> c, bindings |-> Some(k), preserved |-> <<>>]
           T == {k \in 0..m : f[24 + k] = Bound24(k)}
<1>1. m \in Nat /\ \A k \in 1..m : bound[k] \in DOMAIN b
  BY DEF KeysAt
<1>2. \A k \in 1..m : f[24 + k] = ReadLine(f[24 + (k - 1)], lines[24 + k])
  <2>1. \A i \in 1..n : f[i] = ReadLine(f[i - 1], lines[i])
    BY DEF Reads
  <2>2. \A k \in 1..m : 24 + k \in 1..n /\ (24 + k) - 1 = 24 + (k - 1)
    BY <1>1
  <2> HIDE DEF m
  <2> QED BY <2>1, <2>2
<1>3. \A k \in 1..m :
        lines[24 + k] = Line(<<"keybindings">> \o bound[k][1], bound[k][2], b[bound[k]])
  BY DEF KeysAt
<1>4. \A x \in DOMAIN b : \E k \in 1..m : bound[k] = x
  BY DEF KeysAt
<1>5. f[24] = [config |-> c, bindings |-> <<>>, preserved |-> <<>>] /\ last = 24 + m
  OBVIOUS
<1>6. b = [x \in DOMAIN b |-> b[x]]
  BY DEF BindingsOk
<1> HIDE DEF m
<1>7. 0 \in T
  <2>1. {bound[j] : j \in 1..0} = {}
    OBVIOUS
  <2>2. Some(0) = <<>>
    BY <2>1
  <2> HIDE DEF Some
  <2> QED BY <1>1, <1>5, <2>2
<1>8. ASSUME NEW k \in 1..m, k - 1 \in T PROVE k \in T
  <2> DEFINE x == bound[k]  line == lines[24 + k]  old == f[24 + (k - 1)]
  <2>1. old = Bound24(k - 1) /\ f[24 + k] = ReadLine(old, line) /\ k \in 0..m
    <3> HIDE DEF Bound24
    <3> QED BY <1>1, <1>2, <1>8
  <2>2. x \in DOMAIN b /\ x = <<x[1], x[2]>> /\ IsSequence(x[1]) /\ x[1] # <<>> /\ b[x] # Garbage
    BY <1>1 DEF BindingsOk
  <2>3. line = Line(<<"keybindings">> \o x[1], x[2], b[x])
    BY <1>3
  <2>4. {bound[j] : j \in 1..k} = {bound[j] : j \in 1..k - 1} \cup {x}
    <3>1. \A j \in 1..k : j = k \/ j \in 1..k - 1
      BY <1>1
    <3>2. 1..k - 1 \subseteq 1..k /\ k \in 1..k
      BY <1>1
    <3> QED BY <3>1, <3>2
  <2> HIDE DEF x
  <2>5. Binds(line) /\ ~Empties(line) /\ Bound(line) = x /\ line.value = b[x]
    <3> DEFINE l == Line(<<"keybindings">> \o x[1], x[2], b[x])
    <3>1. Binds(l) /\ ~Empties(l) /\ Bound(l) = x
      BY <2>2, KeyLineBinds
    <3>2. l.value = b[x]
      BY DEF Line
    <3> HIDE DEF l, line
    <3> QED BY <2>3, <3>1, <3>2 DEF l
  <2> HIDE DEF line, old
  <2> DEFINE was == Some(k - 1)
             new == [y \in DOMAIN was \cup {x} |-> IF y = x THEN b[x] ELSE was[y]]
  <2>6. f[24 + k] = Bind(old, x, b[x])
    BY <2>1, <2>5, ReadLineIs
  <2>7. old = [config |-> c, bindings |-> was, preserved |-> <<>>]
    BY <2>1
  <2>8. new = Some(k)
    <3>1. DOMAIN was = {bound[j] : j \in 1..k - 1}
      OBVIOUS
    <3>2. \A y \in DOMAIN was : was[y] = b[y]
      OBVIOUS
    <3> QED BY <2>4, <3>1, <3>2
  <2> HIDE DEF was, Some
  <2>9. f[24 + k] = [config |-> c, bindings |-> new, preserved |-> <<>>]
    <3>1. old.bindings = was
      BY <2>7
    <3>2. Bind(old, x, b[x]) = [old EXCEPT !.bindings = new]
      BY <3>1 DEF Bind
    <3> HIDE DEF new
    <3>3. [old EXCEPT !.bindings = new] = [config |-> c, bindings |-> new, preserved |-> <<>>]
      BY <2>7
    <3> QED BY <2>6, <3>2, <3>3
  <2> HIDE DEF new
  <2> QED BY <2>1, <2>8, <2>9
<1>9. f[24 + m] = Bound24(m)
  <2> HIDE DEF Bound24
  <2>1. m \in T
    <3> HIDE DEF T
    <3>1. 0..m \subseteq T
      BY <1>1, <1>7, <1>8, UpToInduction
    <3> QED BY <1>1, <3>1
  <2> QED BY <2>1
<1>10. Some(m) = b
  <2>1. {bound[j] : j \in 1..m} = DOMAIN b
    BY <1>1, <1>4
  <2> QED BY <1>6, <2>1
<1> HIDE DEF Some
<1> QED BY <1>5, <1>9, <1>10

\* The last lines are some that say nothing to termusic.
KeptAt(lines, last, rest) ==
  /\ Len(lines) = last + Len(rest)
  /\ \A k \in 1..Len(rest) : lines[last + k] = rest[k] /\ Foreign(rest[k])

\* They are kept, in their order.
LEMMA ReadsKept ==
  ASSUME NEW c, NEW b, NEW rest, IsSequence(rest), NEW f, NEW lines, Reads(f, lines),
         NEW last \in Nat, KeptAt(lines, last, rest),
         f[last] = [config |-> c, bindings |-> b, preserved |-> <<>>]
  PROVE  f[Len(lines)] = [config |-> c, bindings |-> b, preserved |-> rest]
<1> DEFINE m == Len(rest)
           U == ToSet(rest)
           Kept(g, k) == \E p \in Seq(U) :
                           /\ g = [config |-> c, bindings |-> b, preserved |-> p]
                           /\ Len(p) = k /\ \A j \in 1..k : p[j] = rest[j]
           T == {k \in 0..m : Kept(f[last + k], k)}
<1>1. rest \in Seq(U) /\ m \in Nat /\ \A k \in 1..m : rest[k] \in U
  <2>1. rest \in Seq(U) /\ m \in Nat
    BY SequenceIs
  <2> HIDE DEF U
  <2> QED BY <2>1
<1>2. \A k \in 1..m : f[last + k] = ReadLine(f[last + (k - 1)], rest[k])
  <2>1. \A i \in 1..last + m : f[i] = ReadLine(f[i - 1], lines[i])
    BY DEF Reads, KeptAt
  <2>2. \A k \in 1..m : last + k \in 1..last + m /\ (last + k) - 1 = last + (k - 1)
    BY <1>1
  <2>3. \A k \in 1..m : lines[last + k] = rest[k]
    BY DEF KeptAt
  <2> HIDE DEF m
  <2> QED BY <2>1, <2>2, <2>3
<1>3. f[last] = [config |-> c, bindings |-> b, preserved |-> <<>>] /\ \A k \in 1..m : Foreign(rest[k])
  BY DEF KeptAt
<1> HIDE DEF U, m
<1>4. 0 \in T
  <2>1. <<>> \in Seq(U) /\ Len(<<>>) = 0
    OBVIOUS
  <2> DEFINE g == [config |-> c, bindings |-> b, preserved |-> <<>>]
  <2>2. Kept(g, 0)
    <3>1. g = [config |-> c, bindings |-> b, preserved |-> <<>>]
      OBVIOUS
    <3>2. \A j \in 1..0 : <<>>[j] = rest[j]
      OBVIOUS
    <3> HIDE DEF g
    <3> QED BY <2>1, <3>1, <3>2
  <2> HIDE DEF Kept
  <2>3. f[last + 0] = f[last]
    OBVIOUS
  <2> QED BY <1>1, <1>3, <2>2, <2>3
<1>5. ASSUME NEW k \in 1..m, k - 1 \in T PROVE k \in T
  <2> DEFINE old == f[last + (k - 1)]  x == rest[k]
  <2>1. Kept(old, k - 1)
    <3> HIDE DEF Kept, old
    <3> QED BY <1>5 DEF old
  <2>2. f[last + k] = ReadLine(old, x) /\ k \in 0..m /\ x \in U /\ Foreign(x) /\ x = rest[k]
    <3> HIDE DEF T, Kept
    <3>1. k \in 0..m /\ rest[k] \in U
      BY <1>1
    <3>2. Foreign(rest[k])
      BY <1>3
    <3>3. f[last + k] = ReadLine(f[last + (k - 1)], rest[k])
      BY <1>2
    <3> QED BY <3>1, <3>2, <3>3
  <2> HIDE DEF old, x
  <2>3. PICK p \in Seq(U) : /\ old = [config |-> c, bindings |-> b, preserved |-> p]
                            /\ Len(p) = k - 1 /\ \A j \in 1..k - 1 : p[j] = rest[j]
    BY <2>1
  <2> DEFINE q == Append(p, x)
  <2>4. q \in Seq(U) /\ Len(q) = k /\ \A j \in 1..k : q[j] = rest[j]
    <3>1. /\ q \in Seq(U) /\ Len(q) = k
          /\ \A j \in 1..k - 1 : q[j] = p[j]
          /\ q[k] = x
      BY <2>2, <2>3
    <3>2. \A j \in 1..k : j = k \/ j \in 1..k - 1
      BY <2>2
    <3> HIDE DEF q
    <3> QED BY <2>2, <2>3, <3>1, <3>2
  <2>5. f[last + k] = [config |-> c, bindings |-> b, preserved |-> q]
    <3>1. f[last + k] = [old EXCEPT !.preserved = q]
      <4>1. f[last + k] = Keep(old, x)
        BY <2>2, ReadLineIs
      <4>2. old.preserved = p
        BY <2>3
      <4>3. Keep(old, x) = [old EXCEPT !.preserved = Append(old.preserved, x)]
        BY DEF Keep
      <4> QED BY <4>1, <4>2, <4>3
    <3> HIDE DEF q
    <3> QED BY <2>3, <3>1
  <2> HIDE DEF q, T
  <2>6. Kept(f[last + k], k)
    BY <2>4, <2>5
  <2> HIDE DEF Kept
  <2> QED BY <2>2, <2>6 DEF T
<1>6. Kept(f[last + m], m)
  <2>1. m \in T
    <3> HIDE DEF T
    <3>1. 0..m \subseteq T
      BY <1>1, <1>4, <1>5, UpToInduction
    <3> QED BY <1>1, <3>1
  <2> HIDE DEF Kept
  <2> QED BY <2>1
<1> DEFINE g == f[last + m]
<1>7. Kept(g, m)
  BY <1>6
<1> HIDE DEF g
<1>8. PICK p \in Seq(U) : /\ g = [config |-> c, bindings |-> b, preserved |-> p]
                          /\ Len(p) = m /\ \A j \in 1..m : p[j] = rest[j]
  BY <1>7
<1>9. p = rest
  <2>1. Len(rest) = m /\ rest \in Seq(U) /\ m \in Nat
    BY <1>1 DEF m
  <2>2. p \in Seq(U) /\ Len(p) = m /\ \A j \in 1..m : p[j] = rest[j]
    BY <1>8
  <2> HIDE DEF T, Kept
  <2> QED BY <2>1, <2>2, SeqEqual
<1>10. Len(lines) = last + m
  BY DEF KeptAt, m
<1> QED BY <1>8, <1>9, <1>10 DEF g

\* No line that is put back names a setting of the connection.
LEMMA ReadLineKeepsMpd ==
  ASSUME NEW load, LoadOk(load), NEW line,
         NEW under, under = <<"history">> \/ under[1] = "keybindings", under # <<>>,
         Foreign(line) \/ line.section = under,
         NEW n \in Names, NEW key, n = <<Mpd, key>>
  PROVE  ReadLine(load, line).config[n] = load.config[n]
<1>1. load = [config |-> load.config, bindings |-> load.bindings, preserved |-> load.preserved]
      /\ load.config = [m \in Names |-> load.config[m]]
  BY DEF LoadOk, ConfigOk
<1>2. CASE Foreign(line)
  <2>1. ReadLine(load, line) = [load EXCEPT !.preserved = Append(load.preserved, line)]
    BY <1>2, ReadLineIs DEF Keep
  <2>2. ReadLine(load, line).config = load.config
    BY <1>1, <2>1
  <2> QED BY <2>2
<1>3. CASE Binds(line) /\ ~Empties(line)
  <2>1. ReadLine(load, line) =
          [load EXCEPT !.bindings = [b \in DOMAIN load.bindings \cup {Bound(line)} |->
             IF b = Bound(line) THEN line.value ELSE load.bindings[b]]]
    BY <1>3, ReadLineIs DEF Bind
  <2>2. ReadLine(load, line).config = load.config
    BY <1>1, <2>1
  <2> QED BY <2>2
<1>4. CASE Sets(line)
  <2> DEFINE m == Alias(line.section, line.key)
             v == Accepted(m, line.value, load.config[m])
             d == [load.config EXCEPT ![m] = v]
  <2>1. ReadLine(load, line) = [load EXCEPT !.config = d]
    BY <1>4, ReadLineIs DEF Put
  <2>2. m # n
    <3>1. line.section = under /\ ~IsBinding(line)
      BY <1>4 DEF Sets
    <3>2. under = <<"history">>
      BY <3>1 DEF IsBinding
    <3>3. m = <<under, line.key>>
      BY <3>1, <3>2 DEF Alias
    <3> HIDE DEF m
    <3>4. <<"history">> # <<"mpd">>
      OBVIOUS
    <3> QED BY <3>2, <3>3, <3>4 DEF Mpd
  <2> HIDE DEF m, v
  <2>3. d[n] = load.config[n]
    BY <1>1, <2>2
  <2> HIDE DEF d
  <2>4. ReadLine(load, line).config = d
    BY <1>1, <2>1
  <2> QED BY <2>3, <2>4
<1>5. CASE ReadLine(load, line) = load
  BY <1>5
<1> QED BY <1>2, <1>3, <1>4, <1>5, ReadLineIs

\* The settings of the connection.
Endpoint == {Host, Port, Password, Timeout}

\* They are settings of the connection, and written.
LEMMA EndpointIs ==
  /\ Endpoint \subseteq Names /\ Endpoint \subseteq WrittenNames
  /\ \A n \in Endpoint : \E key : n = <<Mpd, key>>
<1>1. Host \in Names /\ Port \in Names /\ Password \in Names /\ Timeout \in Names
  BY PaneNames DEF Host, Port, Password, Timeout
<1>2. Host \in WrittenNames /\ Port \in WrittenNames /\ Password \in WrittenNames
      /\ Timeout \in WrittenNames
  <2>1. \A i \in 1..24 : Written[i].name \in WrittenNames
    BY WrittenPlaces DEF WrittenNames
  <2>2. /\ Written[7].name = Host /\ Written[8].name = Port
        /\ Written[9].name = Password /\ Written[10].name = Timeout
    BY WrittenSays DEF Host, Port, Password, Timeout
  <2>3. 7 \in 1..24 /\ 8 \in 1..24 /\ 9 \in 1..24 /\ 10 \in 1..24
    OBVIOUS
  <2> QED BY <2>1, <2>2, <2>3
<1>3. \A n \in Endpoint : \E key : n = <<Mpd, key>>
  BY DEF Endpoint, Host, Port, Password, Timeout
<1> QED BY <1>1, <1>2, <1>3 DEF Endpoint

\* What is written is read.
LEMMA WrittenAreNames == WrittenNames \subseteq Names
<1>1. \A i \in 1..24 : Written[i].name \in Names
  BY OwnIs, Zenon DEF OwnName
<1> QED BY <1>1, WrittenPlaces, Zenon DEF WrittenNames

\* What is written is read again: the connection always, and everything else
\* too when no line stands before the first header.
LEMMA RoundTrip ==
  ASSUME NEW load, LoadOk(load), TopLinesFirst(load.preserved)
  PROVE  /\ \A n \in Endpoint : Read(Write(load)).config[n] = load.config[n]
         /\ <<>> \notin SectionsOf(load.preserved) =>
              /\ \A n \in WrittenNames : Read(Write(load)).config[n] = load.config[n]
              /\ Read(Write(load)).bindings = load.bindings
              /\ \A s \in SectionsOf(load.preserved) :
                   LinesOf(Read(Write(load)).preserved, s) = LinesOf(load.preserved, s)
<1>1. PICK bound, rest, under : Laid(load, bound, rest, under)
  BY WriteIs
<1> DEFINE document == Write(load)  lines == document.lines  n == Len(lines)
           b == load.bindings  k == Len(bound)  m == Len(rest)  last == 24 + k
           c == [x \in Names |-> IF x \in WrittenNames THEN load.config[x] ELSE Defaults[x]]
<1>2. ConfigOk(load.config) /\ BindingsOk(b) /\ PreservedOk(load.preserved)
  BY LoadParts, ZenonT(60)
<1>3. /\ bound \in Seq(DOMAIN b) /\ k \in Nat /\ m \in Nat /\ n = last + m /\ n \in Nat
      /\ \A x \in DOMAIN b : \E j \in 1..k : bound[j] = x
      /\ \A i \in 1..24 : lines[i] = Line(Written[i].name[1], Written[i].name[2],
                                          load.config[Written[i].name])
      /\ \A j \in 1..k :
           lines[24 + j] = Line(<<"keybindings">> \o bound[j][1], bound[j][2], b[bound[j]])
      /\ \A j \in 1..m : lines[last + j] = rest[j]
      /\ IsSequence(rest)
      /\ \A j \in 1..m : rest[j] \in Restored(load.preserved, under)
      /\ under # <<>> /\ IsSequence(under)
      /\ under = <<"history">> \/ under[1] = "keybindings"
      /\ <<>> \notin SectionsOf(load.preserved) =>
           \A s \in SectionsOf(load.preserved) : LinesOf(rest, s) = LinesOf(load.preserved, s)
  <2>1. Len(bound) \in Nat /\ Len(rest) \in Nat /\ Len(lines) = 24 + Len(bound) + Len(rest)
    BY <1>1 DEF Laid
  <2>2. n = last + m /\ n \in Nat
    BY <2>1
  <2> HIDE DEF n, lines, k, m, b, last, document
  <2> QED BY <1>1, <2>1, <2>2 DEF Laid, k, m, b, last, lines, document
<1>4. /\ m \in Nat /\ n = last + m /\ n \in Nat /\ last \in Nat
  <2> HIDE DEF n, m, last
  <2>1. /\ k \in Nat /\ m \in Nat /\ n = last + m /\ n \in Nat
    BY <1>3
  <2> QED BY <2>1 DEF last
<1>5. PICK f : /\ f[0] = Blank
               /\ \A i \in 1..n : f[i] = ReadLine(f[i - 1], lines[i])
               /\ Read(document) = f[n]
  BY <1>3, ReadSteps
<1>6. Reads(f, lines)
  BY <1>5 DEF Reads
<1> HIDE DEF document
<1>7. f[24] = [config |-> c, bindings |-> <<>>, preserved |-> <<>>]
  <2> DEFINE d == load.config
  <2>1. n >= 24 /\ n = Len(lines) /\ n \in Nat
    BY <1>3
  <2>2. Opens(lines, d)
    BY <1>3, Zenon DEF Opens
  <2>3. ConfigOk(d)
    BY <1>2
  <2> HIDE DEF d, n, lines
  <2>4. f[24] = [config |-> [x \in Names |-> IF x \in WrittenNames THEN d[x] ELSE Defaults[x]],
                 bindings |-> <<>>, preserved |-> <<>>]
    BY <1>6, <2>1, <2>2, <2>3, ReadsOwn
  <2> QED BY <2>4 DEF d
<1>8. f[last] = [config |-> c, bindings |-> b, preserved |-> <<>>]
  <2>1. n >= last /\ last = 24 + Len(bound) /\ n = Len(lines)
    BY <1>3
  <2>2. KeysAt(lines, bound, b) /\ n \in Nat
    BY <1>3 DEF KeysAt
  <2> HIDE DEF n, lines, c, b, last
  <2> QED BY <1>2, <1>6, <1>7, <2>1, <2>2, ReadsKeys
<1>9. \A j \in 1..m : /\ LineOk(rest[j])
                      /\ Foreign(rest[j]) \/ rest[j].section = under
                      /\ <<>> \notin SectionsOf(load.preserved) => Foreign(rest[j])
  <2> HIDE DEF m
  <2> QED BY <1>2, <1>3, RestoredIs
<1>10. ConfigOk(c) /\ \A x \in WrittenNames : c[x] = load.config[x]
  BY <1>2, DefaultsAreLegal, WrittenAreNames DEF ConfigOk
<1>11. LoadOk(f[last])
  <2>1. PreservedOk(<<>>)
    BY DEF PreservedOk, IsSequence
  <2> HIDE DEF c, b, last
  <2> QED BY <1>2, <1>8, <1>10, <2>1, LoadMade
<1> HIDE DEF c, b, lines, n, k, m
<1>12. \A j \in 1..m : f[last + j] = ReadLine(f[last + (j - 1)], rest[j])
  <2> HIDE DEF last
  <2>1. \A j \in 1..m : last + j \in 1..n /\ (last + j) - 1 = last + (j - 1)
    BY <1>4
  <2>2. \A j \in 1..m : lines[last + j] = rest[j]
    BY <1>3
  <2> QED BY <1>5, <2>1, <2>2
<1>13. last \in Nat
  BY <1>4
<1> HIDE DEF last
<1>14. LoadOk(f[n]) /\ \A x \in Endpoint : f[n].config[x] = f[last].config[x]
  <2> DEFINE Same(g) == LoadOk(g) /\ \A x \in Endpoint : g.config[x] = f[last].config[x]
             T == {j \in 0..m : Same(f[last + j])}
  <2>1. 0 \in T
    <3>1. Same(f[last])
      BY <1>11
    <3>2. last + 0 = last /\ 0 \in 0..m
      BY <1>4
    <3> HIDE DEF Same
    <3> QED BY <3>1, <3>2
  <2>2. ASSUME NEW j \in 1..m, j - 1 \in T PROVE j \in T
    <3> DEFINE old == f[last + (j - 1)]
    <3>1. Same(old)
      <4> HIDE DEF Same, old
      <4> QED BY <2>2 DEF old
    <3>2. f[last + j] = ReadLine(old, rest[j]) /\ j \in 0..m
      <4> HIDE DEF T
      <4>1. j \in 0..m
        BY <1>4
      <4> QED BY <1>12, <4>1
    <3>3. LineOk(rest[j]) /\ (Foreign(rest[j]) \/ rest[j].section = under)
      <4> HIDE DEF T
      <4> QED BY <1>9
    <3> HIDE DEF old, T
    <3>4. LoadOk(ReadLine(old, rest[j]))
      BY <3>1, <3>3, ReadLineOk
    <3>5. ASSUME NEW x \in Endpoint PROVE ReadLine(old, rest[j]).config[x] = old.config[x]
      <4>1. PICK key : x = <<Mpd, key>>
        BY EndpointIs
      <4>2. x \in Names
        BY EndpointIs
      <4>3. LoadOk(old)
        BY <3>1
      <4>4. (under = <<"history">> \/ under[1] = "keybindings") /\ under # <<>>
        BY <1>3
      <4> DEFINE line == rest[j]
      <4>5. Foreign(line) \/ line.section = under
        BY <3>3
      <4> HIDE DEF Same, line
      <4>6. ReadLine(old, line).config[x] = old.config[x]
        BY <4>1, <4>2, <4>3, <4>4, <4>5, ReadLineKeepsMpd
      <4> QED BY <4>6 DEF line
    <3>6. Same(ReadLine(old, rest[j]))
      BY <3>1, <3>4, <3>5
    <3> HIDE DEF Same
    <3> QED BY <3>2, <3>6 DEF T
  <2>3. m \in T
    <3> HIDE DEF T
    <3>1. 0..m \subseteq T
      BY <1>4, <2>1, <2>2, UpToInduction
    <3> QED BY <1>4, <3>1
  <2>4. Same(f[last + m])
    <3> HIDE DEF Same
    <3> QED BY <2>3
  <2> QED BY <1>4, <2>4
<1>15. \A x \in Endpoint : Read(document).config[x] = load.config[x]
  <2>1. f[last].config = c
    BY <1>8
  <2> QED BY <1>5, <1>10, <1>14, <2>1, EndpointIs
<1>16. ASSUME <<>> \notin SectionsOf(load.preserved)
       PROVE  Read(document) = [config |-> c, bindings |-> b, preserved |-> rest]
  <2>1. \A j \in 1..m : lines[last + j] = rest[j] /\ Foreign(rest[j])
    BY <1>3, <1>9, <1>16
  <2>2. KeptAt(lines, last, rest) /\ IsSequence(rest)
    BY <1>3, <2>1 DEF KeptAt, n, m
  <2>3. f[Len(lines)] = [config |-> c, bindings |-> b, preserved |-> rest]
    BY <1>6, <1>8, <1>13, <2>2, ReadsKept
  <2> QED BY <1>5, <2>3 DEF n
<1>17. ASSUME <<>> \notin SectionsOf(load.preserved)
       PROVE  /\ \A x \in WrittenNames : Read(document).config[x] = load.config[x]
              /\ Read(document).bindings = b
              /\ \A s \in SectionsOf(load.preserved) :
                   LinesOf(Read(document).preserved, s) = LinesOf(load.preserved, s)
  <2>1. Read(document).config = c /\ Read(document).bindings = b /\ Read(document).preserved = rest
    BY <1>16, <1>17
  <2> QED BY <1>3, <1>10, <1>17, <2>1
<1> QED BY <1>15, <1>17 DEF document, b
-----------------------------------------------------------------------------
(* Saving.                                                                   *)

\* The recursive function of LeftBy, for the first n steps of a save.
Saving(f, file0, document, n) ==
  f = [i \in 0..n |->
         IF i = 0 THEN [file |-> file0, temp |-> NoFile, synced |-> FALSE, behind |-> {file0}]
         ELSE Advance(f[i - 1], SaveSteps[i], document)]

\* The recursive function of LeftBy exists.
LEMMA SavingExist ==
  ASSUME NEW file0, NEW document, NEW n \in Nat
  PROVE  \E f : Saving(f, file0, document, n)
<1> DEFINE start == [file |-> file0, temp |-> NoFile, synced |-> FALSE, behind |-> {file0}]
           T == {k \in 0..n : \E f : Saving(f, file0, document, k)}
<1>1. 0 \in T
  <2>1. Saving([i \in 0..0 |-> start], file0, document, 0)
    BY DEF Saving
  <2> QED BY <2>1
<1>2. ASSUME NEW k \in 1..n, k - 1 \in T PROVE k \in T
  <2>1. PICK f : Saving(f, file0, document, k - 1)
    BY <1>2
  <2> HIDE DEF start
  <2> DEFINE g == [i \in 0..k |->
                     IF i < k THEN f[i] ELSE Advance(f[k - 1], SaveSteps[k], document)]
  <2>2. \A i \in 0..k - 1 :
          f[i] = IF i = 0 THEN start ELSE Advance(f[i - 1], SaveSteps[i], document)
    BY <2>1 DEF Saving, start
  <2>3. \A i \in 0..k :
          g[i] = IF i = 0 THEN start ELSE Advance(g[i - 1], SaveSteps[i], document)
    BY <2>2
  <2>4. Saving(g, file0, document, k)
    BY <2>3 DEF Saving, start
  <2> QED BY <2>4
<1> HIDE DEF T
<1>3. 0..n \subseteq T
  BY <1>1, <1>2, UpToInduction
<1> QED BY <1>3 DEF T

\* A save leaves the old document or the new one, wherever it is cut off.
LEMMA LeftByIs ==
  ASSUME NEW file0, NEW document, NEW n \in 0..5
  PROVE  LeftBy(file0, n, document) \subseteq {file0, document}
<1> DEFINE start == [file |-> file0, temp |-> NoFile, synced |-> FALSE, behind |-> {file0}]
           f == CHOOSE g : Saving(g, file0, document, n)
           Loose(a, t, b) == [file |-> a, temp |-> t, synced |-> FALSE, behind |-> b]
           Flushed(a, t, b) == [file |-> a, temp |-> t, synced |-> TRUE, behind |-> b]
<1>1. LeftBy(file0, n, document) = {f[n].file} \cup f[n].behind
  BY DEF LeftBy, Saving
<1>2. Saving(f, file0, document, n)
  BY SavingExist
<1> HIDE DEF f, start
<1>3. f = [i \in 0..n |-> IF i = 0 THEN start ELSE Advance(f[i - 1], SaveSteps[i], document)]
  BY <1>2 DEF Saving, start
<1>4. f[0] = start /\ \A i \in 1..n : f[i] = Advance(f[i - 1], SaveSteps[i], document)
  <2>1. 0 \in 0..n /\ \A i \in 1..n : i \in 0..n /\ i # 0
    OBVIOUS
  <2> QED BY <1>3, <2>1
<1>5. /\ SaveSteps[1] = "open" /\ SaveSteps[2] = "write" /\ SaveSteps[3] = "fsync"
      /\ SaveSteps[4] = "rename" /\ SaveSteps[5] = "settle"
  BY DEF SaveSteps
<1>6. ASSUME NEW a, NEW t, NEW b
      PROVE  Advance(Loose(a, t, b), "open", document) = Loose(a, Torn, b)
  BY DEF Advance
<1>7. ASSUME NEW a, NEW t, NEW b
      PROVE  Advance(Loose(a, t, b), "write", document) = Loose(a, document, b)
  BY DEF Advance
<1>8. ASSUME NEW a, NEW t, NEW b
      PROVE  Advance(Loose(a, t, b), "fsync", document) = Flushed(a, t, b)
  BY DEF Advance
<1>9. ASSUME NEW a, NEW t, NEW b
      PROVE  Advance(Flushed(a, t, b), "rename", document) = Flushed(t, t, {a, t})
  BY DEF Advance
<1>10. ASSUME NEW a, NEW t, NEW b
      PROVE  Advance(Flushed(a, t, b), "settle", document) = Flushed(a, t, {t})
  BY DEF Advance
<1>11. f[0] = Loose(file0, NoFile, {file0})
  BY <1>4 DEF start
<1> HIDE DEF Loose, Flushed
<1>12. /\ n >= 1 => f[1] = Advance(f[0], "open", document)
       /\ n >= 2 => f[2] = Advance(f[1], "write", document)
       /\ n >= 3 => f[3] = Advance(f[2], "fsync", document)
       /\ n >= 4 => f[4] = Advance(f[3], "rename", document)
       /\ n >= 5 => f[5] = Advance(f[4], "settle", document)
  BY <1>4, <1>5
<1>13. n >= 1 => f[1] = Loose(file0, Torn, {file0})
  BY <1>12, <1>6, <1>11
<1>14. n >= 2 => f[2] = Loose(file0, document, {file0})
  BY <1>12, <1>7, <1>13
<1>15. n >= 3 => f[3] = Flushed(file0, document, {file0})
  BY <1>12, <1>8, <1>14
<1>16. n >= 4 => f[4] = Flushed(document, document, {file0, document})
  BY <1>12, <1>9, <1>15
<1>17. n >= 5 => f[5] = Flushed(document, document, {document})
  BY <1>12, <1>10, <1>16
<1>18. \A a, t, b : /\ Loose(a, t, b).file = a /\ Loose(a, t, b).behind = b
                    /\ Flushed(a, t, b).file = a /\ Flushed(a, t, b).behind = b
  BY DEF Loose, Flushed
<1>19. n = 0 \/ n = 1 \/ n = 2 \/ n = 3 \/ n = 4 \/ n = 5
  OBVIOUS
<1>20. {f[n].file} \cup f[n].behind \subseteq {file0, document}
  BY <1>11, <1>13, <1>14, <1>15, <1>16, <1>17, <1>18, <1>19
<1> QED BY <1>1, <1>20
-----------------------------------------------------------------------------
(* The rows of the panes.                                                    *)

\* A row edits a setting there is, and offers legal values. Only the fields of
\* the connection edit one of its settings.
RowOk(r) ==
  /\ r.kind = "number" => /\ r.name \in Names /\ Ranged(Table[Row[r.name]]) /\ r.scale \in Int
                          /\ r.name \notin Endpoint \ {Port}
  /\ r.kind = "input"  => r.name \in {Host, Password}
  /\ r.kind = "select" => /\ r.name \in Names /\ r.name \notin Endpoint /\ 1 \in DOMAIN r.options
                          /\ \A i \in DOMAIN r.options : r.options[i] \in Legal[r.name]
  /\ r.kind = "toggle" => /\ r.name \in Names /\ r.name \notin Endpoint
                          /\ r.name # Display => Legal[r.name] = {"true", "false"}

\* Rows by their kind.
LEMMA PlainRowOk ==
  ASSUME NEW label PROVE RowOk(Heading(label)) /\ RowOk(Note) /\ RowOk(Item("action", label, Host))
  BY DEF RowOk, Heading, Note, Item

\* A field of the connection,
LEMMA FieldOk ==
  ASSUME NEW label, NEW name \in {Host, Password} PROVE RowOk(Item("input", label, name))
  BY DEF RowOk, Item

\* a number in its range,
LEMMA NumericOk ==
  ASSUME NEW label, NEW name \in Names, Ranged(Table[Row[name]]), name \notin Endpoint \ {Port}
  PROVE  RowOk(Numeric(label, name)) /\ RowOk([Numeric(label, name) EXCEPT !.scale = 10])
  BY DEF RowOk, Numeric, Item

\* a switch,
LEMMA ToggleOk ==
  ASSUME NEW label, NEW name \in Names, name \notin Endpoint,
         name # Display => Legal[name] = {"true", "false"}
  PROVE  RowOk(Toggle(label, name))
  BY DEF RowOk, Toggle, Item

\* and a choice.
LEMMA SelectOk ==
  ASSUME NEW label, NEW name \in Names, name \notin Endpoint, NEW options, 1 \in DOMAIN options,
         \A i \in DOMAIN options : options[i] \in Legal[name]
  PROVE  RowOk(Select(label, name, options))
  BY DEF RowOk, Select, Item

\* What a pane shows but the connection is no setting of it.
LEMMA NotEndpoint ==
  /\ <<General, "start_page">> \notin Endpoint /\ <<General, "stop_on_exit">> \notin Endpoint
  /\ <<General, "seek_step">> \notin Endpoint /\ <<General, "volume_step">> \notin Endpoint
  /\ <<Mpd, "auto_reconnect">> \notin Endpoint
  /\ <<Looks, "theme">> \notin Endpoint /\ Display \notin Endpoint
  /\ <<Bars, "palette">> \notin Endpoint /\ <<Bars, "sensitivity">> \notin Endpoint
  /\ <<Bars, "refresh_hz">> \notin Endpoint /\ <<Bars, "bar_density">> \notin Endpoint
  /\ Port \notin Endpoint \ {Port}
  /\ <<General, "stop_on_exit">> # Display /\ <<Mpd, "auto_reconnect">> # Display
  BY DEF Endpoint, Host, Port, Password, Timeout, Display, Mpd, General, Looks, Bars

\* A pane starts with its rows in order.
RowsOk(rows) ==
  rows \in Seq(ToSet(rows)) /\ \A i \in DOMAIN rows : RowOk(rows[i])

\* Every row of the General pane edits a setting legally.
LEMMA GeneralRowsOk == RowsOk(GeneralRows)
<1>1. DOMAIN GeneralRows = 1..18
  BY DEF GeneralRows
<1>2. /\ GeneralRows \in Seq(ToSet(GeneralRows)) /\ DOMAIN GeneralRows = 1..18
  <2>1. IsSequence(GeneralRows)
    BY DEF GeneralRows, IsSequence
  <2> QED BY <2>1, SequenceIs, <1>1
<1>3. /\ GeneralRows[1] = Heading("Startup")
      /\ GeneralRows[2] = Select("Startup page", <<General, "start_page">>, <<"library", "core">>)
      /\ GeneralRows[3] = Toggle("Stop MPD on exit", <<General, "stop_on_exit">>)
      /\ GeneralRows[4] = Heading("Steps")
      /\ GeneralRows[5] = Numeric("Seek step", <<General, "seek_step">>)
      /\ GeneralRows[6] = Numeric("Volume step", <<General, "volume_step">>)
  BY DEF GeneralRows
<1>4. /\ GeneralRows[7] = Heading("MPD server")
      /\ GeneralRows[8] = Note /\ GeneralRows[9] = Note /\ GeneralRows[10] = Note
      /\ GeneralRows[11] = Item("input", "Host", Host)
      /\ GeneralRows[12] = Numeric("Port", Port)
  BY DEF GeneralRows
<1>5. /\ GeneralRows[13] = Item("input", "Password", Password)
      /\ GeneralRows[14] = Toggle("Auto reconnect", <<Mpd, "auto_reconnect">>)
      /\ GeneralRows[15] = Heading("Actions")
      /\ GeneralRows[16] = Item("action", "Save and reconnect", Host)
      /\ GeneralRows[17] = Item("action", "Update database", Host)
      /\ GeneralRows[18] = Note
  BY DEF GeneralRows
<1>6. RowOk(Select("Startup page", <<General, "start_page">>, <<"library", "core">>))
  <2> DEFINE options == <<"library", "core">>
  <2>1. 1 \in DOMAIN options /\ \A i \in DOMAIN options : options[i] \in {"library", "core"}
    OBVIOUS
  <2> HIDE DEF options
  <2>2. RowOk(Select("Startup page", <<General, "start_page">>, options))
    BY <2>1, SelectOk, PaneNames, NotEndpoint
  <2> QED BY <2>2 DEF options
<1>7. /\ RowOk(Toggle("Stop MPD on exit", <<General, "stop_on_exit">>))
      /\ RowOk(Toggle("Auto reconnect", <<Mpd, "auto_reconnect">>))
  BY ToggleOk, PaneNames, NotEndpoint
<1>8. /\ RowOk(Numeric("Seek step", <<General, "seek_step">>))
      /\ RowOk(Numeric("Volume step", <<General, "volume_step">>))
  BY NumericOk, PaneNames, NotEndpoint
<1>9. RowOk(Numeric("Port", Port))
  BY NumericOk, PaneNames, NotEndpoint DEF Port
<1>10. RowOk(Item("input", "Host", Host)) /\ RowOk(Item("input", "Password", Password))
  BY FieldOk
<1>11. /\ RowOk(GeneralRows[1]) /\ RowOk(GeneralRows[2]) /\ RowOk(GeneralRows[3])
       /\ RowOk(GeneralRows[4]) /\ RowOk(GeneralRows[5]) /\ RowOk(GeneralRows[6])
  BY <1>3, <1>6, <1>7, <1>8, PlainRowOk
<1>12. /\ RowOk(GeneralRows[7]) /\ RowOk(GeneralRows[8]) /\ RowOk(GeneralRows[9])
       /\ RowOk(GeneralRows[10]) /\ RowOk(GeneralRows[11]) /\ RowOk(GeneralRows[12])
  BY <1>4, <1>9, <1>10, PlainRowOk
<1>13. /\ RowOk(GeneralRows[13]) /\ RowOk(GeneralRows[14]) /\ RowOk(GeneralRows[15])
       /\ RowOk(GeneralRows[16]) /\ RowOk(GeneralRows[17]) /\ RowOk(GeneralRows[18])
  BY <1>5, <1>7, <1>10, PlainRowOk
<1>14. \A i \in 1..18 : RowOk(GeneralRows[i])
  BY <1>11, <1>12, <1>13
<1> QED BY <1>2, <1>14 DEF RowsOk

\* So do those of the Appearance pane: those above,
LEMMA ThemeRowsOk == RowsOk(ThemeRows)
<1>1. ThemeRows \in Seq(ToSet(ThemeRows)) /\ DOMAIN ThemeRows = 1..5
  BY DEF ThemeRows, ToSet
<1>2. /\ ThemeRows[1] = Heading("Theme") /\ ThemeRows[2] = Select("Theme", <<Looks, "theme">>, Themes)
      /\ ThemeRows[3] = Heading("Visualization")
      /\ ThemeRows[4] = Toggle("Spectrum", Display) /\ ThemeRows[5] = Toggle("Disc", Display)
  BY DEF ThemeRows
<1>3. 1 \in DOMAIN Themes /\ \A i \in DOMAIN Themes : Themes[i] \in STRING
  BY PaneAssumption
<1>4. RowOk(Select("Theme", <<Looks, "theme">>, Themes))
  BY <1>3, SelectOk, PaneNames, NotEndpoint
<1>5. RowOk(Toggle("Spectrum", Display)) /\ RowOk(Toggle("Disc", Display))
  BY ToggleOk, PaneNames, NotEndpoint DEF Display
<1>6. \A i \in 1..5 : RowOk(ThemeRows[i])
  BY <1>2, <1>4, <1>5, PlainRowOk
<1> QED BY <1>1, <1>6 DEF RowsOk

\* those that only the spectrum shows,
LEMMA SpectrumRowsOk == RowsOk(SpectrumRows)
<1> DEFINE row1 == Heading("Spectrum settings")
           row2 == Select("Palette", <<Bars, "palette">>, <<"theme", "ice", "fire", "rainbow">>)
           row3 == [Numeric("Sensitivity", <<Bars, "sensitivity">>) EXCEPT !.scale = 10]
           row4 == Numeric("Refresh", <<Bars, "refresh_hz">>)
           row5 == Numeric("Bands", <<Bars, "bar_density">>)
<1>1. SpectrumRows = <<row1, row2, row3, row4, row5>>
  BY DEF SpectrumRows
<1>2. RowOk(row1)
  BY PlainRowOk
<1>3. RowOk(row2)
  BY SelectOk, PaneNames, NotEndpoint
<1>4. RowOk(row3) /\ RowOk(row4) /\ RowOk(row5)
  BY NumericOk, PaneNames, NotEndpoint
<1> HIDE DEF row1, row2, row3, row4, row5
<1>5. SpectrumRows \in Seq(ToSet(SpectrumRows)) /\ DOMAIN SpectrumRows = 1..5
  BY <1>1 DEF ToSet
<1>6. \A i \in 1..5 : RowOk(SpectrumRows[i])
  BY <1>1, <1>2, <1>3, <1>4
<1> QED BY <1>5, <1>6 DEF RowsOk

\* and all of them.
LEMMA AppearanceRowsOk == ASSUME NEW display PROVE RowsOk(AppearanceRows(display))
<1> DEFINE more == IF display = "spectrum" THEN SpectrumRows ELSE <<>>
           rows == ThemeRows \o more
           S == {r \in ToSet(ThemeRows) \cup ToSet(SpectrumRows) : RowOk(r)}
<1>1. ThemeRows \in Seq(S) /\ SpectrumRows \in Seq(S)
  BY ThemeRowsOk, SpectrumRowsOk DEF RowsOk, ToSet
<1>2. more \in Seq(S)
  BY <1>1
<1> HIDE DEF more, S
<1>3. rows \in Seq(S) /\ rows \in Seq(ToSet(rows))
  BY <1>1, <1>2, JoinedAt
<1> HIDE DEF rows
<1>4. \A i \in DOMAIN rows : rows[i] \in S
  BY <1>3
<1>5. RowsOk(rows)
  BY <1>3, <1>4 DEF RowsOk, S
<1> QED BY <1>5 DEF AppearanceRows, rows, more

Displays == {"spectrum", "disc"}

\* Every row on screen is in order, and the cursor has one to be on.
LEMMA RowsAre ==
  ASSUME NEW section \in Sections, NEW built \in Displays
  PROVE  /\ Rows[section][built] \in Seq(ToSet(Rows[section][built]))
         /\ \A i \in DOMAIN Rows[section][built] : RowOk(Rows[section][built][i])
         /\ Selectable(Rows[section][built]) # {}
         /\ Selectable(Rows[section][built]) \subseteq DOMAIN Rows[section][built]
         /\ DOMAIN Rows[section][built] \subseteq Nat
<1> DEFINE rows == IF section = "General" THEN GeneralRows ELSE AppearanceRows(built)
           kept == {r \in ToSet(rows) : r.kind = "heading" \/ r.label \in Offered}
           mine == Selected(rows, kept)
<1>1. Rows[section][built] = mine
  BY DEF Rows, Displays
<1>2. RowsOk(rows)
  BY GeneralRowsOk, AppearanceRowsOk
<1> HIDE DEF kept
<1> HIDE DEF rows
<1>3. mine \in Seq(ToSet(rows))
  BY <1>2, SelectedOf DEF RowsOk
<1>4. \A r \in ToSet(rows) : RowOk(r)
  BY <1>2 DEF RowsOk, ToSet
<1> HIDE DEF mine
<1>5. mine \in Seq(ToSet(mine)) /\ \A i \in DOMAIN mine : RowOk(mine[i])
  BY <1>3, <1>4 DEF ToSet
<1>6. Selectable(mine) # {}
  BY <1>1, PaneAssumption DEF Displays
<1>7. Selectable(mine) \subseteq DOMAIN mine /\ DOMAIN mine \subseteq Nat
  BY <1>5 DEF Selectable
<1> QED BY <1>1, <1>5, <1>6, <1>7
-----------------------------------------------------------------------------
(* The cursor of a pane.                                                     *)

\* A set of numbers below another has a last one.
LEMMA LastOf ==
  ASSUME NEW n \in Nat, NEW S \in SUBSET (1..n), S # {}
  PROVE  \E m \in S : \A i \in S : i <= m
<1> DEFINE T == {n - i : i \in S}
<1>1. T \in SUBSET Nat /\ T # {}
  <2>1. PICK i \in S : TRUE
    OBVIOUS
  <2>2. n - i \in T
    OBVIOUS
  <2>3. \A j \in S : n - j \in Nat
    OBVIOUS
  <2> QED BY <2>2, <2>3
<1>2. PICK t \in T : \A u \in T : t <= u
  BY <1>1, FirstOf
<1>3. PICK m \in S : t = n - m
  BY <1>2
<1>4. ASSUME NEW i \in S PROVE i <= m
  <2>1. n - i \in T /\ i \in Int /\ m \in Int
    OBVIOUS
  <2> HIDE DEF T
  <2>2. n - m <= n - i
    BY <1>2, <1>3, <2>1
  <2> QED BY <2>1, <2>2
<1> QED BY <1>4

\* The row that j or k moves to, and the one that a pane opens with.
LEMMA NextSelectableIs ==
  ASSUME NEW section \in Sections, NEW built \in Displays, NEW from, NEW delta \in {-1, 1}
  PROVE  NextSelectable(Rows[section][built], from, delta) \in Selectable(Rows[section][built])
<1> DEFINE rows == Rows[section][built]
           all == Selectable(rows)
           beyond == {i \in all : (i - from) * delta > 0}
           S == IF beyond = {} THEN all ELSE beyond
<1>1. rows \in Seq(ToSet(rows)) /\ all # {} /\ all \subseteq DOMAIN rows
  BY RowsAre
<1>2. S # {} /\ S \subseteq all
  BY <1>1
<1>3. NextSelectable(rows, from, delta) = CHOOSE i \in S : \A j \in S : i * delta <= j * delta
  BY DEF NextSelectable
<1> HIDE DEF all, rows
<1>4. Len(rows) \in Nat /\ S \subseteq 1..Len(rows)
  BY <1>1, <1>2
<1> HIDE DEF S
<1>5. \E i \in S : \A j \in S : i * delta <= j * delta
  <2>1. CASE delta = 1
    <3>1. PICK i \in S : \A j \in S : i <= j
      BY <1>2, <1>4, FirstOf
    <3>2. \A j \in S : i * 1 <= j * 1
      BY <3>1, <1>4
    <3> QED BY <3>2, <2>1
  <2>2. CASE delta = -1
    <3>1. PICK i \in S : \A j \in S : j <= i
      BY <1>2, <1>4, LastOf
    <3>2. \A j \in S : i * (-1) <= j * (-1)
      BY <3>1, <1>4
    <3> QED BY <3>2, <2>2
  <2> QED BY <2>1, <2>2
<1>6. NextSelectable(rows, from, delta) \in S
  BY <1>3, <1>5
<1> QED BY <1>6, <1>2 DEF all, rows

\* A cursor is on a row that can be selected. A field that is open is one of
\* text or of a number, and its buffer holds what can be typed; a curtain that
\* is open is that of a select.
RowUnder(section, c) == Rows[section][c.built][c.selected]

CursorOk(section, c) ==
  /\ c = [built |-> c.built, selected |-> c.selected, editing |-> c.editing,
          buffer |-> c.buffer, open |-> c.open, candidate |-> c.candidate]
  /\ c.built \in Displays /\ c.selected \in Selectable(Rows[section][c.built])
  /\ c.editing \in BOOLEAN /\ c.open \in BOOLEAN /\ ~(c.editing /\ c.open)
  /\ c.editing => /\ RowUnder(section, c).kind \in {"input", "number"}
                  /\ c.buffer \in {Empty} \cup Typed[RowUnder(section, c).label]
  /\ c.open => /\ RowUnder(section, c).kind = "select"
               /\ c.candidate \in DOMAIN RowUnder(section, c).options

ListOk(l) == l = [s \in Sections |-> l[s]] /\ \A s \in Sections : CursorOk(s, l[s])

\* A list that is filled has its cursor on a row that can be selected,
LEMMA FilledOk ==
  ASSUME NEW section \in Sections, NEW built \in Displays,
         NEW selected \in Selectable(Rows[section][built])
  PROVE  CursorOk(section, Filled(section, built, selected))
  BY DEF CursorOk, Filled

\* and so has one that is refilled, wherever the cursor was (setting_list.cpp).
LEMMA RefilledOk ==
  ASSUME NEW section \in Sections, NEW display \in Displays, NEW old
  PROVE  CursorOk(section, Refilled(section, display, old))
<1> DEFINE rows == Rows[section][display]
           all == Selectable(rows)
           label == Rows[section][old.built][old.selected].label
           same == {i \in all : rows[i].label = label}
           selected == IF same = {} THEN NextSelectable(rows, 0, 1)
                       ELSE CHOOSE i \in same : \A j \in same : i <= j
<1>1. Refilled(section, display, old) = Filled(section, display, selected)
  BY DEF Refilled
<1>2. all \subseteq DOMAIN rows /\ DOMAIN rows \subseteq Nat
  BY RowsAre
<1> HIDE DEF all
<1>3. NextSelectable(rows, 0, 1) \in all
  BY NextSelectableIs DEF all
<1>4. same \subseteq all
  OBVIOUS
<1> HIDE DEF rows, label, same
<1>5. selected \in all
  <2>1. CASE same = {}
    BY <1>3, <2>1
  <2>2. CASE same # {}
    <3>1. same \in SUBSET Nat
      BY <1>2, <1>4
    <3>2. \E i \in same : \A j \in same : i <= j
      BY <3>1, <2>2, FirstOf
    <3>3. (CHOOSE i \in same : \A j \in same : i <= j) \in same
      BY <3>2
    <3> QED BY <3>3, <1>4, <2>2
  <2> QED BY <2>1, <2>2
<1> HIDE DEF selected
<1> QED BY <1>1, <1>5, FilledOk DEF all, rows
-----------------------------------------------------------------------------
(* The inductive invariant.                                                  *)

\* Every path holds a document that can be read; what is held can be written.
DiskOk(d) == d = [p \in Place |-> d[p]] /\ \A p \in Place : DocumentOk(d[p])
Held(load) == LoadOk(load) /\ TopLinesFirst(load.preserved)

DraftsOk(d) == d = [n \in Drafts |-> d[n]] /\ \A n \in Drafts : d[n] \in Legal[n]

Kinds ==
  /\ running \in BOOLEAN /\ sync \in {"agrees", "unsaved", "blind"} /\ edits \in 0..MaxEdits
  /\ launch \in Launches /\ path \in Place \cup {Nowhere} /\ pane \in Sections

\* What sync = "agrees" says: the file would be read as what is held. Host, port,
\* password and timeout are, even when a line stands before the first header.
EndpointIn(document) == \A n \in Endpoint : Read(document).config[n] = config.config[n]
FileAgrees ==
  running /\ sync = "agrees" =>
    path # Nowhere /\ EndpointIn(disk[path]) /\ SurvivesIn(disk[path])

\* Nothing was asked for at the start: the connection is what the settings say.
Dialled ==
  running /\ launch.cli = NoOptions /\ launch.env = NoOptions =>
    LET said == Resolve(config.config, NoOptions, NoOptions)
    IN  /\ said.host = connection.host /\ said.port = connection.port
        /\ said.password = connection.password /\ said.timeout = connection.timeout

\* The endpoint of the settings is in the file, or it was confirmed.
Confirmed ==
  running /\ path # Nowhere /\ sync # "blind" =>
    \/ DraftsOf(config.config) = Stored(disk[path])
    \/ connection.source = "Core > General" /\ DraftsOf(config.config) = Told(connection)

\* All but the cursors.
Core ==
  /\ Kinds /\ DiskOk(disk) /\ Held(config) /\ DraftsOk(drafts)
  /\ connection.port \in 1..LastPort /\ analyzer = AnalyzerParameters(config.config)
  /\ FileAgrees /\ Dialled /\ Confirmed

Inv == Core /\ ListOk(list)
-----------------------------------------------------------------------------
(* Changing a setting.                                                       *)

\* A setting gets a legal value; nothing else of what is held changes.
LEMMA PutHeld ==
  ASSUME NEW load, Held(load), NEW n \in Names, NEW v \in Legal[n]
  PROVE  /\ Held([load EXCEPT !.config[n] = v])
         /\ [load EXCEPT !.config[n] = v].config = [load.config EXCEPT ![n] = v]
         /\ [load EXCEPT !.config[n] = v].preserved = load.preserved
         /\ \A m \in Names \ {n} : [load EXCEPT !.config[n] = v].config[m] = load.config[m]
         /\ [load EXCEPT !.config[n] = v].config[n] = v
<1> DEFINE c == load.config  b == load.bindings  p == load.preserved
           d == [c EXCEPT ![n] = v]
           new == [load EXCEPT !.config[n] = v]
<1>1. load = [config |-> c, bindings |-> b, preserved |-> p]
  BY DEF Held, LoadOk
<1>2. ConfigOk(c) /\ BindingsOk(b) /\ PreservedOk(p) /\ TopLinesFirst(p)
  BY DEF Held, LoadOk
<1>3. new = [load EXCEPT !.config = d]
  OBVIOUS
<1> HIDE DEF c, b, p
<1>4. ConfigOk(d) /\ d[n] = v /\ \A m \in Names \ {n} : d[m] = c[m]
  BY <1>2 DEF ConfigOk
<1> HIDE DEF d
<1>5. new = [config |-> d, bindings |-> b, preserved |-> p]
  BY <1>1, <1>3
<1> HIDE DEF new
<1>6. new.config = d /\ new.preserved = p
  BY <1>5
<1>7. LoadOk(new)
  BY <1>2, <1>4, <1>5, LoadMade
<1>8. Held(new)
  BY <1>2, <1>6, <1>7 DEF Held
<1> QED BY <1>4, <1>6, <1>8 DEF new, d, c, p

\* What is written can be read.
LEMMA WriteHeld == ASSUME NEW load, Held(load) PROVE DocumentOk(Write(load))
  BY WriteOk DEF Held

\* A save takes five steps.
LEMMA StepsOfSave == Len(SaveSteps) = 5
  BY DEF SaveSteps

\* A save leaves the disk readable, and says truly how the file stands.
LEMMA SaveIs ==
  ASSUME Core, NEW new, Held(new), Save(new), running
  PROVE  /\ edits' \in 0..MaxEdits /\ running' \in BOOLEAN
         /\ sync' \in {"agrees", "unsaved", "blind"} /\ config' = new
         /\ DiskOk(disk')
         /\ \A p \in Place :
              disk'[p] \in {disk[p]} \cup (IF p = path THEN {Write(config')} ELSE {})
         /\ running' =>
              \/ path # Nowhere /\ sync' = "agrees" /\ disk'[path] = Write(new)
              \/ sync' # "agrees" /\ (sync = "blind" => sync' = "blind") /\ disk' = disk
<1>1. /\ edits \in 0..MaxEdits /\ MaxEdits \in Nat /\ edits < MaxEdits /\ edits' = edits + 1
      /\ config' = new /\ path \in Place \cup {Nowhere} /\ running \in BOOLEAN
      /\ sync \in {"agrees", "unsaved", "blind"} /\ DiskOk(disk) /\ DocumentOk(Write(new))
  BY WriteHeld, SettingsAssumption DEF Core, Kinds, Save
<1>2. edits' \in 0..MaxEdits
  BY <1>1
<1>3. ASSUME NEW left \in {disk[path], Write(new)}, path # Nowhere, disk' = [disk EXCEPT ![path] = left]
      PROVE  /\ DiskOk(disk') /\ disk'[path] = left
             /\ \A p \in Place :
                  disk'[p] \in {disk[p]} \cup (IF p = path THEN {Write(config')} ELSE {})
  <2>1. path \in Place
    BY <1>1, <1>3
  <2>2. DocumentOk(left)
    BY <1>1, <2>1, <1>3 DEF DiskOk
  <2>3. disk' = [p \in Place |-> IF p = path THEN left ELSE disk[p]]
    BY <1>1, <1>3, <2>1 DEF DiskOk
  <2> QED BY <1>1, <1>3, <2>1, <2>2, <2>3 DEF DiskOk
<1>4. CASE /\ path # Nowhere /\ disk' = [disk EXCEPT ![path] = Write(new)]
           /\ sync' = "agrees" /\ UNCHANGED running
  BY <1>1, <1>2, <1>3, <1>4
<1>5. CASE /\ sync' = IF sync = "blind" THEN sync ELSE "unsaved"
           /\ UNCHANGED <<disk, running>>
  BY <1>1, <1>2, <1>5
<1>6. CASE /\ path # Nowhere
           /\ \E done \in 0..Len(SaveSteps) : \E left \in LeftBy(disk[path], done, Write(new)) :
                disk' = [disk EXCEPT ![path] = left]
           /\ running' = FALSE /\ UNCHANGED sync
  <2>1. PICK done \in 0..5 : \E left \in LeftBy(disk[path], done, Write(new)) :
                disk' = [disk EXCEPT ![path] = left]
    BY <1>6, StepsOfSave
  <2>2. PICK left \in LeftBy(disk[path], done, Write(new)) : disk' = [disk EXCEPT ![path] = left]
    BY <2>1
  <2>3. left \in {disk[path], Write(new)}
    BY <2>2, LeftByIs
  <2>4. /\ DiskOk(disk')
        /\ \A p \in Place :
             disk'[p] \in {disk[p]} \cup (IF p = path THEN {Write(config')} ELSE {})
    BY <1>3, <1>6, <2>2, <2>3
  <2> QED BY <1>1, <1>2, <1>6, <2>4
<1> QED BY <1>4, <1>5, <1>6 DEF Save
\* A save makes the file agree, or says that it does not.
LEMMA SaveAgrees ==
  ASSUME Core, NEW new, Held(new), Save(new), running, UNCHANGED <<launch, path>>
  PROVE  FileAgrees'
<1>1. config' = new
  BY SaveIs
<1>2. SUFFICES ASSUME running', sync' = "agrees"
               PROVE  /\ path' # Nowhere /\ EndpointIn(disk[path])' /\ SurvivesIn(disk[path])'
  BY DEF FileAgrees
<1>3. path # Nowhere /\ disk'[path] = Write(new)
  BY <1>2, SaveIs
<1>4. /\ \A n \in Endpoint : Read(Write(new)).config[n] = new.config[n]
      /\ <<>> \notin SectionsOf(new.preserved) =>
           /\ \A n \in WrittenNames : Read(Write(new)).config[n] = new.config[n]
           /\ Read(Write(new)).bindings = new.bindings
           /\ \A s \in SectionsOf(new.preserved) :
                LinesOf(Read(Write(new)).preserved, s) = LinesOf(new.preserved, s)
  BY RoundTrip DEF Held
<1>5. EndpointIn(disk[path])'
  BY <1>1, <1>3, <1>4 DEF EndpointIn
<1>6. SurvivesIn(disk[path])'
  BY <1>1, <1>3, <1>4 DEF SurvivesIn, SectionsOf
<1> QED BY <1>3, <1>5, <1>6

\* What a document stores of a load that was written.
LEMMA StoredIs ==
  ASSUME NEW load, Held(load)
  PROVE  Stored(Write(load)) = DraftsOf(load.config)
<1>1. \A n \in Drafts : Read(Write(load)).config[n] = load.config[n]
  BY RoundTrip DEF Held, Drafts, Endpoint
<1> QED BY <1>1 DEF Stored, DraftsOf

\* A connection is resolved from the four settings of the endpoint alone.
LEMMA ResolvesFrom ==
  ASSUME NEW c, NEW d, \A n \in Endpoint : c[n] = d[n], NEW cli, NEW env
  PROVE  Resolve(c, cli, env) = Resolve(d, cli, env)
<1>1. c[Host] = d[Host] /\ c[Port] = d[Port] /\ c[Password] = d[Password] /\ c[Timeout] = d[Timeout]
  BY DEF Endpoint
<1> QED BY <1>1 DEF Resolve

\* The analyzer is started with settings of its own section.
LEMMA AnalyzerNamesAre ==
  /\ AnalyzerNames \subseteq Names /\ AnalyzerNames \cap Drafts = {}
  /\ \A n \in AnalyzerNames : n[1] = Bars
<1>1. /\ <<Bars, "fifo_path">> \in Names /\ <<Bars, "sample_rate">> \in Names
      /\ <<Bars, "channels">> \in Names
  <2>1. Found(20) /\ Found(21) /\ Found(22)
    BY RowAt
  <2>2. /\ Written[20].name = <<Bars, "fifo_path">> /\ Written[21].name = <<Bars, "sample_rate">>
        /\ Written[22].name = <<Bars, "channels">>
    BY WrittenSays
  <2> QED BY <2>1, <2>2, Zenon DEF Found
<1>2. AnalyzerNames \subseteq Names
  BY <1>1, PaneNames DEF AnalyzerNames
<1>3. \A n \in AnalyzerNames : n[1] = Bars
  BY DEF AnalyzerNames
<1>4. \A n \in Drafts : n[1] # Bars
  BY DEF Drafts, Host, Port, Password, Mpd, Bars
<1>5. AnalyzerNames \cap Drafts = {}
  BY <1>3, <1>4, Zenon
<1> QED BY <1>2, <1>3, <1>5

\* A row of a pane but the connection's changes a setting: the invariant stays.
LEMMA SetKeepsCore ==
  ASSUME Core, running, NEW n \in Names, n \notin Endpoint, NEW v \in Legal[n], Set(n, v),
         UNCHANGED <<launch, path, drafts, pane>>
  PROVE  Core'
<1> DEFINE new == [config EXCEPT !.config[n] = v]
<1>1. Save(new) /\ UNCHANGED connection
      /\ analyzer' = IF n[1] = Bars THEN AnalyzerParameters(new.config) ELSE analyzer
  BY DEF Set
<1>2. Held(config) /\ analyzer = AnalyzerParameters(config.config)
  BY DEF Core
<1>3. Held(new) /\ \A m \in Names \ {n} : new.config[m] = config.config[m]
  BY <1>2, PutHeld
<1> HIDE DEF new
<1>4. config' = new /\ Kinds' /\ DiskOk(disk')
  BY <1>1, <1>3, SaveIs DEF Core, Kinds
<1>5. FileAgrees'
  BY <1>1, <1>3, SaveAgrees
<1>6. \A m \in Endpoint : config'.config[m] = config.config[m]
  BY <1>3, <1>4, EndpointIs
<1>7. Dialled'
  BY <1>1, <1>6, ResolvesFrom DEF Dialled, Core
<1>8. DraftsOf(config'.config) = DraftsOf(config.config)
  BY <1>6 DEF DraftsOf, Drafts, Endpoint
<1>9. Confirmed'
  <2> SUFFICES ASSUME running', path' # Nowhere, sync' # "blind"
               PROVE  \/ DraftsOf(config'.config) = Stored(disk'[path'])
                      \/ connection'.source = "Core > General" /\ DraftsOf(config'.config) = Told(connection')
    BY DEF Confirmed
  <2>1. CASE disk'[path] = Write(new)
    BY <2>1, <1>3, <1>4, StoredIs
  <2>2. CASE sync # "blind" /\ disk' = disk
    BY <2>2, <1>1, <1>8 DEF Confirmed, Core
  <2> QED BY <2>1, <2>2, <1>1, <1>3, SaveIs
<1>10. analyzer' = AnalyzerParameters(config'.config)
  <2>1. CASE n[1] = Bars
    BY <2>1, <1>1, <1>4
  <2>2. CASE n[1] # Bars
    <3>1. \A m \in AnalyzerNames : config'.config[m] = config.config[m]
      BY <2>2, <1>3, <1>4, AnalyzerNamesAre
    <3> QED BY <3>1, <2>2, <1>1, <1>2 DEF AnalyzerParameters
  <2> QED BY <2>1, <2>2
<1> QED BY <1>1, <1>3, <1>4, <1>5, <1>7, <1>9, <1>10 DEF Core
-----------------------------------------------------------------------------
(* The steps.                                                                *)

\* Keys that change no setting: only the cursor, the drafts or the section on
\* screen move.
LEMMA CoreSame ==
  ASSUME Core, UNCHANGED <<file, launch, path, config, connection, analyzer>>,
         DraftsOk(drafts'), pane' \in Sections
  PROVE  Core'
<1>1. UNCHANGED <<disk, sync, edits, running>>
  BY DEF file
<1>2. Kinds'
  BY <1>1 DEF Core, Kinds
<1>3. FileAgrees'
  BY <1>1 DEF Core, FileAgrees, EndpointIn, SurvivesIn
<1>4. Dialled' /\ Confirmed'
  BY <1>1 DEF Core, Dialled, Confirmed
<1> QED BY <1>1, <1>2, <1>3, <1>4 DEF Core

\* The row under the cursor.
LEMMA HereIs ==
  ASSUME Inv
  PROVE  /\ CursorOk(pane, cursor) /\ pane \in Sections /\ here = RowUnder(pane, cursor)
         /\ RowOk(here) /\ here.kind # "heading"
         /\ here.kind = "input"  => Typed[here.label] \subseteq STRING
         /\ here.kind = "number" => Typed[here.label] \subseteq Int \cup {Garbage}
<1>1. pane \in Sections /\ CursorOk(pane, cursor)
  BY DEF Inv, Core, Kinds, ListOk, cursor
<1>2. here = RowUnder(pane, cursor)
  BY DEF here, RowUnder
<1> DEFINE built == cursor.built  i == cursor.selected  rows == Rows[pane][built]
<1>3. built \in Displays /\ i \in Selectable(rows) /\ here = rows[i]
  BY <1>1, <1>2 DEF CursorOk, RowUnder
<1> HIDE DEF built, i
<1>4. i \in DOMAIN rows /\ RowOk(rows[i]) /\ rows[i].kind # "heading"
  BY <1>1, <1>3, RowsAre DEF Selectable
<1>5. /\ rows[i].kind = "input"  => Typed[rows[i].label] \subseteq STRING
      /\ rows[i].kind = "number" => Typed[rows[i].label] \subseteq Int \cup {Garbage}
  BY <1>1, <1>3, PaneAssumption DEF Displays
<1> QED BY <1>1, <1>2, <1>3, <1>4, <1>5

\* A cursor that is put on a row keeps the other lists as they are.
LEMMA CursorMoves ==
  ASSUME ListOk(list), pane \in Sections, NEW c, CursorOk(pane, c), With(c)
  PROVE  ListOk(list')
  BY DEF ListOk, With

\* A field or a curtain that is left is closed.
LEMMA ClosedOk == ASSUME Inv PROVE CursorOk(pane, Closed)
<1>1. CursorOk(pane, cursor)
  BY HereIs
<1> DEFINE c == cursor  new == Closed
<1>2. new = [c EXCEPT !.editing = FALSE, !.buffer = Empty, !.open = FALSE, !.candidate = 1]
  BY DEF Closed
<1> HIDE DEF c, new
<1>3. new = [built |-> c.built, selected |-> c.selected, editing |-> FALSE, buffer |-> Empty,
             open |-> FALSE, candidate |-> 1]
  BY <1>1, <1>2 DEF CursorOk, c
<1>4. CursorOk(pane, new)
  BY <1>1, <1>3 DEF CursorOk, c
<1> QED BY <1>4 DEF new

\* What is typed is brought into the range of the row.
LEMMA ScaledIsLegal ==
  ASSUME NEW row, RowOk(row), row.kind = "number", NEW typed \in Int
  PROVE  Scaled(row, typed) \in Legal[row.name]
<1> DEFINE low == (typed % 65536) * row.scale
           high == ((typed \div 65536) * row.scale + (low \div 65536)) % 65536
           int == (IF high >= 32768 THEN high - 65536 ELSE high) * 65536 + (low % 65536)
<1>1. row.scale \in Int /\ row.name \in Names /\ Ranged(Table[Row[row.name]])
  BY DEF RowOk
<1>2. low \in Int
  BY <1>1
<1> HIDE DEF low
<1>3. high \in Int
  BY <1>1, <1>2
<1> HIDE DEF high
<1>4. int \in Int
  BY <1>2, <1>3
<1>5. Scaled(row, typed) = Clamp(row.name, int)
  BY DEF Scaled, int, high, low
<1> HIDE DEF int
<1> QED BY <1>1, <1>4, <1>5, ClampIsLegal
\* Keys that walk and edit keep the cursor on a row, and type what it can take.
LEMMA MoveCursorKeeps ==
  ASSUME Inv, NEW delta \in {-1, 1}, MoveCursor(delta) PROVE Inv'
<1>1. Core'
  BY CoreSame DEF Inv, Core, Kinds, MoveCursor
<1> DEFINE c == cursor
           n == NextSelectable(Rows[pane][c.built], c.selected, delta)
           i == IF c.candidate + delta \in DOMAIN here.options THEN c.candidate + delta ELSE c.candidate
           walked == [c EXCEPT !.candidate = i]
           moved  == [c EXCEPT !.selected = n]
<1>2. /\ CursorOk(pane, c) /\ pane \in Sections /\ here = RowUnder(pane, c) /\ ~c.editing
      /\ With(IF c.open THEN walked ELSE moved)
  BY HereIs DEF MoveCursor
<1>3. n \in Selectable(Rows[pane][c.built])
  BY <1>2, NextSelectableIs DEF CursorOk
<1>4. c.open => i \in DOMAIN RowUnder(pane, c).options
  BY <1>2 DEF CursorOk
<1> HIDE DEF c, i, n
<1>5. walked = [built |-> c.built, selected |-> c.selected, editing |-> c.editing,
                buffer |-> c.buffer, open |-> c.open, candidate |-> i]
  BY <1>2 DEF CursorOk
<1>6. moved = [built |-> c.built, selected |-> n, editing |-> c.editing,
               buffer |-> c.buffer, open |-> c.open, candidate |-> c.candidate]
  BY <1>2 DEF CursorOk
<1> HIDE DEF walked, moved
<1>7. c.open => CursorOk(pane, walked)
  BY <1>2, <1>4, <1>5 DEF CursorOk, RowUnder
<1>8. ~c.open => CursorOk(pane, moved)
  BY <1>2, <1>3, <1>6 DEF CursorOk
<1>9. ListOk(list')
  BY <1>2, <1>7, <1>8, CursorMoves DEF Inv
<1> QED BY <1>1, <1>9 DEF Inv

\* Escape leaves a field or a curtain.
LEMMA LeaveEditingKeeps == ASSUME Inv, LeaveEditing PROVE Inv'
<1>1. Core'
  BY CoreSame DEF Inv, Core, Kinds, LeaveEditing
<1>2. ListOk(list')
  BY ClosedOk, CursorMoves, HereIs DEF LeaveEditing, Inv
<1> QED BY <1>1, <1>2 DEF Inv

\* A cursor whose field is opened.
LEMMA FieldOpened ==
  ASSUME NEW c, NEW flag, NEW value,
         c = [built |-> c.built, selected |-> c.selected, editing |-> c.editing,
              buffer |-> c.buffer, open |-> c.open, candidate |-> c.candidate]
  PROVE  [c EXCEPT !.editing = flag, !.buffer = value] =
           [built |-> c.built, selected |-> c.selected, editing |-> flag,
            buffer |-> value, open |-> c.open, candidate |-> c.candidate]
<1> DEFINE b == c.built  s == c.selected  e == c.editing  t == c.buffer  o == c.open  k == c.candidate
           d == [c EXCEPT !.editing = flag]
<1>1. c = [built |-> b, selected |-> s, editing |-> e, buffer |-> t, open |-> o, candidate |-> k]
  OBVIOUS
<1> HIDE DEF b, s, e, t, o, k
<1>2. d = [built |-> b, selected |-> s, editing |-> flag, buffer |-> t, open |-> o, candidate |-> k]
  BY <1>1
<1> HIDE DEF d
<1>3. [d EXCEPT !.buffer = value] =
        [built |-> b, selected |-> s, editing |-> flag, buffer |-> value, open |-> o, candidate |-> k]
  BY <1>2
<1> QED BY <1>3 DEF b, s, e, t, o, k, d

\* One whose curtain is.
LEMMA CurtainOpened ==
  ASSUME NEW c, NEW flag, NEW value,
         c = [built |-> c.built, selected |-> c.selected, editing |-> c.editing,
              buffer |-> c.buffer, open |-> c.open, candidate |-> c.candidate]
  PROVE  [c EXCEPT !.open = flag, !.candidate = value] =
           [built |-> c.built, selected |-> c.selected, editing |-> c.editing,
            buffer |-> c.buffer, open |-> flag, candidate |-> value]
<1> DEFINE b == c.built  s == c.selected  e == c.editing  t == c.buffer  o == c.open  k == c.candidate
           d == [c EXCEPT !.open = flag]
<1>1. c = [built |-> b, selected |-> s, editing |-> e, buffer |-> t, open |-> o, candidate |-> k]
  OBVIOUS
<1> HIDE DEF b, s, e, t, o, k
<1>2. d = [built |-> b, selected |-> s, editing |-> e, buffer |-> t, open |-> flag, candidate |-> k]
  BY <1>1
<1> HIDE DEF d
<1>3. [d EXCEPT !.candidate = value] =
        [built |-> b, selected |-> s, editing |-> e, buffer |-> t, open |-> flag, candidate |-> value]
  BY <1>2
<1> QED BY <1>3 DEF b, s, e, t, o, k, d

\* Enter opens a field or a curtain.
LEMMA OpenKeeps == ASSUME Inv, Open PROVE Inv'
<1>1. Core'
  BY CoreSame DEF Inv, Core, Kinds, Open
<1> DEFINE c == cursor
           options == here.options
           value == config.config[here.name]
           i == Chosen(here)
           field   == [c EXCEPT !.editing = TRUE, !.buffer = Empty]
           curtain == [c EXCEPT !.open = TRUE, !.candidate = i]
<1>2. /\ CursorOk(pane, c) /\ pane \in Sections /\ here = RowUnder(pane, c)
      /\ ~c.editing /\ ~c.open
  BY HereIs DEF Open
<1>3. RowOk(here)
  BY HereIs
<1>4. \/ here.kind \in {"input", "number"} /\ With(field)
      \/ here.kind = "select" /\ With(curtain)
  BY DEF Open
<1>5. c = [built |-> c.built, selected |-> c.selected, editing |-> c.editing,
            buffer |-> c.buffer, open |-> c.open, candidate |-> c.candidate]
  BY <1>2 DEF CursorOk
<1>6. here.kind = "select" => i \in DOMAIN options
  <2> SUFFICES ASSUME here.kind = "select"
               PROVE  \E j \in DOMAIN options :
                         options[j] = value \/ (j = 1 /\ value \notin ToSet(options))
    BY DEF Chosen
  <2>1. 1 \in DOMAIN options
    BY <1>3 DEF RowOk
  <2>2. CASE value \in ToSet(options)
    BY <2>2 DEF ToSet
  <2>3. CASE value \notin ToSet(options)
    BY <2>1, <2>3
  <2> QED BY <2>2, <2>3
<1> HIDE DEF c, i, value
<1>7. field = [built |-> c.built, selected |-> c.selected, editing |-> TRUE,
               buffer |-> Empty, open |-> c.open, candidate |-> c.candidate]
  <2> DEFINE flag == TRUE
  <2> HIDE DEF flag
  <2>1. [c EXCEPT !.editing = flag, !.buffer = Empty] =
          [built |-> c.built, selected |-> c.selected, editing |-> flag,
           buffer |-> Empty, open |-> c.open, candidate |-> c.candidate]
    BY <1>5, FieldOpened, ZenonT(60)
  <2> QED BY <2>1 DEF flag
<1>8. curtain = [built |-> c.built, selected |-> c.selected, editing |-> c.editing,
                 buffer |-> c.buffer, open |-> TRUE, candidate |-> i]
  BY <1>5, CurtainOpened
<1> HIDE DEF field, curtain
<1>9. here.kind \in {"input", "number"} => CursorOk(pane, field)
  BY <1>2, <1>7 DEF CursorOk, RowUnder
<1>10. here.kind = "select" => CursorOk(pane, curtain)
  BY <1>2, <1>6, <1>8 DEF CursorOk, RowUnder
<1>11. ListOk(list')
  BY <1>2, <1>4, <1>9, <1>10, CursorMoves DEF Inv
<1> QED BY <1>1, <1>11 DEF Inv

\* A character goes into the field.
LEMMA TypeKeeps == ASSUME Inv, NEW text \in Typed[here.label], Type(text) PROVE Inv'
<1>1. Core'
  BY CoreSame DEF Inv, Core, Kinds, Type
<1> DEFINE c == cursor  typed == [c EXCEPT !.buffer = text]
<1>2. /\ CursorOk(pane, c) /\ pane \in Sections /\ here = RowUnder(pane, c) /\ c.editing
      /\ With(typed)
  BY HereIs DEF Type
<1> HIDE DEF c
<1>3. c = [built |-> c.built, selected |-> c.selected, editing |-> c.editing,
           buffer |-> c.buffer, open |-> c.open, candidate |-> c.candidate]
  BY <1>2 DEF CursorOk
<1>4. typed = [built |-> c.built, selected |-> c.selected, editing |-> c.editing,
               buffer |-> text, open |-> c.open, candidate |-> c.candidate]
  BY <1>3
<1> HIDE DEF typed
<1>5. CursorOk(pane, typed)
  BY <1>2, <1>4 DEF CursorOk, RowUnder
<1>6. ListOk(list')
  BY <1>2, <1>5, CursorMoves DEF Inv
<1> QED BY <1>1, <1>6 DEF Inv

\* Enter in an empty field only leaves it.
LEMMA CommitNothingKeeps == ASSUME Inv, CommitNothing PROVE Inv'
<1>1. Core'
  BY CoreSame DEF Inv, Core, Kinds, CommitNothing
<1>2. ListOk(list')
  BY ClosedOk, CursorMoves, HereIs DEF CommitNothing, Inv
<1> QED BY <1>1, <1>2 DEF Inv

\* What is entered is legal for the row.
LEMMA EnteredIsLegal ==
  ASSUME Inv, cursor.editing, ~Unread
  PROVE  here.name \in Names /\ Entered \in Legal[here.name]
<1>1. /\ RowOk(here) /\ here.kind \in {"input", "number"}
      /\ cursor.buffer \in {Empty} \cup Typed[here.label]
      /\ here.kind = "input"  => Typed[here.label] \subseteq STRING
      /\ here.kind = "number" => Typed[here.label] \subseteq Int \cup {Garbage}
  BY HereIs DEF CursorOk
<1>2. CASE here.kind = "number"
  <2>1. cursor.buffer \in Int
    BY <1>1, <1>2 DEF Unread
  <2> QED BY <1>1, <1>2, <2>1, ScaledIsLegal DEF Entered, RowOk
<1>3. CASE here.kind = "input"
  <2>1. here.name \in Names /\ Legal[here.name] = STRING
    BY <1>1, <1>3, PaneNames DEF RowOk, Host, Password
  <2>2. NoText \in STRING
    BY TextAssumption
  <2> QED BY <1>1, <1>3, <2>1, <2>2 DEF Entered
<1> QED BY <1>1, <1>2, <1>3

\* A host, port or password that is typed is a draft, and no setting yet.
LEMMA CommitDraftKeeps == ASSUME Inv, CommitDraft PROVE Inv'
<1>1. DraftsOk(drafts')
  BY EnteredIsLegal DEF CommitDraft, Inv, Core, DraftsOk
<1>2. Core'
  BY <1>1, CoreSame DEF Inv, Core, Kinds, CommitDraft
<1>3. ListOk(list')
  BY ClosedOk, CursorMoves, HereIs DEF CommitDraft, Inv
<1> QED BY <1>2, <1>3 DEF Inv
\* A step that sets a setting, none of the connection's; one that confirms the
\* connection. No other step saves.
Saves ==
  /\ running /\ UNCHANGED <<path, connection>>
  /\ \E n \in Names \ Endpoint : \E v \in Legal[n] : Set(n, v)

Confirms ==
  /\ running /\ UNCHANGED path /\ connection'.source = "Core > General"
  /\ \E new : Held(new) /\ Save(new) /\ DraftsOf(new.config) = Told(connection')

\* Edits that are confirmed set one setting that is not the connection's.
LEMMA CommitNumberKeeps == ASSUME Inv, CommitNumber PROVE Inv' /\ Saves
<1>1. /\ running /\ cursor.editing /\ here.name \notin Drafts /\ ~Unread
      /\ Set(here.name, Entered) /\ With(Closed) /\ UNCHANGED <<launch, path, drafts, pane>>
  BY DEF CommitNumber
<1>2. here.name \in Names /\ Entered \in Legal[here.name]
  BY <1>1, EnteredIsLegal
<1>3. here.name \notin Endpoint
  <2>1. here.kind \in {"input", "number"} /\ RowOk(here)
    BY <1>1, HereIs DEF CursorOk
  <2> QED BY <2>1, <1>1 DEF RowOk, Drafts, Endpoint
<1>4. Core'
  BY <1>1, <1>2, <1>3, SetKeepsCore DEF Inv
<1>5. ListOk(list')
  BY <1>1, ClosedOk, CursorMoves, HereIs DEF Inv
<1>6. Saves
  BY <1>1, <1>2, <1>3 DEF Saves, Set
<1> QED BY <1>4, <1>5, <1>6 DEF Inv

\* An option that is confirmed is saved.
LEMMA ConfirmKeeps == ASSUME Inv, Confirm PROVE Inv' /\ Saves
<1> DEFINE value == here.options[cursor.candidate]
<1>1. /\ running /\ cursor.open /\ Set(here.name, value) /\ With(Closed)
      /\ UNCHANGED <<launch, path, drafts, pane>>
  BY DEF Confirm
<1>2. RowOk(here) /\ here.kind = "select" /\ cursor.candidate \in DOMAIN here.options
  BY <1>1, HereIs DEF CursorOk
<1>3. here.name \in Names /\ here.name \notin Endpoint /\ value \in Legal[here.name]
  BY <1>2 DEF RowOk
<1> HIDE DEF value
<1>4. Core'
  BY <1>1, <1>3, SetKeepsCore DEF Inv
<1>5. ListOk(list')
  BY <1>1, ClosedOk, CursorMoves, HereIs DEF Inv
<1>6. Saves
  BY <1>1, <1>3 DEF Saves, Set
<1> QED BY <1>4, <1>5, <1>6 DEF Inv

\* A switch that is flipped is saved.
LEMMA FlipKeeps == ASSUME Inv, Flip PROVE Inv' /\ Saves
<1> DEFINE value == IF config.config[here.name] = "true" THEN "false" ELSE "true"
<1>1. /\ running /\ here.kind = "toggle" /\ here.name # Display /\ Set(here.name, value)
      /\ UNCHANGED <<launch, path, drafts, pane, list>>
  BY DEF Flip
<1>2. value \in {"true", "false"}
  OBVIOUS
<1> HIDE DEF value
<1>3. RowOk(here)
  BY HereIs
<1>4. here.name \in Names /\ here.name \notin Endpoint /\ value \in Legal[here.name]
  BY <1>1, <1>2, <1>3 DEF RowOk
<1>5. Core'
  BY <1>1, <1>4, SetKeepsCore DEF Inv
<1>6. Saves
  BY <1>1, <1>4 DEF Saves, Set
<1> QED BY <1>1, <1>5, <1>6 DEF Inv

\* The display that is chosen is saved, and the rows are refilled later.
LEMMA ShowDisplayKeeps == ASSUME Inv, ShowDisplay PROVE Inv' /\ Saves
<1> DEFINE mine == IF here.label = "Disc" THEN "disc" ELSE "spectrum"
<1>1. running /\ Set(Display, mine) /\ UNCHANGED <<launch, path, drafts, pane, list>>
  BY DEF ShowDisplay
<1>2. mine \in {"spectrum", "disc"}
  OBVIOUS
<1> HIDE DEF mine
<1>3. Display \in Names /\ Display \notin Endpoint /\ mine \in Legal[Display]
  BY <1>2, PaneNames, NotEndpoint DEF Display
<1>4. Core'
  BY <1>1, <1>3, SetKeepsCore DEF Inv
<1>5. Saves
  BY <1>1, <1>3 DEF Saves, Set
<1> QED BY <1>1, <1>4, <1>5 DEF Inv

\* Another section comes on screen.
LEMMA OpenSectionKeeps == ASSUME Inv, NEW section \in Sections, OpenSection(section) PROVE Inv'
<1>1. Core' /\ ListOk(list')
  BY CoreSame DEF Inv, Core, Kinds, OpenSection
<1> QED BY <1>1 DEF Inv

\* A frame refills the rows when the display has changed.
LEMMA FrameKeeps == ASSUME Inv, Frame PROVE Inv'
<1>1. Core'
  BY CoreSame DEF Inv, Core, Kinds, Frame
<1>2. config.config[Display] \in Displays
  BY PaneNames DEF Inv, Core, Held, LoadOk, ConfigOk, Display, Displays
<1>3. CursorOk(pane, Refilled(pane, config.config[Display], cursor))
  BY <1>2, HereIs, RefilledOk
<1>4. ListOk(list')
  BY <1>3, HereIs, CursorMoves DEF Frame, Inv
<1> QED BY <1>1, <1>4 DEF Inv

\* The row of the port: what it allows, and what is built in.
LEMMA PortIs == Port \in Names /\ Legal[Port] = 0..LastPort /\ Defaults[Port] = 6600
<1>1. Found(8) /\ Written[8].name = Port
  BY RowAt, WrittenSays DEF Port
<1>2. Written[8] = Number(Mpd, "port", 0, LastPort, 6600)
  BY WrittenRows
<1>3. /\ Number(Mpd, "port", 0, LastPort, 6600).legal = 0..LastPort
      /\ Number(Mpd, "port", 0, LastPort, 6600).default = 6600
  BY Zenon DEF Number, Setting
<1>4. Written[8].legal = 0..LastPort /\ Written[8].default = 6600
  BY <1>2, <1>3
<1>5. Port \in Names /\ Legal[Port] = Written[8].legal /\ Table[Row[Port]] = Written[8]
  BY <1>1, Zenon DEF Found
<1>6. Defaults[Port] = Table[Row[Port]].default
  BY <1>5 DEF Defaults
<1> QED BY <1>4, <1>5, <1>6

\* The port that is built in is below the last one.
LEMMA LastPortIs == LastPort \in Int /\ 6600 <= LastPort
  BY DEF LastPort

\* A connection is to a port there is.
LEMMA ResolvedPort ==
  ASSUME NEW c, ConfigOk(c), NEW cli, cli.port \in 1..LastPort \cup {Empty}, NEW env
  PROVE  Resolve(c, cli, env).port \in 1..LastPort
<1>1. c[Port] \in 0..LastPort
  <2>1. Port \in Names /\ Legal[Port] = 0..LastPort
    BY PortIs
  <2> QED BY <2>1 DEF ConfigOk
<1>2. Defaults[Port] \in 1..LastPort
  BY PortIs, LastPortIs
<1>3. Resolve(c, cli, env).port =
        IF cli.port # Empty THEN cli.port
        ELSE IF env.port \in 1..LastPort THEN env.port
        ELSE IF env.port = Empty /\ c[Port] # 0 THEN c[Port] ELSE Defaults[Port]
  BY DEF Resolve
<1>4. c[Port] # 0 => c[Port] \in 1..LastPort
  BY <1>1, LastPortIs
<1> QED BY <1>2, <1>3, <1>4
\* What is resolved when nothing is asked for.
LEMMA ResolvedPlain ==
  ASSUME NEW c, c[Port] # 0, c[Timeout] \in Legal[Timeout]
  PROVE  /\ Resolve(c, NoOptions, NoOptions).host = IF c[Host] # NoText THEN c[Host] ELSE Defaults[Host]
         /\ Resolve(c, NoOptions, NoOptions).port = c[Port]
         /\ Resolve(c, NoOptions, NoOptions).password = c[Password]
         /\ Resolve(c, NoOptions, NoOptions).timeout = c[Timeout]
<1>1. Empty \notin 1..LastPort
  BY SettingsAssumption
<1> QED BY <1>1 DEF Resolve, NoOptions

\* The endpoint is saved and dialled as one.
LEMMA SaveAndReconnectKeeps == ASSUME Inv, SaveAndReconnect PROVE Inv' /\ Confirms
<1> DEFINE host == IF drafts[Host] = NoText THEN Defaults[Host] ELSE drafts[Host]
           one == [config EXCEPT !.config[Host] = host]
           two == [one EXCEPT !.config[Port] = drafts[Port]]
           new == [two EXCEPT !.config[Password] = drafts[Password]]
<1>1. /\ running /\ ValidPort(drafts[Port]) /\ Save(new)
      /\ connection' = [host |-> host, port |-> drafts[Port], password |-> drafts[Password],
                        timeout |-> config.config[Timeout], source |-> "Core > General"]
      /\ UNCHANGED <<launch, path, analyzer, drafts, pane, list>>
  BY DEF SaveAndReconnect
<1>2. /\ Held(config) /\ analyzer = AnalyzerParameters(config.config)
      /\ Host \in Names /\ Port \in Names /\ Password \in Names /\ Timeout \in Names
      /\ drafts[Host] \in Legal[Host] /\ drafts[Port] \in Legal[Port]
      /\ drafts[Password] \in Legal[Password]
  BY PaneNames DEF Inv, Core, DraftsOk, Drafts, Host, Port, Password, Timeout
<1>3. /\ Host # Port /\ Host # Password /\ Host # Timeout /\ Port # Password /\ Port # Timeout
      /\ Password # Timeout
  BY DEF Host, Port, Password, Timeout
<1>4. host \in Legal[Host] /\ (host = NoText => Defaults[Host] = NoText)
  BY <1>2, DefaultsAreLegal
<1> HIDE DEF host
<1>5. /\ Held(one) /\ one.config[Host] = host
      /\ \A m \in Names \ {Host} : one.config[m] = config.config[m]
  BY <1>2, <1>4, PutHeld
<1> HIDE DEF one
<1>6. /\ Held(two) /\ two.config[Port] = drafts[Port]
      /\ \A m \in Names \ {Port} : two.config[m] = one.config[m]
  BY <1>2, <1>5, PutHeld
<1> HIDE DEF two
<1>7. /\ Held(new) /\ new.config[Password] = drafts[Password]
      /\ \A m \in Names \ {Password} : new.config[m] = two.config[m]
  BY <1>2, <1>6, PutHeld
<1> HIDE DEF new
<1>8. /\ new.config[Host] = host /\ new.config[Port] = drafts[Port]
      /\ new.config[Password] = drafts[Password] /\ new.config[Timeout] = config.config[Timeout]
      /\ \A m \in Names \ Drafts : new.config[m] = config.config[m]
  BY <1>2, <1>3, <1>5, <1>6, <1>7 DEF Drafts
<1>9. config' = new /\ Kinds' /\ DiskOk(disk')
  BY <1>1, <1>7, SaveIs DEF Inv, Core, Kinds
<1>10. FileAgrees'
  BY <1>1, <1>7, SaveAgrees DEF Inv
<1>11. drafts[Port] \in 1..LastPort
  BY <1>1 DEF ValidPort
<1>12. Dialled'
  <2>1. new.config[Timeout] \in Legal[Timeout]
    BY <1>2, <1>7 DEF Held, LoadOk, ConfigOk
  <2>2. new.config[Port] # 0
    BY <1>8, <1>11, LastPortIs
  <2>3. LET said == Resolve(new.config, NoOptions, NoOptions)
        IN  /\ said.host = host /\ said.port = drafts[Port]
            /\ said.password = drafts[Password] /\ said.timeout = config.config[Timeout]
    BY <2>1, <2>2, <1>4, <1>8, ResolvedPlain
  <2> QED BY <2>3, <1>1, <1>9 DEF Dialled
<1>13. DraftsOf(new.config) = Told(connection')
  BY <1>1, <1>3, <1>8 DEF DraftsOf, Told, Drafts
<1>14. Confirmed'
  BY <1>1, <1>9, <1>13 DEF Confirmed
<1>15. analyzer' = AnalyzerParameters(config'.config)
  BY <1>1, <1>2, <1>8, <1>9, AnalyzerNamesAre DEF AnalyzerParameters
<1>16. connection'.port \in 1..LastPort
  BY <1>1, <1>11
<1>17. Core'
  BY <1>1, <1>7, <1>9, <1>10, <1>12, <1>14, <1>15, <1>16 DEF Inv, Core
<1>18. Confirms
  BY <1>1, <1>7, <1>13 DEF Confirms
<1> QED BY <1>1, <1>17, <1>18 DEF Inv

\* What a program without a file holds is in order.
LEMMA BlankHeld == Held(Blank) /\ Blank.config = Defaults
<1>1. Blank.preserved = <<>> /\ Blank.config = Defaults
  BY DEF Blank
<1> QED BY <1>1, BlankOk DEF Held, TopLinesFirst

\* The drafts of a configuration are legal.
LEMMA DraftsOfAre == ASSUME NEW c, ConfigOk(c) PROVE DraftsOk(DraftsOf(c))
<1>1. Drafts \subseteq Names
  BY EndpointIs DEF Drafts, Endpoint
<1> QED BY <1>1 DEF ConfigOk, DraftsOk, DraftsOf

\* Nothing of a program that does not run is out of order.
LEMMA FreshIs ==
  /\ FreshConnection.port \in 1..LastPort /\ DraftsOk(DraftsOf(Defaults)) /\ ListOk(FreshList)
<1>1. ConfigOk(Defaults)
  BY BlankHeld DEF Held, LoadOk
<1>2. FreshConnection.port \in 1..LastPort
  <2>1. NoOptions.port = Empty
    BY DEF NoOptions
  <2> QED BY <1>1, <2>1, ResolvedPort DEF FreshConnection
<1>3. ListOk(FreshList)
  <2>1. "spectrum" \in Displays
    BY DEF Displays
  <2>2. \A s \in Sections :
          CursorOk(s, Filled(s, "spectrum", NextSelectable(Rows[s]["spectrum"], 0, 1)))
    BY <2>1, NextSelectableIs, FilledOk
  <2> QED BY <2>2 DEF ListOk, FreshList
<1> QED BY <1>1, <1>2, <1>3, DraftsOfAre

\* Before a launch, and after a quit.
LEMMA InitIs == ASSUME Init PROVE Inv
<1>1. DiskOk(disk)
  <2>1. disk \in Disks
    BY DEF Init
  <2>2. \A left \in Disks : left = [p \in Place |-> left[p]] /\ \A p \in Place : DocumentOk(left[p])
    BY SettingsAssumption
  <2> QED BY <2>1, <2>2 DEF DiskOk
<1>2. Kinds
  <2>1. MaxEdits \in Nat
    BY SettingsAssumption
  <2>2. /\ running \in BOOLEAN /\ sync = "blind" /\ edits = 0 /\ launch \in Launches
        /\ path = Nowhere /\ pane = "General"
    BY DEF Init
  <2>3. edits \in 0..MaxEdits
    BY <2>1, <2>2
  <2> QED BY <2>2, <2>3 DEF Kinds, Sections
<1>3. Held(config) /\ analyzer = AnalyzerParameters(config.config)
  BY BlankHeld DEF Init
<1>4. FileAgrees /\ Dialled /\ Confirmed
  BY DEF Init, FileAgrees, Dialled, Confirmed
<1> QED BY <1>1, <1>2, <1>3, <1>4, FreshIs DEF Inv, Core, Init

\* The program ends.
LEMMA QuitKeeps == ASSUME Inv, Quit PROVE Inv'
<1>1. DiskOk(disk')
  BY DEF Inv, Core, Quit
<1>2. Kinds'
  BY DEF Inv, Core, Kinds, Quit, Sections
<1>3. Held(config') /\ analyzer' = AnalyzerParameters(config'.config)
  BY BlankHeld DEF Quit
<1>4. FileAgrees' /\ Dialled' /\ Confirmed'
  BY DEF Quit, FileAgrees, Dialled, Confirmed
<1> QED BY <1>1, <1>2, <1>3, <1>4, FreshIs DEF Inv, Core, Quit
\* The settings of the options are laid over what was read.
LEMMA OverlaidIs ==
  ASSUME NEW load, Held(load), NEW l \in Launches
  PROVE  /\ Held(Overlaid(load, l))
         /\ Overlaid(load, l).preserved = load.preserved
         /\ Overlaid(load, l).bindings = load.bindings
         /\ \A n \in Names \ DOMAIN l.flags : Overlaid(load, l).config[n] = load.config[n]
         /\ \A n \in Endpoint : Overlaid(load, l).config[n] = load.config[n]
<1> DEFINE c == load.config  b == load.bindings  p == load.preserved
           d == [n \in Names |-> IF n \in DOMAIN l.flags THEN l.flags[n] ELSE c[n]]
           mine == Overlaid(load, l)
<1>1. load = [config |-> c, bindings |-> b, preserved |-> p]
  BY DEF Held, LoadOk
<1>2. ConfigOk(c) /\ BindingsOk(b) /\ PreservedOk(p) /\ TopLinesFirst(p)
  BY DEF Held, LoadOk
<1>3. mine = [load EXCEPT !.config = d]
  BY DEF Overlaid
<1>4. \A n \in DOMAIN l.flags : n \in Names \ (Drafts \cup {Timeout}) /\ l.flags[n] \in Legal[n]
  BY LaunchAssumption
<1> HIDE DEF c, b, p
<1>5. ConfigOk(d) /\ \A n \in Names \ DOMAIN l.flags : d[n] = c[n]
  BY <1>2, <1>4 DEF ConfigOk
<1> HIDE DEF d, mine
<1>6. mine = [config |-> d, bindings |-> b, preserved |-> p]
  BY <1>1, <1>3
<1>7. mine.config = d /\ mine.preserved = p /\ mine.bindings = b
  BY <1>6
<1>8. Held(mine)
  BY <1>2, <1>5, <1>6, <1>7, LoadMade DEF Held
<1>9. \A n \in Endpoint : n \in Names \ DOMAIN l.flags
  BY <1>4, EndpointIs DEF Drafts, Endpoint
<1> QED BY <1>5, <1>7, <1>8, <1>9 DEF mine, c, b, p

\* A path that is named is one there can be.
LEMMA ConfigPathIs == ASSUME NEW l \in Launches PROVE ConfigPath(l) \in Place \cup {Nowhere}
  BY LaunchAssumption DEF ConfigPath

\* The program starts: what it reads, with the options over it, satisfies the
\* invariant, whatever a person left in the file.
LEMMA LaunchKeeps == ASSUME Inv, NEW l \in Launches, Launch(l) PROVE Inv'
<1> DEFINE p == ConfigPath(l)
<1>1. PICK readable \in BOOLEAN :
        LET read == p # Nowhere /\ (readable \/ disk[p] = NoFile)
            load == IF read THEN Read(disk[p]) ELSE Blank
            mine == Overlaid(load, l)
        IN  /\ launch' = l /\ path' = p /\ config' = mine
            /\ connection' = Resolve(load.config, l.cli, l.env)
            /\ analyzer' = AnalyzerParameters(mine.config)
            /\ drafts' = DraftsOf(mine.config)
            /\ list' = [s \in Sections |->
                          LET built == mine.config[Display]
                          IN  Filled(s, built, NextSelectable(Rows[s][built], 0, 1))]
            /\ sync' = IF read THEN "agrees" ELSE "blind"
  BY DEF Launch
<1> DEFINE read == p # Nowhere /\ (readable \/ disk[p] = NoFile)
           load == IF read THEN Read(disk[p]) ELSE Blank
           mine == Overlaid(load, l)
           built == mine.config[Display]
<1>2. /\ launch' = l /\ path' = p /\ config' = mine
      /\ connection' = Resolve(load.config, l.cli, l.env)
      /\ analyzer' = AnalyzerParameters(mine.config)
      /\ drafts' = DraftsOf(mine.config)
      /\ sync' = IF read THEN "agrees" ELSE "blind"
  BY <1>1
<1>3. list' = [s \in Sections |-> Filled(s, built, NextSelectable(Rows[s][built], 0, 1))]
  BY <1>1
<1>4. running' = TRUE /\ pane' = "General" /\ UNCHANGED <<disk, edits>>
  BY DEF Launch
<1>5. p \in Place \cup {Nowhere}
  BY ConfigPathIs
<1>6. read => p \in Place /\ p # Nowhere /\ load = Read(disk[p])
  BY <1>5
<1>7. ~read => load = Blank
  OBVIOUS
<1> HIDE DEF read, p
<1>8. Held(load)
  <2>1. CASE read
    <3>1. DocumentOk(disk[p])
      BY <2>1, <1>6 DEF Inv, Core, DiskOk
    <3> QED BY <3>1, <2>1, <1>6, ReadOk DEF Held
  <2>2. CASE ~read
    BY <2>2, <1>7, BlankHeld
  <2> QED BY <2>1, <2>2
<1> HIDE DEF load
<1>9. /\ Held(mine) /\ mine.preserved = load.preserved /\ mine.bindings = load.bindings
      /\ \A n \in Names \ DOMAIN l.flags : mine.config[n] = load.config[n]
      /\ \A n \in Endpoint : mine.config[n] = load.config[n]
  BY <1>8, OverlaidIs
<1> HIDE DEF mine
<1>10. ConfigOk(load.config) /\ ConfigOk(mine.config)
  BY <1>8, <1>9 DEF Held, LoadOk
<1>11. built \in Displays
  BY <1>10, PaneNames DEF ConfigOk, Display, Displays
<1> HIDE DEF built
<1>12. ListOk(list')
  <2>1. \A s \in Sections : CursorOk(s, Filled(s, built, NextSelectable(Rows[s][built], 0, 1)))
    BY <1>11, NextSelectableIs, FilledOk
  <2> QED BY <1>3, <2>1 DEF ListOk
<1>13. DiskOk(disk') /\ DraftsOk(drafts')
  BY <1>2, <1>4, <1>10, DraftsOfAre DEF Inv, Core
<1>14. connection'.port \in 1..LastPort
  <2>1. l.cli.port \in 1..LastPort \cup {Empty}
    BY LaunchAssumption
  <2> QED BY <2>1, <1>2, <1>10, ResolvedPort
<1>15. Kinds'
  BY <1>2, <1>4, <1>5 DEF Inv, Core, Kinds, Sections
<1>16. FileAgrees'
  <2> SUFFICES ASSUME sync' = "agrees"
               PROVE  path' # Nowhere /\ EndpointIn(disk[path])' /\ SurvivesIn(disk[path])'
    BY DEF FileAgrees
  <2>1. p # Nowhere /\ load = Read(disk[p])
    BY <1>2, <1>6
  <2>2. EndpointIn(disk[path])'
    BY <1>2, <1>4, <1>9, <2>1 DEF EndpointIn
  <2>3. SurvivesIn(disk[path])'
    BY <1>2, <1>4, <1>9, <2>1, WrittenAreNames DEF SurvivesIn
  <2> QED BY <1>2, <2>1, <2>2, <2>3
<1>17. Dialled'
  <2>1. Resolve(mine.config, NoOptions, NoOptions) = Resolve(load.config, NoOptions, NoOptions)
    BY <1>9, ResolvesFrom
  <2> QED BY <2>1, <1>2 DEF Dialled
<1>18. Confirmed'
  <2>1. DraftsOf(mine.config) = DraftsOf(load.config)
    BY <1>9 DEF DraftsOf, Drafts, Endpoint
  <2>2. read => DraftsOf(mine.config) = Stored(disk[p])
    BY <2>1, <1>6 DEF Stored
  <2>3. sync' # "blind" => read
    BY <1>2
  <2> QED BY <2>2, <2>3, <1>2, <1>4 DEF Confirmed
<1> QED BY <1>2, <1>9, <1>12, <1>13, <1>14, <1>15, <1>16, <1>17, <1>18 DEF Inv, Core

\* Every step keeps the invariant.
LEMMA NextKeeps == ASSUME Inv, [Next]_vars PROVE Inv'
<1>1. CASE \E l \in Launches : Launch(l)
  BY <1>1, LaunchKeeps
<1>2. CASE \E delta \in {-1, 1} : MoveCursor(delta)
  BY <1>2, MoveCursorKeeps
<1>3. CASE LeaveEditing
  BY <1>3, LeaveEditingKeeps
<1>4. CASE Open
  BY <1>4, OpenKeeps
<1>5. CASE CommitDraft
  BY <1>5, CommitDraftKeeps
<1>6. CASE CommitNumber
  BY <1>6, CommitNumberKeeps
<1>7. CASE CommitNothing
  BY <1>7, CommitNothingKeeps
<1>8. CASE Confirm
  BY <1>8, ConfirmKeeps
<1>9. CASE Flip
  BY <1>9, FlipKeeps
<1>10. CASE ShowDisplay
  BY <1>10, ShowDisplayKeeps
<1>11. CASE \E text \in Typed[here.label] : Type(text)
  BY <1>11, TypeKeeps
<1>12. CASE SaveAndReconnect
  BY <1>12, SaveAndReconnectKeeps
<1>13. CASE Frame
  BY <1>13, FrameKeeps
<1>14. CASE Quit
  BY <1>14, QuitKeeps
<1>15. CASE \E section \in Sections : OpenSection(section)
  BY <1>15, OpenSectionKeeps
<1>16. CASE UNCHANGED vars
  <2>1. Core' /\ ListOk(list')
    BY <1>16, CoreSame DEF vars, file, Inv, Core, Kinds
  <2> QED BY <2>1 DEF Inv
<1> QED BY <1>1, <1>2, <1>3, <1>4, <1>5, <1>6, <1>7, <1>8, <1>9, <1>10, <1>11, <1>12, <1>13,
           <1>14, <1>15, <1>16 DEF Next
-----------------------------------------------------------------------------
(* The theorems of the specification.                                        *)

\* The invariant holds in every state: whatever the files said, whatever is typed,
\* and wherever a save is cut off.
THEOREM SettingsInductive == Spec => []Inv
<1>1. Init => Inv
  BY InitIs
<1>2. Inv /\ [Next]_vars => Inv'
  BY NextKeeps
<1> QED BY <1>1, <1>2, PTL DEF Spec

\* No edit, no file and no number that is typed puts a setting out of its range,
\* the cursor stays on a row that can be selected, and the analyzer runs with the
\* settings on screen.
THEOREM SettingsTyped == Spec => []TypeOK
<1>1. Inv => TypeOK
  <2> SUFFICES ASSUME Inv PROVE TypeOK
    OBVIOUS
  <2>1. /\ running \in BOOLEAN /\ sync \in {"agrees", "unsaved", "blind"} /\ edits \in 0..MaxEdits
        /\ pane \in Sections /\ connection.port \in 1..LastPort
        /\ analyzer = AnalyzerParameters(config.config)
    BY DEF Inv, Core, Kinds
  <2>2. \A n \in Names : config.config[n] \in Legal[n]
    BY DEF Inv, Core, Held, LoadOk, ConfigOk
  <2>3. \A n \in Drafts : drafts[n] \in Legal[n]
    <3>1. DraftsOk(drafts)
      BY DEF Inv, Core
    <3> QED BY <3>1 DEF DraftsOk
  <2>4. ASSUME NEW s \in Sections
        PROVE  /\ list[s].selected \in Selectable(Rows[s][list[s].built])
               /\ ~(list[s].editing /\ list[s].open)
               /\ list[s].open =>
                    list[s].candidate \in DOMAIN Rows[s][list[s].built][list[s].selected].options
    <3>1. CursorOk(s, list[s])
      BY DEF Inv, ListOk
    <3> QED BY <3>1 DEF CursorOk, RowUnder
  <2> QED BY <2>1, <2>2, <2>3, <2>4 DEF TypeOK
<1> QED BY <1>1, SettingsInductive, PTL

\* While the file agrees, a launch would read every setting, every binding and
\* every line of a person's as this run holds them (config.cpp:413).
THEOREM ConfigSurvivesLaunch == Spec => []ConfigSurvives
<1>1. Inv => ConfigSurvives
  BY DEF Inv, Core, FileAgrees, ConfigSurvives
<1> QED BY <1>1, SettingsInductive, PTL

\* So would it whatever characters the texts have, if each text is read as it was
\* written: that is a fact about ConfigText alone, and the runs check it.
THEOREM SettingsSurviveLaunch == Spec => [](ValuesSurvive => SettingsSurvive)
<1>1. ConfigSurvives => (ValuesSurvive => SettingsSurvive)
  BY DEF SettingsSurvive
<1> QED BY <1>1, ConfigSurvivesLaunch, PTL

\* While the file agrees, a launch without options or variables would connect to
\* where this run is connected (controller.cpp:746).
THEOREM NextLaunchAgrees == Spec => []NextLaunchConnects
<1>1. Inv => NextLaunchConnects
  <2> SUFFICES ASSUME Inv, running, sync = "agrees", launch.cli = NoOptions, launch.env = NoOptions
               PROVE  LET next == Resolve(Read(disk[path]).config, NoOptions, NoOptions)
                      IN  \A k \in {"host", "port", "password", "timeout"} : next[k] = connection[k]
    BY DEF NextLaunchConnects
  <2>1. Resolve(Read(disk[path]).config, NoOptions, NoOptions)
          = Resolve(config.config, NoOptions, NoOptions)
    BY ResolvesFrom DEF Inv, Core, FileAgrees, EndpointIn
  <2> DEFINE said == Resolve(config.config, NoOptions, NoOptions)
  <2>2. /\ said.host = connection.host /\ said.port = connection.port
        /\ said.password = connection.password /\ said.timeout = connection.timeout
    BY DEF Inv, Core, Dialled
  <2> HIDE DEF said
  <2>3. \A k \in {"host", "port", "password", "timeout"} : said[k] = connection[k]
    BY <2>2
  <2> QED BY <2>1, <2>3 DEF said
<1> QED BY <1>1, SettingsInductive, PTL

\* What a step does to the disk.
LEMMA SetSaves ==
  ASSUME Inv, Saves
  PROVE  \E new : Held(new) /\ Save(new) /\ DraftsOf(new.config) = DraftsOf(config.config)
<1>1. PICK n \in Names \ Endpoint : \E v \in Legal[n] : Set(n, v)
  BY DEF Saves
<1>2. PICK v \in Legal[n] : Set(n, v)
  BY <1>1
<1> DEFINE new == [config EXCEPT !.config[n] = v]
<1>3. Save(new)
  BY <1>2 DEF Set
<1>4. Held(new) /\ \A m \in Names \ {n} : new.config[m] = config.config[m]
  BY PutHeld DEF Inv, Core
<1> HIDE DEF new
<1>5. DraftsOf(new.config) = DraftsOf(config.config)
  BY <1>4, EndpointIs DEF DraftsOf, Drafts, Endpoint
<1> QED BY <1>3, <1>4, <1>5

\* Only a save touches the file.
LEMMA DiskSteps == ASSUME Inv, [Next]_vars PROVE Saves \/ Confirms \/ UNCHANGED disk
<1>1. CASE CommitNumber \/ Confirm \/ Flip \/ ShowDisplay
  BY <1>1, CommitNumberKeeps, ConfirmKeeps, FlipKeeps, ShowDisplayKeeps
<1>2. CASE SaveAndReconnect
  BY <1>2, SaveAndReconnectKeeps, Zenon
<1>3. CASE \/ \E l \in Launches : Launch(l)
           \/ LeaveEditing \/ Open \/ CommitDraft \/ CommitNothing \/ Frame \/ Quit
           \/ UNCHANGED vars
  BY <1>3 DEF Launch, LeaveEditing, Open, CommitDraft, CommitNothing, Frame, Quit, vars, file
<1>4. CASE \/ \E delta \in {-1, 1} : MoveCursor(delta)
           \/ \E text \in Typed[here.label] : Type(text)
           \/ \E section \in Sections : OpenSection(section)
  BY <1>4 DEF MoveCursor, Type, OpenSection, file
<1> QED BY <1>1, <1>2, <1>3, <1>4 DEF Next

\* A step leaves each file as it was, or with the whole document that is held now,
\* though the save is cut off at any of its steps (config.cpp:625).
THEOREM SavesAreAtomic == Spec => SaveIsAtomic
<1>1. Inv /\ [Next]_vars =>
        \A p \in Place : disk'[p] \in {disk[p]} \cup (IF p = path THEN {Write(config')} ELSE {})
  <2> SUFFICES ASSUME Inv, [Next]_vars
               PROVE  \A p \in Place :
                        disk'[p] \in {disk[p]} \cup (IF p = path THEN {Write(config')} ELSE {})
    OBVIOUS
  <2>1. CASE Saves
    BY <2>1, SetSaves, SaveIs DEF Inv, Saves
  <2>2. CASE Confirms
    BY <2>2, SaveIs DEF Inv, Confirms
  <2>3. CASE UNCHANGED disk
    BY <2>3
  <2> QED BY <2>1, <2>2, <2>3, DiskSteps
<1> QED BY <1>1, SettingsInductive, PTL DEF Spec, SaveIsAtomic

\* The host, port and password in the file change only by Save and reconnect, to
\* those it connects to: no other save freezes what the command line or the
\* environment said, nor a draft (main.cpp:253, general.cpp:29).
THEOREM EndpointOnlyConfirmed == Spec => EndpointIsConfirmed
<1> DEFINE Ok == disk' # disk /\ sync # "blind" /\ path # Nowhere
                   /\ Stored(disk'[path]) # Stored(disk[path])
                 => connection'.source = "Core > General" /\ Stored(disk'[path]) = Told(connection')
<1>1. Inv /\ [Next]_vars => Ok
  <2> SUFFICES ASSUME Inv, [Next]_vars, disk' # disk, sync # "blind", path # Nowhere,
                      Stored(disk'[path]) # Stored(disk[path])
               PROVE  connection'.source = "Core > General" /\ Stored(disk'[path]) = Told(connection')
    OBVIOUS
  <2>1. path \in Place
    BY DEF Inv, Core, Kinds
  <2>2. CASE Saves
    <3>1. PICK new : Held(new) /\ Save(new) /\ DraftsOf(new.config) = DraftsOf(config.config)
      BY <2>2, SetSaves
    <3>2. running /\ connection' = connection
      BY <2>2 DEF Saves
    <3>3. disk'[path] = Write(new)
      BY <2>1, <3>1, <3>2, SaveIs DEF Inv
    <3>4. Stored(disk'[path]) = DraftsOf(config.config)
      BY <3>1, <3>3, StoredIs
    <3>5. connection.source = "Core > General" /\ DraftsOf(config.config) = Told(connection)
      BY <3>2, <3>4 DEF Inv, Core, Confirmed
    <3> QED BY <3>2, <3>4, <3>5
  <2>3. CASE Confirms
    <3>1. PICK new : Held(new) /\ Save(new) /\ DraftsOf(new.config) = Told(connection')
      BY <2>3 DEF Confirms
    <3>2. running /\ connection'.source = "Core > General"
      BY <2>3 DEF Confirms
    <3>3. disk'[path] = Write(new)
      BY <2>1, <3>1, <3>2, SaveIs DEF Inv
    <3> QED BY <3>1, <3>2, <3>3, StoredIs
  <2> QED BY <2>2, <2>3, DiskSteps
<1> QED BY <1>1, SettingsInductive, PTL DEF Spec, EndpointIsConfirmed

=============================================================================
