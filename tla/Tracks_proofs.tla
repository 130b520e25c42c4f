---------------------------- MODULE Tracks_proofs ----------------------------
(***************************************************************************)
(* Machine-checked proofs about the frames of the workspace: the geometry  *)
(* computeMetrics() gives every size of the terminal and every configured  *)
(* gap, and the track list drawn in it, for lists, queries and terminals   *)
(* of every size: whatever the keys, edits and refreshes between two       *)
(* frames did to the cursor and to the list, the frame shows the row the   *)
(* next key acts on.                                                       *)
(*                                                                         *)
(* The inductive invariant of the track list is TracksInv.                 *)
(***************************************************************************)
EXTENDS Tracks, Lists_proofs

-----------------------------------------------------------------------------
(* The geometry of a frame: widths are natural numbers.                    *)

LEMMA PercentNat ==
  ASSUME NEW n \in Nat, NEW p \in 0 .. 100
  PROVE  Percent(n, p) \in Nat /\ Percent(n, p) <= n
BY DEF Percent

LEMMA BufferNat == \A w \in Cells : BufferWidth(w) \in Nat
BY DEF BufferWidth, SinglePane, TreeWidth, Percent, Clamped, Most, Cells

LEMMA TableNat == \A w \in Cells : Table(w) \in Nat /\ Table(w) + 2 <= Inner(w)
<1> TAKE w \in Cells
<1>1. BufferWidth(w) \in Nat BY BufferNat
<1> QED BY <1>1 DEF Table, Inner, Most

\* A terminal that is not minimal has a table of at least 50 cells.
LEMMA TableWide ==
  ASSUME NEW w \in Cells, NEW h \in Cells, ~Minimal(w, h)
  PROVE  Table(w) >= 50
BY DEF Minimal, Table, BufferWidth, SinglePane, TreeWidth, Percent, Clamped, Most, Cells

LEMMA IndexNat ==
  ASSUME NEW w \in Cells
  PROVE  IndexWidth(w) \in Nat /\ 12 * IndexWidth(w) <= Table(w)
BY TableNat DEF IndexWidth, Percent, Clamped

LEMMA DurationNat ==
  ASSUME NEW w \in Cells, NEW h \in Cells
  PROVE  Duration(w, h) \in 4 .. 9
<1>1. Percent(Table(w), 12) \in Nat /\ Percent(Table(w), 8) \in Nat
  BY TableNat DEF Percent
<1> QED BY <1>1 DEF Duration, Clamped

-----------------------------------------------------------------------------
(* The rows of the table.                                                  *)

\* Text columns share their budget.
LEMMA SplitFits ==
  ASSUME NEW budget \in Nat,
         NEW title \in 0 .. 100, NEW artist \in 0 .. 100, title + artist <= 100,
         NEW album \in BOOLEAN
  PROVE  /\ Split(budget, title, artist, album).title \in Nat
         /\ Split(budget, title, artist, album).artist \in Nat
         /\ Split(budget, title, artist, album).album \in Nat
         /\ Split(budget, title, artist, album).title
              + Split(budget, title, artist, album).artist
              + Split(budget, title, artist, album).album <= budget
<1>1. Percent(budget, title) \in Nat /\ Percent(budget, artist) \in Nat
  BY PercentNat
<1>2. Percent(budget, title) + Percent(budget, artist) <= budget
  <2>1. budget * title + budget * artist <= budget * 100
    <3>1. budget * (title + artist) <= budget * 100 OBVIOUS
    <3> QED BY <3>1
  <2> QED BY <2>1 DEF Percent
<1> QED BY <1>1, <1>2 DEF Split

\* A row fits if what is not text does: the text columns take no more than
\* what is left, and their three separators fit in the two cells the table is
\* narrower than the pane and in the lead, which counts the title's.
Shares(w, c) ==
  \E title \in 0 .. 100, artist \in 0 .. 100, album \in BOOLEAN :
    /\ title + artist <= 100
    /\ c.text = Split(Left(w, c.index, c.fixed), title, artist, album)

LEMMA RowBound ==
  ASSUME NEW w \in Cells, NEW c, c.index \in Nat, c.fixed \in Nat,
         4 + Spaced(c.index) + c.fixed <= Inner(w), Shares(w, c)
  PROVE  RowWidth(c) <= Inner(w)
<1> DEFINE index == c.index
           fixed == c.fixed
<1> PICK title \in 0 .. 100, artist \in 0 .. 100, album \in BOOLEAN :
      /\ title + artist <= 100
      /\ c.text = Split(Left(w, index, fixed), title, artist, album)
  BY DEF Shares
<1> DEFINE left == Left(w, index, fixed)
<1>1. Spaced(index) \in Nat BY DEF Spaced
<1>2. left \in Nat /\ (left > 0 => left = Table(w) - 5 - Spaced(index) - fixed)
  BY <1>1, TableNat DEF Left, Most, RowLead, TrackIcon
<1>3. /\ c.text.title \in Nat /\ c.text.artist \in Nat /\ c.text.album \in Nat
      /\ c.text.title + c.text.artist + c.text.album <= left
  <2>1. c.text = Split(left, title, artist, album) OBVIOUS
  <2> HIDE DEF left
  <2> QED BY <1>2, <2>1, SplitFits
<1>4. /\ Spaced(c.text.title) \in Nat /\ Spaced(c.text.artist) \in Nat
      /\ Spaced(c.text.album) \in Nat
      /\ Spaced(c.text.title) + Spaced(c.text.artist) + Spaced(c.text.album)
           <= IF left > 0 THEN left + 3 ELSE 0
  BY <1>2, <1>3 DEF Spaced
<1>5. Inner(w) \in Nat BY BufferNat DEF Inner, Most
<1> QED BY <1>1, <1>2, <1>4, <1>5, TableNat DEF RowWidth, TrackIcon

\* At every terminal size the columns of a row of each of the three tables,
\* with their separators, fit the width songRow() clips the row to, and that
\* width fits the pane: no column is cut, no row crosses the divider.
THEOREM RowsFit ==
  ASSUME NEW w \in Cells, NEW h \in Cells
  PROVE  RowFits(w, h) /\ PaneFits(w)
<1>1. Table(w) \in Nat /\ Table(w) + 2 <= Inner(w) /\ Inner(w) \in Nat
  BY TableNat, BufferNat DEF Inner, Most
<1>2. IndexWidth(w) \in Nat /\ 12 * IndexWidth(w) <= Table(w)
  BY IndexNat
<1>3. RowWidth(MinimalColumns(w)) <= Inner(w)
  <2> DEFINE index == IF Table(w) >= 34 THEN IndexWidth(w) ELSE 0
             c == MinimalColumns(w)
  <2>1. index \in Nat /\ 4 + Spaced(index) + Spaced(6) <= Inner(w)
    <3>1. Inner(w) >= 16 BY BufferNat DEF Inner, Most
    <3> QED BY <1>1, <1>2, <3>1 DEF Spaced
  <2>2. /\ c.text = Split(Left(w, index, Spaced(6)), 100, 0, FALSE)
        /\ c.index = index /\ c.fixed = Spaced(6)
    BY DEF MinimalColumns
  <2> HIDE DEF index, c
  <2>3. Spaced(6) \in Nat BY DEF Spaced
  <2>4. Shares(w, c)
    <3>1. 100 \in 0 .. 100 /\ 0 \in 0 .. 100 /\ 100 + 0 <= 100 OBVIOUS
    <3> QED BY <2>2, <3>1 DEF Shares
  <2>5. RowWidth(c) <= Inner(w) BY <2>1, <2>2, <2>3, <2>4, RowBound
  <2> QED BY <2>5 DEF c
<1>4. ASSUME ~Minimal(w, h), NEW index \in 0 .. IndexWidth(w), NEW fixed \in 0 .. 20
      PROVE  4 + Spaced(index) + fixed <= Inner(w)
  <2>1. Table(w) >= 50 BY <1>4, TableWide
  <2> QED BY <1>1, <1>2, <2>1 DEF Spaced
<1>5. Spaced(Duration(w, h)) \in 0 .. 10 /\ Spaced(SizeWidth(w)) \in 0 .. 10
  BY DurationNat DEF Spaced, SizeWidth
<1>6. ASSUME ~Minimal(w, h), NEW fixed \in 0 .. 20
      PROVE  RowWidth([text |-> TextColumns(w, h, fixed), index |-> IndexWidth(w),
                       fixed |-> fixed]) <= Inner(w)
  <2> DEFINE c == [text |-> TextColumns(w, h, fixed), index |-> IndexWidth(w),
                   fixed |-> fixed]
  <2>1. 4 + Spaced(IndexWidth(w)) + fixed <= Inner(w) BY <1>2, <1>4, <1>6
  <2>2. c.index = IndexWidth(w) /\ c.fixed = fixed /\ fixed \in Nat OBVIOUS
  <2>3. ASSUME Compact(w, h) PROVE Shares(w, c)
    <3>1. c.text = Split(Left(w, c.index, c.fixed), 72, 28, FALSE)
      BY <2>3 DEF TextColumns
    <3>2. 72 \in 0 .. 100 /\ 28 \in 0 .. 100 /\ 72 + 28 <= 100 OBVIOUS
    <3> HIDE DEF c
    <3> QED BY <3>1, <3>2 DEF Shares
  <2>4. ASSUME ~Compact(w, h) PROVE Shares(w, c)
    <3>1. c.text = Split(Left(w, c.index, c.fixed), 50, 22, TRUE)
      BY <2>4 DEF TextColumns
    <3>2. 50 \in 0 .. 100 /\ 22 \in 0 .. 100 /\ 50 + 22 <= 100 OBVIOUS
    <3> HIDE DEF c
    <3> QED BY <3>1, <3>2 DEF Shares
  <2>5. RowWidth(c) <= Inner(w)
    <3> HIDE DEF c
    <3> QED BY <1>2, <2>1, <2>2, <2>3, <2>4, RowBound
  <2> QED BY <2>5
<1>7. RowWidth(LibraryColumns(w, h)) <= Inner(w)
  BY <1>3, <1>5, <1>6 DEF LibraryColumns
<1>8. RowWidth(PlaylistColumns(w, h)) <= Inner(w)
  BY <1>3, <1>5, <1>6 DEF PlaylistColumns
<1>9. RowWidth(HistoryColumns(w, h)) <= Inner(w)
  <2> DEFINE c == HistoryColumns(w, h)
             fixed == IF HistoryPlays(w) THEN Spaced(19) ELSE 0
  <2>1. CASE Minimal(w, h) BY <1>3, <2>1 DEF HistoryColumns
  <2>2. CASE ~Minimal(w, h)
    <3>1. HistoryIndex(w) \in 0 .. IndexWidth(w) BY <1>2 DEF HistoryIndex
    <3>2. fixed \in 0 .. 20 BY DEF Spaced
    <3>3. 4 + Spaced(HistoryIndex(w)) + fixed <= Inner(w) BY <1>4, <2>2, <3>1, <3>2
    <3>4. c.index = HistoryIndex(w) /\ c.fixed = fixed BY <2>2 DEF HistoryColumns
    <3>5. \/ c.text = Split(Left(w, c.index, c.fixed), 58, 42, FALSE)
          \/ c.text = Split(Left(w, c.index, c.fixed), 72, 28, FALSE)
      BY <2>2 DEF HistoryColumns
    <3> HIDE DEF c, fixed
    <3>6. HistoryIndex(w) \in Nat /\ fixed \in Nat BY <1>2, <3>1, <3>2
    <3>7. /\ 58 \in 0 .. 100 /\ 42 \in 0 .. 100 /\ 58 + 42 <= 100
          /\ 72 \in 0 .. 100 /\ 28 \in 0 .. 100 /\ 72 + 28 <= 100
      OBVIOUS
    <3>8. Shares(w, c) BY <3>5, <3>7 DEF Shares
    <3>9. RowWidth(c) <= Inner(w) BY <3>3, <3>4, <3>6, <3>8, RowBound
    <3> QED BY <3>9 DEF c
  <2> QED BY <2>1, <2>2
<1>10. PaneFits(w)
  BY DEF PaneFits, Inner, SinglePane, TreeWidth, BufferWidth, Most, Clamped, Percent, Cells
<1> QED BY <1>7, <1>8, <1>9, <1>10 DEF RowFits

-----------------------------------------------------------------------------
(* The workspace and the immersive page.                                   *)

\* The rows of the workspace add up to those of the terminal, with and without
\* the bottom box, and the tree and the playback block to those of the sidebar.
THEOREM WorkspaceAddsUp ==
  ASSUME NEW h \in Cells, NEW up \in BOOLEAN
  PROVE  RowsAddUp(h, up)
BY DEF RowsAddUp, FrameRows, Page, BottomHeight, MainHeight, TreeRows, PlaybackRows,
       SideRows, Most, Cells

LEMMA ControlHeightRange ==
  ASSUME NEW w, NEW h, NEW gap
  PROVE  ControlHeight(w, h, gap) \in 1 .. 2
BY DEF ControlHeight

\* What the immersive page stacks takes exactly the rows of the terminal, and
\* its content and margins exactly the columns inside the frame.
THEOREM ImmersiveAddsUp ==
  ASSUME NEW w \in Cells, NEW h \in Cells, NEW gap \in Int
  PROVE  PageAddsUp(w, h, gap)
<1> DEFINE control == ControlHeight(w, h, gap)
           area == VisualArea(w, h, gap)
<1>1. control \in 1 .. 2 BY ControlHeightRange
<1>2. ASSUME h >= 12
      PROVE  area >= 4 /\ area = h - FrameRows - PlayerGap(h) - control - InfoRows - InfoGap(h)
  <2> HIDE DEF control
  <2> QED BY <1>1, <1>2 DEF VisualArea, BodyHeight, Most, FrameRows, PlayerGap, InfoRows,
        InfoGap, Cells, control
<1>3. ASSUME h >= 12
      PROVE  FrameRows + InfoRows + InfoGap(h) + TopPad(area) + ContainerRows(area)
               + BottomPad(area) + PlayerGap(h) + control = h
  <2> HIDE DEF control, area
  <2>1. TopPad(area) + ContainerRows(area) + BottomPad(area) = area
    BY <1>1, <1>2, <1>3 DEF TopPad, BottomPad, ContainerRows, Most, FrameRows, PlayerGap,
       InfoRows, InfoGap, Cells
  <2> QED BY <1>1, <1>2, <1>3, <2>1 DEF TopPad, BottomPad, ContainerRows, Most, FrameRows,
        PlayerGap, InfoRows, InfoGap, Cells
<1>4. w >= 12 => ContentWidth(w) + 2 * OuterPad(w) = w - 2
  BY DEF ContentWidth, OuterPad, BodyWidth, Most, Least, Cells
<1> QED BY <1>3, <1>4 DEF PageAddsUp

\* What is centred in room for it leaves margins that differ by a cell at most.
LEMMA CentredGrid ==
  ASSUME NEW room \in Nat, NEW grid \in Nat, grid <= room
  PROVE  Centred(room, grid)
BY DEF Centred, GridStart

\* The grid of the visualizer lies inside its container, centred to the cell.
THEOREM GridIsCentred ==
  ASSUME NEW w \in Cells, NEW h \in Cells, NEW gap \in Int
  PROVE  GridFits(w, h, gap)
<1> DEFINE columns == ContentWidth(w)
           rows == ContainerRows(VisualArea(w, h, gap))
<1>1. columns \in Nat /\ columns >= 8
  BY DEF ContentWidth, OuterPad, BodyWidth, Most, Least, Cells
<1>2. rows \in Nat /\ rows >= 4
  <2>1. BodyHeight(w, h, gap) \in Nat
    BY ControlHeightRange DEF BodyHeight, FrameRows, PlayerGap, Most, Cells
  <2>2. VisualArea(w, h, gap) \in Nat BY <2>1 DEF VisualArea, InfoRows, InfoGap, Most
  <2> QED BY <2>2 DEF ContainerRows, TopPad, BottomPad, Most
<1>3. GridColumns(columns) \in Nat /\ GridColumns(columns) <= columns
  <2> HIDE DEF columns
  <2> QED BY <1>1 DEF GridColumns, Bands, ColumnStride, Clamped, Most
<1>4. GridRows(rows) \in Nat /\ GridRows(rows) <= rows
  <2> HIDE DEF rows
  <2> QED BY <1>2 DEF GridRows, Levels, RowStride, Clamped, Most
<1> HIDE DEF columns, rows
<1>5. Centred(columns, GridColumns(columns)) /\ Centred(rows, GridRows(rows))
  BY <1>1, <1>2, <1>3, <1>4, CentredGrid
<1> QED BY <1>5 DEF GridFits, columns, rows

-----------------------------------------------------------------------------
(* The player bar.                                                         *)

LEMMA BarParts ==
  ASSUME NEW w \in Cells, NEW h \in Cells, NEW gap \in Int
  PROVE  /\ ControlsWidth(w, h, gap) \in Nat /\ ControlsWidth(w, h, gap) >= 12
         /\ VolumeBudget(w, h) \in Nat
         /\ ShowVolume(w, h) => VolumeBudget(w, h) >= 6
         /\ Reserved(w, h, gap) \in Nat
<1>1. ControlsWidth(w, h, gap) \in Nat /\ ControlsWidth(w, h, gap) >= 12
  BY DEF ControlsWidth, ButtonWidth, ButtonGap, Clamped, Cells
<1>2. VolumeBudget(w, h) \in Nat /\ (ShowVolume(w, h) => VolumeBudget(w, h) >= 6)
  BY DEF VolumeBudget, ShowVolume, Clamped, Percent, Cells
<1> QED BY <1>1, <1>2 DEF Reserved, Gaps, SmallGap, LargeGap, Times, Padding

\* The bars of the player bar keep their least widths.  Where it has two rows
\* or no volume bar it fits its frame; one row with a volume bar is wider than
\* the terminal by the gap and the speaker's cells computeMetrics() leaves out.
THEOREM PlayerBarGeometry ==
  ASSUME NEW w \in Cells, NEW h \in Cells, NEW gap \in Int
  PROVE  /\ BarKeepsTracks(w, h, gap)
         /\ BarFits(w, h, gap)
         /\ SingleBarIsWider(w, h, gap)
<1>1. /\ ControlsWidth(w, h, gap) \in Nat /\ ControlsWidth(w, h, gap) >= 12
      /\ VolumeBudget(w, h) \in Nat /\ Reserved(w, h, gap) \in Nat
      /\ ShowVolume(w, h) => VolumeBudget(w, h) >= 6
  BY BarParts
<1>2. BarKeepsTracks(w, h, gap)
  BY <1>1 DEF BarKeepsTracks, ProgressWidth, VolumeWidth, Reclaimed, TwoRows, Gaps,
     SmallGap, LargeGap, Times, Padding, Most, Least, Cells
<1>3. ASSUME ~TwoRows(w, h, gap)
      PROVE  ProgressWidth(w, h, gap) + VolumeWidth(w, h, gap)
               = w - Reserved(w, h, gap) + VolumeBudget(w, h)
  BY <1>1, <1>3 DEF ProgressWidth, VolumeWidth, Reclaimed, Most, Least, Cells
<1>4. SingleBarIsWider(w, h, gap)
  BY <1>1, <1>3 DEF SingleBarIsWider, BarWidth, TimelineWidth, Reserved, ProgressWidth,
     VolumeWidth, Reclaimed, Gaps, SmallGap, LargeGap, Times, Padding, ButtonWidth, Most,
     Least, Cells
<1>5. BarFits(w, h, gap)
  <2>1. CASE TwoRows(w, h, gap)
    BY <1>1, <2>1 DEF BarFits, BarWidth, TimelineWidth, ProgressWidth, VolumeWidth, Reclaimed,
       Gaps, SmallGap, LargeGap, Times, Padding, ButtonWidth, ShowVolume, VolumeBudget, Percent, Clamped, Most, Cells
  <2>2. CASE ~TwoRows(w, h, gap)
    BY <1>1, <2>2 DEF BarFits, BarWidth, TimelineWidth, ProgressWidth, VolumeWidth, Reclaimed,
       Reserved, Gaps, SmallGap, LargeGap, Times, Padding, Most, Least, Cells
  <2> QED BY <2>1, <2>2
<1> QED BY <1>2, <1>4, <1>5

-----------------------------------------------------------------------------
(* Numbers.                                                                *)

LEMMA IntRange ==
  /\ MaxInt \in Nat /\ MinInt \in Int /\ MinInt = 0 - MaxInt - 1 /\ MaxInt >= 15
  /\ None = -1 /\ MaxRows \in Nat /\ MaxRows > 0 /\ MaxRows <= MaxInt
  /\ MaxBehind \in Nat
<1>1. MaxInt \in Nat /\ MaxInt >= 15
  BY SMT DEF MaxInt
<1>2. MinInt = 0 - MaxInt - 1
  BY SMT DEF MaxInt, MinInt
<1>3. MaxRows \in 1 .. MaxInt /\ MaxBehind \in Nat
  BY TracksAssumption
<1>4. None = -1
  BY DEF None
<1> QED BY <1>1, <1>2, <1>3, <1>4

LEMMA LeastMost ==
  ASSUME NEW i \in Int, NEW j \in Int
  PROVE  /\ Least(i, j) \in Int /\ Least(i, j) <= i /\ Least(i, j) <= j
         /\ Least(i, j) = i \/ Least(i, j) = j
         /\ Most(i, j) \in Int /\ Most(i, j) >= i /\ Most(i, j) >= j
         /\ Most(i, j) = i \/ Most(i, j) = j
BY DEF Least, Most

LEMMA ClampedIs ==
  ASSUME NEW i \in Int, NEW lo \in Int, NEW hi \in Int, lo <= hi
  PROVE  /\ Clamped(i, lo, hi) \in lo .. hi
         /\ i \in lo .. hi => Clamped(i, lo, hi) = i
BY DEF Clamped

\* The sum of two ints is an int, where it wraps, too.
LEMMA PlusType ==
  ASSUME NEW i \in Position, NEW d \in Int, 0 - MaxInt <= d, d <= MaxInt
  PROVE  /\ Plus(i, d) \in Position /\ Plus(i, d) \in Int
         /\ MinInt <= i + d /\ i + d <= MaxInt => Plus(i, d) = i + d
<1>1. i \in Int /\ MinInt <= i /\ i <= MaxInt
  BY IntRange DEF Position
<1>2. CASE d > 0 /\ i > MaxInt - d
  <2>1. Plus(i, d) = MinInt + (d - 1 - (MaxInt - i))
    BY <1>2 DEF Plus
  <2> QED BY <1>1, <1>2, <2>1, IntRange DEF Position
<1>3. CASE ~(d > 0 /\ i > MaxInt - d) /\ d < 0 /\ i < MinInt - d
  <2>1. Plus(i, d) = MaxInt + (d + 1 + (i - MinInt))
    BY <1>3 DEF Plus
  <2> QED BY <1>1, <1>3, <2>1, IntRange DEF Position
<1>4. CASE ~(d > 0 /\ i > MaxInt - d) /\ ~(d < 0 /\ i < MinInt - d)
  <2>1. Plus(i, d) = i + d
    BY <1>4 DEF Plus
  <2> QED BY <1>1, <1>4, <2>1, IntRange DEF Position
<1> QED BY <1>2, <1>3, <1>4

\* Where the remainder puts a number.
LEMMA RemainderIs ==
  ASSUME NEW i \in Int, NEW n \in Nat \ {0}
  PROVE  i % n \in 0 .. n - 1
OBVIOUS

-----------------------------------------------------------------------------
(* The invariant, by what is typed.                                        *)

ListOk ==
  /\ songs \in Seq(Song) /\ Len(songs) <= MaxRows
  /\ kind \in {"generated", "history", "playlist"}
CursorOk == track \in [cursor : Position, scroll : 0 .. MaxRows]
ModeOk ==
  /\ pane \in {"tree", "tracks"}
  /\ anchor \in {None} \cup 0 .. MaxRows - 1
  /\ search.open => anchor = None /\ pane = "tracks"
BoxOk ==
  /\ search \in [open : BOOLEAN, query : Query \cup {NoQuery},
                 rows : Seq(0 .. MaxRows - 1), cursor : Nat, scroll : 0 .. MaxRows,
                 start : Position]
  /\ search.cursor <= Most(0, Len(search.rows) - 1)
  /\ Len(search.rows) <= MaxRows
  /\ search.open \/ search = Closed
  /\ pattern \in Query \cup {NoQuery}
TakenOk == taken \subseteq 0 .. MaxRows - 1
FrameOk ==
  /\ page \in 1 .. MaxInt
  /\ frame.rows \in Seq(0 .. MaxRows - 1)
  /\ frame.at \in {None} \cup Range(frame.rows)
  /\ frame.marked \subseteq Range(frame.rows)
CountsOk == last_click \in Position /\ behind \in 0 .. MaxBehind

LEMMA InvParts ==
  ASSUME TracksInv
  PROVE  /\ ListOk /\ CursorOk /\ ModeOk /\ BoxOk /\ TakenOk /\ FrameOk /\ CountsOk
         /\ ScreenShowsCursor /\ CursorDrawn
BY DEF TracksInv, TypeOK, ListsBounded, ListOk, CursorOk, ModeOk, BoxOk, TakenOk,
       FrameOk, CountsOk

LEMMA InvNext ==
  ASSUME ListOk', CursorOk', ModeOk', BoxOk', TakenOk', FrameOk', CountsOk',
         ScreenShowsCursor', CursorDrawn'
  PROVE  TracksInv'
BY DEF TracksInv, TypeOK, ListsBounded, ListOk, CursorOk, ModeOk, BoxOk, TakenOk,
       FrameOk, CountsOk

\* What the bounded list is made of.
LEMMA SizeIs ==
  ASSUME ListOk
  PROVE  /\ Size \in Nat /\ Size <= MaxRows /\ DOMAIN songs = 1 .. Size
         /\ \A i \in 0 .. Size - 1 : Row(i) \in Song
<1>1. Size \in Nat /\ Size <= MaxRows /\ DOMAIN songs = 1 .. Size
  BY DEF ListOk, Size
<1>2. ASSUME NEW i \in 0 .. Size - 1 PROVE Row(i) \in Song
  <2>1. i + 1 \in 1 .. Size
    BY <1>1
  <2> QED BY <1>1, <2>1 DEF ListOk, Row
<1> QED BY <1>1, <1>2

LEMMA NearestIs ==
  ASSUME ListOk, NEW i \in Int
  PROVE  /\ Nearest(i) \in Nat /\ Nearest(i) \in Position
         /\ Size = 0 => Nearest(i) = 0
         /\ Size > 0 => Nearest(i) \in 0 .. Size - 1
         /\ i \in 0 .. Size - 1 => Nearest(i) = i
BY SizeIs, IntRange DEF Nearest, Clamped, Most, Position

LEMMA WholeIs ==
  ASSUME ListOk
  PROVE  /\ Whole \in Seq(0 .. Size - 1) /\ Len(Whole) = Size
         /\ \A i \in 1 .. Size : Whole[i] = i - 1
BY SizeIs DEF Whole

\* The results of a search are rows of the list that match.
LEMMA ResultsAre ==
  ASSUME ListOk, NEW q
  PROVE  /\ Results(q) \in Seq(0 .. Size - 1) /\ Len(Results(q)) <= Size
         /\ \A i \in 1 .. Len(Results(q)) : Row(Results(q)[i]) \in Matching[q]
<1>1. CASE q = NoQuery
  BY <1>1, SizeIs DEF Results
<1>2. CASE q # NoQuery
  <2> DEFINE hits == {i \in 0 .. Size - 1 : Row(i) \in Matching[q]}
             rows == Selected(Whole, hits)
  <2>1. /\ rows \in Seq(0 .. Size - 1) /\ Len(rows) <= Size
        /\ Range(rows) = Range(Whole) \cap hits
    BY WholeIs, SelectedOf
  <2>2. Results(q) = rows
    BY <1>2 DEF Results
  <2> HIDE DEF rows
  <2>3. ASSUME NEW i \in 1 .. Len(rows) PROVE Row(rows[i]) \in Matching[q]
    <3>1. rows[i] \in Range(rows)
      BY <2>1 DEF Range
    <3> QED BY <2>1, <3>1
  <2> QED BY <2>1, <2>2, <2>3
<1> QED BY <1>1, <1>2

\* A list of rows of the list is one of rows the bound allows.
LEMMA BoundedRows ==
  ASSUME ListOk, NEW rows \in Seq(0 .. Size - 1)
  PROVE  rows \in Seq(0 .. MaxRows - 1)
<1>1. 0 .. Size - 1 \subseteq 0 .. MaxRows - 1
  BY SizeIs, IntRange
<1> QED BY <1>1, SeqMonotonic

\* The first of some places, by the operator of the search.
LEMMA MinIs ==
  ASSUME NEW S \in SUBSET Nat, S # {}
  PROVE  Min(S) \in S
<1>1. \E m \in S : \A n \in S : m <= n
  BY FirstOf
<1> QED BY <1>1 DEF Min

\* The places the keys may leave a cursor at.
LEMMA PositionHas ==
  /\ Position \subseteq Int /\ MaxInt \in Position
  /\ 0 .. MaxRows \subseteq Position /\ None \in Position
BY IntRange DEF Position

-----------------------------------------------------------------------------
(* What the actions do to a list.                                          *)

LEMMA CutIs ==
  ASSUME NEW S, NEW s \in Seq(S), NEW lo \in Nat, NEW hi \in Nat,
         lo <= hi, hi < Len(s)
  PROVE  Cut(s, lo, hi) \in Seq(S) /\ Len(Cut(s, lo, hi)) <= Len(s)
<1> DEFINE front == SubSeq(s, 1, lo)
           back == SubSeq(s, hi + 2, Len(s))
<1>0. Len(s) \in Nat /\ \A i \in 1 .. Len(s) : s[i] \in S
  OBVIOUS
<1>1. front \in Seq(S) /\ Len(front) = lo
  BY <1>0, SubSeqProperties
<1>2. back \in Seq(S) /\ Len(back) = Len(s) - hi - 1
  BY <1>0, SubSeqProperties
<1>3. Cut(s, lo, hi) = front \o back
  BY DEF Cut
<1> HIDE DEF front, back
<1>4. front \o back \in Seq(S) /\ Len(front \o back) = Len(front) + Len(back)
  BY <1>1, <1>2
<1> QED BY <1>0, <1>1, <1>2, <1>3, <1>4

LEMMA SwappedIs ==
  ASSUME NEW S, NEW s \in Seq(S), NEW i \in 0 .. Len(s) - 1, NEW j \in 0 .. Len(s) - 1
  PROVE  /\ Swapped(s, i, j) \in Seq(S) /\ Len(Swapped(s, i, j)) = Len(s)
         /\ Swapped(s, i, j)[j + 1] = s[i + 1]
<1>1. i + 1 \in 1 .. Len(s) /\ j + 1 \in 1 .. Len(s)
  OBVIOUS
<1> QED BY <1>1 DEF Swapped

\* A history that grew is still one, and within the bound.
LEMMA GrownIs ==
  ASSUME ListOk, NEW h \in Grown
  PROVE  h \in Seq(Song) /\ Len(h) <= MaxRows
<1>1. CASE h = songs
  BY <1>1 DEF ListOk
<1>2. ASSUME NEW s \in Song, h = SubSeq(<<s>> \o songs, 1, Least(MaxRows, Size + 1))
      PROVE  h \in Seq(Song) /\ Len(h) <= MaxRows
  <2> DEFINE longer == <<s>> \o songs
             last == Least(MaxRows, Size + 1)
  <2>1. longer \in Seq(Song) /\ Len(longer) = Size + 1
    BY DEF ListOk, Size
  <2>2. last \in Nat /\ last <= MaxRows /\ last <= Len(longer)
    BY <2>1, SizeIs, IntRange DEF Least
  <2> HIDE DEF longer, last
  <2>3. h = SubSeq(longer, 1, last)
    BY <1>2 DEF longer, last
  <2>4. \A i \in 1 .. last : longer[i] \in Song
    BY <2>1, <2>2
  <2> QED BY <2>2, <2>3, <2>4, SubSeqProperties
<1> QED BY <1>1, <1>2 DEF Grown

\* The rows in the selection's colour are rows of the list, and the row with
\* the cursor is one of them.
LEMMA SelectionIs ==
  ASSUME ListOk, CursorOk, ModeOk, Visual, Size > 0
  PROVE  /\ From \in 0 .. Size - 1 /\ To \in 0 .. Size - 1
         /\ From <= Nearest(track.cursor) /\ Nearest(track.cursor) <= To
<1>1. anchor \in Int
  BY IntRange DEF ModeOk, Visual
<1>2. track.cursor \in Int
  BY PositionHas DEF CursorOk
<1>3. Nearest(anchor) \in 0 .. Size - 1 /\ Nearest(track.cursor) \in 0 .. Size - 1
  BY <1>1, <1>2, NearestIs
<1> QED BY <1>3, SizeIs DEF From, To, Least, Most

-----------------------------------------------------------------------------
(* What a step keeps.                                                      *)

StateOk == ListOk /\ CursorOk /\ ModeOk /\ BoxOk /\ TakenOk

LEMMA ListKept ==
  ASSUME ListOk, UNCHANGED list
  PROVE  ListOk'
BY DEF ListOk, list

LEMMA BoxKept ==
  ASSUME BoxOk, UNCHANGED box
  PROVE  BoxOk' /\ UNCHANGED search
BY DEF BoxOk, box

LEMMA ModeKept ==
  ASSUME ModeOk, UNCHANGED <<pane, anchor>>, search'.open = search.open
  PROVE  ModeOk'
BY DEF ModeOk

LEMMA NothingTaken ==
  ASSUME taken' = {}
  PROVE  TakenOk'
BY DEF TakenOk

LEMMA CursorSet ==
  ASSUME CursorOk, NEW c \in Position, track' = [track EXCEPT !.cursor = c]
  PROVE  CursorOk'
BY DEF CursorOk

LEMMA CursorAtTop ==
  ASSUME track' = [cursor |-> 0, scroll |-> 0]
  PROVE  CursorOk'
BY PositionHas, IntRange DEF CursorOk

LEMMA RowTaken ==
  ASSUME ListOk, NEW i \in Int, Size > 0, taken' = {Nearest(i)}
  PROVE  TakenOk'
BY NearestIs, SizeIs, IntRange DEF TakenOk

LEMMA RangeTaken ==
  ASSUME ListOk, NEW lo \in 0 .. Size - 1, NEW hi \in 0 .. Size - 1, taken' = lo .. hi
  PROVE  TakenOk'
BY SizeIs, IntRange DEF TakenOk

-----------------------------------------------------------------------------
(* The keys that move the cursor.                                          *)

\* A step of one of the keys that leave all but the cursor alone.
LEMMA CursorMoved ==
  ASSUME StateOk, CursorOk', taken' = {}, UNCHANGED <<list, pane, anchor, box>>
  PROVE  StateOk'
<1>1. ListOk' /\ BoxOk' /\ UNCHANGED search /\ TakenOk'
  BY ListKept, BoxKept, NothingTaken DEF StateOk
<1>2. ModeOk'
  BY <1>1, ModeKept DEF StateOk
<1> QED BY <1>1, <1>2 DEF StateOk

LEMMA Steps ==
  ASSUME StateOk, NEW d \in {1, -1}, Step(d)
  PROVE  StateOk'
<1> DEFINE next == Plus(track.cursor, d) % Size
           end == IF next = 0 /\ d = 1 THEN 0
                  ELSE IF next = Size - 1 /\ d = -1 THEN Size ELSE track.scroll
<1>0. ListOk /\ CursorOk /\ track.cursor \in Position /\ track.scroll \in 0 .. MaxRows
  BY DEF StateOk, CursorOk
<1>1. Plus(track.cursor, d) \in Position /\ Plus(track.cursor, d) \in Int
  BY <1>0, PlusType, IntRange
<1>2. ASSUME Size = 0 PROVE CursorOk'
  <2>1. track' = track
    BY <1>2 DEF Step
  <2> QED BY <1>0, <2>1 DEF CursorOk
<1>3. ASSUME Size # 0, Visual PROVE CursorOk'
  <2>1. track' = [track EXCEPT !.cursor = Nearest(Plus(track.cursor, d))]
    BY <1>3 DEF Step
  <2>2. Nearest(Plus(track.cursor, d)) \in Position
    BY <1>0, <1>1, NearestIs
  <2> QED BY <1>0, <2>1, <2>2, CursorSet
<1>4. ASSUME Size # 0, ~Visual PROVE CursorOk'
  <2>1. track' = [cursor |-> next, scroll |-> end]
    BY <1>4 DEF Step
  <2>2. next \in 0 .. Size - 1 /\ Size \in Nat /\ Size <= MaxRows
    BY <1>0, <1>1, <1>4, SizeIs, RemainderIs
  <2> HIDE DEF next
  <2>3. next \in Position
    BY <2>2, PositionHas, IntRange
  <2>4. end \in 0 .. MaxRows
    BY <1>0, <2>2, IntRange
  <2> HIDE DEF end
  <2> QED BY <2>1, <2>3, <2>4 DEF CursorOk
<1>5. CursorOk'
  BY <1>2, <1>3, <1>4
<1>6. taken' = {} /\ UNCHANGED <<list, pane, anchor, box>>
  BY DEF Step
<1> QED BY <1>5, <1>6, CursorMoved

\* Half a page is a number of rows an int can hold.
LEMMA HalfIs ==
  ASSUME FrameOk, NEW d \in {1, -1}
  PROVE  /\ d * Most(1, page \div 2) \in Int
         /\ 0 - MaxInt <= d * Most(1, page \div 2) /\ d * Most(1, page \div 2) <= MaxInt
<1>1. page \in 1 .. MaxInt /\ MaxInt \in Nat /\ MaxInt >= 15
  BY IntRange DEF FrameOk
<1>2. page \div 2 \in Int /\ page \div 2 <= page
  BY <1>1
<1>3. Most(1, page \div 2) \in 1 .. MaxInt
  BY <1>1, <1>2 DEF Most
<1> QED BY <1>1, <1>3

LEMMA Jumps ==
  ASSUME StateOk, FrameOk, Jump
  PROVE  StateOk'
<1>0. CursorOk /\ track.cursor \in Position
  BY DEF StateOk, CursorOk
<1>1. ASSUME track' = [cursor |-> 0, scroll |-> 0] PROVE CursorOk'
  BY <1>1, CursorAtTop
<1>2. ASSUME track' = [track EXCEPT !.cursor = MaxInt] PROVE CursorOk'
  BY <1>0, <1>2, CursorSet, PositionHas
<1>3. ASSUME NEW d \in {1, -1},
             track' = [track EXCEPT !.cursor = Plus(track.cursor, d * Most(1, page \div 2))]
      PROVE  CursorOk'
  <2>1. Plus(track.cursor, d * Most(1, page \div 2)) \in Position
    BY <1>0, HalfIs, PlusType
  <2> QED BY <1>0, <1>3, <2>1, CursorSet
<1>4. CursorOk'
  BY <1>1, <1>2, <1>3 DEF Jump
<1>5. taken' = {} /\ UNCHANGED <<list, pane, anchor, box>>
  BY DEF Jump
<1> QED BY <1>4, <1>5, CursorMoved

LEMMA Lands ==
  ASSUME StateOk, ~search.open, NEW p \in {"tree", "tracks"}, Land(p)
  PROVE  StateOk'
<1>1. PICK c \in Collections : songs' = c.rows /\ kind' = c.kind
  BY DEF Land
<1>2. /\ c.rows \in Seq(Song) /\ Len(c.rows) <= MaxRows
      /\ c.kind \in {"generated", "history", "playlist"}
  BY TracksAssumption
<1>3. ListOk'
  BY <1>1, <1>2 DEF ListOk
<1>4. CursorOk' /\ TakenOk'
  BY CursorAtTop, NothingTaken DEF Land
<1>5. BoxOk' /\ UNCHANGED search
  BY BoxKept DEF Land, StateOk
<1>6. ModeOk'
  BY <1>5 DEF Land, StateOk, ModeOk
<1> QED BY <1>3, <1>4, <1>5, <1>6 DEF StateOk

LEMMA Focuses ==
  ASSUME StateOk, NEW p \in {"tree", "tracks"}, Focus(p)
  PROVE  StateOk'
<1>1. ListOk' /\ CursorOk' /\ TakenOk'
  BY ListKept, NothingTaken DEF Focus, StateOk, CursorOk
<1>2. BoxOk' /\ UNCHANGED search
  BY BoxKept DEF Focus, StateOk
<1>3. ModeOk'
  BY <1>2 DEF Focus, StateOk, ModeOk
<1> QED BY <1>1, <1>2, <1>3 DEF StateOk

-----------------------------------------------------------------------------
(* Selecting, copying, playing and editing.                                *)

\* A key of Visual mode, or one that takes rows.
LEMMA ModeSet ==
  ASSUME StateOk, anchor' \in {None} \cup 0 .. MaxRows - 1, search.open => anchor' = None,
         TakenOk', UNCHANGED <<list, pane, track, box>>
  PROVE  StateOk'
<1>1. ListOk' /\ CursorOk'
  BY ListKept DEF StateOk, CursorOk
<1>2. BoxOk' /\ UNCHANGED search
  BY BoxKept DEF StateOk
<1>3. ModeOk'
  BY <1>2 DEF StateOk, ModeOk
<1> QED BY <1>1, <1>2, <1>3 DEF StateOk

LEMMA EntersVisual ==
  ASSUME StateOk, EnterVisual
  PROVE  StateOk'
<1>1. track.cursor \in Int /\ ListOk
  BY PositionHas DEF StateOk, CursorOk
<1>2. Nearest(track.cursor) \in 0 .. MaxRows - 1
  BY <1>1, NearestIs, SizeIs, IntRange DEF EnterVisual
<1> QED BY <1>2, ModeSet, NothingTaken DEF EnterVisual, InTracks, InPane

LEMMA LeavesVisual ==
  ASSUME StateOk, CancelVisual \/ YankSelection
  PROVE  StateOk'
<1>0. ListOk /\ CursorOk /\ ModeOk
  BY DEF StateOk
<1>1. CASE CancelVisual
  BY <1>1, ModeSet, NothingTaken DEF CancelVisual
<1>2. CASE YankSelection
  <2>1. CASE Size = 0
    BY <1>2, <2>1, ModeSet, NothingTaken DEF YankSelection
  <2>2. CASE Size # 0
    <3>1. From \in 0 .. Size - 1 /\ To \in 0 .. Size - 1 /\ taken' = From .. To
      BY <1>0, <1>2, <2>2, SelectionIs, SizeIs DEF YankSelection
    <3>2. TakenOk'
      BY <1>0, <3>1, RangeTaken
    <3> QED BY <1>2, <3>2, ModeSet DEF YankSelection
  <2> QED BY <2>1, <2>2
<1> QED BY <1>1, <1>2

LEMMA TakesRow ==
  ASSUME StateOk, TakeRow
  PROVE  StateOk'
<1>1. track.cursor \in Int /\ ListOk /\ ModeOk
  BY PositionHas DEF StateOk, CursorOk
<1>2. TakenOk'
  BY <1>1, RowTaken DEF TakeRow
<1> QED BY <1>1, <1>2, ModeSet DEF TakeRow, ModeOk

LEMMA DeletesRecords ==
  ASSUME ListOk, CursorOk, NEW lo, NEW hi, DeleteRecords(lo, hi), UNCHANGED kind
  PROVE  ListOk' /\ CursorOk'
<1>1. PICK h \in Grown : songs' = Selected(h, Song \ {Row(i) : i \in lo .. hi})
  BY DEF DeleteRecords
<1>2. h \in Seq(Song) /\ Len(h) <= MaxRows
  BY GrownIs
<1>3. songs' \in Seq(Song) /\ Len(songs') <= Len(h)
  BY <1>1, <1>2, SelectedOf
<1>4. Len(songs') \in Nat /\ Len(h) \in Nat /\ Len(songs') <= MaxRows
  BY <1>2, <1>3, IntRange
<1>5. track.cursor \in Int
  BY PositionHas DEF CursorOk
<1>6. Clamped(track.cursor, 0, Most(0, Len(songs') - 1)) \in 0 .. MaxRows
  BY <1>4, <1>5, IntRange DEF Clamped, Most
<1>7. CursorOk'
  BY <1>6, CursorSet, PositionHas DEF DeleteRecords
<1> QED BY <1>3, <1>4, <1>7 DEF ListOk

LEMMA DeletesEntries ==
  ASSUME ListOk, CursorOk, NEW lo \in 0 .. Size - 1, NEW hi \in 0 .. Size - 1,
         lo <= hi, DeleteEntries(lo, hi), UNCHANGED kind
  PROVE  ListOk' /\ CursorOk'
<1>0. Size \in Nat /\ Size = Len(songs) /\ Size <= MaxRows
  BY SizeIs DEF Size
<1>1. CASE UNCHANGED <<songs, track>>
  BY <1>1 DEF ListOk, CursorOk
<1>2. CASE /\ songs' \in {songs, Cut(songs, lo, hi)}
           /\ track' = [track EXCEPT !.cursor = Most(0, Least(lo, Len(songs') - 1))]
  <2>1. Cut(songs, lo, hi) \in Seq(Song) /\ Len(Cut(songs, lo, hi)) <= Len(songs)
    BY <1>0, CutIs DEF ListOk
  <2>2. songs' \in Seq(Song) /\ Len(songs') <= Size
    BY <1>0, <1>2, <2>1 DEF ListOk
  <2>3. Len(songs') \in Nat /\ Len(songs') <= MaxRows
    BY <1>0, <2>2, IntRange
  <2>4. Most(0, Least(lo, Len(songs') - 1)) \in 0 .. MaxRows
    BY <1>0, <2>3, IntRange DEF Most, Least
  <2>5. CursorOk'
    BY <1>2, <2>4, CursorSet, PositionHas
  <2> QED BY <2>2, <2>3, <2>5 DEF ListOk
<1> QED BY <1>1, <1>2 DEF DeleteEntries

LEMMA DeletesRange ==
  ASSUME ListOk, CursorOk, NEW lo \in 0 .. Size - 1, NEW hi \in 0 .. Size - 1,
         lo <= hi, Delete(lo, hi)
  PROVE  ListOk' /\ CursorOk' /\ TakenOk' /\ UNCHANGED <<pane, box>>
<1>1. UNCHANGED <<kind, pane, box>>
  BY DEF Delete
<1>2. taken' \subseteq lo .. hi
  BY DEF Delete
<1>3. TakenOk'
  BY <1>2, SizeIs, IntRange DEF TakenOk
<1>4. ASSUME kind = "history" PROVE ListOk' /\ CursorOk'
  <2>1. DeleteRecords(lo, hi)
    BY <1>4 DEF Delete
  <2> QED BY <1>1, <2>1, DeletesRecords
<1>5. ASSUME kind = "playlist" PROVE ListOk' /\ CursorOk'
  <2>1. DeleteEntries(lo, hi)
    BY <1>5 DEF Delete
  <2> QED BY <1>1, <2>1, DeletesEntries
<1>6. ASSUME kind = "generated" PROVE ListOk' /\ CursorOk'
  <2>1. UNCHANGED <<songs, track>>
    BY <1>6 DEF Delete
  <2> QED BY <1>1, <2>1 DEF ListOk, CursorOk
<1>7. kind \in {"generated", "history", "playlist"}
  BY DEF ListOk
<1> QED BY <1>1, <1>3, <1>4, <1>5, <1>6, <1>7

LEMMA DeletesCurrent ==
  ASSUME StateOk, DeleteCurrent
  PROVE  StateOk'
<1>0. ListOk /\ CursorOk /\ ModeOk /\ BoxOk /\ track.cursor \in Int /\ Size > 0
  BY PositionHas DEF StateOk, CursorOk, DeleteCurrent
<1>1. Nearest(track.cursor) \in 0 .. Size - 1
  BY <1>0, NearestIs
<1>2. ListOk' /\ CursorOk' /\ TakenOk' /\ UNCHANGED <<pane, box>>
  BY <1>0, <1>1, DeletesRange DEF DeleteCurrent
<1>3. BoxOk' /\ UNCHANGED search
  BY <1>0, <1>2, BoxKept
<1>4. ModeOk'
  BY <1>0, <1>2, <1>3, ModeKept DEF DeleteCurrent
<1> QED BY <1>2, <1>3, <1>4 DEF StateOk

LEMMA DeletesSelection ==
  ASSUME StateOk, DeleteSelection
  PROVE  StateOk'
<1>0. ListOk /\ CursorOk /\ ModeOk /\ BoxOk /\ Visual
  BY DEF StateOk, DeleteSelection
<1>1. anchor' \in {None, anchor}
  BY DEF DeleteSelection
<1>2. ListOk' /\ CursorOk' /\ TakenOk' /\ UNCHANGED <<pane, box>>
  <2>1. CASE Size > 0
    <3>1. /\ From \in 0 .. Size - 1 /\ To \in 0 .. Size - 1
          /\ From <= Nearest(track.cursor) /\ Nearest(track.cursor) <= To
      BY <1>0, <2>1, SelectionIs
    <3>2. Nearest(track.cursor) \in Int
      BY <1>0, NearestIs, PositionHas DEF CursorOk
    <3>3. From <= To /\ Delete(From, To)
      BY <2>1, <3>1, <3>2, SizeIs DEF DeleteSelection
    <3> QED BY <1>0, <3>1, <3>3, DeletesRange
  <2>2. CASE ~(Size > 0)
    <3>1. taken' = {} /\ UNCHANGED <<list, pane, track, box>>
      BY <2>2 DEF DeleteSelection
    <3> QED BY <1>0, <3>1, ListKept, NothingTaken DEF CursorOk
  <2> QED BY <2>1, <2>2
<1>3. BoxOk' /\ UNCHANGED search
  BY <1>0, <1>2, BoxKept
<1>4. ModeOk'
  BY <1>0, <1>1, <1>2, <1>3 DEF ModeOk
<1> QED BY <1>2, <1>3, <1>4 DEF StateOk

LEMMA Reorders ==
  ASSUME StateOk, NEW d \in {1, -1}, Reorder(d)
  PROVE  StateOk'
<1> DEFINE from == Nearest(track.cursor)
           to == Nearest(from + d)
<1>0. ListOk /\ CursorOk /\ ModeOk /\ BoxOk /\ track.cursor \in Int
  BY PositionHas DEF StateOk, CursorOk
<1>1. /\ from # to /\ songs' \in {songs, Swapped(songs, from, to)}
      /\ track' = [track EXCEPT !.cursor = to]
      /\ taken' = {} /\ UNCHANGED <<kind, pane, anchor, box>>
  BY DEF Reorder
<1>2. from \in Nat /\ from + d \in Int /\ (Size > 0 => from \in 0 .. Size - 1)
  BY <1>0, NearestIs
<1>3. /\ to \in Position /\ (Size > 0 => to \in 0 .. Size - 1)
      /\ Size = 0 => to = 0 /\ from = 0
  BY <1>0, <1>2, NearestIs
<1> HIDE DEF from, to
<1>4. Size > 0
  BY <1>0, <1>1, <1>3, SizeIs
<1>5. /\ Swapped(songs, from, to) \in Seq(Song)
      /\ Len(Swapped(songs, from, to)) = Len(songs)
  BY <1>0, <1>2, <1>3, <1>4, SwappedIs DEF ListOk, Size
<1>6. ListOk'
  BY <1>0, <1>1, <1>5 DEF ListOk
<1>7. CursorOk'
  BY <1>0, <1>1, <1>3, CursorSet
<1>8. BoxOk' /\ UNCHANGED search /\ TakenOk'
  BY <1>0, <1>1, BoxKept, NothingTaken
<1>9. ModeOk'
  BY <1>0, <1>1, <1>8, ModeKept
<1> QED BY <1>6, <1>7, <1>8, <1>9 DEF StateOk

-----------------------------------------------------------------------------
(* The search box.                                                         *)

Boxes == [open : BOOLEAN, query : Query \cup {NoQuery},
          rows : Seq(0 .. MaxRows - 1), cursor : Nat, scroll : 0 .. MaxRows,
          start : Position]

LEMMA BoxNext ==
  ASSUME search' \in Boxes, search'.cursor <= Most(0, Len(search'.rows) - 1),
         Len(search'.rows) <= MaxRows, search'.open \/ search' = Closed,
         pattern' \in Query \cup {NoQuery}
  PROVE  BoxOk'
BY DEF BoxOk, Boxes

LEMMA BoxIs ==
  ASSUME BoxOk
  PROVE  /\ search \in Boxes /\ Len(search.rows) \in Nat /\ Len(search.rows) <= MaxRows
         /\ search.cursor \in Nat
         /\ search.cursor <= Most(0, Len(search.rows) - 1)
         /\ Len(search.rows) > 0 => search.cursor + 1 \in 1 .. Len(search.rows)
         /\ \A i \in 1 .. Len(search.rows) : search.rows[i] \in 0 .. MaxRows - 1
         /\ pattern \in Query \cup {NoQuery} /\ search.query \in Query \cup {NoQuery}
         /\ search.start \in Position /\ search.scroll \in 0 .. MaxRows
<1>1. search \in Boxes /\ search.cursor <= Most(0, Len(search.rows) - 1)
      /\ Len(search.rows) <= MaxRows /\ pattern \in Query \cup {NoQuery}
  BY DEF BoxOk, Boxes
<1>2. /\ search.query \in Query \cup {NoQuery} /\ search.rows \in Seq(0 .. MaxRows - 1)
      /\ search.cursor \in Nat /\ search.scroll \in 0 .. MaxRows /\ search.start \in Position
  BY <1>1 DEF Boxes
<1>3. Len(search.rows) \in Nat
      /\ \A i \in 1 .. Len(search.rows) : search.rows[i] \in 0 .. MaxRows - 1
  BY <1>2, LenProperties, ElementOfSeq
<1>4. Len(search.rows) > 0 => search.cursor + 1 \in 1 .. Len(search.rows)
  BY <1>1, <1>2, <1>3 DEF Most
<1> QED BY <1>1, <1>2, <1>3, <1>4

LEMMA ClosedIs ==
  /\ Closed \in Boxes /\ ~Closed.open /\ Closed.cursor = 0
  /\ Closed.rows = <<>> /\ Len(Closed.rows) = 0
BY PositionHas, IntRange DEF Closed, Boxes

\* The box is gone, whatever became of the cursor.
LEMMA BoxClosed ==
  ASSUME StateOk, search' = Closed, pattern' \in Query \cup {NoQuery},
         CursorOk', taken' = {}, UNCHANGED <<list, pane, anchor>>
  PROVE  StateOk'
<1>1. ListOk' /\ TakenOk'
  BY ListKept, NothingTaken DEF StateOk
<1>2. 0 <= Most(0, 0 - 1) /\ 0 <= MaxRows
  BY IntRange DEF Most
<1>3. BoxOk'
  BY <1>2, ClosedIs, BoxNext
<1>4. ModeOk'
  BY ClosedIs DEF StateOk, ModeOk
<1> QED BY <1>1, <1>3, <1>4 DEF StateOk

\* The box stays open.
LEMMA BoxSet ==
  ASSUME StateOk, search' \in Boxes, search'.open, search.open,
         search'.cursor <= Most(0, Len(search'.rows) - 1), Len(search'.rows) <= MaxRows,
         taken' = {}, UNCHANGED <<list, pane, track, anchor, pattern>>
  PROVE  StateOk'
<1>1. ListOk' /\ CursorOk' /\ TakenOk'
  BY ListKept, NothingTaken DEF StateOk, CursorOk
<1>2. BoxOk'
  BY BoxNext, BoxIs DEF StateOk
<1>3. ModeOk'
  BY DEF StateOk, ModeOk
<1> QED BY <1>1, <1>2, <1>3 DEF StateOk

LEMMA OpensSearch ==
  ASSUME StateOk, OpenSearch
  PROVE  StateOk'
<1>1. ListOk' /\ CursorOk' /\ TakenOk' /\ track.cursor \in Position
  BY ListKept, NothingTaken DEF OpenSearch, StateOk, CursorOk
<1>2. search' = [Closed EXCEPT !.open = TRUE, !.start = track.cursor]
  BY DEF OpenSearch
<1>3. /\ search' \in Boxes /\ search'.open
      /\ search'.cursor = 0 /\ Len(search'.rows) = 0
  BY <1>1, <1>2, ClosedIs DEF Boxes
<1>4. 0 <= Most(0, 0 - 1) /\ 0 <= MaxRows
  BY IntRange DEF Most
<1>5. BoxOk'
  BY <1>3, <1>4, BoxNext, BoxIs DEF OpenSearch, StateOk
<1>6. ModeOk'
  BY DEF OpenSearch, StateOk, ModeOk, Visual
<1> QED BY <1>1, <1>5, <1>6 DEF StateOk

LEMMA TypesQuery ==
  ASSUME StateOk, NEW q \in Query \cup {NoQuery}, TypeQuery(q)
  PROVE  StateOk'
<1> DEFINE rows == Results(q)
           ahead == {v \in DOMAIN rows : rows[v] >= search.start}
           first == IF ahead = {} THEN 0 ELSE Min(ahead) - 1
<1>0. ListOk /\ BoxOk /\ search \in Boxes /\ Size <= MaxRows /\ Size \in Nat
  BY BoxIs, SizeIs DEF StateOk
<1>1. rows \in Seq(0 .. Size - 1) /\ Len(rows) <= Size
  BY <1>0, ResultsAre
<1>2. rows \in Seq(0 .. MaxRows - 1)
  BY <1>0, <1>1, BoundedRows
<1> HIDE DEF rows
<1>3. DOMAIN rows = 1 .. Len(rows) /\ Len(rows) \in Nat /\ Len(rows) <= MaxRows
  BY <1>0, <1>1, <1>2, IntRange
<1>4. first \in Nat /\ first <= Most(0, Len(rows) - 1)
  <2>1. CASE ahead = {}
    BY <1>3, <2>1 DEF Most
  <2>2. CASE ahead # {}
    <3>1. ahead \in SUBSET Nat /\ ahead \subseteq 1 .. Len(rows)
      BY <1>3
    <3> HIDE DEF ahead
    <3>2. Min(ahead) \in 1 .. Len(rows)
      BY <2>2, <3>1, MinIs
    <3> QED BY <1>3, <2>2, <3>2 DEF Most
  <2> QED BY <2>1, <2>2
<1> HIDE DEF first
<1>5. search' = [search EXCEPT !.query = q, !.rows = rows, !.scroll = 0, !.cursor = first]
  BY DEF TypeQuery, Rebuilt, first, rows
<1>6. /\ search' \in Boxes /\ search'.rows = rows /\ search'.cursor = first
      /\ search'.open = search.open
  <2>1. 0 \in 0 .. MaxRows
    BY IntRange
  <2>2. [search EXCEPT !.query = q, !.rows = rows, !.scroll = 0, !.cursor = first] \in Boxes
    BY <1>0, <1>2, <1>4, <2>1 DEF Boxes
  <2> QED BY <1>0, <1>5, <2>2 DEF Boxes
<1> QED BY <1>3, <1>4, <1>6, BoxSet DEF TypeQuery

LEMMA MovesResult ==
  ASSUME StateOk, NEW d \in {1, -1}, MoveResult(d)
  PROVE  StateOk'
<1>0. BoxOk /\ search \in Boxes /\ search.rows \in Seq(0 .. MaxRows - 1)
  BY BoxIs DEF StateOk, Boxes
<1>1. Len(search.rows) \in Nat /\ Len(search.rows) > 0 /\ search.cursor \in Nat
  BY <1>0, BoxIs DEF MoveResult
<1>2. ResultAfter(d) \in 0 .. Len(search.rows) - 1
  <2> DEFINE next == search.cursor + d
             last == Len(search.rows) - 1
  <2>1. next \in Int /\ last \in Int /\ 0 <= last
    BY <1>1
  <2>2. ResultAfter(d) = Clamped(next, 0, last)
    BY DEF ResultAfter
  <2> HIDE DEF next, last
  <2>3. Clamped(next, 0, last) \in 0 .. last
    BY <2>1, ClampedIs
  <2> QED BY <2>2, <2>3 DEF last
<1>3. search' = [search EXCEPT !.cursor = ResultAfter(d)]
  BY DEF MoveResult
<1>4. /\ search' \in Boxes /\ search'.rows = search.rows
      /\ search'.cursor = ResultAfter(d) /\ search'.open = search.open
  BY <1>0, <1>1, <1>2, <1>3 DEF Boxes
<1>5. ResultAfter(d) <= Most(0, Len(search.rows) - 1) /\ Len(search.rows) <= MaxRows
  BY <1>0, <1>1, <1>2, BoxIs DEF Most
<1> QED BY <1>4, <1>5, BoxSet DEF MoveResult

\* To a row that was a result when it was drawn or accepted.
LEMMA JumpsTo ==
  ASSUME StateOk, NEW row \in 0 .. MaxRows - 1, JumpTo(row)
  PROVE  StateOk'
<1>1. row \in Position
  BY PositionHas, IntRange
<1>2. CursorOk'
  BY <1>1, CursorSet DEF JumpTo, StateOk
<1>3. pattern' \in Query \cup {NoQuery}
  BY BoxIs DEF JumpTo, StateOk
<1> QED BY <1>2, <1>3, BoxClosed DEF JumpTo

LEMMA AcceptsSearch ==
  ASSUME StateOk, AcceptSearch
  PROVE  StateOk'
<1>0. BoxOk /\ search.rows \in Seq(0 .. MaxRows - 1)
  BY BoxIs DEF StateOk, Boxes
<1>1. Len(search.rows) > 0
  BY <1>0, BoxIs DEF AcceptSearch
<1>2. search.rows[search.cursor + 1] \in 0 .. MaxRows - 1
  BY <1>0, <1>1, BoxIs
<1> QED BY <1>2, JumpsTo DEF AcceptSearch

LEMMA CancelsSearch ==
  ASSUME StateOk, CancelSearch
  PROVE  StateOk'
<1>1. search.start \in Position /\ pattern \in Query \cup {NoQuery}
  BY BoxIs DEF StateOk
<1>2. CursorOk'
  BY <1>1, CursorSet DEF CancelSearch, StateOk
<1> QED BY <1>1, <1>2, BoxClosed DEF CancelSearch

LEMMA Finds ==
  ASSUME StateOk, NEW d \in {1, -1}, Find(d)
  PROVE  StateOk'
<1> DEFINE after(k) == Plus(track.cursor, d * k) % Size
           hits == {k \in 1 .. Size : Row(after(k)) \in Matching[pattern]}
<1>0. ListOk /\ CursorOk /\ track.cursor \in Position /\ Size \in Nat /\ Size > 0
      /\ Size <= MaxRows
  BY SizeIs DEF StateOk, CursorOk, Find
<1>1. hits # {} /\ track' = [track EXCEPT !.cursor = after(Min(hits))]
  BY DEF Find
<1>2. hits \in SUBSET Nat /\ hits \subseteq 1 .. Size
  BY <1>0
<1> HIDE DEF hits
<1>3. Min(hits) \in 1 .. Size
  BY <1>1, <1>2, MinIs
<1>4. /\ d * Min(hits) \in Int /\ 0 - MaxInt <= d * Min(hits) /\ d * Min(hits) <= MaxInt
  BY <1>0, <1>3, IntRange
<1>5. Plus(track.cursor, d * Min(hits)) \in Int
  BY <1>0, <1>4, PlusType
<1>6. after(Min(hits)) \in 0 .. Size - 1
  BY <1>0, <1>5, RemainderIs
<1> HIDE DEF after
<1>7. after(Min(hits)) \in Position
  BY <1>0, <1>6, PositionHas, IntRange
<1>8. CursorOk'
  BY <1>0, <1>1, <1>7, CursorSet
<1> QED BY <1>8, CursorMoved DEF Find

-----------------------------------------------------------------------------
(* The mouse, refreshes, and everything that is handled between frames.    *)

\* What was drawn are rows the bound allows, whatever became of the list.
LEMMA DrawnRow ==
  ASSUME FrameOk, NEW row \in Range(frame.rows)
  PROVE  row \in 0 .. MaxRows - 1
<1>1. frame.rows \in Seq(0 .. MaxRows - 1)
  BY DEF FrameOk
<1>2. PICK i \in DOMAIN frame.rows : row = frame.rows[i]
  BY DEF Range
<1>3. DOMAIN frame.rows = 1 .. Len(frame.rows)
  BY <1>1, LenProperties
<1> QED BY <1>1, <1>2, <1>3, ElementOfSeq

LEMMA ClicksTree ==
  ASSUME StateOk, ClickTree
  PROVE  StateOk' /\ last_click' \in Position
BY Lands, Focuses, PositionHas DEF ClickTree

LEMMA ClicksRow ==
  ASSUME StateOk, CountsOk, NEW row \in 0 .. MaxRows - 1, ClickRow(row)
  PROVE  StateOk' /\ last_click' \in Position
<1>0. ListOk /\ CursorOk /\ ModeOk /\ BoxOk /\ row \in Int /\ row \in Position /\ None \in Position
  BY PositionHas, IntRange DEF StateOk
<1>1. ListOk' /\ BoxOk' /\ UNCHANGED search
  BY <1>0, ListKept, BoxKept DEF ClickRow
<1>2. CursorOk'
  BY <1>0, CursorSet DEF ClickRow
<1>3. ModeOk'
  BY <1>0, <1>1 DEF ClickRow, ModeOk
<1>4. taken' = {} \/ (Size > 0 /\ taken' = {Nearest(row)})
  BY <1>0, SizeIs DEF ClickRow
<1>5. TakenOk'
  BY <1>0, <1>4, NothingTaken, RowTaken
<1>6. last_click' \in Position
  BY <1>0 DEF ClickRow
<1> QED BY <1>1, <1>2, <1>3, <1>5, <1>6 DEF StateOk

LEMMA Refreshes ==
  ASSUME StateOk, Refresh
  PROVE  StateOk'
<1>0. ListOk /\ CursorOk /\ ModeOk /\ BoxOk
  BY DEF StateOk
<1>1. songs' \in Seq(Song) /\ Len(songs') <= MaxRows
  <2>1. CASE kind = "history"
    BY <1>0, <2>1, GrownIs DEF Refresh
  <2>2. CASE kind # "history"
    <3>1. songs' = <<>> \/ \E c \in Collections : songs' = c.rows
      BY <2>2 DEF Refresh
    <3>2. \A c \in Collections : c.rows \in Seq(Song) /\ Len(c.rows) <= MaxRows
      BY TracksAssumption
    <3>3. <<>> \in Seq(Song) /\ Len(<<>>) <= MaxRows
      BY IntRange, EmptySeq
    <3> QED BY <3>1, <3>2, <3>3
  <2> QED BY <2>1, <2>2
<1>2. ListOk'
  BY <1>0, <1>1 DEF Refresh, ListOk
<1>3. BoxOk' /\ UNCHANGED search /\ TakenOk'
  BY <1>0, BoxKept, NothingTaken DEF Refresh
<1>4. CursorOk' /\ ModeOk'
  BY <1>0, <1>3, ModeKept DEF Refresh, CursorOk
<1> QED BY <1>2, <1>3, <1>4 DEF StateOk

LEMMA Keys ==
  ASSUME StateOk, FrameOk, Key
  PROVE  StateOk'
<1>1. ASSUME NEW d \in {1, -1}, Step(d) \/ Reorder(d) \/ MoveResult(d) \/ Find(d)
      PROVE  StateOk'
  BY <1>1, Steps, Reorders, MovesResult, Finds
<1>2. ASSUME Jump \/ MoveInTree \/ OpenFromTree PROVE StateOk'
  BY <1>2, Jumps, Lands DEF MoveInTree, OpenFromTree, InPane
<1>3. ASSUME NEW p \in {"tree", "tracks"}, Focus(p) PROVE StateOk'
  BY <1>3, Focuses
<1>4. ASSUME EnterVisual \/ CancelVisual \/ YankSelection \/ DeleteSelection
             \/ TakeRow \/ DeleteCurrent
      PROVE  StateOk'
  BY <1>4, EntersVisual, LeavesVisual, DeletesSelection, TakesRow, DeletesCurrent
<1>5. ASSUME OpenSearch \/ AcceptSearch \/ CancelSearch PROVE StateOk'
  BY <1>5, OpensSearch, AcceptsSearch, CancelsSearch
<1>6. ASSUME NEW q \in Query \cup {NoQuery}, TypeQuery(q) PROVE StateOk'
  BY <1>6, TypesQuery
<1> QED BY <1>1, <1>2, <1>3, <1>4, <1>5, <1>6 DEF Key

LEMMA Handles ==
  ASSUME StateOk, FrameOk, CountsOk, Handled
  PROVE  StateOk' /\ last_click' \in Position
<1>1. ASSUME Key, last_click' = None PROVE StateOk' /\ last_click' \in Position
  BY <1>1, Keys, PositionHas
<1>2. ASSUME ClickTree PROVE StateOk' /\ last_click' \in Position
  BY <1>2, ClicksTree
<1>3. ASSUME NEW row \in Range(frame.rows), ClickRow(row)
      PROVE  StateOk' /\ last_click' \in Position
  BY <1>3, DrawnRow, ClicksRow
<1>4. ASSUME NEW row \in Range(frame.rows), ClickResult(row)
      PROVE  StateOk' /\ last_click' \in Position
  BY <1>4, DrawnRow, JumpsTo DEF ClickResult, CountsOk
<1>5. ASSUME Refresh PROVE StateOk' /\ last_click' \in Position
  BY <1>5, Refreshes DEF Refresh, CountsOk
<1> QED BY <1>1, <1>2, <1>3, <1>4, <1>5 DEF Handled

\* Nothing is promised of a frame that something was handled since.
LEMMA HandledKeeps ==
  ASSUME TracksInv, behind < MaxBehind, behind' = behind + 1, Handled,
         UNCHANGED <<page, frame>>
  PROVE  TracksInv'
<1>1. StateOk /\ FrameOk /\ CountsOk
  BY InvParts DEF StateOk
<1>2. StateOk' /\ last_click' \in Position
  BY <1>1, Handles
<1>3. FrameOk'
  BY <1>1 DEF FrameOk
<1>4. behind' \in 0 .. MaxBehind /\ behind' # 0
  BY <1>1, IntRange DEF CountsOk
<1>5. CountsOk' /\ ScreenShowsCursor' /\ CursorDrawn'
  BY <1>2, <1>4 DEF CountsOk, ScreenShowsCursor, CursorDrawn
<1> QED BY <1>2, <1>3, <1>5, InvNext DEF StateOk

-----------------------------------------------------------------------------
(* Frames.                                                                 *)

LEMMA PageIs ==
  ASSUME NEW h \in Heights, NEW open \in BOOLEAN
  PROVE  Page(h, open) \in 1 .. MaxInt
<1>1. h \in 1 .. MaxInt /\ MaxInt \in Nat /\ MaxInt >= 15
  BY TracksAssumption, IntRange
<1>2. BottomHeight(h, open) \in 0 .. 3
  BY <1>1 DEF BottomHeight
<1>3. MainHeight(h, open) \in Int /\ MainHeight(h, open) <= MaxInt
  BY <1>1, <1>2 DEF MainHeight, Most
<1> QED BY <1>1, <1>3 DEF Page, Most

\* The viewport of a frame has the cursor in it and no room after the last row.
LEMMA FollowIs ==
  ASSUME NEW size \in Nat \ {0}, NEW cursor \in 0 .. size - 1, NEW scroll \in Int,
         NEW room \in Nat \ {0}
  PROVE  /\ Follow(cursor, scroll, size, room) \in 0 .. Most(0, size - room)
         /\ Follow(cursor, scroll, size, room) <= cursor
         /\ cursor < Follow(cursor, scroll, size, room) + room
<1> DEFINE eager == IF cursor < scroll THEN cursor
                    ELSE IF cursor >= scroll + room THEN cursor - room + 1 ELSE scroll
           last == Most(0, size - room)
<1>1. eager \in Int /\ eager <= cursor /\ cursor < eager + room
  OBVIOUS
<1>2. last \in Nat /\ cursor < last + room
  BY DEF Most
<1>3. Follow(cursor, scroll, size, room) = Clamped(eager, 0, last)
  BY DEF Follow
<1> HIDE DEF eager, last
<1>4. /\ Clamped(eager, 0, last) \in 0 .. last
      /\ Clamped(eager, 0, last) <= cursor /\ cursor < Clamped(eager, 0, last) + room
  BY <1>1, <1>2 DEF Clamped
<1> QED BY <1>3, <1>4 DEF last

\* What such a viewport shows: a full page, or all rows, and the cursor's row.
LEMMA RowsShown ==
  ASSUME NEW S, NEW v \in Seq(S), Len(v) > 0, NEW room \in Nat \ {0},
         NEW cursor \in 0 .. Len(v) - 1, NEW top \in 0 .. Most(0, Len(v) - room),
         top <= cursor, cursor < top + room,
         NEW rows, rows = SubSeq(v, top + 1, Least(top + room, Len(v)))
  PROVE  /\ rows \in Seq(S) /\ Len(rows) = Least(room, Len(v))
         /\ rows = SubSeq(v, top + 1, top + Len(rows))
         /\ top \in 0 .. Len(v) /\ v[cursor + 1] \in Range(rows)
<1> DEFINE last == Least(top + room, Len(v))
<1>0. Len(v) \in Nat /\ \A i \in 1 .. Len(v) : v[i] \in S
  BY LenProperties, ElementOfSeq
<1>1. /\ top \in Nat /\ last \in Nat /\ last <= Len(v) /\ top <= last
      /\ last = top + Least(room, Len(v)) /\ cursor < last
      /\ Least(room, Len(v)) \in Nat /\ Least(room, Len(v)) > 0
  BY <1>0 DEF Most, Least
<1> HIDE DEF last
<1>2. rows = SubSeq(v, top + 1, last)
  BY DEF last
<1>3. \A i \in top + 1 .. last : v[i] \in S
  BY <1>0, <1>1
<1>4. /\ rows \in Seq(S) /\ Len(rows) = last - top
      /\ \A i \in 1 .. last - top : rows[i] = v[top + i]
  <2>1. /\ SubSeq(v, top + 1, last) \in Seq(S)
        /\ Len(SubSeq(v, top + 1, last))
             = IF top + 1 <= last THEN last - (top + 1) + 1 ELSE 0
        /\ \A i \in 1 .. last - (top + 1) + 1 :
             SubSeq(v, top + 1, last)[i] = v[(top + 1) + i - 1]
    <3>1. top + 1 \in Int /\ last \in Int
      BY <1>1
    <3> QED BY <1>3, <3>1, SubSeqProperties
  <2>2. rows \in Seq(S) /\ Len(rows) = last - top
    <3>1. (IF top + 1 <= last THEN last - (top + 1) + 1 ELSE 0) = last - top
      BY <1>1
    <3> QED BY <1>2, <2>1, <3>1
  <2>3. ASSUME NEW i \in 1 .. last - top PROVE rows[i] = v[top + i]
    <3>1. /\ i \in 1 .. last - (top + 1) + 1 /\ (top + 1) + i - 1 = top + i
      BY <1>1
    <3>2. SubSeq(v, top + 1, last)[i] = v[(top + 1) + i - 1]
      BY <2>1, <3>1
    <3> QED BY <1>2, <3>1, <3>2
  <2> QED BY <2>2, <2>3
<1>5. Len(rows) = Least(room, Len(v))
  BY <1>1, <1>4
<1>6. rows = SubSeq(v, top + 1, top + Len(rows))
  BY <1>1, <1>2, <1>5
<1>7. /\ cursor - top + 1 \in 1 .. last - top
      /\ top + (cursor - top + 1) = cursor + 1
  BY <1>1
<1>8. rows[cursor - top + 1] = v[cursor + 1]
  BY <1>4, <1>7
<1>9. DOMAIN rows = 1 .. last - top
  BY <1>4, LenProperties
<1>10. v[cursor + 1] \in Range(rows)
  BY <1>7, <1>8, <1>9 DEF Range
<1>11. top \in 0 .. Len(v)
  BY <1>0, <1>1
<1> QED BY <1>4, <1>5, <1>6, <1>10, <1>11

\* The rows of the pane: of the search while there is one to show.
LEMMA ViewIs ==
  ASSUME ListOk, BoxOk
  PROVE  /\ View \in Seq(0 .. MaxRows - 1) /\ Len(View) \in Nat /\ Len(View) <= MaxRows
         /\ View = <<>> <=> Len(View) = 0
         /\ Filtering => View = search.rows
         /\ ~Filtering => View = Whole /\ Len(View) = Size
                          /\ \A i \in 0 .. Size - 1 : View[i + 1] = i
<1>1. CASE Filtering
  <2>1. View = search.rows
    BY <1>1 DEF View
  <2>2. search.rows \in Seq(0 .. MaxRows - 1) /\ Len(search.rows) <= MaxRows
    BY BoxIs DEF Boxes
  <2> QED BY <1>1, <2>1, <2>2, LenProperties, EmptySeq
<1>2. CASE ~Filtering
  <2>1. View = Whole
    BY <1>2 DEF View
  <2>2. /\ Whole \in Seq(0 .. Size - 1) /\ Len(Whole) = Size
        /\ \A i \in 1 .. Size : Whole[i] = i - 1
    BY WholeIs
  <2>3. Whole \in Seq(0 .. MaxRows - 1)
    BY <2>2, BoundedRows
  <2>4. Size \in Nat /\ Size <= MaxRows
    BY SizeIs
  <2>5. \A i \in 0 .. Size - 1 : Whole[i + 1] = i
    BY <2>2, <2>4
  <2>6. Whole = <<>> <=> Size = 0
    BY <2>2, <2>3, <2>4, EmptySeq
  <2> QED BY <1>2, <2>1, <2>2, <2>3, <2>4, <2>5, <2>6
<1> QED BY <1>1, <1>2

\* A frame of a list or of results that are empty.
LEMMA DrawsBlank ==
  ASSUME TracksInv, NEW room \in 1 .. MaxInt, DrawIn(room), View = <<>>
  PROVE  TracksInv'
<1>0. ListOk /\ CursorOk /\ ModeOk /\ BoxOk /\ TakenOk /\ CountsOk
  BY InvParts
<1>1. /\ page' = room /\ frame' = Blank /\ behind' = 0 /\ taken' = {}
      /\ UNCHANGED <<track, search, list, pane, anchor, pattern, last_click>>
  BY DEF DrawIn
<1>2. UNCHANGED box
  BY <1>1 DEF box
<1>3. ListOk' /\ CursorOk' /\ BoxOk' /\ TakenOk' /\ CountsOk' /\ ModeOk'
  <2>1. ListOk' /\ BoxOk' /\ TakenOk'
    BY <1>0, <1>1, <1>2, ListKept, BoxKept, NothingTaken
  <2>2. CursorOk' /\ ModeOk'
    BY <1>0, <1>1, ModeKept DEF CursorOk
  <2>3. CountsOk'
    BY <1>0, <1>1, IntRange DEF CountsOk
  <2> QED BY <2>1, <2>2, <2>3
<1>4. /\ frame'.rows = <<>> /\ frame'.at = None /\ frame'.marked = {}
      /\ Range(frame'.rows) = {}
  BY <1>1 DEF Blank, Range
<1>5. FrameOk'
  BY <1>1, <1>4, EmptySeq DEF FrameOk
<1>6. /\ View' = View /\ Filtering' = Filtering /\ Size' = Size
  BY <1>1 DEF View, Filtering, Size, Whole, list
<1>7. Len(View') = 0 /\ Len(frame'.rows) = 0 /\ Least(page', 0) = 0
  BY <1>1, <1>4, <1>6, EmptySeq DEF Least
<1>8. ScreenShowsCursor'
  <2>1. SubSeq(View', 1, 0) = <<>>
    BY SubSeqEmpty
  <2>2. 0 + Len(frame'.rows) = 0 /\ 0 + 1 = 1 /\ 0 \in 0 .. Len(View')
    BY <1>7
  <2>3. \E top \in 0 .. Len(View') :
          frame'.rows = SubSeq(View', top + 1, top + Len(frame'.rows))
    BY <1>4, <2>1, <2>2
  <2>4. View' = <<>>
    BY <1>6
  <2> QED BY <1>7, <2>3, <2>4 DEF ScreenShowsCursor
<1>9. CursorDrawn'
  <2>1. ~Filtering => Size = 0
    BY <1>0, ViewIs
  <2>2. ~(~Filtering' /\ Size' > 0)
    BY <1>6, <2>1
  <2>3. {i \in Range(frame'.rows) : i \in From' .. To'} = {}
    BY <1>4
  <2> QED BY <1>4, <2>2, <2>3 DEF CursorDrawn
<1> QED BY <1>3, <1>5, <1>8, <1>9, InvNext

\* What the frame writes back.
LEMMA SettlesTrack ==
  ASSUME ListOk, CursorOk, ~Filtering, View # <<>>, BoxOk, NEW room \in 1 .. MaxInt
  PROVE  LET shown == Settled(track, Len(View), room)
         IN /\ shown \in [cursor : Position, scroll : 0 .. MaxRows]
            /\ shown.cursor = Nearest(track.cursor)
            /\ shown.cursor \in 0 .. Len(View) - 1
            /\ shown.scroll \in 0 .. Most(0, Len(View) - room)
            /\ shown.scroll <= shown.cursor /\ shown.cursor < shown.scroll + room
<1> DEFINE n == Len(View)
           cursor == Clamped(track.cursor, 0, n - 1)
           top == Follow(cursor, track.scroll, n, room)
<1>0. /\ n \in Nat \ {0} /\ n = Size /\ n <= MaxRows /\ room \in Nat \ {0}
      /\ track.cursor \in Int /\ track.scroll \in Int
  <2>1. n \in Nat \ {0} /\ n = Size /\ n <= MaxRows
    BY ViewIs
  <2>2. track.cursor \in Position /\ track.scroll \in 0 .. MaxRows
    BY DEF CursorOk
  <2>3. track.cursor \in Int /\ track.scroll \in Int
    BY <2>2, PositionHas
  <2>4. room \in Nat \ {0}
    BY IntRange
  <2> QED BY <2>1, <2>3, <2>4
<1> HIDE DEF n
<1>1. cursor \in 0 .. n - 1 /\ cursor = Nearest(track.cursor)
  BY <1>0 DEF Clamped, Nearest, Most
<1> HIDE DEF cursor
<1>2. top \in 0 .. Most(0, n - room) /\ top <= cursor /\ cursor < top + room
  BY <1>0, <1>1, FollowIs
<1>3. top \in 0 .. MaxRows /\ cursor \in Position
  BY <1>0, <1>1, <1>2, IntRange, PositionHas DEF Most
<1> HIDE DEF top
<1>4. Settled(track, n, room) = [track EXCEPT !.cursor = cursor, !.scroll = top]
  BY DEF Settled, cursor, top
<1> DEFINE shown == [track EXCEPT !.cursor = cursor, !.scroll = top]
<1>5. shown \in [cursor : Position, scroll : 0 .. MaxRows]
  BY <1>3 DEF CursorOk
<1>6. shown.cursor = cursor /\ shown.scroll = top
  BY DEF CursorOk
<1> QED BY <1>1, <1>2, <1>4, <1>5, <1>6 DEF n

LEMMA SettlesSearch ==
  ASSUME ListOk, BoxOk, Filtering, View # <<>>, NEW room \in 1 .. MaxInt
  PROVE  LET shown == Settled(search, Len(View), room)
         IN /\ shown \in Boxes /\ shown.open = search.open /\ shown.query = search.query
            /\ shown.rows = search.rows
            /\ shown.cursor \in 0 .. Len(View) - 1
            /\ shown.scroll \in 0 .. Most(0, Len(View) - room)
            /\ shown.scroll <= shown.cursor /\ shown.cursor < shown.scroll + room
<1> DEFINE n == Len(View)
           cursor == Clamped(search.cursor, 0, n - 1)
           top == Follow(cursor, search.scroll, n, room)
<1>0. /\ n \in Nat \ {0} /\ n <= MaxRows /\ room \in Nat \ {0}
      /\ search.cursor \in Int /\ search.scroll \in Int /\ search \in Boxes
  <2>1. n \in Nat \ {0} /\ n <= MaxRows
    BY ViewIs
  <2>2. search.cursor \in Nat /\ search.scroll \in 0 .. MaxRows /\ search \in Boxes
    BY BoxIs
  <2> QED BY <2>1, <2>2, IntRange
<1> HIDE DEF n
<1>1. cursor \in 0 .. n - 1
  BY <1>0 DEF Clamped
<1> HIDE DEF cursor
<1>2. top \in 0 .. Most(0, n - room) /\ top <= cursor /\ cursor < top + room
  BY <1>0, <1>1, FollowIs
<1>3. top \in 0 .. MaxRows /\ cursor \in Nat
  BY <1>0, <1>1, <1>2, IntRange DEF Most
<1> HIDE DEF top
<1>4. Settled(search, n, room) = [search EXCEPT !.cursor = cursor, !.scroll = top]
  BY DEF Settled, cursor, top
<1> DEFINE shown == [search EXCEPT !.cursor = cursor, !.scroll = top]
<1>5. shown \in Boxes
  BY <1>0, <1>3 DEF Boxes
<1>6. /\ shown.cursor = cursor /\ shown.scroll = top /\ shown.open = search.open
      /\ shown.query = search.query /\ shown.rows = search.rows
  BY <1>0 DEF Boxes
<1> QED BY <1>1, <1>2, <1>4, <1>5, <1>6 DEF n

\* A frame of rows.
LEMMA DrawsRows ==
  ASSUME TracksInv, NEW room \in 1 .. MaxInt, DrawIn(room), View # <<>>
  PROVE  TracksInv'
<1> DEFINE n == Len(View)
           shown == Settled(IF Filtering THEN search ELSE track, n, room)
           at == Clamped(shown.cursor, 0, n - 1)
           rows == SubSeq(View, shown.scroll + 1, Least(shown.scroll + room, n))
           marked == IF Visual THEN {i \in Range(rows) : i \in From .. To} ELSE {}
<1>0. ListOk /\ CursorOk /\ ModeOk /\ BoxOk /\ TakenOk /\ CountsOk
  BY InvParts
<1>1. /\ page' = room /\ behind' = 0 /\ taken' = {}
      /\ UNCHANGED <<list, pane, anchor, pattern, last_click>>
      /\ frame' = [rows |-> rows,
                   at |-> IF Filtering \/ pane = "tracks" THEN View[at + 1] ELSE None,
                   marked |-> marked]
      /\ Filtering => search' = shown /\ UNCHANGED track
      /\ ~Filtering => track' = shown /\ UNCHANGED search
  BY DEF DrawIn
<1>2. /\ View \in Seq(0 .. MaxRows - 1) /\ n \in Nat /\ n > 0 /\ n <= MaxRows
      /\ room \in Nat \ {0}
  <2>1. room \in Nat \ {0}
    BY IntRange
  <2> QED BY <1>0, <2>1, ViewIs
<1>3. /\ shown.cursor \in 0 .. n - 1 /\ shown.scroll \in 0 .. Most(0, n - room)
      /\ shown.scroll <= shown.cursor /\ shown.cursor < shown.scroll + room
  <2>1. CASE Filtering
    BY <1>0, <2>1, SettlesSearch
  <2>2. CASE ~Filtering
    BY <1>0, <2>2, SettlesTrack
  <2> QED BY <2>1, <2>2
<1>4. ~Filtering => /\ shown \in [cursor : Position, scroll : 0 .. MaxRows]
                    /\ shown.cursor = Nearest(track.cursor) /\ n = Size
                    /\ \A i \in 0 .. n - 1 : View[i + 1] = i
  BY <1>0, SettlesTrack, ViewIs
<1>5. Filtering => /\ shown \in Boxes /\ shown.open = search.open
                   /\ shown.query = search.query /\ shown.rows = search.rows
                   /\ View = search.rows
  BY <1>0, SettlesSearch, ViewIs
<1>6. at = shown.cursor
  BY <1>2, <1>3 DEF Clamped
<1> HIDE DEF at, shown, n
<1>7. /\ rows \in Seq(0 .. MaxRows - 1) /\ Len(rows) = Least(room, n)
      /\ rows = SubSeq(View, shown.scroll + 1, shown.scroll + Len(rows))
      /\ shown.scroll \in 0 .. n /\ View[shown.cursor + 1] \in Range(rows)
  BY <1>2, <1>3, RowsShown DEF n
<1> HIDE DEF rows
<1>8. /\ frame'.rows = rows /\ frame'.marked = marked
      /\ frame'.at = IF Filtering \/ pane = "tracks" THEN View[shown.cursor + 1] ELSE None
  BY <1>1, <1>6
<1>9. marked \subseteq Range(rows)
  OBVIOUS
<1> HIDE DEF marked
<1>10. FrameOk'
  BY <1>1, <1>7, <1>8, <1>9 DEF FrameOk
<1>11. /\ search'.open = search.open /\ search'.query = search.query
       /\ search'.rows = search.rows
  BY <1>1, <1>5
<1>12. View' = View /\ Filtering' = Filtering /\ Size' = Size
  BY <1>1, <1>11 DEF View, Filtering, Size, Whole, list
<1>13. ListOk' /\ TakenOk' /\ ModeOk' /\ CountsOk'
  <2>1. ListOk' /\ TakenOk'
    BY <1>0, <1>1, ListKept, NothingTaken
  <2>2. ModeOk'
    BY <1>0, <1>1, <1>11, ModeKept
  <2>3. CountsOk'
    BY <1>0, <1>1, IntRange DEF CountsOk
  <2> QED BY <2>1, <2>2, <2>3
<1>14. CursorOk'
  BY <1>0, <1>1, <1>4 DEF CursorOk
<1>15. BoxOk'
  <2>1. CASE Filtering
    <3>1. search' = shown /\ search' \in Boxes /\ search'.rows = View
      BY <1>1, <1>5, <2>1
    <3>2. search'.cursor \in 0 .. n - 1 /\ search'.cursor <= Most(0, n - 1)
      BY <1>2, <1>3, <3>1 DEF Most
    <3>3. search'.open \/ search' = Closed
      BY <1>11, <2>1 DEF Filtering
    <3>4. pattern' \in Query \cup {NoQuery}
      BY <1>0, <1>1, BoxIs
    <3> QED BY <1>2, <3>1, <3>2, <3>3, <3>4, BoxNext DEF n
  <2>2. CASE ~Filtering
    BY <1>0, <1>1, <2>2, BoxKept DEF box
  <2> QED BY <2>1, <2>2
<1>16. ScreenShowsCursor'
  <2>1. Len(frame'.rows) = Least(page', Len(View'))
    BY <1>1, <1>7, <1>8, <1>12 DEF n
  <2>2. \E top \in 0 .. Len(View') :
          frame'.rows = SubSeq(View', top + 1, top + Len(frame'.rows))
    BY <1>7, <1>8, <1>12 DEF n
  <2>3. ASSUME pane' = "tracks"
        PROVE  frame'.at = IF Filtering' THEN search'.rows[search'.cursor + 1]
                           ELSE track'.cursor
    <3>1. frame'.at = View[shown.cursor + 1]
      BY <1>1, <1>8, <2>3
    <3> QED BY <1>1, <1>3, <1>4, <1>5, <1>12, <3>1
  <2> QED BY <2>1, <2>2, <2>3 DEF ScreenShowsCursor
<1>17. CursorDrawn'
  <2>0. pane' = "tree" => frame'.at = None
    BY <1>0, <1>1, <1>8 DEF ModeOk, Filtering
  <2>1. ~Filtering' /\ Size' > 0 => track'.cursor \in 0 .. Size' - 1
    BY <1>1, <1>3, <1>4, <1>12
  <2>2. CASE Visual
    <3>1. ~Filtering
      BY <1>0, <2>2 DEF ModeOk, Visual, Filtering
    <3>2. track'.cursor = Nearest(track.cursor) /\ track'.cursor \in 0 .. Size - 1
      BY <1>1, <1>3, <1>4, <3>1
    <3>3. Nearest(track'.cursor) = Nearest(track.cursor)
      BY <1>0, <3>2, NearestIs
    <3>4. Nearest(track.cursor)' = Nearest(track'.cursor) /\ Nearest(anchor)' = Nearest(anchor)
      BY <1>1, <1>12 DEF Nearest
    <3>5. From' = From /\ To' = To /\ Visual'
      BY <1>1, <2>2, <3>3, <3>4 DEF From, To, Visual
    <3> QED BY <1>8, <2>0, <2>1, <2>2, <3>5 DEF CursorDrawn, marked
  <2>3. CASE ~Visual
    <3>1. ~Visual' /\ marked = {}
      BY <1>1, <2>3 DEF Visual, marked
    <3> QED BY <1>8, <2>0, <2>1, <3>1 DEF CursorDrawn
  <2> QED BY <2>2, <2>3
<1> QED BY <1>10, <1>13, <1>14, <1>15, <1>16, <1>17, InvNext

LEMMA Draws ==
  ASSUME TracksInv, Draw
  PROVE  TracksInv'
<1>1. search.open \in BOOLEAN
  BY InvParts DEF BoxOk
<1>2. PICK h \in Heights : DrawIn(Page(h, search.open))
  BY DEF Draw
<1>3. Page(h, search.open) \in 1 .. MaxInt
  BY <1>1, PageIs
<1> QED BY <1>2, <1>3, DrawsBlank, DrawsRows

LEMMA Starts == Init => TracksInv
<1> SUFFICES ASSUME Init PROVE TracksInv
  OBVIOUS
<1>1. ListOk /\ CursorOk /\ ModeOk /\ TakenOk /\ CountsOk
  BY IntRange, EmptySeq, PositionHas
     DEF Init, ListOk, CursorOk, ModeOk, TakenOk, CountsOk, Closed
<1>2. BoxOk
  <2>1. 0 <= Most(0, 0 - 1) /\ 0 <= MaxRows
    BY IntRange DEF Most
  <2>2. /\ search \in Boxes /\ search.cursor = 0 /\ Len(search.rows) = 0
        /\ search = Closed /\ pattern \in Query \cup {NoQuery}
    BY ClosedIs DEF Init
  <2> QED BY <2>1, <2>2 DEF BoxOk, Boxes
<1>3. /\ frame.rows = <<>> /\ frame.at = None /\ frame.marked = {} /\ Range(frame.rows) = {}
  BY DEF Init, Blank, Range
<1>4. FrameOk
  <2>1. page \in 1 .. MaxInt
    BY IntRange DEF Init, Most
  <2> QED BY <1>3, <2>1, EmptySeq DEF FrameOk
<1>5. ~Filtering /\ Size = 0
  BY EmptySeq DEF Init, Filtering, Closed, Size
<1>6. View = <<>> /\ Len(View) = 0
  BY <1>1, <1>2, <1>5, ViewIs
<1>7. ScreenShowsCursor
  <2>1. Len(frame.rows) = 0 /\ 0 + Len(frame.rows) = 0 /\ 0 + 1 = 1
    BY <1>3, EmptySeq
  <2>2. SubSeq(View, 1, 0) = <<>>
    BY SubSeqEmpty
  <2>3. Least(page, Len(View)) = 0
    BY <1>4, <1>6 DEF Least, FrameOk
  <2>4. \E top \in 0 .. Len(View) :
          frame.rows = SubSeq(View, top + 1, top + Len(frame.rows))
    BY <1>3, <1>6, <2>1, <2>2
  <2> QED BY <1>6, <2>1, <2>3, <2>4 DEF ScreenShowsCursor
<1>8. CursorDrawn
  BY <1>3, <1>5 DEF CursorDrawn
<1> QED BY <1>1, <1>2, <1>4, <1>7, <1>8
        DEF TracksInv, TypeOK, ListsBounded, ListOk, CursorOk, ModeOk, BoxOk, TakenOk,
            FrameOk, CountsOk

\* Nothing of what the invariant is about changes.
LEMMA Stutters ==
  ASSUME TracksInv, UNCHANGED vars
  PROVE  TracksInv'
BY DEF TracksInv, TypeOK, ListsBounded, ScreenShowsCursor, CursorDrawn, vars, list, box,
       View, Filtering, Whole, Size, From, To, Nearest, Visual

-----------------------------------------------------------------------------
(* Theorems.                                                               *)

\* TracksInv is inductive: every key, click, refresh and frame keeps it.
THEOREM TracksHold == Spec => []TracksInv
<1>1. TracksInv /\ [Next]_vars => TracksInv'
  <2> SUFFICES ASSUME TracksInv, [Next]_vars PROVE TracksInv'
    OBVIOUS
  <2>1. CASE /\ behind < MaxBehind /\ behind' = behind + 1 /\ Handled
             /\ UNCHANGED <<page, frame>>
    BY <2>1, HandledKeeps
  <2>2. CASE Draw
    BY <2>2, Draws
  <2>3. CASE UNCHANGED vars
    BY <2>3, Stutters
  <2> QED BY <2>1, <2>2, <2>3 DEF Next
<1> QED BY <1>1, Starts, PTL DEF Spec

\* Every variable keeps its type: the cursor is an int, whatever the keys add
\* to it, and no row of a frame, a selection or a search is beyond the bound.
THEOREM TracksTyped == Spec => []TypeOK
<1>1. TracksInv => TypeOK
  BY DEF TracksInv
<1> QED BY <1>1, TracksHold, PTL

\* renderTrackBuffer(): a frame shows a full page of the view, or all of it,
\* with the row of the cursor in it, however far the cursor was left from the
\* list and whatever became of the list since the last one.
THEOREM CursorStaysOnScreen == Spec => []ScreenShowsCursor
<1>1. TracksInv => ScreenShowsCursor
  BY DEF TracksInv
<1> QED BY <1>1, TracksHold, PTL

-----------------------------------------------------------------------------
(* What the keys act on.                                                   *)

\* A frame nothing was handled since highlights the cursor of a list that has
\* the keyboard, and that is one of its rows.
LEMMA HighlightIs ==
  ASSUME TracksInv, behind = 0, pane = "tracks", ~Filtering, Size > 0
  PROVE  frame.at = track.cursor /\ track.cursor \in 0 .. Size - 1
<1>1. View # <<>>
  BY InvParts, ViewIs
<1>2. frame.at = track.cursor
  BY <1>1, InvParts DEF ScreenShowsCursor
<1> QED BY <1>2, InvParts DEF CursorDrawn

\* One of no rows highlights nothing.
LEMMA NothingHighlighted ==
  ASSUME TracksInv, behind = 0, ~Filtering, Size = 0
  PROVE  frame.at = None
<1>1. Len(View) = 0 /\ page \in 1 .. MaxInt /\ ListOk /\ BoxOk
  BY InvParts, ViewIs DEF FrameOk
<1>2. Len(frame.rows) = 0 /\ frame.rows \in Seq(0 .. MaxRows - 1)
  BY <1>1, InvParts, IntRange DEF ScreenShowsCursor, FrameOk, Least
<1>3. Range(frame.rows) = {}
  BY <1>2, LenProperties DEF Range
<1> QED BY <1>3, InvParts DEF FrameOk

LEMMA StepFollows ==
  ASSUME TracksInv, behind = 0, NEW d \in {1, -1}, Step(d), frame.at # None
  PROVE  track'.cursor = IF Visual THEN Nearest(frame.at + d) ELSE (frame.at + d) % Size
<1>0. ListOk /\ CursorOk /\ pane = "tracks" /\ ~Filtering
  BY InvParts DEF Step, InPane, Filtering
<1>1. Size \in Nat /\ Size <= MaxRows /\ Size # 0
  BY <1>0, SizeIs, NothingHighlighted
<1>2. frame.at = track.cursor /\ track.cursor \in 0 .. Size - 1
  BY <1>0, <1>1, HighlightIs
<1>3. /\ track.cursor \in Position /\ MinInt <= track.cursor + d
      /\ track.cursor + d <= MaxInt /\ 0 - MaxInt <= d /\ d <= MaxInt
  BY <1>0, <1>1, <1>2, IntRange DEF CursorOk
<1>4. Plus(track.cursor, d) = frame.at + d
  BY <1>2, <1>3, PlusType
<1>5. CASE Visual
  <2>1. track' = [track EXCEPT !.cursor = Nearest(Plus(track.cursor, d))]
    BY <1>1, <1>5 DEF Step
  <2> QED BY <1>0, <1>4, <1>5, <2>1 DEF CursorOk
<1>6. CASE ~Visual
  <2>1. track'.cursor = Plus(track.cursor, d) % Size
    BY <1>1, <1>6 DEF Step
  <2> QED BY <1>4, <1>6, <2>1
<1> QED BY <1>5, <1>6

LEMMA RowFollows ==
  ASSUME TracksInv, behind = 0, TakeRow \/ DeleteCurrent
  PROVE  taken' \in {{}, {frame.at}}
<1>0. ListOk /\ pane = "tracks" /\ ~Filtering /\ Size > 0
  BY InvParts DEF TakeRow, DeleteCurrent, InTracks, InPane, Filtering
<1>1. frame.at = track.cursor /\ track.cursor \in 0 .. Size - 1
  BY <1>0, HighlightIs
<1>2. Nearest(track.cursor) = frame.at /\ frame.at \in Int
  BY <1>0, <1>1, NearestIs, SizeIs
<1>3. CASE TakeRow
  BY <1>2, <1>3 DEF TakeRow
<1>4. CASE DeleteCurrent
  <2>1. taken' = {} \/ taken' = frame.at .. frame.at
    BY <1>2, <1>4 DEF DeleteCurrent, Delete
  <2> QED BY <1>2, <2>1
<1> QED BY <1>3, <1>4

LEMMA SelectionFollows ==
  ASSUME TracksInv, behind = 0, YankSelection \/ DeleteSelection
  PROVE  \/ taken' = {}
         \/ taken' \cap Range(frame.rows) = frame.marked /\ frame.at \in taken' \cup {None}
<1>0. ListOk /\ CursorOk /\ ModeOk /\ Visual /\ ~Filtering
  BY InvParts DEF YankSelection, DeleteSelection, ModeOk, Filtering, Visual
<1>1. CASE ~(Size > 0)
  <2>1. Size = 0
    BY <1>0, <1>1, SizeIs
  <2> QED BY <2>1 DEF YankSelection, DeleteSelection
<1>2. CASE Size > 0
  <2>1. taken' = {} \/ taken' = From .. To
    BY <1>0, <1>2, SizeIs DEF YankSelection, DeleteSelection, Delete
  <2>2. frame.marked = (From .. To) \cap Range(frame.rows)
    BY <1>0, InvParts DEF CursorDrawn
  <2>3. frame.at \in (From .. To) \cup {None}
    <3>1. CASE pane = "tree"
      BY <3>1, InvParts DEF CursorDrawn
    <3>2. CASE pane = "tracks"
      <4>1. frame.at = track.cursor /\ track.cursor \in 0 .. Size - 1
        BY <1>0, <1>2, <3>2, HighlightIs
      <4>2. frame.at = Nearest(track.cursor) /\ frame.at \in Int
        BY <1>0, <4>1, NearestIs, SizeIs
      <4>3. /\ From \in Int /\ To \in Int /\ From <= frame.at /\ frame.at <= To
        BY <1>0, <1>2, <4>2, SelectionIs
      <4> QED BY <4>2, <4>3
    <3> QED BY <1>0, <3>1, <3>2 DEF ModeOk
  <2> QED BY <2>1, <2>2, <2>3
<1> QED BY <1>1, <1>2

LEMMA ReorderFollows ==
  ASSUME TracksInv, behind = 0, NEW d \in {1, -1}, Reorder(d), songs' # songs
  PROVE  songs'[track'.cursor + 1] = Row(frame.at)
<1> DEFINE from == Nearest(track.cursor)
           to == Nearest(from + d)
<1>0. ListOk /\ CursorOk /\ pane = "tracks" /\ ~Filtering /\ track.cursor \in Int
  BY InvParts, PositionHas DEF Reorder, InTracks, InPane, Filtering, CursorOk
<1>1. /\ from # to /\ songs' = Swapped(songs, from, to)
      /\ track' = [track EXCEPT !.cursor = to]
  BY DEF Reorder
<1>2. from \in Nat /\ from + d \in Int /\ (Size = 0 => from = 0)
  BY <1>0, NearestIs
<1>3. (Size = 0 => to = 0) /\ (Size > 0 => to \in 0 .. Size - 1)
  BY <1>0, <1>2, NearestIs
<1>4. Size > 0
  BY <1>0, <1>1, <1>2, <1>3, SizeIs
<1>5. frame.at = track.cursor /\ track.cursor \in 0 .. Size - 1
  BY <1>0, <1>4, HighlightIs
<1>6. from = frame.at /\ from \in 0 .. Size - 1 /\ to \in 0 .. Size - 1
  BY <1>0, <1>3, <1>4, <1>5, NearestIs
<1> HIDE DEF from, to
<1>7. Swapped(songs, from, to)[to + 1] = songs[from + 1]
  BY <1>0, <1>6, SwappedIs DEF ListOk, Size
<1>8. track'.cursor = to
  BY <1>0, <1>1 DEF CursorOk
<1> QED BY <1>1, <1>6, <1>7, <1>8 DEF Row

LEMMA AcceptFollows ==
  ASSUME TracksInv, behind = 0, AcceptSearch, Searched
  PROVE  track'.cursor = frame.at /\ Row(frame.at) \in Matching[pattern']
<1> DEFINE q == search.query
           at == search.rows[search.cursor + 1]
<1>0. /\ ListOk /\ CursorOk /\ BoxOk /\ search.open /\ pane = "tracks"
      /\ search.rows # <<>> /\ search.rows = Results(q)
  BY InvParts DEF AcceptSearch, Searched, ModeOk
<1>1. Filtering
  BY <1>0 DEF Filtering, Results
<1>2. View = search.rows /\ frame.at = at
  BY <1>0, <1>1, InvParts, ViewIs DEF ScreenShowsCursor
<1>3. search.cursor + 1 \in 1 .. Len(search.rows)
  <2>1. Len(search.rows) > 0
    BY <1>0, <1>1, <1>2, ViewIs
  <2> QED BY <1>0, <2>1, BoxIs
<1>4. Row(at) \in Matching[q]
  BY <1>0, <1>3, ResultsAre
<1>5. track'.cursor = at /\ pattern' = q
  BY <1>0 DEF AcceptSearch, JumpTo, CursorOk
<1> QED BY <1>2, <1>4, <1>5

\* app.cpp: a key handled when the screen is up to date acts on the row it
\* highlights, and a selection on the rows in its colour, because
\* renderTrackBuffer() left the cursor on what it drew.
THEOREM ScreenIsFollowed == Spec => KeysFollowTheScreen
<1>1. TracksInv => FollowsTheScreen
  <2> SUFFICES ASSUME TracksInv, behind = 0 PROVE FollowsTheScreen
    BY DEF FollowsTheScreen
  <2>1. ASSUME NEW d \in {1, -1}, Step(d), frame.at # None
        PROVE  track'.cursor = IF Visual THEN Nearest(frame.at + d)
                               ELSE (frame.at + d) % Size
    BY <2>1, StepFollows
  <2>2. ASSUME TakeRow \/ DeleteCurrent PROVE taken' \in {{}, {frame.at}}
    BY <2>2, RowFollows
  <2>3. ASSUME YankSelection \/ DeleteSelection
        PROVE  \/ taken' = {}
               \/ /\ taken' \cap Range(frame.rows) = frame.marked
                  /\ frame.at \in taken' \cup {None}
    BY <2>3, SelectionFollows
  <2>4. ASSUME NEW d \in {1, -1}, Reorder(d), songs' # songs
        PROVE  songs'[track'.cursor + 1] = Row(frame.at)
    BY <2>4, ReorderFollows
  <2>5. ASSUME AcceptSearch, Searched
        PROVE  track'.cursor = frame.at /\ Row(frame.at) \in Matching[pattern']
    BY <2>5, AcceptFollows
  <2> QED BY <2>1, <2>2, <2>3, <2>4, <2>5 DEF FollowsTheScreen
<1>2. TracksInv /\ [Next]_vars => [FollowsTheScreen]_vars
  BY <1>1
<1> QED BY <1>2, TracksHold, PTL DEF Spec, KeysFollowTheScreen

=============================================================================
