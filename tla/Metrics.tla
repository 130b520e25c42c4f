------------------------------- MODULE Metrics -------------------------------
(***************************************************************************)
(* computeMetrics() of metrics.cpp: every size of a frame, derived from    *)
(* the size of the terminal (w columns, h rows, both at least 1), whether  *)
(* the bottom box is up, and the configured gap between the transport      *)
(* buttons.  Each operator is a field of UiMetrics, and RowWidth and       *)
(* TimelineWidth are what app.cpp draws from them, in cells.               *)
(*                                                                         *)
(* Widths are natural numbers wherever they are divided, so C++ division   *)
(* is \div.  Which chrome is shown (slogan, clock, icons) is left out,     *)
(* except for the volume group, whose cells are budgeted.                  *)
(***************************************************************************)
EXTENDS Integers

\* The size of a terminal, in columns or rows: std::max(1, ...).
Cells == Nat \ {0}

Least(i, j) == IF i < j THEN i ELSE j
Most(i, j) == IF i < j THEN j ELSE i
Clamped(i, lo, hi) == IF i < lo THEN lo ELSE IF i > hi THEN hi ELSE i
Percent(n, p) == (n * p) \div 100

\* The cells of a column and of the space in front of or behind it.
Spaced(n) == IF n > 0 THEN n + 1 ELSE 0

Large(w, h) == w >= 120 /\ h >= 36
Medium(w, h) == ~Large(w, h) /\ w >= 90 /\ h >= 28
Compact(w, h) == ~Large(w, h) /\ ~Medium(w, h) /\ w >= 65 /\ h >= 22
Minimal(w, h) == ~(w >= 65 /\ h >= 22)

-----------------------------------------------------------------------------
(* The workspace: one framed area, and the bottom box while it is up.      *)

FrameRows == 2

BottomHeight(h, box) == IF box /\ h >= 16 THEN 3 ELSE 0
MainHeight(h, box) == Most(3, h - BottomHeight(h, box))

\* The rows of the track list: its name, header and rule come first.
Page(h, box) == Most(1, MainHeight(h, box) - 5)

SinglePane(w) == w < 76
TreeWidth(w) == Clamped(Percent(w, 26), 18, 34)
BufferWidth(w) == IF SinglePane(w) THEN w ELSE Most(20, w - TreeWidth(w) - 3)

SideRows(h, box) == Most(0, MainHeight(h, box) - FrameRows)
PlaybackRows(h, box) ==
  LET rows == SideRows(h, box)
  IN IF rows >= 16 THEN 4 ELSE IF rows >= 12 THEN 3 ELSE IF rows >= 9 THEN 2 ELSE 0
TreeRows(h, box) == Most(1, SideRows(h, box) - PlaybackRows(h, box))
SideWidth(w) == Most(4, (IF SinglePane(w) THEN w ELSE TreeWidth(w)) - 2)

-----------------------------------------------------------------------------
(* The columns of a track row.                                             *)

RowLead == 3   \* the playing marker and the space before the title
TrackIcon == 2

\* What the columns are budgeted against, and what the row is clipped to.
Table(w) == Most(12, BufferWidth(w) - 2) - 2
Inner(w) == Most(16, BufferWidth(w) - 2)

IndexWidth(w) ==
  IF Table(w) >= 40 THEN Clamped(Percent(Table(w), 4), 0, Table(w) \div 6) ELSE 0

\* The text columns share what the fixed ones leave; the album takes the rest.
Split(budget, title, artist, album) ==
  [title |-> Percent(budget, title), artist |-> Percent(budget, artist),
   album |-> IF album THEN budget - Percent(budget, title) - Percent(budget, artist)
             ELSE 0]

Duration(w, h) ==
  IF Compact(w, h) THEN Clamped(Percent(Table(w), 12), 4, 7)
  ELSE Clamped(Percent(Table(w), 8), 4, 9)
SizeWidth(w) == IF Table(w) >= 62 THEN 9 ELSE IF Table(w) >= 52 THEN 6 ELSE 0

\* What is left for text beside an index and fixed columns.
Left(w, index, fixed) ==
  Most(0, Table(w) - RowLead - Spaced(index) - fixed - TrackIcon)
TextColumns(w, h, fixed) ==
  IF Compact(w, h) THEN Split(Left(w, IndexWidth(w), fixed), 72, 28, FALSE)
  ELSE Split(Left(w, IndexWidth(w), fixed), 50, 22, TRUE)

MinimalColumns(w) ==
  LET index == IF Table(w) >= 34 THEN IndexWidth(w) ELSE 0
  IN [text |-> Split(Left(w, index, Spaced(6)), 100, 0, FALSE),
      index |-> index, fixed |-> Spaced(6)]

LibraryColumns(w, h) ==
  LET fixed == Spaced(Duration(w, h)) + Spaced(SizeWidth(w))
  IN IF Minimal(w, h) THEN MinimalColumns(w)
     ELSE [text |-> TextColumns(w, h, fixed), index |-> IndexWidth(w), fixed |-> fixed]

PlaylistColumns(w, h) ==
  LET fixed == Spaced(Duration(w, h))
  IN IF Minimal(w, h) THEN MinimalColumns(w)
     ELSE [text |-> TextColumns(w, h, fixed), index |-> IndexWidth(w), fixed |-> fixed]

\* The moment a row was played takes 19 cells, or is not shown.
HistoryIndex(w) == IF Table(w) >= 60 THEN IndexWidth(w) ELSE 0
HistoryPlays(w) == Table(w) - RowLead - Spaced(HistoryIndex(w)) - 1 >= 19 + 2
HistoryColumns(w, h) ==
  LET index == HistoryIndex(w)
      fixed == IF HistoryPlays(w) THEN Spaced(19) ELSE 0
  IN IF Minimal(w, h) THEN MinimalColumns(w)
     ELSE [text |-> IF HistoryPlays(w) THEN Split(Left(w, index, fixed), 58, 42, FALSE)
                    ELSE Split(Left(w, index, fixed), 72, 28, FALSE),
           index |-> index, fixed |-> fixed]

\* songRowParts(): the marker, the number, the icon, the title behind its
\* space, and every other column behind a space of its own.
RowWidth(c) ==
  2 + Spaced(c.index) + TrackIcon + Spaced(c.text.title) + Spaced(c.text.artist)
    + Spaced(c.text.album) + c.fixed

-----------------------------------------------------------------------------
(* The player bar.                                                         *)

ButtonWidth(w) == IF w >= 70 THEN 5 ELSE 4
ButtonGap(gap) == Clamped(gap, 0, 4)
ControlsWidth(w, h, gap) ==
  IF Minimal(w, h) THEN 3 * ButtonWidth(w) + 2 * ButtonGap(gap)
  ELSE 5 * ButtonWidth(w) + 4 * ButtonGap(gap)
Padding(w) == IF w >= 100 THEN 2 ELSE 1
SmallGap(w) == IF w < 132 THEN 1 ELSE 2
LargeGap(w) == IF w < 132 THEN 1 ELSE 3
Times == 5 + 5

ShowVolume(w, h) == ~Minimal(w, h) /\ w >= 72
VolumeBudget(w, h) ==
  IF Minimal(w, h) THEN 0
  ELSE IF Compact(w, h) THEN Clamped(Percent(w, 10), 6, 14)
  ELSE IF Medium(w, h) THEN Clamped(Percent(w, 11), 8, 17)
  ELSE Clamped(Percent(w, 12), 10, 21)

\* All gaps, and what one row needs beside the progress bar.
Gaps(w) == 4 * SmallGap(w) + 2 * LargeGap(w)
Reserved(w, h, gap) ==
  ControlsWidth(w, h, gap) + Gaps(w) + 4 + Times + 2 * Padding(w)
    + (IF ShowVolume(w, h) THEN 1 + 4 + VolumeBudget(w, h) ELSE 0)

TwoRows(w, h, gap) == w - Reserved(w, h, gap) < 18
ControlHeight(w, h, gap) == IF TwoRows(w, h, gap) THEN 2 ELSE 1

\* On one row the volume bar gives cells to a progress bar shorter than 24.
Reclaimed(w, h, gap) ==
  IF TwoRows(w, h, gap) \/ ~ShowVolume(w, h) THEN 0
  ELSE Least(Most(0, 24 - (w - Reserved(w, h, gap))), Most(0, VolumeBudget(w, h) - 6))
VolumeWidth(w, h, gap) == VolumeBudget(w, h) - Reclaimed(w, h, gap)

\* On two rows it has the second one to itself and the volume group.
ProgressWidth(w, h, gap) ==
  IF TwoRows(w, h, gap)
  THEN Most(10, w - (Times + Gaps(w) + 2 + 2 * Padding(w)) - 2
                  - (IF ShowVolume(w, h) THEN 6 + VolumeBudget(w, h) ELSE 0))
  ELSE w - Reserved(w, h, gap) + Reclaimed(w, h, gap)

\* renderPlayerBar(): the times and the track, then the divider, the speaker,
\* which is drawn as wide as a button, the volume and its value.
TimelineWidth(w, h, gap) ==
  Times + 2 * SmallGap(w) + ProgressWidth(w, h, gap)
    + (IF ShowVolume(w, h)
       THEN 2 * LargeGap(w) + 1 + ButtonWidth(w) + 2 * SmallGap(w)
              + VolumeWidth(w, h, gap) + 4
       ELSE 0)

\* The same row with the transport in front and the padding at both ends.
BarWidth(w, h, gap) ==
  IF TwoRows(w, h, gap) THEN TimelineWidth(w, h, gap)
  ELSE 2 * Padding(w) + Most(12, ControlsWidth(w, h, gap)) + SmallGap(w)
         + TimelineWidth(w, h, gap)

-----------------------------------------------------------------------------
(* The immersive page: the song, the visualizer and the player bar.        *)

InfoRows == 2
InfoGap(h) == IF h >= 34 THEN 2 ELSE 1
PlayerGap(h) == IF h >= 30 THEN 2 ELSE 1

BodyHeight(w, h, gap) ==
  Most(4, h - FrameRows - PlayerGap(h) - ControlHeight(w, h, gap))
BodyWidth(w) == Most(8, w - 4)
OuterPad(w) ==
  LET b == BodyWidth(w)
      pad == IF b >= 118 THEN 4 ELSE IF b >= 96 THEN 3 ELSE IF b >= 76 THEN 2 ELSE 1
  IN Most(1, Least(pad, (b - 20) \div 2))
ContentWidth(w) == Most(8, BodyWidth(w) + 2 - 2 * OuterPad(w))

VisualArea(w, h, gap) == Most(4, BodyHeight(w, h, gap) - InfoRows - InfoGap(h))
TopPad(area) == IF area >= 8 THEN 1 ELSE 0
BottomPad(area) == IF area >= 12 THEN 1 ELSE 0
ContainerRows(area) == Most(4, area - TopPad(area) - BottomPad(area))

\* The grid of rectangles: how many of them with a stride fit in the room
\* between the edges, and the cells they take without the last gap.
ColumnStride == 2
RowStride(rows) == IF rows >= 12 THEN 2 ELSE 1
Bands(columns) ==
  Most(1, Most(8, columns - 2 * Clamped(columns \div 12, 2, 12)) \div ColumnStride)
Levels(rows) ==
  Most(1, Most(3, rows - 2 * Clamped(rows \div 12, 0, 3)) \div RowStride(rows))
GridColumns(columns) == Bands(columns) * ColumnStride - (ColumnStride - 1)
GridRows(rows) == Levels(rows) * RowStride(rows) - (RowStride(rows) - 1)
GridStart(room, grid) == (room - grid) \div 2

-----------------------------------------------------------------------------
(* Properties.                                                             *)

\* The rows of the table: a row is never wider than what the pane clips it
\* to, and that is never wider than the pane between its frame and divider.
RowFits(w, h) ==
  \A c \in {LibraryColumns(w, h), PlaylistColumns(w, h), HistoryColumns(w, h)} :
    RowWidth(c) <= Inner(w)
PaneFits(w) ==
  w >= 18 => Inner(w) <= IF SinglePane(w) THEN w - 2 ELSE w - 2 - TreeWidth(w) - 1

\* The track list gets every row of the terminal the frame, the heading and
\* the box leave, and the sidebar's two parts fill it.
RowsAddUp(h, box) ==
  /\ h >= 9 => FrameRows + 3 + Page(h, box) + BottomHeight(h, box) = h
  /\ TreeRows(h, box) + PlaybackRows(h, box) = SideRows(h, box)

\* The immersive page: what is stacked fills the terminal to the row, and the
\* content and its margins fill the frame to the column.
PageAddsUp(w, h, gap) ==
  LET area == VisualArea(w, h, gap)
  IN /\ h >= 12 =>
          FrameRows + InfoRows + InfoGap(h) + TopPad(area) + ContainerRows(area)
            + BottomPad(area) + PlayerGap(h) + ControlHeight(w, h, gap) = h
     /\ w >= 12 => ContentWidth(w) + 2 * OuterPad(w) = w - 2

\* The grid lies inside its container, and its margins differ by a cell at most.
Centred(room, grid) ==
  LET before == GridStart(room, grid)
      after == room - grid - before
  IN before >= 0 /\ after >= before /\ after - before <= 1
GridFits(w, h, gap) ==
  LET columns == ContentWidth(w)
      rows == ContainerRows(VisualArea(w, h, gap))
  IN Centred(columns, GridColumns(columns)) /\ Centred(rows, GridRows(rows))

\* The player bar: the progress bar keeps ten cells, the volume bar six.  On
\* two rows, or without a volume bar, it fits its frame; one row with a volume
\* bar is always wider than the terminal, by a small gap and by what the
\* speaker takes beyond the cells reserved for it.
BarKeepsTracks(w, h, gap) ==
  /\ ProgressWidth(w, h, gap) >= 10
  /\ ShowVolume(w, h) => VolumeWidth(w, h, gap) >= 6
BarFits(w, h, gap) ==
  w >= 24 /\ (TwoRows(w, h, gap) \/ ~ShowVolume(w, h)) => BarWidth(w, h, gap) <= w - 2
SingleBarIsWider(w, h, gap) ==
  ~TwoRows(w, h, gap) /\ ShowVolume(w, h) =>
    BarWidth(w, h, gap) = w + SmallGap(w) + ButtonWidth(w) - 4
=============================================================================
