-------------------------- MODULE WindowGenerator --------------------------
(***************************************************************************)
(* The 3x3 window generator of rtl/memory/tensorwright_window_generator_   *)
(* 3x3.sv.  One step is one rising clock edge.  A pixel is symbolic: the   *)
(* source sends frame after frame in raster order and a pixel is its frame *)
(* and its place in it, so a window shows which pixels met in it.          *)
(***************************************************************************)
EXTENDS Integers

CONSTANTS
  IMAGE_WIDTH, IMAGE_HEIGHT,
  Frames,    \* frames are told apart modulo this number
  Blank,     \* the content of a cleared tap, and of a word not yet written
  NoWindow   \* m_tvalid_o is low

ASSUME ImageAssumption ==
  /\ IMAGE_WIDTH \in Nat /\ IMAGE_WIDTH >= 3
  /\ IMAGE_HEIGHT \in Nat /\ IMAGE_HEIGHT >= 3
  /\ Frames \in Nat \ {0}

Columns == 0 .. IMAGE_WIDTH - 1
Rows == 0 .. IMAGE_HEIGHT - 1
Pixel == [frame : 0 .. Frames - 1, row : Rows, column : Columns]

ASSUME BlankAssumption == Blank \notin Pixel

(* A window: the lanes 0-2, 3-5 and 6-8 of m_tdata_o, and m_tlast_o. *)
Content == Pixel \cup {Blank}
Strip == Content \X Content \X Content
Window == [top : Strip, middle : Strip, bottom : Strip, last : BOOLEAN]

ASSUME NoWindowAssumption == NoWindow \notin Window

VARIABLES
  previous_row, two_rows_back,   \* the line buffers
  top, middle, bottom,           \* the taps: the left and the middle pixel of a row
  column, row,
  window,                        \* m_tdata_o and m_tlast_o, or NoWindow
  source,                        \* the pixel the source sends next
  expected                       \* history: the last pixel of the window the
                                 \* consumer is to get next

taps == << top, middle, bottom >>
generatorVars == << previous_row, two_rows_back, taps, column, row, window, source, expected >>

(* The pixel after it in raster order, frame after frame.                  *)
Following(pixel) ==
  IF pixel.column # IMAGE_WIDTH - 1
    THEN [frame |-> pixel.frame, row |-> pixel.row, column |-> pixel.column + 1]
  ELSE IF pixel.row # IMAGE_HEIGHT - 1
    THEN [frame |-> pixel.frame, row |-> pixel.row + 1, column |-> 0]
  ELSE [frame |-> (pixel.frame + 1) % Frames, row |-> 0, column |-> 0]

(* The first pixel, from this one on, that completes a window. *)
NextCorner(pixel) ==
  IF pixel.row < 2 THEN [frame |-> pixel.frame, row |-> 2, column |-> 2]
  ELSE IF pixel.column < 2 THEN [frame |-> pixel.frame, row |-> pixel.row, column |-> 2]
  ELSE pixel

EmptyTap == [left |-> Blank, middle |-> Blank]
EmptyLine == [c \in Columns |-> Blank]

GeneratorInit ==
  /\ previous_row = EmptyLine
  /\ two_rows_back = EmptyLine
  /\ top = EmptyTap /\ middle = EmptyTap /\ bottom = EmptyTap
  /\ column = 0 /\ row = 0
  /\ window = NoWindow
  /\ source = [frame |-> 0, row |-> 0, column |-> 0]
  /\ expected = NextCorner(source)

(* The faulty variants are not used by the specification: replacing the    *)
(* definition that follows each of them by it breaks a property.           *)
ReadyAlways(output_ready) == output_ready \in BOOLEAN

pixel_tready(output_ready) == window = NoWindow \/ output_ready

produces_window == row >= 2 /\ column >= 2

last_column == column = IMAGE_WIDTH - 1
last_row == row = IMAGE_HEIGHT - 1

(* The window the taps, the line buffers and a pixel make. *)
Assembled(pixel) ==
  [top    |-> << top.left, top.middle, two_rows_back[column] >>,
   middle |-> << middle.left, middle.middle, previous_row[column] >>,
   bottom |-> << bottom.left, bottom.middle, pixel >>,
   last   |-> last_row /\ last_column]

Shift(tap, pixel) == [left |-> tap.middle, middle |-> pixel]

ShiftTaps(pixel) ==
  /\ top' = IF last_column THEN EmptyTap ELSE Shift(top, two_rows_back[column])
  /\ middle' = IF last_column THEN EmptyTap ELSE Shift(middle, previous_row[column])
  /\ bottom' = IF last_column THEN EmptyTap ELSE Shift(bottom, pixel)

ShiftLines(pixel) ==
  /\ two_rows_back' = [two_rows_back EXCEPT ![column] = previous_row[column]]
  /\ previous_row' = [previous_row EXCEPT ![column] = pixel]

AdvancePosition ==
  /\ column' = IF last_column THEN 0 ELSE column + 1
  /\ row' = IF last_column THEN (IF last_row THEN 0 ELSE row + 1) ELSE row

(* An edge that takes a pixel; a window that was offered leaves on it.     *)
Transfer(output_ready) ==
  /\ pixel_tready(output_ready)
  /\ window' = IF produces_window THEN Assembled(source) ELSE NoWindow
  /\ ShiftLines(source)
  /\ ShiftTaps(source)
  /\ AdvancePosition
  /\ source' = Following(source)
  /\ expected' = IF window # NoWindow /\ output_ready
                   THEN NextCorner(Following(expected))
                   ELSE expected

(* An edge without a pixel on which the consumer takes the window. *)
Drain ==
  /\ window # NoWindow
  /\ window' = NoWindow
  /\ expected' = NextCorner(Following(expected))
  /\ UNCHANGED << previous_row, two_rows_back, taps, column, row, source >>

(* rst_ni low.  The line buffers keep the pixels of the frame before; the  *)
(* source begins a new frame.                                              *)
GeneratorReset ==
  /\ UNCHANGED << previous_row, two_rows_back >>
  /\ top' = EmptyTap /\ middle' = EmptyTap /\ bottom' = EmptyTap
  /\ column' = 0 /\ row' = 0
  /\ window' = NoWindow
  /\ source' = [frame |-> (source.frame + 1) % Frames, row |-> 0, column |-> 0]
  /\ expected' = NextCorner(source')

GeneratorNext ==
  \/ \E output_ready \in BOOLEAN : Transfer(output_ready)
  \/ Drain
  \/ GeneratorReset

GeneratorSpec == GeneratorInit /\ [][GeneratorNext]_generatorVars

-----------------------------------------------------------------------------
GeneratorTypeOK ==
  /\ previous_row \in [Columns -> Content]
  /\ two_rows_back \in [Columns -> Content]
  /\ \A tap \in {top, middle, bottom} : tap \in [left : Content, middle : Content]
  /\ column \in Columns /\ row \in Rows
  /\ window \in Window \cup {NoWindow}
  /\ source \in Pixel
  /\ expected \in Pixel

(* The pixel of the frame being sent, by its place. *)
At(r, c) == [frame |-> source.frame, row |-> r, column |-> c]

(* At every column the line buffers hold the two pixels of this frame      *)
(* above the pixel that comes there next, rows as far as the frame has     *)
(* them: neither a stall nor a new frame or a reset leaves a stale pixel   *)
(* where a window will read it.                                            *)
LinesHoldFrame ==
  \A c \in Columns :
    LET coming == IF c < column THEN row + 1 ELSE row
    IN  /\ coming >= 1 => previous_row[c] = At(coming - 1, c)
        /\ coming >= 2 => two_rows_back[c] = At(coming - 2, c)

(* The window whose last pixel is given. *)
StripAt(frame, r, c) ==
  << [frame |-> frame, row |-> r, column |-> c - 2],
     [frame |-> frame, row |-> r, column |-> c - 1],
     [frame |-> frame, row |-> r, column |-> c] >>

WindowAt(pixel) ==
  [top    |-> StripAt(pixel.frame, pixel.row - 2, pixel.column),
   middle |-> StripAt(pixel.frame, pixel.row - 1, pixel.column),
   bottom |-> StripAt(pixel.frame, pixel.row, pixel.column),
   last   |-> pixel.row = IMAGE_HEIGHT - 1 /\ pixel.column = IMAGE_WIDTH - 1]

(* The consumer gets every window of every frame once, in raster order and *)
(* made of the right nine pixels, with only the bottom-right one marked    *)
(* last, however the two sides stall and with no pause between frames.     *)
WindowsInOrder ==
  IF window = NoWindow
    THEN expected = NextCorner(source)
    ELSE /\ window = WindowAt(expected)
         /\ NextCorner(Following(expected)) = NextCorner(source)
=============================================================================
