-------------------------------- MODULE Osd ---------------------------------
(***************************************************************************)
(* Where the timestamp is drawn (crates/atometd/src/osd.rs): the region's  *)
(* rectangle in the picture, and the glyphs of the text in its bitmap.     *)
(* All positions count from 0, as in the code.                             *)
(***************************************************************************)
EXTENDS Integers

CHAR_WIDTH    == 12
CHAR_HEIGHT   == 16
CHAR_LENGTH   == 52   \* glyphs of the font
TEXT_BUF_SIZE == 43

Stride == TEXT_BUF_SIZE * (CHAR_WIDTH + 2)

Positions == {"TopLeft", "TopRight", "BottomLeft", "BottomRight"}

\* TimestampPos::from_u32
from_u32(value) ==
  CASE value = 0 -> "TopLeft"
    [] value = 1 -> "TopRight"
    [] value = 3 -> "BottomRight"
    [] OTHER     -> "BottomLeft"

\* The rectangle of set_osd_attr, both corners inclusive.
rect(pos) ==
  LET left == IF pos \in {"TopLeft", "BottomLeft"} THEN CHAR_WIDTH + 2 ELSE 1920 - Stride
      top  == IF pos \in {"TopLeft", "TopRight"} THEN 5 ELSE 1080 - 21
  IN  [x0 |-> left, x1 |-> left + Stride - 1, y0 |-> top, y1 |-> top + 15]

\* A character is <<kind, number>>: digits and letters are numbered, others are not.
Characters ==
  {<<".", 0>>, <<"-", 0>>, <<"+", 0>>, <<":", 0>>, <<"v", 0>>}
    \cup ({"digit"} \X (0 .. 9)) \cup ({"letter"} \X (0 .. 25))

char_index(c) ==
  CASE c[1] = "."      -> 0
    [] c[1] = "-"      -> 49
    [] c[1] = "+"      -> 50
    [] c[1] = ":"      -> 12
    [] c[1] = "digit"  -> 2 + c[2]
    [] c[1] = "letter" -> 19 + c[2]
    [] c[1] = "v"      -> 51

\* Row j of the i-th glyph, as positions in timestamp_data.
Cells(i, j) ==
  LET base_offset == i * (CHAR_WIDTH + 1)
  IN  (j * Stride + base_offset + 1) .. (j * Stride + base_offset + CHAR_WIDTH)

-----------------------------------------------------------------------------
(* Properties *)

\* However the setting is sent, the region lies in the picture and has the size of
\* its bitmap, which the vendor's library reads to the end (osd.rs:28-79).
RegionFits(value) ==
  LET r == rect(from_u32(value))
  IN  /\ 0 <= r.x0 /\ r.x1 < 1920 /\ 0 <= r.y0 /\ r.y1 < 1080
      /\ r.x1 - r.x0 + 1 = Stride /\ r.y1 - r.y0 + 1 = CHAR_HEIGHT

\* A text of TEXT_BUF_SIZE characters, which is the timestamp with a version of five
\* characters, stays in its rows, glyph beside glyph: a slice beyond the bitmap would
\* panic, and the release profile aborts (osd.rs:269-296).
TextFits(length) ==
  \A i \in 0 .. length - 1 : \A j \in {0, CHAR_HEIGHT - 1} :
    /\ Cells(i, j) \subseteq j * Stride .. (j + 1) * Stride - 1
    /\ i > 0 => Cells(i, j) \cap Cells(i - 1, j) = {}

\* Every character of the text has a glyph of its own in the font.
GlyphsApart ==
  \A c, d \in Characters :
    /\ char_index(c) \in 0 .. CHAR_LENGTH - 1
    /\ char_index(c) = char_index(d) => c = d
=============================================================================
