---------------------------- MODULE DeskGeometry ----------------------------
(***************************************************************************)
(* Where a desk stands: Layout.desk_rect (frontend/layout.py), one column,  *)
(* one row per slot.  Lengths are pixels.  The pitch is a fraction, so all  *)
(* is multiplied by the number of rows; the code computes with floats,      *)
(* which may put a desk one pixel off where the fraction is exact.          *)
(***************************************************************************)
EXTENDS Integers

DESK_HEIGHT  == 200
DESK_MARGIN  == 28
DESK_MIN_GAP == 4

AtLeast(m, x) == IF x < m THEN m ELSE x
AtMost(m, x)  == IF x > m THEN m ELSE x

\* Mutant: the gap has no minimum.
LooseHeight(rows, h) == AtMost((DESK_HEIGHT + DESK_MARGIN) * rows, h)

(* The height of all the rows: pitch * rows. *)
ColumnHeight(rows, h) ==
  AtLeast((DESK_HEIGHT + DESK_MIN_GAP) * rows,
          AtMost((DESK_HEIGHT + DESK_MARGIN) * rows, h))

(* The top of the desk of a slot, in an office of height h. *)
DeskTop(slot, rows, h) ==
  LET column == ColumnHeight(rows, h)
  IN (AtLeast(0, h - column) * rows + (2 * slot + 1) * column - DESK_HEIGHT * rows)
       \div (2 * rows)
=============================================================================
