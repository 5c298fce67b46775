----------------------------- MODULE PopupLayout ----------------------------
(***************************************************************************)
(* What the candidate popup computes: which presentations the pipe server  *)
(* lets through (candidate_pipe_protocol.hpp) and which the DLL accepts    *)
(* (copy_presentation), the columns the candidates are laid out in, the    *)
(* size of the window and where show_at puts it (candidate_window.hpp).    *)
(*                                                                         *)
(* A presentation is a record with count, selection, columns and           *)
(* numberColumn; candidates are numbered from 0.  An area is a monitor's   *)
(* work area, an anchor the rectangle of the text being composed.          *)
(***************************************************************************)
EXTENDS Integers

MaxCandidates == 36
MaxColumns    == 4
PageSize      == 9

Least(a, b)    == IF a < b THEN a ELSE b
Greatest(a, b) == IF a < b THEN b ELSE a

-----------------------------------------------------------------------------
(* Validation *)

\* Mutant: the candidates need not fit into the columns.
ValidWithoutRoom(p) ==
    /\ p.count # 0 /\ p.count <= MaxCandidates
    /\ p.columns # 0 /\ p.columns <= MaxColumns
    /\ p.numberColumn < p.columns
    /\ p.selection < p.count

\* valid_presentation_header(); the navigation flags are Boolean here.
ValidHeader(p) ==
    /\ p.count # 0 /\ p.count <= MaxCandidates
    /\ p.columns # 0 /\ p.columns <= MaxColumns
    /\ p.numberColumn < p.columns
    /\ p.selection < p.count
    /\ p.count <= p.columns * PageSize

\* copy_presentation() does not ask that the candidates fit.
Accepts(p) ==
    /\ p.count # 0 /\ p.count <= MaxCandidates
    /\ p.selection < p.count
    /\ p.columns # 0 /\ p.columns <= MaxColumns
    /\ p.numberColumn < p.columns

\* anchor_top is at most anchor_y.
CopiedAnchor(a) == [a EXCEPT !.top = Least(a.top, a.bottom)]

-----------------------------------------------------------------------------
(* Columns *)

\* build_column(): the candidates of column k, and how many columns there are.
ColumnsOf(p) == Greatest(1, Least(p.columns, MaxColumns))

InColumn(p, k) == {i \in 0..(p.count - 1) : k * PageSize <= i /\ i < (k + 1) * PageSize}

Drawn(p) == UNION {InColumn(p, k) : k \in 0..(ColumnsOf(p) - 1)}

\* client_size(): the rows the window has room for.
RowsOf(p) == Greatest(1, Least(PageSize, p.count))

-----------------------------------------------------------------------------
(* Size and place *)

\* MulDiv rounds to the nearest integer.
Scale(v, dpi) == (v * dpi + 48) \div 96

Size(p, dpi) ==
    [w |-> IF ColumnsOf(p) = 1 THEN Scale(114, dpi)
           ELSE Scale(12, dpi) + ColumnsOf(p) * Scale(84, dpi)
                               + (ColumnsOf(p) - 1) * Scale(12, dpi),
     h |-> Scale(12, dpi) + RowsOf(p) * Scale(29, dpi) + Scale(24, dpi)]

PlaceX(x, w, area) ==
    LET fitted == IF x + w > area.right THEN area.right - w ELSE x
    IN  Greatest(fitted, area.left)

\* Mutant: the popup is flipped above the lower edge of the text.
FlipAboveBottom(a, h, gap, area) ==
    LET below == a.bottom + gap
        y     == IF below + h > area.bottom THEN a.bottom - h - gap ELSE below
    IN  Greatest(y, area.top)

\* Below the text, or above the whole of it when there is no room below.
PlaceY(a, h, gap, area) ==
    LET below == a.bottom + gap
        y     == IF below + h > area.bottom THEN a.top - h - gap ELSE below
    IN  Greatest(y, area.top)

Place(a, size, gap, area) ==
    [x |-> PlaceX(a.x, size.w, area), y |-> PlaceY(a, size.h, gap, area)]

-----------------------------------------------------------------------------
(* What a place should be *)

\* The popup lies on the work area if it fits at all: across always; below,
\* unless the text itself ends lower, as in a search box on the taskbar.
OnWorkArea(a, place, size, gap, area) ==
    /\ place.x >= area.left /\ place.y >= area.top
    /\ size.w <= area.right - area.left => place.x + size.w <= area.right
    /\ size.h <= area.bottom - area.top =>
          place.y + size.h <= Greatest(area.bottom, a.top - gap)

\* The popup does not cover the text: it is below it or above it, unless
\* there is no room above and the work area's edge pushed it down.
ClearOfText(a, place, size, area) ==
    place.y >= a.bottom \/ place.y + size.h <= a.top \/ place.y = area.top
=============================================================================
