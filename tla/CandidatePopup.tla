--------------------------- MODULE CandidatePopup ---------------------------
(***************************************************************************)
(* The popup itself (src/candidate/candidate_window.hpp, window.hpp): the  *)
(* fields of CandidateWindow, its native window, the XAML island in it and *)
(* what was rendered into the island last.                                 *)
(*                                                                         *)
(* Everything runs on the UI thread, one message at a time, so each action *)
(* is one whole message.  Present is the sequence of setters that          *)
(* present_on_thread calls, and shows which of them render.                *)
(***************************************************************************)
EXTENDS PopupLayout

CONSTANTS
    Presentations,  \* what may be presented: a list with its layout
    Anchors,        \* text rectangles, after copy_presentation
    Area,           \* the work area of the monitor
    Dpis            \* what GetDpiForWindow may say

ASSUME DpisAssumption == Dpis \subseteq Nat \ {0}

ASSUME AreaAssumption ==
    /\ Area.left \in Int /\ Area.right \in Int
    /\ Area.top \in Int /\ Area.bottom \in Int

ASSUME AnchorsAssumption ==
    \A a \in Anchors : a.x \in Int /\ a.top \in Int /\ a.bottom \in Int

Layouts(L) == [list : L, count : Nat, selection : Nat, columns : Nat, numberColumn : Nat]

ASSUME PresentationsAssumption == Presentations \subseteq Layouts({p.list : p \in Presentations})

VARIABLES
    fields,     \* candidates_, selection_index_, layout_columns_, number_column_
    created,    \* Window::hwnd_
    island,     \* xaml_island_ is ready
    surface,    \* the fields as they were rendered last
    dpi,        \* current_dpi_
    windowDpi,  \* the DPI of the monitor the window is on
    visible,    \* the window is shown
    frame,      \* where show_at put the window, and how large
    anchor,     \* ghost: the anchor of that show_at
    wanted,     \* ghost: what was presented last
    threw,      \* ghost: XAML threw in the last rendering
    settled     \* ghost: no DPI change moved the window since

vars == <<fields, created, island, surface, dpi, windowDpi, visible, frame,
          anchor, wanted, threw, settled>>

Empty == [list |-> "none", count |-> 0, selection |-> 0, columns |-> 1, numberColumn |-> 0]
NoFrame == [x |-> 0, y |-> 0, w |-> 0, h |-> 0]

\* Window, island and picture come and go together.
TypeOK ==
    /\ {created, island, visible, threw, settled} \subseteq BOOLEAN
    /\ dpi \in Dpis \cup {96} /\ windowDpi \in Dpis \cup {96}
    /\ fields.count \in 0..MaxCandidates
    /\ fields.columns \in 1..MaxColumns
    /\ island => created
    /\ surface # Empty => island
    /\ visible => created /\ fields.count > 0

Init ==
    /\ fields = Empty /\ surface = Empty /\ wanted = Empty
    /\ created = FALSE /\ island = FALSE /\ visible = FALSE
    /\ threw = FALSE /\ settled = FALSE
    /\ dpi = 96 /\ windowDpi \in Dpis
    /\ frame = NoFrame
    /\ anchor \in Anchors

-----------------------------------------------------------------------------
(* The setters *)

SetLayoutColumns(f, n) ==
    LET columns == Greatest(1, Least(n, MaxColumns))
    IN  [f EXCEPT !.columns = columns,
                  !.numberColumn = IF @ >= columns THEN 0 ELSE @]

SetNumberColumn(f, k) == [f EXCEPT !.numberColumn = Least(k, f.columns - 1)]

\* Mutant: the old selection survives in a shorter list.
UpdateWithoutClamp(f, p) ==
    [f EXCEPT !.list = p.list, !.count = Least(p.count, MaxCandidates)]

UpdateCandidates(f, p) ==
    LET count == Least(p.count, MaxCandidates)
    IN  [f EXCEPT !.list = p.list, !.count = count,
                  !.selection = IF @ >= count THEN count - 1 ELSE @]

\* Mutant: the selection is counted from one.
SetSelectionFromOne(f, i) == [f EXCEPT !.selection = Least(i + 1, f.count - 1)]

SetSelection(f, i) == [f EXCEPT !.selection = Least(i, f.count - 1)]

\* Rendering reaches the island if there is one; an exception is swallowed and
\* leaves the surface as it was.
Render(has, old, f) == IF has /\ f.count # 0 THEN {old, f} ELSE {old}

\* The last rendering of a message, over what the earlier ones may have left.
RenderLast(has, before, f) ==
    /\ threw' \in {FALSE, has}
    /\ IF has /\ f.count # 0 /\ ~threw' THEN surface' = f ELSE surface' \in before

\* ensure_window(): an existing window is taken as it is, and an island that
\* could not be made for it is not tried again.
EnsureWindow ==
    \/ created /\ UNCHANGED <<created, island>>
    \/ ~created /\ created' = TRUE /\ island' \in BOOLEAN

\* show_at(): the window is measured at its DPI and put at its place.
ShowAt(f, a) ==
    LET size  == Size(f, dpi')
        place == Place(a, size, Scale(4, dpi'), Area)
    IN  /\ frame' = [x |-> place.x, y |-> place.y, w |-> size.w, h |-> size.h]
        /\ visible' = TRUE /\ anchor' = a /\ settled' = TRUE

\* present_on_thread(): three of its setters render, the first one with the
\* new columns and still the old candidates.
Present(p, a) ==
    LET f2 == SetNumberColumn(SetLayoutColumns(fields, p.columns), p.numberColumn)
        f3 == UpdateCandidates(f2, p)
        f4 == SetSelection(f3, p.selection)
    IN  /\ Accepts(p)
        /\ EnsureWindow
        /\ fields' = f4 /\ wanted' = p
        /\ dpi' = windowDpi
        /\ RenderLast(island',
              IF created THEN UNION {Render(island, s, f3) : s \in Render(island, surface, f2)}
              ELSE Render(island', Empty, f3),
              f4)
        /\ ShowAt(f4, a)
        /\ UNCHANGED windowDpi

\* The window could not be made when the candidates came, nor when it was to
\* be shown: the fields are new and nothing is on the screen.
PresentUnseen(p) ==
    /\ Accepts(p)
    /\ ~created
    /\ LET f2 == SetNumberColumn(SetLayoutColumns(fields, p.columns), p.numberColumn)
       IN  fields' = SetSelection(UpdateCandidates(f2, p), p.selection)
    /\ wanted' = p
    /\ UNCHANGED <<created, island, surface, dpi, windowDpi, visible, frame, anchor,
                   threw, settled>>

-----------------------------------------------------------------------------
(* hide(), destruction, and messages of the window *)

Hide ==
    /\ visible' = FALSE
    /\ UNCHANGED <<fields, created, island, surface, dpi, windowDpi, frame, anchor,
                   wanted, threw, settled>>

\* Mutant: the island outlives its window.
DestroyWithoutIsland ==
    /\ created
    /\ created' = FALSE /\ visible' = FALSE
    /\ UNCHANGED <<fields, island, surface, dpi, windowDpi, frame, anchor, wanted,
                   threw, settled>>

\* destroy(), or the owner took the popup along: WM_NCDESTROY closes the island.
Destroy ==
    /\ created
    /\ created' = FALSE /\ visible' = FALSE
    /\ island' = FALSE /\ surface' = Empty
    /\ UNCHANGED <<fields, dpi, windowDpi, frame, anchor, wanted, threw, settled>>

ThemeChanged ==
    /\ created
    /\ RenderLast(island, {surface}, fields)
    /\ UNCHANGED <<fields, created, island, dpi, windowDpi, visible, frame, anchor,
                   wanted, settled>>

\* WM_DPICHANGED: the window takes the suggested corner and its new size, and
\* nothing puts it back on the work area before the next presentation.
DpiChanged(d) ==
    /\ created
    /\ windowDpi' = d /\ dpi' = d
    /\ LET size == Size(fields, d)
       IN  frame' = [frame EXCEPT !.w = size.w, !.h = size.h]
    /\ RenderLast(island, {surface}, fields)
    /\ settled' = FALSE
    /\ UNCHANGED <<fields, created, island, visible, anchor, wanted>>

Next ==
    \/ \E p \in Presentations, a \in Anchors : Present(p, a)
    \/ \E p \in Presentations : PresentUnseen(p)
    \/ Hide \/ Destroy \/ ThemeChanged
    \/ \E d \in Dpis : DpiChanged(d)

Spec == Init /\ [][Next]_vars

-----------------------------------------------------------------------------
(* Properties *)

\* What the popup shows is the last presentation and all of it: no setter's
\* clamp touched it, whatever was shown before in whatever layout, and no
\* rendering with half of the setters applied was the last one (unless XAML threw
\* in the last one: then an earlier surface stays).
SurfaceIsWanted ==
    visible /\ island /\ ~threw => fields = wanted /\ surface = wanted

\* The selection points into the list it is drawn with, also when a failed
\* rendering left the surface with an earlier presentation or a mixture of two.
SelectionIsInList ==
    surface # Empty => surface.selection < surface.count

\* No candidate falls out of the columns, which the DLL itself does not check:
\* the pipe server has refused lists that do not fit.
EverythingIsDrawn ==
    visible /\ surface = wanted => Drawn(surface) = 0..(surface.count - 1)

\* The popup is placed on the work area and clear of the text, at every DPI
\* and for every text rectangle.
WellPlaced ==
    visible /\ settled =>
        LET size == [w |-> frame.w, h |-> frame.h]
        IN  /\ OnWorkArea(anchor, frame, size, Scale(4, dpi), Area)
            /\ ClearOfText(anchor, frame, size, Area)
=============================================================================
