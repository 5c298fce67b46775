------------------------ MODULE CandidatePopupProofs ------------------------
(***************************************************************************)
(* Proofs about the candidate popup, for every work area, every DPI, every *)
(* text rectangle and every presentation: its types, where the popup is    *)
(* put, that all candidates are drawn with one of them selected, and that  *)
(* the surface is the last presentation.                                   *)
(***************************************************************************)
EXTENDS CandidatePopup, TLAPS

\* The records whose fields are natural numbers.
IsLayout(p) ==
    /\ p.count \in Nat /\ p.selection \in Nat
    /\ p.columns \in Nat /\ p.numberColumn \in Nat

-----------------------------------------------------------------------------
(* The operators *)

\* MulDiv of non-negative numbers is a natural number.
LEMMA ScaleIsNat == ASSUME NEW v \in Nat, NEW d \in Nat PROVE Scale(v, d) \in Nat
  <1>1. v * d \in Nat OBVIOUS
  <1> QED BY <1>1 DEF Scale

\* client_size() is a pair of natural numbers.
LEMMA SizeIsNat ==
    ASSUME NEW p, IsLayout(p), NEW d \in Nat
    PROVE  Size(p, d).w \in Nat /\ Size(p, d).h \in Nat
  <1> DEFINE c == ColumnsOf(p)
             r == RowsOf(p)
  <1>1. c \in 1..4 BY DEF IsLayout, ColumnsOf, Greatest, Least, MaxColumns
  <1>2. r \in 1..9 BY DEF IsLayout, RowsOf, Greatest, Least, PageSize
  <1>3. /\ Scale(114, d) \in Nat /\ Scale(12, d) \in Nat /\ Scale(84, d) \in Nat
        /\ Scale(29, d) \in Nat /\ Scale(24, d) \in Nat
    BY ScaleIsNat
  <1> HIDE DEF c, r
  <1>4. /\ c * Scale(84, d) \in Nat /\ (c - 1) * Scale(12, d) \in Nat
        /\ r * Scale(29, d) \in Nat
    BY <1>1, <1>2, <1>3
  <1>5. Size(p, d) = [w |-> IF c = 1 THEN Scale(114, d)
                            ELSE Scale(12, d) + c * Scale(84, d) + (c - 1) * Scale(12, d),
                      h |-> Scale(12, d) + r * Scale(29, d) + Scale(24, d)]
    BY DEF Size, c, r
  <1> QED BY <1>3, <1>4, <1>5

\* show_at: whatever the text rectangle, the popup lies on the work area if it
\* fits, and does not cover the text unless the upper edge forces it to.
LEMMA PlaceIsGood ==
    ASSUME NEW a, a.x \in Int, a.top \in Int, a.bottom \in Int,
           NEW size, size.w \in Nat, size.h \in Nat,
           NEW gap \in Nat,
           NEW place, place.x = PlaceX(a.x, size.w, Area),
           place.y = PlaceY(a, size.h, gap, Area)
    PROVE  OnWorkArea(a, place, size, gap, Area) /\ ClearOfText(a, place, size, Area)
  <1>1. /\ place.x >= Area.left
        /\ size.w <= Area.right - Area.left => place.x + size.w <= Area.right
    BY AreaAssumption DEF PlaceX, Greatest
  <1>2. CASE a.bottom + gap + size.h > Area.bottom
    <2>1. place.y = Greatest(a.top - size.h - gap, Area.top)
      BY <1>2 DEF PlaceY
    <2> QED BY <1>1, <2>1, AreaAssumption DEF OnWorkArea, ClearOfText, Greatest
  <1>3. CASE ~(a.bottom + gap + size.h > Area.bottom)
    <2>1. place.y = Greatest(a.bottom + gap, Area.top)
      BY <1>3 DEF PlaceY
    <2> QED BY <1>1, <1>3, <2>1, AreaAssumption DEF OnWorkArea, ClearOfText, Greatest
  <1> QED BY <1>2, <1>3

\* A list that valid_presentation_header lets through is drawn completely.
THEOREM ValidIsDrawn ==
    ASSUME NEW p, IsLayout(p), ValidHeader(p)
    PROVE  Drawn(p) = 0..(p.count - 1)
  <1> DEFINE c == ColumnsOf(p)
  <1>1. c = p.columns /\ c \in 1..4
    BY DEF ValidHeader, IsLayout, ColumnsOf, Greatest, Least, MaxColumns
  <1>2. ASSUME NEW i \in 0..(p.count - 1)
        PROVE  \E k \in 0..(c - 1) : i \in InColumn(p, k)
    <2>1. i < c * 9 BY <1>1, <1>2 DEF ValidHeader, IsLayout, PageSize
    <2> DEFINE k == i \div 9
    <2>2. k \in Int /\ k * 9 <= i /\ i < (k + 1) * 9 /\ 0 <= k
      BY <1>2 DEF IsLayout
    <2>3. k <= c - 1 BY <1>1, <1>2, <2>1, <2>2 DEF IsLayout
    <2> QED BY <1>1, <1>2, <2>2, <2>3 DEF InColumn, PageSize
  <1>3. \A k : InColumn(p, k) \subseteq 0..(p.count - 1)
    BY DEF InColumn
  <1> QED BY <1>2, <1>3 DEF Drawn

\* A presentation the pipe server lets through is one the DLL accepts.
THEOREM ValidIsAccepted ==
    ASSUME NEW p, ValidHeader(p)
    PROVE  Accepts(p)
  BY DEF ValidHeader, Accepts

-----------------------------------------------------------------------------
(* The state machine *)

Lists == {p.list : p \in Presentations} \cup {"none"}

\* The fields after present_on_thread's setters.
AllSet(f, p) ==
    SetSelection(UpdateCandidates(SetNumberColumn(SetLayoutColumns(f, p.columns),
                                                  p.numberColumn), p), p.selection)

\* Whatever the popup showed before, the setters' clamps leave an accepted
\* presentation as it is.
LEMMA SettersSetAll ==
    ASSUME NEW f \in Layouts(Lists), NEW p \in Layouts(Lists), Accepts(p)
    PROVE  AllSet(f, p) = p
  <1> DEFINE f1 == SetLayoutColumns(f, p.columns)
             f2 == SetNumberColumn(f1, p.numberColumn)
             f3 == UpdateCandidates(f2, p)
  <1>1. f1 \in Layouts(Lists) /\ f1.columns = p.columns
    <2>1. Greatest(1, Least(p.columns, MaxColumns)) = p.columns
      BY DEF Layouts, Accepts, Greatest, Least, MaxColumns
    <2> DEFINE k == IF f.numberColumn >= p.columns THEN 0 ELSE f.numberColumn
    <2>2. f1 = [f EXCEPT !.columns = p.columns, !.numberColumn = k]
      BY <2>1 DEF SetLayoutColumns
    <2>3. k \in Nat BY DEF Layouts
    <2> HIDE DEF k, f1
    <2> QED BY <2>2, <2>3 DEF Layouts
  <1> HIDE DEF f1
  <1>2. /\ f2 \in Layouts(Lists) /\ f2.columns = p.columns
        /\ f2.numberColumn = p.numberColumn
    BY <1>1 DEF Layouts, SetNumberColumn, Accepts, Least
  <1> HIDE DEF f2
  <1>3. /\ f3 \in Layouts(Lists) /\ f3.columns = p.columns
        /\ f3.numberColumn = p.numberColumn /\ f3.list = p.list /\ f3.count = p.count
    <2>1. Least(p.count, MaxCandidates) = p.count
      BY DEF Layouts, Accepts, Least, MaxCandidates
    <2> DEFINE k == IF f2.selection >= p.count THEN p.count - 1 ELSE f2.selection
    <2>2. f3 = [f2 EXCEPT !.list = p.list, !.count = p.count, !.selection = k]
      BY <2>1 DEF UpdateCandidates
    <2>3. k \in Nat BY <1>2 DEF Layouts, Accepts
    <2> HIDE DEF k, f3
    <2> QED BY <1>2, <2>2, <2>3 DEF Layouts
  <1> HIDE DEF f3
  <1>4. AllSet(f, p) = SetSelection(f3, p.selection)
    BY DEF AllSet, f1, f2, f3
  <1> QED BY <1>3, <1>4 DEF Layouts, SetSelection, Accepts, Least

FieldsInv ==
    /\ fields = wanted
    /\ wanted = Empty \/ (wanted \in Presentations /\ Accepts(wanted))
    /\ created => wanted # Empty

WindowInv ==
    /\ {created, island, visible, threw, settled} \subseteq BOOLEAN
    /\ dpi \in Dpis \cup {96} /\ windowDpi \in Dpis \cup {96}
    /\ island => created
    /\ visible => created

\* A list is drawn with one of its candidates selected.
InList(s) == s = Empty \/ s.selection < s.count

SurfaceInv ==
    /\ island /\ ~threw => surface = fields
    /\ surface # Empty => island
    /\ InList(surface)

Inv == FieldsInv /\ WindowInv /\ SurfaceInv /\ WellPlaced

\* Every presentation of an instance, and the empty one, is a layout.
LEMMA ListsAreLayouts ==
    /\ Presentations \subseteq Layouts(Lists)
    /\ Empty \in Layouts(Lists)
  <1>1. Layouts({p.list : p \in Presentations}) \subseteq Layouts(Lists)
    BY DEF Layouts, Lists
  <1> QED BY <1>1, PresentationsAssumption DEF Layouts, Lists, Empty

\* The fields are a layout, and their selection is in their list.
LEMMA FieldsAreLayout ==
    ASSUME FieldsInv
    PROVE  fields \in Layouts(Lists) /\ InList(fields)
  BY ListsAreLayouts DEF FieldsInv, InList, Accepts

\* An unused popup satisfies the invariant.
LEMMA InitInv == Init => Inv
  BY DEF Init, Inv, FieldsInv, WindowInv, SurfaceInv, InList, WellPlaced

\* Whichever of the renderings of a presentation reached the surface last, with
\* the new columns and the old candidates or with the new candidates and what
\* is left of the old selection, it selects one of its candidates.
LEMMA RenderingsAreInList ==
    ASSUME FieldsInv, InList(surface), NEW p \in Presentations, NEW a \in Anchors,
           Present(p, a)
    PROVE  InList(surface')
  <1> DEFINE f2 == SetNumberColumn(SetLayoutColumns(fields, p.columns), p.numberColumn)
             f3 == UpdateCandidates(f2, p)
             f4 == SetSelection(f3, p.selection)
  <1>1. fields \in Layouts(Lists) /\ InList(fields) /\ p \in Layouts(Lists)
    BY FieldsAreLayout, ListsAreLayouts
  <1>2. Accepts(p)
    BY DEF Present
  <1>3. f4 = p /\ InList(p)
    BY <1>1, <1>2, SettersSetAll DEF AllSet, InList, Accepts
  <1>4. f2.count = fields.count /\ f2.selection = fields.selection
    BY <1>1 DEF Layouts, SetNumberColumn, SetLayoutColumns
  <1>5. f2.count # 0 => InList(f2)
    BY <1>1, <1>4 DEF InList, Empty
  <1>6. InList(f3)
    <2> HIDE DEF f2
    <2>1. f2 \in Layouts(Lists)
      <3> DEFINE g == SetLayoutColumns(fields, p.columns)
                 k == Greatest(1, Least(p.columns, MaxColumns))
                 n == IF fields.numberColumn >= k THEN 0 ELSE fields.numberColumn
      <3>1. k \in Nat \ {0}
        BY <1>1 DEF Layouts, Greatest, Least, MaxColumns
      <3>2. g = [fields EXCEPT !.columns = k, !.numberColumn = n] /\ n \in Nat
        BY <1>1 DEF SetLayoutColumns, Layouts
      <3> HIDE DEF k, n, g
      <3>3. g \in Layouts(Lists) /\ g.columns = k
        BY <1>1, <3>1, <3>2 DEF Layouts
      <3>4. Least(p.numberColumn, g.columns - 1) \in Nat
        BY <1>1, <3>1, <3>3 DEF Least, Layouts
      <3>5. f2 = [g EXCEPT !.numberColumn = Least(p.numberColumn, g.columns - 1)]
        BY DEF f2, g, SetNumberColumn
      <3> QED
        BY <3>3, <3>4, <3>5 DEF Layouts
    <2>2. Least(p.count, MaxCandidates) = p.count /\ p.count \in Nat \ {0}
      BY <1>1, <1>2 DEF Layouts, Accepts, Least, MaxCandidates
    <2>3. /\ f3.count = p.count
          /\ f3.selection = IF f2.selection >= p.count THEN p.count - 1 ELSE f2.selection
      BY <2>1, <2>2 DEF UpdateCandidates, Layouts
    <2> HIDE DEF f3
    <2>4. f2.selection \in Nat
      BY <2>1 DEF Layouts
    <2> QED
      BY <2>2, <2>3, <2>4 DEF InList
  <1> DEFINE before == IF created
                       THEN UNION {Render(island, s, f3) : s \in Render(island, surface, f2)}
                       ELSE Render(island', Empty, f3)
  <1>7. surface' = f4 \/ surface' \in before
    BY DEF Present, RenderLast
  <1> HIDE DEF f2, f3, f4
  <1>8. \A s \in Render(island, surface, f2) : InList(s)
    BY <1>5 DEF Render
  <1>9. \A s, h : InList(s) => \A z \in Render(h, s, f3) : InList(z)
    BY <1>6 DEF Render
  <1>10. ASSUME NEW s \in before PROVE InList(s)
    <2>1. CASE created
      <3>1. PICK r \in Render(island, surface, f2) : s \in Render(island, r, f3)
        BY <2>1, <1>10
      <3> QED BY <3>1, <1>8, <1>9
    <2>2. CASE ~created
      <3>1. InList(Empty) BY DEF InList
      <3> QED BY <2>2, <3>1, <1>9, <1>10
    <2> QED BY <2>1, <2>2
  <1> HIDE DEF before
  <1> QED
    BY <1>3, <1>7, <1>10

\* A window without an island stays without a picture, in which rendering ever.
LEMMA RenderingsNeedIsland ==
    ASSUME surface # Empty => island, NEW p \in Presentations, NEW a \in Anchors,
           Present(p, a)
    PROVE  surface' # Empty => island'
  <1> SUFFICES ASSUME ~island' PROVE surface' = Empty
    OBVIOUS
  <1> DEFINE f2 == SetNumberColumn(SetLayoutColumns(fields, p.columns), p.numberColumn)
             f3 == UpdateCandidates(f2, p)
             before == IF created
                       THEN UNION {Render(island, s, f3) : s \in Render(island, surface, f2)}
                       ELSE Render(island', Empty, f3)
  <1>1. surface' \in before
    BY DEF Present, RenderLast
  <1> HIDE DEF f2, f3
  <1>2. CASE created
    <2>1. ~island /\ surface = Empty
      BY <1>2 DEF Present, EnsureWindow
    <2>2. \A s, f : Render(island, s, f) = {s}
      BY <2>1 DEF Render
    <2> QED BY <1>1, <1>2, <2>1, <2>2
  <1>3. CASE ~created
    BY <1>1, <1>3 DEF Render
  <1> QED BY <1>2, <1>3

\* present_on_thread keeps the invariant, whichever of its renderings fail.
LEMMA PresentInv ==
    ASSUME Inv, NEW p \in Presentations, NEW a \in Anchors, Present(p, a)
    PROVE  Inv'
  <1> DEFINE f2 == SetNumberColumn(SetLayoutColumns(fields, p.columns), p.numberColumn)
             f3 == UpdateCandidates(f2, p)
             f4 == SetSelection(f3, p.selection)
  <1>1. fields \in Layouts(Lists) /\ p \in Layouts(Lists)
    BY FieldsAreLayout, ListsAreLayouts DEF Inv
  <1>2. Accepts(p) BY DEF Present
  <1>3. f4 = p BY <1>1, <1>2, SettersSetAll DEF AllSet
  <1>4. /\ fields' = f4 /\ wanted' = p /\ dpi' = windowDpi /\ windowDpi' = windowDpi
        /\ created' = TRUE /\ visible' = TRUE /\ settled' = TRUE /\ anchor' = a
        /\ (created /\ island' = island) \/ (~created /\ island' \in BOOLEAN)
        /\ threw' \in {FALSE, island'}
        /\ island' /\ f4.count # 0 /\ ~threw' => surface' = f4
    BY DEF Present, EnsureWindow, ShowAt, RenderLast, Inv, WindowInv
  <1> HIDE DEF f2, f3, f4
  <1>5. FieldsInv'
    BY <1>2, <1>3, <1>4 DEF FieldsInv, Accepts, Empty
  <1>6. WindowInv'
    BY <1>4 DEF Inv, WindowInv
  <1>7. SurfaceInv'
    <2>1. f4.count # 0 BY <1>2, <1>3 DEF Accepts
    <2>2. InList(surface') BY RenderingsAreInList DEF Inv, SurfaceInv
    <2>3. surface' # Empty => island' BY RenderingsNeedIsland DEF Inv, SurfaceInv
    <2> QED BY <1>4, <2>1, <2>2, <2>3 DEF SurfaceInv
  <1>8. WellPlaced'
    <2> DEFINE size == Size(f4, dpi')
               place == Place(a, size, Scale(4, dpi'), Area)
    <2>1. frame' = [x |-> place.x, y |-> place.y, w |-> size.w, h |-> size.h]
      BY DEF Present, ShowAt, f2, f3, f4
    <2>2. IsLayout(f4) BY <1>1, <1>3 DEF IsLayout, Layouts
    <2>3. dpi' \in Nat
      <3>1. windowDpi \in Dpis \cup {96} BY DEF Inv, WindowInv
      <3>2. dpi' = windowDpi BY DEF Present
      <3> QED BY <3>1, <3>2, DpisAssumption
    <2>4. size.w \in Nat /\ size.h \in Nat BY <2>2, <2>3, SizeIsNat
    <2>5. Scale(4, dpi') \in Nat BY <2>3, ScaleIsNat
    <2>6. place.x = PlaceX(a.x, size.w, Area) /\ place.y = PlaceY(a, size.h, Scale(4, dpi'), Area)
      BY DEF Place
    <2> HIDE DEF size, place
    <2>7. /\ frame'.x = PlaceX(a.x, size.w, Area)
          /\ frame'.y = PlaceY(a, size.h, Scale(4, dpi'), Area)
          /\ frame'.w = size.w /\ frame'.h = size.h
      BY <2>1, <2>6
    <2> DEFINE z == [w |-> frame'.w, h |-> frame'.h]
    <2>8. z.w = size.w /\ z.h = size.h BY <2>7
    <2> HIDE DEF z
    <2>9. OnWorkArea(a, frame', z, Scale(4, dpi'), Area) /\ ClearOfText(a, frame', z, Area)
      <3>1. a.x \in Int /\ a.top \in Int /\ a.bottom \in Int BY AnchorsAssumption
      <3> QED BY <2>4, <2>5, <2>7, <2>8, <3>1, PlaceIsGood
    <2> QED BY <1>4, <2>9 DEF WellPlaced, z
  <1> QED BY <1>5, <1>6, <1>7, <1>8 DEF Inv

\* So does every other message of the popup.
LEMMA StepInv == Inv /\ [Next]_vars => Inv'
  <1> SUFFICES ASSUME Inv, [Next]_vars PROVE Inv' OBVIOUS
  <1>1. ASSUME NEW p \in Presentations, NEW a \in Anchors, Present(p, a) PROVE Inv'
    BY <1>1, PresentInv
  <1>2. ASSUME NEW p \in Presentations, PresentUnseen(p) PROVE Inv'
    <2>1. fields \in Layouts(Lists) /\ p \in Layouts(Lists)
      BY FieldsAreLayout, ListsAreLayouts DEF Inv
    <2>2. fields' = p /\ Accepts(p)
      BY <1>2, <2>1, SettersSetAll DEF PresentUnseen, AllSet
    <2> QED BY <1>2, <2>2 DEF PresentUnseen, Inv, FieldsInv, WindowInv, SurfaceInv, InList,
                              WellPlaced
  <1>3. CASE Hide
    BY <1>3 DEF Hide, Inv, FieldsInv, WindowInv, SurfaceInv, InList, WellPlaced, Accepts
  <1>4. CASE Destroy
    BY <1>4 DEF Destroy, Inv, FieldsInv, WindowInv, SurfaceInv, InList, WellPlaced, Accepts
  <1>5. CASE ThemeChanged
    <2>1. SurfaceInv'
      BY <1>5 DEF ThemeChanged, Inv, WindowInv, SurfaceInv, FieldsInv, Empty,
               RenderLast, InList, Accepts
    <2>2. FieldsInv' BY <1>5 DEF ThemeChanged, Inv, FieldsInv, Accepts
    <2>3. WindowInv' BY <1>5 DEF ThemeChanged, RenderLast, Inv, WindowInv
    <2>4. WellPlaced' BY <1>5 DEF ThemeChanged, Inv, WellPlaced
    <2> QED BY <2>1, <2>2, <2>3, <2>4 DEF Inv
  <1>6. ASSUME NEW d \in Dpis, DpiChanged(d) PROVE Inv'
    <2>1. SurfaceInv'
      BY <1>6 DEF DpiChanged, Inv, WindowInv, SurfaceInv, FieldsInv, Empty,
               RenderLast, InList, Accepts
    <2>2. FieldsInv' BY <1>6 DEF DpiChanged, Inv, FieldsInv, Accepts
    <2>3. WindowInv' BY <1>6 DEF DpiChanged, RenderLast, Inv, WindowInv
    <2>4. WellPlaced' BY <1>6 DEF DpiChanged, WellPlaced
    <2> QED BY <2>1, <2>2, <2>3, <2>4 DEF Inv
  <1>7. CASE UNCHANGED vars
    BY <1>7 DEF vars, Inv, FieldsInv, WindowInv, SurfaceInv, InList, WellPlaced, Accepts
  <1> QED BY <1>1, <1>2, <1>3, <1>4, <1>5, <1>6, <1>7 DEF Next

\* The invariant that the three theorems below are read off from.
LEMMA InvHolds == Spec => []Inv
  <1> QED BY InitInv, StepInv, PTL DEF Spec

\* The popup's variables keep their types: its lists and columns stay within the
\* limits of the protocol, there is an island only in a window and a picture only
\* in an island, and a popup on the screen has candidates.
THEOREM PopupTypeCorrect == Spec => []TypeOK
  <1>1. ASSUME Inv PROVE TypeOK
    <2>1. fields \in Layouts(Lists) BY <1>1, FieldsAreLayout DEF Inv
    <2>2. fields = Empty \/ Accepts(fields) BY <1>1 DEF Inv, FieldsInv
    <2>3. fields.count \in 0..MaxCandidates /\ fields.columns \in 1..MaxColumns
      BY <2>1, <2>2 DEF Layouts, Accepts, Empty, MaxCandidates, MaxColumns
    <2>4. created => fields.count > 0
      BY <1>1, <2>1, <2>2 DEF Inv, FieldsInv, Layouts, Accepts
    <2> HIDE DEF InList
    <2> QED BY <1>1, <2>3, <2>4 DEF Inv, WindowInv, SurfaceInv, TypeOK
  <1>2. Inv => TypeOK BY <1>1
  <1> QED BY <1>2, InvHolds, PTL

\* Whatever failed while presentations were rendered over each other, the list
\* on the surface is drawn with one of its own candidates selected.
THEOREM SelectionIsInListCorrect == Spec => []SelectionIsInList
  <1>1. Inv => SelectionIsInList
    BY DEF Inv, SurfaceInv, InList, SelectionIsInList
  <1> QED BY <1>1, InvHolds, PTL

\* Every presentation the DLL accepts, over whatever the popup showed before,
\* is on the surface unchanged and complete, unless its last rendering threw.
THEOREM SurfaceIsWantedCorrect == Spec => []SurfaceIsWanted
  <1>1. Inv => SurfaceIsWanted
    BY DEF Inv, FieldsInv, SurfaceInv, SurfaceIsWanted
  <1> QED BY <1>1, InvHolds, PTL

\* The popup lies on the work area and off the text, for every monitor, DPI,
\* list and text rectangle.
THEOREM WellPlacedCorrect == Spec => []WellPlaced
  <1>1. Inv => WellPlaced BY DEF Inv
  <1> QED BY <1>1, InvHolds, PTL

\* What read_presentation in the pipe server sees to.
ServerFilters == \A p \in Presentations : ValidHeader(p)

\* If only presentations that the pipe server lets through arrive, every one
\* of their candidates is drawn.
THEOREM EverythingIsDrawnCorrect == ServerFilters => (Spec => []EverythingIsDrawn)
  <1> SUFFICES ASSUME ServerFilters PROVE Spec => []EverythingIsDrawn
    OBVIOUS
  <1>1. ASSUME Inv PROVE EverythingIsDrawn
    <2> SUFFICES ASSUME visible, surface = wanted
                 PROVE  Drawn(surface) = 0..(surface.count - 1)
      BY DEF EverythingIsDrawn
    <2>1. wanted \in Presentations BY <1>1 DEF Inv, FieldsInv, WindowInv
    <2>2. IsLayout(wanted) /\ ValidHeader(wanted)
      BY <1>1, <2>1, ListsAreLayouts DEF ServerFilters, Layouts, IsLayout
    <2> QED BY <2>2, ValidIsDrawn
  <1>2. Inv => EverythingIsDrawn BY <1>1
  <1> QED BY <1>2, InvHolds, PTL
=============================================================================
