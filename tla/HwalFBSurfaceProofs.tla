------------------------ MODULE HwalFBSurfaceProofs ------------------------
(***************************************************************************)
(* For any sizes, any line lengths and any number of buffers, drawing      *)
(* stays inside the mapping, and off the screen but for the lines the      *)
(* second buffer laps over.                                                *)
(***************************************************************************)
EXTENDS HwalFBSurface, TLAPS

\* After a pan the driver shows the buffer mCurSurface names.
ShowsCurrent ==
    state = "open" /\ panned /\ ~unsettled /\ mNumSurfaces > 1 =>
        /\ mCurSurface \in {0, 1}
        /\ fb.yoffset = IF mCurSurface = 0 THEN 0 ELSE yres

Drawing == [by : {"none", "clean", "blit", "area"}, width : Nat, height : Nat, wrote : SUBSET Nat]

\* WritesInside needs nothing from the past but the size of the mapping; WritesHidden
\* needs to know what is shown.
SurfaceInv ==
    /\ TypeOK
    /\ last \in Drawing
    /\ state = "open" => mNumSurfaces > 0
    /\ state = "open" /\ ~unsettled => xres <= mBytepl
    /\ WritesInside
    /\ ShowsCurrent

Screen == [xres : Nat, yres : Nat, pitch : Nat, yoffset : Nat]

\* The driver takes the size it is given, and lines are at least as long as the width.
LEMMA ScreensIs ==
    ASSUME NEW w \in Nat, NEW h \in Nat, NEW offset \in Nat, NEW screen \in Screens(w, h, offset)
    PROVE  /\ screen \in Screen
           /\ screen.xres = w /\ screen.yres = h /\ screen.yoffset = offset /\ w <= screen.pitch
<1>1. PICK pad \in Paddings : screen = [xres |-> w, yres |-> h, pitch |-> w + pad, yoffset |-> offset]
  BY DEF Screens
<1>2. pad \in Nat
  BY SurfaceAssumption
<1>q. QED
  BY <1>1, <1>2 DEF Screen

\* Products of natural numbers grow with their factors.
LEMMA Grows ==
    ASSUME NEW a \in Nat, NEW b \in Nat, NEW c \in Nat, a <= b
    PROVE  /\ a * c \in Nat /\ b * c \in Nat /\ c * a \in Nat /\ c * b \in Nat
           /\ a * c <= b * c /\ c * a <= c * b
<1>1. b * c = a * c + (b - a) * c /\ c * b = c * a + c * (b - a)
  OBVIOUS
<1>2. b - a \in Nat
  OBVIOUS
<1>3. \A k \in Nat : k * c \in Nat /\ c * k \in Nat
  OBVIOUS
<1>4. a * c \in Nat /\ (b - a) * c \in Nat /\ c * a \in Nat /\ c * (b - a) \in Nat
  BY <1>2, <1>3
<1>5. a * c + (b - a) * c \in Nat /\ c * a + c * (b - a) \in Nat
      /\ a * c <= a * c + (b - a) * c /\ c * a <= c * a + c * (b - a)
  BY <1>4
<1>q. QED
  BY <1>1, <1>4, <1>5

\* Two buffers of any lines fit into a mapping of two or more, and one into any.
LEMMA Fit ==
    ASSUME NEW h \in Nat, NEW n \in Nat, NEW p \in Nat
    PROVE  /\ h * n * p \in Nat /\ h * p \in Nat
           /\ n > 0 => h * p <= h * n * p
           /\ n > 1 => h * p + h * p <= h * n * p
<1>1. h * n \in Nat
  BY Grows
<1>2. h * n * p \in Nat /\ h * p \in Nat
  BY <1>1, Grows
<1>3. ASSUME n > 0 PROVE h * p <= h * n * p
  <2>1. h * 1 <= h * n /\ h * 1 = h
    BY <1>3, Grows
  <2>q. QED
    BY <1>1, <2>1, Grows
<1>4. ASSUME n > 1 PROVE h * p + h * p <= h * n * p
  <2>1. h * 2 <= h * n /\ h * 2 = h + h
    BY <1>4, Grows
  <2>2. (h + h) * p <= h * n * p
    BY <1>1, <2>1, Grows
  <2>3. (h + h) * p = h * p + h * p
    OBVIOUS
  <2>q. QED
    BY <2>2, <2>3
<1>q. QED
  BY <1>2, <1>3, <1>4

\* A pixel in a row of a buffer lies before the end of the buffer's lines.
LEMMA RowEnds ==
    ASSUME NEW row \in Nat, NEW rows \in Nat, NEW column \in Nat, NEW p \in Nat,
           row < rows, column < p
    PROVE  column + row * p \in Nat /\ column + row * p < rows * p
<1>1. (row + 1) * p <= rows * p /\ rows * p \in Nat /\ row * p \in Nat
  BY Grows
<1>2. (row + 1) * p = row * p + p
  OBVIOUS
<1> DEFINE q == row * p
           e == rows * p
<1>3. q \in Nat /\ e \in Nat /\ q + p <= e
  BY <1>1, <1>2
<1> HIDE DEF q, e
<1>4. column + q \in Nat /\ column + q < e
  BY <1>3
<1>q. QED
  BY <1>4 DEF q, e

Settled == state = "open" /\ ~unsettled

\* What is known of a settled object.
LEMMA SettledIs ==
    ASSUME SurfaceInv, Settled
    PROVE  /\ xres \in Nat /\ yres \in Nat /\ mBytepl \in Nat /\ xres <= mBytepl
           /\ mNumSurfaces \in Nat /\ mNumSurfaces > 0
           /\ mapped = yres * mNumSurfaces * mBytepl
           /\ fb.xres = xres /\ fb.yres = yres /\ fb.pitch = mBytepl
           /\ xres * yres \in Nat /\ yres * mBytepl \in Nat /\ xres * yres <= yres * mBytepl
<1>1. /\ xres \in Nat /\ yres \in Nat /\ mBytepl \in Nat /\ xres <= mBytepl
      /\ mNumSurfaces \in Nat /\ mNumSurfaces > 0
      /\ mapped = yres * mNumSurfaces * mBytepl
      /\ fb.xres = xres /\ fb.yres = yres /\ fb.pitch = mBytepl
  BY SurfaceAssumption DEF SurfaceInv, TypeOK, Settled
<1>2. yres * xres <= yres * mBytepl /\ yres * xres \in Nat /\ yres * mBytepl \in Nat
  BY <1>1, Grows
<1>3. yres * xres = xres * yres
  BY <1>1
<1>q. QED
  BY <1>1, <1>2, <1>3

\* Where a pixel of what blitImage draws lies.
LEMMA VisibleIs ==
    ASSUME SurfaceInv, state = "open",
           NEW x \in Nat, NEW y \in Nat, NEW width \in Nat, NEW height \in Nat, x < xres, y < yres,
           NEW c \in Visible(x, y, width, height)
    PROVE  \E column, row \in Nat : /\ column < xres /\ row < yres
                                    /\ c = Offset + column + row * mBytepl
<1>1. xres \in Nat /\ yres \in Nat
  BY DEF SurfaceInv, TypeOK
<1>2. PICK i \in 0 .. Least(height, yres - y) - 1, j \in 0 .. Least(width, xres - x) - 1 :
         c = Offset + x + j + (y + i) * mBytepl
  BY DEF Visible
<1>3. /\ Least(height, yres - y) \in Nat /\ Least(height, yres - y) <= yres - y
      /\ Least(width, xres - x) \in Nat /\ Least(width, xres - x) <= xres - x
  BY <1>1 DEF Least
<1>4. i \in Nat /\ y + i < yres /\ j \in Nat /\ x + j < xres
  BY <1>1, <1>2, <1>3
<1>5. y + i \in Nat /\ x + j \in Nat
  BY <1>4
<1>6. Offset \in Nat
  <2>1. xres * yres \in Nat
    BY <1>1, Grows
  <2>q. QED
    BY <2>1 DEF Offset
<1>7. mBytepl \in Nat
  BY DEF SurfaceInv, TypeOK
<1>8. (y + i) * mBytepl \in Nat
  BY <1>5, <1>7, Grows
<1> DEFINE k == (y + i) * mBytepl
<1> HIDE DEF k
<1>9. Offset + x + j + k = Offset + (x + j) + k
  BY <1>4, <1>6, <1>8 DEF k
<1>10. c = Offset + (x + j) + (y + i) * mBytepl
  BY <1>2, <1>9 DEF k
<1>q. QED
  BY <1>4, <1>5, <1>10

\* What blitImage draws lies in the buffer it draws to, and that in the mapping.
LEMMA BlitInside ==
    ASSUME SurfaceInv, state = "open",
           NEW x \in Nat, NEW y \in Nat, NEW width \in Nat, NEW height \in Nat, x < xres, y < yres
    PROVE  /\ Visible(x, y, width, height) \in SUBSET Nat
           /\ ~unsettled => /\ Visible(x, y, width, height) \subseteq 0 .. mapped - 1
                            /\ \A c \in Visible(x, y, width, height) : Offset <= c /\ c < Offset + yres * mBytepl
<1>1. /\ xres \in Nat /\ yres \in Nat /\ mBytepl \in Nat /\ mNumSurfaces \in Nat /\ mNumSurfaces > 0
      /\ mapped \in Nat
  BY SurfaceAssumption DEF SurfaceInv, TypeOK
<1>2. xres * yres \in Nat
  BY <1>1, Grows
<1>3. Offset \in Nat
  BY <1>2 DEF Offset
<1>4. ASSUME NEW c \in Visible(x, y, width, height)
      PROVE  /\ c \in Nat
             /\ ~unsettled => Offset <= c /\ c < Offset + yres * mBytepl /\ c < mapped
  <2>1. PICK column \in Nat, row \in Nat : column < xres /\ row < yres /\ c = Offset + column + row * mBytepl
    BY VisibleIs
  <2>2. row * mBytepl \in Nat
    BY <1>1, <2>1, Grows
  <2> DEFINE k == row * mBytepl
  <2> HIDE DEF k
  <2>3. c = Offset + column + k /\ k \in Nat
    BY <2>1, <2>2 DEF k
  <2>4. c \in Nat /\ c = Offset + (column + k) /\ Offset <= c
    BY <1>3, <2>3
  <2>5. ASSUME ~unsettled PROVE c < Offset + yres * mBytepl /\ c < mapped
    <3>1. /\ column < mBytepl /\ mapped = yres * mNumSurfaces * mBytepl
          /\ yres * mBytepl \in Nat /\ xres * yres <= yres * mBytepl
      BY <1>1, <2>1, <2>5, SettledIs DEF Settled
    <3>2. column + k < yres * mBytepl
      BY <1>1, <2>1, <3>1, RowEnds DEF k
    <3> DEFINE lines == yres * mBytepl
               all == yres * mNumSurfaces * mBytepl
    <3>3. /\ lines <= all /\ all \in Nat
          /\ mNumSurfaces > 1 => lines + lines <= all
      BY <1>1, Fit
    <3>4. Offset = 0 \/ (Offset = xres * yres /\ mNumSurfaces > 1)
      BY DEF Offset, Second
    <3>5. lines \in Nat /\ column + k < lines /\ xres * yres <= lines /\ mapped = all
      BY <3>1, <3>2
    <3> HIDE DEF lines, all
    <3>6. c < Offset + lines
      BY <1>3, <2>3, <2>4, <3>5
    <3>7. c < mapped
      BY <1>3, <2>3, <2>4, <3>3, <3>4, <3>5, <3>6
    <3>q. QED
      BY <3>6, <3>7 DEF lines
  <2>q. QED
    BY <2>4, <2>5
<1>q. QED
  BY <1>1, <1>4

\* The copy of clean stays in the first two buffers if the area fits into one.
LEMMA CopyInside ==
    ASSUME SurfaceInv, state = "open", NEW width \in Nat, NEW height \in Nat
    PROVE  /\ Copied(width, height) \in SUBSET Nat
           /\ ~unsettled /\ mNumSurfaces > 1 /\ width <= xres /\ height <= yres =>
                 Copied(width, height) \subseteq 0 .. mapped - 1
<1> DEFINE area == width * height
<1>1. area \in Nat
  BY Grows
<1>2. Copied(width, height) \subseteq 0 .. 2 * area - 1
  <2> HIDE DEF area
  <2>1. 0 .. area - 1 \subseteq 0 .. 2 * area - 1 /\ area .. 2 * area - 1 \subseteq 0 .. 2 * area - 1
    BY <1>1
  <2>2. Copied(width, height) \in {area .. 2 * area - 1, 0 .. area - 1, {}}
    BY DEF Copied, area
  <2>q. QED
    BY <2>1, <2>2
<1>3. ASSUME ~unsettled, mNumSurfaces > 1, width <= xres, height <= yres PROVE 2 * area <= mapped
  <2>1. /\ xres \in Nat /\ yres \in Nat /\ mBytepl \in Nat /\ mNumSurfaces \in Nat
        /\ mapped = yres * mNumSurfaces * mBytepl
        /\ xres * yres \in Nat /\ yres * mBytepl \in Nat /\ xres * yres <= yres * mBytepl
    BY <1>3, SettledIs DEF Settled
  <2>2. width * height <= xres * height /\ xres * height <= xres * yres /\ xres * height \in Nat
    BY <1>3, <2>1, Grows
  <2>3. yres * mBytepl + yres * mBytepl <= yres * mNumSurfaces * mBytepl /\ yres * mNumSurfaces * mBytepl \in Nat
    BY <1>3, <2>1, Fit
  <2> DEFINE a == xres * height
             b == xres * yres
             d == yres * mBytepl
             e == yres * mNumSurfaces * mBytepl
  <2>4. /\ a \in Nat /\ b \in Nat /\ d \in Nat /\ e \in Nat
        /\ area <= a /\ a <= b /\ b <= d /\ d + d <= e /\ mapped = e
    BY <2>1, <2>2, <2>3
  <2> HIDE DEF area, a, b, d, e
  <2>q. QED
    BY <1>1, <2>4
<1>4. mapped \in Nat
  BY DEF SurfaceInv, TypeOK
<1> HIDE DEF area
<1>q. QED
  BY <1>1, <1>2, <1>3, <1>4

LEMMA SurfaceInit == Init => SurfaceInv
<1> SUFFICES ASSUME Init PROVE SurfaceInv
  OBVIOUS
<1>1. fb \in Screen
  <2>1. PICK w \in Widths \ {0}, h \in Heights \ {0}, offset \in Heights : fb \in Screens(w, h, offset)
    BY DEF Init
  <2>2. w \in Nat /\ h \in Nat /\ offset \in Nat
    BY SurfaceAssumption
  <2>q. QED
    BY <2>1, <2>2, ScreensIs
<1>2. last \in Drawing /\ last.wrote = {}
  BY DEF Init, Drawing, Undrawn
<1>3. 0 \in 0 .. MaxSurfaces
  BY SurfaceAssumption
<1>4. state = "none"
  BY DEF Init
<1>5. TypeOK
  BY <1>1, <1>2, <1>3, <1>4 DEF Init, TypeOK, Screen
<1>q. QED
  BY <1>2, <1>4, <1>5 DEF SurfaceInv, WritesInside, ShowsCurrent

\* A drawing step writes what it was given, or ends the process.
LEMMA DrawsInside ==
    ASSUME SurfaceInv, state = "open",
           NEW by \in {"clean", "blit", "area"}, NEW width \in Nat, NEW height \in Nat, NEW pixels \in SUBSET Nat,
           Draws(by, width, height, pixels),
           UNCHANGED <<mapped, size, unsettled>>,
           ~unsettled /\ (by = "area" => mNumSurfaces > 1 /\ width <= xres /\ height <= yres)
               => pixels \subseteq 0 .. mapped - 1
    PROVE  /\ state' \in {"open", "crashed"}
           /\ last' \in Drawing
           /\ WritesInside'
<1>1. state' \in {"open", "crashed"}
  BY DEF Draws
<1>2. last' \in Drawing
  BY DEF Draws, SurfaceInv, Drawing
<1>3. CASE state' = "open" /\ ~unsettled
  <2>1. last' = [by |-> by, width |-> width, height |-> height, wrote |-> pixels]
    BY <1>3 DEF Draws
  <2>q. QED
    BY <1>1, <1>2, <2>1 DEF WritesInside, size
<1>4. CASE state' = "crashed" \/ unsettled
  BY <1>1, <1>2, <1>4 DEF WritesInside
<1>q. QED
  BY <1>1, <1>3, <1>4

\* Whether it is panned or not, the display shows what ShowsCurrent says.
LEMMA PanShows ==
    ASSUME SurfaceInv, state = "open", state' = "open", Pan
    PROVE  /\ yoffset' \in Nat /\ mCurSurface' \in {0, 1, None, Unset}
           /\ fb' \in Screen /\ fb'.xres = fb.xres /\ fb'.yres = fb.yres /\ fb'.pitch = fb.pitch
           /\ panned' \in BOOLEAN
           /\ ShowsCurrent'
<1>1. /\ yres \in Nat /\ fb \in Screen /\ panned \in BOOLEAN
      /\ mNumSurfaces \in Nat /\ mNumSurfaces > 0
      /\ mCurSurface \in {0, 1, None, Unset} /\ ShowsCurrent
  BY SurfaceAssumption DEF SurfaceInv, TypeOK, Screen
<1>2. FirstLine \in Nat
  BY <1>1 DEF FirstLine
<1>3. CASE fb' = [fb EXCEPT !.yoffset = FirstLine] /\ mCurSurface' \in NextSurface /\ panned' = TRUE
  <2>1. mNumSurfaces > 1 => mCurSurface' = IF mCurSurface = 0 THEN 1 ELSE 0
    BY <1>1, <1>3 DEF NextSurface
  <2>2. /\ fb' \in Screen
        /\ fb'.yoffset = FirstLine /\ fb'.xres = fb.xres /\ fb'.yres = fb.yres /\ fb'.pitch = fb.pitch
    BY <1>1, <1>2, <1>3 DEF Screen
  <2>3. mCurSurface' \in {0, 1, None, Unset}
    BY <1>3 DEF NextSurface
  <2>4. ShowsCurrent'
    BY <1>1, <2>1, <2>2 DEF ShowsCurrent, Pan, FirstLine, Second, size
  <2>q. QED
    BY <1>2, <1>3, <2>2, <2>3, <2>4 DEF Pan
<1>4. CASE UNCHANGED <<fb, mCurSurface, panned>>
  BY <1>1, <1>2, <1>4 DEF Pan, ShowsCurrent, size
<1>q. QED
  BY <1>3, <1>4 DEF Pan

-----------------------------------------------------------------------------
(* Steps.                                                                    *)

\* Unless there is an object, only the types are left to say.
LEMMA NoObject ==
    ASSUME TypeOK', last' \in Drawing, state' # "open"
    PROVE  SurfaceInv'
BY DEF SurfaceInv, WritesInside, ShowsCurrent

\* A new mapping, of a new object or after a change of size: nothing is drawn and
\* it is not known what is shown.
LEMMA Settles ==
    ASSUME TypeOK', last' = Undrawn, panned' = FALSE, mNumSurfaces' > 0,
           unsettled' = TRUE \/ xres' <= mBytepl'
    PROVE  SurfaceInv'
<1>1. last' \in Drawing /\ last'.wrote = {}
  BY DEF Drawing, Undrawn
<1>q. QED
  BY <1>1 DEF SurfaceInv, WritesInside, ShowsCurrent

LEMMA FailedStep ==
    ASSUME SurfaceInv, ConstructFails
    PROVE  SurfaceInv'
<1>1. TypeOK' /\ last' \in Drawing /\ state' # "open"
  BY DEF ConstructFails, SurfaceInv, TypeOK, size
<1>q. QED
  BY <1>1, NoObject

LEMMA UnmappedStep ==
    ASSUME SurfaceInv, NEW w \in Widths, NEW h \in Heights, ConstructUnmapped(w, h)
    PROVE  SurfaceInv'
<1>1. TypeOK /\ last \in Drawing /\ w \in Nat /\ h \in Nat
  BY SurfaceAssumption DEF SurfaceInv
<1>2. fb.yoffset \in Nat
  BY <1>1 DEF TypeOK
<1>3. fb' \in Screen
  BY <1>1, <1>2, ScreensIs DEF ConstructUnmapped
<1>4. TypeOK' /\ last' \in Drawing /\ state' # "open"
  BY <1>1, <1>3 DEF ConstructUnmapped, TypeOK, size, Screen
<1>q. QED
  BY <1>4, NoObject

LEMMA ConstructionStep ==
    ASSUME SurfaceInv, NEW w \in Widths, NEW h \in Heights, NEW n \in 0 .. MaxSurfaces, Construct(w, h, n)
    PROVE  SurfaceInv'
<1>1. TypeOK /\ w \in Nat /\ h \in Nat /\ n \in Nat /\ fb.yoffset \in Nat
  BY SurfaceAssumption DEF SurfaceInv, TypeOK
<1>2. fb' \in Screen /\ fb'.xres = w /\ fb'.yres = h /\ w <= fb'.pitch
  BY <1>1, ScreensIs DEF Construct
<1>3. mBytepl' = fb'.pitch /\ fb'.pitch \in Nat
  BY <1>2 DEF Construct, Screen
<1>4. h * n * mBytepl' \in Nat
  BY <1>1, <1>3, Fit
<1>5. n > 0
  <2>1. CASE n = 0
    <3>1. h * n * mBytepl' = 0
      BY <1>1, <1>3, <2>1
    <3>q. QED
      BY <3>1 DEF Construct
  <2>q. QED
    BY <1>1, <2>1
<1>6. last'.wrote = {}
  BY DEF Construct, Undrawn
<1>7. TypeOK'
  BY <1>1, <1>2, <1>3, <1>4, <1>6 DEF Construct, TypeOK, Screen
<1>8. last' = Undrawn /\ panned' = FALSE /\ mNumSurfaces' = n /\ xres' = w
  BY DEF Construct
<1>q. QED
  BY <1>2, <1>3, <1>5, <1>7, <1>8, Settles

LEMMA DestroyStep ==
    ASSUME SurfaceInv, Destroy
    PROVE  SurfaceInv'
<1>1. last' \in Drawing /\ last'.wrote = {}
  BY DEF Destroy, Drawing, Undrawn
<1>2. mCurSurface' \in {0, 1, None, Unset} /\ mNumSurfaces' \in 0 .. MaxSurfaces
  BY SurfaceAssumption DEF Destroy
<1>3. state' \in {"none", "crashed"}
  BY DEF Destroy
<1>4. TypeOK'
  BY <1>1, <1>2, <1>3 DEF Destroy, SurfaceInv, TypeOK
<1>q. QED
  BY <1>1, <1>3, <1>4, NoObject

LEMMA DimensionsStep ==
    ASSUME SurfaceInv, NEW w \in Widths, NEW h \in Heights, setDimensions(w, h) \/ SetDimensionsFails(w, h)
    PROVE  SurfaceInv'
<1>1. /\ TypeOK /\ w \in Nat /\ h \in Nat /\ mNumSurfaces \in Nat /\ yoffset \in Nat
      /\ state = "open" /\ mNumSurfaces > 0 /\ fb \in Screen
  BY SurfaceAssumption DEF SurfaceInv, TypeOK, setDimensions, SetDimensionsFails, Screen
<1>2. /\ last' = Undrawn /\ panned' = FALSE /\ mNumSurfaces' = mNumSurfaces
      /\ xres' = w /\ yres' = h /\ UNCHANGED <<state, yoffset, mCurSurface>>
  BY DEF setDimensions, SetDimensionsFails, Resized
<1>3. last'.wrote = {}
  BY <1>2 DEF Undrawn
<1>4. \A screen \in Screens(w, h, yoffset) : /\ screen \in Screen /\ screen.pitch \in Nat
                                             /\ screen.xres = w /\ screen.yres = h /\ w <= screen.pitch
  BY <1>1, ScreensIs DEF Screen
<1>5. CASE setDimensions(w, h)
  <2>1. /\ fb' \in Screen /\ fb'.pitch \in Nat /\ fb'.xres = w /\ fb'.yres = h /\ w <= fb'.pitch
        /\ mBytepl' = fb'.pitch /\ mapped' = h * mNumSurfaces * mBytepl'
        /\ mptr' = "mapped" /\ unsettled' = FALSE
    BY <1>4, <1>5 DEF setDimensions
  <2>2. h * mNumSurfaces * mBytepl' \in Nat
    BY <1>1, <2>1, Fit
  <2>3. TypeOK'
    BY <1>1, <1>2, <1>3, <2>1, <2>2 DEF TypeOK, Screen
  <2>q. QED
    BY <1>1, <1>2, <2>1, <2>3, Settles
<1>6. CASE SetDimensionsFails(w, h)
  <2>1. /\ fb' \in Screen /\ mBytepl' \in Nat /\ mptr' \in {"garbage", "failed", "mapped"}
        /\ unsettled' = TRUE /\ mapped' = mapped
    BY <1>1, <1>4, <1>6 DEF SetDimensionsFails, TypeOK
  <2>2. TypeOK'
    BY <1>1, <1>2, <1>3, <2>1 DEF TypeOK, Screen
  <2>q. QED
    BY <1>1, <1>2, <2>1, <2>2, Settles
<1>q. QED
  BY <1>5, <1>6

\* A drawing that leaves everything but the memory as it was.
LEMMA Unpanned ==
    ASSUME SurfaceInv, state = "open", state' \in {"open", "crashed"},
           last' \in Drawing, WritesInside',
           UNCHANGED <<mptr, mapped, size, yoffset, mCurSurface, fb, unsettled, panned>>
    PROVE  SurfaceInv'
<1>1. TypeOK /\ mNumSurfaces > 0 /\ ShowsCurrent /\ (~unsettled => xres <= mBytepl)
  BY DEF SurfaceInv
<1>2. last'.wrote \subseteq Nat
  BY DEF Drawing
<1>3. TypeOK'
  BY <1>1, <1>2 DEF TypeOK, size
<1>4. ShowsCurrent'
  BY <1>1 DEF ShowsCurrent, size
<1>5. mNumSurfaces' > 0 /\ (~unsettled' => xres' <= mBytepl')
  BY <1>1 DEF size
<1>q. QED
  BY <1>3, <1>4, <1>5 DEF SurfaceInv

\* A drawing that ends with a pan, or in a crash.
LEMMA Panned ==
    ASSUME SurfaceInv, state = "open", state' \in {"open", "crashed"},
           last' \in Drawing, WritesInside', DrawnAndPanned
    PROVE  SurfaceInv'
<1>1. CASE state' = "crashed"
  BY <1>1, Unpanned DEF DrawnAndPanned
<1>2. CASE state' = "open"
  <2>0. Pan
    BY <1>2 DEF DrawnAndPanned
  <2>1. /\ yoffset' \in Nat /\ mCurSurface' \in {0, 1, None, Unset}
        /\ fb' \in Screen /\ fb'.xres = fb.xres /\ fb'.yres = fb.yres /\ fb'.pitch = fb.pitch
        /\ panned' \in BOOLEAN /\ ShowsCurrent'
    BY <1>2, <2>0, PanShows
  <2>2. UNCHANGED <<mptr, mapped, xres, yres, mBytepl, mNumSurfaces, unsettled>>
    BY <2>0 DEF Pan, size
  <2>3. TypeOK /\ mNumSurfaces > 0 /\ (~unsettled => xres <= mBytepl)
    BY DEF SurfaceInv
  <2>4. last'.wrote \subseteq Nat
    BY DEF Drawing
  <2>5. TypeOK'
    BY <1>2, <2>1, <2>2, <2>3, <2>4 DEF TypeOK, Screen
  <2>q. QED
    BY <2>1, <2>2, <2>3, <2>5 DEF SurfaceInv
<1>q. QED
  BY <1>1, <1>2

LEMMA CleanStep ==
    ASSUME SurfaceInv, clean
    PROVE  SurfaceInv'
<1>1. /\ state = "open" /\ xres \in Nat /\ yres \in Nat /\ mNumSurfaces \in Nat /\ mBytepl \in Nat
      /\ ~unsettled => mapped = yres * mNumSurfaces * mBytepl
  BY SurfaceAssumption DEF clean, SurfaceInv, TypeOK
<1>2. UNCHANGED <<mptr, mapped, size, yoffset, mCurSurface, fb, unsettled, panned>>
  BY DEF clean
<1> DEFINE all == yres * mNumSurfaces * mBytepl
<1>3. all \in Nat
  BY <1>1, Fit
<1>4. Draws("clean", xres, yres, 0 .. all - 1)
  BY DEF clean
<1>5. ~unsettled => mapped = all
  BY <1>1
<1> HIDE DEF all
<1>6. 0 .. all - 1 \in SUBSET Nat /\ (~unsettled => 0 .. all - 1 \subseteq 0 .. mapped - 1)
  BY <1>3, <1>5
<1>7. state' \in {"open", "crashed"} /\ last' \in Drawing /\ WritesInside'
  BY <1>1, <1>2, <1>4, <1>6, DrawsInside
<1>q. QED
  BY <1>1, <1>2, <1>7, Unpanned

\* Drawing and panning never resizes the mapping.
LEMMA DrawnSizes ==
    ASSUME DrawnAndPanned
    PROVE  UNCHANGED <<mapped, size, unsettled>>
BY DEF DrawnAndPanned, Pan

LEMMA BlitStep ==
    ASSUME SurfaceInv, NEW x \in Widths, NEW y \in Heights, NEW width \in Widths, NEW height \in Heights,
           blitImage(x, y, width, height)
    PROVE  SurfaceInv'
<1> DEFINE pixels == Visible(x, y, width, height)
<1>1. /\ state = "open" /\ x \in Nat /\ y \in Nat /\ width \in Nat /\ height \in Nat /\ x < xres /\ y < yres
      /\ Draws("blit", width, height, pixels) /\ DrawnAndPanned
  BY SurfaceAssumption DEF blitImage
<1>2. pixels \in SUBSET Nat /\ (~unsettled => pixels \subseteq 0 .. mapped - 1)
  BY <1>1, BlitInside
<1> HIDE DEF pixels
<1>3. state' \in {"open", "crashed"} /\ last' \in Drawing /\ WritesInside'
  BY <1>1, <1>2, DrawnSizes, DrawsInside
<1>q. QED
  BY <1>1, <1>3, Panned

LEMMA AreaStep ==
    ASSUME SurfaceInv, NEW x \in Widths, NEW y \in Heights, NEW width \in Widths, NEW height \in Heights,
           cleanArea(x, y, width, height)
    PROVE  SurfaceInv'
<1> DEFINE pixels == Copied(width, height) \cup Visible(x, y, width, height)
<1>1. /\ state = "open" /\ x \in Nat /\ y \in Nat /\ width \in Nat /\ height \in Nat /\ x < xres /\ y < yres
      /\ Draws("area", width, height, pixels) /\ DrawnAndPanned
  BY SurfaceAssumption DEF cleanArea
<1>2. /\ Visible(x, y, width, height) \in SUBSET Nat
      /\ ~unsettled => Visible(x, y, width, height) \subseteq 0 .. mapped - 1
  BY <1>1, BlitInside
<1>3. /\ Copied(width, height) \in SUBSET Nat
      /\ ~unsettled /\ mNumSurfaces > 1 /\ width <= xres /\ height <= yres =>
            Copied(width, height) \subseteq 0 .. mapped - 1
  BY <1>1, CopyInside
<1>4. /\ pixels \in SUBSET Nat
      /\ ~unsettled /\ mNumSurfaces > 1 /\ width <= xres /\ height <= yres => pixels \subseteq 0 .. mapped - 1
  BY <1>2, <1>3
<1> HIDE DEF pixels
<1>5. state' \in {"open", "crashed"} /\ last' \in Drawing /\ WritesInside'
  BY <1>1, <1>4, DrawnSizes, DrawsInside
<1>q. QED
  BY <1>1, <1>5, Panned

LEMMA RefusedStep ==
    ASSUME SurfaceInv, NEW width \in Widths, NEW height \in Heights, BlitRefused(width, height)
    PROVE  SurfaceInv'
<1>1. /\ state = "open" /\ width \in Nat /\ height \in Nat
      /\ UNCHANGED <<mptr, mapped, size, yoffset, mCurSurface, fb, unsettled, panned>>
  BY SurfaceAssumption DEF BlitRefused
<1>2. CASE Draws("blit", width, height, {})
  <2>1. state' \in {"open", "crashed"} /\ last' \in Drawing /\ WritesInside'
    BY <1>1, <1>2, DrawsInside
  <2>q. QED
    BY <1>1, <2>1, Unpanned
<1>3. CASE Draws("area", width, height, Copied(width, height))
  <2>1. /\ Copied(width, height) \in SUBSET Nat
        /\ ~unsettled /\ mNumSurfaces > 1 /\ width <= xres /\ height <= yres =>
              Copied(width, height) \subseteq 0 .. mapped - 1
    BY <1>1, CopyInside
  <2>2. state' \in {"open", "crashed"} /\ last' \in Drawing /\ WritesInside'
    BY <1>1, <1>3, <2>1, DrawsInside
  <2>q. QED
    BY <1>1, <2>2, Unpanned
<1>q. QED
  BY <1>2, <1>3 DEF BlitRefused

LEMMA SurfaceStep == SurfaceInv /\ [Next]_vars => SurfaceInv'
<1> SUFFICES ASSUME SurfaceInv, [Next]_vars PROVE SurfaceInv'
  OBVIOUS
<1>1. CASE ConstructFails
  BY <1>1, FailedStep
<1>2. ASSUME NEW w \in Widths, NEW h \in Heights,
             ConstructUnmapped(w, h) \/ setDimensions(w, h) \/ SetDimensionsFails(w, h)
      PROVE  SurfaceInv'
  BY <1>2, UnmappedStep, DimensionsStep
<1>3. ASSUME NEW w \in Widths, NEW h \in Heights, NEW n \in 0 .. MaxSurfaces, Construct(w, h, n)
      PROVE  SurfaceInv'
  BY <1>3, ConstructionStep
<1>4. CASE Destroy
  BY <1>4, DestroyStep
<1>5. CASE clean
  BY <1>5, CleanStep
<1>6. ASSUME NEW x \in Widths, NEW width \in Widths, NEW y \in Heights, NEW height \in Heights,
             blitImage(x, y, width, height) \/ cleanArea(x, y, width, height)
      PROVE  SurfaceInv'
  BY <1>6, BlitStep, AreaStep
<1>7. ASSUME NEW width \in Widths, NEW height \in Heights, BlitRefused(width, height)
      PROVE  SurfaceInv'
  BY <1>7, RefusedStep
<1>8. CASE UNCHANGED vars
  BY <1>8 DEF vars, size, SurfaceInv, TypeOK, WritesInside, ShowsCurrent
<1>q. QED
  BY <1>1, <1>2, <1>3, <1>4, <1>5, <1>6, <1>7, <1>8 DEF Next

-----------------------------------------------------------------------------
(* Results.                                                                  *)

\* Every state keeps what the two results below need: a settled object has the lines
\* the driver has, and after a pan it knows which buffer is shown.
THEOREM SurfaceInvariance == Spec => []SurfaceInv
BY SurfaceInit, SurfaceStep, PTL DEF Spec

\* The members of an object are those of a mapping the driver made, unless the
\* last setDimensions failed.
THEOREM SurfaceTypes == Spec => []TypeOK
<1>1. SurfaceInv => TypeOK
  BY DEF SurfaceInv
<1>q. QED
  BY <1>1, SurfaceInvariance, PTL

\* For any sizes, line lengths and number of buffers, nothing is written beside the
\* mapping as long as changes of size succeed and clean of an area is given no more
\* than one of several buffers.
THEOREM SurfaceWritesInside == Spec => []WritesInside
<1>1. SurfaceInv => WritesInside
  BY DEF SurfaceInv
<1>q. QED
  BY <1>1, SurfaceInvariance, PTL

\* blitImage draws to what the driver shows only where the second buffer, which begins
\* by the width, laps over the first, whose lines may be longer; whichever pans failed.
THEOREM SurfaceWritesHidden == Spec => WritesHidden
<1> DEFINE Hides == (/\ state' = "open"
                     /\ mNumSurfaces > 1
                     /\ panned
                     /\ ~unsettled
                     /\ \E x, width \in Widths, y, height \in Heights : blitImage(x, y, width, height))
                    => last'.wrote \cap Shown \subseteq (IF mCurSurface = 0 THEN Lapped ELSE {})
<1>1. ASSUME SurfaceInv,
             state' = "open", mNumSurfaces > 1, panned, ~unsettled,
             NEW x \in Widths, NEW y \in Heights, NEW width \in Widths, NEW height \in Heights,
             blitImage(x, y, width, height),
             NEW c \in last'.wrote \cap Shown
      PROVE  mCurSurface = 0 /\ c \in Lapped
  <2>1. /\ state = "open" /\ x \in Nat /\ y \in Nat /\ width \in Nat /\ height \in Nat /\ x < xres /\ y < yres
        /\ Draws("blit", width, height, Visible(x, y, width, height))
    BY <1>1, SurfaceAssumption DEF blitImage
  <2>2. last'.wrote = Visible(x, y, width, height)
    BY <1>1, <2>1 DEF Draws
  <2>3. Visible(x, y, width, height) \in SUBSET Nat
        /\ \A k \in Visible(x, y, width, height) : Offset <= k /\ k < Offset + yres * mBytepl
    BY <1>1, <2>1, BlitInside
  <2>4. c \in Nat /\ Offset <= c /\ c < Offset + yres * mBytepl
    BY <1>1, <2>2, <2>3
  <2>5. /\ xres \in Nat /\ yres \in Nat /\ mBytepl \in Nat /\ xres <= mBytepl
        /\ fb.xres = xres /\ fb.yres = yres /\ fb.pitch = mBytepl
        /\ xres * yres \in Nat /\ yres * mBytepl \in Nat
    BY <1>1, <2>1, SettledIs DEF Settled
  <2>6. mCurSurface \in {0, 1} /\ fb.yoffset = IF mCurSurface = 0 THEN 0 ELSE yres
    BY <1>1, <2>1 DEF SurfaceInv, ShowsCurrent
  <2>7. PICK i \in 0 .. yres - 1, j \in 0 .. xres - 1 : c = (fb.yoffset + i) * mBytepl + j
    BY <1>1, <2>5 DEF Shown
  <2>8. i \in Nat /\ i < yres /\ j \in Nat /\ j < mBytepl
    BY <2>5, <2>7
  <2> DEFINE lines == yres * mBytepl
             k == i * mBytepl
  <2>9. k \in Nat /\ j + k < lines /\ lines \in Nat
    BY <2>5, <2>8, Grows, RowEnds
  <2>10. CASE mCurSurface = 0
    <3>1. c = k + j
      <4>1. fb.yoffset + i = i
        BY <2>6, <2>8, <2>10
      <4>q. QED
        BY <2>7, <4>1
    <3>2. Offset = xres * yres
      BY <1>1, <2>10 DEF Offset, Second
    <3> HIDE DEF k
    <3>3. c < lines
      BY <2>8, <2>9, <3>1
    <3>4. c \in Lapped
      BY <2>4, <2>5, <3>2, <3>3 DEF Lapped
    <3>q. QED
      BY <2>10, <3>4
  <2>11. CASE mCurSurface = 1
    <3>1. c = lines + k + j
      <4>1. fb.yoffset = yres
        BY <2>6, <2>11
      <4>2. (yres + i) * mBytepl = lines + k
        BY <2>5, <2>8
      <4>q. QED
        BY <2>7, <4>1, <4>2
    <3>2. Offset = 0
      BY <2>11 DEF Offset, Second
    <3>3. c < lines
      BY <2>4, <2>9, <3>2
    <3> HIDE DEF k, lines
    <3>4. FALSE
      BY <2>8, <2>9, <3>1, <3>3
    <3>q. QED
      BY <3>4
  <2>q. QED
    BY <2>6, <2>10, <2>11
<1>2. SurfaceInv /\ [Next]_vars => [Hides]_vars
  BY <1>1
<1>q. QED
  BY <1>2, SurfaceInvariance, PTL DEF Spec, WritesHidden
=============================================================================
