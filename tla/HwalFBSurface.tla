---------------------------- MODULE HwalFBSurface ----------------------------
(***************************************************************************)
(* hwalFBSurface.cpp: a surface on /dev/fb1 with one or more buffers below *)
(* each other in one mapping.  Drawing goes to a buffer that is not shown, *)
(* which panning the display then shows.  Memory is counted in pixels from *)
(* the start of the mapping.  A line of the driver may be longer than the  *)
(* width: rows, the mapping and the pan go by lines, but where the second  *)
(* buffer begins and what clean copies go by the width.                    *)
(***************************************************************************)
EXTENDS Integers

CONSTANTS
    Widths,         \* widths callers ask for, 0 among them
    Heights,        \* heights callers ask for, 0 among them
    Paddings,       \* pixels the driver may add to a line
    MaxSurfaces     \* bound: numbers of buffers callers ask for, 0 .. MaxSurfaces

ASSUME SurfaceAssumption ==
    /\ Widths \subseteq Nat /\ Heights \subseteq Nat /\ Paddings \subseteq Nat
    /\ MaxSurfaces \in Nat

VARIABLES
    state,          \* no object, one in use, one whose constructor failed, a crash
    mptr,           \* what the pointer to the mapping holds
    mapped,         \* pixels of the mapping mptr points to
    xres, yres, yoffset,            \* mVarInfo, as the object has it
    mBytepl,        \* the line length the object knows
    mNumSurfaces, mCurSurface,
    fb,             \* size, offset and line length, as the driver has them
    unsettled,      \* the last setDimensions failed
    panned,         \* the display was panned since the size was last set
    last            \* the last drawing on a settled object: by what, of what size, to which pixels

size == <<xres, yres, mBytepl, mNumSurfaces>>
vars == <<state, mptr, mapped, size, yoffset, mCurSurface, fb, unsettled, panned, last>>

\* mCurSurface before the first blit, and as any number but 0, 1 and 255.
None == 255
Unset == 254

Undrawn == [by |-> "none", width |-> 0, height |-> 0, wrote |-> {}]

\* A size as the driver takes it, with the line length it chooses.
Screens(w, h, offset) == {[xres |-> w, yres |-> h, pitch |-> w + pad, yoffset |-> offset] : pad \in Paddings}

Init ==
    /\ state = "none"
    /\ mptr = "garbage"
    /\ mapped = 0
    /\ xres = 0 /\ yres = 0 /\ yoffset = 0 /\ mBytepl = 0
    /\ mNumSurfaces = 0
    /\ mCurSurface = Unset
    /\ panned = FALSE
    /\ fb \in UNION {Screens(w, h, offset) : w \in Widths \ {0}, h \in Heights \ {0}, offset \in Heights}
    /\ unsettled = FALSE
    /\ last = Undrawn

-----------------------------------------------------------------------------
(* Construction and destruction.                                           *)

\* The size, the format or the device is refused; the members it did not reach
\* hold what was in memory.  Zeros are no reason to stop here.
ConstructFails ==
    /\ state = "none"
    /\ state' = "failed"
    /\ UNCHANGED <<mptr, mapped, size, yoffset, mCurSurface, fb, unsettled, panned, last>>

\* The driver has the size, but cannot tell its line length or map nothing.
ConstructUnmapped(w, h) ==
    /\ state = "none"
    /\ state' = "failed"
    /\ mptr' \in {"garbage", "failed"}
    /\ fb' \in Screens(w, h, fb.yoffset)
    /\ UNCHANGED <<mapped, size, yoffset, mCurSurface, unsettled, panned, last>>

Construct(w, h, n) ==
    /\ state = "none"
    /\ fb' \in Screens(w, h, fb.yoffset)
    /\ mBytepl' = fb'.pitch
    /\ h * n * mBytepl' > 0
    /\ state' = "open"
    /\ mptr' = "mapped"
    /\ mapped' = h * n * mBytepl'
    /\ xres' = w /\ yres' = h /\ yoffset' = fb.yoffset
    /\ mNumSurfaces' = n
    /\ mCurSurface' = None
    /\ panned' = FALSE
    /\ unsettled' = FALSE
    /\ last' = Undrawn

\* What is left of a failed constructor may be unmapped and closed as it is.
Destroy ==
    /\ state \in {"open", "failed"}
    /\ state' \in (IF state = "failed" /\ mptr = "garbage" THEN {"none", "crashed"} ELSE {"none"})
    /\ mptr' = "garbage"
    /\ mapped' = 0
    /\ xres' = 0 /\ yres' = 0 /\ yoffset' = 0 /\ mBytepl' = 0
    /\ mNumSurfaces' = 0
    /\ mCurSurface' = Unset
    /\ panned' = FALSE
    /\ unsettled' = FALSE
    /\ last' = Undrawn
    /\ UNCHANGED fb

-----------------------------------------------------------------------------
(* A change of size.                                                       *)

Resized(w, h) ==
    /\ xres' = w /\ yres' = h
    /\ panned' = FALSE
    /\ last' = Undrawn
    /\ UNCHANGED <<state, yoffset, mNumSurfaces, mCurSurface>>

\* Mutant: the new size is taken over although the mapping was not made.
SetDimensionsUnmapped(w, h) ==
    /\ state = "open"
    /\ fb' \in Screens(w, h, yoffset)
    /\ mBytepl' = fb'.pitch
    /\ h * mNumSurfaces * mBytepl' > 0
    /\ unsettled' = FALSE
    /\ Resized(w, h)
    /\ UNCHANGED <<mptr, mapped>>

\* The driver takes the size, at the offset of the last blit.
setDimensions(w, h) ==
    /\ state = "open"
    /\ fb' \in Screens(w, h, yoffset)
    /\ mBytepl' = fb'.pitch
    /\ h * mNumSurfaces * mBytepl' > 0
    /\ mptr' = "mapped"
    /\ mapped' = h * mNumSurfaces * mBytepl'
    /\ unsettled' = FALSE
    /\ Resized(w, h)

\* The object has the new size, whichever step fails: the driver refuses it, does
\* not tell its line length, or can map nothing.
SetDimensionsFails(w, h) ==
    /\ state = "open"
    /\ \/ UNCHANGED <<fb, mBytepl, mptr>>
       \/ fb' \in Screens(w, h, yoffset) /\ UNCHANGED <<mBytepl, mptr>>
       \/ fb' \in Screens(w, h, yoffset) /\ mBytepl' = fb'.pitch /\ mptr' = "failed"
    /\ unsettled' = TRUE
    /\ Resized(w, h)
    /\ UNCHANGED mapped

-----------------------------------------------------------------------------
(* Drawing.                                                                *)

\* The memory at the pointer is written; if there is none, the process ends.
Draws(by, width, height, pixels) ==
    LET lands == mptr = "mapped" \/ pixels = {} IN
    /\ state' = IF lands THEN state ELSE "crashed"
    /\ last' = IF lands /\ ~unsettled THEN [by |-> by, width |-> width, height |-> height, wrote |-> pixels]
               ELSE last

clean ==
    /\ state = "open"
    /\ Draws("clean", xres, yres, 0 .. yres * mNumSurfaces * mBytepl - 1)
    /\ UNCHANGED <<mptr, mapped, size, yoffset, mCurSurface, fb, unsettled, panned>>

\* Whether blitImage draws to the second buffer: it does when the first is shown.
Second == mNumSurfaces > 1 /\ mCurSurface = 0

\* Where the buffer begins in the mapping, and at which line the driver shows it.
Offset == IF Second THEN xres * yres ELSE 0
FirstLine == IF Second THEN yres ELSE 0

\* With one buffer, what becomes mCurSurface is a variable that was never set.
NextSurface == IF mNumSurfaces = 1 THEN {0, 1, None, Unset} ELSE {IF mCurSurface = 0 THEN 1 ELSE 0}

Least(a, b) == IF a < b THEN a ELSE b

\* Mutant: the area is not cut off at the lower edge.
VisibleUncut(x, y, width, height) ==
    {Offset + x + j + (y + i) * mBytepl : i \in 0 .. height - 1, j \in 0 .. Least(width, xres - x) - 1}

\* The pixels of an area that lie in the buffer, row by row.
Visible(x, y, width, height) ==
    {Offset + x + j + (y + i) * mBytepl :
        i \in 0 .. Least(height, yres - y) - 1, j \in 0 .. Least(width, xres - x) - 1}

\* Mutant: the buffer counts as shown although the display was not panned.
PanUnseen ==
    /\ yoffset' = FirstLine
    /\ fb' \in {fb, [fb EXCEPT !.yoffset = FirstLine]}
    /\ mCurSurface' \in NextSurface
    /\ panned' = TRUE
    /\ UNCHANGED <<mptr, mapped, size, unsettled>>

\* What is drawn is shown, unless the driver refuses: the object has the offset
\* then, and the driver and mCurSurface the old one.
Pan ==
    /\ yoffset' = FirstLine
    /\ \/ /\ fb' = [fb EXCEPT !.yoffset = FirstLine]
          /\ mCurSurface' \in NextSurface
          /\ panned' = TRUE
       \/ UNCHANGED <<fb, mCurSurface, panned>>
    /\ UNCHANGED <<mptr, mapped, size, unsettled>>

DrawnAndPanned ==
    IF state' = "crashed"
    THEN UNCHANGED <<mptr, mapped, size, yoffset, mCurSurface, fb, unsettled, panned>>
    ELSE Pan

blitImage(x, y, width, height) ==
    /\ state = "open"
    /\ x < xres /\ y < yres
    /\ Draws("blit", width, height, Visible(x, y, width, height))
    /\ DrawnAndPanned

\* clean of an area first copies as many pixels as the area has, whatever the
\* buffer has, from the first ones of the mapping to those behind them or back.
Copied(width, height) ==
    CASE mCurSurface = 0 -> width * height .. 2 * (width * height) - 1
      [] mCurSurface = 1 -> 0 .. width * height - 1
      [] OTHER -> {}

cleanArea(x, y, width, height) ==
    /\ state = "open"
    /\ x < xres /\ y < yres
    /\ Draws("area", width, height, Copied(width, height) \cup Visible(x, y, width, height))
    /\ DrawnAndPanned

\* An area that begins outside of the buffer, or has no image, is refused, but
\* after the copy.
BlitRefused(width, height) ==
    /\ state = "open"
    /\ \/ Draws("blit", width, height, {})
       \/ Draws("area", width, height, Copied(width, height))
    /\ UNCHANGED <<mptr, mapped, size, yoffset, mCurSurface, fb, unsettled, panned>>

-----------------------------------------------------------------------------
Next ==
    \/ ConstructFails
    \/ \E w \in Widths, h \in Heights : ConstructUnmapped(w, h)
    \/ \E w \in Widths, h \in Heights, n \in 0 .. MaxSurfaces : Construct(w, h, n)
    \/ Destroy
    \/ \E w \in Widths, h \in Heights : setDimensions(w, h) \/ SetDimensionsFails(w, h)
    \/ clean
    \/ \E x, width \in Widths, y, height \in Heights :
          blitImage(x, y, width, height) \/ cleanArea(x, y, width, height)
    \/ \E width \in Widths, height \in Heights : BlitRefused(width, height)

Spec == Init /\ [][Next]_vars

-----------------------------------------------------------------------------
(* Types.  The members of an object in use are those of a mapping the driver  *)
(* made, unless the last change of size failed.                               *)
TypeOK ==
    /\ state \in {"none", "open", "failed", "crashed"}
    /\ mptr \in {"garbage", "failed", "mapped"}
    /\ mapped \in Nat /\ xres \in Nat /\ yres \in Nat /\ yoffset \in Nat /\ mBytepl \in Nat
    /\ mNumSurfaces \in 0 .. MaxSurfaces
    /\ mCurSurface \in {0, 1, None, Unset}
    /\ fb \in [xres : Nat, yres : Nat, pitch : Nat, yoffset : Nat]
    /\ unsettled \in BOOLEAN /\ panned \in BOOLEAN
    /\ last.wrote \subseteq Nat
    /\ state = "open" /\ ~unsettled =>
          /\ mptr = "mapped" /\ mapped = yres * mNumSurfaces * mBytepl
          /\ fb.xres = xres /\ fb.yres = yres /\ fb.pitch = mBytepl

(***************************************************************************)
(* Nothing is written beside the mapping, however often the size changes,  *)
(* whatever lines the driver has, whichever pan fails and whatever area is *)
(* drawn: blitImage cuts the area off (hwalFBSurface.cpp:326) and the      *)
(* second buffer begins early enough.  This does not hold after a          *)
(* setDimensions that failed (hwalFBSurface.cpp:179 stores the new size    *)
(* first), and for clean of an area only with two buffers and an area no   *)
(* wider and no higher than one (hwalFBSurface.cpp:227 copies as many      *)
(* pixels as it is told to).                                               *)
(***************************************************************************)
WritesInside ==
    /\ state = "open"
    /\ ~unsettled
    /\ last.by = "area" => mNumSurfaces > 1 /\ last.width <= xres /\ last.height <= yres
    => last.wrote \subseteq 0 .. mapped - 1

\* The pixels the driver shows.
Shown == {(fb.yoffset + i) * fb.pitch + j : i \in 0 .. fb.yres - 1, j \in 0 .. fb.xres - 1}

\* The pixels of the first buffer's lines that the second one begins in, when lines
\* are longer than the width (hwalFBSurface.cpp:317 against :359).
Lapped == xres * yres .. yres * mBytepl - 1

(***************************************************************************)
(* With two buffers or more, blitImage draws to pixels on the screen only  *)
(* where the second buffer laps over the first, also when earlier pans     *)
(* failed; never while the second is shown, and never when a line is as    *)
(* long as the width.  The first drawing after the construction or a       *)
(* change of size may: the object then does not know what is shown.        *)
(***************************************************************************)
WritesHidden ==
    [][ (/\ state' = "open"
         /\ mNumSurfaces > 1
         /\ panned
         /\ ~unsettled
         /\ \E x, width \in Widths, y, height \in Heights : blitImage(x, y, width, height))
        => last'.wrote \cap Shown \subseteq (IF mCurSurface = 0 THEN Lapped ELSE {}) ]_vars
=============================================================================
