---------------------------- MODULE DmabufSamples ----------------------------
(***************************************************************************)
(* The dmabuf samples with their compositor, one at a time.                *)
(***************************************************************************)
EXTENDS DmabufWindow

V4l == INSTANCE DmabufV4l
Ion == INSTANCE DmabufIon
Drm == INSTANCE DmabufDrm
Egl == INSTANCE DmabufEgl

Next == Outside \/ V4l!Next \/ Ion!Next \/ Drm!Next \/ Egl!Next

Spec == Init /\ [][Next]_vars

-----------------------------------------------------------------------------
TypeOK ==
    /\ program \in Programs
    /\ options \in [immediate : BOOLEAN, sync : BOOLEAN]
    /\ phase \in {"start", "window", "connect", "format", "buffers", "gl", "roundtrip", "loop",
                  "dequeue", "render", "commit", "ended", "failed", "aborted", "asserted", "crashed"}
    /\ running \in BOOLEAN
    /\ window \in [initialized : BOOLEAN, waiting : BOOLEAN]
    /\ buffers \in [Buffers -> [buffer : {"none", "asked", "here", "failed"}, busy : BOOLEAN,
                                fenced : BOOLEAN, freed : 0 .. 2]]
    /\ compositor.asked \subseteq Buffers /\ compositor.held \subseteq Buffers
    /\ drawn \subseteq Buffers /\ fence \subseteq Buffers
    /\ phase \in {"loop", "dequeue", "render", "commit"} => \A b \in Buffers : buffers[b].buffer = "here"

(***************************************************************************)
(* What the compositor shows, or its GPU may still read, is written by     *)
(* nobody: the camera has only buffers that came back                      *)
(* (simple-dmabuf-v4l.c:168), the ion sample draws into the one that came  *)
(* back, and the GPU waits for the release fence first                     *)
(* (simple-dmabuf-egl-yuv-on-osd.c:931).                                   *)
(***************************************************************************)
UntouchedWhileShown == drawn \cap (compositor.held \cup fence) = {}

\* Buffers the compositor has given back, in an event that was not dispatched.
Returning == {events[i].buffer : i \in {j \in DOMAIN events : events[j].type \in {"release", "fenced"}}}

(***************************************************************************)
(* A redraw only finds every buffer busy when the compositor has each one  *)
(* or its release is on the way ("Server bug?", simple-dmabuf-drm.c:741),  *)
(* no other assertion fails, and the v4l sample does not wait for a camera *)
(* that has no buffer ("block forever trying to dequeue a buffer",         *)
(* simple-dmabuf-v4l.c:642), unless a buffer could not be queued: then it  *)
(* may wait although it is to end.                                         *)
(***************************************************************************)
StuckOnlyWhenAllAway ==
    /\ phase = "aborted" => compositor.held \cup Returning = Buffers
    /\ phase # "asserted"
    /\ phase = "dequeue" /\ running => drawn # {}

(***************************************************************************)
(* A program that ends freed every buffer, and none twice, but for the v4l *)
(* sample, which closes the descriptors when the compositor has them and   *)
(* again at the end (simple-dmabuf-v4l.c:625), and the egl sample, when    *)
(* the image of a buffer that was imported at once cannot be made.         *)
(***************************************************************************)
FreedOnce ==
    /\ phase = "ended" => \A b \in Buffers : buffers[b].freed > 0
    /\ (\E b \in Buffers : buffers[b].freed > 1) =>
          \/ program = "v4l" /\ phase = "ended"
          \/ program = "egl" /\ phase = "failed" /\ options.immediate
=============================================================================
