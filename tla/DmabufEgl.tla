------------------------------ MODULE DmabufEgl ------------------------------
(***************************************************************************)
(* simple-dmabuf-egl-yuv-on-osd.c: the GPU draws every frame.  With        *)
(* explicit synchronisation a buffer comes back while the compositor's GPU *)
(* work may still read it, with a fence to wait for.                       *)
(***************************************************************************)
EXTENDS DmabufWindow

registry_handle_global(globals) == globals.dmabuf >= 3

\* Whether EGL has what the program needs, and what it needs for fences.
display_set_up_egl == {"nothing", "images", "fences"}

\* The render node, EGL and the modifiers are set up or everything is destroyed; the
\* fences are used if asked for and both sides know them.
create_display ==
    \E egl \in display_set_up_egl, globals \in Globals :
        /\ Runs("egl")
        /\ Proceeds("start", "window", registry_handle_global(globals) /\ globals.format /\ egl # "nothing")
        /\ options' = [options EXCEPT !.sync = @ /\ globals.sync /\ egl = "fences"]
        /\ UNCHANGED window

create_window == Runs("egl") /\ Opens("buffers")

\* Mutant: the buffers are freed whether or not they have a wl_buffer.
FreedEach(bufs) == [b \in Buffers |-> [bufs[b] EXCEPT !.freed = @ + 1]]

\* destroy_window after a failure frees the buffers that have a wl_buffer.
destroy_window(bufs) ==
    [b \in Buffers |-> [bufs[b] EXCEPT !.freed = @ + (IF bufs[b].buffer = "here" THEN 1 ELSE 0)]]

\* A buffer that has its memory is sent for import, and then needs its image; what
\* fails is freed here and the window after it.
create_dmabuf_buffer ==
    \E b \in Buffers, memory \in BOOLEAN, image \in BOOLEAN :
        /\ Runs("egl")
        /\ Turn(b)
        /\ IF memory /\ image
           THEN Import(b, options.immediate, "gl")
           ELSE /\ phase' = "failed"
                /\ buffers' = destroy_window(
                     [buffers EXCEPT ![b].buffer = IF memory /\ options.immediate THEN "here" ELSE "none",
                                     ![b].freed = @ + 1])
                /\ UNCHANGED compositor
        /\ UNCHANGED <<setup, running, window, events, drawn, fence>>

\* The shaders may not compile.
window_set_up_gl ==
    /\ Runs("egl")
    /\ phase = "gl"
    /\ \/ phase' = "roundtrip" /\ UNCHANGED buffers
       \/ phase' = "failed" /\ buffers' = destroy_window(buffers)
    /\ UNCHANGED <<setup, running, window, compositor, events, drawn, fence>>

create_succeeded == Runs("egl") /\ Answers("created", "here", 0)
create_failed == Runs("egl") /\ Answers("failed", "failed", 0)

\* The buffer must not have a fence already.
Back(type) ==
    LET b == Head(events).buffer IN
    /\ Dispatches(type)
    /\ buffers' = [buffers EXCEPT ![b].busy = FALSE, ![b].fenced = @ \/ type = "fenced"]
    /\ phase' = IF options.sync /\ buffers[b].fenced THEN "asserted" ELSE phase
    /\ UNCHANGED <<running, window, compositor, drawn, fence>>

\* A release of the buffer, or of this commit of it: with a fence, or without.
buffer_release == Runs("egl") /\ ~options.sync /\ Back("release")
buffer_immediate_release == Runs("egl") /\ options.sync /\ Back("release")
buffer_fenced_release == Runs("egl") /\ Back("fenced")

\* The first buffer that is not busy.
window_next_buffer == CHOOSE b \in Buffers \ Away : \A c \in Buffers \ Away : b <= c

redraw ==
    /\ phase' = IF Away = Buffers THEN "aborted" ELSE "render"
    /\ UNCHANGED Others

frame_listener == Runs("egl") /\ Frames(redraw)
xdg_surface_handle_configure == Runs("egl") /\ Configures(redraw)
xdg_toplevel_handle_close == Runs("egl") /\ Sets("close", FALSE)

\* Mutant: the fence is closed unread.
DropFence(b) == buffers' = [buffers EXCEPT ![b].fenced = FALSE]

\* What is drawn waits for the fence of the buffer, in the program or in the GPU's
\* queue; the fence is EGL's then.
wait_for_buffer_release_fence(b) ==
    /\ buffers[b].fenced => b \notin fence
    /\ buffers' = [buffers EXCEPT ![b].fenced = FALSE]

render ==
    /\ Runs("egl")
    /\ phase = "render"
    /\ wait_for_buffer_release_fence(window_next_buffer)
    /\ drawn' = {window_next_buffer}
    /\ phase' = "commit"
    /\ UNCHANGED <<setup, running, window, compositor, events, fence>>

\* The drawing is finished, or the compositor gets a fence to wait for.
create_egl_fence_fd ==
    /\ Runs("egl")
    /\ phase = "commit"
    /\ \E b \in drawn : Commit(b)
    /\ drawn' = {}
    /\ phase' = "loop"
    /\ UNCHANGED <<setup, running, window, events, fence>>

main ==
    /\ Runs("egl")
    /\ \/ Begins(redraw)
       \/ ~running /\ Fails
       \/ (~running \/ (compositor.gone /\ events = <<>>)) /\ Leave

signal_int == Runs("egl") /\ SigInt

Next ==
    \/ create_display \/ create_window \/ create_dmabuf_buffer \/ window_set_up_gl
    \/ create_succeeded \/ create_failed
    \/ buffer_release \/ buffer_immediate_release \/ buffer_fenced_release
    \/ frame_listener \/ xdg_surface_handle_configure \/ xdg_toplevel_handle_close
    \/ render \/ create_egl_fence_fd \/ main \/ signal_int
=============================================================================
