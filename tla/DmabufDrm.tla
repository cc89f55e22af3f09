------------------------------ MODULE DmabufDrm ------------------------------
(***************************************************************************)
(* simple-dmabuf-drm.c: buffers of a render node that are drawn once, when *)
(* they are made.                                                          *)
(***************************************************************************)
EXTENDS DmabufWindow

\* Version 3 of the dmabuf global is the first that tells its formats.
registry_handle_global(globals) == globals.dmabuf >= 3

create_display ==
    /\ Runs("drm")
    /\ \E globals \in Globals :
          Proceeds("start", "window", registry_handle_global(globals) /\ globals.format)
    /\ UNCHANGED <<options, window>>

create_window == Runs("drm") /\ Opens("buffers")

\* What comes of an allocation: memory or none, memory in a layout the program does
\* not take, or the end, as the size is printed before the result is looked at.
intel_alloc_bo == {"memory", "unusable", "crash"}
fd_alloc_bo == {"memory", "nothing"}
etna_alloc_bo == {"memory", "nothing"}

\* The driver of the node decides which; another one is not supported.
drm_device_init == intel_alloc_bo \cup fd_alloc_bo \cup etna_alloc_bo \cup {"unsupported"}

\* A buffer is allocated, mapped, drawn and exported, and sent for import.  What was
\* allocated is freed if it cannot be mapped or exported, and main returns.
create_dmabuf_buffer ==
    \E b \in Buffers, made \in drm_device_init, exported \in BOOLEAN :
        /\ Runs("drm")
        /\ Turn(b)
        /\ CASE made = "crash" ->
                  phase' = "crashed" /\ UNCHANGED <<drawn, buffers, compositor>>
             [] made # "memory" ->
                  phase' = "failed" /\ UNCHANGED <<drawn, buffers, compositor>>
             [] made = "memory" /\ ~exported ->
                  /\ phase' = "failed"
                  /\ buffers' = [buffers EXCEPT ![b].freed = @ + 1]
                  /\ UNCHANGED <<drawn, compositor>>
             [] OTHER ->
                  drawn' = {b} /\ Import(b, options.immediate, "roundtrip")
        /\ UNCHANGED <<setup, running, window, events, fence>>

create_succeeded == Runs("drm") /\ Answers("created", "here", 0)
create_failed == Runs("drm") /\ Answers("failed", "failed", 0)

buffer_release ==
    /\ Runs("drm")
    /\ Dispatches("release")
    /\ buffers' = [buffers EXCEPT ![Head(events).buffer].busy = FALSE]
    /\ UNCHANGED <<phase, running, window, compositor, drawn, fence>>

\* The first buffer that is not busy.
window_next_buffer == CHOOSE b \in Buffers \ Away : \A c \in Buffers \ Away : b <= c

redraw ==
    /\ IF Away = Buffers
       THEN phase' = "aborted" /\ UNCHANGED <<buffers, compositor>>
       ELSE phase' = "loop" /\ Commit(window_next_buffer)
    /\ drawn' = {}
    /\ UNCHANGED <<running, fence>>

frame_listener == Runs("drm") /\ Frames(redraw)
xdg_surface_handle_configure == Runs("drm") /\ Configures(redraw)
xdg_toplevel_handle_close == Runs("drm") /\ Sets("close", FALSE)

destroy_window == Leave

main ==
    /\ Runs("drm")
    /\ \/ Begins(redraw)
       \/ ~running /\ Fails
       \/ (~running \/ (compositor.gone /\ events = <<>>)) /\ destroy_window

signal_int == Runs("drm") /\ SigInt

Next ==
    \/ create_display \/ create_window \/ create_dmabuf_buffer
    \/ create_succeeded \/ create_failed \/ buffer_release
    \/ frame_listener \/ xdg_surface_handle_configure
    \/ xdg_toplevel_handle_close \/ main \/ signal_int
=============================================================================
