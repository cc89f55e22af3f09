------------------------------ MODULE DmabufIon ------------------------------
(***************************************************************************)
(* simple-dmabuf-ion.c: the frame of simple-dmabuf-v4l.c around memory the *)
(* program draws into itself, when a buffer comes back.                    *)
(***************************************************************************)
EXTENDS DmabufWindow

registry_handle_global(globals) == globals.dmabuf > 0

create_display ==
    /\ Runs("ion")
    /\ \E globals \in Globals : Proceeds("start", "window", registry_handle_global(globals))
    /\ UNCHANGED <<options, window>>

create_window == Runs("ion") /\ Opens("buffers")

\* Every buffer is drawn and sent for import.  An allocation that fails is only
\* printed: the descriptor is then one that was never set.
queue_initial_buffers ==
    \E b \in Buffers :
        /\ Runs("ion")
        /\ Turn(b)
        /\ \/ drawn' = {b} /\ Import(b, FALSE, "roundtrip")
           \/ phase' = "crashed" /\ UNCHANGED <<drawn, buffers, compositor>>
        /\ UNCHANGED <<setup, running, window, events, fence>>

create_succeeded == Runs("ion") /\ Answers("created", "here", 0)
create_failed == Runs("ion") /\ Answers("failed", "failed", 1)

\* Mutant: the next buffer is drawn, not the one that came back.
DrawsNext(b) == drawn' = {(b + 1) % NumBuffers}

queue_buffer(b) == drawn' = {b}

buffer_release ==
    LET b == Head(events).buffer IN
    /\ Runs("ion")
    /\ Dispatches("release")
    /\ buffers' = [buffers EXCEPT ![b].busy = FALSE]
    /\ queue_buffer(b)
    /\ UNCHANGED <<phase, running, window, compositor, fence>>

\* The first buffer that is not busy.
dequeue == CHOOSE b \in Buffers \ Away : \A c \in Buffers \ Away : b <= c

redraw ==
    /\ IF Away = Buffers
       THEN phase' = "aborted" /\ UNCHANGED <<buffers, compositor>>
       ELSE phase' = "loop" /\ Commit(dequeue)
    /\ drawn' = {}
    /\ UNCHANGED <<running, fence>>

frame_listener == Runs("ion") /\ Frames(redraw)
xdg_surface_handle_configure == Runs("ion") /\ Configures(redraw)

xdg_toplevel_handle_close == Runs("ion") /\ Sets("close", FALSE)
keyboard_handle_key == Runs("ion") /\ Sets("key", shell # "xdg")

\* Without an argument the comparison of the first one is of NULL.  The loop does not
\* look at what the dispatch returns: when the compositor is gone it goes on without end.
main ==
    /\ Runs("ion")
    /\ \/ /\ phase = "start"
          /\ phase' = "crashed"
          /\ UNCHANGED <<setup, window, events, Others>>
       \/ Begins(redraw)
       \/ ~running /\ Fails
       \/ ~running /\ Leave

signal_int == Runs("ion") /\ SigInt

Next ==
    \/ create_display \/ create_window \/ queue_initial_buffers
    \/ create_succeeded \/ create_failed \/ buffer_release
    \/ frame_listener \/ xdg_surface_handle_configure
    \/ xdg_toplevel_handle_close \/ keyboard_handle_key \/ main \/ signal_int
=============================================================================
