------------------------------ MODULE DmabufV4l ------------------------------
(***************************************************************************)
(* simple-dmabuf-v4l.c: a camera fills the buffers, the compositor shows   *)
(* them.  A buffer the compositor released is queued with the camera; a    *)
(* redraw waits until the camera has filled one.                           *)
(***************************************************************************)
EXTENDS DmabufWindow

\* Any version of the dmabuf global will do, and any format.
registry_handle_global(globals) == globals.dmabuf > 0

create_display ==
    /\ Runs("v4l")
    /\ \E globals \in Globals : Proceeds("start", "window", registry_handle_global(globals))
    /\ UNCHANGED <<options, window>>

create_window == Runs("v4l") /\ Opens("connect")

\* The device is opened and given its format and its buffers.
v4l_connect ==
    /\ Runs("v4l")
    /\ Proceeds("connect", "format", TRUE)
    /\ UNCHANGED <<options, window>>

set_format == {0, 1}        \* no planes, or those of the format

fill_buffer_format ==
    /\ Runs("v4l")
    /\ \E planes \in set_format : Proceeds("format", "buffers", planes > 0)
    /\ UNCHANGED <<options, window>>

\* What the camera has after queue, and what queue returns; the number of planes is
\* only compared when the buffer is queued.
queue(b) == {<<drawn \cup {b}, 1>>, <<drawn \cup {b}, 0>>, <<drawn, 0>>}

\* Every buffer is queued, exported and sent for import, or main returns.
queue_initial_buffers ==
    \E b \in Buffers :
        /\ Runs("v4l")
        /\ Turn(b)
        /\ \/ \E q \in queue(b), exported \in BOOLEAN :
                /\ q[2] = 0 \/ ~exported
                /\ drawn' = q[1]
                /\ phase' = "failed"
                /\ UNCHANGED <<buffers, compositor>>
           \/ /\ drawn' = drawn \cup {b}
              /\ Import(b, FALSE, "roundtrip")
        /\ UNCHANGED <<setup, running, window, events, fence>>

\* The descriptors are closed once the compositor has them, or refused them.
create_succeeded == Runs("v4l") /\ Answers("created", "here", 1)
create_failed == Runs("v4l") /\ Answers("failed", "failed", 1)

\* Mutant: the program goes on without the buffer that could not be queued.
BufferReleaseGoesOn ==
    LET b == Head(events).buffer IN
    /\ Runs("v4l")
    /\ Dispatches("release")
    /\ buffers' = [buffers EXCEPT ![b].busy = FALSE]
    /\ \E q \in queue(b) : drawn' = q[1]
    /\ UNCHANGED <<running, phase, window, compositor, fence>>

\* A buffer that cannot be queued ends the program, which is not busy with it any more.
buffer_release ==
    LET b == Head(events).buffer IN
    /\ Runs("v4l")
    /\ Dispatches("release")
    /\ buffers' = [buffers EXCEPT ![b].busy = FALSE]
    /\ \E q \in queue(b) :
         /\ drawn' = q[1]
         /\ running' = (running /\ q[2] = 1)
    /\ UNCHANGED <<phase, window, compositor, fence>>

\* A redraw asserts that the compositor does not have every buffer, and waits for the
\* camera.
redraw ==
    /\ phase' = IF Away = Buffers THEN "aborted" ELSE "dequeue"
    /\ UNCHANGED Others

frame_listener == Runs("v4l") /\ Frames(redraw)
xdg_surface_handle_configure == Runs("v4l") /\ Configures(redraw)

\* The camera returns a buffer it was given, or an error, which ends the program.
dequeue ==
    /\ Runs("v4l")
    /\ phase = "dequeue"
    /\ \/ \E b \in drawn :
            /\ drawn' = drawn \ {b}
            /\ IF buffers[b].busy
               THEN phase' = "aborted" /\ UNCHANGED <<buffers, compositor>>
               ELSE phase' = "loop" /\ Commit(b)
            /\ UNCHANGED running
       \/ /\ phase' = "loop"
          /\ running' = FALSE
          /\ UNCHANGED <<buffers, compositor, drawn>>
    /\ UNCHANGED <<setup, window, events, fence>>

xdg_toplevel_handle_close == Runs("v4l") /\ Sets("close", FALSE)
keyboard_handle_key == Runs("v4l") /\ Sets("key", shell # "xdg")

\* The camera may refuse to start.
start_capture == Runs("v4l") /\ (Begins(redraw) \/ Fails)

\* The loop ends when it was told to or the connection is lost; destroy_window closes
\* the descriptors of the buffers, v4l_shutdown the device.
main ==
    /\ Runs("v4l")
    /\ ~running \/ (compositor.gone /\ events = <<>>)
    /\ Leave

signal_int == Runs("v4l") /\ SigInt

Next ==
    \/ create_display \/ create_window \/ v4l_connect \/ fill_buffer_format \/ queue_initial_buffers
    \/ create_succeeded \/ create_failed \/ buffer_release
    \/ frame_listener \/ xdg_surface_handle_configure \/ dequeue
    \/ xdg_toplevel_handle_close \/ keyboard_handle_key \/ start_capture \/ main \/ signal_int
=============================================================================
