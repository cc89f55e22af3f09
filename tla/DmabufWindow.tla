---------------------------- MODULE DmabufWindow ----------------------------
(***************************************************************************)
(* What the four dmabuf samples have in common: a window with a few        *)
(* buffers that go to the compositor and come back, the events between     *)
(* them, and the readers and writers of the buffers' memory.  One process  *)
(* runs one of the programs.  The compositor, the camera and the GPU are   *)
(* not in the repository; they are what the handlers of the programs        *)
(* expect of them.                                                          *)
(***************************************************************************)
EXTENDS Integers, Sequences, FiniteSets

CONSTANTS
    NumBuffers,     \* NUM_BUFFERS, 3 in each program
    MaxConfigures   \* bound: configure events the compositor sends

ASSUME DmabufAssumption == NumBuffers \in Nat \ {0} /\ MaxConfigures \in Nat

VARIABLES
    program,        \* which of the samples runs
    options,        \* import without a roundtrip, explicit synchronisation
    shell,          \* which shell the compositor has
    phase,          \* how far main got
    running,
    window,         \* initialized and wait_for_configure
    buffers,        \* per buffer: its wl_buffer, busy, whether it has a release fence,
                    \* and how often it was freed
    compositor,     \* imports to answer, buffers it holds, a frame and configures it owes
    events,         \* sent to the program and not yet dispatched
    drawn,          \* buffers that are being written: by the camera, the CPU or the GPU
    fence           \* buffers whose release fence the GPU has not signalled

vars == <<program, options, shell, phase, running, window, buffers, compositor, events, drawn, fence>>
setup == <<program, options, shell>>

Buffers == 0 .. NumBuffers - 1
Programs == {"v4l", "ion", "drm", "egl"}

\* What else a compositor may offer: a version of the dmabuf global, the format, and
\* explicit synchronisation.
Globals == [dmabuf : {0, 1, 3}, format : BOOLEAN, sync : BOOLEAN]

Away == {b \in Buffers : buffers[b].busy}

Unconnected == [asked |-> {}, held |-> {}, owes |-> FALSE, configures |-> 0, gone |-> FALSE]

Init ==
    /\ program \in Programs
    /\ options \in [immediate : BOOLEAN, sync : BOOLEAN]
    /\ options.immediate => program \in {"drm", "egl"}
    /\ options.sync => program = "egl"
    /\ shell \in {"xdg", "fullscreen", "none"}
    /\ phase = "start"
    /\ running = TRUE
    /\ window = [initialized |-> FALSE, waiting |-> FALSE]
    /\ buffers = [b \in Buffers |-> [buffer |-> "none", busy |-> FALSE, fenced |-> FALSE, freed |-> 0]]
    /\ compositor = Unconnected
    /\ events = <<>>
    /\ drawn = {}
    /\ fence = {}

-----------------------------------------------------------------------------
(* The compositor and the GPU.                                             *)

Event(type, b) == [type |-> type, buffer |-> b]
Send(e) ==
    /\ ~compositor.gone
    /\ events' = Append(events, e)

\* An import is answered in its turn.  One that was not to be answered is only
\* answered when it failed.
Answer ==
    /\ compositor.asked # {}
    /\ LET b == CHOOSE b \in compositor.asked : \A c \in compositor.asked : b <= c IN
       /\ compositor' = [compositor EXCEPT !.asked = @ \ {b}]
       /\ \/ Send(Event("failed", b))
          \/ ~options.immediate /\ Send(Event("created", b))
          \/ options.immediate /\ UNCHANGED events
    /\ UNCHANGED <<setup, phase, running, window, buffers, drawn, fence>>

\* The first configure answers the commit of an empty surface; more may follow.
Configure ==
    /\ phase \notin {"start", "window"}
    /\ shell = "xdg"
    /\ compositor.configures < MaxConfigures
    /\ Send(Event("configure", 0))
    /\ compositor' = [compositor EXCEPT !.configures = @ + 1]
    /\ UNCHANGED <<setup, phase, running, window, buffers, drawn, fence>>

FrameDone ==
    /\ compositor.owes
    /\ Send(Event("done", 0))
    /\ compositor' = [compositor EXCEPT !.owes = FALSE]
    /\ UNCHANGED <<setup, phase, running, window, buffers, drawn, fence>>

\* With explicit synchronisation the GPU may still read what is released.
Release ==
    \E b \in compositor.held :
        /\ compositor' = [compositor EXCEPT !.held = @ \ {b}]
        /\ \/ Send(Event("release", b)) /\ UNCHANGED fence
           \/ options.sync /\ Send(Event("fenced", b)) /\ fence' = fence \cup {b}
        /\ UNCHANGED <<setup, phase, running, window, buffers, drawn>>

\* The window is closed, or the escape key is pressed where a keyboard is listened to.
Close ==
    /\ phase = "loop"
    /\ running
    /\ \A i \in DOMAIN events : events[i].type \notin {"close", "key"}
    /\ \/ shell = "xdg" /\ Send(Event("close", 0))
       \/ program \in {"v4l", "ion"} /\ Send(Event("key", 0))
    /\ UNCHANGED <<setup, phase, running, window, buffers, compositor, drawn, fence>>

Vanish ==
    /\ phase = "loop"
    /\ ~compositor.gone
    /\ compositor' = [compositor EXCEPT !.gone = TRUE]
    /\ UNCHANGED <<setup, phase, running, window, buffers, events, drawn, fence>>

Signal ==
    \E b \in fence :
        /\ fence' = fence \ {b}
        /\ UNCHANGED <<setup, phase, running, window, buffers, compositor, events, drawn>>

\* With the program its connection ends.
Over == phase \in {"failed", "ended", "aborted", "asserted", "crashed"}

Outside == ~Over /\ (Answer \/ Configure \/ FrameDone \/ Release \/ Close \/ Vanish \/ Signal)

-----------------------------------------------------------------------------
(* Steps the programs share, word for word but for the calls they make.    *)

Runs(p) == program = p

\* main goes on, or returns or exits.
Proceeds(from, to, can) ==
    /\ phase = from
    /\ phase' \in {"failed"} \cup (IF can THEN {to} ELSE {})
    /\ UNCHANGED <<running, buffers, compositor, events, drawn, fence, program, shell>>

\* create_window: the surface is committed for its first configure, unless the shell
\* shows windows without; with no shell the program aborts.
Opens(to) ==
    /\ Proceeds("window", to, shell # "none")
    /\ window' = [window EXCEPT !.waiting = shell = "xdg"]
    /\ UNCHANGED options

Missing == {b \in Buffers : buffers[b].buffer = "none" /\ buffers[b].freed = 0}
Turn(b) == phase = "buffers" /\ b \in Missing /\ \A c \in Missing : b <= c

\* The next buffer is sent for import; after the last one the program goes on.
Import(b, immediate, last) ==
    /\ buffers' = [buffers EXCEPT ![b].buffer = IF immediate THEN "here" ELSE "asked"]
    /\ compositor' = [compositor EXCEPT !.asked = @ \cup {b}]
    /\ phase' = IF Missing = {b} THEN last ELSE "buffers"

Dispatches(type) ==
    /\ phase \in {"roundtrip", "loop"}
    /\ events # <<>>
    /\ Head(events).type = type
    /\ events' = Tail(events)
    /\ UNCHANGED setup

\* The buffer is attached and committed with a frame callback, and is busy from then
\* on; a surface without a buffer shows nothing.
Commit(b) ==
    /\ buffers' = [buffers EXCEPT ![b].busy = TRUE]
    /\ compositor' = [compositor EXCEPT !.owes = TRUE,
                                        !.held = IF buffers[b].buffer = "here" THEN @ \cup {b} ELSE @]

\* The roundtrip of main is over when every import was answered.
Answered ==
    /\ phase = "roundtrip"
    /\ compositor.asked = {}
    /\ \A i \in DOMAIN events : events[i].type \notin {"created", "failed"}

(* Handlers and parts of main; r is the redraw of the program.             *)

Others == <<running, buffers, compositor, drawn, fence>>

Configures(r) ==
    /\ Dispatches("configure")
    /\ window' = [window EXCEPT !.waiting = FALSE]
    /\ IF window.initialized /\ window.waiting THEN r ELSE UNCHANGED <<phase, Others>>

Frames(r) ==
    /\ Dispatches("done")
    /\ r
    /\ UNCHANGED window

Sets(type, value) ==
    /\ Dispatches(type)
    /\ running' = (running /\ value)
    /\ UNCHANGED <<phase, window, buffers, compositor, drawn, fence>>

\* After the roundtrip main returns if something failed; a window that has its
\* configure is drawn to at once.
Begins(r) ==
    /\ Answered
    /\ running
    /\ window' = [window EXCEPT !.initialized = TRUE]
    /\ IF window.waiting THEN phase' = "loop" /\ UNCHANGED Others ELSE r
    /\ UNCHANGED <<setup, events>>

Fails ==
    /\ Answered
    /\ phase' = "failed"
    /\ UNCHANGED <<setup, window, events, Others>>

\* Mutant: the program runs on without the buffer.
AnswersAnyway(type, buffer, freed) ==
    /\ Dispatches(type)
    /\ buffers' = [buffers EXCEPT ![Head(events).buffer].buffer = buffer,
                                  ![Head(events).buffer].freed = @ + freed]
    /\ UNCHANGED <<running, phase, window, compositor, drawn, fence>>

\* The answer to an import: the buffer, freed at once or not, or none.
Answers(type, buffer, freed) ==
    /\ Dispatches(type)
    /\ buffers' = [buffers EXCEPT ![Head(events).buffer].buffer = buffer,
                                  ![Head(events).buffer].freed = @ + freed]
    /\ running' = (running /\ type = "created")
    /\ UNCHANGED <<phase, window, compositor, drawn, fence>>

Freed == [b \in Buffers |-> [buffers[b] EXCEPT !.freed = @ + (IF buffers[b].buffer = "here" THEN 1 ELSE 0)]]

\* destroy_window frees the buffers that have a wl_buffer, and destroy_display closes
\* the connection.
Leave ==
    /\ phase = "loop"
    /\ phase' = "ended"
    /\ buffers' = Freed
    /\ drawn' = {}
    /\ events' = <<>>
    /\ compositor' = Unconnected
    /\ fence' = {}
    /\ UNCHANGED <<setup, running, window>>

\* The signal handler; a loop that is in poll goes on waiting.
SigInt ==
    /\ phase \in {"roundtrip", "loop", "dequeue", "render", "commit"}
    /\ running
    /\ running' = FALSE
    /\ UNCHANGED <<setup, phase, window, buffers, compositor, events, drawn, fence>>
=============================================================================
