----------------------------- MODULE DrmSetCrtc -----------------------------
(***************************************************************************)
(* drm_setcrtc.c: a program of one thread that waits for its connector to  *)
(* have a matching mode, sets it with an atomic commit, and then, as a     *)
(* service, keeps the device open until SIGINT or SIGTERM.  The signal     *)
(* handler runs on the same thread: main stands still while it does, and   *)
(* the mutex it takes may be one main holds.                               *)
(***************************************************************************)
EXTENDS Integers, Sequences, FiniteSets

CONSTANTS
    Connectors,     \* what drmModeGetResources lists, the default one first
    None,           \* no connector chosen, no mode
    MaxChanges,     \* bound: connectors plugged and unplugged
    MaxSignals      \* bound: signals delivered

ASSUME SetCrtcAssumption ==
    /\ None \notin Connectors
    /\ MaxChanges \in Nat
    /\ MaxSignals \in Nat

VARIABLES
    \* main: its step, its options and its variables.  mode points into what
    \* dev.resources holds, or into what was freed.
    pc, run_as_service, connector_id, mode, ret, need_wait_connection,
    \* dev.req, and the properties add_property got into it
    req, added,
    \* the parts of what dev.resources points to (none: it is NULL), what is
    \* allocated with nothing pointing to it, and whether the device is open
    held, lost, opened,
    \* the frames of signal_handle on the stack, user_stop, main_mutex and
    \* whether main sleeps in pthread_cond_wait or was woken from it
    frames, user_stop, main_mutex, woken,
    \* the display: what each connector offers, and whether the commit was made
    offers, shown,
    \* how often the bounded things happened
    changes, signals

mainVars == <<run_as_service, connector_id, mode, ret, need_wait_connection>>
reqVars == <<req, added>>
heldVars == <<held, lost, opened>>
signalVars == <<frames, user_stop, main_mutex, woken, signals>>
kernelVars == <<offers, shown, changes>>
vars == <<pc, mainVars, reqVars, heldVars, signalVars, kernelVars>>

\* A connector offers no mode, modes of which none matches the options, or one
\* that does.
Offers == {"nothing", "other_modes", "the_mode"}

Properties == {"CRTC_ID", "MODE_ID", "ACTIVE"}

\* What get_resources allocates, and whether free_resources frees it: it does the
\* objects, their lists and the properties of crtcs and planes.  The rest is what
\* stands in a list behind an object that could not be read, the properties of
\* connectors, and what drmModeGetProperty returned for any object.
Parts == {"objects", "rest"}

\* What a read leaves: there may be no rest.
Reads == {{"objects"}, Parts}

Unfreed(parts) == parts \ {"objects"}

Signals == {"SIGINT", "SIGTERM"}

Init ==
    /\ pc = "open"
    /\ run_as_service \in BOOLEAN
    /\ connector_id \in Connectors \cup {None}
    /\ mode = None
    /\ ret = 0
    /\ need_wait_connection = FALSE
    /\ req = "none"
    /\ added = {}
    /\ held = {}
    /\ lost = {}
    /\ opened = FALSE
    /\ frames = <<>>
    /\ user_stop = FALSE
    /\ main_mutex = FALSE
    /\ woken = FALSE
    /\ offers \in [Connectors -> {"nothing", "the_mode"}]
    /\ shown = FALSE
    /\ changes = 0
    /\ signals = 0

-----------------------------------------------------------------------------
(* main.  It runs only while no signal handler does.                       *)

At(here, there) ==
    /\ frames = <<>>
    /\ pc = here
    /\ pc' = there

\* drmOpen and drmSetClientCap; a failure ends the program at once.
Open ==
    /\ At("open", "fetch")
    /\ opened' = TRUE
    /\ UNCHANGED <<mainVars, reqVars, held, lost, signalVars, kernelVars>>

OpenFails ==
    /\ At("open", "exited")
    /\ ret' = -1
    /\ UNCHANGED <<run_as_service, connector_id, mode, need_wait_connection, reqVars,
                   heldVars, signalVars, kernelVars>>

\* free_resources(dev.resources), which leaves a mode in it dangling; read is
\* what a get_resources that fails allocated and leaves behind in its turn.
Freed(read) ==
    /\ lost' = lost \cup Unfreed(held \cup read)
    /\ mode' = IF mode = "in_resources" THEN "freed" ELSE mode

\* Mutant: what was read once is kept.
FetchOnce ==
    /\ At("fetch", "find")
    /\ IF held = {} THEN held' \in Reads ELSE UNCHANGED held
    /\ need_wait_connection' = FALSE
    /\ connector_id' = IF connector_id = None THEN CHOOSE c \in Connectors : TRUE ELSE connector_id
    /\ mode' = IF held = {} /\ offers[connector_id'] = "the_mode" THEN "in_resources" ELSE None
    /\ UNCHANGED <<run_as_service, ret, reqVars, lost, opened, signalVars, kernelVars>>

\* connector_find_mode in the resources just read: a pointer into them, or NULL.
FindMode(c) == IF offers[c] = "the_mode" THEN "in_resources" ELSE None

\* Mutant: what dev.resources points to is overwritten.
FetchOverwrites ==
    /\ At("fetch", "find")
    /\ lost' = lost \cup held
    /\ held' \in Reads
    /\ need_wait_connection' = FALSE
    /\ connector_id' = IF connector_id = None THEN CHOOSE c \in Connectors : TRUE ELSE connector_id
    /\ mode' = FindMode(connector_id')
    /\ UNCHANGED <<run_as_service, ret, reqVars, opened, signalVars, kernelVars>>

\* What was read before is freed, and read again.  The default connector is
\* chosen the first time, and then kept.
Fetch ==
    /\ At("fetch", "find")
    /\ lost' = lost \cup Unfreed(held)
    /\ held' \in Reads
    /\ need_wait_connection' = FALSE
    /\ connector_id' = IF connector_id = None THEN CHOOSE c \in Connectors : TRUE ELSE connector_id
    /\ mode' = FindMode(connector_id')
    /\ UNCHANGED <<run_as_service, ret, reqVars, opened, signalVars, kernelVars>>

\* Mutant: a failed read does not make main wait for a connection.
FetchFailsGoesOn ==
    /\ At("fetch", "again")
    /\ Freed({})
    /\ held' \in Reads \cup {{}}
    /\ ret' = -1
    /\ need_wait_connection' = FALSE
    /\ UNCHANGED <<run_as_service, connector_id, reqVars, opened, signalVars, kernelVars>>

\* get_resources finds no connector or no crtc; or it fails, and frees what it
\* got, which a connector without a name has it do behind the encoders.
FetchFails ==
    /\ At("fetch", "again")
    /\ \/ Freed({}) /\ held' \in Reads
       \/ \E read \in SUBSET Parts : Freed(read) /\ held' = {}
    /\ ret' = -1
    /\ need_wait_connection' = TRUE
    /\ UNCHANGED <<run_as_service, connector_id, reqVars, opened, signalVars, kernelVars>>

\* drmModeGetConnector or drmModeGetCrtc returns NULL for a listed object, which
\* get_resources then uses.
FetchCrashes ==
    /\ At("fetch", "crashed")
    /\ UNCHANGED <<mainVars, reqVars, heldVars, signalVars, kernelVars>>

Found ==
    /\ At("find", "again")
    /\ need_wait_connection' = (mode = None)
    /\ UNCHANGED <<run_as_service, connector_id, mode, ret, reqVars, heldVars, signalVars, kernelVars>>

\* Mutant: the loop waits for a connection even when asked to stop.
AgainUnstopped ==
    /\ At("again", IF need_wait_connection THEN "fetch" ELSE IF user_stop THEN "out" ELSE "request")
    /\ UNCHANGED <<mainVars, reqVars, heldVars, signalVars, kernelVars>>

\* while (need_wait_connection && !user_stop), and the test behind it.
Again ==
    /\ At("again", IF user_stop THEN "out" ELSE IF need_wait_connection THEN "fetch" ELSE "request")
    /\ UNCHANGED <<mainVars, reqVars, heldVars, signalVars, kernelVars>>

\* set_property gives up when it does not find the object, its properties or the
\* name among them; nobody looks at its result.
SetProperty(p) == {{}, {p}}

\* The request: CRTC_ID of the connector, MODE_ID and ACTIVE of the crtc.  The
\* blob of the mode is made on the way, and nothing destroys it.
Request ==
    /\ At("request", "commit")
    /\ req' = "allocated"
    /\ \E a \in SetProperty("CRTC_ID"), b \in SetProperty("MODE_ID"), c \in SetProperty("ACTIVE") :
          added' = a \cup b \cup c
    /\ lost' = lost \cup {"blob"}
    /\ UNCHANGED <<mainVars, held, opened, signalVars, kernelVars>>

\* An id that is no crtc's and no connector's is looked for among the planes,
\* which could not be read.
RequestCrashes ==
    /\ At("request", "crashed")
    /\ req' = "allocated"
    /\ UNCHANGED <<mainVars, added, heldVars, signalVars, kernelVars>>

\* The kernel refuses what it likes, but takes an empty request for done.
Commit ==
    /\ At("commit", "committed")
    /\ ret' = 0
    /\ shown' = (added = Properties)
    /\ UNCHANGED <<run_as_service, connector_id, mode, need_wait_connection, reqVars, heldVars,
                   signalVars, offers, changes>>

\* Mutant: the error is printed and forgotten.
CommitFailsQuietly ==
    /\ At("commit", "out")
    /\ added # {}
    /\ UNCHANGED <<mainVars, reqVars, heldVars, signalVars, kernelVars>>

CommitFails ==
    /\ At("commit", "out")
    /\ added # {}
    /\ ret' = -1
    /\ UNCHANGED <<run_as_service, connector_id, mode, need_wait_connection, reqVars, heldVars,
                   signalVars, kernelVars>>

FreeRequest ==
    /\ At("committed", IF run_as_service THEN "serve" ELSE "out")
    /\ req' = "none"
    /\ UNCHANGED <<mainVars, added, heldVars, signalVars, kernelVars>>

\* while (!user_stop), and the sleep behind it.
Serve ==
    /\ At("serve", IF user_stop THEN "out" ELSE "lock")
    /\ UNCHANGED <<mainVars, reqVars, heldVars, signalVars, kernelVars>>

Lock ==
    /\ At("lock", "wait")
    /\ ~main_mutex
    /\ main_mutex' = TRUE
    /\ UNCHANGED <<mainVars, reqVars, heldVars, frames, user_stop, woken, signals, kernelVars>>

\* pthread_cond_wait gives main_mutex back and sleeps.
Wait ==
    /\ At("wait", "waiting")
    /\ main_mutex' = FALSE
    /\ woken' = FALSE
    /\ UNCHANGED <<mainVars, reqVars, heldVars, frames, user_stop, signals, kernelVars>>

Wake ==
    /\ At("waiting", "unlock")
    /\ woken
    /\ ~main_mutex
    /\ main_mutex' = TRUE
    /\ woken' = FALSE
    /\ UNCHANGED <<mainVars, reqVars, heldVars, frames, user_stop, signals, kernelVars>>

\* Mutant: the wait goes on with the mutex it was woken with.
UnlockForgets ==
    /\ At("unlock", "serve")
    /\ UNCHANGED <<mainVars, reqVars, heldVars, signalVars, kernelVars>>

Unlock ==
    /\ At("unlock", "serve")
    /\ main_mutex' = FALSE
    /\ UNCHANGED <<mainVars, reqVars, heldVars, frames, user_stop, woken, signals, kernelVars>>

Out ==
    /\ At("out", "exited")
    /\ lost' = lost \cup Unfreed(held)
    /\ held' = {}
    /\ opened' = FALSE
    /\ UNCHANGED <<mainVars, reqVars, signalVars, kernelVars>>

Main ==
    \/ Open \/ OpenFails
    \/ Fetch \/ FetchFails \/ FetchCrashes \/ Found \/ Again
    \/ Request \/ RequestCrashes \/ Commit \/ CommitFails \/ FreeRequest
    \/ Serve \/ Lock \/ Wait \/ Wake \/ Unlock
    \/ Out

-----------------------------------------------------------------------------
(* signal_handle.  A signal is masked while its own handler runs, the other *)
(* one is not.                                                             *)

Top == frames[Len(frames)]

Deliver(s) ==
    /\ pc \notin {"open", "exited", "crashed"}
    /\ signals < MaxSignals
    /\ \A i \in DOMAIN frames : frames[i].signal # s
    /\ signals' = signals + 1
    /\ frames' = Append(frames, [signal |-> s, at |-> "lock"])
    /\ UNCHANGED <<pc, mainVars, reqVars, heldVars, user_stop, main_mutex, woken, kernelVars>>

HandlerAt(here) == frames # <<>> /\ Top.at = here

HandlerGoes(there) == frames' = [frames EXCEPT ![Len(frames)].at = there]

HandlerLocks ==
    /\ HandlerAt("lock")
    /\ ~main_mutex
    /\ main_mutex' = TRUE
    /\ user_stop' = TRUE
    /\ HandlerGoes("unlock")
    /\ UNCHANGED <<pc, mainVars, reqVars, heldVars, woken, signals, kernelVars>>

HandlerUnlocks ==
    /\ HandlerAt("unlock")
    /\ main_mutex' = FALSE
    /\ HandlerGoes("signal")
    /\ UNCHANGED <<pc, mainVars, reqVars, heldVars, user_stop, woken, signals, kernelVars>>

\* pthread_cond_signal wakes main if it sleeps, and nobody otherwise.
HandlerSignals ==
    /\ HandlerAt("signal")
    /\ frames' = SubSeq(frames, 1, Len(frames) - 1)
    /\ woken' = (woken \/ pc = "waiting")
    /\ UNCHANGED <<pc, mainVars, reqVars, heldVars, user_stop, main_mutex, signals, kernelVars>>

Handler == HandlerLocks \/ HandlerUnlocks \/ HandlerSignals

\* A cable is plugged or pulled.
Plug(c) ==
    /\ changes < MaxChanges
    /\ changes' = changes + 1
    /\ offers' \in {[offers EXCEPT ![c] = o] : o \in Offers \ {offers[c]}}
    /\ UNCHANGED <<pc, mainVars, reqVars, heldVars, signalVars, shown>>

Next ==
    \/ Main
    \/ Handler
    \/ \E s \in Signals : Deliver(s)
    \/ \E c \in Connectors : Plug(c)

\* The thread runs; and reading the resources does not fail for ever.
Fairness ==
    /\ WF_vars(Main)
    /\ WF_vars(Handler)
    /\ SF_vars(Fetch)

Spec == Init /\ [][Next]_vars /\ Fairness

-----------------------------------------------------------------------------
(* Properties.                                                             *)

TypeOK ==
    /\ pc \in {"open", "fetch", "find", "again", "request", "commit", "committed", "serve", "lock", "wait",
               "waiting", "unlock", "out", "exited", "crashed"}
    /\ connector_id \in Connectors \cup {None}
    /\ mode \in {None, "in_resources", "freed"}
    /\ ret \in {0, -1}
    /\ req \in {"none", "allocated"}
    /\ added \subseteq Properties
    /\ held \in Reads \cup {{}}
    /\ lost \subseteq Parts \cup {"blob"}
    /\ frames \in Seq([signal : Signals, at : {"lock", "unlock", "signal"}])
    /\ offers \in [Connectors -> Offers]
    /\ main_mutex \in BOOLEAN
    /\ main_mutex <=> pc \in {"wait", "unlock"} \/ \E i \in DOMAIN frames : frames[i].at = "unlock"

\* From the search to the commit, the mode main uses lies in the resources it
\* holds, however often they were read again meanwhile.
ModeFromLive == pc \in {"request", "commit"} => mode = "in_resources" /\ held # {}

\* What free_resources knows of is never lost, and at the end nothing is held
\* nor the device open.
FreedInTime ==
    /\ lost \subseteq Unfreed(Parts) \cup {"blob"}
    /\ pc = "exited" => held = {} /\ ~opened

\* A request outlives its commit only if that failed.
RequestFreed == req = "allocated" => pc \in {"commit", "committed", "crashed"} \/ ret = -1

\* Resources are read again and again while cables are plugged: what main uses is what
\* it holds, and lost are only the parts free_resources does not know of, the blob
\* of the mode and the request of a commit that failed.
ResourcesOwned == ModeFromLive /\ FreedInTime /\ RequestFreed

\* The exit code 0 of a program that was not stopped means that the mode is
\* shown, unless a property did not get into the request.
ExitCodeTells ==
    (pc = "exited" /\ ret = 0 /\ ~user_stop) => shown \/ added # Properties

\* The handler waits for the mutex of the thread it interrupts.
Stuck == HandlerAt("lock") /\ main_mutex

\* The signal came while main was not in pthread_cond_wait, which now sleeps
\* until the next one.
Missed == user_stop /\ pc = "waiting" /\ ~woken /\ frames = <<>>

\* A user who stops the program sees it end; the two ways in which it does not
\* are a handler that meets a locked mutex and a signal before the wait.
StopHonoured == user_stop ~> (pc \in {"exited", "crashed"} \/ Stuck \/ Missed)

\* A mode that appears on the chosen connector is found, however late.
HotplugFound ==
    (<>[](connector_id # None /\ offers[connector_id] = "the_mode"))
        => <>(pc \notin {"open", "fetch", "find", "again"} \/ Stuck)
=============================================================================
