---------------------------- MODULE DisplayCalls ----------------------------
(***************************************************************************)
(* What the calls of the display settings interface share: the threads of  *)
(* one process that make them, its descriptors, the master of the DRM      *)
(* device, and the properties of the display that only make sense in pairs.*)
(* The process is linked with one of three implementations of the setters. *)
(***************************************************************************)
EXTENDS Integers, Sequences, FiniteSets

CONSTANTS
    Callers,        \* the threads
    MaxFd,          \* bound: the descriptors are 0 .. MaxFd; 0 is open at first
    MaxCalls,       \* bound: calls made
    Pairs,          \* <<colour depth, colour space>> as callers give them
    Policies,       \* HDR policies callers give; "other" is none of the enum's
    None,           \* nobody, or no request
    Peer            \* the compositor, when it is master

ASSUME CallsAssumption ==
    /\ MaxFd \in Nat
    /\ MaxCalls \in Nat
    /\ Policies \subseteq {"sink", "source", "force", "other"}
    /\ Pairs # {}
    /\ None \notin Callers
    /\ {None, Peer} \cap (0 .. MaxFd) = {}
    /\ Callers \cap {"free", "std", "leaked"} = {}
    /\ None # [p \in {} |-> 0]

VARIABLES
    backend,        \* the implementation of the setters
    call,           \* the call each thread is in
    descriptors,    \* who opened each descriptor
    master,         \* the descriptor that is master, the compositor, or nobody
    failedEarly,    \* an allocation failed before the device was opened
    display,        \* the paired properties, as the display has them
    listening,      \* the runtime directory of the westeros compositor
    present,        \* whether there is a device to open
    calls           \* how many calls were made

vars == <<backend, call, descriptors, master, failedEarly, display, listening, present, calls>>

Fds == 0 .. MaxFd
Free == "free"
Std == "std"
Leaked == "leaked"
Dirs == {"default", "other"}

\* Properties to set, as a function of their names.
Nothing == [p \in {} |-> 0]

\* A property that stands alone: which one it is makes no difference.
Alone == [p \in {"alone"} |-> "given"]

Colors(pair) == [p \in {"depth", "space"} |-> IF p = "depth" THEN pair[1] ELSE pair[2]]

Hdr(policy, force) == [p \in {"hdr_policy", "force_mode"} |-> IF p = "hdr_policy" THEN policy ELSE force]

Both(f, g) == [p \in DOMAIN f \cup DOMAIN g |-> IF p \in DOMAIN f THEN f[p] ELSE g[p]]

Idle == [kind |-> "none", at |-> "idle", fd |-> -1, nested |-> -1, asked |-> Nothing, put |-> None,
         ret |-> -1, applied |-> FALSE, count |-> 0, dir |-> "default"]

Crashed == \E t \in Callers : call[t].at = "crashed"

At(t, here) == call[t].at = here

\* A call begins; what its local variables hold is given by c.
Begin(t, c) ==
    /\ At(t, "idle")
    /\ calls < MaxCalls
    /\ calls' = calls + 1
    /\ call' = [call EXCEPT ![t] = c]
    /\ UNCHANGED <<backend, descriptors, master, failedEarly, display, listening, present>>

\* A call ends: what it holds is forgotten, but for what it returns.
Returned(c) == [Idle EXCEPT !.kind = c.kind, !.at = "return", !.ret = c.ret, !.applied = c.applied,
                            !.put = IF c.put = Nothing THEN Nothing ELSE None]

Goes(t, c) == call' = [call EXCEPT ![t] = c]

Return(t) ==
    /\ At(t, "return")
    /\ Goes(t, Idle)
    /\ UNCHANGED <<backend, descriptors, master, failedEarly, display, listening, present, calls>>

-----------------------------------------------------------------------------
(* The kernel.                                                             *)

FreeFds == {d \in Fds : descriptors[d] = Free}

LowestFd == CHOOSE d \in FreeFds : \A e \in FreeFds : d <= e

\* Opening takes the lowest descriptor; it fails without a device, or without one
\* that is free.
OpensAs(t, d, newMaster) ==
    \/ /\ present /\ FreeFds # {}
       /\ d = LowestFd
       /\ descriptors' = [descriptors EXCEPT ![d] = t]
       /\ master' = newMaster
    \/ /\ ~present \/ FreeFds = {}
       /\ d = -1
       /\ UNCHANGED <<descriptors, master>>

\* The first to open the device becomes master.
Opens(t, d) == OpensAs(t, d, IF master = None THEN d ELSE master)

\* meson_close_drm, which closes whatever the number stands for.
Closes(d) ==
    IF d \in Fds
    THEN /\ descriptors' = [descriptors EXCEPT ![d] = Free]
         /\ master' = IF master = d THEN None ELSE master
    ELSE UNCHANGED <<descriptors, master>>

\* A library call on a descriptor can only succeed if it is open on the device.
Usable(d) == d \in Fds /\ descriptors[d] \in Callers

Applied(put) == [p \in DOMAIN display |-> IF p \in DOMAIN put THEN put[p] ELSE display[p]]

\* The compositor, another process, becomes master when nobody is, and drops it.
Compositor ==
    /\ \/ master = None /\ master' = Peer
       \/ master = Peer /\ master' = None
    /\ UNCHANGED <<backend, call, descriptors, failedEarly, display, listening, present, calls>>

Init ==
    /\ backend \in {"meson", "westeros", "weston"}
    /\ call = [t \in Callers |-> Idle]
    /\ descriptors = [d \in Fds |-> IF d = 0 THEN Std ELSE Free]
    /\ master = None
    /\ failedEarly = FALSE
    /\ display = Both(Hdr("source", "unknown"), Colors(CHOOSE pair \in Pairs : TRUE))
    /\ listening \in (IF backend = "westeros" THEN Dirs ELSE {"default"})
    /\ present \in BOOLEAN
    /\ calls = 0
=============================================================================
