------------------------------ MODULE OutputSet ------------------------------
(***************************************************************************)
(* What the DRM helper keeps about weston's outputs: which ones there are, *)
(* which of them are enabled, and which ones the last mode switch was      *)
(* applied to.                                                             *)
(***************************************************************************)
CONSTANTS Outputs, NoOutput, Legacy

VARIABLES known, enabled, switched

vars == <<known, enabled, switched>>

Init == known = {} /\ enabled = {} /\ switched = {}

\* newer takes the place of older; either may be absent.  It starts disabled,
\* and all others stay as they are.
Update(older, newer) ==
    /\ older # newer
    /\ known' = ((known \ {older}) \cup {newer}) \ {NoOutput}
    /\ enabled' = enabled \ {older, newer}
    /\ switched' = switched

Enable(o) ==
    /\ enabled' = enabled \cup ({o} \cap known)
    /\ UNCHANGED <<known, switched>>

Disable(o) ==
    /\ enabled' = enabled \ {o}
    /\ UNCHANGED <<known, switched>>

\* A mode switch goes to every enabled output, or to the one registered with
\* the switch function while no output is known.
SwitchMode ==
    /\ switched' = IF known # {} THEN enabled ELSE {Legacy} \ {NoOutput}
    /\ UNCHANGED <<known, enabled>>

Next ==
    \/ \E older, newer \in Outputs \cup {NoOutput} : Update(older, newer)
    \/ \E o \in Outputs : Enable(o) \/ Disable(o)
    \/ SwitchMode

Spec == Init /\ [][Next]_vars
=============================================================================
