--------------------------- MODULE DisplaySettings ---------------------------
(***************************************************************************)
(* The display settings interface as one process uses it: the getters, and *)
(* the setters of the implementation it was linked with.                   *)
(***************************************************************************)
EXTENDS DisplayCalls

CONSTANTS ModeLists, Limits, MaxChecks

\* A display has at least one colour to try, and its modes have an area.
ASSUME SettingsAssumption ==
    /\ MaxChecks \in Nat \ {0}
    /\ ModeLists \subseteq Seq([area : Nat \ {0}, vrefresh : Nat])
    /\ Limits \subseteq Nat

Meson == INSTANCE MesonSettings
Westeros == INSTANCE WesterosSettings
Attributes == INSTANCE DisplayAttributes

Next ==
    /\ ~Crashed
    /\ \/ Compositor
       \/ \E t \in Callers :
             \/ Meson!Setter(t) \/ Meson!Step(t)
             \/ Westeros!Setter(t) \/ Westeros!Unimplemented(t) \/ Westeros!Step(t)
             \/ Attributes!Getter(t) \/ Attributes!Step(t)
             \/ Return(t)

Spec == Init /\ [][Next]_vars

-----------------------------------------------------------------------------
(* Properties.                                                             *)

Kinds == {"none", "open_first", "alloc_first", "direct", "mode", "dummy", "auto", "attr", "message",
          "careless", "no_return", "question", "unimplemented", "get", "get_nothing", "get_and_keep", "list"}

TypeOK ==
    /\ backend \in {"meson", "westeros", "weston"}
    /\ descriptors \in [Fds -> Callers \cup {Free, Std, Leaked}]
    /\ master \in Fds \cup {None, Peer}
    /\ failedEarly \in BOOLEAN
    /\ DOMAIN display = {"hdr_policy", "force_mode", "depth", "space"}
    /\ DOMAIN call = Callers
    /\ \A t \in Callers : LET c == call[t] IN
          /\ c.kind \in Kinds
          /\ c.fd \in Fds \cup {-1}
          /\ c.nested \in Fds \cup {-1}
          /\ c.put \in {None, Nothing, c.asked}
          /\ c.ret \in {0, -1}
          /\ c.count \in 0 .. (IF c.kind = "list" THEN MaxChecks ELSE Meson!MAX_RETRY)

\* The force mode is BT709 when and only when the HDR policy is to follow it, and
\* the colour depth and space shown are those of one call, whatever setters run at
\* the same time.
SettingsWhole ==
    /\ display["hdr_policy"] = "force" <=> display["force_mode"] = "bt709"
    /\ \E pair \in Pairs : Colors(<<display["depth"], display["space"]>>)
                               \in {Colors(pair), Meson!ColorsAsked(pair)}

\* The setters that return 0 although nothing was set: those of weston, the two of
\* westeros that do not look at the answer, the one that returns nothing, and
\* setDisplayMode for a connector that is not there.
SaysMoreThanItDid(c) ==
    \/ c.kind \in {"unimplemented", "careless", "no_return"}
    \/ c.kind = "mode" /\ c.put = Nothing

\* A setter that returns 0 has had its change made: by the kernel on a descriptor
\* that was its own and master, or by the compositor.
SuccessMeansSet ==
    \A t \in Callers : LET c == call[t] IN
        (c.at = "return" /\ c.ret = 0) => c.applied \/ SaysMoreThanItDid(c)

\* The calls that have a device open.
Holds(t) == {call[t].fd, call[t].nested} \ {-1}

\* Unless a setter failed before it opened the device, and closed descriptor 0
\* instead: nobody closes what another one opened, nothing stays open but for the
\* getters that forget it, and whatever stays open is not master.
DescriptorsKept ==
    failedEarly
    \/ /\ descriptors[0] = Std
       /\ \A t \in Callers : {d \in Fds : descriptors[d] = t} = Holds(t) \ {0}
       /\ master \in Fds => descriptors[master] \in Callers

\* The mode chosen is within the limit, none within it is larger, and none as large
\* is faster; and none is chosen only if none is within the limit.
AutoModeBest ==
    \A t \in Callers : (call[t].kind = "auto" /\ call[t].at = "fill") =>
        \A modes \in ModeLists, maxArea \in Limits :
            LET fits == {i \in DOMAIN modes : maxArea = 0 \/ modes[i].area <= maxArea}
                best == Meson!BestMode(modes, maxArea)
            IN  IF best = 0 THEN fits = {}
                ELSE /\ best \in fits
                     /\ \A i \in fits : \/ modes[i].area < modes[best].area
                                        \/ /\ modes[i].area = modes[best].area
                                           /\ modes[i].vrefresh <= modes[best].vrefresh
=============================================================================
