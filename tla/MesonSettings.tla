---------------------------- MODULE MesonSettings ----------------------------
(***************************************************************************)
(* meson_settings.c: the setters over libdrm_meson.  Each opens the device,*)
(* puts properties into an atomic request, commits it, and frees and closes*)
(* what it took, on every way out.                                         *)
(***************************************************************************)
EXTENDS DisplayCalls

CONSTANTS
    ModeLists,      \* lists of modes a display offers, for the automatic choice
    Limits          \* areas of MESON_DISPLAY_MAX_MODE; 0 is none

MAX_RETRY == 3

\* What a setter's variables hold when it starts: most open the device first,
\* those that allocate the request first have 0 in fd until they open.
OpenFirst(asked) == [Idle EXCEPT !.kind = "open_first", !.at = "open", !.asked = asked]
AllocFirst(asked) == [Idle EXCEPT !.kind = "alloc_first", !.at = "alloc", !.fd = 0, !.asked = asked]

\* The HDR policy in the library's terms, and the force mode that goes with it.
HdrAsked(policy) ==
    Hdr(IF policy = "other" THEN "source" ELSE policy, IF policy = "force" THEN "bt709" ELSE "unknown")

\* A colour space outside the enum becomes the reserved one.
ColorsAsked(pair) == Colors(<<pair[1], IF pair[2] = "other" THEN "reserved" ELSE pair[2]>>)

setDisplayHDCPEnable(t) == Begin(t, OpenFirst(Alone))
setDisplayAVMute(t) == Begin(t, OpenFirst(Alone))
setDisplayHDCPContentType(t) == Begin(t, OpenFirst(Alone))
setDisplayDvEnable(t) == Begin(t, OpenFirst(Alone))
setDisplayActive(t) == Begin(t, OpenFirst(Alone))
setDisplayVrrEnabled(t) == Begin(t, OpenFirst(Alone))
setDisplayBackGroundColor(t) == Begin(t, OpenFirst(Alone))
setDisplayDvMode(t) == Begin(t, OpenFirst(Alone))
setDisplayCvbsAVMute(t) == Begin(t, OpenFirst(Alone))

setDisplayColorSpacedDepth(t) == \E pair \in Pairs : Begin(t, OpenFirst(ColorsAsked(pair)))

setDisplayHDRPolicy(t) == \E policy \in Policies : Begin(t, AllocFirst(HdrAsked(policy)))

setDisplayAspectRatioValue(t) == Begin(t, AllocFirst(Alone))

\* These two let the library make the change on the descriptor.
Direct == [Idle EXCEPT !.kind = "direct", !.at = "open", !.asked = Alone]
setDisplayVideoZorder(t) == Begin(t, Direct)
setDisplayPlaneMute(t) == Begin(t, Direct)

\* No mode: the text of a log message reads it before it is looked at, which the
\* process may not survive.
NoMode(t) ==
    \/ Begin(t, [Idle EXCEPT !.at = "return"])
    \/ Begin(t, [Idle EXCEPT !.at = "crashed"])

\* setDisplayMode; a connector of type DUMMY has a mode to fall back on.
setDisplayMode(t) ==
    \/ NoMode(t)
    \/ \E kind \in {"mode", "dummy"} :
          Begin(t, [Idle EXCEPT !.kind = kind, !.at = "open", !.asked = Alone])

setDisplayAutoMode(t) == Begin(t, [Idle EXCEPT !.kind = "auto", !.at = "open", !.asked = Alone])

\* The mode and its colours are looked up before anything is opened; a colour
\* space outside the enum is refused there.
setDisplayModeAttr(t) ==
    \/ Begin(t, [Idle EXCEPT !.at = "return"])
    \/ \E pair \in {p \in Pairs : p[2] # "other"} :
          Begin(t, [Idle EXCEPT !.kind = "attr", !.at = "check", !.asked = Both(Alone, Colors(pair))])

setDisplayFunctionAttribute(t) ==
    \/ NoMode(t)
    \/ \E policy \in Policies, pair \in Pairs :
          Begin(t, OpenFirst(Both(Alone, Both(HdrAsked(policy), ColorsAsked(pair)))))

Setter(t) ==
    /\ backend = "meson"
    /\ \/ setDisplayHDCPEnable(t) \/ setDisplayAVMute(t) \/ setDisplayHDCPContentType(t)
       \/ setDisplayDvEnable(t) \/ setDisplayActive(t) \/ setDisplayVrrEnabled(t)
       \/ setDisplayBackGroundColor(t) \/ setDisplayDvMode(t) \/ setDisplayCvbsAVMute(t)
       \/ setDisplayColorSpacedDepth(t) \/ setDisplayHDRPolicy(t) \/ setDisplayAspectRatioValue(t)
       \/ setDisplayVideoZorder(t) \/ setDisplayPlaneMute(t)
       \/ setDisplayMode(t) \/ setDisplayAutoMode(t) \/ setDisplayModeAttr(t)
       \/ setDisplayFunctionAttribute(t)

-----------------------------------------------------------------------------
(* The mode setDisplayAutoMode chooses: its place in the list, or 0.       *)

\* Mutant: a larger mode does not bring its own refresh rate.
BetterKeepsRefresh(modes, maxArea, best, i) ==
    LET m == modes[i] IN
    IF m.area > best.area /\ (maxArea = 0 \/ m.area <= maxArea)
    THEN [at |-> i, area |-> m.area, vrefresh |-> best.vrefresh]
    ELSE IF m.area = best.area /\ m.vrefresh > best.vrefresh
    THEN [at |-> i, area |-> m.area, vrefresh |-> m.vrefresh]
    ELSE best

Better(modes, maxArea, best, i) ==
    LET m == modes[i] IN
    IF \/ m.area > best.area /\ (maxArea = 0 \/ m.area <= maxArea)
       \/ m.area = best.area /\ m.vrefresh > best.vrefresh
    THEN [at |-> i, area |-> m.area, vrefresh |-> m.vrefresh]
    ELSE best

BestMode(modes, maxArea) ==
    LET best[n \in 0 .. Len(modes)] ==
            IF n = 0 THEN [at |-> 0, area |-> 0, vrefresh |-> 0]
            ELSE Better(modes, maxArea, best[n - 1], n)
    IN best[Len(modes)].at

\* Whether the choice may find no mode at all.
NoneFits == {BestMode(modes, maxArea) = 0 : modes \in ModeLists, maxArea \in Limits}

-----------------------------------------------------------------------------
(* The steps of a setter.                                                  *)

\* On the way out only the result matters, and whether the request was empty.
Out(c, r) == [c EXCEPT !.at = "close", !.ret = r, !.applied = (r = 0 /\ c.put # Nothing), !.asked = Nothing,
                       !.put = IF c.put = Nothing THEN Nothing ELSE None]

\* display_meson_set_open; what it fails to do is only written to the log.
display_meson_set_open(t) ==
    LET c == call[t] IN
    /\ At(t, "open")
    /\ \E d \in Fds \cup {-1} :
          /\ Opens(t, d)
          /\ Goes(t, [c EXCEPT !.fd = d, !.at = IF c.kind \in {"direct", "alloc_first"} THEN "fill"
                                                ELSE "alloc"])
    /\ UNCHANGED <<backend, failedEarly, display, listening, present, calls>>

\* drmModeAtomicAlloc; only setDisplayAutoMode goes on without a request.
Alloc(t) ==
    LET c == call[t] IN
    /\ At(t, "alloc")
    /\ \/ /\ Goes(t, [c EXCEPT !.put = Nothing, !.at = IF c.kind = "alloc_first" THEN "open" ELSE "fill"])
          /\ UNCHANGED failedEarly
       \/ /\ Goes(t, IF c.kind = "auto" THEN [c EXCEPT !.at = "fill"] ELSE Out(c, -1))
          /\ failedEarly' = (failedEarly \/ c.kind = "alloc_first")
    /\ UNCHANGED <<backend, descriptors, master, display, listening, present, calls>>

\* The library puts the properties into the request.
Fill(t) ==
    LET c == call[t] IN
    /\ At(t, "fill")
    /\ c.kind # "direct"
    /\ c.put # None
    /\ Usable(c.fd)
    /\ c.kind = "auto" => FALSE \in NoneFits
    /\ Goes(t, [c EXCEPT !.put = c.asked, !.at = IF c.kind \in {"mode", "dummy"} THEN "master" ELSE "commit"])
    /\ UNCHANGED <<backend, descriptors, master, failedEarly, display, listening, present, calls>>

\* Mutant: the setter commits what got into the request.
FillFailsGoesOn(t) ==
    /\ At(t, "fill")
    /\ call[t].kind # "direct"
    /\ Goes(t, [call[t] EXCEPT !.at = "commit"])
    /\ UNCHANGED <<backend, descriptors, master, failedEarly, display, listening, present, calls>>

\* It does not, and the setter gives up, but for setDisplayMode: it goes on with
\* what the request holds, which is nothing.
FillFails(t) ==
    LET c == call[t] IN
    /\ At(t, "fill")
    /\ c.kind # "direct"
    /\ Goes(t, IF c.kind = "mode" THEN [c EXCEPT !.at = "master"] ELSE Out(c, -1))
    /\ UNCHANGED <<backend, descriptors, master, failedEarly, display, listening, present, calls>>

\* No mode of the list is within the limit, and the one before the first is used.
FillFromNowhere(t) ==
    LET c == call[t] IN
    /\ At(t, "fill")
    /\ c.kind = "auto"
    /\ TRUE \in NoneFits
    /\ Usable(c.fd)
    /\ \/ Goes(t, [c EXCEPT !.at = "crashed"])
       \/ c.put # None /\ Goes(t, [c EXCEPT !.put = c.asked, !.at = "commit"])
    /\ UNCHANGED <<backend, descriptors, master, failedEarly, display, listening, present, calls>>

\* setDisplayVideoZorder and setDisplayPlaneMute.
SetDirectly(t) ==
    LET c == call[t] IN
    /\ At(t, "fill")
    /\ c.kind = "direct"
    /\ \/ Usable(c.fd) /\ master = c.fd /\ Goes(t, Out(c, 0))
       \/ Goes(t, Out(c, -1))
    /\ UNCHANGED <<backend, descriptors, master, failedEarly, display, listening, present, calls>>

\* drmIsMaster is false only for an open descriptor that is not master.
IsMaster(d) == master = d \/ ~Usable(d)

\* The loop that waits to be master ends when drmSetMaster fails; when it succeeds
\* the loop sleeps and looks again.
BecomeMaster(t) ==
    LET c == call[t] IN
    /\ At(t, "master")
    /\ \/ /\ IsMaster(c.fd)
          /\ Goes(t, [c EXCEPT !.at = "commit"])
          /\ UNCHANGED master
       \/ /\ ~IsMaster(c.fd)
          /\ Goes(t, [c EXCEPT !.at = "commit"])
          /\ UNCHANGED master
       \/ /\ ~IsMaster(c.fd)
          /\ master = None
          /\ master' = c.fd
          /\ Goes(t, IF c.count + 1 = MAX_RETRY THEN Out(c, -1) ELSE [c EXCEPT !.count = c.count + 1])
    /\ UNCHANGED <<backend, descriptors, failedEarly, display, listening, present, calls>>

\* drmModeAtomicCommit takes an empty request for done, whatever the descriptor.
Commit(t) ==
    LET c == call[t] IN
    /\ At(t, "commit")
    /\ c.put # None
    /\ c.put = Nothing \/ (Usable(c.fd) /\ master = c.fd)
    /\ display' = Applied(c.put)
    /\ Goes(t, Out(c, 0))
    /\ UNCHANGED <<backend, descriptors, master, failedEarly, listening, present, calls>>

CommitFails(t) ==
    /\ At(t, "commit")
    /\ call[t].put # Nothing
    /\ Goes(t, Out(call[t], -1))
    /\ UNCHANGED <<backend, descriptors, master, failedEarly, display, listening, present, calls>>

\* Mutant: only a setter that succeeded closes the device.
CloseOnSuccess(t) ==
    LET c == call[t] IN
    /\ At(t, "close")
    /\ Closes(IF c.ret = 0 THEN c.fd ELSE -1)
    /\ Goes(t, Returned(c))
    /\ UNCHANGED <<backend, failedEarly, display, listening, present, calls>>

\* out: the request is freed and the device closed.
Close(t) ==
    LET c == call[t] IN
    /\ At(t, "close")
    /\ Closes(c.fd)
    /\ Goes(t, Returned(c))
    /\ UNCHANGED <<backend, failedEarly, display, listening, present, calls>>

Step(t) ==
    \/ display_meson_set_open(t) \/ Alloc(t)
    \/ Fill(t) \/ FillFails(t) \/ FillFromNowhere(t) \/ SetDirectly(t)
    \/ BecomeMaster(t)
    \/ Commit(t) \/ CommitFails(t)
    \/ Close(t)
=============================================================================
