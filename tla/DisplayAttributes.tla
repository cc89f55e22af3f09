-------------------------- MODULE DisplayAttributes --------------------------
(***************************************************************************)
(* display_attribute.c: the getters.  Each opens the device, drops master, *)
(* asks the library, and closes the device; what it answers is left out.   *)
(***************************************************************************)
EXTENDS DisplayCalls

CONSTANTS
    MaxChecks       \* bound: colours getDisplaySupportAttrList tries, 12 in the code

Query == [Idle EXCEPT !.kind = "get", !.at = "get_open"]

\* A getter with an output pointer, which may be NULL.
QueryInto(t) == Begin(t, [Idle EXCEPT !.at = "return"]) \/ Begin(t, Query)

getDisplayHdcpAuthStatus(t) == Begin(t, Query)
getDisplayColorSpace(t) == Begin(t, Query)
getDisplayColorDepth(t) == Begin(t, Query)
getDisplayConnectionStatus(t) == Begin(t, Query)
getDisplayHdcpVersion(t) == Begin(t, Query)
getDisplayMode(t) == QueryInto(t)
getDisplayHDRPolicy(t) == Begin(t, Query)
getDisplayModesList(t) == QueryInto(t)
getDisplayHDCPContentType(t) == Begin(t, Query)
getDisplayContentType(t) == Begin(t, Query)
getDisplayDvEnable(t) == Begin(t, Query)
getDisplayActive(t) == Begin(t, Query)
getDisplayVrrEnabled(t) == Begin(t, Query)
getDisplayAVMute(t) == Begin(t, Query)
getDisplayHdrStatus(t) == Begin(t, Query)
getDisplayFracRatePolicy(t) == Begin(t, Query)
getDisplaySupportedDvMode(t) == Begin(t, Query)
getDisplayHDRSupportList(t) == Begin(t, Query)
getDisplayDvCap(t) == Begin(t, Query)
getDisplayDpmsStatus(t) == Begin(t, Query)
getDisplayFrameRate(t) == Begin(t, Query)
getDisplayPlaneSize(t) == QueryInto(t)
getDisplayPhysicalSize(t) == QueryInto(t)
getDisplayDvMode(t) == Begin(t, Query)
getDisplaySignalTimingInfo(t) == QueryInto(t)
getDisplayCvbsAVMute(t) == Begin(t, Query)
getDisplayRxSupportedHdcpVersion(t) == Begin(t, Query)

\* The library opens the device itself.
getDisplayPreferMode(t) == Begin(t, [Idle EXCEPT !.at = "return"])

\* The pointers are looked at when the device is already open.
getDisplayEDIDData(t) == Begin(t, Query) \/ Begin(t, [Query EXCEPT !.kind = "get_nothing"])

\* It does not close the device.
getDisplayAspectRatioValue(t) == Begin(t, [Query EXCEPT !.kind = "get_and_keep"])

\* It asks for the mode, and then for each colour in turn.
getDisplaySupportAttrList(t) ==
    \/ Begin(t, [Idle EXCEPT !.at = "return"])
    \/ Begin(t, [Query EXCEPT !.kind = "list"])

Getter(t) ==
    \/ getDisplayHdcpAuthStatus(t) \/ getDisplayColorSpace(t) \/ getDisplayColorDepth(t)
    \/ getDisplayConnectionStatus(t) \/ getDisplayHdcpVersion(t) \/ getDisplayMode(t)
    \/ getDisplayHDRPolicy(t) \/ getDisplayModesList(t) \/ getDisplayHDCPContentType(t)
    \/ getDisplayContentType(t) \/ getDisplayDvEnable(t) \/ getDisplayActive(t)
    \/ getDisplayVrrEnabled(t) \/ getDisplayAVMute(t) \/ getDisplayHdrStatus(t)
    \/ getDisplayFracRatePolicy(t) \/ getDisplaySupportedDvMode(t) \/ getDisplayHDRSupportList(t)
    \/ getDisplayDvCap(t) \/ getDisplayDpmsStatus(t) \/ getDisplayFrameRate(t)
    \/ getDisplayPlaneSize(t) \/ getDisplayPhysicalSize(t) \/ getDisplayDvMode(t)
    \/ getDisplaySignalTimingInfo(t) \/ getDisplayCvbsAVMute(t) \/ getDisplayRxSupportedHdcpVersion(t)
    \/ getDisplayPreferMode(t) \/ getDisplayEDIDData(t) \/ getDisplayAspectRatioValue(t)
    \/ getDisplaySupportAttrList(t)

-----------------------------------------------------------------------------
(* The steps of a getter.                                                  *)

\* Mutant: the getter stays master.
OpenStaysMaster(t) ==
    LET c == call[t] IN
    /\ c.at \in {"get_open", "check"}
    /\ \E d \in Fds \cup {-1} :
          /\ Opens(t, d)
          /\ Goes(t, IF c.at = "check" THEN [c EXCEPT !.nested = d, !.at = "ioctl"]
                                       ELSE [c EXCEPT !.fd = d, !.at = "query"])
    /\ UNCHANGED <<backend, failedEarly, display, listening, present, calls>>

\* Opening may make the getter master, and drmDropMaster undoes that.
display_meson_get_open(t) ==
    LET c == call[t] IN
    /\ c.at \in {"get_open", "check"}
    /\ \E d \in Fds \cup {-1} :
          /\ OpensAs(t, d, master)
          /\ Goes(t, IF c.at = "check" THEN [c EXCEPT !.nested = d, !.at = "ioctl"]
                                       ELSE [c EXCEPT !.fd = d, !.at = "query"])
    /\ UNCHANGED <<backend, failedEarly, display, listening, present, calls>>

\* The getter returns and leaves the device open.
Keeps(t, c) ==
    /\ descriptors' = [d \in Fds |-> IF d = c.fd /\ descriptors[d] = t THEN Leaked ELSE descriptors[d]]
    /\ Goes(t, Returned(c))
    /\ UNCHANGED master

Ask(t) ==
    LET c == call[t] IN
    /\ At(t, "query")
    /\ IF c.kind \in {"get_nothing", "get_and_keep"} THEN Keeps(t, c)
       ELSE /\ Goes(t, [c EXCEPT !.at = IF c.kind = "list" THEN "check" ELSE "get_close"])
            /\ UNCHANGED <<descriptors, master>>
    /\ UNCHANGED <<backend, failedEarly, display, listening, present, calls>>

\* Without the mode, getDisplaySupportAttrList returns as it is.
AskFails(t) ==
    /\ At(t, "query")
    /\ call[t].kind = "list"
    /\ Keeps(t, call[t])
    /\ UNCHANGED <<backend, failedEarly, display, listening, present, calls>>

\* Mutant: one colour too many is tried.
CheckedOnceMore(c, supported) ==
    IF c.kind = "attr" THEN IF supported THEN [c EXCEPT !.nested = -1, !.at = "open"] ELSE Returned(c)
    ELSE [c EXCEPT !.nested = -1, !.count = c.count + 1,
                   !.at = IF c.count = MaxChecks THEN "get_close" ELSE "check"]

\* What modeAttrSupportedCheck's answer leads to in the caller.
Checked(c, supported) ==
    IF c.kind = "attr" THEN IF supported THEN [c EXCEPT !.nested = -1, !.at = "open"] ELSE Returned(c)
    ELSE [c EXCEPT !.nested = -1, !.count = c.count + 1,
                   !.at = IF c.count + 1 = MaxChecks THEN "get_close" ELSE "check"]

\* modeAttrSupportedCheck, which opens and closes the device for itself, and needs
\* it only for a connector it knows.
modeAttrSupportedCheck(t) ==
    LET c == call[t] IN
    /\ c.at \in {"check", "ioctl"}
    /\ \E supported \in BOOLEAN :
          /\ supported => c.at = "ioctl" /\ Usable(c.nested)
          /\ Goes(t, Checked(c, supported))
    /\ Closes(c.nested)
    /\ UNCHANGED <<backend, failedEarly, display, listening, present, calls>>

GetClose(t) ==
    LET c == call[t] IN
    /\ At(t, "get_close")
    /\ Closes(c.fd)
    /\ Goes(t, Returned(c))
    /\ UNCHANGED <<backend, failedEarly, display, listening, present, calls>>

Step(t) ==
    \/ display_meson_get_open(t)
    \/ Ask(t) \/ AskFails(t) \/ modeAttrSupportedCheck(t)
    \/ GetClose(t)
=============================================================================
