--------------------------- MODULE WesterosSettings ---------------------------
(***************************************************************************)
(* westeros_settings.c: the setters as messages to the westeros compositor,*)
(* sent by a console program that popen starts; and weston_settings.c,     *)
(* where the setters are still to be developed.                            *)
(***************************************************************************)
EXTENDS DisplayCalls

\* A setter that looks up the connector or crtc and the property's name first.
Property(asked) == [Idle EXCEPT !.kind = "message", !.at = "lookup", !.asked = asked]

\* Two setters send the message and do not look at the result.
Careless(asked) == [Property(asked) EXCEPT !.kind = "careless"]

\* A message that is no property has nothing to look up.
Message == [Idle EXCEPT !.kind = "message", !.at = "directory", !.asked = Alone]

\* The HDR policy goes out as the caller gave it.
HdrSent(policy) == Hdr(policy, IF policy = "force" THEN "bt709" ELSE "unknown")

setDisplayHDCPEnable(t) == Begin(t, Property(Alone))
setDisplayAVMute(t) == Begin(t, Property(Alone))
setDisplayHDCPContentType(t) == Begin(t, Property(Alone))
setDisplayDvEnable(t) == Begin(t, Property(Alone))
setDisplayActive(t) == Begin(t, Property(Alone))
setDisplayVrrEnabled(t) == Begin(t, Property(Alone))
setDisplayAspectRatioValue(t) == Begin(t, Property(Alone))
setDisplayColorSpacedDepth(t) == \E pair \in Pairs : Begin(t, Careless(Colors(pair)))
setDisplayHDRPolicy(t) == \E policy \in Policies : Begin(t, Property(HdrSent(policy)))
setDisplayDvMode(t) == Begin(t, Careless(Alone))

\* It has no return statement: what it returns is whatever was there.
setDisplayCvbsAVMute(t) ==
    \E r \in {0, -1} : Begin(t, [Careless(Alone) EXCEPT !.kind = "no_return", !.ret = r])

setDisplayMode(t) == Begin(t, [Idle EXCEPT !.at = "return"]) \/ Begin(t, Message)
setDisplayAutoMode(t) == Begin(t, Message)
setDisplayScaling(t) == Begin(t, Message)
setDisplayEnabled(t) == Begin(t, Message)

\* The getters that westeros answers.
Question(t) ==
    \/ Begin(t, [Idle EXCEPT !.at = "return"])
    \/ Begin(t, [Message EXCEPT !.kind = "question", !.asked = Nothing])
getDisplayScaling(t) == Question(t)
getDisplayEnabled(t) == Question(t)
getDisplayIsBestMode(t) == Question(t)

Setter(t) ==
    /\ backend = "westeros"
    /\ \/ setDisplayHDCPEnable(t) \/ setDisplayAVMute(t) \/ setDisplayHDCPContentType(t)
       \/ setDisplayDvEnable(t) \/ setDisplayActive(t) \/ setDisplayVrrEnabled(t)
       \/ setDisplayAspectRatioValue(t) \/ setDisplayColorSpacedDepth(t) \/ setDisplayHDRPolicy(t)
       \/ setDisplayDvMode(t) \/ setDisplayCvbsAVMute(t)
       \/ setDisplayMode(t) \/ setDisplayAutoMode(t) \/ setDisplayScaling(t) \/ setDisplayEnabled(t)
       \/ getDisplayScaling(t) \/ getDisplayEnabled(t) \/ getDisplayIsBestMode(t)

\* weston: every setter returns 0.
Unimplemented(t) ==
    /\ backend = "weston"
    /\ Begin(t, [Idle EXCEPT !.kind = "unimplemented", !.at = "return", !.ret = 0])

-----------------------------------------------------------------------------
(* The steps of a setter.                                                  *)

Ends(t, c, r) ==
    Goes(t, Returned([c EXCEPT !.ret = IF c.kind = "careless" THEN 0 ELSE IF c.kind = "no_return" THEN c.ret ELSE r]))

\* There is no such connector, or no name for the property.
LookupFails(t) ==
    LET c == call[t] IN
    /\ At(t, "lookup")
    /\ Goes(t, Returned(c))
    /\ UNCHANGED <<backend, descriptors, master, failedEarly, display, listening, present, calls>>

Lookup(t) ==
    /\ At(t, "lookup")
    /\ Goes(t, [call[t] EXCEPT !.at = "directory"])
    /\ UNCHANGED <<backend, descriptors, master, failedEarly, display, listening, present, calls>>

\* wstDisplaySendMessage starts with the directory of the environment, if any.
Directory(t) ==
    /\ At(t, "directory")
    /\ \E dir \in Dirs : Goes(t, [call[t] EXCEPT !.at = "send", !.dir = dir])
    /\ UNCHANGED <<backend, descriptors, master, failedEarly, display, listening, present, calls>>

\* The console's answer to a message that was done begins with 0.
Send(t) ==
    LET c == call[t] IN
    /\ At(t, "send")
    /\ c.dir = listening
    /\ display' = Applied(c.asked)
    /\ Ends(t, [c EXCEPT !.applied = TRUE], 0)
    /\ UNCHANGED <<backend, descriptors, master, failedEarly, listening, present, calls>>

\* Mutant: the second directory is tried, and what comes of it is not looked at.
SendFailsOnce(t) ==
    LET c == call[t] IN
    /\ At(t, "send")
    /\ \/ UNCHANGED display
       \/ c.dir = listening /\ display' = Applied(c.asked)
    /\ IF c.dir = "default" THEN Ends(t, c, 0) ELSE Goes(t, [c EXCEPT !.dir = "default"])
    /\ UNCHANGED <<backend, descriptors, master, failedEarly, listening, present, calls>>

\* The console cannot be started or gives no such answer, whether or not the
\* message was done; then it is sent once more, to the default directory.
SendFails(t) ==
    LET c == call[t] IN
    /\ At(t, "send")
    /\ \/ UNCHANGED display
       \/ c.dir = listening /\ display' = Applied(c.asked)
    /\ IF c.dir = "default" THEN Ends(t, c, -1) ELSE Goes(t, [c EXCEPT !.dir = "default"])
    /\ UNCHANGED <<backend, descriptors, master, failedEarly, listening, present, calls>>

Step(t) ==
    \/ LookupFails(t) \/ Lookup(t) \/ Directory(t)
    \/ Send(t) \/ SendFails(t)
=============================================================================
