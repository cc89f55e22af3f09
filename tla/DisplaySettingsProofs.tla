------------------------ MODULE DisplaySettingsProofs ------------------------
(***************************************************************************)
(* Proofs about the display settings interface, for any threads, any number*)
(* of descriptors and calls, any colours, HDR policies and modes.          *)
(***************************************************************************)
EXTENDS DisplaySettings, FiniteSetTheorems, TLAPS

-----------------------------------------------------------------------------
(* The inductive invariant.                                                *)

Places == {"idle", "return", "crashed", "open", "alloc", "fill", "master", "commit", "close",
           "lookup", "directory", "send", "get_open", "query", "check", "ioctl", "get_close"}

\* What callers ask for, as the setters put it.
Requests ==
    {Nothing, Alone}
    \cup {Colors(pair) : pair \in Pairs}
    \cup {Meson!ColorsAsked(pair) : pair \in Pairs}
    \cup {Both(Alone, Colors(pair)) : pair \in Pairs}
    \cup {Meson!HdrAsked(policy) : policy \in Policies}
    \cup {Westeros!HdrSent(policy) : policy \in Policies}
    \cup {Both(Alone, Both(Meson!HdrAsked(policy), Meson!ColorsAsked(pair))) :
             policy \in Policies, pair \in Pairs}

Calls == [kind : Kinds, at : Places, fd : Fds \cup {-1}, nested : Fds \cup {-1}, asked : Requests,
          put : Requests \cup {None}, ret : {0, -1}, applied : BOOLEAN, count : Nat, dir : Dirs]

TypeInv ==
    /\ backend \in {"meson", "westeros", "weston"}
    /\ call \in [Callers -> Calls]
    /\ descriptors \in [Fds -> Callers \cup {Free, Std, Leaked}]
    /\ master \in Fds \cup {None, Peer}
    /\ failedEarly \in BOOLEAN

\* How often a call has looked for the master, or for a colour.
CountOK(c) ==
    /\ c.kind # "list" => c.count \in 0 .. 2
    /\ c.kind = "list" => c.count \in 0 .. MaxChecks
    /\ (c.kind = "list" /\ c.at \in {"get_open", "query"}) => c.count = 0
    /\ (c.kind = "list" /\ c.at \in {"check", "ioctl"}) => c.count < MaxChecks
    /\ c.at \in {"check", "ioctl"} => c.kind \in {"attr", "list"}
    /\ c.at \in {"open", "alloc", "fill", "master"} => c.kind # "list"

\* A setter that commits an empty request can only be setDisplayMode, and one that
\* returns 0 has had its change made.
RequestOK(c) ==
    /\ c.put \in {None, Nothing, c.asked}
    /\ \/ c.at \in {"open", "alloc", "fill"}
       \/ c.at \in {"check", "ioctl"} /\ c.kind = "attr"
       => c.asked # Nothing
    /\ (c.at \in {"master", "commit"} /\ c.put = Nothing) => c.kind = "mode"
    /\ c.kind = "direct" => c.put = None /\ c.at # "alloc"
    /\ c.ret = 0 => \/ c.kind \in {"unimplemented", "careless", "no_return"}
                    \/ /\ c.at \in {"close", "return"}
                       /\ c.applied \/ (c.kind = "mode" /\ c.put = Nothing)

\* The places where a call has nothing open.
Empty(c) ==
    \/ c.at \in {"idle", "return", "lookup", "directory", "send", "get_open"}
    \/ c.at \in {"check", "ioctl"} /\ c.kind = "attr"

DeviceOK(c) ==
    /\ c.nested # -1 => c.at = "ioctl"
    /\ Empty(c) => c.fd = -1
    /\ c.at = "open" => c.fd \in {-1, 0}
    /\ (c.at = "alloc" /\ c.kind = "alloc_first") => c.fd = 0

CallOK(c) == CountOK(c) /\ RequestOK(c) /\ DeviceOK(c)

CallInv == \A t \in Callers : CallOK(call[t])

\* A call's own descriptors are those it holds; descriptor 0 is in fd only until a
\* setter that allocates first has opened the device.
Unopened(c) == c.kind = "alloc_first" /\ c.at \in {"alloc", "open"}

Kept(t) ==
    /\ \A d \in Fds : descriptors[d] = t <=> d # 0 /\ (d = call[t].fd \/ d = call[t].nested)
    /\ call[t].fd = 0 => Unopened(call[t])
    /\ call[t].nested # 0
    /\ call[t].nested \in Fds => call[t].nested # call[t].fd
    /\ (call[t].at = "query" /\ call[t].fd \in Fds) => master # call[t].fd

DescInv ==
    failedEarly
    \/ /\ descriptors[0] = Std
       /\ master \in Fds => descriptors[master] \in Callers
       /\ \A t \in Callers : Kept(t)

\* The properties that come in pairs, of a request or of the display.
HdrPaired(f) == f["hdr_policy"] = "force" <=> f["force_mode"] = "bt709"

OfOnePair(f) ==
    \E pair \in Pairs :
       /\ f["depth"] = pair[1]
       /\ f["space"] = pair[2] \/ (pair[2] = "other" /\ f["space"] = "reserved")

Fair(f) ==
    /\ "hdr_policy" \in DOMAIN f <=> "force_mode" \in DOMAIN f
    /\ "hdr_policy" \in DOMAIN f => HdrPaired(f)
    /\ "depth" \in DOMAIN f <=> "space" \in DOMAIN f
    /\ "depth" \in DOMAIN f => OfOnePair(f)

DisplayInv ==
    /\ DOMAIN display = {"hdr_policy", "force_mode", "depth", "space"}
    /\ Fair(display)

IInv == TypeInv /\ CallInv /\ DescInv /\ DisplayInv

-----------------------------------------------------------------------------
(* What callers ask for.                                                   *)

\* The shared definitions are the same through each instance.
LEMMA SameRequests ==
  /\ Meson!Alone = Alone /\ Westeros!Alone = Alone /\ Westeros!Nothing = Nothing
  /\ \A pair : Meson!Colors(pair) = Colors(pair) /\ Westeros!Colors(pair) = Colors(pair)
  /\ \A f, g : Meson!Both(f, g) = Both(f, g)
  /\ \A policy, force : Meson!Hdr(policy, force) = Hdr(policy, force)
  /\ \A policy, force : Westeros!Hdr(policy, force) = Hdr(policy, force)
BY Zenon DEF Meson!Alone, Westeros!Alone, Alone, Westeros!Nothing, Nothing, Meson!Colors, Westeros!Colors,
   Colors, Meson!Both, Both, Meson!Hdr, Westeros!Hdr, Hdr

\* Every request asks for both of two paired properties or for neither of them, and
\* for values that belong together.
LEMMA RequestsFair == \A r \in Requests : Fair(r)
<1>1. Fair(Nothing)
  BY DEF Fair, Nothing
<1>2. Fair(Alone)
  BY DEF Fair, Alone
<1>3. ASSUME NEW pair \in Pairs
      PROVE  Fair(Colors(pair)) /\ Fair(Meson!ColorsAsked(pair)) /\ Fair(Both(Alone, Colors(pair)))
  <2>1. Fair(Colors(pair))
    BY DEF Fair, Colors, OfOnePair
  <2>2. Fair(Meson!ColorsAsked(pair))
    BY SameRequests DEF Fair, Meson!ColorsAsked, Colors, OfOnePair
  <2>3. Fair(Both(Alone, Colors(pair)))
    BY DEF Fair, Both, Alone, Colors, OfOnePair
  <2>4. QED
    BY <2>1, <2>2, <2>3
<1>4. ASSUME NEW policy \in Policies
      PROVE  Fair(Meson!HdrAsked(policy)) /\ Fair(Westeros!HdrSent(policy))
  BY SameRequests DEF Fair, Meson!HdrAsked, Westeros!HdrSent, Hdr, HdrPaired
<1>5. ASSUME NEW policy \in Policies, NEW pair \in Pairs
      PROVE  Fair(Both(Alone, Both(Meson!HdrAsked(policy), Meson!ColorsAsked(pair))))
  BY SameRequests DEF Fair, Both, Alone, Meson!HdrAsked, Meson!ColorsAsked, Hdr, Colors, HdrPaired, OfOnePair
<1>6. QED
  <2> SUFFICES ASSUME NEW r \in Requests PROVE Fair(r)
    OBVIOUS
  <2>1. \/ r \in {Nothing, Alone}
        \/ \E pair \in Pairs : r \in {Colors(pair), Meson!ColorsAsked(pair), Both(Alone, Colors(pair))}
        \/ \E policy \in Policies : r \in {Meson!HdrAsked(policy), Westeros!HdrSent(policy)}
        \/ \E policy \in Policies, pair \in Pairs :
              r = Both(Alone, Both(Meson!HdrAsked(policy), Meson!ColorsAsked(pair)))
    BY SMT DEF Requests
  <2>2. QED
    BY Zenon, <2>1, <1>1, <1>2, <1>3, <1>4, <1>5

\* Every setter asks for something.
LEMMA RequestsSomething ==
  /\ Alone # Nothing
  /\ \A pair \in Pairs : /\ Colors(pair) # Nothing /\ Meson!ColorsAsked(pair) # Nothing
                         /\ Both(Alone, Colors(pair)) # Nothing
  /\ \A policy \in Policies : Meson!HdrAsked(policy) # Nothing
  /\ \A policy \in Policies, pair \in Pairs :
        Both(Alone, Both(Meson!HdrAsked(policy), Meson!ColorsAsked(pair))) # Nothing
<1>1. DOMAIN Nothing = {}
  BY DEF Nothing
<1>2. DOMAIN Alone # {}
  BY DEF Alone
<1>3. \A pair : DOMAIN Colors(pair) # {}
  BY DEF Colors
<1>4. \A f : DOMAIN Both(Alone, f) # {}
  BY <1>2 DEF Both
<1>5. \A policy, force : DOMAIN Hdr(policy, force) # {}
  BY DEF Hdr
<1>6. QED
  BY <1>1, <1>2, <1>3, <1>4, <1>5, SameRequests DEF Meson!ColorsAsked, Meson!HdrAsked

\* What a request changes of the display leaves it in order.
LEMMA AppliedFair ==
  ASSUME DisplayInv, NEW r, Fair(r), display' = Applied(r)
  PROVE  DisplayInv'
<1>1. DOMAIN display' = {"hdr_policy", "force_mode", "depth", "space"}
  BY DEF DisplayInv, Applied
<1>2. ASSUME NEW p \in DOMAIN display
      PROVE  display'[p] = IF p \in DOMAIN r THEN r[p] ELSE display[p]
  BY DEF Applied
<1>3. HdrPaired(display')
  BY <1>1, <1>2 DEF DisplayInv, Fair, HdrPaired
<1>4. OfOnePair(display')
  BY <1>1, <1>2 DEF DisplayInv, Fair, OfOnePair
<1>5. QED
  BY <1>1, <1>3, <1>4 DEF DisplayInv, Fair, HdrPaired, OfOnePair

-----------------------------------------------------------------------------
(* Steps of any call.                                                      *)

\* A set of numbers that is not empty has a least one.
LEMMA Least ==
  ASSUME NEW S \in SUBSET Nat, S # {}
  PROVE  \E b \in S : \A c \in S : b <= c
<1> DEFINE Below(b) == 0 .. b
           T == {Below(b) : b \in S}
<1>1. S \subseteq Nat
  OBVIOUS
<1>2. T \subseteq FiniteSubsetsOf(Nat)
  <2>1. \A b \in S : Below(b) \in SUBSET Nat /\ IsFiniteSet(Below(b))
    BY <1>1, FS_Interval
  <2>2. QED
    BY <2>1, Zenon DEF FiniteSubsetsOf
<1>3. T # {}
  OBVIOUS
<1>4. PICK x \in T : \A y \in T : ~ (<<y, x>> \in StrictSubsetOrdering(Nat))
  <2> HIDE DEF T
  <2>1. QED
    BY <1>2, <1>3, FS_StrictSubsetOrderingWellFounded, WFMin
<1>5. PICK m \in S : x = Below(m)
  BY <1>4
<1>6. \A c \in S : m <= c
  <2> SUFFICES ASSUME NEW c \in S, c < m PROVE FALSE
    BY <1>1
  <2>1. Below(c) \in SUBSET Nat /\ Below(m) \in SUBSET Nat /\ Below(c) \subseteq Below(m)
    BY <1>1
  <2>2. m \in Below(m) /\ m \notin Below(c)
    BY <1>1
  <2>3. Below(c) \in T
    OBVIOUS
  <2> HIDE DEF Below, T
  <2>4. QED
    BY <2>1, <2>2, <2>3, <1>4, <1>5 DEF StrictSubsetOrdering
<1>7. QED
  BY <1>6

\* A call goes on with the descriptors it has, and nothing else happens to them.
LEMMA GoesOn ==
  ASSUME IInv, NEW t \in Callers, NEW c \in Calls, CallOK(c), Goes(t, c),
         c.fd = call[t].fd \/ (c.fd = 0 /\ call[t].fd = -1), c.nested = call[t].nested,
         c.fd = 0 /\ ~failedEarly' => Unopened(c),
         c.at = "query" => call[t].at = "query",
         \/ UNCHANGED master
         \/ /\ master' \in Fds /\ c.at # "query"
            /\ ~failedEarly => descriptors[master'] = t,
         UNCHANGED <<backend, descriptors>>,
         failedEarly' \in BOOLEAN, failedEarly => failedEarly', DisplayInv'
  PROVE  IInv'
<1> USE DEF IInv
<1>1. /\ call' \in [Callers -> Calls]
      /\ call'[t] = c
      /\ \A u \in Callers \ {t} : call'[u] = call[u]
  BY DEF TypeInv, Goes
<1>2. TypeInv'
  BY <1>1 DEF TypeInv, Fds
<1>3. CallInv'
  BY <1>1 DEF CallInv
<1>4. DescInv'
  <2> SUFFICES ASSUME ~failedEarly' PROVE DescInv'
    BY DEF DescInv
  <2>1. CASE UNCHANGED master
    <3>1. ASSUME NEW u \in Callers PROVE Kept(u)'
      BY <1>1, <2>1 DEF DescInv, Kept, Fds
    <3>2. QED
      BY <2>1, <3>1 DEF DescInv, Fds
  <2>2. CASE master' \in Fds /\ c.at # "query" /\ descriptors[master'] = t
    <3>1. ASSUME NEW u \in Callers PROVE Kept(u)'
      BY <1>1, <2>2 DEF DescInv, Kept, Fds, Unopened
    <3>2. QED
      BY <2>2, <3>1 DEF DescInv, Fds
  <2>3. QED
    BY <2>1, <2>2
<1>5. QED
  BY <1>2, <1>3, <1>4

\* Only the device's master changes.
LEMMA MasterChanges ==
  ASSUME IInv, UNCHANGED <<backend, call, descriptors, failedEarly, display>>,
         master' \in Fds \cup {None, Peer},
         ~failedEarly => /\ master' \in Fds => descriptors[master'] \in Callers
                         /\ \A t \in Callers : call[t].at = "query" /\ call[t].fd \in Fds => master' # call[t].fd
  PROVE  IInv'
<1> USE DEF IInv
<1>1. TypeInv' /\ CallInv' /\ DisplayInv'
  BY DEF TypeInv, Fds, CallInv, DisplayInv
<1>2. DescInv'
  BY DEF DescInv, Kept, Fds
<1>3. QED
  BY <1>1, <1>2

\* A call that holds nothing, or 0 in fd, has opened d.
LEMMA HasOpened ==
  ASSUME IInv, NEW t \in Callers, NEW c \in Calls, CallOK(c), Goes(t, c),
         NEW d \in Fds \cup {-1}, NEW newMaster \in {d, master}, OpensAs(t, d, newMaster),
         call[t].nested = -1,
         \/ c.fd = d /\ c.nested = -1 /\ call[t].fd \in {-1, 0}
         \/ c.fd = call[t].fd /\ c.nested = d /\ c.at # "query" /\ (c.fd = 0 => failedEarly),
         c.at = "query" => newMaster = master,
         UNCHANGED <<backend, failedEarly, display>>
  PROVE  IInv'
<1> USE DEF IInv
<1>1. /\ call' \in [Callers -> Calls]
      /\ call'[t] = c
      /\ \A u \in Callers \ {t} : call'[u] = call[u]
  BY DEF TypeInv, Goes
<1>2. \/ /\ FreeFds # {}
         /\ d = LowestFd
         /\ descriptors' = [descriptors EXCEPT ![d] = t]
         /\ master' = newMaster
      \/ d = -1 /\ UNCHANGED <<descriptors, master>>
  BY DEF OpensAs
<1>3. FreeFds # {} => LowestFd \in FreeFds
  <2>1. FreeFds \in SUBSET Nat
    BY CallsAssumption DEF FreeFds, Fds
  <2>2. QED
    BY <2>1, Least DEF LowestFd
<1>4. TypeInv' /\ CallInv' /\ DisplayInv'
  BY <1>1, <1>2, <1>3 DEF TypeInv, CallInv, DisplayInv, Fds, FreeFds
<1>5. DescInv'
  <2> SUFFICES ASSUME ~failedEarly PROVE DescInv'
    BY DEF DescInv
  <2>1. CASE d = -1 /\ UNCHANGED <<descriptors, master>>
    <3>1. ASSUME NEW u \in Callers PROVE Kept(u)'
      BY <1>1, <2>1 DEF DescInv, Kept, Fds
    <3>2. QED
      BY <2>1, <3>1 DEF DescInv, Fds
  <2>2. CASE /\ FreeFds # {}
             /\ d = LowestFd
             /\ descriptors' = [descriptors EXCEPT ![d] = t]
             /\ master' = newMaster
    <3>1. d \in Fds /\ descriptors[d] = Free /\ d # 0
      BY <1>3, <2>2 DEF FreeFds, DescInv, Free, Std
    <3>2. ASSUME NEW u \in Callers PROVE Kept(u)'
      BY <1>1, <2>2, <3>1, CallsAssumption DEF DescInv, Kept, Fds, Free, TypeInv, Unopened
    <3>3. QED
      BY <2>2, <3>1, <3>2, CallsAssumption DEF DescInv, Fds, Free, TypeInv
  <2>3. QED
    BY <1>2, <2>1, <2>2
<1>6. QED
  BY <1>4, <1>5

\* A call closes what it has open, or what it opened on the side.
LEMMA HasClosed ==
  ASSUME IInv, NEW t \in Callers, NEW c \in Calls, CallOK(c), Goes(t, c),
         NEW d \in Fds \cup {-1}, Closes(d), d = 0 => failedEarly,
         \/ d = call[t].fd /\ call[t].nested = -1 /\ c.fd = -1
         \/ d = call[t].nested /\ c.fd = call[t].fd /\ (c.fd = 0 => failedEarly),
         c.nested = -1, c.at # "query",
         UNCHANGED <<backend, failedEarly, display>>
  PROVE  IInv'
<1> USE DEF IInv
<1>1. /\ call' \in [Callers -> Calls]
      /\ call'[t] = c
      /\ \A u \in Callers \ {t} : call'[u] = call[u]
  BY DEF TypeInv, Goes
<1>2. \/ /\ d \in Fds
         /\ descriptors' = [descriptors EXCEPT ![d] = Free]
         /\ master' = IF master = d THEN None ELSE master
      \/ d = -1 /\ UNCHANGED <<descriptors, master>>
  BY CallsAssumption DEF Closes, Fds
<1>3. TypeInv' /\ CallInv' /\ DisplayInv'
  BY <1>1, <1>2 DEF TypeInv, CallInv, DisplayInv, Fds
<1>4. DescInv'
  <2> SUFFICES ASSUME ~failedEarly PROVE DescInv'
    BY DEF DescInv
  <2>1. CASE d = -1
    <3>1. ASSUME NEW u \in Callers PROVE Kept(u)'
      BY <1>1, <1>2, <2>1 DEF DescInv, Kept, Fds
    <3>2. QED
      BY <1>2, <2>1, <3>1 DEF DescInv, Fds
  <2>2. CASE d # -1
    <3>1. ASSUME NEW u \in Callers PROVE Kept(u)'
      BY <1>1, <1>2, <2>2, CallsAssumption DEF DescInv, Kept, Fds, Free, TypeInv
    <3>2. QED
      BY <1>2, <2>2, <3>1, CallsAssumption DEF DescInv, Fds, TypeInv
  <2>3. QED
    BY <2>1, <2>2
<1>5. QED
  BY <1>3, <1>4

\* A getter forgets what it has open.
LEMMA HasLeft ==
  ASSUME IInv, NEW t \in Callers, NEW c \in Calls, CallOK(c), Goes(t, c),
         call[t].at = "query", c.fd = -1, c.nested = -1, c.at # "query",
         descriptors' = [d \in Fds |-> IF d = call[t].fd /\ descriptors[d] = t THEN Leaked ELSE descriptors[d]],
         UNCHANGED <<backend, master, failedEarly, display>>
  PROVE  IInv'
<1> USE DEF IInv
<1>1. /\ call' \in [Callers -> Calls]
      /\ call'[t] = c
      /\ \A u \in Callers \ {t} : call'[u] = call[u]
  BY DEF TypeInv, Goes
<1>2. TypeInv' /\ CallInv' /\ DisplayInv'
  BY <1>1 DEF TypeInv, CallInv, DisplayInv, Fds
<1>3. DescInv'
  <2> SUFFICES ASSUME ~failedEarly PROVE DescInv'
    BY DEF DescInv
  <2>1. call[t].nested = -1
    BY DEF CallInv, CallOK, DeviceOK
  <2>2. ASSUME NEW u \in Callers PROVE Kept(u)'
    BY <1>1, <2>1, CallsAssumption DEF DescInv, Kept, Fds, Leaked, TypeInv
  <2>3. QED
    BY <2>2, CallsAssumption DEF DescInv, Kept, Fds, Leaked, Std, TypeInv
<1>4. QED
  BY <1>2, <1>3

-----------------------------------------------------------------------------
(* The calls begin.                                                        *)

\* What a call may start with.
Fresh == {c \in Calls : CallOK(c) /\ c.nested = -1 /\ c.at # "query"
                        /\ (c.fd = -1 \/ (c.fd = 0 /\ Unopened(c)))}

LEMMA Begins ==
  ASSUME IInv, NEW t \in Callers, NEW c \in Fresh, Begin(t, c)
  PROVE  IInv'
<1>1. call[t].fd = -1 /\ call[t].nested = -1
  BY DEF IInv, CallInv, CallOK, DeviceOK, Empty, Begin, At
<1>2. DisplayInv'
  BY DEF IInv, DisplayInv, Begin
<1>3. failedEarly \in BOOLEAN
  BY DEF IInv, TypeInv
<1>4. /\ c \in Calls /\ CallOK(c) /\ c.nested = -1 /\ c.at # "query"
      /\ c.fd = -1 \/ (c.fd = 0 /\ Unopened(c))
  BY DEF Fresh
<1>5. Goes(t, c) /\ UNCHANGED <<backend, descriptors, master, failedEarly>>
  BY DEF Begin, Goes
<1>6. QED
  BY <1>1, <1>2, <1>3, <1>4, <1>5, GoesOn

\* Each variable of a call keeps its type when it is given a value of it.
LEMMA CallsExcept ==
  ASSUME NEW c \in Calls
  PROVE  /\ \A x \in Kinds : [c EXCEPT !.kind = x] \in Calls
         /\ \A x \in Places : [c EXCEPT !.at = x] \in Calls
         /\ \A x \in Fds \cup {-1} : [c EXCEPT !.fd = x] \in Calls
         /\ \A x \in Fds \cup {-1} : [c EXCEPT !.nested = x] \in Calls
         /\ \A x \in Requests : [c EXCEPT !.asked = x] \in Calls
         /\ \A x \in Requests \cup {None} : [c EXCEPT !.put = x] \in Calls
         /\ \A x \in {0, -1} : [c EXCEPT !.ret = x] \in Calls
         /\ \A x \in BOOLEAN : [c EXCEPT !.applied = x] \in Calls
         /\ \A x \in Nat : [c EXCEPT !.count = x] \in Calls
         /\ \A x \in Dirs : [c EXCEPT !.dir = x] \in Calls
BY DEF Calls

LEMMA IdleTyped == Idle \in Calls /\ Nothing \in Requests /\ 0 \in Fds
BY CallsAssumption DEF Idle, Calls, Fds, Dirs, Kinds, Places, Requests

\* A call that is idle but for these variables.
Starts(c, kind, place, fd, asked, ret) ==
    /\ c \in Calls
    /\ c.kind = kind /\ c.at = place /\ c.fd = fd /\ c.asked = asked /\ c.ret = ret
    /\ c.nested = -1 /\ c.put = None /\ c.applied = FALSE /\ c.count = 0

LEMMA StartsFresh ==
  ASSUME NEW c, NEW kind, NEW place, NEW fd, NEW asked, NEW ret, Starts(c, kind, place, fd, asked, ret),
         place \notin {"query", "ioctl", "master", "commit"},
         place = "check" => kind = "attr",
         place \in {"open", "alloc", "fill"} => kind # "list",
         place \in {"open", "alloc", "fill", "check"} => asked # Nothing,
         kind = "direct" => place # "alloc",
         ret = 0 => kind \in {"unimplemented", "careless", "no_return"},
         fd = IF kind = "alloc_first" /\ place = "alloc" THEN 0 ELSE -1
  PROVE  c \in Fresh
<1> USE DEF Starts
<1>1. CountOK(c)
  BY SettingsAssumption DEF CountOK
<1>2. RequestOK(c)
  BY DEF RequestOK
<1>3. DeviceOK(c)
  BY DEF DeviceOK, Empty
<1>4. QED
  BY <1>1, <1>2, <1>3 DEF Fresh, CallOK, Unopened

LEMMA IdleOK ==
  /\ Idle \in Calls /\ CallOK(Idle)
  /\ Idle.fd = -1 /\ Idle.nested = -1 /\ Idle.at = "idle"
<1>1. Starts(Idle, "none", "idle", -1, Nothing, -1)
  BY IdleTyped DEF Starts, Idle
<1>2. Idle \in Fresh
  BY <1>1, StartsFresh
<1>3. QED
  BY <1>1, <1>2 DEF Fresh, Starts

LEMMA IdleFresh ==
  /\ \A place \in {"return", "crashed"} : [Idle EXCEPT !.at = place] \in Fresh
  /\ [Idle EXCEPT !.kind = "unimplemented", !.at = "return", !.ret = 0] \in Fresh
<1>1. ASSUME NEW place \in {"return", "crashed"}
      PROVE  Starts([Idle EXCEPT !.at = place], "none", place, -1, Nothing, -1)
  BY IdleTyped, CallsExcept DEF Starts, Idle, Places
<1>2. Starts([Idle EXCEPT !.kind = "unimplemented", !.at = "return", !.ret = 0],
             "unimplemented", "return", -1, Nothing, 0)
  BY IdleTyped, CallsExcept DEF Starts, Idle, Kinds, Places
<1>3. QED
  BY <1>1, <1>2, StartsFresh

\* What the setters over libdrm_meson start with is fresh,
LEMMA MesonFresh ==
  ASSUME NEW asked \in Requests, asked # Nothing
  PROVE  /\ \A kind \in {"open_first", "direct", "mode", "dummy", "auto"} :
               [Idle EXCEPT !.kind = kind, !.at = "open", !.asked = asked] \in Fresh
         /\ [Idle EXCEPT !.kind = "alloc_first", !.at = "alloc", !.fd = 0, !.asked = asked] \in Fresh
         /\ [Idle EXCEPT !.kind = "attr", !.at = "check", !.asked = asked] \in Fresh
<1>1. ASSUME NEW kind \in {"open_first", "direct", "mode", "dummy", "auto"}
      PROVE  Starts([Idle EXCEPT !.kind = kind, !.at = "open", !.asked = asked],
                    kind, "open", -1, asked, -1)
  BY IdleTyped, CallsExcept DEF Starts, Idle, Kinds, Places
<1>2. Starts([Idle EXCEPT !.kind = "alloc_first", !.at = "alloc", !.fd = 0, !.asked = asked],
             "alloc_first", "alloc", 0, asked, -1)
  BY IdleTyped, CallsExcept DEF Starts, Idle, Kinds, Places
<1>3. Starts([Idle EXCEPT !.kind = "attr", !.at = "check", !.asked = asked],
             "attr", "check", -1, asked, -1)
  BY IdleTyped, CallsExcept DEF Starts, Idle, Kinds, Places
<1>4. QED
  BY <1>1, <1>2, <1>3, StartsFresh

\* and so is what those of westeros start with,
LEMMA WesterosFresh ==
  ASSUME NEW asked \in Requests
  PROVE  /\ \A kind \in {"message", "careless", "question"}, place \in {"lookup", "directory"} :
               [Idle EXCEPT !.kind = kind, !.at = place, !.asked = asked] \in Fresh
         /\ \A r \in {0, -1} :
               [Idle EXCEPT !.kind = "no_return", !.at = "lookup", !.asked = asked, !.ret = r] \in Fresh
<1>1. ASSUME NEW kind \in {"message", "careless", "question"}, NEW place \in {"lookup", "directory"}
      PROVE  Starts([Idle EXCEPT !.kind = kind, !.at = place, !.asked = asked],
                    kind, place, -1, asked, -1)
  BY IdleTyped, CallsExcept DEF Starts, Idle, Kinds, Places
<1>2. ASSUME NEW r \in {0, -1}
      PROVE  Starts([Idle EXCEPT !.kind = "no_return", !.at = "lookup", !.asked = asked, !.ret = r],
                    "no_return", "lookup", -1, asked, r)
  BY IdleTyped, CallsExcept DEF Starts, Idle, Kinds, Places
<1>3. ASSUME NEW kind \in {"message", "careless", "question"}, NEW place \in {"lookup", "directory"}
      PROVE  [Idle EXCEPT !.kind = kind, !.at = place, !.asked = asked] \in Fresh
  <2> DEFINE c == [Idle EXCEPT !.kind = kind, !.at = place, !.asked = asked]
  <2>1. Starts(c, kind, place, -1, asked, -1)
    BY <1>1
  <2> HIDE DEF c
  <2>2. c \in Fresh
    BY <2>1, StartsFresh
  <2>3. QED
    BY <2>2 DEF c
<1>4. QED
  BY <1>2, <1>3, StartsFresh

\* and what the getters start with.
LEMMA GetterFresh ==
  \A kind \in {"get", "get_nothing", "get_and_keep", "list"} :
     [Idle EXCEPT !.kind = kind, !.at = "get_open"] \in Fresh
<1>1. ASSUME NEW kind \in {"get", "get_nothing", "get_and_keep", "list"}
      PROVE  Starts([Idle EXCEPT !.kind = kind, !.at = "get_open"], kind, "get_open", -1, Nothing, -1)
  BY IdleTyped, CallsExcept DEF Starts, Idle, Kinds, Places
<1>2. ASSUME NEW kind \in {"get", "get_nothing", "get_and_keep", "list"}
      PROVE  [Idle EXCEPT !.kind = kind, !.at = "get_open"] \in Fresh
  <2> DEFINE c == [Idle EXCEPT !.kind = kind, !.at = "get_open"]
  <2>1. Starts(c, kind, "get_open", -1, Nothing, -1)
    BY <1>1
  <2> HIDE DEF c
  <2>2. c \in Fresh
    BY <2>1, StartsFresh
  <2>3. QED
    BY <2>2 DEF c
<1>3. QED
  BY <1>2

\* A call begins the same way through each instance.
LEMMA SameBegins ==
  /\ Meson!Idle = Idle /\ Westeros!Idle = Idle /\ Attributes!Idle = Idle
  /\ \A t, c : /\ Meson!Begin(t, c) <=> Begin(t, c)
               /\ Westeros!Begin(t, c) <=> Begin(t, c)
               /\ Attributes!Begin(t, c) <=> Begin(t, c)
<1>1. Meson!Idle = Idle /\ Westeros!Idle = Idle /\ Attributes!Idle = Idle
  BY Zenon DEF Meson!Idle, Westeros!Idle, Attributes!Idle, Idle, Meson!Nothing, Westeros!Nothing,
     Attributes!Nothing, Nothing
<1>2. ASSUME NEW t, NEW c
      PROVE  /\ Meson!Begin(t, c) <=> Begin(t, c)
             /\ Westeros!Begin(t, c) <=> Begin(t, c)
             /\ Attributes!Begin(t, c) <=> Begin(t, c)
  BY Zenon DEF Meson!Begin, Westeros!Begin, Attributes!Begin, Begin, Meson!At, Westeros!At, Attributes!At, At
<1>3. QED
  BY <1>1, <1>2

LEMMA MesonSetter ==
  ASSUME IInv, NEW t \in Callers, Meson!Setter(t)
  PROVE  IInv'
<1>1. \A c \in Fresh : Meson!Begin(t, c) => IInv'
  BY Begins, SameBegins
<1>2. \A asked \in Requests \ {Nothing} :
         /\ Meson!Begin(t, Meson!OpenFirst(asked)) => IInv'
         /\ Meson!Begin(t, Meson!AllocFirst(asked)) => IInv'
         /\ Meson!Begin(t, [Meson!Idle EXCEPT !.kind = "attr", !.at = "check", !.asked = asked]) => IInv'
         /\ \A kind \in {"direct", "mode", "dummy", "auto"} :
               Meson!Begin(t, [Meson!Idle EXCEPT !.kind = kind, !.at = "open", !.asked = asked]) => IInv'
  BY <1>1, MesonFresh, SameBegins DEF Meson!OpenFirst, Meson!AllocFirst
<1>3. \A place \in {"return", "crashed"} : Meson!Begin(t, [Meson!Idle EXCEPT !.at = place]) => IInv'
  BY <1>1, IdleFresh, SameBegins
<1>4. /\ Meson!Alone \in Requests \ {Nothing}
      /\ \A pair \in Pairs : /\ Meson!ColorsAsked(pair) \in Requests \ {Nothing}
                             /\ Meson!Both(Meson!Alone, Meson!Colors(pair)) \in Requests \ {Nothing}
      /\ \A policy \in Policies : Meson!HdrAsked(policy) \in Requests \ {Nothing}
      /\ \A policy \in Policies, pair \in Pairs :
            Meson!Both(Meson!Alone, Meson!Both(Meson!HdrAsked(policy), Meson!ColorsAsked(pair)))
               \in Requests \ {Nothing}
  BY SameRequests, RequestsSomething DEF Requests
<1>5. Meson!Begin(t, Meson!OpenFirst(Meson!Alone)) => IInv'
  BY <1>2, <1>4
<1>6. CASE \/ Meson!setDisplayHDCPEnable(t) \/ Meson!setDisplayAVMute(t)
           \/ Meson!setDisplayHDCPContentType(t) \/ Meson!setDisplayDvEnable(t)
           \/ Meson!setDisplayActive(t) \/ Meson!setDisplayVrrEnabled(t)
           \/ Meson!setDisplayBackGroundColor(t) \/ Meson!setDisplayDvMode(t)
           \/ Meson!setDisplayCvbsAVMute(t)
  BY Zenon, <1>5, <1>6 DEF Meson!setDisplayHDCPEnable, Meson!setDisplayAVMute,
     Meson!setDisplayHDCPContentType, Meson!setDisplayDvEnable, Meson!setDisplayActive,
     Meson!setDisplayVrrEnabled, Meson!setDisplayBackGroundColor, Meson!setDisplayDvMode,
     Meson!setDisplayCvbsAVMute
<1>7. CASE Meson!setDisplayColorSpacedDepth(t)
  BY <1>2, <1>4, <1>7 DEF Meson!setDisplayColorSpacedDepth
<1>8. CASE Meson!setDisplayHDRPolicy(t)
  BY <1>2, <1>4, <1>8 DEF Meson!setDisplayHDRPolicy
<1>9. CASE Meson!setDisplayAspectRatioValue(t)
  BY <1>2, <1>4, <1>9 DEF Meson!setDisplayAspectRatioValue
<1>10. CASE Meson!setDisplayVideoZorder(t) \/ Meson!setDisplayPlaneMute(t)
  BY <1>2, <1>4, <1>10 DEF Meson!setDisplayVideoZorder, Meson!setDisplayPlaneMute, Meson!Direct
<1>11. CASE Meson!setDisplayMode(t)
  BY <1>2, <1>3, <1>4, <1>11 DEF Meson!setDisplayMode, Meson!NoMode
<1>12. CASE Meson!setDisplayAutoMode(t)
  BY <1>2, <1>4, <1>12 DEF Meson!setDisplayAutoMode
<1>13. CASE Meson!setDisplayModeAttr(t)
  BY <1>2, <1>3, <1>4, <1>13 DEF Meson!setDisplayModeAttr
<1>14. CASE Meson!setDisplayFunctionAttribute(t)
  BY <1>2, <1>3, <1>4, <1>14 DEF Meson!setDisplayFunctionAttribute, Meson!NoMode
<1>15. QED
  BY Zenon, <1>6, <1>7, <1>8, <1>9, <1>10, <1>11, <1>12, <1>13, <1>14 DEF Meson!Setter

LEMMA WesterosSetter ==
  ASSUME IInv, NEW t \in Callers, Westeros!Setter(t) \/ Westeros!Unimplemented(t)
  PROVE  IInv'
<1>1. \A c \in Fresh : Westeros!Begin(t, c) => IInv'
  BY Begins, SameBegins
<1>2. \A asked \in Requests, place \in {"lookup", "directory"} :
         \A kind \in {"message", "careless", "question"} :
            Westeros!Begin(t, [Westeros!Idle EXCEPT !.kind = kind, !.at = place, !.asked = asked]) => IInv'
  BY <1>1, WesterosFresh, SameBegins
<1>3. \A asked \in Requests : /\ Westeros!Begin(t, Westeros!Property(asked)) => IInv'
                              /\ Westeros!Begin(t, Westeros!Careless(asked)) => IInv'
  <2>1. ASSUME NEW asked \in Requests
        PROVE  Westeros!Careless(asked)
                 = [Westeros!Idle EXCEPT !.kind = "careless", !.at = "lookup", !.asked = asked]
    BY DEF Westeros!Careless, Westeros!Property, Westeros!Idle
  <2>2. QED
    BY <1>2, <2>1 DEF Westeros!Property
<1>4. /\ Westeros!Alone \in Requests /\ Westeros!Nothing \in Requests
      /\ \A pair \in Pairs : Westeros!Colors(pair) \in Requests
      /\ \A policy \in Policies : Westeros!HdrSent(policy) \in Requests
  BY SameRequests DEF Requests
<1>5. /\ Westeros!Begin(t, Westeros!Property(Westeros!Alone)) => IInv'
      /\ Westeros!Begin(t, Westeros!Careless(Westeros!Alone)) => IInv'
      /\ Westeros!Begin(t, Westeros!Message) => IInv'
      /\ Westeros!Begin(t, [Westeros!Idle EXCEPT !.at = "return"]) => IInv'
  BY <1>1, <1>2, <1>3, <1>4, IdleFresh, SameBegins DEF Westeros!Message
<1>6. CASE \/ Westeros!setDisplayHDCPEnable(t) \/ Westeros!setDisplayAVMute(t)
           \/ Westeros!setDisplayHDCPContentType(t) \/ Westeros!setDisplayDvEnable(t)
           \/ Westeros!setDisplayActive(t) \/ Westeros!setDisplayVrrEnabled(t)
           \/ Westeros!setDisplayAspectRatioValue(t) \/ Westeros!setDisplayDvMode(t)
           \/ Westeros!setDisplayMode(t) \/ Westeros!setDisplayAutoMode(t)
           \/ Westeros!setDisplayScaling(t) \/ Westeros!setDisplayEnabled(t)
  BY Zenon, <1>5, <1>6 DEF Westeros!setDisplayHDCPEnable, Westeros!setDisplayAVMute,
     Westeros!setDisplayHDCPContentType, Westeros!setDisplayDvEnable, Westeros!setDisplayActive,
     Westeros!setDisplayVrrEnabled, Westeros!setDisplayAspectRatioValue, Westeros!setDisplayDvMode,
     Westeros!setDisplayMode, Westeros!setDisplayAutoMode, Westeros!setDisplayScaling,
     Westeros!setDisplayEnabled
<1>7. CASE Westeros!setDisplayColorSpacedDepth(t)
  BY <1>3, <1>4, <1>7 DEF Westeros!setDisplayColorSpacedDepth
<1>8. CASE Westeros!setDisplayHDRPolicy(t)
  BY <1>3, <1>4, <1>8 DEF Westeros!setDisplayHDRPolicy
<1>9. CASE Westeros!setDisplayCvbsAVMute(t)
  <2>1. ASSUME NEW r \in {0, -1}
        PROVE  [Westeros!Careless(Westeros!Alone) EXCEPT !.kind = "no_return", !.ret = r]
                 = [Idle EXCEPT !.kind = "no_return", !.at = "lookup", !.asked = Alone, !.ret = r]
    BY SameRequests, SameBegins DEF Westeros!Careless, Westeros!Property, Idle
  <2>2. QED
    BY <1>1, <1>4, <1>9, <2>1, WesterosFresh, SameRequests DEF Westeros!setDisplayCvbsAVMute
<1>10. CASE \/ Westeros!getDisplayScaling(t) \/ Westeros!getDisplayEnabled(t)
            \/ Westeros!getDisplayIsBestMode(t)
  <2>1. [Westeros!Message EXCEPT !.kind = "question", !.asked = Westeros!Nothing]
          = [Westeros!Idle EXCEPT !.kind = "question", !.at = "directory", !.asked = Westeros!Nothing]
    BY DEF Westeros!Message, Westeros!Idle
  <2>2. Westeros!Question(t) => IInv'
    BY <1>2, <1>4, <1>5, <2>1 DEF Westeros!Question
  <2>3. QED
    BY Zenon, <1>10, <2>2 DEF Westeros!getDisplayScaling, Westeros!getDisplayEnabled,
       Westeros!getDisplayIsBestMode
<1>11. CASE Westeros!Unimplemented(t)
  BY <1>1, <1>11, IdleFresh, SameBegins DEF Westeros!Unimplemented
<1>12. QED
  BY Zenon, <1>6, <1>7, <1>8, <1>9, <1>10, <1>11 DEF Westeros!Setter

LEMMA Getter ==
  ASSUME IInv, NEW t \in Callers, Attributes!Getter(t)
  PROVE  IInv'
<1>1. \A c \in Fresh : Attributes!Begin(t, c) => IInv'
  BY Begins, SameBegins
<1>2. /\ [Attributes!Query EXCEPT !.kind = "get_nothing"]
           = [Idle EXCEPT !.kind = "get_nothing", !.at = "get_open"]
      /\ [Attributes!Query EXCEPT !.kind = "get_and_keep"]
           = [Idle EXCEPT !.kind = "get_and_keep", !.at = "get_open"]
      /\ [Attributes!Query EXCEPT !.kind = "list"] = [Idle EXCEPT !.kind = "list", !.at = "get_open"]
  BY SameBegins DEF Attributes!Query, Idle
<1>3. /\ Attributes!Begin(t, Attributes!Query) => IInv'
      /\ Attributes!Begin(t, [Attributes!Query EXCEPT !.kind = "get_nothing"]) => IInv'
      /\ Attributes!Begin(t, [Attributes!Query EXCEPT !.kind = "get_and_keep"]) => IInv'
      /\ Attributes!Begin(t, [Attributes!Query EXCEPT !.kind = "list"]) => IInv'
      /\ Attributes!Begin(t, [Attributes!Idle EXCEPT !.at = "return"]) => IInv'
  <2>1. Attributes!Query = [Idle EXCEPT !.kind = "get", !.at = "get_open"]
    BY SameBegins DEF Attributes!Query
  <2>2. QED
    BY <1>1, <1>2, <2>1, GetterFresh, IdleFresh, SameBegins
<1>4. Attributes!QueryInto(t) => IInv'
  BY Zenon, <1>3 DEF Attributes!QueryInto
<1>5. QED
  BY Zenon, <1>3, <1>4 DEF Attributes!Getter, Attributes!getDisplayHdcpAuthStatus,
     Attributes!getDisplayColorSpace, Attributes!getDisplayColorDepth,
     Attributes!getDisplayConnectionStatus, Attributes!getDisplayHdcpVersion,
     Attributes!getDisplayMode, Attributes!getDisplayHDRPolicy, Attributes!getDisplayModesList,
     Attributes!getDisplayHDCPContentType, Attributes!getDisplayContentType,
     Attributes!getDisplayDvEnable, Attributes!getDisplayActive, Attributes!getDisplayVrrEnabled,
     Attributes!getDisplayAVMute, Attributes!getDisplayHdrStatus,
     Attributes!getDisplayFracRatePolicy, Attributes!getDisplaySupportedDvMode,
     Attributes!getDisplayHDRSupportList, Attributes!getDisplayDvCap,
     Attributes!getDisplayDpmsStatus, Attributes!getDisplayFrameRate,
     Attributes!getDisplayPlaneSize, Attributes!getDisplayPhysicalSize,
     Attributes!getDisplayDvMode, Attributes!getDisplaySignalTimingInfo,
     Attributes!getDisplayCvbsAVMute, Attributes!getDisplayRxSupportedHdcpVersion,
     Attributes!getDisplayPreferMode, Attributes!getDisplayEDIDData,
     Attributes!getDisplayAspectRatioValue, Attributes!getDisplaySupportAttrList

-----------------------------------------------------------------------------
(* The steps of a setter over libdrm_meson.                                *)

\* What a call holds on the way out, and when it has returned.
LEMMA OutOK ==
  ASSUME NEW c \in Calls, CallOK(c), c.nested = -1, NEW r \in {0, -1},
         r = 0 /\ c.put = Nothing => c.kind = "mode"
  PROVE  /\ Meson!Out(c, r) \in Calls
         /\ CallOK(Meson!Out(c, r))
         /\ Meson!Out(c, r).kind = c.kind /\ Meson!Out(c, r).at = "close"
         /\ Meson!Out(c, r).fd = c.fd /\ Meson!Out(c, r).nested = -1
<1> DEFINE applied == r = 0 /\ c.put # Nothing
           put == IF c.put = Nothing THEN Nothing ELSE None
           o == [c EXCEPT !.at = "close", !.ret = r, !.applied = applied, !.asked = Nothing, !.put = put]
<1>1. applied \in BOOLEAN /\ (applied <=> r = 0 /\ c.put # Nothing)
  BY Zenon
<1>2. put \in {None, Nothing} /\ (put = Nothing <=> c.put = Nothing)
  BY CallsAssumption DEF Nothing
<1>3. Meson!Out(c, r) = o
  BY Zenon DEF Meson!Out, Meson!Nothing, Nothing
<1> HIDE DEF applied, put
<1>4. o \in Calls
  BY <1>1, <1>2, IdleTyped, CallsExcept DEF Places
<1>5. /\ o.kind = c.kind /\ o.at = "close" /\ o.fd = c.fd /\ o.nested = -1 /\ o.asked = Nothing
      /\ o.put = put /\ o.ret = r /\ o.applied = applied /\ o.count = c.count
  BY DEF Calls
<1> HIDE DEF o
<1>6. CountOK(o)
  BY <1>5 DEF CallOK, CountOK
<1>7. RequestOK(o)
  BY <1>1, <1>2, <1>5, CallsAssumption DEF CallOK, RequestOK, Nothing
<1>8. DeviceOK(o)
  BY <1>5 DEF DeviceOK, Empty
<1>9. QED
  BY <1>3, <1>4, <1>5, <1>6, <1>7, <1>8 DEF CallOK

LEMMA ReturnedOK ==
  ASSUME NEW c \in Calls, CallOK(c)
  PROVE  /\ Returned(c) \in Calls
         /\ CallOK(Returned(c))
         /\ Returned(c).at = "return"
         /\ Returned(c).fd = -1 /\ Returned(c).nested = -1
<1> DEFINE put == IF c.put = Nothing THEN Nothing ELSE None
           o == [Idle EXCEPT !.kind = c.kind, !.at = "return", !.ret = c.ret, !.applied = c.applied,
                             !.put = put]
<1>1. put \in {None, Nothing} /\ (put = Nothing <=> c.put = Nothing)
  BY CallsAssumption DEF Nothing
<1>2. Returned(c) = o
  BY Zenon DEF Returned
<1>3. /\ c.kind \in Kinds /\ c.ret \in {0, -1} /\ c.applied \in BOOLEAN
  BY DEF Calls
<1> HIDE DEF put
<1>4. o \in Calls
  BY <1>1, <1>3, IdleTyped, CallsExcept DEF Places
<1>5. /\ o.kind = c.kind /\ o.at = "return" /\ o.fd = -1 /\ o.nested = -1 /\ o.asked = Nothing
      /\ o.put = put /\ o.ret = c.ret /\ o.applied = c.applied /\ o.count = 0
  BY DEF Idle
<1> HIDE DEF o
<1>6. CountOK(o)
  BY <1>5, SettingsAssumption DEF CountOK
<1>7. RequestOK(o)
  BY <1>1, <1>5, CallsAssumption DEF CallOK, RequestOK, Nothing
<1>8. DeviceOK(o)
  BY <1>5 DEF DeviceOK, Empty
<1>9. QED
  BY <1>2, <1>4, <1>5, <1>6, <1>7, <1>8 DEF CallOK

\* The shared helpers are the same through each instance.
LEMMA SameSteps ==
  ASSUME NEW t, NEW c, NEW d, NEW m
  PROVE  /\ Meson!Goes(t, c) <=> Goes(t, c)
         /\ Westeros!Goes(t, c) <=> Goes(t, c)
         /\ Attributes!Goes(t, c) <=> Goes(t, c)
         /\ Meson!Returned(c) = Returned(c)
         /\ Westeros!Returned(c) = Returned(c)
         /\ Attributes!Returned(c) = Returned(c)
         /\ Meson!Closes(d) <=> Closes(d)
         /\ Attributes!Closes(d) <=> Closes(d)
         /\ Meson!OpensAs(t, d, m) <=> OpensAs(t, d, m)
         /\ Attributes!OpensAs(t, d, m) <=> OpensAs(t, d, m)
         /\ Meson!Usable(d) <=> Usable(d)
         /\ Attributes!Usable(d) <=> Usable(d)
         /\ Meson!Applied(c) = Applied(c)
         /\ Westeros!Applied(c) = Applied(c)
<1>1. /\ Meson!Goes(t, c) <=> Goes(t, c)
      /\ Westeros!Goes(t, c) <=> Goes(t, c)
      /\ Attributes!Goes(t, c) <=> Goes(t, c)
  BY Zenon DEF Meson!Goes, Westeros!Goes, Attributes!Goes, Goes
<1>2. /\ Meson!Returned(c) = Returned(c)
      /\ Westeros!Returned(c) = Returned(c)
      /\ Attributes!Returned(c) = Returned(c)
  BY Zenon DEF Meson!Returned, Westeros!Returned, Attributes!Returned, Returned, Meson!Idle, Westeros!Idle,
     Attributes!Idle, Idle, Meson!Nothing, Westeros!Nothing, Attributes!Nothing, Nothing
<1>3. Meson!Closes(d) <=> Closes(d)
  BY Zenon DEF Meson!Closes, Closes, Meson!Fds, Fds, Meson!Free, Free
<1>4. Attributes!Closes(d) <=> Closes(d)
  BY Zenon DEF Attributes!Closes, Closes, Attributes!Fds, Fds, Attributes!Free, Free
<1>5. Meson!OpensAs(t, d, m) <=> OpensAs(t, d, m)
  BY Zenon DEF Meson!OpensAs, OpensAs, Meson!LowestFd, LowestFd, Meson!FreeFds, FreeFds, Meson!Fds, Fds,
     Meson!Free, Free
<1>6. Attributes!OpensAs(t, d, m) <=> OpensAs(t, d, m)
  BY Zenon DEF Attributes!OpensAs, OpensAs, Attributes!LowestFd, LowestFd, Attributes!FreeFds, FreeFds,
     Attributes!Fds, Fds, Attributes!Free, Free
<1>7. (Meson!Usable(d) <=> Usable(d)) /\ (Attributes!Usable(d) <=> Usable(d))
  BY Zenon DEF Meson!Usable, Attributes!Usable, Usable, Meson!Fds, Attributes!Fds, Fds
<1>8. Meson!Applied(c) = Applied(c) /\ Westeros!Applied(c) = Applied(c)
  BY Zenon DEF Meson!Applied, Westeros!Applied, Applied
<1>9. QED
  BY Zenon, <1>1, <1>2, <1>3, <1>4, <1>5, <1>6, <1>7, <1>8

\* What the invariant says of one call.
LEMMA CallFacts ==
  ASSUME IInv, NEW t \in Callers
  PROVE  /\ call[t] \in Calls /\ CallOK(call[t])
         /\ call[t].fd = 0 => failedEarly \/ Unopened(call[t])
         /\ call[t].at # "ioctl" => call[t].nested = -1
         /\ failedEarly \in BOOLEAN /\ DisplayInv
BY DEF IInv, TypeInv, CallInv, CallOK, DeviceOK, DescInv, Kept

\* A setter that goes to its way out.
LEMMA GoesOut ==
  ASSUME IInv, NEW t \in Callers, NEW r \in {0, -1}, Meson!Goes(t, Meson!Out(call[t], r)),
         call[t].at # "ioctl", call[t].fd = 0 => failedEarly',
         r = 0 /\ call[t].put = Nothing => call[t].kind = "mode",
         \/ UNCHANGED master
         \/ master' \in Fds /\ (~failedEarly => descriptors[master'] = t),
         UNCHANGED <<backend, descriptors>>,
         failedEarly' \in BOOLEAN, failedEarly => failedEarly', DisplayInv'
  PROVE  IInv'
<1> DEFINE o == Meson!Out(call[t], r)
<1>1. Goes(t, o)
  BY SameSteps
<1>2. o \in Calls /\ CallOK(o) /\ o.at = "close" /\ o.fd = call[t].fd /\ o.nested = call[t].nested
  BY CallFacts, OutOK
<1> HIDE DEF o
<1>3. QED
  BY <1>1, <1>2, GoesOn

LEMMA MesonOpen ==
  ASSUME IInv, NEW t \in Callers, Meson!display_meson_set_open(t)
  PROVE  IInv'
<1> DEFINE k == call[t]
           place == IF k.kind \in {"direct", "alloc_first"} THEN "fill" ELSE "alloc"
           c(d) == [k EXCEPT !.fd = d, !.at = place]
           newMaster(d) == IF master = None THEN d ELSE master
<1>1. PICK d \in Fds \cup {-1} : OpensAs(t, d, newMaster(d)) /\ Goes(t, c(d))
  BY SameSteps DEF Meson!display_meson_set_open, Meson!Opens, Meson!Fds, Fds
<1>2. k.at = "open" /\ UNCHANGED <<backend, failedEarly, display>>
  BY DEF Meson!display_meson_set_open, Meson!At
<1>3. k \in Calls /\ CallOK(k) /\ k.nested = -1
  BY <1>2, CallFacts
<1>4. place \in {"fill", "alloc"} /\ (place = "alloc" => k.kind \notin {"direct", "alloc_first"})
  OBVIOUS
<1>5. newMaster(d) \in {d, master}
  OBVIOUS
<1> HIDE DEF k, place, newMaster
<1>6. c(d) \in Calls
  BY <1>3, <1>4, CallsExcept DEF Places
<1>7. /\ c(d).fd = d /\ c(d).at = place /\ c(d).nested = -1 /\ c(d).kind = k.kind
      /\ c(d).asked = k.asked /\ c(d).put = k.put /\ c(d).ret = k.ret /\ c(d).count = k.count
      /\ c(d).applied = k.applied
  BY <1>3 DEF Calls
<1> HIDE DEF c
<1>8. CallOK(c(d))
  BY <1>2, <1>3, <1>4, <1>7 DEF CallOK, CountOK, RequestOK, DeviceOK, Empty
<1>9. k.fd \in {-1, 0}
  BY <1>2, <1>3 DEF CallOK, DeviceOK
<1>10. call[t] = k
  BY DEF k
<1>11. QED
  BY <1>1, <1>2, <1>3, <1>4, <1>5, <1>6, <1>7, <1>8, <1>9, <1>10, HasOpened

LEMMA MesonAlloc ==
  ASSUME IInv, NEW t \in Callers, Meson!Alloc(t)
  PROVE  IInv'
<1> DEFINE k == call[t]
           place == IF k.kind = "alloc_first" THEN "open" ELSE "fill"
<1>1. /\ k.at = "alloc" /\ UNCHANGED <<backend, descriptors, master, display>>
      /\ \/ Goes(t, [k EXCEPT !.put = Nothing, !.at = place]) /\ UNCHANGED failedEarly
         \/ /\ k.kind = "auto" /\ Goes(t, [k EXCEPT !.at = "fill"])
            /\ failedEarly' = (failedEarly \/ k.kind = "alloc_first")
         \/ /\ k.kind # "auto" /\ Meson!Goes(t, Meson!Out(k, -1))
            /\ failedEarly' = (failedEarly \/ k.kind = "alloc_first")
  BY Zenon, SameSteps DEF Meson!Alloc, Meson!At, Meson!Nothing, Nothing
<1>2. /\ k \in Calls /\ CallOK(k) /\ k.nested = -1 /\ (k.fd = 0 => failedEarly \/ Unopened(k))
      /\ failedEarly \in BOOLEAN /\ DisplayInv'
  BY <1>1, CallFacts DEF DisplayInv
<1>3. place \in {"open", "fill"} /\ (place = "open" <=> k.kind = "alloc_first")
  OBVIOUS
<1>4. call[t] = k
  OBVIOUS
<1> HIDE DEF k, place
<1>5. CASE Goes(t, [k EXCEPT !.put = Nothing, !.at = place]) /\ UNCHANGED failedEarly
  <2> DEFINE c == [k EXCEPT !.put = Nothing, !.at = place]
  <2>1. c \in Calls
    BY <1>2, <1>3, IdleTyped, CallsExcept DEF Places
  <2>2. /\ c.fd = k.fd /\ c.at = place /\ c.nested = -1 /\ c.kind = k.kind /\ c.asked = k.asked
        /\ c.put = Nothing /\ c.ret = k.ret /\ c.count = k.count /\ c.applied = k.applied
    BY <1>2 DEF Calls
  <2>3. Goes(t, c)
    BY <1>5
  <2> HIDE DEF c
  <2>4. CallOK(c)
    BY <1>1, <1>2, <1>3, <2>2 DEF CallOK, CountOK, RequestOK, DeviceOK, Empty
  <2>5. c.fd = 0 /\ ~failedEarly' => Unopened(c)
    BY <1>2, <1>3, <1>5, <2>2 DEF Unopened
  <2>6. QED
    BY <1>1, <1>2, <1>3, <1>4, <1>5, <2>1, <2>2, <2>3, <2>4, <2>5, GoesOn
<1>6. CASE k.kind = "auto" /\ Goes(t, [k EXCEPT !.at = "fill"])
           /\ failedEarly' = (failedEarly \/ k.kind = "alloc_first")
  <2> DEFINE c == [k EXCEPT !.at = "fill"]
  <2>1. c \in Calls
    BY <1>2, CallsExcept DEF Places
  <2>2. /\ c.fd = k.fd /\ c.at = "fill" /\ c.nested = -1 /\ c.kind = k.kind /\ c.asked = k.asked
        /\ c.put = k.put /\ c.ret = k.ret /\ c.count = k.count /\ c.applied = k.applied
    BY <1>2 DEF Calls
  <2>3. Goes(t, c) /\ (failedEarly' <=> failedEarly) /\ failedEarly' \in BOOLEAN
    BY <1>2, <1>6
  <2> HIDE DEF c
  <2>4. CallOK(c)
    BY <1>1, <1>2, <2>2 DEF CallOK, CountOK, RequestOK, DeviceOK, Empty
  <2>5. c.fd = 0 => failedEarly
    BY <1>2, <1>6, <2>2 DEF Unopened
  <2>6. QED
    BY <1>1, <1>2, <1>4, <2>1, <2>2, <2>3, <2>4, <2>5, GoesOn
<1>7. CASE /\ k.kind # "auto" /\ Meson!Goes(t, Meson!Out(k, -1))
           /\ failedEarly' = (failedEarly \/ k.kind = "alloc_first")
  <2>1. /\ failedEarly' \in BOOLEAN /\ (failedEarly => failedEarly')
        /\ k.kind = "alloc_first" => failedEarly'
    BY <1>2, <1>7, Zenon
  <2>2. k.fd = 0 => failedEarly'
    BY <1>2, <2>1 DEF Unopened
  <2>3. QED
    BY <1>1, <1>2, <1>4, <1>7, <2>1, <2>2, GoesOut
<1>8. QED
  BY <1>1, <1>5, <1>6, <1>7

\* A setter that has opened the device goes on to another place.
LEMMA GoesTo ==
  ASSUME IInv, NEW t \in Callers, NEW place \in {"master", "commit", "crashed"},
         NEW put \in {call[t].put, call[t].asked},
         call[t].at \in {"fill", "master"},
         put = Nothing /\ place # "crashed" => call[t].kind = "mode",
         call[t].kind = "direct" => put = None,
         Goes(t, [call[t] EXCEPT !.put = put, !.at = place]),
         UNCHANGED <<backend, descriptors, master, failedEarly, display>>
  PROVE  IInv'
<1> DEFINE k == call[t]
           c == [k EXCEPT !.put = put, !.at = place]
<1>1. k \in Calls /\ CallOK(k) /\ k.nested = -1 /\ (k.fd = 0 => failedEarly) /\ DisplayInv'
      /\ failedEarly \in BOOLEAN
  BY CallFacts DEF DisplayInv, Unopened
<1>2. put \in Requests \cup {None}
  BY <1>1 DEF Calls
<1>3. c \in Calls
  BY <1>1, <1>2, CallsExcept DEF Places
<1>4. /\ c.fd = k.fd /\ c.at = place /\ c.nested = -1 /\ c.kind = k.kind /\ c.asked = k.asked
      /\ c.put = put /\ c.ret = k.ret /\ c.count = k.count /\ c.applied = k.applied
  BY <1>1 DEF Calls
<1>5. Goes(t, c)
  OBVIOUS
<1>6. call[t] = k
  OBVIOUS
<1> HIDE DEF c, k
<1>7. CallOK(c)
  BY <1>1, <1>4, <1>6 DEF CallOK, CountOK, RequestOK, DeviceOK, Empty
<1>8. QED
  BY <1>1, <1>3, <1>4, <1>5, <1>6, <1>7, GoesOn

\* Giving a variable the value it has changes nothing.
LEMMA SamePut ==
  ASSUME NEW c \in Calls, NEW place
  PROVE  [c EXCEPT !.at = place] = [c EXCEPT !.put = c.put, !.at = place]
BY DEF Calls

LEMMA MesonFill ==
  ASSUME IInv, NEW t \in Callers, Meson!Fill(t)
  PROVE  IInv'
<1> DEFINE k == call[t]
           place == IF k.kind \in {"mode", "dummy"} THEN "master" ELSE "commit"
<1>1. /\ k.at = "fill" /\ k.kind # "direct" /\ place \in {"master", "commit"}
      /\ Goes(t, [k EXCEPT !.put = k.asked, !.at = place])
      /\ UNCHANGED <<backend, descriptors, master, failedEarly, display>>
  BY SameSteps DEF Meson!Fill, Meson!At
<1>2. k.asked # Nothing
  BY <1>1, CallFacts DEF CallOK, RequestOK
<1> HIDE DEF place
<1>3. QED
  BY <1>1, <1>2, GoesTo

LEMMA MesonFillFails ==
  ASSUME IInv, NEW t \in Callers, Meson!FillFails(t)
  PROVE  IInv'
<1> DEFINE k == call[t]
<1>1. /\ k.at = "fill" /\ k.kind # "direct"
      /\ \/ k.kind = "mode" /\ Goes(t, [k EXCEPT !.at = "master"])
         \/ Meson!Goes(t, Meson!Out(k, -1))
      /\ UNCHANGED <<backend, descriptors, master, failedEarly, display>>
  BY Zenon, SameSteps DEF Meson!FillFails, Meson!At
<1>2. k \in Calls /\ (k.fd = 0 => failedEarly) /\ failedEarly \in BOOLEAN /\ DisplayInv'
  BY <1>1, CallFacts DEF DisplayInv, Unopened
<1>3. CASE k.kind = "mode" /\ Goes(t, [k EXCEPT !.at = "master"])
  BY <1>1, <1>2, <1>3, SamePut, GoesTo
<1>4. CASE Meson!Goes(t, Meson!Out(k, -1))
  BY <1>1, <1>2, <1>4, GoesOut
<1>5. QED
  BY <1>1, <1>3, <1>4

LEMMA MesonFillFromNowhere ==
  ASSUME IInv, NEW t \in Callers, Meson!FillFromNowhere(t)
  PROVE  IInv'
<1> DEFINE k == call[t]
<1>1. /\ k.at = "fill" /\ k.kind = "auto"
      /\ \/ Goes(t, [k EXCEPT !.at = "crashed"])
         \/ Goes(t, [k EXCEPT !.put = k.asked, !.at = "commit"])
      /\ UNCHANGED <<backend, descriptors, master, failedEarly, display>>
  BY Zenon, SameSteps DEF Meson!FillFromNowhere, Meson!At
<1>2. k \in Calls /\ k.asked # Nothing
  BY <1>1, CallFacts DEF CallOK, RequestOK
<1>3. CASE Goes(t, [k EXCEPT !.at = "crashed"])
  BY <1>1, <1>2, <1>3, SamePut, GoesTo
<1>4. CASE Goes(t, [k EXCEPT !.put = k.asked, !.at = "commit"])
  BY <1>1, <1>2, <1>4, GoesTo
<1>5. QED
  BY <1>1, <1>3, <1>4

LEMMA MesonSetDirectly ==
  ASSUME IInv, NEW t \in Callers, Meson!SetDirectly(t)
  PROVE  IInv'
<1> DEFINE k == call[t]
<1>1. /\ k.at = "fill" /\ k.kind = "direct"
      /\ Meson!Goes(t, Meson!Out(k, 0)) \/ Meson!Goes(t, Meson!Out(k, -1))
      /\ UNCHANGED <<backend, descriptors, master, failedEarly, display>>
  BY DEF Meson!SetDirectly, Meson!At
<1>2. /\ (k.fd = 0 => failedEarly) /\ failedEarly \in BOOLEAN /\ DisplayInv'
  BY <1>1, CallFacts DEF DisplayInv, Unopened
<1>3. k.put # Nothing
  BY <1>1, CallFacts, CallsAssumption DEF CallOK, RequestOK, Nothing
<1>4. QED
  BY <1>1, <1>2, <1>3, GoesOut

LEMMA MesonBecomeMaster ==
  ASSUME IInv, NEW t \in Callers, Meson!BecomeMaster(t)
  PROVE  IInv'
<1> DEFINE k == call[t]
<1>1. /\ k.at = "master"
      /\ \/ Goes(t, [k EXCEPT !.at = "commit"]) /\ UNCHANGED master
         \/ /\ Usable(k.fd) /\ master' = k.fd
            /\ \/ Meson!Goes(t, Meson!Out(k, -1))
               \/ k.count + 1 # 3 /\ Goes(t, [k EXCEPT !.count = k.count + 1])
      /\ UNCHANGED <<backend, descriptors, failedEarly, display>>
  BY Zenon, SameSteps DEF Meson!BecomeMaster, Meson!At, Meson!IsMaster, Meson!MAX_RETRY
<1>2. /\ k \in Calls /\ CallOK(k) /\ k.nested = -1 /\ (k.fd = 0 => failedEarly)
      /\ failedEarly \in BOOLEAN /\ DisplayInv'
  BY <1>1, CallFacts DEF DisplayInv, Unopened
<1>3. ASSUME Usable(k.fd), ~failedEarly PROVE descriptors[k.fd] = t
  <2>1. k.fd \in Fds /\ k.fd # 0
    BY <1>2, <1>3 DEF Usable
  <2>2. Kept(t)
    BY <1>3 DEF IInv, DescInv
  <2>3. QED
    BY <2>1, <2>2 DEF Kept
<1>4. CASE Goes(t, [k EXCEPT !.at = "commit"]) /\ UNCHANGED master
  <2>1. k.put = Nothing => k.kind = "mode"
    BY <1>1, <1>2 DEF CallOK, RequestOK
  <2>2. k.kind = "direct" => k.put = None
    BY <1>2 DEF CallOK, RequestOK
  <2>3. QED
    BY <1>1, <1>2, <1>4, <2>1, <2>2, SamePut, GoesTo
<1>5. CASE Usable(k.fd) /\ master' = k.fd /\ Meson!Goes(t, Meson!Out(k, -1))
  BY <1>1, <1>2, <1>3, <1>5, GoesOut DEF Usable
<1>6. CASE /\ Usable(k.fd) /\ master' = k.fd
           /\ k.count + 1 # 3 /\ Goes(t, [k EXCEPT !.count = k.count + 1])
  <2> DEFINE c == [k EXCEPT !.count = k.count + 1]
  <2>1. c \in Calls
    BY <1>2 DEF Calls
  <2>2. /\ c.fd = k.fd /\ c.at = "master" /\ c.nested = -1 /\ c.kind = k.kind /\ c.asked = k.asked
        /\ c.put = k.put /\ c.ret = k.ret /\ c.count = k.count + 1 /\ c.applied = k.applied
    BY <1>1, <1>2 DEF Calls
  <2>3. Goes(t, c) /\ call[t] = k
    BY <1>6
  <2> HIDE DEF c, k
  <2>4. CountOK(c)
    BY <1>1, <1>2, <1>6, <2>2 DEF CallOK, CountOK
  <2>5. CallOK(c)
    BY <1>1, <1>2, <2>2, <2>4 DEF CallOK, RequestOK, DeviceOK, Empty
  <2>6. QED
    BY <1>1, <1>2, <1>3, <1>6, <2>1, <2>2, <2>3, <2>5, GoesOn DEF Usable
<1>7. QED
  BY <1>1, <1>4, <1>5, <1>6

LEMMA MesonCommit ==
  ASSUME IInv, NEW t \in Callers, Meson!Commit(t)
  PROVE  IInv'
<1> DEFINE k == call[t]
<1>1. /\ k.at = "commit" /\ k.put # None /\ display' = Applied(k.put)
      /\ Meson!Goes(t, Meson!Out(k, 0))
      /\ UNCHANGED <<backend, descriptors, master, failedEarly>>
  BY SameSteps DEF Meson!Commit, Meson!At
<1>2. /\ k \in Calls /\ CallOK(k) /\ (k.fd = 0 => failedEarly) /\ failedEarly \in BOOLEAN /\ DisplayInv
  BY <1>1, CallFacts DEF Unopened
<1>3. k.put \in Requests
  BY <1>1, <1>2 DEF Calls
<1>4. DisplayInv'
  BY <1>1, <1>2, <1>3, RequestsFair, AppliedFair
<1>5. k.put = Nothing => k.kind = "mode"
  BY <1>1, <1>2 DEF CallOK, RequestOK
<1>6. QED
  BY <1>1, <1>2, <1>4, <1>5, GoesOut

LEMMA MesonCommitFails ==
  ASSUME IInv, NEW t \in Callers, Meson!CommitFails(t)
  PROVE  IInv'
<1> DEFINE k == call[t]
<1>1. /\ k.at = "commit" /\ Meson!Goes(t, Meson!Out(k, -1))
      /\ UNCHANGED <<backend, descriptors, master, failedEarly, display>>
  BY DEF Meson!CommitFails, Meson!At
<1>2. (k.fd = 0 => failedEarly) /\ failedEarly \in BOOLEAN /\ DisplayInv'
  BY <1>1, CallFacts DEF Unopened, DisplayInv
<1>3. QED
  BY <1>1, <1>2, GoesOut

\* A call closes the device and returns.
LEMMA ClosesAndReturns ==
  ASSUME IInv, NEW t \in Callers, call[t].at \in {"close", "get_close"},
         Closes(call[t].fd), Goes(t, Returned(call[t])),
         UNCHANGED <<backend, failedEarly, display>>
  PROVE  IInv'
<1> DEFINE k == call[t]
           c == Returned(k)
<1>1. k \in Calls /\ CallOK(k) /\ k.nested = -1 /\ (k.fd = 0 => failedEarly)
  BY CallFacts DEF Unopened
<1>2. c \in Calls /\ CallOK(c) /\ c.at = "return" /\ c.fd = -1 /\ c.nested = -1
  BY <1>1, ReturnedOK
<1>3. k.fd \in Fds \cup {-1}
  BY <1>1 DEF Calls
<1>4. Goes(t, c) /\ call[t] = k
  OBVIOUS
<1> HIDE DEF k, c
<1>5. QED
  BY <1>1, <1>2, <1>3, <1>4, HasClosed

LEMMA MesonStep ==
  ASSUME IInv, NEW t \in Callers, Meson!Step(t)
  PROVE  IInv'
<1>1. CASE Meson!Close(t)
  <2>1. /\ call[t].at = "close" /\ Closes(call[t].fd) /\ Goes(t, Returned(call[t]))
        /\ UNCHANGED <<backend, failedEarly, display>>
    BY <1>1, SameSteps DEF Meson!Close, Meson!At
  <2>2. QED
    BY <2>1, ClosesAndReturns
<1>2. QED
  BY Zenon, <1>1, MesonOpen, MesonAlloc, MesonFill, MesonFillFails, MesonFillFromNowhere, MesonSetDirectly,
     MesonBecomeMaster, MesonCommit, MesonCommitFails DEF Meson!Step

-----------------------------------------------------------------------------
(* The steps of a setter over westeros.                                    *)

\* A call that holds nothing goes on.
LEMMA GoesEmpty ==
  ASSUME IInv, NEW t \in Callers, NEW c \in Calls, CallOK(c), Goes(t, c),
         call[t].at \in {"lookup", "directory", "send"}, c.fd = -1, c.nested = -1, c.at # "query",
         UNCHANGED <<backend, descriptors, master, failedEarly>>, DisplayInv'
  PROVE  IInv'
<1>1. call[t].fd = -1 /\ call[t].nested = -1 /\ failedEarly \in BOOLEAN
  BY CallFacts DEF CallOK, DeviceOK, Empty
<1>2. QED
  BY <1>1, GoesOn

\* A message ends: what is returned is what the setter makes of the answer.
LEMMA EndsOK ==
  ASSUME IInv, NEW t \in Callers, NEW c \in Calls, CallOK(c), NEW r \in {0, -1},
         r = 0 => c.applied, call[t].at = "send", Westeros!Ends(t, c, r),
         UNCHANGED <<backend, descriptors, master, failedEarly>>, DisplayInv'
  PROVE  IInv'
<1> DEFINE ret == IF c.kind = "careless" THEN 0 ELSE IF c.kind = "no_return" THEN c.ret ELSE r
           put == IF c.put = Nothing THEN Nothing ELSE None
           o == [Idle EXCEPT !.kind = c.kind, !.at = "return", !.ret = ret, !.applied = c.applied,
                             !.put = put]
<1>1. /\ ret \in {0, -1}
      /\ ret = 0 => c.kind \in {"careless", "no_return"} \/ c.applied
  BY DEF Calls
<1>2. put \in {None, Nothing} /\ (put = Nothing <=> c.put = Nothing)
  BY CallsAssumption DEF Nothing
<1>3. Goes(t, o)
  <2>1. Goes(t, Returned([c EXCEPT !.ret = ret]))
    BY SameSteps DEF Westeros!Ends
  <2>2. /\ [c EXCEPT !.ret = ret].kind = c.kind /\ [c EXCEPT !.ret = ret].ret = ret
        /\ [c EXCEPT !.ret = ret].applied = c.applied /\ [c EXCEPT !.ret = ret].put = c.put
    <3> HIDE DEF ret
    <3>1. QED
      BY DEF Calls
  <2> HIDE DEF ret
  <2>3. Returned([c EXCEPT !.ret = ret]) = o
    BY <2>2 DEF Returned
  <2>4. QED
    BY <2>1, <2>3
<1> HIDE DEF ret, put
<1>4. c.kind \in Kinds /\ c.applied \in BOOLEAN
  BY DEF Calls
<1>5. o \in Calls
  BY <1>1, <1>2, <1>4, IdleTyped, CallsExcept DEF Places
<1>6. /\ o.kind = c.kind /\ o.at = "return" /\ o.fd = -1 /\ o.nested = -1 /\ o.asked = Nothing
      /\ o.put = put /\ o.ret = ret /\ o.applied = c.applied /\ o.count = 0
  BY DEF Idle
<1> HIDE DEF o
<1>7. CountOK(o)
  BY <1>6, SettingsAssumption DEF CountOK
<1>8. RequestOK(o)
  BY <1>1, <1>2, <1>6, CallsAssumption DEF CallOK, RequestOK, Nothing
<1>9. DeviceOK(o)
  BY <1>6 DEF DeviceOK, Empty
<1>10. QED
  BY <1>3, <1>5, <1>6, <1>7, <1>8, <1>9, GoesEmpty DEF CallOK

LEMMA WesterosStep ==
  ASSUME IInv, NEW t \in Callers, Westeros!Step(t)
  PROVE  IInv'
<1> DEFINE k == call[t]
<1>1. k \in Calls /\ CallOK(k) /\ DisplayInv
  BY CallFacts
<1>2. k.at \in {"lookup", "directory", "send"} => k.fd = -1 /\ k.nested = -1
  BY CallFacts DEF CallOK, DeviceOK, Empty
<1>3. CASE Westeros!LookupFails(t)
  <2> DEFINE c == Returned(k)
  <2>1. /\ k.at = "lookup" /\ Goes(t, c)
        /\ UNCHANGED <<backend, descriptors, master, failedEarly, display>>
    BY <1>3, SameSteps DEF Westeros!LookupFails, Westeros!At
  <2>2. c \in Calls /\ CallOK(c) /\ c.at = "return" /\ c.fd = -1 /\ c.nested = -1
    BY <1>1, ReturnedOK
  <2> HIDE DEF c
  <2>3. QED
    BY <1>1, <2>1, <2>2, GoesEmpty DEF DisplayInv
<1>4. CASE Westeros!Lookup(t)
  <2> DEFINE c == [k EXCEPT !.at = "directory"]
  <2>1. /\ k.at = "lookup" /\ Goes(t, c)
        /\ UNCHANGED <<backend, descriptors, master, failedEarly, display>>
    BY <1>4, SameSteps DEF Westeros!Lookup, Westeros!At
  <2>2. c \in Calls
    BY <1>1, CallsExcept DEF Places
  <2>3. /\ c.fd = -1 /\ c.at = "directory" /\ c.nested = -1 /\ c.kind = k.kind /\ c.asked = k.asked
        /\ c.put = k.put /\ c.ret = k.ret /\ c.count = k.count /\ c.applied = k.applied
    BY <1>1, <1>2, <2>1 DEF Calls
  <2> HIDE DEF c
  <2>4. CallOK(c)
    BY <1>1, <2>1, <2>3 DEF CallOK, CountOK, RequestOK, DeviceOK, Empty
  <2>5. QED
    BY <1>1, <2>1, <2>2, <2>3, <2>4, GoesEmpty DEF DisplayInv
<1>5. CASE Westeros!Directory(t)
  <2>1. PICK dir \in Dirs : Goes(t, [k EXCEPT !.at = "send", !.dir = dir])
    BY <1>5, SameSteps DEF Westeros!Directory, Westeros!Dirs, Dirs
  <2>2. k.at = "directory" /\ UNCHANGED <<backend, descriptors, master, failedEarly, display>>
    BY <1>5 DEF Westeros!Directory, Westeros!At
  <2> DEFINE c == [k EXCEPT !.at = "send", !.dir = dir]
  <2>3. c \in Calls
    BY <1>1, CallsExcept DEF Places
  <2>4. /\ c.fd = -1 /\ c.at = "send" /\ c.nested = -1 /\ c.kind = k.kind /\ c.asked = k.asked
        /\ c.put = k.put /\ c.ret = k.ret /\ c.count = k.count /\ c.applied = k.applied
    BY <1>1, <1>2, <2>2 DEF Calls
  <2>5. Goes(t, c)
    BY <2>1
  <2> HIDE DEF c
  <2>6. CallOK(c)
    BY <1>1, <2>2, <2>4 DEF CallOK, CountOK, RequestOK, DeviceOK, Empty
  <2>7. QED
    BY <1>1, <2>2, <2>3, <2>4, <2>5, <2>6, GoesEmpty DEF DisplayInv
<1>6. Applied(k.asked) = display' => DisplayInv'
  <2>1. k.asked \in Requests
    BY <1>1 DEF Calls
  <2>2. QED
    BY <1>1, <2>1, RequestsFair, AppliedFair
<1>7. CASE Westeros!Send(t)
  <2> DEFINE c == [k EXCEPT !.applied = TRUE]
  <2>1. /\ k.at = "send" /\ display' = Applied(k.asked) /\ Westeros!Ends(t, c, 0)
        /\ UNCHANGED <<backend, descriptors, master, failedEarly>>
    BY <1>7, SameSteps DEF Westeros!Send, Westeros!At
  <2>2. c \in Calls
    BY <1>1, CallsExcept
  <2>3. /\ c.fd = k.fd /\ c.at = k.at /\ c.nested = k.nested /\ c.kind = k.kind /\ c.asked = k.asked
        /\ c.put = k.put /\ c.ret = k.ret /\ c.count = k.count /\ c.applied = TRUE
    BY <1>1 DEF Calls
  <2> HIDE DEF c
  <2>4. CallOK(c)
    BY <1>1, <2>3 DEF CallOK, CountOK, RequestOK, DeviceOK, Empty
  <2>5. QED
    BY <1>6, <2>1, <2>2, <2>3, <2>4, EndsOK
<1>8. CASE Westeros!SendFails(t)
  <2> DEFINE c == [k EXCEPT !.dir = "default"]
  <2>1. /\ k.at = "send"
        /\ UNCHANGED display \/ display' = Applied(k.asked)
        /\ Westeros!Ends(t, k, -1) \/ Goes(t, c)
        /\ UNCHANGED <<backend, descriptors, master, failedEarly>>
    BY <1>8, SameSteps DEF Westeros!SendFails, Westeros!At
  <2>2. DisplayInv'
    BY <1>1, <1>6, <2>1 DEF DisplayInv
  <2>3. CASE Westeros!Ends(t, k, -1)
    BY <1>1, <2>1, <2>2, <2>3, EndsOK
  <2>4. CASE Goes(t, c)
    <3>1. c \in Calls
      BY <1>1, CallsExcept DEF Dirs
    <3>2. /\ c.fd = k.fd /\ c.at = k.at /\ c.nested = k.nested /\ c.kind = k.kind /\ c.asked = k.asked
          /\ c.put = k.put /\ c.ret = k.ret /\ c.count = k.count /\ c.applied = k.applied
      BY <1>1 DEF Calls
    <3>3. CallOK(c)
      <4> HIDE DEF c
      <4>1. QED
        BY <1>1, <3>2 DEF CallOK, CountOK, RequestOK, DeviceOK, Empty
    <3>4. QED
      BY <1>2, <2>1, <2>2, <2>4, <3>1, <3>2, <3>3, GoesEmpty
  <2>5. QED
    BY <2>1, <2>3, <2>4
<1>9. QED
  BY Zenon, <1>3, <1>4, <1>5, <1>7, <1>8 DEF Westeros!Step

-----------------------------------------------------------------------------
(* The steps of a getter.                                                  *)

LEMMA GetterOpen ==
  ASSUME IInv, NEW t \in Callers, Attributes!display_meson_get_open(t)
  PROVE  IInv'
<1> DEFINE k == call[t]
           q(d) == [k EXCEPT !.fd = d, !.at = "query"]
           i(d) == [k EXCEPT !.nested = d, !.at = "ioctl"]
<1>1. /\ k.at \in {"get_open", "check"} /\ UNCHANGED <<backend, failedEarly, display>>
      /\ \E d \in Fds \cup {-1} : /\ OpensAs(t, d, master)
                                  /\ \/ k.at = "check" /\ Goes(t, i(d))
                                     \/ k.at = "get_open" /\ Goes(t, q(d))
  BY SameSteps DEF Attributes!display_meson_get_open, Attributes!At, Attributes!Fds, Fds
<1>2. PICK d \in Fds \cup {-1} : /\ OpensAs(t, d, master)
                                 /\ \/ k.at = "check" /\ Goes(t, i(d))
                                    \/ k.at = "get_open" /\ Goes(t, q(d))
  BY <1>1
<1>3. /\ k \in Calls /\ CallOK(k) /\ k.nested = -1 /\ (k.fd = 0 => failedEarly) /\ call[t] = k
  BY <1>1, CallFacts DEF Unopened
<1> HIDE DEF k
<1>4. CASE k.at = "check" /\ Goes(t, i(d))
  <2>1. i(d) \in Calls
    BY <1>3, CallsExcept DEF Places
  <2>2. /\ i(d).fd = k.fd /\ i(d).at = "ioctl" /\ i(d).nested = d /\ i(d).kind = k.kind
        /\ i(d).asked = k.asked /\ i(d).put = k.put /\ i(d).ret = k.ret /\ i(d).count = k.count
        /\ i(d).applied = k.applied
    BY <1>3 DEF Calls
  <2> HIDE DEF i
  <2>3. CallOK(i(d))
    BY <1>3, <1>4, <2>2 DEF CallOK, CountOK, RequestOK, DeviceOK, Empty
  <2>4. QED
    BY <1>1, <1>2, <1>3, <1>4, <2>1, <2>2, <2>3, HasOpened
<1>5. CASE k.at = "get_open" /\ Goes(t, q(d))
  <2>1. q(d) \in Calls
    BY <1>3, CallsExcept DEF Places
  <2>2. /\ q(d).fd = d /\ q(d).at = "query" /\ q(d).nested = -1 /\ q(d).kind = k.kind
        /\ q(d).asked = k.asked /\ q(d).put = k.put /\ q(d).ret = k.ret /\ q(d).count = k.count
        /\ q(d).applied = k.applied
    BY <1>3 DEF Calls
  <2> HIDE DEF q
  <2>3. CallOK(q(d)) /\ k.fd = -1
    BY <1>3, <1>5, <2>2 DEF CallOK, CountOK, RequestOK, DeviceOK, Empty
  <2>4. QED
    BY <1>1, <1>2, <1>3, <1>5, <2>1, <2>2, <2>3, HasOpened
<1>6. QED
  BY <1>2, <1>4, <1>5

LEMMA GetterKeeps ==
  ASSUME IInv, NEW t \in Callers, call[t].at = "query", Attributes!Keeps(t, call[t]),
         UNCHANGED <<backend, failedEarly, display>>
  PROVE  IInv'
<1> DEFINE k == call[t]
           c == Returned(k)
<1>1. c \in Calls /\ CallOK(c) /\ c.at = "return" /\ c.fd = -1 /\ c.nested = -1
  BY CallFacts, ReturnedOK
<1>2. /\ descriptors' = [d \in Fds |-> IF d = k.fd /\ descriptors[d] = t THEN Leaked ELSE descriptors[d]]
      /\ Goes(t, c) /\ UNCHANGED master
  BY SameSteps, Zenon DEF Attributes!Keeps, Attributes!Fds, Fds, Attributes!Leaked, Leaked
<1> HIDE DEF c
<1>3. QED
  BY <1>1, <1>2, HasLeft

LEMMA GetterAsk ==
  ASSUME IInv, NEW t \in Callers, Attributes!Ask(t)
  PROVE  IInv'
<1> DEFINE k == call[t]
           place == IF k.kind = "list" THEN "check" ELSE "get_close"
           c == [k EXCEPT !.at = place]
<1>1. /\ k.at = "query" /\ UNCHANGED <<backend, failedEarly, display>>
      /\ \/ Attributes!Keeps(t, k)
         \/ Goes(t, c) /\ UNCHANGED <<descriptors, master>>
  BY Zenon, SameSteps DEF Attributes!Ask, Attributes!At
<1>2. /\ k \in Calls /\ CallOK(k) /\ k.nested = -1 /\ (k.fd = 0 => failedEarly) /\ call[t] = k
      /\ failedEarly \in BOOLEAN /\ DisplayInv'
  BY <1>1, CallFacts DEF Unopened, DisplayInv
<1>3. CASE Attributes!Keeps(t, k)
  BY <1>1, <1>3, GetterKeeps
<1>4. CASE Goes(t, c) /\ UNCHANGED <<descriptors, master>>
  <2>1. place \in {"check", "get_close"} /\ (place = "check" <=> k.kind = "list")
    OBVIOUS
  <2> HIDE DEF place, k
  <2>2. c \in Calls
    BY <1>2, <2>1, CallsExcept DEF Places
  <2>3. /\ c.fd = k.fd /\ c.at = place /\ c.nested = -1 /\ c.kind = k.kind /\ c.asked = k.asked
        /\ c.put = k.put /\ c.ret = k.ret /\ c.count = k.count /\ c.applied = k.applied
    BY <1>2 DEF Calls
  <2> HIDE DEF c
  <2>4. CallOK(c)
    BY <1>1, <1>2, <2>1, <2>3, SettingsAssumption DEF CallOK, CountOK, RequestOK, DeviceOK, Empty
  <2>5. QED
    BY <1>1, <1>2, <1>4, <2>1, <2>2, <2>3, <2>4, GoesOn
<1>5. QED
  BY <1>1, <1>3, <1>4

LEMMA GetterCheck ==
  ASSUME IInv, NEW t \in Callers, Attributes!modeAttrSupportedCheck(t)
  PROVE  IInv'
<1> DEFINE k == call[t]
           place == IF k.count + 1 = MaxChecks THEN "get_close" ELSE "check"
           opens == [k EXCEPT !.nested = -1, !.at = "open"]
           next == [k EXCEPT !.nested = -1, !.count = k.count + 1, !.at = place]
<1>1. /\ k.at \in {"check", "ioctl"} /\ Closes(k.nested) /\ UNCHANGED <<backend, failedEarly, display>>
      /\ \/ k.kind = "attr" /\ Goes(t, opens)
         \/ k.kind = "attr" /\ Goes(t, Returned(k))
         \/ k.kind # "attr" /\ Goes(t, next)
  BY Zenon, SameSteps DEF Attributes!modeAttrSupportedCheck, Attributes!Checked, Attributes!At
<1>2. /\ k \in Calls /\ CallOK(k) /\ (k.fd = 0 => failedEarly) /\ call[t] = k
  BY <1>1, CallFacts DEF Unopened
<1>3. k.nested \in Fds \cup {-1}
  BY <1>2 DEF Calls
<1>4. k.nested = 0 => failedEarly
  BY DEF IInv, DescInv, Kept
<1> HIDE DEF k
<1>5. CASE k.kind = "attr" /\ Goes(t, opens)
  <2>1. opens \in Calls
    BY <1>2, CallsExcept DEF Places
  <2>2. /\ opens.fd = k.fd /\ opens.at = "open" /\ opens.nested = -1 /\ opens.kind = k.kind
        /\ opens.asked = k.asked /\ opens.put = k.put /\ opens.ret = k.ret /\ opens.count = k.count
        /\ opens.applied = k.applied
    BY <1>2 DEF Calls
  <2> HIDE DEF opens
  <2>3. CallOK(opens)
    BY <1>1, <1>2, <1>5, <2>2 DEF CallOK, CountOK, RequestOK, DeviceOK, Empty
  <2>4. QED
    BY <1>1, <1>2, <1>3, <1>4, <1>5, <2>1, <2>2, <2>3, HasClosed
<1>6. CASE k.kind = "attr" /\ Goes(t, Returned(k))
  <2>1. /\ Returned(k) \in Calls /\ CallOK(Returned(k)) /\ Returned(k).at = "return"
        /\ Returned(k).fd = -1 /\ Returned(k).nested = -1
    BY <1>2, ReturnedOK
  <2>2. k.fd = -1
    BY <1>1, <1>2, <1>6 DEF CallOK, DeviceOK, Empty
  <2>3. QED
    BY <1>1, <1>2, <1>3, <1>4, <1>6, <2>1, <2>2, HasClosed
<1>7. CASE k.kind # "attr" /\ Goes(t, next)
  <2>1. k.kind = "list" /\ k.count \in Nat /\ k.count < MaxChecks
    BY <1>1, <1>2, <1>7 DEF CallOK, CountOK, Calls
  <2>2. k.count + 1 \in Nat /\ place \in {"check", "get_close"}
        /\ (place = "check" => k.count + 1 < MaxChecks) /\ k.count + 1 <= MaxChecks
    BY <2>1, SettingsAssumption
  <2> HIDE DEF place
  <2>3. next \in Calls
    BY <1>2, <2>2, CallsExcept DEF Places
  <2>4. /\ next.fd = k.fd /\ next.at = place /\ next.nested = -1 /\ next.kind = k.kind
        /\ next.asked = k.asked /\ next.put = k.put /\ next.ret = k.ret /\ next.count = k.count + 1
        /\ next.applied = k.applied
    BY <1>2 DEF Calls
  <2> HIDE DEF next
  <2>5. CountOK(next)
    BY <2>1, <2>2, <2>4, SettingsAssumption DEF CountOK
  <2>6. CallOK(next)
    BY <1>1, <1>2, <2>1, <2>2, <2>4, <2>5 DEF CallOK, RequestOK, DeviceOK, Empty
  <2>7. QED
    BY <1>1, <1>2, <1>3, <1>4, <1>7, <2>2, <2>3, <2>4, <2>6, HasClosed
<1>8. QED
  BY <1>1, <1>5, <1>6, <1>7

LEMMA GetterStep ==
  ASSUME IInv, NEW t \in Callers, Attributes!Step(t)
  PROVE  IInv'
<1>1. CASE Attributes!AskFails(t)
  <2>1. /\ call[t].at = "query" /\ Attributes!Keeps(t, call[t])
        /\ UNCHANGED <<backend, failedEarly, display>>
    BY <1>1 DEF Attributes!AskFails, Attributes!At
  <2>2. QED
    BY <2>1, GetterKeeps
<1>2. CASE Attributes!GetClose(t)
  <2>1. /\ call[t].at = "get_close" /\ Closes(call[t].fd) /\ Goes(t, Returned(call[t]))
        /\ UNCHANGED <<backend, failedEarly, display>>
    BY <1>2, SameSteps DEF Attributes!GetClose, Attributes!At
  <2>2. QED
    BY <2>1, ClosesAndReturns
<1>3. QED
  BY Zenon, <1>1, <1>2, GetterOpen, GetterAsk, GetterCheck DEF Attributes!Step

-----------------------------------------------------------------------------
(* The specification.                                                      *)

LEMMA InitIInv == Init => IInv
<1> SUFFICES ASSUME Init PROVE IInv
  OBVIOUS
<1>1. /\ call = [t \in Callers |-> Idle]
      /\ descriptors = [d \in Fds |-> IF d = 0 THEN Std ELSE Free]
      /\ master = None /\ failedEarly = FALSE
      /\ backend \in {"meson", "westeros", "weston"}
  BY DEF Init
<1>2. /\ Idle \in Calls /\ CallOK(Idle)
      /\ Idle.fd = -1 /\ Idle.nested = -1 /\ Idle.at = "idle"
  BY IdleOK
<1>3. TypeInv
  BY <1>1, <1>2 DEF TypeInv
<1>4. CallInv
  BY <1>1, <1>2 DEF CallInv
<1>5. DescInv
  BY <1>1, <1>2, CallsAssumption, IdleTyped DEF DescInv, Kept, Fds, Std, Free
<1>6. DisplayInv
  <2>1. PICK pair \in Pairs : display = Both(Hdr("source", "unknown"), Colors(pair))
    BY CallsAssumption DEF Init
  <2>2. QED
    BY <2>1 DEF DisplayInv, Fair, HdrPaired, OfOnePair, Both, Hdr, Colors
<1>7. QED
  BY <1>3, <1>4, <1>5, <1>6 DEF IInv

LEMMA CompositorStep == IInv /\ Compositor => IInv'
<1> SUFFICES ASSUME IInv, Compositor PROVE IInv'
  OBVIOUS
<1>1. master' \in {None, Peer}
  BY DEF Compositor
<1>2. master' \notin Fds
  BY <1>1, CallsAssumption DEF Fds
<1>3. ASSUME NEW t \in Callers PROVE ~ (call[t].fd \in Fds /\ master' = call[t].fd)
  BY <1>2
<1>4. QED
  BY <1>1, <1>2, <1>3, MasterChanges DEF Compositor

LEMMA ReturnStep ==
  ASSUME IInv, NEW t \in Callers, Return(t)
  PROVE  IInv'
<1>1. call[t].at = "return" /\ Goes(t, Idle)
      /\ UNCHANGED <<backend, descriptors, master, failedEarly, display>>
  BY DEF Return, At
<1>2. /\ Idle \in Calls /\ CallOK(Idle)
      /\ Idle.fd = -1 /\ Idle.nested = -1 /\ Idle.at = "idle"
  BY IdleOK
<1>3. call[t].fd = -1 /\ call[t].nested = -1 /\ failedEarly \in BOOLEAN /\ DisplayInv'
  BY <1>1, CallFacts DEF CallOK, DeviceOK, Empty, DisplayInv
<1> HIDE DEF Idle
<1>4. QED
  BY <1>1, <1>2, <1>3, GoesOn

LEMMA Invariance == Spec => []IInv
<1>1. Init => IInv
  BY InitIInv
<1>2. IInv /\ [Next]_vars => IInv'
  <2>1. CASE UNCHANGED vars
    BY <2>1 DEF vars, IInv, TypeInv, CallInv, DescInv, Kept, DisplayInv, Fds
  <2>2. ASSUME IInv, Next PROVE IInv'
    BY Zenon, <2>2, CompositorStep, MesonSetter, MesonStep, WesterosSetter, WesterosStep, Getter, GetterStep,
       ReturnStep DEF Next
  <2>3. QED
    BY <2>1, <2>2
<1>3. QED
  BY <1>1, <1>2, PTL DEF Spec

\* Every variable keeps its type, and the counters of the retries and of the
\* colours tried stay within their limits.
THEOREM SettingsTypes == Spec => []TypeOK
<1>1. IInv => TypeOK
  <2> SUFFICES ASSUME IInv PROVE TypeOK
    OBVIOUS
  <2>1. ASSUME NEW t \in Callers
        PROVE  /\ call[t].kind \in Kinds
               /\ call[t].fd \in Fds \cup {-1}
               /\ call[t].nested \in Fds \cup {-1}
               /\ call[t].put \in {None, Nothing, call[t].asked}
               /\ call[t].ret \in {0, -1}
               /\ call[t].count \in 0 .. (IF call[t].kind = "list" THEN MaxChecks ELSE Meson!MAX_RETRY)
    <3>1. call[t] \in Calls /\ CallOK(call[t])
      BY CallFacts
    <3>2. call[t].count \in 0 .. (IF call[t].kind = "list" THEN MaxChecks ELSE Meson!MAX_RETRY)
      BY <3>1 DEF CallOK, CountOK, Meson!MAX_RETRY
    <3>3. QED
      BY <3>1, <3>2 DEF Calls, CallOK, RequestOK
  <2>2. QED
    BY <2>1 DEF TypeOK, IInv, TypeInv, DisplayInv
<1>2. QED
  BY <1>1, Invariance, PTL

\* Whatever setters run at the same time, the HDR policy and the force mode belong
\* together, and so do the colour depth and the colour space.
THEOREM SettingsPaired == Spec => []SettingsWhole
<1>1. IInv => SettingsWhole
  <2> SUFFICES ASSUME IInv PROVE SettingsWhole
    OBVIOUS
  <2>1. HdrPaired(display) /\ OfOnePair(display)
    BY DEF IInv, DisplayInv, Fair
  <2>2. PICK pair \in Pairs :
          /\ display["depth"] = pair[1]
          /\ display["space"] = pair[2] \/ (pair[2] = "other" /\ display["space"] = "reserved")
    BY <2>1 DEF OfOnePair
  <2>3. Colors(<<display["depth"], display["space"]>>) \in {Colors(pair), Meson!ColorsAsked(pair)}
    <3>1. CASE display["space"] = pair[2]
      BY <2>2, <3>1 DEF Colors
    <3>2. CASE pair[2] = "other" /\ display["space"] = "reserved"
      BY <2>2, <3>2, SameRequests DEF Colors, Meson!ColorsAsked
    <3>3. QED
      BY <2>2, <3>1, <3>2
  <2>4. QED
    BY <2>1, <2>3 DEF SettingsWhole, HdrPaired
<1>2. QED
  BY <1>1, Invariance, PTL

\* A setter that returns 0 has had its change made, but for those known not to.
THEOREM SettingsDone == Spec => []SuccessMeansSet
<1>1. IInv => SuccessMeansSet
  BY CallFacts DEF SuccessMeansSet, SaysMoreThanItDid, CallOK, RequestOK
<1>2. QED
  BY <1>1, Invariance, PTL

\* Unless an allocation failed before the device was opened, every descriptor that
\* a call opened is held by that call alone, and no other is ever closed.
THEOREM SettingsDescriptors == Spec => []DescriptorsKept
<1>1. IInv => DescriptorsKept
  <2> SUFFICES ASSUME IInv, ~failedEarly PROVE DescriptorsKept
    BY DEF DescriptorsKept
  <2>1. ASSUME NEW t \in Callers PROVE {d \in Fds : descriptors[d] = t} = Holds(t) \ {0}
    <3>1. Kept(t)
      BY DEF IInv, DescInv
    <3>2. call[t].fd \in Fds \cup {-1} /\ call[t].nested \in Fds \cup {-1} /\ -1 \notin Fds
      BY CallFacts DEF Calls, Fds
    <3>3. QED
      BY <3>1, <3>2 DEF Kept, Holds
  <2>2. QED
    BY <2>1 DEF DescriptorsKept, IInv, DescInv
<1>2. QED
  BY <1>1, Invariance, PTL

-----------------------------------------------------------------------------
(* The automatic choice of a mode.                                         *)

\* A set with 0 in it, and the next of each number in it, has them all.
LEMMA UpTo ==
  ASSUME NEW L \in Nat, NEW S, 0 \in S, \A n \in 0 .. L : n + 1 \in 0 .. L /\ n \in S => n + 1 \in S
  PROVE  0 .. L \subseteq S
<1> DEFINE T == (0 .. L) \ S
<1>1. SUFFICES ASSUME T # {} PROVE FALSE
  OBVIOUS
<1>2. PICK b \in T : \A c \in T : b <= c
  <2>1. T \in SUBSET Nat
    OBVIOUS
  <2> HIDE DEF T
  <2>2. QED
    BY <1>1, <2>1, Least
<1>3. b \in 0 .. L /\ b # 0 /\ b - 1 \in 0 .. L /\ (b - 1) + 1 = b
  OBVIOUS
<1>4. b - 1 \in S
  BY <1>2, <1>3
<1>5. QED
  BY <1>3, <1>4

Mode == [area : Nat \ {0}, vrefresh : Nat]

Fits(modes, maxArea, i) == maxArea = 0 \/ modes[i].area <= maxArea

\* b is the best of the first n modes.
BestOf(modes, maxArea, b, n) ==
    /\ b.at \in 0 .. n
    /\ b.at = 0 => b.area = 0 /\ b.vrefresh = 0 /\ \A i \in 1 .. n : ~Fits(modes, maxArea, i)
    /\ b.at # 0 => /\ Fits(modes, maxArea, b.at)
                   /\ b.area = modes[b.at].area /\ b.vrefresh = modes[b.at].vrefresh
                   /\ \A i \in 1 .. n : Fits(modes, maxArea, i) =>
                         \/ modes[i].area < b.area
                         \/ modes[i].area = b.area /\ modes[i].vrefresh <= b.vrefresh

NoMode == [at |-> 0, area |-> 0, vrefresh |-> 0]

\* The loop of setDisplayAutoMode goes over the list, whatever its length.
LEMMA BestModeLoop ==
  ASSUME NEW modes, Len(modes) \in Nat, NEW maxArea
  PROVE  \E best : /\ best[0] = NoMode
                   /\ \A n \in 1 .. Len(modes) : best[n] = Meson!Better(modes, maxArea, best[n - 1], n)
                   /\ Meson!BestMode(modes, maxArea) = best[Len(modes)].at
<1> DEFINE LoopTo(k, f) == f = [n \in 0 .. k |-> IF n = 0 THEN NoMode
                                               ELSE Meson!Better(modes, maxArea, f[n - 1], n)]
           L == Len(modes)
           best == CHOOSE f : LoopTo(L, f)
<1>1. Meson!BestMode(modes, maxArea) = best[L].at
  BY DEF Meson!BestMode, NoMode
<1>2. \E f : LoopTo(L, f)
  <2> DEFINE S == {k \in 0 .. L : \E f : LoopTo(k, f)}
  <2>1. 0 \in S
    <3>1. LoopTo(0, [n \in 0 .. 0 |-> NoMode])
      OBVIOUS
    <3>2. 0 \in 0 .. L
      OBVIOUS
    <3> HIDE DEF LoopTo, L
    <3>3. QED
      BY <3>1, <3>2
  <2>2. ASSUME NEW k \in 0 .. L, k + 1 \in 0 .. L, k \in S
        PROVE  k + 1 \in S
    <3>1. PICK f : LoopTo(k, f)
      BY <2>2
    <3> DEFINE g == [n \in 0 .. k + 1 |-> IF n = k + 1 THEN Meson!Better(modes, maxArea, f[k], k + 1) ELSE f[n]]
    <3>2. ASSUME NEW n \in 0 .. k + 1
          PROVE  g[n] = IF n = 0 THEN NoMode ELSE Meson!Better(modes, maxArea, g[n - 1], n)
      <4>1. CASE n = k + 1
        <5>1. n # 0 /\ n - 1 = k /\ k \in 0 .. k + 1 /\ k # k + 1
          BY <4>1
        <5>2. QED
          BY <4>1, <5>1
      <4>2. CASE n # k + 1
        <5>1. n \in 0 .. k
          BY <4>2
        <5>2. f[n] = IF n = 0 THEN NoMode ELSE Meson!Better(modes, maxArea, f[n - 1], n)
          BY <3>1, <5>1
        <5>3. n # 0 => n - 1 \in 0 .. k + 1 /\ n - 1 # k + 1
          BY <5>1
        <5>4. QED
          BY <4>2, <5>2, <5>3
      <4>3. QED
        BY <4>1, <4>2
    <3>3. g = [n \in 0 .. k + 1 |-> g[n]]
      OBVIOUS
    <3> HIDE DEF g
    <3>4. LoopTo(k + 1, g)
      BY <3>2, <3>3
    <3>5. QED
      BY <2>2, <3>4
  <2> HIDE DEF S
  <2>3. 0 .. L \subseteq S
    BY <2>1, <2>2, UpTo
  <2>4. QED
    BY <2>3 DEF S
<1>3. LoopTo(L, best)
  <2> HIDE DEF LoopTo
  <2>1. QED
    BY <1>2
<1> HIDE DEF best
<1>4. \A n \in 0 .. L : best[n] = IF n = 0 THEN NoMode ELSE Meson!Better(modes, maxArea, best[n - 1], n)
  BY <1>3
<1> HIDE DEF LoopTo
<1>5. best[0] = NoMode /\ \A n \in 1 .. L : best[n] = Meson!Better(modes, maxArea, best[n - 1], n)
  BY <1>4
<1>6. QED
  BY <1>1, <1>5

\* Each turn of the loop keeps the best so far.
LEMMA BetterKeepsBest ==
  ASSUME NEW modes, NEW L \in Nat, \A i \in 1 .. L : modes[i] \in Mode, NEW maxArea \in Nat,
         NEW n \in 0 .. L, n + 1 \in 1 .. L, NEW b, BestOf(modes, maxArea, b, n)
  PROVE  BestOf(modes, maxArea, Meson!Better(modes, maxArea, b, n + 1), n + 1)
<1> DEFINE m == modes[n + 1]
           better == \/ m.area > b.area /\ (maxArea = 0 \/ m.area <= maxArea)
                     \/ m.area = b.area /\ m.vrefresh > b.vrefresh
           d == Meson!Better(modes, maxArea, b, n + 1)
<1>1. d = IF better THEN [at |-> n + 1, area |-> m.area, vrefresh |-> m.vrefresh] ELSE b
  BY Zenon DEF Meson!Better
<1>2. \A i \in 1 .. L : modes[i].area \in Nat /\ modes[i].area # 0 /\ modes[i].vrefresh \in Nat
  BY DEF Mode
<1>3. b.at \in 0 .. n /\ (b.at # 0 => b.at \in 1 .. L)
  BY DEF BestOf
<1>4. b.area \in Nat /\ b.vrefresh \in Nat
  BY <1>2, <1>3 DEF BestOf
<1>5. m.area \in Nat /\ m.area # 0 /\ m.vrefresh \in Nat
  BY <1>2
<1> HIDE DEF d
<1>6. CASE better
  <2>1. d.at = n + 1 /\ d.area = m.area /\ d.vrefresh = m.vrefresh
    BY <1>1, <1>6
  <2>2. Fits(modes, maxArea, n + 1)
    BY <1>3, <1>4, <1>5, <1>6 DEF Fits, BestOf
  <2>3. ASSUME NEW i \in 1 .. n + 1, Fits(modes, maxArea, i)
        PROVE  modes[i].area < m.area \/ (modes[i].area = m.area /\ modes[i].vrefresh <= m.vrefresh)
    <3>1. CASE i = n + 1
      BY <1>5, <3>1
    <3>2. CASE i # n + 1
      <4>1. i \in 1 .. n /\ i \in 1 .. L
        BY <3>2
      <4>2. b.at # 0 /\ (modes[i].area < b.area \/ (modes[i].area = b.area /\ modes[i].vrefresh <= b.vrefresh))
        BY <2>3, <4>1 DEF BestOf
      <4>3. QED
        BY <1>2, <1>4, <1>5, <1>6, <4>1, <4>2
    <3>3. QED
      BY <3>1, <3>2
  <2> HIDE DEF m
  <2>4. QED
    BY <2>1, <2>2, <2>3 DEF BestOf, d, m
<1>7. CASE ~better
  <2>1. d = b
    BY <1>1, <1>7
  <2>2. Fits(modes, maxArea, n + 1) => /\ b.at # 0
                                       /\ m.area < b.area \/ (m.area = b.area /\ m.vrefresh <= b.vrefresh)
    BY <1>3, <1>4, <1>5, <1>7 DEF BestOf, Fits
  <2>3. ASSUME NEW i \in 1 .. n + 1, i \notin 1 .. n PROVE i = n + 1
    BY <2>3
  <2>4. BestOf(modes, maxArea, b, n + 1)
    BY <1>3, <2>2, <2>3 DEF BestOf
  <2>5. QED
    BY <2>1, <2>4 DEF d
<1>8. QED
  BY <1>6, <1>7

\* What the loop is left with is the best of the list.
LEMMA BestModeBest ==
  ASSUME NEW modes \in Seq(Mode), NEW maxArea \in Nat
  PROVE  LET fits == {i \in DOMAIN modes : maxArea = 0 \/ modes[i].area <= maxArea}
             best == Meson!BestMode(modes, maxArea)
         IN  IF best = 0 THEN fits = {}
             ELSE /\ best \in fits
                  /\ \A i \in fits : \/ modes[i].area < modes[best].area
                                     \/ /\ modes[i].area = modes[best].area
                                        /\ modes[i].vrefresh <= modes[best].vrefresh
<1> DEFINE L == Len(modes)
<1>1. L \in Nat /\ DOMAIN modes = 1 .. L /\ \A i \in 1 .. L : modes[i] \in Mode
  <2> HIDE DEF Mode
  <2>1. QED
    OBVIOUS
<1>2. PICK best : /\ best[0] = NoMode
                  /\ \A n \in 1 .. L : best[n] = Meson!Better(modes, maxArea, best[n - 1], n)
                  /\ Meson!BestMode(modes, maxArea) = best[L].at
  BY <1>1, BestModeLoop
<1> HIDE DEF L
<1>3. BestOf(modes, maxArea, best[L], L)
  <2> DEFINE S == {n \in 0 .. L : BestOf(modes, maxArea, best[n], n)}
  <2>1. 0 \in S
    BY <1>1, <1>2 DEF BestOf, NoMode
  <2>2. ASSUME NEW n \in 0 .. L, n + 1 \in 0 .. L, n \in S
        PROVE  n + 1 \in S
    <3>1. n + 1 \in 1 .. L /\ (n + 1) - 1 = n
      BY <1>1, <2>2
    <3>2. best[n + 1] = Meson!Better(modes, maxArea, best[n], n + 1)
      BY <1>2, <3>1
    <3>3. BestOf(modes, maxArea, best[n + 1], n + 1)
      BY <1>1, <2>2, <3>1, <3>2, BetterKeepsBest
    <3>4. QED
      BY <2>2, <3>3
  <2> HIDE DEF S
  <2>3. 0 .. L \subseteq S
    BY <1>1, <2>1, <2>2, UpTo
  <2>4. QED
    BY <1>1, <2>3 DEF S
<1> DEFINE b == Meson!BestMode(modes, maxArea)
<1>4. best[L].at = b
  BY <1>2
<1> HIDE DEF b
<1>5. /\ b \in 0 .. L
      /\ b = 0 => \A i \in 1 .. L : ~Fits(modes, maxArea, i)
      /\ b # 0 => /\ Fits(modes, maxArea, b)
                  /\ \A i \in 1 .. L : Fits(modes, maxArea, i) =>
                        \/ modes[i].area < modes[b].area
                        \/ modes[i].area = modes[b].area /\ modes[i].vrefresh <= modes[b].vrefresh
  BY <1>3, <1>4 DEF BestOf
<1>6. QED
  BY <1>1, <1>5 DEF Fits, b

\* The mode setDisplayAutoMode chooses is the best of those within the limit,
\* whatever the list and the limit.
THEOREM SettingsAutoMode == Spec => []AutoModeBest
<1>1. AutoModeBest
  <2> SUFFICES ASSUME NEW modes \in ModeLists, NEW maxArea \in Limits
               PROVE  LET fits == {i \in DOMAIN modes : maxArea = 0 \/ modes[i].area <= maxArea}
                          best == Meson!BestMode(modes, maxArea)
                      IN  IF best = 0 THEN fits = {}
                          ELSE /\ best \in fits
                               /\ \A i \in fits : \/ modes[i].area < modes[best].area
                                                  \/ /\ modes[i].area = modes[best].area
                                                     /\ modes[i].vrefresh <= modes[best].vrefresh
    BY Zenon DEF AutoModeBest
  <2>1. modes \in Seq(Mode) /\ maxArea \in Nat
    BY SettingsAssumption, Zenon DEF Mode
  <2>2. QED
    BY Zenon, <2>1, BestModeBest
<1>2. QED
  BY <1>1, PTL
=============================================================================
