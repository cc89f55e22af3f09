--------------------------- MODULE DrmSetCrtcProofs ---------------------------
(***************************************************************************)
(* What holds of drm_setcrtc for any connectors, and however often cables  *)
(* are plugged and signals delivered: the resources main reads again and   *)
(* again, the exit code, and who holds main_mutex when a handler may stand *)
(* between any two steps of main.                                          *)
(***************************************************************************)
EXTENDS DrmSetCrtc, TLAPS

\* A frame of signal_handle on the stack.
Frame == [signal : Signals, at : {"lock", "unlock", "signal"}]

\* Main and the handlers hold main_mutex one at a time.
OneHolder ==
    /\ \A i, j \in DOMAIN frames : frames[i].at = "unlock" /\ frames[j].at = "unlock" => i = j
    /\ pc \in {"wait", "unlock"} => \A i \in DOMAIN frames : frames[i].at # "unlock"

\* From the search on, mode is None or lies in the resources last read.
ModeFound ==
    /\ pc = "open" => held = {} /\ ~opened
    /\ pc = "find" => held # {} /\ mode \in {"in_resources", None}
    /\ pc = "again" /\ ~need_wait_connection => mode = "in_resources" /\ held # {}

\* Behind the commit, ret tells how it went.
CommitTells ==
    /\ pc \in {"committed", "serve", "lock", "wait", "waiting", "unlock", "out", "exited"}
    /\ ret = 0
    /\ ~user_stop
    => shown \/ added # Properties

IInv ==
    /\ TypeOK
    /\ OneHolder
    /\ ModeFound
    /\ ResourcesOwned
    /\ CommitTells

-----------------------------------------------------------------------------
LEMMA InitIInv == Init => IInv
<1> SUFFICES ASSUME Init PROVE IInv
  OBVIOUS
<1> USE SetCrtcAssumption DEF Init
<1>1. TypeOK
  <2>1. offers \in [Connectors -> Offers]
    BY DEF Offers
  <2>2. frames \in Seq([signal : Signals, at : {"lock", "unlock", "signal"}]) /\ DOMAIN frames = {}
    OBVIOUS
  <2>3. QED
    BY <2>1, <2>2 DEF TypeOK, Properties
<1>2. OneHolder /\ ModeFound /\ CommitTells
  BY DEF OneHolder, ModeFound, CommitTells
<1>3. ResourcesOwned
  BY DEF ResourcesOwned, ModeFromLive, FreedInTime, RequestFreed
<1>4. QED
  BY <1>1, <1>2, <1>3 DEF IInv

\* Main runs only while no handler does, so that the frames stay empty.
LEMMA MainAlone == Main => frames = <<>> /\ UNCHANGED <<frames, user_stop>>
  BY DEF Main, At, Open, OpenFails, Fetch, FetchFails, FetchCrashes, Found, Again, Request, RequestCrashes, Commit,
         CommitFails, FreeRequest, Serve, Lock, Wait, Wake, Unlock, Out, signalVars

\* Main: the mutex, which it takes twice and gives back twice.
LEMMA MainMutex ==
  IInv /\ Main => main_mutex' \in BOOLEAN /\ (main_mutex' <=> pc' \in {"wait", "unlock"})
<1> SUFFICES ASSUME IInv, Main
             PROVE  main_mutex' \in BOOLEAN /\ (main_mutex' <=> pc' \in {"wait", "unlock"})
  OBVIOUS
<1>1. main_mutex \in BOOLEAN /\ (main_mutex <=> pc \in {"wait", "unlock"})
  <2>1. DOMAIN frames = {}
    BY MainAlone
  <2>2. QED
    BY <2>1 DEF IInv, TypeOK
<1> USE DEF At
<1>2. CASE Lock \/ Wake
  BY <1>2 DEF Lock, Wake
<1>3. CASE Wait \/ Unlock
  BY <1>3 DEF Wait, Unlock
<1>4. CASE Open \/ OpenFails \/ Fetch \/ FetchFails \/ FetchCrashes \/ Found \/ Request
  BY <1>1, <1>4 DEF Open, OpenFails, Fetch, FetchFails, FetchCrashes, Found, Request, signalVars
<1>5. CASE Again \/ RequestCrashes \/ Commit \/ CommitFails \/ FreeRequest \/ Serve \/ Out
  BY <1>1, <1>5 DEF Again, RequestCrashes, Commit, CommitFails, FreeRequest, Serve, Out, signalVars
<1>6. QED
  BY <1>2, <1>3, <1>4, <1>5 DEF Main

\* What can be held, and what free_resources leaves of it.
LEMMA Leaves ==
  /\ \A h \in Reads \cup {{}} : h \subseteq Parts
  /\ \A h \in SUBSET Parts : Unfreed(h) \subseteq Unfreed(Parts)
  /\ Unfreed(Parts) \subseteq Parts
  /\ \A h \in Reads : h # {}
  BY DEF Reads, Parts, Unfreed

\* Main: what is lost grows by what free_resources leaves, and by the blob.
LEMMA MainLoses ==
  IInv /\ Main => /\ held' \in Reads \cup {{}}
                  /\ lost' \subseteq Unfreed(Parts) \cup {"blob"}
                  /\ mode' \in {None, "in_resources", "freed"}
<1> SUFFICES ASSUME IInv, Main
             PROVE  /\ held' \in Reads \cup {{}}
                    /\ lost' \subseteq Unfreed(Parts) \cup {"blob"}
                    /\ mode' \in {None, "in_resources", "freed"}
  OBVIOUS
<1>1. /\ held \in Reads \cup {{}}
      /\ lost \subseteq Unfreed(Parts) \cup {"blob"}
      /\ mode \in {None, "in_resources", "freed"}
  BY DEF IInv, TypeOK, ResourcesOwned, FreedInTime
<1>2. \A read \in SUBSET Parts : Unfreed(held \cup read) \subseteq Unfreed(Parts)
  BY <1>1, Leaves
<1>3. Unfreed(held) \subseteq Unfreed(Parts)
  BY <1>1, Leaves
<1>4. CASE Fetch
  BY <1>1, <1>3, <1>4 DEF Fetch, FindMode
<1>5. CASE FetchFails
  BY <1>1, <1>2, <1>5 DEF FetchFails, Freed
<1>6. CASE Request
  BY <1>1, <1>6 DEF Request, mainVars
<1>7. CASE Out
  BY <1>1, <1>3, <1>7 DEF Out, mainVars
<1>8. CASE ~Fetch /\ ~FetchFails /\ ~Request /\ ~Out
  <2>1. UNCHANGED <<held, lost, mode>>
    BY <1>8 DEF Main, Open, OpenFails, FetchCrashes, Found, Again, RequestCrashes, Commit, CommitFails,
                FreeRequest, Serve, Lock, Wait, Wake, Unlock, mainVars, heldVars
  <2>2. QED
    BY <1>1, <2>1
<1>9. QED
  BY <1>4, <1>5, <1>6, <1>7, <1>8

\* Main: types.
LEMMA MainType == IInv /\ Main => TypeOK' /\ OneHolder'
<1> SUFFICES ASSUME IInv, Main PROVE TypeOK' /\ OneHolder'
  OBVIOUS
<1>1. /\ TypeOK /\ OneHolder
      /\ frames' = frames /\ DOMAIN frames' = {}
  BY MainAlone DEF IInv
<1>2. OneHolder'
  BY <1>1 DEF OneHolder
<1>3. UNCHANGED offers
  BY DEF Main, Open, OpenFails, Fetch, FetchFails, FetchCrashes, Found, Again, Request, RequestCrashes, Commit,
         CommitFails, FreeRequest, Serve, Lock, Wait, Wake, Unlock, Out, kernelVars
<1>4. /\ pc' \in {"open", "fetch", "find", "again", "request", "commit", "committed", "serve", "lock",
                  "wait", "waiting", "unlock", "out", "exited", "crashed"}
      /\ ret' \in {0, -1}
      /\ req' \in {"none", "allocated"}
  <2>1. TypeOK
    BY <1>1
  <2>2. CASE Open \/ OpenFails \/ Fetch \/ FetchFails \/ FetchCrashes \/ Found \/ Again
    BY <2>1, <2>2 DEF TypeOK, At, Open, OpenFails, Fetch, FetchFails, FetchCrashes, Found, Again,
                      mainVars, reqVars
  <2>3. CASE Request \/ RequestCrashes \/ Commit \/ CommitFails \/ FreeRequest \/ Serve
    BY <2>1, <2>3 DEF TypeOK, At, Request, RequestCrashes, Commit, CommitFails, FreeRequest, Serve,
                      mainVars, reqVars
  <2>4. CASE Lock \/ Wait \/ Wake \/ Unlock \/ Out
    BY <2>1, <2>4 DEF TypeOK, At, Lock, Wait, Wake, Unlock, Out, mainVars, reqVars
  <2>5. QED
    BY <2>2, <2>3, <2>4 DEF Main
<1>5. added' \subseteq Properties
  <2>1. CASE Request
    BY <2>1 DEF Request, SetProperty, Properties
  <2>2. CASE ~Request
    <3>1. UNCHANGED added
      BY <2>2 DEF Main, Open, OpenFails, Fetch, FetchFails, FetchCrashes, Found, Again, Commit,
                  RequestCrashes, CommitFails, FreeRequest, Serve, Lock, Wait, Wake, Unlock, Out, reqVars
    <3>2. QED
      BY <1>1, <3>1 DEF TypeOK
  <2>3. QED
    BY <2>1, <2>2
<1>6. connector_id' \in Connectors \cup {None}
  <2>1. CASE Fetch
    BY <1>1, <2>1 DEF Fetch, TypeOK
  <2>2. CASE ~Fetch
    <3>1. UNCHANGED connector_id
      BY <2>2 DEF Main, Open, OpenFails, FetchFails, FetchCrashes, Found, Again, Request, RequestCrashes,
                  Commit, CommitFails, FreeRequest, Serve, Lock, Wait, Wake, Unlock, Out, mainVars
    <3>2. QED
      BY <1>1, <3>1 DEF TypeOK
  <2>3. QED
    BY <2>1, <2>2
<1>7. TypeOK'
  <2>1. lost' \subseteq Parts \cup {"blob"}
    BY MainLoses, Leaves
  <2>2. QED
    BY <1>1, <1>3, <1>4, <1>5, <1>6, <2>1, MainMutex, MainLoses DEF TypeOK
<1>8. QED
  BY <1>2, <1>7

\* Main: the mode and the resources it points into.
LEMMA MainResources == IInv /\ Main => ModeFound' /\ ModeFromLive' /\ FreedInTime'
<1> SUFFICES ASSUME IInv, Main PROVE ModeFound' /\ ModeFromLive' /\ FreedInTime'
  OBVIOUS
<1>1. ModeFound /\ ModeFromLive /\ FreedInTime
  BY DEF IInv, ResourcesOwned
<1>2. lost' \subseteq Unfreed(Parts) \cup {"blob"}
  BY MainLoses
<1>3. Unfreed(Parts)' = Unfreed(Parts)
  BY DEF Unfreed, Parts
<1>4. ASSUME ModeFound', ModeFromLive', pc' = "exited" => held' = {} /\ ~opened'
      PROVE  ModeFound' /\ ModeFromLive' /\ FreedInTime'
  BY <1>2, <1>3, <1>4 DEF FreedInTime
<1> USE DEF At, ModeFound, ModeFromLive
<1>5. CASE Open \/ OpenFails
  BY <1>1, <1>4, <1>5 DEF Open, OpenFails, mainVars, heldVars
<1>6. CASE Fetch
  <2>1. held' # {} /\ mode' \in {"in_resources", None}
    BY <1>6, Leaves DEF Fetch, FindMode
  <2>2. QED
    BY <1>4, <1>6, <2>1 DEF Fetch
<1>7. CASE FetchFails
  BY <1>4, <1>7 DEF FetchFails
<1>8. CASE Out
  BY <1>4, <1>8 DEF Out
<1>9. CASE FetchCrashes \/ Found \/ Again \/ Request \/ RequestCrashes \/ FreeRequest \/ Serve
  BY <1>1, <1>4, <1>9, SetCrtcAssumption
     DEF FetchCrashes, Found, Again, Request, RequestCrashes, FreeRequest, Serve, mainVars, heldVars
<1>10. CASE Commit \/ CommitFails \/ Lock \/ Wait \/ Wake \/ Unlock
  BY <1>1, <1>4, <1>10 DEF Commit, CommitFails, Lock, Wait, Wake, Unlock, mainVars, heldVars
<1>11. QED
  BY <1>5, <1>6, <1>7, <1>8, <1>9, <1>10 DEF Main

\* Main: the request, which only a commit that fails leaves behind, with -1.
LEMMA MainRequest == IInv /\ Main => RequestFreed'
<1> SUFFICES ASSUME IInv, Main PROVE RequestFreed'
  OBVIOUS
<1>1. RequestFreed
  BY DEF IInv, ResourcesOwned
<1> USE DEF At, RequestFreed
<1>2. CASE Request \/ RequestCrashes \/ Commit \/ CommitFails \/ FreeRequest \/ OpenFails
  BY <1>2 DEF Request, RequestCrashes, Commit, CommitFails, FreeRequest, OpenFails
<1>3. CASE Fetch \/ FetchFails
  BY <1>1, <1>3 DEF Fetch, FetchFails, reqVars
<1>4. CASE Open \/ FetchCrashes \/ Found \/ Again \/ Serve
  BY <1>1, <1>4 DEF Open, FetchCrashes, Found, Again, Serve, mainVars, reqVars
<1>5. CASE Lock \/ Wait \/ Wake \/ Unlock \/ Out
  BY <1>1, <1>5 DEF Lock, Wait, Wake, Unlock, Out, mainVars, reqVars
<1>6. QED
  BY <1>2, <1>3, <1>4, <1>5 DEF Main

\* Main: only a commit with every property in the request sets ret to 0 and
\* goes on; a failed one leaves with -1.
LEMMA MainTells == IInv /\ Main => CommitTells'
<1> SUFFICES ASSUME IInv, Main PROVE CommitTells'
  OBVIOUS
<1>1. CommitTells
  BY DEF IInv
<1> USE DEF At, CommitTells
<1>2. CASE Open \/ OpenFails \/ Fetch \/ FetchFails \/ FetchCrashes
  BY <1>2 DEF Open, OpenFails, Fetch, FetchFails, FetchCrashes
<1>3. CASE Found \/ Again \/ Request \/ RequestCrashes
  BY <1>3 DEF Found, Again, Request, RequestCrashes, signalVars
<1>4. CASE Commit \/ CommitFails
  <2>1. CASE Commit
    BY <2>1, Zenon DEF Commit, reqVars
  <2>2. CASE CommitFails
    BY <2>2 DEF CommitFails
  <2>3. QED
    BY <1>4, <2>1, <2>2
<1>5. CASE FreeRequest \/ Serve \/ Out
  BY <1>1, <1>5 DEF FreeRequest, Serve, Out, mainVars, reqVars, signalVars, kernelVars
<1>6. CASE Lock \/ Wait \/ Wake \/ Unlock
  BY <1>1, <1>6 DEF Lock, Wait, Wake, Unlock, mainVars, reqVars, kernelVars
<1>7. QED
  BY <1>2, <1>3, <1>4, <1>5, <1>6 DEF Main

\* What is not main touches neither its variables nor its resources, and never
\* takes user_stop back.
LEMMA OthersKeep ==
  Handler \/ (\E s \in Signals : Deliver(s)) \/ (\E c \in Connectors : Plug(c)) =>
      /\ UNCHANGED <<pc, mainVars, reqVars, heldVars, shown>>
      /\ user_stop => user_stop'
<1>1. Handler => UNCHANGED <<pc, mainVars, reqVars, heldVars, shown>> /\ (user_stop => user_stop')
  BY DEF Handler, HandlerLocks, HandlerUnlocks, HandlerSignals, kernelVars
<1>2. ASSUME NEW s \in Signals, Deliver(s)
      PROVE  UNCHANGED <<pc, mainVars, reqVars, heldVars, shown>> /\ UNCHANGED user_stop
  BY <1>2 DEF Deliver, kernelVars
<1>3. ASSUME NEW c \in Connectors, Plug(c)
      PROVE  UNCHANGED <<pc, mainVars, reqVars, heldVars, shown>> /\ UNCHANGED user_stop
  BY <1>3 DEF Plug, signalVars
<1>4. QED
  BY <1>1, <1>2, <1>3

LEMMA Prefix ==
  ASSUME NEW S, NEW s \in Seq(S), NEW n \in Nat, n <= Len(s)
  PROVE  /\ SubSeq(s, 1, n) \in Seq(S)
         /\ DOMAIN SubSeq(s, 1, n) = 1 .. n
         /\ \A i \in 1 .. n : SubSeq(s, 1, n)[i] = s[i]
<1>1. SubSeq(s, 1, n) \in Seq(S)
  OBVIOUS
<1>2. \A i \in 1 .. n : SubSeq(s, 1, n)[i] = s[i]
  OBVIOUS
<1>3. Len(SubSeq(s, 1, n)) = n
  <2>1. CASE n = 0
    BY <2>1
  <2>2. CASE n >= 1
    BY <2>2
  <2>3. QED
    BY <2>1, <2>2
<1>4. QED
  BY <1>1, <1>2, <1>3

\* A signal and its handler: types, and the mutex.
LEMMA HandlerType ==
  IInv /\ (Handler \/ \E s \in Signals : Deliver(s)) => TypeOK' /\ OneHolder'
<1> SUFFICES ASSUME IInv, Handler \/ \E s \in Signals : Deliver(s) PROVE TypeOK' /\ OneHolder'
  OBVIOUS
<1>1. /\ TypeOK /\ OneHolder
      /\ frames \in Seq(Frame)
      /\ UNCHANGED <<pc, mainVars, reqVars, heldVars, shown>>
  BY OthersKeep DEF IInv, TypeOK, Frame
<1>2. ASSUME frames' \in Seq(Frame), OneHolder', offers' = offers,
             main_mutex' \in BOOLEAN,
             main_mutex' <=> pc' \in {"wait", "unlock"} \/ \E i \in DOMAIN frames' : frames'[i].at = "unlock"
      PROVE  TypeOK' /\ OneHolder'
  BY <1>1, <1>2 DEF TypeOK, Frame, mainVars, reqVars, heldVars
<1>3. ASSUME NEW s \in Signals, Deliver(s) PROVE TypeOK' /\ OneHolder'
  <2> DEFINE f == [signal |-> s, at |-> "lock"]
  <2>1. f \in Frame /\ frames' = Append(frames, f) /\ UNCHANGED <<main_mutex, offers>>
    BY <1>3 DEF Deliver, kernelVars, Frame
  <2>2. /\ frames' \in Seq(Frame) /\ Len(frames') = Len(frames) + 1 /\ Len(frames) \in Nat
        /\ \A i \in DOMAIN frames : frames'[i] = frames[i]
        /\ frames'[Len(frames) + 1] = f
    BY <1>1, <2>1
  <2>3. \A i \in DOMAIN frames' : frames'[i].at = "unlock" => i \in DOMAIN frames /\ frames[i].at = "unlock"
    BY <1>1, <2>2
  <2>4. DOMAIN frames \subseteq DOMAIN frames'
    BY <1>1, <2>2
  <2>5. OneHolder'
    BY <1>1, <2>3 DEF OneHolder
  <2>6. /\ main_mutex' \in BOOLEAN
        /\ main_mutex' <=> pc' \in {"wait", "unlock"} \/ \E i \in DOMAIN frames' : frames'[i].at = "unlock"
    BY <1>1, <2>1, <2>2, <2>3, <2>4 DEF TypeOK
  <2>7. QED
    BY <1>2, <2>1, <2>2, <2>5, <2>6
<1>4. ASSUME NEW from, HandlerAt(from), NEW to \in {"unlock", "signal"}, HandlerGoes(to)
      PROVE  /\ Len(frames) \in DOMAIN frames /\ frames[Len(frames)].at = from
             /\ frames' \in Seq(Frame) /\ DOMAIN frames' = DOMAIN frames
             /\ \A i \in DOMAIN frames : frames'[i].at = IF i = Len(frames) THEN to ELSE frames[i].at
  <2> DEFINE n == Len(frames)
  <2>1. frames # <<>> /\ frames[n].at = from
    BY <1>4 DEF HandlerAt, Top
  <2>5. n \in Nat \ {0}
    BY <1>1, <2>1
  <2>6. n \in DOMAIN frames /\ frames[n] \in Frame
    BY <1>1, <2>5
  <2>2. [frames[n] EXCEPT !.at = to] \in Frame /\ [frames[n] EXCEPT !.at = to].at = to
    BY <2>6 DEF Frame
  <2>3. frames' = [frames EXCEPT ![n] = [frames[n] EXCEPT !.at = to]]
    BY <1>4 DEF HandlerGoes
  <2>4. QED
    BY <1>1, <2>1, <2>2, <2>3, <2>6
<1>5. CASE HandlerLocks
  <2>1. /\ ~main_mutex /\ main_mutex' /\ offers' = offers
        /\ HandlerAt("lock") /\ HandlerGoes("unlock")
    BY <1>5 DEF HandlerLocks, kernelVars
  <2>2. /\ Len(frames) \in DOMAIN frames
        /\ frames' \in Seq(Frame) /\ DOMAIN frames' = DOMAIN frames
        /\ \A i \in DOMAIN frames : frames'[i].at = IF i = Len(frames) THEN "unlock" ELSE frames[i].at
    BY <1>4, <2>1
  <2>3. pc \notin {"wait", "unlock"} /\ \A i \in DOMAIN frames : frames[i].at # "unlock"
    BY <1>1, <2>1 DEF TypeOK
  <2>4. OneHolder'
    BY <1>1, <2>2, <2>3 DEF OneHolder
  <2>5. /\ main_mutex' \in BOOLEAN
        /\ main_mutex' <=> pc' \in {"wait", "unlock"} \/ \E i \in DOMAIN frames' : frames'[i].at = "unlock"
    BY <1>5, <2>2 DEF HandlerLocks
  <2>6. QED
    BY <1>2, <2>1, <2>2, <2>4, <2>5
<1>6. CASE HandlerUnlocks
  <2>1. /\ main_mutex' = FALSE /\ offers' = offers
        /\ HandlerAt("unlock") /\ HandlerGoes("signal")
    BY <1>6 DEF HandlerUnlocks, kernelVars
  <2>2. /\ Len(frames) \in DOMAIN frames /\ frames[Len(frames)].at = "unlock"
        /\ frames' \in Seq(Frame) /\ DOMAIN frames' = DOMAIN frames
        /\ \A i \in DOMAIN frames : frames'[i].at = IF i = Len(frames) THEN "signal" ELSE frames[i].at
    BY <1>4, <2>1
  <2>3. pc \notin {"wait", "unlock"} /\ \A i \in DOMAIN frames' : frames'[i].at # "unlock"
    BY <1>1, <2>2 DEF OneHolder
  <2>4. OneHolder'
    BY <2>3 DEF OneHolder
  <2>5. QED
    BY <1>1, <1>2, <2>1, <2>2, <2>3, <2>4
<1>7. CASE HandlerSignals
  <2>1. /\ frames # <<>> /\ frames[Len(frames)].at = "signal"
        /\ frames' = SubSeq(frames, 1, Len(frames) - 1)
        /\ UNCHANGED <<main_mutex, offers>>
    BY <1>7 DEF HandlerSignals, HandlerAt, Top, kernelVars
  <2>2. Len(frames) \in Nat \ {0}
    BY <1>1, <2>1
  <2>3. /\ frames' \in Seq(Frame) /\ DOMAIN frames' = 1 .. Len(frames) - 1
        /\ \A i \in DOMAIN frames' : frames'[i] = frames[i]
    <3>1. Len(frames) - 1 \in Nat /\ Len(frames) - 1 <= Len(frames)
      BY <2>2
    <3>2. QED
      BY <1>1, <2>1, <3>1, Prefix
  <2>4. OneHolder'
    BY <1>1, <2>2, <2>3 DEF OneHolder
  <2>5. (\E i \in DOMAIN frames' : frames'[i].at = "unlock") <=> \E i \in DOMAIN frames : frames[i].at = "unlock"
    <3>1. ASSUME NEW i \in DOMAIN frames, frames[i].at = "unlock" PROVE i \in DOMAIN frames'
      <4>1. i \in 1 .. Len(frames) /\ i # Len(frames)
        BY <1>1, <2>1, <3>1
      <4>2. QED
        BY <2>2, <2>3, <4>1
    <3>2. DOMAIN frames' \subseteq DOMAIN frames
      BY <1>1, <2>2, <2>3
    <3>3. QED
      BY <2>3, <3>1, <3>2
  <2>6. /\ main_mutex' \in BOOLEAN
        /\ main_mutex' <=> pc' \in {"wait", "unlock"} \/ \E i \in DOMAIN frames' : frames'[i].at = "unlock"
    BY <1>1, <2>1, <2>5 DEF TypeOK
  <2>7. QED
    BY <1>2, <2>1, <2>3, <2>4, <2>6
<1>8. QED
  BY <1>3, <1>5, <1>6, <1>7 DEF Handler

LEMMA IInvStep == IInv /\ [Next]_vars => IInv'
<1> SUFFICES ASSUME IInv, [Next]_vars PROVE IInv'
  OBVIOUS
<1>1. CASE Main
  BY <1>1, MainType, MainResources, MainRequest, MainTells DEF IInv, ResourcesOwned
<1>2. CASE Handler \/ (\E s \in Signals : Deliver(s)) \/ (\E c \in Connectors : Plug(c))
  <2>1. /\ UNCHANGED <<pc, mainVars, reqVars, heldVars, shown>>
        /\ user_stop => user_stop'
    BY <1>2, OthersKeep
  <2>2. ModeFound' /\ ResourcesOwned'
    BY <2>1 DEF IInv, ModeFound, ResourcesOwned, ModeFromLive, FreedInTime, RequestFreed, Unfreed, Parts,
                mainVars, reqVars, heldVars
  <2>3. CommitTells'
    BY <2>1 DEF IInv, CommitTells, mainVars, reqVars, heldVars
  <2>4. ASSUME NEW c \in Connectors, Plug(c) PROVE TypeOK' /\ OneHolder'
    <3>1. offers' \in [Connectors -> Offers] /\ UNCHANGED <<frames, main_mutex>>
      BY <2>4 DEF Plug, signalVars, IInv, TypeOK
    <3>2. QED
      BY <2>1, <3>1 DEF IInv, TypeOK, OneHolder, mainVars, reqVars, heldVars
  <2>5. TypeOK' /\ OneHolder'
    BY <1>2, <2>4, HandlerType
  <2>6. QED
    BY <2>2, <2>3, <2>5 DEF IInv
<1>3. CASE UNCHANGED vars
  BY <1>3 DEF vars, mainVars, reqVars, heldVars, signalVars, kernelVars, IInv, TypeOK, OneHolder, ModeFound,
              ResourcesOwned, ModeFromLive, FreedInTime, RequestFreed, CommitTells, Unfreed, Parts
<1>4. QED
  BY <1>1, <1>2, <1>3 DEF Next

-----------------------------------------------------------------------------
LEMMA Invariance == Spec => []IInv
  BY InitIInv, IInvStep, PTL DEF Spec

\* Types, and who holds main_mutex: main between pthread_mutex_lock and the wait
\* and behind the wait, or one handler, and nobody else.
THEOREM SetCrtcTypes == Spec => []TypeOK
<1>1. IInv => TypeOK
  BY DEF IInv
<1>2. QED
  BY <1>1, Invariance, PTL

\* The loop reads the resources again at every turn, fails at any of them, and
\* is stopped at any step: the mode it commits lies in what it holds, what is
\* lost on the way is only what free_resources does not free, a request is left
\* only by a commit that failed, and at the end nothing is held.
THEOREM SetCrtcResources == Spec => []ResourcesOwned
<1>1. IInv => ResourcesOwned
  BY DEF IInv
<1>2. QED
  BY <1>1, Invariance, PTL

\* The exit code 0 of a program nobody stopped means that the mode is shown, but
\* for the properties that add_property did not find.
THEOREM SetCrtcExitCode == Spec => []ExitCodeTells
<1>1. IInv => ExitCodeTells
  BY DEF IInv, CommitTells, ExitCodeTells
<1>2. QED
  BY <1>1, Invariance, PTL
=============================================================================
