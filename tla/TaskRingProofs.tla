--------------------------- MODULE TaskRingProofs ---------------------------
(***************************************************************************)
(* The ring with all the threads that drain it, the IPC thread among them: *)
(* for every length of the array, any number of requests and any number of *)
(* draining threads.  The one thing that must not happen is that two of    *)
(* them are in get_task at once.                                           *)
(***************************************************************************)
EXTENDS TaskRing, SequenceTheorems, TLAPS

\* A request is being scheduled, or waits in the ring.
Fresh == outcome = "pending" \/ get_index # put_index

\* The handler empties the ring before the next request, so at most one task is
\* in it; while a thread is in get_task, that task is its own.
Positions ==
    /\ \A t \in Consumers : pc[t] \in {"copy", "publish"} => t = Server
    /\ \A t, u \in Consumers : Inside(t) /\ Inside(u) => t = u
    /\ pc[Server] \in {"idle", "copy", "publish"} => get_index = put_index
    /\ get_index # put_index => put_index = Succ(get_index)
    /\ outcome = "pending" <=> pc[Server] \in {"copy", "publish"}
    /\ outcome = "pending" => next[Server] = Succ(put_index)
    /\ outcome # "full"
    /\ \A t \in Consumers :
        Inside(t) => get_index # put_index /\ next[t] = Succ(get_index)

\* Which request each slot and each hand holds.
Contents ==
    /\ Fresh => request # 0
    /\ \A k \in Slots :
        task[k] =
            IF \/ pc[Server] = "publish" /\ k = put_index
               \/ /\ get_index # put_index /\ k = get_index
                  /\ \A t \in Consumers : pc[t] # "advance"
            THEN request ELSE NULL
    /\ \A t \in Consumers :
        /\ pc[t] \in {"clear", "advance"} => taken[t] = request
        /\ pc[t] = "apply" => taken[t] # NULL

\* What is done and what is in hand is older than what is fresh, and no two of
\* them are the same request.
Distinct ==
    /\ \A i \in 1 .. Len(done) :
        /\ done[i] <= request
        /\ Fresh => done[i] < request
    /\ \A i, j \in 1 .. Len(done) : done[i] = done[j] => i = j
    /\ \A t \in Consumers : pc[t] = "apply" =>
        /\ taken[t] <= request
        /\ Fresh => taken[t] < request
        /\ \A i \in 1 .. Len(done) : taken[t] # done[i]
    /\ \A t, u \in Consumers :
        pc[t] = "apply" /\ pc[u] = "apply" /\ taken[t] = taken[u] => t = u

Inv == TypeOK /\ (~overlapped => Positions /\ Contents /\ Distinct)

-----------------------------------------------------------------------------
\* Both indices walk around the array.
LEMMA SuccInSlots ==
  ASSUME NEW i \in Slots
  PROVE  Succ(i) \in Slots /\ Succ(i) # i
BY RingAssumption DEF Slots, Succ

LEMMA InitInv == Init => Inv
<1> USE RingAssumption
<1>1. Init => TypeOK
  <2>1. 0 \in Slots /\ <<>> \in Seq(Tasks)
    BY DEF Slots
  <2>2. QED
    BY <2>1 DEF Init, TypeOK, NULL, Labels
<1>2. Init => Positions
  BY DEF Init, Positions, Inside
<1>3. Init => Contents
  BY DEF Init, Contents, Fresh
<1>4. Init => Distinct
  BY DEF Init, Distinct
<1>5. QED
  BY <1>1, <1>2, <1>3, <1>4 DEF Inv

\* Indices stay inside the array and slots hold requests, overlap or not.
LEMMA TypeStep == TypeOK /\ [Next]_vars => TypeOK'
<1> SUFFICES ASSUME TypeOK, [Next]_vars PROVE TypeOK'
  OBVIOUS
<1> USE RingAssumption, SuccInSlots DEF TypeOK, Labels, Goto, ringVars
<1>1. CASE ScheduleFull
  BY <1>1 DEF ScheduleFull
<1>2. CASE ScheduleRoom
  BY <1>2 DEF ScheduleRoom
<1>3. CASE CopyFails
  BY <1>3 DEF CopyFails
<1>4. CASE Store
  BY <1>4 DEF Store
<1>5. CASE Publish
  BY <1>5 DEF Publish
<1>6. ASSUME NEW t \in Consumers, Cycle(t) \/ HaveTask(t) PROVE TypeOK'
  BY <1>6 DEF Cycle, HaveTask
<1>7. ASSUME NEW t \in Consumers, GetTask(t) PROVE TypeOK'
  BY <1>7 DEF GetTask
<1>8. ASSUME NEW t \in Consumers, Take(t) PROVE TypeOK'
  BY <1>8 DEF Take
<1>9. ASSUME NEW t \in Consumers, Clear(t) PROVE TypeOK'
  BY <1>9 DEF Clear, NULL
<1>10. ASSUME NEW t \in Consumers, Advance(t) PROVE TypeOK'
  BY <1>10 DEF Advance
<1>11. ASSUME NEW t \in Consumers, Apply(t) PROVE TypeOK'
  <2>1. done' \in Seq(Tasks)
    BY <1>11 DEF Apply, Tasks
  <2>2. QED
    BY <1>11, <2>1 DEF Apply
<1>12. CASE UNCHANGED vars
  BY <1>12 DEF vars
<1>13. QED
  BY <1>1, <1>2, <1>3, <1>4, <1>5, <1>6, <1>7, <1>8, <1>9, <1>10, <1>11, <1>12
  DEF Next, Schedule, Queue, Drain

\* The history only grows.
LEMMA OverlapStays == TypeOK /\ [Next]_vars /\ ~overlapped' => ~overlapped
BY DEF TypeOK, Next, vars, Schedule, ScheduleFull, ScheduleRoom, Queue, CopyFails, Store,
       Publish, Cycle, Drain, HaveTask, GetTask, Take, Clear, Advance, Apply

\* Where each step starts from, when nothing has overlapped so far.
Sound == TypeOK /\ Positions /\ Contents /\ Distinct

LEMMA PositionsStep ==
  ASSUME Sound, [Next]_vars, ~overlapped'
  PROVE  Positions'
<1> USE RingAssumption, SuccInSlots
    DEF Sound, TypeOK, Positions, Inside, Goto, ringVars
<1>1. CASE ScheduleFull
  BY <1>1 DEF ScheduleFull
<1>2. CASE ScheduleRoom
  BY <1>2 DEF ScheduleRoom
<1>3. CASE CopyFails
  BY <1>3 DEF CopyFails
<1>4. CASE Store
  BY <1>4 DEF Store
<1>5. CASE Publish
  BY <1>5 DEF Publish
<1>6. ASSUME NEW t \in Consumers, Cycle(t) PROVE Positions'
  BY <1>6 DEF Cycle
<1>7. ASSUME NEW t \in Consumers, HaveTask(t) PROVE Positions'
  BY <1>7 DEF HaveTask
<1>8. ASSUME NEW t \in Consumers, GetTask(t) PROVE Positions'
  BY <1>8 DEF GetTask
<1>9. ASSUME NEW t \in Consumers, Take(t) PROVE Positions'
  BY <1>9 DEF Take
<1>10. ASSUME NEW t \in Consumers, Clear(t) PROVE Positions'
  BY <1>10 DEF Clear
<1>11. ASSUME NEW t \in Consumers, Advance(t) PROVE Positions'
  BY <1>11 DEF Advance
<1>12. ASSUME NEW t \in Consumers, Apply(t) PROVE Positions'
  BY <1>12 DEF Apply
<1>13. CASE UNCHANGED vars
  BY <1>13 DEF vars
<1>14. QED
  BY <1>1, <1>2, <1>3, <1>4, <1>5, <1>6, <1>7, <1>8, <1>9, <1>10, <1>11, <1>12, <1>13
  DEF Next, Schedule, Queue, Drain

LEMMA ContentsStep ==
  ASSUME Sound, [Next]_vars, ~overlapped'
  PROVE  Contents'
<1> USE RingAssumption, SuccInSlots
    DEF Sound, TypeOK, Positions, Contents, Fresh, Inside, Goto, ringVars, NULL
<1>1. CASE ScheduleFull
  BY <1>1 DEF ScheduleFull
<1>2. CASE ScheduleRoom
  BY <1>2 DEF ScheduleRoom
<1>3. CASE CopyFails
  BY <1>3 DEF CopyFails
<1>4. CASE Store
  BY <1>4 DEF Store
<1>5. CASE Publish
  BY <1>5 DEF Publish
<1>6. ASSUME NEW t \in Consumers, Cycle(t) PROVE Contents'
  BY <1>6 DEF Cycle
<1>7. ASSUME NEW t \in Consumers, HaveTask(t) PROVE Contents'
  BY <1>7 DEF HaveTask
<1>8. ASSUME NEW t \in Consumers, GetTask(t) PROVE Contents'
  BY <1>8 DEF GetTask
<1>9. ASSUME NEW t \in Consumers, Take(t) PROVE Contents'
  BY <1>9 DEF Take
<1>10. ASSUME NEW t \in Consumers, Clear(t) PROVE Contents'
  BY <1>10 DEF Clear
<1>11. ASSUME NEW t \in Consumers, Advance(t) PROVE Contents'
  BY <1>11 DEF Advance
<1>12. ASSUME NEW t \in Consumers, Apply(t) PROVE Contents'
  BY <1>12 DEF Apply
<1>13. CASE UNCHANGED vars
  BY <1>13 DEF vars
<1>14. QED
  BY <1>1, <1>2, <1>3, <1>4, <1>5, <1>6, <1>7, <1>8, <1>9, <1>10, <1>11, <1>12, <1>13
  DEF Next, Schedule, Queue, Drain

LEMMA DistinctStep ==
  ASSUME Sound, [Next]_vars, ~overlapped'
  PROVE  Distinct'
<1> USE RingAssumption, SuccInSlots
    DEF Sound, TypeOK, Positions, Contents, Distinct, Fresh, Inside, Goto, ringVars, NULL,
        Tasks
<1>1. CASE ScheduleFull
  BY <1>1 DEF ScheduleFull
<1>2. CASE ScheduleRoom
  BY <1>2 DEF ScheduleRoom
<1>3. CASE CopyFails
  BY <1>3 DEF CopyFails
<1>4. CASE Store
  BY <1>4 DEF Store
<1>5. CASE Publish
  BY <1>5 DEF Publish
<1>6. ASSUME NEW t \in Consumers, Cycle(t) PROVE Distinct'
  BY <1>6 DEF Cycle
<1>7. ASSUME NEW t \in Consumers, HaveTask(t) PROVE Distinct'
  BY <1>7 DEF HaveTask
<1>8. ASSUME NEW t \in Consumers, GetTask(t) PROVE Distinct'
  BY <1>8 DEF GetTask
<1>9. ASSUME NEW t \in Consumers, Take(t) PROVE Distinct'
  BY <1>9 DEF Take
<1>10. ASSUME NEW t \in Consumers, Clear(t) PROVE Distinct'
  BY <1>10 DEF Clear
<1>11. ASSUME NEW t \in Consumers, Advance(t) PROVE Distinct'
  BY <1>11 DEF Advance
<1>12. ASSUME NEW t \in Consumers, Apply(t) PROVE Distinct'
  <2>1. /\ taken[t] \in Tasks
        /\ done' = Append(done, taken[t])
        /\ pc' = [pc EXCEPT ![t] = "test"]
        /\ UNCHANGED <<put_index, get_index, taken, request, outcome>>
    BY <1>12 DEF Apply
  <2>2. /\ Len(done') = Len(done) + 1
        /\ \A i \in 1 .. Len(done) : done'[i] = done[i]
        /\ done'[Len(done) + 1] = taken[t]
        /\ Len(done) \in Nat
        /\ \A i \in 1 .. Len(done') : i \in 1 .. Len(done) \/ i = Len(done) + 1
    BY <2>1
  <2>3. \A i \in 1 .. Len(done) : taken[t] # done[i]
    BY <1>12 DEF Apply
  <2>4. QED
    BY <1>12, <2>1, <2>2, <2>3 DEF Apply
<1>13. CASE UNCHANGED vars
  BY <1>13 DEF vars
<1>14. QED
  BY <1>1, <1>2, <1>3, <1>4, <1>5, <1>6, <1>7, <1>8, <1>9, <1>10, <1>11, <1>12, <1>13
  DEF Next, Schedule, Queue, Drain

LEMMA InvStep == Inv /\ [Next]_vars => Inv'
<1> SUFFICES ASSUME Inv, [Next]_vars PROVE Inv'
  OBVIOUS
<1>1. TypeOK'
  BY TypeStep DEF Inv
<1>2. ASSUME ~overlapped' PROVE Sound
  BY <1>2, OverlapStays DEF Inv, Sound
<1>3. ASSUME ~overlapped' PROVE Positions' /\ Contents' /\ Distinct'
  BY <1>2, <1>3, PositionsStep, ContentsStep, DistinctStep
<1>4. QED
  BY <1>1, <1>3 DEF Inv

-----------------------------------------------------------------------------
(* The refinement: until the first overlap the queue is empty or holds the *)
(* one request that is fresh.                                              *)

QueueIsFresh == WaitingTasks = IF get_index = put_index THEN <<>> ELSE <<request>>

LEMMA QueueOf == Sound => QueueIsFresh
<1> SUFFICES ASSUME Sound PROVE QueueIsFresh
  OBVIOUS
<1> USE DEF QueueIsFresh
<1> USE RingAssumption DEF Sound, TypeOK
<1>1. CASE get_index = put_index
  <2>1. Count = 0
    BY <1>1 DEF Count, Slots
  <2>2. QED
    BY <1>1, <2>1 DEF WaitingTasks
<1>2. CASE get_index # put_index
  <2>1. Count = 1 /\ SlotOf(1) = get_index
    BY <1>2 DEF Positions, Count, SlotOf, Succ, Slots
  <2>2. CASE \E t \in Consumers : pc[t] = "advance"
    <3>1. \A t \in Consumers : pc[t] = "advance" => taken[t] = request
      BY DEF Contents
    <3>2. taken[CHOOSE t \in Consumers : pc[t] = "advance"] = request
      BY <2>2, <3>1
    <3>3. WaitingTasks = [k \in 1 .. 1 |-> request]
      BY <2>1, <2>2, <3>2 DEF WaitingTasks
    <3>4. QED
      BY <1>2, <3>3
  <2>3. CASE ~ \E t \in Consumers : pc[t] = "advance"
    <3>1. task[get_index] = request
      BY <1>2, <2>3 DEF Contents
    <3>2. WaitingTasks = [k \in 1 .. 1 |-> request]
      BY <2>1, <2>3, <3>1 DEF WaitingTasks
    <3>3. QED
      BY <1>2, <3>2
  <2>4. QED
    BY <2>2, <2>3
<1>3. QED
  BY <1>1, <1>2

LEMMA InitMapped == Init => Promise!Init
<1> SUFFICES ASSUME Init PROVE Promise!Init
  OBVIOUS
<1>1. WaitingTasks = <<>>
  BY QueueOf, InitInv DEF QueueIsFresh, Inv, Sound, Init
<1>2. InHands = {}
  BY DEF Init, InHands
<1>3. QED
  BY <1>1, <1>2 DEF Init, Promise!Init

\* A step that changes no thread's applying leaves the hands as they are.
LEMMA HandsUnchanged ==
  ASSUME \A t \in Consumers : pc'[t] = "apply" <=> pc[t] = "apply",
         \A t \in Consumers : pc[t] = "apply" => taken'[t] = taken[t]
  PROVE  InHands' = InHands
BY DEF InHands

LEMMA StepMapped ==
  ASSUME Sound, Sound', [Next]_vars, ~overlapped'
  PROVE  [Promise!Next]_Promise!vars
<1> USE RingAssumption DEF Goto, ringVars
<1>0. /\ WaitingTasks = IF get_index = put_index THEN <<>> ELSE <<request>>
      /\ WaitingTasks' = IF get_index' = put_index' THEN <<>> ELSE <<request'>>
  <2>1. QueueIsFresh /\ QueueIsFresh'
    BY QueueOf, PTL
  <2>2. QED
    BY <2>1 DEF QueueIsFresh
<1>t. pc \in [Consumers -> Labels] /\ taken \in [Consumers -> Nat]
  BY DEF Sound, TypeOK
<1>1. CASE ScheduleFull
  BY <1>1 DEF ScheduleFull, Sound, Positions
<1>2. CASE ScheduleRoom
  <2>1. InHands' = InHands
    BY <1>2, <1>t, HandsUnchanged DEF ScheduleRoom
  <2>2. get_index = put_index /\ outcome # "pending"
    BY <1>2 DEF ScheduleRoom, Sound, Positions
  <2>3. Promise!Admit
    BY <1>0, <1>2, <2>1, <2>2 DEF ScheduleRoom, Promise!Admit
  <2>4. QED
    BY <2>3 DEF Promise!Next
<1>3. CASE CopyFails
  <2>1. InHands' = InHands
    BY <1>3, <1>t, HandsUnchanged DEF CopyFails
  <2>2. outcome = "pending"
    BY <1>3 DEF CopyFails, Sound, Positions
  <2>3. Promise!Abandon
    BY <1>0, <1>3, <2>1, <2>2 DEF CopyFails, Promise!Abandon
  <2>4. QED
    BY <2>3 DEF Promise!Next
<1>4. CASE Store
  <2>1. InHands' = InHands
    BY <1>4, <1>t, HandsUnchanged DEF Store
  <2>2. QED
    BY <1>0, <1>4, <2>1 DEF Store, Promise!vars
<1>5. CASE Publish
  <2>1. InHands' = InHands
    BY <1>5, <1>t, HandsUnchanged DEF Publish
  <2>2. /\ outcome = "pending" /\ get_index = put_index
        /\ get_index' # put_index'
    BY <1>5, SuccInSlots DEF Publish, Sound, TypeOK, Positions
  <2>3. WaitingTasks = <<>> /\ WaitingTasks' = <<request>>
    BY <1>0, <1>5, <2>2 DEF Publish
  <2>4. Len(WaitingTasks) < MaxTask - 1 /\ WaitingTasks' = Append(WaitingTasks, request)
    BY <2>3
  <2>5. Promise!Enqueue
    BY <1>5, <2>1, <2>2, <2>4 DEF Publish, Promise!Enqueue
  <2>6. QED
    BY <2>5 DEF Promise!Next
<1>6. ASSUME NEW t \in Consumers, Cycle(t) \/ HaveTask(t) \/ GetTask(t) \/ Take(t) \/ Clear(t)
      PROVE  UNCHANGED Promise!vars
  <2>1. InHands' = InHands
    BY <1>6, <1>t, HandsUnchanged DEF Cycle, HaveTask, GetTask, Take, Clear
  <2>2. UNCHANGED <<put_index, get_index, request, outcome, done>>
    BY <1>6 DEF Cycle, HaveTask, GetTask, Take, Clear
  <2>3. QED
    BY <1>0, <2>1, <2>2 DEF Promise!vars
<1>7. ASSUME NEW t \in Consumers, Advance(t) PROVE Promise!Next
  <2>1. /\ pc[t] = "advance"
        /\ get_index' = next[t]
        /\ pc' = [pc EXCEPT ![t] = "apply"]
        /\ UNCHANGED <<task, put_index, next, taken, request, outcome, done>>
    BY <1>7 DEF Advance
  <2>2. get_index # put_index /\ next[t] = put_index /\ taken[t] = request
    BY <2>1 DEF Sound, Positions, Contents, Inside
  <2>3. WaitingTasks = <<request>> /\ WaitingTasks' = <<>>
    BY <1>0, <2>1, <2>2
  <2>4. InHands' = InHands \cup {request}
    BY <1>t, <2>1, <2>2 DEF InHands
  <2>5. Promise!Dequeue
    BY <2>1, <2>3, <2>4 DEF Promise!Dequeue
  <2>6. QED
    BY <2>5 DEF Promise!Next
<1>8. ASSUME NEW t \in Consumers, Apply(t) PROVE Promise!Next
  <2>1. /\ pc[t] = "apply" /\ taken[t] # NULL
        /\ done' = Append(done, taken[t])
        /\ pc' = [pc EXCEPT ![t] = "test"]
        /\ UNCHANGED <<ringVars, taken, request, outcome>>
    BY <1>8 DEF Apply, Sound, Contents
  <2>2. \A u \in Consumers : pc[u] = "apply" /\ taken[u] = taken[t] => u = t
    BY <2>1 DEF Sound, Distinct
  <2>3. taken[t] \in InHands /\ InHands' = InHands \ {taken[t]}
    BY <1>t, <2>1, <2>2 DEF InHands
  <2>4. WaitingTasks' = WaitingTasks
    BY <1>0, <2>1
  <2>5. Promise!Apply
    BY <2>1, <2>3, <2>4 DEF Promise!Apply
  <2>6. QED
    BY <2>5 DEF Promise!Next
<1>9. CASE UNCHANGED vars
  BY <1>0, <1>9, HandsUnchanged DEF vars, Promise!vars
<1>10. QED
  BY <1>1, <1>2, <1>3, <1>4, <1>5, <1>6, <1>7, <1>8, <1>9
  DEF Next, Schedule, Queue, Drain

-----------------------------------------------------------------------------
LEMMA InvAlways == Spec => []Inv
BY InitInv, InvStep, PTL DEF Spec

\* Until two threads are in get_task at once, a slot of the unlocked ring holds a
\* task exactly while the task waits in it, with any number of threads draining.
LEMMA RingSlots == Spec => []SlotsMatchIndices
<1>1. Inv => SlotsMatchIndices
  <2> SUFFICES ASSUME Inv, ~overlapped PROVE SlotsMatch
    BY DEF SlotsMatchIndices
  <2>1. ASSUME NEW k \in Slots
        PROVE  Waiting(k) <=> get_index # put_index /\ k = get_index
    BY <2>1, RingAssumption DEF Inv, TypeOK, Positions, Waiting, Succ, Slots
  <2>2. pc[Server] = "publish" => request # NULL
    BY DEF Inv, Contents, Positions, Fresh, NULL
  <2>3. get_index # put_index => request # NULL
    BY DEF Inv, Contents, Fresh, NULL
  <2>4. QED
    BY <2>1, <2>2, <2>3 DEF Inv, Contents, SlotsMatch
<1>2. QED
  BY <1>1, InvAlways, PTL

\* Until then no request is applied, and its task freed, twice, although several
\* threads may be in process_task.
LEMMA RingAppliesOnce == Spec => []AppliedOnce
<1>1. Inv => AppliedOnce
  BY DEF Inv, Distinct, AppliedOnce
<1>2. QED
  BY <1>1, InvAlways, PTL

\* Until two threads are in get_task at once, each task is in one place: a slot, a
\* hand, or applied and freed.
THEOREM RingKeepsTasks == Spec => []TaskInOnePlace
<1>1. SlotsMatchIndices /\ AppliedOnce => TaskInOnePlace
  BY DEF TaskInOnePlace
<1>2. QED
  BY <1>1, RingSlots, RingAppliesOnce, PTL

\* Until then no request is refused: the handler has emptied the ring before it
\* schedules the next one, for any ring of at least two slots.
THEOREM RingNeverFull == Spec => []FullOnlyAfterOverlap
<1>1. Inv => FullOnlyAfterOverlap
  BY DEF Inv, Positions, FullOnlyAfterOverlap
<1>2. QED
  BY <1>1, InvAlways, PTL

\* Until then the ring, drained by any number of threads without a lock, does what
\* "schedule a task" promises.
THEOREM RingImplementsQueue == Spec => Implements
<1>1. Inv /\ Inv' /\ [Next]_vars => [overlapped' \/ Promise!Next]_Promise!vars
  <2> SUFFICES ASSUME Inv, Inv', [Next]_vars, ~overlapped'
               PROVE  [Promise!Next]_Promise!vars
    OBVIOUS
  <2>1. Sound /\ Sound'
    BY OverlapStays DEF Inv, Sound
  <2>2. QED
    BY <2>1, StepMapped
<1>2. QED
  BY <1>1, InitMapped, InvAlways, PTL DEF Spec, Implements
=============================================================================
