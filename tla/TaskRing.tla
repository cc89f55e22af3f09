------------------------------ MODULE TaskRing ------------------------------
(***************************************************************************)
(* g_task_after_repaint_cycle of compositor-drm-help.c: the ring that      *)
(* carries "set mode" requests from the IPC server thread, which schedules *)
(* them, to whichever threads call help_do_repaint_cycle_completed.  No    *)
(* lock guards the ring.  A step writes one shared word, or reads the      *)
(* indices once, or reads one slot.  Two threads at least drain it: the     *)
(* compositor after a repaint cycle, and the IPC thread itself whenever it *)
(* has scheduled a task (line 444).                                        *)
(***************************************************************************)
EXTENDS Integers, Sequences, FiniteSets

CONSTANTS
    MaxTask,       \* MAX_TASK_NUM (10)
    Server,        \* the IPC server thread, which runs m_message_handle
    Consumers,     \* the threads that call help_do_repaint_cycle_completed
    MaxRequests    \* bound: how many "set mode" requests arrive

ASSUME RingAssumption ==
    /\ MaxTask \in Nat
    /\ MaxTask >= 2
    /\ MaxRequests \in Nat
    /\ Server \in Consumers

VARIABLES
    \* helper_task_queue; an empty slot holds NULL
    task, put_index, get_index,
    \* each thread's program counter and locals
    pc, next, taken,
    \* the requests received, what schedule_task made of the last one, and the
    \* requests process_task applied, in order
    request, outcome, done,
    \* history: a thread entered the body of get_task while another was in it
    overlapped

ringVars == <<task, put_index, get_index>>
vars == <<ringVars, pc, next, taken, request, outcome, done, overlapped>>

Slots == 0 .. MaxTask - 1
NULL == 0
Tasks == Nat \ {NULL}

\* (i + 1) % MAX_TASK_NUM
Succ(i) == IF i = MaxTask - 1 THEN 0 ELSE i + 1

Goto(t, label) == pc' = [pc EXCEPT ![t] = label]

Init ==
    /\ task = [i \in Slots |-> NULL]
    /\ put_index = 0
    /\ get_index = 0
    /\ pc = [t \in Consumers |-> "idle"]
    /\ next = [t \in Consumers |-> 0]
    /\ taken = [t \in Consumers |-> NULL]
    /\ request = 0
    /\ outcome = "none"
    /\ done = <<>>
    /\ overlapped = FALSE

-----------------------------------------------------------------------------
(* schedule_task, called by the handler for a request it could parse.      *)

ScheduleFull ==
    /\ pc[Server] = "idle"
    /\ request < MaxRequests
    /\ request' = request + 1
    /\ Succ(put_index) = get_index
    /\ outcome' = "full"
    /\ UNCHANGED <<ringVars, pc, next, taken, done, overlapped>>

ScheduleRoom ==
    /\ pc[Server] = "idle"
    /\ request < MaxRequests
    /\ request' = request + 1
    /\ Succ(put_index) # get_index
    /\ outcome' = "pending"
    /\ next' = [next EXCEPT ![Server] = Succ(put_index)]
    /\ Goto(Server, "copy")
    /\ UNCHANGED <<ringVars, taken, done, overlapped>>

\* json_object_deep_copy fails: out of memory.
CopyFails ==
    /\ pc[Server] = "copy"
    /\ outcome' = "nomem"
    /\ Goto(Server, "idle")
    /\ UNCHANGED <<ringVars, next, taken, request, done, overlapped>>

\* Mutant: the task goes into the slot behind the one that becomes visible.
StoreBehind ==
    /\ pc[Server] = "copy"
    /\ task' = [task EXCEPT ![next[Server]] = request]
    /\ Goto(Server, "publish")
    /\ UNCHANGED <<put_index, get_index, next, taken, request, outcome, done, overlapped>>

Store ==
    /\ pc[Server] = "copy"
    /\ task' = [task EXCEPT ![put_index] = request]
    /\ Goto(Server, "publish")
    /\ UNCHANGED <<put_index, get_index, next, taken, request, outcome, done, overlapped>>

\* Mutant: the handler leaves the queue to the next repaint cycle.
PublishOnly ==
    /\ pc[Server] = "publish"
    /\ put_index' = next[Server]
    /\ outcome' = "queued"
    /\ Goto(Server, "idle")
    /\ UNCHANGED <<task, get_index, next, taken, request, done, overlapped>>

\* The task becomes visible, and the handler goes on to run what is queued.
Publish ==
    /\ pc[Server] = "publish"
    /\ put_index' = next[Server]
    /\ outcome' = "queued"
    /\ Goto(Server, "test")
    /\ UNCHANGED <<task, get_index, next, taken, request, done, overlapped>>

-----------------------------------------------------------------------------
(* help_do_repaint_cycle_completed: have_task, get_task and process_task.  *)

\* The compositor finishes a repaint cycle.
Cycle(t) ==
    /\ t # Server
    /\ pc[t] = "idle"
    /\ Goto(t, "test")
    /\ UNCHANGED <<ringVars, next, taken, request, outcome, done, overlapped>>

HaveTask(t) ==
    /\ pc[t] = "test"
    /\ Goto(t, IF get_index = put_index THEN "idle" ELSE "get")
    /\ UNCHANGED <<ringVars, next, taken, request, outcome, done, overlapped>>

\* Between get_task's test and its last write.
Inside(t) == pc[t] \in {"take", "clear", "advance"}

\* Mutant: the loop looks at the pointer of the last round, not at got_task.
GetTaskStale(t) ==
    /\ pc[t] = "get"
    /\ next' = [next EXCEPT ![t] = Succ(get_index)]
    /\ Goto(t, IF get_index = put_index THEN "apply" ELSE "take")
    /\ overlapped' = (overlapped \/ \E u \in Consumers : Inside(u))
    /\ UNCHANGED <<ringVars, taken, request, outcome, done>>

\* get_task computes the next index first and tests the ring again.
GetTask(t) ==
    /\ pc[t] = "get"
    /\ next' = [next EXCEPT ![t] = Succ(get_index)]
    /\ Goto(t, IF get_index = put_index THEN "idle" ELSE "take")
    /\ overlapped' = (overlapped \/ \E u \in Consumers : Inside(u))
    /\ UNCHANGED <<ringVars, taken, request, outcome, done>>

Take(t) ==
    /\ pc[t] = "take"
    /\ taken' = [taken EXCEPT ![t] = task[get_index]]
    /\ Goto(t, "clear")
    /\ UNCHANGED <<ringVars, next, request, outcome, done, overlapped>>

\* Mutant: the slot behind the one just read is emptied.
ClearNext(t) ==
    /\ pc[t] = "clear"
    /\ task' = [task EXCEPT ![next[t]] = NULL]
    /\ Goto(t, "advance")
    /\ UNCHANGED <<put_index, get_index, next, taken, request, outcome, done, overlapped>>

Clear(t) ==
    /\ pc[t] = "clear"
    /\ task' = [task EXCEPT ![get_index] = NULL]
    /\ Goto(t, "advance")
    /\ UNCHANGED <<put_index, get_index, next, taken, request, outcome, done, overlapped>>

Advance(t) ==
    /\ pc[t] = "advance"
    /\ get_index' = next[t]
    /\ Goto(t, "apply")
    /\ UNCHANGED <<task, put_index, next, taken, request, outcome, done, overlapped>>

\* process_task switches the mode of the outputs under the mutex, then frees
\* the task.  A NULL task is passed over.
Apply(t) ==
    /\ pc[t] = "apply"
    /\ done' = IF taken[t] = NULL THEN done ELSE Append(done, taken[t])
    /\ Goto(t, "test")
    /\ UNCHANGED <<ringVars, next, taken, request, outcome, overlapped>>

Schedule == ScheduleFull \/ ScheduleRoom
Queue == CopyFails \/ Store \/ Publish
Drain(t) == HaveTask(t) \/ GetTask(t) \/ Take(t) \/ Clear(t) \/ Advance(t) \/ Apply(t)

Next ==
    \/ Schedule
    \/ Queue
    \/ \E t \in Consumers : Cycle(t) \/ Drain(t)

Spec == Init /\ [][Next]_vars

(***************************************************************************)
(* The threads are scheduled.  Nothing is assumed of the compositor's      *)
(* repaint cycles: the handler drains the ring itself.                     *)
(***************************************************************************)
FairSpec ==
    /\ Spec
    /\ WF_vars(Queue)
    /\ \A t \in Consumers : WF_vars(Drain(t))

-----------------------------------------------------------------------------
Labels == {"idle", "copy", "publish", "test", "get", "take", "clear", "advance",
           "apply"}

\* Indices stay inside the array, slots hold requests or NULL.
TypeOK ==
    /\ task \in [Slots -> Nat]
    /\ put_index \in Slots
    /\ get_index \in Slots
    /\ pc \in [Consumers -> Labels]
    /\ next \in [Consumers -> Slots]
    /\ taken \in [Consumers -> Nat]
    /\ request \in Nat
    /\ outcome \in {"none", "full", "pending", "nomem", "queued"}
    /\ done \in Seq(Tasks)
    /\ overlapped \in BOOLEAN

\* The slots from get_index up to put_index, around the end of the array.
Waiting(k) ==
    IF get_index <= put_index THEN get_index <= k /\ k < put_index
    ELSE get_index <= k \/ k < put_index

SlotsMatch ==
    \A k \in Slots :
        task[k] # NULL <=>
            \/ Waiting(k) /\ ~(\E t \in Consumers : pc[t] = "advance" /\ k = get_index)
            \/ pc[Server] = "publish" /\ k = put_index

\* Until two threads are in get_task at once, a slot holds a task exactly while
\* the task is waiting in it, however the handler's schedule_task and the two
\* drain loops interleave: nothing is overwritten, nothing is left behind to be
\* run a second time, and nothing else than the two bodies needs to be kept apart.
SlotsMatchIndices == ~overlapped => SlotsMatch

\* process_task frees the task it has run (line 401).  Until two threads are in
\* get_task at once, no task is applied twice and none is in two hands, although
\* both threads may be in process_task.
AppliedOnce ==
    ~overlapped =>
        /\ \A i, j \in 1 .. Len(done) : done[i] = done[j] => i = j
        /\ \A t, u \in Consumers :
            pc[t] = "apply" /\ pc[u] = "apply" /\ taken[t] = taken[u] => t = u
        /\ \A t \in Consumers, i \in 1 .. Len(done) : pc[t] = "apply" => taken[t] # done[i]

\* A task is in one place at a time: waiting in its slot, in one thread's hand, or
\* applied, and freed (line 401).  Two threads drain without a lock, and all that
\* must be kept apart are the bodies of get_task.
TaskInOnePlace == SlotsMatchIndices /\ AppliedOnce

\* A "set mode" request is refused as "queue full" only after two threads were in
\* get_task at once: the handler empties the ring before it takes the next
\* request, whatever the compositor is in the middle of.
FullOnlyAfterOverlap == outcome = "full" => overlapped

\* Tasks are to run after the repaint cycle in the order the requests came, each
\* once.
AppliedInOrder == \A i, j \in 1 .. Len(done) : i < j => done[i] < done[j]

\* A request that was queued is applied in the end, by the handler if no repaint
\* cycle ever completes, unless two threads were in get_task at once.
QueuedIsApplied ==
    \A n \in 1 .. MaxRequests :
        (request = n /\ outcome = "queued") ~>
            (overlapped \/ \E i \in 1 .. Len(done) : done[i] = n)

-----------------------------------------------------------------------------
(* The ring implements TaskQueue: the queue is what waits between the two  *)
(* indices; a task leaves it when get_index moves on.                      *)

Count == IF get_index <= put_index THEN put_index - get_index
         ELSE put_index - get_index + MaxTask

SlotOf(k) == IF get_index + k - 1 < MaxTask THEN get_index + k - 1
             ELSE get_index + k - 1 - MaxTask

\* The first waiting task may already be out of its slot.
WaitingTasks ==
    [k \in 1 .. Count |->
        IF k = 1 /\ \E t \in Consumers : pc[t] = "advance"
        THEN taken[CHOOSE t \in Consumers : pc[t] = "advance"]
        ELSE task[SlotOf(k)]]

InHands == {taken[t] : t \in {u \in Consumers : pc[u] = "apply"}}

Promise == INSTANCE TaskQueue WITH
    Capacity <- MaxTask - 1, queue <- WaitingTasks, hands <- InHands

\* Each step of the program either is a step of the queue, or leaves the queue as
\* it is, or comes after two threads were in get_task at once.
Implements ==
    /\ Promise!Init
    /\ [][overlapped' \/ Promise!Next]_Promise!vars
=============================================================================
