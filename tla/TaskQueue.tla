------------------------------ MODULE TaskQueue ------------------------------
(***************************************************************************)
(* What "schedule a task to run after the repaint cycle" promises: "set    *)
(* mode" requests, numbered as the handler receives them, are taken up in  *)
(* that order, each once, and a request is turned away as "queue full"     *)
(* only when Capacity of them are waiting.  Several may be in hand at a    *)
(* time; each is applied once.                                             *)
(***************************************************************************)
EXTENDS Naturals, Sequences

CONSTANT Capacity

VARIABLES
    request,   \* the number of requests received so far
    outcome,   \* what became of the last one
    queue,     \* the requests waiting
    hands,     \* the requests being applied
    done       \* the requests applied

vars == <<request, outcome, queue, hands, done>>

Init ==
    /\ request = 0
    /\ outcome = "none"
    /\ queue = <<>>
    /\ hands = {}
    /\ done = <<>>

Reject ==
    /\ outcome # "pending"
    /\ Len(queue) = Capacity
    /\ request' = request + 1
    /\ outcome' = "full"
    /\ UNCHANGED <<queue, hands, done>>

Admit ==
    /\ outcome # "pending"
    /\ request' = request + 1
    /\ outcome' = "pending"
    /\ UNCHANGED <<queue, hands, done>>

Abandon ==
    /\ outcome = "pending"
    /\ outcome' = "nomem"
    /\ UNCHANGED <<request, queue, hands, done>>

Enqueue ==
    /\ outcome = "pending"
    /\ Len(queue) < Capacity
    /\ queue' = Append(queue, request)
    /\ outcome' = "queued"
    /\ UNCHANGED <<request, hands, done>>

Dequeue ==
    /\ queue # <<>>
    /\ hands' = hands \cup {Head(queue)}
    /\ queue' = Tail(queue)
    /\ UNCHANGED <<request, outcome, done>>

Apply ==
    /\ \E h \in hands :
        /\ hands' = hands \ {h}
        /\ done' = Append(done, h)
    /\ UNCHANGED <<request, outcome, queue>>

Next == Reject \/ Admit \/ Abandon \/ Enqueue \/ Dequeue \/ Apply

Spec == Init /\ [][Next]_vars
=============================================================================
