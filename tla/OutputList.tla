----------------------------- MODULE OutputList -----------------------------
(***************************************************************************)
(* g_output_list of compositor-drm-help.c: a doubly linked list whose head *)
(* is a global variable, whose last node is always empty and whose other   *)
(* nodes are malloc'ed.  weston's thread updates it under the mutex; the   *)
(* mode switch reads it under the mutex; the refresh that follows a "set   *)
(* mode" request walks it on the IPC server thread without the mutex.      *)
(***************************************************************************)
EXTENDS Integers, FiniteSets, SequencesExt

CONSTANTS
    Outputs,      \* weston's outputs
    NoOutput,     \* a NULL output pointer
    Legacy,       \* g_output: the output given to help_set_switch_mode_function
    ListHead,     \* &g_output_list
    Heap,         \* the addresses calloc can return; their number is a bound
    Nil           \* a NULL node pointer

ASSUME OutputAssumption ==
    /\ NoOutput \notin Outputs
    /\ IsFiniteSet(Heap)
    /\ ListHead \notin Heap \cup {Nil}
    /\ Nil \notin Heap

VARIABLES
    mem,        \* the nodes: links, output, enable flag, allocated or not
    switched,   \* the outputs the last mode switch was applied to
    pos,        \* the refresh loop's position, or Nil
    wild        \* the access through a stale pointer that ended the run

vars == <<mem, switched, pos, wild>>

Nodes == {ListHead} \cup Heap
Pointers == Nodes \cup {Nil}

\* What calloc and free leave: all zero, and unused.
Blank == [prev |-> Nil, next |-> Nil, data |-> NoOutput, enable |-> FALSE, live |-> FALSE]

NextOf(m, n) == IF n = Nil THEN Nil ELSE m[n].next

\* The nodes from the head on, following next; the last one is the empty tail.
Chain(m) ==
    LET size == Cardinality(Nodes)
        at[k \in 0 .. size] == IF k = 0 THEN ListHead ELSE NextOf(m, at[k - 1])
    IN  SubSeq([k \in 1 .. size |-> at[k - 1]], 1, Cardinality({k \in 1 .. size : at[k - 1] # Nil}))

\* for_each_list visits all but the last node.
Elements(m) == Front(Chain(m))
TailOf(m) == Last(Chain(m))

Find(m, output) == SelectInSeq(Elements(m), LAMBDA n : m[n].data = output)

Init ==
    /\ mem = [n \in Nodes |-> [Blank EXCEPT !.live = (n = ListHead)]]
    /\ switched = {}
    /\ pos = Nil
    /\ wild = "none"

-----------------------------------------------------------------------------
(* help_updata_compositor_output                                           *)

\* The node newer goes to: the one that holds older, else the one that holds
\* newer already, else the first empty one.
Place(m, older, newer) ==
    LET wanted == IF older = NoOutput THEN newer ELSE older
    IN  IF Find(m, wanted) # 0 THEN Elements(m)[Find(m, wanted)]
        ELSE IF Find(m, newer) # 0 THEN Elements(m)[Find(m, newer)]
        ELSE IF Find(m, NoOutput) # 0 THEN Elements(m)[Find(m, NoOutput)]
        ELSE TailOf(m)

\* Mutant: replacing an output keeps its enable flag.
SetKeepsEnable(m, n, output) == [m EXCEPT ![n].data = output]

Set(m, n, output) == [m EXCEPT ![n].data = output, ![n].enable = FALSE]

\* Every other node that holds newer is emptied, and newer is put in place.
Put(m, n, newer) ==
    LET others == {e \in ToSet(Elements(m)) \ {n} : m[e].data = newer}
        clear  == [e \in Nodes |-> IF e \in others THEN Set(m, e, NoOutput)[e] ELSE m[e]]
    IN  Set(clear, n, newer)

\* calloc a new empty tail behind the old one.
Extend(m, tail, new) ==
    [m EXCEPT ![tail].next = new,
              ![new] = [Blank EXCEPT !.prev = tail, !.live = TRUE]]

\* The nodes whose prev is not the node before them.
Misled(m) ==
    LET s == Chain(m)
    IN  {s[k] : k \in {i \in 2 .. Len(s) : m[s[i]].prev # s[i - 1]}}

\* The nodes shrinking takes out: empty, not the head and not the tail.
Surplus(m) == {n \in ToSet(Elements(m)) \ {ListHead} : m[n].data = NoOutput}

\* Mutant: the node is unlinked but not freed.
UnlinkLeaks(m, n) ==
    [m EXCEPT ![m[n].prev].next = m[n].next, ![m[n].next].prev = m[n].prev]

\* Mutant: the next node's prev is not redirected.
UnlinkForwardOnly(m, n) ==
    [m EXCEPT ![m[n].prev].next = m[n].next, ![n] = Blank]

Unlink(m, n) ==
    [m EXCEPT ![m[n].prev].next = m[n].next,
              ![m[n].next].prev = m[n].prev,
              ![n] = Blank]

Shrink(m) ==
    FoldLeft(LAMBDA acc, n : IF n \in Surplus(m) THEN Unlink(acc, n) ELSE acc, m, Chain(m))

LastElement(m) == IF Elements(m) = <<>> THEN ListHead ELSE Last(Elements(m))

NeedsSwap(m) == m[ListHead].data = NoOutput /\ LastElement(m) # ListHead

\* Mutant: an empty head stays empty.
SwapNever(m) == m

\* The last element moves into the empty head and its node is freed.  The copy
\* is sizeof(connector_list) long and stops short of enable, and the tail's
\* prev is left pointing at the freed node.
Swap(m) ==
    IF ~NeedsSwap(m) THEN m
    ELSE LET last == LastElement(m)
             cut  == [m EXCEPT ![m[last].prev].next = m[last].next]
         IN  [cut EXCEPT ![ListHead].data = m[last].data, ![last] = Blank]

\* Removal trusts prev.  Through a stale one it writes next into another node
\* than the one before, freed or reused, and then frees the node it takes out,
\* which the node before still names; what the loop reads after that is undefined.
StaleSurplus(m) == Surplus(m) \cap Misled(m) # {}
StaleMove(m) == NeedsSwap(m) /\ LastElement(m) \in Misled(m)

Tidy(m) ==
    /\ mem' = IF StaleSurplus(m) THEN Shrink(m) ELSE Swap(Shrink(m))
    /\ wild' = IF StaleSurplus(m) \/ StaleMove(Shrink(m)) THEN "prev" ELSE wild

\* The heap once newer has its node, before the list is tidied: the old empty
\* tail takes it when there is no other, and calloc gives a new one.
Written(m, older, newer) ==
    LET n == Place(m, older, newer)
    IN  IF n # TailOf(m) \/ newer = NoOutput THEN {Put(m, n, newer)}
        ELSE {Put(Extend(m, n, new), n, newer) : new \in {h \in Heap : ~m[h].live}}

\* When calloc fails nothing has been changed yet, and nothing is.
Update(older, newer) ==
    /\ wild = "none"
    /\ older # newer
    /\ \E m \in Written(mem, older, newer) : Tidy(m)
    /\ UNCHANGED <<switched, pos>>

\* help_switch_compositor_output
SwitchOutput(output, enable) ==
    /\ wild = "none"
    /\ mem' = IF Find(mem, output) = 0 THEN mem
              ELSE [mem EXCEPT ![Elements(mem)[Find(mem, output)]].enable = enable]
    /\ UNCHANGED <<switched, pos, wild>>

-----------------------------------------------------------------------------
(* The readers: process_task and the refresh loop of m_message_handle.     *)

\* Mutant: the loop does not look at enable.
SwitchModeAll ==
    /\ wild = "none"
    /\ switched' = IF mem[ListHead].data # NoOutput
                   THEN {mem[n].data : n \in ToSet(Chain(mem))}
                   ELSE {Legacy} \ {NoOutput}
    /\ UNCHANGED <<mem, pos, wild>>

SwitchMode ==
    /\ wild = "none"
    /\ switched' = IF mem[ListHead].data # NoOutput
                   THEN {mem[n].data : n \in {e \in ToSet(Elements(mem)) : mem[e].enable}}
                   ELSE {Legacy} \ {NoOutput}
    /\ UNCHANGED <<mem, pos, wild>>

RefreshBegin ==
    /\ wild = "none"
    /\ pos = Nil
    /\ mem[ListHead].data # NoOutput
    /\ pos' = ListHead
    /\ UNCHANGED <<mem, switched, wild>>

\* One turn of the loop: force_refresh of an enabled output, then pos->next.
RefreshStep ==
    /\ wild = "none"
    /\ pos # Nil
    /\ IF mem[pos].live
       THEN pos' = mem[pos].next /\ wild' = wild
       ELSE pos' = pos /\ wild' = "walk"
    /\ UNCHANGED <<mem, switched>>

Next ==
    \/ \E older, newer \in Outputs \cup {NoOutput} : Update(older, newer)
    \/ \E output \in Outputs, enable \in BOOLEAN : SwitchOutput(output, enable)
    \/ SwitchMode
    \/ RefreshBegin
    \/ RefreshStep

Spec == Init /\ [][Next]_vars

-----------------------------------------------------------------------------
Known(m) == {m[n].data : n \in ToSet(Elements(m))} \ {NoOutput}
Enabled(m) == {m[n].data : n \in {e \in ToSet(Elements(m)) : m[e].enable}}

\* Every node holds pointers and an output or NULL, and a mode switch is only
\* ever applied to outputs.
TypeOK ==
    /\ mem \in [Nodes -> [prev : Pointers, next : Pointers, data : Outputs \cup {NoOutput},
                           enable : BOOLEAN, live : BOOLEAN]]
    /\ switched \subseteq (Outputs \cup {Legacy}) \ {NoOutput}
    /\ pos \in Pointers
    /\ wild \in {"none", "prev", "walk"}

\* process_task (line 382) and m_message_handle (line 447) ask whether there is
\* any output by looking at the head alone.
HeadFilled == Known(mem) # {} => mem[ListHead].data # NoOutput

\* Line 26, "Must leave a NULL to list end": between updates the list runs
\* through exactly the nodes that are allocated and ends in an empty, disabled
\* one; no output is in it twice, and only the head of a list without outputs
\* is an empty element.
ListIntact ==
    /\ HeadFilled
    /\ ToSet(Chain(mem)) = {n \in Nodes : mem[n].live}
    /\ mem[TailOf(mem)].next = Nil
    /\ mem[TailOf(mem)].data = NoOutput /\ ~mem[TailOf(mem)].enable
    /\ \A e, f \in ToSet(Elements(mem)) : mem[e].data = mem[f].data => e = f
    /\ \A e \in ToSet(Elements(mem)) :
         mem[e].data = NoOutput => e = ListHead /\ ~mem[e].enable

\* A node whose prev is wrong is taken out of the list and freed.
TakesOutMisled == \E n \in Misled(mem) : mem[n].live /\ ~mem'[n].live

\* Lines 895-921: whatever updates, switches and walks come in whatever order, the
\* list stays intact as long as no update takes out a node whose prev is wrong.
OnlyStalePrevBreaksList == [][ListIntact /\ ~ListIntact' => TakesOutMisled]_vars

\* Lines 899-920: from a list whose back links are right, an update can leave
\* only the tail's wrong, and then it names the node of the last output, which
\* moved into the head and was freed; taking a node out of the middle keeps
\* the links of its neighbours right.
OnlyTheMoveBreaksPrev ==
    [][Misled(mem) = {} /\ Misled(mem') # {} =>
         /\ Misled(mem') = {TailOf(mem')}
         /\ mem'[TailOf(mem')].prev = LastElement(mem)
         /\ ~mem'[LastElement(mem)].live]_mem

\* The list does what OutputSet says of outputs, enable flags and switches.
Promise == INSTANCE OutputSet WITH known <- Known(mem), enabled <- Enabled(mem)

\* Lines 914-920: the update moves the last element's output into the head, and
\* that output, and no other, loses its enable flag on the way.
MoveDisables ==
    LET moved == mem[LastElement(mem)].data
    IN  /\ ~mem'[LastElement(mem)].live
        /\ mem'[ListHead].data = moved
        /\ \E older, newer \in Outputs \cup {NoOutput} :
             /\ older # newer
             /\ Known(mem') = ((Known(mem) \ {older}) \cup {newer}) \ {NoOutput}
             /\ Enabled(mem') = Enabled(mem) \ {older, newer, moved}
        /\ switched' = switched

\* Every step of the program is a step of OutputSet or leaves it as it is, but for
\* the two that lose something: the flag of the output that moves, and the list
\* itself when a node with a wrong prev is taken out.
Implements ==
    /\ Promise!Init
    /\ [][Promise!Next \/ MoveDisables \/ TakesOutMisled]_Promise!vars
=============================================================================
