-------------------------- MODULE OutputListProofs --------------------------
(***************************************************************************)
(* What holds of the output list for any outputs and any number of nodes:  *)
(* it is intact until an update takes out a node whose back link is wrong, *)
(* only the move of the last element leaves one, and until then the list   *)
(* does what OutputSet says, but for the flag the move loses.              *)
(***************************************************************************)
EXTENDS OutputList, FiniteSetTheorems, TLAPS

Cells == [prev : Pointers, next : Pointers, data : Outputs \cup {NoOutput}, enable : BOOLEAN, live : BOOLEAN]

\* The nodes from the head on, following next, are those of s.
Linked(m, s) ==
    /\ m \in [Nodes -> Cells]
    /\ s \in Seq(Nodes)
    /\ s # <<>>
    /\ s[1] = ListHead
    /\ \A i, j \in 1 .. Len(s) : s[i] = s[j] => i = j
    /\ \A i \in 1 .. Len(s) : m[s[i]].next = IF i = Len(s) THEN Nil ELSE s[i + 1]

\* The nodes of s are the allocated ones, the last one is empty, and the others differ
\* in what they hold.
Chained(m, s) ==
    /\ Linked(m, s)
    /\ \A n \in Nodes : m[n].live <=> \E i \in 1 .. Len(s) : n = s[i]
    /\ m[s[Len(s)]].data = NoOutput /\ ~m[s[Len(s)]].enable
    /\ \A i, j \in 1 .. Len(s) - 1 : m[s[i]].data = m[s[j]].data => i = j
    /\ \A i \in 1 .. Len(s) - 1 : m[s[i]].data = NoOutput => ~m[s[i]].enable

\* And only a head that is the one element is empty.
Intact(m, s) ==
    /\ Chained(m, s)
    /\ \A i \in 1 .. Len(s) - 1 : m[s[i]].data = NoOutput => i = 1 /\ Len(s) = 2

IInv == TypeOK /\ (wild # "prev" => \E s : Intact(mem, s))

-----------------------------------------------------------------------------
(* Recursion along a list of any length.                                   *)

\* The least of some numbers.
LEMMA Least ==
  ASSUME NEW S \in SUBSET Nat, S # {}
  PROVE  \E b \in S : \A c \in S : b <= c
<1> DEFINE Below(b) == 0 .. b
           T == {Below(b) : b \in S}
<1>1. S \subseteq Nat
  OBVIOUS
<1>2. T \subseteq FiniteSubsetsOf(Nat)
  <2>1. \A b \in S : Below(b) \in SUBSET Nat /\ IsFiniteSet(Below(b))
    BY <1>1, FS_Interval
  <2>2. QED
    BY <2>1, Zenon DEF FiniteSubsetsOf
<1>3. T # {}
  OBVIOUS
<1>4. PICK x \in T : \A y \in T : ~ (<<y, x>> \in StrictSubsetOrdering(Nat))
  <2> HIDE DEF T
  <2>1. QED
    BY <1>2, <1>3, FS_StrictSubsetOrderingWellFounded, WFMin
<1>5. PICK m \in S : x = Below(m)
  BY <1>4
<1>6. \A c \in S : m <= c
  <2> SUFFICES ASSUME NEW c \in S, c < m PROVE FALSE
    BY <1>1
  <2>1. Below(c) \in SUBSET Nat /\ Below(m) \in SUBSET Nat /\ Below(c) \subseteq Below(m)
    BY <1>1
  <2>2. m \in Below(m) /\ m \notin Below(c)
    BY <1>1
  <2>3. Below(c) \in T
    OBVIOUS
  <2> HIDE DEF Below, T
  <2>4. QED
    BY <2>1, <2>2, <2>3, <1>4, <1>5 DEF StrictSubsetOrdering
<1>7. QED
  BY <1>6

\* A set with 0 in it, and the next of each number in it, has them all.
LEMMA UpTo ==
  ASSUME NEW L \in Nat, NEW S, 0 \in S, \A n \in 0 .. L : n + 1 \in 0 .. L /\ n \in S => n + 1 \in S
  PROVE  0 .. L \subseteq S
<1> DEFINE T == (0 .. L) \ S
<1>1. SUFFICES ASSUME T # {} PROVE FALSE
  OBVIOUS
<1>2. PICK b \in T : \A c \in T : b <= c
  <2>1. T \in SUBSET Nat
    OBVIOUS
  <2> HIDE DEF T
  <2>2. QED
    BY <1>1, <2>1, Least
<1>3. b \in 0 .. L /\ b # 0 /\ b - 1 \in 0 .. L /\ (b - 1) + 1 = b
  OBVIOUS
<1>4. b - 1 \in S
  BY <1>2, <1>3
<1>5. QED
  BY <1>3, <1>4

\* Two functions that start alike and go on alike are alike.
LEMMA SameWalk ==
  ASSUME NEW L \in Nat, NEW f, NEW g, f[0] = g[0],
         \A n \in 0 .. L : n + 1 \in 0 .. L /\ f[n] = g[n] => f[n + 1] = g[n + 1]
  PROVE  \A n \in 0 .. L : f[n] = g[n]
<1> DEFINE S == {n \in 0 .. L : f[n] = g[n]}
<1>1. 0 \in S /\ \A n \in 0 .. L : n + 1 \in 0 .. L /\ n \in S => n + 1 \in S
  OBVIOUS
<1> HIDE DEF S
<1>2. 0 .. L \subseteq S
  BY <1>1, UpTo
<1>3. QED
  BY <1>2 DEF S

-----------------------------------------------------------------------------
(* The list is the sequence the pointers say.                              *)

LEMMA Finite == IsFiniteSet(Nodes) /\ Cardinality(Nodes) \in Nat /\ ListHead # Nil /\ Nil \notin Nodes
<1>1. IsFiniteSet(Nodes)
  BY OutputAssumption, FS_Singleton, FS_Union DEF Nodes
<1>2. QED
  BY <1>1, FS_CardinalityType, OutputAssumption DEF Nodes

\* No node comes twice, so that the list is no longer than there are nodes.
LEMMA ListFits ==
  ASSUME NEW m, NEW s, Linked(m, s)
  PROVE  /\ Len(s) \in Nat \ {0} /\ Len(s) <= Cardinality(Nodes)
         /\ Cardinality(1 .. Len(s)) = Len(s)
<1>1. Len(s) \in Nat \ {0} /\ DOMAIN s = 1 .. Len(s) /\ s \in [1 .. Len(s) -> Nodes]
  BY DEF Linked
<1>2. s \in Injection(1 .. Len(s), Nodes)
  BY <1>1 DEF Linked, Injection, IsInjective
<1>3. Cardinality(1 .. Len(s)) = Len(s)
  BY <1>1, FS_Interval
<1>4. QED
  BY <1>1, <1>2, <1>3, FS_Injection, Finite

LEMMA ChainIs ==
  ASSUME NEW m, NEW s, Linked(m, s)
  PROVE  Chain(m) = s
<1> DEFINE size == Cardinality(Nodes)
           Walk(f) == f = [k \in 0 .. size |-> IF k = 0 THEN ListHead ELSE NextOf(m, f[k - 1])]
           at == CHOOSE f : Walk(f)
           w == [k \in 0 .. size |-> IF k < Len(s) THEN s[k + 1] ELSE Nil]
           L == Len(s)
<1>1. Chain(m) = SubSeq([k \in 1 .. size |-> at[k - 1]], 1, Cardinality({k \in 1 .. size : at[k - 1] # Nil}))
  BY DEF Chain
<1>2. L \in Nat \ {0} /\ L <= size /\ size \in Nat /\ \A i \in 1 .. L : s[i] \in Nodes /\ s[i] # Nil
  BY ListFits, Finite DEF Linked
<1>3. \A k \in 0 .. size : w[k] = IF k = 0 THEN ListHead ELSE NextOf(m, w[k - 1])
  <2> SUFFICES ASSUME NEW k \in 0 .. size PROVE w[k] = IF k = 0 THEN ListHead ELSE NextOf(m, w[k - 1])
    OBVIOUS
  <2>1. CASE k = 0
    BY <1>2, <2>1 DEF Linked
  <2>2. CASE k # 0 /\ k <= L
    <3>1. k \in 1 .. L /\ w[k - 1] = s[k]
      BY <1>2, <2>2
    <3>2. m[s[k]].next = IF k = L THEN Nil ELSE s[k + 1]
      BY <3>1 DEF Linked
    <3>3. QED
      BY <1>2, <2>2, <3>1, <3>2 DEF NextOf
  <2>3. CASE k > L
    BY <1>2, <2>3 DEF NextOf
  <2>4. QED
    BY <1>2, <2>1, <2>2, <2>3
<1>4. w = [k \in 0 .. size |-> w[k]]
  OBVIOUS
<1> HIDE DEF w
<1>5. Walk(w)
  BY <1>3, <1>4
<1>6. Walk(at)
  <2> HIDE DEF Walk
  <2>1. QED
    BY <1>5
<1>7. \A k \in 0 .. size : at[k] = IF k = 0 THEN ListHead ELSE NextOf(m, at[k - 1])
  <2> HIDE DEF at
  <2>1. QED
    BY <1>6
<1> HIDE DEF at, Walk
<1>8. \A k \in 0 .. size : at[k] = w[k]
  <2>1. at[0] = w[0]
    BY <1>2, <1>3, <1>7
  <2>2. \A n \in 0 .. size : n + 1 \in 0 .. size /\ at[n] = w[n] => at[n + 1] = w[n + 1]
    BY <1>2, <1>3, <1>7
  <2> HIDE DEF size
  <2>3. QED
    BY <1>2, <2>1, <2>2, SameWalk
<1>9. \A k \in 1 .. size : at[k - 1] = IF k <= L THEN s[k] ELSE Nil
  BY <1>2, <1>8 DEF w
<1>10. {k \in 1 .. size : at[k - 1] # Nil} = 1 .. L
  BY <1>2, <1>9
<1>11. Cardinality(1 .. L) = L
  BY ListFits
<1>12. SubSeq([k \in 1 .. size |-> at[k - 1]], 1, L) = s
  <2> DEFINE t == [k \in 1 .. size |-> at[k - 1]]
  <2>1. SubSeq(t, 1, L) = [k \in 1 .. L |-> t[k]]
    BY <1>2
  <2>2. \A k \in 1 .. L : t[k] = s[k]
    BY <1>2, <1>9
  <2>3. s = [k \in 1 .. L |-> s[k]]
    BY DEF Linked
  <2> HIDE DEF t, L
  <2>4. [k \in 1 .. L |-> t[k]] = [k \in 1 .. L |-> s[k]]
    BY <2>2
  <2>5. SubSeq(t, 1, L) = s
    BY <2>1, <2>3, <2>4
  <2>6. QED
    BY <2>5 DEF t
<1>13. QED
  BY <1>1, <1>10, <1>11, <1>12
\* What the operators of OutputList say of a list given as a sequence.
LEMMA Reading ==
  ASSUME NEW m, NEW s, Linked(m, s)
  PROVE  /\ Len(Elements(m)) = Len(s) - 1
         /\ \A i \in 1 .. Len(s) - 1 : Elements(m)[i] = s[i]
         /\ ToSet(Elements(m)) = {s[i] : i \in 1 .. Len(s) - 1}
         /\ ToSet(Chain(m)) = {s[i] : i \in 1 .. Len(s)}
         /\ TailOf(m) = s[Len(s)]
         /\ LastElement(m) = IF Len(s) = 1 THEN ListHead ELSE s[Len(s) - 1]
         /\ Surplus(m) = {s[i] : i \in {j \in 2 .. Len(s) - 1 : m[s[j]].data = NoOutput}}
         /\ \A i \in 2 .. Len(s) : s[i] \in Misled(m) <=> m[s[i]].prev # s[i - 1]
         /\ Misled(m) = {s[k] : k \in {i \in 2 .. Len(s) : m[s[i]].prev # s[i - 1]}}
<1> DEFINE L == Len(s)
<1>1. L \in Nat \ {0} /\ DOMAIN s = 1 .. L /\ Chain(m) = s
  BY ListFits, ChainIs DEF Linked
<1>0. s[1] = ListHead /\ \A i, j \in 1 .. L : s[i] = s[j] => i = j
  BY Zenon DEF Linked
<1>2. Elements(m) = SubSeq(s, 1, L - 1)
  BY <1>1 DEF Elements, Front
<1>3. Len(Elements(m)) = L - 1 /\ DOMAIN Elements(m) = 1 .. L - 1 /\ \A i \in 1 .. L - 1 : Elements(m)[i] = s[i]
  <2>1. s \in Seq(Nodes)
    BY DEF Linked
  <2>2. SubSeq(s, 1, L - 1) \in Seq(Nodes) /\ Len(SubSeq(s, 1, L - 1)) = L - 1
        /\ \A i \in 1 .. L - 1 : SubSeq(s, 1, L - 1)[i] = s[i]
    BY <1>1, <2>1
  <2>3. QED
    BY <1>1, <1>2, <2>2
<1>4. ToSet(Elements(m)) = {s[i] : i \in 1 .. L - 1}
  BY <1>3 DEF ToSet
<1>5. ToSet(Chain(m)) = {s[i] : i \in 1 .. L} /\ TailOf(m) = s[L]
  BY <1>1 DEF ToSet, TailOf, Last
<1>6. LastElement(m) = IF L = 1 THEN ListHead ELSE s[L - 1]
  <2>1. CASE L = 1
    BY <1>2, <2>1 DEF LastElement, Linked
  <2>2. CASE L # 1
    <3>1. Elements(m) # <<>> /\ L - 1 \in 1 .. L - 1
      BY <1>1, <1>3, <2>2
    <3>2. Last(Elements(m)) = s[L - 1]
      BY <1>1, <1>3, <2>2 DEF Last
    <3>3. QED
      BY <2>2, <3>1, <3>2 DEF LastElement
  <2>3. QED
    BY <2>1, <2>2
<1>7. Surplus(m) = {s[i] : i \in {j \in 2 .. L - 1 : m[s[j]].data = NoOutput}}
  <2>1. \A i \in 1 .. L - 1 : s[i] = ListHead <=> i = 1
    <3>1. /\ \A i, j \in 1 .. L : s[i] = s[j] => i = j
          /\ s[1] = ListHead /\ 1 \in 1 .. L /\ 1 .. L - 1 \subseteq 1 .. L
      BY <1>1, <1>0
    <3> HIDE DEF L
    <3>2. QED
      BY <3>1
  <2>2. QED
    BY <1>1, <1>4, <2>1 DEF Surplus
<1>8. Misled(m) = {s[k] : k \in {i \in 2 .. L : m[s[i]].prev # s[i - 1]}}
  BY <1>1 DEF Misled
<1>9. \A i \in 2 .. L : s[i] \in Misled(m) <=> m[s[i]].prev # s[i - 1]
  <2>1. \A i \in 2 .. L : i \in 1 .. L
    BY <1>1
  <2>2. QED
    BY <1>0, <1>8, <2>1
<1>10. QED
  BY <1>3, <1>4, <1>5, <1>6, <1>7, <1>8, <1>9

\* The outputs of a list, and the enabled ones.
LEMMA Contents ==
  ASSUME NEW m, NEW s, Linked(m, s)
  PROVE  /\ Known(m) = {m[s[i]].data : i \in 1 .. Len(s) - 1} \ {NoOutput}
         /\ Enabled(m) = {m[s[i]].data : i \in {j \in 1 .. Len(s) - 1 : m[s[j]].enable}}
<1>1. ToSet(Elements(m)) = {s[i] : i \in 1 .. Len(s) - 1}
  BY Reading
<1>2. QED
  BY <1>1 DEF Known, Enabled

LEMMA FindIs ==
  ASSUME NEW m, NEW s, Linked(m, s), NEW o
  PROVE  \/ /\ Find(m, o) = 0
            /\ \A i \in 1 .. Len(s) - 1 : m[s[i]].data # o
         \/ /\ Find(m, o) \in 1 .. Len(s) - 1
            /\ Elements(m)[Find(m, o)] = s[Find(m, o)]
            /\ m[s[Find(m, o)]].data = o
<1> DEFINE I == {i \in 1 .. Len(Elements(m)) : m[Elements(m)[i]].data = o}
<1>1. Len(s) \in Nat \ {0} /\ Len(Elements(m)) = Len(s) - 1
      /\ \A i \in 1 .. Len(s) - 1 : Elements(m)[i] = s[i]
  BY Reading, ListFits
<1>2. Find(m, o) = IF I # {} THEN CHOOSE x \in I : \A y \in I : x =< y ELSE 0
  BY DEF Find, SelectInSeq, Min
<1>3. CASE I = {}
  BY <1>1, <1>2, <1>3
<1>4. CASE I # {}
  <2>1. I \in SUBSET Nat
    BY <1>1
  <2> HIDE DEF I
  <2>2. \E b \in I : \A c \in I : b <= c
    BY <1>4, <2>1, Least
  <2>3. Find(m, o) \in I
    BY <1>2, <1>4, <2>2
  <2>4. QED
    BY <1>1, <2>3 DEF I
<1>5. QED
  BY <1>3, <1>4

-----------------------------------------------------------------------------
(* What the steps of an update make of a list.                             *)

LEMMA LinkedFacts ==
  ASSUME NEW m, NEW s, Linked(m, s)
  PROVE  /\ m \in [Nodes -> Cells]
         /\ s \in Seq(Nodes)
         /\ s[1] = ListHead
         /\ \A i, j \in 1 .. Len(s) : s[i] = s[j] => i = j
         /\ \A i \in 1 .. Len(s) : s[i] \in Nodes
         /\ \A i \in 1 .. Len(s) : m[s[i]].next = IF i = Len(s) THEN Nil ELSE s[i + 1]
         /\ 1 \in 1 .. Len(s) /\ Len(s) \in Nat \ {0}
<1>1. /\ m \in [Nodes -> Cells]
      /\ s \in Seq(Nodes)
      /\ s[1] = ListHead
      /\ \A i, j \in 1 .. Len(s) : s[i] = s[j] => i = j
      /\ \A i \in 1 .. Len(s) : m[s[i]].next = IF i = Len(s) THEN Nil ELSE s[i + 1]
  BY Zenon DEF Linked
<1>2. Len(s) \in Nat \ {0}
  BY ListFits
<1>3. QED
  BY <1>1, <1>2

\* newer goes to the node at p, and every other node that held it is emptied.
Puts(m, r, s, p, newer) ==
    LET emptied(i) == i # p /\ i # Len(s) /\ m[s[i]].data = newer
    IN  /\ Linked(r, s)
        /\ \A e \in Nodes : r[e].prev = m[e].prev /\ r[e].live = m[e].live
        /\ \A i \in 1 .. Len(s) :
              /\ r[s[i]].data = IF i = p THEN newer ELSE IF emptied(i) THEN NoOutput ELSE m[s[i]].data
              /\ r[s[i]].enable <=> i # p /\ ~emptied(i) /\ m[s[i]].enable

LEMMA PutIs ==
  ASSUME NEW m, NEW s, Linked(m, s), NEW p \in 1 .. Len(s), NEW newer \in Outputs \cup {NoOutput}
  PROVE  Puts(m, Put(m, s[p], newer), s, p, newer)
<1> DEFINE L == Len(s)
           n == s[p]
           others == {e \in ToSet(Elements(m)) \ {n} : m[e].data = newer}
           clear == [e \in Nodes |-> IF e \in others THEN Set(m, e, NoOutput)[e] ELSE m[e]]
           r == Put(m, n, newer)
           emptied(i) == i # p /\ i # L /\ m[s[i]].data = newer
<1>1. r = [clear EXCEPT ![n].data = newer, ![n].enable = FALSE]
  BY DEF Put, Set
<1>2. m \in [Nodes -> Cells] /\ n \in Nodes /\ L \in Nat \ {0}
  BY LinkedFacts
<1>3. ASSUME NEW e \in Nodes
      PROVE  clear[e] = IF e \in others THEN [m[e] EXCEPT !.data = NoOutput, !.enable = FALSE] ELSE m[e]
  BY <1>2 DEF Set
<1>4. NoOutput \in Outputs \cup {NoOutput} /\ FALSE \in BOOLEAN
  OBVIOUS
<1> HIDE DEF r
<1>5. ASSUME NEW e \in Nodes
      PROVE  /\ clear[e] \in Cells
             /\ clear[e].next = m[e].next /\ clear[e].prev = m[e].prev /\ clear[e].live = m[e].live
             /\ clear[e].data = IF e \in others THEN NoOutput ELSE m[e].data
             /\ clear[e].enable <=> e \notin others /\ m[e].enable
  <2> DEFINE c == m[e]
  <2>1. c \in Cells
    BY <1>2
  <2> HIDE DEF c, others
  <2>2. CASE e \in others
    BY <1>3, <1>4, <2>1, <2>2 DEF Cells, c
  <2>3. CASE e \notin others
    BY <1>3, <2>1, <2>3 DEF c
  <2>4. QED
    BY <2>2, <2>3
<1>6. clear = [e \in Nodes |-> clear[e]]
  OBVIOUS
<1> HIDE DEF clear
<1>7. r = [e \in Nodes |-> IF e = n THEN [clear[n] EXCEPT !.data = newer, !.enable = FALSE] ELSE clear[e]]
  <2>1. clear \in [Nodes -> Cells]
    BY <1>5, <1>6
  <2>2. QED
    BY <1>1, <1>2, <2>1 DEF Cells
<1>8. ASSUME NEW e \in Nodes
      PROVE  /\ r[e] \in Cells
             /\ r[e].next = m[e].next /\ r[e].prev = m[e].prev /\ r[e].live = m[e].live
             /\ r[e].data = IF e = n THEN newer ELSE IF e \in others THEN NoOutput ELSE m[e].data
             /\ r[e].enable <=> e # n /\ e \notin others /\ m[e].enable
  <2> DEFINE c == clear[e]
  <2>1. r[e] = IF e = n THEN [c EXCEPT !.data = newer, !.enable = FALSE] ELSE c
    BY <1>7
  <2>2. c \in Cells /\ c.next = m[e].next /\ c.prev = m[e].prev /\ c.live = m[e].live
        /\ c.data = (IF e \in others THEN NoOutput ELSE m[e].data)
        /\ (c.enable <=> e \notin others /\ m[e].enable)
    BY <1>5
  <2> HIDE DEF c, others, n
  <2>3. CASE e = n
    BY <1>4, <2>1, <2>2, <2>3 DEF Cells
  <2>4. CASE e # n
    BY <2>1, <2>2, <2>4
  <2>5. QED
    BY <2>3, <2>4
<1>9. r \in [Nodes -> Cells]
  BY <1>7, <1>8
<1>10. \A i \in 1 .. L : s[i] \in Nodes /\ (s[i] = n <=> i = p) /\ (s[i] \in others <=> emptied(i))
  <2>1. ToSet(Elements(m)) = {s[i] : i \in 1 .. L - 1}
    BY Reading
  <2>2. \A i \in 1 .. L : s[i] \in Nodes /\ (s[i] = n <=> i = p)
    BY LinkedFacts
  <2>3. \A i \in 1 .. L : s[i] \in ToSet(Elements(m)) <=> i # L
    BY <1>2, <2>1, LinkedFacts
  <2>4. QED
    BY <2>2, <2>3
<1> HIDE DEF others, n
<1>11. \A i \in 1 .. L :
          /\ r[s[i]].data = IF i = p THEN newer ELSE IF emptied(i) THEN NoOutput ELSE m[s[i]].data
          /\ r[s[i]].enable <=> i # p /\ ~emptied(i) /\ m[s[i]].enable
  BY <1>8, <1>10
<1>12. Linked(r, s)
  <2>1. \A i \in 1 .. L : r[s[i]].next = IF i = L THEN Nil ELSE s[i + 1]
    BY <1>8, <1>10, LinkedFacts
  <2>2. QED
    BY <1>9, <2>1, Zenon DEF Linked
<1>13. Puts(m, r, s, p, newer)
  BY <1>8, <1>11, <1>12 DEF Puts
<1>14. QED
  BY <1>13 DEF r, n

LEMMA ChainedFacts ==
  ASSUME NEW m, NEW s, Chained(m, s)
  PROVE  /\ Linked(m, s)
         /\ Len(s) \in Nat \ {0}
         /\ \A i \in 1 .. Len(s) : s[i] \in Nodes /\ m[s[i]].data \in Outputs \cup {NoOutput}
         /\ \A n \in Nodes : m[n].live <=> \E i \in 1 .. Len(s) : n = s[i]
         /\ m[s[Len(s)]].data = NoOutput /\ ~m[s[Len(s)]].enable
         /\ \A i, j \in 1 .. Len(s) - 1 : m[s[i]].data = m[s[j]].data => i = j
         /\ \A i \in 1 .. Len(s) - 1 : m[s[i]].data = NoOutput => ~m[s[i]].enable
<1>1. /\ Linked(m, s)
      /\ \A n \in Nodes : m[n].live <=> \E i \in 1 .. Len(s) : n = s[i]
      /\ m[s[Len(s)]].data = NoOutput /\ ~m[s[Len(s)]].enable
      /\ \A i, j \in 1 .. Len(s) - 1 : m[s[i]].data = m[s[j]].data => i = j
      /\ \A i \in 1 .. Len(s) - 1 : m[s[i]].data = NoOutput => ~m[s[i]].enable
  BY Zenon DEF Chained
<1>2. Len(s) \in Nat \ {0} /\ m \in [Nodes -> Cells] /\ \A i \in 1 .. Len(s) : s[i] \in Nodes
  BY <1>1, LinkedFacts
<1>3. \A n \in Nodes : m[n].data \in Outputs \cup {NoOutput}
  BY <1>2 DEF Cells
<1>4. QED
  BY <1>1, <1>2, <1>3

\* Where newer goes: to the node that holds older, if one does; and an empty element is
\* always taken.
LEMMA PlaceIs ==
  ASSUME NEW m, NEW s, Intact(m, s), NEW older, NEW newer, older # newer
  PROVE  \E p \in 1 .. Len(s) :
            /\ Place(m, older, newer) = s[p]
            /\ \A i \in 1 .. Len(s) - 1 :
                  /\ m[s[i]].data = older /\ older # NoOutput => i = p
                  /\ m[s[i]].data = NoOutput => i = p
                  /\ i = p => m[s[i]].data \in {older, newer, NoOutput}
                  /\ p = Len(s) => m[s[i]].data # newer
<1> DEFINE L == Len(s)
           d(i) == m[s[i]].data
           wanted == IF older = NoOutput THEN newer ELSE older
<1>1. Chained(m, s) /\ \A i \in 1 .. L - 1 : d(i) = NoOutput => i = 1 /\ L = 2
  BY Zenon DEF Intact
<1>2. Linked(m, s) /\ L \in Nat \ {0} /\ \A i, j \in 1 .. L - 1 : d(i) = d(j) => i = j
  BY <1>1, ChainedFacts
<1>3. \A o : \/ Find(m, o) = 0 /\ \A i \in 1 .. L - 1 : d(i) # o
             \/ /\ Find(m, o) \in 1 .. L - 1
                /\ Elements(m)[Find(m, o)] = s[Find(m, o)]
                /\ d(Find(m, o)) = o
  BY <1>2, FindIs
<1>4. \A i, j \in 1 .. L - 1 : d(i) = NoOutput => i = j
  BY <1>1, <1>2
<1>5. wanted # NoOutput
  OBVIOUS
<1>6. CASE Find(m, wanted) # 0
  <2> DEFINE p == Find(m, wanted)
  <2>1. p \in 1 .. L - 1 /\ Elements(m)[p] = s[p] /\ d(p) = wanted
    BY <1>3, <1>6
  <2>2. Place(m, older, newer) = s[p]
    BY <1>6, <2>1 DEF Place
  <2> HIDE DEF p
  <2>3. p \in 1 .. L /\ p # L
    BY <1>2, <2>1
  <2>4. \A i \in 1 .. L - 1 :
           /\ d(i) = older /\ older # NoOutput => i = p
           /\ d(i) = NoOutput => i = p
           /\ i = p => d(i) \in {older, newer, NoOutput}
           /\ p = L => d(i) # newer
    BY <1>2, <1>4, <2>1, <2>3
  <2>5. QED
    BY <2>2, <2>3, <2>4
<1>7. CASE Find(m, wanted) = 0 /\ Find(m, newer) # 0
  <2> DEFINE p == Find(m, newer)
  <2>1. p \in 1 .. L - 1 /\ Elements(m)[p] = s[p] /\ d(p) = newer
    BY <1>3, <1>7
  <2>2. Place(m, older, newer) = s[p]
    BY <1>7, <2>1 DEF Place
  <2> HIDE DEF p
  <2>3. p \in 1 .. L /\ p # L
    BY <1>2, <2>1
  <2>4. \A i \in 1 .. L - 1 : d(i) # wanted
    BY <1>3, <1>7
  <2>5. \A i \in 1 .. L - 1 :
           /\ d(i) = older /\ older # NoOutput => i = p
           /\ d(i) = NoOutput => i = p
           /\ i = p => d(i) \in {older, newer, NoOutput}
           /\ p = L => d(i) # newer
    BY <1>2, <1>4, <2>1, <2>3, <2>4
  <2>6. QED
    BY <2>2, <2>3, <2>5
<1>8. CASE Find(m, wanted) = 0 /\ Find(m, newer) = 0 /\ Find(m, NoOutput) # 0
  <2> DEFINE p == Find(m, NoOutput)
  <2>1. p \in 1 .. L - 1 /\ Elements(m)[p] = s[p] /\ d(p) = NoOutput
    BY <1>3, <1>8
  <2>2. Place(m, older, newer) = s[p]
    BY <1>8, <2>1 DEF Place
  <2> HIDE DEF p
  <2>3. p \in 1 .. L /\ p # L
    BY <1>2, <2>1
  <2>4. \A i \in 1 .. L - 1 : d(i) # wanted
    BY <1>3, <1>8
  <2>5. \A i \in 1 .. L - 1 :
           /\ d(i) = older /\ older # NoOutput => i = p
           /\ d(i) = NoOutput => i = p
           /\ i = p => d(i) \in {older, newer, NoOutput}
           /\ p = L => d(i) # newer
    BY <1>2, <1>4, <2>1, <2>3, <2>4
  <2>6. QED
    BY <2>2, <2>3, <2>5
<1>9. CASE Find(m, wanted) = 0 /\ Find(m, newer) = 0 /\ Find(m, NoOutput) = 0
  <2>1. Place(m, older, newer) = s[L]
    BY <1>2, <1>9, Reading DEF Place
  <2>2. \A i \in 1 .. L - 1 : d(i) # wanted /\ d(i) # newer /\ d(i) # NoOutput
    BY <1>3, <1>9
  <2>3. L \in 1 .. L /\ \A i \in 1 .. L - 1 : i # L
    BY <1>2
  <2>4. QED
    BY <2>1, <2>2, <2>3
<1>10. QED
  BY <1>6, <1>7, <1>8, <1>9

\* Putting an output at an element of a list: what is known and enabled afterwards.
OnlyHole(m, s, p) == \A i \in 1 .. Len(s) - 1 : m[s[i]].data = NoOutput => i = p

Fills(m, r, s, p, newer) ==
    /\ Chained(r, s)
    /\ Known(r) = ((Known(m) \ {m[s[p]].data}) \cup {newer}) \ {NoOutput}
    /\ Enabled(r) = Enabled(m) \ {m[s[p]].data, newer}

LEMMA PutChained ==
  ASSUME NEW m, NEW s, Chained(m, s), NEW p \in 1 .. Len(s) - 1, NEW newer \in Outputs \cup {NoOutput},
         OnlyHole(m, s, p)
  PROVE  Fills(m, Put(m, s[p], newer), s, p, newer)
<1> DEFINE L == Len(s)
           r == Put(m, s[p], newer)
           d(i) == m[s[i]].data
           emptied(i) == i # p /\ i # L /\ d(i) = newer
<1>1. /\ Linked(m, s) /\ L \in Nat \ {0} /\ p \in 1 .. L /\ p # L
      /\ \A i \in 1 .. L : s[i] \in Nodes
      /\ \A i, j \in 1 .. L - 1 : d(i) = d(j) => i = j
      /\ \A i \in 1 .. L - 1 : i \in 1 .. L /\ i # L /\ (d(i) = NoOutput => ~m[s[i]].enable)
      /\ L \in 1 .. L
  BY ChainedFacts
<1>2. /\ Linked(r, s)
      /\ \A e \in Nodes : r[e].prev = m[e].prev /\ r[e].live = m[e].live
      /\ \A i \in 1 .. L :
            /\ r[s[i]].data = IF i = p THEN newer ELSE IF emptied(i) THEN NoOutput ELSE d(i)
            /\ r[s[i]].enable <=> i # p /\ ~emptied(i) /\ m[s[i]].enable
  <2>1. Puts(m, r, s, p, newer)
    BY <1>1, PutIs
  <2>2. QED
    BY <2>1, Zenon DEF Puts
<1>0. \A i \in 1 .. L - 1 : d(i) = NoOutput => i = p
  BY DEF OnlyHole
<1> HIDE DEF r
<1>3. \A i \in 1 .. L - 1 :
         /\ r[s[i]].data = IF i = p THEN newer ELSE IF d(i) = newer THEN NoOutput ELSE d(i)
         /\ r[s[i]].enable <=> i # p /\ d(i) # newer /\ m[s[i]].enable
  BY <1>1, <1>2
<1>4. Chained(r, s)
  <2>1. \A n \in Nodes : r[n].live <=> \E i \in 1 .. L : n = s[i]
    BY <1>2, ChainedFacts
  <2>2. r[s[L]].data = NoOutput /\ ~r[s[L]].enable
    BY <1>1, <1>2, ChainedFacts
  <2>3. \A i, j \in 1 .. L - 1 : r[s[i]].data = r[s[j]].data => i = j
    <3>1. ASSUME NEW i \in 1 .. L - 1, i # p
          PROVE  d(i) # NoOutput /\ r[s[i]].data # newer
      <4>1. d(i) # NoOutput
        BY <1>0, <3>1
      <4>2. QED
        BY <1>3, <3>1, <4>1
    <3>2. ASSUME NEW i \in 1 .. L - 1, NEW j \in 1 .. L - 1, i # p, j # p, r[s[i]].data = r[s[j]].data
          PROVE  i = j
      <4>1. d(i) # NoOutput /\ d(j) # NoOutput
        BY <3>1, <3>2
      <4>2. d(i) = d(j)
        BY <1>3, <3>2, <4>1
      <4>3. QED
        BY <1>1, <4>2
    <3>3. \A i \in 1 .. L - 1 : i = p => r[s[i]].data = newer
      BY <1>3
    <3> HIDE DEF d
    <3>4. QED
      BY <3>1, <3>2, <3>3
  <2>4. \A i \in 1 .. L - 1 : r[s[i]].data = NoOutput => ~r[s[i]].enable
    BY <1>1, <1>3
  <2>5. QED
    BY <1>2, <2>1, <2>2, <2>3, <2>4, Zenon DEF Chained
<1>5. /\ Known(m) = {d(i) : i \in 1 .. L - 1} \ {NoOutput}
      /\ Known(r) = {r[s[i]].data : i \in 1 .. L - 1} \ {NoOutput}
      /\ Enabled(m) = {d(i) : i \in {j \in 1 .. L - 1 : m[s[j]].enable}}
      /\ Enabled(r) = {r[s[i]].data : i \in {j \in 1 .. L - 1 : r[s[j]].enable}}
  <2>1. /\ Known(m) = {d(i) : i \in 1 .. L - 1} \ {NoOutput}
        /\ Enabled(m) = {d(i) : i \in {j \in 1 .. L - 1 : m[s[j]].enable}}
    BY <1>1, Contents
  <2>2. /\ Known(r) = {r[s[i]].data : i \in 1 .. L - 1} \ {NoOutput}
        /\ Enabled(r) = {r[s[i]].data : i \in {j \in 1 .. L - 1 : r[s[j]].enable}}
    BY <1>2, Contents
  <2>3. QED
    BY <2>1, <2>2
<1> DEFINE f == [i \in 1 .. L - 1 |-> d(i)]
           g == [i \in 1 .. L - 1 |-> r[s[i]].data]
<1>6. /\ Known(m) = {f[i] : i \in 1 .. L - 1} \ {NoOutput}
      /\ Known(r) = {g[i] : i \in 1 .. L - 1} \ {NoOutput}
      /\ \A i \in 1 .. L - 1 : g[i] = IF i = p THEN newer ELSE IF f[i] = newer THEN NoOutput ELSE f[i]
      /\ \A i, j \in 1 .. L - 1 : f[i] = f[j] => i = j
      /\ f[p] = d(p)
  BY <1>1, <1>3, <1>5
<1>7. Known(r) = ((Known(m) \ {d(p)}) \cup {newer}) \ {NoOutput}
  <2>0. p \in 1 .. L - 1
    OBVIOUS
  <2> HIDE DEF f, g, L, d
  <2>1. ASSUME NEW x \in Known(r) PROVE x \in ((Known(m) \ {d(p)}) \cup {newer}) \ {NoOutput}
    <3>1. PICK i \in 1 .. L - 1 : x = g[i] /\ x # NoOutput
      BY <1>6
    <3>2. CASE i = p
      BY <1>6, <3>1, <3>2
    <3>3. CASE i # p
      <4>1. x = f[i] /\ f[i] # f[p]
        BY <1>6, <2>0, <3>1, <3>3
      <4>2. QED
        BY <1>6, <3>1, <4>1
    <3>4. QED
      BY <3>2, <3>3
  <2>2. ASSUME NEW x \in ((Known(m) \ {d(p)}) \cup {newer}) \ {NoOutput} PROVE x \in Known(r)
    <3>1. CASE x = newer
      <4>1. g[p] = newer
        BY <1>6, <2>0
      <4>2. QED
        BY <1>6, <2>0, <3>1, <4>1
    <3>2. CASE x # newer
      <4>1. PICK i \in 1 .. L - 1 : x = f[i]
        BY <1>6, <3>2
      <4>2. i # p /\ f[i] # newer
        BY <1>6, <3>2, <4>1
      <4>3. g[i] = x
        BY <1>6, <4>1, <4>2
      <4>4. QED
        BY <1>6, <4>3
    <3>3. QED
      BY <3>1, <3>2
  <2>3. QED
    BY <2>1, <2>2
<1>8. Enabled(r) = Enabled(m) \ {d(p), newer}
  <2> DEFINE on == {j \in 1 .. L - 1 : m[s[j]].enable}
             stays == {j \in 1 .. L - 1 : r[s[j]].enable}
  <2>1. /\ stays = {j \in on : j # p /\ f[j] # newer}
        /\ on \subseteq 1 .. L - 1
        /\ Enabled(m) = {f[i] : i \in on}
        /\ Enabled(r) = {g[i] : i \in stays}
    BY <1>3, <1>5
  <2>0. p \in 1 .. L - 1
    OBVIOUS
  <2> HIDE DEF f, g, L, d, on, stays
  <2>2. ASSUME NEW x \in Enabled(r) PROVE x \in Enabled(m) \ {d(p), newer}
    <3>1. PICK i \in stays : x = g[i]
      BY <2>1
    <3>2. i \in on /\ i \in 1 .. L - 1 /\ i # p /\ f[i] # newer
      BY <2>1, <3>1
    <3>3. x = f[i] /\ f[i] # f[p]
      BY <1>6, <2>0, <3>1, <3>2
    <3>4. QED
      BY <1>6, <2>1, <3>2, <3>3
  <2>3. ASSUME NEW x \in Enabled(m), x # d(p), x # newer PROVE x \in Enabled(r)
    <3>1. PICK i \in on : x = f[i]
      BY <2>1
    <3>2. i \in 1 .. L - 1 /\ i # p /\ f[i] # newer
      BY <1>6, <2>1, <2>3, <3>1
    <3>3. i \in stays /\ g[i] = x
      BY <1>6, <2>1, <3>1, <3>2
    <3>4. QED
      BY <2>1, <3>3
  <2>4. QED
    BY <2>2, <2>3
<1>9. QED
  BY <1>4, <1>7, <1>8, Zenon DEF r, Fills

\* A new empty tail behind the old one, which becomes an element.
LEMMA ExtendIs ==
  ASSUME NEW m, NEW s, Chained(m, s), \A i \in 1 .. Len(s) - 1 : m[s[i]].data # NoOutput,
         NEW new \in Heap, ~m[new].live
  PROVE  LET r == Extend(m, s[Len(s)], new)
             t == Append(s, new)
         IN  /\ Chained(r, t)
             /\ Len(t) = Len(s) + 1 /\ \A i \in 1 .. Len(s) : t[i] = s[i]
             /\ \A i \in 1 .. Len(s) : r[t[i]].data = m[s[i]].data
             /\ Known(r) = Known(m) /\ Enabled(r) = Enabled(m)
             /\ Misled(m) = {} => Misled(r) = {}
<1> DEFINE L == Len(s)
           tail == s[L]
           r == Extend(m, tail, new)
           t == Append(s, new)
           fresh == [Blank EXCEPT !.prev = tail, !.live = TRUE]
<1>1. /\ Linked(m, s) /\ L \in Nat \ {0} /\ L \in 1 .. L
      /\ \A i \in 1 .. L : s[i] \in Nodes
      /\ \A i, j \in 1 .. L : s[i] = s[j] => i = j
      /\ \A i \in 1 .. L : m[s[i]].next = IF i = L THEN Nil ELSE s[i + 1]
      /\ \A n \in Nodes : m[n].live <=> \E i \in 1 .. L : n = s[i]
      /\ m[tail].data = NoOutput /\ ~m[tail].enable
      /\ s \in Seq(Nodes) /\ s[1] = ListHead /\ m \in [Nodes -> Cells]
      /\ new \in Nodes
  <2>1. /\ Linked(m, s) /\ L \in Nat \ {0}
        /\ \A n \in Nodes : m[n].live <=> \E i \in 1 .. L : n = s[i]
        /\ m[tail].data = NoOutput /\ ~m[tail].enable
    BY ChainedFacts
  <2>2. /\ \A i \in 1 .. L : s[i] \in Nodes
        /\ \A i, j \in 1 .. L : s[i] = s[j] => i = j
        /\ \A i \in 1 .. L : m[s[i]].next = IF i = L THEN Nil ELSE s[i + 1]
        /\ s \in Seq(Nodes) /\ s[1] = ListHead /\ m \in [Nodes -> Cells]
    BY <2>1, LinkedFacts
  <2>3. new \in Nodes
    BY DEF Nodes
  <2>4. QED
    BY <2>1, <2>2, <2>3
<1>2. \A i \in 1 .. L : s[i] # new
  BY <1>1
<1>3. tail \in Nodes /\ tail # new
  BY <1>1, <1>2
<1>4. fresh \in Cells /\ fresh.prev = tail /\ fresh.next = Nil /\ fresh.data = NoOutput /\ ~fresh.enable /\ fresh.live
  BY <1>3 DEF Blank, Cells, Pointers
<1>5. r = [m EXCEPT ![tail].next = new, ![new] = fresh]
  BY DEF Extend
<1> HIDE DEF r, fresh
<1>6. /\ r \in [Nodes -> Cells]
      /\ r[new] = fresh
      /\ r[tail].next = new
      /\ \A n \in Nodes : n # new => /\ r[n].prev = m[n].prev /\ r[n].data = m[n].data
                                     /\ r[n].enable = m[n].enable /\ r[n].live = m[n].live
                                     /\ n # tail => r[n].next = m[n].next
  <2> DEFINE c == m[tail]
  <2>1. c \in Cells
    BY <1>1, <1>3
  <2>2. r = [n \in Nodes |-> IF n = new THEN fresh ELSE IF n = tail THEN [c EXCEPT !.next = new] ELSE m[n]]
    BY <1>1, <1>3, <1>5
  <2> DEFINE c2 == [c EXCEPT !.next = new]
  <2>3. /\ c2 \in Cells /\ c2.next = new /\ c2.prev = c.prev /\ c2.data = c.data
        /\ c2.enable = c.enable /\ c2.live = c.live
    BY <1>1, <2>1 DEF Cells, Pointers
  <2>4. r = [n \in Nodes |-> IF n = new THEN fresh ELSE IF n = tail THEN c2 ELSE m[n]]
    BY <2>2
  <2> HIDE DEF c2, tail
  <2>5. QED
    BY <1>1, <1>3, <1>4, <2>3, <2>4
<1>7. /\ t \in Seq(Nodes) /\ Len(t) = L + 1 /\ t[L + 1] = new
      /\ \A i \in 1 .. L : t[i] = s[i]
  BY <1>1
<1> HIDE DEF t
<1>8. \A i \in 1 .. L : t[i] \in Nodes /\ t[i] # new /\ (t[i] = tail <=> i = L)
  BY <1>1, <1>2, <1>7
<1>9. \A i \in 1 .. L + 1 : i \in 1 .. L \/ i = L + 1
  BY <1>1
<1>10. Linked(r, t)
  <2>1. t # <<>> /\ t[1] = ListHead
    BY <1>1, <1>7
  <2>2. \A i, j \in 1 .. Len(t) : t[i] = t[j] => i = j
    BY <1>1, <1>2, <1>7, <1>9
  <2>3. \A i \in 1 .. Len(t) : r[t[i]].next = IF i = Len(t) THEN Nil ELSE t[i + 1]
    <3> SUFFICES ASSUME NEW i \in 1 .. L + 1 PROVE r[t[i]].next = IF i = L + 1 THEN Nil ELSE t[i + 1]
      BY <1>7
    <3>1. CASE i = L + 1
      BY <1>4, <1>6, <1>7, <3>1
    <3>2. CASE i = L
      BY <1>1, <1>6, <1>7, <1>8, <3>2
    <3>3. CASE i \in 1 .. L /\ i # L
      <4>1. i # L + 1 /\ i + 1 \in 1 .. L /\ t[i + 1] = s[i + 1] /\ t[i] = s[i]
        BY <1>1, <1>7, <3>3
      <4>2. QED
        BY <1>1, <1>6, <1>8, <3>3, <4>1
    <3>4. QED
      BY <1>9, <3>1, <3>2, <3>3
  <2>4. QED
    BY <1>6, <1>7, <2>1, <2>2, <2>3, Zenon DEF Linked
<1>11. \A i \in 1 .. L : /\ r[t[i]].data = m[s[i]].data /\ r[t[i]].enable = m[s[i]].enable
                         /\ r[t[i]].prev = m[s[i]].prev
  BY <1>6, <1>7, <1>8
<1>12. Len(t) - 1 = L
  BY <1>1, <1>7
<1>13. Chained(r, t)
  <2>1. \A n \in Nodes : r[n].live <=> \E i \in 1 .. Len(t) : n = t[i]
    <3> SUFFICES ASSUME NEW n \in Nodes PROVE r[n].live <=> \E i \in 1 .. Len(t) : n = t[i]
      OBVIOUS
    <3>1. CASE n = new
      BY <1>1, <1>4, <1>6, <1>7, <3>1
    <3>2. CASE n # new
      <4>1. r[n].live <=> \E i \in 1 .. L : n = s[i]
        BY <1>1, <1>6, <3>2
      <4>2. \A i \in 1 .. L : i \in 1 .. Len(t) /\ t[i] = s[i]
        BY <1>1, <1>7
      <4>3. \A i \in 1 .. Len(t) : i \in 1 .. L \/ t[i] = new
        BY <1>7, <1>9
      <4>4. QED
        BY <3>2, <4>1, <4>2, <4>3
    <3>3. QED
      BY <3>1, <3>2
  <2>2. r[t[Len(t)]].data = NoOutput /\ ~r[t[Len(t)]].enable
    BY <1>4, <1>6, <1>7
  <2>3. \A i, j \in 1 .. Len(t) - 1 : r[t[i]].data = r[t[j]].data => i = j
    <3>1. \A i, j \in 1 .. L - 1 : m[s[i]].data = m[s[j]].data => i = j
      BY ChainedFacts
    <3>2. \A i \in 1 .. L : i \in 1 .. L - 1 \/ i = L
      BY <1>1
    <3>3. \A i \in 1 .. L - 1 : m[s[i]].data # m[s[L]].data
      BY <1>1
    <3>4. \A i, j \in 1 .. L : m[s[i]].data = m[s[j]].data => i = j
      BY <3>1, <3>2, <3>3
    <3>5. QED
      BY <1>11, <1>12, <3>4
  <2>4. \A i \in 1 .. Len(t) - 1 : r[t[i]].data = NoOutput => ~r[t[i]].enable
    <3>1. \A i \in 1 .. L : i \in 1 .. L - 1 \/ i = L
      BY <1>1
    <3>2. QED
      BY <1>1, <1>11, <1>12, <3>1
  <2>5. QED
    BY <1>10, <2>1, <2>2, <2>3, <2>4, Zenon DEF Chained
<1>14. Known(r) = Known(m) /\ Enabled(r) = Enabled(m)
  <2>1. /\ Known(m) = {m[s[i]].data : i \in 1 .. L - 1} \ {NoOutput}
        /\ Known(r) = {r[t[i]].data : i \in 1 .. L} \ {NoOutput}
        /\ Enabled(m) = {m[s[i]].data : i \in {j \in 1 .. L - 1 : m[s[j]].enable}}
        /\ Enabled(r) = {r[t[i]].data : i \in {j \in 1 .. L : r[t[j]].enable}}
    <3>1. /\ Known(m) = {m[s[i]].data : i \in 1 .. L - 1} \ {NoOutput}
          /\ Enabled(m) = {m[s[i]].data : i \in {j \in 1 .. L - 1 : m[s[j]].enable}}
      BY <1>1, Contents
    <3>2. /\ Known(r) = {r[t[i]].data : i \in 1 .. Len(t) - 1} \ {NoOutput}
          /\ Enabled(r) = {r[t[i]].data : i \in {j \in 1 .. Len(t) - 1 : r[t[j]].enable}}
      BY <1>10, Contents
    <3>3. QED
      BY <1>12, <3>1, <3>2
  <2>2. /\ r[t[L]].data = NoOutput /\ ~r[t[L]].enable
        /\ \A i \in 1 .. L - 1 : i \in 1 .. L
        /\ \A i \in 1 .. L : i \in 1 .. L - 1 \/ i = L
    BY <1>1, <1>11
  <2>3. /\ \A i \in 1 .. L - 1 : i \in 1 .. L /\ r[t[i]].data = m[s[i]].data /\ r[t[i]].enable = m[s[i]].enable
        /\ \A i \in 1 .. L : i \in 1 .. L - 1 \/ (r[t[i]].data = NoOutput /\ ~r[t[i]].enable)
    BY <1>11, <2>2
  <2> HIDE DEF L, tail
  <2>4. {r[t[i]].data : i \in 1 .. L} \ {NoOutput} = {m[s[i]].data : i \in 1 .. L - 1} \ {NoOutput}
    BY <2>3
  <2>5. {r[t[i]].data : i \in {j \in 1 .. L : r[t[j]].enable}} = {m[s[i]].data : i \in {j \in 1 .. L - 1 : m[s[j]].enable}}
    BY <2>3
  <2>6. QED
    BY <2>1, <2>4, <2>5
<1>15. Misled(m) = {} => Misled(r) = {}
  <2>1. /\ Misled(m) = {s[k] : k \in {i \in 2 .. L : m[s[i]].prev # s[i - 1]}}
        /\ Misled(r) = {t[k] : k \in {i \in 2 .. L + 1 : r[t[i]].prev # t[i - 1]}}
    <3>1. Misled(m) = {s[k] : k \in {i \in 2 .. L : m[s[i]].prev # s[i - 1]}}
      BY <1>1, Reading
    <3>2. Misled(r) = {t[k] : k \in {i \in 2 .. Len(t) : r[t[i]].prev # t[i - 1]}}
      BY <1>10, Reading
    <3>3. QED
      BY <1>7, <3>1, <3>2
  <2>2. r[t[L + 1]].prev = t[L]
    BY <1>1, <1>4, <1>6, <1>7
  <2>3. ASSUME NEW i \in 2 .. L + 1, \A j \in 2 .. L : m[s[j]].prev = s[j - 1]
        PROVE  r[t[i]].prev = t[i - 1]
    <3>1. CASE i = L + 1
      BY <1>1, <2>2, <3>1
    <3>2. CASE i # L + 1
      <4>1. i \in 2 .. L /\ i \in 1 .. L /\ i - 1 \in 1 .. L
        BY <1>1, <3>2
      <4>2. QED
        BY <1>7, <1>11, <2>3, <4>1
    <3>3. QED
      BY <3>1, <3>2
  <2>4. Misled(m) = {} => \A j \in 2 .. L : m[s[j]].prev = s[j - 1]
    BY <2>1
  <2>5. QED
    BY <2>1, <2>3, <2>4
<1>16. QED
  BY <1>7, <1>11, <1>13, <1>14, <1>15 DEF r, t

\* A list without its element at p.
Without(s, p) == [i \in 1 .. Len(s) - 1 |-> IF i < p THEN s[i] ELSE s[i + 1]]

\* What t then is.
Drops(s, p, t) ==
    /\ t \in Seq(Nodes) /\ Len(t) = Len(s) - 1 /\ t # <<>> /\ t[1] = ListHead
    /\ \A i, j \in 1 .. Len(t) : t[i] = t[j] => i = j
    /\ \A i \in 1 .. p - 1 : t[i] = s[i]
    /\ \A i \in p .. Len(s) - 1 : t[i] = s[i + 1]
    /\ \A i \in 1 .. Len(s) - 1 : t[i] # s[p]
    /\ \A i \in 1 .. Len(s) : i # p => \E j \in 1 .. Len(s) - 1 : s[i] = t[j]

LEMMA WithoutIs ==
  ASSUME NEW m, NEW s, Linked(m, s), NEW p \in 2 .. Len(s) - 1
  PROVE  Drops(s, p, Without(s, p))
<1> DEFINE L == Len(s)
           t == Without(s, p)
<1>1. /\ L \in Nat \ {0} /\ p \in Nat /\ 2 <= p /\ p <= L - 1
      /\ \A i \in 1 .. L : s[i] \in Nodes
      /\ \A i, j \in 1 .. L : s[i] = s[j] => i = j
      /\ s[1] = ListHead
  BY LinkedFacts
<1>2. t = [i \in 1 .. L - 1 |-> IF i < p THEN s[i] ELSE s[i + 1]]
  BY DEF Without
<1> HIDE DEF t, L
<1>3. \A i \in 1 .. L - 1 : /\ t[i] = s[IF i < p THEN i ELSE i + 1]
                            /\ (IF i < p THEN i ELSE i + 1) \in 1 .. L
  BY <1>1, <1>2
<1>4. t \in Seq(Nodes) /\ Len(t) = L - 1 /\ t # <<>>
  <2>1. t \in [1 .. L - 1 -> Nodes] /\ L - 1 \in Nat
    BY <1>1, <1>2, <1>3
  <2>2. t \in Seq(Nodes) /\ Len(t) = L - 1
    BY <2>1
  <2>3. QED
    BY <1>1, <2>2
<1>5. t[1] = ListHead
  BY <1>1, <1>3
<1>6. \A i, j \in 1 .. L - 1 : t[i] = t[j] => i = j
  <2> SUFFICES ASSUME NEW i \in 1 .. L - 1, NEW j \in 1 .. L - 1, t[i] = t[j] PROVE i = j
    OBVIOUS
  <2>1. (IF i < p THEN i ELSE i + 1) = (IF j < p THEN j ELSE j + 1)
    BY <1>1, <1>3
  <2>2. QED
    BY <1>1, <2>1
<1>7. /\ \A i \in 1 .. p - 1 : i \in 1 .. L - 1 /\ t[i] = s[i]
      /\ \A i \in p .. L - 1 : i \in 1 .. L - 1 /\ t[i] = s[i + 1]
  BY <1>1, <1>3
<1>8. \A i \in 1 .. L - 1 : t[i] # s[p]
  BY <1>1, <1>3
<1>9. ASSUME NEW i \in 1 .. L, i # p
      PROVE  \E j \in 1 .. L - 1 : s[i] = t[j]
  <2>1. CASE i < p
    BY <1>1, <1>7, <2>1
  <2>2. CASE i > p
    <3>1. i - 1 \in p .. L - 1 /\ (i - 1) + 1 = i
      BY <1>1, <2>2
    <3>2. QED
      BY <1>7, <3>1
  <2>3. QED
    BY <1>1, <1>9, <2>1, <2>2
<1>10. Drops(s, p, t)
  BY <1>4, <1>5, <1>6, <1>7, <1>8, <1>9 DEF Drops, L
<1>11. QED
  BY <1>10 DEF t

\* Taking the element at p out of the forward links.
LEMMA CutIs ==
  ASSUME NEW m, NEW s, Linked(m, s), NEW p \in 2 .. Len(s) - 1,
         NEW r \in [Nodes -> Cells], r[s[p - 1]].next = s[p + 1],
         \A n \in Nodes : n # s[p - 1] /\ n # s[p] => r[n].next = m[n].next
  PROVE  Linked(r, Without(s, p))
<1> DEFINE L == Len(s)
           t == Without(s, p)
<1>1. /\ L \in Nat \ {0} /\ p \in Nat /\ 2 <= p /\ p <= L - 1
      /\ \A i \in 1 .. L : s[i] \in Nodes
      /\ \A i, j \in 1 .. L : s[i] = s[j] => i = j
      /\ \A i \in 1 .. L : m[s[i]].next = IF i = L THEN Nil ELSE s[i + 1]
  BY LinkedFacts
<1>2. /\ t \in Seq(Nodes) /\ Len(t) = L - 1 /\ t # <<>> /\ t[1] = ListHead
      /\ \A i, j \in 1 .. Len(t) : t[i] = t[j] => i = j
      /\ \A i \in 1 .. p - 1 : t[i] = s[i]
      /\ \A i \in p .. L - 1 : t[i] = s[i + 1]
  <2>1. Drops(s, p, t)
    BY WithoutIs
  <2> HIDE DEF t
  <2>2. QED
    BY <2>1 DEF Drops
<1> HIDE DEF t, L
<1>3. ASSUME NEW i \in 1 .. L - 1
      PROVE  r[t[i]].next = IF i = L - 1 THEN Nil ELSE t[i + 1]
  <2>1. CASE i < p - 1
    <3>1. i \in 1 .. p - 1 /\ i + 1 \in 1 .. p - 1 /\ i \in 1 .. L /\ i # L /\ i # L - 1 /\ p \in 1 .. L /\ p - 1 \in 1 .. L
          /\ i # p /\ i # p - 1
      BY <1>1, <2>1
    <3>2. s[i] # s[p] /\ s[i] # s[p - 1] /\ t[i] = s[i] /\ t[i + 1] = s[i + 1] /\ s[i] \in Nodes /\ m[s[i]].next = s[i + 1]
      BY <1>1, <1>2, <3>1
    <3>3. QED
      BY <3>1, <3>2
  <2>2. CASE i = p - 1
    <3>1. i \in 1 .. p - 1 /\ i + 1 = p /\ p \in p .. L - 1 /\ i # L - 1
      BY <1>1, <2>2
    <3>2. t[i] = s[p - 1] /\ t[i + 1] = s[p + 1]
      BY <1>2, <2>2, <3>1
    <3>3. QED
      BY <3>1, <3>2
  <2>3. CASE i >= p
    <3>1. i \in p .. L - 1 /\ i + 1 \in 1 .. L /\ p \in 1 .. L /\ p - 1 \in 1 .. L /\ i + 1 # p /\ i + 1 # p - 1
      BY <1>1, <2>3
    <3>2. t[i] = s[i + 1] /\ s[i + 1] # s[p] /\ s[i + 1] # s[p - 1] /\ s[i + 1] \in Nodes
      BY <1>1, <1>2, <3>1
    <3>3. r[t[i]].next = IF i + 1 = L THEN Nil ELSE s[(i + 1) + 1]
      BY <1>1, <3>1, <3>2
    <3>4. i # L - 1 => i + 1 \in p .. L - 1 /\ t[i + 1] = s[(i + 1) + 1] /\ i + 1 # L
      BY <1>1, <1>2, <3>1
    <3>5. i = L - 1 => i + 1 = L
      BY <1>1
    <3>6. QED
      BY <3>3, <3>4, <3>5
  <2>4. QED
    BY <1>1, <2>1, <2>2, <2>3
<1>4. \A i \in 1 .. Len(t) : r[t[i]].next = IF i = Len(t) THEN Nil ELSE t[i + 1]
  BY <1>2, <1>3
<1>5. Linked(r, t)
  BY <1>2, <1>4, Zenon DEF Linked
<1>6. QED
  BY <1>5 DEF t

\* An element goes that is empty, or whose output moves into an empty head.
LEMMA CutChained ==
  ASSUME NEW m, NEW s, Chained(m, s), NEW p \in 2 .. Len(s) - 1,
         NEW r \in [Nodes -> Cells], r[s[p - 1]].next = s[p + 1],
         \A n \in Nodes : n # s[p - 1] /\ n # s[p] => r[n].next = m[n].next,
         \A n \in Nodes : n # s[p] => r[n].live = m[n].live /\ r[n].enable = m[n].enable,
         \A n \in Nodes : n # s[p] /\ n # ListHead => r[n].data = m[n].data,
         ~r[s[p]].live,
         \/ r[ListHead].data = m[ListHead].data /\ m[s[p]].data = NoOutput
         \/ r[ListHead].data = m[s[p]].data /\ m[ListHead].data = NoOutput
  PROVE  /\ Intact(r, Without(s, p))
         /\ Known(r) = Known(m)
         /\ Enabled(r) = Enabled(m) \ {m[s[p]].data}
<1> DEFINE L == Len(s)
           t == Without(s, p)
           d(i) == m[s[i]].data
           e(i) == r[t[i]].data
           k(i) == IF i < p THEN i ELSE i + 1
<1>1. /\ Linked(m, s) /\ L \in Nat \ {0} /\ p \in Nat /\ 2 <= p /\ p <= L - 1
      /\ \A i \in 1 .. L : s[i] \in Nodes
      /\ \A i, j \in 1 .. L : s[i] = s[j] => i = j
      /\ \A n \in Nodes : m[n].live <=> \E i \in 1 .. L : n = s[i]
      /\ d(L) = NoOutput /\ ~m[s[L]].enable
      /\ \A i, j \in 1 .. L - 1 : d(i) = d(j) => i = j
      /\ \A i \in 1 .. L - 1 : d(i) = NoOutput => ~m[s[i]].enable
      /\ s[1] = ListHead
  <2>1. /\ Linked(m, s) /\ L \in Nat \ {0}
        /\ \A i \in 1 .. L : s[i] \in Nodes
        /\ \A n \in Nodes : m[n].live <=> \E i \in 1 .. L : n = s[i]
        /\ d(L) = NoOutput /\ ~m[s[L]].enable
        /\ \A i, j \in 1 .. L - 1 : d(i) = d(j) => i = j
        /\ \A i \in 1 .. L - 1 : d(i) = NoOutput => ~m[s[i]].enable
    BY ChainedFacts
  <2>2. (\A i, j \in 1 .. L : s[i] = s[j] => i = j) /\ s[1] = ListHead
    BY <2>1, LinkedFacts
  <2>3. p \in Nat /\ 2 <= p /\ p <= L - 1
    BY <2>1
  <2>4. QED
    BY <2>1, <2>2, <2>3
<1>2. Linked(r, t)
  BY <1>1, CutIs
<1>3. /\ Len(t) = L - 1 /\ t[1] = ListHead
      /\ \A i \in 1 .. L - 1 : t[i] = s[k(i)] /\ k(i) \in 1 .. L /\ k(i) # p /\ (k(i) = 1 <=> i = 1)
      /\ \A n : (\E i \in 1 .. L : n = s[i]) <=> n = s[p] \/ \E i \in 1 .. L - 1 : n = t[i]
      /\ \A i \in 1 .. L - 1 : t[i] # s[p]
  <2>1. /\ Len(t) = L - 1 /\ t[1] = ListHead
        /\ \A i \in 1 .. p - 1 : t[i] = s[i]
        /\ \A i \in p .. L - 1 : t[i] = s[i + 1]
        /\ \A i \in 1 .. L : i # p => \E j \in 1 .. L - 1 : s[i] = t[j]
        /\ \A i \in 1 .. L - 1 : t[i] # s[p]
    <3>1. Drops(s, p, t)
      BY <1>1, WithoutIs
    <3> HIDE DEF t
    <3>2. QED
      BY <3>1, Zenon DEF Drops
  <2> HIDE DEF t
  <2>2. ASSUME NEW i \in 1 .. L - 1
        PROVE  t[i] = s[k(i)] /\ k(i) \in 1 .. L /\ k(i) # p /\ (k(i) = 1 <=> i = 1)
    <3>1. CASE i < p
      <4>1. i \in 1 .. p - 1
        BY <1>1, <3>1
      <4>2. QED
        BY <1>1, <2>1, <3>1, <4>1
    <3>2. CASE i >= p
      <4>1. i \in p .. L - 1
        BY <1>1, <3>2
      <4>2. QED
        BY <1>1, <2>1, <3>2, <4>1
    <3>3. QED
      BY <1>1, <3>1, <3>2
  <2>3. ASSUME NEW n
        PROVE  (\E i \in 1 .. L : n = s[i]) <=> n = s[p] \/ \E i \in 1 .. L - 1 : n = t[i]
    <3>1. p \in 1 .. L
      BY <1>1
    <3> HIDE DEF k, L
    <3>2. ASSUME NEW i \in 1 .. L, n = s[i], n # s[p]
          PROVE  \E j \in 1 .. L - 1 : n = t[j]
      BY <2>1, <3>2
    <3>3. ASSUME NEW i \in 1 .. L - 1, n = t[i]
          PROVE  \E j \in 1 .. L : n = s[j]
      BY <2>2, <3>3
    <3>4. QED
      BY <3>1, <3>2, <3>3
  <2>4. QED
    BY <2>1, <2>2, <2>3
<1> HIDE DEF t
<1>4. \A i \in 1 .. L - 1 : i # 1 => e(i) = d(k(i))
  BY <1>1, <1>3
<1>5. \A i \in 1 .. L - 1 : r[t[i]].enable = m[s[k(i)]].enable /\ r[t[i]].live
  <2> SUFFICES ASSUME NEW i \in 1 .. L - 1 PROVE r[t[i]].enable = m[s[k(i)]].enable /\ r[t[i]].live
    OBVIOUS
  <2>1. t[i] = s[k(i)] /\ t[i] # s[p] /\ k(i) \in 1 .. L
    BY <1>3
  <2> HIDE DEF k
  <2>2. t[i] \in Nodes /\ m[t[i]].live
    BY <1>1, <2>1
  <2>3. QED
    BY <2>1, <2>2
<1>6. \/ e(1) = d(1) /\ d(p) = NoOutput
      \/ e(1) = d(p) /\ d(1) = NoOutput
  BY <1>1, <1>3
<1>7. /\ \A i \in 1 .. L - 2 : i \in 1 .. L - 1 /\ k(i) \in 1 .. L - 1
      /\ k(L - 1) = L
      /\ 1 \in 1 .. L - 2 /\ p \in 1 .. L - 1 /\ 1 \in 1 .. L - 1 /\ k(1) = 1 /\ p # 1 /\ L - 1 # 1
      /\ \A i, j \in 1 .. L - 2 : k(i) = k(j) => i = j
  BY <1>1
<1>8. ASSUME NEW j \in 1 .. L - 1, j # p
      PROVE  \E i \in 1 .. L - 2 : k(i) = j
  <2>1. CASE j < p
    <3>1. j \in 1 .. L - 2 /\ k(j) = j
      BY <1>1, <2>1
    <3>2. QED
      BY <3>1
  <2>2. CASE j > p
    <3>1. j - 1 \in 1 .. L - 2 /\ k(j - 1) = j
      BY <1>1, <2>2
    <3>2. QED
      BY <3>1
  <2>3. QED
    BY <1>1, <1>8, <2>1, <2>2
<1>9. \A i \in 1 .. L - 1 : k(i) # p
  BY <1>3
<1> HIDE DEF k
<1>10. \A i \in 1 .. L - 2 : e(i) # NoOutput
  <2> SUFFICES ASSUME NEW i \in 1 .. L - 2 PROVE e(i) # NoOutput
    OBVIOUS
  <2>1. d(1) # d(p)
    BY <1>1, <1>7
  <2>2. CASE i = 1
    BY <1>6, <2>1, <2>2
  <2>3. CASE i # 1
    <3>1. k(i) \in 1 .. L - 1 /\ k(i) # 1 /\ k(i) # p /\ e(i) = d(k(i))
      BY <1>3, <1>4, <1>7, <2>3
    <3>2. d(k(i)) # d(1) /\ d(k(i)) # d(p)
      BY <1>1, <1>7, <3>1
    <3>3. QED
      BY <1>6, <3>1, <3>2
  <2>4. QED
    BY <2>2, <2>3
<1>11. \A i, j \in 1 .. L - 2 : e(i) = e(j) => i = j
  <2> SUFFICES ASSUME NEW i \in 1 .. L - 2, NEW j \in 1 .. L - 2, e(i) = e(j) PROVE i = j
    OBVIOUS
  <2>1. ASSUME NEW x \in 1 .. L - 2, x # 1
        PROVE  e(x) # e(1)
    <3>1. k(x) \in 1 .. L - 1 /\ k(x) # 1 /\ k(x) # p /\ e(x) = d(k(x))
      BY <1>3, <1>4, <1>7, <2>1
    <3>2. d(k(x)) # d(1) /\ d(k(x)) # d(p)
      BY <1>1, <1>7, <3>1
    <3>3. QED
      BY <1>6, <3>1, <3>2
  <2>2. CASE i # 1 /\ j # 1
    <3>1. d(k(i)) = d(k(j)) /\ k(i) \in 1 .. L - 1 /\ k(j) \in 1 .. L - 1
      BY <1>4, <1>7, <2>2
    <3>2. k(i) = k(j)
      BY <1>1, <3>1
    <3>3. QED
      BY <1>7, <3>2
  <2>3. QED
    BY <2>1, <2>2
<1>12. \A n \in Nodes : r[n].live <=> \E i \in 1 .. L - 1 : n = t[i]
  <2> SUFFICES ASSUME NEW n \in Nodes PROVE r[n].live <=> \E i \in 1 .. L - 1 : n = t[i]
    OBVIOUS
  <2>1. CASE n = s[p]
    BY <1>3, <2>1
  <2>2. CASE n # s[p]
    <3>1. r[n].live <=> m[n].live
      BY <2>2
    <3>2. m[n].live <=> \E i \in 1 .. L : n = s[i]
      BY <1>1
    <3>3. (\E i \in 1 .. L : n = s[i]) <=> \E i \in 1 .. L - 1 : n = t[i]
      BY <1>3, <2>2
    <3> HIDE DEF L
    <3>4. QED
      BY <3>1, <3>2, <3>3
  <2>3. QED
    BY <2>1, <2>2
<1>13. e(L - 1) = NoOutput /\ ~r[t[L - 1]].enable
  <2>1. L - 1 \in 1 .. L - 1
    BY <1>1
  <2>2. QED
    BY <1>1, <1>4, <1>5, <1>7, <2>1
<1>14. Len(t) - 1 = L - 2
  BY <1>1, <1>3
<1>15. Chained(r, t)
  <2>1. \A i, j \in 1 .. Len(t) - 1 : e(i) = e(j) => i = j
    BY <1>11, <1>14
  <2>2. \A i \in 1 .. Len(t) - 1 : e(i) = NoOutput => ~r[t[i]].enable
    BY <1>10, <1>14
  <2>3. /\ \A n \in Nodes : r[n].live <=> \E i \in 1 .. Len(t) : n = t[i]
        /\ e(Len(t)) = NoOutput /\ ~r[t[Len(t)]].enable
    BY <1>3, <1>12, <1>13
  <2>4. QED
    BY <1>2, <2>1, <2>2, <2>3, Zenon DEF Chained
<1>16. Intact(r, t)
  <2>1. \A i \in 1 .. Len(t) - 1 : e(i) = NoOutput => i = 1 /\ Len(t) = 2
    BY <1>10, <1>14
  <2>2. QED
    BY <1>15, <2>1, Zenon DEF Intact
<1>17. /\ Known(m) = {d(i) : i \in 1 .. L - 1} \ {NoOutput}
       /\ Known(r) = {e(i) : i \in 1 .. L - 2} \ {NoOutput}
       /\ Enabled(m) = {d(i) : i \in {j \in 1 .. L - 1 : m[s[j]].enable}}
       /\ Enabled(r) = {e(i) : i \in {j \in 1 .. L - 2 : r[t[j]].enable}}
  <2>1. /\ Known(m) = {d(i) : i \in 1 .. L - 1} \ {NoOutput}
        /\ Enabled(m) = {d(i) : i \in {j \in 1 .. L - 1 : m[s[j]].enable}}
    BY <1>1, Contents
  <2>2. /\ Known(r) = {e(i) : i \in 1 .. Len(t) - 1} \ {NoOutput}
        /\ Enabled(r) = {e(i) : i \in {j \in 1 .. Len(t) - 1 : r[t[j]].enable}}
    BY <1>2, Contents
  <2>3. QED
    BY <1>14, <2>1, <2>2
<1>18. \A i \in 1 .. L - 2 : \E j \in 1 .. L - 1 : e(i) = d(j)
  BY <1>4, <1>6, <1>7
<1>19. ASSUME NEW j \in 1 .. L - 1, d(j) # NoOutput
       PROVE  \E i \in 1 .. L - 2 : e(i) = d(j)
  <2>1. CASE j = p
    BY <1>6, <1>7, <1>19, <2>1
  <2>2. CASE j # p
    <3>1. PICK i \in 1 .. L - 2 : k(i) = j
      BY <1>8, <2>2
    <3>2. CASE i = 1
      BY <1>6, <1>7, <1>19, <3>1, <3>2
    <3>3. CASE i # 1
      BY <1>4, <1>7, <3>1, <3>3
    <3>4. QED
      BY <3>2, <3>3
  <2>3. QED
    BY <2>1, <2>2
<1>20. Known(r) = Known(m)
  <2> HIDE DEF d, e
  <2>1. {e(i) : i \in 1 .. L - 2} \ {NoOutput} \subseteq {d(i) : i \in 1 .. L - 1} \ {NoOutput}
    BY <1>18
  <2>2. {d(i) : i \in 1 .. L - 1} \ {NoOutput} \subseteq {e(i) : i \in 1 .. L - 2} \ {NoOutput}
    BY <1>19
  <2>3. QED
    BY <1>17, <2>1, <2>2
<1>21. Enabled(r) = Enabled(m) \ {d(p)}
  <2>1. ~r[t[1]].enable \/ d(p) = NoOutput
    BY <1>1, <1>5, <1>6, <1>7
  <2>2. ASSUME NEW i \in 1 .. L - 2, r[t[i]].enable
        PROVE  \E j \in 1 .. L - 1 : m[s[j]].enable /\ e(i) = d(j) /\ j # p
    <3>1. k(i) \in 1 .. L - 1 /\ m[s[k(i)]].enable /\ k(i) # p
      BY <1>5, <1>7, <1>9, <2>2
    <3>2. i = 1 => e(i) = d(k(i))
      <4>1. i = 1 => d(p) = NoOutput
        BY <2>1, <2>2
      <4>2. d(1) # d(p)
        BY <1>1, <1>7
      <4>3. QED
        BY <1>6, <1>7, <4>1, <4>2
    <3>3. e(i) = d(k(i))
      BY <1>4, <1>7, <3>2
    <3>4. QED
      BY <3>1, <3>3
  <2>3. ASSUME NEW j \in 1 .. L - 1, m[s[j]].enable, d(j) # d(p)
        PROVE  \E i \in 1 .. L - 2 : r[t[i]].enable /\ e(i) = d(j)
    <3>1. PICK i \in 1 .. L - 2 : k(i) = j
      BY <1>8, <2>3
    <3>2. r[t[i]].enable
      BY <1>5, <1>7, <2>3, <3>1
    <3>3. CASE i = 1
      BY <1>1, <1>6, <1>7, <2>3, <3>1, <3>2, <3>3
    <3>4. CASE i # 1
      BY <1>4, <1>7, <3>1, <3>2, <3>4
    <3>5. QED
      BY <3>3, <3>4
  <2>4. \A j \in 1 .. L - 1 : d(j) = d(p) => j = p
    BY <1>1, <1>7
  <2> HIDE DEF d, e
  <2>5. {e(i) : i \in {j \in 1 .. L - 2 : r[t[j]].enable}} \subseteq {d(i) : i \in {j \in 1 .. L - 1 : m[s[j]].enable}} \ {d(p)}
    <3> SUFFICES ASSUME NEW i \in 1 .. L - 2, r[t[i]].enable
                 PROVE  e(i) \in {d(x) : x \in {j \in 1 .. L - 1 : m[s[j]].enable}} \ {d(p)}
      OBVIOUS
    <3>1. PICK j \in 1 .. L - 1 : m[s[j]].enable /\ e(i) = d(j) /\ j # p
      BY <2>2
    <3>2. QED
      BY <2>4, <3>1
  <2>6. {d(i) : i \in {j \in 1 .. L - 1 : m[s[j]].enable}} \ {d(p)} \subseteq {e(i) : i \in {j \in 1 .. L - 2 : r[t[j]].enable}}
    BY <2>3
  <2>7. QED
    BY <1>17, <2>5, <2>6
<1>22. QED
  BY <1>16, <1>20, <1>21 DEF t

LEMMA BlankIs == /\ Blank \in Cells /\ Blank.next = Nil /\ Blank.prev = Nil /\ Blank.data = NoOutput
                 /\ ~Blank.enable /\ ~Blank.live
BY DEF Blank, Cells, Pointers

\* One field of a cell.
LEMMA CellExcept ==
  ASSUME NEW c \in Cells, NEW n \in Nodes, NEW o \in Outputs \cup {NoOutput}
  PROVE  /\ LET x == [c EXCEPT !.next = n]
            IN  x \in Cells /\ x.next = n /\ x.prev = c.prev /\ x.data = c.data /\ x.enable = c.enable /\ x.live = c.live
         /\ LET x == [c EXCEPT !.prev = n]
            IN  x \in Cells /\ x.next = c.next /\ x.prev = n /\ x.data = c.data /\ x.enable = c.enable /\ x.live = c.live
         /\ LET x == [c EXCEPT !.data = o]
            IN  x \in Cells /\ x.next = c.next /\ x.prev = c.prev /\ x.data = o /\ x.enable = c.enable /\ x.live = c.live
BY DEF Cells, Pointers

\* Back links that are right stay right, but for the one behind a moved element.
RightBack(m, s) == \A i \in 2 .. Len(s) : m[s[i]].prev = s[i - 1]

LEMMA MisledNone ==
  ASSUME NEW m, NEW s, Linked(m, s)
  PROVE  Misled(m) = {} <=> RightBack(m, s)
<1>1. Misled(m) = {s[k] : k \in {i \in 2 .. Len(s) : m[s[i]].prev # s[i - 1]}}
  BY Reading
<1>2. QED
  BY <1>1 DEF RightBack

LEMMA UnlinkIs ==
  ASSUME NEW m, NEW s, Chained(m, s), NEW p \in 2 .. Len(s) - 1,
         m[s[p]].data = NoOutput, m[s[p]].prev = s[p - 1]
  PROVE  LET r == Unlink(m, s[p])
             t == Without(s, p)
         IN  /\ Intact(r, t)
             /\ Known(r) = Known(m) /\ Enabled(r) = Enabled(m)
             /\ RightBack(m, s) => RightBack(r, t)
<1> DEFINE L == Len(s)
           t == Without(s, p)
           n == s[p]
           a == s[p - 1]
           b == s[p + 1]
           r == Unlink(m, n)
           ma == [m[a] EXCEPT !.next = b]
           mb == [m[b] EXCEPT !.prev = a]
<1>1. /\ Linked(m, s) /\ L \in Nat \ {0} /\ p \in Nat /\ 2 <= p /\ p <= L - 1
      /\ \A i \in 1 .. L : s[i] \in Nodes
      /\ \A i, j \in 1 .. L : s[i] = s[j] => i = j
      /\ \A i \in 1 .. L : m[s[i]].next = IF i = L THEN Nil ELSE s[i + 1]
      /\ m \in [Nodes -> Cells] /\ s[1] = ListHead
  BY ChainedFacts, LinkedFacts
<1>2. p \in 1 .. L /\ p - 1 \in 1 .. L /\ p + 1 \in 1 .. L /\ 1 \in 1 .. L /\ p # L
  BY <1>1
<1>3. /\ n \in Nodes /\ a \in Nodes /\ b \in Nodes /\ n # a /\ n # b /\ a # b
      /\ n # ListHead /\ b # ListHead
      /\ m[n].next = b /\ m[n].prev = a
  BY <1>1, <1>2
<1>4. /\ ma \in Cells /\ ma.next = b /\ ma.prev = m[a].prev /\ ma.data = m[a].data /\ ma.enable = m[a].enable /\ ma.live = m[a].live
      /\ mb \in Cells /\ mb.next = m[b].next /\ mb.prev = a /\ mb.data = m[b].data /\ mb.enable = m[b].enable /\ mb.live = m[b].live
  <2>1. m[a] \in Cells /\ m[b] \in Cells
    BY <1>1, <1>3
  <2>2. QED
    BY <1>3, <2>1 DEF Cells, Pointers
<1>5. r = [m EXCEPT ![a].next = b, ![b].prev = a, ![n] = Blank]
  BY <1>3 DEF Unlink
<1> HIDE DEF r, n, a, b
<1>6. r = [x \in Nodes |-> IF x = n THEN Blank ELSE IF x = b THEN mb ELSE IF x = a THEN ma ELSE m[x]]
  BY <1>1, <1>3, <1>5
<1> HIDE DEF ma, mb
<1>7. /\ r \in [Nodes -> Cells]
      /\ r[a].next = b
      /\ \A x \in Nodes : x # a /\ x # n => r[x].next = m[x].next
      /\ \A x \in Nodes : x # n => r[x].live = m[x].live /\ r[x].enable = m[x].enable /\ r[x].data = m[x].data
      /\ \A x \in Nodes : x # n /\ x # b => r[x].prev = m[x].prev
      /\ r[b].prev = a
      /\ ~r[n].live
  BY <1>1, <1>3, <1>4, <1>6, BlankIs
<1>8. ListHead \in Nodes
  BY DEF Nodes
<1>9. /\ Intact(r, t) /\ Known(r) = Known(m) /\ Enabled(r) = Enabled(m) \ {NoOutput}
  <2>1. /\ r[s[p - 1]].next = s[p + 1]
        /\ \A x \in Nodes : x # s[p - 1] /\ x # s[p] => r[x].next = m[x].next
        /\ \A x \in Nodes : x # s[p] => r[x].live = m[x].live /\ r[x].enable = m[x].enable
        /\ \A x \in Nodes : x # s[p] /\ x # ListHead => r[x].data = m[x].data
        /\ ~r[s[p]].live
        /\ r[ListHead].data = m[ListHead].data /\ m[s[p]].data = NoOutput
    BY <1>3, <1>7, <1>8 DEF n, a, b
  <2>2. QED
    BY <1>7, <2>1, CutChained
<1>10. NoOutput \notin Enabled(m)
  <2>1. \A i \in 1 .. L - 1 : m[s[i]].data = NoOutput => ~m[s[i]].enable
    BY ChainedFacts
  <2>2. Enabled(m) = {m[s[i]].data : i \in {j \in 1 .. L - 1 : m[s[j]].enable}}
    BY <1>1, Contents
  <2>3. QED
    BY <2>1, <2>2
<1>11. ASSUME RightBack(m, s)
       PROVE  RightBack(r, t)
  <2>0. Drops(s, p, t)
    BY <1>1, WithoutIs
  <2>1. /\ Len(t) = L - 1
        /\ \A i \in 1 .. p - 1 : t[i] = s[i]
        /\ \A i \in p .. L - 1 : t[i] = s[i + 1]
    BY <2>0, Zenon DEF Drops
  <2>2. \A i \in 2 .. L : m[s[i]].prev = s[i - 1]
    BY <1>11 DEF RightBack
  <2> HIDE DEF t
  <2>3. ASSUME NEW i \in 2 .. L - 1
        PROVE  r[t[i]].prev = t[i - 1]
    <3>1. CASE i < p
      <4>1. i \in 1 .. p - 1 /\ i - 1 \in 1 .. p - 1 /\ i \in 1 .. L /\ i # p /\ i # p + 1 /\ i \in 2 .. L
        BY <1>1, <3>1
      <4>2. t[i] = s[i] /\ t[i - 1] = s[i - 1] /\ s[i] # n /\ s[i] # b /\ s[i] \in Nodes
        BY <1>1, <1>2, <2>1, <4>1 DEF n, b
      <4>3. QED
        BY <1>7, <2>2, <4>1, <4>2
    <3>2. CASE i = p
      <4>1. p \in p .. L - 1 /\ p - 1 \in 1 .. p - 1
        BY <1>1
      <4>2. t[i] = b /\ t[i - 1] = a
        BY <2>1, <3>2, <4>1 DEF a, b
      <4>3. QED
        BY <1>7, <4>2
    <3>3. CASE i > p
      <4>1. i \in p .. L - 1 /\ i - 1 \in p .. L - 1 /\ i + 1 \in 1 .. L /\ i + 1 # p /\ i + 1 # p + 1 /\ i + 1 \in 2 .. L
            /\ (i - 1) + 1 = i /\ (i + 1) - 1 = i
        BY <1>1, <3>3
      <4>2. t[i] = s[i + 1] /\ t[i - 1] = s[i] /\ s[i + 1] # n /\ s[i + 1] # b /\ s[i + 1] \in Nodes
        BY <1>1, <1>2, <2>1, <4>1 DEF n, b
      <4>3. QED
        BY <1>7, <2>2, <4>1, <4>2
    <3>4. QED
      BY <1>1, <3>1, <3>2, <3>3
  <2>4. QED
    BY <2>1, <2>3 DEF RightBack
<1>12. QED
  BY <1>9, <1>10, <1>11 DEF r, n, t

\* The last element moves into the empty head: the tail's back link stays at its node.
LEMMA SwapIs ==
  ASSUME NEW m, NEW s, Chained(m, s), Len(s) >= 3, m[ListHead].data = NoOutput,
         m[s[Len(s) - 1]].prev = s[Len(s) - 2]
  PROVE  LET r == Swap(m)
             t == Without(s, Len(s) - 1)
         IN  /\ Intact(r, t)
             /\ Known(r) = Known(m)
             /\ Enabled(r) = Enabled(m) \ {m[s[Len(s) - 1]].data}
             /\ ~r[LastElement(m)].live /\ r[ListHead].data = m[LastElement(m)].data
             /\ RightBack(m, s) => /\ Misled(r) = {TailOf(r)}
                                   /\ r[TailOf(r)].prev = LastElement(m)
<1> DEFINE L == Len(s)
           p == L - 1
           t == Without(s, p)
           n == s[p]
           a == s[p - 1]
           b == s[p + 1]
           r == Swap(m)
<1>1. /\ Linked(m, s) /\ L \in Nat \ {0} /\ p \in Nat /\ 2 <= p /\ p + 1 = L
      /\ \A i \in 1 .. L : s[i] \in Nodes
      /\ \A i, j \in 1 .. L : s[i] = s[j] => i = j
      /\ \A i \in 1 .. L : m[s[i]].next = IF i = L THEN Nil ELSE s[i + 1]
      /\ m \in [Nodes -> Cells] /\ s[1] = ListHead
  BY ChainedFacts, LinkedFacts
<1>2. /\ p \in 1 .. L /\ p - 1 \in 1 .. L /\ p + 1 \in 1 .. L /\ 1 \in 1 .. L
      /\ p # L /\ p - 1 = L - 2 /\ p \in 2 .. L - 1 /\ L # 1
  <2>1. L \in Nat /\ L >= 3
    BY <1>1
  <2> HIDE DEF L
  <2>2. QED
    BY ONLY <2>1 DEF p
<1>3. /\ n \in Nodes /\ a \in Nodes /\ b \in Nodes /\ n # a /\ n # b /\ a # b
      /\ n # ListHead /\ b # ListHead
      /\ m[n].next = b /\ m[n].prev = a
  <2>1. n \in Nodes /\ a \in Nodes /\ b \in Nodes /\ m[n].next = b
    BY <1>1, <1>2
  <2>2. p # p - 1 /\ p # p + 1 /\ p - 1 # p + 1 /\ p # 1 /\ p + 1 # 1
    <3>1. p \in Nat /\ 2 <= p
      BY <1>1
    <3> HIDE DEF p
    <3>2. QED
      BY ONLY <3>1
  <2>3. n # a /\ n # b /\ a # b /\ n # s[1] /\ b # s[1]
    <3> HIDE DEF p, L
    <3>1. QED
      BY <1>1, <1>2, <2>2
  <2>4. QED
    BY <1>1, <1>2, <2>1, <2>3
<1>4. LastElement(m) = n
  BY <1>1, <1>2, Reading
<1>5. r = [[m EXCEPT ![a].next = b] EXCEPT ![ListHead].data = m[n].data, ![n] = Blank]
  BY <1>3, <1>4 DEF Swap, NeedsSwap
<1>6. ListHead \in Nodes /\ m[n].data \in Outputs \cup {NoOutput}
  BY <1>1, <1>3 DEF Nodes, Cells
<1> DEFINE ma == [m[a] EXCEPT !.next = b]
           cut == [x \in Nodes |-> IF x = a THEN ma ELSE m[x]]
           mh == [cut[ListHead] EXCEPT !.data = m[n].data]
<1>7. cut = [m EXCEPT ![a].next = b]
  BY <1>1, <1>3
<1>8. /\ ma \in Cells /\ ma.next = b /\ ma.prev = m[a].prev /\ ma.data = m[a].data
      /\ ma.enable = m[a].enable /\ ma.live = m[a].live
  <2>1. m[a] \in Cells /\ b \in Nodes
    BY <1>1, <1>3
  <2> HIDE DEF a, b
  <2>2. QED
    BY <2>1 DEF Cells, Pointers
<1> HIDE DEF ma, n, a, b
<1>9. cut \in [Nodes -> Cells]
  BY <1>1, <1>8
<1>10. /\ \A x \in Nodes : /\ cut[x].prev = m[x].prev /\ cut[x].data = m[x].data
                           /\ cut[x].enable = m[x].enable /\ cut[x].live = m[x].live
                           /\ x # a => cut[x].next = m[x].next
       /\ cut[a].next = b
  BY <1>3, <1>8
<1> HIDE DEF cut, r
<1>11. /\ mh \in Cells /\ mh.next = cut[ListHead].next /\ mh.prev = cut[ListHead].prev /\ mh.data = m[n].data
       /\ mh.enable = cut[ListHead].enable /\ mh.live = cut[ListHead].live
  <2>1. cut[ListHead] \in Cells /\ m[n].data \in Outputs \cup {NoOutput}
    BY <1>6, <1>9
  <2>2. QED
    BY <2>1 DEF Cells
<1>12. r = [x \in Nodes |-> IF x = n THEN Blank ELSE IF x = ListHead THEN mh ELSE cut[x]]
  BY <1>3, <1>5, <1>6, <1>7, <1>9
<1> HIDE DEF mh
<1>13. /\ r \in [Nodes -> Cells]
       /\ r[a].next = b
       /\ \A x \in Nodes : x # a /\ x # n => r[x].next = m[x].next
       /\ \A x \in Nodes : x # n => r[x].live = m[x].live /\ r[x].enable = m[x].enable /\ r[x].prev = m[x].prev
       /\ \A x \in Nodes : x # n /\ x # ListHead => r[x].data = m[x].data
       /\ r[ListHead].data = m[n].data
       /\ ~r[n].live
  BY <1>3, <1>6, <1>9, <1>10, <1>11, <1>12, BlankIs
<1>14. Intact(r, t) /\ Known(r) = Known(m) /\ Enabled(r) = Enabled(m) \ {m[n].data}
  <2>1. /\ r[s[p - 1]].next = s[p + 1]
        /\ \A x \in Nodes : x # s[p - 1] /\ x # s[p] => r[x].next = m[x].next
        /\ \A x \in Nodes : x # s[p] => r[x].live = m[x].live /\ r[x].enable = m[x].enable
        /\ \A x \in Nodes : x # s[p] /\ x # ListHead => r[x].data = m[x].data
        /\ ~r[s[p]].live
        /\ r[ListHead].data = m[s[p]].data /\ m[ListHead].data = NoOutput
    BY <1>3, <1>6, <1>13 DEF n, a, b
  <2>2. p \in 2 .. Len(s) - 1
    BY <1>2
  <2> HIDE DEF p
  <2>3. QED
    BY <1>13, <2>1, <2>2, CutChained DEF n
<1>15. ASSUME RightBack(m, s)
       PROVE  Misled(r) = {TailOf(r)} /\ r[TailOf(r)].prev = n
  <2>1. /\ Len(t) = L - 1
        /\ \A i \in 1 .. p - 1 : t[i] = s[i]
        /\ \A i \in p .. L - 1 : t[i] = s[i + 1]
    <3>1. Drops(s, p, t)
      BY <1>1, <1>2, WithoutIs
    <3> HIDE DEF t, p
    <3>2. QED
      BY <3>1, Zenon DEF Drops
  <2>2. \A i \in 2 .. L : m[s[i]].prev = s[i - 1]
    BY <1>15 DEF RightBack
  <2>3. Linked(r, t)
    BY <1>14, Zenon DEF Intact, Chained
  <2>4. TailOf(r) = t[p] /\ Misled(r) = {t[k] : k \in {i \in 2 .. p : r[t[i]].prev # t[i - 1]}}
    <3> HIDE DEF t
    <3>1. TailOf(r) = t[Len(t)] /\ Misled(r) = {t[k] : k \in {i \in 2 .. Len(t) : r[t[i]].prev # t[i - 1]}}
      BY <2>3, Reading
    <3>2. Len(t) = p
      BY <2>1
    <3>3. QED
      BY <3>1, <3>2
  <2> HIDE DEF t
  <2>p. p \in Nat /\ 2 <= p /\ p + 1 = L /\ p = L - 1
    BY <1>1
  <2>5. t[p] = b /\ t[p - 1] = a /\ r[t[p]].prev = n
    <3>1. p \in p .. L - 1 /\ p - 1 \in 1 .. p - 1 /\ p + 1 \in 2 .. L /\ (p + 1) - 1 = p
      <4> HIDE DEF p, L
      <4>1. QED
        BY ONLY <2>p
    <3>2. t[p] = b /\ t[p - 1] = a /\ m[b].prev = n
      BY <2>1, <2>2, <3>1 DEF a, b, n
    <3>3. QED
      BY <1>3, <1>13, <3>2
  <2>6. ASSUME NEW i \in 2 .. p, i # p
        PROVE  r[t[i]].prev = t[i - 1]
    <3>1. i \in 1 .. p - 1 /\ i - 1 \in 1 .. p - 1 /\ i \in 1 .. L /\ i \in 2 .. L
      <4>1. i \in 2 .. p /\ i # p
        BY <2>6
      <4> HIDE DEF p, L
      <4>2. QED
        BY ONLY <2>p, <4>1
    <3>2. t[i] = s[i] /\ t[i - 1] = s[i - 1] /\ s[i] # n /\ s[i] \in Nodes
      BY <1>1, <1>2, <2>1, <2>6, <3>1 DEF n
    <3>3. QED
      BY <1>13, <2>2, <3>1, <3>2
  <2>7. p \in 2 .. p
    <3> HIDE DEF p
    <3>1. QED
      BY ONLY <2>p
  <2>8. {i \in 2 .. p : r[t[i]].prev # t[i - 1]} = {p}
    BY <1>3, <2>5, <2>6, <2>7
  <2>9. QED
    <3>1. {t[k] : k \in {i \in 2 .. p : r[t[i]].prev # t[i - 1]}} = {t[p]}
      BY <2>8
    <3>2. Misled(r) = {b} /\ TailOf(r) = b
      BY ONLY <2>4, <2>5, <3>1
    <3>3. QED
      BY <2>5, <3>2
<1>16. QED
  BY <1>4, <1>13, <1>14, <1>15 DEF r, n, t

-----------------------------------------------------------------------------
(* The loop that shrinks the list.                                         *)

LEMMA Greatest ==
  ASSUME NEW L \in Nat, NEW S \in SUBSET (1 .. L), S # {}
  PROVE  Max(S) \in S /\ \A y \in S : Max(S) >= y
<1> DEFINE T == {L - x : x \in S}
<1>1. T \in SUBSET Nat /\ T # {}
  <2>1. \A x \in S : L - x \in Nat
    OBVIOUS
  <2>2. QED
    BY <2>1
<1>2. PICK b \in T : \A c \in T : b <= c
  <2> HIDE DEF T
  <2>1. QED
    BY <1>1, Least
<1>3. PICK x \in S : b = L - x
  BY <1>2
<1>4. \A y \in S : x >= y
  <2> SUFFICES ASSUME NEW y \in S PROVE x >= y
    OBVIOUS
  <2>1. L - y \in T
    OBVIOUS
  <2> HIDE DEF T
  <2>2. L - x <= L - y /\ x \in Nat /\ y \in Nat
    BY <1>2, <1>3, <2>1
  <2>3. QED
    BY <2>2
<1>5. QED
  BY <1>4 DEF Max

\* It takes out the one element that is empty, if there is one: at p, or none for 0.
LEMMA ShrinkIs ==
  ASSUME NEW m, NEW s, Linked(m, s), NEW p \in Nat,
         \A i \in 1 .. Len(s) : s[i] \in Surplus(m) <=> i = p
  PROVE  Shrink(m) = IF p \in 1 .. Len(s) THEN Unlink(m, s[p]) ELSE m
<1> DEFINE L == Len(s)
           D == 1 .. L
           Turn(S, f) == IF S = {} THEN m
                         ELSE IF s[Max(S)] \in Surplus(m) THEN Unlink(f[S \ {Max(S)}], s[Max(S)])
                         ELSE f[S \ {Max(S)}]
           Loop(f) == f = [S \in SUBSET D |-> Turn(S, f)]
           iter == CHOOSE f : Loop(f)
           w == [S \in SUBSET D |-> IF p \in S THEN Unlink(m, s[p]) ELSE m]
<1>1. L \in Nat \ {0} /\ DOMAIN s = D /\ Chain(m) = s
  BY LinkedFacts, ChainIs
<1>2. Shrink(m) = iter[D]
  BY <1>1 DEF Shrink, FoldLeft, MapThenFoldSet
<1>3. ASSUME NEW S \in SUBSET D
      PROVE  w[S] = Turn(S, w)
  <2>1. CASE S = {}
    BY <2>1
  <2>2. CASE S # {}
    <3> DEFINE x == Max(S)
    <3>1. x \in S /\ S \ {x} \in SUBSET D
      <4>1. S \in SUBSET (1 .. L) /\ L \in Nat
        BY <1>1
      <4>2. Max(S) \in S
        BY ONLY <2>2, <4>1, Greatest
      <4>3. QED
        BY <4>2
    <3> HIDE DEF x
    <3>2. s[x] \in Surplus(m) <=> x = p
      BY <3>1
    <3>3. w[S] = (IF p \in S THEN Unlink(m, s[p]) ELSE m)
          /\ w[S \ {x}] = (IF p \in S \ {x} THEN Unlink(m, s[p]) ELSE m)
      BY <3>1
    <3> HIDE DEF w, D
    <3>4. w[S] = IF s[x] \in Surplus(m) THEN Unlink(w[S \ {x}], s[x]) ELSE w[S \ {x}]
      BY <3>1, <3>2, <3>3
    <3>5. QED
      BY <2>2, <3>4 DEF x
  <2>3. QED
    BY <2>1, <2>2
<1>4. w = [S \in SUBSET D |-> w[S]]
  OBVIOUS
<1> HIDE DEF w, Turn
<1>5. Loop(w)
  BY <1>3, <1>4
<1>6. Loop(iter)
  <2> HIDE DEF Loop
  <2>1. QED
    BY <1>5
<1> HIDE DEF iter
<1>7. \A S \in SUBSET D : iter[S] = Turn(S, iter)
  BY <1>6
<1>8. \A n \in 0 .. L : iter[1 .. n] = w[1 .. n]
  <2> DEFINE f == [n \in 0 .. L |-> iter[1 .. n]]
             g == [n \in 0 .. L |-> w[1 .. n]]
  <2>1. 0 \in 0 .. L /\ 1 .. 0 = {} /\ \A n \in 0 .. L : 1 .. n \in SUBSET D
    BY <1>1
  <2>2. f[0] = g[0]
    BY <1>3, <1>7, <2>1 DEF Turn
  <2>3. ASSUME NEW n \in 0 .. L, n + 1 \in 0 .. L, f[n] = g[n]
        PROVE  f[n + 1] = g[n + 1]
    <3> DEFINE S == 1 .. n + 1
    <3>1. S \in SUBSET D /\ S # {} /\ n \in Nat /\ n + 1 \in S
      <4>1. n \in Nat /\ n + 1 \in S
        BY <1>1, <2>3
      <4>2. S \in SUBSET D
        BY <2>1, <2>3
      <4>3. QED
        BY <4>1, <4>2
    <3>2. Max(S) \in S /\ Max(S) >= n + 1
      BY <1>1, <3>1, Greatest
    <3>3. Max(S) = n + 1
      BY <3>1, <3>2
    <3>4. S \ {Max(S)} = 1 .. n
      BY <3>1, <3>3
    <3>5. iter[1 .. n] = w[1 .. n]
      BY <2>3
    <3> HIDE DEF S
    <3>6. iter[S] = w[S]
      <4>1. iter[S] = Turn(S, iter) /\ w[S] = Turn(S, w)
        BY <1>3, <1>7, <3>1
      <4>2. iter[S \ {Max(S)}] = w[S \ {Max(S)}]
        BY <3>4, <3>5
      <4>3. QED
        BY <4>1, <4>2 DEF Turn
    <3>7. QED
      BY <2>3, <3>6 DEF S
  <2> HIDE DEF f, g
  <2>4. \A n \in 0 .. L : f[n] = g[n]
    <3>1. \A n \in 0 .. L : n + 1 \in 0 .. L /\ f[n] = g[n] => f[n + 1] = g[n + 1]
      BY <2>3
    <3>2. L \in Nat
      BY <1>1
    <3> HIDE DEF L
    <3>3. QED
      BY ONLY <2>2, <3>1, <3>2, SameWalk
  <2>5. QED
    BY <2>4 DEF f, g
<1>9. iter[D] = w[D]
  BY <1>1, <1>8
<1>10. w[D] = IF p \in D THEN Unlink(m, s[p]) ELSE m
  BY DEF w
<1>11. QED
  BY <1>2, <1>9, <1>10

LEMMA NoSwap ==
  ASSUME NEW m, NEW s, Intact(m, s)
  PROVE  ~NeedsSwap(m) /\ Swap(m) = m
<1>1. Chained(m, s) /\ \A i \in 1 .. Len(s) - 1 : m[s[i]].data = NoOutput => i = 1 /\ Len(s) = 2
  BY Zenon DEF Intact
<1>2. Linked(m, s) /\ Len(s) \in Nat \ {0} /\ s[1] = ListHead
  BY <1>1, ChainedFacts, LinkedFacts
<1>3. LastElement(m) = IF Len(s) = 1 THEN ListHead ELSE s[Len(s) - 1]
  BY <1>2, Reading
<1>4. ~NeedsSwap(m)
  <2> SUFFICES ASSUME m[ListHead].data = NoOutput, LastElement(m) # ListHead PROVE FALSE
    BY DEF NeedsSwap
  <2>1. Len(s) # 1 /\ 1 \in 1 .. Len(s) - 1
    BY <1>2, <1>3
  <2>2. Len(s) = 2
    BY <1>1, <1>2, <2>1
  <2>3. QED
    BY <1>2, <1>3, <2>2
<1>5. QED
  BY <1>4 DEF Swap

\* A list in the making has at most one empty element behind the head.
LEMMA ShrinkCases ==
  ASSUME NEW m, NEW s, Chained(m, s)
  PROVE  \/ /\ Surplus(m) = {} /\ Shrink(m) = m
            /\ \A p \in 2 .. Len(s) - 1 : m[s[p]].data # NoOutput
         \/ \E p \in 2 .. Len(s) - 1 : /\ m[s[p]].data = NoOutput
                                       /\ Surplus(m) = {s[p]}
                                       /\ Shrink(m) = Unlink(m, s[p])
<1> DEFINE L == Len(s)
<1>1. /\ Linked(m, s) /\ L \in Nat \ {0}
      /\ \A i, j \in 1 .. L - 1 : m[s[i]].data = m[s[j]].data => i = j
      /\ \A i, j \in 1 .. L : s[i] = s[j] => i = j
  <2>1. /\ Linked(m, s) /\ L \in Nat \ {0}
        /\ \A i, j \in 1 .. L - 1 : m[s[i]].data = m[s[j]].data => i = j
    BY ChainedFacts
  <2>2. \A i, j \in 1 .. L : s[i] = s[j] => i = j
    BY <2>1, LinkedFacts
  <2>3. QED
    BY ONLY <2>1, <2>2
<1>2. Surplus(m) = {s[i] : i \in {j \in 2 .. L - 1 : m[s[j]].data = NoOutput}}
  <2>1. Linked(m, s)
    BY <1>1
  <2>2. QED
    BY ONLY <2>1, Reading
<1>3. CASE \E p \in 2 .. L - 1 : m[s[p]].data = NoOutput
  <2>1. PICK p \in 2 .. L - 1 : m[s[p]].data = NoOutput
    BY <1>3
  <2>2. p \in 1 .. L /\ p \in Nat
    BY <1>1
  <2>3. Surplus(m) = {s[p]}
    <3>1. \A j \in 2 .. L - 1 : m[s[j]].data = NoOutput => j = p
      BY <1>1, <2>1
    <3>2. QED
      BY <1>2, <2>1, <3>1
  <2>4. \A i \in 1 .. L : s[i] \in Surplus(m) <=> i = p
    BY <1>1, <2>2, <2>3
  <2>5. Shrink(m) = Unlink(m, s[p])
    BY <1>1, <2>2, <2>4, ShrinkIs
  <2>6. QED
    BY <2>1, <2>3, <2>5
<1>4. CASE ~ \E p \in 2 .. L - 1 : m[s[p]].data = NoOutput
  <2>1. Surplus(m) = {}
    BY <1>2, <1>4
  <2>2. 0 \in Nat /\ \A i \in 1 .. L : s[i] \in Surplus(m) <=> i = 0
    BY <1>1, <2>1
  <2>3. 0 \notin 1 .. L
    BY <1>1
  <2>4. Shrink(m) = m
    BY <1>1, <2>2, <2>3, ShrinkIs
  <2>5. QED
    BY <1>4, <2>1, <2>4
<1>5. QED
  BY <1>3, <1>4

\* When the last element is to move, the list has two elements at least.
LEMMA NeedsSwapIs ==
  ASSUME NEW m, NEW s, Linked(m, s), NeedsSwap(m)
  PROVE  /\ Len(s) >= 3 /\ Len(s) - 1 \in 2 .. Len(s) - 1 /\ Len(s) - 1 \in 2 .. Len(s)
         /\ (Len(s) - 1) - 1 = Len(s) - 2
         /\ LastElement(m) = s[Len(s) - 1] /\ 1 \in 1 .. Len(s) - 1
         /\ m[ListHead].data = NoOutput /\ s[1] = ListHead
<1> DEFINE L == Len(s)
<1>1. m[ListHead].data = NoOutput /\ LastElement(m) # ListHead
  BY DEF NeedsSwap
<1>2. L \in Nat \ {0} /\ s[1] = ListHead
  BY LinkedFacts
<1>3. LastElement(m) = IF L = 1 THEN ListHead ELSE s[L - 1]
  BY Reading
<1> HIDE DEF L
<1>4. L # 1
  BY ONLY <1>1, <1>3
<1>5. ASSUME L = 2 PROVE FALSE
  <2>1. L - 1 = 1
    BY ONLY <1>5
  <2>2. QED
    BY ONLY <1>1, <1>2, <1>3, <1>4, <2>1
<1>6. L >= 3 /\ L - 1 \in 2 .. L - 1 /\ L - 1 \in 2 .. L /\ (L - 1) - 1 = L - 2 /\ 1 \in 1 .. L - 1
  BY ONLY <1>2, <1>4, <1>5
<1>7. QED
  BY <1>1, <1>2, <1>3, <1>4, <1>6 DEF L

\* The update from m to r moves the last element's output into the empty head.
MovesLast(m, s, r) ==
    /\ 1 \in 1 .. Len(s) - 1 /\ m[s[1]].data = NoOutput
    /\ ~r[LastElement(m)].live
    /\ r[ListHead].data = m[LastElement(m)].data

\* What an update ends with: the list is intact again and has lost no output, and if
\* a flag is lost or a back link wrong now, an empty head was filled.
LEMMA TidyIs ==
  ASSUME NEW m, NEW s, Chained(m, s), ~StaleSurplus(m), ~StaleMove(Shrink(m))
  PROVE  LET r == Swap(Shrink(m))
         IN  /\ \E t : Intact(r, t)
             /\ Known(r) = Known(m)
             /\ \/ Enabled(r) = Enabled(m)
                \/ MovesLast(m, s, r) /\ Enabled(r) = Enabled(m) \ {m[LastElement(m)].data}
             /\ RightBack(m, s) => \/ Misled(r) = {}
                                   \/ /\ MovesLast(m, s, r)
                                      /\ Misled(r) = {TailOf(r)}
                                      /\ r[TailOf(r)].prev = LastElement(m)
<1> DEFINE L == Len(s)
<1>1. /\ Linked(m, s) /\ L \in Nat \ {0}
      /\ s[1] = ListHead
      /\ \A i, j \in 1 .. L : s[i] = s[j] => i = j
  <2>1. Linked(m, s) /\ L \in Nat \ {0}
    BY ChainedFacts
  <2>2. s[1] = ListHead /\ \A i, j \in 1 .. L : s[i] = s[j] => i = j
    BY <2>1, LinkedFacts
  <2>3. QED
    BY ONLY <2>1, <2>2
<1>2. \A i \in 2 .. L : s[i] \in Misled(m) <=> m[s[i]].prev # s[i - 1]
  BY <1>1, Reading
<1>3. CASE \E p \in 2 .. L - 1 : /\ m[s[p]].data = NoOutput
                                 /\ Surplus(m) = {s[p]}
                                 /\ Shrink(m) = Unlink(m, s[p])
  <2>1. PICK p \in 2 .. L - 1 : /\ m[s[p]].data = NoOutput
                                /\ Surplus(m) = {s[p]}
                                /\ Shrink(m) = Unlink(m, s[p])
    BY <1>3
  <2>2. p \in 2 .. L
    BY <1>1
  <2>5. m[s[p]].prev = s[p - 1]
    BY <1>2, <2>1, <2>2 DEF StaleSurplus
  <2> DEFINE r == Unlink(m, s[p])
             t == Without(s, p)
  <2>6. Intact(r, t) /\ Known(r) = Known(m) /\ Enabled(r) = Enabled(m) /\ (RightBack(m, s) => RightBack(r, t))
    BY <2>1, <2>5, UnlinkIs
  <2> HIDE DEF r, t
  <2>7. Swap(r) = r /\ Linked(r, t)
    <3>1. Intact(r, t)
      BY ONLY <2>6
    <3>2. Linked(r, t)
      BY <3>1, Zenon DEF Intact, Chained
    <3>3. Swap(r) = r
      BY ONLY <3>1, NoSwap
    <3>4. QED
      BY ONLY <3>2, <3>3
  <2>8. RightBack(m, s) => Misled(r) = {}
    BY <2>6, <2>7, MisledNone
  <2>9. Swap(Shrink(m)) = r
    BY <2>1, <2>7 DEF r
  <2>10. QED
    BY <2>6, <2>8, <2>9
<1>4. CASE /\ Surplus(m) = {} /\ Shrink(m) = m
           /\ \A p \in 2 .. L - 1 : m[s[p]].data # NoOutput
  <2>3. LastElement(m) = IF L = 1 THEN ListHead ELSE s[L - 1]
    BY <1>1, Reading
  <2>4. CASE NeedsSwap(m)
    <3>1. /\ L >= 3 /\ L - 1 \in 2 .. L /\ (L - 1) - 1 = L - 2 /\ LastElement(m) = s[L - 1]
          /\ 1 \in 1 .. L - 1 /\ m[ListHead].data = NoOutput
      BY <1>1, <2>4, NeedsSwapIs
    <3>2. m[s[L - 1]].prev = s[L - 2]
      <4>1. LastElement(m) \notin Misled(m)
        BY <1>4, <2>4 DEF StaleMove
      <4>2. QED
        BY <1>2, <3>1, <4>1
    <3> DEFINE r == Swap(m)
    <3>3. /\ Intact(r, Without(s, L - 1)) /\ Known(r) = Known(m)
          /\ Enabled(r) = Enabled(m) \ {m[s[L - 1]].data}
          /\ ~r[LastElement(m)].live /\ r[ListHead].data = m[LastElement(m)].data
          /\ RightBack(m, s) => /\ Misled(r) = {TailOf(r)}
                                /\ r[TailOf(r)].prev = LastElement(m)
      BY <3>1, <3>2, SwapIs
    <3>4. Swap(Shrink(m)) = r
      BY <1>4
    <3> HIDE DEF r
    <3>5. MovesLast(m, s, r)
      BY <1>1, <3>1, <3>3 DEF MovesLast
    <3>6. QED
      BY <3>1, <3>3, <3>4, <3>5
  <2>5. CASE ~NeedsSwap(m)
    <3>1. Swap(Shrink(m)) = m
      BY <1>4, <2>5 DEF Swap
    <3>2. ASSUME NEW i \in 1 .. L - 1, m[s[i]].data = NoOutput
          PROVE  i = 1 /\ L = 2
      <4>1. i = 1
        BY <1>1, <1>4, <3>2
      <4>2. LastElement(m) = ListHead
        BY <1>1, <2>5, <3>2, <4>1 DEF NeedsSwap
      <4>3. L = 2
        <5>1. L # 1 /\ L - 1 \in 1 .. L /\ 1 \in 1 .. L
          BY <1>1, <3>2
        <5>2. s[L - 1] = s[1]
          BY <1>1, <2>3, <4>2, <5>1
        <5>3. L - 1 = 1
          BY <1>1, <5>1, <5>2
        <5>4. QED
          BY <1>1, <5>3
      <4>4. QED
        BY <4>1, <4>3
    <3>3. Intact(m, s)
      BY <3>2, Zenon DEF Intact
    <3>4. RightBack(m, s) => Misled(m) = {}
      BY <1>1, MisledNone
    <3>5. QED
      BY <3>1, <3>3, <3>4
  <2>6. QED
    BY <2>4, <2>5
<1>5. QED
  BY <1>3, <1>4, ShrinkCases

\* Taking a node out frees it, wherever its prev points.
LEMMA UnlinkFrees ==
  ASSUME NEW m \in [Nodes -> Cells], NEW n \in Nodes
  PROVE  Unlink(m, n) \in [Nodes -> Cells] /\ ~Unlink(m, n)[n].live
<1> DEFINE a == m[n].prev
           b == m[n].next
           m1 == [m EXCEPT ![a].next = b]
           m2 == [m1 EXCEPT ![b].prev = a]
<1>1. a \in Pointers /\ b \in Pointers
  BY DEF Cells
<1>2. Unlink(m, n) = [m2 EXCEPT ![n] = Blank]
  BY DEF Unlink
<1> HIDE DEF a, b
<1>3. m1 \in [Nodes -> Cells]
  BY <1>1 DEF Cells
<1> HIDE DEF m1
<1>4. m2 \in [Nodes -> Cells]
  BY <1>1, <1>3 DEF Cells
<1> HIDE DEF m2
<1>5. Blank \in Cells /\ ~Blank.live
  BY BlankIs
<1>6. QED
  BY <1>2, <1>4, <1>5

\* And so does moving the last element into the head.
LEMMA SwapFrees ==
  ASSUME NEW m \in [Nodes -> Cells], NeedsSwap(m), LastElement(m) \in Nodes
  PROVE  Swap(m) \in [Nodes -> Cells] /\ ~Swap(m)[LastElement(m)].live
<1> DEFINE n == LastElement(m)
           a == m[n].prev
           b == m[n].next
           d == m[n].data
           cut == [m EXCEPT ![a].next = b]
           mh == [cut EXCEPT ![ListHead].data = d]
<1>1. b \in Pointers /\ d \in Outputs \cup {NoOutput} /\ n \in Nodes
  BY DEF Cells
<1>2. Swap(m) = [mh EXCEPT ![n] = Blank]
  BY DEF Swap
<1> HIDE DEF a, b, d, n
<1>3. cut \in [Nodes -> Cells]
  BY <1>1 DEF Cells
<1> HIDE DEF cut
<1>4. mh \in [Nodes -> Cells]
  BY <1>1, <1>3 DEF Cells
<1> HIDE DEF mh
<1>5. Blank \in Cells /\ ~Blank.live
  BY BlankIs
<1>6. QED
  BY <1>1, <1>2, <1>4, <1>5 DEF n

\* When a stale prev is trusted, it is that of a node that is freed, and the update has
\* an empty element to get rid of.
LEMMA StaleIs ==
  ASSUME NEW m, NEW s, Chained(m, s), StaleSurplus(m) \/ StaleMove(Shrink(m)),
         NEW r, r = IF StaleSurplus(m) THEN Shrink(m) ELSE Swap(Shrink(m))
  PROVE  /\ r \in [Nodes -> Cells]
         /\ \E k \in 2 .. Len(s) - 1 :
              /\ m[s[k]].prev # s[k - 1] /\ ~r[s[k]].live
              /\ m[s[k]].data = NoOutput \/ m[s[1]].data = NoOutput
<1> DEFINE L == Len(s)
<1>1. /\ Linked(m, s) /\ L \in Nat \ {0} /\ m \in [Nodes -> Cells]
      /\ \A i \in 1 .. L : s[i] \in Nodes
  BY ChainedFacts, LinkedFacts
<1>2. \A i \in 2 .. L : s[i] \in Misled(m) <=> m[s[i]].prev # s[i - 1]
  BY <1>1, Reading
<1>3. CASE StaleSurplus(m)
  <2>1. PICK p \in 2 .. L - 1 : /\ m[s[p]].data = NoOutput
                                /\ Surplus(m) = {s[p]}
                                /\ Shrink(m) = Unlink(m, s[p])
    BY <1>3, ShrinkCases DEF StaleSurplus
  <2>2. p \in 2 .. L /\ p \in 1 .. L
    BY <1>1
  <2>3. m[s[p]].prev # s[p - 1]
    BY <1>2, <1>3, <2>1, <2>2 DEF StaleSurplus
  <2>4. r \in [Nodes -> Cells] /\ ~r[s[p]].live
    BY <1>1, <1>3, <2>1, <2>2, UnlinkFrees
  <2>5. QED
    BY <2>1, <2>3, <2>4
<1>4. CASE ~StaleSurplus(m) /\ StaleMove(Shrink(m))
  <2>1. CASE \E p \in 2 .. L - 1 : /\ m[s[p]].data = NoOutput
                                   /\ Surplus(m) = {s[p]}
                                   /\ Shrink(m) = Unlink(m, s[p])
    <3>1. PICK p \in 2 .. L - 1 : /\ m[s[p]].data = NoOutput
                                  /\ Surplus(m) = {s[p]}
                                  /\ Shrink(m) = Unlink(m, s[p])
      BY <2>1
    <3>2. p \in 2 .. L
      BY <1>1
    <3>3. m[s[p]].prev = s[p - 1]
      BY <1>2, <1>4, <3>1, <3>2 DEF StaleSurplus
    <3>4. \E t : Intact(Unlink(m, s[p]), t)
      BY <3>1, <3>3, UnlinkIs
    <3>5. ~NeedsSwap(Unlink(m, s[p]))
      BY <3>4, NoSwap
    <3>6. QED
      BY <1>4, <3>1, <3>5 DEF StaleMove
  <2>2. CASE Shrink(m) = m
    <3>1. NeedsSwap(m) /\ LastElement(m) \in Misled(m) /\ r = Swap(m)
      BY <1>4, <2>2 DEF StaleMove
    <3>2. /\ L - 1 \in 2 .. L - 1 /\ L - 1 \in 2 .. L /\ LastElement(m) = s[L - 1]
          /\ m[s[1]].data = NoOutput
      BY <1>1, <3>1, NeedsSwapIs
    <3>3. s[L - 1] \in Nodes
      <4>1. L - 1 \in 1 .. L
        BY <3>2
      <4>2. QED
        BY <1>1, <4>1
    <3>4. r \in [Nodes -> Cells] /\ ~r[s[L - 1]].live
      BY <1>1, <3>1, <3>2, <3>3, SwapFrees
    <3>5. m[s[L - 1]].prev # s[(L - 1) - 1]
      BY <1>2, <3>1, <3>2
    <3>6. QED
      BY <3>2, <3>4, <3>5
  <2>3. QED
    BY <2>1, <2>2, ShrinkCases
<1>5. QED
  BY <1>3, <1>4

-----------------------------------------------------------------------------
(* help_updata_compositor_output                                           *)

\* The last element's output has moved into the head, and its node is gone.
Moved(m, r) == ~r[LastElement(m)].live /\ r[ListHead].data = m[LastElement(m)].data

\* What an update that trusts no stale prev makes of the heap m.
UpdateOf(m, r, older, newer) ==
    /\ \E t : Intact(r, t)
    /\ Known(r) = ((Known(m) \ {older}) \cup {newer}) \ {NoOutput}
    /\ \/ Enabled(r) = Enabled(m) \ {older, newer}
       \/ Moved(m, r) /\ Enabled(r) = Enabled(m) \ {older, newer, m[LastElement(m)].data}
    /\ Misled(m) = {} => \/ Misled(r) = {}
                         \/ /\ Misled(r) = {TailOf(r)}
                            /\ r[TailOf(r)].prev = LastElement(m)
                            /\ ~r[LastElement(m)].live

\* What one that does makes of the list.
Breaks == TakesOutMisled /\ wild' = "prev" /\ mem' \in [Nodes -> Cells]

\* The heap r that Put leaves, with the nodes of t: when its head is empty, its last
\* element is the one of mem and holds what it held, or newer, or nothing.
SameLast(r, t, newer) ==
    1 \in 1 .. Len(t) - 1 /\ r[t[1]].data = NoOutput =>
        /\ LastElement(r) = LastElement(mem)
        /\ r[LastElement(r)].data \in {newer, NoOutput, mem[LastElement(mem)].data}

\* And a node with a wrong prev had one before, when anything is to be taken out.
SameMisled(r, t) ==
    \A k \in 2 .. Len(t) - 1 :
        r[t[k]].prev # t[k - 1] /\ (r[t[k]].data = NoOutput \/ r[t[1]].data = NoOutput) =>
            t[k] \in Misled(mem) /\ mem[t[k]].live /\ t[k] \in Nodes

LEMMA EnabledKnown ==
  ASSUME NEW m, NEW s, Chained(m, s)
  PROVE  /\ Enabled(m) \subseteq Known(m) /\ NoOutput \notin Known(m)
         /\ \A o \in Known(m) : o # NoOutput /\ \E i \in 1 .. Len(s) - 1 : m[s[i]].data = o
         /\ \A i \in 1 .. Len(s) - 1 : m[s[i]].data # NoOutput => m[s[i]].data \in Known(m)
<1>1. /\ Known(m) = {m[s[i]].data : i \in 1 .. Len(s) - 1} \ {NoOutput}
      /\ Enabled(m) = {m[s[i]].data : i \in {j \in 1 .. Len(s) - 1 : m[s[j]].enable}}
      /\ \A i \in 1 .. Len(s) - 1 : m[s[i]].data = NoOutput => ~m[s[i]].enable
  BY ChainedFacts, Contents
<1>2. QED
  BY <1>1

\* The last part of an update, from the heap r that Put leaves.
LEMMA TidyUpdates ==
  ASSUME NEW s, Intact(mem, s), NEW older, NEW newer,
         NEW r, NEW t, Chained(r, t),
         Known(r) = ((Known(mem) \ {older}) \cup {newer}) \ {NoOutput},
         Enabled(r) = Enabled(mem) \ {older, newer},
         Misled(mem) = {} => RightBack(r, t),
         SameLast(r, t, newer), SameMisled(r, t),
         Tidy(r)
  PROVE  (UpdateOf(mem, mem', older, newer) /\ wild' = wild) \/ Breaks
<1>1. CASE StaleSurplus(r) \/ StaleMove(Shrink(r))
  <2>1. /\ mem' = IF StaleSurplus(r) THEN Shrink(r) ELSE Swap(Shrink(r))
        /\ wild' = "prev"
    BY <1>1 DEF Tidy
  <2>2. /\ mem' \in [Nodes -> Cells]
        /\ \E k \in 2 .. Len(t) - 1 :
              /\ r[t[k]].prev # t[k - 1] /\ ~mem'[t[k]].live
              /\ r[t[k]].data = NoOutput \/ r[t[1]].data = NoOutput
    BY <1>1, <2>1, StaleIs
  <2>3. \E n \in Nodes : n \in Misled(mem) /\ mem[n].live /\ ~mem'[n].live
    BY <2>2 DEF SameMisled
  <2>4. TakesOutMisled
    BY <2>3 DEF TakesOutMisled
  <2>5. QED
    BY <2>1, <2>2, <2>4 DEF Breaks
<1>2. CASE ~StaleSurplus(r) /\ ~StaleMove(Shrink(r))
  <2> DEFINE u == Swap(Shrink(r))
  <2>1. mem' = u /\ wild' = wild
    BY <1>2 DEF Tidy
  <2>2. /\ \E q : Intact(u, q)
        /\ Known(u) = Known(r)
        /\ \/ Enabled(u) = Enabled(r)
           \/ MovesLast(r, t, u) /\ Enabled(u) = Enabled(r) \ {r[LastElement(r)].data}
        /\ RightBack(r, t) => \/ Misled(u) = {}
                              \/ /\ MovesLast(r, t, u)
                                 /\ Misled(u) = {TailOf(u)}
                                 /\ u[TailOf(u)].prev = LastElement(r)
    BY <1>2, TidyIs
  <2> HIDE DEF u
  <2>3. MovesLast(r, t, u) => /\ LastElement(r) = LastElement(mem)
                              /\ r[LastElement(r)].data \in {newer, NoOutput, mem[LastElement(mem)].data}
                              /\ ~u[LastElement(mem)].live
                              /\ u[ListHead].data = r[LastElement(r)].data
    BY DEF MovesLast, SameLast
  <2>4. \/ Enabled(u) = Enabled(mem) \ {older, newer}
        \/ Moved(mem, u) /\ Enabled(u) = Enabled(mem) \ {older, newer, mem[LastElement(mem)].data}
    <3>1. CASE Enabled(u) = Enabled(r)
      BY <3>1
    <3>2. CASE MovesLast(r, t, u) /\ Enabled(u) = Enabled(r) \ {r[LastElement(r)].data}
      <4>1. NoOutput \notin Enabled(r)
        BY EnabledKnown
      <4>2. CASE r[LastElement(r)].data \in {newer, NoOutput}
        BY <3>2, <4>1, <4>2
      <4>3. CASE r[LastElement(r)].data = mem[LastElement(mem)].data
        <5>1. Moved(mem, u)
          BY <2>3, <3>2, <4>3 DEF Moved
        <5>2. QED
          BY <3>2, <4>3, <5>1
      <4>4. QED
        BY <2>3, <3>2, <4>2, <4>3
    <3>3. QED
      BY <2>2, <3>1, <3>2
  <2>5. Misled(mem) = {} => \/ Misled(u) = {}
                            \/ /\ Misled(u) = {TailOf(u)}
                               /\ u[TailOf(u)].prev = LastElement(mem)
                               /\ ~u[LastElement(mem)].live
    BY <2>2, <2>3
  <2>6. UpdateOf(mem, u, older, newer)
    BY <2>2, <2>4, <2>5, Zenon DEF UpdateOf
  <2>7. QED
    BY <2>1, <2>6
<1>3. QED
  BY <1>1, <1>2

\* When Put leaves the links alone and the last element's output among those named, the
\* two conditions on its heap hold.
LEMMA SameNodes ==
  ASSUME NEW s, Intact(mem, s), NEW newer, NEW r, Linked(r, s),
         \A e \in Nodes : r[e].prev = mem[e].prev,
         \A i \in 1 .. Len(s) : r[s[i]].data \in {newer, NoOutput, mem[s[i]].data}
  PROVE  SameLast(r, s, newer) /\ SameMisled(r, s)
<1> DEFINE L == Len(s)
<1>1. /\ Chained(mem, s) /\ Linked(mem, s) /\ L \in Nat \ {0}
      /\ \A i \in 1 .. L : s[i] \in Nodes
      /\ s[1] = ListHead
  <2>1. Chained(mem, s) /\ Linked(mem, s) /\ L \in Nat \ {0}
    <3>1. Chained(mem, s)
      BY Zenon DEF Intact
    <3>2. QED
      BY <3>1, ChainedFacts
  <2>2. QED
    BY <2>1, LinkedFacts
<1>2. LastElement(r) = LastElement(mem) /\ LastElement(mem) = IF L = 1 THEN ListHead ELSE s[L - 1]
  BY <1>1, Reading
<1>3. \E i \in 1 .. L : LastElement(r) = s[i]
  <2>1. CASE L = 1
    BY <1>1, <1>2, <2>1
  <2>2. CASE L # 1
    <3>1. L \in Nat \ {0}
      BY <1>1
    <3> HIDE DEF L
    <3>2. L - 1 \in 1 .. L
      BY ONLY <2>2, <3>1
    <3>3. QED
      BY <1>2, <2>2, <3>2
  <2>3. QED
    BY <2>1, <2>2
<1>4. SameLast(r, s, newer)
  BY <1>2, <1>3 DEF SameLast
<1>5. ASSUME NEW k \in 2 .. L - 1, r[s[k]].prev # s[k - 1]
      PROVE  s[k] \in Misled(mem) /\ mem[s[k]].live /\ s[k] \in Nodes
  <2>1. k \in 1 .. L /\ k \in 2 .. L
    BY <1>1
  <2>2. s[k] \in Nodes /\ mem[s[k]].prev # s[k - 1]
    BY <1>1, <1>5, <2>1
  <2>3. s[k] \in Misled(mem)
    BY <1>1, <2>1, <2>2, Reading
  <2>4. mem[s[k]].live
    <3>1. \A n \in Nodes : mem[n].live <=> \E i \in 1 .. L : n = s[i]
      BY <1>1, ChainedFacts
    <3>2. QED
      BY <2>1, <2>2, <3>1
  <2>5. QED
    BY <2>2, <2>3, <2>4
<1>6. SameMisled(r, s)
  BY <1>5 DEF SameMisled
<1>7. QED
  BY <1>4, <1>6

LEMMA UpdateIs ==
  ASSUME NEW s, Intact(mem, s),
         NEW older \in Outputs \cup {NoOutput}, NEW newer \in Outputs \cup {NoOutput}, Update(older, newer)
  PROVE  /\ (UpdateOf(mem, mem', older, newer) /\ wild' = wild) \/ Breaks
         /\ wild = "none" /\ older # newer
         /\ switched' = switched /\ pos' = pos
<1> DEFINE L == Len(s)
           d(i) == mem[s[i]].data
           n == Place(mem, older, newer)
<1>1. /\ wild = "none" /\ older # newer
      /\ switched' = switched /\ pos' = pos
      /\ \E m \in Written(mem, older, newer) : Tidy(m)
  BY DEF Update
<1>2. Written(mem, older, newer) =
         IF n # TailOf(mem) \/ newer = NoOutput THEN {Put(mem, n, newer)}
         ELSE {Put(Extend(mem, n, new), n, newer) : new \in {h \in Heap : ~mem[h].live}}
  BY DEF Written
<1>4. PICK p \in 1 .. L :
         /\ n = s[p]
         /\ \A i \in 1 .. L - 1 :
               /\ d(i) = older /\ older # NoOutput => i = p
               /\ d(i) = NoOutput => i = p
               /\ i = p => d(i) \in {older, newer, NoOutput}
               /\ p = L => d(i) # newer
  BY <1>1, PlaceIs
<1>5. /\ Chained(mem, s) /\ Linked(mem, s) /\ L \in Nat \ {0}
      /\ \A i, j \in 1 .. L : s[i] = s[j] => i = j
      /\ \A i \in 1 .. L : s[i] \in Nodes
      /\ d(L) = NoOutput /\ ~mem[s[L]].enable
      /\ TailOf(mem) = s[L]
  <2>1. Chained(mem, s)
    BY Zenon DEF Intact
  <2>2. QED
    BY <2>1, ChainedFacts, LinkedFacts, Reading
<1>6. /\ Enabled(mem) \subseteq Known(mem) /\ NoOutput \notin Known(mem)
      /\ \A o \in Known(mem) : o # NoOutput /\ \E i \in 1 .. L - 1 : d(i) = o
      /\ \A i \in 1 .. L - 1 : d(i) # NoOutput => d(i) \in Known(mem)
  BY <1>5, EnabledKnown
<1>7. Misled(mem) = {} <=> RightBack(mem, s)
  BY <1>5, MisledNone
<1> HIDE DEF n
<1>8. CASE p # L
  <2>1. p \in 1 .. L - 1 /\ n # TailOf(mem)
    BY <1>4, <1>5, <1>8
  <2> DEFINE r == Put(mem, s[p], newer)
  <2>2. Tidy(r)
    BY <1>1, <1>2, <1>4, <2>1
  <2>3. /\ Chained(r, s)
        /\ Known(r) = ((Known(mem) \ {d(p)}) \cup {newer}) \ {NoOutput}
        /\ Enabled(r) = Enabled(mem) \ {d(p), newer}
    <3>1. OnlyHole(mem, s, p)
      BY <1>4 DEF OnlyHole
    <3>2. Fills(mem, r, s, p, newer)
      BY <1>5, <2>1, <3>1, PutChained
    <3>3. QED
      BY <3>2, Zenon DEF Fills
  <2>4. /\ Linked(r, s) /\ \A e \in Nodes : r[e].prev = mem[e].prev
        /\ \A i \in 1 .. L :
              r[s[i]].data = IF i = p THEN newer ELSE IF i # p /\ i # L /\ mem[s[i]].data = newer THEN NoOutput ELSE mem[s[i]].data
    <3>1. Puts(mem, r, s, p, newer)
      BY <1>5, PutIs
    <3>2. QED
      BY <3>1, Zenon DEF Puts
  <2> HIDE DEF r
  <2>12. \A i \in 1 .. L : r[s[i]].data \in {newer, NoOutput, mem[s[i]].data}
    BY <2>4
  <2>5. older \in Known(mem) => d(p) = older
    BY <1>4, <1>6
  <2>6. d(p) \in {older, newer, NoOutput}
    BY <1>4, <2>1
  <2> HIDE DEF d
  <2>7. /\ Known(r) = ((Known(mem) \ {older}) \cup {newer}) \ {NoOutput}
        /\ Enabled(r) = Enabled(mem) \ {older, newer}
    BY <1>6, <2>3, <2>5, <2>6
  <2>8. RightBack(mem, s) => RightBack(r, s)
    BY <1>5, <2>4 DEF RightBack
  <2>9. SameLast(r, s, newer) /\ SameMisled(r, s)
    BY <2>4, <2>12, SameNodes
  <2>10. (UpdateOf(mem, mem', older, newer) /\ wild' = wild) \/ Breaks
    BY <1>7, <2>2, <2>3, <2>7, <2>8, <2>9, TidyUpdates
  <2>11. QED
    BY <1>1, <2>10
<1>9. CASE p = L /\ newer = NoOutput
  <2> DEFINE r == Put(mem, s[p], newer)
  <2>1. Tidy(r)
    BY <1>1, <1>2, <1>4, <1>9
  <2>2. /\ Linked(r, s)
        /\ \A e \in Nodes : r[e].prev = mem[e].prev /\ r[e].live = mem[e].live
        /\ \A i \in 1 .. L :
              /\ r[s[i]].data = IF i = p THEN newer ELSE IF i # p /\ i # L /\ d(i) = newer THEN NoOutput ELSE d(i)
              /\ r[s[i]].enable <=> i # p /\ ~(i # p /\ i # L /\ d(i) = newer) /\ mem[s[i]].enable
    <3>1. Puts(mem, r, s, p, newer)
      BY <1>5, PutIs
    <3>2. QED
      BY <3>1, Zenon DEF Puts
  <2> HIDE DEF r
  <2>3. \A i \in 1 .. L : i \in 1 .. L - 1 \/ i = L
    BY <1>5
  <2>4. \A i \in 1 .. L : r[s[i]].data = d(i) /\ (r[s[i]].enable <=> mem[s[i]].enable)
    BY <1>4, <1>5, <1>9, <2>2, <2>3
  <2>5. \A i \in 1 .. L - 1 : i \in 1 .. L
    BY <1>5
  <2>6. Chained(r, s)
    <3>1. \A e \in Nodes : r[e].live <=> \E i \in 1 .. L : e = s[i]
      BY <1>5, <2>2, ChainedFacts
    <3>2. r[s[L]].data = NoOutput /\ ~r[s[L]].enable
      BY <1>5, <2>4
    <3>3. \A i, j \in 1 .. L - 1 : r[s[i]].data = r[s[j]].data => i = j
      BY <1>5, <2>4, <2>5, ChainedFacts
    <3>4. \A i \in 1 .. L - 1 : r[s[i]].data = NoOutput => ~r[s[i]].enable
      BY <1>5, <2>4, <2>5, ChainedFacts
    <3>5. QED
      BY <2>2, <3>1, <3>2, <3>3, <3>4, Zenon DEF Chained
  <2>7. Known(r) = Known(mem) /\ Enabled(r) = Enabled(mem)
    <3>1. /\ Known(r) = {r[s[i]].data : i \in 1 .. L - 1} \ {NoOutput}
          /\ Enabled(r) = {r[s[i]].data : i \in {j \in 1 .. L - 1 : r[s[j]].enable}}
          /\ Known(mem) = {d(i) : i \in 1 .. L - 1} \ {NoOutput}
          /\ Enabled(mem) = {d(i) : i \in {j \in 1 .. L - 1 : mem[s[j]].enable}}
      BY <1>5, <2>2, Contents
    <3>2. {r[s[i]].data : i \in 1 .. L - 1} = {d(i) : i \in 1 .. L - 1}
      BY <2>4, <2>5
    <3>3. {r[s[i]].data : i \in {j \in 1 .. L - 1 : r[s[j]].enable}} = {d(i) : i \in {j \in 1 .. L - 1 : mem[s[j]].enable}}
      BY <2>4, <2>5
    <3>4. QED
      BY <3>1, <3>2, <3>3
  <2>8. older \notin Known(mem)
    BY <1>4, <1>5, <1>6, <1>9
  <2>9. /\ Known(r) = ((Known(mem) \ {older}) \cup {newer}) \ {NoOutput}
        /\ Enabled(r) = Enabled(mem) \ {older, newer}
    BY <1>6, <1>9, <2>7, <2>8
  <2>10. RightBack(mem, s) => RightBack(r, s)
    BY <1>5, <2>2 DEF RightBack
  <2>11. SameLast(r, s, newer) /\ SameMisled(r, s)
    <3>1. \A i \in 1 .. L : r[s[i]].data \in {newer, NoOutput, mem[s[i]].data}
      BY <2>4
    <3>2. QED
      BY <2>2, <3>1, SameNodes
  <2>12. (UpdateOf(mem, mem', older, newer) /\ wild' = wild) \/ Breaks
    BY <1>7, <2>1, <2>6, <2>9, <2>10, <2>11, TidyUpdates
  <2>13. QED
    BY <1>1, <2>12
<1>10. CASE p = L /\ newer # NoOutput
  <2>1. PICK new \in Heap : ~mem[new].live /\ Tidy(Put(Extend(mem, n, new), n, newer))
    <3>1. n = TailOf(mem) /\ newer # NoOutput
      BY <1>4, <1>5, <1>10
    <3>2. QED
      BY <1>1, <1>2, <3>1
  <2> DEFINE m0 == Extend(mem, s[L], new)
             t == Append(s, new)
             r == Put(m0, t[L], newer)
  <2>2. \A i \in 1 .. L - 1 : d(i) # NoOutput /\ d(i) # newer
    BY <1>4, <1>5, <1>10
  <2>3. /\ Chained(m0, t)
        /\ Len(t) = L + 1 /\ \A i \in 1 .. L : t[i] = s[i]
        /\ \A i \in 1 .. L : m0[t[i]].data = d(i)
        /\ Known(m0) = Known(mem) /\ Enabled(m0) = Enabled(mem)
        /\ Misled(mem) = {} => Misled(m0) = {}
    BY <1>5, <2>1, <2>2, ExtendIs
  <2>4. L \in 1 .. L /\ L \in 1 .. Len(t) - 1 /\ Len(t) - 1 = L /\ L \in 1 .. Len(t) /\ L # Len(t) /\ t[L] = n
    BY <1>4, <1>5, <1>10, <2>3
  <2>5. Tidy(r)
    BY <1>4, <1>10, <2>1, <2>4
  <2> HIDE DEF m0, t
  <2>6. \A i \in 1 .. Len(t) - 1 : m0[t[i]].data = NoOutput => i = L
    <3>1. \A i \in 1 .. L : i \in 1 .. L - 1 \/ i = L
      BY <1>5
    <3>2. QED
      BY <2>2, <2>3, <2>4, <3>1
  <2>7. m0[t[L]].data = NoOutput
    BY <1>5, <2>3, <2>4
  <2>8. /\ Chained(r, t)
        /\ Known(r) = ((Known(mem) \ {NoOutput}) \cup {newer}) \ {NoOutput}
        /\ Enabled(r) = Enabled(mem) \ {NoOutput, newer}
    <3>1. OnlyHole(m0, t, L)
      BY <2>6 DEF OnlyHole
    <3>2. Fills(m0, r, t, L, newer)
      BY <2>3, <2>4, <3>1, PutChained
    <3>3. /\ Chained(r, t)
          /\ Known(r) = ((Known(m0) \ {m0[t[L]].data}) \cup {newer}) \ {NoOutput}
          /\ Enabled(r) = Enabled(m0) \ {m0[t[L]].data, newer}
      BY <3>2, Zenon DEF Fills
    <3>4. QED
      BY <2>3, <2>7, <3>3
  <2>9. Linked(m0, t)
    BY <2>3, ChainedFacts
  <2>10. /\ Linked(r, t)
         /\ \A e \in Nodes : r[e].prev = m0[e].prev
         /\ \A i \in 1 .. Len(t) :
               r[t[i]].data = IF i = L THEN newer
                              ELSE IF i # L /\ i # Len(t) /\ m0[t[i]].data = newer THEN NoOutput
                              ELSE m0[t[i]].data
    <3>1. Puts(m0, r, t, L, newer)
      BY <2>4, <2>9, PutIs
    <3>2. QED
      BY <3>1, Zenon DEF Puts
  <2> HIDE DEF r
  <2>11. older \notin Known(mem)
    BY <1>4, <1>5, <1>6, <1>10
  <2>12. /\ Known(r) = ((Known(mem) \ {older}) \cup {newer}) \ {NoOutput}
         /\ Enabled(r) = Enabled(mem) \ {older, newer}
    BY <1>6, <2>8, <2>11
  <2>13. Misled(mem) = {} => RightBack(r, t)
    <3>1. Misled(m0) = {} => RightBack(m0, t)
      BY <2>9, MisledNone
    <3>2. \A i \in 2 .. Len(t) : t[i] \in Nodes
      BY <2>9, LinkedFacts
    <3>3. RightBack(m0, t) => RightBack(r, t)
      BY <2>10, <3>2 DEF RightBack
    <3>4. QED
      BY <2>3, <3>1, <3>3
  <2>14. \A i \in 1 .. Len(t) - 1 : r[t[i]].data # NoOutput
    <3> SUFFICES ASSUME NEW i \in 1 .. Len(t) - 1 PROVE r[t[i]].data # NoOutput
      OBVIOUS
    <3>1. i \in 1 .. L /\ i \in 1 .. Len(t) /\ (i \in 1 .. L - 1 \/ i = L)
      <4>1. L \in Nat \ {0} /\ Len(t) = L + 1 /\ i \in 1 .. Len(t) - 1
        BY <1>5, <2>3
      <4> HIDE DEF L
      <4>2. QED
        BY ONLY <4>1
    <3>2. CASE i = L
      BY <1>10, <2>10, <3>1, <3>2
    <3>3. CASE i \in 1 .. L - 1
      BY <1>5, <2>2, <2>3, <2>10, <3>1, <3>3
    <3>4. QED
      BY <3>1, <3>2, <3>3
  <2>15. SameLast(r, t, newer) /\ SameMisled(r, t)
    <3>1. \A k \in 2 .. Len(t) - 1 : k \in 1 .. Len(t) - 1 /\ 1 \in 1 .. Len(t) - 1
      BY <1>5, <2>3
    <3>2. QED
      BY <2>14, <3>1 DEF SameLast, SameMisled
  <2>16. (UpdateOf(mem, mem', older, newer) /\ wild' = wild) \/ Breaks
    BY <2>5, <2>8, <2>12, <2>13, <2>15, TidyUpdates
  <2>17. QED
    BY <1>1, <2>16
<1>11. QED
  BY <1>8, <1>9, <1>10

-----------------------------------------------------------------------------
(* The invariant: between updates some sequence of nodes is the list.      *)

LEMMA IntactFacts ==
  ASSUME NEW m, NEW s, Intact(m, s)
  PROVE  /\ Chained(m, s) /\ Linked(m, s)
         /\ \A i \in 1 .. Len(s) - 1 : m[s[i]].data = NoOutput => i = 1 /\ Len(s) = 2
<1>1. Chained(m, s) /\ \A i \in 1 .. Len(s) - 1 : m[s[i]].data = NoOutput => i = 1 /\ Len(s) = 2
  BY Zenon DEF Intact
<1>2. QED
  BY <1>1, ChainedFacts

\* The head tells whether there is any output.
LEMMA HeadIs ==
  ASSUME NEW m, NEW s, Intact(m, s)
  PROVE  m[ListHead].data # NoOutput <=> Known(m) # {}
<1>1. /\ Chained(m, s) /\ Linked(m, s)
      /\ \A i \in 1 .. Len(s) - 1 : m[s[i]].data = NoOutput => i = 1 /\ Len(s) = 2
  BY IntactFacts
<1>2. /\ Len(s) \in Nat \ {0} /\ s[1] = ListHead /\ m[s[Len(s)]].data = NoOutput
      /\ Known(m) = {m[s[i]].data : i \in 1 .. Len(s) - 1} \ {NoOutput}
  BY <1>1, ChainedFacts, LinkedFacts, Contents
<1>3. CASE Len(s) = 1
  BY <1>2, <1>3
<1>4. CASE Len(s) # 1
  <2>1. 1 \in 1 .. Len(s) - 1
    <3> DEFINE L == Len(s)
    <3>1. L \in Nat \ {0} /\ L # 1
      BY <1>2, <1>4
    <3> HIDE DEF L
    <3>2. 1 \in 1 .. L - 1
      BY ONLY <3>1
    <3>3. QED
      BY <3>2 DEF L
  <2>2. CASE m[s[1]].data = NoOutput
    <3>1. Len(s) = 2
      BY <1>1, <2>1, <2>2
    <3>2. QED
      BY <1>2, <2>2, <3>1
  <2>3. CASE m[s[1]].data # NoOutput
    BY <1>2, <2>1, <2>3
  <2>4. QED
    BY <2>2, <2>3
<1>5. QED
  BY <1>3, <1>4

LEMMA KnownOutputs ==
  ASSUME NEW m, NEW s, Chained(m, s)
  PROVE  Enabled(m) \subseteq Known(m) /\ Known(m) \subseteq Outputs
<1>1. /\ Known(m) = {m[s[i]].data : i \in 1 .. Len(s) - 1} \ {NoOutput}
      /\ \A i \in 1 .. Len(s) : m[s[i]].data \in Outputs \cup {NoOutput}
      /\ Len(s) \in Nat
  BY ChainedFacts, Contents
<1>2. QED
  BY <1>1, EnabledKnown

\* The list begins as an empty node.
LEMMA InitIs ==
  ASSUME Init
  PROVE  TypeOK /\ Intact(mem, <<ListHead>>) /\ Known(mem) = {} /\ Enabled(mem) = {} /\ switched = {}
<1> DEFINE s == <<ListHead>>
<1>1. /\ ListHead \in Nodes /\ Nil \in Pointers
      /\ \A n \in Nodes : mem[n] = [Blank EXCEPT !.live = (n = ListHead)]
      /\ mem = [n \in Nodes |-> [Blank EXCEPT !.live = (n = ListHead)]]
  BY DEF Init, Nodes, Pointers
<1>2. \A n \in Nodes : /\ mem[n] \in Cells /\ mem[n].next = Nil /\ mem[n].data = NoOutput
                       /\ ~mem[n].enable /\ (mem[n].live <=> n = ListHead)
  BY <1>1 DEF Blank, Cells, Pointers
<1>3. mem \in [Nodes -> Cells]
  BY <1>1, <1>2
<1>4. s \in Seq(Nodes) /\ Len(s) = 1 /\ s[1] = ListHead /\ 1 .. Len(s) = {1} /\ 1 .. Len(s) - 1 = {}
  BY <1>1
<1> HIDE DEF s
<1>5. Linked(mem, s)
  <2>1. s # <<>> /\ \A i, j \in 1 .. Len(s) : s[i] = s[j] => i = j
    BY <1>4
  <2>2. \A i \in 1 .. Len(s) : mem[s[i]].next = IF i = Len(s) THEN Nil ELSE s[i + 1]
    BY <1>1, <1>2, <1>4
  <2>3. QED
    BY <1>3, <1>4, <2>1, <2>2, Zenon DEF Linked
<1>6. Chained(mem, s)
  <2>1. /\ \A n \in Nodes : mem[n].live <=> \E i \in 1 .. Len(s) : n = s[i]
        /\ mem[s[Len(s)]].data = NoOutput /\ ~mem[s[Len(s)]].enable
        /\ \A i, j \in 1 .. Len(s) - 1 : mem[s[i]].data = mem[s[j]].data => i = j
        /\ \A i \in 1 .. Len(s) - 1 : mem[s[i]].data = NoOutput => ~mem[s[i]].enable
    BY <1>1, <1>2, <1>4
  <2>2. QED
    BY <1>5, <2>1, Zenon DEF Chained
<1>7. Intact(mem, s)
  <2>1. \A i \in 1 .. Len(s) - 1 : mem[s[i]].data = NoOutput => i = 1 /\ Len(s) = 2
    BY <1>4
  <2>2. QED
    BY <1>6, <2>1, Zenon DEF Intact
<1>8. Known(mem) = {} /\ Enabled(mem) = {}
  BY <1>4, <1>5, Contents
<1>9. TypeOK
  BY <1>3 DEF TypeOK, Init, Cells, Pointers
<1>10. QED
  BY <1>7, <1>8, <1>9 DEF Init, s

\* help_switch_compositor_output changes one enable flag.
LEMMA SwitchIs ==
  ASSUME NEW s, Intact(mem, s), NEW output \in Outputs, NEW enable \in BOOLEAN, SwitchOutput(output, enable)
  PROVE  /\ Intact(mem', s)
         /\ Known(mem') = Known(mem) /\ Misled(mem') = Misled(mem)
         /\ Enabled(mem') = IF enable THEN Enabled(mem) \cup ({output} \cap Known(mem))
                            ELSE Enabled(mem) \ {output}
         /\ UNCHANGED <<switched, pos, wild>>
<1> DEFINE L == Len(s)
           d(i) == mem[s[i]].data
<1>1. /\ Chained(mem, s) /\ Linked(mem, s)
      /\ \A i \in 1 .. L - 1 : d(i) = NoOutput => i = 1 /\ L = 2
  BY IntactFacts
<1>2. /\ L \in Nat \ {0} /\ mem \in [Nodes -> Cells] /\ s \in Seq(Nodes) /\ s[1] = ListHead
      /\ \A i \in 1 .. L : s[i] \in Nodes
      /\ \A i, j \in 1 .. L : s[i] = s[j] => i = j
      /\ \A i \in 1 .. L : mem[s[i]].next = IF i = L THEN Nil ELSE s[i + 1]
  BY <1>1, LinkedFacts
<1>3. /\ \A n \in Nodes : mem[n].live <=> \E i \in 1 .. L : n = s[i]
      /\ d(L) = NoOutput /\ ~mem[s[L]].enable
      /\ \A i, j \in 1 .. L - 1 : d(i) = d(j) => i = j
      /\ \A i \in 1 .. L - 1 : d(i) = NoOutput => ~mem[s[i]].enable
  BY <1>1, ChainedFacts
<1>4. /\ Known(mem) = {d(i) : i \in 1 .. L - 1} \ {NoOutput}
      /\ Enabled(mem) = {d(i) : i \in {j \in 1 .. L - 1 : mem[s[j]].enable}}
  BY <1>1, Contents
<1>5. output # NoOutput /\ UNCHANGED <<switched, pos, wild>>
  BY OutputAssumption DEF SwitchOutput
<1>6. CASE Find(mem, output) = 0
  <2>1. mem' = mem
    BY <1>6 DEF SwitchOutput
  <2>2. \A i \in 1 .. L - 1 : d(i) # output
    BY <1>1, <1>2, <1>6, FindIs
  <2>3. output \notin Known(mem) /\ output \notin Enabled(mem)
    BY <1>4, <2>2
  <2>4. QED
    BY <1>5, <2>1, <2>3
<1>7. CASE Find(mem, output) # 0
  <2>1. PICK p \in 1 .. L - 1 : d(p) = output /\ mem' = [mem EXCEPT ![s[p]].enable = enable]
    <3> DEFINE f == Find(mem, output)
    <3>1. f \in 1 .. L - 1 /\ Elements(mem)[f] = s[f] /\ d(f) = output
      BY <1>1, <1>7, FindIs
    <3>2. mem' = [mem EXCEPT ![Elements(mem)[f]].enable = enable]
      BY <1>7 DEF SwitchOutput
    <3> HIDE DEF f
    <3>3. QED
      BY <3>1, <3>2
  <2>2. p \in 1 .. L /\ p # L /\ s[p] \in Nodes
    BY <1>2
  <2>3. /\ mem' \in [Nodes -> Cells]
        /\ \A n \in Nodes : /\ mem'[n].next = mem[n].next /\ mem'[n].prev = mem[n].prev
                            /\ mem'[n].data = mem[n].data /\ mem'[n].live = mem[n].live
                            /\ mem'[n].enable = IF n = s[p] THEN enable ELSE mem[n].enable
    BY <1>2, <2>1, <2>2 DEF Cells
  <2>4. \A i \in 1 .. L : /\ mem'[s[i]].next = mem[s[i]].next /\ mem'[s[i]].data = d(i)
                          /\ mem'[s[i]].prev = mem[s[i]].prev
                          /\ mem'[s[i]].enable = IF i = p THEN enable ELSE mem[s[i]].enable
    BY <1>2, <2>2, <2>3
  <2>5. Linked(mem', s)
    <3>1. \A i \in 1 .. L : mem'[s[i]].next = IF i = L THEN Nil ELSE s[i + 1]
      BY <1>2, <2>4
    <3>2. s # <<>>
      BY <1>2
    <3>3. QED
      BY <1>2, <2>3, <3>1, <3>2, Zenon DEF Linked
  <2>6. \A i \in 1 .. L - 1 : i \in 1 .. L /\ mem'[s[i]].data = d(i)
    BY <1>2, <2>4
  <2>7. Intact(mem', s)
    <3>1. \A n \in Nodes : mem'[n].live <=> \E i \in 1 .. L : n = s[i]
      BY <1>3, <2>3
    <3>2. mem'[s[L]].data = NoOutput /\ ~mem'[s[L]].enable
      BY <1>2, <1>3, <2>2, <2>4
    <3>3. \A i, j \in 1 .. L - 1 : mem'[s[i]].data = mem'[s[j]].data => i = j
      BY <1>3, <2>6
    <3>4. \A i \in 1 .. L - 1 : mem'[s[i]].data = NoOutput => ~mem'[s[i]].enable
      BY <1>3, <1>5, <2>1, <2>4, <2>6
    <3>5. \A i \in 1 .. L - 1 : mem'[s[i]].data = NoOutput => i = 1 /\ L = 2
      BY <1>1, <2>6
    <3>6. Chained(mem', s)
      BY <2>5, <3>1, <3>2, <3>3, <3>4, Zenon DEF Chained
    <3>7. QED
      BY <3>5, <3>6, Zenon DEF Intact
  <2>8. /\ Known(mem') = {mem'[s[i]].data : i \in 1 .. L - 1} \ {NoOutput}
        /\ Enabled(mem') = {mem'[s[i]].data : i \in {j \in 1 .. L - 1 : mem'[s[j]].enable}}
    BY <2>5, Contents
  <2>9. Known(mem') = Known(mem)
    <3>1. {mem'[s[i]].data : i \in 1 .. L - 1} = {d(i) : i \in 1 .. L - 1}
      BY <2>6
    <3>2. QED
      BY <1>4, <2>8, <3>1
  <2>10. Misled(mem') = Misled(mem)
    <3>1. /\ Misled(mem) = {s[k] : k \in {i \in 2 .. L : mem[s[i]].prev # s[i - 1]}}
          /\ Misled(mem') = {s[k] : k \in {i \in 2 .. L : mem'[s[i]].prev # s[i - 1]}}
      BY <1>1, <2>5, Reading
    <3>2. \A i \in 2 .. L : mem'[s[i]].prev = mem[s[i]].prev
      BY <1>2, <2>4
    <3>3. QED
      BY <3>1, <3>2
  <2>11. Enabled(mem') = {d(i) : i \in {j \in 1 .. L - 1 : IF j = p THEN enable ELSE mem[s[j]].enable}}
    <3>1. \A i \in 1 .. L - 1 : mem'[s[i]].enable = IF i = p THEN enable ELSE mem[s[i]].enable
      BY <2>4, <2>6
    <3>2. QED
      BY <2>6, <2>8, <3>1
  <2>12. output \in Known(mem) /\ \A i \in 1 .. L - 1 : d(i) = output <=> i = p
    BY <1>3, <1>4, <1>5, <2>1
  <2> HIDE DEF d
  <2>13. CASE enable
    <3>1. Enabled(mem') = Enabled(mem) \cup {output}
      BY <1>4, <2>1, <2>11, <2>13
    <3>2. QED
      BY <1>5, <2>7, <2>9, <2>10, <2>12, <2>13, <3>1
  <2>14. CASE ~enable
    <3>1. Enabled(mem') = Enabled(mem) \ {output}
      BY <1>4, <2>11, <2>12, <2>14
    <3>2. QED
      BY <1>5, <2>7, <2>9, <2>10, <2>14, <3>1
  <2>15. QED
    BY <2>13, <2>14
<1>8. QED
  BY <1>6, <1>7

\* Whoever takes the step, the list stays intact.
LEMMA IInvStep ==
  ASSUME IInv, [Next]_vars
  PROVE  IInv'
<1> SUFFICES ASSUME wild # "prev" PROVE IInv'
  <2>1. wild = "prev" => mem' = mem /\ UNCHANGED <<switched, pos, wild>>
    BY DEF Next, Update, SwitchOutput, SwitchMode, RefreshBegin, RefreshStep, vars
  <2>2. QED
    BY <2>1 DEF IInv, TypeOK
<1>1. PICK s : Intact(mem, s)
  BY DEF IInv
<1>2. TypeOK
  BY DEF IInv
<1>3. \A m, t : Intact(m, t) => m \in [Nodes -> Cells]
  BY IntactFacts, LinkedFacts
<1>4. ASSUME NEW older \in Outputs \cup {NoOutput}, NEW newer \in Outputs \cup {NoOutput}, Update(older, newer)
      PROVE  IInv'
  <2>1. /\ (UpdateOf(mem, mem', older, newer) /\ wild' = wild) \/ Breaks
        /\ switched' = switched /\ pos' = pos
    BY <1>1, <1>4, UpdateIs
  <2>2. CASE UpdateOf(mem, mem', older, newer) /\ wild' = wild
    <3>1. \E t : Intact(mem', t)
      BY <2>2 DEF UpdateOf
    <3>2. TypeOK'
      BY <1>2, <1>3, <2>1, <2>2, <3>1 DEF TypeOK, Cells
    <3>3. QED
      BY <3>1, <3>2 DEF IInv
  <2>3. CASE Breaks
    <3>1. TypeOK' /\ wild' = "prev"
      BY <1>2, <2>1, <2>3 DEF Breaks, TypeOK, Cells
    <3>2. QED
      BY <3>1 DEF IInv
  <2>4. QED
    BY <2>1, <2>2, <2>3
<1>5. ASSUME NEW output \in Outputs, NEW enable \in BOOLEAN, SwitchOutput(output, enable)
      PROVE  IInv'
  <2>1. Intact(mem', s) /\ UNCHANGED <<switched, pos, wild>>
    BY <1>1, <1>5, SwitchIs
  <2>2. TypeOK'
    BY <1>2, <1>3, <2>1 DEF TypeOK, Cells
  <2>3. QED
    BY <2>1, <2>2 DEF IInv
<1>6. CASE SwitchMode
  <2>1. switched' \in {Enabled(mem), {Legacy} \ {NoOutput}} /\ UNCHANGED <<mem, pos, wild>>
    BY <1>6 DEF SwitchMode, Enabled
  <2>2. Enabled(mem) \subseteq Outputs /\ NoOutput \notin Outputs
    BY <1>1, IntactFacts, KnownOutputs, OutputAssumption
  <2>3. TypeOK'
    BY <1>2, <2>1, <2>2 DEF TypeOK
  <2>4. QED
    BY <1>1, <2>1, <2>3 DEF IInv
<1>7. CASE RefreshBegin
  <2>1. pos' = ListHead /\ UNCHANGED <<mem, switched, wild>>
    BY <1>7 DEF RefreshBegin
  <2>2. QED
    BY <1>1, <1>2, <2>1 DEF IInv, TypeOK, Pointers, Nodes
<1>8. CASE RefreshStep
  <2>1. pos \in Nodes /\ UNCHANGED <<mem, switched>>
    BY <1>2, <1>8 DEF RefreshStep, TypeOK, Pointers
  <2>2. mem[pos].next \in Pointers
    BY <1>2, <2>1 DEF TypeOK
  <2>3. pos' \in Pointers /\ wild' \in {"none", "prev", "walk"}
    BY <1>2, <1>8, <2>2 DEF RefreshStep, TypeOK
  <2>4. QED
    BY <1>1, <1>2, <2>1, <2>3 DEF IInv, TypeOK
<1>9. CASE UNCHANGED vars
  BY <1>1, <1>2, <1>9 DEF IInv, TypeOK, vars
<1>10. QED
  BY <1>4, <1>5, <1>6, <1>7, <1>8, <1>9 DEF Next

LEMMA Invariance == Spec => []IInv
<1>1. Init => IInv
  BY InitIs DEF IInv
<1>2. IInv /\ [Next]_vars => IInv'
  BY IInvStep
<1>3. QED
  BY <1>1, <1>2, PTL DEF Spec

\* Nodes hold pointers and outputs, and only outputs are switched.
THEOREM OutputTypes == Spec => []TypeOK
<1>1. IInv => TypeOK
  BY DEF IInv
<1>2. QED
  BY <1>1, Invariance, PTL

LEMMA SoundIsIntact ==
  ASSUME NEW s, Intact(mem, s)
  PROVE  ListIntact
<1>1. QED
  <2>1. Intact(mem, s)
    OBVIOUS
  <2> DEFINE L == Len(s)
  <2>2. /\ Chained(mem, s) /\ Linked(mem, s)
        /\ \A i \in 1 .. L - 1 : mem[s[i]].data = NoOutput => i = 1 /\ L = 2
    BY <2>1, IntactFacts
  <2>3. /\ L \in Nat \ {0} /\ s[1] = ListHead
        /\ \A i \in 1 .. L : s[i] \in Nodes
        /\ mem[s[L]].next = Nil
    BY <2>2, LinkedFacts
  <2>4. /\ \A n \in Nodes : mem[n].live <=> \E i \in 1 .. L : n = s[i]
        /\ mem[s[L]].data = NoOutput /\ ~mem[s[L]].enable
        /\ \A i, j \in 1 .. L - 1 : mem[s[i]].data = mem[s[j]].data => i = j
        /\ \A i \in 1 .. L - 1 : mem[s[i]].data = NoOutput => ~mem[s[i]].enable
    BY <2>2, ChainedFacts
  <2>5. /\ ToSet(Elements(mem)) = {s[i] : i \in 1 .. L - 1}
        /\ ToSet(Chain(mem)) = {s[i] : i \in 1 .. L}
        /\ TailOf(mem) = s[L]
    BY <2>2, Reading
  <2>6. HeadFilled
    BY <2>1, HeadIs DEF HeadFilled
  <2>7. ToSet(Chain(mem)) = {n \in Nodes : mem[n].live}
    BY <2>3, <2>4, <2>5
  <2>8. \A e, f \in ToSet(Elements(mem)) : mem[e].data = mem[f].data => e = f
    BY <2>4, <2>5
  <2>9. \A e \in ToSet(Elements(mem)) :
           mem[e].data = NoOutput => e = ListHead /\ ~mem[e].enable
    BY <2>2, <2>3, <2>4, <2>5
  <2>10. QED
    BY <2>3, <2>4, <2>5, <2>6, <2>7, <2>8, <2>9, Zenon DEF ListIntact

\* Until the list has been broken it is intact.
Whole == \E s : Intact(mem, s)

LEMMA WholeIsIntact == Whole => ListIntact
<1>1. QED
  BY SoundIsIntact DEF Whole

\* The list runs through exactly the allocated nodes and ends in an empty one, no output
\* is in it twice, and process_task may judge by the head: an update ends that only when
\* it takes out a node whose prev does not name the node before it.
THEOREM OutputListBreaks == Spec => OnlyStalePrevBreaksList
<1> DEFINE Kept == ListIntact /\ ~ListIntact' => TakesOutMisled
<1>1. ASSUME IInv, IInv', [Next]_vars
      PROVE  Kept
  <2>1. CASE wild' # "prev"
    <3>1. Whole'
      BY <1>1, <2>1 DEF IInv, Whole
    <3>2. ListIntact'
      BY <3>1, WholeIsIntact, PTL
    <3>3. QED
      BY <3>2
  <2>2. CASE wild = "prev"
    <3>1. mem' = mem
      BY <1>1, <2>2 DEF Next, Update, SwitchOutput, SwitchMode, RefreshBegin, RefreshStep, vars
    <3>2. ListIntact' <=> ListIntact
      BY <3>1 DEF ListIntact, HeadFilled, Known, TailOf, Elements, Chain, NextOf
    <3>3. QED
      BY <3>2
  <2>3. CASE wild # "prev" /\ wild' = "prev"
    <3>1. PICK s : Intact(mem, s)
      BY <1>1, <2>3 DEF IInv
    <3>2. PICK older \in Outputs \cup {NoOutput}, newer \in Outputs \cup {NoOutput} : Update(older, newer)
      BY <1>1, <2>3 DEF Next, SwitchOutput, SwitchMode, RefreshBegin, RefreshStep, vars
    <3>3. Breaks
      BY <2>3, <3>1, <3>2, UpdateIs
    <3>4. QED
      BY <3>3 DEF Breaks
  <2>4. QED
    BY <2>1, <2>2, <2>3
<1>2. IInv /\ IInv' /\ [Next]_vars => [Kept]_vars
  BY <1>1
<1>3. QED
  BY <1>2, Invariance, PTL DEF Spec, OnlyStalePrevBreaksList

\* Taking nodes out of the middle keeps the back links right; only the move of the last
\* element into the head spoils one, the tail's, which then names the freed node.
THEOREM OutputBackLinks == Spec => OnlyTheMoveBreaksPrev
<1> DEFINE Spoils ==
       Misled(mem) = {} /\ Misled(mem') # {} =>
         /\ Misled(mem') = {TailOf(mem')}
         /\ mem'[TailOf(mem')].prev = LastElement(mem)
         /\ ~mem'[LastElement(mem)].live
<1>1. ASSUME IInv, [Next]_vars
      PROVE  Spoils \/ mem' = mem
  <2> SUFFICES ASSUME wild # "prev" PROVE Spoils \/ mem' = mem
    BY <1>1 DEF Next, Update, SwitchOutput, SwitchMode, RefreshBegin, RefreshStep, vars
  <2>1. PICK s : Intact(mem, s)
    BY <1>1 DEF IInv
  <2>2. ASSUME NEW older \in Outputs \cup {NoOutput}, NEW newer \in Outputs \cup {NoOutput}, Update(older, newer)
        PROVE  Spoils \/ mem' = mem
    <3>1. UpdateOf(mem, mem', older, newer) \/ Breaks
      BY <2>1, <2>2, UpdateIs
    <3>2. CASE UpdateOf(mem, mem', older, newer)
      BY <3>2 DEF UpdateOf
    <3>3. CASE Breaks
      BY <3>3 DEF Breaks, TakesOutMisled
    <3>4. QED
      BY <3>1, <3>2, <3>3
  <2>3. ASSUME NEW output \in Outputs, NEW enable \in BOOLEAN, SwitchOutput(output, enable)
        PROVE  Spoils \/ mem' = mem
    BY <2>1, <2>3, SwitchIs
  <2>4. CASE SwitchMode \/ RefreshBegin \/ RefreshStep \/ UNCHANGED vars
    BY <2>4 DEF SwitchMode, RefreshBegin, RefreshStep, vars
  <2>5. QED
    BY <1>1, <2>2, <2>3, <2>4 DEF Next
<1>2. IInv /\ [Next]_vars => [Spoils]_mem
  BY <1>1
<1>3. QED
  BY <1>2, Invariance, PTL DEF Spec, OnlyTheMoveBreaksPrev

-----------------------------------------------------------------------------
(* Every step of the list is a step of OutputSet or changes nothing of it, *)
(* but for the flag a move loses and the list that is broken.              *)

Mapped == Promise!Next \/ MoveDisables \/ TakesOutMisled

LEMMA StepMapped ==
  ASSUME IInv, [Next]_vars
  PROVE  [Mapped]_Promise!vars
<1> SUFFICES ASSUME wild # "prev" PROVE [Mapped]_Promise!vars
  <2>1. wild = "prev" => mem' = mem /\ switched' = switched
    BY DEF Next, Update, SwitchOutput, SwitchMode, RefreshBegin, RefreshStep, vars
  <2>2. QED
    BY <2>1 DEF Promise!vars
<1>1. PICK s : Intact(mem, s)
  BY DEF IInv
<1>2. ASSUME NEW older \in Outputs \cup {NoOutput}, NEW newer \in Outputs \cup {NoOutput}, Update(older, newer)
      PROVE  [Mapped]_Promise!vars
  <2>1. /\ UpdateOf(mem, mem', older, newer) \/ Breaks
        /\ older # newer /\ switched' = switched
    BY <1>1, <1>2, UpdateIs
  <2>2. CASE Breaks
    BY <2>2, Zenon DEF Breaks, Mapped
  <2>3. CASE UpdateOf(mem, mem', older, newer)
    <3>1. /\ Known(mem') = ((Known(mem) \ {older}) \cup {newer}) \ {NoOutput}
          /\ \/ Enabled(mem') = Enabled(mem) \ {older, newer}
             \/ /\ Moved(mem, mem')
                /\ Enabled(mem') = Enabled(mem) \ {older, newer, mem[LastElement(mem)].data}
      BY <2>3, Zenon DEF UpdateOf
    <3>2. CASE Enabled(mem') = Enabled(mem) \ {older, newer}
      <4>1. Promise!Update(older, newer)
        BY <2>1, <3>1, <3>2, Zenon DEF Promise!Update
      <4>2. Promise!Next
        BY <4>1, Zenon DEF Promise!Next
      <4>3. QED
        BY <4>2, Zenon DEF Mapped
    <3>3. CASE /\ Moved(mem, mem')
               /\ Enabled(mem') = Enabled(mem) \ {older, newer, mem[LastElement(mem)].data}
      <4>1. MoveDisables
        BY <2>1, <3>1, <3>3, Zenon DEF Moved, MoveDisables
      <4>2. QED
        BY <4>1, Zenon DEF Mapped
    <3>4. QED
      BY <3>1, <3>2, <3>3
  <2>4. QED
    BY <2>1, <2>2, <2>3
<1>3. ASSUME NEW output \in Outputs, NEW enable \in BOOLEAN, SwitchOutput(output, enable)
      PROVE  [Mapped]_Promise!vars
  <2>1. /\ Known(mem') = Known(mem) /\ switched' = switched
        /\ Enabled(mem') = IF enable THEN Enabled(mem) \cup ({output} \cap Known(mem))
                           ELSE Enabled(mem) \ {output}
    BY <1>1, <1>3, SwitchIs
  <2>2. CASE enable
    <3>1. Promise!Enable(output)
      BY <2>1, <2>2 DEF Promise!Enable
    <3>2. QED
      BY <3>1, Zenon DEF Promise!Next, Mapped
  <2>3. CASE ~enable
    <3>1. Promise!Disable(output)
      BY <2>1, <2>3 DEF Promise!Disable
    <3>2. QED
      BY <3>1, Zenon DEF Promise!Next, Mapped
  <2>4. QED
    BY <2>2, <2>3
<1>4. CASE SwitchMode
  <2>1. /\ switched' = IF mem[ListHead].data # NoOutput THEN Enabled(mem) ELSE {Legacy} \ {NoOutput}
        /\ mem' = mem
    BY <1>4 DEF SwitchMode, Enabled
  <2>2. mem[ListHead].data # NoOutput <=> Known(mem) # {}
    BY <1>1, HeadIs
  <2>3. Promise!SwitchMode
    BY <2>1, <2>2 DEF Promise!SwitchMode
  <2>4. QED
    BY <2>3, Zenon DEF Promise!Next, Mapped
<1>5. CASE RefreshBegin \/ RefreshStep \/ UNCHANGED vars
  <2>1. mem' = mem /\ switched' = switched
    BY <1>5 DEF RefreshBegin, RefreshStep, vars
  <2>2. QED
    BY <2>1 DEF Promise!vars
<1>6. QED
  BY <1>2, <1>3, <1>4, <1>5 DEF Next

\* Seen from outside, the list is the set of weston's outputs with the enabled ones
\* among them, and a mode switch goes to exactly those; the one other thing a step may
\* do is lose the flag of the output it moves, or take out a node with a wrong prev.
THEOREM OutputImplementsSet == Spec => Implements
<1>1. Init => Promise!Init
  BY InitIs DEF Promise!Init
<1>2. IInv /\ [Next]_vars => [Mapped]_Promise!vars
  BY StepMapped
<1>3. QED
  BY <1>1, <1>2, Invariance, PTL DEF Spec, Implements, Mapped
=============================================================================
