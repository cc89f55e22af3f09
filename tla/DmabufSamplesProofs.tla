------------------------- MODULE DmabufSamplesProofs -------------------------
(***************************************************************************)
(* What holds of the dmabuf samples for any number of buffers: every       *)
(* buffer is in one place, so that nobody writes to what is shown, a       *)
(* program is only stuck when the compositor has every buffer, and each    *)
(* buffer is freed.                                                        *)
(***************************************************************************)
EXTENDS DmabufSamples, FiniteSetTheorems, TLAPS

Types == {"created", "failed", "configure", "done", "release", "fenced", "close", "key"}
Events == [type : Types, buffer : Buffers]

\* The buffers in the events of some types, and that no two of these events are about
\* the same buffer.
Of(es, types) == {es[i].buffer : i \in {j \in DOMAIN es : es[j].type \in types}}
Distinct(es, types) ==
    \A i, j \in DOMAIN es :
        es[i].type \in types /\ es[j].type \in types /\ es[i].buffer = es[j].buffer => i = j

AnswerTypes == {"created", "failed"}
ReturnTypes == {"release", "fenced"}
FenceTypes == {"fenced"}
LaterTypes == {"done", "release", "fenced"}

\* Before the first frame, and from then on.
SetUp == {"start", "window", "connect", "format", "buffers", "gl"}
Early == SetUp \cup {"roundtrip"}
Shows == {"loop", "dequeue", "render", "commit"}

\* Imports the program has no answer to.
Pending == compositor.asked \cup Of(events, AnswerTypes)

\* What the compositor has, or has given back without the program's knowing.
Lent == compositor.held \cup Of(events, ReturnTypes)

Record == [buffer : {"none", "asked", "here", "failed"}, busy : BOOLEAN, fenced : BOOLEAN, freed : Nat]
Side == [asked : SUBSET Buffers, held : SUBSET Buffers, owes : BOOLEAN, configures : Nat, gone : BOOLEAN]

TypeInv ==
    /\ program \in Programs
    /\ options \in [immediate : BOOLEAN, sync : BOOLEAN]
    /\ options.immediate => program \in {"drm", "egl"}
    /\ phase \in SetUp \cup Shows \cup
                 {"roundtrip", "ended", "failed", "aborted", "asserted", "crashed"}
    /\ phase \in {"connect", "format", "dequeue"} => program = "v4l"
    /\ running \in BOOLEAN
    /\ window \in [initialized : BOOLEAN, waiting : BOOLEAN]
    /\ buffers \in [Buffers -> Record]
    /\ compositor \in Side
    /\ events \in Seq(Events)
    /\ drawn \in SUBSET Buffers
    /\ fence \in SUBSET Buffers

\* Nothing was shown yet.
EarlyInv ==
    phase \in Early =>
        /\ compositor.held = {}
        /\ ~compositor.owes
        /\ Of(events, LaterTypes) = {}
        /\ ~window.initialized
        /\ \A b \in Buffers : ~buffers[b].busy /\ ~buffers[b].fenced

\* An import is asked for, answered once, and then the buffer is there, or it is not and
\* the program is to end.
ImportInv ==
    /\ Distinct(events, AnswerTypes)
    /\ compositor.asked \cap Of(events, AnswerTypes) = {}
    /\ \A b \in Pending : buffers[b].buffer # "none" /\ (options.immediate \/ buffers[b].buffer = "asked")
    /\ phase \in Early /\ running =>
          \A b \in Buffers :
              buffers[b].buffer \in {"none", "here"} \/ (~options.immediate /\ b \in Pending)
    /\ phase \in SetUp =>
          \A b \in Buffers : buffers[b].buffer \in {"none", IF options.immediate THEN "here" ELSE "asked"}
    /\ phase \in {"gl", "roundtrip"} => \A b \in Buffers : buffers[b].buffer # "none"
    /\ phase \in Shows => Pending = {} /\ \A b \in Buffers : buffers[b].buffer = "here"

\* The v4l sample frees a buffer with the answer to its import, the ion sample one that
\* was refused.
FreedWithAnswer ==
    IF program = "v4l" THEN {"here", "failed"} ELSE IF program = "ion" THEN {"failed"} ELSE {}

FreedInv ==
    /\ \A b \in Buffers : buffers[b].freed <= 2
    /\ phase \in SetUp => \A b \in Buffers : buffers[b].freed = 0
    /\ phase = "roundtrip" =>
          \A b \in Buffers : buffers[b].freed = IF buffers[b].buffer \in FreedWithAnswer THEN 1 ELSE 0
    /\ phase \in Shows => \A b \in Buffers : buffers[b].freed = IF program = "v4l" THEN 1 ELSE 0
    /\ FreedOnce

\* A busy buffer is with the compositor or on its way back, in one place, and what the
\* GPU may still read has its fence on the way or with the program.
ShownInv ==
    /\ Distinct(events, ReturnTypes)
    /\ compositor.held \cap Of(events, ReturnTypes) = {}
    /\ \A b \in Lent : buffers[b].busy
    /\ \A b \in Buffers : buffers[b].busy => ~buffers[b].fenced
    /\ \A b \in fence : buffers[b].fenced \/ b \in Of(events, FenceTypes)
    /\ \A b \in drawn : ~buffers[b].busy /\ ~buffers[b].fenced
    /\ phase \in Shows => \A b \in Buffers : buffers[b].busy => b \in Lent
    /\ program # "egl" => \A b \in Buffers : ~buffers[b].fenced

\* The camera of the v4l sample has every buffer the compositor does not have, until one
\* could not be queued.
QueueInv ==
    /\ program = "v4l" /\ running /\ phase \in Early \cup Shows =>
          \A b \in Buffers : buffers[b].buffer = "none" \/ buffers[b].busy \/ b \in drawn
    /\ StuckOnlyWhenAllAway
    /\ phase = "render" => Away # Buffers

IInv == TypeInv /\ EarlyInv /\ ImportInv /\ FreedInv /\ ShownInv /\ QueueInv

-----------------------------------------------------------------------------
(* The events, and the first of some buffers.                              *)

LEMMA OfNone == \A types : Of(<<>>, types) = {} /\ Distinct(<<>>, types)
BY DEF Of, Distinct

LEMMA OfAppend ==
  ASSUME NEW es \in Seq(Events), NEW e \in Events, NEW types
  PROVE  /\ Of(Append(es, e), types) = Of(es, types) \cup (IF e.type \in types THEN {e.buffer} ELSE {})
         /\ Distinct(es, types) /\ (e.type \in types => e.buffer \notin Of(es, types))
               => Distinct(Append(es, e), types)
<1> DEFINE new == Append(es, e)
<1>1. /\ Len(es) \in Nat
      /\ DOMAIN es = 1 .. Len(es)
      /\ DOMAIN new = 1 .. Len(es) + 1
      /\ new[Len(es) + 1] = e
      /\ \A i \in DOMAIN es : new[i] = es[i]
  OBVIOUS
<1>2. \A i \in DOMAIN new : i \in DOMAIN es \/ i = Len(es) + 1
  BY <1>1
<1>3. DOMAIN es \subseteq DOMAIN new /\ Len(es) + 1 \in DOMAIN new
  BY <1>1
<1> HIDE DEF new
<1>4. Of(new, types) = Of(es, types) \cup (IF e.type \in types THEN {e.buffer} ELSE {})
  <2>1. ASSUME NEW b \in Of(new, types)
        PROVE  b \in Of(es, types) \cup (IF e.type \in types THEN {e.buffer} ELSE {})
    BY <2>1, <1>1, <1>2, Zenon DEF Of
  <2>2. ASSUME NEW b \in Of(es, types) PROVE b \in Of(new, types)
    BY <2>2, <1>1, <1>3, Zenon DEF Of
  <2>3. e.type \in types => e.buffer \in Of(new, types)
    BY <1>1, <1>3, Zenon DEF Of
  <2>4. QED
    BY <2>1, <2>2, <2>3
<1>5. ASSUME Distinct(es, types), e.type \in types => e.buffer \notin Of(es, types)
      PROVE  Distinct(new, types)
  <2> SUFFICES ASSUME NEW i \in DOMAIN new, NEW j \in DOMAIN new,
                      new[i].type \in types, new[j].type \in types, new[i].buffer = new[j].buffer
               PROVE  i = j
    BY DEF Distinct
  <2>1. CASE i \in DOMAIN es /\ j \in DOMAIN es
    BY <2>1, <1>1, <1>5 DEF Distinct
  <2>2. CASE i \in DOMAIN es /\ j = Len(es) + 1
    <3>1. e.buffer \in Of(es, types)
      BY <2>2, <1>1, Zenon DEF Of
    <3>2. QED
      BY <3>1, <2>2, <1>1, <1>5
  <2>3. CASE i = Len(es) + 1 /\ j \in DOMAIN es
    <3>1. e.buffer \in Of(es, types)
      BY <2>3, <1>1, Zenon DEF Of
    <3>2. QED
      BY <3>1, <2>3, <1>1, <1>5
  <2>4. QED
    BY <2>1, <2>2, <2>3, <1>2
<1>6. QED
  BY <1>4, <1>5 DEF new

LEMMA OfTail ==
  ASSUME NEW es \in Seq(Events), es # <<>>, NEW types
  PROVE  /\ Head(es) \in Events
         /\ Tail(es) \in Seq(Events)
         /\ Of(Tail(es), types) \subseteq Of(es, types)
         /\ Head(es).type \in types => Head(es).buffer \in Of(es, types)
         /\ Head(es).type \notin types => Of(Tail(es), types) = Of(es, types)
         /\ Of(es, types) \subseteq Of(Tail(es), types) \cup {Head(es).buffer}
         /\ Distinct(es, types) => Distinct(Tail(es), types)
         /\ Distinct(es, types) /\ Head(es).type \in types
               => Of(Tail(es), types) = Of(es, types) \ {Head(es).buffer}
<1> DEFINE tail == Tail(es)
<1>1. Head(es) \in Events /\ tail \in Seq(Events) /\ Len(es) \in Nat \ {0}
  OBVIOUS
<1>2. /\ DOMAIN es = 1 .. Len(es)
      /\ Len(tail) = Len(es) - 1
      /\ DOMAIN tail = 1 .. Len(es) - 1
      /\ Head(es) = es[1]
  BY <1>1
<1>3. \A i \in DOMAIN tail : tail[i] = es[i + 1] /\ i + 1 \in DOMAIN es /\ i + 1 # 1
  BY <1>1, <1>2
<1>4. \A i \in DOMAIN es : i = 1 \/ (i - 1 \in DOMAIN tail /\ tail[i - 1] = es[i])
  BY <1>1, <1>2
<1>5. 1 \in DOMAIN es
  BY <1>1, <1>2
<1> HIDE DEF tail
<1>6. Of(tail, types) \subseteq Of(es, types)
  BY <1>3, Zenon DEF Of
<1>7. Head(es).type \in types => Head(es).buffer \in Of(es, types)
  BY <1>2, <1>5, Zenon DEF Of
<1>8. ASSUME NEW b \in Of(es, types)
      PROVE  b \in Of(tail, types) \/ (b = Head(es).buffer /\ Head(es).type \in types)
  <2>1. PICK i \in DOMAIN es : es[i].type \in types /\ es[i].buffer = b
    BY Zenon DEF Of
  <2>2. CASE i = 1
    BY <2>1, <2>2, <1>2
  <2>3. CASE i # 1
    <3>1. i - 1 \in DOMAIN tail /\ tail[i - 1] = es[i]
      BY <2>3, <1>4
    <3>2. QED
      BY <3>1, <2>1, Zenon DEF Of
  <2>4. QED
    BY <2>2, <2>3
<1>9. /\ Of(es, types) \subseteq Of(tail, types) \cup {Head(es).buffer}
      /\ Head(es).type \notin types => Of(es, types) \subseteq Of(tail, types)
  BY <1>8
<1>10. ASSUME Distinct(es, types) PROVE Distinct(tail, types)
  <2> SUFFICES ASSUME NEW i \in DOMAIN tail, NEW j \in DOMAIN tail,
                      tail[i].type \in types, tail[j].type \in types, tail[i].buffer = tail[j].buffer
               PROVE  i = j
    BY DEF Distinct
  <2>1. i + 1 = j + 1
    BY <1>10, <1>3 DEF Distinct
  <2>2. QED
    BY <2>1, <1>2, <1>1
<1>11. ASSUME Distinct(es, types), Head(es).type \in types PROVE Head(es).buffer \notin Of(tail, types)
  <2> SUFFICES ASSUME NEW i \in DOMAIN tail, tail[i].type \in types, tail[i].buffer = Head(es).buffer
               PROVE  FALSE
    BY Zenon DEF Of
  <2>1. QED
    BY <1>11, <1>2, <1>3, <1>5 DEF Distinct
<1>12. QED
  BY <1>1, <1>6, <1>7, <1>9, <1>10, <1>11 DEF tail

\* The least element of some buffers is one of them.
LEMMA Least ==
  ASSUME NEW S \in SUBSET Buffers, S # {}
  PROVE  (CHOOSE b \in S : \A c \in S : b <= c) \in S
<1> DEFINE Below(b) == 0 .. b
           T == {Below(b) : b \in S}
<1>1. S \subseteq Nat
  BY DmabufAssumption DEF Buffers
<1>2. T \subseteq FiniteSubsetsOf(Nat)
  <2>1. \A b \in S : Below(b) \in SUBSET Nat /\ IsFiniteSet(Below(b))
    BY <1>1, FS_Interval
  <2>2. QED
    BY <2>1, Zenon DEF FiniteSubsetsOf
<1>3. T # {}
  OBVIOUS
<1>4. PICK x \in T : \A y \in T : ~ (<<y, x>> \in StrictSubsetOrdering(Nat))
  <2> HIDE DEF T
  <2>1. QED
    BY <1>2, <1>3, FS_StrictSubsetOrderingWellFounded, WFMin
<1>5. PICK m \in S : x = Below(m)
  BY <1>4
<1>6. \A c \in S : m <= c
  <2> SUFFICES ASSUME NEW c \in S, c < m PROVE FALSE
    BY <1>1
  <2>1. Below(c) \in SUBSET Nat /\ Below(m) \in SUBSET Nat /\ Below(c) \subseteq Below(m)
    BY <1>1
  <2>2. m \in Below(m) /\ m \notin Below(c)
    BY <1>1
  <2>3. Below(c) \in T
    OBVIOUS
  <2> HIDE DEF Below, T
  <2>4. QED
    BY <2>1, <2>2, <2>3, <1>4, <1>5 DEF StrictSubsetOrdering
<1>7. QED
  BY <1>6

-----------------------------------------------------------------------------
LEMMA InitIInv == Init => IInv
<1> SUFFICES ASSUME Init PROVE IInv
  OBVIOUS
<1> USE DEF Init, Unconnected
<1>1. events \in Seq(Events)
  OBVIOUS
<1>2. TypeInv
  BY <1>1 DEF TypeInv, Record, Side, Programs, SetUp, Shows
<1>3. \A types : Of(events, types) = {} /\ Distinct(events, types)
  BY OfNone
<1>4. Pending = {} /\ Lent = {}
  BY <1>3 DEF Pending, Lent
<1>5. EarlyInv
  BY <1>3 DEF EarlyInv
<1>6. ImportInv
  BY <1>3, <1>4 DEF ImportInv, Shows
<1>7. FreedInv
  BY DEF FreedInv, FreedOnce, Shows
<1>8. ShownInv
  BY <1>3, <1>4 DEF ShownInv, Shows
<1>9. QueueInv
  BY DEF QueueInv, StuckOnlyWhenAllAway, Away, Shows
<1>10. QED
  BY <1>2, <1>5, <1>6, <1>7, <1>8, <1>9 DEF IInv

LEMMA Known == ASSUME TypeInv PROVE Pending \subseteq Buffers /\ Lent \subseteq Buffers
<1>1. \A types : Of(events, types) \subseteq Buffers
  <2> SUFFICES ASSUME NEW i \in DOMAIN events PROVE events[i].buffer \in Buffers
    BY Zenon DEF Of
  <2>1. events[i] \in Events
    BY DEF TypeInv
  <2>2. QED
    BY <2>1 DEF Events
<1>2. QED
  BY <1>1 DEF Pending, Lent, TypeInv, Side

LEMMA ReturningOf == Returning = Of(events, ReturnTypes)
BY Zenon DEF Returning, Of, ReturnTypes

\* The four sets of events the invariant looks at.
SameEvents ==
    /\ Of(events, AnswerTypes)' = Of(events, AnswerTypes)
    /\ Of(events, ReturnTypes)' = Of(events, ReturnTypes)
    /\ Of(events, FenceTypes)' = Of(events, FenceTypes)
    /\ Of(events, LaterTypes)' = Of(events, LaterTypes)

StayDistinct ==
    /\ events' \in Seq(Events)
    /\ Distinct(events, AnswerTypes)'
    /\ Distinct(events, ReturnTypes)'

\* What a step without consequence for the invariant may do.
LEMMA Frame ==
  ASSUME IInv, SameEvents, StayDistinct,
         UNCHANGED <<program, options, phase, running, buffers, drawn>>,
         fence' \subseteq fence,
         compositor' \in Side,
         compositor'.asked = compositor.asked,
         compositor'.held = compositor.held,
         compositor'.owes => compositor.owes,
         window' \in [initialized : BOOLEAN, waiting : BOOLEAN],
         window'.initialized = window.initialized
  PROVE  IInv'
<1> USE DEF IInv
<1>1. Pending' = Pending /\ Lent' = Lent
  BY DEF Pending, Lent, SameEvents
<1>2. TypeInv'
  BY DEF TypeInv, Record, Side, StayDistinct
<1>3. EarlyInv'
  BY DEF EarlyInv, SameEvents, TypeInv, Record, Side
<1>4. ImportInv'
  BY <1>1 DEF ImportInv, StayDistinct, SameEvents
<1>5. FreedInv'
  BY DEF FreedInv, FreedOnce, FreedWithAnswer
<1>6. ShownInv'
  BY <1>1 DEF ShownInv, StayDistinct, SameEvents
<1>7. QueueInv'
  <2>1. Returning' = Of(events, ReturnTypes)'
    BY Zenon DEF Returning, Of, ReturnTypes
  <2>2. Returning' = Returning
    BY <2>1, ReturningOf DEF SameEvents
  <2>3. QED
    BY <2>2 DEF QueueInv, StuckOnlyWhenAllAway, Away
<1>8. QED
  BY <1>2, <1>3, <1>4, <1>5, <1>6, <1>7

\* An event is sent: what it adds to the four sets.
LEMMA Sent ==
  ASSUME TypeInv, NEW t \in Types, NEW b \in Buffers, Send(Event(t, b))
  PROVE  /\ events' \in Seq(Events)
         /\ ~compositor.gone
         /\ \A types : /\ Of(events', types) = Of(events, types) \cup (IF t \in types THEN {b} ELSE {})
                       /\ Distinct(events, types) /\ (t \in types => b \notin Of(events, types))
                             => Distinct(events', types)
<1> DEFINE e == Event(t, b)
<1>1. e \in Events /\ e.type = t /\ e.buffer = b
  BY DEF Event, Events
<1>2. events \in Seq(Events) /\ events' = Append(events, e) /\ ~compositor.gone
  BY DEF TypeInv, Record, Side, Send
<1> HIDE DEF e
<1>3. events' \in Seq(Events)
  BY <1>1, <1>2
<1>4. QED
  BY <1>1, <1>2, <1>3, OfAppend

\* The first event is taken: what that takes from the four sets.
LEMMA Taken ==
  ASSUME TypeInv, NEW t \in Types, Dispatches(t)
  PROVE  /\ events' \in Seq(Events)
         /\ Head(events).buffer \in Buffers
         /\ \A types : /\ Of(events', types) \subseteq Of(events, types)
                       /\ t \in types => Head(events).buffer \in Of(events, types)
                       /\ t \notin types => Of(events', types) = Of(events, types)
                       /\ Distinct(events, types) => Distinct(events', types)
                       /\ Distinct(events, types) /\ t \in types
                             => Of(events', types) = Of(events, types) \ {Head(events).buffer}
<1>1. events \in Seq(Events) /\ events # <<>> /\ Head(events).type = t /\ events' = Tail(events)
  BY DEF TypeInv, Record, Side, Dispatches
<1>2. Head(events) \in Events /\ Tail(events) \in Seq(Events)
  BY <1>1
<1>3. Head(events).buffer \in Buffers
  BY <1>2 DEF Events
<1>4. QED
  BY <1>1, <1>2, <1>3, OfTail

\* An event that says nothing of a buffer.
LEMMA NeutralSent ==
  ASSUME IInv, NEW t \in {"configure", "close", "key"}, NEW b \in Buffers, Send(Event(t, b))
  PROVE  SameEvents /\ StayDistinct
<1> USE DEF IInv
<1>1. t \in Types /\ t \notin AnswerTypes /\ t \notin ReturnTypes /\ t \notin FenceTypes /\ t \notin LaterTypes
  BY DEF Types, AnswerTypes, ReturnTypes, FenceTypes, LaterTypes
<1>2. Distinct(events, AnswerTypes) /\ Distinct(events, ReturnTypes)
  BY DEF ImportInv, ShownInv
<1>3. /\ events' \in Seq(Events)
      /\ \A types : t \notin types =>
            /\ Of(events', types) = Of(events, types)
            /\ Distinct(events, types) => Distinct(events', types)
  <2>1. TypeInv
    OBVIOUS
  <2> HIDE DEF IInv
  <2>2. QED
    BY <2>1, <1>1, Sent
<1>4. QED
  BY <1>1, <1>2, <1>3 DEF SameEvents, StayDistinct

LEMMA NeutralTaken ==
  ASSUME IInv, NEW t \in {"configure", "close", "key"}, Dispatches(t)
  PROVE  SameEvents /\ StayDistinct
<1> USE DEF IInv
<1>1. t \in Types /\ t \notin AnswerTypes /\ t \notin ReturnTypes /\ t \notin FenceTypes /\ t \notin LaterTypes
  BY DEF Types, AnswerTypes, ReturnTypes, FenceTypes, LaterTypes
<1>2. Distinct(events, AnswerTypes) /\ Distinct(events, ReturnTypes)
  BY DEF ImportInv, ShownInv
<1>3. QED
  BY <1>1, <1>2, Taken DEF SameEvents, StayDistinct

-----------------------------------------------------------------------------
(* The compositor and the GPU.                                             *)

LEMMA AnswerStep == ASSUME IInv, Answer PROVE IInv'
<1> USE DEF IInv
<1> DEFINE b == CHOOSE b \in compositor.asked : \A c \in compositor.asked : b <= c
<1>1. compositor.asked \in SUBSET Buffers /\ compositor.asked # {}
  BY DEF TypeInv, Record, Side, Answer
<1>2. b \in compositor.asked /\ b \in Buffers
  BY <1>1, Least
<1>3. /\ compositor' = [compositor EXCEPT !.asked = @ \ {b}]
      /\ \/ Send(Event("failed", b))
         \/ ~options.immediate /\ Send(Event("created", b))
         \/ options.immediate /\ UNCHANGED events
      /\ UNCHANGED <<program, options, shell, phase, running, window, buffers, drawn, fence>>
  BY Zenon DEF Answer, setup
<1> HIDE DEF b
<1>4. /\ compositor'.asked = compositor.asked \ {b}
      /\ compositor'.held = compositor.held
      /\ compositor'.owes = compositor.owes
      /\ compositor' \in Side
  BY <1>1, <1>3 DEF TypeInv, Record, Side
<1>5. /\ events' \in Seq(Events)
      /\ \/ Of(events', AnswerTypes) = Of(events, AnswerTypes) \cup {b}
         \/ options.immediate /\ Of(events', AnswerTypes) = Of(events, AnswerTypes)
      /\ Distinct(events', AnswerTypes)
      /\ Of(events', ReturnTypes) = Of(events, ReturnTypes)
      /\ Distinct(events', ReturnTypes)
      /\ Of(events', FenceTypes) = Of(events, FenceTypes)
      /\ Of(events', LaterTypes) = Of(events, LaterTypes)
  <2>1. Distinct(events, AnswerTypes) /\ Distinct(events, ReturnTypes) /\ b \notin Of(events, AnswerTypes)
    BY <1>2 DEF ImportInv, ShownInv
  <2>2. CASE options.immediate /\ UNCHANGED events
    BY <2>1, <2>2 DEF TypeInv, Record, Side
  <2>3. ASSUME NEW t \in {"failed", "created"}, Send(Event(t, b))
        PROVE  /\ events' \in Seq(Events)
               /\ Of(events', AnswerTypes) = Of(events, AnswerTypes) \cup {b}
               /\ Distinct(events', AnswerTypes)
               /\ Of(events', ReturnTypes) = Of(events, ReturnTypes)
               /\ Distinct(events', ReturnTypes)
               /\ Of(events', FenceTypes) = Of(events, FenceTypes)
               /\ Of(events', LaterTypes) = Of(events, LaterTypes)
    <3>1. t \in Types /\ t \in AnswerTypes /\ t \notin ReturnTypes /\ t \notin FenceTypes /\ t \notin LaterTypes
      BY DEF Types, AnswerTypes, ReturnTypes, FenceTypes, LaterTypes
    <3>2. TypeInv
      OBVIOUS
    <3> HIDE DEF IInv
    <3>3. /\ events' \in Seq(Events)
          /\ \A types : /\ Of(events', types) = Of(events, types) \cup (IF t \in types THEN {b} ELSE {})
                        /\ Distinct(events, types) /\ (t \in types => b \notin Of(events, types))
                              => Distinct(events', types)
      BY <2>3, <3>1, <3>2, <1>2, Sent
    <3>4. QED
      BY <2>1, <3>1, <3>3
  <2>4. QED
    BY <1>3, <2>2, <2>3
<1>6. /\ Pending' \subseteq Pending
      /\ ~options.immediate => Pending' = Pending
      /\ Lent' = Lent
  BY <1>2, <1>4, <1>5 DEF Pending, Lent
<1>7. b \in Pending
  BY <1>2 DEF Pending
<1>8. TypeInv'
  BY <1>3, <1>4, <1>5 DEF TypeInv, Record, Side
<1>9. EarlyInv'
  BY <1>3, <1>4, <1>5 DEF EarlyInv
<1>10. ImportInv'
  BY <1>2, <1>3, <1>4, <1>5, <1>6, <1>7 DEF ImportInv
<1>11. FreedInv'
  BY <1>3 DEF FreedInv, FreedOnce, FreedWithAnswer
<1>12. ShownInv'
  BY <1>3, <1>4, <1>5, <1>6 DEF ShownInv
<1>13. QueueInv'
  <2>1. Returning' = Of(events', ReturnTypes)
    BY Zenon DEF Returning, Of, ReturnTypes
  <2>2. Returning' = Returning
    BY <2>1, <1>5, ReturningOf
  <2>3. QED
    BY <1>3, <1>4, <2>2 DEF QueueInv, StuckOnlyWhenAllAway, Away
<1>14. QED
  BY <1>8, <1>9, <1>10, <1>11, <1>12, <1>13

LEMMA ConfigureStep == ASSUME IInv, Configure PROVE IInv'
<1>1. TypeInv /\ 0 \in Buffers
  BY DmabufAssumption DEF IInv, Buffers
<1>2. SameEvents /\ StayDistinct
  <2>1. Send(Event("configure", 0))
    BY DEF Configure
  <2>2. QED
    BY <1>1, <2>1, NeutralSent
<1>3. /\ compositor' = [compositor EXCEPT !.configures = @ + 1]
      /\ UNCHANGED <<program, options, phase, running, window, buffers, drawn, fence>>
  BY Zenon DEF Configure, setup
<1>4. compositor \in Side /\ window \in [initialized : BOOLEAN, waiting : BOOLEAN]
  BY <1>1 DEF TypeInv
<1>5. /\ compositor' \in Side
      /\ compositor'.asked = compositor.asked
      /\ compositor'.held = compositor.held
      /\ compositor'.owes = compositor.owes
  <2>1. compositor.configures + 1 \in Nat
    BY <1>4 DEF Side
  <2>2. QED
    BY <1>3, <1>4, <2>1 DEF Side
<1>6. QED
  BY <1>2, <1>3, <1>4, <1>5, Frame

LEMMA CloseStep == ASSUME IInv, Close PROVE IInv'
<1>1. TypeInv /\ 0 \in Buffers
  BY DmabufAssumption DEF IInv, Buffers
<1>2. SameEvents /\ StayDistinct
  <2>1. Send(Event("close", 0)) \/ Send(Event("key", 0))
    BY DEF Close
  <2>2. QED
    BY <1>1, <2>1, NeutralSent
<1>3. UNCHANGED <<program, options, phase, running, window, buffers, compositor, drawn, fence>>
  BY Zenon DEF Close, setup
<1>4. QED
  BY <1>1, <1>2, <1>3, Frame DEF TypeInv, Record, Side

\* The events are not touched at all.
LEMMA EventsKept == ASSUME IInv, UNCHANGED events PROVE SameEvents /\ StayDistinct
BY DEF IInv, TypeInv, Record, Side, ImportInv, ShownInv, SameEvents, StayDistinct

LEMMA VanishStep == ASSUME IInv, Vanish PROVE IInv'
<1>1. SameEvents /\ StayDistinct
  BY EventsKept DEF Vanish
<1>2. /\ compositor' = [compositor EXCEPT !.gone = TRUE]
      /\ UNCHANGED <<program, options, phase, running, window, buffers, drawn, fence>>
  BY Zenon DEF Vanish, setup
<1>3. TypeInv
  BY DEF IInv
<1>4. QED
  BY <1>1, <1>2, <1>3, Frame DEF TypeInv, Record, Side

LEMMA SignalStep == ASSUME IInv, Signal PROVE IInv'
<1>1. SameEvents /\ StayDistinct
  BY EventsKept DEF Signal
<1>2. /\ fence' \subseteq fence
      /\ UNCHANGED <<program, options, phase, running, window, buffers, compositor, drawn>>
  BY DEF Signal, setup
<1>3. /\ compositor \in Side
      /\ window \in [initialized : BOOLEAN, waiting : BOOLEAN]
  BY DEF IInv, TypeInv, Record, Side
<1>4. QED
  BY <1>1, <1>2, <1>3, Frame

LEMMA StutterStep == ASSUME IInv, UNCHANGED vars PROVE IInv'
<1>1. UNCHANGED <<program, options, phase, running, window, buffers, compositor, events, drawn, fence>>
  BY Zenon DEF vars
<1>2. SameEvents /\ StayDistinct
  BY <1>1, EventsKept
<1>3. TypeInv
  BY DEF IInv
<1>4. QED
  BY <1>1, <1>2, <1>3, Frame DEF TypeInv, Record, Side

LEMMA FrameDoneStep == ASSUME IInv, FrameDone PROVE IInv'
<1> USE DEF IInv
<1>1. 0 \in Buffers
  BY DmabufAssumption DEF Buffers
<1>2. /\ compositor' = [compositor EXCEPT !.owes = FALSE]
      /\ UNCHANGED <<program, options, shell, phase, running, window, buffers, drawn, fence>>
      /\ Send(Event("done", 0))
      /\ phase \notin Early
  BY Zenon DEF FrameDone, setup, EarlyInv
<1>3. /\ compositor'.asked = compositor.asked
      /\ compositor'.held = compositor.held
      /\ compositor' \in Side
  BY <1>2 DEF TypeInv, Record, Side
<1>4. "done" \in Types /\ "done" \notin AnswerTypes /\ "done" \notin ReturnTypes /\ "done" \notin FenceTypes
  BY DEF Types, AnswerTypes, ReturnTypes, FenceTypes
<1>5. /\ events' \in Seq(Events)
      /\ \A types : "done" \notin types =>
            /\ Of(events', types) = Of(events, types)
            /\ Distinct(events, types) => Distinct(events', types)
  <2>1. TypeInv
    OBVIOUS
  <2> HIDE DEF IInv
  <2>2. QED
    BY <2>1, <1>1, <1>2, <1>4, Sent
<1>6. Pending' = Pending /\ Lent' = Lent
  BY <1>3, <1>4, <1>5 DEF Pending, Lent
<1>7. TypeInv'
  BY <1>2, <1>3, <1>5 DEF TypeInv, Record, Side
<1>8. EarlyInv'
  BY <1>2 DEF EarlyInv
<1>9. ImportInv'
  BY <1>2, <1>3, <1>4, <1>5, <1>6 DEF ImportInv
<1>10. FreedInv'
  BY <1>2 DEF FreedInv, FreedOnce, FreedWithAnswer
<1>11. ShownInv'
  BY <1>2, <1>3, <1>4, <1>5, <1>6 DEF ShownInv
<1>12. QueueInv'
  <2>1. Returning' = Of(events', ReturnTypes)
    BY Zenon DEF Returning, Of, ReturnTypes
  <2>2. Returning' = Returning
    BY <2>1, <1>4, <1>5, ReturningOf
  <2>3. QED
    BY <1>2, <1>3, <2>2 DEF QueueInv, StuckOnlyWhenAllAway, Away
<1>13. QED
  BY <1>7, <1>8, <1>9, <1>10, <1>11, <1>12

LEMMA ReleaseStep == ASSUME IInv, Release PROVE IInv'
<1> USE DEF IInv
<1>1. PICK b \in compositor.held :
        /\ compositor' = [compositor EXCEPT !.held = @ \ {b}]
        /\ \/ Send(Event("release", b)) /\ UNCHANGED fence
           \/ options.sync /\ Send(Event("fenced", b)) /\ fence' = fence \cup {b}
        /\ UNCHANGED <<program, options, shell, phase, running, window, buffers, drawn>>
  BY Zenon DEF Release, setup
<1>2. b \in Buffers /\ phase \notin Early
  BY DEF TypeInv, Record, Side, EarlyInv
<1>3. /\ compositor'.asked = compositor.asked
      /\ compositor'.held = compositor.held \ {b}
      /\ compositor'.owes = compositor.owes
      /\ compositor' \in Side
  BY <1>1 DEF TypeInv, Record, Side
<1>4. Distinct(events, AnswerTypes) /\ Distinct(events, ReturnTypes) /\ b \notin Of(events, ReturnTypes)
  BY DEF ImportInv, ShownInv
<1>5. ASSUME NEW t \in {"release", "fenced"}, Send(Event(t, b))
      PROVE  /\ events' \in Seq(Events)
             /\ Of(events', AnswerTypes) = Of(events, AnswerTypes)
             /\ Distinct(events', AnswerTypes)
             /\ Of(events', ReturnTypes) = Of(events, ReturnTypes) \cup {b}
             /\ Distinct(events', ReturnTypes)
             /\ Of(events', FenceTypes) = Of(events, FenceTypes) \cup (IF t = "fenced" THEN {b} ELSE {})
  <2>1. t \in Types /\ t \notin AnswerTypes /\ t \in ReturnTypes /\ (t \in FenceTypes <=> t = "fenced")
    BY DEF Types, AnswerTypes, ReturnTypes, FenceTypes
  <2>2. TypeInv
    OBVIOUS
  <2> HIDE DEF IInv
  <2>3. /\ events' \in Seq(Events)
        /\ \A types : /\ Of(events', types) = Of(events, types) \cup (IF t \in types THEN {b} ELSE {})
                      /\ Distinct(events, types) /\ (t \in types => b \notin Of(events, types))
                            => Distinct(events', types)
    BY <2>1, <2>2, <1>2, <1>5, Sent
  <2>4. QED
    BY <2>1, <2>3, <1>4
<1>6. /\ events' \in Seq(Events)
      /\ Of(events', AnswerTypes) = Of(events, AnswerTypes)
      /\ Distinct(events', AnswerTypes)
      /\ Of(events', ReturnTypes) = Of(events, ReturnTypes) \cup {b}
      /\ Distinct(events', ReturnTypes)
      /\ Of(events, FenceTypes) \subseteq Of(events', FenceTypes)
      /\ fence' \in SUBSET (fence \cup {b})
      /\ b \in fence' => b \in Of(events', FenceTypes) \/ b \in fence
  BY <1>1, <1>5
<1>7. Pending' = Pending /\ Lent' = Lent
  BY <1>3, <1>6 DEF Pending, Lent
<1>8. TypeInv'
  BY <1>1, <1>2, <1>3, <1>6 DEF TypeInv, Record, Side
<1>9. EarlyInv'
  BY <1>1, <1>2 DEF EarlyInv
<1>10. ImportInv'
  BY <1>1, <1>3, <1>6, <1>7 DEF ImportInv
<1>11. FreedInv'
  BY <1>1 DEF FreedInv, FreedOnce, FreedWithAnswer
<1>12. ShownInv'
  BY <1>1, <1>3, <1>6, <1>7 DEF ShownInv
<1>13. QueueInv'
  <2>1. Returning' = Of(events', ReturnTypes)
    BY Zenon DEF Returning, Of, ReturnTypes
  <2>2. compositor'.held \cup Returning' = compositor.held \cup Returning
    BY <2>1, <1>3, <1>6, ReturningOf
  <2>3. QED
    BY <1>1, <2>2 DEF QueueInv, StuckOnlyWhenAllAway, Away
<1>14. QED
  BY <1>8, <1>9, <1>10, <1>11, <1>12, <1>13

LEMMA OutsideStep == ASSUME IInv, Outside PROVE IInv'
BY AnswerStep, ConfigureStep, FrameDoneStep, ReleaseStep, CloseStep, VanishStep, SignalStep DEF Outside

-----------------------------------------------------------------------------
(* The steps the programs share.                                           *)

LEMMA ProceedsStep ==
  ASSUME IInv,
         NEW from \in {"start", "window", "connect", "format"},
         NEW to \in {"window", "connect", "format", "buffers"},
         NEW can,
         to \in {"connect", "format"} => program = "v4l",
         Proceeds(from, to, can),
         options' \in [immediate : BOOLEAN, sync : BOOLEAN],
         options'.immediate = options.immediate,
         window' \in [initialized : BOOLEAN, waiting : BOOLEAN],
         window'.initialized = window.initialized
  PROVE  IInv'
<1> USE DEF IInv
<1>1. /\ phase = from
      /\ phase' = to \/ phase' = "failed"
      /\ UNCHANGED <<program, running, buffers, compositor, events, drawn, fence>>
  BY DEF Proceeds
<1>2. SameEvents /\ StayDistinct
  BY <1>1, EventsKept
<1>3. Pending' = Pending /\ Lent' = Lent
  BY <1>1, <1>2 DEF Pending, Lent, SameEvents
<1>4. TypeInv'
  BY <1>1 DEF TypeInv, Record, Side, SetUp
<1>5. EarlyInv'
  BY <1>1, <1>2 DEF EarlyInv, SameEvents, Early, SetUp
<1>6. ImportInv'
  BY <1>1, <1>2, <1>3 DEF ImportInv, StayDistinct, SameEvents, Early, SetUp, Shows
<1>7. FreedInv'
  BY <1>1 DEF FreedInv, FreedOnce, SetUp, Shows
<1>8. ShownInv'
  BY <1>1, <1>2, <1>3 DEF ShownInv, StayDistinct, SameEvents, Shows
<1>9. QueueInv'
  BY <1>1 DEF QueueInv, StuckOnlyWhenAllAway, Away, Early, SetUp, Shows
<1>10. QED
  BY <1>4, <1>5, <1>6, <1>7, <1>8, <1>9

LEMMA OpensStep ==
  ASSUME IInv, NEW to \in {"connect", "buffers"}, to = "connect" => program = "v4l", Opens(to)
  PROVE  IInv'
<1>1. /\ Proceeds("window", to, shell # "none")
      /\ window' = [window EXCEPT !.waiting = (shell = "xdg")]
      /\ options' = options
  BY Zenon DEF Opens
<1>2. options \in [immediate : BOOLEAN, sync : BOOLEAN] /\ window \in [initialized : BOOLEAN, waiting : BOOLEAN]
  BY DEF IInv, TypeInv, Record, Side
<1>3. (shell = "xdg") \in BOOLEAN
  BY Zenon
<1> DEFINE waits == shell = "xdg"
<1> HIDE DEF waits
<1>4. window' = [window EXCEPT !.waiting = waits] /\ waits \in BOOLEAN
  BY <1>1, <1>3, Zenon DEF waits
<1>5. window' \in [initialized : BOOLEAN, waiting : BOOLEAN] /\ window'.initialized = window.initialized
  BY <1>2, <1>4
<1>6. QED
  BY <1>1, <1>2, <1>5, ProceedsStep

LEMMA SetsStep ==
  ASSUME IInv, NEW t \in {"close", "key"}, NEW value, Sets(t, value)
  PROVE  IInv'
<1> USE DEF IInv
<1>1. /\ Dispatches(t)
      /\ running' => running
      /\ running' \in BOOLEAN
      /\ UNCHANGED <<phase, window, buffers, compositor, drawn, fence>>
  BY Zenon DEF Sets
<1>2. UNCHANGED <<program, options>>
  BY <1>1 DEF Dispatches, setup
<1>3. SameEvents /\ StayDistinct
  BY <1>1, NeutralTaken
<1>4. Pending' = Pending /\ Lent' = Lent
  BY <1>1, <1>3 DEF Pending, Lent, SameEvents
<1>5. TypeInv'
  BY <1>1, <1>2, <1>3 DEF TypeInv, Record, Side, StayDistinct
<1>6. EarlyInv'
  BY <1>1, <1>3 DEF EarlyInv, SameEvents
<1>7. ImportInv'
  BY <1>1, <1>2, <1>3, <1>4 DEF ImportInv, StayDistinct, SameEvents
<1>8. FreedInv'
  BY <1>1, <1>2 DEF FreedInv, FreedOnce, FreedWithAnswer
<1>9. ShownInv'
  BY <1>1, <1>2, <1>3, <1>4 DEF ShownInv, StayDistinct, SameEvents
<1>10. QueueInv'
  <2>1. Returning' = Of(events, ReturnTypes)'
    BY Zenon DEF Returning, Of, ReturnTypes
  <2>2. Returning' = Returning
    BY <2>1, <1>3, ReturningOf DEF SameEvents
  <2>3. QED
    BY <1>1, <1>2, <2>2 DEF QueueInv, StuckOnlyWhenAllAway, Away
<1>11. QED
  BY <1>5, <1>6, <1>7, <1>8, <1>9, <1>10

LEMMA SigIntStep == ASSUME IInv, SigInt PROVE IInv'
<1> USE DEF IInv
<1>1. /\ running' = FALSE
      /\ UNCHANGED <<program, options, phase, window, buffers, compositor, events, drawn, fence>>
  BY DEF SigInt, setup
<1>2. SameEvents /\ StayDistinct
  BY <1>1, EventsKept
<1>3. Pending' = Pending /\ Lent' = Lent /\ Returning' = Returning
  BY <1>1 DEF Pending, Lent, Returning
<1>4. TypeInv'
  BY <1>1 DEF TypeInv, Record, Side
<1>5. EarlyInv'
  BY <1>1 DEF EarlyInv
<1>6. ImportInv'
  BY <1>1, <1>2, <1>3 DEF ImportInv, StayDistinct
<1>7. FreedInv'
  BY <1>1 DEF FreedInv, FreedOnce, FreedWithAnswer
<1>8. ShownInv'
  BY <1>1, <1>2, <1>3 DEF ShownInv, StayDistinct
<1>9. QueueInv'
  BY <1>1, <1>3 DEF QueueInv, StuckOnlyWhenAllAway, Away
<1>10. QED
  BY <1>4, <1>5, <1>6, <1>7, <1>8, <1>9

LEMMA FailsStep == ASSUME IInv, Fails PROVE IInv'
<1> USE DEF IInv
<1>1. /\ phase = "roundtrip"
      /\ phase' = "failed"
      /\ UNCHANGED <<program, options, running, window, buffers, compositor, events, drawn, fence>>
  BY DEF Fails, Answered, setup, Others
<1>2. SameEvents /\ StayDistinct
  BY <1>1, EventsKept
<1>3. Pending' = Pending /\ Lent' = Lent /\ Returning' = Returning
  BY <1>1 DEF Pending, Lent, Returning
<1>4. TypeInv'
  BY <1>1 DEF TypeInv, Record, Side
<1>5. EarlyInv'
  BY <1>1 DEF EarlyInv, Early, SetUp
<1>6. ImportInv'
  BY <1>1, <1>2, <1>3 DEF ImportInv, StayDistinct, Early, SetUp, Shows
<1>7. FreedInv'
  BY <1>1 DEF FreedInv, FreedOnce, SetUp, Shows
<1>8. ShownInv'
  BY <1>1, <1>2, <1>3 DEF ShownInv, StayDistinct, Shows
<1>9. QueueInv'
  BY <1>1 DEF QueueInv, StuckOnlyWhenAllAway, Away, Early, SetUp, Shows
<1>10. QED
  BY <1>4, <1>5, <1>6, <1>7, <1>8, <1>9

LEMMA LeaveStep == ASSUME IInv, Leave PROVE IInv'
<1> USE DEF IInv
<1>1. /\ phase = "loop"
      /\ phase' = "ended"
      /\ buffers' = Freed
      /\ drawn' = {}
      /\ events' = <<>>
      /\ compositor' = Unconnected
      /\ fence' = {}
      /\ UNCHANGED <<program, options, running, window>>
  BY DEF Leave, setup
<1>2. /\ \A b \in Buffers : /\ buffers'[b].buffer = buffers[b].buffer
                            /\ buffers'[b].busy = buffers[b].busy
                            /\ buffers'[b].fenced = buffers[b].fenced
                            /\ buffers'[b].freed = buffers[b].freed + 1
      /\ buffers' \in [Buffers -> Record]
  <2>1. /\ DOMAIN buffers' = Buffers
        /\ \A b \in Buffers : buffers[b] \in Record /\ buffers[b].buffer = "here"
    BY <1>1 DEF Freed, TypeInv, ImportInv, Shows
  <2>2. \A b \in Buffers : buffers'[b] = [buffers[b] EXCEPT !.freed = @ + 1]
    BY <1>1, <2>1, Zenon DEF Freed
  <2>3. \A b \in Buffers : /\ buffers'[b].buffer = buffers[b].buffer
                           /\ buffers'[b].busy = buffers[b].busy
                           /\ buffers'[b].fenced = buffers[b].fenced
                           /\ buffers'[b].freed = buffers[b].freed + 1
                           /\ buffers'[b] \in Record
    BY <2>1, <2>2 DEF Record
  <2>4. buffers' = [b \in Buffers |-> buffers'[b]]
    BY <1>1, Zenon DEF Freed
  <2>5. QED
    BY <2>3, <2>4
<1>3. \A types : Of(events', types) = {} /\ Distinct(events', types)
  BY <1>1, OfNone
<1>4. Pending' = {} /\ Lent' = {}
  BY <1>1, <1>3 DEF Pending, Lent, Unconnected
<1>5. TypeInv'
  BY <1>1, <1>2 DEF TypeInv, Record, Side, Unconnected
<1>6. EarlyInv'
  BY <1>1 DEF EarlyInv, Early, SetUp
<1>7. ImportInv'
  BY <1>1, <1>3, <1>4 DEF ImportInv, Early, SetUp, Shows, Unconnected
<1>8. FreedInv'
  BY <1>1, <1>2 DEF FreedInv, FreedOnce, SetUp, Shows
<1>9. ShownInv'
  BY <1>1, <1>2, <1>3, <1>4 DEF ShownInv, Shows, Unconnected
<1>10. QueueInv'
  BY <1>1 DEF QueueInv, StuckOnlyWhenAllAway, Away, Early, SetUp, Shows
<1>11. QED
  BY <1>5, <1>6, <1>7, <1>8, <1>9, <1>10

\* The only events a program knows in its roundtrip are answers and configures, and
\* there are no answers behind it.
LEMMA AnswersStep ==
  ASSUME IInv,
         NEW t, NEW outcome, NEW freed \in {0, 1},
         <<t, outcome>> \in {<<"created", "here">>, <<"failed", "failed">>},
         freed = 1 <=> outcome \in FreedWithAnswer,
         Answers(t, outcome, freed)
  PROVE  IInv'
<1> USE DEF IInv
<1> DEFINE b == Head(events).buffer
<1>0. outcome \in {"here", "failed"} /\ (t = "created" <=> outcome = "here")
  OBVIOUS
<1>1. t \in AnswerTypes /\ t \in Types /\ t \notin ReturnTypes /\ t \notin FenceTypes /\ t \notin LaterTypes
  BY DEF AnswerTypes, Types, ReturnTypes, FenceTypes, LaterTypes
<1>2. /\ Dispatches(t)
      /\ buffers' = [buffers EXCEPT ![b].buffer = outcome, ![b].freed = @ + freed]
      /\ running' => running /\ t = "created"
      /\ running' \in BOOLEAN
      /\ UNCHANGED <<phase, window, compositor, drawn, fence>>
  BY Zenon DEF Answers
<1>3. phase \in {"roundtrip", "loop"} /\ UNCHANGED <<program, options>>
  BY <1>2 DEF Dispatches, setup
<1>4. /\ events' \in Seq(Events)
      /\ b \in Buffers
      /\ b \in Of(events, AnswerTypes)
      /\ Of(events', AnswerTypes) = Of(events, AnswerTypes) \ {b}
      /\ Distinct(events', AnswerTypes)
      /\ Of(events', ReturnTypes) = Of(events, ReturnTypes)
      /\ Distinct(events', ReturnTypes)
      /\ Of(events', FenceTypes) = Of(events, FenceTypes)
      /\ Of(events', LaterTypes) = Of(events, LaterTypes)
  <2>1. TypeInv /\ Distinct(events, AnswerTypes) /\ Distinct(events, ReturnTypes)
    BY DEF ImportInv, ShownInv
  <2> HIDE DEF IInv
  <2>2. QED
    BY <2>1, <1>1, <1>2, Taken
<1> HIDE DEF b
<1>5. /\ \A c \in Buffers : c # b => buffers'[c] = buffers[c]
      /\ buffers'[b].buffer = outcome
      /\ buffers'[b].freed = buffers[b].freed + freed
      /\ buffers'[b].busy = buffers[b].busy
      /\ buffers'[b].fenced = buffers[b].fenced
      /\ buffers' \in [Buffers -> Record]
  <2> DEFINE new == [buffers[b] EXCEPT !.buffer = outcome, !.freed = @ + freed]
  <2>1. buffers \in [Buffers -> Record] /\ buffers[b] \in Record
    BY <1>4 DEF TypeInv
  <2>2. buffers' = [buffers EXCEPT ![b] = new]
    BY <1>2, <1>4, <2>1
  <2>3. /\ new \in Record
        /\ new.buffer = outcome
        /\ new.freed = buffers[b].freed + freed
        /\ new.busy = buffers[b].busy
        /\ new.fenced = buffers[b].fenced
    <3>1. DOMAIN buffers[b] = {"buffer", "busy", "fenced", "freed"} /\ buffers[b].freed + freed \in Nat
      BY <2>1 DEF Record
    <3>2. /\ new.buffer = outcome
          /\ new.freed = buffers[b].freed + freed
          /\ new.busy = buffers[b].busy
          /\ new.fenced = buffers[b].fenced
      BY <3>1
    <3>3. new \in Record
      BY <2>1, <3>1, <1>0 DEF Record
    <3>4. QED
      BY <3>2, <3>3
  <2> HIDE DEF new
  <2>4. QED
    BY <1>4, <2>1, <2>2, <2>3
<1>6. Pending' = Pending \ {b} /\ Lent' = Lent /\ b \in Pending
  BY <1>2, <1>4 DEF Pending, Lent, ImportInv
<1>7. phase = "roundtrip"
  BY <1>3, <1>6 DEF ImportInv, Shows
<1>8. TypeInv'
  BY <1>2, <1>3, <1>4, <1>5 DEF TypeInv, Record, Side
<1>9. EarlyInv'
  BY <1>2, <1>4, <1>5 DEF EarlyInv
<1>10. ImportInv'
  <2>1. \A c \in Pending' : buffers'[c].buffer # "none" /\ (options'.immediate \/ buffers'[c].buffer = "asked")
    <3>1. \A c \in Pending' : c \in Pending /\ c # b /\ c \in Buffers
      BY <1>6, Known
    <3>2. QED
      BY <3>1, <1>3, <1>5 DEF ImportInv
  <2>2. running' => \A c \in Buffers :
            buffers'[c].buffer \in {"none", "here"} \/ (~options'.immediate /\ c \in Pending')
    BY <1>2, <1>3, <1>5, <1>6, <1>7, Zenon DEF ImportInv, Early
  <2>3. \A c \in Buffers : buffers'[c].buffer # "none"
    BY <1>5, <1>7 DEF ImportInv
  <2>4. QED
    BY <1>2, <1>4, <1>7, <2>1, <2>2, <2>3 DEF ImportInv, Shows, SetUp
<1>11. buffers[b].freed = 0
  BY <1>4, <1>6, <1>7 DEF ImportInv, FreedInv, FreedWithAnswer, TypeInv, Record, Side, Programs
<1>12. FreedInv'
  BY <1>2, <1>3, <1>4, <1>5, <1>7, <1>11 DEF FreedInv, FreedOnce, FreedWithAnswer, SetUp, Shows
<1>13. ShownInv'
  <2>1. \A c \in Buffers : buffers'[c].busy = buffers[c].busy /\ buffers'[c].fenced = buffers[c].fenced
    BY <1>5
  <2>2. Lent \subseteq Buffers /\ fence \subseteq Buffers /\ drawn \subseteq Buffers
    BY Known DEF TypeInv
  <2>3. QED
    BY <1>2, <1>3, <1>4, <1>6, <2>1, <2>2 DEF ShownInv
<1>14. QueueInv'
  BY <1>2, <1>3, <1>5, <1>7 DEF QueueInv, StuckOnlyWhenAllAway, Away, ImportInv
<1>15. QED
  BY <1>8, <1>9, <1>10, <1>12, <1>13, <1>14

-----------------------------------------------------------------------------
(* The redraws, which the handlers and main call.                          *)

Redraw ==
    \/ /\ program = "v4l"
       /\ Away # Buffers
       /\ phase' = "dequeue"
       /\ UNCHANGED <<running, buffers, compositor, drawn, fence>>
    \/ /\ program = "egl"
       /\ Away # Buffers
       /\ phase' = "render"
       /\ UNCHANGED <<running, buffers, compositor, drawn, fence>>
    \/ /\ Away = Buffers
       /\ phase' = "aborted"
       /\ drawn' \subseteq drawn
       /\ UNCHANGED <<running, buffers, compositor, fence>>
    \/ /\ program \in {"ion", "drm"}
       /\ phase' = "loop"
       /\ \E b \in Buffers \ Away : Commit(b)
       /\ drawn' = {}
       /\ UNCHANGED <<running, fence>>

LEMMA V4lRedraw == ASSUME program = "v4l", V4l!redraw PROVE Redraw
BY Zenon DEF V4l!redraw, V4l!Away, V4l!Buffers, V4l!Others, Redraw, Away, Buffers

LEMMA EglRedraw == ASSUME program = "egl", Egl!redraw PROVE Redraw
BY Zenon DEF Egl!redraw, Egl!Away, Egl!Buffers, Egl!Others, Redraw, Away, Buffers

LEMMA IonRedraw == ASSUME program = "ion", Ion!redraw PROVE Redraw
<1> USE DEF Ion!Away, Ion!Buffers, Away, Buffers
<1>1. CASE Away = Buffers
  BY <1>1 DEF Ion!redraw, Redraw
<1>2. CASE Away # Buffers
  <2>1. Ion!dequeue \in Buffers \ Away
    BY <1>2, Least DEF Ion!dequeue
  <2>2. /\ phase' = "loop"
        /\ Commit(Ion!dequeue)
        /\ drawn' = {}
        /\ UNCHANGED <<running, fence>>
    BY <1>2, Zenon DEF Ion!redraw, Ion!Commit, Commit
  <2>3. QED
    BY <2>1, <2>2, Zenon DEF Redraw
<1>3. QED
  BY <1>1, <1>2

LEMMA DrmRedraw == ASSUME program = "drm", Drm!redraw PROVE Redraw
<1> USE DEF Drm!Away, Drm!Buffers, Away, Buffers
<1>1. CASE Away = Buffers
  BY <1>1 DEF Drm!redraw, Redraw
<1>2. CASE Away # Buffers
  <2>1. Drm!window_next_buffer \in Buffers \ Away
    BY <1>2, Least DEF Drm!window_next_buffer
  <2>2. /\ phase' = "loop"
        /\ Commit(Drm!window_next_buffer)
        /\ drawn' = {}
        /\ UNCHANGED <<running, fence>>
    BY <1>2, Zenon DEF Drm!redraw, Drm!Commit, Commit
  <2>3. QED
    BY <2>1, <2>2, Zenon DEF Redraw
<1>3. QED
  BY <1>1, <1>2

\* What is so when a redraw comes, in the loop or right behind the roundtrip.
Ready ==
    /\ phase \in {"roundtrip", "loop"}
    /\ Pending = {}
    /\ \A b \in Buffers : /\ buffers[b].buffer = "here"
                          /\ buffers[b].freed = IF program = "v4l" THEN 1 ELSE 0
                          /\ buffers[b].busy => b \in Lent

LEMMA LoopReady == ASSUME IInv, phase = "loop" PROVE Ready
BY DEF IInv, ImportInv, FreedInv, ShownInv, Shows, Ready

LEMMA AnsweredReady == ASSUME IInv, Answered, running PROVE Ready
<1> USE DEF IInv
<1>1. phase = "roundtrip" /\ phase \in Early /\ compositor.asked = {}
  BY DEF Answered, Early
<1>2. Of(events, AnswerTypes) = {}
  BY Zenon DEF Answered, Of, AnswerTypes
<1>3. Pending = {}
  BY <1>1, <1>2 DEF Pending
<1>4. \A b \in Buffers : buffers[b].buffer = "here"
  BY <1>1, <1>3 DEF ImportInv
<1>5. \A b \in Buffers : buffers[b].freed = IF program = "v4l" THEN 1 ELSE 0
  BY <1>1, <1>4 DEF FreedInv, FreedWithAnswer
<1>6. QED
  BY <1>1, <1>3, <1>4, <1>5 DEF Ready, EarlyInv

\* The record of a buffer that is committed, and the compositor's side of it.
LEMMA Committed ==
  ASSUME TypeInv, NEW b \in Buffers, buffers[b].buffer = "here", Commit(b)
  PROVE  /\ buffers' \in [Buffers -> Record]
         /\ \A c \in Buffers : /\ buffers'[c].buffer = buffers[c].buffer
                               /\ buffers'[c].busy <=> buffers[c].busy \/ c = b
                               /\ buffers'[c].fenced = buffers[c].fenced
                               /\ buffers'[c].freed = buffers[c].freed
         /\ compositor' \in Side
         /\ compositor'.asked = compositor.asked
         /\ compositor'.held = compositor.held \cup {b}
<1>1. buffers \in [Buffers -> Record] /\ compositor \in Side
  BY DEF TypeInv
<1>2. /\ buffers' = [buffers EXCEPT ![b].busy = TRUE]
      /\ compositor' = [compositor EXCEPT !.owes = TRUE, !.held = @ \cup {b}]
  BY DEF Commit
<1>3. /\ compositor' \in Side
      /\ compositor'.asked = compositor.asked
      /\ compositor'.held = compositor.held \cup {b}
  BY <1>1, <1>2 DEF Side
<1>4. buffers' \in [Buffers -> Record]
  BY <1>1, <1>2 DEF Record
<1>5. \A c \in Buffers : /\ buffers'[c].buffer = buffers[c].buffer
                         /\ buffers'[c].busy <=> buffers[c].busy \/ c = b
                         /\ buffers'[c].fenced = buffers[c].fenced
                         /\ buffers'[c].freed = buffers[c].freed
  BY <1>1, <1>2 DEF Record
<1>6. QED
  BY <1>3, <1>4, <1>5

\* The events of a redraw: one that says nothing of a buffer was taken, or none.
SameBuffers ==
    /\ StayDistinct
    /\ Of(events, AnswerTypes)' = Of(events, AnswerTypes)
    /\ Of(events, ReturnTypes)' = Of(events, ReturnTypes)
    /\ Of(events, FenceTypes)' = Of(events, FenceTypes)

LEMMA RedrawStep ==
  ASSUME IInv, Ready, SameBuffers, Redraw,
         UNCHANGED <<program, options>>,
         window' \in [initialized : BOOLEAN, waiting : BOOLEAN]
  PROVE  IInv'
<1> USE DEF IInv
<1>1. Returning' = Of(events', ReturnTypes)
  BY Zenon DEF Returning, Of, ReturnTypes
<1>2. CASE /\ \/ program = "v4l" /\ Away # Buffers /\ phase' = "dequeue" /\ drawn' = drawn
              \/ program = "egl" /\ Away # Buffers /\ phase' = "render" /\ drawn' = drawn
              \/ Away = Buffers /\ phase' = "aborted"
           /\ drawn' \subseteq drawn
           /\ UNCHANGED <<running, buffers, compositor, fence>>
  <2>1. Pending' = Pending /\ Lent' = Lent
    BY <1>2 DEF Pending, Lent, SameBuffers
  <2>2. TypeInv'
    BY <1>2 DEF TypeInv, SameBuffers, StayDistinct, Shows
  <2>3. EarlyInv'
    BY <1>2 DEF EarlyInv, Early, SetUp
  <2>4. ImportInv'
    BY <1>2, <2>1 DEF ImportInv, Ready, SameBuffers, StayDistinct, Early, SetUp
  <2>5. FreedInv'
    BY <1>2 DEF FreedInv, FreedOnce, Ready, SetUp
  <2>6. ShownInv'
    BY <1>2, <2>1 DEF ShownInv, Ready, SameBuffers, StayDistinct
  <2>7. /\ program' = "v4l" /\ running' /\ phase' \in Early \cup Shows =>
              \A b \in Buffers : buffers'[b].buffer = "none" \/ buffers'[b].busy \/ b \in drawn'
        /\ phase' = "render" => Away' # Buffers
    BY <1>2 DEF QueueInv, Ready, Early, SetUp, Shows, Away
  <2>8. phase' = "aborted" => compositor'.held \cup Returning' = Buffers
    <3> SUFFICES ASSUME Away = Buffers PROVE compositor'.held \cup Returning' = Buffers
      BY <1>2
    <3>1. Lent = Buffers
      BY Known DEF Away, Ready
    <3>2. QED
      BY <3>1, <1>1, <1>2 DEF Lent, SameBuffers
  <2>9. phase' = "dequeue" /\ running' => drawn' # {}
    <3> SUFFICES ASSUME program = "v4l", Away # Buffers, running PROVE drawn # {}
      BY <1>2
    <3>1. PICK b \in Buffers : ~buffers[b].busy
      BY DEF Away
    <3>2. b \in drawn
      BY <3>1 DEF QueueInv, Ready, Early, Shows
    <3>3. QED
      BY <3>2
  <2>10. QueueInv'
    BY <1>2, <2>7, <2>8, <2>9 DEF QueueInv, StuckOnlyWhenAllAway
  <2>11. QED
    BY <2>2, <2>3, <2>4, <2>5, <2>6, <2>10
<1>3. CASE /\ program \in {"ion", "drm"}
           /\ phase' = "loop"
           /\ \E b \in Buffers \ Away : Commit(b)
           /\ drawn' = {}
           /\ UNCHANGED <<running, fence>>
  <2>1. PICK b \in Buffers : ~buffers[b].busy /\ Commit(b)
    BY <1>3 DEF Away
  <2>2. /\ buffers' \in [Buffers -> Record]
        /\ \A c \in Buffers : /\ buffers'[c].buffer = "here"
                              /\ buffers'[c].busy <=> buffers[c].busy \/ c = b
                              /\ buffers'[c].fenced = buffers[c].fenced
                              /\ buffers'[c].freed = buffers[c].freed
        /\ compositor' \in Side
        /\ compositor'.asked = compositor.asked
        /\ compositor'.held = compositor.held \cup {b}
    BY <2>1, Committed DEF Ready
  <2>3. Pending' = {} /\ Lent' = Lent \cup {b} /\ b \notin Lent
    BY <2>1, <2>2 DEF Pending, Lent, SameBuffers, Ready, ShownInv
  <2>4. TypeInv'
    BY <1>3, <2>2 DEF TypeInv, SameBuffers, StayDistinct, Shows
  <2>5. EarlyInv'
    BY <1>3 DEF EarlyInv, Early, SetUp
  <2>6. ImportInv'
    BY <1>3, <2>2, <2>3 DEF ImportInv, Ready, SameBuffers, StayDistinct, Early, SetUp, Pending
  <2>7. FreedInv'
    BY <1>3, <2>2 DEF FreedInv, FreedOnce, Ready, SetUp
  <2>8. Distinct(events, ReturnTypes)' /\ compositor'.held \cap Of(events, ReturnTypes)' = {}
    BY <2>2, <2>3 DEF SameBuffers, StayDistinct, ShownInv, Lent
  <2>9. \A c \in Lent' : buffers'[c].busy
    BY <2>2, <2>3, Known DEF ShownInv
  <2>10. \A c \in fence' : buffers'[c].fenced \/ c \in Of(events, FenceTypes)'
    BY <1>3, <2>2 DEF ShownInv, SameBuffers, TypeInv
  <2>11. ShownInv'
    BY <1>3, <2>2, <2>3, <2>8, <2>9, <2>10 DEF ShownInv, Ready
  <2>12. QueueInv'
    BY <1>3 DEF QueueInv, StuckOnlyWhenAllAway
  <2>13. QED
    BY <2>4, <2>5, <2>6, <2>7, <2>11, <2>12
<1>4. QED
  BY <1>2, <1>3, Zenon DEF Redraw

LEMMA ConfiguresStep == ASSUME IInv, Configures(Redraw) PROVE IInv'
<1> USE DEF IInv
<1>1. /\ Dispatches("configure")
      /\ window' = [window EXCEPT !.waiting = FALSE]
      /\ IF window.initialized /\ window.waiting THEN Redraw ELSE UNCHANGED <<phase, Others>>
  BY Zenon DEF Configures
<1>2. phase \in {"roundtrip", "loop"} /\ UNCHANGED <<program, options>>
  BY <1>1 DEF Dispatches, setup
<1>3. SameEvents /\ StayDistinct
  BY <1>1, NeutralTaken
<1>4. window' \in [initialized : BOOLEAN, waiting : BOOLEAN] /\ window'.initialized = window.initialized
  BY <1>1 DEF TypeInv
<1>5. CASE window.initialized /\ window.waiting
  <2>1. phase = "loop"
    BY <1>2, <1>5 DEF EarlyInv, Early
  <2>2. Ready /\ SameBuffers
    BY <2>1, <1>3, LoopReady DEF SameBuffers, SameEvents
  <2>3. QED
    BY <2>2, <1>1, <1>2, <1>4, <1>5, RedrawStep
<1>6. CASE ~(window.initialized /\ window.waiting)
  <2>1. UNCHANGED <<phase, running, buffers, compositor, drawn, fence>>
    BY <1>1, <1>6, Zenon DEF Others
  <2>2. compositor \in Side
    BY DEF TypeInv
  <2>3. QED
    BY <2>1, <2>2, <1>2, <1>3, <1>4, Frame
<1>7. QED
  BY <1>5, <1>6

LEMMA FramesStep == ASSUME IInv, Frames(Redraw) PROVE IInv'
<1> USE DEF IInv
<1>1. Dispatches("done") /\ Redraw /\ UNCHANGED window
  BY Zenon DEF Frames
<1>2. phase \in {"roundtrip", "loop"} /\ UNCHANGED <<program, options>>
  BY <1>1 DEF Dispatches, setup
<1>3. /\ "done" \in Types
      /\ "done" \notin AnswerTypes
      /\ "done" \notin ReturnTypes
      /\ "done" \notin FenceTypes
      /\ "done" \in LaterTypes
  BY DEF Types, AnswerTypes, ReturnTypes, FenceTypes, LaterTypes
<1>4. SameBuffers /\ Head(events).buffer \in Of(events, LaterTypes)
  <2>1. TypeInv /\ Distinct(events, AnswerTypes) /\ Distinct(events, ReturnTypes)
    BY DEF ImportInv, ShownInv
  <2> HIDE DEF IInv
  <2>2. QED
    BY <2>1, <1>1, <1>3, Taken DEF SameBuffers, StayDistinct
<1>5. phase = "loop"
  BY <1>2, <1>4 DEF EarlyInv, Early
<1>6. Ready /\ window' \in [initialized : BOOLEAN, waiting : BOOLEAN]
  BY <1>1, <1>5, LoopReady DEF TypeInv
<1>7. QED
  BY <1>1, <1>2, <1>4, <1>6, RedrawStep

LEMMA BeginsStep == ASSUME IInv, Begins(Redraw) PROVE IInv'
<1> USE DEF IInv
<1>1. /\ Answered
      /\ running
      /\ window' = [window EXCEPT !.initialized = TRUE]
      /\ IF window.waiting THEN phase' = "loop" /\ UNCHANGED Others ELSE Redraw
      /\ UNCHANGED <<program, options, events>>
  BY Zenon DEF Begins, setup
<1>2. Ready /\ phase = "roundtrip"
  BY <1>1, AnsweredReady DEF Answered
<1>3. SameBuffers
  BY <1>1, EventsKept DEF SameBuffers, SameEvents
<1>4. window' \in [initialized : BOOLEAN, waiting : BOOLEAN]
  BY <1>1 DEF TypeInv
<1>5. CASE ~window.waiting
  BY <1>1, <1>2, <1>3, <1>4, <1>5, RedrawStep
<1>6. CASE window.waiting
  <2>1. phase' = "loop" /\ UNCHANGED <<running, buffers, compositor, drawn, fence>>
    BY <1>1, <1>6, Zenon DEF Others
  <2>2. Pending' = Pending /\ Lent' = Lent
    BY <1>1, <2>1 DEF Pending, Lent
  <2>3. TypeInv'
    BY <1>1, <1>4, <2>1 DEF TypeInv, Shows
  <2>4. EarlyInv'
    BY <2>1 DEF EarlyInv, Early, SetUp
  <2>5. ImportInv'
    BY <1>1, <1>2, <2>1, <2>2 DEF ImportInv, Ready, Early, SetUp
  <2>6. FreedInv'
    BY <1>1, <1>2, <2>1 DEF FreedInv, FreedOnce, Ready, SetUp
  <2>7. ShownInv'
    BY <1>1, <1>2, <2>1, <2>2 DEF ShownInv, Ready
  <2>8. QueueInv'
    BY <1>1, <1>2, <2>1 DEF QueueInv, StuckOnlyWhenAllAway, Early, Shows
  <2>9. QED
    BY <2>3, <2>4, <2>5, <2>6, <2>7, <2>8
<1>7. QED
  BY <1>5, <1>6

-----------------------------------------------------------------------------
(* What the programs do with a buffer, each in its own way.                *)

\* A buffer is sent for import.
LEMMA ImportStep ==
  ASSUME IInv, NEW b \in Buffers, Turn(b),
         NEW last \in {"gl", "roundtrip"},
         NEW immediate \in BOOLEAN, immediate <=> options.immediate,
         Import(b, immediate, last),
         drawn' \in SUBSET Buffers,
         program = "v4l" => drawn' = drawn \cup {b},
         UNCHANGED <<program, options, running, window, events, fence>>
  PROVE  IInv'
<1> USE DEF IInv
<1> DEFINE answer == IF options.immediate THEN "here" ELSE "asked"
<1>1. /\ phase = "buffers"
      /\ phase \in SetUp
      /\ phase \in Early
      /\ buffers[b].buffer = "none"
      /\ buffers' = [buffers EXCEPT ![b].buffer = answer]
      /\ compositor' = [compositor EXCEPT !.asked = @ \cup {b}]
      /\ phase' \in {"buffers", last}
      /\ phase' # "buffers" => Missing = {b}
  BY DEF Turn, Import, Missing, Early, SetUp
<1>2. /\ \A c \in Buffers : c # b => buffers'[c] = buffers[c]
      /\ buffers'[b].buffer = answer
      /\ buffers'[b].freed = buffers[b].freed
      /\ buffers'[b].busy = buffers[b].busy
      /\ buffers'[b].fenced = buffers[b].fenced
      /\ buffers' \in [Buffers -> Record]
  BY <1>1 DEF TypeInv, Record
<1>3. /\ compositor'.asked = compositor.asked \cup {b}
      /\ compositor'.held = compositor.held
      /\ compositor'.owes = compositor.owes
      /\ compositor' \in Side
  BY <1>1 DEF TypeInv, Side
<1>4. SameEvents /\ StayDistinct
  BY EventsKept
<1>5. Pending' = Pending \cup {b} /\ b \notin Pending /\ Lent' = Lent
  BY <1>1, <1>3, <1>4 DEF Pending, Lent, SameEvents, ImportInv
<1>6. \A c \in Buffers : ~buffers'[c].busy /\ ~buffers'[c].fenced /\ buffers'[c].freed = 0
  BY <1>1, <1>2 DEF EarlyInv, FreedInv
<1>7. phase' \in Early /\ phase' \notin Shows /\ (phase' # "buffers" => phase' \in {"gl", "roundtrip"})
  BY <1>1 DEF Early, SetUp, Shows
<1>8. TypeInv'
  BY <1>1, <1>2, <1>3 DEF TypeInv, SetUp
<1>9. EarlyInv'
  BY <1>1, <1>3, <1>4, <1>6 DEF EarlyInv, SameEvents
<1>10. \A c \in Buffers : buffers'[c].buffer \in {"none", answer}
  BY <1>1, <1>2 DEF ImportInv
<1>11. phase' # "buffers" => \A c \in Buffers : buffers'[c].buffer = answer
  <2> SUFFICES ASSUME phase' # "buffers", NEW c \in Buffers, c # b PROVE buffers'[c].buffer = answer
    BY <1>2
  <2>1. c \notin Missing
    BY <1>1
  <2>2. QED
    BY <2>1, <1>1, <1>2, <1>10 DEF Missing, FreedInv
<1>12. ImportInv'
  <2>1. \A c \in Pending' : buffers'[c].buffer # "none" /\ (options'.immediate \/ buffers'[c].buffer = "asked")
    BY <1>2, <1>5, Known DEF ImportInv
  <2>2. compositor'.asked \cap Of(events, AnswerTypes)' = {}
    BY <1>3, <1>4, <1>5 DEF ImportInv, SameEvents, Pending
  <2>3. running' => \A c \in Buffers :
            buffers'[c].buffer \in {"none", "here"} \/ (~options'.immediate /\ c \in Pending')
    BY <1>1, <1>2, <1>5 DEF ImportInv
  <2>4. QED
    BY <1>4, <1>7, <1>10, <1>11, <2>1, <2>2, <2>3 DEF ImportInv, StayDistinct
<1>13. FreedInv'
  <2>1. answer \notin FreedWithAnswer
    BY DEF FreedWithAnswer, TypeInv
  <2>2. phase' = "roundtrip" =>
           \A c \in Buffers : buffers'[c].freed = IF buffers'[c].buffer \in FreedWithAnswer' THEN 1 ELSE 0
    BY <1>6, <1>11, <2>1 DEF FreedWithAnswer
  <2>3. FreedOnce' /\ \A c \in Buffers : buffers'[c].freed <= 2
    BY <1>6, <1>7 DEF FreedOnce, Early, SetUp
  <2>4. QED
    BY <1>6, <1>7, <2>2, <2>3 DEF FreedInv
<1>14. ShownInv'
  <2>1. Lent' = {} /\ fence' = {}
    <3>1. Lent = {}
      BY <1>1, Known DEF EarlyInv, ShownInv
    <3>2. Of(events, FenceTypes) \subseteq Of(events, ReturnTypes)
      BY Zenon DEF Of, FenceTypes, ReturnTypes
    <3>3. QED
      BY <3>1, <3>2, <1>1, <1>5 DEF EarlyInv, ShownInv, Lent, TypeInv
  <2>2. QED
    BY <1>3, <1>4, <1>6, <1>7, <2>1 DEF ShownInv, StayDistinct, SameEvents, Lent
<1>15. QueueInv'
  BY <1>1, <1>2, <1>7 DEF QueueInv, StuckOnlyWhenAllAway, Early, SetUp
<1>16. QED
  BY <1>8, <1>9, <1>12, <1>13, <1>14, <1>15

\* What could not be set up ends the program.
LEMMA StopsStep ==
  ASSUME IInv, phase \in {"start", "buffers", "gl"}, phase' \in {"failed", "crashed"},
         buffers' \in [Buffers -> Record],
         \A c \in Buffers : /\ buffers'[c].busy = buffers[c].busy
                            /\ buffers'[c].fenced = buffers[c].fenced
                            /\ buffers[c].buffer # "none" => buffers'[c].buffer = buffers[c].buffer
                            /\ buffers'[c].freed <= 2
                            /\ buffers'[c].freed > 1 =>
                                  program = "egl" /\ phase' = "failed" /\ options.immediate,
         drawn' \in SUBSET Buffers,
         UNCHANGED <<program, options, running, window, compositor, events, fence>>
  PROVE  IInv'
<1> USE DEF IInv
<1>1. phase \in Early /\ phase' \notin Early \cup SetUp \cup Shows
  BY DEF Early, SetUp, Shows
<1>2. SameEvents /\ StayDistinct
  BY EventsKept
<1>3. Pending' = Pending /\ Lent' = Lent
  BY DEF Pending, Lent
<1>4. \A c \in Buffers : ~buffers'[c].busy /\ ~buffers'[c].fenced
  BY <1>1 DEF EarlyInv
<1>5. TypeInv'
  BY DEF TypeInv
<1>6. EarlyInv'
  BY <1>1 DEF EarlyInv
<1>7. ImportInv'
  BY <1>1, <1>2, <1>3, Known DEF ImportInv, StayDistinct
<1>8. FreedInv'
  BY <1>1 DEF FreedInv, FreedOnce, Early, SetUp
<1>9. ShownInv'
  BY <1>1, <1>2, <1>3, <1>4, Known DEF ShownInv, StayDistinct, TypeInv
<1>10. QueueInv'
  BY <1>1 DEF QueueInv, StuckOnlyWhenAllAway
<1>11. QED
  BY <1>5, <1>6, <1>7, <1>8, <1>9, <1>10

LEMMA DistinctPart ==
  /\ Of(events, FenceTypes) \subseteq Of(events, ReturnTypes)
  /\ Distinct(events, ReturnTypes) => Distinct(events, FenceTypes)
BY Zenon DEF Of, Distinct, FenceTypes, ReturnTypes

\* A buffer comes back: the program has it, with its fence if it came with one.
LEMMA ReturnStep ==
  ASSUME IInv, NEW t \in {"release", "fenced"}, Dispatches(t),
         NEW b, b = Head(events).buffer,
         buffers' \in [Buffers -> Record],
         \A c \in Buffers : c # b => buffers'[c] = buffers[c],
         buffers'[b].buffer = buffers[b].buffer,
         buffers'[b].freed = buffers[b].freed,
         ~buffers'[b].busy,
         buffers'[b].fenced <=> buffers[b].fenced \/ t = "fenced",
         drawn' \subseteq drawn \cup {b},
         t = "fenced" => program = "egl" /\ drawn' = drawn,
         running' \in BOOLEAN,
         running' => running /\ (program = "v4l" => drawn' = drawn \cup {b}),
         UNCHANGED <<phase, window, compositor, fence>>
  PROVE  IInv'
<1> USE DEF IInv
<1>1. phase \in {"roundtrip", "loop"} /\ UNCHANGED <<program, options>>
  BY DEF Dispatches, setup
<1>2. /\ t \in Types
      /\ t \notin AnswerTypes
      /\ t \in ReturnTypes
      /\ t \in FenceTypes <=> t = "fenced"
      /\ t \in LaterTypes
  BY DEF Types, AnswerTypes, ReturnTypes, FenceTypes, LaterTypes
<1>3. /\ StayDistinct
      /\ b \in Buffers
      /\ b \in Of(events, LaterTypes)
      /\ b \in Of(events, ReturnTypes)
      /\ Of(events', AnswerTypes) = Of(events, AnswerTypes)
      /\ Of(events', ReturnTypes) = Of(events, ReturnTypes) \ {b}
      /\ t = "release" => Of(events', FenceTypes) = Of(events, FenceTypes)
      /\ t = "fenced" => Of(events', FenceTypes) = Of(events, FenceTypes) \ {b}
  <2>1. /\ TypeInv
        /\ Distinct(events, AnswerTypes)
        /\ Distinct(events, ReturnTypes)
        /\ Distinct(events, FenceTypes)
    BY DistinctPart DEF ImportInv, ShownInv
  <2> HIDE DEF IInv
  <2>2. QED
    BY <2>1, <1>2, Taken DEF StayDistinct
<1>4. phase = "loop" /\ phase \in Shows /\ phase \notin Early
  BY <1>1, <1>3 DEF EarlyInv, Early, SetUp, Shows
<1>5. Pending' = Pending /\ Lent' = Lent \ {b} /\ b \in Lent
  BY <1>3 DEF Pending, Lent, ShownInv
<1>6. buffers[b].busy /\ ~buffers[b].fenced /\ b \notin drawn
  BY <1>3, <1>5 DEF ShownInv
<1>7. b \in fence => t = "fenced"
  <2>1. Of(events', FenceTypes) \subseteq Of(events', ReturnTypes)
    BY Zenon DEF Of, FenceTypes, ReturnTypes
  <2>2. QED
    BY <2>1, <1>3, <1>6 DEF ShownInv
<1>8. TypeInv'
  BY <1>1, <1>3 DEF TypeInv, StayDistinct
<1>9. EarlyInv'
  BY <1>4 DEF EarlyInv
<1>10. ImportInv'
  BY <1>1, <1>3, <1>4, <1>5 DEF ImportInv, StayDistinct, Early, SetUp
<1>11. FreedInv'
  BY <1>1, <1>4 DEF FreedInv, FreedOnce, SetUp
<1>12. ShownInv'
  <2>1. compositor'.held \cap Of(events', ReturnTypes) = {}
    BY <1>3 DEF ShownInv
  <2>2. \A c \in Lent' : buffers'[c].busy
    BY <1>5, Known DEF ShownInv
  <2>3. \A c \in Buffers : buffers'[c].busy => ~buffers'[c].fenced /\ c \in Lent'
    BY <1>4, <1>5 DEF ShownInv
  <2>4. \A c \in fence' : buffers'[c].fenced \/ c \in Of(events', FenceTypes)
    BY <1>3, <1>7 DEF ShownInv, TypeInv
  <2>5. \A c \in drawn' : ~buffers'[c].busy /\ ~buffers'[c].fenced
    BY <1>3, <1>6 DEF ShownInv, TypeInv
  <2>6. program' # "egl" => \A c \in Buffers : ~buffers'[c].fenced
    BY <1>1 DEF ShownInv
  <2>7. QED
    BY <1>3, <2>1, <2>2, <2>3, <2>4, <2>5, <2>6 DEF ShownInv, StayDistinct
<1>13. QueueInv'
  BY <1>1, <1>4 DEF QueueInv, StuckOnlyWhenAllAway
<1>14. QED
  BY <1>8, <1>9, <1>10, <1>11, <1>12, <1>13

\* What was drawn is committed.
LEMMA CommitStep ==
  ASSUME IInv, phase \in {"dequeue", "commit"}, phase' = "loop",
         NEW b \in drawn, Commit(b),
         drawn' \subseteq drawn \ {b},
         program = "v4l" => drawn' = drawn \ {b},
         UNCHANGED <<program, options, running, window, events, fence>>
  PROVE  IInv'
<1> USE DEF IInv
<1>1. phase \in Shows /\ phase \notin SetUp /\ phase' \in Shows /\ phase' \notin Early /\ phase' \notin SetUp
  BY DEF Shows, Early, SetUp
<1>2. b \in Buffers /\ ~buffers[b].busy /\ ~buffers[b].fenced /\ buffers[b].buffer = "here"
  BY <1>1 DEF TypeInv, ShownInv, ImportInv
<1>3. /\ buffers' \in [Buffers -> Record]
      /\ \A c \in Buffers : /\ buffers'[c].buffer = buffers[c].buffer
                            /\ buffers'[c].busy <=> buffers[c].busy \/ c = b
                            /\ buffers'[c].fenced = buffers[c].fenced
                            /\ buffers'[c].freed = buffers[c].freed
      /\ compositor' \in Side
      /\ compositor'.asked = compositor.asked
      /\ compositor'.held = compositor.held \cup {b}
  BY <1>2, Committed
<1>4. SameEvents /\ StayDistinct
  BY EventsKept
<1>5. Pending' = Pending /\ Lent' = Lent \cup {b} /\ b \notin Lent
  BY <1>2, <1>3, <1>4 DEF Pending, Lent, SameEvents, ShownInv
<1>6. TypeInv'
  BY <1>1, <1>3 DEF TypeInv
<1>7. EarlyInv'
  BY <1>1 DEF EarlyInv
<1>8. ImportInv'
  BY <1>1, <1>3, <1>4, <1>5 DEF ImportInv, SameEvents, StayDistinct, Pending
<1>9. FreedInv'
  BY <1>1, <1>3 DEF FreedInv, FreedOnce
<1>10. ShownInv'
  <2>1. compositor'.held \cap Of(events, ReturnTypes)' = {}
    BY <1>3, <1>4, <1>5 DEF ShownInv, SameEvents, Lent
  <2>2. \A c \in Lent' : buffers'[c].busy
    BY <1>2, <1>3, <1>5, Known DEF ShownInv
  <2>3. \A c \in Buffers : buffers'[c].busy => ~buffers'[c].fenced /\ c \in Lent'
    BY <1>1, <1>2, <1>3, <1>5 DEF ShownInv
  <2>4. \A c \in fence' : buffers'[c].fenced \/ c \in Of(events, FenceTypes)'
    BY <1>3, <1>4 DEF ShownInv, TypeInv, SameEvents
  <2>5. \A c \in drawn' : ~buffers'[c].busy /\ ~buffers'[c].fenced
    BY <1>3 DEF ShownInv, TypeInv
  <2>6. program' # "egl" => \A c \in Buffers : ~buffers'[c].fenced
    BY <1>3 DEF ShownInv
  <2>7. QED
    BY <1>4, <2>1, <2>2, <2>3, <2>4, <2>5, <2>6 DEF ShownInv, StayDistinct
<1>11. QueueInv'
  BY <1>1, <1>3 DEF QueueInv, StuckOnlyWhenAllAway
<1>12. QED
  BY <1>6, <1>7, <1>8, <1>9, <1>10, <1>11

-----------------------------------------------------------------------------
(* simple-dmabuf-v4l.c                                                     *)

LEMMA V4lSetUp ==
  ASSUME IInv, V4l!create_display \/ V4l!create_window \/ V4l!v4l_connect \/ V4l!fill_buffer_format
  PROVE  IInv'
<1> USE DEF V4l!Runs, V4l!Proceeds, Proceeds
<1>1. /\ options \in [immediate : BOOLEAN, sync : BOOLEAN]
      /\ window \in [initialized : BOOLEAN, waiting : BOOLEAN]
  BY DEF IInv, TypeInv
<1>2. CASE V4l!create_window
  <2>1. program = "v4l" /\ Opens("connect")
    BY <1>2, Zenon DEF V4l!create_window, V4l!Opens, Opens
  <2>2. QED
    BY <2>1, OpensStep
<1>3. CASE ~V4l!create_window
  <2>1. program = "v4l" /\ options' = options /\ window' = window
    BY <1>3 DEF V4l!create_display, V4l!v4l_connect, V4l!fill_buffer_format
  <2>2. PICK can \in BOOLEAN : \/ Proceeds("start", "window", can)
                               \/ Proceeds("connect", "format", can)
                               \/ Proceeds("format", "buffers", can)
    BY <1>3 DEF V4l!create_display, V4l!v4l_connect, V4l!fill_buffer_format, V4l!registry_handle_global
  <2> HIDE DEF Proceeds
  <2>3. QED
    BY <1>1, <2>1, <2>2, ProceedsStep
<1>4. QED
  BY <1>2, <1>3

LEMMA V4lImport == ASSUME IInv, V4l!queue_initial_buffers PROVE IInv'
<1> USE DEF V4l!Buffers, Buffers, V4l!Runs
<1>1. PICK b \in Buffers :
        /\ program = "v4l"
        /\ Turn(b)
        /\ \/ /\ drawn' \in {drawn \cup {b}, drawn}
              /\ phase' = "failed"
              /\ UNCHANGED <<buffers, compositor>>
           \/ /\ drawn' = drawn \cup {b}
              /\ Import(b, FALSE, "roundtrip")
        /\ UNCHANGED <<program, options, running, window, events, fence>>
  <2>1. PICK b \in Buffers :
        /\ program = "v4l"
        /\ V4l!Turn(b)
        /\ \/ /\ \E q \in V4l!queue(b), exported \in BOOLEAN : drawn' = q[1]
              /\ phase' = "failed"
              /\ UNCHANGED <<buffers, compositor>>
           \/ /\ drawn' = drawn \cup {b}
              /\ V4l!Import(b, FALSE, "roundtrip")
        /\ UNCHANGED <<program, options, running, window, events, fence>>
    BY Zenon DEF V4l!queue_initial_buffers, V4l!setup
  <2>2. Turn(b)
    BY <2>1 DEF V4l!Turn, Turn, V4l!Missing, Missing
  <2>3. V4l!Import(b, FALSE, "roundtrip") => Import(b, FALSE, "roundtrip")
    BY Zenon DEF V4l!Import, Import, V4l!Missing, Missing
  <2>4. \A q \in V4l!queue(b) : q[1] \in {drawn \cup {b}, drawn}
    BY DEF V4l!queue
  <2>5. QED
    BY <2>1, <2>2, <2>3, <2>4
<1>2. /\ ~options.immediate
      /\ drawn' \in SUBSET Buffers
      /\ phase = "buffers"
      /\ buffers \in [Buffers -> Record]
      /\ \A c \in Buffers : buffers[c].freed = 0
  BY <1>1 DEF IInv, TypeInv, Turn, FreedInv, SetUp
<1>3. CASE Import(b, FALSE, "roundtrip") /\ drawn' = drawn \cup {b}
  BY <1>1, <1>2, <1>3, ImportStep
<1>4. CASE phase' = "failed" /\ UNCHANGED <<buffers, compositor>>
  BY <1>1, <1>2, <1>4, StopsStep
<1>5. QED
  BY <1>1, <1>3, <1>4

LEMMA V4lAnswers == ASSUME IInv, V4l!create_succeeded \/ V4l!create_failed PROVE IInv'
<1>1. /\ program = "v4l"
      /\ Answers("created", "here", 1) \/ Answers("failed", "failed", 1)
  BY Zenon DEF V4l!create_succeeded, V4l!create_failed, V4l!Runs, V4l!Answers, V4l!Dispatches, V4l!setup,
            Answers, Dispatches, setup
<1>2. "here" \in FreedWithAnswer /\ "failed" \in FreedWithAnswer
  BY <1>1 DEF FreedWithAnswer
<1>3. QED
  BY <1>1, <1>2, AnswersStep

LEMMA V4lRelease == ASSUME IInv, V4l!buffer_release PROVE IInv'
<1> DEFINE b == Head(events).buffer
<1>1. /\ program = "v4l"
      /\ Dispatches("release")
      /\ buffers' = [buffers EXCEPT ![b].busy = FALSE]
      /\ \E q \in V4l!queue(b) : drawn' = q[1] /\ running' = (running /\ q[2] = 1)
      /\ UNCHANGED <<phase, window, compositor, fence>>
  BY Zenon DEF V4l!buffer_release, V4l!Runs, V4l!Dispatches, V4l!setup, Dispatches, setup
<1>2. b \in Buffers /\ buffers \in [Buffers -> Record] /\ running \in BOOLEAN
  <2>1. TypeInv /\ "release" \in Types
    BY DEF IInv, Types
  <2>2. QED
    BY <2>1, <1>1, Taken DEF TypeInv
<1>3. /\ drawn' \subseteq drawn \cup {b}
      /\ running' \in BOOLEAN
      /\ running' => running /\ drawn' = drawn \cup {b}
  <2>1. PICK q \in V4l!queue(b) : drawn' = q[1] /\ (running' = (running /\ q[2] = 1))
    BY <1>1
  <2>2. q[1] \in {drawn, drawn \cup {b}} /\ (q[2] = 1 => q[1] = drawn \cup {b})
    BY DEF V4l!queue
  <2>3. running' \in BOOLEAN /\ (running' => running /\ q[2] = 1)
    BY <2>1, Zenon
  <2>4. QED
    BY <2>1, <2>2, <2>3
<1> HIDE DEF b
<1>4. /\ buffers' \in [Buffers -> Record]
      /\ \A c \in Buffers : c # b => buffers'[c] = buffers[c]
      /\ buffers'[b].buffer = buffers[b].buffer
      /\ buffers'[b].freed = buffers[b].freed
      /\ ~buffers'[b].busy
      /\ buffers'[b].fenced <=> buffers[b].fenced \/ "release" = "fenced"
  BY <1>1, <1>2 DEF Record
<1>5. QED
  BY <1>1, <1>3, <1>4, ReturnStep DEF b

LEMMA V4lDequeue == ASSUME IInv, V4l!dequeue PROVE IInv'
<1> USE DEF IInv
<1>1. /\ program = "v4l"
      /\ phase = "dequeue"
      /\ \/ \E b \in drawn :
              /\ drawn' = drawn \ {b}
              /\ IF buffers[b].busy
                 THEN phase' = "aborted" /\ UNCHANGED <<buffers, compositor>>
                 ELSE phase' = "loop" /\ Commit(b)
              /\ UNCHANGED running
         \/ /\ phase' = "loop"
            /\ running' = FALSE
            /\ UNCHANGED <<buffers, compositor, drawn>>
      /\ UNCHANGED <<program, options, window, events, fence>>
  BY Zenon DEF V4l!dequeue, V4l!Runs, V4l!setup, V4l!Commit, Commit
<1>2. CASE \E b \in drawn :
              /\ drawn' = drawn \ {b}
              /\ IF buffers[b].busy
                 THEN phase' = "aborted" /\ UNCHANGED <<buffers, compositor>>
                 ELSE phase' = "loop" /\ Commit(b)
              /\ UNCHANGED running
  <2>1. PICK b \in drawn :
              /\ drawn' = drawn \ {b}
              /\ IF buffers[b].busy
                 THEN phase' = "aborted" /\ UNCHANGED <<buffers, compositor>>
                 ELSE phase' = "loop" /\ Commit(b)
              /\ UNCHANGED running
    BY <1>2
  <2>2. ~buffers[b].busy
    BY DEF ShownInv
  <2>3. QED
    BY <1>1, <2>1, <2>2, CommitStep
<1>3. CASE phase' = "loop" /\ running' = FALSE /\ UNCHANGED <<buffers, compositor, drawn>>
  <2>1. phase \in Shows /\ phase' \in Shows /\ phase' \notin Early /\ phase' \notin SetUp
    BY <1>1, <1>3 DEF Shows, Early, SetUp
  <2>2. Pending' = Pending /\ Lent' = Lent /\ StayDistinct
    BY <1>1, <1>3, EventsKept DEF Pending, Lent
  <2>3. TypeInv'
    BY <1>1, <1>3, <2>1 DEF TypeInv
  <2>4. EarlyInv'
    BY <2>1 DEF EarlyInv
  <2>5. ImportInv'
    BY <1>1, <1>3, <2>1, <2>2 DEF ImportInv, StayDistinct
  <2>6. FreedInv'
    BY <1>1, <1>3, <2>1 DEF FreedInv, FreedOnce
  <2>7. ShownInv'
    BY <1>1, <1>3, <2>1, <2>2 DEF ShownInv, StayDistinct
  <2>8. QueueInv'
    BY <1>1, <1>3 DEF QueueInv, StuckOnlyWhenAllAway
  <2>9. QED
    BY <2>3, <2>4, <2>5, <2>6, <2>7, <2>8
<1>4. QED
  BY <1>1, <1>2, <1>3

LEMMA V4lStep == ASSUME IInv, V4l!Next PROVE IInv'
<1> USE DEF V4l!Runs, V4l!Dispatches, V4l!setup, Dispatches, setup
<1>1. CASE V4l!frame_listener
  <2>1. program = "v4l" /\ Frames(V4l!redraw)
    BY <1>1, Zenon DEF V4l!frame_listener, V4l!Frames, Frames
  <2>2. Frames(Redraw)
    BY <2>1, V4lRedraw, Zenon DEF Frames
  <2>3. QED
    BY <2>2, FramesStep
<1>2. CASE V4l!xdg_surface_handle_configure
  <2>1. program = "v4l" /\ Configures(V4l!redraw)
    BY <1>2, Zenon DEF V4l!xdg_surface_handle_configure, V4l!Configures, Configures, V4l!Others, Others
  <2>2. Configures(Redraw)
    BY <2>1, V4lRedraw, Zenon DEF Configures
  <2>3. QED
    BY <2>2, ConfiguresStep
<1>3. CASE V4l!start_capture
  <2>1. program = "v4l" /\ (Begins(V4l!redraw) \/ Fails)
    BY <1>3, Zenon DEF V4l!start_capture, V4l!Begins, Begins, V4l!Fails, Fails, V4l!Others, Others,
                       V4l!Answered, Answered
  <2>2. Begins(Redraw) \/ Fails
    BY <2>1, V4lRedraw, Zenon DEF Begins
  <2>3. QED
    BY <2>2, BeginsStep, FailsStep
<1>4. CASE V4l!xdg_toplevel_handle_close \/ V4l!keyboard_handle_key
  <2>1. Sets("close", FALSE) \/ Sets("key", shell # "xdg")
    BY <1>4, Zenon DEF V4l!xdg_toplevel_handle_close, V4l!keyboard_handle_key, V4l!Sets, Sets
  <2>2. QED
    BY <2>1, SetsStep
<1>5. CASE V4l!main
  <2>1. Leave
    BY <1>5, Zenon DEF V4l!main, V4l!Leave, Leave, V4l!Freed, Freed, V4l!Unconnected, Unconnected,
                       V4l!Buffers, Buffers
  <2>2. QED
    BY <2>1, LeaveStep
<1>6. CASE V4l!signal_int
  <2>1. SigInt
    BY <1>6, Zenon DEF V4l!signal_int, V4l!SigInt, SigInt
  <2>2. QED
    BY <2>1, SigIntStep
<1>7. QED
  BY <1>1, <1>2, <1>3, <1>4, <1>5, <1>6, V4lSetUp, V4lImport, V4lAnswers, V4lRelease, V4lDequeue
  DEF V4l!Next

-----------------------------------------------------------------------------
(* simple-dmabuf-ion.c                                                     *)

LEMMA IonSetUp == ASSUME IInv, Ion!create_display \/ Ion!create_window PROVE IInv'
<1>1. CASE Ion!create_window
  <2>1. program = "ion" /\ Opens("buffers")
    BY <1>1, Zenon DEF Ion!create_window, Ion!Runs, Ion!Opens, Opens, Ion!Proceeds, Proceeds
  <2>2. QED
    BY <2>1, OpensStep
<1>2. CASE Ion!create_display
  <2>1. PICK can \in BOOLEAN : Proceeds("start", "window", can) /\ UNCHANGED <<options, window>>
    BY <1>2 DEF Ion!create_display, Ion!Proceeds, Proceeds, Ion!registry_handle_global
  <2>2. /\ options \in [immediate : BOOLEAN, sync : BOOLEAN]
        /\ window \in [initialized : BOOLEAN, waiting : BOOLEAN]
    BY DEF IInv, TypeInv
  <2>3. QED
    BY <2>1, <2>2, ProceedsStep
<1>3. QED
  BY <1>1, <1>2

LEMMA IonImport == ASSUME IInv, Ion!queue_initial_buffers PROVE IInv'
<1>1. PICK b \in Buffers :
        /\ program = "ion"
        /\ Turn(b)
        /\ \/ drawn' = {b} /\ Import(b, FALSE, "roundtrip")
           \/ phase' = "crashed" /\ UNCHANGED <<drawn, buffers, compositor>>
        /\ UNCHANGED <<program, options, running, window, events, fence>>
  BY Zenon DEF Ion!queue_initial_buffers, Ion!Buffers, Buffers, Ion!Runs, Ion!setup,
               Ion!Turn, Turn, Ion!Import, Import, Ion!Missing, Missing
<1>2. /\ ~options.immediate
      /\ drawn' \in SUBSET Buffers
      /\ phase = "buffers"
      /\ buffers \in [Buffers -> Record]
      /\ \A c \in Buffers : buffers[c].freed = 0
  BY <1>1 DEF IInv, TypeInv, Turn, FreedInv, SetUp
<1>3. CASE drawn' = {b} /\ Import(b, FALSE, "roundtrip")
  BY <1>1, <1>2, <1>3, ImportStep
<1>4. CASE phase' = "crashed" /\ UNCHANGED <<drawn, buffers, compositor>>
  BY <1>1, <1>2, <1>4, StopsStep
<1>5. QED
  BY <1>1, <1>3, <1>4

LEMMA IonAnswers == ASSUME IInv, Ion!create_succeeded \/ Ion!create_failed PROVE IInv'
<1>1. /\ program = "ion"
      /\ Answers("created", "here", 0) \/ Answers("failed", "failed", 1)
  BY Zenon DEF Ion!create_succeeded, Ion!create_failed, Ion!Runs, Ion!Answers, Ion!Dispatches, Ion!setup,
            Answers, Dispatches, setup
<1>2. "here" \notin FreedWithAnswer /\ "failed" \in FreedWithAnswer
  BY <1>1 DEF FreedWithAnswer
<1>3. QED
  BY <1>1, <1>2, AnswersStep

LEMMA IonRelease == ASSUME IInv, Ion!buffer_release PROVE IInv'
<1> DEFINE b == Head(events).buffer
<1>1. /\ program = "ion"
      /\ Dispatches("release")
      /\ buffers' = [buffers EXCEPT ![b].busy = FALSE]
      /\ drawn' = {b}
      /\ UNCHANGED <<phase, running, window, compositor, fence>>
  BY Zenon DEF Ion!buffer_release, Ion!queue_buffer, Ion!Runs, Ion!Dispatches, Ion!setup, Dispatches, setup
<1>2. b \in Buffers /\ buffers \in [Buffers -> Record] /\ running \in BOOLEAN
  <2>1. TypeInv /\ "release" \in Types
    BY DEF IInv, Types
  <2>2. QED
    BY <2>1, <1>1, Taken DEF TypeInv
<1> HIDE DEF b
<1>3. /\ buffers' \in [Buffers -> Record]
      /\ \A c \in Buffers : c # b => buffers'[c] = buffers[c]
      /\ buffers'[b].buffer = buffers[b].buffer
      /\ buffers'[b].freed = buffers[b].freed
      /\ ~buffers'[b].busy
      /\ buffers'[b].fenced <=> buffers[b].fenced \/ "release" = "fenced"
  BY <1>1, <1>2 DEF Record
<1>4. QED
  BY <1>1, <1>2, <1>3, ReturnStep DEF b

LEMMA IonStep == ASSUME IInv, Ion!Next PROVE IInv'
<1> USE DEF Ion!Runs, Ion!Dispatches, Ion!setup, Dispatches, setup
<1>1. CASE Ion!frame_listener
  <2>1. program = "ion" /\ Frames(Ion!redraw)
    BY <1>1, Zenon DEF Ion!frame_listener, Ion!Frames, Frames
  <2>2. Frames(Redraw)
    BY <2>1, IonRedraw, Zenon DEF Frames
  <2>3. QED
    BY <2>2, FramesStep
<1>2. CASE Ion!xdg_surface_handle_configure
  <2>1. program = "ion" /\ Configures(Ion!redraw)
    BY <1>2, Zenon DEF Ion!xdg_surface_handle_configure, Ion!Configures, Configures, Ion!Others, Others
  <2>2. Configures(Redraw)
    BY <2>1, IonRedraw, Zenon DEF Configures
  <2>3. QED
    BY <2>2, ConfiguresStep
<1>3. CASE Ion!main
  <2>1. /\ program = "ion"
        /\ \/ /\ phase = "start"
              /\ phase' = "crashed"
              /\ UNCHANGED <<program, options, window, events, running, buffers, compositor, drawn, fence>>
           \/ Begins(Ion!redraw)
           \/ Fails
           \/ Leave
    BY <1>3, Zenon DEF Ion!main, Ion!Begins, Begins, Ion!Fails, Fails, Ion!Others, Others, Ion!Answered, Answered,
                       Ion!Leave, Leave, Ion!Freed, Freed, Ion!Unconnected, Unconnected, Ion!Buffers, Buffers
  <2>2. CASE /\ phase = "start"
             /\ phase' = "crashed"
             /\ UNCHANGED <<program, options, window, events, running, buffers, compositor, drawn, fence>>
    <3>1. /\ buffers \in [Buffers -> Record]
          /\ drawn \in SUBSET Buffers
          /\ \A c \in Buffers : buffers[c].freed = 0
      BY <2>2 DEF IInv, TypeInv, FreedInv, SetUp
    <3>2. QED
      BY <2>2, <3>1, StopsStep
  <2>3. Begins(Ion!redraw) => Begins(Redraw)
    BY <2>1, IonRedraw, Zenon DEF Begins
  <2>4. QED
    BY <2>1, <2>2, <2>3, BeginsStep, FailsStep, LeaveStep
<1>4. CASE Ion!xdg_toplevel_handle_close \/ Ion!keyboard_handle_key
  <2>1. Sets("close", FALSE) \/ Sets("key", shell # "xdg")
    BY <1>4, Zenon DEF Ion!xdg_toplevel_handle_close, Ion!keyboard_handle_key, Ion!Sets, Sets
  <2>2. QED
    BY <2>1, SetsStep
<1>5. CASE Ion!signal_int
  <2>1. SigInt
    BY <1>5, Zenon DEF Ion!signal_int, Ion!SigInt, SigInt
  <2>2. QED
    BY <2>1, SigIntStep
<1>6. QED
  BY <1>1, <1>2, <1>3, <1>4, <1>5, IonSetUp, IonImport, IonAnswers, IonRelease DEF Ion!Next

-----------------------------------------------------------------------------
(* simple-dmabuf-drm.c                                                     *)

LEMMA DrmSetUp == ASSUME IInv, Drm!create_display \/ Drm!create_window PROVE IInv'
<1>1. CASE Drm!create_window
  <2>1. program = "drm" /\ Opens("buffers")
    BY <1>1, Zenon DEF Drm!create_window, Drm!Runs, Drm!Opens, Opens, Drm!Proceeds, Proceeds
  <2>2. QED
    BY <2>1, OpensStep
<1>2. CASE Drm!create_display
  <2>1. PICK can \in BOOLEAN : Proceeds("start", "window", can) /\ UNCHANGED <<options, window>>
    BY <1>2 DEF Drm!create_display, Drm!Proceeds, Proceeds, Drm!registry_handle_global
  <2>2. /\ options \in [immediate : BOOLEAN, sync : BOOLEAN]
        /\ window \in [initialized : BOOLEAN, waiting : BOOLEAN]
    BY DEF IInv, TypeInv
  <2>3. QED
    BY <2>1, <2>2, ProceedsStep
<1>3. QED
  BY <1>1, <1>2

LEMMA DrmImport == ASSUME IInv, Drm!create_dmabuf_buffer PROVE IInv'
<1>1. PICK b \in Buffers :
        /\ program = "drm"
        /\ Turn(b)
        /\ \/ /\ phase' \in {"crashed", "failed"}
              /\ UNCHANGED <<drawn, buffers, compositor>>
           \/ /\ phase' = "failed"
              /\ buffers' = [buffers EXCEPT ![b].freed = @ + 1]
              /\ UNCHANGED <<drawn, compositor>>
           \/ drawn' = {b} /\ Import(b, options.immediate, "roundtrip")
        /\ UNCHANGED <<program, options, running, window, events, fence>>
  <2>1. PICK b \in Buffers, made \in Drm!drm_device_init, exported \in BOOLEAN :
        /\ program = "drm"
        /\ Turn(b)
        /\ CASE made = "crash" ->
                  phase' = "crashed" /\ UNCHANGED <<drawn, buffers, compositor>>
             [] made # "memory" ->
                  phase' = "failed" /\ UNCHANGED <<drawn, buffers, compositor>>
             [] made = "memory" /\ ~exported ->
                  /\ phase' = "failed"
                  /\ buffers' = [buffers EXCEPT ![b].freed = @ + 1]
                  /\ UNCHANGED <<drawn, compositor>>
             [] OTHER ->
                  drawn' = {b} /\ Import(b, options.immediate, "roundtrip")
        /\ UNCHANGED <<program, options, running, window, events, fence>>
    BY Zenon DEF Drm!create_dmabuf_buffer, Drm!Buffers, Buffers, Drm!Runs, Drm!setup,
                 Drm!Turn, Turn, Drm!Import, Import, Drm!Missing, Missing
  <2>2. CASE made = "crash"
    BY <2>1, <2>2
  <2>3. CASE made # "memory" /\ made # "crash"
    BY <2>1, <2>3
  <2>4. CASE made = "memory" /\ ~exported
    BY <2>1, <2>4
  <2>5. CASE made = "memory" /\ exported
    BY <2>1, <2>5
  <2>6. QED
    BY <2>2, <2>3, <2>4, <2>5
<1>2. /\ options.immediate \in BOOLEAN
      /\ {b} \in SUBSET Buffers
      /\ drawn \in SUBSET Buffers
      /\ phase = "buffers"
      /\ buffers \in [Buffers -> Record]
      /\ \A c \in Buffers : buffers[c].freed = 0
  BY <1>1 DEF IInv, TypeInv, Turn, FreedInv, SetUp
<1>3. CASE drawn' = {b} /\ Import(b, options.immediate, "roundtrip")
  BY <1>1, <1>2, <1>3, ImportStep
<1>4. CASE phase' \in {"crashed", "failed"} /\ UNCHANGED <<drawn, buffers, compositor>>
  BY <1>1, <1>2, <1>4, StopsStep
<1>5. CASE /\ phase' = "failed"
           /\ buffers' = [buffers EXCEPT ![b].freed = @ + 1]
           /\ UNCHANGED <<drawn, compositor>>
  <2>1. /\ buffers' \in [Buffers -> Record]
        /\ \A c \in Buffers : /\ buffers'[c].busy = buffers[c].busy
                              /\ buffers'[c].fenced = buffers[c].fenced
                              /\ buffers'[c].buffer = buffers[c].buffer
                              /\ buffers'[c].freed \in {0, 1}
    BY <1>2, <1>5 DEF Record
  <2>2. QED
    BY <1>1, <1>2, <1>5, <2>1, StopsStep
<1>6. QED
  BY <1>1, <1>3, <1>4, <1>5

LEMMA DrmAnswers == ASSUME IInv, Drm!create_succeeded \/ Drm!create_failed PROVE IInv'
<1>1. /\ program = "drm"
      /\ Answers("created", "here", 0) \/ Answers("failed", "failed", 0)
  BY Zenon DEF Drm!create_succeeded, Drm!create_failed, Drm!Runs, Drm!Answers, Drm!Dispatches, Drm!setup,
            Answers, Dispatches, setup
<1>2. "here" \notin FreedWithAnswer /\ "failed" \notin FreedWithAnswer
  BY <1>1 DEF FreedWithAnswer
<1>3. QED
  BY <1>1, <1>2, AnswersStep

LEMMA DrmRelease == ASSUME IInv, Drm!buffer_release PROVE IInv'
<1> DEFINE b == Head(events).buffer
<1>1. /\ program = "drm"
      /\ Dispatches("release")
      /\ buffers' = [buffers EXCEPT ![b].busy = FALSE]
      /\ UNCHANGED <<phase, running, window, compositor, drawn, fence>>
  BY Zenon DEF Drm!buffer_release, Drm!Runs, Drm!Dispatches, Drm!setup, Dispatches, setup
<1>2. b \in Buffers /\ buffers \in [Buffers -> Record] /\ running \in BOOLEAN
  <2>1. TypeInv /\ "release" \in Types
    BY DEF IInv, Types
  <2>2. QED
    BY <2>1, <1>1, Taken DEF TypeInv
<1> HIDE DEF b
<1>3. /\ buffers' \in [Buffers -> Record]
      /\ \A c \in Buffers : c # b => buffers'[c] = buffers[c]
      /\ buffers'[b].buffer = buffers[b].buffer
      /\ buffers'[b].freed = buffers[b].freed
      /\ ~buffers'[b].busy
      /\ buffers'[b].fenced <=> buffers[b].fenced \/ "release" = "fenced"
  BY <1>1, <1>2 DEF Record
<1>4. QED
  BY <1>1, <1>2, <1>3, ReturnStep DEF b

LEMMA DrmStep == ASSUME IInv, Drm!Next PROVE IInv'
<1> USE DEF Drm!Runs, Drm!Dispatches, Drm!setup, Dispatches, setup
<1>1. CASE Drm!frame_listener
  <2>1. program = "drm" /\ Frames(Drm!redraw)
    BY <1>1, Zenon DEF Drm!frame_listener, Drm!Frames, Frames
  <2>2. Frames(Redraw)
    BY <2>1, DrmRedraw, Zenon DEF Frames
  <2>3. QED
    BY <2>2, FramesStep
<1>2. CASE Drm!xdg_surface_handle_configure
  <2>1. program = "drm" /\ Configures(Drm!redraw)
    BY <1>2, Zenon DEF Drm!xdg_surface_handle_configure, Drm!Configures, Configures, Drm!Others, Others
  <2>2. Configures(Redraw)
    BY <2>1, DrmRedraw, Zenon DEF Configures
  <2>3. QED
    BY <2>2, ConfiguresStep
<1>3. CASE Drm!main
  <2>1. program = "drm" /\ (Begins(Drm!redraw) \/ Fails \/ Leave)
    BY <1>3, Zenon DEF Drm!main, Drm!destroy_window, Drm!Begins, Begins, Drm!Fails, Fails, Drm!Others, Others,
                       Drm!Answered, Answered, Drm!Leave, Leave, Drm!Freed, Freed,
                       Drm!Unconnected, Unconnected, Drm!Buffers, Buffers
  <2>2. Begins(Drm!redraw) => Begins(Redraw)
    BY <2>1, DrmRedraw, Zenon DEF Begins
  <2>3. QED
    BY <2>1, <2>2, BeginsStep, FailsStep, LeaveStep
<1>4. CASE Drm!xdg_toplevel_handle_close
  <2>1. Sets("close", FALSE)
    BY <1>4, Zenon DEF Drm!xdg_toplevel_handle_close, Drm!Sets, Sets
  <2>2. QED
    BY <2>1, SetsStep
<1>5. CASE Drm!signal_int
  <2>1. SigInt
    BY <1>5, Zenon DEF Drm!signal_int, Drm!SigInt, SigInt
  <2>2. QED
    BY <2>1, SigIntStep
<1>6. QED
  BY <1>1, <1>2, <1>3, <1>4, <1>5, DrmSetUp, DrmImport, DrmAnswers, DrmRelease DEF Drm!Next

-----------------------------------------------------------------------------
(* simple-dmabuf-egl-yuv-on-osd.c                                          *)

LEMMA EglSetUp == ASSUME IInv, Egl!create_display \/ Egl!create_window PROVE IInv'
<1>1. CASE Egl!create_window
  <2>1. program = "egl" /\ Opens("buffers")
    BY <1>1, Zenon DEF Egl!create_window, Egl!Runs, Egl!Opens, Opens, Egl!Proceeds, Proceeds
  <2>2. QED
    BY <2>1, OpensStep
<1>2. CASE Egl!create_display
  <2>1. PICK egl \in Egl!display_set_up_egl, globals \in Egl!Globals :
           /\ \E can \in BOOLEAN : Proceeds("start", "window", can)
           /\ options' = [options EXCEPT !.sync = @ /\ globals.sync /\ egl = "fences"]
           /\ UNCHANGED window
    <3>1. PICK egl \in Egl!display_set_up_egl, globals \in Egl!Globals :
           /\ Proceeds("start", "window",
                       Egl!registry_handle_global(globals) /\ globals.format /\ egl # "nothing")
           /\ options' = [options EXCEPT !.sync = @ /\ globals.sync /\ egl = "fences"]
           /\ UNCHANGED window
      BY <1>2, Zenon DEF Egl!create_display, Egl!Proceeds, Proceeds
    <3>2. (Egl!registry_handle_global(globals) /\ globals.format /\ egl # "nothing") \in BOOLEAN
      BY Zenon
    <3>3. QED
      BY <3>1, <3>2, Zenon
  <2> DEFINE both == options.sync /\ globals.sync /\ egl = "fences"
  <2>2. options \in [immediate : BOOLEAN, sync : BOOLEAN] /\ window \in [initialized : BOOLEAN, waiting : BOOLEAN]
    BY DEF IInv, TypeInv
  <2>3. both \in BOOLEAN /\ options' = [options EXCEPT !.sync = both]
    BY <2>1, Zenon
  <2> HIDE DEF both
  <2>4. options' \in [immediate : BOOLEAN, sync : BOOLEAN] /\ options'.immediate = options.immediate
    BY <2>2, <2>3
  <2>5. QED
    BY <2>1, <2>2, <2>4, ProceedsStep
<1>3. QED
  BY <1>1, <1>2

\* What destroy_window frees of buffers that were not freed yet.
LEMMA EglDestroys ==
  ASSUME NEW bufs \in [Buffers -> Record]
  PROVE  /\ Egl!destroy_window(bufs) \in [Buffers -> Record]
         /\ \A c \in Buffers :
               /\ Egl!destroy_window(bufs)[c].busy = bufs[c].busy
               /\ Egl!destroy_window(bufs)[c].fenced = bufs[c].fenced
               /\ Egl!destroy_window(bufs)[c].buffer = bufs[c].buffer
               /\ Egl!destroy_window(bufs)[c].freed =
                     bufs[c].freed + (IF bufs[c].buffer = "here" THEN 1 ELSE 0)
<1> DEFINE new == Egl!destroy_window(bufs)
           once(c) == IF bufs[c].buffer = "here" THEN 1 ELSE 0
<1>1. new = [c \in Buffers |-> [bufs[c] EXCEPT !.freed = @ + once(c)]]
  BY Zenon DEF Egl!destroy_window, Egl!Buffers, Buffers
<1>2. \A c \in Buffers : once(c) \in Nat /\ bufs[c] \in Record /\ bufs[c].freed + once(c) \in Nat
  BY DEF Record
<1> HIDE DEF once, new
<1>3. \A c \in Buffers : new[c] = [bufs[c] EXCEPT !.freed = @ + once(c)]
  BY <1>1
<1>4. \A c \in Buffers : /\ new[c] \in Record
                         /\ new[c].busy = bufs[c].busy
                         /\ new[c].fenced = bufs[c].fenced
                         /\ new[c].buffer = bufs[c].buffer
                         /\ new[c].freed = bufs[c].freed + once(c)
  BY <1>2, <1>3 DEF Record
<1>5. new = [c \in Buffers |-> new[c]]
  BY <1>1
<1>6. new \in [Buffers -> Record]
  BY <1>4, <1>5
<1>7. QED
  BY <1>4, <1>6 DEF new, once

LEMMA EglImport == ASSUME IInv, Egl!create_dmabuf_buffer PROVE IInv'
<1>1. PICK b \in Buffers, memory \in BOOLEAN, image \in BOOLEAN :
        /\ program = "egl"
        /\ Turn(b)
        /\ IF memory /\ image
           THEN Import(b, options.immediate, "gl")
           ELSE /\ phase' = "failed"
                /\ buffers' = Egl!destroy_window(
                     [buffers EXCEPT ![b].buffer = IF memory /\ options.immediate THEN "here" ELSE "none",
                                     ![b].freed = @ + 1])
                /\ UNCHANGED compositor
        /\ UNCHANGED <<program, options, running, window, events, drawn, fence>>
  BY Zenon DEF Egl!create_dmabuf_buffer, Egl!Buffers, Buffers, Egl!Runs, Egl!setup,
               Egl!Turn, Turn, Egl!Import, Import, Egl!Missing, Missing
<1>2. /\ options.immediate \in BOOLEAN
      /\ drawn \in SUBSET Buffers
      /\ phase = "buffers"
      /\ buffers \in [Buffers -> Record]
      /\ buffers[b].buffer = "none"
      /\ \A c \in Buffers : /\ buffers[c].freed = 0
                            /\ buffers[c].buffer = "here" => options.immediate
  BY <1>1 DEF IInv, TypeInv, Turn, Missing, FreedInv, ImportInv, SetUp
<1>3. CASE memory /\ image
  BY <1>1, <1>2, <1>3, ImportStep
<1>4. CASE ~(memory /\ image)
  <2> DEFINE got == IF memory /\ options.immediate THEN "here" ELSE "none"
             rec == [buffers[b] EXCEPT !.buffer = got, !.freed = @ + 1]
             mid == [buffers EXCEPT ![b] = rec]
  <2>1. /\ phase' = "failed"
        /\ buffers' = Egl!destroy_window(mid)
        /\ UNCHANGED compositor
    <3>1. [buffers EXCEPT ![b].buffer = got, ![b].freed = @ + 1] = mid
      BY <1>2
    <3>2. QED
      BY <3>1, <1>1, <1>4
  <2>2. got \in {"here", "none"} /\ (got = "here" => options.immediate)
    OBVIOUS
  <2> HIDE DEF got
  <2>3. /\ rec \in Record
        /\ rec.buffer = got
        /\ rec.freed = 1
        /\ rec.busy = buffers[b].busy
        /\ rec.fenced = buffers[b].fenced
    <3>0. buffers[b] \in Record
      BY <1>2
    <3>1. /\ DOMAIN buffers[b] = {"buffer", "busy", "fenced", "freed"}
          /\ buffers[b].freed + 1 = 1
          /\ 1 \in Nat
      BY <1>2, <3>0 DEF Record
    <3>2. /\ rec.buffer = got
          /\ rec.freed = 1
          /\ rec.busy = buffers[b].busy
          /\ rec.fenced = buffers[b].fenced
      BY <3>1
    <3>3. rec \in Record
      BY <2>2, <3>0, <3>1 DEF Record
    <3>4. QED
      BY <3>2, <3>3
  <2> HIDE DEF rec
  <2>4. /\ mid \in [Buffers -> Record]
        /\ mid[b] = rec
        /\ \A c \in Buffers : c # b => mid[c] = buffers[c]
    BY <1>2, <2>3
  <2> HIDE DEF mid
  <2>5. /\ buffers' \in [Buffers -> Record]
        /\ \A c \in Buffers : /\ buffers'[c].busy = mid[c].busy
                              /\ buffers'[c].fenced = mid[c].fenced
                              /\ buffers'[c].buffer = mid[c].buffer
                              /\ buffers'[c].freed = mid[c].freed + (IF mid[c].buffer = "here" THEN 1 ELSE 0)
    BY <2>1, <2>4, EglDestroys
  <2>6. \A c \in Buffers : /\ buffers'[c].busy = buffers[c].busy
                           /\ buffers'[c].fenced = buffers[c].fenced
                           /\ buffers[c].buffer # "none" => buffers'[c].buffer = buffers[c].buffer
                           /\ buffers'[c].freed <= 2
                           /\ buffers'[c].freed > 1 => options.immediate
    BY <1>2, <2>2, <2>3, <2>4, <2>5
  <2>7. QED
    BY <1>1, <1>2, <2>1, <2>5, <2>6, StopsStep
<1>5. QED
  BY <1>3, <1>4

LEMMA EglGl == ASSUME IInv, Egl!window_set_up_gl PROVE IInv'
<1> USE DEF IInv
<1>1. /\ program = "egl"
      /\ phase = "gl"
      /\ \/ phase' = "roundtrip" /\ UNCHANGED buffers
         \/ phase' = "failed" /\ buffers' = Egl!destroy_window(buffers)
      /\ UNCHANGED <<program, options, running, window, compositor, events, drawn, fence>>
  BY Zenon DEF Egl!window_set_up_gl, Egl!Runs, Egl!setup
<1>2. /\ phase \in SetUp
      /\ phase \in Early
      /\ drawn \in SUBSET Buffers
      /\ buffers \in [Buffers -> Record]
      /\ \A c \in Buffers : buffers[c].freed = 0
  BY <1>1 DEF TypeInv, FreedInv, SetUp, Early
<1>3. CASE phase' = "failed" /\ buffers' = Egl!destroy_window(buffers)
  <2>1. /\ buffers' \in [Buffers -> Record]
        /\ \A c \in Buffers : /\ buffers'[c].busy = buffers[c].busy
                              /\ buffers'[c].fenced = buffers[c].fenced
                              /\ buffers'[c].buffer = buffers[c].buffer
                              /\ buffers'[c].freed \in {0, 1}
    BY <1>2, <1>3, EglDestroys
  <2>2. QED
    BY <1>1, <1>2, <1>3, <2>1, StopsStep
<1>4. CASE phase' = "roundtrip" /\ UNCHANGED buffers
  <2>1. phase' \in Early /\ phase' \notin SetUp \cup Shows
    BY <1>4 DEF Early, SetUp, Shows
  <2>2. Pending' = Pending /\ Lent' = Lent /\ StayDistinct
    BY <1>1, EventsKept DEF Pending, Lent
  <2>3. TypeInv'
    BY <1>1, <1>4 DEF TypeInv
  <2>4. EarlyInv'
    BY <1>1, <1>2, <1>4 DEF EarlyInv
  <2>5. ImportInv'
    BY <1>1, <1>2, <1>4, <2>1, <2>2 DEF ImportInv, StayDistinct
  <2>6. FreedInv'
    BY <1>1, <1>2, <1>4, <2>1 DEF FreedInv, FreedOnce, FreedWithAnswer
  <2>7. ShownInv'
    BY <1>1, <1>4, <2>1, <2>2 DEF ShownInv, StayDistinct
  <2>8. QueueInv'
    BY <1>1, <1>4 DEF QueueInv, StuckOnlyWhenAllAway
  <2>9. QED
    BY <2>3, <2>4, <2>5, <2>6, <2>7, <2>8
<1>5. QED
  BY <1>1, <1>3, <1>4

LEMMA EglAnswers == ASSUME IInv, Egl!create_succeeded \/ Egl!create_failed PROVE IInv'
<1>1. /\ program = "egl"
      /\ Answers("created", "here", 0) \/ Answers("failed", "failed", 0)
  BY Zenon DEF Egl!create_succeeded, Egl!create_failed, Egl!Runs, Egl!Answers, Egl!Dispatches, Egl!setup,
            Answers, Dispatches, setup
<1>2. "here" \notin FreedWithAnswer /\ "failed" \notin FreedWithAnswer
  BY <1>1 DEF FreedWithAnswer
<1>3. QED
  BY <1>1, <1>2, AnswersStep

LEMMA EglBack ==
  ASSUME IInv, NEW t \in {"release", "fenced"}, program = "egl", Egl!Back(t)
  PROVE  IInv'
<1> DEFINE b == Head(events).buffer
<1>1. /\ Dispatches(t)
      /\ buffers' = [buffers EXCEPT ![b].busy = FALSE, ![b].fenced = @ \/ t = "fenced"]
      /\ phase' = IF options.sync /\ buffers[b].fenced THEN "asserted" ELSE phase
      /\ UNCHANGED <<running, window, compositor, drawn, fence>>
  BY Zenon DEF Egl!Back, Egl!Dispatches, Egl!setup, Dispatches, setup
<1>2. /\ b \in Buffers
      /\ buffers \in [Buffers -> Record]
      /\ running \in BOOLEAN
      /\ b \in Of(events, ReturnTypes)
  <2>1. TypeInv /\ t \in Types /\ t \in ReturnTypes
    BY DEF IInv, Types, ReturnTypes
  <2>2. QED
    BY <2>1, <1>1, Taken DEF TypeInv
<1> HIDE DEF b
<1>3. ~buffers[b].fenced
  BY <1>2 DEF IInv, ShownInv, Lent
<1>4. phase' = phase
  BY <1>1, <1>3
<1> DEFINE late == buffers[b].fenced \/ t = "fenced"
           rec == [buffers[b] EXCEPT !.busy = FALSE, !.fenced = late]
<1>5. late \in BOOLEAN /\ (late <=> buffers[b].fenced \/ t = "fenced")
  BY Zenon
<1>6. buffers' = [buffers EXCEPT ![b].busy = FALSE, ![b].fenced = late]
  BY <1>1, <1>2, Zenon
<1> HIDE DEF late
<1>7. buffers' = [buffers EXCEPT ![b] = rec]
  BY <1>2, <1>6
<1>8. /\ rec \in Record
      /\ rec.buffer = buffers[b].buffer
      /\ rec.freed = buffers[b].freed
      /\ rec.busy = FALSE
      /\ rec.fenced = late
  BY <1>2, <1>5 DEF Record
<1> HIDE DEF rec
<1>9. /\ buffers' \in [Buffers -> Record]
      /\ buffers'[b] = rec
      /\ \A c \in Buffers : c # b => buffers'[c] = buffers[c]
  BY <1>2, <1>7, <1>8
<1>10. QED
  BY <1>1, <1>2, <1>4, <1>5, <1>8, <1>9, ReturnStep DEF b

LEMMA EglRelease ==
  ASSUME IInv, Egl!buffer_release \/ Egl!buffer_immediate_release \/ Egl!buffer_fenced_release
  PROVE  IInv'
<1>1. program = "egl" /\ (Egl!Back("release") \/ Egl!Back("fenced"))
  BY Zenon DEF Egl!buffer_release, Egl!buffer_immediate_release, Egl!buffer_fenced_release, Egl!Runs
<1>2. QED
  BY <1>1, EglBack

LEMMA EglRender == ASSUME IInv, Egl!render PROVE IInv'
<1> USE DEF IInv
<1> DEFINE b == Egl!window_next_buffer
<1>1. /\ program = "egl"
      /\ phase = "render"
      /\ buffers[b].fenced => b \notin fence
      /\ buffers' = [buffers EXCEPT ![b].fenced = FALSE]
      /\ drawn' = {b}
      /\ phase' = "commit"
      /\ UNCHANGED <<program, options, running, window, compositor, events, fence>>
  BY Zenon DEF Egl!render, Egl!Runs, Egl!setup, Egl!wait_for_buffer_release_fence
<1>2. b \in Buffers \ Away
  <2>1. Away # Buffers
    BY <1>1 DEF QueueInv
  <2>2. Buffers \ Away # {}
    BY <2>1 DEF Away
  <2>3. QED
    BY <2>2, Least DEF Egl!window_next_buffer, Egl!Buffers, Buffers, Egl!Away, Away
<1> HIDE DEF b
<1>3. b \in Buffers /\ ~buffers[b].busy
  BY <1>2 DEF Away
<1>4. /\ buffers' \in [Buffers -> Record]
      /\ \A c \in Buffers : /\ buffers'[c].buffer = buffers[c].buffer
                            /\ buffers'[c].busy = buffers[c].busy
                            /\ buffers'[c].fenced <=> buffers[c].fenced /\ c # b
                            /\ buffers'[c].freed = buffers[c].freed
  BY <1>1, <1>3 DEF TypeInv, Record
<1>5. phase \in Shows /\ phase' \in Shows /\ phase' \notin Early /\ phase' \notin SetUp
  BY <1>1 DEF Shows, Early, SetUp
<1>6. Pending' = Pending /\ Lent' = Lent /\ SameEvents /\ StayDistinct
  BY <1>1, EventsKept DEF Pending, Lent
<1>7. b \notin Lent
  BY <1>3 DEF ShownInv
<1>8. b \notin fence
  BY <1>1, <1>7, DistinctPart DEF ShownInv, Lent
<1>9. TypeInv'
  BY <1>1, <1>3, <1>4, <1>5 DEF TypeInv
<1>10. EarlyInv'
  BY <1>5 DEF EarlyInv
<1>11. ImportInv'
  BY <1>1, <1>4, <1>5, <1>6 DEF ImportInv, StayDistinct
<1>12. FreedInv'
  BY <1>1, <1>4, <1>5 DEF FreedInv, FreedOnce
<1>13. ShownInv'
  <2>1. compositor'.held \cap Of(events, ReturnTypes)' = {}
    BY <1>1, <1>6 DEF ShownInv, SameEvents
  <2>2. \A c \in Lent' : buffers'[c].busy
    BY <1>4, <1>6, Known DEF ShownInv
  <2>3. \A c \in Buffers : buffers'[c].busy => ~buffers'[c].fenced /\ c \in Lent'
    BY <1>4, <1>5, <1>6 DEF ShownInv
  <2>4. \A c \in fence' : buffers'[c].fenced \/ c \in Of(events, FenceTypes)'
    BY <1>1, <1>4, <1>6, <1>8 DEF ShownInv, TypeInv, SameEvents
  <2>5. \A c \in drawn' : ~buffers'[c].busy /\ ~buffers'[c].fenced
    BY <1>1, <1>3, <1>4
  <2>6. program' = "egl"
    BY <1>1
  <2>7. QED
    BY <1>6, <2>1, <2>2, <2>3, <2>4, <2>5, <2>6 DEF ShownInv, StayDistinct
<1>14. QueueInv'
  BY <1>1 DEF QueueInv, StuckOnlyWhenAllAway
<1>15. QED
  BY <1>9, <1>10, <1>11, <1>12, <1>13, <1>14

LEMMA EglCommit == ASSUME IInv, Egl!create_egl_fence_fd PROVE IInv'
<1>1. /\ program = "egl"
      /\ phase = "commit"
      /\ phase' = "loop"
      /\ \E b \in drawn : Commit(b)
      /\ drawn' = {}
      /\ UNCHANGED <<program, options, running, window, events, fence>>
  BY Zenon DEF Egl!create_egl_fence_fd, Egl!Runs, Egl!setup, Egl!Commit, Commit
<1>2. PICK b \in drawn : Commit(b)
  BY <1>1
<1>3. QED
  BY <1>1, <1>2, CommitStep

LEMMA EglStep == ASSUME IInv, Egl!Next PROVE IInv'
<1> USE DEF Egl!Runs, Egl!Dispatches, Egl!setup, Dispatches, setup
<1>1. CASE Egl!frame_listener
  <2>1. program = "egl" /\ Frames(Egl!redraw)
    BY <1>1, Zenon DEF Egl!frame_listener, Egl!Frames, Frames
  <2>2. Frames(Redraw)
    BY <2>1, EglRedraw, Zenon DEF Frames
  <2>3. QED
    BY <2>2, FramesStep
<1>2. CASE Egl!xdg_surface_handle_configure
  <2>1. program = "egl" /\ Configures(Egl!redraw)
    BY <1>2, Zenon DEF Egl!xdg_surface_handle_configure, Egl!Configures, Configures, Egl!Others, Others
  <2>2. Configures(Redraw)
    BY <2>1, EglRedraw, Zenon DEF Configures
  <2>3. QED
    BY <2>2, ConfiguresStep
<1>3. CASE Egl!main
  <2>1. program = "egl" /\ (Begins(Egl!redraw) \/ Fails \/ Leave)
    BY <1>3, Zenon DEF Egl!main, Egl!Begins, Begins, Egl!Fails, Fails, Egl!Others, Others,
                       Egl!Answered, Answered, Egl!Leave, Leave, Egl!Freed, Freed,
                       Egl!Unconnected, Unconnected, Egl!Buffers, Buffers
  <2>2. Begins(Egl!redraw) => Begins(Redraw)
    BY <2>1, EglRedraw, Zenon DEF Begins
  <2>3. QED
    BY <2>1, <2>2, BeginsStep, FailsStep, LeaveStep
<1>4. CASE Egl!xdg_toplevel_handle_close
  <2>1. Sets("close", FALSE)
    BY <1>4, Zenon DEF Egl!xdg_toplevel_handle_close, Egl!Sets, Sets
  <2>2. QED
    BY <2>1, SetsStep
<1>5. CASE Egl!signal_int
  <2>1. SigInt
    BY <1>5, Zenon DEF Egl!signal_int, Egl!SigInt, SigInt
  <2>2. QED
    BY <2>1, SigIntStep
<1>6. QED
  BY <1>1, <1>2, <1>3, <1>4, <1>5, EglSetUp, EglImport, EglGl, EglAnswers, EglRelease, EglRender, EglCommit
  DEF Egl!Next

-----------------------------------------------------------------------------
LEMMA IInvStep == ASSUME IInv, [Next]_vars PROVE IInv'
BY OutsideStep, V4lStep, IonStep, DrmStep, EglStep, StutterStep DEF Next

LEMMA Invariance == Spec => []IInv
<1>1. Init => IInv
  BY InitIInv
<1>2. IInv /\ [Next]_vars => IInv'
  BY IInvStep
<1>3. QED
  BY <1>1, <1>2, PTL DEF Spec

(***************************************************************************)
(* Each variable has its type, no buffer is freed a third time, and the    *)
(* loop of main is only reached with every buffer imported                 *)
(* (simple-dmabuf-v4l.c:967): all the imports were answered, and a program *)
(* with a refused one does not begin.                                      *)
(***************************************************************************)
THEOREM SamplesTypes == Spec => []TypeOK
<1>1. IInv => TypeOK
  <2> SUFFICES ASSUME IInv PROVE TypeOK
    OBVIOUS
  <2> USE DEF IInv
  <2>1. buffers \in [Buffers -> [buffer : {"none", "asked", "here", "failed"}, busy : BOOLEAN,
                                 fenced : BOOLEAN, freed : 0 .. 2]]
    <3> DEFINE Small == [buffer : {"none", "asked", "here", "failed"}, busy : BOOLEAN,
                         fenced : BOOLEAN, freed : 0 .. 2]
    <3>1. \A b \in Buffers : buffers[b] \in Record /\ buffers[b].freed <= 2
      BY DEF TypeInv, FreedInv
    <3>2. \A b \in Buffers : buffers[b] \in Small
      BY <3>1 DEF Record
    <3> HIDE DEF Small
    <3>3. buffers \in [Buffers -> Small]
      BY <3>2 DEF TypeInv
    <3>4. QED
      BY <3>3 DEF Small
  <2>2. phase \in Shows => \A b \in Buffers : buffers[b].buffer = "here"
    BY DEF ImportInv
  <2>3. compositor.asked \subseteq Buffers /\ compositor.held \subseteq Buffers
    BY DEF TypeInv, Side
  <2>4. QED
    BY <2>1, <2>2, <2>3 DEF TypeInv, TypeOK, SetUp, Shows
<1>2. QED
  BY <1>1, Invariance, PTL

(***************************************************************************)
(* Nobody writes to a buffer the compositor shows or its GPU may still     *)
(* read, for any number of buffers (simple-dmabuf-v4l.c:168,               *)
(* simple-dmabuf-egl-yuv-on-osd.c:931): a busy buffer is with the          *)
(* compositor or on its way back, and what is drawn is not busy and has no *)
(* fence.                                                                  *)
(***************************************************************************)
THEOREM SamplesUntouched == Spec => []UntouchedWhileShown
<1>1. IInv => UntouchedWhileShown
  <2> SUFFICES ASSUME IInv, NEW b \in drawn PROVE b \notin compositor.held \cup fence
    BY DEF UntouchedWhileShown
  <2>1. ~buffers[b].busy /\ ~buffers[b].fenced /\ b \notin Lent
    BY DEF IInv, ShownInv
  <2>2. QED
    BY <2>1, DistinctPart DEF IInv, ShownInv, Lent
<1>2. QED
  BY <1>1, Invariance, PTL

(***************************************************************************)
(* The assertion of redraw fails only when the compositor has every buffer *)
(* or gave it back in an event that was not dispatched, no fence is        *)
(* overwritten, and the v4l sample does not wait for a camera without a    *)
(* buffer (simple-dmabuf-v4l.c:642), for any number of buffers.            *)
(***************************************************************************)
THEOREM SamplesStuck == Spec => []StuckOnlyWhenAllAway
<1>1. IInv => StuckOnlyWhenAllAway
  BY DEF IInv, QueueInv
<1>2. QED
  BY <1>1, Invariance, PTL

(***************************************************************************)
(* A program that ends freed every buffer, and none twice but for the two  *)
(* cases of the source (simple-dmabuf-v4l.c:625 and the failed image of    *)
(* the egl sample), for any number of buffers.                             *)
(***************************************************************************)
THEOREM SamplesFreed == Spec => []FreedOnce
<1>1. IInv => FreedOnce
  BY DEF IInv, FreedInv
<1>2. QED
  BY <1>1, Invariance, PTL
=============================================================================
