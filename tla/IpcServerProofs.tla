--------------------------- MODULE IpcServerProofs ---------------------------
(***************************************************************************)
(* IpcServer's safety properties hold for any number of clients, any set   *)
(* of descriptors and any table size.  IInv is inductive; the table part   *)
(* needs it because Remove only finds the slot to clear, and only finds    *)
(* one, when the table lists the open descriptors without repetition.      *)
(***************************************************************************)
EXTENDS IpcServer, TLAPS

LEMMA InitIInv == Init => IInv
<1> SUFFICES ASSUME Init PROVE IInv
  OBVIOUS
<1> USE ConnAssumption, FdAssumption, SizeAssumption DEF Init
<1>1. TypeOK
  BY DEF TypeOK, Rank, Slots
<1>2. WithinTable
  BY DEF WithinTable
<1>3. Held = {} /\ Open = {}
  BY DEF Held, Open
<1>4. TableConsistent
  BY <1>3 DEF TableConsistent, Slots
<1>5. MaxFdBoundsWatched
  BY DEF MaxFdBoundsWatched
<1>6. SnapshotLive /\ RoomToRead /\ StreamsByAuthor /\ RepliesToAsker
  BY DEF SnapshotLive, RoomToRead, StreamsByAuthor, RepliesToAsker
<1>7. StatusFollowsThread /\ FreedAfterExit
  BY DEF StatusFollowsThread, FreedAfterExit
<1>8. QED
  BY <1>1, <1>2, <1>4, <1>5, <1>6, <1>7 DEF IInv

\* What Remove does to the table, given that the table is right before.
LEMMA RemoveTable ==
  ASSUME TypeOK, WithinTable, TableConsistent, Serving,
         NEW i \in Open, Remove(i)
  PROVE  /\ connector_count > 0
         /\ connector_count' = connector_count - 1
         /\ sfd' \in [Slots -> Fds \cup {-1}]
         /\ owner' \in [Fds -> Conns \cup {NoConn}]
         /\ owner' = [owner EXCEPT ![i] = NoConn]
         /\ Open' = Open \ {i}
         /\ Held' = Open \ {i}
         /\ socket_set' = (Open \ {i}) \cup {SetupFd}
         /\ \A j, k \in 0 .. connector_count' - 1 : sfd'[j] = sfd'[k] => j = k
         /\ \A k \in Slots : k >= connector_count' => sfd'[k] = -1
         /\ max_fd' \in socket_set'
         /\ \A f \in socket_set' : f <= max_fd'
<1> USE FdAssumption, ConnAssumption, SizeAssumption
<1> DEFINE n == connector_count
<1>1. PICK k0 \in 0 .. n - 1 :
        /\ sfd[k0] = i
        /\ sfd' = [sfd EXCEPT ![k0] = sfd[n - 1], ![n - 1] = -1]
  BY DEF Remove
<1>2. /\ n \in Nat /\ n <= MaxConnector /\ n > 0 /\ n' = n - 1
      /\ sfd \in [Slots -> Fds \cup {-1}]
      /\ owner \in [Fds -> Conns \cup {NoConn}]
      /\ i \in Fds
      /\ owner' = [owner EXCEPT ![i] = NoConn]
      /\ socket_set' = socket_set \ {i}
  BY <1>1 DEF TypeOK, Remove, WithinTable, Open
<1>3. /\ Held = Open
      /\ socket_set = Open \cup {SetupFd}
      /\ \A j, k \in 0 .. n - 1 : sfd[j] = sfd[k] => j = k
      /\ \A k \in Slots : k >= n => sfd[k] = -1
  BY DEF TableConsistent
<1>4. k0 \in Slots /\ n - 1 \in Slots
  BY <1>1, <1>2 DEF Slots
<1>5. sfd' \in [Slots -> Fds \cup {-1}]
  BY <1>1, <1>2, <1>4
<1>6. \A k \in Slots : sfd'[k] = IF k = n - 1 THEN -1
                                 ELSE IF k = k0 THEN sfd[n - 1] ELSE sfd[k]
  BY <1>1, <1>2, <1>4
<1>7. \A j, k \in 0 .. n' - 1 : sfd'[j] = sfd'[k] => j = k
  <2>1. SUFFICES ASSUME NEW j \in 0 .. n - 2, NEW k \in 0 .. n - 2, sfd'[j] = sfd'[k]
                 PROVE  j = k
    BY <1>2
  <2>2. j \in Slots /\ k \in Slots /\ j # n - 1 /\ k # n - 1
    BY <1>2 DEF Slots
  <2>3. QED
    BY <2>1, <2>2, <1>1, <1>2, <1>3, <1>6
<1>8. \A k \in Slots : k >= n' => sfd'[k] = -1
  BY <1>2, <1>3, <1>6, <1>1 DEF Slots
<1>9. Held' = Held \ {i}
  <2>1. ASSUME NEW f \in Held' PROVE f \in Held \ {i}
    <3>1. PICK k \in 0 .. n - 2 : f = sfd'[k]
      BY <2>1, <1>2 DEF Held
    <3>2. k \in Slots /\ k # n - 1
      BY <1>2 DEF Slots
    <3>3. CASE k = k0
      <4>1. f = sfd[n - 1] /\ n - 1 # k0
        BY <3>1, <3>2, <3>3, <1>6
      <4>2. QED
        BY <4>1, <1>1, <1>2, <1>3 DEF Held
    <3>4. CASE k # k0
      <4>1. f = sfd[k]
        BY <3>1, <3>2, <3>4, <1>6
      <4>2. QED
        BY <4>1, <3>4, <1>1, <1>2, <1>3 DEF Held
    <3>5. QED
      BY <3>3, <3>4
  <2>2. ASSUME NEW f \in Held \ {i} PROVE f \in Held'
    <3>1. PICK k \in 0 .. n - 1 : f = sfd[k]
      BY DEF Held
    <3>2. k # k0 /\ k \in Slots
      BY <3>1, <1>1, <1>2 DEF Slots
    <3>3. CASE k = n - 1
      <4>1. k0 \in 0 .. n' - 1 /\ sfd'[k0] = f
        BY <3>1, <3>2, <3>3, <1>1, <1>2, <1>4, <1>6
      <4>2. QED
        BY <4>1 DEF Held
    <3>4. CASE k # n - 1
      <4>1. k \in 0 .. n' - 1 /\ sfd'[k] = f
        BY <3>1, <3>2, <3>4, <1>2, <1>6
      <4>2. QED
        BY <4>1 DEF Held
    <3>5. QED
      BY <3>3, <3>4
  <2>3. QED
    BY <2>1, <2>2
<1>10. Open' = Open \ {i}
  BY <1>2 DEF Open
<1>11. /\ max_fd' \in (Held \ {i}) \cup {SetupFd}
       /\ \A f \in (Held \ {i}) \cup {SetupFd} : f <= max_fd'
  BY DEF Remove
<1>12. socket_set' = (Open \ {i}) \cup {SetupFd}
  BY <1>2, <1>3
<1>13. owner' \in [Fds -> Conns \cup {NoConn}]
  BY <1>2
<1>14. QED
  BY <1>2, <1>3, <1>5, <1>7, <1>8, <1>9, <1>10, <1>11, <1>12, <1>13

-----------------------------------------------------------------------------
(* Types.                                                                  *)

LEMMA RankDomain ==
  DOMAIN Rank = {"SERVER_INITED", "SERVER_LISTENING", "SERVER_GOINGTOSTOP", "SERVER_STOPED"}
BY DEF Rank

\* A parsed request is a message and comes from the author of the fragments.
LEMMA ParsedMessage ==
  ASSUME NEW buf \in Seq(Fragments), Parsed(buf) # NoMsg
  PROVE  /\ buf # <<>>
         /\ Parsed(buf) = buf[1].msg
         /\ Parsed(buf) \in Messages
<1>1. buf # <<>> /\ Parsed(buf) = buf[1].msg
  BY DEF Parsed
<1>2. buf[1] \in Fragments
  BY <1>1
<1>3. QED
  BY <1>1, <1>2 DEF Fragments

LEMMA TypeStep == IInv /\ Next => TypeOK'
<1> SUFFICES ASSUME IInv, Next PROVE TypeOK'
  OBVIOUS
<1>0. TypeOK /\ WithinTable /\ TableConsistent /\ MaxFdBoundsWatched /\ SnapshotLive
     /\ RoomToRead
  BY DEF IInv
<1> USE ConnAssumption, FdAssumption, SizeAssumption, RankDomain
<1>1. CASE ThreadBegin \/ LoopTest \/ Select \/ ScanDone \/ ScanNext
  <2>1. CASE ThreadBegin
    BY <2>1, <1>0 DEF TypeOK, ThreadBegin, netVars, clientVars
  <2>2. CASE LoopTest
    BY <2>2, <1>0 DEF TypeOK, LoopTest, ctxVars, netVars, clientVars
  <2>3. CASE Select
    BY <2>3, <1>0 DEF TypeOK, Select, ctxVars, netVars, clientVars
  <2>4. CASE ScanDone
    BY <2>4, <1>0 DEF TypeOK, ScanDone, ctxVars, netVars, clientVars
  <2>5. CASE ScanNext
    BY <2>5, <1>0 DEF TypeOK, ScanNext, ctxVars, netVars, clientVars
  <2>6. QED
    BY <1>1, <2>1, <2>2, <2>3, <2>4, <2>5
<1>2. CASE Accept
  BY <1>2, <1>0 DEF TypeOK, Accept, AcceptedInto, clientVars, Slots, Open
<1>3. CASE AcceptOverrun
  BY <1>3, <1>0 DEF TypeOK, AcceptOverrun, AcceptedInto, clientVars, Open
<1>4. CASE AcceptFails
  BY <1>4, <1>0 DEF TypeOK, AcceptFails, ctxVars, netVars, clientVars
<1>5. ASSUME Remove(cur), pc = "read"
      PROVE  /\ socket_set' \in SUBSET (Fds \cup {SetupFd})
             /\ connector_count' \in 0 .. MaxConnector + 1
             /\ sfd' \in [Slots -> Fds \cup {-1}]
             /\ max_fd' \in Fds \cup {SetupFd}
             /\ owner' \in [Fds -> Conns \cup {NoConn}]
             /\ ended' \in SUBSET Conns
  <2>1. Serving /\ cur \in Open
    BY <1>5, <1>0 DEF Serving, SnapshotLive
  <2>2. owner[cur] \in Conns
    BY <2>1, <1>0 DEF Open, TypeOK
  <2>3. ended' = ended \cup {owner[cur]}
    BY <1>5 DEF Remove
  <2>4. Open \subseteq Fds /\ connector_count \in 0 .. MaxConnector + 1 /\ ended \subseteq Conns
    BY <1>0 DEF Open, TypeOK
  <2>5. /\ connector_count > 0 /\ connector_count' = connector_count - 1
        /\ sfd' \in [Slots -> Fds \cup {-1}]
        /\ owner' \in [Fds -> Conns \cup {NoConn}]
        /\ socket_set' = (Open \ {cur}) \cup {SetupFd}
        /\ max_fd' \in socket_set'
    BY <1>0, <1>5, <2>1, RemoveTable
  <2>6. connector_count' \in 0 .. MaxConnector + 1
    BY <2>4, <2>5
  <2>7. socket_set' \subseteq Fds \cup {SetupFd} /\ max_fd' \in Fds \cup {SetupFd}
    BY <2>4, <2>5
  <2>8. QED
    BY <2>2, <2>3, <2>4, <2>5, <2>6, <2>7
<1>6. CASE ReadData
  <2> DEFINE c    == owner[cur]
             room == MaxFragments - Len(buffer)
             n    == IF Len(inbox[c]) < room THEN Len(inbox[c]) ELSE room
             got  == buffer \o SubSeq(inbox[c], 1, n)
  <2>1. pc = "read" /\ cur \in Open /\ c \in Conns
    BY <1>6, <1>0 DEF ReadData, SnapshotLive, Open, TypeOK
  <2>2. inbox[c] \in Seq(Fragments) /\ buffer \in Seq(Fragments)
    BY <2>1, <1>0 DEF TypeOK
  <2>3. room \in Nat /\ n \in Nat /\ n <= Len(inbox[c])
    BY <2>1, <2>2, <1>0 DEF RoomToRead
  <2>4. SubSeq(inbox[c], 1, n) \in Seq(Fragments)
    BY <2>2, <2>3
  <2>5. got \in Seq(Fragments)
    BY <2>2, <2>4
  <2>6. SubSeq(inbox[c], n + 1, Len(inbox[c])) \in Seq(Fragments)
    BY <2>2, <2>3
  <2>7. inbox' = [inbox EXCEPT ![c] = SubSeq(@, n + 1, Len(@))]
    BY <1>6 DEF ReadData
  <2>8. inbox' \in [Conns -> Seq(Fragments)]
    BY <2>6, <2>7, <1>0 DEF TypeOK
  <2> HIDE DEF c, room, n, got
  <2>9. /\ socket_set' \in SUBSET (Fds \cup {SetupFd})
        /\ connector_count' \in 0 .. MaxConnector + 1
        /\ sfd' \in [Slots -> Fds \cup {-1}]
        /\ max_fd' \in Fds \cup {SetupFd}
        /\ owner' \in [Fds -> Conns \cup {NoConn}]
        /\ ended' \in SUBSET Conns
    <3>1. \/ UNCHANGED <<socket_set, connector_count, sfd, max_fd, owner, ended>>
          \/ Remove(cur)
      BY <1>6 DEF ReadData
    <3>2. QED
      BY <3>1, <2>1, <1>5, <1>0 DEF TypeOK
  <2>10. /\ buffer' = <<>> \/ buffer' = got
         /\ msg' = msg \/ (msg' = Parsed(got) /\ Parsed(got) # NoMsg)
         /\ pc' \in {"read", "handle", "scan"}
    BY <1>6, <2>1 DEF ReadData, c, room, n, got
  <2>11. buffer' \in Seq(Fragments) /\ msg' \in Messages \cup {NoMsg}
    <3>1. buffer \in Seq(Fragments) /\ msg \in Messages \cup {NoMsg}
      BY <1>0 DEF TypeOK
    <3>2. Parsed(got) # NoMsg => Parsed(got) \in Messages
      BY <2>5, ParsedMessage
    <3>3. <<>> \in Seq(Fragments)
      OBVIOUS
    <3>4. QED
      BY <2>5, <2>10, <3>1, <3>2, <3>3
  <2>12. QED
    BY <1>6, <2>8, <2>9, <2>10, <2>11, <1>0 DEF TypeOK, ReadData, clientVars
<1>7. CASE ReadEnd
  <2>1. pc = "read" /\ Remove(cur)
    BY <1>7 DEF ReadEnd
  <2>2. QED
    BY <1>7, <2>1, <1>5, <1>0 DEF TypeOK, ReadEnd, clientVars
<1>8. CASE Handle
  <2>1. pc = "handle" /\ cur \in Open /\ owner[cur] \in Conns
    BY <1>8, <1>0 DEF Handle, SnapshotLive, Open, TypeOK
  <2>2. msg \in Messages
    BY <1>8 DEF IInv, StreamsByAuthor, Handle
  <2>3. Append(outbox[owner[cur]], msg) \in Seq(Messages)
    BY <2>1, <2>2, <1>0 DEF TypeOK
  <2>4. outbox' \in [Conns -> Seq(Messages)]
    <3>1. outbox \in [Conns -> Seq(Messages)]
      BY <1>0 DEF TypeOK
    <3>2. \/ outbox' = outbox
          \/ outbox' = [outbox EXCEPT ![owner[cur]] = Append(outbox[owner[cur]], msg)]
      BY <1>8 DEF Handle
    <3>3. QED
      BY <2>1, <2>3, <3>1, <3>2
  <2>5. QED
    BY <1>8, <2>4, <1>0 DEF TypeOK, Handle, ctxVars, clientVars
<1>9. CASE Leave
  <2>1. Held \subseteq Fds /\ \A f \in Held : owner[f] \in Conns
    BY <1>9, <1>0 DEF Leave, TableConsistent, Serving, Open, TypeOK
  <2>2. QED
    BY <1>9, <2>1, <1>0 DEF TypeOK, Leave, clientVars
<1>10. CASE MainStep
  <2> USE <1>0 DEF TypeOK, ctxVars, threadVars, netVars, clientVars
  <2>1. CASE Start
    BY <2>1 DEF Start
  <2>2. CASE DestroyInited
    BY <2>2 DEF DestroyInited
  <2>3. CASE DestroyListening
    BY <2>3 DEF DestroyListening
  <2>4. CASE Wake
    BY <2>4 DEF Wake
  <2>5. CASE WakeFails
    BY <2>5 DEF WakeFails
  <2>6. CASE Spin
    BY <2>6 DEF Spin
  <2>7. CASE CloseListener
    <3>1. \A k \in 1 .. Len(backlog) : backlog[k] \in Conns
      OBVIOUS
    <3>2. ended' \subseteq Conns /\ backlog' \in Seq(Conns)
      BY <2>7, <3>1 DEF CloseListener
    <3>3. QED
      BY <2>7, <3>2 DEF CloseListener
  <2>8. CASE Join
    BY <2>8 DEF Join
  <2>9. QED
    BY <1>10, <2>1, <2>2, <2>3, <2>4, <2>5, <2>6, <2>7, <2>8 DEF MainStep
<1>11. ASSUME NEW c \in Clients, ClientStep(c) PROVE TypeOK'
  <2> USE <1>0 DEF TypeOK, ctxVars, threadVars, netVars, clientVars
  <2>0. c \in Conns
    OBVIOUS
  <2>1. CASE Connect(c)
    BY <2>0, <2>1 DEF Connect
  <2>02. inbox \in [Conns -> Seq(Fragments)] /\ writing \in [Clients -> Messages \cup {NoMsg}]
    OBVIOUS
  <2>2. ASSUME NEW kind \in Kinds, NEW next \in {"up", "sync", "wait"}, Write(c, kind, next)
        PROVE TypeOK'
    <3> DEFINE m == [from |-> c, kind |-> kind]
    <3>1. m \in Messages /\ Whole(m) \in Fragments /\ Front(m) \in Fragments
      BY <2>0, <2>2 DEF Messages, Whole, Front, Fragments
    <3> HIDE DEF m
    <3>2. /\ Append(inbox[c], Whole(m)) \in Seq(Fragments)
          /\ Append(inbox[c], Front(m)) \in Seq(Fragments)
      BY <2>0, <3>1
    <3>3. /\ \/ inbox' = [inbox EXCEPT ![c] = Append(inbox[c], Whole(m))]
             \/ inbox' = [inbox EXCEPT ![c] = Append(inbox[c], Front(m))]
          /\ writing' = writing \/ writing' = [writing EXCEPT ![c] = m]
      BY <2>2 DEF Write, m
    <3>4. inbox' \in [Conns -> Seq(Fragments)]
      <4> HIDE <1>0
      <4>1. QED
        BY <2>0, <2>02, <3>2, <3>3
    <3>5. writing' \in [Clients -> Messages \cup {NoMsg}]
      <4> HIDE <1>0
      <4>1. QED
        BY <2>02, <3>1, <3>3
    <3>6. /\ client' \in [Conns -> {"idle", "up", "sync", "wait", "closed"}]
          /\ sends' \in [Clients -> Nat]
      BY <2>0, <2>2 DEF Write
    <3>7. UNCHANGED <<status, socket_set, connector_count, sfd, max_fd, pc, set, cur,
                      buffer, msg, listening, backlog, owner, ended, outbox, main>>
      <4> HIDE <1>0
      <4>1. QED
        BY <2>2 DEF Write
    <3>8. QED
      BY <3>4, <3>5, <3>6, <3>7
  <2>3. CASE Tell(c) \/ Ask(c) \/ SyncSend(c) \/ SyncWait(c)
    BY <2>2, <2>3 DEF Tell, Ask, SyncSend, SyncWait, Kinds
  <2>4. CASE FinishWrite(c)
    <3>1. writing[c] \in Messages
      BY <2>4 DEF FinishWrite
    <3>2. Back(writing[c]) \in Fragments
      BY <3>1 DEF Back, Fragments
    <3>3. Append(inbox[c], Back(writing[c])) \in Seq(Fragments)
      BY <3>2, <2>0
    <3>4. QED
      BY <2>4, <3>3, <2>0 DEF FinishWrite
  <2>5. CASE Receive(c)
    BY <2>0, <2>5 DEF Receive
  <2>6. CASE Disconnected(c)
    BY <2>0, <2>6 DEF Disconnected
  <2>7. CASE Close(c)
    BY <2>0, <2>7 DEF Close
  <2>8. QED
    BY <1>11, <2>1, <2>3, <2>4, <2>5, <2>6, <2>7 DEF ClientStep
<1>12. QED
  BY <1>1, <1>2, <1>3, <1>4, <1>6, <1>7, <1>8, <1>9, <1>10, <1>11 DEF Next, ServerStep

-----------------------------------------------------------------------------
(* The descriptor table.                                                   *)

TableInv == WithinTable /\ TableConsistent /\ MaxFdBoundsWatched /\ SnapshotLive

\* A step that leaves the table, the connections behind the descriptors and the
\* thread's position alone keeps all of it.
LEMMA TableUntouched ==
  ASSUME TableInv,
         UNCHANGED <<socket_set, connector_count, sfd, max_fd, owner>>,
         pc' = pc, set' = set, cur' = cur
  PROVE  TableInv'
<1>1. Held' = Held /\ Open' = Open /\ Serving' = Serving
  BY DEF Held, Open, Serving
<1>2. QED
  BY <1>1 DEF TableInv, WithinTable, TableConsistent, MaxFdBoundsWatched, SnapshotLive

LEMMA AcceptTable == IInv /\ Accept => TableInv'
<1> SUFFICES ASSUME IInv, Accept PROVE TableInv'
  OBVIOUS
<1> USE ConnAssumption, FdAssumption, SizeAssumption
<1> DEFINE n == connector_count
<1>1. TypeOK /\ WithinTable /\ TableConsistent /\ MaxFdBoundsWatched /\ SnapshotLive
  BY DEF IInv
<1>2. /\ pc = "accept" /\ pc' = "scan" /\ set' = set
      /\ n < MaxConnector /\ backlog # <<>>
  BY DEF Accept
<1>3. Serving /\ Serving'
  BY <1>2 DEF Serving
<1>4. PICK fd \in Fds \ Open :
        /\ owner' = [owner EXCEPT ![fd] = Head(backlog)]
        /\ socket_set' = socket_set \cup {fd}
        /\ n' = n + 1
        /\ sfd' = [sfd EXCEPT ![n] = fd]
        /\ max_fd' = IF max_fd > fd THEN max_fd ELSE fd
  BY DEF Accept, AcceptedInto
<1>5. Head(backlog) \in Conns
  BY <1>1, <1>2 DEF TypeOK
<1>6. n \in Nat /\ n \in Slots /\ sfd \in [Slots -> Fds \cup {-1}]
  BY <1>1, <1>2 DEF TypeOK, Slots
<1>7. Open' = Open \cup {fd}
  BY <1>1, <1>4, <1>5 DEF Open, TypeOK
<1>8. \A k \in Slots : sfd'[k] = IF k = n THEN fd ELSE sfd[k]
  BY <1>4, <1>6
<1>9. Held' = Held \cup {fd}
  <2>1. \A k \in 0 .. n - 1 : k \in Slots /\ k # n
    BY <1>2, <1>6 DEF Slots
  <2>2. Held' \subseteq Held \cup {fd}
    BY <1>4, <1>6, <1>8, <2>1 DEF Held
  <2>3. Held \subseteq Held'
    BY <1>4, <1>6, <1>8, <2>1 DEF Held
  <2>4. fd \in Held'
    BY <1>4, <1>6, <1>8 DEF Held
  <2>5. QED
    BY <2>2, <2>3, <2>4
<1>10. fd \notin Held /\ Held = Open
  BY <1>1, <1>3, <1>4 DEF TableConsistent
<1>11. \A j, k \in 0 .. n' - 1 : sfd'[j] = sfd'[k] => j = k
  <2>1. SUFFICES ASSUME NEW j \in 0 .. n, NEW k \in 0 .. n, sfd'[j] = sfd'[k]
                 PROVE  j = k
    BY <1>4, <1>6
  <2>2. j \in Slots /\ k \in Slots
    BY <1>2, <1>6 DEF Slots
  <2>3. \A x \in 0 .. n - 1 : sfd[x] # fd
    BY <1>10 DEF Held
  <2>4. \A x, y \in 0 .. n - 1 : sfd[x] = sfd[y] => x = y
    BY <1>1, <1>3 DEF TableConsistent
  <2>5. QED
    BY <2>1, <2>2, <2>3, <2>4, <1>6, <1>8
<1>12. \A k \in Slots : k >= n' => sfd'[k] = -1
  BY <1>1, <1>3, <1>4, <1>6, <1>8 DEF TableConsistent, Slots
<1>13. TableConsistent'
  BY <1>1, <1>3, <1>4, <1>7, <1>9, <1>10, <1>11, <1>12 DEF TableConsistent
<1>14. MaxFdBoundsWatched'
  BY <1>1, <1>3, <1>4 DEF MaxFdBoundsWatched, TypeOK
<1>15. SnapshotLive'
  BY <1>1, <1>2, <1>3, <1>7 DEF SnapshotLive
<1>16. WithinTable'
  BY <1>2, <1>4, <1>6 DEF WithinTable
<1>17. QED
  BY <1>13, <1>14, <1>15, <1>16 DEF TableInv

\* Removing the descriptor in hand leaves no trace of it anywhere, the rest of
\* the snapshot included: a snapshot never names the descriptor in hand.
LEMMA RemoveKeepsTable ==
  ASSUME IInv, pc = "read", cur \notin set, Remove(cur), pc' = "scan", set' = set
  PROVE  TableInv'
<1> USE FdAssumption, SizeAssumption
<1>1. TypeOK /\ WithinTable /\ TableConsistent /\ MaxFdBoundsWatched /\ SnapshotLive
  BY DEF IInv
<1>2. Serving /\ Serving' /\ cur \in Open
  BY <1>1 DEF Serving, SnapshotLive
<1>3. /\ connector_count > 0
      /\ connector_count' = connector_count - 1
      /\ Open' = Open \ {cur}
      /\ Held' = Open \ {cur}
      /\ socket_set' = (Open \ {cur}) \cup {SetupFd}
      /\ \A j, k \in 0 .. connector_count' - 1 : sfd'[j] = sfd'[k] => j = k
      /\ \A k \in Slots : k >= connector_count' => sfd'[k] = -1
      /\ max_fd' \in socket_set'
      /\ \A f \in socket_set' : f <= max_fd'
  BY <1>1, <1>2, RemoveTable
<1>4. WithinTable'
  BY <1>1, <1>2, <1>3 DEF WithinTable, TypeOK
<1>5. TableConsistent'
  BY <1>3 DEF TableConsistent
<1>6. MaxFdBoundsWatched'
  BY <1>3 DEF MaxFdBoundsWatched
<1>7. SnapshotLive'
  BY <1>1, <1>2, <1>3 DEF SnapshotLive
<1>8. QED
  BY <1>4, <1>5, <1>6, <1>7 DEF TableInv

LEMMA TableStep == IInv /\ Next => TableInv'
<1> SUFFICES ASSUME IInv, Next PROVE TableInv'
  OBVIOUS
<1> USE ConnAssumption, FdAssumption, SizeAssumption
<1>0. TableInv /\ TypeOK
  BY DEF IInv, TableInv
<1>1. ASSUME UNCHANGED <<socket_set, connector_count, sfd, max_fd, owner>>,
             Serving' = Serving,
             set' \subseteq set,
             pc' \in {"read", "handle"} => cur' \in Open \ set'
      PROVE  TableInv'
  <2>1. Held' = Held /\ Open' = Open
    BY <1>1 DEF Held, Open
  <2>2. QED
    BY <1>0, <1>1, <2>1
       DEF TableInv, WithinTable, TableConsistent, MaxFdBoundsWatched, SnapshotLive
<1>2. CASE ThreadBegin \/ LoopTest \/ ScanDone \/ AcceptFails
  <2>1. /\ UNCHANGED <<socket_set, connector_count, sfd, max_fd, owner, set>>
        /\ pc \notin {"exited", "overrun"} /\ pc' \notin {"exited", "overrun", "read", "handle"}
    BY <1>2 DEF ThreadBegin, LoopTest, ScanDone, AcceptFails, ctxVars, netVars
  <2>2. QED
    BY <1>1, <2>1 DEF Serving
<1>3. CASE Select
  <2>1. /\ UNCHANGED <<socket_set, connector_count, sfd, max_fd, owner>>
        /\ Serving /\ Serving' /\ pc' \notin {"read", "handle"}
        /\ set' \subseteq socket_set \/ set' = set
    BY <1>3 DEF Select, ctxVars, netVars, Serving
  <2>2. Held' = Held /\ Open' = Open /\ socket_set = Open \cup {SetupFd}
    BY <1>0, <2>1 DEF Held, Open, TableInv, TableConsistent
  <2>3. QED
    BY <1>0, <2>1, <2>2
       DEF TableInv, WithinTable, TableConsistent, MaxFdBoundsWatched, SnapshotLive
<1>4. CASE ScanNext
  <2>1. /\ UNCHANGED <<socket_set, connector_count, sfd, max_fd, owner>>
        /\ Serving /\ Serving'
        /\ cur' \in set /\ set' = set \ {cur'}
        /\ pc' = IF cur' = SetupFd THEN "accept" ELSE "read"
    BY <1>4 DEF ScanNext, ctxVars, netVars, Serving
  <2>2. set \subseteq Open \cup {SetupFd}
    BY <1>0, <2>1 DEF TableInv, SnapshotLive
  <2>3. QED
    BY <1>1, <2>1, <2>2
<1>5. CASE Accept
  BY <1>5, AcceptTable
<1>6. CASE AcceptOverrun
  BY <1>6 DEF AcceptOverrun, TableInv, WithinTable, TableConsistent,
              MaxFdBoundsWatched, SnapshotLive, Serving
<1>7. CASE ReadData
  <2>1. pc = "read" /\ cur \in Open \ set /\ set' = set /\ cur' = cur
    BY <1>7, <1>0 DEF ReadData, TableInv, SnapshotLive
  <2>2. \/ /\ UNCHANGED <<socket_set, connector_count, sfd, max_fd, owner>>
           /\ pc' \in {"read", "handle"}
        \/ Remove(cur) /\ pc' = "scan"
    BY <1>7, <2>1 DEF ReadData
  <2>3. QED
    BY <1>1, <2>1, <2>2, RemoveKeepsTable DEF Serving
<1>8. CASE ReadEnd
  <2>1. pc = "read" /\ cur \in Open \ set /\ set' = set /\ Remove(cur) /\ pc' = "scan"
    BY <1>8, <1>0 DEF ReadEnd, TableInv, SnapshotLive
  <2>2. QED
    BY <2>1, RemoveKeepsTable
<1>9. CASE Handle
  <2>1. /\ UNCHANGED <<socket_set, connector_count, sfd, max_fd, owner, set>>
        /\ pc = "handle" /\ pc' \in {"scan", "killed"}
    BY <1>9 DEF Handle, ctxVars
  <2>2. QED
    BY <1>1, <2>1 DEF Serving
<1>10. CASE Leave
  BY <1>10 DEF Leave, TableInv, WithinTable, TableConsistent, MaxFdBoundsWatched,
               SnapshotLive, Serving
<1>11. CASE Start
  <2>1. /\ UNCHANGED <<socket_set, connector_count, sfd, max_fd, owner, set>>
        /\ UNCHANGED pc \/ (pc = "none" /\ pc' = "ready")
    <3>1. main = "created" => pc = "none"
      BY DEF IInv, StatusFollowsThread
    <3>2. QED
      BY <1>11, <3>1 DEF Start, ctxVars, netVars
  <2>2. QED
    BY <1>0, <1>1, <1>11, <2>1 DEF Serving, Start, TableInv, SnapshotLive
<1>12. CASE MainStep /\ ~Start
  <2>1. /\ UNCHANGED <<socket_set, connector_count, sfd, max_fd, owner>>
        /\ UNCHANGED <<pc, set, cur>>
    BY <1>12 DEF MainStep, DestroyInited, DestroyListening, Wake, WakeFails, Spin,
                 CloseListener, Join, ctxVars, threadVars, netVars
  <2>2. QED
    BY <1>0, <2>1, TableUntouched
<1>13. ASSUME NEW c \in Clients, ClientStep(c) PROVE TableInv'
  <2>1. /\ UNCHANGED <<socket_set, connector_count, sfd, max_fd, owner>>
        /\ UNCHANGED <<pc, set, cur>>
    BY <1>13 DEF ClientStep, Connect, Tell, Ask, SyncSend, SyncWait, Write, FinishWrite,
                 Receive, Disconnected, Close, ctxVars, threadVars, netVars
  <2>2. QED
    BY <1>0, <2>1, TableUntouched
<1>14. QED
  BY <1>2, <1>3, <1>4, <1>5, <1>6, <1>7, <1>8, <1>9, <1>10, <1>11, <1>12, <1>13
     DEF Next, ServerStep

-----------------------------------------------------------------------------
(* The status.                                                             *)

LEMMA StatusStep == IInv /\ Next => StatusFollowsThread' /\ FreedAfterExit'
<1> SUFFICES ASSUME IInv, Next PROVE StatusFollowsThread' /\ FreedAfterExit'
  OBVIOUS
<1>0. StatusFollowsThread /\ FreedAfterExit /\ TypeOK /\ TableConsistent
  BY DEF IInv
<1> USE DEF StatusFollowsThread, FreedAfterExit
<1>1. CASE ThreadBegin \/ LoopTest \/ Select \/ ScanDone \/ ScanNext \/ AcceptFails
  BY <1>1, <1>0 DEF ThreadBegin, LoopTest, Select, ScanDone, ScanNext, AcceptFails,
                    ctxVars, netVars, Open
<1>2. CASE Accept \/ AcceptOverrun
  BY <1>2, <1>0 DEF Accept, AcceptOverrun
<1>3. CASE ReadData
  <2>1. pc = "read" /\ status' = status /\ main' = main /\ pc' \in {"read", "handle", "scan"}
    BY <1>3 DEF ReadData
  <2>2. QED
    BY <2>1, <1>0
<1>4. CASE ReadEnd
  BY <1>4, <1>0 DEF ReadEnd
<1>5. CASE Handle
  BY <1>5, <1>0 DEF Handle, ctxVars
<1>6. CASE Leave
  <2>1. Held = Open
    BY <1>6, <1>0 DEF Leave, TableConsistent, Serving
  <2>2. status' = "SERVER_STOPED" => Open' = {}
    BY <1>6, <1>0, <2>1 DEF Leave, Open, TypeOK
  <2>3. QED
    BY <1>6, <1>0, <2>2 DEF Leave
<1>7. CASE MainStep
  BY <1>7, <1>0 DEF MainStep, Start, DestroyInited, DestroyListening, Wake, WakeFails,
                    Spin, CloseListener, Join, ctxVars, threadVars, netVars, Open
<1>8. ASSUME NEW c \in Clients, ClientStep(c)
      PROVE  StatusFollowsThread' /\ FreedAfterExit'
  BY <1>8, <1>0 DEF ClientStep, Connect, Tell, Ask, SyncSend, SyncWait, Write, FinishWrite,
                    Receive, Disconnected, Close, ctxVars, threadVars, netVars, Open
<1>9. QED
  BY <1>1, <1>2, <1>3, <1>4, <1>5, <1>6, <1>7, <1>8 DEF Next, ServerStep

-----------------------------------------------------------------------------
(* Who wrote what.                                                         *)

StreamInv == RoomToRead /\ StreamsByAuthor /\ RepliesToAsker

\* A step that moves neither bytes nor the thread keeps it.
LEMMA StreamUntouched ==
  ASSUME StreamInv, UNCHANGED <<pc, cur, buffer, msg, owner, inbox, outbox, writing>>
  PROVE  StreamInv'
BY DEF StreamInv, RoomToRead, StreamsByAuthor, RepliesToAsker

\* A step that moves the thread, but not into a read or a handler, keeps it.
LEMMA StreamElsewhere ==
  ASSUME StreamInv, UNCHANGED <<inbox, outbox, writing>>, pc' \notin {"read", "handle"}
  PROVE  StreamInv'
BY DEF StreamInv, RoomToRead, StreamsByAuthor, RepliesToAsker

\* A sequence of fragments that c wrote.
WrittenBy(c, s) == \A k \in 1 .. Len(s) : s[k].msg.from = c

LEMMA WrittenConcat ==
  ASSUME NEW c, NEW s \in Seq(Fragments), NEW t \in Seq(Fragments),
         WrittenBy(c, s), WrittenBy(c, t)
  PROVE  s \o t \in Seq(Fragments) /\ WrittenBy(c, s \o t)
<1>1. /\ s \o t \in Seq(Fragments)
      /\ Len(s \o t) = Len(s) + Len(t)
      /\ \A k \in 1 .. Len(s) + Len(t) :
           (s \o t)[k] = IF k <= Len(s) THEN s[k] ELSE t[k - Len(s)]
  OBVIOUS
<1>2. ASSUME NEW k \in 1 .. Len(s) + Len(t) PROVE (s \o t)[k].msg.from = c
  <2>1. CASE k <= Len(s)
    BY <1>1, <2>1 DEF WrittenBy
  <2>2. CASE k > Len(s)
    <3>1. k - Len(s) \in 1 .. Len(t)
      BY <2>2
    <3>2. QED
      BY <1>1, <2>2, <3>1 DEF WrittenBy
  <2>3. QED
    BY <2>1, <2>2
<1>3. QED
  BY <1>1, <1>2 DEF WrittenBy

LEMMA WrittenPart ==
  ASSUME NEW c, NEW s \in Seq(Fragments), WrittenBy(c, s),
         NEW a \in Nat \ {0}, NEW b \in Nat, b <= Len(s)
  PROVE  SubSeq(s, a, b) \in Seq(Fragments) /\ WrittenBy(c, SubSeq(s, a, b))
<1>1. SubSeq(s, a, b) \in Seq(Fragments)
  OBVIOUS
<1>2. /\ Len(SubSeq(s, a, b)) = IF a <= b THEN b - a + 1 ELSE 0
      /\ \A k \in 1 .. b - a + 1 : SubSeq(s, a, b)[k] = s[a + k - 1]
  OBVIOUS
<1>3. \A k \in 1 .. b - a + 1 : a + k - 1 \in 1 .. Len(s)
  OBVIOUS
<1>4. QED
  BY <1>1, <1>2, <1>3 DEF WrittenBy

LEMMA WrittenAppend ==
  ASSUME NEW c, NEW s \in Seq(Fragments), WrittenBy(c, s),
         NEW f \in Fragments, f.msg.from = c
  PROVE  WrittenBy(c, Append(s, f))
<1>1. /\ Len(Append(s, f)) = Len(s) + 1
      /\ \A k \in 1 .. Len(s) + 1 : Append(s, f)[k] = IF k <= Len(s) THEN s[k] ELSE f
  OBVIOUS
<1>2. QED
  BY <1>1 DEF WrittenBy

LEMMA ReadDataStream == IInv /\ ReadData => StreamInv'
<1> SUFFICES ASSUME IInv, ReadData PROVE StreamInv'
  OBVIOUS
<1> DEFINE c    == owner[cur]
           room == MaxFragments - Len(buffer)
           n    == IF Len(inbox[c]) < room THEN Len(inbox[c]) ELSE room
           got  == buffer \o SubSeq(inbox[c], 1, n)
<1> USE SizeAssumption
<1>1. /\ TypeOK /\ SnapshotLive /\ RoomToRead /\ StreamsByAuthor /\ RepliesToAsker
      /\ pc = "read"
  BY DEF IInv, ReadData
<1>2. cur \in Open /\ c \in Conns
  BY <1>1 DEF SnapshotLive, Open, TypeOK
<1>3. inbox \in [Conns -> Seq(Fragments)] /\ buffer \in Seq(Fragments)
  BY <1>1 DEF TypeOK
<1>4. inbox[c] \in Seq(Fragments)
  BY <1>2, <1>3
<1>5. room \in Nat /\ n \in Nat /\ n <= Len(inbox[c])
  BY <1>1, <1>3, <1>4 DEF RoomToRead
<1>6. WrittenBy(c, buffer) /\ \A d \in Conns : WrittenBy(d, inbox[d])
  BY <1>1 DEF StreamsByAuthor, WrittenBy
<1>7. got \in Seq(Fragments) /\ WrittenBy(c, got)
  <2>1. /\ SubSeq(inbox[c], 1, n) \in Seq(Fragments)
        /\ WrittenBy(c, SubSeq(inbox[c], 1, n))
    BY <1>2, <1>4, <1>5, <1>6, WrittenPart
  <2>2. QED
    BY <2>1, <1>3, <1>6, WrittenConcat
<1>8. /\ inbox' = [inbox EXCEPT ![c] = SubSeq(inbox[c], n + 1, Len(inbox[c]))]
      /\ writing' = writing /\ outbox' = outbox /\ cur' = cur
  BY DEF ReadData, clientVars
<1>9. \A d \in Conns : WrittenBy(d, inbox'[d])
  <2>1. n + 1 \in Nat \ {0} /\ Len(inbox[c]) \in Nat
    BY <1>4, <1>5
  <2>2. WrittenBy(c, SubSeq(inbox[c], n + 1, Len(inbox[c])))
    BY <2>1, <1>2, <1>4, <1>6, WrittenPart
  <2> HIDE DEF n
  <2>3. QED
    BY <2>2, <1>2, <1>3, <1>6, <1>8
<1> HIDE DEF c, room, n, got
<1>10. \/ /\ Parsed(got) # NoMsg /\ msg' = Parsed(got) /\ pc' = "handle" /\ owner' = owner
       \/ /\ Len(got) < MaxFragments /\ buffer' = got /\ pc' = pc /\ owner' = owner
       \/ pc' = "scan"
  BY DEF ReadData, c, room, n, got
<1>11. Parsed(got) # NoMsg => Parsed(got) \in Messages /\ Parsed(got).from = c
  <2> SUFFICES ASSUME Parsed(got) # NoMsg
               PROVE  Parsed(got) \in Messages /\ Parsed(got).from = c
    OBVIOUS
  <2>1. got # <<>> /\ Parsed(got) = got[1].msg /\ Parsed(got) \in Messages
    BY <1>7, ParsedMessage
  <2>2. 1 \in 1 .. Len(got)
    BY <2>1, <1>7
  <2>3. QED
    BY <2>1, <2>2, <1>7 DEF WrittenBy
<1>12. RoomToRead'
  BY <1>1, <1>10 DEF RoomToRead
<1>13. \/ pc' = "handle" /\ msg' \in Messages /\ msg'.from = owner'[cur']
       \/ pc' = "read" /\ WrittenBy(owner'[cur'], buffer')
       \/ pc' = "scan"
  BY <1>1, <1>7, <1>8, <1>10, <1>11 DEF c
<1>14. StreamsByAuthor'
  BY <1>1, <1>8, <1>9, <1>13 DEF StreamsByAuthor, WrittenBy
<1>15. RepliesToAsker'
  BY <1>1, <1>8, <1>13 DEF RepliesToAsker
<1>16. QED
  BY <1>12, <1>14, <1>15 DEF StreamInv

LEMMA HandleStream == IInv /\ Handle => StreamInv'
<1> SUFFICES ASSUME IInv, Handle PROVE StreamInv'
  OBVIOUS
<1>1. /\ TypeOK /\ SnapshotLive /\ StreamInv /\ pc = "handle"
      /\ inbox' = inbox /\ writing' = writing /\ pc' \in {"scan", "killed"}
  BY DEF IInv, StreamInv, Handle, clientVars
<1>2. /\ owner[cur] \in Conns /\ msg \in Messages /\ owner[cur] = msg.from
      /\ outbox \in [Conns -> Seq(Messages)]
  BY <1>1 DEF SnapshotLive, Open, TypeOK, StreamInv, StreamsByAuthor, RepliesToAsker
<1>3. \A c \in Conns : \A k \in 1 .. Len(outbox[c]) : outbox[c][k] = [from |-> c, kind |-> "ask"]
  BY <1>1 DEF StreamInv, RepliesToAsker
<1>4. \A c \in Conns : \A k \in 1 .. Len(outbox'[c]) : outbox'[c][k] = [from |-> c, kind |-> "ask"]
  <2>1. CASE outbox' = outbox
    BY <2>1, <1>3
  <2>2. CASE /\ msg.kind = "ask"
             /\ outbox' = [outbox EXCEPT ![owner[cur]] = Append(outbox[owner[cur]], msg)]
    <3>1. msg = [from |-> owner[cur], kind |-> "ask"]
      BY <1>2, <2>2 DEF Messages
    <3> SUFFICES ASSUME NEW c \in Conns, NEW k \in 1 .. Len(outbox'[c])
                 PROVE  outbox'[c][k] = [from |-> c, kind |-> "ask"]
      OBVIOUS
    <3>2. CASE c # owner[cur]
      BY <3>2, <2>2, <1>2, <1>3
    <3>3. CASE c = owner[cur]
      <4>1. outbox'[c] = Append(outbox[c], msg) /\ outbox[c] \in Seq(Messages)
        BY <3>3, <2>2, <1>2
      <4>2. \/ k \in 1 .. Len(outbox[c]) /\ outbox'[c][k] = outbox[c][k]
            \/ outbox'[c][k] = msg
        BY <4>1
      <4>3. QED
        BY <4>2, <3>1, <3>3, <1>3
    <3>4. QED
      BY <3>2, <3>3
  <2>3. QED
    BY <2>1, <2>2 DEF Handle
<1>5. QED
  BY <1>1, <1>4 DEF StreamInv, RoomToRead, StreamsByAuthor, RepliesToAsker

LEMMA WriteStream ==
  ASSUME IInv, NEW c \in Clients, NEW kind \in Kinds, NEW next, Write(c, kind, next)
  PROVE  StreamInv'
<1> USE ConnAssumption
<1> DEFINE m == [from |-> c, kind |-> kind]
<1>1. /\ TypeOK /\ StreamInv
      /\ UNCHANGED <<pc, cur, buffer, msg, owner, outbox>>
  BY DEF IInv, StreamInv, Write, threadVars
<1>2. /\ Whole(m) \in Fragments /\ Whole(m).msg.from = c
      /\ Front(m) \in Fragments /\ Front(m).msg.from = c
  BY DEF Whole, Front, Fragments, Messages
<1>3. m.from = c
  OBVIOUS
<1>4. PICK f \in Fragments :
        /\ f.msg.from = c
        /\ inbox' = [inbox EXCEPT ![c] = Append(inbox[c], f)]
        /\ writing' = writing \/ writing' = [writing EXCEPT ![c] = m]
  BY <1>2 DEF Write
<1> HIDE DEF m
<1>5. inbox \in [Conns -> Seq(Fragments)] /\ writing \in [Clients -> Messages \cup {NoMsg}]
  BY <1>1 DEF TypeOK
<1>6. \A d \in Conns : WrittenBy(d, inbox[d])
  BY <1>1 DEF StreamInv, StreamsByAuthor, WrittenBy
<1>7. c \in Conns /\ WrittenBy(c, Append(inbox[c], f))
  BY <1>4, <1>5, <1>6, WrittenAppend
<1>8. \A d \in Conns : WrittenBy(d, inbox'[d])
  BY <1>4, <1>5, <1>6, <1>7
<1>9. \A d \in Clients : writing'[d] # NoMsg => writing'[d].from = d
  BY <1>1, <1>3, <1>4, <1>5 DEF StreamInv, StreamsByAuthor
<1>10. StreamsByAuthor'
  BY <1>1, <1>8, <1>9 DEF StreamInv, StreamsByAuthor, WrittenBy
<1>11. QED
  BY <1>1, <1>10 DEF StreamInv, RoomToRead, RepliesToAsker

LEMMA FinishWriteStream ==
  ASSUME IInv, NEW c \in Clients, FinishWrite(c)
  PROVE  StreamInv'
<1> USE ConnAssumption
<1>1. /\ TypeOK /\ StreamInv
      /\ UNCHANGED <<pc, cur, buffer, msg, owner, outbox>>
  BY DEF IInv, StreamInv, FinishWrite, threadVars
<1>2. /\ writing[c] \in Messages /\ writing[c].from = c
      /\ inbox' = [inbox EXCEPT ![c] = Append(inbox[c], Back(writing[c]))]
      /\ writing' = [writing EXCEPT ![c] = NoMsg]
  BY <1>1 DEF FinishWrite, TypeOK, StreamInv, StreamsByAuthor
<1>3. Back(writing[c]) \in Fragments /\ Back(writing[c]).msg.from = c
  BY <1>2 DEF Back, Fragments
<1>4. inbox \in [Conns -> Seq(Fragments)] /\ writing \in [Clients -> Messages \cup {NoMsg}]
  BY <1>1 DEF TypeOK
<1>5. \A d \in Conns : WrittenBy(d, inbox[d])
  BY <1>1 DEF StreamInv, StreamsByAuthor, WrittenBy
<1>6. c \in Conns /\ WrittenBy(c, Append(inbox[c], Back(writing[c])))
  BY <1>3, <1>4, <1>5, WrittenAppend
<1>7. \A d \in Conns : WrittenBy(d, inbox'[d])
  BY <1>2, <1>4, <1>5, <1>6
<1>8. \A d \in Clients : writing'[d] # NoMsg => writing'[d].from = d
  BY <1>1, <1>2, <1>4 DEF StreamInv, StreamsByAuthor
<1>9. StreamsByAuthor'
  BY <1>1, <1>7, <1>8 DEF StreamInv, StreamsByAuthor, WrittenBy
<1>10. QED
  BY <1>1, <1>9 DEF StreamInv, RoomToRead, RepliesToAsker

LEMMA StreamStep == IInv /\ Next => StreamInv'
<1> SUFFICES ASSUME IInv, Next PROVE StreamInv'
  OBVIOUS
<1> USE ConnAssumption, SizeAssumption
<1>0. StreamInv /\ TypeOK
  BY DEF IInv, StreamInv
<1>1. CASE \/ ThreadBegin \/ LoopTest \/ Select \/ ScanDone \/ Accept \/ AcceptOverrun
           \/ AcceptFails \/ ReadEnd \/ Leave
  <2>1. UNCHANGED <<inbox, outbox, writing>> /\ pc' \notin {"read", "handle"}
    BY <1>1 DEF ThreadBegin, LoopTest, Select, ScanDone, Accept, AcceptOverrun, AcceptFails,
                ReadEnd, Leave, netVars, clientVars
  <2>2. QED
    BY <1>0, <2>1, StreamElsewhere
<1>2. CASE ScanNext
  <2>1. /\ UNCHANGED <<inbox, outbox, writing>> /\ pc' # "handle" /\ buffer' = <<>>
    BY <1>2 DEF ScanNext, netVars, clientVars
  <2>2. QED
    BY <1>0, <2>1 DEF StreamInv, RoomToRead, StreamsByAuthor, RepliesToAsker
<1>3. CASE ReadData
  BY <1>3, ReadDataStream
<1>4. CASE Handle
  BY <1>4, HandleStream
<1>5. CASE Start
  <2>1. UNCHANGED <<inbox, outbox, writing, pc, cur, buffer, msg, owner>> \/ pc' = "ready"
    BY <1>5 DEF Start, netVars, clientVars
  <2>2. UNCHANGED <<inbox, outbox, writing>>
    BY <1>5 DEF Start, netVars, clientVars
  <2>3. QED
    BY <1>0, <2>1, <2>2, StreamUntouched, StreamElsewhere
<1>6. CASE MainStep /\ ~Start
  <2>1. UNCHANGED <<pc, cur, buffer, msg, owner, inbox, outbox, writing>>
    BY <1>6 DEF MainStep, DestroyInited, DestroyListening, Wake, WakeFails, Spin,
                CloseListener, Join, threadVars, netVars, clientVars
  <2>2. QED
    BY <1>0, <2>1, StreamUntouched
<1>7. ASSUME NEW c \in Clients, ClientStep(c) PROVE StreamInv'
  <2>1. CASE Tell(c) \/ Ask(c) \/ SyncSend(c) \/ SyncWait(c)
    BY <2>1, WriteStream DEF Tell, Ask, SyncSend, SyncWait, Kinds
  <2>2. CASE FinishWrite(c)
    BY <2>2, FinishWriteStream
  <2>3. CASE Connect(c) \/ Disconnected(c) \/ Close(c)
    <3>1. UNCHANGED <<pc, cur, buffer, msg, owner, inbox, outbox, writing>>
      BY <2>3 DEF Connect, Disconnected, Close, threadVars, netVars
    <3>2. QED
      BY <1>0, <3>1, StreamUntouched
  <2>4. CASE Receive(c)
    <3>1. /\ UNCHANGED <<pc, cur, buffer, msg, owner, inbox, writing>>
          /\ outbox' = [outbox EXCEPT ![c] = <<>>]
      BY <2>4 DEF Receive, threadVars
    <3>2. \A d \in Conns : outbox'[d] = outbox[d] \/ outbox'[d] = <<>>
      BY <1>0, <3>1 DEF TypeOK
    <3>3. QED
      BY <1>0, <3>1, <3>2 DEF StreamInv, RoomToRead, StreamsByAuthor, RepliesToAsker
  <2>5. QED
    BY <1>7, <2>1, <2>2, <2>3, <2>4 DEF ClientStep
<1>8. QED
  BY <1>1, <1>2, <1>3, <1>4, <1>5, <1>6, <1>7 DEF Next, ServerStep

-----------------------------------------------------------------------------
(* The theorems.                                                           *)

\* IInv holds in every reachable state, whatever the constants are.
THEOREM Invariance == Spec => []IInv
<1>1. Init => IInv
  BY InitIInv
<1>2. IInv /\ [Next]_vars => IInv'
  <2> SUFFICES ASSUME IInv, [Next]_vars PROVE IInv'
    OBVIOUS
  <2>1. CASE Next
    BY <2>1, TypeStep, TableStep, StreamStep, StatusStep DEF IInv, TableInv, StreamInv
  <2>2. CASE UNCHANGED vars
    <3> USE <2>2 DEF vars, ctxVars, threadVars, netVars, clientVars
    <3>1. TypeOK'
      BY DEF IInv, TypeOK
    <3>2. TableInv'
      BY TableUntouched DEF IInv, TableInv
    <3>3. StreamInv'
      BY StreamUntouched DEF IInv, StreamInv
    <3>4. StatusFollowsThread' /\ FreedAfterExit'
      BY DEF IInv, StatusFollowsThread, FreedAfterExit, Open
    <3>5. QED
      BY <3>1, <3>2, <3>3, <3>4 DEF IInv, TableInv, StreamInv
  <2>3. QED
    BY <2>1, <2>2
<1>3. QED
  BY <1>1, <1>2, PTL DEF Spec

\* Every variable of the server, the kernel and the clients keeps its type.
THEOREM TypeCorrect == Spec => []TypeOK
<1>1. IInv => TypeOK
  BY DEF IInv
<1>2. QED
  BY <1>1, Invariance, PTL

\* ipc.h:62-65 for any number of connections and any table size: watch set, table
\* and open connections agree.
THEOREM TableCorrect == Spec => []TableConsistent
<1>1. IInv => TableConsistent
  BY DEF IInv
<1>2. QED
  BY <1>1, Invariance, PTL

\* ipc.h:66: select looks at every descriptor the server watches, whatever was
\* closed, and in whatever order, before.
THEOREM MaxFdCorrect == Spec => []MaxFdBoundsWatched
<1>1. IInv => MaxFdBoundsWatched
  BY DEF IInv
<1>2. QED
  BY <1>1, Invariance, PTL

\* The thread never reads from, or replies to, a descriptor it has closed.
THEOREM SnapshotCorrect == Spec => []SnapshotLive
<1>1. IInv => SnapshotLive
  BY DEF IInv
<1>2. QED
  BY <1>1, Invariance, PTL

\* Replies never cross to another connection.
THEOREM RepliesCorrect == Spec => []RepliesToAsker
<1>1. IInv => RepliesToAsker
  BY DEF IInv
<1>2. QED
  BY <1>1, Invariance, PTL

\* The context outlives the thread, and an orderly stop leaks no connection.
THEOREM FreeCorrect == Spec => []FreedAfterExit
<1>1. IInv => FreedAfterExit
  BY DEF IInv
<1>2. QED
  BY <1>1, Invariance, PTL

\* The two writers of the status never take it back.
THEOREM StatusCorrect == Spec => StatusForward
<1>1. IInv /\ [Next]_vars => [Rank[status'] >= Rank[status]]_status
  <2> SUFFICES ASSUME IInv, [Next]_vars, status' # status
               PROVE  Rank[status'] >= Rank[status]
    OBVIOUS
  <2>0. StatusFollowsThread
    BY DEF IInv
  <2>1. CASE ThreadBegin
    BY <2>0, <2>1 DEF ThreadBegin, StatusFollowsThread, Rank
  <2>2. CASE Leave
    BY <2>2 DEF Leave, Rank
  <2>3. CASE DestroyListening
    BY <2>3 DEF DestroyListening, Rank
  <2>4. CASE ServerStep /\ ~ThreadBegin /\ ~Leave
    BY <2>4 DEF ServerStep, LoopTest, Select, ScanDone, ScanNext, Accept, AcceptOverrun,
                AcceptFails, ReadData, ReadEnd, Handle, ctxVars
  <2>5. CASE MainStep /\ ~DestroyListening
    BY <2>5 DEF MainStep, Start, DestroyInited, Wake, WakeFails, Spin, CloseListener,
                Join, ctxVars
  <2>6. ASSUME NEW c \in Clients, ClientStep(c) PROVE status' = status
    BY <2>6 DEF ClientStep, Connect, Tell, Ask, SyncSend, SyncWait, Write, FinishWrite,
                Receive, Disconnected, Close, ctxVars
  <2>7. CASE UNCHANGED vars
    BY <2>7 DEF vars, ctxVars
  <2>8. QED
    BY <2>1, <2>2, <2>3, <2>4, <2>5, <2>6, <2>7 DEF Next
<1>2. QED
  BY <1>1, Invariance, PTL DEF Spec, StatusForward

\* The store past sfd[] is reached only from a table whose every slot holds an
\* open connection, none twice, with one more at the door: no sequence of accepts
\* and removals uses up a slot, for any number of descriptors and any MAX_CONNECTOR.
THEOREM OverrunCorrect == Spec => []OverrunOnlyWhenFull
<1> USE SizeAssumption
<1>1. Init => OverrunOnlyWhenFull
  BY DEF Init, OverrunOnlyWhenFull
<1>2. IInv /\ OverrunOnlyWhenFull /\ [Next]_vars => OverrunOnlyWhenFull'
  <2> SUFFICES ASSUME IInv, OverrunOnlyWhenFull, [Next]_vars, pc' = "overrun"
               PROVE  OverrunOnlyWhenFull'
    BY DEF OverrunOnlyWhenFull
  <2>1. AcceptOverrun \/ UNCHANGED <<pc, sfd, owner>>
    <3>1. CASE ServerStep
      BY <3>1 DEF ServerStep, ThreadBegin, LoopTest, Select, ScanDone, ScanNext, Accept,
                  AcceptFails, ReadData, ReadEnd, Handle, Leave
    <3>2. CASE MainStep
      BY <3>2 DEF MainStep, Start, DestroyInited, DestroyListening, Wake, WakeFails, Spin,
                  CloseListener, Join, ctxVars, threadVars, netVars
    <3>3. ASSUME NEW c \in Clients, ClientStep(c) PROVE UNCHANGED <<pc, sfd, owner>>
      BY <3>3 DEF ClientStep, Connect, Tell, Ask, SyncSend, SyncWait, Write, FinishWrite,
                  Receive, Disconnected, Close, ctxVars, threadVars, netVars
    <3>4. CASE UNCHANGED vars
      BY <3>4 DEF vars, ctxVars, threadVars, netVars
    <3>5. QED
      BY <3>1, <3>2, <3>3, <3>4 DEF Next
  <2>2. CASE AcceptOverrun
    <3>1. PICK fd \in Fds \ Open : owner' = [owner EXCEPT ![fd] = Head(backlog)]
      BY <2>2 DEF AcceptOverrun, AcceptedInto
    <3>2. connector_count = MaxConnector /\ Serving /\ sfd' = sfd /\ backlog # <<>>
      BY <2>2 DEF AcceptOverrun, Serving
    <3>3. /\ Held = Open /\ Open \subseteq Fds
          /\ \A j, k \in Slots : sfd[j] = sfd[k] => j = k
      BY <3>2 DEF IInv, TableConsistent, Open, Slots
    <3>4. \A k \in Slots : sfd[k] \in Open
      BY <3>2, <3>3 DEF Held, Slots
    <3>5. Head(backlog) \in Conns /\ NoConn \notin Conns /\ owner \in [Fds -> Conns \cup {NoConn}]
      BY <3>2, ConnAssumption DEF IInv, TypeOK
    <3>6. Open' = Open \cup {fd}
      BY <3>1, <3>5 DEF Open
    <3>7. QED
      BY <3>1, <3>2, <3>3, <3>4, <3>6 DEF OverrunOnlyWhenFull, Slots
  <2>3. CASE UNCHANGED <<pc, sfd, owner>>
    BY <2>3 DEF OverrunOnlyWhenFull, Open, Slots
  <2>4. QED
    BY <2>1, <2>2, <2>3
<1>3. QED
  BY <1>1, <1>2, Invariance, PTL DEF Spec
=============================================================================
