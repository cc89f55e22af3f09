--------------------------- MODULE HelpClientProofs ---------------------------
(***************************************************************************)
(* What holds of the helper and its client for any connectors, properties, *)
(* rectangles and options: the two locks, the walks over the connector     *)
(* list, the viewport with the reader that takes no lock, and the replies, *)
(* which carry nothing that says which question they answer.               *)
(***************************************************************************)
EXTENDS HelpClient, TLAPS

\* The three kinds of reply: the empty object, a list of connectors, and two
\* halves of something.
Lists == [kind : {"get_modes"}, conns : SUBSET Conns]
Halves == [kind : {"get_display_mode", "get_ui_rect"},
           first : Rects \cup Sizes \cup Modes \cup {Blank}, rest : Rects \cup Sizes \cup Modes \cup {Blank}]
Replies == [kind : {"get_"}] \cup Lists \cup Halves

Rect == {"rect", "rect_wh", "rect_done"}

\* No lock has two holders; the thread runs as long as it has work in hand, and
\* stop_help_worker waits for one that has not gone for ever.
LockInv ==
    /\ ~(pc = "walk" /\ call \in {"commit", "stop"})
    /\ ~(pc \in Rect \cup {"read"} /\ call \in {"ui_size", "mode"})
    /\ worker \in {"off", "running", "none", "freed", "freed_twice", "stopping", "stopped", "gone"}
    /\ pc # "off" => worker \in {"running", "stopping"}

\* The request and the reply in hand, at each step of the server thread, and the
\* arguments of the call weston is in.
HandInv ==
    /\ pc \in {"off", "idle", "reading"} => request = NoRequest
    /\ pc \in {"off", "idle", "reading", "handle"} \cup Rect => reply = NoReply
    /\ pc \in {"handle", "walk", "read", "send"} \cup Rect => request \in Requests
    /\ pc = "walk" => /\ request.cmd \in {"get_modes", "set_property"}
                      /\ node \in Nat \ {0}
                      /\ IF request.cmd = "get_modes" THEN reply \in Lists
                         ELSE reply = NoReply
    /\ pc = "read" => /\ reply \in Halves
                      /\ reply.kind = request.cmd
                      /\ request.cmd \in {"get_display_mode", "get_ui_rect"}
                      /\ reply.first = IF request.cmd = "get_ui_rect" THEN viewport.wh ELSE display_mode.size
    /\ pc \in Rect => request.cmd = "set_ui_rect"
    /\ pc = "send" /\ reply # NoReply =>
            /\ reply \in Replies
            /\ Replied(request)
            /\ reply.kind = request.cmd
    /\ call = "append" => args[1] \in Conns
    /\ call = "ui_size" => args[1] \in Sizes
    /\ call = "mode" => args[1] \in Modes

\* No connector is in the list twice; the nodes behind a walk that sets a
\* property have it; a failure in a pass is in its result.
ListInv ==
    /\ \A i, j \in DOMAIN conns : conns[i].data = conns[j].data => i = j \/ conns[i].data = NoConn
    /\ pc = "walk" /\ request.cmd = "set_property" =>
            \A i \in DOMAIN conns :
                i < node /\ conns[i].data \in Hdmi => conns[i].props[request.name] = request.value
    /\ failed => ret = -1

Screen == Rects \cup Sizes \cup {Blank}

\* The halves of the viewport and of the display mode, whoever is between them.
ViewInv ==
    /\ seen \in [xy : Screen, wh : Screen]
    /\ need_modify => asked # Blank /\ pc \notin Rect
    /\ asked # Blank /\ pc \notin Rect => need_modify
    /\ asked # Blank /\ pc \notin {"rect_wh", "rect_done"} => viewport.xy = asked /\ viewport.wh = asked
    /\ pc \in {"rect_wh", "rect_done"} => viewport.xy = request.rect
    /\ pc = "rect_done" => viewport.wh = request.rect
    /\ pc \notin {"rect_wh", "rect_done"} /\ (call = "ui_size" => need_modify) => viewport.xy = viewport.wh
    /\ call = "ui_size" /\ ~need_modify => viewport.xy = args[1]
    /\ display_mode.name = IF call = "mode" THEN args[1] ELSE display_mode.size
    /\ call \in {"scan", "scan_wh"} /\ ~disturbed => viewport.xy = viewport.wh
    /\ call = "scan_wh" /\ ~disturbed => seen.xy = viewport.xy
    /\ ScanWhole

Whole(r) == r.kind \in {"get_ui_rect", "get_display_mode"} => r.first = r.rest

\* The replies on their way.
AnswerInv ==
    /\ answers \in Seq(Replies)
    /\ \A i \in DOMAIN answers : Whole(answers[i])
    /\ pc = "send" /\ reply # NoReply => Whole(reply)

Dead == worker \in {"stopped", "gone"}

\* As long as no raw command left a reply behind: of the question the program
\* waits for there is one request, in the stream or in the hand of a thread
\* that still runs, or one reply.
PipeInv == ~stray =>
    /\ \A i \in DOMAIN answers : i = 1 /\ answers[i].kind = query /\ prog = "wait"
    /\ ~Dead =>
        /\ \A i \in DOMAIN wire : Replied(wire[i]) =>
                prog = "wait" /\ wire[i].cmd = query /\ ~Replied(request) /\ answers = <<>>
        /\ \A i, j \in DOMAIN wire : Replied(wire[i]) /\ Replied(wire[j]) => i = j
        /\ Replied(request) => prog = "wait" /\ request.cmd = query /\ answers = <<>>

IInv == TypeOK /\ LockInv /\ HandInv /\ ListInv /\ ViewInv /\ AnswerInv /\ PipeInv

-----------------------------------------------------------------------------
LEMMA InitIInv == Init => IInv
<1> SUFFICES ASSUME Init PROVE IInv
  OBVIOUS
<1> USE WorkerAssumption DEF Init, WorkerInit, Rect
<1>1. TypeOK
  <2>1. mutex = Free /\ info_rwlock = Free /\ conns \in Seq(Nodes) /\ wire \in Seq(Requests \cup {Null})
    OBVIOUS
  <2>2. /\ viewport \in [xy : Rects \cup Sizes \cup {Blank}, wh : Rects \cup Sizes \cup {Blank}]
        /\ display_mode \in [name : Modes \cup {Blank}, size : Modes \cup {Blank}]
    OBVIOUS
  <2>3. QED
    BY <2>1, <2>2 DEF TypeOK, WorkerTypeOK
<1>2. LockInv /\ HandInv
  BY DEF LockInv, HandInv
<1>3. ListInv
  BY DEF ListInv
<1>4. ViewInv
  BY DEF ViewInv, Screen, ScanWhole
<1>5. AnswerInv
  BY DEF AnswerInv
<1>6. PipeInv
  BY DEF PipeInv, Replied, NoRequest
<1>7. QED
  BY <1>1, <1>2, <1>3, <1>4, <1>5, <1>6 DEF IInv

-----------------------------------------------------------------------------
(* Who changes what.                                                       *)

\* The program touches nothing of the helper but the two streams.
LEMMA ClientKeeps ==
  ClientStep => UNCHANGED <<mutex, info_rwlock, conns, infoVars, worker, serverVars, westonVars>>
<1> USE DEF NoneOfWorker
<1>1. ASSUME NEW r, Tell(r) PROVE NoneOfWorker
  BY <1>1 DEF Tell
<1>2. ASSUME NEW r, AskFor(r) PROVE NoneOfWorker
  BY <1>2 DEF AskFor
<1>3. QED
  BY <1>1, <1>2 DEF ClientStep, Connect, TellSetting, TellRaw, Query, BadOption, Answer,
                    AnswerMissing, Exit

\* The server thread never changes what is weston's.
LEMMA ServerKeeps ==
  ServerStep => UNCHANGED westonVars /\ (UNCHANGED worker \/ Leave)
  BY DEF ServerStep, Receive, Swallow, HandlePlain, Send, WalkBegin, WalkStep, WalkEnd, ReadBegin,
         ReadEnd, RectBegin, RectStore, RectEnd, Leave, NoneOfServer, westonVars

\* Weston never changes what is in the hand of the server thread, and starts it
\* only once.
LEMMA WestonKeeps ==
  WestonGoesOn \/ WestonCalls =>
      UNCHANGED <<request, reply, node, wire, answers>> /\ (UNCHANGED pc \/ StartWorker)
<1> USE DEF NoneOfWeston, serverVars, streams
<1>1. WestonGoesOn => UNCHANGED <<request, reply, node, wire, answers>> /\ UNCHANGED pc
  BY DEF WestonGoesOn, UpdateAppends, AppendTo, CommitNode, CommitEnd, ScanRead, ScanEnd,
         UiSizeEnd, ModeEnd, StopJoined
<1>2. StartWorker => UNCHANGED <<request, reply, node, wire, answers>>
  BY DEF StartWorker
<1>3. StopWorker \/ CommitBegin \/ ScanBegin =>
          UNCHANGED <<request, reply, node, wire, answers>> /\ UNCHANGED pc
  BY DEF StopWorker, CommitBegin, ScanBegin
<1>4. ASSUME NEW c, AppendConnector(c) \/ DeleteConnector(c)
      PROVE  UNCHANGED <<request, reply, node, wire, answers>> /\ UNCHANGED pc
  BY <1>4 DEF AppendConnector, AppendTo, DeleteConnector
<1>5. ASSUME NEW old, NEW new, UpdateConnector(old, new)
      PROVE  UNCHANGED <<request, reply, node, wire, answers>> /\ UNCHANGED pc
  BY <1>5 DEF UpdateConnector
<1>6. ASSUME NEW r, UiSizeBegin(r) \/ ModeBegin(r)
      PROVE  UNCHANGED <<request, reply, node, wire, answers>> /\ UNCHANGED pc
  BY <1>6 DEF UiSizeBegin, ModeBegin
<1>7. QED
  BY <1>1, <1>2, <1>3, <1>4, <1>5, <1>6 DEF WestonCalls

-----------------------------------------------------------------------------
(* The locks.                                                              *)

\* The part of TypeOK that says who holds the locks, with the steps it is about.
LockType ==
    /\ mutex = IF pc = "walk" THEN "server" ELSE IF call \in {"commit", "stop"} THEN "weston" ELSE Free
    /\ info_rwlock = CASE pc \in {"read", "rect", "rect_wh", "rect_done"} -> "server"
                       [] call \in {"ui_size", "mode"} -> "weston"
                       [] OTHER -> Free
    /\ pc \in {"off", "idle", "reading", "handle", "walk", "read", "rect", "rect_wh", "rect_done", "send"}
    /\ call \in {"idle", "append", "commit", "scan", "scan_wh", "scanned",
                 "ui_size", "mode", "stop", "undefined"}

LEMMA ServerLocks == IInv /\ ServerStep => LockType' /\ LockInv'
<1> SUFFICES ASSUME IInv, ServerStep PROVE LockType' /\ LockInv'
  OBVIOUS
<1>1. LockType /\ LockInv
  BY DEF IInv, TypeOK, WorkerTypeOK, LockType
<1>2. UNCHANGED call /\ (UNCHANGED worker \/ Leave)
  BY ServerKeeps DEF westonVars
<1> USE DEF LockType, LockInv, Rect, Goto, Finish, Free
<1>3. CASE Receive \/ Swallow \/ HandlePlain \/ Send
  BY <1>1, <1>2, <1>3 DEF Receive, Swallow, HandlePlain, Send, serverVars, NoneOfServer
<1>4. CASE WalkBegin \/ WalkStep \/ WalkEnd
  BY <1>1, <1>2, <1>4 DEF WalkBegin, WalkStep, WalkEnd, NoneOfServer
<1>5. CASE ReadBegin \/ ReadEnd
  BY <1>1, <1>2, <1>5 DEF ReadBegin, ReadEnd, NoneOfServer
<1>6. CASE RectBegin \/ RectStore \/ RectEnd
  BY <1>1, <1>2, <1>6 DEF RectBegin, RectStore, RectEnd, NoneOfServer
<1>7. CASE Leave
  BY <1>1, <1>2, <1>7 DEF Leave
<1>8. QED
  BY <1>3, <1>4, <1>5, <1>6, <1>7 DEF ServerStep

LEMMA WestonLocks == IInv /\ (WestonGoesOn \/ WestonCalls) => LockType' /\ LockInv'
<1> SUFFICES ASSUME IInv, WestonGoesOn \/ WestonCalls PROVE LockType' /\ LockInv'
  OBVIOUS
<1>1. LockType /\ LockInv
  BY DEF IInv, TypeOK, WorkerTypeOK, LockType
<1>2. UNCHANGED pc \/ StartWorker
  BY WestonKeeps
<1> USE DEF LockType, LockInv, Rect, Goto, Free, Call, Return, NoneOfWeston, serverVars
<1>3. CASE UpdateAppends \/ CommitNode \/ CommitEnd
  BY <1>1, <1>3 DEF UpdateAppends, AppendTo, CommitNode, CommitEnd
<1>4. CASE ScanRead \/ ScanEnd
  BY <1>1, <1>4 DEF ScanRead, ScanEnd
<1>5. CASE UiSizeEnd \/ ModeEnd \/ StopJoined
  BY <1>1, <1>5 DEF UiSizeEnd, ModeEnd, StopJoined
<1>6. CASE StartWorker
  BY <1>1, <1>6 DEF StartWorker, westonVars
<1>7. CASE StopWorker
  BY <1>1, <1>7 DEF StopWorker
<1>8. ASSUME NEW c \in Conns, AppendConnector(c) \/ DeleteConnector(c) PROVE LockType' /\ LockInv'
  BY <1>1, <1>8 DEF AppendConnector, AppendTo, DeleteConnector, westonVars
<1>9. ASSUME NEW old, NEW new, UpdateConnector(old, new) PROVE LockType' /\ LockInv'
  BY <1>1, <1>9 DEF UpdateConnector
<1>10. CASE CommitBegin \/ ScanBegin
  BY <1>1, <1>10 DEF CommitBegin, ScanBegin
<1>11. ASSUME NEW r, UiSizeBegin(r) \/ ModeBegin(r) PROVE LockType' /\ LockInv'
  BY <1>1, <1>11 DEF UiSizeBegin, ModeBegin
<1>12. QED
  BY <1>3, <1>4, <1>5, <1>6, <1>7, <1>8, <1>9, <1>10, <1>11 DEF WestonGoesOn, WestonCalls

LEMMA LockStep == IInv /\ [Next]_vars => LockType' /\ LockInv'
<1> SUFFICES ASSUME IInv, [Next]_vars PROVE LockType' /\ LockInv'
  OBVIOUS
<1>1. LockType /\ LockInv
  BY DEF IInv, TypeOK, WorkerTypeOK, LockType
<1>2. CASE ClientStep
  BY <1>1, <1>2, ClientKeeps DEF LockType, LockInv, serverVars, westonVars
<1>3. CASE EndOfFile
  BY <1>1, <1>3 DEF LockType, LockInv, Rect, EndOfFile, westonVars
<1>4. CASE UNCHANGED vars
  BY <1>1, <1>4 DEF LockType, LockInv, vars, workerVars, serverVars, westonVars
<1>5. QED
  BY <1>2, <1>3, <1>4, ServerLocks, WestonLocks DEF Next

-----------------------------------------------------------------------------
(* What is in hand.                                                        *)

HandType == request \in Requests \cup {NoRequest} /\ HandInv

LEMMA ReceivedRequest ==
  ASSUME wire \in Seq(Requests \cup {Null}), DOMAIN wire # {}, Head(wire).cmd # "null"
  PROVE  Head(wire) \in Requests
<1>1. Head(wire) \in Requests \cup {Null}
  OBVIOUS
<1>2. QED
  BY <1>1 DEF Null

LEMMA ServerHand == IInv /\ ServerStep => HandType'
<1> SUFFICES ASSUME IInv, ServerStep PROVE HandType'
  OBVIOUS
<1>1. HandType /\ pc \in {"off", "idle", "reading", "handle", "walk", "read", "send"} \cup Rect
  BY DEF IInv, TypeOK, WorkerTypeOK, HandType, Rect
<1>2. UNCHANGED <<call, args>>
  BY ServerKeeps DEF westonVars
<1>3. UNCHANGED display_mode
  BY DEF ServerStep, Receive, Swallow, HandlePlain, Send, WalkBegin, WalkStep, WalkEnd, ReadBegin,
         ReadEnd, RectBegin, RectStore, RectEnd, Leave, infoVars
<1> USE DEF HandType, HandInv, Rect, Goto
<1>4. CASE Receive
  <2>1. wire \in Seq(Requests \cup {Null}) /\ DOMAIN wire # {}
    BY <1>4 DEF IInv, TypeOK, Receive
  <2>2. CASE Head(wire).cmd = "null"
    BY <1>1, <1>2, <1>4, <2>2 DEF Receive
  <2>3. CASE Head(wire).cmd # "null"
    <3>1. request' \in Requests /\ pc' = "handle" /\ reply' = NoReply
      BY <1>1, <1>4, <2>1, <2>3, ReceivedRequest DEF Receive
    <3>2. QED
      BY <1>1, <1>2, <3>1
  <2>4. QED
    BY <2>2, <2>3
<1>5. CASE Swallow
  BY <1>1, <1>2, <1>5 DEF Swallow, serverVars, infoVars
<1>6. CASE HandlePlain
  <2>1. pc' = "send" /\ request' = request /\ request \in Requests /\ request.cmd \in {"get_", "plain"}
    BY <1>1, <1>6 DEF HandlePlain
  <2>2. reply' # NoReply => reply' = [kind |-> "get_"] /\ request.cmd = "get_"
    BY <1>1, <1>6 DEF HandlePlain
  <2>3. [kind |-> "get_"] \in Replies /\ [kind |-> "get_"].kind = "get_"
    BY DEF Replies
  <2>4. QED
    BY <1>1, <1>2, <2>1, <2>2, <2>3 DEF Replied
<1>7. CASE Send
  BY <1>1, <1>2, <1>7 DEF Send, Finish
<1>8. CASE WalkBegin
  <2>1. /\ pc' = "walk" /\ request' = request /\ node' = 1 /\ request \in Requests
        /\ request.cmd \in {"get_modes", "set_property"}
        /\ reply' = IF request.cmd = "get_modes" THEN [kind |-> "get_modes", conns |-> {}] ELSE NoReply
    BY <1>1, <1>8 DEF WalkBegin
  <2>2. [kind |-> "get_modes", conns |-> {}] \in Lists
    BY DEF Lists
  <2>3. QED
    BY <1>1, <1>2, <2>1, <2>2
<1>9. CASE WalkStep
  <2>1. /\ pc = "walk" /\ pc' = "walk" /\ request' = request /\ node' \in Nat \ {0}
    BY <1>1, <1>9 DEF WalkStep
  <2>2. conns[node].data \in Conns \cup {NoConn}
    <3>1. conns \in Seq(Nodes) /\ node \in DOMAIN conns
      BY <1>9 DEF WalkStep, IInv, TypeOK, WorkerTypeOK
    <3>2. conns[node] \in Nodes
      BY <3>1
    <3>3. QED
      BY <3>2 DEF Nodes
  <2>3. CASE request.cmd = "set_property"
    BY <1>1, <1>2, <1>9, <2>1, <2>3 DEF WalkStep
  <2>4. CASE request.cmd = "get_modes"
    <3>1. reply \in Lists /\ reply' = [reply EXCEPT !.conns = @ \cup Dump(conns[node])]
      BY <1>1, <1>9, <2>1, <2>4 DEF WalkStep
    <3>2. Dump(conns[node]) \subseteq Conns
      BY <2>2 DEF Dump
    <3>3. reply' \in Lists
      BY <3>1, <3>2 DEF Lists
    <3>4. QED
      BY <1>1, <1>2, <2>1, <2>4, <3>3
  <2>5. QED
    BY <1>1, <2>1, <2>3, <2>4
<1>10. CASE WalkEnd
  <2>1. pc = "walk" /\ pc' = "send" /\ request' = request /\ reply' = reply
    BY <1>10 DEF WalkEnd
  <2>2. reply \in Lists => reply \in Replies /\ reply.kind = "get_modes"
    BY DEF Lists, Replies
  <2>3. QED
    BY <1>1, <1>2, <2>1, <2>2 DEF Replied
<1>11. CASE ReadBegin
  <2>1. /\ pc' = "read" /\ request' = request /\ request \in Requests
        /\ request.cmd \in {"get_display_mode", "get_ui_rect"}
        /\ viewport' = viewport
        /\ reply' = [kind |-> request.cmd, rest |-> Blank,
                     first |-> IF request.cmd = "get_ui_rect" THEN viewport.xy ELSE display_mode.name]
    BY <1>1, <1>11 DEF ReadBegin, infoVars
  <2>2. /\ viewport \in [xy : Rects \cup Sizes \cup {Blank}, wh : Rects \cup Sizes \cup {Blank}]
        /\ display_mode \in [name : Modes \cup {Blank}, size : Modes \cup {Blank}]
    BY DEF IInv, TypeOK, WorkerTypeOK
  <2>3. pc = "handle" /\ call \notin {"ui_size", "mode"}
    BY <1>11 DEF ReadBegin, IInv, TypeOK, WorkerTypeOK, Free
  <2>4. viewport.xy = viewport.wh /\ display_mode.name = display_mode.size
    BY <2>3 DEF IInv, ViewInv
  <2>5. reply' \in Halves
    BY <2>1, <2>2 DEF Halves
  <2>6. reply'.kind = request.cmd /\ reply'.first = IF request.cmd = "get_ui_rect" THEN viewport.wh ELSE display_mode.size
    BY <2>1, <2>4
  <2>7. QED
    BY <1>1, <1>2, <1>3, <2>1, <2>5, <2>6
<1>12. CASE ReadEnd
  <2>1. /\ pc = "read" /\ pc' = "send" /\ request' = request /\ reply \in Halves
        /\ reply' = [reply EXCEPT !.rest = IF request.cmd = "get_ui_rect" THEN viewport.wh ELSE display_mode.size]
    BY <1>1, <1>12 DEF ReadEnd
  <2>2. /\ viewport \in [xy : Rects \cup Sizes \cup {Blank}, wh : Rects \cup Sizes \cup {Blank}]
        /\ display_mode \in [name : Modes \cup {Blank}, size : Modes \cup {Blank}]
    BY DEF IInv, TypeOK, WorkerTypeOK
  <2>3. reply' \in Halves /\ reply'.kind = reply.kind
    BY <2>1, <2>2 DEF Halves
  <2>4. QED
    BY <1>1, <1>2, <2>1, <2>3 DEF Replied, Replies
<1>13. CASE RectBegin
  <2>1. pc' = "rect" /\ request' = request /\ reply' = reply /\ pc = "handle" /\ request.cmd = "set_ui_rect"
    BY <1>13 DEF RectBegin
  <2>2. QED
    BY <1>1, <1>2, <2>1
<1>14. CASE RectStore
  <2>1. pc' \in Rect /\ pc \in Rect /\ request' = request /\ reply' = reply
    BY <1>14 DEF RectStore
  <2>2. QED
    BY <1>1, <1>2, <2>1
<1>15. CASE RectEnd
  <2>1. pc' = "send" /\ pc \in Rect /\ request' = request /\ reply' = reply
    BY <1>15 DEF RectEnd
  <2>2. QED
    BY <1>1, <1>2, <2>1
<1>16. CASE Leave
  BY <1>1, <1>2, <1>16 DEF Leave
<1>17. QED
  BY <1>4, <1>5, <1>6, <1>7, <1>8, <1>9, <1>10, <1>11, <1>12, <1>13, <1>14, <1>15, <1>16 DEF ServerStep

\* Weston's steps leave what the server thread has in hand, and what it reads
\* under the lock.
LEMMA WestonHand == IInv /\ (WestonGoesOn \/ WestonCalls) => HandType'
<1> SUFFICES ASSUME IInv, WestonGoesOn \/ WestonCalls PROVE HandType'
  OBVIOUS
<1>1. HandType /\ LockType /\ LockInv
  BY DEF IInv, TypeOK, WorkerTypeOK, HandType, LockType
<1>2. UNCHANGED <<request, reply, node>>
  BY WestonKeeps
<1>3. ASSUME pc' = pc, pc = "read" => viewport'.wh = viewport.wh /\ display_mode'.size = display_mode.size,
             call' = "append" => args'[1] \in Conns,
             call' = "ui_size" => args'[1] \in Sizes,
             call' = "mode" => args'[1] \in Modes
      PROVE  HandType'
  BY <1>1, <1>2, <1>3 DEF HandType, HandInv, Rect
<1>4. ASSUME pc' = pc, UNCHANGED <<viewport, display_mode>>,
             UNCHANGED <<call, args>> \/ call' \notin {"append", "ui_size", "mode"}
      PROVE  HandType'
  BY <1>1, <1>3, <1>4 DEF HandType, HandInv
<1> USE DEF NoneOfWeston, serverVars, infoVars, Call, Return
<1>5. CASE UpdateAppends \/ CommitNode \/ CommitEnd
  BY <1>4, <1>5 DEF UpdateAppends, AppendTo, CommitNode, CommitEnd
<1>6. CASE ScanRead \/ ScanEnd \/ StopJoined
  BY <1>4, <1>6 DEF ScanRead, ScanEnd, StopJoined
<1>7. CASE UiSizeEnd \/ ModeEnd
  <2>1. pc' = pc /\ pc # "read" /\ call' = "idle"
    BY <1>1, <1>7 DEF UiSizeEnd, ModeEnd, LockInv
  <2>2. QED
    BY <1>3, <2>1
<1>8. CASE StartWorker
  <2>1. /\ pc = "off" /\ pc' \in {"off", "idle"}
        /\ UNCHANGED <<call, args>>
    BY <1>1, <1>8 DEF StartWorker, Goto, westonVars, LockInv
  <2>2. QED
    BY <1>1, <1>2, <2>1 DEF HandType, HandInv, Rect
<1>9. CASE StopWorker
  <2>1. pc' = pc /\ UNCHANGED <<viewport, display_mode>>
    BY <1>9 DEF StopWorker
  <2>2. UNCHANGED <<call, args>> \/ call' \notin {"append", "ui_size", "mode"}
    BY <1>9 DEF StopWorker
  <2>3. QED
    BY <1>4, <2>1, <2>2
<1>10. ASSUME NEW c \in Conns, AppendConnector(c) \/ DeleteConnector(c) PROVE HandType'
  BY <1>4, <1>10 DEF AppendConnector, AppendTo, DeleteConnector, westonVars
<1>11. ASSUME NEW old, NEW new \in Conns, UpdateConnector(old, new) PROVE HandType'
  <2>1. pc' = pc /\ UNCHANGED <<viewport, display_mode>>
    BY <1>11 DEF UpdateConnector
  <2>2. UNCHANGED <<call, args>> \/ (call' = "append" /\ args' = <<new>>)
    BY <1>11 DEF UpdateConnector
  <2>3. QED
    BY <1>3, <1>4, <2>1, <2>2
<1>12. CASE CommitBegin \/ ScanBegin
  BY <1>4, <1>12 DEF CommitBegin, ScanBegin
<1>13. ASSUME NEW r \in Sizes, UiSizeBegin(r) PROVE HandType'
  <2>1. pc' = pc /\ pc # "read" /\ call' = "ui_size" /\ args' = <<r>>
    BY <1>1, <1>13 DEF UiSizeBegin, LockType, Free
  <2>2. QED
    BY <1>3, <2>1
<1>14. ASSUME NEW m \in Modes, ModeBegin(m) PROVE HandType'
  <2>1. pc' = pc /\ pc # "read" /\ call' = "mode" /\ args' = <<m>>
    BY <1>1, <1>14 DEF ModeBegin, LockType, Free
  <2>2. QED
    BY <1>3, <2>1
<1>15. QED
  BY <1>5, <1>6, <1>7, <1>8, <1>9, <1>10, <1>11, <1>12, <1>13, <1>14 DEF WestonGoesOn, WestonCalls

LEMMA HandStep == IInv /\ [Next]_vars => HandType'
<1> SUFFICES ASSUME IInv, [Next]_vars PROVE HandType'
  OBVIOUS
<1>1. HandType
  BY DEF IInv, TypeOK, WorkerTypeOK, HandType
<1>2. CASE ClientStep
  BY <1>1, <1>2, ClientKeeps DEF HandType, HandInv, Rect, serverVars, westonVars, infoVars
<1>3. CASE EndOfFile
  BY <1>1, <1>3 DEF HandType, HandInv, Rect, EndOfFile, westonVars, infoVars
<1>4. CASE UNCHANGED vars
  BY <1>1, <1>4 DEF HandType, HandInv, Rect, vars, workerVars, serverVars, westonVars, infoVars
<1>5. QED
  BY <1>2, <1>3, <1>4, ServerHand, WestonHand DEF Next

-----------------------------------------------------------------------------
(* The connector list.                                                     *)

ListType == conns \in Seq(Nodes) /\ ret \in {0, -1} /\ ListInv

\* One node per connector, said of any list.
Once(s) == \A i, j \in DOMAIN s : s[i].data = s[j].data => i = j \/ s[i].data = NoConn

\* Every change of the list, whoever makes it: it stays a list of nodes with one
\* node per connector.
LEMMA AppendedList ==
  ASSUME conns \in Seq(Nodes), Once(conns), NEW c \in Conns, AppendTo(c)
  PROVE  conns' \in Seq(Nodes) /\ Once(conns')
<1>1. CASE Index(c) # {}
  BY <1>1 DEF AppendTo
<1>2. CASE Index(c) = {}
  <2> DEFINE n == [data |-> c, props |-> Fresh]
  <2>1. n \in Nodes /\ conns' = Append(conns, n)
    BY <1>2 DEF AppendTo, Nodes, Fresh
  <2>2. \A i \in DOMAIN conns : conns[i].data # c
    BY <1>2 DEF Index
  <2> HIDE DEF n
  <2>3. /\ conns' \in Seq(Nodes) /\ DOMAIN conns' = DOMAIN conns \cup {Len(conns) + 1}
        /\ \A i \in DOMAIN conns : conns'[i] = conns[i]
        /\ conns'[Len(conns) + 1] = n
    BY <2>1
  <2>4. n.data = c
    BY DEF n
  <2>5. QED
    BY <2>2, <2>3, <2>4 DEF Once
<1>3. QED
  BY <1>1, <1>2

LEMMA Joined ==
  ASSUME NEW S, NEW a \in Seq(S), NEW b \in Seq(S)
  PROVE  /\ a \o b \in Seq(S)
         /\ DOMAIN (a \o b) = 1 .. Len(a) + Len(b)
         /\ \A i \in 1 .. Len(a) : (a \o b)[i] = a[i]
         /\ \A i \in 1 .. Len(b) : (a \o b)[Len(a) + i] = b[i]
<1>1. a \o b \in Seq(S) /\ Len(a \o b) = Len(a) + Len(b)
  OBVIOUS
<1>2. \A i \in 1 .. Len(a) : (a \o b)[i] = a[i]
  OBVIOUS
<1>3. \A i \in 1 .. Len(b) : (a \o b)[Len(a) + i] = b[i]
  OBVIOUS
<1>4. QED
  BY <1>1, <1>2, <1>3

\* RemoveAt leaves the other elements in their order.
LEMMA Removed ==
  ASSUME NEW S, NEW s \in Seq(S), NEW k \in DOMAIN s
  PROVE  /\ RemoveAt(s, k) \in Seq(S)
         /\ DOMAIN RemoveAt(s, k) = 1 .. Len(s) - 1
         /\ \A i \in 1 .. k - 1 : RemoveAt(s, k)[i] = s[i]
         /\ \A i \in k .. Len(s) - 1 : RemoveAt(s, k)[i] = s[i + 1]
<1>0. k \in 1 .. Len(s) /\ Len(s) \in Nat
  OBVIOUS
<1> DEFINE a == SubSeq(s, 1, k - 1)
           b == SubSeq(s, k + 1, Len(s))
<1>1. a \in Seq(S) /\ \A i \in 1 .. k - 1 : a[i] = s[i]
  BY <1>0
<1>2. Len(a) = k - 1
  BY <1>0
<1>3. b \in Seq(S)
  BY <1>0
<1>4. Len(b) = Len(s) - k
  BY <1>0
<1>5. \A i \in 1 .. Len(s) - k : b[i] = s[k + i]
  BY <1>0
<1>6. RemoveAt(s, k) = a \o b
  BY DEF RemoveAt
<1> HIDE DEF a, b
<1>7. /\ a \o b \in Seq(S)
      /\ DOMAIN (a \o b) = 1 .. k - 1 + (Len(s) - k)
      /\ \A i \in 1 .. k - 1 : (a \o b)[i] = a[i]
      /\ \A i \in 1 .. Len(s) - k : (a \o b)[k - 1 + i] = b[i]
  <2>1. /\ a \o b \in Seq(S)
        /\ DOMAIN (a \o b) = 1 .. Len(a) + Len(b)
        /\ \A i \in 1 .. Len(a) : (a \o b)[i] = a[i]
        /\ \A i \in 1 .. Len(b) : (a \o b)[Len(a) + i] = b[i]
    BY <1>1, <1>3, Joined
  <2>2. QED
    BY <1>2, <1>4, <2>1, Zenon
<1>8. k - 1 + (Len(s) - k) = Len(s) - 1
  BY <1>0
<1>9. ASSUME NEW i \in k .. Len(s) - 1 PROVE (a \o b)[i] = s[i + 1]
  <2>1. PICK j \in 1 .. Len(s) - k : k + j = i + 1 /\ k - 1 + j = i
    <3>1. i - (k - 1) \in 1 .. Len(s) - k /\ k + (i - (k - 1)) = i + 1 /\ k - 1 + (i - (k - 1)) = i
      BY <1>0
    <3>2. QED
      BY <3>1, Zenon
  <2>2. (a \o b)[k - 1 + j] = s[k + j]
    BY <1>5, <1>7, Zenon
  <2>3. QED
    BY <2>1, <2>2, Zenon
<1>10. QED
  BY <1>1, <1>6, <1>7, <1>8, <1>9

LEMMA UpdatedList ==
  ASSUME conns \in Seq(Nodes), Once(conns),
         NEW old, NEW new \in Conns, UpdateConnector(old, new)
  PROVE  /\ conns' \in Seq(Nodes) /\ Once(conns') /\ DOMAIN conns' = DOMAIN conns
         /\ \A i \in DOMAIN conns :
                conns[i].data # new
                /\ conns'[i] = IF conns[i].data = old /\ old # NoConn THEN [data |-> new, props |-> Fresh]
                               ELSE conns[i]
<1> USE WorkerAssumption
<1> DEFINE n == [data |-> new, props |-> Fresh]
           at == IF old = NoConn THEN {} ELSE Index(old)
<1>1. n \in Nodes /\ n.data = new
  BY DEF Nodes, Fresh
<1>2. conns' = [i \in DOMAIN conns |-> IF i \in at THEN n ELSE conns[i]]
  BY DEF UpdateConnector
<1>3. \A i \in DOMAIN conns : i \in at <=> conns[i].data = old /\ old # NoConn
  BY DEF Index
<1>4. \A i \in DOMAIN conns : conns[i].data # new
  BY DEF UpdateConnector, Listed
<1> HIDE DEF n, at
<1>5. conns' \in Seq(Nodes) /\ DOMAIN conns' = DOMAIN conns
  BY <1>1, <1>2
<1>6. \A i \in DOMAIN conns : conns'[i] = IF conns[i].data = old /\ old # NoConn THEN n ELSE conns[i]
  BY <1>2, <1>3
<1>7. Once(conns')
  BY <1>1, <1>4, <1>5, <1>6 DEF Once
<1>8. QED
  BY <1>4, <1>5, <1>6, <1>7 DEF n

LEMMA DeletedList ==
  ASSUME conns \in Seq(Nodes), Once(conns), NEW c \in Conns, conns' = Without(c)
  PROVE  /\ conns' \in Seq(Nodes) /\ Once(conns')
         /\ \A i \in DOMAIN conns : conns[i].data # c => \E j \in DOMAIN conns' : conns'[j] = conns[i]
         /\ \A j \in DOMAIN conns' : conns'[j].data # c
<1> USE WorkerAssumption
<1>1. CASE Index(c) = {}
  <2>1. conns' = conns /\ \A i \in DOMAIN conns : conns[i].data # c
    BY <1>1 DEF Without, Index
  <2>2. QED
    BY <2>1
<1>2. CASE Index(c) = {1}
  <2>1. /\ conns' = [conns EXCEPT ![1].data = NoConn]
        /\ 1 \in DOMAIN conns /\ conns[1].data = c
        /\ \A i \in DOMAIN conns : i # 1 => conns[i].data # c
    BY <1>2 DEF Without, Index
  <2> DEFINE n == [conns[1] EXCEPT !.data = NoConn]
  <2>2. conns[1] \in Nodes
    BY <2>1
  <2>3. n \in Nodes /\ n.data = NoConn
    BY <2>2 DEF Nodes
  <2>4. conns' = [conns EXCEPT ![1] = n]
    BY <2>1
  <2> HIDE DEF n
  <2>5. /\ conns' \in Seq(Nodes) /\ DOMAIN conns' = DOMAIN conns
        /\ \A i \in DOMAIN conns : conns'[i] = IF i = 1 THEN n ELSE conns[i]
    BY <2>1, <2>3, <2>4
  <2>6. QED
    BY <2>1, <2>3, <2>5 DEF Once
<1>3. CASE Index(c) # {} /\ Index(c) # {1}
  <2>1. PICK k \in Index(c) : conns' = RemoveAt(conns, k)
    BY <1>3 DEF Without
  <2>2. k \in DOMAIN conns /\ conns[k].data = c /\ \A i \in DOMAIN conns : conns[i].data = c => i = k
    BY <2>1 DEF Index, Once
  <2>3. /\ conns' \in Seq(Nodes)
        /\ DOMAIN conns' = 1 .. Len(conns) - 1
        /\ \A i \in 1 .. k - 1 : conns'[i] = conns[i]
        /\ \A i \in k .. Len(conns) - 1 : conns'[i] = conns[i + 1]
    BY <2>1, <2>2, Removed
  <2>4. DOMAIN conns = 1 .. Len(conns) /\ k \in 1 .. Len(conns) /\ Len(conns) \in Nat
    BY <2>2
  <2>5. ASSUME NEW j \in DOMAIN conns'
        PROVE  \/ j < k /\ j \in DOMAIN conns /\ conns'[j] = conns[j]
               \/ j >= k /\ j + 1 \in DOMAIN conns /\ conns'[j] = conns[j + 1]
    <3>1. j \in 1 .. k - 1 \/ j \in k .. Len(conns) - 1
      BY <2>3, <2>4
    <3>2. QED
      BY <2>3, <2>4, <3>1
  <2>6. Once(conns')
    BY <2>3, <2>4, <2>5 DEF Once
  <2>7. ASSUME NEW i \in DOMAIN conns, conns[i].data # c
        PROVE  \E j \in DOMAIN conns' : conns'[j] = conns[i]
    <3>1. i # k
      BY <2>2, <2>7
    <3>2. CASE i < k
      <4>1. i \in 1 .. k - 1 /\ i \in 1 .. Len(conns) - 1
        BY <2>4, <3>2
      <4>2. QED
        BY <2>3, <4>1
    <3>3. CASE i > k
      <4>1. i - 1 \in k .. Len(conns) - 1 /\ i - 1 \in 1 .. Len(conns) - 1 /\ i - 1 + 1 = i
        BY <2>4, <3>3
      <4>2. QED
        BY <2>3, <4>1
    <3>4. QED
      BY <2>4, <3>1, <3>2, <3>3
  <2>8. \A j \in DOMAIN conns' : conns'[j].data # c
    BY <2>2, <2>3, <2>4, <2>5
  <2>9. QED
    BY <2>3, <2>6, <2>7, <2>8
<1>4. QED
  BY <1>1, <1>2, <1>3

\* A node whose changes have been added to a request.
LEMMA CommittedList ==
  ASSUME conns \in Seq(Nodes), Once(conns), CommitNode
  PROVE  /\ conns' \in Seq(Nodes) /\ Once(conns')
<1> DEFINE old == conns[pass].props
           new == [p \in Props |-> IF p \in Wanted(conns[pass]) THEN Unwanted ELSE old[p]]
           n == [conns[pass] EXCEPT !.props = new]
<1>1. pass \in DOMAIN conns /\ conns[pass] \in Nodes
  BY DEF CommitNode
<1>2. conns' = [conns EXCEPT ![pass] = n]
  BY DEF CommitNode
<1>3. new \in [Props -> Values \cup {Unwanted}]
  BY <1>1 DEF Nodes
<1> HIDE DEF new
<1>4. n \in Nodes /\ n.data = conns[pass].data
  BY <1>1, <1>3 DEF Nodes
<1> HIDE DEF n
<1>5. /\ conns' \in Seq(Nodes) /\ DOMAIN conns' = DOMAIN conns
      /\ \A i \in DOMAIN conns : conns'[i].data = conns[i].data
  BY <1>1, <1>2, <1>4
<1>6. QED
  BY <1>5 DEF Once

\* A node to which m_message_handle has given a property.
LEMMA SetList ==
  ASSUME conns \in Seq(Nodes), Once(conns), node \in DOMAIN conns,
         request \in Requests, request.cmd = "set_property",
         conns' = [conns EXCEPT ![node] = SetNode(conns[node])]
  PROVE  /\ conns' \in Seq(Nodes) /\ Once(conns') /\ DOMAIN conns' = DOMAIN conns
         /\ request.value \in Values /\ request.name \in Props
         /\ \A i \in DOMAIN conns : i # node => conns'[i] = conns[i]
         /\ conns'[node].data = conns[node].data
         /\ \A p \in Props : conns'[node].props[p] \in {conns[node].props[p], request.value}
         /\ conns[node].data \in Hdmi => conns'[node].props[request.name] = request.value
<1> DEFINE old == conns[node]
           n == SetNode(old)
<1>1. old \in Nodes
  OBVIOUS
<1>2. request.value \in Values /\ request.name \in Props
  BY DEF Requests
<1>3. /\ n \in Nodes /\ n.data = old.data
      /\ \A p \in Props : n.props[p] \in {old.props[p], request.value}
      /\ old.data \in Hdmi => n.props[request.name] = request.value
  <2>1. CASE old.data \in Hdmi
    <3> DEFINE new == [old.props EXCEPT ![request.name] = request.value]
    <3>1. n = [old EXCEPT !.props = new]
      BY <2>1 DEF SetNode, IsHdmiConnector
    <3>2. old.props \in [Props -> Values \cup {Unwanted}]
      BY <1>1 DEF Nodes
    <3>3. /\ new \in [Props -> Values \cup {Unwanted}]
          /\ new[request.name] = request.value
          /\ \A p \in Props : new[p] \in {old.props[p], request.value}
      BY <1>2, <3>2
    <3> HIDE DEF new
    <3>4. n \in Nodes /\ n.data = old.data /\ n.props = new
      BY <1>1, <3>1, <3>3 DEF Nodes
    <3>5. QED
      BY <3>3, <3>4
  <2>2. CASE old.data \notin Hdmi
    BY <1>1, <2>2 DEF SetNode, IsHdmiConnector
  <2>3. QED
    BY <2>1, <2>2
<1> HIDE DEF n
<1>4. conns' = [conns EXCEPT ![node] = n]
  BY DEF n
<1>5. /\ conns' \in Seq(Nodes) /\ DOMAIN conns' = DOMAIN conns
      /\ \A i \in DOMAIN conns : conns'[i] = IF i = node THEN n ELSE conns[i]
  BY <1>3, <1>4
<1>6. Once(conns')
  BY <1>3, <1>5 DEF Once
<1>7. QED
  BY <1>2, <1>3, <1>5, <1>6

LEMMA ServerList == IInv /\ ServerStep => ListType'
<1> SUFFICES ASSUME IInv, ServerStep PROVE ListType'
  OBVIOUS
<1>1. ListType /\ HandInv /\ Once(conns)
  BY DEF IInv, TypeOK, WorkerTypeOK, ListType, ListInv, Once
<1>2. UNCHANGED <<ret, failed>>
  BY ServerKeeps DEF westonVars
<1>3. CASE WalkStep /\ request.cmd = "set_property"
  <2>1. /\ node \in DOMAIN conns /\ pc = "walk" /\ request \in Requests /\ node \in Nat
        /\ conns' = [conns EXCEPT ![node] = SetNode(conns[node])]
        /\ node' = node + 1 /\ request' = request
    BY <1>1, <1>3 DEF WalkStep, HandInv
  <2>2. /\ conns' \in Seq(Nodes) /\ Once(conns') /\ DOMAIN conns' = DOMAIN conns
        /\ \A i \in DOMAIN conns : i # node => conns'[i] = conns[i]
        /\ conns'[node].data = conns[node].data
        /\ conns[node].data \in Hdmi => conns'[node].props[request.name] = request.value
    BY <1>1, <1>3, <2>1, SetList DEF ListType
  <2>3. ASSUME NEW i \in DOMAIN conns', i < node', conns'[i].data \in Hdmi
        PROVE  conns'[i].props[request.name] = request.value
    <3>1. i \in Nat /\ i <= node
      BY <1>1, <2>1, <2>2, <2>3 DEF ListType
    <3>2. CASE i = node
      BY <2>2, <2>3, <3>2
    <3>3. CASE i # node
      BY <1>1, <1>3, <2>1, <2>2, <2>3, <3>1, <3>3 DEF ListType, ListInv
    <3>4. QED
      BY <3>2, <3>3
  <2>4. QED
    BY <1>1, <1>2, <2>1, <2>2, <2>3 DEF ListType, ListInv, Once
<1>4. CASE WalkStep /\ request.cmd # "set_property"
  BY <1>1, <1>2, <1>4 DEF WalkStep, ListType, ListInv
<1>5. CASE WalkBegin
  BY <1>1, <1>2, <1>5 DEF WalkBegin, ListType, ListInv
<1>6. CASE ~WalkStep /\ ~WalkBegin
  <2>1. conns' = conns /\ pc' # "walk"
    BY <1>6 DEF ServerStep, Receive, Swallow, HandlePlain, Send, WalkEnd, ReadBegin, ReadEnd, RectBegin,
                RectStore, RectEnd, Leave, Goto, Finish, serverVars
  <2>2. QED
    BY <1>1, <1>2, <2>1 DEF ListType, ListInv
<1>7. QED
  BY <1>3, <1>4, <1>5, <1>6

LEMMA WestonList == IInv /\ (WestonGoesOn \/ WestonCalls) => ListType'
<1> SUFFICES ASSUME IInv, WestonGoesOn \/ WestonCalls PROVE ListType'
  OBVIOUS
<1>1. ListType /\ LockType /\ LockInv /\ HandInv /\ Once(conns) /\ conns \in Seq(Nodes)
  BY DEF IInv, TypeOK, WorkerTypeOK, ListType, LockType, ListInv, Once
<1>2. UNCHANGED <<request, reply, node>> /\ (UNCHANGED pc \/ StartWorker)
  BY WestonKeeps
<1>3. ASSUME pc # "walk", pc' # "walk", conns' \in Seq(Nodes), Once(conns'),
             ret' \in {0, -1}, failed' => ret' = -1
      PROVE  ListType'
  BY <1>3 DEF ListType, ListInv, Once
<1>4. ASSUME pc' = pc, UNCHANGED <<conns, ret, failed>>
      PROVE  ListType'
  BY <1>1, <1>2, <1>4 DEF ListType, ListInv
<1>5. ASSUME NEW c \in Conns, AppendTo(c), pc' = pc PROVE ListType'
  <2>1. pc # "walk" /\ UNCHANGED <<ret, failed>>
    BY <1>1, <1>5 DEF AppendTo, LockType, Free
  <2>2. conns' \in Seq(Nodes) /\ Once(conns')
    BY <1>1, <1>5, AppendedList
  <2>3. QED
    BY <1>1, <1>3, <1>5, <2>1, <2>2 DEF ListType, ListInv
<1>6. CASE UpdateAppends
  BY <1>1, <1>5, <1>6 DEF UpdateAppends, AppendTo, HandInv, NoneOfWeston, serverVars
<1>7. CASE CommitNode
  <2>1. pc # "walk" /\ pc' = pc
    BY <1>1, <1>7 DEF CommitNode, NoneOfWeston, serverVars, LockInv
  <2>2. conns' \in Seq(Nodes) /\ Once(conns')
    BY <1>1, <1>7, CommittedList
  <2>3. ret' \in {0, -1} /\ (failed' => ret' = -1)
    BY <1>1, <1>7 DEF CommitNode, ErrorOr, ListType, ListInv
  <2>4. QED
    BY <1>3, <2>1, <2>2, <2>3
<1>8. CASE CommitEnd \/ CommitBegin
  <2>1. pc # "walk" /\ pc' = pc /\ conns' = conns
    BY <1>1, <1>8 DEF CommitEnd, CommitBegin, NoneOfWeston, serverVars, LockInv, LockType, Free
  <2>2. ret' = 0 /\ failed' = FALSE
    BY <1>8 DEF CommitEnd, CommitBegin
  <2>3. QED
    BY <1>1, <1>3, <2>1, <2>2
<1>9. CASE ScanRead \/ ScanEnd \/ UiSizeEnd \/ ModeEnd \/ StopJoined
  BY <1>4, <1>9 DEF ScanRead, ScanEnd, UiSizeEnd, ModeEnd, StopJoined, NoneOfWeston, serverVars
<1>10. CASE StartWorker
  <2>1. pc # "walk" /\ pc' # "walk" /\ UNCHANGED <<conns, ret, failed>>
    BY <1>1, <1>10 DEF StartWorker, Goto, LockInv, westonVars
  <2>2. QED
    BY <1>1, <1>3, <2>1 DEF ListType, ListInv
<1>11. CASE StopWorker \/ ScanBegin
  BY <1>4, <1>11 DEF StopWorker, ScanBegin, NoneOfWeston, serverVars
<1>12. ASSUME NEW r, UiSizeBegin(r) \/ ModeBegin(r) PROVE ListType'
  BY <1>4, <1>12 DEF UiSizeBegin, ModeBegin, NoneOfWeston, serverVars
<1>13. ASSUME NEW c \in Conns, AppendConnector(c) PROVE ListType'
  BY <1>5, <1>13 DEF AppendConnector, AppendTo, NoneOfWeston, serverVars
<1>14. ASSUME NEW c \in Conns, DeleteConnector(c) PROVE ListType'
  <2>1. pc # "walk" /\ pc' = pc /\ conns' = Without(c) /\ UNCHANGED <<ret, failed>>
    BY <1>1, <1>14 DEF DeleteConnector, NoneOfWeston, serverVars, westonVars, LockType, Free
  <2>2. conns' \in Seq(Nodes) /\ Once(conns')
    BY <1>1, <2>1, DeletedList
  <2>3. QED
    BY <1>1, <1>3, <2>1, <2>2 DEF ListType, ListInv
<1>15. ASSUME NEW old, NEW new \in Conns, UpdateConnector(old, new) PROVE ListType'
  <2>1. pc # "walk" /\ pc' = pc /\ UNCHANGED <<ret, failed>>
    BY <1>1, <1>15 DEF UpdateConnector, NoneOfWeston, serverVars, LockType, Free
  <2>2. conns' \in Seq(Nodes) /\ Once(conns')
    BY <1>1, <1>15, UpdatedList
  <2>3. QED
    BY <1>1, <1>3, <2>1, <2>2 DEF ListType, ListInv
<1>16. QED
  BY <1>6, <1>7, <1>8, <1>9, <1>10, <1>11, <1>12, <1>13, <1>14, <1>15 DEF WestonGoesOn, WestonCalls

LEMMA ListStep == IInv /\ [Next]_vars => ListType'
<1> SUFFICES ASSUME IInv, [Next]_vars PROVE ListType'
  OBVIOUS
<1>1. ListType
  BY DEF IInv, TypeOK, WorkerTypeOK, ListType
<1>2. CASE ClientStep
  BY <1>1, <1>2, ClientKeeps DEF ListType, ListInv, serverVars, westonVars
<1>3. CASE EndOfFile
  BY <1>1, <1>3 DEF ListType, ListInv, EndOfFile, westonVars
<1>4. CASE UNCHANGED vars
  BY <1>1, <1>4 DEF ListType, ListInv, vars, workerVars, serverVars, westonVars
<1>5. QED
  BY <1>2, <1>3, <1>4, ServerList, WestonList DEF Next

-----------------------------------------------------------------------------
(* The viewport and the display mode.                                      *)

ViewType ==
    /\ viewport \in [xy : Rects \cup Sizes \cup {Blank}, wh : Rects \cup Sizes \cup {Blank}]
    /\ display_mode \in [name : Modes \cup {Blank}, size : Modes \cup {Blank}]
    /\ need_modify \in BOOLEAN
    /\ asked \in Rects \cup {Blank}
    /\ ViewInv

LEMMA ServerView == IInv /\ ServerStep => ViewType'
<1> SUFFICES ASSUME IInv, ServerStep PROVE ViewType'
  OBVIOUS
<1>1. ViewType /\ LockType /\ LockInv /\ HandInv /\ Once(conns) /\ conns \in Seq(Nodes)
  BY DEF IInv, TypeOK, WorkerTypeOK, ViewType, LockType, ListInv, Once
<1>2. UNCHANGED <<call, args, seen>>
  BY ServerKeeps DEF westonVars
<1> USE DEF ViewType, ViewInv, ScanWhole, Rect
<1>3. CASE RectBegin
  <2>1. /\ pc = "handle" /\ pc' = "rect" /\ need_modify' = FALSE
        /\ UNCHANGED <<viewport, display_mode, asked, disturbed, request>>
        /\ call # "ui_size"
    BY <1>1, <1>3 DEF RectBegin, Goto, LockType, Free
  <2>2. QED
    BY <1>1, <1>2, <2>1
<1>4. CASE RectStore
  <2>1. /\ request.rect \in Rects /\ call \notin {"ui_size", "mode"} /\ need_modify = FALSE
        /\ UNCHANGED <<need_modify, display_mode, asked, request>>
        /\ disturbed' = (disturbed \/ call \in {"scan", "scan_wh"})
    BY <1>1, <1>4 DEF RectStore, HandInv, LockInv, Requests
  <2>2. disturbed' <=> disturbed \/ call \in {"scan", "scan_wh"}
    BY <2>1
  <2>3. CASE pc = "rect"
    <3>1. pc' = "rect_wh" /\ viewport' = [viewport EXCEPT !.xy = request.rect]
      BY <1>4, <2>3 DEF RectStore, Goto
    <3>2. viewport'.xy = request.rect /\ viewport' \in [xy : Rects \cup Sizes \cup {Blank}, wh : Rects \cup Sizes \cup {Blank}]
      BY <1>1, <2>1, <3>1
    <3>3. QED
      BY <1>1, <1>2, <2>1, <2>2, <3>1, <3>2
  <2>4. CASE pc = "rect_wh"
    <3>1. pc' = "rect_done" /\ viewport' = [viewport EXCEPT !.wh = request.rect]
      BY <1>4, <2>4 DEF RectStore, Goto
    <3>2. /\ viewport'.wh = request.rect /\ viewport'.xy = viewport.xy
          /\ viewport' \in [xy : Rects \cup Sizes \cup {Blank}, wh : Rects \cup Sizes \cup {Blank}]
      BY <1>1, <2>1, <3>1
    <3>3. QED
      BY <1>1, <1>2, <2>1, <2>2, <2>4, <3>1, <3>2
  <2>5. QED
    BY <1>4, <2>3, <2>4 DEF RectStore
<1>5. CASE RectEnd
  <2>1. /\ request.rect \in Rects /\ call \notin {"ui_size", "mode"}
        /\ pc = "rect_done" /\ pc' = "send" /\ need_modify' = TRUE /\ asked' = request.rect
        /\ UNCHANGED <<viewport, display_mode, disturbed, request>>
    BY <1>1, <1>5 DEF RectEnd, Goto, HandInv, LockInv, Requests
  <2>2. QED
    BY <1>1, <1>2, <2>1, WorkerAssumption
<1>6. CASE ~RectBegin /\ ~RectStore /\ ~RectEnd
  <2>1. /\ UNCHANGED <<viewport, need_modify, display_mode, asked, disturbed>>
        /\ pc \notin Rect /\ pc' \notin Rect
    BY <1>6 DEF ServerStep, Receive, Swallow, HandlePlain, Send, WalkBegin, WalkStep, WalkEnd, ReadBegin,
                ReadEnd, Leave, Goto, Finish, serverVars, infoVars
  <2>2. QED
    BY <1>1, <1>2, <2>1
<1>7. QED
  BY <1>3, <1>4, <1>5, <1>6

LEMMA WestonView == IInv /\ (WestonGoesOn \/ WestonCalls) => ViewType'
<1> SUFFICES ASSUME IInv, WestonGoesOn \/ WestonCalls PROVE ViewType'
  OBVIOUS
<1>1. ViewType /\ LockType /\ LockInv /\ HandInv
  BY DEF IInv, TypeOK, WorkerTypeOK, ViewType, LockType
<1>2. UNCHANGED request
  BY WestonKeeps
<1> USE DEF ViewType, ViewInv, ScanWhole, Rect
<1>3. ASSUME pc' = pc \/ (pc \notin Rect /\ pc' \notin Rect),
             UNCHANGED <<viewport, need_modify, display_mode, asked, seen>>,
             \/ UNCHANGED <<call, args, disturbed>>
             \/ call \notin {"ui_size", "mode"} /\ call' \notin {"ui_size", "mode", "scan", "scan_wh", "scanned"}
      PROVE  ViewType'
  <2>1. CASE UNCHANGED <<call, args, disturbed>>
    BY <1>1, <1>2, <1>3, <2>1
  <2>2. CASE call \notin {"ui_size", "mode"} /\ call' \notin {"ui_size", "mode", "scan", "scan_wh", "scanned"}
    BY <1>1, <1>2, <1>3, <2>2
  <2>3. QED
    BY <1>3, <2>1, <2>2
<1> USE DEF NoneOfWeston, serverVars, infoVars, Call, Return
<1>4. CASE UpdateAppends \/ CommitNode \/ CommitEnd \/ StopJoined
  BY <1>3, <1>4 DEF UpdateAppends, AppendTo, CommitNode, CommitEnd, StopJoined
<1>5. CASE ScanBegin
  <2>1. /\ need_modify /\ call' = "scan" /\ pc' = pc
        /\ UNCHANGED <<viewport, need_modify, display_mode, asked, disturbed, seen>>
        /\ call = "idle"
    BY <1>5 DEF ScanBegin
  <2>2. QED
    BY <1>1, <1>2, <2>1
<1>6. CASE ScanRead
  <2>1. /\ pc' = pc /\ UNCHANGED <<viewport, need_modify, display_mode, asked, disturbed>>
        /\ viewport.xy \in Screen /\ viewport.wh \in Screen
    BY <1>1, <1>6 DEF ScanRead, Screen
  <2>2. CASE call = "scan"
    <3>1. call' = "scan_wh" /\ seen' = [seen EXCEPT !.xy = viewport.xy]
      BY <1>6, <2>2 DEF ScanRead
    <3>2. seen' \in [xy : Screen, wh : Screen] /\ seen'.xy = viewport.xy
      BY <1>1, <2>1, <3>1
    <3>3. QED
      BY <1>1, <1>2, <2>1, <2>2, <3>1, <3>2
  <2>3. CASE call = "scan_wh"
    <3>1. call' = "scanned" /\ seen' = [seen EXCEPT !.wh = viewport.wh]
      BY <1>6, <2>3 DEF ScanRead
    <3>2. seen' \in [xy : Screen, wh : Screen] /\ seen'.wh = viewport.wh /\ seen'.xy = seen.xy
      BY <1>1, <2>1, <3>1
    <3>3. QED
      BY <1>1, <1>2, <2>1, <2>3, <3>1, <3>2
  <2>4. QED
    BY <1>6, <2>2, <2>3 DEF ScanRead
<1>7. CASE ScanEnd
  <2>1. /\ pc' = pc /\ call = "scanned" /\ call' = "idle"
        /\ UNCHANGED <<viewport, need_modify, display_mode, asked>>
        /\ seen' \in [xy : Screen, wh : Screen]
    BY <1>7 DEF ScanEnd, Screen
  <2>2. QED
    BY <1>1, <1>2, <2>1
<1>8. ASSUME NEW r \in Sizes, UiSizeBegin(r) PROVE ViewType'
  <2>1. /\ pc' = pc /\ pc \notin Rect /\ call = "idle" /\ call' = "ui_size" /\ args'[1] = r
        /\ viewport' = IF need_modify THEN viewport ELSE [viewport EXCEPT !.xy = r]
        /\ UNCHANGED <<need_modify, display_mode, asked, disturbed, seen>>
    BY <1>1, <1>8 DEF UiSizeBegin, LockType, Free
  <2>2. CASE need_modify
    BY <1>1, <1>2, <2>1, <2>2
  <2>3. CASE ~need_modify
    <3>1. viewport'.xy = r /\ viewport' \in [xy : Rects \cup Sizes \cup {Blank}, wh : Rects \cup Sizes \cup {Blank}]
      BY <1>1, <2>1, <2>3
    <3>2. QED
      BY <1>1, <1>2, <2>1, <2>3, <3>1
  <2>4. QED
    BY <2>2, <2>3
<1>9. CASE UiSizeEnd
  <2>1. /\ pc' = pc /\ pc \notin Rect /\ call = "ui_size" /\ call' = "idle" /\ args[1] \in Sizes
        /\ viewport' = IF need_modify THEN viewport ELSE [viewport EXCEPT !.wh = args[1]]
        /\ UNCHANGED <<need_modify, display_mode, asked, disturbed, seen>>
    BY <1>1, <1>9 DEF UiSizeEnd, LockInv, HandInv
  <2>2. CASE need_modify
    BY <1>1, <1>2, <2>1, <2>2
  <2>3. CASE ~need_modify
    <3>1. /\ viewport'.xy = viewport.xy /\ viewport'.wh = args[1]
          /\ viewport' \in [xy : Rects \cup Sizes \cup {Blank}, wh : Rects \cup Sizes \cup {Blank}]
      BY <1>1, <2>1, <2>3
    <3>2. QED
      BY <1>1, <1>2, <2>1, <2>3, <3>1
  <2>4. QED
    BY <2>2, <2>3
<1>10. ASSUME NEW m \in Modes, ModeBegin(m) PROVE ViewType'
  <2>1. /\ pc' = pc /\ call = "idle" /\ call' = "mode" /\ args'[1] = m
        /\ display_mode' = [display_mode EXCEPT !.name = m]
        /\ UNCHANGED <<viewport, need_modify, asked, disturbed, seen>>
    BY <1>10 DEF ModeBegin
  <2>2. display_mode' \in [name : Modes \cup {Blank}, size : Modes \cup {Blank}] /\ display_mode'.name = m
    BY <1>1, <2>1
  <2>3. QED
    BY <1>1, <1>2, <2>1, <2>2
<1>11. CASE ModeEnd
  <2>1. /\ pc' = pc /\ call = "mode" /\ call' = "idle" /\ args[1] \in Modes
        /\ display_mode' = [display_mode EXCEPT !.size = args[1]]
        /\ UNCHANGED <<viewport, need_modify, asked, disturbed, seen>>
    BY <1>1, <1>11 DEF ModeEnd, HandInv
  <2>2. /\ display_mode' \in [name : Modes \cup {Blank}, size : Modes \cup {Blank}]
        /\ display_mode'.size = args[1] /\ display_mode'.name = display_mode.name
    BY <1>1, <2>1
  <2>3. QED
    BY <1>1, <1>2, <2>1, <2>2
<1>12. CASE StartWorker
  <2>1. /\ pc \notin Rect /\ pc' \notin Rect
        /\ UNCHANGED <<viewport, need_modify, display_mode, asked, disturbed, seen, call, args>>
    BY <1>1, <1>12 DEF StartWorker, Goto, westonVars, LockInv
  <2>2. QED
    BY <1>3, <2>1
<1>13. CASE StopWorker \/ CommitBegin
  <2>1. /\ UNCHANGED <<viewport, need_modify, display_mode, asked, disturbed, seen, pc>> /\ call = "idle"
        /\ UNCHANGED <<call, args>> \/ call' \in {"stop", "undefined", "commit"}
    BY <1>13 DEF StopWorker, CommitBegin
  <2>2. QED
    BY <1>3, <2>1
<1>14. ASSUME NEW c, AppendConnector(c) \/ DeleteConnector(c) PROVE ViewType'
  BY <1>3, <1>14 DEF AppendConnector, AppendTo, DeleteConnector, westonVars
<1>15. ASSUME NEW old, NEW new, UpdateConnector(old, new) PROVE ViewType'
  <2>1. /\ UNCHANGED <<viewport, need_modify, display_mode, asked, disturbed, seen, pc>> /\ call = "idle"
        /\ UNCHANGED <<call, args>> \/ call' = "append"
    BY <1>15 DEF UpdateConnector
  <2>2. QED
    BY <1>3, <2>1
<1>16. QED
  BY <1>4, <1>5, <1>6, <1>7, <1>8, <1>9, <1>10, <1>11, <1>12, <1>13, <1>14, <1>15 DEF WestonGoesOn, WestonCalls

LEMMA ViewStep == IInv /\ [Next]_vars => ViewType'
<1> SUFFICES ASSUME IInv, [Next]_vars PROVE ViewType'
  OBVIOUS
<1>1. ViewType
  BY DEF IInv, TypeOK, WorkerTypeOK, ViewType
<1> USE DEF ViewType, ViewInv, ScanWhole, Rect, serverVars, westonVars, infoVars
<1>2. CASE ClientStep
  BY <1>1, <1>2, ClientKeeps
<1>3. CASE EndOfFile
  BY <1>1, <1>3 DEF EndOfFile
<1>4. CASE UNCHANGED vars
  BY <1>1, <1>4 DEF vars, workerVars
<1>5. QED
  BY <1>2, <1>3, <1>4, ServerView, WestonView DEF Next

-----------------------------------------------------------------------------
(* The replies.                                                            *)

LEMMA ServerAnswers == IInv /\ ServerStep => AnswerInv'
<1> SUFFICES ASSUME IInv, ServerStep PROVE AnswerInv'
  OBVIOUS
<1>1. AnswerInv /\ HandInv
  BY DEF IInv
<1>2. CASE Send
  <2>1. pc' = "idle" /\ answers' = IF reply = NoReply THEN answers ELSE Append(answers, reply)
    BY <1>2 DEF Send, Finish, Goto
  <2>2. CASE reply = NoReply
    BY <1>1, <2>1, <2>2 DEF AnswerInv
  <2>3. CASE reply # NoReply
    <3>1. reply \in Replies /\ Whole(reply) /\ answers \in Seq(Replies)
      BY <1>1, <1>2, <2>3 DEF Send, AnswerInv, HandInv
    <3>2. /\ answers' \in Seq(Replies)
          /\ \A i \in DOMAIN answers' : (i \in DOMAIN answers /\ answers'[i] = answers[i]) \/ answers'[i] = reply
      BY <2>1, <2>3, <3>1
    <3>3. QED
      BY <1>1, <2>1, <3>1, <3>2 DEF AnswerInv
  <2>4. QED
    BY <2>2, <2>3
<1>3. ASSUME answers' = answers, pc' = "send" => reply' = NoReply \/ Whole(reply')
      PROVE  AnswerInv'
  BY <1>1, <1>3 DEF AnswerInv
<1>4. CASE HandlePlain
  <2>1. answers' = answers /\ pc = "handle" /\ reply' = IF request.cmd = "get_" THEN [kind |-> "get_"] ELSE reply
    BY <1>4 DEF HandlePlain, streams
  <2>2. reply' = NoReply \/ Whole(reply')
    BY <1>1, <2>1 DEF HandInv, Whole
  <2>3. QED
    BY <1>3, <2>2, <2>1
<1>5. CASE WalkEnd
  <2>1. answers' = answers /\ pc = "walk" /\ reply' = reply
    BY <1>5 DEF WalkEnd, streams
  <2>2. reply = NoReply \/ reply.kind = "get_modes"
    BY <1>1, <2>1 DEF HandInv, Lists
  <2>3. QED
    BY <1>3, <2>1, <2>2 DEF Whole
<1>6. CASE ReadEnd
  <2>1. /\ answers' = answers /\ pc = "read" /\ reply \in Halves
        /\ reply' = [reply EXCEPT !.rest = IF request.cmd = "get_ui_rect" THEN viewport.wh ELSE display_mode.size]
        /\ reply.first = IF request.cmd = "get_ui_rect" THEN viewport.wh ELSE display_mode.size
    BY <1>1, <1>6 DEF ReadEnd, streams, HandInv
  <2>2. reply'.first = reply'.rest
    BY <2>1 DEF Halves
  <2>3. QED
    BY <1>3, <2>1, <2>2 DEF Whole
<1>7. CASE RectEnd
  <2>1. answers' = answers /\ reply' = reply /\ reply = NoReply
    BY <1>1, <1>7 DEF RectEnd, streams, HandInv, Rect
  <2>2. QED
    BY <1>3, <2>1
<1>8. CASE ~Send /\ ~HandlePlain /\ ~WalkEnd /\ ~ReadEnd /\ ~RectEnd
  <2>1. answers' = answers /\ pc' # "send"
    BY <1>8 DEF ServerStep, Receive, Swallow, WalkBegin, WalkStep, ReadBegin, RectBegin, RectStore, Leave,
                Goto, streams, serverVars
  <2>2. QED
    BY <1>3, <2>1
<1>9. QED
  BY <1>2, <1>4, <1>5, <1>6, <1>7, <1>8

\* What the program does to the two streams.
LEMMA ClientStreams ==
  ClientStep => UNCHANGED answers \/ Answer
<1>1. ASSUME NEW r, Tell(r) PROVE UNCHANGED answers
  BY <1>1 DEF Tell
<1>2. ASSUME NEW r, AskFor(r) PROVE UNCHANGED answers
  BY <1>2 DEF AskFor
<1>3. QED
  BY <1>1, <1>2 DEF ClientStep, Connect, TellSetting, TellRaw, Query, BadOption, Answer,
                    AnswerMissing, Exit, streams

LEMMA AnswerStep == IInv /\ [Next]_vars => AnswerInv'
<1> SUFFICES ASSUME IInv, [Next]_vars PROVE AnswerInv'
  OBVIOUS
<1>1. AnswerInv /\ LockInv
  BY DEF IInv
<1>2. CASE ClientStep
  <2>1. UNCHANGED <<pc, reply>>
    BY <1>2, ClientKeeps DEF serverVars
  <2>2. CASE UNCHANGED answers
    BY <1>1, <2>1, <2>2 DEF AnswerInv
  <2>3. CASE Answer
    <3>1. answers' = Tail(answers) /\ answers # <<>> /\ answers \in Seq(Replies)
      BY <1>1, <2>3 DEF Answer, AnswerInv
    <3>2. answers' \in Seq(Replies) /\ \A i \in DOMAIN answers' : i + 1 \in DOMAIN answers /\ answers'[i] = answers[i + 1]
      BY <3>1
    <3>3. QED
      BY <1>1, <2>1, <3>2 DEF AnswerInv
  <2>4. QED
    BY <1>2, <2>2, <2>3, ClientStreams
<1>3. CASE EndOfFile
  BY <1>1, <1>3 DEF AnswerInv, EndOfFile, streams
<1>4. CASE UNCHANGED vars
  BY <1>1, <1>4 DEF AnswerInv, vars, workerVars, serverVars, streams
<1>5. CASE WestonGoesOn \/ WestonCalls
  <2>1. UNCHANGED <<reply, answers>> /\ (UNCHANGED pc \/ pc' # "send")
    BY <1>5, WestonKeeps DEF StartWorker, Goto
  <2>2. QED
    BY <1>1, <2>1 DEF AnswerInv
<1>6. QED
  BY <1>2, <1>3, <1>4, <1>5, ServerAnswers DEF Next

-----------------------------------------------------------------------------
(* One question, one reply.                                                *)

PipeType ==
    /\ wire \in Seq(Requests \cup {Null})
    /\ prog \in {"connect", "option", "wait", "exited"}
    /\ PipeInv

LEMMA NotReplied == ~Replied(Null) /\ ~Replied(NoRequest)
  BY DEF Replied, Null, NoRequest

LEMMA ServerPipe == IInv /\ ServerStep /\ UNCHANGED clientVars => PipeType'
<1> SUFFICES ASSUME IInv, ServerStep, UNCHANGED clientVars PROVE PipeType'
  OBVIOUS
<1>1. PipeType /\ HandInv /\ AnswerInv /\ LockInv
  BY DEF IInv, TypeOK, PipeType
<1>2. UNCHANGED <<prog, query, stray>>
  BY DEF clientVars
<1> USE DEF PipeType
<1>3. CASE Receive
  <2>1. PICK n \in DOMAIN wire : wire' = SubSeq(wire, n + 1, Len(wire))
    BY <1>3 DEF Receive
  <2>2. /\ pc = "idle" /\ UNCHANGED <<worker, answers>>
        /\ request' = request \/ request' = Head(wire)
    BY <1>3 DEF Receive, NoneOfServer
  <2>3. wire \in Seq(Requests \cup {Null}) /\ n \in 1 .. Len(wire) /\ Len(wire) \in Nat
    BY <1>1, <2>1
  <2>4. /\ wire' \in Seq(Requests \cup {Null})
        /\ \A i \in DOMAIN wire' : n + i \in DOMAIN wire /\ n + i # 1 /\ wire'[i] = wire[n + i]
        /\ \A i, j \in DOMAIN wire' : n + i = n + j => i = j
    <3>1. wire' \in Seq(Requests \cup {Null})
      BY <2>1, <2>3
    <3>2. Len(wire') = Len(wire) - n
      BY <2>1, <2>3
    <3>3. \A i \in 1 .. Len(wire) - n : wire'[i] = wire[n + i]
      BY <2>1, <2>3
    <3>4. DOMAIN wire' = 1 .. Len(wire) - n
      BY <3>1, <3>2
    <3>5. QED
      BY <2>3, <3>1, <3>3, <3>4
  <2>5. Head(wire) = wire[1] /\ 1 \in DOMAIN wire
    BY <2>3
  <2>6. ~Replied(request)
    BY <1>1, <2>2, NotReplied DEF HandInv
  <2>7. Replied(request') => request' = wire[1]
    BY <2>2, <2>5, <2>6
  <2>8. QED
    BY <1>1, <1>2, <2>2, <2>4, <2>5, <2>6, <2>7 DEF PipeInv, Dead
<1>4. CASE Swallow
  <2>1. wire' = Tail(wire) /\ wire # <<>> /\ UNCHANGED <<worker, answers, request>> /\ wire \in Seq(Requests \cup {Null})
    BY <1>1, <1>4 DEF Swallow, NoneOfServer, serverVars
  <2>2. /\ wire' \in Seq(Requests \cup {Null})
        /\ \A i \in DOMAIN wire' : i \in Nat /\ i + 1 \in DOMAIN wire /\ wire'[i] = wire[i + 1]
    BY <2>1
  <2>3. \A i, j \in DOMAIN wire' : i + 1 = j + 1 => i = j
    BY <2>2
  <2>4. QED
    BY <1>1, <1>2, <2>1, <2>2, <2>3 DEF PipeInv, Dead
<1>5. CASE Send
  <2>1. /\ pc = "send" /\ request' = NoRequest /\ UNCHANGED <<wire, worker>>
        /\ answers' = IF reply = NoReply THEN answers ELSE Append(answers, reply)
        /\ ~Dead
    BY <1>1, <1>5 DEF Send, Finish, NoneOfServer, LockInv, Dead
  <2>2. CASE reply = NoReply
    BY <1>1, <1>2, <2>1, <2>2, NotReplied DEF PipeInv, Dead
  <2>3. CASE reply # NoReply /\ ~stray
    <3>1. Replied(request) /\ reply.kind = request.cmd /\ reply \in Replies
      BY <1>1, <2>1, <2>3 DEF HandInv
    <3>2. prog = "wait" /\ request.cmd = query /\ answers = <<>> /\ \A i \in DOMAIN wire : ~Replied(wire[i])
      BY <1>1, <2>1, <2>3, <3>1 DEF PipeInv
    <3>3. answers' = <<reply>>
      BY <2>1, <2>3, <3>2
    <3>4. \A i \in DOMAIN answers' : i = 1 /\ answers'[i] = reply
      BY <3>3
    <3>5. QED
      BY <1>1, <1>2, <2>1, <3>1, <3>2, <3>4, NotReplied DEF PipeInv, Dead
  <2>4. CASE stray
    BY <1>1, <1>2, <2>1, <2>4 DEF PipeInv
  <2>5. QED
    BY <2>2, <2>3, <2>4
<1>6. CASE Leave
  BY <1>1, <1>2, <1>6 DEF Leave, PipeInv, Dead, streams
<1>7. CASE ~Receive /\ ~Swallow /\ ~Send /\ ~Leave
  <2>1. UNCHANGED <<wire, answers, request, worker>>
    BY <1>7 DEF ServerStep, HandlePlain, WalkBegin, WalkStep, WalkEnd, ReadBegin, ReadEnd, RectBegin,
                RectStore, RectEnd, NoneOfServer, streams
  <2>2. QED
    BY <1>1, <1>2, <2>1 DEF PipeInv, Dead
<1>8. QED
  BY <1>3, <1>4, <1>5, <1>6, <1>7

\* stop_help_worker's thread does not come back.
LEMMA StaysDead == WestonGoesOn \/ WestonCalls => (Dead => Dead')
<1> USE DEF Dead
<1>1. WestonGoesOn => (Dead => Dead')
  BY DEF WestonGoesOn, UpdateAppends, AppendTo, CommitNode, CommitEnd, ScanRead, ScanEnd,
         UiSizeEnd, ModeEnd, StopJoined
<1>2. StartWorker \/ StopWorker \/ CommitBegin \/ ScanBegin => (Dead => Dead')
  BY DEF StartWorker, StopWorker, CommitBegin, ScanBegin
<1>3. ASSUME NEW c, AppendConnector(c) \/ DeleteConnector(c) PROVE UNCHANGED worker
  BY <1>3 DEF AppendConnector, AppendTo, DeleteConnector
<1>4. ASSUME NEW old, NEW new, UpdateConnector(old, new) PROVE UNCHANGED worker
  BY <1>4 DEF UpdateConnector
<1>5. ASSUME NEW r, UiSizeBegin(r) \/ ModeBegin(r) PROVE UNCHANGED worker
  BY <1>5 DEF UiSizeBegin, ModeBegin
<1>6. QED
  BY <1>1, <1>2, <1>3, <1>4, <1>5 DEF WestonCalls

\* What the program sends while it asks nothing gets no reply, unless it is a raw
\* command; what it asks, it asks when nothing is on its way.
LEMMA ClientPipe == IInv /\ ClientStep => PipeType'
<1> SUFFICES ASSUME IInv, ClientStep PROVE PipeType'
  OBVIOUS
<1>1. /\ PipeType /\ answers \in Seq(Replies) /\ wire \in Seq(Requests \cup {Null})
      /\ UNCHANGED <<request, worker>>
  BY ClientKeeps DEF IInv, TypeOK, PipeType, AnswerInv, serverVars
<1> USE DEF PipeType
<1>2. ASSUME prog = "connect" \/ prog = "option", prog' \in {"option", "exited"},
             UNCHANGED <<streams, stray>>
      PROVE  PipeType'
  BY <1>1, <1>2 DEF PipeInv, Dead, streams
<1>3. CASE Connect
  BY <1>2, <1>3 DEF Connect
<1>4. CASE BadOption
  BY <1>2, <1>4 DEF BadOption, NextOption
<1>5. CASE Exit
  BY <1>2, <1>5 DEF Exit
<1>6. ASSUME NEW r \in Requests, Tell(r), stray \/ Replied(r) => stray'
      PROVE  PipeType'
  <2>1. prog = "option" /\ wire' = Append(wire, r) /\ UNCHANGED <<answers, prog, query>>
    BY <1>6 DEF Tell, NextOption
  <2>2. /\ wire' \in Seq(Requests \cup {Null})
        /\ \A i \in DOMAIN wire' : wire'[i] = r \/ (i \in DOMAIN wire /\ wire'[i] = wire[i])
    BY <1>1, <2>1
  <2>3. QED
    BY <1>1, <1>6, <2>1, <2>2 DEF PipeInv, Dead
<1>7. CASE TellSetting
  <2>1. PICK r \in Requests : Tell(r) /\ ~Replied(r)
    <3>1. CASE Tell([cmd |-> "plain"])
      BY <3>1 DEF Requests, Replied
    <3>2. ASSUME NEW p \in Props, NEW v \in Values,
                 Tell([cmd |-> "set_property", name |-> p, value |-> v])
          PROVE  \E r \in Requests : Tell(r) /\ ~Replied(r)
      BY <3>2 DEF Requests, Replied
    <3>3. ASSUME NEW q \in Rects, Tell([cmd |-> "set_ui_rect", rect |-> q])
          PROVE  \E r \in Requests : Tell(r) /\ ~Replied(r)
      BY <3>3 DEF Requests, Replied
    <3>4. QED
      BY <1>7, <3>1, <3>2, <3>3 DEF TellSetting
  <2>2. UNCHANGED stray
    BY <1>7 DEF TellSetting
  <2>3. QED
    BY <1>6, <2>1, <2>2
<1>8. CASE TellRaw
  <2>1. PICK c \in RawCommands : Tell([cmd |-> c])
    BY <1>8 DEF TellRaw
  <2> DEFINE r == [cmd |-> c]
  <2>2. r \in Requests
    BY ClientAssumption DEF Requests
  <2> HIDE DEF r
  <2>3. wire' = Append(wire, r)
    BY <2>1 DEF Tell, r
  <2>4. wire'[Len(wire')] = r
    BY <1>1, <2>2, <2>3
  <2>5. stray \/ Replied(r) => stray'
    BY <1>8, <2>4 DEF TellRaw
  <2>6. QED
    BY <1>6, <2>1, <2>2, <2>5 DEF r
<1>9. CASE Query
  <2>1. PICK c \in {"get_modes", "get_display_mode", "get_ui_rect", "get_", "plain"} : AskFor([cmd |-> c])
    BY <1>9 DEF Query
  <2> DEFINE r == [cmd |-> c]
  <2>2. r \in Requests /\ r.cmd = c
    BY DEF Requests
  <2>3. /\ prog = "option" /\ prog' = "wait" /\ query' = r.cmd /\ UNCHANGED <<answers, stray>>
        /\ wire' = wire \o <<r, Null>>
    BY <2>1 DEF AskFor, NextOption
  <2> HIDE DEF r
  <2> DEFINE k == Len(wire) + 1
  <2>4. <<r, Null>> \in Seq(Requests \cup {Null})
    BY <2>2
  <2>5. wire \o <<r, Null>> \in Seq(Requests \cup {Null})
    BY <1>1, <2>4
  <2>6. \A i \in DOMAIN wire' : \/ i \in DOMAIN wire /\ wire'[i] = wire[i]
                                \/ i = k /\ wire'[i] = r
                                \/ wire'[i] = Null
    <3>1. Len(wire') = Len(wire) + 2 /\ Len(wire) \in Nat
      BY <1>1, <2>3, <2>4
    <3>2. \A i \in 1 .. Len(wire) : wire'[i] = wire[i]
      BY <1>1, <2>3, <2>4
    <3>3. wire'[Len(wire) + 1] = r /\ wire'[Len(wire) + 2] = Null
      BY <1>1, <2>3, <2>4
    <3>4. \A i \in DOMAIN wire' : i \in 1 .. Len(wire) \/ i = Len(wire) + 1 \/ i = Len(wire) + 2
      BY <2>3, <2>5, <3>1
    <3>5. DOMAIN wire = 1 .. Len(wire)
      BY <1>1
    <3>6. QED
      BY <3>2, <3>3, <3>4, <3>5
  <2>7. ~stray => answers = <<>> /\ (~Dead => ~Replied(request) /\ \A i \in DOMAIN wire : ~Replied(wire[i]))
    <3>1. ~stray => \A i \in DOMAIN answers : FALSE
      BY <1>1, <2>3 DEF PipeInv
    <3>2. answers # <<>> => 1 \in DOMAIN answers
      BY <1>1
    <3>3. ~stray /\ ~Dead => ~Replied(request) /\ \A i \in DOMAIN wire : ~Replied(wire[i])
      BY <1>1, <2>3 DEF PipeInv
    <3>4. QED
      BY <3>1, <3>2, <3>3
  <2> HIDE DEF k
  <2>8. ~stray /\ ~Dead => \A i \in DOMAIN wire' : Replied(wire'[i]) => i = k /\ wire'[i] = r
    BY <2>6, <2>7, NotReplied
  <2>9. wire' \in Seq(Requests \cup {Null})
    BY <2>3, <2>5
  <2>10. QED
    BY <1>1, <2>3, <2>7, <2>8, <2>9 DEF PipeInv, Dead
<1>10. CASE Answer
  <2>1. /\ prog' = "option" /\ UNCHANGED <<wire, stray>> /\ answers # <<>> /\ answers' = Tail(answers)
    BY <1>10 DEF Answer
  <2>2. ASSUME NEW i \in DOMAIN answers' PROVE i + 1 \in DOMAIN answers /\ i + 1 # 1
    BY <1>1, <2>1
  <2>3. QED
    BY <1>1, <2>1, <2>2 DEF PipeInv, Dead
<1>11. CASE AnswerMissing
  <2>1. prog' = "option" /\ UNCHANGED <<streams, stray>> /\ Dead /\ answers = <<>>
    BY <1>11 DEF AnswerMissing, Dead
  <2>2. DOMAIN answers = {}
    BY <2>1
  <2>3. QED
    BY <1>1, <2>1, <2>2 DEF PipeInv, Dead, streams
<1>12. QED
  BY <1>3, <1>4, <1>5, <1>7, <1>8, <1>9, <1>10, <1>11 DEF ClientStep

LEMMA PipeStep == IInv /\ [Next]_vars => PipeType'
<1> SUFFICES ASSUME IInv, [Next]_vars PROVE PipeType'
  OBVIOUS
<1>1. PipeType
  BY DEF IInv, TypeOK, PipeType
<1>2. CASE EndOfFile
  BY <1>1, <1>2 DEF EndOfFile, PipeType, PipeInv, Dead, streams, clientVars
<1>3. CASE UNCHANGED vars
  BY <1>1, <1>3 DEF PipeType, PipeInv, Dead, vars, workerVars, serverVars, streams, clientVars
<1>4. CASE (WestonGoesOn \/ WestonCalls) /\ UNCHANGED clientVars
  <2>1. UNCHANGED <<request, wire, answers, prog, query, stray>> /\ (Dead => Dead')
    BY <1>4, WestonKeeps, StaysDead DEF clientVars
  <2>2. QED
    BY <1>1, <2>1 DEF PipeType, PipeInv
<1>5. QED
  BY <1>2, <1>3, <1>4, ServerPipe, ClientPipe DEF Next

-----------------------------------------------------------------------------
LEMMA IInvStep == IInv /\ [Next]_vars => IInv'
<1> SUFFICES ASSUME IInv, [Next]_vars PROVE IInv'
  OBVIOUS
<1>1. /\ LockType' /\ LockInv' /\ HandType' /\ ListType' /\ ViewType' /\ AnswerInv' /\ PipeType'
  BY LockStep, HandStep, ListStep, ViewStep, AnswerStep, PipeStep
<1>2. TypeOK'
  BY <1>1 DEF TypeOK, WorkerTypeOK, LockType, HandType, ListType, ViewType, PipeType
<1>3. QED
  BY <1>1, <1>2 DEF IInv, HandType, ListType, ViewType, PipeType

LEMMA Invariance == Spec => []IInv
  BY InitIInv, IInvStep, PTL DEF Spec

\* Types, and who holds the two locks at every step of the two threads.
THEOREM HelperTypes == Spec => []TypeOK
<1>1. IInv => TypeOK
  BY DEF IInv
<1>2. QED
  BY <1>1, Invariance, PTL

\* The walk of m_message_handle gives the property to every HDMI connector that
\* is listed when it ends, for any list and whatever weston calls meanwhile.
THEOREM HelperSetsAll == Spec => []SetReachesAll
<1>1. IInv => SetReachesAll
  <2> SUFFICES ASSUME IInv, pc = "walk", node \notin DOMAIN conns, request.cmd = "set_property",
                      NEW i \in DOMAIN conns, conns[i].data \in Hdmi
               PROVE  conns[i].props[request.name] = request.value
    BY DEF SetReachesAll
  <2>1. conns \in Seq(Nodes) /\ node \in Nat \ {0}
    BY DEF IInv, TypeOK, WorkerTypeOK, HandInv
  <2>2. i < node
    BY <2>1
  <2>3. QED
    BY <2>2 DEF IInv, ListInv
<1>2. QED
  BY <1>1, Invariance, PTL

\* The client's rectangle survives every report of weston, replies carry no
\* halves of two, and neither does a scan that no store meets.
THEOREM HelperViewport == Spec => []ViewportWhole
<1>1. IInv => ViewportWhole
  <2> SUFFICES ASSUME IInv PROVE ClientRectKept /\ RepliesWhole /\ ScanWhole
    BY DEF ViewportWhole
  <2>1. ClientRectKept
    <3>1. viewport \in [xy : Rects \cup Sizes \cup {Blank}, wh : Rects \cup Sizes \cup {Blank}]
      BY DEF IInv, TypeOK, WorkerTypeOK
    <3>2. viewport = [xy |-> viewport.xy, wh |-> viewport.wh]
      BY <3>1
    <3>3. QED
      BY <3>2 DEF IInv, ViewInv, ClientRectKept
  <2>2. RepliesWhole /\ ScanWhole
    BY DEF IInv, AnswerInv, Whole, RepliesWhole, ViewInv
  <2>3. QED
    BY <2>1, <2>2
<1>2. QED
  BY <1>1, Invariance, PTL

\* What the program takes for the answer is the answer to what it asked, although
\* replies carry nothing that says so, unless a raw command left one behind.
THEOREM HelperAnswers == Spec => AnswerMatches
<1>1. IInv /\ [Next]_vars => [Answer => Head(answers).kind = query \/ stray]_vars
  <2> SUFFICES ASSUME IInv, Answer, ~stray PROVE Head(answers).kind = query
    OBVIOUS
  <2>1. answers \in Seq(Replies) /\ answers # <<>>
    BY DEF IInv, AnswerInv, Answer
  <2>2. 1 \in DOMAIN answers /\ Head(answers) = answers[1]
    BY <2>1
  <2>3. QED
    BY <2>2 DEF IInv, PipeInv
<1>2. QED
  BY <1>1, Invariance, PTL DEF Spec, AnswerMatches

-----------------------------------------------------------------------------
(* Changes a client wants.                                                 *)

\* A change stays pending when every node of its connector leaves a successor
\* that wants it.
LEMMA StaysPending ==
  ASSUME NEW c, NEW p, Pending(c, p),
         \A i \in DOMAIN conns : conns[i].data = c /\ conns[i].props[p] # Unwanted =>
             \E j \in DOMAIN conns' : conns'[j].data = c /\ conns'[j].props[p] # Unwanted
  PROVE  Pending(c, p)'
  BY DEF Pending, Index

Lost(c, p) == Pending(c, p) /\ ~Pending(c, p)'

\* A step that leaves the list alone loses nothing, nor does one that appends.
LEMMA AppendLoses ==
  ASSUME conns \in Seq(Nodes), NEW c \in Conns, AppendTo(c), NEW d, NEW p
  PROVE  ~Lost(d, p)
<1>1. \A i \in DOMAIN conns : i \in DOMAIN conns' /\ conns'[i] = conns[i]
  <2>1. conns' = conns \/ \E n : conns' = Append(conns, n)
    BY DEF AppendTo
  <2>2. QED
    BY <2>1
<1>2. QED
  BY <1>1, StaysPending DEF Lost

LEMMA ChangeStep ==
  ASSUME IInv, [Next]_vars, NEW c \in Listed, NEW p \in Props, Lost(c, p)
  PROVE  c \notin Listed' \/ (call = "commit" /\ (failed' => ret' = -1))
<1> USE WorkerAssumption
<1>1. /\ conns \in Seq(Nodes) /\ Once(conns) /\ ListInv /\ HandInv
      /\ c # NoConn
      /\ \A i \in DOMAIN conns : conns[i] \in Nodes
  BY DEF IInv, TypeOK, WorkerTypeOK, ListInv, Once, Listed
<1>2. conns' # conns
  BY DEF Lost, Pending, Index
<1>3. CASE WalkStep
  <2>1. /\ node \in DOMAIN conns /\ request.cmd = "set_property" /\ pc = "walk"
        /\ conns' = [conns EXCEPT ![node] = SetNode(conns[node])]
    BY <1>2, <1>3 DEF WalkStep
  <2>2. request \in Requests
    BY <1>1, <2>1 DEF HandInv
  <2>3. /\ DOMAIN conns' = DOMAIN conns /\ request.value # Unwanted
        /\ \A i \in DOMAIN conns : i # node => conns'[i] = conns[i]
        /\ conns'[node].data = conns[node].data
        /\ conns'[node].props[p] \in {conns[node].props[p], request.value}
    BY <1>1, <2>1, <2>2, SetList
  <2>4. \A i \in DOMAIN conns : conns[i].data = c /\ conns[i].props[p] # Unwanted =>
            conns'[i].data = c /\ conns'[i].props[p] # Unwanted
    BY <2>3
  <2>5. QED
    BY <2>3, <2>4, StaysPending DEF Lost
<1>4. CASE UpdateAppends
  BY <1>1, <1>4, AppendLoses DEF UpdateAppends, HandInv
<1>5. CASE CommitNode
  <2>1. IInv'
    BY IInvStep
  <2>2. QED
    BY <1>5, <2>1 DEF CommitNode, IInv, ListInv
<1>6. ASSUME NEW d \in Conns, AppendConnector(d) PROVE FALSE
  BY <1>1, <1>6, AppendLoses DEF AppendConnector
<1>7. ASSUME NEW d \in Conns, DeleteConnector(d) PROVE c \notin Listed'
  <2>1. /\ \A i \in DOMAIN conns : conns[i].data # d => \E j \in DOMAIN conns' : conns'[j] = conns[i]
        /\ \A j \in DOMAIN conns' : conns'[j].data # d
    BY <1>1, <1>7, DeletedList DEF DeleteConnector
  <2>2. c = d
    BY <2>1, StaysPending DEF Lost
  <2>3. QED
    BY <2>1, <2>2 DEF Listed
<1>8. ASSUME NEW old, NEW new \in Conns, UpdateConnector(old, new) PROVE c \notin Listed'
  <2>1. /\ DOMAIN conns' = DOMAIN conns
        /\ \A i \in DOMAIN conns :
                conns[i].data # new
                /\ conns'[i] = IF conns[i].data = old /\ old # NoConn THEN [data |-> new, props |-> Fresh]
                               ELSE conns[i]
    BY <1>1, <1>8, UpdatedList
  <2>2. c = old
    BY <2>1, StaysPending DEF Lost
  <2>3. c # new /\ [data |-> new, props |-> Fresh].data = new
    BY <2>1 DEF Listed
  <2>4. \A i \in DOMAIN conns' : conns'[i].data # c
    BY <1>1, <2>1, <2>2, <2>3
  <2>5. QED
    BY <2>4 DEF Listed
<1>9. ServerStep => WalkStep
  BY <1>2 DEF ServerStep, Receive, Swallow, HandlePlain, Send, WalkBegin, WalkEnd, ReadBegin, ReadEnd,
              RectBegin, RectStore, RectEnd, Leave
<1>10. WestonGoesOn => UpdateAppends \/ CommitNode
  BY <1>2 DEF WestonGoesOn, CommitEnd, ScanRead, ScanEnd, UiSizeEnd, ModeEnd, StopJoined
<1>11. ~StartWorker /\ ~StopWorker /\ ~CommitBegin /\ ~ScanBegin
       /\ \A r : ~UiSizeBegin(r) /\ ~ModeBegin(r)
  BY <1>2 DEF StartWorker, StopWorker, CommitBegin, ScanBegin, UiSizeBegin, ModeBegin
<1>12. ~ClientStep /\ ~EndOfFile /\ ~UNCHANGED vars
  BY <1>2, ClientKeeps DEF EndOfFile, vars, workerVars
<1>13. QED
  BY <1>3, <1>4, <1>5, <1>6, <1>7, <1>8, <1>9, <1>10, <1>11, <1>12 DEF Next, WestonCalls

\* A change a client asked for is never lost: it waits until its connector goes
\* or a pass of help_atomic_req_add_prop takes it, and a pass that could not hand
\* it on says so.
THEOREM HelperLosesNothing == Spec => NoChangeLost
<1>1. IInv /\ [Next]_vars =>
        [\A c \in Listed, p \in Props :
            Pending(c, p) /\ ~Pending(c, p)' =>
                \/ c \notin Listed'
                \/ call = "commit" /\ (failed' => ret' = -1)]_workerVars
  BY ChangeStep DEF Lost
<1>2. QED
  BY <1>1, Invariance, PTL DEF Spec, NoChangeLost
=============================================================================
