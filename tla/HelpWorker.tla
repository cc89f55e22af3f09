----------------------------- MODULE HelpWorker -----------------------------
(***************************************************************************)
(* The helper of compositor-drm-help.c around its globals: the connector   *)
(* list under "mutex", the UI viewport and the display mode under          *)
(* "info_rwlock".  Two threads use them: weston's, which calls the help_*  *)
(* functions, and the IPC server's, which runs m_message_handle for one    *)
(* request after the other.  A thread takes a lock in a step of its own,   *)
(* and a walk over the list takes one step per node.  "set mode" is        *)
(* TaskRing and OutputList; here it is a request without an answer.        *)
(***************************************************************************)
EXTENDS Integers, Sequences, FiniteSets, SequencesExt

CONSTANTS
    Conns,       \* drmModeConnector objects weston owns
    Hdmi,        \* those whose connector_type is HDMIA or HDMIB
    NoConn,      \* NULL in the data field of a node
    Props,       \* the names of connector_props
    Values,      \* values a client gives a property
    Unwanted,    \* need_change = 0
    Modes,       \* display modes
    Rects,       \* UI rectangles a client sets
    Sizes,       \* the whole screen, for the logical sizes weston reports
    Blank        \* what a rectangle or a mode is before anyone set it

ASSUME WorkerAssumption ==
    /\ Hdmi \subseteq Conns
    /\ NoConn \notin Conns
    /\ Blank \notin Rects \cup Sizes \cup Modes
    /\ Unwanted \notin Values

VARIABLES
    \* who holds mutex and, for writing or reading, info_rwlock
    mutex, info_rwlock,
    \* global_connector_list: the nodes before the empty one at its tail
    conns,
    \* g_ui_viewport in two halves, g_ui_viewport_need_modify, g_display_mode
    viewport, need_modify, display_mode,
    \* what g_server_ctx points to, and the IPC server thread: its step, the
    \* request and the reply in hand, and the node it stands on
    worker, pc, request, reply, node,
    \* weston's thread: its step, its arguments, the node it stands on, the
    \* return value of help_atomic_req_add_prop and the halves it has read
    call, args, pass, ret, seen,
    \* history: the rectangle of the last "set ui rect" (Blank: none), whether
    \* drmModeAtomicAddProperty failed in this pass, and whether the viewport
    \* was stored to while weston's thread reads it
    asked, failed, disturbed,
    \* the texts between client and server: requests, and replies
    wire, answers

serverVars == <<pc, request, reply, node>>
westonVars == <<call, args, pass, ret, seen, failed>>
infoVars == <<viewport, need_modify, display_mode, asked, disturbed>>
streams == <<wire, answers>>
workerVars == <<mutex, info_rwlock, conns, infoVars, worker, serverVars, westonVars, streams>>

Free == "free"
NoRequest == [cmd |-> "none"]
NoReply == [kind |-> "none"]

\* What m_message_handle tells apart, with "_" for a blank.  "get modes" also stands for the other
\* walk that only reads, "get connector range properties"; "plain" is every request that touches
\* neither lock and gets no reply: "set mode", "get info", an unknown or missing
\* cmd, and a cmd whose value is missing, unknown or fails to convert.
Requests ==
    [cmd : {"get_modes", "get_display_mode", "get_ui_rect", "get_", "plain"}]
    \cup [cmd : {"set_property"}, name : Props, value : Values]
    \cup [cmd : {"set_ui_rect"}, rect : Rects]

\* connector_props: no change is wanted.  The property ids, which the kernel
\* names or not, decide nothing here.
Fresh == [p \in Props |-> Unwanted]

Nodes == [data : Conns \cup {NoConn}, props : [Props -> Values \cup {Unwanted}]]

Index(c) == {i \in DOMAIN conns : conns[i].data = c}

Listed == {conns[i].data : i \in DOMAIN conns} \ {NoConn}

WorkerInit ==
    /\ mutex = Free
    /\ info_rwlock = Free
    /\ conns = <<>>
    /\ viewport = [xy |-> Blank, wh |-> Blank]
    /\ need_modify = FALSE
    /\ display_mode = [name |-> Blank, size |-> Blank]
    /\ pc = "off"
    /\ request = NoRequest
    /\ reply = NoReply
    /\ node = 0
    /\ worker = "off"
    /\ call = "idle"
    /\ args = <<>>
    /\ pass = 0
    /\ ret = 0
    /\ seen = [xy |-> Blank, wh |-> Blank]
    /\ asked = Blank
    /\ failed = FALSE
    /\ disturbed = FALSE
    /\ wire = <<>>
    /\ answers = <<>>

-----------------------------------------------------------------------------
(* The IPC server thread.                                                  *)

Goto(label) == pc' = label
NoneOfServer == UNCHANGED <<worker, call, args, pass, ret, seen, failed>>

\* The handler returns: the request is put, and the reply sent if there is one.
Finish ==
    /\ Goto("idle")
    /\ request' = NoRequest
    /\ reply' = NoReply
    /\ node' = 0
    /\ answers' = IF reply = NoReply THEN answers ELSE Append(answers, reply)

\* The texts one read finds are parsed as one: the first counts.  "null" is no
\* object, so the thread reads on.
Receive ==
    /\ pc = "idle"
    /\ \E n \in DOMAIN wire : wire' = SubSeq(wire, n + 1, Len(wire))
    /\ IF Head(wire).cmd = "null"
          THEN Goto("reading") /\ UNCHANGED request
          ELSE Goto("handle") /\ request' = Head(wire)
    /\ NoneOfServer
    /\ UNCHANGED <<mutex, info_rwlock, conns, infoVars, reply, node, answers>>

\* A text behind "null" is swallowed.
Swallow ==
    /\ pc = "reading"
    /\ wire # <<>>
    /\ wire' = Tail(wire)
    /\ NoneOfServer
    /\ UNCHANGED <<mutex, info_rwlock, conns, infoVars, serverVars, answers>>

Replied(r) ==
    r.cmd \in {"get_modes", "get_display_mode", "get_ui_rect", "get_"}

\* Mutant: every command that is not known gets the empty object.
HandlePlainReplies ==
    /\ pc = "handle"
    /\ request.cmd \in {"get_", "plain"}
    /\ Goto("send")
    /\ reply' = [kind |-> "get_"]
    /\ NoneOfServer
    /\ UNCHANGED <<mutex, info_rwlock, conns, infoVars, request, node, streams>>

\* Mutant: "get " is taken for any other text, and gets nothing.
HandlePlainSilent ==
    /\ pc = "handle"
    /\ request.cmd \in {"get_", "plain"}
    /\ Goto("send")
    /\ NoneOfServer
    /\ UNCHANGED <<mutex, info_rwlock, conns, infoVars, request, reply, node, streams>>

HandlePlain ==
    /\ pc = "handle"
    /\ request.cmd \in {"get_", "plain"}
    /\ Goto("send")
    /\ reply' = IF request.cmd = "get_" THEN [kind |-> "get_"] ELSE reply
    /\ NoneOfServer
    /\ UNCHANGED <<mutex, info_rwlock, conns, infoVars, request, node, streams>>

Send ==
    /\ pc = "send"
    /\ Finish
    /\ NoneOfServer
    /\ UNCHANGED <<mutex, info_rwlock, conns, infoVars, wire>>

\* The three commands that walk the connector list.
WalkBegin ==
    /\ pc = "handle"
    /\ request.cmd \in {"get_modes", "set_property"}
    /\ mutex = Free
    /\ mutex' = "server"
    /\ node' = 1
    /\ Goto("walk")
    /\ reply' = IF request.cmd = "get_modes" THEN [kind |-> "get_modes", conns |-> {}] ELSE NoReply
    /\ NoneOfServer
    /\ UNCHANGED <<info_rwlock, conns, infoVars, request, streams>>

IsHdmiConnector(n) == n.data \in Hdmi

\* "set connector range properties": all three properties are HDMI only.
SetNode(n) ==
    IF IsHdmiConnector(n) THEN [n EXCEPT !.props[request.name] = request.value] ELSE n

\* dumpConnectorInfo: what a node adds to a reply.
Dump(n) == {n.data} \ {NoConn}

WalkStep ==
    /\ pc = "walk"
    /\ node \in DOMAIN conns
    /\ node' = node + 1
    /\ LET n == conns[node]
       IN  IF request.cmd = "set_property"
           THEN conns' = [conns EXCEPT ![node] = SetNode(n)] /\ UNCHANGED reply
           ELSE reply' = [reply EXCEPT !.conns = @ \cup Dump(n)] /\ UNCHANGED conns
    /\ NoneOfServer
    /\ UNCHANGED <<mutex, info_rwlock, infoVars, pc, request, streams>>

\* Mutant: an early return leaves mutex locked.
WalkEndLocked ==
    /\ pc = "walk"
    /\ node \notin DOMAIN conns
    /\ Goto("send")
    /\ NoneOfServer
    /\ UNCHANGED <<mutex, info_rwlock, conns, infoVars, request, reply, node, streams>>

WalkEnd ==
    /\ pc = "walk"
    /\ node \notin DOMAIN conns
    /\ mutex' = Free
    /\ Goto("send")
    /\ NoneOfServer
    /\ UNCHANGED <<info_rwlock, conns, infoVars, request, reply, node, streams>>

\* "get display mode" and "get ui rect": two reads under info_rwlock.
ReadBegin ==
    /\ pc = "handle"
    /\ request.cmd \in {"get_display_mode", "get_ui_rect"}
    /\ info_rwlock = Free
    /\ info_rwlock' = "server"
    /\ reply' = [kind |-> request.cmd, rest |-> Blank,
                 first |-> IF request.cmd = "get_ui_rect" THEN viewport.xy ELSE display_mode.name]
    /\ Goto("read")
    /\ NoneOfServer
    /\ UNCHANGED <<mutex, conns, infoVars, request, node, streams>>

ReadEnd ==
    /\ pc = "read"
    /\ reply' = [reply EXCEPT !.rest =
                   IF request.cmd = "get_ui_rect" THEN viewport.wh ELSE display_mode.size]
    /\ info_rwlock' = Free
    /\ Goto("send")
    /\ NoneOfServer
    /\ UNCHANGED <<mutex, conns, infoVars, request, node, streams>>

\* Mutant: the flag is left set while the rectangle is stored.
RectBeginKeepsFlag ==
    /\ pc = "handle"
    /\ request.cmd = "set_ui_rect"
    /\ info_rwlock = Free
    /\ info_rwlock' = "server"
    /\ Goto("rect")
    /\ NoneOfServer
    /\ UNCHANGED <<mutex, conns, infoVars, request, reply, node, streams>>

\* "set ui rect": the flag goes down, and after a pause the rectangle is stored.
RectBegin ==
    /\ pc = "handle"
    /\ request.cmd = "set_ui_rect"
    /\ info_rwlock = Free
    /\ info_rwlock' = "server"
    /\ need_modify' = FALSE
    /\ Goto("rect")
    /\ NoneOfServer
    /\ UNCHANGED <<mutex, conns, viewport, display_mode, asked, disturbed, request, reply, node, streams>>

RectStore ==
    /\ \/ pc = "rect" /\ Goto("rect_wh") /\ viewport' = [viewport EXCEPT !.xy = request.rect]
       \/ pc = "rect_wh" /\ Goto("rect_done") /\ viewport' = [viewport EXCEPT !.wh = request.rect]
    /\ disturbed' = (disturbed \/ call \in {"scan", "scan_wh"})
    /\ NoneOfServer
    /\ UNCHANGED <<mutex, info_rwlock, conns, need_modify, display_mode, asked, request, reply, node, streams>>

RectEnd ==
    /\ pc = "rect_done"
    /\ need_modify' = TRUE
    /\ asked' = request.rect
    /\ info_rwlock' = Free
    /\ Goto("send")
    /\ NoneOfServer
    /\ UNCHANGED <<mutex, conns, viewport, display_mode, disturbed, request, reply, node, streams>>

\* The loop test of the server thread after server_destory asked it to stop.
Leave ==
    /\ pc = "idle"
    /\ worker = "stopping"
    /\ worker' = "stopped"
    /\ Goto("off")
    /\ UNCHANGED <<mutex, info_rwlock, conns, infoVars, request, reply, node, westonVars, streams>>

ServerStep ==
    \/ Receive \/ Swallow \/ HandlePlain \/ Send
    \/ WalkBegin \/ WalkStep \/ WalkEnd
    \/ ReadBegin \/ ReadEnd
    \/ RectBegin \/ RectStore \/ RectEnd
    \/ Leave

-----------------------------------------------------------------------------
(* weston's thread: the help_* functions, one at a time.                   *)

NoneOfWeston == UNCHANGED <<serverVars, streams>>

Call(f, a) == call' = f /\ args' = a
Return == Call("idle", <<>>)

\* start_help_worker: server_create or server_start may fail; after the second
\* failure g_server_ctx names the context that was freed.
StartWorker ==
    /\ call = "idle"
    /\ worker = "off"
    /\ \E w \in {"running", "none", "freed"} :
          /\ worker' = w
          /\ Goto(IF w = "running" THEN "idle" ELSE "off")
    /\ UNCHANGED <<mutex, info_rwlock, conns, infoVars, request, reply, node, westonVars, streams>>

\* stop_help_worker holds mutex until the server thread is joined.
StopWorker ==
    /\ call = "idle"
    /\ worker \in {"running", "none", "freed"}
    /\ mutex = Free
    /\ CASE worker = "running" ->
              /\ mutex' = "weston"
              /\ worker' = "stopping"
              /\ Call("stop", <<>>)
         [] worker = "none" -> worker' = "gone" /\ UNCHANGED <<mutex, call, args>>
         [] worker = "freed" -> worker' = "freed_twice" /\ Call("undefined", <<>>) /\ UNCHANGED mutex
    /\ NoneOfWeston
    /\ UNCHANGED <<info_rwlock, conns, infoVars, pass, ret, seen, failed>>

StopJoined ==
    /\ call = "stop"
    /\ worker = "stopped"
    /\ worker' = "gone"
    /\ mutex' = Free
    /\ Return
    /\ NoneOfWeston
    /\ UNCHANGED <<info_rwlock, conns, infoVars, pass, ret, seen, failed>>

\* Mutant: a listed connector gets its properties back as they were at first.
AppendToResets(c) ==
    /\ mutex = Free
    /\ conns' = IF Index(c) # {} THEN [i \in DOMAIN conns |-> IF i \in Index(c)
                                        THEN [conns[i] EXCEPT !.props = Fresh] ELSE conns[i]]
                ELSE Append(conns, [data |-> c, props |-> Fresh])
    /\ NoneOfWeston
    /\ UNCHANGED <<mutex, info_rwlock, infoVars, worker, pass, ret, seen, failed>>

\* help_append_connector: a listed connector is left as it is.
AppendTo(c) ==
    /\ mutex = Free
    /\ conns' = IF Index(c) # {} THEN conns
                ELSE Append(conns, [data |-> c, props |-> Fresh])
    /\ NoneOfWeston
    /\ UNCHANGED <<mutex, info_rwlock, infoVars, worker, pass, ret, seen, failed>>

AppendConnector(c) ==
    /\ call = "idle"
    /\ AppendTo(c)
    /\ UNCHANGED <<call, args>>

\* help_update_connector, whose second argument weston has just read.  What is
\* not listed is appended under the lock taken a second time.
UpdateConnector(old, new) ==
    /\ call = "idle"
    /\ new \notin Listed
    /\ mutex = Free
    /\ LET at == IF old = NoConn THEN {} ELSE Index(old) IN
          /\ conns' = [i \in DOMAIN conns |->
                        IF i \in at THEN [data |-> new, props |-> Fresh] ELSE conns[i]]
          /\ IF at = {} THEN Call("append", <<new>>) ELSE UNCHANGED <<call, args>>
    /\ NoneOfWeston
    /\ UNCHANGED <<mutex, info_rwlock, infoVars, worker, pass, ret, seen, failed>>

UpdateAppends ==
    /\ call = "append"
    /\ AppendTo(args[1])
    /\ Return

\* The first node is part of the list variable and is only emptied; any other
\* node is unlinked and freed.
Without(c) ==
    CASE Index(c) = {} -> conns
      [] Index(c) = {1} -> [conns EXCEPT ![1].data = NoConn]
      [] OTHER -> RemoveAt(conns, CHOOSE i \in Index(c) : TRUE)

\* Mutant: the list is edited without the lock.
DeleteConnectorUnlocked(c) ==
    /\ call = "idle"
    /\ conns' = Without(c)
    /\ NoneOfWeston
    /\ UNCHANGED <<mutex, info_rwlock, infoVars, worker, westonVars>>

\* help_delete_connector
DeleteConnector(c) ==
    /\ call = "idle"
    /\ mutex = Free
    /\ conns' = Without(c)
    /\ NoneOfWeston
    /\ UNCHANGED <<mutex, info_rwlock, infoVars, worker, westonVars>>

\* help_atomic_req_add_prop, for the commit weston is about to make.
CommitBegin ==
    /\ call = "idle"
    /\ mutex = Free
    /\ mutex' = "weston"
    /\ Call("commit", <<>>)
    /\ pass' = 1
    /\ ret' = 0
    /\ failed' = FALSE
    /\ NoneOfWeston
    /\ UNCHANGED <<info_rwlock, conns, infoVars, worker, seen>>

Wanted(n) == IF n.data = NoConn THEN {} ELSE {p \in Props : n.props[p] # Unwanted}

\* ret |= (err <= 0) ? -1 : 0
ErrorOr(r, lost) == IF lost THEN -1 ELSE r

\* need_change is cleared whether drmModeAtomicAddProperty takes it or not.
CommitNode ==
    /\ call = "commit"
    /\ pass \in DOMAIN conns
    /\ pass' = pass + 1
    /\ conns' = [conns EXCEPT ![pass].props =
                   [p \in Props |-> IF p \in Wanted(conns[pass]) THEN Unwanted ELSE @[p]]]
    /\ \E lost \in SUBSET Wanted(conns[pass]) :
          /\ ret' = ErrorOr(ret, lost # {})
          /\ failed' = (failed \/ lost # {})
    /\ NoneOfWeston
    /\ UNCHANGED <<mutex, info_rwlock, infoVars, worker, call, args, seen>>

CommitEnd ==
    /\ call = "commit"
    /\ pass \notin DOMAIN conns
    /\ mutex' = Free
    /\ pass' = 0
    /\ ret' = 0
    /\ failed' = FALSE
    /\ Return
    /\ NoneOfWeston
    /\ UNCHANGED <<info_rwlock, conns, infoVars, worker, seen>>

\* help_get_scanout_viewport reads the flag and the halves without a lock.
ScanBegin ==
    /\ call = "idle"
    /\ need_modify
    /\ Call("scan", <<>>)
    /\ NoneOfWeston
    /\ UNCHANGED <<mutex, info_rwlock, conns, infoVars, worker, pass, ret, seen, failed>>

ScanRead ==
    /\ \/ call = "scan" /\ seen' = [seen EXCEPT !.xy = viewport.xy] /\ Call("scan_wh", <<>>)
       \/ call = "scan_wh" /\ seen' = [seen EXCEPT !.wh = viewport.wh] /\ Call("scanned", <<>>)
    /\ NoneOfWeston
    /\ UNCHANGED <<mutex, info_rwlock, conns, infoVars, worker, pass, ret, failed>>

ScanEnd ==
    /\ call = "scanned"
    /\ Return
    /\ seen' = [xy |-> Blank, wh |-> Blank]
    /\ disturbed' = FALSE
    /\ NoneOfWeston
    /\ UNCHANGED <<mutex, info_rwlock, conns, viewport, need_modify, display_mode, asked, worker, pass, ret, failed>>

\* Mutant: info_rwlock is not taken.
UiSizeBeginUnlocked(r) ==
    /\ call = "idle"
    /\ viewport' = IF need_modify THEN viewport ELSE [viewport EXCEPT !.xy = r]
    /\ Call("ui_size", <<r>>)
    /\ NoneOfWeston
    /\ UNCHANGED <<mutex, info_rwlock, conns, need_modify, display_mode, asked, disturbed, worker, pass, ret, seen, failed>>

\* help_update_ui_logic_size_info.  A client's rectangle is kept.
UiSizeBegin(r) ==
    /\ call = "idle"
    /\ info_rwlock = Free
    /\ info_rwlock' = "weston"
    /\ viewport' = IF need_modify THEN viewport ELSE [viewport EXCEPT !.xy = r]
    /\ Call("ui_size", <<r>>)
    /\ NoneOfWeston
    /\ UNCHANGED <<mutex, conns, need_modify, display_mode, asked, disturbed, worker, pass, ret, seen, failed>>

UiSizeEnd ==
    /\ call = "ui_size"
    /\ viewport' = IF need_modify THEN viewport ELSE [viewport EXCEPT !.wh = args[1]]
    /\ info_rwlock' = Free
    /\ Return
    /\ NoneOfWeston
    /\ UNCHANGED <<mutex, conns, need_modify, display_mode, asked, disturbed, worker, pass, ret, seen, failed>>

\* Mutant: info_rwlock is not taken.
ModeBeginUnlocked(m) ==
    /\ call = "idle"
    /\ display_mode' = [display_mode EXCEPT !.name = m]
    /\ Call("mode", <<m>>)
    /\ NoneOfWeston
    /\ UNCHANGED <<mutex, info_rwlock, conns, viewport, need_modify, asked, disturbed, worker, pass, ret, seen, failed>>

\* help_update_display_mode_info
ModeBegin(m) ==
    /\ call = "idle"
    /\ info_rwlock = Free
    /\ info_rwlock' = "weston"
    /\ display_mode' = [display_mode EXCEPT !.name = m]
    /\ Call("mode", <<m>>)
    /\ NoneOfWeston
    /\ UNCHANGED <<mutex, conns, viewport, need_modify, asked, disturbed, worker, pass, ret, seen, failed>>

ModeEnd ==
    /\ call = "mode"
    /\ display_mode' = [display_mode EXCEPT !.size = args[1]]
    /\ info_rwlock' = Free
    /\ Return
    /\ NoneOfWeston
    /\ UNCHANGED <<mutex, conns, viewport, need_modify, asked, disturbed, worker, pass, ret, seen, failed>>

\* A call that has begun goes on by itself.
WestonGoesOn ==
    \/ UpdateAppends
    \/ CommitNode \/ CommitEnd
    \/ ScanRead \/ ScanEnd
    \/ UiSizeEnd \/ ModeEnd
    \/ StopJoined

WestonCalls ==
    \/ StartWorker \/ StopWorker
    \/ \E c \in Conns : AppendConnector(c) \/ DeleteConnector(c)
    \/ \E old \in Conns \cup {NoConn}, new \in Conns : UpdateConnector(old, new)
    \/ CommitBegin \/ ScanBegin
    \/ (\E r \in Sizes : UiSizeBegin(r)) \/ (\E m \in Modes : ModeBegin(m))

-----------------------------------------------------------------------------
(* Properties.                                                             *)

WorkerTypeOK ==
    /\ mutex = IF pc = "walk" THEN "server" ELSE IF call \in {"commit", "stop"} THEN "weston" ELSE Free
    /\ info_rwlock = CASE pc \in {"read", "rect", "rect_wh", "rect_done"} -> "server"
                       [] call \in {"ui_size", "mode"} -> "weston"
                       [] OTHER -> Free
    /\ conns \in Seq(Nodes)
    /\ viewport \in [xy : Rects \cup Sizes \cup {Blank}, wh : Rects \cup Sizes \cup {Blank}]
    /\ display_mode \in [name : Modes \cup {Blank}, size : Modes \cup {Blank}]
    /\ need_modify \in BOOLEAN
    /\ pc \in {"off", "idle", "reading", "handle", "walk", "read", "rect", "rect_wh", "rect_done", "send"}
    /\ request \in Requests \cup {NoRequest}
    /\ call \in {"idle", "append", "commit", "scan", "scan_wh", "scanned",
                 "ui_size", "mode", "stop", "undefined"}
    /\ ret \in {0, -1}
    /\ asked \in Rects \cup {Blank}

\* A property request reaches every HDMI connector that is listed when the walk
\* of m_message_handle ends, whatever weston does to the list meanwhile.
SetReachesAll ==
    (pc = "walk" /\ node \notin DOMAIN conns /\ request.cmd = "set_property") =>
        \A i \in DOMAIN conns :
            conns[i].data \in Hdmi => conns[i].props[request.name] = request.value

Pending(c, p) == \E i \in Index(c) : conns[i].props[p] # Unwanted

\* A wanted change goes away only with its connector, or in a pass of
\* help_atomic_req_add_prop; and a pass that could not add it returns -1.
NoChangeLost ==
    [][\A c \in Listed, p \in Props :
          Pending(c, p) /\ ~Pending(c, p)' =>
              \/ c \notin Listed'
              \/ call = "commit" /\ (failed' => ret' = -1)]_workerVars

\* Once a client has set the UI rectangle, the size weston reports never
\* replaces it, not even while the handler has the flag down.
ClientRectKept ==
    (asked # Blank /\ pc \notin {"rect_wh", "rect_done"}) => viewport = [xy |-> asked, wh |-> asked]

\* "get ui rect" and "get display mode" answer with one rectangle or mode,
\* never with halves of two.
RepliesWhole ==
    \A i \in DOMAIN answers :
        answers[i].kind \in {"get_ui_rect", "get_display_mode"} => answers[i].first = answers[i].rest

\* help_get_scanout_viewport holds no lock; it returns one rectangle unless the
\* handler stores the viewport while it reads.
ScanWhole == (call = "scanned" /\ ~disturbed) => seen.xy = seen.wh

\* The viewport has four fields, three writers and two readers, and a lock that two
\* of the five do not take.  It holds what the client last set, and both replies and
\* scans see one rectangle, but for the scan that meets a store (line 690).
ViewportWhole == ClientRectKept /\ RepliesWhole /\ ScanWhole
=============================================================================
