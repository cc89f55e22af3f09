----------------------------- MODULE HelpClient -----------------------------
(***************************************************************************)
(* The client library drm-help-client.c and its program client/main.c,     *)
(* connected to the helper.  The program handles its options one after the *)
(* other: a setting is sent and forgotten, a query is sent, followed by    *)
(* the text "null" of send_cmd_sync, and waits for a reply.                *)
(***************************************************************************)
EXTENDS HelpWorker

CONSTANTS
    RawCommands,    \* texts given to -r
    MaxOptions      \* bound: options on the command line

ASSUME ClientAssumption ==
    /\ RawCommands \subseteq {"get_modes", "get_display_mode", "get_ui_rect", "plain"}
    /\ MaxOptions \in Nat

VARIABLES
    \* the program: its step, the options left and what it waits for
    prog, left, query,
    \* history: a raw command has been sent whose reply nobody reads, and the
    \* query found the stream empty
    stray, clear

clientVars == <<prog, left, query, stray, clear>>
vars == <<workerVars, clientVars>>

Null == [cmd |-> "null"]

Init ==
    /\ WorkerInit
    /\ prog = "connect"
    /\ left = MaxOptions
    /\ query = "none"
    /\ stray = FALSE
    /\ clear = FALSE

NoneOfWorker == UNCHANGED <<mutex, info_rwlock, conns, infoVars, worker, serverVars, westonVars>>

\* client_create is tried until it succeeds.
Connect ==
    /\ prog = "connect"
    /\ worker = "running"
    /\ prog' = "option"
    /\ NoneOfWorker
    /\ UNCHANGED <<streams, left, query, stray, clear>>

NextOption ==
    /\ prog = "option"
    /\ left > 0
    /\ left' = left - 1

\* send_cmd, set_properties: an option that sends and goes on.
Tell(r) ==
    /\ NextOption
    /\ wire' = Append(wire, r)
    /\ NoneOfWorker
    /\ UNCHANGED <<answers, prog, query, clear>>

\* -c, -d, -s NAME=VALUE, -S ui-rect with four numbers
TellSetting ==
    /\ \/ Tell([cmd |-> "plain"])
       \/ \E p \in Props, v \in Values : Tell([cmd |-> "set_property", name |-> p, value |-> v])
       \/ \E r \in Rects : Tell([cmd |-> "set_ui_rect", rect |-> r])
    /\ UNCHANGED stray

\* -r with any text but "get ": there is no value, and no wait, not even for a
\* command that is answered.
TellRaw ==
    /\ \E c \in RawCommands : Tell([cmd |-> c])
    /\ stray' = (stray \/ Replied(wire'[Len(wire')]))

\* send_cmd_sync: -l, -g NAME, -G ui-rect, -G display-mode, -r "get ".  The
\* query -g with an empty name is one the handler does not answer.
AskFor(r) ==
    /\ NextOption
    /\ clear' = (wire = <<>> /\ pc # "reading" /\ Replied(r))
    /\ wire' = wire \o <<r, Null>>
    /\ prog' = "wait"
    /\ query' = r.cmd
    /\ NoneOfWorker
    /\ UNCHANGED <<answers, stray>>

Query ==
    \E c \in {"get_modes", "get_display_mode", "get_ui_rect", "get_", "plain"} :
        AskFor([cmd |-> c])

\* An option the program cannot read, or that sends nothing.
BadOption ==
    /\ NextOption
    /\ NoneOfWorker
    /\ UNCHANGED <<streams, prog, query, stray, clear>>

Answer ==
    /\ prog = "wait"
    /\ answers # <<>>
    /\ answers' = Tail(answers)
    /\ prog' = "option"
    /\ query' = "none"
    /\ clear' = FALSE
    /\ NoneOfWorker
    /\ UNCHANGED <<wire, left, stray>>

\* The server is gone: no reply object.
AnswerMissing ==
    /\ prog = "wait"
    /\ answers = <<>>
    /\ worker \in {"stopped", "gone"}
    /\ prog' = "option"
    /\ query' = "none"
    /\ clear' = FALSE
    /\ NoneOfWorker
    /\ UNCHANGED <<streams, left, stray>>

\* drm_help_client_destory; the server reads what is left, then end of file.
Exit ==
    /\ prog = "option"
    /\ left = 0
    /\ prog' = "exited"
    /\ NoneOfWorker
    /\ UNCHANGED <<streams, left, query, stray, clear>>

EndOfFile ==
    /\ prog = "exited"
    /\ pc = "reading"
    /\ wire = <<>>
    /\ pc' = "idle"
    /\ UNCHANGED <<mutex, info_rwlock, conns, infoVars, worker, request, reply, node, westonVars, streams, clientVars>>

ClientStep ==
    \/ Connect \/ TellSetting \/ TellRaw \/ Query \/ BadOption
    \/ Answer \/ AnswerMissing \/ Exit

Next ==
    \/ ServerStep /\ UNCHANGED clientVars
    \/ WestonGoesOn /\ UNCHANGED clientVars
    \/ WestonCalls /\ UNCHANGED clientVars
    \/ ClientStep
    \/ EndOfFile

\* The server thread is scheduled again and again, a call weston has begun goes
\* on, and the program takes a reply that is there.  SF: a mutex is handed over.
Fairness ==
    /\ WF_vars(ServerStep /\ UNCHANGED clientVars)
    /\ SF_vars((WalkBegin \/ ReadBegin \/ RectBegin) /\ UNCHANGED clientVars)
    /\ WF_vars(WestonGoesOn /\ UNCHANGED clientVars)
    /\ WF_vars(Answer \/ AnswerMissing)

Spec == Init /\ [][Next]_vars /\ Fairness

-----------------------------------------------------------------------------
(* Properties.                                                             *)

TypeOK ==
    /\ WorkerTypeOK
    /\ wire \in Seq(Requests \cup {Null})
    /\ prog \in {"connect", "option", "wait", "exited"}

\* The reply a query takes is the reply to this query, unless a raw command
\* left a reply behind that nobody read.
AnswerMatches == [][Answer => Head(answers).kind = query \/ stray]_vars

\* A query sent on an empty stream for something the handler answers gets its
\* reply, unless the helper is being stopped.
Answered ==
    (prog = "wait" /\ clear)
        ~> (prog # "wait" \/ call \in {"stop", "undefined"})

\* compositor-drm-help.h says of stop_help_worker "destory the ipc thread": the
\* call returns.  It holds mutex while it waits for a thread that may want it.
StopReturns == (call = "stop") ~> (call # "stop")
=============================================================================
