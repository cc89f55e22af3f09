----------------------------- MODULE JsonStream -----------------------------
(***************************************************************************)
(* How the IPC layer frames requests on a SOCK_STREAM socket: it does not. *)
(* A request is the text of one JSON value.  The reader appends whatever   *)
(* read() returns to a buffer and hands the whole buffer to                *)
(* json_tokener_parse, which yields the first complete value in it and     *)
(* says nothing about the bytes behind that value.                         *)
(*                                                                         *)
(* A stream is a sequence of fragments.  A request arrives as one "whole"  *)
(* fragment or, when it is larger than the socket buffer or the writer is  *)
(* slow, as a "front" followed later by its "back".                        *)
(***************************************************************************)
EXTENDS Sequences, Naturals

CONSTANT Conns     \* the connections requests arrive on

\* What the receiver can tell apart about a request:
\*   "ask"   an object whose handler branch sets *data_out (a reply is due)
\*   "tell"  an object whose handler branch leaves *data_out NULL
\*   "null"  the text "null", which json_object_to_json_string(NULL) yields
Kinds == {"ask", "tell", "null"}

Messages == [from: Conns, kind: Kinds]

NoMsg == [from |-> "nobody", kind |-> "none"]

Fragments == [msg: Messages, piece: {"whole", "front", "back"}]

Whole(m) == [msg |-> m, piece |-> "whole"]
Front(m) == [msg |-> m, piece |-> "front"]
Back(m)  == [msg |-> m, piece |-> "back"]

\* json_tokener_parse(buffer): the first value if all of it is there.  Text that
\* starts in the middle of a value does not parse, and the value null is
\* returned as the same NULL pointer as "nothing parsed yet".
Parsed(buf) ==
    IF /\ buf # <<>>
       /\ buf[1].msg.kind # "null"
       /\ \/ buf[1].piece = "whole"
          \/ buf[1].piece = "front" /\ Len(buf) > 1
    THEN buf[1].msg
    ELSE NoMsg
=============================================================================
