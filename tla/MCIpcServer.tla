----------------------------- MODULE MCIpcServer -----------------------------
(* Small instances of IpcServer for TLC.                                   *)
EXTENDS IpcServer, TLC

CONSTANTS c1, c2, waker

MCClients == {c1, c2}
MCConns == {c1, c2, waker}
MCSync == {c2}

\* One client has two requests, enough for the second to arrive behind or in
\* front of a read of the first; the other has one.
MCSends == [c \in MCClients |-> IF c = c2 THEN 2 ELSE 1]

\* One client that queries twice through send_cmd_sync, two texts each time.
OneClient == {c1}
OneConns == {c1, waker}
OneSends == [c \in OneClient |-> 4]
=============================================================================
