--------------------------- MODULE MCRealtimeGateway ---------------------------
(***************************************************************************)
(* The gateway alone, for TLC.                                             *)
(***************************************************************************)
EXTENDS RealtimeGateway

CONSTANT m1

\* The sockets are those of one meeting: two tabs, or a client that connects again.
SocketMeetings == [s \in Sockets |-> m1]
=============================================================================
