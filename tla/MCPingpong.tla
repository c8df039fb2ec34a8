----------------------------- MODULE MCPingpong -----------------------------
(* An instance of Pingpong for TLC. *)
EXTENDS Pingpong

MCSpaceOf == [t \in {Main, Pager, Ping, Pong} |-> t]
MCPages   == {"code", "data", "screen"}

\* A window of two rows and four columns, not at the edge of the screen.
MCWindow  == <<1, 2, 1, 4>>
=============================================================================
