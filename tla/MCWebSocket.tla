----------------------------- MODULE MCWebSocket -----------------------------
(***************************************************************************)
(* Instances of WebSocket for TLC.  The server end sends fragments.        *)
(***************************************************************************)
EXTENDS WebSocket, TLC

MCMessages == [e \in End |-> IF e = Server THEN 2 ELSE 0]
MCControls == [e \in End |-> IF e = Server THEN 1 ELSE 0]

=============================================================================
