--------------------------- MODULE MCReplayGuard ---------------------------
(* Three calls with one authorization on two processes.                     *)
EXTENDS ReplayGuard, TLC

CONSTANTS s1, s2, r1, r2, r3

TwoServers == r1 :> s1 @@ r2 :> s1 @@ r3 :> s2

============================================================================
