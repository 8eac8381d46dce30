------------------------------ MODULE MCBcache ------------------------------
EXTENDS Bcache, TLC

CONSTANTS p1, p2, k1, k2, k3

(* At most two blocks are in use or pinned at a time, of three.            *)
MCOpens == (p1 :> {k1, k2, k3}) @@ (p2 :> {k2})

=============================================================================
