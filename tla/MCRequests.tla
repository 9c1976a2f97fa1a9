------------------------------ MODULE MCRequests ------------------------------
(* A small instance of Requests for TLC: one request to anything, and two  *)
(* that compete with it for connections and for an address.                *)
EXTENDS Requests, TLC

CONSTANTS r1, r2, r3

Three == {r1, r2, r3}
MCAsks ==
    (r1 :> Routes \ {"health"}) @@ (r2 :> {"register", "health"}) @@ (r3 :> {"register"})
MCStatuses == {404}
===============================================================================
