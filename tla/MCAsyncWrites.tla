--------------------------- MODULE MCAsyncWrites ---------------------------
(* Two writers; the one that syncs issues two requests, the other one two.  *)
EXTENDS AsyncWrites, TLC

CONSTANTS w1, w2, r1, r2, r3, r4

MCOwner == (r1 :> w1) @@ (r2 :> w1) @@ (r3 :> w2) @@ (r4 :> w2)

LiveOwner == (r1 :> w1) @@ (r2 :> w1) @@ (r3 :> w2)

=============================================================================
