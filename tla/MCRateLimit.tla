------------------------------ MODULE MCRateLimit ------------------------------
(***************************************************************************)
(* Four requests to one bucket from one address, one of them in the name   *)
(* of another tenant.                                                      *)
(***************************************************************************)
EXTENDS RateLimit, TLC

CONSTANTS r1, r2, r3, r4, t1, t2, here, post

MCTenant == [r \in Requests |-> IF r = r4 THEN t2 ELSE t1]
MCClient == [r \in Requests |-> here]
MCBucket == [r \in Requests |-> post]
MCLimit == [b \in {post} |-> 2]

\* The requests of a tenant are alike.
Alike == Permutations({r1, r2, r3})
=============================================================================
