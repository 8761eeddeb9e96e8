------------------------- MODULE MCGraphIngestion -------------------------
(* Instances of GraphIngestion for TLC.                                     *)
EXTENDS GraphIngestion

CONSTANTS e1, e2

TwoEntities == {e1, e2}

\* One topic goes on where the other has ended.
TwoAndOne == [t \in Topics |-> IF t = "transactions" THEN 2 ELSE 1]

=============================================================================
