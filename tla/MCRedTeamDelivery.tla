------------------------- MODULE MCRedTeamDelivery -------------------------
(* Instances of RedTeamDelivery for TLC.                                    *)
EXTENDS RedTeamDelivery

\* No uuid is rewritten: a missing audit record is missing, and not on file under
\* another name.
NoPiiIds == {}

=============================================================================
