----------------------- MODULE MCCommunityDetection ------------------------
(* Instances of CommunityDetection for TLC.                                 *)
EXTENDS CommunityDetection

CONSTANTS live, injected

OneOfEach == {live, injected}
OnlyInjected == {injected}
SizeThree == [g \in OneOfEach |-> 3]

Signals(uni, shared, share, logins) ==
  [uni |-> uni, ips |-> shared, devices |-> shared, share |-> share,
   logins |-> logins]

\* A quiet live group and one that shows every signal; an injected group at the
\* alert threshold (0.35 + 0.30 + 0.20), and the laundering mix, without logins.
SomeProfiles ==
  { Signals(50, 0, 0, TRUE), Signals(100, 3, 0, TRUE),
    Signals(70, 3, 100, TRUE), Signals(100, 0, 100, FALSE) }

=============================================================================
