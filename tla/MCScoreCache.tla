---------------------------- MODULE MCScoreCache ----------------------------
(* Instances of ScoreCache for TLC.                                         *)
EXTENDS ScoreCache

OneApi == {"api"}

OneDag == {"dag"}

SomeCovered == {2}

=============================================================================
