--------------------------- MODULE MCScenarioLibrary ---------------------------
(***************************************************************************)
(* Two agents, the first of which can overdraw its budget before its       *)
(* second variant.                                                         *)
(***************************************************************************)
EXTENDS ScenarioLibrary

CONSTANTS phishing, romance, slash
=============================================================================
