-------------------------- MODULE MCSettingsStore --------------------------
(* SettingsStore for TLC.                                                   *)
EXTENDS SettingsStore

CONSTANTS h1, h2, p1, p2, v1, v2

MCDefaults == [pw |-> p1, rest |-> v1]
=============================================================================
