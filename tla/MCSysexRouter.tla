--------------------------- MODULE MCSysexRouter ---------------------------
(* The application may take SysEx out of a rule.  The data bytes are only  *)
(* stored and compared, so that they may be exchanged for each other.      *)
EXTENDS SysexRouter, TLC

MCRuleInput == {[enabled |-> TRUE, sx |-> FALSE]}

DataSymmetry == Permutations(Data)
=============================================================================
