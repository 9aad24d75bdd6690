---------------------------- MODULE MCUtpTestApp ----------------------------
(* Bounds for checking UtpTestApp with TLC: two apps, two connection ids,  *)
(* two payloads.                                                           *)
EXTENDS UtpTestApp, TLC

CONSTANTS a1, a2, p1, p2

MCApps == {a1, a2}
MCCids == {1, 2}
MCPayloads == {p1, p2}

(* Apps and payloads are interchangeable in the safety properties.         *)
MCSymmetry == Permutations(MCApps) \cup Permutations(MCPayloads)
=============================================================================
