---------------------------- MODULE MCPortRights ----------------------------
(***************************************************************************)
(* Instances of PortRights for TLC: spaces, names and slots are model      *)
(* values.                                                                 *)
(***************************************************************************)
EXTENDS PortRights, TLC

CONSTANTS s1, s2, n1, n2, i1, i2

MCDeltas == {-2, -1, 1}

MCSymmetry == Permutations({s1, s2}) \cup Permutations({n1, n2})
              \cup Permutations({i1, i2})
=============================================================================
