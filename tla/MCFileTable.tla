---------------------------- MODULE MCFileTable ----------------------------
(***************************************************************************)
(* Instances of FileTable for TLC: two sessions of one user and one of     *)
(* another.                                                                *)
(***************************************************************************)
EXTENDS FileTable

CONSTANTS s1, s2, s3

TwoUsers == [s \in Sessions |-> IF s = s3 THEN "yxf" ELSE "gxg"]
FewNames == [u \in Users |-> IF u = "yxf" THEN {} ELSE {"a", "yxf"}]

Twins == Permutations({s1, s2})
=============================================================================
