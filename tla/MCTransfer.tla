----------------------------- MODULE MCTransfer -----------------------------
(***************************************************************************)
(* Transfer for TLC: a full train is 3 bytes, a train of the client 4, as  *)
(* 1000 and 1024 in the code.                                              *)
(***************************************************************************)
EXTENDS Transfer

FewSizes == 0 .. 10
=============================================================================
