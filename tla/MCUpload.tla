------------------------------ MODULE MCUpload ------------------------------
(***************************************************************************)
(* Upload for TLC: a content that fits, one of more than 1024 bytes and    *)
(* one of exactly 1000; workers, folders and names are interchangeable.    *)
(***************************************************************************)
EXTENDS Upload, TLC

Twins == Permutations(Workers) \cup Permutations(Folders) \cup Permutations(FileNames)
=============================================================================
