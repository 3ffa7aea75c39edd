----------------------------- MODULE MCArchives -----------------------------
(* Small instances of Archives for TLC. *)
EXTENDS Archives, TLC

Symmetric == Permutations(Jobs) \cup Permutations(Media)
============================================================================
