----------------------------- MODULE MCSessions -----------------------------
(* Small instances of Sessions for TLC. *)
EXTENDS Sessions, TLC

Interchangeable == Permutations(Browser) \cup Permutations(Call)
=============================================================================
