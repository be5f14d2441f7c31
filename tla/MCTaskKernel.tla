---------------------------- MODULE MCTaskKernel ----------------------------
(* TaskKernel with callers that do what they like.                          *)
EXTENDS TaskKernel, TLC

ShortLeases == {1, 2}
ShortBudgets == {2}

Interchangeable == Permutations(Devices) \cup Permutations(Effects)
=============================================================================
