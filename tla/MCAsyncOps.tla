------------------------------ MODULE MCAsyncOps ------------------------------
(* Small instances of AsyncOps for TLC. *)
EXTENDS AsyncOps, TLC

OpSymmetry ==
  Permutations(Connects) \union Permutations(Closes)
    \union Permutations(Limited) \union Permutations(Ops \ Limited)
===============================================================================
