-------------------------- MODULE MCOrderCommitFence --------------------------
(* OrderCommitFence for TLC: carts, order ids, scopes and lines are          *)
(* interchangeable.                                                          *)
EXTENDS OrderCommitFence, TLC

Interchangeable ==
  Permutations(Carts) \cup Permutations(Orders) \cup Permutations(Scopes)
    \cup Permutations(Lines) \cup Permutations(Bindings)
==============================================================================
