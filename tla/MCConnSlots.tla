---------------------------- MODULE MCConnSlots ----------------------------
(* ConnSlots for TLC: the objects and the AcceptEx calls are interchangeable. *)
EXTENDS ConnSlots, TLC

ObjectSymmetry ==
  Permutations(Pooled) \cup Permutations(Heap) \cup Permutations(AcceptCalls)
=============================================================================
