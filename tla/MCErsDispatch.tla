---------------------------- MODULE MCErsDispatch ----------------------------
(* Values of the constants of ErsDispatch that a .cfg file cannot write.   *)
EXTENDS ErsDispatch, TLC
AnyScript == [c \in Caller |-> Scripts]
Symmetry  == Permutations(Caller)
=============================================================================
