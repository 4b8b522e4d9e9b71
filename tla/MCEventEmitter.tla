--------------------------- MODULE MCEventEmitter ---------------------------
(***************************************************************************)
(* The EventEmitter with events and callbacks that are interchangeable.    *)
(***************************************************************************)
EXTENDS EventEmitter, TLC

Symmetry == Permutations(Events) \cup Permutations(Callbacks)
=============================================================================
