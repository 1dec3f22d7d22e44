---------------------------- MODULE MCVoxelEcho ----------------------------
(* Two clients: nothing lost on the way; then faults; then everything, with no edit shown early. *)
EXTENDS VoxelEcho, TLC

Symmetry == Permutations(Clients)

MCSetups ==
  { [faults |-> {"expire"}, modes |-> BOOLEAN, maxEdits |-> 5],
    [faults |-> {"unsent", "refuse", "lose", "reorder"}, modes |-> BOOLEAN, maxEdits |-> 3],
    [faults |-> FaultKinds \ {"hydrate"}, modes |-> {TRUE}, maxEdits |-> 3],
    [faults |-> FaultKinds, modes |-> {FALSE}, maxEdits |-> 3] }

MCHydrated == { [faults |-> {"hydrate"}, modes |-> {TRUE}, maxEdits |-> 3] }
=============================================================================
