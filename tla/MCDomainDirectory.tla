-------------------------- MODULE MCDomainDirectory --------------------------
(***************************************************************************)
(* DomainDirectory for TLC.  Nodes, clusters and handlers only ever meet   *)
(* in equality tests and nothing chooses one of them, so the states that   *)
(* differ by a renaming of them are the same state.  (Used by the runs     *)
(* that check no liveness.)                                                *)
(***************************************************************************)
EXTENDS DomainDirectory, TLC

Renamings ==
  Permutations(Nodes) \cup Permutations(Clusters) \cup Permutations(Handlers)
=============================================================================
