-------------------------- MODULE MCBuildPipeline --------------------------
(***************************************************************************)
(* Values for the constants of BuildPipeline when TLC checks it.           *)
(***************************************************************************)
EXTENDS BuildPipeline, TLC

(* Which scripts may run at the same time. *)
OneAtATime == {}
Anything   == SUBSET Scripts
\* kernel.sh touches nothing that single.sh or multi.sh touches
KernelAside == {{"kernel", "single"}, {"kernel", "multi"}}

Symmetry == Permutations(Terminals)
=============================================================================
