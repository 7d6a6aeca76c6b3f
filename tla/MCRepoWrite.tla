---------------------------- MODULE MCRepoWrite ----------------------------
(***************************************************************************)
(* Instances of RepoWrite for TLC.  The writers are interchangeable, and   *)
(* so are the importers and the keys.                                      *)
(***************************************************************************)
EXTENDS RepoWrite, TLC

Symmetry == Permutations(Writers) \cup Permutations(Importers) \cup Permutations(Keys)
=============================================================================
