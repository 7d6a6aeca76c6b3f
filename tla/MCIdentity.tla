----------------------------- MODULE MCIdentity -----------------------------
(***************************************************************************)
(* Instances for TLC of the two ceremonies that change what the directory  *)
(* says of one account: the rotation of its signing key and its migration  *)
(* to another host.  They share no state, so a behaviour picks one and     *)
(* runs it.  The actors (completions, or commands of the wallet) are       *)
(* interchangeable, and so are the hosts other than the first.             *)
(***************************************************************************)
EXTENDS KeyRotation, Migration, TLC

VARIABLE part   \* the component that runs

allVars == <<part, rotationVars, migrateVars>>

ASSUME RotationAssumption /\ MigrationAssumption

MCInit == part \in {"rotation", "migration"} /\ Init /\ MigrationInit

MCNext ==
  \/ part = "rotation" /\ Next /\ UNCHANGED <<part, migrateVars>>
  \/ part = "migration" /\ MigrationNext /\ UNCHANGED <<part, rotationVars>>

MCSpec == MCInit /\ [][MCNext]_allVars

Symmetry ==
  Permutations(Completions) \cup Permutations(Commands) \cup Permutations(Hosts \ {Origin})

\* Bounds the search: what the migration's properties exempt is not followed
\* further, and the stored record, which no other command reads, is followed
\* through the cutover only.
Followed ==
  /\ ~crossed
  /\ record # NoHost => \E c \in Commands : doing[c] \in {"deactivate", "cut over"}

\* The type invariant of each component.
TypesOK == TypeOK /\ MigrationTypeOK
=============================================================================
