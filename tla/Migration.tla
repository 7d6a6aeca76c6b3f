----------------------------- MODULE Migration -----------------------------
(***************************************************************************)
(* The wallet's migration of one identity to another host: the commands of *)
(* migration_orchestrator.rs and the identity leg of migrate.rs.  Each     *)
(* command checks the recorded phase under the lock, works on the network  *)
(* with the lock released, and records its own phase, so that commands     *)
(* overlap, and the phase may go back as well as forward.  The slot lives  *)
(* in memory: killing the app loses it, and the hosts, the directory and   *)
(* the stored token record keep what the commands did.                     *)
(*                                                                         *)
(* A client is the host it is signed in to, an operation is its place in   *)
(* the directory's log and the host it names, and one blob stands for all. *)
(* The hosts and the directory are external.                               *)
(***************************************************************************)
EXTENDS Naturals, Sequences

CONSTANTS
  Hosts,       \* personal data servers
  Origin,      \* the host the account was created on
  NoHost,      \* no client, no destination, no record
  Commands,    \* concurrent commands of the user interface
  MaxMoves     \* bound: operations in the directory's log

MigrationAssumption == Origin \in Hosts /\ NoHost \notin Hosts /\ MaxMoves \in Nat

VARIABLES
  phase,       \* OutboundMigrationState.phase; 0 when the slot is empty
  source,      \* source_pds_url
  dest,        \* dest_pds_url
  srcClient,   \* source_client
  dstClient,   \* dest_client
  loss,        \* accepted_blob_loss is not empty
  legHost,     \* migration_state: dest_oauth_client, NoHost when cleared
  legOp,       \* migration_state: signed_op and op_cid, NoOp before the build
  doing,       \* what each command does next
  from,        \* the source client it cloned, or the source it resolved
  to,          \* the destination client it cloned, or the destination
  op,          \* the operation it submits
  lossy,       \* the loss it read or found
  late,        \* the slot was replaced since it started
  account,     \* the account on each host
  repoAt,      \* hosts that hold the repository
  blobAt,      \* hosts that hold the blob
  log,         \* the host named by each operation of the directory
  record,      \* the host of the stored token record
  waived,      \* hosts for which the user accepted the loss of the blob
  crossed      \* a command used the slot or the leg of another migration

slot        == <<phase, source, dest, srcClient, dstClient, loss>>
leg         == <<legHost, legOp>>
clones      == <<from, to, op, lossy>>
hosts       == <<account, repoAt, blobAt>>
migrateVars == <<slot, leg, doing, clones, late, hosts, log, record, waived, crossed>>

home == log[Len(log)]

NoOp == [prev |-> 0, host |-> NoHost]

\* migration_op_landed.
Landed(o) == Len(log) > o.prev /\ log[o.prev + 1] = o.host

\* MigrationPhase.
Resolved == 1
SourceAuthed == 2
DestCreated == 3
RepoTransferred == 4
BlobsTransferred == 5
PreferencesTransferred == 6
Verified == 7
IdentityArmed == 8
Finalized == 9

MigrationInit ==
  /\ phase = 0 /\ source = NoHost /\ dest = NoHost
  /\ srcClient = NoHost /\ dstClient = NoHost /\ loss = FALSE
  /\ legHost = NoHost /\ legOp = NoOp
  /\ doing = [c \in Commands |-> "idle"] /\ late = [c \in Commands |-> FALSE]
  /\ from = [c \in Commands |-> NoHost] /\ to = [c \in Commands |-> NoHost]
  /\ op = [c \in Commands |-> NoOp] /\ lossy = [c \in Commands |-> FALSE]
  /\ account = [h \in Hosts |-> IF h = Origin THEN "active" ELSE "none"]
  /\ repoAt = {Origin} /\ blobAt = {Origin} /\ log = <<Origin>>
  /\ record = NoHost /\ waived = {} /\ crossed = FALSE

-----------------------------------------------------------------------------
(* What the commands share.                                                *)

\* ensure_phase_did: the command starts with the clients it clones.
Gate(c, required, step) ==
  /\ doing[c] = "idle" /\ phase >= required
  /\ doing' = [doing EXCEPT ![c] = step]
  /\ from' = [from EXCEPT ![c] = srcClient]
  /\ to' = [to EXCEPT ![c] = dstClient]
  /\ lossy' = [lossy EXCEPT ![c] = loss]
  /\ UNCHANGED <<slot, leg, op, late, hosts, log, record, waived, crossed>>

Go(c, step) == doing' = [doing EXCEPT ![c] = step]

\* The command returns, and what it cloned is dropped.
Return(c) ==
  /\ Go(c, "idle")
  /\ from' = [from EXCEPT ![c] = NoHost] /\ to' = [to EXCEPT ![c] = NoHost]
  /\ op' = [op EXCEPT ![c] = NoOp] /\ lossy' = [lossy EXCEPT ![c] = FALSE]
  /\ late' = [late EXCEPT ![c] = FALSE]

\* An error of the network or of a check, or an answer lost after its effect.
Fail(c) ==
  /\ doing[c] # "idle"
  /\ Return(c)
  /\ UNCHANGED <<slot, leg, hosts, log, record, waived, crossed>>

\* Fault: the phase counts the steps that were recorded.
JournalNext(c, newPhase) ==
  /\ phase # 0
  /\ phase' = phase + 1
  /\ crossed' = (crossed \/ late[c])
  /\ Return(c)

\* MigrationJournal::commit: the phase is set, not raised, whatever migration
\* of this identity the slot holds by now.
Journal(c, newPhase) ==
  /\ phase # 0
  /\ phase' = newPhase
  /\ crossed' = (crossed \/ late[c])
  /\ Return(c)

Save(c, step, newPhase) ==
  /\ doing[c] = step
  /\ Journal(c, newPhase)
  /\ UNCHANGED <<source, dest, srcClient, dstClient, loss, leg, hosts, log, record, waived>>

\* The app is killed.
Kill ==
  /\ phase' = 0 /\ source' = NoHost /\ dest' = NoHost
  /\ srcClient' = NoHost /\ dstClient' = NoHost /\ loss' = FALSE
  /\ legHost' = NoHost /\ legOp' = NoOp
  /\ doing' = [c \in Commands |-> "idle"] /\ late' = [c \in Commands |-> FALSE]
  /\ from' = [c \in Commands |-> NoHost] /\ to' = [c \in Commands |-> NoHost]
  /\ op' = [c \in Commands |-> NoOp] /\ lossy' = [c \in Commands |-> FALSE]
  /\ UNCHANGED <<hosts, log, record, waived, crossed>>

-----------------------------------------------------------------------------
(* The commands up to the import.                                          *)

\* prepare_migration_impl: the source is the host the directory names.
Resolve(c, d) ==
  /\ doing[c] = "idle"
  /\ Go(c, "prepare")
  /\ from' = [from EXCEPT ![c] = home] /\ to' = [to EXCEPT ![c] = d]
  /\ UNCHANGED <<slot, leg, op, lossy, late, hosts, log, record, waived, crossed>>

\* prepare_migration: a fresh slot.  The identity leg is left as it is, and so
\* are the commands still on the network.
Prepare(c) ==
  /\ doing[c] = "prepare"
  /\ phase' = Resolved /\ source' = from[c] /\ dest' = to[c]
  /\ srcClient' = NoHost /\ dstClient' = NoHost /\ loss' = FALSE
  /\ doing' = [doing EXCEPT ![c] = "idle"]
  /\ from' = [from EXCEPT ![c] = NoHost] /\ to' = [to EXCEPT ![c] = NoHost]
  /\ late' = [b \in Commands |-> b # c /\ doing[b] \notin {"idle", "prepare"}]
  /\ UNCHANGED <<leg, op, lossy, hosts, log, record, waived, crossed>>

\* authenticate_migration_source.
Login(c) ==
  /\ doing[c] = "idle" /\ phase >= Resolved
  /\ Go(c, "login")
  /\ from' = [from EXCEPT ![c] = source]
  /\ UNCHANGED <<slot, leg, to, op, lossy, late, hosts, log, record, waived, crossed>>

Authenticate(c) ==
  /\ doing[c] = "login" /\ source = from[c]
  /\ srcClient' = from[c]
  /\ Journal(c, SourceAuthed)
  /\ UNCHANGED <<source, dest, dstClient, loss, leg, hosts, log, record, waived>>

\* create_destination_account: a client at hand is returned as it is; otherwise
\* the account is created, deactivated, unless the host has it already.
StartCreate(c) ==
  /\ srcClient # NoHost
  /\ doing[c] = "idle" /\ phase >= SourceAuthed
  /\ Go(c, IF dstClient = NoHost THEN "create" ELSE "created")
  /\ to' = [to EXCEPT ![c] = IF dstClient = NoHost THEN dest ELSE dstClient]
  /\ UNCHANGED <<slot, leg, from, op, lossy, late, hosts, log, record, waived, crossed>>

CreateAccount(c) ==
  /\ doing[c] = "create" /\ account[to[c]] = "none"
  /\ account' = [account EXCEPT ![to[c]] = "deactivated"]
  /\ Go(c, "created")
  /\ UNCHANGED <<slot, leg, clones, late, repoAt, blobAt, log, record, waived, crossed>>

StoreDestination(c) ==
  /\ doing[c] = "created"
  /\ dstClient' = to[c]
  /\ Journal(c, DestCreated)
  /\ UNCHANGED <<source, dest, srcClient, loss, leg, hosts, log, record, waived>>

\* transfer_repo, from the source or the local mirror.
StartRepo(c) == dstClient # NoHost /\ Gate(c, DestCreated, "repo")

ImportRepo(c) ==
  /\ doing[c] = "repo"
  /\ repoAt' = repoAt \cup {to[c]}
  /\ Go(c, "repo done")
  /\ UNCHANGED <<slot, leg, clones, late, account, blobAt, log, record, waived, crossed>>

\* transfer_blobs: the missing blobs are those of the repository's records.
StartBlobs(c) == dstClient # NoHost /\ Gate(c, RepoTransferred, "blobs")

Drain(c, moved, accept) ==
  LET missing == to[c] \in repoAt /\ to[c] \notin blobAt IN
  /\ doing[c] = "blobs"
  /\ moved => missing
  /\ blobAt' = IF moved THEN blobAt \cup {to[c]} ELSE blobAt
  /\ missing /\ ~moved => accept
  /\ lossy' = [lossy EXCEPT ![c] = missing /\ ~moved]
  /\ Go(c, "drained")
  /\ UNCHANGED <<slot, leg, from, to, op, late, account, repoAt, log, record, waived, crossed>>

StoreDrain(c) ==
  /\ doing[c] = "drained"
  /\ loss' = lossy[c]
  /\ waived' = IF lossy[c] THEN waived \cup {to[c]} ELSE waived
  /\ Journal(c, BlobsTransferred)
  /\ UNCHANGED <<source, dest, srcClient, dstClient, leg, hosts, log, record>>

\* transfer_preferences; what it copies is left out.
StartPreferences(c) ==
  srcClient # NoHost /\ dstClient # NoHost /\ Gate(c, BlobsTransferred, "preferences")

\* verify_import.
StartVerify(c) == dstClient # NoHost /\ Gate(c, PreferencesTransferred, "verify")

\* import_reconciles_with_loss: imported + accepted = expected, and a commit.
ImportReconciles(h, accepted) == h \in repoAt /\ (h \notin blobAt) = accepted

Verify(c) ==
  /\ doing[c] = "verify" /\ ImportReconciles(to[c], lossy[c])
  /\ Go(c, "reconciled")
  /\ UNCHANGED <<slot, leg, clones, late, hosts, log, record, waived, crossed>>

-----------------------------------------------------------------------------
(* The identity leg.                                                       *)

\* arm_identity_leg_core: the leg is parked, then the phase is recorded.
StartArm(c) == dstClient # NoHost /\ Gate(c, Verified, "arm")

Arm(c) ==
  /\ doing[c] = "arm"
  /\ legHost' = to[c] /\ legOp' = NoOp
  /\ crossed' = (crossed \/ late[c])
  /\ Go(c, "armed")
  /\ UNCHANGED <<slot, clones, late, hosts, log, record, waived>>

\* build_migration_op_cmd: onto the head of the log, naming the destination.
Build(c) ==
  /\ doing[c] = "idle" /\ legHost # NoHost /\ Len(log) < MaxMoves
  /\ op' = [op EXCEPT ![c] = [prev |-> Len(log), host |-> legHost]]
  /\ Go(c, "build")
  /\ UNCHANGED <<slot, leg, from, to, lossy, late, hosts, log, record, waived, crossed>>

\* Only the DID of the leg is compared again.
ParkOp(c) ==
  /\ doing[c] = "build" /\ legHost # NoHost
  /\ legOp' = op[c]
  /\ crossed' = (crossed \/ op[c].host # legHost)
  /\ Return(c)
  /\ UNCHANGED <<slot, legHost, hosts, log, record, waived>>

\* submit_migration_op_cmd: the operation stays parked until it is known to
\* have landed.
StartSubmit(c) ==
  /\ doing[c] = "idle" /\ legHost # NoHost /\ legOp # NoOp
  /\ op' = [op EXCEPT ![c] = legOp]
  /\ Go(c, "submit")
  /\ UNCHANGED <<slot, leg, from, to, lossy, late, hosts, log, record, waived, crossed>>

\* submit_migration_op_reconciling: it landed before, or it is posted and the
\* directory takes it.  Fail covers a lost answer that is not reconciled.
SubmitOp(c) ==
  /\ doing[c] = "submit"
  /\ \/ Landed(op[c]) /\ UNCHANGED log
     \/ ~Landed(op[c]) /\ Len(log) = op[c].prev /\ log' = Append(log, op[c].host)
  /\ Go(c, "submitted")
  /\ UNCHANGED <<slot, leg, clones, late, hosts, record, waived, crossed>>

\* Only the operation that was submitted is cleared.
ClearLeg(c) ==
  /\ doing[c] = "submitted"
  /\ IF legOp = op[c] THEN legHost' = NoHost /\ legOp' = NoOp ELSE UNCHANGED leg
  /\ Return(c)
  /\ UNCHANGED <<slot, hosts, log, record, waived, crossed>>

-----------------------------------------------------------------------------
(* finalize_migration.                                                     *)

\* Merged with the gate of finalize_migration_core: the look at the slot that
\* finalize_migration_impl takes a probe earlier.  It decides only whose session the
\* bearer branch stores, so what is left out is a session of a destination that was
\* replaced, and whose successor was armed, during the probe.
StartFinalize(c) ==
  dstClient # NoHost /\ srcClient # NoHost /\ Gate(c, IdentityArmed, "finalize")

\* Fault: the phase alone lets the cutover begin.
PhaseSuffices == TRUE

\* The identity leg must be cleared.
OpSubmitted == legHost = NoHost

CheckSubmitted(c) ==
  /\ doing[c] = "finalize" /\ OpSubmitted
  /\ crossed' = (crossed \/ late[c])
  /\ Go(c, "activate")
  /\ UNCHANGED <<slot, leg, clones, late, hosts, log, record, waived>>

\* Fault: an activation that failed is passed over.
TolerateFailure(c) == UNCHANGED account

ActivateDestination(c) == account' = [account EXCEPT ![to[c]] = "active"]

Activate(c) ==
  /\ doing[c] = "activate"
  /\ ActivateDestination(c)
  /\ Go(c, "persist")
  /\ UNCHANGED <<slot, leg, clones, late, repoAt, blobAt, log, record, waived, crossed>>

\* ensure_bearer_session_persisted stores the destination's pair, and
\* ensure_sovereign_session_persisted one of the host the directory names; both
\* leave any record that has not expired.
Persist(c) ==
  /\ doing[c] = "persist"
  /\ IF record # NoHost THEN UNCHANGED record ELSE record' \in {to[c], home}
  /\ Go(c, "deactivate")
  /\ UNCHANGED <<slot, leg, clones, late, hosts, log, waived, crossed>>

Deactivate(c) ==
  /\ doing[c] = "deactivate"
  /\ account' = [account EXCEPT ![from[c]] = "deactivated"]
  /\ Go(c, "cut over")
  /\ UNCHANGED <<slot, leg, clones, late, repoAt, blobAt, log, record, waived, crossed>>

-----------------------------------------------------------------------------
(* The wallet's session outside the migration.                             *)

\* A login at the host the directory names: sovereign_login, password_unlock.
SignIn ==
  /\ record' = home
  /\ UNCHANGED <<slot, leg, doing, clones, late, hosts, log, waived, crossed>>

\* full_access_client discards a record of another host; or the record expired.
DropRecord ==
  /\ record # NoHost
  /\ record' = NoHost
  /\ UNCHANGED <<slot, leg, doing, clones, late, hosts, log, waived, crossed>>

Import(c) ==
  \/ Prepare(c) \/ Login(c) \/ Authenticate(c) \/ StartCreate(c) \/ CreateAccount(c)
  \/ StoreDestination(c) \/ StartRepo(c) \/ ImportRepo(c)
  \/ Save(c, "repo done", RepoTransferred)
  \/ StartBlobs(c) \/ (\E moved, accept \in BOOLEAN : Drain(c, moved, accept))
  \/ StoreDrain(c)
  \/ StartPreferences(c) \/ Save(c, "preferences", PreferencesTransferred)
  \/ StartVerify(c) \/ Verify(c) \/ Save(c, "reconciled", Verified)
  \/ \E d \in Hosts : Resolve(c, d)

Identity(c) ==
  \/ StartArm(c) \/ Arm(c) \/ Save(c, "armed", IdentityArmed)
  \/ Build(c) \/ ParkOp(c) \/ StartSubmit(c) \/ SubmitOp(c) \/ ClearLeg(c)

Finalize(c) ==
  \/ StartFinalize(c) \/ CheckSubmitted(c) \/ Activate(c) \/ Persist(c) \/ Deactivate(c)
  \/ Save(c, "cut over", Finalized)

MigrationNext ==
  \/ Kill \/ SignIn \/ DropRecord
  \/ \E c \in Commands : Import(c) \/ Identity(c) \/ Finalize(c) \/ Fail(c)

MigrationSpec == MigrationInit /\ [][MigrationNext]_migrateVars

-----------------------------------------------------------------------------
Clients == Hosts \cup {NoHost}

\* Where a command is: what it works on, or what it is about to record.
Steps ==
  {"idle", "prepare", "login", "create", "created", "repo", "repo done", "blobs", "drained",
   "preferences", "verify", "reconciled", "arm", "armed", "build", "submit", "submitted",
   "finalize", "activate", "persist", "deactivate", "cut over"}

\* Types of the slot, the leg, the commands and the hosts.
MigrationTypeOK ==
  /\ phase \in 0..Finalized /\ source \in Clients /\ dest \in Clients
  /\ srcClient \in Clients /\ dstClient \in Clients /\ loss \in BOOLEAN
  /\ legHost \in Clients /\ legOp \in [prev : 0..MaxMoves, host : Clients]
  /\ doing \in [Commands -> Steps]
  /\ from \in [Commands -> Clients] /\ to \in [Commands -> Clients]
  /\ op \in [Commands -> [prev : 0..MaxMoves, host : Clients]]
  /\ lossy \in [Commands -> BOOLEAN] /\ late \in [Commands -> BOOLEAN]
  /\ account \in [Hosts -> {"none", "active", "deactivated"}]
  /\ repoAt \subseteq Hosts /\ blobAt \subseteq Hosts /\ waived \subseteq Hosts
  /\ log \in Seq(Hosts) /\ record \in Clients /\ crossed \in BOOLEAN

\* Some host always serves the account: overlapping commands, lost answers and
\* killed apps never leave every account deactivated, unless a command used the
\* slot or the identity leg of a migration other than its own.
SomeHostServes == crossed \/ \E h \in Hosts : account[h] = "active"

\* A destination is activated only once the directory named it and its import
\* was verified: it holds the repository, and the blob unless the user accepted
\* its loss.  Steps may be repeated, overlapped and lost, and the app killed.
CutoverInOrder ==
  \/ crossed
  \/ \A h \in Hosts \ {Origin} :
       account[h] = "active" =>
         /\ \E n \in 1..Len(log) : log[n] = h
         /\ h \in repoAt /\ (h \in blobAt \/ h \in waived)

\* "Last cutover step - runs only after the destination is active AND its
\* sovereign session is durably persisted, so a wallet crash can never strand
\* the account credential-less".
CredentialBeforeCutover ==
  [][\A c \in Commands :
       doing[c] = "deactivate" /\ doing'[c] = "cut over" => record = to[c]]_migrateVars
=============================================================================
