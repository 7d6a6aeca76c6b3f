-------------------------- MODULE MigrationProofs --------------------------
(***************************************************************************)
(* The wallet's migration for any hosts, number of overlapping commands    *)
(* and bound on the directory's log: some host always serves the account,  *)
(* and a destination is activated only after its import was verified and   *)
(* the directory named it, as long as no command uses the slot or the      *)
(* identity leg of another migration than its own.                         *)
(*                                                                         *)
(* Why some host serves: every migration goes to a host the account was    *)
(* not on, so the hosts are ordered by when the directory first named      *)
(* them, and a command deactivates a host only after it activated one that *)
(* comes later in that order.                                              *)
(***************************************************************************)
EXTENDS Migration, TLAPS

\* The hosts the directory names or named, and the pairs of which it named the
\* first when it had not yet named the second.
named == {h \in Hosts : \E n \in 1..Len(log) : log[n] = h}

precedes ==
  {p \in Hosts \X Hosts :
     \E n \in 1..Len(log) : log[n] = p[1] /\ \A m \in 1..n : log[m] # p[2]}

\* The hosts that hold what verify_import asks for; those with an account.
imported == repoAt \cap (blobAt \cup waived)
known == {h \in Hosts : account[h] # "none"}

\* The leg is armed for the host, or its operation has landed.
ArmedFor(h) == legHost = h \/ (legHost = NoHost /\ h \in named)

Cutover == {"finalize", "activate", "persist", "deactivate", "cut over"}

\* The steps at which a command holds a clone of the destination's client.
Cloned ==
  {"created", "repo", "repo done", "blobs", "drained", "preferences", "verify",
   "reconciled", "arm", "armed"} \cup Cutover

\* What a command works with is a host.
RunTyped(c) ==
  /\ doing[c] \in {"prepare", "login"} \cup Cutover => from[c] \in Hosts
  /\ doing[c] \in {"prepare", "create"} \cup Cloned => to[c] \in Hosts
  /\ doing[c] \in {"build", "submit", "submitted"} => op[c].host \in Hosts

HostsTyped ==
  /\ phase # 0 => source \in Hosts /\ dest \in Hosts
  /\ log # <<>>
  /\ legOp # NoOp => legOp.host \in Hosts
  /\ \A c \in Commands : RunTyped(c)

\* The slot: its clients are those of its own source and destination, the
\* destination is new to the directory, and the phase is that of its import.
SlotInv ==
  phase # 0 =>
    /\ source \in named
    /\ srcClient \in {NoHost, source} /\ dstClient \in {NoHost, dest}
    /\ dstClient # NoHost => dest \in known /\ <<source, dest>> \in precedes
    /\ loss => dest \in waived
    /\ phase >= Verified => dest \in imported
    /\ phase >= IdentityArmed => ArmedFor(dest)

\* The identity leg: a host with an account, and an operation that names it.
LegInv ==
  /\ named \subseteq known
  /\ legHost # NoHost => legHost \in known
  /\ legOp # NoOp => legOp.host = legHost

\* A command of the migration in the slot works for the slot's destination.
Own(c) ==
  ~late[c] =>
    /\ doing[c] \in {"create"} \cup Cloned => to[c] = dest
    /\ doing[c] \in {"create", "created"} => phase # 0
    /\ doing[c] = "created" => <<source, dest>> \in precedes
    /\ doing[c] \in {"armed"} \cup Cutover => ArmedFor(to[c])

\* What a command found out stays true, whatever becomes of its migration.
Found(c) ==
  /\ doing[c] = "prepare" => from[c] \in named
  /\ doing[c] \in Cloned => to[c] \in known
  /\ doing[c] = "verify" /\ lossy[c] => to[c] \in waived
  /\ doing[c] \in {"reconciled", "arm", "armed"} \cup Cutover => to[c] \in imported
  /\ doing[c] \in Cutover => <<from[c], to[c]>> \in precedes
  /\ doing[c] \in Cutover \ {"finalize"} => to[c] \in named
  /\ doing[c] \in {"build", "submit"} => op[c].host \in known
  /\ doing[c] = "submitted" => op[c].host \in named

ActiveInv == \A h \in Hosts \ {Origin} : account[h] = "active" => h \in named \cap imported

\* A host that serves, and that comes no earlier than any that a command has
\* activated before it deactivates its source.
Serves(h) ==
  /\ account[h] = "active"
  /\ \A c \in Commands : doing[c] \in {"persist", "deactivate"} => <<h, to[c]>> \notin precedes

ServesInv == \E h \in Hosts : Serves(h)

OrderInv ==
  /\ SlotInv /\ LegInv
  /\ \A c \in Commands : Own(c) /\ Found(c)
  /\ ActiveInv /\ ServesInv

IInv == MigrationTypeOK /\ HostsTyped /\ (crossed \/ OrderInv)

-----------------------------------------------------------------------------
(* The commands.                                                           *)

Act(c) == Import(c) \/ Identity(c) \/ Finalize(c) \/ Fail(c)

\* Everything but the stored record, which no guard of an invariant reads.
core == <<slot, leg, doing, clones, late, hosts, log, waived, crossed>>

\* The steps that start a command with the clients of the slot ...
Starts(c) ==
  \/ StartRepo(c) \/ StartBlobs(c) \/ StartPreferences(c) \/ StartVerify(c)
  \/ StartArm(c) \/ StartFinalize(c)

Saves(c) ==
  \/ Save(c, "repo done", RepoTransferred) \/ Save(c, "preferences", PreferencesTransferred)
  \/ Save(c, "reconciled", Verified) \/ Save(c, "armed", IdentityArmed)
  \/ Save(c, "cut over", Finalized)

\* ... and those that end one and record its step.
Records(c) == Authenticate(c) \/ StoreDestination(c) \/ StoreDrain(c) \/ Saves(c)

\* A step is of one command, kills the app, or changes the stored record.
LEMMA StepKinds ==
  ASSUME [MigrationNext]_migrateVars
  PROVE  Kill \/ UNCHANGED core \/ \E c \in Commands : Act(c)
BY DEF MigrationNext, SignIn, DropRecord, migrateVars, core, Act, slot, leg, clones, hosts

\* The steps of a command, one by one.
LEMMA Acts ==
  ASSUME NEW c, Act(c)
  PROVE  \/ Prepare(c) \/ (\E d \in Hosts : Resolve(c, d)) \/ Login(c)
         \/ StartCreate(c) \/ CreateAccount(c) \/ Starts(c) \/ Records(c)
         \/ ImportRepo(c) \/ (\E moved, accept \in BOOLEAN : Drain(c, moved, accept))
         \/ Verify(c) \/ Arm(c) \/ Build(c) \/ ParkOp(c) \/ StartSubmit(c)
         \/ SubmitOp(c) \/ ClearLeg(c) \/ CheckSubmitted(c) \/ Activate(c)
         \/ Persist(c) \/ Deactivate(c) \/ Fail(c)
BY DEF Act, Import, Identity, Finalize, Starts, Records, Saves

\* A command changes its own locals only; prepare_migration marks the others.
LEMMA OthersKept ==
  ASSUME MigrationTypeOK, NEW c \in Commands, Act(c), NEW b \in Commands, b # c
  PROVE  /\ doing'[b] = doing[b] /\ from'[b] = from[b] /\ to'[b] = to[b]
         /\ op'[b] = op[b] /\ lossy'[b] = lossy[b]
         /\ late'[b] = late[b] \/ Prepare(c)
<1> USE DEF MigrationTypeOK, Go, Return, Journal, Save, Gate, clones
<1>1. CASE \/ Prepare(c) \/ (\E d \in Hosts : Resolve(c, d)) \/ Login(c)
           \/ StartCreate(c) \/ CreateAccount(c) \/ ImportRepo(c)
  BY <1>1 DEF Prepare, Resolve, Login, StartCreate, CreateAccount, ImportRepo
<1>2. CASE Starts(c)
  BY <1>2 DEF Starts, StartRepo, StartBlobs, StartPreferences, StartVerify, StartArm,
     StartFinalize
<1>3. CASE Records(c)
  BY <1>3 DEF Records, Saves, Authenticate, StoreDestination, StoreDrain
<1>4. CASE (\E moved, accept \in BOOLEAN : Drain(c, moved, accept)) \/ Verify(c) \/ Arm(c)
  BY <1>4 DEF Drain, Verify, Arm
<1>5. CASE Build(c) \/ ParkOp(c) \/ StartSubmit(c) \/ SubmitOp(c) \/ ClearLeg(c)
  BY <1>5 DEF Build, ParkOp, StartSubmit, SubmitOp, ClearLeg
<1>6. CASE CheckSubmitted(c) \/ Activate(c) \/ Persist(c) \/ Deactivate(c) \/ Fail(c)
  BY <1>6 DEF CheckSubmitted, Activate, Persist, Deactivate, Fail
<1> QED BY <1>1, <1>2, <1>3, <1>4, <1>5, <1>6, Acts

\* MigrationJournal::save: the step that was done decides the phase.
LEMMA SavesEffect ==
  ASSUME NEW c, Saves(c)
  PROVE  /\ \/ doing[c] = "repo done" /\ phase' = RepoTransferred
            \/ doing[c] = "preferences" /\ phase' = PreferencesTransferred
            \/ doing[c] = "reconciled" /\ phase' = Verified
            \/ doing[c] = "armed" /\ phase' = IdentityArmed
            \/ doing[c] = "cut over" /\ phase' = Finalized
         /\ phase # 0 /\ crossed' = (crossed \/ late[c]) /\ Return(c)
         /\ UNCHANGED <<source, dest, srcClient, dstClient, loss, leg, hosts, log, record,
                        waived>>
BY DEF Saves, Save, Journal

\* What a command takes from the slot when it starts ...
Begins(c) ==
  \/ doing'[c] = "prepare" /\ from'[c] = home /\ to'[c] \in Hosts
  \/ doing'[c] = "login" /\ from'[c] = source /\ phase # 0
  \/ doing'[c] = "create" /\ to'[c] = dest /\ phase # 0
  \/ doing'[c] = "created" /\ to'[c] = dstClient /\ dstClient # NoHost /\ phase # 0

Clones(c) ==
  /\ dstClient # NoHost /\ phase # 0
  /\ to'[c] = dstClient /\ from'[c] = srcClient /\ lossy'[c] = loss
  /\ \/ doing'[c] \in {"repo", "blobs", "preferences", "verify"}
     \/ doing'[c] = "arm" /\ phase >= Verified
     \/ doing'[c] = "finalize" /\ phase >= IdentityArmed /\ srcClient # NoHost

\* ... and how it goes on from there.
Proceeds(c) ==
  /\ from'[c] = from[c] /\ to'[c] = to[c]
  /\ \/ doing[c] = "create" /\ doing'[c] = "created" /\ account[to[c]] = "none"
        /\ account' = [account EXCEPT ![to[c]] = "deactivated"] /\ UNCHANGED log
     \/ doing[c] = "repo" /\ doing'[c] = "repo done"
     \/ doing[c] = "blobs" /\ doing'[c] = "drained"
     \/ doing[c] = "verify" /\ doing'[c] = "reconciled" /\ ImportReconciles(to[c], lossy[c])
     \/ doing[c] = "arm" /\ doing'[c] = "armed" /\ legHost' = to[c]
     \/ doing[c] = "finalize" /\ doing'[c] = "activate" /\ legHost = NoHost
        /\ crossed' = (crossed \/ late[c])
     \/ doing[c] = "activate" /\ doing'[c] = "persist"
     \/ doing[c] = "persist" /\ doing'[c] = "deactivate"
     \/ doing[c] = "deactivate" /\ doing'[c] = "cut over"

Moves(c) ==
  \/ doing'[c] = "build" /\ op'[c].host = legHost /\ legHost # NoHost
  \/ doing'[c] = "submit" /\ op'[c] = legOp /\ legHost # NoHost /\ legOp # NoOp
  \/ doing[c] = "submit" /\ doing'[c] = "submitted" /\ op'[c] = op[c]
     /\ (Landed(op[c]) \/ log' = Append(log, op[c].host))

\* The progress of the command that acts.
LEMMA Progress ==
  ASSUME MigrationTypeOK, NEW c \in Commands, Act(c)
  PROVE  \/ doing'[c] = "idle"
         \/ late'[c] = late[c] /\ (Begins(c) \/ Clones(c) \/ Proceeds(c) \/ Moves(c))
<1> USE DEF Go, clones
<1>d. /\ c \in DOMAIN doing /\ c \in DOMAIN from /\ c \in DOMAIN to /\ c \in DOMAIN op
      /\ c \in DOMAIN lossy /\ phase \in Nat
  BY DEF MigrationTypeOK, Finalized
<1>1. CASE Prepare(c) \/ Records(c) \/ ParkOp(c) \/ ClearLeg(c) \/ Fail(c)
  <2>1. CASE Saves(c)
    BY <1>d, <2>1, SavesEffect DEF Return
  <2> QED BY <1>d, <1>1, <2>1 DEF Prepare, Records, Authenticate, StoreDestination, StoreDrain,
          Journal, ParkOp, ClearLeg, Fail, Return
<1>2. CASE (\E d \in Hosts : Resolve(c, d)) \/ Login(c) \/ StartCreate(c)
  BY <1>d, <1>2 DEF Begins, Resolve, Login, StartCreate, Resolved, SourceAuthed
<1>3. CASE Starts(c)
  BY <1>d, <1>3 DEF Clones, Starts, StartRepo, StartBlobs, StartPreferences, StartVerify,
     StartArm, StartFinalize, Gate, DestCreated, RepoTransferred, BlobsTransferred,
     PreferencesTransferred, Verified, IdentityArmed
<1>4. CASE CreateAccount(c) \/ ImportRepo(c) \/ Verify(c) \/ Arm(c)
  BY <1>d, <1>4 DEF Proceeds, CreateAccount, ImportRepo, Verify, Arm
<1>5. CASE \E moved, accept \in BOOLEAN : Drain(c, moved, accept)
  BY <1>d, <1>5 DEF Proceeds, Drain
<1>6. CASE CheckSubmitted(c) \/ Activate(c) \/ Persist(c) \/ Deactivate(c)
  BY <1>d, <1>6 DEF Proceeds, CheckSubmitted, OpSubmitted, Activate, Persist, Deactivate
<1>7. CASE Build(c) \/ StartSubmit(c) \/ SubmitOp(c)
  BY <1>d, <1>7 DEF Moves, Build, StartSubmit, SubmitOp
<1> QED BY <1>1, <1>2, <1>3, <1>4, <1>5, <1>6, <1>7, Acts

\* How the slot changes: prepare_migration replaces it, a record sets what its
\* step produced.
LEMMA SlotMoves ==
  ASSUME NEW c, Act(c)
  PROVE  \/ Prepare(c) \/ Records(c) \/ UNCHANGED slot
BY Acts DEF Resolve, Login, StartCreate, CreateAccount, Starts, StartRepo, StartBlobs,
   StartPreferences, StartVerify, StartArm, StartFinalize, Gate, ImportRepo, Drain, Verify,
   Arm, Build, ParkOp, StartSubmit, SubmitOp, ClearLeg, CheckSubmitted, Activate, Persist,
   Deactivate, Fail

\* Only prepare_migration changes where the account comes from and goes to.
LEMMA DestinationKept ==
  ASSUME NEW c, Act(c), ~Prepare(c)
  PROVE  UNCHANGED <<source, dest>> /\ (phase # 0 => phase' # 0)
<1>1. CASE Saves(c)
  <2>1. UNCHANGED <<source, dest>>
    BY <1>1, SavesEffect
  <2>2. phase' \in {RepoTransferred, PreferencesTransferred, Verified, IdentityArmed,
                    Finalized}
    BY <1>1, SavesEffect
  <2> QED BY <2>1, <2>2 DEF RepoTransferred, PreferencesTransferred, Verified, IdentityArmed,
             Finalized
<1>2. CASE Authenticate(c) \/ StoreDestination(c) \/ StoreDrain(c)
  BY <1>2 DEF Authenticate, StoreDestination, StoreDrain, Journal, SourceAuthed, DestCreated,
     BlobsTransferred
<1> QED BY <1>1, <1>2, SlotMoves DEF Records, slot

\* How the identity leg changes.
LEMMA LegMoves ==
  ASSUME NEW c, Act(c)
  PROVE  \/ UNCHANGED leg
         \/ /\ doing[c] = "arm" /\ legHost' = to[c] /\ legOp' = NoOp
            /\ crossed' = (crossed \/ late[c])
         \/ /\ doing[c] = "submitted" /\ legOp = op[c] /\ legHost' = NoHost /\ legOp' = NoOp
         \/ /\ doing[c] = "build" /\ legOp' = op[c] /\ UNCHANGED legHost
            /\ crossed' = (crossed \/ op[c].host # legHost)
<1>1. CASE Arm(c) \/ ParkOp(c) \/ ClearLeg(c)
  BY <1>1 DEF Arm, ParkOp, ClearLeg
<1>2. CASE Saves(c)
  BY <1>2, SavesEffect
<1> QED BY <1>1, <1>2, Acts DEF Records, Authenticate, StoreDestination, StoreDrain, Prepare,
       Resolve, Login, StartCreate, CreateAccount, Starts, StartRepo, StartBlobs,
       StartPreferences, StartVerify, StartArm, StartFinalize, Gate, ImportRepo, Drain, Verify,
       Build, StartSubmit, SubmitOp, CheckSubmitted, Activate, Persist, Deactivate, Fail

\* How the accounts change: made where there was none, activated, deactivated.
LEMMA AccountMoves ==
  ASSUME NEW c, Act(c)
  PROVE  \/ UNCHANGED account
         \/ /\ doing[c] = "create" /\ account[to[c]] = "none"
            /\ account' = [account EXCEPT ![to[c]] = "deactivated"]
         \/ /\ doing[c] = "activate" /\ doing' = [doing EXCEPT ![c] = "persist"]
            /\ account' = [account EXCEPT ![to[c]] = "active"]
            /\ UNCHANGED <<from, to, log>>
         \/ /\ doing[c] = "deactivate" /\ doing' = [doing EXCEPT ![c] = "cut over"]
            /\ account' = [account EXCEPT ![from[c]] = "deactivated"]
            /\ UNCHANGED <<from, to, log>>
<1>1. CASE CreateAccount(c) \/ Activate(c) \/ Deactivate(c)
  BY <1>1 DEF CreateAccount, Activate, ActivateDestination, Deactivate, Go, clones
<1>2. CASE Saves(c)
  BY <1>2, SavesEffect DEF hosts
<1> QED BY <1>1, <1>2, Acts DEF Records, Authenticate, StoreDestination, StoreDrain, Prepare,
       Resolve, Login, StartCreate, Starts, StartRepo, StartBlobs, StartPreferences,
       StartVerify, StartArm, StartFinalize, Gate, ImportRepo, Drain, Verify, Arm, Build,
       ParkOp, StartSubmit, SubmitOp, ClearLeg, CheckSubmitted, Persist, Fail, hosts

\* How the directory's log and what the hosts hold change.
LEMMA LogMoves ==
  ASSUME NEW c, Act(c)
  PROVE  /\ \/ UNCHANGED log
            \/ doing[c] = "submit" /\ log' = Append(log, op[c].host)
         /\ repoAt \subseteq repoAt' /\ blobAt \subseteq blobAt' /\ waived \subseteq waived'
         /\ crossed => crossed'
<1>1. CASE SubmitOp(c) \/ ImportRepo(c) \/ StoreDrain(c)
           \/ \E moved, accept \in BOOLEAN : Drain(c, moved, accept)
  <2>1. CASE SubmitOp(c)
    BY <2>1 DEF SubmitOp, hosts
  <2>2. CASE ImportRepo(c)
    BY <2>2 DEF ImportRepo
  <2>3. CASE StoreDrain(c)
    BY <2>3 DEF StoreDrain, Journal, hosts
  <2>4. CASE \E moved, accept \in BOOLEAN : Drain(c, moved, accept)
    BY <2>4 DEF Drain
  <2> QED BY <1>1, <2>1, <2>2, <2>3, <2>4
<1>2. CASE Saves(c)
  BY <1>2, SavesEffect DEF hosts
<1> QED BY <1>1, <1>2, Acts DEF Records, Authenticate, StoreDestination, Journal, Prepare,
       Resolve, Login, StartCreate, CreateAccount, Starts, StartRepo, StartBlobs,
       StartPreferences, StartVerify, StartArm, StartFinalize, Gate, Verify, Arm, Build,
       ParkOp, StartSubmit, ClearLeg, CheckSubmitted, Activate, Persist, Deactivate, Fail, hosts

-----------------------------------------------------------------------------
(* Types.                                                                  *)

\* Clients, hosts and operations keep their types through every command.
LEMMA TypeStep ==
  ASSUME MigrationAssumption, MigrationTypeOK, HostsTyped, [MigrationNext]_migrateVars
  PROVE  MigrationTypeOK'
<1>n. NoOp \in [prev : 0..MaxMoves, host : Clients] /\ NoHost \in Clients
  BY DEF MigrationAssumption, NoOp, Clients
<1>h. home \in Hosts /\ home \in Clients
  <2>1. log \in Seq(Hosts) /\ log # <<>>
    BY DEF MigrationTypeOK, HostsTyped
  <2>2. Len(log) \in 1..Len(log)
    BY <2>1
  <2> QED BY <2>1, <2>2 DEF home, Clients
<1>p. phase # 0 => source \in Hosts /\ dest \in Hosts
  BY DEF HostsTyped
<1>t. \A c \in Commands : doing[c] \in {"prepare", "create"} \cup Cloned => to[c] \in Hosts
  BY DEF HostsTyped, RunTyped
<1>o. \A c \in Commands : doing[c] = "submit" => op[c].host \in Hosts
  BY DEF HostsTyped, RunTyped
<1>i. /\ {"idle", "prepare", "login", "create", "created", "repo done", "drained",
          "reconciled", "armed", "build", "submit", "submitted", "activate", "persist",
          "deactivate", "cut over"} \subseteq Steps
      /\ {"repo", "blobs", "preferences", "verify", "arm", "finalize"} \subseteq Steps
  BY DEF Steps
<1> USE DEF MigrationTypeOK, slot, leg, clones, hosts, Go
<1>s. ASSUME NEW c, Return(c)
      PROVE  /\ doing' \in [Commands -> Steps]
             /\ from' \in [Commands -> Clients] /\ to' \in [Commands -> Clients]
             /\ op' \in [Commands -> [prev : 0..MaxMoves, host : Clients]]
             /\ lossy' \in [Commands -> BOOLEAN] /\ late' \in [Commands -> BOOLEAN]
  BY <1>n, <1>i, <1>s DEF Return
<1>1. ASSUME NEW c \in Commands, Prepare(c) PROVE MigrationTypeOK'
  <2>1. /\ phase' \in 0..Finalized /\ late' \in [Commands -> BOOLEAN]
        /\ doing' \in [Commands -> Steps]
        /\ from' \in [Commands -> Clients] /\ to' \in [Commands -> Clients]
    <3>1. phase' \in 0..Finalized
      BY <1>1 DEF Prepare, Resolved, Finalized
    <3>2. late' \in [Commands -> BOOLEAN]
      BY <1>1, Zenon DEF Prepare
    <3>3. /\ doing' \in [Commands -> Steps]
          /\ from' \in [Commands -> Clients] /\ to' \in [Commands -> Clients]
      BY <1>1, <1>n, <1>i DEF Prepare
    <3> QED BY <3>1, <3>2, <3>3
  <2> QED BY <1>1, <1>n, <2>1 DEF Prepare
<1>2. ASSUME NEW c \in Commands, NEW d \in Hosts, Resolve(c, d) PROVE MigrationTypeOK'
  BY <1>2, <1>h, <1>i DEF Resolve, Clients
<1>3. ASSUME NEW c \in Commands, Login(c) PROVE MigrationTypeOK'
  BY <1>3, <1>i DEF Login
<1>4. ASSUME NEW c \in Commands, StartCreate(c) PROVE MigrationTypeOK'
  <2>1. dest \in Clients /\ dstClient \in Clients
    OBVIOUS
  <2> QED BY <1>4, <1>i, <2>1 DEF StartCreate
<1>5. ASSUME NEW c \in Commands, CreateAccount(c) PROVE MigrationTypeOK'
  BY <1>5, <1>i DEF CreateAccount
<1>6. ASSUME NEW c \in Commands, Starts(c) PROVE MigrationTypeOK'
  <2>1. PICK step \in {"repo", "blobs", "preferences", "verify", "arm", "finalize"},
             required \in Nat : Gate(c, required, step)
    BY <1>6 DEF Starts, StartRepo, StartBlobs, StartPreferences, StartVerify, StartArm,
       StartFinalize, DestCreated, RepoTransferred, BlobsTransferred, Verified,
       PreferencesTransferred, IdentityArmed
  <2> QED BY <2>1, <1>i DEF Gate
<1>7. ASSUME NEW c \in Commands, Authenticate(c) \/ StoreDestination(c) \/ StoreDrain(c)
      PROVE  MigrationTypeOK'
  <2>1. /\ phase' \in 0..Finalized /\ crossed' \in BOOLEAN /\ Return(c)
        /\ UNCHANGED <<source, dest, leg, hosts, log, record>>
    <3>1. CASE Authenticate(c)
      BY <3>1 DEF Authenticate, Journal, SourceAuthed, Finalized
    <3>2. CASE StoreDestination(c)
      BY <3>2 DEF StoreDestination, Journal, DestCreated, Finalized
    <3>3. CASE StoreDrain(c)
      BY <3>3 DEF StoreDrain, Journal, BlobsTransferred, Finalized
    <3> QED BY <1>7, <3>1, <3>2, <3>3
  <2>2. /\ srcClient' \in Clients /\ dstClient' \in Clients
        /\ loss' \in BOOLEAN /\ waived' \subseteq Hosts
    <3>1. CASE Authenticate(c)
      BY <3>1 DEF Authenticate
    <3>2. CASE StoreDestination(c)
      BY <3>2 DEF StoreDestination
    <3>3. CASE StoreDrain(c)
      BY <3>3, <1>t DEF StoreDrain, Cloned
    <3> QED BY <1>7, <3>1, <3>2, <3>3
  <2> QED BY <2>1, <2>2, <1>s
<1>8. ASSUME NEW c \in Commands, Saves(c) PROVE MigrationTypeOK'
  <2>1. /\ phase' \in 0..Finalized /\ crossed' \in BOOLEAN /\ Return(c)
        /\ UNCHANGED <<source, dest, srcClient, dstClient, loss, leg, hosts, log, record,
                       waived>>
    <3>1. phase' \in {4, 6, 7, 8, 9}
      BY <1>8, SavesEffect DEF RepoTransferred, PreferencesTransferred, Verified,
         IdentityArmed, Finalized
    <3>2. crossed' = (crossed \/ late[c]) /\ Return(c)
      BY <1>8, SavesEffect
    <3>3. UNCHANGED <<source, dest, srcClient, dstClient, loss, leg, hosts, log, record,
                      waived>>
      BY <1>8, SavesEffect
    <3> QED BY <3>1, <3>2, <3>3 DEF Finalized
  <2> QED BY <2>1, <1>s
<1>9. ASSUME NEW c \in Commands, ImportRepo(c) PROVE MigrationTypeOK'
  BY <1>9, <1>i, <1>t DEF ImportRepo, Cloned
<1>10. ASSUME NEW c \in Commands, NEW moved \in BOOLEAN, NEW accept \in BOOLEAN,
              Drain(c, moved, accept)
       PROVE  MigrationTypeOK'
  BY <1>10, <1>i, <1>t DEF Drain, Cloned
<1>11. ASSUME NEW c \in Commands, Verify(c) PROVE MigrationTypeOK'
  BY <1>11, <1>i DEF Verify
<1>12. ASSUME NEW c \in Commands, Arm(c) PROVE MigrationTypeOK'
  BY <1>12, <1>n, <1>i DEF Arm
<1>13. ASSUME NEW c \in Commands, Build(c) PROVE MigrationTypeOK'
  <2>1. [prev |-> Len(log), host |-> legHost] \in [prev : 0..MaxMoves, host : Clients]
    BY <1>13 DEF Build, MigrationAssumption
  <2> QED BY <1>13, <1>i, <2>1 DEF Build
<1>14. ASSUME NEW c \in Commands, ParkOp(c) PROVE MigrationTypeOK'
  <2>1. /\ legOp' = op[c] /\ crossed' \in BOOLEAN /\ Return(c)
        /\ UNCHANGED <<slot, legHost, hosts, log, record, waived>>
    BY <1>14 DEF ParkOp
  <2> QED BY <2>1, <1>s
<1>15. ASSUME NEW c \in Commands, StartSubmit(c) PROVE MigrationTypeOK'
  BY <1>15, <1>i DEF StartSubmit
<1>16. ASSUME NEW c \in Commands, SubmitOp(c) PROVE MigrationTypeOK'
  <2>1. log' \in Seq(Hosts)
    <3>1. op[c].host \in Hosts
      BY <1>16, <1>o DEF SubmitOp
    <3>2. log' = log \/ log' = Append(log, op[c].host)
      BY <1>16 DEF SubmitOp
    <3>3. log \in Seq(Hosts)
      OBVIOUS
    <3> HIDE DEF MigrationTypeOK
    <3> QED BY <3>1, <3>2, <3>3
  <2> QED BY <1>16, <1>i, <2>1 DEF SubmitOp
<1>17. ASSUME NEW c \in Commands, ClearLeg(c) PROVE MigrationTypeOK'
  <2>1. /\ legHost' \in Clients /\ legOp' \in [prev : 0..MaxMoves, host : Clients]
        /\ Return(c) /\ UNCHANGED <<slot, hosts, log, record, waived, crossed>>
    BY <1>17, <1>n DEF ClearLeg
  <2> QED BY <2>1, <1>s
<1>18. ASSUME NEW c \in Commands, CheckSubmitted(c) PROVE MigrationTypeOK'
  BY <1>18, <1>i DEF CheckSubmitted
<1>19. ASSUME NEW c \in Commands, Activate(c) PROVE MigrationTypeOK'
  BY <1>19, <1>i DEF Activate, ActivateDestination
<1>20. ASSUME NEW c \in Commands, Persist(c) PROVE MigrationTypeOK'
  <2>1. record' \in Clients
    BY <1>20, <1>h DEF Persist
  <2> QED BY <1>20, <1>i, <2>1 DEF Persist
<1>21. ASSUME NEW c \in Commands, Deactivate(c) PROVE MigrationTypeOK'
  BY <1>21, <1>i DEF Deactivate
<1>22. ASSUME NEW c \in Commands, Fail(c) PROVE MigrationTypeOK'
  BY <1>22, <1>s DEF Fail
<1>23. CASE Kill
  <2>1. /\ doing' \in [Commands -> Steps] /\ late' \in [Commands -> BOOLEAN]
        /\ from' \in [Commands -> Clients] /\ to' \in [Commands -> Clients]
        /\ op' \in [Commands -> [prev : 0..MaxMoves, host : Clients]]
        /\ lossy' \in [Commands -> BOOLEAN] /\ phase' \in 0..Finalized
    <3>1. phase' \in 0..Finalized
      BY <1>23 DEF Kill, Finalized
    <3>2. /\ doing' = [c \in Commands |-> "idle"] /\ op' = [c \in Commands |-> NoOp]
          /\ from' = [c \in Commands |-> NoHost] /\ to' = [c \in Commands |-> NoHost]
          /\ lossy' = [c \in Commands |-> FALSE] /\ late' = [c \in Commands |-> FALSE]
      BY <1>23 DEF Kill
    <3> HIDE DEF MigrationTypeOK
    <3> QED BY <3>1, <3>2, <1>n, <1>i
  <2> QED BY <1>23, <1>n, <2>1 DEF Kill
<1>24. CASE SignIn \/ DropRecord \/ UNCHANGED migrateVars
  <2>1. record' \in Clients
    BY <1>24, <1>h, <1>n DEF SignIn, DropRecord, migrateVars
  <2>2. UNCHANGED <<slot, leg, doing, clones, late, hosts, log, waived, crossed>>
    BY <1>24 DEF SignIn, DropRecord, migrateVars
  <2> QED BY <2>1, <2>2
<1> HIDE DEF MigrationTypeOK
<1>25. ASSUME NEW c \in Commands, Act(c) PROVE MigrationTypeOK'
  BY <1>25, Acts, <1>1, <1>2, <1>3, <1>4, <1>5, <1>6, <1>7, <1>8, <1>9, <1>10, <1>11, <1>12,
     <1>13, <1>14, <1>15, <1>16, <1>17, <1>18, <1>19, <1>20, <1>21, <1>22 DEF Records
<1> QED BY <1>23, <1>24, <1>25 DEF MigrationNext, Act

\* Clients that are cloned are hosts, and so are the operations' destinations.
LEMMA HostsStep ==
  ASSUME MigrationAssumption, MigrationTypeOK, HostsTyped, [MigrationNext]_migrateVars
  PROVE  HostsTyped'
<1>h. home \in Hosts
  <2>1. log \in Seq(Hosts) /\ log # <<>>
    BY DEF MigrationTypeOK, HostsTyped
  <2>2. Len(log) \in 1..Len(log)
    BY <2>1
  <2> QED BY <2>1, <2>2 DEF home
<1>c. /\ srcClient \in Hosts \cup {NoHost} /\ dstClient \in Hosts \cup {NoHost}
      /\ legHost \in Hosts \cup {NoHost}
      /\ phase # 0 => source \in Hosts /\ dest \in Hosts
      /\ legOp # NoOp => legOp.host \in Hosts
      /\ \A c \in Commands : RunTyped(c)
  BY DEF MigrationTypeOK, Clients, HostsTyped
<1>1. CASE Kill
  <2>1. /\ phase' = 0 /\ legOp' = NoOp /\ log' = log
        /\ \A c \in Commands : doing'[c] = "idle"
    BY <1>1 DEF Kill
  <2> QED BY <2>1 DEF HostsTyped, RunTyped, Cloned, Cutover
<1>2. CASE UNCHANGED core
  BY <1>2 DEF core, slot, leg, clones, HostsTyped, RunTyped
<1>3. ASSUME NEW c \in Commands, Act(c) PROVE HostsTyped'
  <2>1. phase' # 0 => source' \in Hosts /\ dest' \in Hosts
    <3>1. CASE Prepare(c)
      BY <1>c, <3>1 DEF Prepare, RunTyped
    <3>2. CASE Records(c)
      <4>1. phase # 0
        <5>1. CASE Saves(c)
          BY <5>1, SavesEffect
        <5> QED BY <3>2, <5>1 DEF Records, Authenticate, StoreDestination, StoreDrain, Journal
      <4>2. ~Prepare(c)
        <5>1. CASE Saves(c)
          BY <5>1, SavesEffect DEF Prepare
        <5> QED BY <3>2, <5>1 DEF Records, Authenticate, StoreDestination, StoreDrain, Prepare
      <4> QED BY <1>3, <1>c, <4>1, <4>2, DestinationKept
    <3> QED BY <1>3, <1>c, <3>1, <3>2, SlotMoves DEF slot
  <2>2. log' # <<>>
    <3>1. log \in Seq(Hosts) /\ log # <<>>
      BY DEF MigrationTypeOK, HostsTyped
    <3> QED BY <1>3, <3>1, LogMoves
  <2>3. legOp' # NoOp => legOp'.host \in Hosts
    BY <1>3, <1>c, LegMoves DEF leg, RunTyped
  <2>4. RunTyped(c)'
    <3>1. CASE doing'[c] = "idle"
      BY <3>1 DEF RunTyped, Cloned, Cutover
    <3>2. CASE Begins(c)
      BY <1>c, <1>h, <3>2 DEF Begins, RunTyped, Cloned, Cutover
    <3>3. CASE Clones(c)
      BY <1>c, <3>3 DEF Clones, RunTyped, Cloned, Cutover
    <3>4. CASE Proceeds(c)
      BY <1>c, <3>4 DEF Proceeds, RunTyped, Cloned, Cutover
    <3>5. CASE Moves(c)
      BY <1>c, <3>5 DEF Moves, RunTyped, Cloned, Cutover
    <3> QED BY <1>3, <3>1, <3>2, <3>3, <3>4, <3>5, Progress
  <2>5. \A b \in Commands : RunTyped(b)'
    BY <1>3, <1>c, <2>4, OthersKept DEF RunTyped
  <2> QED BY <2>1, <2>2, <2>3, <2>5 DEF HostsTyped
<1> QED BY <1>1, <1>2, <1>3, StepKinds

-----------------------------------------------------------------------------
(* The order in which the directory names hosts.                           *)

\* The log only grows.
LEMMA LogGrows ==
  ASSUME MigrationTypeOK, HostsTyped, [MigrationNext]_migrateVars
  PROVE  /\ log \in Seq(Hosts)
         /\ log' = log \/ \E h \in Hosts : log' = Append(log, h)
         /\ Len(log) \in Nat /\ Len(log') \in Nat /\ Len(log) <= Len(log')
         /\ \A n \in 1..Len(log) : log'[n] = log[n]
<1>1. log \in Seq(Hosts)
  BY DEF MigrationTypeOK
<1>2. log' = log \/ \E h \in Hosts : log' = Append(log, h)
  <2>1. ASSUME NEW c \in Commands, Act(c)
        PROVE  log' = log \/ \E h \in Hosts : log' = Append(log, h)
    <3>1. doing[c] = "submit" => op[c].host \in Hosts
      BY DEF HostsTyped, RunTyped
    <3> QED BY <2>1, <3>1, LogMoves
  <2> QED BY <2>1, StepKinds DEF Kill, core
<1>3. CASE log' = log
  BY <1>1, <1>3
<1>4. ASSUME NEW h \in Hosts, log' = Append(log, h)
      PROVE  /\ Len(log) \in Nat /\ Len(log') \in Nat /\ Len(log) <= Len(log')
             /\ \A n \in 1..Len(log) : log'[n] = log[n]
  BY <1>1, <1>4
<1> QED BY <1>1, <1>2, <1>3, <1>4

\* What was found out of the hosts and the directory stays true.
LEMMA Grow ==
  ASSUME MigrationAssumption, MigrationTypeOK, HostsTyped, [MigrationNext]_migrateVars
  PROVE  /\ named \subseteq named' /\ precedes \subseteq precedes'
         /\ imported \subseteq imported' /\ known \subseteq known'
         /\ waived \subseteq waived' /\ (crossed => crossed')
<1>1. named \subseteq named'
  BY LogGrows DEF named
<1>2. precedes \subseteq precedes'
  <2> SUFFICES ASSUME NEW a \in Hosts, NEW b \in Hosts, <<a, b>> \in precedes
               PROVE  <<a, b>> \in precedes'
    BY DEF precedes
  <2>1. PICK n \in 1..Len(log) : log[n] = a /\ \A m \in 1..n : log[m] # b
    BY DEF precedes
  <2>2. n \in 1..Len(log') /\ log'[n] = a /\ \A m \in 1..n : log'[m] # b
    BY <2>1, LogGrows
  <2> QED BY <2>2 DEF precedes
<1>3. /\ repoAt \subseteq repoAt' /\ blobAt \subseteq blobAt' /\ waived \subseteq waived'
      /\ crossed => crossed'
  <2>1. CASE Kill \/ UNCHANGED core
    BY <2>1 DEF Kill, core, hosts
  <2>2. ASSUME NEW c \in Commands, Act(c)
        PROVE  /\ repoAt \subseteq repoAt' /\ blobAt \subseteq blobAt'
               /\ waived \subseteq waived' /\ (crossed => crossed')
    BY <2>2, LogMoves
  <2> QED BY <2>1, <2>2, StepKinds
<1>4. known \subseteq known'
  <2>1. CASE UNCHANGED account
    BY <2>1 DEF known
  <2>2. ASSUME NEW c \in Commands, Act(c) PROVE known \subseteq known'
    <3>1. account \in [Hosts -> {"none", "active", "deactivated"}]
      BY DEF MigrationTypeOK
    <3> QED BY <2>1, <2>2, <3>1, AccountMoves DEF known
  <2> QED BY <2>1, <2>2, StepKinds DEF Kill, core, hosts
<1> QED BY <1>1, <1>2, <1>3, <1>4 DEF imported

\* A host named for the first time comes after every one that was named before.
LEMMA NewIsLater ==
  ASSUME NEW a \in named, NEW b \in Hosts, b \notin named
  PROVE  <<a, b>> \in precedes
<1>1. PICK n \in 1..Len(log) : log[n] = a
  BY DEF named
<1>2. \A m \in 1..n : log[m] # b
  BY DEF named
<1> QED BY <1>1, <1>2 DEF named, precedes

\* Of three hosts in that order the first comes before the last.
LEMMA Ordered ==
  ASSUME NEW a, NEW b, NEW c, <<a, b>> \in precedes, <<b, c>> \in precedes
  PROVE  <<a, c>> \in precedes
<1>1. PICK n \in 1..Len(log) : log[n] = a /\ \A m \in 1..n : log[m] # b
  BY DEF precedes
<1>2. PICK k \in 1..Len(log) : log[k] = b /\ \A m \in 1..k : log[m] # c
  BY DEF precedes
<1>3. n < k
  BY <1>1, <1>2
<1>4. \A m \in 1..n : log[m] # c
  BY <1>2, <1>3
<1> QED BY <1>1, <1>4 DEF precedes

\* Nothing comes before a host once it is named that did not already.
LEMMA Settled ==
  ASSUME MigrationTypeOK, HostsTyped, [MigrationNext]_migrateVars,
         NEW a, NEW b \in named, <<a, b>> \in precedes'
  PROVE  <<a, b>> \in precedes
<1>1. PICK n \in 1..Len(log') : log'[n] = a /\ \A m \in 1..n : log'[m] # b
  BY DEF precedes
<1>2. PICK k \in 1..Len(log) : log[k] = b
  BY DEF named
<1>3. n < k
  BY <1>1, <1>2, LogGrows
<1>4. n \in 1..Len(log) /\ log[n] = a /\ \A m \in 1..n : log[m] # b
  BY <1>1, <1>2, <1>3, LogGrows
<1>5. a \in Hosts /\ b \in Hosts
  BY DEF precedes, named
<1> QED BY <1>4, <1>5 DEF precedes

-----------------------------------------------------------------------------
(* The invariant, a step at a time: what the step assumes and does.        *)

Before ==
  /\ MigrationAssumption /\ MigrationTypeOK /\ HostsTyped /\ OrderInv
  /\ [MigrationNext]_migrateVars /\ ~crossed'

\* The leg of the migration in the slot stays armed until its operation landed.
LEMMA ArmedStays ==
  ASSUME Before, NEW c \in Commands, Act(c), NEW h, h = dest, ArmedFor(h)
  PROVE  ArmedFor(h)'
<1>1. named \subseteq named'
  BY Grow DEF Before
<1>2. CASE UNCHANGED legHost
  BY <1>1, <1>2 DEF ArmedFor
<1>3. CASE doing[c] = "arm" /\ legHost' = to[c] /\ crossed' = (crossed \/ late[c])
  <2>1. ~late[c] /\ doing[c] \in Cloned
    BY <1>3 DEF Before, Cloned
  <2>2. to[c] = dest
    BY <2>1 DEF Before, OrderInv, Own
  <2> QED BY <1>3, <2>2 DEF ArmedFor
<1>4. CASE doing[c] = "submitted" /\ legOp = op[c] /\ legHost' = NoHost
  <2>1. op[c].host \in named /\ op[c].host \in Hosts
    BY <1>4 DEF Before, OrderInv, Found, HostsTyped, RunTyped
  <2>2. legOp # NoOp
    BY <1>4, <2>1 DEF Before, MigrationAssumption, NoOp
  <2>3. legHost \in named /\ legHost # NoHost
    BY <1>4, <2>1, <2>2 DEF Before, OrderInv, LegInv, MigrationAssumption
  <2> QED BY <1>1, <1>4, <2>3 DEF ArmedFor
<1> QED BY <1>2, <1>3, <1>4, LegMoves DEF leg

\* The slot: what is recorded in it was done for its own destination.
LEMMA SlotStep == ASSUME Before PROVE SlotInv'
<1>g. /\ named \subseteq named' /\ precedes \subseteq precedes'
      /\ imported \subseteq imported' /\ known \subseteq known' /\ waived \subseteq waived'
  BY Grow DEF Before
<1>s. SlotInv /\ phase \in Nat
  BY DEF Before, OrderInv, MigrationTypeOK, Finalized
<1> USE DEF Resolved, SourceAuthed, DestCreated, RepoTransferred, BlobsTransferred,
        PreferencesTransferred, Verified, IdentityArmed, Finalized
<1>1. CASE Kill
  BY <1>1 DEF Kill, SlotInv
<1>2. CASE UNCHANGED core
  BY <1>2, <1>g, <1>s DEF core, slot, leg, SlotInv, ArmedFor
<1>3. ASSUME NEW c \in Commands, Prepare(c) PROVE SlotInv'
  <2>1. from[c] \in named
    BY <1>3 DEF Before, OrderInv, Found, Prepare
  <2>2. /\ phase' = 1 /\ source' = from[c] /\ srcClient' = NoHost /\ dstClient' = NoHost
        /\ loss' = FALSE
    BY <1>3 DEF Prepare
  <2> QED BY <1>g, <2>1, <2>2 DEF SlotInv
<1>4. ASSUME NEW c \in Commands, Act(c), Records(c) PROVE SlotInv'
  <2>0. ~late[c] /\ phase # 0 /\ UNCHANGED leg
    <3>1. CASE Saves(c)
      BY <3>1, SavesEffect DEF Before
    <3> QED BY <1>4, <3>1 DEF Records, Authenticate, StoreDestination, StoreDrain, Journal,
            Before
  <2>1. CASE Authenticate(c)
    BY <1>g, <1>s, <2>0, <2>1 DEF Authenticate, Journal, SlotInv
  <2>2. CASE StoreDestination(c)
    <3>1. doing[c] = "created" /\ doing[c] \in Cloned
      BY <2>2 DEF StoreDestination, Cloned
    <3>2. to[c] = dest /\ dest \in known /\ <<source, dest>> \in precedes
      BY <2>0, <3>1 DEF Before, OrderInv, Own, Found
    <3> QED BY <1>g, <1>s, <2>0, <2>2, <3>2 DEF StoreDestination, Journal, SlotInv
  <2>3. CASE StoreDrain(c)
    <3>1. doing[c] \in Cloned
      BY <2>3 DEF StoreDrain, Cloned
    <3>2. to[c] = dest
      BY <2>0, <3>1 DEF Before, OrderInv, Own
    <3>3. loss' = lossy[c] /\ (lossy[c] => dest \in waived') /\ phase' = 5
          /\ UNCHANGED <<source, dest, srcClient, dstClient>>
      BY <2>3, <3>2 DEF StoreDrain, Journal
    <3> QED BY <1>g, <1>s, <2>0, <3>3 DEF SlotInv
  <2>4. CASE Saves(c)
    <3>1. UNCHANGED <<source, dest, srcClient, dstClient, loss>>
      BY <2>4, SavesEffect
    <3>p. \/ phase' \in {4, 6}
          \/ doing[c] = "reconciled" /\ phase' = 7
          \/ doing[c] \in {"armed", "cut over"} /\ phase' \in {8, 9}
      <4>1. \/ doing[c] = "repo done" /\ phase' = RepoTransferred
            \/ doing[c] = "preferences" /\ phase' = PreferencesTransferred
            \/ doing[c] = "reconciled" /\ phase' = Verified
            \/ doing[c] = "armed" /\ phase' = IdentityArmed
            \/ doing[c] = "cut over" /\ phase' = Finalized
        BY <2>4, SavesEffect
      <4> QED BY <4>1
    <3>2. CASE phase' \in {4, 6}
      <4>1. ~(phase' >= 7) /\ ~(phase' >= 8)
        BY <3>2
      <4> QED BY <1>g, <1>s, <2>0, <3>1, <4>1 DEF SlotInv
    <3>3. CASE doing[c] \in {"reconciled", "armed", "cut over"}
      <4>1. to[c] = dest /\ to[c] \in imported
        BY <2>0, <3>3 DEF Before, OrderInv, Own, Found, Cloned, Cutover
      <4>2. doing[c] \in {"armed", "cut over"} => ArmedFor(dest)
        BY <2>0, <4>1 DEF Before, OrderInv, Own, Cutover
      <4>3. phase' >= 8 => doing[c] \in {"armed", "cut over"}
        <5>1. phase' \in {4, 6} => ~(phase' >= 8)
          OBVIOUS
        <5>2. phase' = 7 => ~(phase' >= 8)
          OBVIOUS
        <5> QED BY <3>p, <5>1, <5>2
      <4>4. phase' >= 8 => ArmedFor(dest)'
        BY <1>g, <2>0, <3>1, <4>2, <4>3 DEF leg, ArmedFor
      <4> QED BY <1>g, <1>s, <2>0, <3>1, <4>1, <4>4 DEF SlotInv
    <3> QED BY <3>p, <3>2, <3>3
  <2> QED BY <1>4, <2>1, <2>2, <2>3, <2>4 DEF Records
<1>5. ASSUME NEW c \in Commands, Act(c), UNCHANGED slot PROVE SlotInv'
  <2>1. ArmedFor(dest) => legHost' = dest \/ (legHost' = NoHost /\ dest \in named')
    BY <1>5, ArmedStays DEF ArmedFor
  <2> QED BY <1>5, <1>g, <1>s, <2>1 DEF slot, SlotInv, ArmedFor
<1> QED BY <1>1, <1>2, <1>3, <1>4, <1>5, StepKinds, SlotMoves DEF Before

\* The leg: what is parked in it was built for it.
LEMMA LegStep == ASSUME Before PROVE LegInv'
<1>g. named \subseteq named' /\ known \subseteq known'
  BY Grow DEF Before
<1>l. LegInv
  BY DEF Before, OrderInv
<1>1. named' \subseteq known'
  <2>1. ASSUME NEW h \in named', h \notin named PROVE h \in known
    <3>1. PICK n \in 1..Len(log') : log'[n] = h
      BY <2>1 DEF named
    <3>2. PICK c \in Commands : doing[c] = "submit" /\ log' = Append(log, op[c].host)
      <4>1. log' # log
        BY <2>1 DEF named
      <4> QED BY <4>1, StepKinds, LogMoves DEF Before, Kill, core
    <3>3. h = op[c].host
      <4>1. log \in Seq(Hosts) /\ op[c].host \in Hosts
        BY <3>2 DEF Before, MigrationTypeOK, HostsTyped, RunTyped
      <4>2. CASE n \in 1..Len(log)
        <5>1. log'[n] = log[n] /\ log[n] \in Hosts
          BY <3>2, <4>1, <4>2
        <5> QED BY <2>1, <3>1, <4>2, <5>1 DEF named
      <4>3. CASE n \notin 1..Len(log)
        BY <3>1, <3>2, <4>1, <4>3
      <4> QED BY <4>2, <4>3
    <3> QED BY <3>2, <3>3 DEF Before, OrderInv, Found
  <2> QED BY <1>g, <1>l, <2>1 DEF LegInv
<1>2. /\ legHost' # NoHost => legHost' \in known'
      /\ legOp' # NoOp => legOp'.host = legHost'
  <2>1. ASSUME NEW c \in Commands, Act(c)
        PROVE  /\ legHost' # NoHost => legHost' \in known
               /\ legOp' # NoOp => legOp'.host = legHost'
    <3>1. doing[c] = "arm" => to[c] \in known
      BY DEF Before, OrderInv, Found, Cloned
    <3> QED BY <1>l, <2>1, <3>1, LegMoves DEF LegInv, leg, Before
  <2>2. CASE Kill
    <3>1. legHost' = NoHost /\ legOp' = NoOp
      BY <2>2 DEF Kill
    <3> QED BY <3>1
  <2>3. CASE UNCHANGED core
    BY <1>g, <1>l, <2>3 DEF LegInv, leg, core
  <2> QED BY <1>g, <2>1, <2>2, <2>3, StepKinds DEF Before
<1> QED BY <1>1, <1>2 DEF LegInv

\* A command of the migration in the slot keeps working for its destination.
LEMMA OwnStep == ASSUME Before, NEW b \in Commands PROVE Own(b)'
<1>g. /\ named \subseteq named' /\ precedes \subseteq precedes' /\ known \subseteq known'
  BY Grow DEF Before
<1>1. CASE Kill
  <2>1. doing'[b] = "idle"
    BY <1>1 DEF Kill
  <2> QED BY <2>1 DEF Own, Cloned, Cutover
<1>2. CASE UNCHANGED core
  BY <1>2, <1>g DEF core, slot, leg, clones, Own, ArmedFor, Before, OrderInv
<1>3. ASSUME NEW c \in Commands, Prepare(c) PROVE Own(b)'
  <2>1. late'[b] \/ doing'[b] \in {"idle", "prepare"}
    BY <1>3 DEF Prepare, Before, MigrationTypeOK
  <2> QED BY <2>1 DEF Own, Cloned, Cutover
<1>4. ASSUME NEW c \in Commands, Act(c), ~Prepare(c) PROVE Own(b)'
  <2>k. UNCHANGED <<source, dest>> /\ (phase # 0 => phase' # 0)
    BY <1>4, DestinationKept
  <2>a. ArmedFor(dest) => legHost' = dest \/ (legHost' = NoHost /\ dest \in named')
    BY <1>4, ArmedStays DEF ArmedFor
  <2>o. Own(b)
    BY DEF Before, OrderInv
  <2>1. CASE b # c
    <3>1. /\ doing'[b] = doing[b] /\ to'[b] = to[b] /\ late'[b] = late[b]
      BY <1>4, <2>1, OthersKept DEF Before
    <3>2. SUFFICES ASSUME ~late[b] PROVE Own(b)'
      BY <3>1 DEF Own
    <3>3. /\ doing[b] \in {"create"} \cup Cloned => to[b] = dest
          /\ doing[b] \in {"create", "created"} => phase # 0
          /\ doing[b] = "created" => <<source, dest>> \in precedes
      BY <2>o, <3>2 DEF Own
    <3>4. doing[b] \in {"armed"} \cup Cutover =>
            legHost' = to[b] \/ (legHost' = NoHost /\ to[b] \in named')
      BY <2>o, <2>a, <3>2, <3>3 DEF Own, Cloned
    <3> QED BY <1>g, <2>k, <3>1, <3>3, <3>4 DEF Own, ArmedFor
  <2>2. CASE b = c
    <3>s. phase # 0 => SlotInv /\ source \in named /\ dstClient \in {NoHost, dest}
      BY DEF Before, OrderInv, SlotInv
    <3>1. CASE doing'[c] = "idle"
      BY <2>2, <3>1 DEF Own, Cloned, Cutover
    <3>2. CASE Begins(c)
      <4>1. doing'[c] = "created" => dest \in known /\ <<source, dest>> \in precedes
                                     /\ to'[c] = dest
        BY <3>2, <3>s DEF Begins, SlotInv
      <4> QED BY <1>g, <2>2, <2>k, <3>2, <4>1 DEF Begins, Own, Cloned, Cutover
    <3>3. CASE Clones(c)
      <4>1. to'[c] = dest /\ dest' = dest
        BY <2>k, <3>3, <3>s DEF Clones
      <4>2. doing'[c] = "finalize" => ArmedFor(dest)
        BY <3>3, <3>s DEF Clones, SlotInv
      <4>3. doing'[c] \in {"repo", "blobs", "preferences", "verify", "arm", "finalize"}
        BY <3>3 DEF Clones
      <4> QED BY <2>2, <2>a, <4>1, <4>2, <4>3 DEF Own, ArmedFor, Cloned, Cutover
    <3>4. CASE late'[c] = late[c] /\ Proceeds(c)
      <4>0. SUFFICES ASSUME ~late[c] PROVE Own(c)'
        BY <2>2, <3>4 DEF Own
      <4>1. /\ doing[c] \in {"create"} \cup Cloned /\ to'[c] = to[c]
            /\ doing'[c] \in Cloned
        BY <3>4 DEF Proceeds, Cloned, Cutover
      <4>2. to[c] = dest
        BY <2>2, <2>o, <4>0, <4>1 DEF Own
      <4>3. doing'[c] = "created" => /\ phase' # 0 /\ <<source, dest>> \in precedes'
        <5> SUFFICES ASSUME doing'[c] = "created"
                     PROVE  phase' # 0 /\ <<source, dest>> \in precedes'
          OBVIOUS
        <5>1. doing[c] = "create" /\ account[to[c]] = "none"
          BY <3>4 DEF Proceeds
        <5>2. phase # 0
          BY <2>2, <2>o, <4>0, <5>1 DEF Own
        <5>3. dest \notin named /\ dest \in Hosts
          BY <4>2, <5>1, <5>2 DEF Before, OrderInv, LegInv, known, HostsTyped
        <5> QED BY <1>g, <2>k, <3>s, <5>2, <5>3, NewIsLater
      <4>4. doing'[c] \in {"armed"} \cup Cutover =>
              legHost' = dest \/ (legHost' = NoHost /\ dest \in named')
        <5>1. CASE doing[c] = "arm" /\ legHost' = to[c]
          BY <4>2, <5>1
        <5>2. CASE doing[c] \in Cutover
          BY <2>2, <2>o, <2>a, <4>0, <4>2, <5>2 DEF Own
        <5> QED BY <3>4, <5>1, <5>2 DEF Proceeds, Cutover
      <4> QED BY <2>k, <4>1, <4>2, <4>3, <4>4 DEF Own, ArmedFor, Cloned, Cutover
    <3>5. CASE Moves(c)
      BY <2>2, <3>5 DEF Moves, Own, Cloned, Cutover
    <3> QED BY <1>4, <3>1, <3>2, <3>3, <3>4, <3>5, Progress DEF Before
  <2> QED BY <2>1, <2>2
<1> QED BY <1>1, <1>2, <1>3, <1>4, StepKinds DEF Before

\* An operation that landed names its host in the directory's log.
LEMMA LandedNames ==
  ASSUME MigrationTypeOK, NEW c \in Commands, op[c].host \in Hosts,
         \/ Landed(op[c]) \/ log' = Append(log, op[c].host)
  PROVE  op[c].host \in named \cup named'
<1>1. log \in Seq(Hosts) /\ op[c].prev \in Nat
  BY DEF MigrationTypeOK
<1>2. CASE Landed(op[c])
  <2>1. op[c].prev + 1 \in 1..Len(log) /\ log[op[c].prev + 1] = op[c].host
    BY <1>1, <1>2 DEF Landed
  <2> QED BY <2>1 DEF named
<1>3. CASE log' = Append(log, op[c].host)
  <2>1. Len(log) + 1 \in 1..Len(log') /\ log'[Len(log) + 1] = op[c].host
    BY <1>1, <1>3
  <2> QED BY <2>1 DEF named
<1> QED BY <1>2, <1>3

\* What a command found out stays true, and every step finds out what it needs.
LEMMA FoundStep == ASSUME Before, NEW b \in Commands PROVE Found(b)'
<1>g. /\ named \subseteq named' /\ precedes \subseteq precedes'
      /\ imported \subseteq imported' /\ known \subseteq known' /\ waived \subseteq waived'
  BY Grow DEF Before
<1>f. Found(b) /\ RunTyped(b)
  BY DEF Before, OrderInv, HostsTyped
<1>1. CASE Kill
  <2>1. doing'[b] = "idle"
    BY <1>1 DEF Kill
  <2> QED BY <2>1 DEF Found, Cloned, Cutover
<1>2. CASE UNCHANGED core
  BY <1>2, <1>f, <1>g DEF core, clones, Found
<1>3. ASSUME NEW c \in Commands, Act(c), b # c PROVE Found(b)'
  <2>1. /\ doing'[b] = doing[b] /\ from'[b] = from[b] /\ to'[b] = to[b]
        /\ op'[b] = op[b] /\ lossy'[b] = lossy[b]
    BY <1>3, OthersKept DEF Before
  <2> QED BY <1>f, <1>g, <2>1 DEF Found
<1>4. ASSUME Act(b) PROVE Found(b)'
  <2>s. SlotInv
    BY DEF Before, OrderInv
  <2>1. CASE doing'[b] = "idle"
    BY <2>1 DEF Found, Cloned, Cutover
  <2>2. CASE Begins(b)
    <3>1. home \in named
      <4>1. log \in Seq(Hosts) /\ log # <<>>
        BY DEF Before, MigrationTypeOK, HostsTyped
      <4>2. Len(log) \in 1..Len(log) /\ home \in Hosts
        BY <4>1 DEF home
      <4> QED BY <4>2 DEF home, named
    <3>2. phase # 0 /\ dstClient # NoHost => dstClient \in known
      BY <2>s DEF SlotInv
    <3> QED BY <1>g, <2>2, <3>1, <3>2 DEF Begins, Found, Cloned, Cutover
  <2>3. CASE Clones(b)
    <3>1. /\ to'[b] = dest /\ dest \in known /\ <<source, dest>> \in precedes
          /\ lossy'[b] => dest \in waived
          /\ doing'[b] = "arm" => dest \in imported
          /\ doing'[b] = "finalize" => dest \in imported /\ from'[b] = source
      BY <2>s, <2>3 DEF Clones, SlotInv, Before, MigrationTypeOK, Verified, IdentityArmed,
         Finalized
    <3>2. doing'[b] \in {"repo", "blobs", "preferences", "verify", "arm", "finalize"}
      BY <2>3 DEF Clones
    <3> QED BY <1>g, <3>1, <3>2 DEF Found, Cloned, Cutover
  <2>4. CASE Proceeds(b)
    <3>1. from'[b] = from[b] /\ to'[b] = to[b]
      BY <2>4 DEF Proceeds
    <3>2. CASE doing[b] = "create"
      <4>1. doing'[b] = "created" /\ account' = [account EXCEPT ![to[b]] = "deactivated"]
            /\ to[b] \in Hosts
        BY <1>f, <2>4, <3>2 DEF Proceeds, RunTyped, Cutover
      <4>2. to[b] \in known'
        BY <4>1 DEF known, Before, MigrationTypeOK
      <4> QED BY <3>1, <4>1, <4>2 DEF Found, Cloned, Cutover
    <3>3. CASE doing[b] = "repo" \/ doing[b] = "blobs"
      BY <1>f, <1>g, <2>4, <3>1, <3>3 DEF Proceeds, Found, Cloned, Cutover
    <3>4. CASE doing[b] = "verify"
      <4>1. doing'[b] = "reconciled" /\ ImportReconciles(to[b], lossy[b])
        BY <2>4, <3>4 DEF Proceeds
      <4>2. lossy[b] \in BOOLEAN /\ to[b] \in known /\ (lossy[b] => to[b] \in waived)
        BY <1>f, <3>4 DEF Found, Cloned, Before, MigrationTypeOK
      <4>3. to[b] \in imported
        BY <4>1, <4>2 DEF ImportReconciles, imported
      <4> QED BY <1>g, <3>1, <4>1, <4>2, <4>3 DEF Found, Cloned, Cutover
    <3>5. CASE doing[b] = "arm"
      BY <1>f, <1>g, <2>4, <3>1, <3>5 DEF Proceeds, Found, Cloned, Cutover
    <3>6. CASE doing[b] = "finalize"
      <4>1. doing'[b] = "activate" /\ legHost = NoHost /\ ~late[b]
        BY <2>4, <3>6 DEF Proceeds, Before
      <4>2. ArmedFor(to[b]) /\ to[b] \in Hosts
        BY <1>f, <3>6, <4>1 DEF Before, OrderInv, Own, Cutover, RunTyped, Cloned
      <4>3. to[b] \in named
        BY <4>1, <4>2 DEF ArmedFor, Before, MigrationAssumption
      <4> QED BY <1>f, <1>g, <3>1, <3>6, <4>1, <4>3 DEF Found, Cloned, Cutover
    <3>7. CASE doing[b] \in {"activate", "persist", "deactivate"}
      <4>1. doing'[b] \in {"persist", "deactivate", "cut over"}
        BY <2>4, <3>7 DEF Proceeds
      <4> QED BY <1>f, <1>g, <3>1, <3>7, <4>1 DEF Found, Cloned, Cutover
    <3> QED BY <2>4, <3>2, <3>3, <3>4, <3>5, <3>6, <3>7 DEF Proceeds
  <2>5. CASE Moves(b)
    <3>1. CASE doing'[b] = "build" /\ op'[b].host = legHost /\ legHost # NoHost
      BY <1>g, <3>1 DEF Found, Cloned, Cutover, Before, OrderInv, LegInv
    <3>2. CASE doing'[b] = "submit" /\ op'[b] = legOp /\ legHost # NoHost /\ legOp # NoOp
      BY <1>g, <3>2 DEF Found, Cloned, Cutover, Before, OrderInv, LegInv
    <3>3. CASE /\ doing[b] = "submit" /\ doing'[b] = "submitted" /\ op'[b] = op[b]
               /\ Landed(op[b]) \/ log' = Append(log, op[b].host)
      <4>1. op[b].host \in named'
        BY <1>f, <1>g, <3>3, LandedNames DEF RunTyped, Before
      <4> QED BY <3>3, <4>1 DEF Found, Cloned, Cutover
    <3> QED BY <2>5, <3>1, <3>2, <3>3 DEF Moves
  <2> QED BY <1>4, <2>1, <2>2, <2>3, <2>4, <2>5, Progress DEF Before
<1> QED BY <1>1, <1>2, <1>3, <1>4, StepKinds DEF Before

\* A host is activated by a command that found it imported and named.
LEMMA ActiveStep == ASSUME Before PROVE ActiveInv'
<1>g. named \subseteq named' /\ imported \subseteq imported'
  BY Grow DEF Before
<1> SUFFICES ASSUME NEW h \in Hosts \ {Origin}, account'[h] = "active"
             PROVE  h \in named' \cap imported'
  BY DEF ActiveInv
<1>1. CASE account[h] = "active"
  BY <1>g, <1>1 DEF Before, OrderInv, ActiveInv
<1>2. CASE account[h] # "active"
  <2>1. PICK c \in Commands : Act(c)
    BY <1>2, StepKinds DEF Before, Kill, core, hosts
  <2>2. doing[c] = "activate" /\ h = to[c]
    BY <1>2, <2>1, AccountMoves DEF Before, MigrationTypeOK
  <2> QED BY <1>g, <2>2 DEF Before, OrderInv, Found, Cutover
<1> QED BY <1>1, <1>2

\* The host that serves is not the one a command deactivates: that one comes
\* before the host the command has activated.
LEMMA ServesStep == ASSUME Before PROVE ServesInv'
<1>a. account \in [Hosts -> {"none", "active", "deactivated"}]
  BY DEF Before, MigrationTypeOK
<1>f. \A c \in Commands : Found(c) /\ RunTyped(c)
  BY DEF Before, OrderInv, HostsTyped
<1>0. PICK h \in Hosts : Serves(h)
  BY DEF Before, OrderInv, ServesInv
<1>1. CASE Kill
  <2>1. account' = account /\ \A c \in Commands : doing'[c] = "idle"
    BY <1>1 DEF Kill, hosts
  <2> QED BY <1>0, <2>1 DEF Serves, ServesInv
<1>l. \A b \in named : <<h, b>> \notin precedes => <<h, b>> \notin precedes'
  BY Settled DEF Before
<1>n. \A c \in Commands : doing[c] \in {"activate", "persist", "deactivate"} =>
        to[c] \in named /\ <<from[c], to[c]>> \in precedes
  BY <1>f DEF Found, Cutover
<1>2. CASE UNCHANGED core
  <2>1. UNCHANGED <<account, doing, to, log>>
    BY <1>2 DEF core, hosts, clones
  <2> QED BY <1>0, <2>1 DEF Serves, ServesInv, precedes
<1>3. ASSUME NEW c \in Commands, Act(c) PROVE ServesInv'
  <2>1. ASSUME NEW b \in Commands, b # c, doing'[b] \in {"persist", "deactivate"}
        PROVE  <<h, to'[b]>> \notin precedes'
    <3>1. doing'[b] = doing[b] /\ to'[b] = to[b]
      BY <1>3, <2>1, OthersKept DEF Before
    <3> QED BY <1>0, <1>l, <1>n, <2>1, <3>1 DEF Serves
  <2>2. CASE doing[c] \notin {"activate", "deactivate"}
    <3>1. account'[h] = "active"
      BY <1>0, <1>3, <1>a, <2>2, AccountMoves DEF Serves
    <3>2. doing'[c] \in {"persist", "deactivate"} => doing[c] = "persist" /\ to'[c] = to[c]
      BY <1>3, <2>2, Progress DEF Before, Begins, Clones, Proceeds, Moves
    <3>3. doing'[c] \in {"persist", "deactivate"} => <<h, to'[c]>> \notin precedes'
      BY <1>0, <1>l, <1>n, <3>2 DEF Serves
    <3> QED BY <2>1, <3>1, <3>3 DEF Serves, ServesInv
  <2>3. CASE doing[c] = "deactivate"
    <3>1. from[c] # h
      BY <1>0, <1>n, <2>3 DEF Serves
    <3>2. account'[h] = "active"
      <4>1. CASE UNCHANGED account
        BY <1>0, <4>1 DEF Serves
      <4>2. CASE account' = [account EXCEPT ![from[c]] = "deactivated"]
        BY <1>0, <1>a, <3>1, <4>2 DEF Serves
      <4> QED BY <1>3, <2>3, <4>1, <4>2, AccountMoves
    <3>3. doing'[c] \notin {"persist", "deactivate"}
      BY <1>3, <2>3, Progress DEF Before, Begins, Clones, Proceeds, Moves
    <3> QED BY <2>1, <3>2, <3>3 DEF Serves, ServesInv
  <2>4. CASE doing[c] = "activate"
    <3>0. Activate(c) \/ Fail(c)
      <4>1. doing[c] = "activate" /\ doing[c] # "idle"
        BY <2>4
      <4> QED BY <1>3, <4>1, Acts DEF Prepare, Resolve, Login, StartCreate, CreateAccount,
              Starts, StartRepo, StartBlobs, StartPreferences, StartVerify, StartArm,
              StartFinalize, Gate, Records, Authenticate, StoreDestination, StoreDrain, Saves,
              Save, ImportRepo, Drain, Verify, Arm, Build, ParkOp, StartSubmit, SubmitOp,
              ClearLeg, CheckSubmitted, Persist, Deactivate
    <3>1. CASE Fail(c)
      <4>1. account' = account /\ doing'[c] = "idle"
        BY <3>1 DEF Fail, Return, Go, hosts, Before, MigrationTypeOK
      <4>2. account'[h] = "active"
        BY <1>0, <4>1 DEF Serves
      <4> QED BY <2>1, <4>1, <4>2 DEF Serves, ServesInv
    <3>2. CASE /\ doing' = [doing EXCEPT ![c] = "persist"]
               /\ account' = [account EXCEPT ![to[c]] = "active"]
               /\ UNCHANGED <<from, to, log>>
      <4>0. to[c] \in Hosts /\ account'[to[c]] = "active" /\ precedes' = precedes
        BY <1>a, <1>f, <2>4, <3>2 DEF RunTyped, Cutover, Cloned, precedes
      <4>1. account'[h] = "active"
        BY <1>0, <1>a, <3>2 DEF Serves
      <4>2. CASE <<h, to[c]>> \notin precedes
        <5>1. \A b \in Commands : doing'[b] \in {"persist", "deactivate"} =>
                <<h, to'[b]>> \notin precedes'
          BY <2>1, <3>2, <4>0, <4>2
        <5> QED BY <4>1, <5>1 DEF Serves, ServesInv
      <4>3. CASE <<h, to[c]>> \in precedes
        <5>1. ASSUME NEW b \in Commands, doing'[b] \in {"persist", "deactivate"}
              PROVE  <<to[c], to'[b]>> \notin precedes'
          <6>1. CASE b = c
            BY <3>2, <4>0, <6>1 DEF precedes
          <6>2. CASE b # c
            <7>1. <<h, to[b]>> \notin precedes
              BY <2>1, <3>2, <4>0, <5>1, <6>2
            <7> QED BY <3>2, <4>0, <4>3, <7>1, Ordered
          <6> QED BY <6>1, <6>2
        <5>2. \E g \in Hosts : /\ account'[g] = "active"
                               /\ \A b \in Commands : doing'[b] \in {"persist", "deactivate"} =>
                                    <<g, to'[b]>> \notin precedes'
          BY <4>0, <5>1
        <5> QED BY <5>2 DEF Serves, ServesInv
      <4> QED BY <4>2, <4>3
    <3>3. Activate(c) => /\ doing' = [doing EXCEPT ![c] = "persist"]
                         /\ account' = [account EXCEPT ![to[c]] = "active"]
                         /\ UNCHANGED <<from, to, log>>
      BY DEF Activate, ActivateDestination, Go, clones
    <3> QED BY <3>0, <3>1, <3>2, <3>3
  <2> QED BY <2>2, <2>3, <2>4
<1> QED BY <1>1, <1>2, <1>3, StepKinds DEF Before

-----------------------------------------------------------------------------
(* The invariant.                                                          *)

\* In the beginning the slot and the leg are empty, and the origin serves.
LEMMA InitInv == ASSUME MigrationAssumption, MigrationInit PROVE IInv
<1>1. MigrationTypeOK
  <2>1. NoOp \in [prev : 0..MaxMoves, host : Clients]
    BY DEF MigrationAssumption, NoOp, Clients
  <2>2. /\ legOp \in [prev : 0..MaxMoves, host : Clients]
        /\ op \in [Commands -> [prev : 0..MaxMoves, host : Clients]]
    BY <2>1 DEF MigrationInit
  <2>3. log \in Seq(Hosts)
    BY DEF MigrationAssumption, MigrationInit
  <2>4. account \in [Hosts -> {"none", "active", "deactivated"}]
    BY DEF MigrationInit
  <2>5. doing \in [Commands -> Steps]
    BY DEF MigrationInit, Steps
  <2>6. /\ from \in [Commands -> Clients] /\ to \in [Commands -> Clients]
        /\ lossy \in [Commands -> BOOLEAN] /\ late \in [Commands -> BOOLEAN]
    BY DEF MigrationInit, Clients
  <2>7. /\ source \in Clients /\ dest \in Clients /\ srcClient \in Clients
        /\ dstClient \in Clients /\ legHost \in Clients /\ record \in Clients
    BY DEF MigrationInit, Clients
  <2>8. phase \in 0..Finalized
    BY DEF MigrationInit, Finalized
  <2>9. loss \in BOOLEAN /\ crossed \in BOOLEAN
    BY DEF MigrationInit
  <2>10. repoAt \subseteq Hosts /\ blobAt \subseteq Hosts /\ waived \subseteq Hosts
    BY DEF MigrationAssumption, MigrationInit
  <2> QED BY <2>2, <2>3, <2>4, <2>5, <2>6, <2>7, <2>10, <2>8, <2>9
          DEF MigrationTypeOK
<1>2. HostsTyped
  BY DEF MigrationAssumption, MigrationInit, HostsTyped, RunTyped, Cloned, Cutover
<1>3. SlotInv /\ \A c \in Commands : Own(c) /\ Found(c)
  BY DEF MigrationInit, SlotInv, Own, Found, Cloned, Cutover
<1>4. LegInv
  <2>1. named \subseteq {Origin}
    BY DEF MigrationInit, named
  <2> QED BY <2>1 DEF MigrationAssumption, MigrationInit, LegInv, known
<1>5. ActiveInv /\ ServesInv
  <2>1. \A h \in Hosts : account[h] = "active" <=> h = Origin
    BY DEF MigrationInit
  <2> QED BY <2>1 DEF MigrationAssumption, MigrationInit, ActiveInv, ServesInv, Serves
<1> QED BY <1>1, <1>2, <1>3, <1>4, <1>5 DEF IInv, OrderInv

LEMMA NextInv == ASSUME MigrationAssumption, IInv, [MigrationNext]_migrateVars PROVE IInv'
<1>1. MigrationTypeOK' /\ HostsTyped'
  BY TypeStep, HostsStep DEF IInv
<1>2. CASE crossed'
  BY <1>1, <1>2 DEF IInv
<1>3. CASE ~crossed'
  <2>1. Before
    BY <1>3, Grow DEF Before, IInv
  <2>2. SlotInv' /\ LegInv' /\ ActiveInv' /\ ServesInv'
    BY <2>1, SlotStep, LegStep, ActiveStep, ServesStep
  <2>3. \A c \in Commands : Own(c)' /\ Found(c)'
    BY <2>1, OwnStep, FoundStep
  <2> QED BY <1>1, <2>2, <2>3 DEF IInv, OrderInv
<1> QED BY <1>2, <1>3

LEMMA MigrationInv == ASSUME MigrationAssumption PROVE MigrationSpec => []IInv
<1>1. MigrationInit => IInv
  BY InitInv
<1>2. IInv /\ [MigrationNext]_migrateVars => IInv'
  BY NextInv
<1> QED BY <1>1, <1>2, PTL DEF MigrationSpec

\* The slot, the leg, the commands and the hosts keep their types under every
\* step of the wallet.
THEOREM MigrationTypeCorrect ==
  ASSUME MigrationAssumption PROVE MigrationSpec => []MigrationTypeOK
<1>1. IInv => MigrationTypeOK
  BY DEF IInv
<1> QED BY <1>1, MigrationInv, PTL

\* Overlapping commands, lost answers and killed apps never leave every account
\* of the identity deactivated (the activation and the deactivation of
\* finalize_migration), unless a command crossed into another migration.
THEOREM SomeHostAlwaysServes ==
  ASSUME MigrationAssumption PROVE MigrationSpec => []SomeHostServes
<1>1. IInv => SomeHostServes
  <2> SUFFICES ASSUME IInv, ~crossed PROVE \E h \in Hosts : account[h] = "active"
    BY DEF SomeHostServes
  <2>1. ServesInv
    BY DEF IInv, OrderInv
  <2> QED BY <2>1 DEF ServesInv, Serves
<1> QED BY <1>1, MigrationInv, PTL

\* finalize_migration activates a destination only once the directory named it
\* and its import was verified, unless a command crossed into another migration.
THEOREM CutoverIsInOrder ==
  ASSUME MigrationAssumption PROVE MigrationSpec => []CutoverInOrder
<1>1. IInv => CutoverInOrder
  <2> SUFFICES ASSUME IInv, ~crossed, NEW h \in Hosts \ {Origin}, account[h] = "active"
               PROVE  /\ \E n \in 1..Len(log) : log[n] = h
                      /\ h \in repoAt /\ (h \in blobAt \/ h \in waived)
    BY DEF CutoverInOrder
  <2>1. h \in named /\ h \in imported
    BY DEF IInv, OrderInv, ActiveInv
  <2> QED BY <2>1 DEF named, imported
<1> QED BY <1>1, MigrationInv, PTL
=============================================================================
