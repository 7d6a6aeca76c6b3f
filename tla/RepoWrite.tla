----------------------------- MODULE RepoWrite -----------------------------
(***************************************************************************)
(* The repository of one account: its root, block store, record count and  *)
(* lifecycle status, changed by record writes (createRecord, putRecord,    *)
(* deleteRecord, applyWrites), importRepo, activateAccount,                *)
(* deactivateAccount and updateSubjectStatus.                              *)
(*                                                                         *)
(* A commit is its revision number; tree[c] is the set of record keys it   *)
(* holds.  Its blocks are the commit itself, which stands for the commit   *)
(* and tree nodes, and one block per record.  Of the durable event log     *)
(* only what a consumer concludes from it is kept: the last head it was    *)
(* told and the last active flag.  Sequencing is the subject of Firehose.  *)
(***************************************************************************)
EXTENDS Naturals, FiniteSets

CONSTANTS
  Writers,     \* concurrent record-write requests
  Importers,   \* concurrent importRepo requests
  Activators,  \* concurrent activateAccount requests
  Keys,        \* record keys
  NoOne,       \* the free repo write lock
  NoCount,     \* SQL NULL in record_count
  Moderation,  \* whether moderators take the account down and restore it
  MaxRev,      \* bound: commits made or imported
  MaxLosses    \* bound: tree edits that silently drop keys

ASSUME RepoWriteAssumption ==
  /\ NoOne \notin Writers
  /\ NoCount \notin Nat
  /\ Moderation \in BOOLEAN
  /\ MaxRev \in Nat \ {0}
  /\ MaxLosses \in Nat
  /\ Keys \cap Nat = {}
  /\ IsFiniteSet(Keys)

VARIABLES
  root,        \* accounts.repo_root_cid, 0 when NULL
  count,       \* accounts.record_count
  deactivated, \* accounts.deactivated_at IS NOT NULL
  takenDown,   \* accounts.taken_down_at IS NOT NULL
  blocks,      \* block_owners of the account
  tree,        \* the record keys of each commit
  revs,        \* commits that exist anywhere
  told,        \* head asserted by the last #commit or #sync event
  announced,   \* active flag of the last #account event
  losses,      \* faulty tree edits so far
  lock,        \* holder of the account's RepoWriteLocks entry
  pc,          \* progress of each writer
  base, new,   \* the root a writer read; the commit it made
  want,        \* the record keys its operations ask for
  counted,     \* new_count of commit_repo_write
  keep,        \* gc_keep, {} for None
  car,         \* whether the diff CAR was built
  garbage,     \* rows selected by delete_unreachable_blocks
  ipc, observed, target,  \* importRepo: progress, observed_root, CAR root
  apc, sync    \* activateAccount: progress, head of the #sync input

account == <<root, count, deactivated, takenDown>>
store   == <<blocks, tree, revs, losses>>
stream  == <<told, announced>>
wvars   == <<lock, pc, base, new, want, counted, keep, car, garbage>>
ivars   == <<ipc, observed, target>>
avars   == <<apc, sync>>
vars    == <<account, store, stream, wvars, ivars, avars>>

Revs == 1..MaxRev

\* AccountLifecycle::is_active.
Active == ~deactivated /\ ~takenDown

\* collect_reachable_cids.
Reach(c) == IF c = 0 THEN {} ELSE {c} \cup tree[c]

-----------------------------------------------------------------------------
\* An account with its genesis commit, or a migration target without a repo.
Init ==
  /\ \E fresh \in BOOLEAN :
       /\ root = IF fresh THEN 0 ELSE 1
       /\ deactivated = fresh
       /\ blocks = IF fresh THEN {} ELSE {1}
       /\ revs = root /\ told = root
       /\ announced = ~fresh
  /\ count = NoCount /\ takenDown = FALSE
  /\ tree = [c \in Revs |-> {}]
  /\ losses = 0
  /\ lock = NoOne
  /\ pc = [w \in Writers |-> "idle"]
  /\ base = [w \in Writers |-> 0] /\ new = [w \in Writers |-> 0]
  /\ want = [w \in Writers |-> {}]
  /\ counted = [w \in Writers |-> NoCount]
  /\ keep = [w \in Writers |-> {}] /\ car = [w \in Writers |-> FALSE]
  /\ garbage = [w \in Writers |-> {}]
  /\ ipc = [i \in Importers |-> "idle"]
  /\ observed = [i \in Importers |-> 0] /\ target = [i \in Importers |-> 0]
  /\ apc = [a \in Activators |-> "idle"] /\ sync = [a \in Activators |-> 0]

-----------------------------------------------------------------------------
(* Record writes.                                                          *)

\* The request reaches the lock ...
Request(w) ==
  /\ pc[w] = "idle"
  /\ pc' = [pc EXCEPT ![w] = "waiting"]
  /\ UNCHANGED <<account, store, stream, lock, base, new, want, counted, keep, car,
                 garbage, ivars, avars>>

Enter(w) ==
  /\ pc[w] = "waiting"
  /\ lock' = w
  /\ pc' = [pc EXCEPT ![w] = "locked"]
  /\ UNCHANGED <<account, store, stream, base, new, want, counted, keep, car, garbage,
                 ivars, avars>>

\* Fault: nothing serialises the writers.
LockNothing(w) == Enter(w)

\* ... and acquires it before it reads anything of the repository.
Lock(w) == lock = NoOne /\ Enter(w)

\* get_repo_write_state and Repository::open.
Open(w) ==
  /\ pc[w] = "locked"
  /\ Active /\ root # 0 /\ root \in blocks
  /\ base' = [base EXCEPT ![w] = root]
  /\ pc' = [pc EXCEPT ![w] = "open"]
  /\ UNCHANGED <<account, store, stream, lock, new, want, counted, keep, car, garbage,
                 ivars, avars>>

\* The engine applies the operations and signs a commit; every new block is
\* durable at once.  A faulty edit of the tree keeps only some of the keys.
Put(w, keys, got) ==
  /\ pc[w] = "open"
  /\ revs < MaxRev
  /\ got \subseteq keys
  /\ got # keys => losses < MaxLosses
  /\ losses' = IF got = keys THEN losses ELSE losses + 1
  /\ revs' = revs + 1
  /\ tree' = [tree EXCEPT ![revs + 1] = got]
  /\ blocks' = blocks \cup {revs + 1} \cup (keys \ tree[base[w]])
  /\ new' = [new EXCEPT ![w] = revs + 1]
  /\ want' = [want EXCEPT ![w] = keys]
  /\ pc' = [pc EXCEPT ![w] = "put"]
  /\ UNCHANGED <<account, stream, lock, base, counted, keep, car, garbage, ivars, avars>>

\* expected_delta: creates minus deletes.  Comparing n with count + delta, both
\* sides moved by what the base holds so that nothing is negative.
CountedDelta(w, n) == n + Cardinality(tree[base[w]])
ExpectedDelta(w) == count + Cardinality(want[w])

\* Fault: the check only notices surplus keys.
CountNoSurplus(w, n) ==
  count # NoCount /\ n # NoCount => CountedDelta(w, n) <= ExpectedDelta(w)

\* The integrity check: skipped when a count is unknown or the walk failed.
CountOk(w, n) ==
  count # NoCount /\ n # NoCount => CountedDelta(w, n) = ExpectedDelta(w)

\* The stored count is read, the new head walked and compared, and the block
\* diff and its CAR assembled, each best-effort, before the transaction.
Check(w, n, diff, built) ==
  /\ pc[w] = "put"
  /\ n \in {NoCount, Cardinality(tree[new[w]])}
  /\ CountOk(w, n)
  /\ diff => Reach(new[w]) \cup Reach(base[w]) \subseteq blocks
  /\ built => diff
  /\ counted' = [counted EXCEPT ![w] = n]
  /\ keep' = [keep EXCEPT ![w] = IF diff THEN Reach(new[w]) ELSE {}]
  /\ car' = [car EXCEPT ![w] = built]
  /\ pc' = [pc EXCEPT ![w] = "checked"]
  /\ UNCHANGED <<account, store, stream, lock, base, new, want, garbage, ivars, avars>>

\* Fault: the lifecycle was checked when the root was read, not again.
AdvanceAnyStatus(w) == root = base[w]

\* The WHERE clause of advance_repo_root_if_active.
AdvanceGuard(w) == root = base[w] /\ Active

\* One transaction moves the root and count and inserts the #commit event.
Commit(w) ==
  /\ pc[w] = "checked"
  /\ AdvanceGuard(w)
  /\ root' = new[w]
  /\ count' = counted[w]
  /\ told' = IF car[w] THEN new[w] ELSE told
  /\ pc' = [pc EXCEPT ![w] = "committed"]
  /\ UNCHANGED <<deactivated, takenDown, announced, store, lock, base, new, want, counted,
                 keep, car, garbage, ivars, avars>>

\* gc_repo_blocks: skipped unless the head is still the one just committed.
GcCheck(w) ==
  /\ pc[w] = "committed"
  /\ keep[w] # {} /\ root = new[w]
  /\ pc' = [pc EXCEPT ![w] = "gc"]
  /\ UNCHANGED <<account, store, stream, lock, base, new, want, counted, keep, car,
                 garbage, ivars, avars>>

GcCandidates(w, rows) ==
  /\ pc[w] = "gc"
  /\ garbage' = [garbage EXCEPT ![w] = rows \ keep[w]]
  /\ pc' = [pc EXCEPT ![w] = "selected"]
  /\ UNCHANGED <<account, store, stream, lock, base, new, want, counted, keep, car,
                 ivars, avars>>

\* Fault: only the superseded commit's blocks are candidates.
GcSelectPrevious(w) == GcCandidates(w, Reach(base[w]))

\* delete_unreachable_blocks: SELECT the owned rows outside the keep-set ...
GcSelect(w) == GcCandidates(w, blocks)

\* The handler's locals are dropped.
Return(w) ==
  /\ pc' = [pc EXCEPT ![w] = "idle"]
  /\ base' = [base EXCEPT ![w] = 0] /\ new' = [new EXCEPT ![w] = 0]
  /\ want' = [want EXCEPT ![w] = {}]
  /\ counted' = [counted EXCEPT ![w] = NoCount]
  /\ keep' = [keep EXCEPT ![w] = {}] /\ car' = [car EXCEPT ![w] = FALSE]
  /\ garbage' = [garbage EXCEPT ![w] = {}]

\* Fault: the lock outlives the handler.
ReturnLocked(w) == Return(w) /\ lock' = lock

\* The guard is one of the locals.
Release(w) == Return(w) /\ lock' = IF lock = w THEN NoOne ELSE lock

\* ... DELETE them, a chunk at a time ...
GcDelete(w, chunk) ==
  /\ pc[w] = "selected"
  /\ chunk # {}
  /\ blocks' = blocks \ chunk
  /\ garbage' = [garbage EXCEPT ![w] = @ \ chunk]
  /\ UNCHANGED <<account, tree, revs, losses, stream, lock, pc, base, new, want, counted,
                 keep, car, ivars, avars>>

\* ... and return.
GcDone(w) ==
  /\ pc[w] = "selected" /\ garbage[w] = {}
  /\ Release(w)
  /\ UNCHANGED <<account, store, stream, ivars, avars>>

\* The engine fails or is dropped with only some records stored and no commit.
PutFails(w, some) ==
  /\ pc[w] = "open"
  /\ blocks' = blocks \cup some
  /\ Release(w)
  /\ UNCHANGED <<account, tree, revs, losses, stream, ivars, avars>>

\* The handler returns or is dropped at any other await: a rejected
\* precondition, an operation that changes nothing, a failed check, a lost
\* compare-and-swap, a staging error (which rolls the root back), a skipped or
\* failed collection, a client that disconnects.  Blocks it wrote stay behind.
Abandon(w) ==
  /\ pc[w] # "idle"
  /\ Release(w)
  /\ UNCHANGED <<account, store, stream, ivars, avars>>

-----------------------------------------------------------------------------
(* importRepo.  It does not take the repo write lock.                      *)

\* The precondition read, and the CAR the client uploads: a commit this
\* server has seen before, or one made elsewhere.
ImportRead(i, c, keys) ==
  /\ ipc[i] = "idle"
  /\ ~Active
  /\ c \in 1..(revs + 1) \cap Revs
  /\ c # root
  /\ IF c <= revs
     THEN keys = tree[c] /\ UNCHANGED <<tree, revs>>
     ELSE tree' = [tree EXCEPT ![c] = keys] /\ revs' = c
  /\ observed' = [observed EXCEPT ![i] = root]
  /\ target' = [target EXCEPT ![i] = c]
  /\ ipc' = [ipc EXCEPT ![i] = "parsed"]
  /\ UNCHANGED <<account, blocks, losses, stream, wvars, avars>>

\* Fault: the observed root is not compared.
SwapAnyRoot(i) == deactivated /\ ~takenDown

\* The WHERE clause of swap_repo_root_for_deactivated.
SwapGuard(i) == root = observed[i] /\ deactivated /\ ~takenDown

\* Fault: the count of the replaced repository survives.
StaleCount == count

\* What the import's UPDATE stores as record_count.
ImportedCount == NoCount

\* The request's locals are dropped.
ImportReturn(i) ==
  /\ ipc' = [ipc EXCEPT ![i] = "idle"]
  /\ observed' = [observed EXCEPT ![i] = 0]
  /\ target' = [target EXCEPT ![i] = 0]

\* One transaction stores the blocks and moves the root; no event.
ImportSwap(i) ==
  /\ ipc[i] = "parsed"
  /\ SwapGuard(i)
  /\ blocks' = blocks \cup Reach(target[i])
  /\ root' = target[i]
  /\ count' = ImportedCount
  /\ ImportReturn(i)
  /\ UNCHANGED <<deactivated, takenDown, tree, revs, losses, stream, wvars, avars>>

\* The swap lost (409), or the request failed or was dropped.
ImportAbandon(i) ==
  /\ ipc[i] = "parsed"
  /\ ImportReturn(i)
  /\ UNCHANGED <<account, store, stream, wvars, avars>>

-----------------------------------------------------------------------------
(* Lifecycle.                                                              *)

\* build_activation_sync: the head as it is before the transaction; none when
\* there is no repository or its commit block cannot be read.
ActivateRead(a) ==
  /\ apc[a] = "idle"
  /\ \E head \in {0, root} :
       /\ head \in blocks \cup {0}
       /\ sync' = [sync EXCEPT ![a] = head]
  /\ apc' = [apc EXCEPT ![a] = "read"]
  /\ UNCHANGED <<account, store, stream, wvars, ivars>>

ActivateReturn(a) ==
  /\ apc' = [apc EXCEPT ![a] = "idle"]
  /\ sync' = [sync EXCEPT ![a] = 0]

\* The transition, its #account and #sync events; nothing on an active account.
ActivateTx(a) ==
  /\ apc[a] = "read"
  /\ deactivated' = FALSE
  /\ IF deactivated
     THEN /\ announced' = TRUE
          /\ told' = IF sync[a] # 0 THEN sync[a] ELSE told
     ELSE UNCHANGED stream
  /\ ActivateReturn(a)
  /\ UNCHANGED <<root, count, takenDown, store, wvars, ivars>>

ActivateAbandon(a) ==
  /\ apc[a] = "read"
  /\ ActivateReturn(a)
  /\ UNCHANGED <<account, store, stream, wvars, ivars>>

\* deactivateAccount: the transition and its #account event in one transaction.
Deactivate ==
  /\ ~deactivated
  /\ deactivated' = TRUE
  /\ announced' = FALSE
  /\ UNCHANGED <<root, count, takenDown, store, told, wvars, ivars, avars>>

Moderate(active) ==
  /\ Moderation
  /\ takenDown' = ~takenDown
  /\ announced' = active
  /\ UNCHANGED <<root, count, deactivated, store, told, wvars, ivars, avars>>

\* Fault: clearing a takedown is announced like applying it.
RestoreUnannounced == Moderate(FALSE)

\* updateSubjectStatus: applies or clears the takedown and announces the
\* lifecycle that results.
SetTakedown == Moderate(~deactivated /\ takenDown)

-----------------------------------------------------------------------------
\* What a handler that holds the lock does.
Write(w) ==
  \/ Open(w) \/ \E keys, got \in SUBSET Keys : Put(w, keys, got)
  \/ \E some \in SUBSET Keys : PutFails(w, some)
  \/ \E n \in 0..Cardinality(Keys) \cup {NoCount}, diff, built \in BOOLEAN :
        Check(w, n, diff, built)
  \/ Commit(w) \/ GcCheck(w) \/ GcSelect(w)
  \/ \E chunk \in SUBSET garbage[w] : GcDelete(w, chunk)
  \/ GcDone(w)

Import(i) ==
  \/ \E c \in Revs, keys \in SUBSET Keys : ImportRead(i, c, keys)
  \/ ImportSwap(i) \/ ImportAbandon(i)

Activate(a) == ActivateRead(a) \/ ActivateTx(a) \/ ActivateAbandon(a)

Next ==
  \/ \E w \in Writers : Request(w) \/ Lock(w) \/ Write(w) \/ Abandon(w)
  \/ \E i \in Importers : Import(i)
  \/ \E a \in Activators : Activate(a)
  \/ Deactivate
  \/ SetTakedown

Spec == Init /\ [][Next]_vars

\* A handler that holds the lock is polled to its end, by success or failure;
\* tokio's mutex queues those who wait for it, first come first served.
Fairness ==
  \A w \in Writers :
    /\ WF_vars(lock = w /\ (Write(w) \/ Abandon(w)))
    /\ SF_vars(Lock(w))

FairSpec == Spec /\ Fairness

-----------------------------------------------------------------------------
(* Properties.                                                             *)

\* Types; and only the holder of the lock is past it.
TypeOK ==
  /\ root \in 0..MaxRev /\ count \in Nat \cup {NoCount}
  /\ deactivated \in BOOLEAN /\ takenDown \in BOOLEAN
  /\ blocks \subseteq Revs \cup Keys
  /\ tree \in [Revs -> SUBSET Keys] /\ revs \in 0..MaxRev /\ losses \in 0..MaxLosses
  /\ told \in 0..MaxRev /\ announced \in BOOLEAN
  /\ lock \in Writers \cup {NoOne}
  /\ pc \in [Writers -> {"idle", "waiting", "locked", "open", "put", "checked",
                         "committed", "gc", "selected"}]
  /\ base \in [Writers -> 0..MaxRev] /\ new \in [Writers -> 0..MaxRev]
  /\ want \in [Writers -> SUBSET Keys]
  /\ counted \in [Writers -> Nat \cup {NoCount}]
  /\ keep \in [Writers -> SUBSET (Revs \cup Keys)]
  /\ car \in [Writers -> BOOLEAN]
  /\ garbage \in [Writers -> SUBSET (Revs \cup Keys)]
  /\ ipc \in [Importers -> {"idle", "parsed"}]
  /\ observed \in [Importers -> 0..MaxRev] /\ target \in [Importers -> 0..MaxRev]
  /\ apc \in [Activators -> {"idle", "read"}] /\ sync \in [Activators -> 0..MaxRev]
  /\ \A w \in Writers : lock = w <=> pc[w] \notin {"idle", "waiting"}

\* The persisted root never points at a missing block: no collection deletes
\* what another request wrote or made reachable.
HeadReadable == Reach(root) \subseteq blocks

\* A collection that has nothing left to delete leaves exactly the blocks of the
\* head: it also reclaims what conflicted, failed or dropped requests left.
GcExact ==
  \A w \in Writers : pc[w] = "selected" /\ garbage[w] = {} => blocks = Reach(root)

\* Every change of the root is made by a request that decided on the root it
\* replaces: neither a write nor an import clobbers one it has not seen.
NoLostUpdate ==
  [][root' # root =>
       \/ \E w \in Writers : new[w] = root' /\ base[w] = root
       \/ \E i \in Importers : target[i] = root' /\ observed[i] = root]_vars

\* The stored record count, when there is one, is that of the persisted head.
CountWitness == count # NoCount => root # 0 /\ count = Cardinality(tree[root])

\* A tree edit that drops keys no operation deleted lands only when one of the
\* two counts is unknown.
NoSilentLoss ==
  [][\A w \in Writers :
       pc[w] = "checked" /\ pc'[w] = "committed" /\ tree[root'] # want[w]
         => count = NoCount \/ count' = NoCount]_vars

\* No commit lands on a repository whose last #account event says inactive.
CommitsWhileAnnounced == [][\A w \in Writers :
  pc[w] = "checked" /\ pc'[w] = "committed" => announced]_vars

\* An account that accepts writes was announced as active.
ActiveIsAnnounced == Active => announced

\* Every write that waits for the lock is served, whatever becomes of the
\* request that holds it.
WriteServed == \A w \in Writers : pc[w] = "waiting" ~> pc[w] # "waiting"
=============================================================================
