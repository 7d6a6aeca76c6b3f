-------------------------- MODULE RepoWriteProofs --------------------------
(***************************************************************************)
(* Proofs about RepoWrite, for any sets of requests and keys.              *)
(***************************************************************************)
EXTENDS RepoWrite, FiniteSetTheorems, TLAPS

\* The number of keys is a number.
LEMMA KeysCounted == Cardinality(Keys) \in Nat
  BY FS_CardinalityType, RepoWriteAssumption DEF RepoWriteAssumption

\* Initially nothing is in flight and the lock is free.
LEMMA InitType == Init => TypeOK
<1> SUFFICES ASSUME Init PROVE TypeOK
  OBVIOUS
<1> USE RepoWriteAssumption DEF RepoWriteAssumption, Init, Revs
<1>1. root \in 0..MaxRev /\ revs \in 0..MaxRev /\ told \in 0..MaxRev
  OBVIOUS
<1>2. deactivated \in BOOLEAN /\ announced \in BOOLEAN
  BY Zenon
<1>3. blocks \subseteq Revs \cup Keys
  OBVIOUS
<1>4. takenDown \in BOOLEAN
  OBVIOUS
<1> QED BY <1>1, <1>2, <1>3, <1>4 DEF TypeOK

\* Every step keeps the types, and gives the lock to one writer at a time.
LEMMA NextType == TypeOK /\ [Next]_vars => TypeOK'
<1> SUFFICES ASSUME TypeOK, [Next]_vars PROVE TypeOK'
  OBVIOUS
<1> USE RepoWriteAssumption DEF RepoWriteAssumption, TypeOK, Revs, account, store, stream,
        wvars, ivars, avars
<1>1. ASSUME NEW w \in Writers, Request(w) PROVE TypeOK'
  BY <1>1 DEF Request
<1>2. ASSUME NEW w \in Writers, Lock(w) PROVE TypeOK'
  BY <1>2 DEF Lock, Enter
<1>3. ASSUME NEW w \in Writers, Open(w) PROVE TypeOK'
  BY <1>3 DEF Open
<1>4. ASSUME NEW w \in Writers, NEW keys \in SUBSET Keys, NEW got \in SUBSET Keys,
             Put(w, keys, got)
      PROVE  TypeOK'
  <2>1. /\ revs' \in 0..MaxRev /\ losses' \in 0..MaxLosses
        /\ revs + 1 \in Revs
    BY <1>4 DEF Put
  <2>2. tree' \in [Revs -> SUBSET Keys]
    BY <1>4, <2>1 DEF Put
  <2>3. blocks' \subseteq Revs \cup Keys
    BY <1>4, <2>1 DEF Put
  <2>4. /\ new' \in [Writers -> 0..MaxRev] /\ want' \in [Writers -> SUBSET Keys]
        /\ pc' = [pc EXCEPT ![w] = "put"] /\ pc[w] = "open" /\ lock' = lock
    BY <1>4, <2>1 DEF Put
  <2> QED BY <1>4, <2>1, <2>2, <2>3, <2>4 DEF Put
<1>5. ASSUME NEW w \in Writers, NEW n \in 0..Cardinality(Keys) \cup {NoCount},
             NEW diff \in BOOLEAN, NEW built \in BOOLEAN, Check(w, n, diff, built)
      PROVE  TypeOK'
  <2>1. n \in Nat \cup {NoCount}
    BY KeysCounted
  <2>2. Reach(new[w]) \subseteq Revs \cup Keys
    BY DEF Reach
  <2> QED BY <1>5, <2>1, <2>2 DEF Check
<1>6. ASSUME NEW w \in Writers, Commit(w) PROVE TypeOK'
  BY <1>6 DEF Commit
<1>7. ASSUME NEW w \in Writers, GcCheck(w) PROVE TypeOK'
  BY <1>7 DEF GcCheck
<1>8. ASSUME NEW w \in Writers, GcSelect(w) PROVE TypeOK'
  BY <1>8 DEF GcSelect, GcCandidates
<1>9. ASSUME NEW w \in Writers, NEW chunk \in SUBSET garbage[w], GcDelete(w, chunk)
      PROVE  TypeOK'
  BY <1>9 DEF GcDelete
<1>10. ASSUME NEW w \in Writers, Abandon(w) PROVE TypeOK'
  BY <1>10 DEF Abandon, Release, Return
<1>21. ASSUME NEW w \in Writers, GcDone(w) PROVE TypeOK'
  BY <1>21 DEF GcDone, Release, Return
<1>20. ASSUME NEW w \in Writers, NEW some \in SUBSET Keys, PutFails(w, some)
       PROVE  TypeOK'
  <2>1. blocks' \subseteq Revs \cup Keys
    BY <1>20 DEF PutFails
  <2>2. /\ lock' \in Writers \cup {NoOne}
        /\ \A v \in Writers : lock' = v <=> pc'[v] \notin {"idle", "waiting"}
    BY <1>20 DEF PutFails, Release, Return
  <2> QED BY <1>20, <2>1, <2>2 DEF PutFails, Release, Return
<1>11. ASSUME NEW i \in Importers, NEW c \in Revs, NEW keys \in SUBSET Keys,
              ImportRead(i, c, keys)
       PROVE  TypeOK'
  BY <1>11 DEF ImportRead
<1>12. ASSUME NEW i \in Importers, ImportSwap(i) PROVE TypeOK'
  <2>1. Reach(target[i]) \subseteq Revs \cup Keys
    BY DEF Reach
  <2>2. blocks' \subseteq Revs \cup Keys /\ root' \in 0..MaxRev
    BY <1>12, <2>1 DEF ImportSwap
  <2> QED BY <1>12, <2>2 DEF ImportSwap, ImportReturn, ImportedCount
<1>13. ASSUME NEW i \in Importers, ImportAbandon(i) PROVE TypeOK'
  BY <1>13 DEF ImportAbandon, ImportReturn
<1>14. ASSUME NEW a \in Activators, ActivateRead(a) PROVE TypeOK'
  BY <1>14 DEF ActivateRead
<1>15. ASSUME NEW a \in Activators, ActivateTx(a) PROVE TypeOK'
  <2>0. told' = told \/ told' = sync[a]
    BY <1>15, Zenon DEF ActivateTx
  <2>1. told' \in 0..MaxRev /\ sync' \in [Activators -> 0..MaxRev]
    BY <1>15, <2>0 DEF ActivateTx, ActivateReturn
  <2>2. deactivated' \in BOOLEAN /\ announced' \in BOOLEAN
    BY <1>15, Zenon DEF ActivateTx
  <2> QED BY <1>15, <2>1, <2>2 DEF ActivateTx, ActivateReturn
<1>16. ASSUME NEW a \in Activators, ActivateAbandon(a) PROVE TypeOK'
  BY <1>16 DEF ActivateAbandon, ActivateReturn
<1>17. CASE Deactivate
  BY <1>17 DEF Deactivate
<1>18. CASE SetTakedown
  BY <1>18 DEF SetTakedown, Moderate
<1>19. CASE UNCHANGED vars
  BY <1>19 DEF vars
<1> HIDE DEF TypeOK
<1> QED
  BY <1>1, <1>2, <1>3, <1>4, <1>5, <1>6, <1>7, <1>8, <1>9, <1>10, <1>11, <1>12, <1>13,
     <1>14, <1>15, <1>16, <1>17, <1>18, <1>19, <1>20, <1>21 DEF Next, Write, Import, Activate

\* The type invariant of RepoWrite, including that only the holder of the
\* account's write lock is past it.
THEOREM RepoTypeCorrect == Spec => []TypeOK
  BY InitType, NextType, PTL DEF Spec

-----------------------------------------------------------------------------
\* What status an account has is known to the stream: whoever accepts writes
\* was announced as active.
LEMMA InitAnnounced == Init => ActiveIsAnnounced
<1> SUFFICES ASSUME Init, Active PROVE announced
  BY DEF ActiveIsAnnounced
<1>1. PICK fresh \in BOOLEAN : deactivated = fresh /\ announced = ~fresh
  BY Zenon DEF Init
<1>2. fresh = FALSE
  BY <1>1, Zenon DEF Active
<1> QED BY <1>1, <1>2

\* Activation, deactivation and takedowns announce what they change.
LEMMA NextAnnounced == TypeOK /\ ActiveIsAnnounced /\ [Next]_vars => ActiveIsAnnounced'
<1> SUFFICES ASSUME TypeOK, ActiveIsAnnounced, [Next]_vars PROVE ActiveIsAnnounced'
  OBVIOUS
<1>1. CASE UNCHANGED <<deactivated, takenDown, announced>>
  BY <1>1 DEF ActiveIsAnnounced, Active
<1>2. ASSUME NEW a \in Activators, ActivateTx(a) PROVE ActiveIsAnnounced'
  BY <1>2, Zenon DEF ActivateTx, ActiveIsAnnounced, Active, stream
<1>3. CASE Deactivate
  BY <1>3 DEF Deactivate, ActiveIsAnnounced, Active
<1>4. CASE SetTakedown
  <2>1. takenDown' = ~takenDown /\ deactivated' = deactivated
        /\ announced' = (~deactivated /\ takenDown)
    BY <1>4 DEF SetTakedown, Moderate
  <2>2. takenDown \in BOOLEAN
    BY DEF TypeOK
  <2> QED BY <2>1, <2>2, Zenon DEF ActiveIsAnnounced, Active
<1>5. ASSUME NEW w \in Writers, Request(w) \/ Lock(w) \/ Write(w) \/ Abandon(w)
      PROVE  UNCHANGED <<deactivated, takenDown, announced>>
  BY <1>5 DEF Request, Lock, Enter, Write, Open, Put, Check, Commit, GcCheck, GcSelect,
     GcCandidates, GcDelete, GcDone, PutFails, Abandon, account, stream
<1>6. ASSUME NEW i \in Importers, Import(i)
      PROVE  UNCHANGED <<deactivated, takenDown, announced>>
  BY <1>6 DEF Import, ImportRead, ImportSwap, ImportAbandon, account, stream
<1>7. ASSUME NEW a \in Activators, ActivateRead(a) \/ ActivateAbandon(a)
      PROVE  UNCHANGED <<deactivated, takenDown, announced>>
  BY <1>7 DEF ActivateRead, ActivateAbandon, account, stream
<1>8. ASSUME UNCHANGED vars PROVE UNCHANGED <<deactivated, takenDown, announced>>
  BY <1>8 DEF vars, account, stream
<1> QED
  BY <1>1, <1>2, <1>3, <1>4, <1>5, <1>6, <1>7, <1>8 DEF Next, Activate

\* deactivateAccount, activateAccount and updateSubjectStatus never leave an
\* account that accepts writes announced as inactive.
THEOREM ActiveAnnounced == Spec => []ActiveIsAnnounced
<1>1. Init /\ [][Next]_vars => [](TypeOK /\ ActiveIsAnnounced)
  BY InitType, NextType, InitAnnounced, NextAnnounced, PTL
<1> QED BY <1>1, PTL DEF Spec

\* The lifecycle guard of the root's compare-and-swap: no commit lands on a
\* repository whose last #account event says inactive.
THEOREM CommitsAnnounced == Spec => CommitsWhileAnnounced
<1> DEFINE Landing == \A w \in Writers :
             pc[w] = "checked" /\ pc'[w] = "committed" => announced
<1>1. TypeOK /\ ActiveIsAnnounced /\ [Next]_vars => [Landing]_vars
  <2> SUFFICES ASSUME TypeOK, ActiveIsAnnounced, Next, NEW w \in Writers,
                      pc[w] = "checked", pc'[w] = "committed"
               PROVE  announced
    OBVIOUS
  <2>1. CASE Commit(w)
    BY <2>1 DEF Commit, AdvanceGuard, ActiveIsAnnounced
  <2>2. ASSUME NEW v \in Writers, v # w, Request(v) \/ Lock(v) \/ Write(v) \/ Abandon(v)
        PROVE  FALSE
    BY <2>2 DEF TypeOK, Request, Lock, Enter, Write, Open, Put, Check, Commit, GcCheck,
       GcSelect, GcCandidates, GcDelete, GcDone, PutFails, Abandon, Release, Return
  <2>3. ASSUME Request(w) \/ Lock(w) \/ Write(w) \/ Abandon(w)
        PROVE  Commit(w)
    BY <2>3 DEF TypeOK, Request, Lock, Enter, Write, Open, Put, Check, GcCheck,
       GcSelect, GcCandidates, GcDelete, GcDone, PutFails, Abandon, Release, Return
  <2>4. ASSUME \/ \E i \in Importers : Import(i)
               \/ \E a \in Activators : Activate(a)
               \/ Deactivate \/ SetTakedown
        PROVE  FALSE
    BY <2>4 DEF Import, ImportRead, ImportSwap, ImportAbandon, Activate, ActivateRead,
       ActivateTx, ActivateAbandon, Deactivate, SetTakedown, Moderate, wvars
  <2> QED BY <2>1, <2>2, <2>3, <2>4 DEF Next
<1>2. Spec => [](TypeOK /\ ActiveIsAnnounced)
  BY RepoTypeCorrect, ActiveAnnounced, PTL
<1> QED BY <1>1, <1>2, PTL DEF Spec, CommitsWhileAnnounced

-----------------------------------------------------------------------------
\* A step that changes the root is a commit or the swap of an import.
LEMMA RootMoves ==
  ASSUME Next, root' # root
  PROVE  \/ \E w \in Writers : Commit(w)
         \/ \E i \in Importers : ImportSwap(i)
<1>1. ASSUME NEW w \in Writers, Request(w) \/ Lock(w) \/ Write(w) \/ Abandon(w)
      PROVE  Commit(w)
  BY <1>1 DEF Request, Lock, Enter, Write, Open, Put, Check, GcCheck, GcSelect,
     GcCandidates, GcDelete, GcDone, PutFails, Abandon, account
<1>2. ASSUME NEW i \in Importers, Import(i) PROVE ImportSwap(i)
  BY <1>2 DEF Import, ImportRead, ImportAbandon, account
<1>3. ASSUME \/ \E a \in Activators : Activate(a)
             \/ Deactivate \/ SetTakedown
      PROVE  FALSE
  BY <1>3 DEF Activate, ActivateRead, ActivateTx, ActivateAbandon, Deactivate,
     SetTakedown, Moderate, account
<1> QED BY <1>1, <1>2, <1>3 DEF Next

\* Both compare-and-swaps together: no write and no import, however many run,
\* replaces a root it has not read.
THEOREM NoUpdateLost == Spec => NoLostUpdate
<1> DEFINE Move == root' # root =>
             \/ \E w \in Writers : new[w] = root' /\ base[w] = root
             \/ \E i \in Importers : target[i] = root' /\ observed[i] = root
<1>1. [Next]_vars => [Move]_vars
  <2> SUFFICES ASSUME Next, root' # root PROVE Move
    OBVIOUS
  <2>1. ASSUME NEW w \in Writers, Commit(w) PROVE Move
    BY <2>1 DEF Commit, AdvanceGuard
  <2>2. ASSUME NEW i \in Importers, ImportSwap(i) PROVE Move
    BY <2>2 DEF ImportSwap, SwapGuard
  <2> QED BY <2>1, <2>2, RootMoves
<1> QED BY <1>1, PTL DEF Spec, NoLostUpdate

-----------------------------------------------------------------------------
\* The stored count is that of the head.  It stays so because a writer's count
\* is that of its own commit, and because what a commit holds never changes:
\* every commit in use is one that exists already.
CountInv ==
  /\ CountWitness
  /\ root <= revs
  /\ \A w \in Writers : new[w] <= revs
  /\ \A w \in Writers : pc[w] = "checked" =>
       /\ new[w] # 0
       /\ counted[w] \in {NoCount, Cardinality(tree[new[w]])}
  /\ \A w \in Writers : pc[w] = "put" => new[w] # 0
  /\ \A i \in Importers : target[i] <= revs

\* Initially there is no count.
LEMMA InitCount == Init => CountInv
  BY RepoWriteAssumption DEF RepoWriteAssumption, Init, CountInv, CountWitness

\* A commit in use keeps its keys.
LEMMA TreeStable ==
  ASSUME TypeOK, [Next]_vars, NEW c \in Revs, c <= revs
  PROVE  tree'[c] = tree[c] /\ revs <= revs' /\ revs' \in 0..MaxRev
<1> USE RepoWriteAssumption DEF RepoWriteAssumption, TypeOK, Revs
<1>1. ASSUME NEW w \in Writers, NEW keys \in SUBSET Keys, NEW got \in SUBSET Keys,
             Put(w, keys, got)
      PROVE  tree'[c] = tree[c] /\ revs <= revs' /\ revs' \in 0..MaxRev
  BY <1>1 DEF Put
<1>2. ASSUME NEW i \in Importers, NEW d \in Revs, NEW keys \in SUBSET Keys,
             ImportRead(i, d, keys)
      PROVE  tree'[c] = tree[c] /\ revs <= revs' /\ revs' \in 0..MaxRev
  BY <1>2 DEF ImportRead
<1>3. CASE UNCHANGED <<tree, revs>>
  BY <1>3
<1>4. ASSUME NEW w \in Writers,
             \/ Request(w) \/ Lock(w) \/ Abandon(w) \/ Open(w)
             \/ \E n \in 0..Cardinality(Keys) \cup {NoCount}, diff, built \in BOOLEAN :
                   Check(w, n, diff, built)
             \/ Commit(w) \/ GcCheck(w) \/ GcSelect(w) \/ GcDone(w)
             \/ \E chunk \in SUBSET garbage[w] : GcDelete(w, chunk)
             \/ \E some \in SUBSET Keys : PutFails(w, some)
      PROVE  UNCHANGED <<tree, revs>>
  BY <1>4 DEF Request, Lock, Enter, Abandon, Open, Check, Commit, GcCheck, GcSelect,
     GcCandidates, GcDelete, GcDone, PutFails, store
<1>5. ASSUME \/ \E i \in Importers : ImportSwap(i) \/ ImportAbandon(i)
             \/ \E a \in Activators : Activate(a)
             \/ Deactivate \/ SetTakedown \/ UNCHANGED vars
      PROVE  UNCHANGED <<tree, revs>>
  BY <1>5 DEF ImportSwap, ImportAbandon, Activate, ActivateRead, ActivateTx,
     ActivateAbandon, Deactivate, SetTakedown, Moderate, vars, store
<1> HIDE DEF TypeOK
<1> QED BY <1>1, <1>2, <1>3, <1>4, <1>5 DEF Next, Write, Import

\* No write, import or race of both leaves a count of another head.
LEMMA NextCount == TypeOK /\ CountInv /\ [Next]_vars => CountInv'
<1> SUFFICES ASSUME TypeOK, CountInv, [Next]_vars PROVE CountInv'
  OBVIOUS
<1>0. TypeOK'
  BY NextType
<1>t. \A c \in Revs : c <= revs => tree'[c] = tree[c]
  BY TreeStable
<1>u. revs <= revs' /\ revs' \in 0..MaxRev
  <2>1. CASE revs = 0
    BY <1>0, <2>1 DEF TypeOK
  <2>2. CASE revs # 0
    BY <2>2, TreeStable, RepoWriteAssumption DEF TypeOK, Revs, RepoWriteAssumption
  <2> QED BY <2>1, <2>2
<1>r. \A r \in 0..MaxRev : r # 0 /\ r <= revs => r \in Revs /\ tree'[r] = tree[r]
  BY <1>t, RepoWriteAssumption DEF Revs, RepoWriteAssumption
<1> USE RepoWriteAssumption DEF RepoWriteAssumption, TypeOK, CountInv, CountWitness
<1>1. ASSUME UNCHANGED <<root, count, pc, new, counted, target>> PROVE CountInv'
  BY <1>1, <1>r, <1>u
<1>2. ASSUME NEW w \in Writers, Request(w) \/ Lock(w) \/ Open(w) PROVE CountInv'
  BY <1>2, <1>r, <1>u DEF Request, Lock, Enter, Open, account, store, wvars, ivars
<1>3. ASSUME NEW w \in Writers, NEW keys \in SUBSET Keys, NEW got \in SUBSET Keys,
             Put(w, keys, got)
      PROVE  CountInv'
  BY <1>3, <1>r, <1>u DEF Put, account, ivars
<1>4. ASSUME NEW w \in Writers, NEW n \in 0..Cardinality(Keys) \cup {NoCount},
             NEW diff \in BOOLEAN, NEW built \in BOOLEAN, Check(w, n, diff, built)
      PROVE  CountInv'
  BY <1>4, <1>r, <1>u DEF Check, account, store, ivars
<1>5. ASSUME NEW w \in Writers, Commit(w) PROVE CountInv'
  BY <1>5, <1>r, <1>u DEF Commit, store, ivars
<1>6. ASSUME NEW w \in Writers, GcCheck(w) \/ GcSelect(w) PROVE CountInv'
  BY <1>6, <1>r, <1>u DEF GcCheck, GcSelect, GcCandidates, account, store, ivars
<1>12. ASSUME NEW w \in Writers, NEW chunk \in SUBSET garbage[w], GcDelete(w, chunk)
       PROVE  UNCHANGED <<root, count, pc, new, counted, target>>
  BY <1>12 DEF GcDelete, account, ivars
<1>7. ASSUME NEW w \in Writers,
             \/ GcDone(w) \/ Abandon(w)
             \/ \E some \in SUBSET Keys : PutFails(w, some)
      PROVE  CountInv'
  <2>1. /\ pc' = [pc EXCEPT ![w] = "idle"]
        /\ new' = [new EXCEPT ![w] = 0]
        /\ counted' = [counted EXCEPT ![w] = NoCount]
        /\ UNCHANGED <<root, count, tree, revs, target>>
    BY <1>7, Zenon DEF GcDone, PutFails, Abandon, Release, Return, account, store, ivars
  <2>2. CountWitness' /\ root' <= revs' /\ \A i \in Importers : target'[i] <= revs'
    BY <2>1
  <2>3. \A v \in Writers : v # w =>
          pc'[v] = pc[v] /\ new'[v] = new[v] /\ counted'[v] = counted[v]
    BY <2>1
  <2>4. pc'[w] = "idle" /\ new'[w] = 0
    BY <2>1
  <2>5. \A v \in Writers : new'[v] <= revs'
    BY <2>1, <2>3, <2>4
  <2> QED BY <2>1, <2>2, <2>3, <2>4, <2>5
<1>8. ASSUME NEW i \in Importers, NEW c \in Revs, NEW keys \in SUBSET Keys,
             ImportRead(i, c, keys)
      PROVE  CountInv'
  <2>1. UNCHANGED <<root, count, pc, new, counted>>
    BY <1>8 DEF ImportRead, account, wvars
  <2>2. target' = [target EXCEPT ![i] = c] /\ c <= revs'
    BY <1>8, <1>u DEF ImportRead, Revs
  <2>3. \A j \in Importers : target'[j] <= revs'
    BY <2>2, <1>u
  <2>4. CountWitness' /\ root' <= revs'
    BY <2>1, <1>r, <1>u
  <2>5. \A w \in Writers : new'[w] <= revs'
    BY <2>1, <1>u
  <2>6. \A w \in Writers : pc'[w] = "checked" =>
          new'[w] # 0 /\ counted'[w] \in {NoCount, Cardinality(tree'[new'[w]])}
    BY <2>1, <1>r
  <2> QED BY <2>1, <2>3, <2>4, <2>5, <2>6
<1>9. ASSUME NEW i \in Importers, ImportSwap(i) PROVE CountInv'
  BY <1>9, <1>r, <1>u DEF ImportSwap, ImportReturn, ImportedCount, wvars
<1>10. ASSUME NEW i \in Importers, ImportAbandon(i) PROVE CountInv'
  BY <1>10, <1>r, <1>u DEF ImportAbandon, ImportReturn, account, store, wvars
<1>11. ASSUME \/ \E a \in Activators : Activate(a)
              \/ Deactivate \/ SetTakedown \/ UNCHANGED vars
       PROVE  UNCHANGED <<root, count, pc, new, counted, target>>
  BY <1>11 DEF Activate, ActivateRead, ActivateTx, ActivateAbandon, Deactivate,
     SetTakedown, Moderate, vars, account, wvars, ivars
<1> HIDE DEF TypeOK, CountInv
<1> QED
  BY <1>1, <1>2, <1>3, <1>4, <1>5, <1>6, <1>7, <1>8, <1>9, <1>10, <1>11, <1>12
     DEF Next, Write, Import

\* The integrity witness of the write path: imports, failed walks and races
\* with both never leave a count that belongs to another head.
THEOREM CountIsWitness == Spec => []CountWitness
<1>1. Init /\ [][Next]_vars => [](TypeOK /\ CountInv)
  BY InitType, NextType, InitCount, NextCount, PTL
<1>2. CountInv => CountWitness
  BY DEF CountInv
<1> QED BY <1>1, <1>2, PTL DEF Spec

-----------------------------------------------------------------------------
\* Why the two counts reveal a faulty edit: while a writer is past the lock only
\* an import moves the root, and it forgets the count, so a count that is known
\* is still that of the writer's base; and an edit loses keys but adds none.
EditInv(w) ==
  /\ pc[w] \in {"open", "put", "checked"} => count = NoCount \/ root = base[w]
  /\ pc[w] \in {"put", "checked"} => tree[new[w]] \subseteq want[w]
  /\ pc[w] = "checked" /\ count # NoCount /\ counted[w] # NoCount =>
       tree[new[w]] = want[w]

EditsInv == \A w \in Writers : EditInv(w)

\* A set of keys inside another with as many members is the other.
LEMMA SameCount ==
  ASSUME NEW S \in SUBSET Keys, NEW T \in SUBSET S, Cardinality(T) = Cardinality(S)
  PROVE  T = S
<1>1. IsFiniteSet(S)
  BY FS_Subset, RepoWriteAssumption DEF RepoWriteAssumption
<1> QED BY <1>1, FS_Subset

\* The integrity check passes a known count only of an edit that lost nothing.
LEMMA CheckedEdit ==
  ASSUME TypeOK, CountInv, EditsInv, NEW w \in Writers,
         pc[w] = "put", NEW n, n \in {NoCount, Cardinality(tree[new[w]])},
         CountOk(w, n), count # NoCount, n # NoCount
  PROVE  tree[new[w]] = want[w]
<1>1. /\ root = base[w] /\ count = Cardinality(tree[root])
      /\ tree[new[w]] \subseteq want[w] /\ want[w] \subseteq Keys
      /\ root # 0 /\ root \in Revs
  BY RepoWriteAssumption
     DEF RepoWriteAssumption, EditsInv, EditInv, CountInv, CountWitness, TypeOK, Revs
<1>2. n = Cardinality(tree[new[w]])
  OBVIOUS
<1>3. n + Cardinality(tree[base[w]]) = count + Cardinality(want[w])
  BY DEF CountOk, CountedDelta, ExpectedDelta
<1>4. /\ Cardinality(tree[new[w]]) \in Nat /\ Cardinality(want[w]) \in Nat
      /\ Cardinality(tree[root]) \in Nat
  <2>1. tree[root] \subseteq Keys /\ tree[new[w]] \subseteq Keys
    BY <1>1 DEF TypeOK
  <2>2. IsFiniteSet(tree[root]) /\ IsFiniteSet(tree[new[w]]) /\ IsFiniteSet(want[w])
    BY <1>1, <2>1, FS_Subset, RepoWriteAssumption DEF RepoWriteAssumption
  <2> QED BY <2>2, FS_CardinalityType
<1>5. Cardinality(tree[new[w]]) = Cardinality(want[w])
  BY <1>1, <1>2, <1>3, <1>4
<1> QED BY <1>1, <1>5, SameCount

\* A step of others that keeps the root and the count, or forgets the count,
\* leaves what a writer relies on.
LEMMA EditKept ==
  ASSUME TypeOK, CountInv, [Next]_vars, NEW w \in Writers, EditInv(w),
         count' = NoCount \/ UNCHANGED <<root, count>>,
         pc'[w] = pc[w], base'[w] = base[w], new'[w] = new[w], want'[w] = want[w],
         counted'[w] = counted[w]
  PROVE  EditInv(w)'
<1>1. pc[w] \in {"put", "checked"} => tree'[new[w]] = tree[new[w]]
  <2> SUFFICES ASSUME pc[w] \in {"put", "checked"} PROVE tree'[new[w]] = tree[new[w]]
    OBVIOUS
  <2>1. new[w] \in Revs /\ new[w] <= revs
    BY RepoWriteAssumption DEF RepoWriteAssumption, CountInv, TypeOK, Revs
  <2> QED BY <2>1, TreeStable
<1> QED BY <1>1 DEF EditInv

\* Steps of a writer, an import or the lifecycle.
LEMMA NextEdits == TypeOK /\ CountInv /\ EditsInv /\ [Next]_vars => EditsInv'
<1> SUFFICES ASSUME TypeOK, CountInv, EditsInv, [Next]_vars, NEW w \in Writers
             PROVE  EditInv(w)'
  BY DEF EditsInv
<1>0. EditInv(w)
  BY DEF EditsInv
<1>k. ASSUME count' = NoCount \/ UNCHANGED <<root, count>>,
             pc'[w] = pc[w], base'[w] = base[w], new'[w] = new[w],
             want'[w] = want[w], counted'[w] = counted[w]
      PROVE  EditInv(w)'
  BY <1>0, <1>k, EditKept
<1>1. ASSUME NEW v \in Writers, pc'[v] \in {"idle", "waiting", "locked"}, v = w
      PROVE  EditInv(w)'
  BY <1>1 DEF EditInv
<1>2. ASSUME NEW v \in Writers, Request(v) \/ Lock(v) PROVE EditInv(w)'
  <2>1. /\ pc'[v] \in {"waiting", "locked"} /\ UNCHANGED <<root, count>>
        /\ \A u \in Writers : u # v => pc'[u] = pc[u]
        /\ UNCHANGED <<base, new, want, counted>>
    BY <1>2 DEF Request, Lock, Enter, account, TypeOK
  <2> QED BY <1>1, <1>k, <2>1
<1>3. ASSUME NEW v \in Writers, Open(v) PROVE EditInv(w)'
  <2>1. /\ pc'[v] = "open" /\ base'[v] = root /\ UNCHANGED <<root, count>>
        /\ \A u \in Writers : u # v => pc'[u] = pc[u] /\ base'[u] = base[u]
        /\ UNCHANGED <<new, want, counted>>
    BY <1>3 DEF Open, account, TypeOK
  <2>2. CASE v = w
    BY <2>1, <2>2 DEF EditInv
  <2> QED BY <1>k, <2>1, <2>2
<1>4. ASSUME NEW v \in Writers, NEW keys \in SUBSET Keys, NEW got \in SUBSET Keys,
             Put(v, keys, got)
      PROVE  EditInv(w)'
  <2>1. /\ pc[v] = "open" /\ pc'[v] = "put" /\ UNCHANGED <<root, count, base, counted>>
        /\ \A u \in Writers : u # v =>
             pc'[u] = pc[u] /\ new'[u] = new[u] /\ want'[u] = want[u]
    BY <1>4 DEF Put, account, TypeOK
  <2>2. new'[v] = revs + 1 /\ want'[v] = keys /\ tree'[revs + 1] = got /\ got \subseteq keys
    BY <1>4, RepoWriteAssumption DEF RepoWriteAssumption, Put, TypeOK, Revs
  <2>3. CASE v = w
    BY <1>0, <2>1, <2>2, <2>3 DEF EditInv
  <2> QED BY <1>k, <2>1, <2>3
<1>5. ASSUME NEW v \in Writers, NEW n \in 0..Cardinality(Keys) \cup {NoCount},
             NEW diff \in BOOLEAN, NEW made \in BOOLEAN, Check(v, n, diff, made)
      PROVE  EditInv(w)'
  <2>1. /\ pc[v] = "put" /\ pc'[v] = "checked" /\ counted'[v] = n
        /\ UNCHANGED <<root, count, base, new, want, tree>>
        /\ \A u \in Writers : u # v => pc'[u] = pc[u] /\ counted'[u] = counted[u]
        /\ n \in {NoCount, Cardinality(tree[new[v]])} /\ CountOk(v, n)
    BY <1>5 DEF Check, account, store, TypeOK
  <2>2. CASE v = w
    <3>1. count # NoCount /\ n # NoCount => tree[new[w]] = want[w]
      BY <2>1, <2>2, CheckedEdit
    <3> QED BY <1>0, <2>1, <2>2, <3>1 DEF EditInv
  <2> QED BY <1>k, <2>1, <2>2
<1>6. ASSUME NEW v \in Writers, Commit(v) PROVE EditInv(w)'
  <2>1. /\ pc[v] = "checked" /\ pc'[v] = "committed"
        /\ \A u \in Writers : u # v => pc'[u] = pc[u]
    BY <1>6 DEF Commit, TypeOK
  <2>2. CASE v = w
    BY <2>1, <2>2 DEF EditInv
  <2>3. CASE v # w
    <3>1. lock = v
      BY <2>1 DEF TypeOK
    <3>2. pc[w] \in {"idle", "waiting"}
      BY <2>3, <3>1 DEF TypeOK
    <3> QED BY <2>1, <2>3, <3>2 DEF EditInv
  <2> QED BY <2>2, <2>3
<1>7. ASSUME NEW v \in Writers,
             \/ GcCheck(v) \/ GcSelect(v)
             \/ \E chunk \in SUBSET garbage[v] : GcDelete(v, chunk)
      PROVE  EditInv(w)'
  <2>1. /\ pc'[v] \in {"gc", "selected"} /\ UNCHANGED <<root, count>>
        /\ \A u \in Writers : u # v => pc'[u] = pc[u]
        /\ UNCHANGED <<base, new, want, counted>>
    BY <1>7 DEF GcCheck, GcSelect, GcCandidates, GcDelete, account, TypeOK
  <2>2. CASE v = w
    BY <2>1, <2>2 DEF EditInv
  <2> QED BY <1>k, <2>1, <2>2
<1>8. ASSUME NEW v \in Writers,
             \/ GcDone(v) \/ Abandon(v)
             \/ \E some \in SUBSET Keys : PutFails(v, some)
      PROVE  EditInv(w)'
  <2>1. Return(v) /\ UNCHANGED <<root, count>>
    BY <1>8, Zenon DEF GcDone, PutFails, Abandon, Release, account
  <2>2. /\ pc'[v] = "idle"
        /\ \A u \in Writers : u # v =>
             /\ pc'[u] = pc[u] /\ base'[u] = base[u] /\ new'[u] = new[u]
             /\ want'[u] = want[u] /\ counted'[u] = counted[u]
    BY <2>1 DEF Return, TypeOK
  <2> QED BY <1>1, <1>k, <2>1, <2>2
<1>9. ASSUME NEW i \in Importers, Import(i) PROVE EditInv(w)'
  <2>1. count' = NoCount \/ UNCHANGED <<root, count>>
    BY <1>9 DEF Import, ImportRead, ImportSwap, ImportAbandon, ImportedCount, account
  <2>2. UNCHANGED <<pc, base, new, want, counted>>
    BY <1>9 DEF Import, ImportRead, ImportSwap, ImportAbandon, wvars
  <2> QED BY <1>k, <2>1, <2>2
<1>10. ASSUME \/ \E a \in Activators : Activate(a)
              \/ Deactivate \/ SetTakedown \/ UNCHANGED vars
       PROVE  EditInv(w)'
  <2>1. UNCHANGED <<root, count, pc, base, new, want, counted>>
    BY <1>10 DEF Activate, ActivateRead, ActivateTx, ActivateAbandon, Deactivate,
       SetTakedown, Moderate, vars, account, wvars
  <2> QED BY <1>k, <2>1
<1> QED
  BY <1>2, <1>3, <1>4, <1>5, <1>6, <1>7, <1>8, <1>9, <1>10 DEF Next, Write

\* The count is an integrity check: a tree edit that silently drops keys no
\* operation deleted lands only when the stored or the new count is unknown,
\* whatever imports and lifecycle changes run between the check and the commit.
THEOREM LossIsNoticed == Spec => NoSilentLoss
<1> DEFINE Noticed == \A w \in Writers :
      pc[w] = "checked" /\ pc'[w] = "committed" /\ tree[root'] # want[w]
        => count = NoCount \/ count' = NoCount
<1>1. Init => EditsInv
  BY DEF Init, EditsInv, EditInv
<1>2. TypeOK /\ EditsInv /\ [Next]_vars => [Noticed]_vars
  <2> SUFFICES ASSUME TypeOK, EditsInv, Next, NEW w \in Writers,
                      pc[w] = "checked", pc'[w] = "committed", tree[root'] # want[w]
               PROVE  count = NoCount \/ count' = NoCount
    OBVIOUS
  <2>1. Commit(w)
    <3>1. ASSUME NEW v \in Writers, pc'[v] \in {"idle", "waiting", "locked", "open", "put",
                                                "checked", "gc", "selected"},
                 \A u \in Writers : u # v => pc'[u] = pc[u]
          PROVE  FALSE
      BY <3>1
    <3>2. ASSUME NEW v \in Writers, Request(v) \/ Lock(v) \/ Write(v) \/ Abandon(v)
          PROVE  Commit(w)
      <4>1. CASE Commit(v)
        BY <4>1 DEF Commit, TypeOK
      <4>2. CASE Request(v) \/ Lock(v) \/ Open(v)
        BY <3>1, <4>2 DEF Request, Lock, Enter, Open, TypeOK
      <4>3. CASE \/ \E keys, got \in SUBSET Keys : Put(v, keys, got)
                 \/ \E n \in 0..Cardinality(Keys) \cup {NoCount}, diff, made \in BOOLEAN :
                       Check(v, n, diff, made)
        BY <3>1, <4>3 DEF Put, Check, TypeOK
      <4>4. CASE \/ GcCheck(v) \/ GcSelect(v)
                 \/ \E chunk \in SUBSET garbage[v] : GcDelete(v, chunk)
        BY <3>1, <4>4 DEF GcCheck, GcSelect, GcCandidates, GcDelete, TypeOK
      <4>5. CASE \/ GcDone(v) \/ Abandon(v)
                 \/ \E some \in SUBSET Keys : PutFails(v, some)
        <5>1. pc' = [pc EXCEPT ![v] = "idle"]
          BY <4>5, Zenon DEF GcDone, PutFails, Abandon, Release, Return
        <5> QED BY <3>1, <5>1 DEF TypeOK
      <4> QED BY <3>2, <4>1, <4>2, <4>3, <4>4, <4>5 DEF Write
    <3>3. ASSUME \/ \E i \in Importers : Import(i)
                 \/ \E a \in Activators : Activate(a)
                 \/ Deactivate \/ SetTakedown
          PROVE  UNCHANGED pc
      BY <3>3 DEF Import, ImportRead, ImportSwap, ImportAbandon, Activate, ActivateRead,
         ActivateTx, ActivateAbandon, Deactivate, SetTakedown, Moderate, wvars
    <3> QED BY <3>2, <3>3 DEF Next
  <2>2. root' = new[w] /\ count' = counted[w]
    BY <2>1 DEF Commit
  <2> QED BY <2>2 DEF EditsInv, EditInv
<1> QED
  BY <1>1, <1>2, InitType, NextType, InitCount, NextCount, NextEdits, PTL
     DEF Spec, NoSilentLoss

-----------------------------------------------------------------------------
\* importRepo does not take the write lock.  What collection needs of it is only
\* this: no import swaps the root while a collection is between its look at the
\* head and its last DELETE.
ImportsOutsideCollections ==
  [][\A i \in Importers :
       ImportSwap(i) => \A w \in Writers : pc[w] \notin {"gc", "selected"}]_vars

\* Why collection is safe then.  A writer's base and its new commit stay stored
\* until it commits, because only the holder of the lock deletes blocks; and
\* from its look at the head on, a collection keeps just the blocks of the head.
WriterInv(w) ==
  /\ pc[w] \in {"open", "put", "checked"} =>
       base[w] # 0 /\ base[w] <= revs /\ Reach(base[w]) \subseteq blocks
  /\ pc[w] \in {"put", "checked", "committed"} => new[w] # 0 /\ new[w] <= revs
  /\ pc[w] \in {"put", "checked"} => Reach(new[w]) \subseteq blocks
  /\ pc[w] \in {"checked", "committed"} => keep[w] \in {{}, Reach(new[w])}
  /\ pc[w] \in {"gc", "selected"} => new[w] = root /\ keep[w] = Reach(root)
  /\ pc[w] = "selected" => garbage[w] = blocks \ keep[w]

HeadInv ==
  /\ HeadReadable
  /\ root <= revs
  /\ \A w \in Writers : WriterInv(w)
  /\ \A i \in Importers : target[i] <= revs

\* The genesis commit is stored, a migration target has nothing to store.
LEMMA InitHead == Init => HeadInv
<1> SUFFICES ASSUME Init PROVE HeadInv
  OBVIOUS
<1>1. \/ root = 0 /\ blocks = {}
      \/ root = 1 /\ blocks = {1}
  <2>1. PICK fresh \in BOOLEAN : root = (IF fresh THEN 0 ELSE 1)
                                 /\ blocks = (IF fresh THEN {} ELSE {1})
    BY Zenon DEF Init
  <2>2. CASE fresh = TRUE
    BY <2>1, <2>2
  <2>3. CASE fresh = FALSE
    BY <2>1, <2>3
  <2> QED BY <2>2, <2>3
<1>2. root = 1 => tree[root] = {}
  BY RepoWriteAssumption DEF Init, Revs, RepoWriteAssumption
<1>3. HeadReadable
  BY <1>1, <1>2 DEF HeadReadable, Reach
<1>5. root <= revs
  <2>1. revs = root
    BY Zenon DEF Init
  <2> QED BY <1>1, <2>1
<1>4. \A w \in Writers : WriterInv(w)
  BY DEF Init, WriterInv
<1>6. \A i \in Importers : target[i] <= revs
  BY <1>1, <1>5 DEF Init
<1> QED BY <1>3, <1>4, <1>5, <1>6 DEF HeadInv

\* Whatever runs keeps the head readable, imports included that swap the root
\* outside a collection.
LEMMA NextHead ==
  ASSUME TypeOK, HeadInv, [Next]_vars,
         \A i \in Importers :
           ImportSwap(i) => \A w \in Writers : pc[w] \notin {"gc", "selected"}
  PROVE  HeadInv'
<1>0. TypeOK'
  BY NextType
<1>r. ASSUME NEW c \in 0..MaxRev, c <= revs PROVE Reach(c)' = Reach(c)
  <2>1. c # 0 => c \in Revs
    BY RepoWriteAssumption DEF Revs, RepoWriteAssumption
  <2>2. c # 0 => tree'[c] = tree[c]
    BY <1>r, <2>1, TreeStable
  <2> QED BY <2>2 DEF Reach
<1>q. ASSUME UNCHANGED tree PROVE \A c : Reach(c)' = Reach(c)
  BY <1>q DEF Reach
<1>h. /\ HeadReadable /\ root <= revs /\ \A w \in Writers : WriterInv(w)
      /\ \A i \in Importers : target[i] <= revs
  BY DEF HeadInv
\* A step of the writer that holds the lock afterwards only has to account for
\* that writer.
<1>o. ASSUME NEW w \in Writers, pc'[w] \notin {"idle", "waiting"},
             HeadReadable', root' <= revs', WriterInv(w)',
             revs' = revs \/ revs' = revs + 1, UNCHANGED target
      PROVE  HeadInv'
  <2>1. \A v \in Writers : v # w => pc'[v] \in {"idle", "waiting"}
    BY <1>o, <1>0 DEF TypeOK
  <2>2. \A v \in Writers : v # w => WriterInv(v)'
    BY <2>1 DEF WriterInv
  <2>3. \A i \in Importers : target'[i] <= revs'
    BY <1>o, <1>h, RepoWriteAssumption DEF TypeOK, RepoWriteAssumption
  <2> QED BY <1>o, <2>2, <2>3 DEF HeadInv
<1>1. ASSUME UNCHANGED <<root, blocks, tree, revs, pc, base, new, keep, garbage, target>>
      PROVE  HeadInv'
  <2>1. \A w \in Writers : WriterInv(w)'
    BY <1>1, <1>h, <1>q DEF WriterInv
  <2> QED BY <1>1, <1>h, <1>q, <2>1 DEF HeadInv, HeadReadable
<1>2. ASSUME NEW w \in Writers, Request(w) PROVE HeadInv'
  <2>1. /\ UNCHANGED <<root, blocks, tree, revs, base, new, keep, garbage, target>>
        /\ pc' = [pc EXCEPT ![w] = "waiting"]
    BY <1>2 DEF Request, account, store, ivars
  <2>2. \A v \in Writers : v # w => pc'[v] = pc[v]
    BY <2>1 DEF TypeOK
  <2>3. pc'[w] = "waiting"
    BY <2>1 DEF TypeOK
  <2>4. \A v \in Writers : WriterInv(v)'
    BY <2>1, <2>2, <2>3, <1>h, <1>q DEF WriterInv
  <2> QED BY <2>1, <2>4, <1>h, <1>q DEF HeadInv, HeadReadable
<1>3. ASSUME NEW w \in Writers, Lock(w) \/ Open(w) PROVE HeadInv'
  <2>1. UNCHANGED <<root, blocks, tree, revs, target>>
    BY <1>3 DEF Lock, Enter, Open, account, store, ivars
  <2>2. \/ pc'[w] = "locked"
        \/ pc'[w] = "open" /\ base'[w] = root /\ root # 0
    <3>1. CASE Lock(w)
      BY <3>1 DEF Lock, Enter, TypeOK
    <3>2. CASE Open(w)
      BY <3>2 DEF Open, TypeOK
    <3> QED BY <1>3, <3>1, <3>2
  <2>3. WriterInv(w)'
    BY <2>1, <2>2, <1>h, <1>q DEF WriterInv, HeadReadable
  <2> QED BY <2>1, <2>2, <2>3, <1>h, <1>q, <1>o DEF HeadReadable
<1>4. ASSUME NEW w \in Writers, NEW keys \in SUBSET Keys, NEW got \in SUBSET Keys,
             Put(w, keys, got)
      PROVE  HeadInv'
  <2>1. /\ revs + 1 \in Revs /\ revs' = revs + 1 /\ revs' # 0
        /\ tree'[revs'] = got /\ got \subseteq keys
        /\ blocks' = blocks \cup {revs'} \cup (keys \ tree[base[w]])
        /\ UNCHANGED <<root, base, target>>
        /\ new'[w] = revs' /\ pc[w] = "open" /\ pc'[w] = "put"
    BY <1>4, RepoWriteAssumption DEF Put, account, ivars, Revs, TypeOK, RepoWriteAssumption
  <2>2. /\ base[w] # 0 /\ base[w] <= revs /\ Reach(base[w]) \subseteq blocks
        /\ tree[base[w]] \subseteq blocks
    BY <2>1, <1>h DEF WriterInv, Reach
  <2>3. Reach(new[w])' \subseteq blocks'
    BY <2>1, <2>2 DEF Reach
  <2>4. HeadReadable' /\ root' <= revs'
    BY <2>1, <1>r, <1>h DEF HeadReadable, TypeOK
  <2>5. Reach(base[w])' = Reach(base[w]) /\ base[w] <= revs'
    BY <2>1, <2>2, <1>r DEF TypeOK
  <2>6. WriterInv(w)'
    BY <2>1, <2>2, <2>3, <2>5 DEF WriterInv, Revs, TypeOK
  <2> QED BY <2>1, <2>4, <2>6, <1>o
<1>5. ASSUME NEW w \in Writers, NEW n \in 0..Cardinality(Keys) \cup {NoCount},
             NEW diff \in BOOLEAN, NEW built \in BOOLEAN, Check(w, n, diff, built)
      PROVE  HeadInv'
  <2>1. /\ UNCHANGED <<root, blocks, tree, revs, base, new, target>>
        /\ pc[w] = "put" /\ pc'[w] = "checked"
        /\ keep'[w] \in {{}, Reach(new[w])}
    BY <1>5 DEF Check, account, store, ivars, TypeOK
  <2>2. WriterInv(w)'
    BY <2>1, <1>h, <1>q DEF WriterInv
  <2> QED BY <2>1, <2>2, <1>h, <1>q, <1>o DEF HeadReadable
<1>6. ASSUME NEW w \in Writers, Commit(w) PROVE HeadInv'
  <2>1. /\ UNCHANGED <<blocks, tree, revs, new, keep, target>>
        /\ pc[w] = "checked" /\ pc'[w] = "committed" /\ root' = new[w]
    BY <1>6 DEF Commit, store, ivars, TypeOK
  <2>2. WriterInv(w)'
    BY <2>1, <1>h, <1>q DEF WriterInv
  <2>3. HeadReadable' /\ root' <= revs'
    BY <2>1, <1>h, <1>q DEF WriterInv, HeadReadable
  <2> QED BY <2>1, <2>2, <2>3, <1>o
<1>7. ASSUME NEW w \in Writers, GcCheck(w) \/ GcSelect(w) PROVE HeadInv'
  <2>1. UNCHANGED <<root, blocks, tree, revs, new, keep, target>>
    BY <1>7 DEF GcCheck, GcSelect, GcCandidates, account, store, ivars
  <2>2. \/ pc[w] = "committed" /\ pc'[w] = "gc" /\ keep[w] # {} /\ root = new[w]
        \/ pc[w] = "gc" /\ pc'[w] = "selected" /\ garbage'[w] = blocks \ keep[w]
    BY <1>7 DEF GcCheck, GcSelect, GcCandidates, TypeOK
  <2>3. WriterInv(w)'
    BY <2>1, <2>2, <1>h, <1>q DEF WriterInv
  <2> QED BY <2>1, <2>2, <2>3, <1>h, <1>q, <1>o DEF HeadReadable
<1>8. ASSUME NEW w \in Writers, NEW chunk \in SUBSET garbage[w], GcDelete(w, chunk)
      PROVE  HeadInv'
  <2>1. /\ UNCHANGED <<root, tree, revs, pc, new, keep, target>> /\ pc[w] = "selected"
        /\ blocks' = blocks \ chunk /\ garbage'[w] = garbage[w] \ chunk
    BY <1>8 DEF GcDelete, account, ivars, TypeOK
  <2>2. keep[w] = Reach(root) /\ new[w] = root /\ garbage[w] = blocks \ Reach(root)
    BY <2>1, <1>h DEF WriterInv
  <2>3. HeadReadable'
    BY <2>1, <2>2, <1>h, <1>q DEF HeadReadable
  <2>4. garbage'[w] = blocks' \ keep'[w]
    BY <2>1, <2>2
  <2>5. WriterInv(w)'
    BY <2>1, <2>2, <2>4, <1>q DEF WriterInv
  <2> QED BY <2>1, <2>3, <2>5, <1>h, <1>o
<1>9. ASSUME NEW w \in Writers,
             \/ GcDone(w) \/ Abandon(w)
             \/ \E some \in SUBSET Keys : PutFails(w, some)
      PROVE  HeadInv'
  <2>1. /\ UNCHANGED <<root, tree, revs, target>> /\ blocks \subseteq blocks'
        /\ blocks' = blocks \/ pc[w] = "open"
    BY <1>9 DEF GcDone, PutFails, Abandon, account, store, ivars
  <2>2. \A v \in Writers : v # w =>
          /\ pc'[v] = pc[v] /\ base'[v] = base[v] /\ new'[v] = new[v]
          /\ keep'[v] = keep[v] /\ garbage'[v] = garbage[v]
    BY <1>9 DEF GcDone, PutFails, Abandon, Release, Return, TypeOK
  <2>3. pc'[w] = "idle"
    BY <1>9 DEF GcDone, PutFails, Abandon, Release, Return, TypeOK
  <2>4. ASSUME NEW v \in Writers PROVE WriterInv(v)'
    <3>1. CASE v = w
      BY <3>1, <2>3 DEF WriterInv
    <3>2. CASE v # w /\ blocks' = blocks
      BY <3>2, <2>1, <2>2, <1>h, <1>q DEF WriterInv
    <3>3. CASE v # w /\ pc[w] = "open"
      <4>1. pc'[v] \in {"idle", "waiting"}
        BY <3>3, <2>2 DEF TypeOK
      <4> QED BY <4>1 DEF WriterInv
    <3> QED BY <3>1, <3>2, <3>3, <2>1
  <2>5. HeadReadable'
    BY <2>1, <1>h, <1>q DEF HeadReadable
  <2> QED BY <2>1, <2>4, <2>5, <1>h DEF HeadInv
<1>10. ASSUME \/ \E a \in Activators : Activate(a)
              \/ Deactivate \/ SetTakedown \/ UNCHANGED vars
       PROVE  UNCHANGED <<root, blocks, tree, revs, pc, base, new, keep, garbage, target>>
  BY <1>10 DEF Activate, ActivateRead, ActivateTx, ActivateAbandon, Deactivate,
     SetTakedown, Moderate, vars, account, store, wvars, ivars
\* An import knows a commit of its own, or one that exists.
<1>11. ASSUME NEW i \in Importers, NEW c \in Revs, NEW keys \in SUBSET Keys,
              ImportRead(i, c, keys)
       PROVE  HeadInv'
  <2>1. /\ UNCHANGED <<root, blocks, pc, base, new, keep, garbage>>
        /\ \A j \in Importers : j # i => target'[j] = target[j]
        /\ target'[i] = c
        /\ \/ c <= revs /\ revs' = revs
           \/ c = revs + 1 /\ revs' = c
    <3>1. c \in 1..(revs + 1) /\ (c <= revs => revs' = revs) /\ (~(c <= revs) => revs' = c)
      BY <1>11 DEF ImportRead
    <3>2. c <= revs \/ c = revs + 1
      BY <3>1 DEF TypeOK
    <3> QED BY <1>11, <3>1, <3>2 DEF ImportRead, account, wvars, TypeOK
  <2>2. revs <= revs' /\ c <= revs' /\ revs \in Nat /\ revs' \in Nat
    BY <2>1, <1>0 DEF Revs, TypeOK
  <2>3. \A j \in Importers : target'[j] <= revs'
    BY <2>1, <2>2, <1>h, <1>0 DEF TypeOK
  <2>4. ASSUME NEW d \in 0..MaxRev, d <= revs PROVE Reach(d)' = Reach(d) /\ d <= revs'
    BY <2>2, <2>4, <1>r, RepoWriteAssumption DEF RepoWriteAssumption
  <2>5. root' <= revs' /\ HeadReadable'
    BY <2>1, <2>4, <1>h DEF HeadReadable, TypeOK
  <2>6. ASSUME NEW w \in Writers PROVE WriterInv(w)'
    <3>1. base[w] \in 0..MaxRev /\ new[w] \in 0..MaxRev
      BY DEF TypeOK
    <3>2. WriterInv(w) /\ root \in 0..MaxRev /\ Reach(root)' = Reach(root)
      BY <2>1, <1>h, <1>r DEF TypeOK
    <3>3. base[w] <= revs => Reach(base[w])' = Reach(base[w]) /\ base'[w] <= revs'
      BY <2>1, <3>1, <2>4
    <3>4. new[w] <= revs => Reach(new[w])' = Reach(new[w]) /\ new'[w] <= revs'
      BY <2>1, <3>1, <2>4
    <3>5. new[w] = root => new[w] <= revs
      BY <1>h
    <3> QED BY <2>1, <3>2, <3>3, <3>4, <3>5 DEF WriterInv
  <2> QED BY <2>3, <2>5, <2>6 DEF HeadInv
\* A swap adds the blocks of the head it installs, and meets no collection.
<1>12. ASSUME NEW i \in Importers, ImportSwap(i) PROVE HeadInv'
  <2>1. /\ UNCHANGED <<tree, revs, pc, base, new, keep, garbage>>
        /\ blocks' = blocks \cup Reach(target[i]) /\ root' = target[i]
        /\ \A j \in Importers : j # i => target'[j] = target[j]
        /\ target'[i] = 0
    BY <1>12 DEF ImportSwap, ImportReturn, wvars, TypeOK
  <2>2. \A w \in Writers : pc[w] \notin {"gc", "selected"}
    BY <1>12
  <2>3. \A w \in Writers : WriterInv(w)'
    BY <2>1, <2>2, <1>h, <1>q DEF WriterInv
  <2>4. HeadReadable' /\ root' <= revs'
    BY <2>1, <1>h, <1>q DEF HeadReadable
  <2>5. \A j \in Importers : target'[j] <= revs'
    BY <2>1, <1>h DEF TypeOK
  <2> QED BY <2>3, <2>4, <2>5 DEF HeadInv
<1>13. ASSUME NEW i \in Importers, ImportAbandon(i) PROVE HeadInv'
  <2>1. /\ UNCHANGED <<root, blocks, tree, revs, pc, base, new, keep, garbage>>
        /\ \A j \in Importers : j # i => target'[j] = target[j]
        /\ target'[i] = 0
    BY <1>13 DEF ImportAbandon, ImportReturn, account, store, wvars, TypeOK
  <2>2. \A w \in Writers : WriterInv(w)'
    BY <2>1, <1>h, <1>q DEF WriterInv
  <2>3. \A j \in Importers : target'[j] <= revs'
    BY <2>1, <1>h DEF TypeOK
  <2> QED BY <2>1, <2>2, <2>3, <1>h, <1>q DEF HeadInv, HeadReadable
<1> QED
  BY <1>1, <1>2, <1>3, <1>4, <1>5, <1>6, <1>7, <1>8, <1>9, <1>10, <1>11, <1>12, <1>13
     DEF Next, Write, Import

\* Every behaviour whose imports keep out of the collections keeps HeadInv.
LEMMA HeadKept == Spec /\ ImportsOutsideCollections => [](TypeOK /\ HeadInv)
<1> DEFINE Outside == \A i \in Importers :
             ImportSwap(i) => \A w \in Writers : pc[w] \notin {"gc", "selected"}
<1>1. TypeOK /\ HeadInv /\ [Next]_vars /\ [Outside]_vars => HeadInv'
  <2>1. CASE Outside
    BY <2>1, NextHead
  <2>2. CASE UNCHANGED vars
    <3>1. UNCHANGED <<root, blocks, tree, revs, pc, base, new, keep, garbage, target>>
      BY <2>2 DEF vars, account, store, wvars, ivars
    <3> QED BY <3>1 DEF HeadInv, HeadReadable, WriterInv, Reach
  <2> QED BY <2>1, <2>2
<1> QED
  BY <1>1, InitType, NextType, InitHead, PTL DEF Spec, ImportsOutsideCollections

\* The write lock does its work: record writes, their collections, the requests
\* dropped halfway and the imports never leave a root that points at a missing
\* block, unless an import swaps the root while a collection is under way.
THEOREM HeadStaysReadable == Spec /\ ImportsOutsideCollections => []HeadReadable
<1>1. HeadInv => HeadReadable
  BY DEF HeadInv
<1> QED BY <1>1, HeadKept, PTL

\* ... and a collection that ran to its end leaves exactly the blocks of the head.
THEOREM CollectionIsExact == Spec /\ ImportsOutsideCollections => []GcExact
<1>1. HeadInv => GcExact
  BY DEF HeadInv, WriterInv, HeadReadable, GcExact
<1> QED BY <1>1, HeadKept, PTL

=============================================================================
