---------------------------- MODULE BlobGcProofs ----------------------------
(***************************************************************************)
(* The collector for any number of accounts that share a blob, any number  *)
(* of pages of space records, failed steps and restarts: what was in use   *)
(* when a pass began survives it, unless it moved behind the walk; an      *)
(* upload keeps its grace period; and a row has its file unless an upload  *)
(* overlaps an unlinking.                                                  *)
(***************************************************************************)
EXTENDS BlobGc, TLAPS

\* An owner has a row to own.
RowOfOwner == \A a \in Accounts : own[a] # "none" => blobRow

\* Where the pass has left an account it must spare: excluded, or permanent.
Spared(a) == a \in skip \/ own[a] = "kept"

\* Whoever uses the blob and is not spared yet is still to be walked, or is being
\* walked: then the walk has found it, or has all of its uses ahead.
PassInv ==
  /\ gcStep = "idle" => \A a \in Accounts : pinned[a] = {}
  /\ gcStep = "reconcile" => \A a \in Accounts : pinned[a] = {} \/ a \in todo \/ Spared(a)
  /\ gcStep = "walk" =>
       /\ current \in Accounts /\ place \in 1..Pages
       /\ found \/ \A p \in pinned[current] : p >= place
       /\ \A a \in Accounts : pinned[a] = {} \/ a = current \/ a \in todo \/ Spared(a)
  /\ gcStep = "apply" =>
       /\ current \in Accounts /\ (pinned[current] = {} \/ found)
       /\ \A a \in Accounts : pinned[a] = {} \/ a = current \/ a \in todo \/ Spared(a)
  /\ gcStep \in {"sweep", "reclaim", "unlink"} =>
       (\A a \in Accounts : pinned[a] = {} \/ Spared(a)) /\ todo \cap skip = {}

IInv == TypeOK /\ RowOfOwner /\ PassInv /\ ReferencedSurvives

-----------------------------------------------------------------------------
\* The empty store satisfies the invariant.
LEMMA InitInv ==
  ASSUME BlobAssumption, Init
  PROVE  IInv
<1>1. TypeOK
  <2>1. faults \in 0..MaxFaults
    BY DEF BlobAssumption, Init
  <2>2. own \in [Accounts -> {"none", "temp", "lapsed", "kept"}]
    BY DEF Init
  <2>3. refs \in [Accounts -> SUBSET Places] /\ pinned \in [Accounts -> SUBSET Places]
    BY DEF Init, Nowhere
  <2>4. 0 \in Places
    BY DEF BlobAssumption, Places
  <2> QED
    BY <2>1, <2>2, <2>3, <2>4 DEF Init, TypeOK, Nowhere
<1>2. RowOfOwner /\ PassInv /\ ReferencedSurvives
  BY DEF Init, RowOfOwner, PassInv, ReferencedSurvives, Nowhere
<1> QED
  BY <1>1, <1>2 DEF IInv

\* Uploads, records, deletions and the collector's steps on one account.
LEMMA AccountStep ==
  ASSUME BlobAssumption, IInv, NEW a \in Accounts,
         \/ StoreFile(a) \/ InsertBlob(a) \/ DropUpload(a)
         \/ \E p \in Places : PutRecord(a, p) \/ DeleteRecord(a, p)
         \/ Lapse(a)
         \/ DeleteAccount(a) \/ UnlinkPurged(a)
         \/ Walk(a) \/ WalkFails(a) \/ DeleteExpiredOwner(a)
  PROVE  IInv'
<1> USE DEF BlobAssumption, IInv, store, walk, pass, others, trouble
<1>1. CASE StoreFile(a)
  <2>1. TypeOK'
    BY <1>1 DEF TypeOK, StoreFile
  <2>2. RowOfOwner'
    BY <1>1 DEF TypeOK, RowOfOwner, StoreFile
  <2>3. PassInv'
    BY <1>1 DEF TypeOK, PassInv, ReferencedSurvives, Spared, StoreFile
  <2>4. ReferencedSurvives'
    BY <1>1 DEF TypeOK, RowOfOwner, PassInv, Spared, ReferencedSurvives, StoreFile
  <2> QED
    BY <2>1, <2>2, <2>3, <2>4
<1>2. CASE InsertBlob(a)
  <2>1. TypeOK'
    BY <1>2 DEF TypeOK, InsertBlob
  <2>2. RowOfOwner'
    BY <1>2 DEF TypeOK, RowOfOwner, InsertBlob
  <2>3. PassInv'
    BY <1>2 DEF TypeOK, PassInv, ReferencedSurvives, Spared, InsertBlob
  <2>4. ReferencedSurvives'
    BY <1>2 DEF TypeOK, RowOfOwner, PassInv, Spared, ReferencedSurvives, InsertBlob
  <2> QED
    BY <2>1, <2>2, <2>3, <2>4
<1>3. CASE DropUpload(a)
  <2>1. TypeOK'
    BY <1>3 DEF TypeOK, DropUpload
  <2>2. RowOfOwner'
    BY <1>3 DEF TypeOK, RowOfOwner, DropUpload
  <2>3. PassInv'
    BY <1>3 DEF TypeOK, PassInv, ReferencedSurvives, Spared, DropUpload
  <2>4. ReferencedSurvives'
    BY <1>3 DEF TypeOK, RowOfOwner, PassInv, Spared, ReferencedSurvives, DropUpload
  <2> QED
    BY <2>1, <2>2, <2>3, <2>4
<1>4. ASSUME NEW p \in Places, PutRecord(a, p) PROVE IInv'
  <2>1. TypeOK'
    BY <1>4 DEF TypeOK, PutRecord, AcceptsWrites, Behind
  <2>2. RowOfOwner'
    BY <1>4 DEF TypeOK, RowOfOwner, PutRecord, AcceptsWrites, Behind
  <2>3. PassInv'
    <3> USE <1>4 DEF PutRecord
    <3>1. UNCHANGED <<gcStep, todo, current, place, found, skip, own>>
      OBVIOUS
    <3>2. \A b \in Accounts : pinned[b] = {} => pinned'[b] = {}
      BY DEF TypeOK
    <3>3. gcStep = "walk" => found \/ \A q \in pinned'[current] : q >= place
      <4>1. SUFFICES ASSUME gcStep = "walk", ~found, NEW q \in pinned'[current] PROVE q >= place
        OBVIOUS
      <4>2. current \in Accounts /\ place \in 1..Pages /\ \A r \in pinned[current] : r >= place
        BY <4>1 DEF PassInv
      <4>3. p \in 0..Pages
        BY DEF Places
      <4>4. q \in pinned[current] \/ (q = p /\ a = current /\ ~Behind(a, p))
        BY <4>2 DEF TypeOK
      <4> QED
        BY <4>1, <4>2, <4>3, <4>4 DEF Behind
    <3> QED
      BY <3>1, <3>2, <3>3 DEF PassInv, Spared
  <2>4. ReferencedSurvives'
    BY <1>4 DEF TypeOK, ReferencedSurvives, PutRecord, AcceptsWrites, Behind
  <2> QED
    BY <2>1, <2>2, <2>3, <2>4
<1>5. ASSUME NEW p \in Places, DeleteRecord(a, p) PROVE IInv'
  <2>1. TypeOK'
    BY <1>5 DEF TypeOK, DeleteRecord
  <2>2. RowOfOwner'
    BY <1>5 DEF TypeOK, RowOfOwner, DeleteRecord
  <2>3. PassInv'
    BY <1>5 DEF TypeOK, PassInv, ReferencedSurvives, Spared, DeleteRecord
  <2>4. ReferencedSurvives'
    BY <1>5 DEF TypeOK, ReferencedSurvives, DeleteRecord
  <2> QED
    BY <2>1, <2>2, <2>3, <2>4
<1>6. CASE Lapse(a)
  <2>1. TypeOK'
    BY <1>6 DEF TypeOK, Lapse
  <2>2. RowOfOwner'
    BY <1>6 DEF TypeOK, RowOfOwner, Lapse
  <2>3. PassInv'
    BY <1>6 DEF TypeOK, PassInv, ReferencedSurvives, Spared, Lapse
  <2>4. ReferencedSurvives'
    BY <1>6 DEF TypeOK, RowOfOwner, PassInv, Spared, ReferencedSurvives, Lapse
  <2> QED
    BY <2>1, <2>2, <2>3, <2>4
<1>7. CASE DeleteAccount(a)
  <2>1. TypeOK'
    BY <1>7 DEF TypeOK, DeleteAccount
  <2>2. RowOfOwner'
    BY <1>7 DEF TypeOK, RowOfOwner, DeleteAccount
  <2>3. PassInv'
    BY <1>7 DEF TypeOK, PassInv, ReferencedSurvives, Spared, DeleteAccount
  <2>4. ReferencedSurvives'
    BY <1>7 DEF TypeOK, RowOfOwner, PassInv, Spared, ReferencedSurvives, DeleteAccount
  <2> QED
    BY <2>1, <2>2, <2>3, <2>4
<1>8. CASE UnlinkPurged(a)
  <2>1. TypeOK'
    BY <1>8 DEF TypeOK, UnlinkPurged
  <2>2. RowOfOwner'
    BY <1>8 DEF TypeOK, RowOfOwner, UnlinkPurged
  <2>3. PassInv'
    BY <1>8 DEF TypeOK, PassInv, ReferencedSurvives, Spared, UnlinkPurged
  <2>4. ReferencedSurvives'
    BY <1>8 DEF TypeOK, RowOfOwner, PassInv, Spared, ReferencedSurvives, UnlinkPurged
  <2> QED
    BY <2>1, <2>2, <2>3, <2>4
<1>9. CASE Walk(a)
  <2>1. TypeOK'
    BY <1>9 DEF TypeOK, Places, Walk
  <2>2. RowOfOwner'
    BY <1>9 DEF TypeOK, RowOfOwner, Walk
  <2>3. PassInv'
    <3> USE <1>9 DEF Walk
    <3>1. current' \in Accounts /\ place' \in 1..Pages
      OBVIOUS
    <3>2. found' \/ \A p \in pinned'[current'] : p >= place'
      <4>1. pinned[a] \subseteq refs[a] /\ pinned[a] \subseteq 0..Pages
        BY DEF TypeOK, Places
      <4>2. current' = a /\ place' = 1 /\ pinned' = pinned /\ found' = (0 \in refs[a])
        OBVIOUS
      <4>3. 0 \notin pinned[a] => \A p \in pinned[a] : p >= 1
        BY <4>1
      <4> QED
        BY <4>1, <4>2, <4>3
    <3>3. \A b \in Accounts : pinned[b] = {} \/ b = a \/ b \in todo' \/ Spared(b)'
      BY DEF PassInv, Spared
    <3> QED
      BY <3>1, <3>2, <3>3 DEF PassInv, Spared
  <2>4. ReferencedSurvives'
    BY <1>9 DEF TypeOK, RowOfOwner, PassInv, Spared, ReferencedSurvives, Walk
  <2> QED
    BY <2>1, <2>2, <2>3, <2>4
<1>10. CASE WalkFails(a)
  <2>1. TypeOK'
    <3>1. faults' \in 0..MaxFaults
      BY <1>10 DEF TypeOK, WalkFails
    <3>2. 0 \in Places
      BY DEF Places
    <3> QED
      BY <1>10, <3>1, <3>2 DEF TypeOK, WalkFails, Exclude
  <2>2. RowOfOwner'
    BY <1>10 DEF TypeOK, RowOfOwner, WalkFails, Exclude
  <2>3. PassInv'
    BY <1>10 DEF TypeOK, PassInv, ReferencedSurvives, Spared, WalkFails, Exclude
  <2>4. ReferencedSurvives'
    BY <1>10 DEF TypeOK, RowOfOwner, PassInv, Spared, ReferencedSurvives, WalkFails, Exclude
  <2> QED
    BY <2>1, <2>2, <2>3, <2>4
<1>11. CASE DeleteExpiredOwner(a)
  <2>1. TypeOK'
    BY <1>11 DEF TypeOK, DeleteExpiredOwner, StillExpired
  <2>2. RowOfOwner'
    BY <1>11 DEF TypeOK, RowOfOwner, DeleteExpiredOwner, StillExpired
  <2>3. PassInv'
    BY <1>11 DEF TypeOK, PassInv, ReferencedSurvives, Spared, DeleteExpiredOwner, StillExpired
  <2>4. ReferencedSurvives'
    BY <1>11 DEF TypeOK, RowOfOwner, PassInv, Spared, ReferencedSurvives, DeleteExpiredOwner,
       StillExpired
  <2> QED
    BY <2>1, <2>2, <2>3, <2>4
<1> QED
  BY <1>1, <1>2, <1>3, <1>4, <1>5, <1>6, <1>7, <1>8, <1>9, <1>10, <1>11

\* The other steps of the pass, of the scrub, and a restart.
LEMMA PassStep ==
  ASSUME BlobAssumption, IInv,
         \/ BeginPass \/ ReadPage \/ Apply \/ ListExpired \/ DeleteRow \/ Unlink \/ SweepFails \/ EndPass
         \/ ListRows \/ CheckRow \/ RecheckRow \/ Heal \/ Restart
  PROVE  IInv'
<1> USE DEF BlobAssumption, IInv, store, walk, pass, others, trouble
<1>1. CASE BeginPass
  <2>1. TypeOK'
    BY <1>1 DEF TypeOK, BeginPass
  <2>2. RowOfOwner'
    BY <1>1 DEF TypeOK, RowOfOwner, BeginPass
  <2>3. PassInv'
    BY <1>1 DEF TypeOK, PassInv, ReferencedSurvives, Spared, BeginPass
  <2>4. ReferencedSurvives'
    BY <1>1 DEF TypeOK, RowOfOwner, PassInv, Spared, ReferencedSurvives, BeginPass
  <2> QED
    BY <2>1, <2>2, <2>3, <2>4
<1>2. CASE Apply
  <2>1. TypeOK'
    BY <1>2 DEF TypeOK, Apply, ReleaseOwner
  <2>2. RowOfOwner'
    BY <1>2 DEF TypeOK, RowOfOwner, Apply, ReleaseOwner
  <2>3. PassInv'
    BY <1>2 DEF TypeOK, PassInv, ReferencedSurvives, Spared, Apply, ReleaseOwner
  <2>4. ReferencedSurvives'
    BY <1>2 DEF TypeOK, RowOfOwner, PassInv, Spared, ReferencedSurvives, Apply, ReleaseOwner
  <2> QED
    BY <2>1, <2>2, <2>3, <2>4
<1>3. CASE ListExpired
  <2>1. TypeOK'
    BY <1>3 DEF TypeOK, ListExpired
  <2>2. RowOfOwner'
    BY <1>3 DEF TypeOK, RowOfOwner, ListExpired
  <2>3. PassInv'
    BY <1>3 DEF TypeOK, PassInv, ReferencedSurvives, Spared, ListExpired
  <2>4. ReferencedSurvives'
    BY <1>3 DEF TypeOK, RowOfOwner, PassInv, Spared, ReferencedSurvives, ListExpired
  <2> QED
    BY <2>1, <2>2, <2>3, <2>4
<1>4. CASE DeleteRow
  <2>1. TypeOK'
    BY <1>4 DEF TypeOK, DeleteRow, Unowned
  <2>2. RowOfOwner'
    BY <1>4 DEF TypeOK, RowOfOwner, DeleteRow, Unowned
  <2>3. PassInv'
    BY <1>4 DEF TypeOK, PassInv, ReferencedSurvives, Spared, DeleteRow, Unowned
  <2>4. ReferencedSurvives'
    BY <1>4 DEF TypeOK, RowOfOwner, PassInv, Spared, ReferencedSurvives, DeleteRow, Unowned
  <2> QED
    BY <2>1, <2>2, <2>3, <2>4
<1>5. CASE Unlink
  <2>1. TypeOK'
    BY <1>5 DEF TypeOK, Unlink
  <2>2. RowOfOwner'
    BY <1>5 DEF TypeOK, RowOfOwner, Unlink
  <2>3. PassInv'
    BY <1>5 DEF TypeOK, PassInv, ReferencedSurvives, Spared, Unlink
  <2>4. ReferencedSurvives'
    BY <1>5 DEF TypeOK, RowOfOwner, PassInv, Spared, ReferencedSurvives, Unlink
  <2> QED
    BY <2>1, <2>2, <2>3, <2>4
<1>6. CASE SweepFails
  <2>1. TypeOK'
    BY <1>6 DEF TypeOK, SweepFails
  <2>2. RowOfOwner'
    BY <1>6 DEF TypeOK, RowOfOwner, SweepFails
  <2>3. PassInv'
    BY <1>6 DEF TypeOK, PassInv, ReferencedSurvives, Spared, SweepFails
  <2>4. ReferencedSurvives'
    BY <1>6 DEF TypeOK, RowOfOwner, PassInv, Spared, ReferencedSurvives, SweepFails
  <2> QED
    BY <2>1, <2>2, <2>3, <2>4
<1>7. CASE EndPass
  <2>1. TypeOK'
    BY <1>7 DEF TypeOK, EndPass, Nowhere
  <2>2. RowOfOwner'
    BY <1>7 DEF TypeOK, RowOfOwner, EndPass
  <2>3. PassInv'
    BY <1>7 DEF TypeOK, PassInv, ReferencedSurvives, Spared, EndPass, Nowhere
  <2>4. ReferencedSurvives'
    BY <1>7 DEF ReferencedSurvives, EndPass, Nowhere
  <2> QED
    BY <2>1, <2>2, <2>3, <2>4
<1>8. CASE ListRows \/ CheckRow \/ RecheckRow \/ Heal
  <2>1. TypeOK'
    BY <1>8 DEF TypeOK, ListRows, CheckRow, RecheckRow, Heal
  <2>2. RowOfOwner'
    BY <1>8 DEF TypeOK, RowOfOwner, ListRows, CheckRow, RecheckRow, Heal
  <2>3. PassInv'
    BY <1>8 DEF TypeOK, PassInv, ReferencedSurvives, Spared, ListRows, CheckRow, RecheckRow, Heal
  <2>4. ReferencedSurvives'
    BY <1>8 DEF TypeOK, RowOfOwner, PassInv, Spared, ReferencedSurvives, ListRows, CheckRow, RecheckRow,
       Heal
  <2> QED
    BY <2>1, <2>2, <2>3, <2>4
<1>9. CASE Restart
  <2>1. TypeOK'
    <3>1. faults' \in 0..MaxFaults /\ leaked' \in BOOLEAN
      BY <1>9 DEF TypeOK, Restart
    <3>2. UNCHANGED <<blobRow, blobFile, own, refs, gone>>
      BY <1>9 DEF Restart
    <3>3. 0 \in Places /\ pinned' \in [Accounts -> SUBSET Places]
      BY <1>9 DEF Restart, Nowhere, Places
    <3>4. \A a \in Accounts : pinned'[a] \subseteq refs'[a]
      BY <1>9 DEF Restart, Nowhere
    <3>5. \A a \in gone' : refs'[a] = {}
      BY <3>2 DEF TypeOK
    <3> QED
      BY <1>9, <3>1, <3>2, <3>3, <3>4, <3>5 DEF TypeOK, Restart
  <2>2. RowOfOwner'
    BY <1>9 DEF TypeOK, RowOfOwner, Restart
  <2>3. PassInv'
    BY <1>9 DEF TypeOK, PassInv, ReferencedSurvives, Spared, Restart, Nowhere
  <2>4. ReferencedSurvives'
    BY <1>9 DEF ReferencedSurvives, Restart, Nowhere
  <2> QED
    BY <2>1, <2>2, <2>3, <2>4
<1>10. CASE ReadPage
  <2>1. TypeOK'
    BY <1>10 DEF TypeOK, PassInv, Places, ReadPage
  <2>2. RowOfOwner'
    BY <1>10 DEF TypeOK, RowOfOwner, ReadPage
  <2>3. PassInv'
    BY <1>10 DEF TypeOK, PassInv, ReferencedSurvives, Spared, Places, ReadPage
  <2>4. ReferencedSurvives'
    BY <1>10 DEF ReferencedSurvives, ReadPage
  <2> QED
    BY <2>1, <2>2, <2>3, <2>4
<1> QED
  BY <1>1, <1>2, <1>3, <1>4, <1>5, <1>6, <1>7, <1>8, <1>9, <1>10

\* The invariant holds in every reachable state.
LEMMA Invariant ==
  ASSUME BlobAssumption
  PROVE  Spec => []IInv
<1>1. Init => IInv
  BY InitInv
<1>2. IInv /\ [Next]_blobVars => IInv'
  <2>1. ASSUME IInv, UNCHANGED blobVars PROVE IInv'
    BY <2>1 DEF blobVars, store, walk, pass, others, trouble, IInv, TypeOK, RowOfOwner, PassInv,
                Spared, ReferencedSurvives
  <2> QED
    BY <2>1, AccountStep, PassStep DEF Next, GcNext
<1> QED
  BY <1>1, <1>2, PTL DEF Spec

\* The rows, the files and the collector keep their types; records and pins are
\* of accounts that exist.
THEOREM TypeCorrect ==
  ASSUME BlobAssumption
  PROVE  Spec => []TypeOK
BY Invariant, PTL DEF IInv

\* What an account owned and used when a pass of the collector began keeps its row
\* and its owner to the end of the pass, for as long as the account uses it.  Its
\* records may move between the public repository and the pages of its spaces; only
\* a use that the walk of the account has gone past before it found any does not
\* count as one that goes on.
THEOREM InUseSurvives ==
  ASSUME BlobAssumption
  PROVE  Spec => []ReferencedSurvives
BY Invariant, PTL DEF IInv

\* An owner in its grace period, or permanent, goes only with its account:
\* delete_expired_owner looks again at what list_expired_temp_owners listed.
THEOREM GraceHonoured ==
  ASSUME BlobAssumption
  PROVE  Spec => GraceKept
<1> DEFINE P == \A a \in Accounts :
                  own[a] \in {"temp", "kept"} /\ own'[a] = "none" => a \in gone'
<1>1. IInv /\ [Next]_blobVars => [P]_blobVars
  <2> SUFFICES ASSUME IInv, Next PROVE P
    OBVIOUS
  <2>1. ASSUME NEW a \in Accounts, InsertBlob(a) \/ Lapse(a) PROVE P
    BY <2>1 DEF InsertBlob, Lapse, IInv, TypeOK
  <2>2. ASSUME NEW a \in Accounts, DeleteExpiredOwner(a) PROVE P
    BY <2>2 DEF DeleteExpiredOwner, StillExpired, IInv, TypeOK
  <2>3. ASSUME NEW a \in Accounts, DeleteAccount(a) PROVE P
    BY <2>3 DEF DeleteAccount, IInv, TypeOK
  <2>4. ASSUME Apply PROVE P
    BY <2>4 DEF Apply, ReleaseOwner, IInv, TypeOK
  <2>5. CASE UNCHANGED own
    BY <2>5
  <2>6. \/ UNCHANGED own \/ Apply
        \/ \E a \in Accounts :
             InsertBlob(a) \/ Lapse(a) \/ DeleteExpiredOwner(a) \/ DeleteAccount(a)
    BY DEF Next, GcNext, StoreFile, DropUpload, PutRecord, DeleteRecord, WalkFails, UnlinkPurged,
           BeginPass, ReadPage, ListExpired, DeleteRow, Unlink, EndPass, Walk, SweepFails, ListRows, CheckRow,
           RecheckRow, Heal, Restart, store
  <2> QED
    BY <2>1, <2>2, <2>3, <2>4, <2>5, <2>6
<1> QED
  BY <1>1, Invariant, PTL DEF Spec, GraceKept

-----------------------------------------------------------------------------
(* The row goes first and its file second: what that order is worth.       *)

\* A row has been deleted and its file is still to be unlinked, by the
\* collector or by the deletion of an account.
FilePending == gcStep = "unlink" \/ purging # {}

\* Hypothesis: no upload of the same bytes is under way at such a time.
NoUploadMeetsUnlink == [](FilePending => uploads = {})

\* A row, and an upload that is about to insert one, have the file; a row whose
\* file is to go is gone.
FileInv ==
  /\ blobRow \/ uploads # {} => blobFile
  /\ FilePending => ~blobRow

\* Each step keeps it, if no upload is there when a file is unlinked.
LEMMA FileStep ==
  ASSUME FileInv, FilePending => uploads = {}, [Next]_blobVars
  PROVE  FileInv'
<1> USE DEF FileInv, FilePending
<1>1. ASSUME NEW a \in Accounts, StoreFile(a) \/ InsertBlob(a) \/ DropUpload(a)
      PROVE  FileInv'
  <2>1. CASE StoreFile(a)
    BY <2>1 DEF StoreFile, pass
  <2>2. CASE InsertBlob(a)
    BY <2>2 DEF InsertBlob, pass
  <2>3. CASE DropUpload(a)
    BY <2>3 DEF DropUpload, store, pass
  <2> QED
    BY <1>1, <2>1, <2>2, <2>3
<1>2. ASSUME NEW a \in Accounts,
             \/ \E p \in Places : PutRecord(a, p) \/ DeleteRecord(a, p)
             \/ Lapse(a) \/ Walk(a) \/ WalkFails(a)
      PROVE  FileInv'
  BY <1>2 DEF PutRecord, DeleteRecord, Lapse, Walk, WalkFails, store, pass, others
<1>3. ASSUME NEW a \in Accounts, DeleteAccount(a) PROVE FileInv'
  BY <1>3 DEF DeleteAccount
<1>4. ASSUME NEW a \in Accounts, UnlinkPurged(a) PROVE FileInv'
  BY <1>4 DEF UnlinkPurged, pass
<1>5. ASSUME NEW a \in Accounts, DeleteExpiredOwner(a) PROVE FileInv'
  BY <1>5 DEF DeleteExpiredOwner, others
<1>6. CASE DeleteRow \/ Unlink
  <2>1. CASE DeleteRow
    BY <2>1 DEF DeleteRow, Unowned, others
  <2>2. CASE Unlink
    BY <2>2 DEF Unlink, others
  <2> QED
    BY <1>6, <2>1, <2>2
<1>7. CASE BeginPass \/ ReadPage \/ Apply \/ ListExpired \/ SweepFails \/ EndPass
  BY <1>7 DEF BeginPass, ReadPage, Apply, ListExpired, SweepFails, EndPass, store, others
<1>8. CASE ListRows \/ CheckRow \/ RecheckRow \/ Heal
  BY <1>8 DEF ListRows, CheckRow, RecheckRow, Heal, store, pass
<1>9. CASE Restart
  BY <1>9 DEF Restart, store
<1>10. CASE UNCHANGED blobVars
  BY <1>10 DEF blobVars, store, walk, pass, others
<1> QED
  BY <1>1, <1>2, <1>3, <1>4, <1>5, <1>6, <1>7, <1>8, <1>9, <1>10 DEF Next, GcNext

\* "Never a live row pointing at deleted bytes" holds, whatever fails and
\* whenever the process restarts, as long as no upload of the same bytes is
\* under way between the deletion of a row and the unlinking of its file: that
\* overlap is the only way the order of sweep_expired_owner and purge_account
\* leaves open.
THEOREM RowsKeepTheirFiles ==
  Spec /\ NoUploadMeetsUnlink => []RowHasFile
<1>1. Init => FileInv
  BY DEF Init, FileInv, FilePending
<1>2. FileInv /\ (FilePending => uploads = {}) /\ [Next]_blobVars => FileInv'
  BY FileStep
<1>3. FileInv => RowHasFile
  BY DEF FileInv, RowHasFile
<1> QED
  BY <1>1, <1>2, <1>3, PTL DEF Spec, NoUploadMeetsUnlink
=============================================================================
