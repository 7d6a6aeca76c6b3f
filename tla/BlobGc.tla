------------------------------- MODULE BlobGc -------------------------------
(***************************************************************************)
(* One blob, its file, and the accounts that share it: upload, records     *)
(* that reference it, the collector's pass (reconcile every account, then  *)
(* sweep expired owners, their row and their file), account deletion, and  *)
(* the scrub that heals a missing file from the mirror.                    *)
(*                                                                         *)
(* An account's records are in its public repository and in its space      *)
(* repositories.  The collector reads the public repository as of one      *)
(* root, and then the space records page by page as they are when each     *)
(* page is read, so that a record may move past it.  Every statement and   *)
(* every file operation is a step: uploads, record writes and deletions    *)
(* fall between any two of them.                                           *)
(***************************************************************************)
EXTENDS Naturals

CONSTANTS
  Accounts,    \* accounts that hold the same bytes
  NoAccount,   \* in place of an account: none
  Pages,       \* pages of space records the collector reads of an account
  MaxFaults    \* bound: failed steps and process restarts

BlobAssumption ==
  NoAccount \notin Accounts /\ Pages \in Nat \ {0} /\ MaxFaults \in Nat

VARIABLES
  blobRow,     \* the row in blobs exists
  blobFile,    \* the file exists
  own,         \* blob_owners: "none", "temp" (in grace), "lapsed" or "kept"
  refs,        \* of each account, the places with a record that references the blob
  gone,        \* accounts deleted
  uploads,     \* uploads that stored the file and not yet the row
  gcStep,      \* where the collector's pass is
  todo,        \* accounts left to reconcile, then owners left to sweep
  current,     \* the account it is at
  place,       \* the page its walk reads next
  found,       \* the walk found a reference
  skip,        \* unreconciled
  purging,     \* deletions that still have the file to unlink
  scrub,       \* the scrub: "idle", "listed" (its row), "missing" (file) or "checked"
  faults,      \* faults so far
  pinned,      \* the places of those who owned and used the blob since the pass began
  leaked       \* a fault left the row without an owner

store    == <<blobRow, blobFile, own>>
walk     == <<current, place, found>>
pass     == <<gcStep, todo, walk, skip, pinned>>
others   == <<uploads, purging, scrub>>
trouble  == <<faults, leaked>>
blobVars == <<store, refs, gone, pass, others, trouble>>

\* Where records are, in the order of the collector's walk: the public
\* repository, then the space records in the order of their keys.
Places == 0..Pages

Nowhere == [a \in Accounts |-> {}]

Init ==
  /\ blobRow = FALSE /\ blobFile = FALSE /\ own = [a \in Accounts |-> "none"]
  /\ refs = Nowhere /\ gone = {} /\ uploads = {}
  /\ gcStep = "idle" /\ todo = {} /\ current = NoAccount /\ place = 0 /\ found = FALSE
  /\ skip = {} /\ purging = {} /\ scrub = "idle"
  /\ faults = 0 /\ pinned = Nowhere /\ leaked = FALSE

Unowned == \A a \in Accounts : own[a] = "none"

-----------------------------------------------------------------------------
(* Uploads, records and the clock.                                         *)

\* store_blob: the file appears at once, by rename.
StoreFile(a) ==
  /\ a \notin gone \cup uploads
  /\ blobFile' = TRUE
  /\ uploads' = uploads \cup {a}
  /\ UNCHANGED <<blobRow, own, refs, gone, pass, purging, scrub, trouble>>

\* insert_blob: the row, if it is new, and the owner; the grace clock restarts
\* unless records use the blob.
InsertBlob(a) ==
  /\ a \in uploads \ gone
  /\ blobRow' = TRUE
  /\ own' = [own EXCEPT ![a] = IF @ = "kept" THEN @ ELSE "temp"]
  /\ uploads' = uploads \ {a}
  /\ leaked' = FALSE
  /\ UNCHANGED <<blobFile, refs, gone, pass, purging, scrub, faults>>

\* The upload is dropped, or its account is gone: the file stays.
DropUpload(a) ==
  /\ a \in uploads
  /\ uploads' = uploads \ {a}
  /\ UNCHANGED <<store, refs, gone, pass, purging, scrub, trouble>>

\* Fault: the account is not looked at again.
AnyAccount(a) == TRUE

\* The account the write began for still exists when it commits.
AcceptsWrites(a) == a \notin gone

\* The walk of the account has passed the place without finding a reference.
Behind(a, p) == gcStep = "walk" /\ current = a /\ ~found /\ p < place

\* A record write, of either kind, refers to any CID; whether the blob exists is
\* not checked.  An account that used the blob uses it on, unless the walk would
\* have to go back for it.
PutRecord(a, p) ==
  /\ AcceptsWrites(a) /\ p \notin refs[a]
  /\ refs' = [refs EXCEPT ![a] = @ \cup {p}]
  /\ pinned' = [pinned EXCEPT ![a] = IF @ = {} \/ Behind(a, p) THEN @ ELSE @ \cup {p}]
  /\ UNCHANGED <<store, gone, gcStep, todo, walk, skip, others, trouble>>

DeleteRecord(a, p) ==
  /\ p \in refs[a]
  /\ refs' = [refs EXCEPT ![a] = @ \ {p}]
  /\ pinned' = [pinned EXCEPT ![a] = @ \ {p}]
  /\ UNCHANGED <<store, gone, gcStep, todo, walk, skip, others, trouble>>

\* temp_until passes.
Lapse(a) ==
  /\ own[a] = "temp"
  /\ own' = [own EXCEPT ![a] = "lapsed"]
  /\ UNCHANGED <<blobRow, blobFile, refs, gone, pass, others, trouble>>

-----------------------------------------------------------------------------
(* The collector: phase 1 reconciles, phase 2 sweeps.                      *)

BeginPass ==
  /\ gcStep = "idle"
  /\ gcStep' = "reconcile"
  /\ todo' = Accounts \ gone
  /\ skip' = {}
  /\ pinned' = [a \in Accounts |-> IF own[a] = "none" THEN {} ELSE refs[a]]
  /\ UNCHANGED <<store, refs, gone, walk, others, trouble>>

\* collect_referenced_blob_cids: the public repository, as of the root it reads.
Walk(a) ==
  /\ gcStep = "reconcile" /\ a \in todo
  /\ gcStep' = "walk"
  /\ current' = a /\ place' = 1
  /\ found' = (0 \in refs[a])
  /\ todo' = todo \ {a}
  /\ UNCHANGED <<store, refs, gone, skip, pinned, others, trouble>>

\* ... and the space records, one query for each page.
ReadPage ==
  LET last == place = Pages IN
  /\ gcStep = "walk"
  /\ found' = (found \/ place \in refs[current])
  /\ gcStep' = IF last THEN "apply" ELSE "walk"
  /\ place' = IF last THEN 0 ELSE place + 1
  /\ UNCHANGED <<store, refs, gone, todo, current, skip, pinned, others, trouble>>

\* Fault: an account that could not be walked is swept like any other.
SweepAnyway(a) == skip

\* The guard of phase 2: accounts that could not be reconciled are excluded.
Exclude(a) == skip \cup {a}

\* The walk fails, also halfway: an unreadable repository, or one whose blocks
\* were collected behind a root that moved.
WalkFails(a) ==
  /\ faults < MaxFaults
  /\ \/ gcStep = "reconcile" /\ a \in todo
     \/ gcStep = "walk" /\ a = current
  /\ faults' = faults + 1
  /\ gcStep' = "reconcile"
  /\ skip' = Exclude(a)
  /\ todo' = todo \ {a}
  /\ current' = NoAccount /\ place' = 0 /\ found' = FALSE
  /\ UNCHANGED <<store, refs, gone, pinned, others, leaked>>

\* Fault: every pass starts the clock again.
RestartClock(state) == IF state \in {"kept", "lapsed"} THEN "temp" ELSE state

\* release_owner: only a permanent owner starts its grace clock.
ReleaseOwner(state) == IF state = "kept" THEN "temp" ELSE state

\* upsert_owner_referenced: pin, or adopt what the account never uploaded, if
\* the blob and the account exist; otherwise release.
Apply ==
  /\ gcStep = "apply"
  /\ gcStep' = "reconcile"
  /\ own' = [own EXCEPT ![current] =
                IF ~found THEN ReleaseOwner(@)
                ELSE IF blobRow /\ current \notin gone THEN "kept" ELSE @]
  /\ leaked' = (leaked /\ \A a \in Accounts : own'[a] = "none")
  /\ current' = NoAccount /\ found' = FALSE
  /\ UNCHANGED <<blobRow, blobFile, refs, gone, todo, place, skip, pinned, others, faults>>

\* list_expired_temp_owners, without the accounts to skip.
ListExpired ==
  /\ gcStep = "reconcile" /\ todo = {}
  /\ gcStep' = "sweep"
  /\ todo' = {a \in Accounts : own[a] = "lapsed"} \ skip
  /\ UNCHANGED <<store, refs, gone, walk, skip, pinned, others, trouble>>

\* Fault: the candidate list is trusted.
AsListed(a) == TRUE

\* The WHERE of delete_expired_owner.
StillExpired(a) == own[a] = "lapsed"

DeleteExpiredOwner(a) ==
  /\ gcStep = "sweep" /\ a \in todo
  /\ todo' = todo \ {a}
  /\ own' = [own EXCEPT ![a] = IF StillExpired(a) THEN "none" ELSE @]
  /\ gcStep' = IF StillExpired(a) THEN "reclaim" ELSE "sweep"
  /\ UNCHANGED <<blobRow, blobFile, refs, gone, walk, skip, pinned,
                 others, trouble>>

\* delete_blob_if_unowned: the check and the delete are one statement.
DeleteRow ==
  /\ gcStep = "reclaim"
  /\ blobRow' = (blobRow /\ ~Unowned)
  /\ gcStep' = IF blobRow /\ Unowned THEN "unlink" ELSE "sweep"
  /\ leaked' = (leaked /\ blobRow')
  /\ UNCHANGED <<blobFile, own, refs, gone, todo, walk, skip, pinned, others, faults>>

\* delete_blob_file, after the row.
Unlink ==
  /\ gcStep = "unlink"
  /\ blobFile' = FALSE
  /\ gcStep' = "sweep"
  /\ UNCHANGED <<blobRow, own, refs, gone, todo, walk, skip, pinned,
                 others, trouble>>

\* A statement of the sweep fails: this owner is given up, the pass goes on.
SweepFails ==
  /\ faults < MaxFaults
  /\ gcStep \in {"reclaim", "unlink"}
  /\ faults' = faults + 1
  /\ gcStep' = "sweep"
  /\ leaked' = (leaked \/ (blobRow /\ Unowned))
  /\ UNCHANGED <<store, refs, gone, todo, walk, skip, pinned, others>>

EndPass ==
  /\ gcStep = "sweep" /\ todo = {}
  /\ gcStep' = "idle" /\ skip' = {} /\ pinned' = Nowhere
  /\ UNCHANGED <<store, refs, gone, todo, walk, others, trouble>>

-----------------------------------------------------------------------------
(* Account deletion, scrub and restart.                                    *)

\* purge_account: owners and unowned rows in the deletion's transaction.
DeleteAccount(a) ==
  LET last == own[a] # "none" /\ \A b \in Accounts \ {a} : own[b] = "none" IN
  /\ a \notin gone
  /\ gone' = gone \cup {a}
  /\ refs' = [refs EXCEPT ![a] = {}] /\ pinned' = [pinned EXCEPT ![a] = {}]
  /\ own' = [own EXCEPT ![a] = "none"]
  /\ blobRow' = (blobRow /\ ~last)
  /\ purging' = IF last THEN purging \cup {a} ELSE purging
  /\ UNCHANGED <<blobFile, gcStep, todo, walk, skip, uploads, scrub, trouble>>

\* ... and the files after the commit.
UnlinkPurged(a) ==
  /\ a \in purging
  /\ blobFile' = FALSE
  /\ purging' = purging \ {a}
  /\ UNCHANGED <<blobRow, own, refs, gone, pass, uploads, scrub, trouble>>

\* run_blob_scrub lists the rows once, for the whole pass.
ListRows ==
  /\ scrub = "idle" /\ blobRow
  /\ scrub' = "listed"
  /\ UNCHANGED <<store, refs, gone, pass, uploads, purging, trouble>>

\* check_row, of a row that may be gone since.
CheckRow ==
  /\ scrub = "listed"
  /\ scrub' = IF blobFile THEN "idle" ELSE "missing"
  /\ UNCHANGED <<store, refs, gone, pass, uploads, purging, trouble>>

\* heal: the mirror's copy, if it has one, and a second look at the row, then
\* the file.
RecheckRow ==
  /\ scrub = "missing"
  /\ scrub' \in {"idle"} \cup (IF blobRow THEN {"checked"} ELSE {})
  /\ UNCHANGED <<store, refs, gone, pass, uploads, purging, trouble>>

Heal ==
  /\ scrub = "checked"
  /\ blobFile' = TRUE
  /\ scrub' = "idle"
  /\ UNCHANGED <<blobRow, own, refs, gone, pass, uploads, purging, trouble>>

\* The process restarts: what was under way is lost.
Restart ==
  /\ faults < MaxFaults
  /\ gcStep # "idle" \/ uploads # {} \/ purging # {} \/ scrub # "idle"
  /\ faults' = faults + 1
  /\ leaked' = (leaked \/ (blobRow /\ Unowned))
  /\ gcStep' = "idle" /\ todo' = {}
  /\ current' = NoAccount /\ place' = 0 /\ found' = FALSE
  /\ skip' = {} /\ pinned' = Nowhere /\ uploads' = {} /\ purging' = {} /\ scrub' = "idle"
  /\ UNCHANGED <<store, refs, gone>>

GcNext ==
  \/ BeginPass \/ ReadPage \/ Apply \/ ListExpired \/ DeleteRow \/ Unlink \/ EndPass
  \/ \E a \in Accounts : Walk(a) \/ DeleteExpiredOwner(a)

Next ==
  \/ \E a \in Accounts :
       \/ StoreFile(a) \/ InsertBlob(a) \/ DropUpload(a)
       \/ \E p \in Places : PutRecord(a, p) \/ DeleteRecord(a, p)
       \/ Lapse(a) \/ WalkFails(a) \/ DeleteAccount(a) \/ UnlinkPurged(a)
  \/ GcNext
  \/ SweepFails \/ ListRows \/ CheckRow \/ RecheckRow \/ Heal \/ Restart

Spec == Init /\ [][Next]_blobVars

\* The collector runs on a timer and each of its passes is driven to its end;
\* grace periods end.
Fairness == WF_blobVars(GcNext) /\ \A a \in Accounts : WF_blobVars(Lapse(a))

FairSpec == Spec /\ Fairness

-----------------------------------------------------------------------------
\* Types; records are those of accounts that exist, and what is pinned is in use.
TypeOK ==
  /\ blobRow \in BOOLEAN /\ blobFile \in BOOLEAN
  /\ own \in [Accounts -> {"none", "temp", "lapsed", "kept"}]
  /\ gone \subseteq Accounts /\ uploads \subseteq Accounts /\ purging \subseteq gone
  /\ refs \in [Accounts -> SUBSET Places] /\ \A a \in gone : refs[a] = {}
  /\ pinned \in [Accounts -> SUBSET Places] /\ \A a \in Accounts : pinned[a] \subseteq refs[a]
  /\ gcStep \in {"idle", "reconcile", "walk", "apply", "sweep", "reclaim", "unlink"}
  /\ todo \subseteq Accounts /\ skip \subseteq Accounts
  /\ current \in Accounts \cup {NoAccount} /\ place \in Places /\ found \in BOOLEAN
  /\ scrub \in {"idle", "listed", "missing", "checked"}
  /\ faults \in 0..MaxFaults /\ leaked \in BOOLEAN

\* A blob in use is not collected: an account whose records used the blob, and
\* which owned it, when the pass began keeps its ownership to the end of the
\* pass as long as a record uses it, also when its walk failed and whatever the
\* pass does to the other owners of the bytes.  The record may be another one,
\* in another repository, except that a use which moves behind the walk of its
\* account before the walk has met it is not seen: see Behind.
ReferencedSurvives == \A a \in Accounts : pinned[a] # {} => blobRow /\ own[a] # "none"

\* An upload has its grace period: an owner that is permanent or whose clock
\* runs goes only with its account, though the pass listed it as expired before
\* it was uploaded again.
GraceKept ==
  [][\A a \in Accounts :
       own[a] \in {"temp", "kept"} /\ own'[a] = "none" => a \in gone']_blobVars

\* "A blob that fell out of every record is eventually collected": if at some
\* time no record uses it and no upload is under way for good, its row goes,
\* unless a fault interrupted its sweep.
Collected ==
  <>[](refs = Nowhere /\ uploads = {}) => []<>(~blobRow \/ leaked)

\* "Never a live row pointing at deleted bytes".
RowHasFile == blobRow => blobFile
=============================================================================
