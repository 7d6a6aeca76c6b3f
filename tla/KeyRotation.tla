---------------------------- MODULE KeyRotation ----------------------------
(***************************************************************************)
(* The rotation of one account's repository signing key: the PDS stages a  *)
(* fresh key, the wallet signs an operation that installs it, and          *)
(* complete_repo_key_rotation submits the operation to the directory and   *)
(* promotes the key, under the lock that commits hold.  Keys and           *)
(* operations are numbered in the order they are made; key 0 and operation *)
(* 0 are those the account was created with.  The directory (external)     *)
(* accepts an operation that chains onto its head.                         *)
(***************************************************************************)
EXTENDS Naturals

CONSTANTS
  Completions, \* concurrent calls of complete_repo_key_rotation
  Nobody,      \* in place of a completion: the lock is free
  MaxKeys,     \* bound: keys staged
  MaxOps       \* bound: directory operations built

RotationAssumption == Nobody \notin Completions /\ MaxKeys \in Nat /\ MaxOps \in Nat

VARIABLES
  activeKey,   \* signing_keys: the row with status 'active'
  stagedKey,   \* signing_keys: the row with status 'staged', 0 for none
  minted,      \* keys staged so far
  opKey,       \* the atproto key of each operation
  opPrev,      \* prev of each operation
  built,       \* operations built so far
  head,        \* the head of the directory's log
  rot,         \* progress of each completion
  rotOp,       \* the operation it was given
  landed,      \* it read that operation as the head: already_landed
  writeLock,   \* the completion that holds the account's write lock
  interrupted, \* a completion ended between the submission and the promotion
  restaged,    \* a staged key was replaced while an operation for it was out
  strays       \* a commit was signed by a key the document did not name

keyRows      == <<activeKey, stagedKey, minted>>
directory    == <<opKey, opPrev, built, head>>
completion   == <<rot, rotOp, landed, writeLock>>
rotationVars == <<keyRows, directory, completion, interrupted, restaged, strays>>

Ops == 0..MaxOps

documentKey == opKey[head]

Init ==
  /\ activeKey = 0 /\ stagedKey = 0 /\ minted = 0
  /\ opKey = [n \in Ops |-> 0] /\ opPrev = [n \in Ops |-> 0]
  /\ built = 0 /\ head = 0
  /\ rot = [c \in Completions |-> "idle"] /\ rotOp = [c \in Completions |-> 0]
  /\ landed = [c \in Completions |-> FALSE] /\ writeLock = Nobody
  /\ interrupted = FALSE /\ restaged = FALSE /\ strays = FALSE

\* begin_repo_key_rotation: always a fresh key, in place of any staged one; the
\* write lock is not taken.
Begin ==
  /\ minted < MaxKeys
  /\ minted' = minted + 1
  /\ stagedKey' = minted'
  /\ restaged' = (restaged \/ (stagedKey # 0 /\ \E n \in 1..built : opKey[n] = stagedKey))
  /\ UNCHANGED <<activeKey, directory, completion, interrupted, strays>>

\* The wallet signs an operation for a key it was told of, onto the head it
\* fetched; its guard refuses a key the document names already.
SignOp(k) ==
  /\ built < MaxOps
  /\ k # documentKey
  /\ built' = built + 1
  /\ opKey' = [opKey EXCEPT ![built'] = k]
  /\ opPrev' = [opPrev EXCEPT ![built'] = head]
  /\ UNCHANGED <<keyRows, head, completion, interrupted, restaged, strays>>

\* Another operation of the wallet, such as a handle change: the key stays.
UpdateIdentity ==
  /\ built < MaxOps
  /\ built' = built + 1
  /\ opKey' = [opKey EXCEPT ![built'] = documentKey]
  /\ opPrev' = [opPrev EXCEPT ![built'] = head]
  /\ head' = built'
  /\ UNCHANGED <<keyRows, completion, interrupted, restaged, strays>>

-----------------------------------------------------------------------------
(* complete_repo_key_rotation.                                             *)

Advance(c, where) == rot' = [rot EXCEPT ![c] = where]

\* fetch_current_plc_state: the operation chains onto the head, or is the head.
FetchHead(c, n) ==
  /\ rot[c] = "idle"
  /\ n = head \/ opPrev[n] = head
  /\ Advance(c, "fetched")
  /\ rotOp' = [rotOp EXCEPT ![c] = n]
  /\ landed' = [landed EXCEPT ![c] = (n = head)]
  /\ UNCHANGED <<keyRows, directory, writeLock, interrupted, restaged, strays>>

\* The request ends, and with it its hold of the lock.
End(c) ==
  /\ Advance(c, "idle")
  /\ rotOp' = [rotOp EXCEPT ![c] = 0]
  /\ landed' = [landed EXCEPT ![c] = FALSE]
  /\ writeLock' = IF writeLock = c THEN Nobody ELSE writeLock

\* Fault: that a key is staged is enough.
AnyStaged(c) == stagedKey # 0

\* The operation must install exactly the staged key.
InstallsStaged(c) == stagedKey # 0 /\ opKey[rotOp[c]] = stagedKey

ReadStaged(c) ==
  /\ rot[c] = "fetched"
  /\ InstallsStaged(c)
  /\ Advance(c, "waiting")
  /\ UNCHANGED <<keyRows, directory, rotOp, landed, writeLock, interrupted, restaged, strays>>

TakeLock(c) ==
  /\ rot[c] = "waiting" /\ writeLock = Nobody
  /\ Advance(c, IF landed[c] THEN "accepted" ELSE "locked")
  /\ writeLock' = c
  /\ UNCHANGED <<keyRows, directory, rotOp, landed, interrupted, restaged, strays>>

\* The directory's answer to post_to_plc_directory, or none: then the call has
\* failed though the operation is in.
Submit(c, answered) ==
  /\ rot[c] = "locked"
  /\ opPrev[rotOp[c]] = head
  /\ head' = rotOp[c]
  /\ interrupted' = (interrupted \/ ~answered)
  /\ IF answered
       THEN Advance(c, "accepted") /\ UNCHANGED <<rotOp, landed, writeLock>>
       ELSE End(c)
  /\ UNCHANGED <<keyRows, opKey, opPrev, built, restaged, strays>>

\* Promote and delete the retired row in one transaction, then unlock.  A key
\* that is no longer staged is an error, unless it is active: nothing changes.
Promote(c) ==
  LET k == opKey[rotOp[c]] IN
  /\ rot[c] = "accepted"
  /\ IF stagedKey = k THEN activeKey' = k /\ stagedKey' = 0
                      ELSE UNCHANGED <<activeKey, stagedKey>>
  /\ End(c)
  /\ UNCHANGED <<minted, directory, interrupted, restaged, strays>>

\* A check refuses, the directory refuses or a statement fails, the request is
\* dropped, or nothing was left to do (a repeat after full promotion).
Leave(c) ==
  /\ rot[c] # "idle"
  /\ End(c)
  /\ interrupted' = (interrupted \/ rot[c] = "accepted")
  /\ UNCHANGED <<keyRows, directory, restaged, strays>>

\* Fault: the key is read before the lock is taken.
AnyTime == TRUE

\* A repository write waits for the account's write lock.
LockIsFree == writeLock = Nobody

\* Then it reads the active key and signs the commit.
Commit ==
  /\ LockIsFree
  /\ strays' = (strays \/ activeKey # documentKey)
  /\ UNCHANGED <<keyRows, directory, completion, interrupted, restaged>>

Complete(c) ==
  \/ ReadStaged(c) \/ TakeLock(c) \/ Promote(c) \/ Leave(c)
  \/ \E answered \in BOOLEAN : Submit(c, answered)

Next ==
  \/ Begin \/ UpdateIdentity \/ Commit
  \/ \E k \in 1..minted : SignOp(k)
  \/ \E c \in Completions, n \in 1..built : FetchHead(c, n)
  \/ \E c \in Completions : Complete(c)

Spec == Init /\ [][Next]_rotationVars

-----------------------------------------------------------------------------
\* Types of the key rows, the directory and the completions.
TypeOK ==
  /\ activeKey \in 0..MaxKeys /\ stagedKey \in 0..MaxKeys /\ minted \in 0..MaxKeys
  /\ opKey \in [Ops -> 0..MaxKeys] /\ opPrev \in [Ops -> Ops]
  /\ built \in Ops /\ head \in Ops
  /\ rot \in [Completions -> {"idle", "fetched", "waiting", "locked", "accepted"}]
  /\ rotOp \in [Completions -> Ops] /\ landed \in [Completions -> BOOLEAN]
  /\ writeLock \in Completions \cup {Nobody}
  /\ interrupted \in BOOLEAN /\ restaged \in BOOLEAN /\ strays \in BOOLEAN

\* The private half of the document's key is never deleted, unless a new
\* rotation was begun while the operation of the last one was out: lost answers
\* and dropped requests between submission and promotion keep it.
DocumentKeyHeld ==
  documentKey = activeKey \/ (stagedKey # 0 /\ documentKey = stagedKey) \/ restaged

\* "Holding the write lock across submit+promote guarantees no commit is ever
\* signed by a key absent from the DID document": so it is, unless a completion
\* ended between the two, its answer lost or its request dropped, or its key was
\* replaced meanwhile.
CommitsVerify == strays => interrupted \/ restaged
=============================================================================
