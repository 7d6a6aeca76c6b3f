------------------------- MODULE KeyRotationProofs -------------------------
(***************************************************************************)
(* The private half of the document's key is kept, and commits verify, for *)
(* any number of keys, operations and concurrent completions.  Two facts   *)
(* carry the argument.  The directory's head only grows, so an operation   *)
(* that still chains onto it was built for the document as it is; and the  *)
(* wallet never signs the key the document already names, so a key that    *)
(* such an operation installs cannot have been promoted meanwhile.         *)
(***************************************************************************)
EXTENDS MCIdentity, MigrationProofs

Built == 1..built

\* The log: operations chain backwards, none is built ahead of the head, and one
\* that can still land installs another key.
OpsInv ==
  /\ head <= built /\ activeKey <= minted /\ stagedKey <= minted /\ opKey[0] = 0
  /\ \A n \in Built :
       /\ opPrev[n] < n /\ opPrev[n] <= head /\ opKey[n] <= minted
       /\ opPrev[n] = head => opKey[n] # documentKey
  /\ \A c \in Completions : rot[c] # "idle" => rotOp[c] \in Built

\* The lock is held from its taking to the promotion, and only an operation that
\* has not landed is about to be submitted.
LockInv ==
  \A c \in Completions :
    /\ rot[c] \in {"locked", "accepted"} <=> writeLock = c
    /\ rot[c] = "locked" => ~landed[c]

\* The check for the staged key lets no operation pass that keeps the first key.
InstallsInv ==
  \A c \in Completions :
    rot[c] \in {"waiting", "locked", "accepted"} => opKey[rotOp[c]] # 0

\* A completion past its check that can still submit installs the staged key.
StagedInv ==
  \A c \in Completions :
    rot[c] \in {"waiting", "locked"} /\ ~landed[c] /\ opPrev[rotOp[c]] = head =>
      restaged \/ (stagedKey # 0 /\ opKey[rotOp[c]] = stagedKey)

\* A completion that submitted its operation has it in the document, and its key
\* is still the staged one.
AcceptedInv ==
  \A c \in Completions :
    rot[c] = "accepted" /\ ~landed[c] =>
      /\ opKey[rotOp[c]] = documentKey
      /\ restaged \/ (stagedKey # 0 /\ stagedKey = documentKey)

\* A completion that found its operation landed promotes the document's key, if
\* it promotes any.
LandedInv ==
  \A c \in Completions :
    rot[c] # "idle" /\ landed[c] /\ stagedKey # 0 /\ opKey[rotOp[c]] = stagedKey =>
      restaged \/ stagedKey = documentKey

\* The active key is the document's, except between submission and promotion.
ActiveKeyInv ==
  \/ interrupted \/ restaged \/ activeKey = documentKey
  \/ \E c \in Completions : rot[c] = "accepted" /\ ~landed[c]

-----------------------------------------------------------------------------
(* The type invariant, in parts.                                           *)

KeysOK == activeKey \in 0..MaxKeys /\ stagedKey \in 0..MaxKeys /\ minted \in 0..MaxKeys

LogOK ==
  opKey \in [Ops -> 0..MaxKeys] /\ opPrev \in [Ops -> Ops] /\ built \in Ops /\ head \in Ops

RunsOK ==
  /\ rot \in [Completions -> {"idle", "fetched", "waiting", "locked", "accepted"}]
  /\ rotOp \in [Completions -> Ops] /\ writeLock \in Completions \cup {Nobody}

FlagsOK ==
  /\ landed \in [Completions -> BOOLEAN]
  /\ interrupted \in BOOLEAN /\ restaged \in BOOLEAN /\ strays \in BOOLEAN

RotationTyped == KeysOK /\ LogOK /\ RunsOK /\ FlagsOK

KeysInv ==
  /\ RotationTyped /\ OpsInv /\ LockInv /\ InstallsInv
  /\ StagedInv /\ AcceptedInv /\ LandedInv /\ ActiveKeyInv
  /\ DocumentKeyHeld /\ CommitsVerify

\* Every step keeps the types.
LEMMA RotationTypeStep ==
  ASSUME RotationAssumption, RotationTyped, [Next]_rotationVars PROVE RotationTyped'
<1>. USE DEF RotationAssumption, RotationTyped
<1>1. CASE Begin
  <2>1. KeysOK'
    BY <1>1 DEF Begin, KeysOK
  <2>2. LogOK' /\ RunsOK'
    BY <1>1 DEF Begin, LogOK, RunsOK, directory, completion
  <2>3. FlagsOK'
    BY <1>1, Zenon DEF Begin, FlagsOK, completion
  <2>. QED BY <2>1, <2>2, <2>3
<1>2. CASE UpdateIdentity \/ (\E k \in 1..minted : SignOp(k))
  <2>1. KeysOK' /\ RunsOK'
    BY <1>2 DEF UpdateIdentity, SignOp, KeysOK, RunsOK, keyRows, completion
  <2>2. LogOK'
    <3>0. built < MaxOps /\ built' = built + 1 /\ (head' = built' \/ head' = head)
      BY <1>2 DEF UpdateIdentity, SignOp
    <3>. built \in 0..MaxOps /\ head \in Ops
      BY DEF LogOK, Ops
    <3>. built' \in 0..MaxOps
      BY <3>0
    <3>1. built' \in Ops /\ head' \in Ops
      BY <3>0 DEF Ops
    <3>2. PICK k \in 0..MaxKeys : opKey' = [opKey EXCEPT ![built'] = k]
      BY <1>2 DEF UpdateIdentity, SignOp, documentKey, KeysOK, LogOK
    <3>3. opPrev' = [opPrev EXCEPT ![built'] = head]
      BY <1>2 DEF UpdateIdentity, SignOp
    <3>. QED BY <3>1, <3>2, <3>3 DEF LogOK
  <2>3. FlagsOK'
    BY <1>2, Zenon DEF UpdateIdentity, SignOp, FlagsOK, completion
  <2>. QED BY <2>1, <2>2, <2>3
<1>3. CASE Commit
  <2>1. KeysOK' /\ LogOK' /\ RunsOK'
    BY <1>3 DEF Commit, KeysOK, LogOK, RunsOK, keyRows, directory, completion
  <2>2. FlagsOK'
    BY <1>3, Zenon DEF Commit, FlagsOK, completion
  <2>. QED BY <2>1, <2>2
<1>4. ASSUME NEW c \in Completions, NEW n \in 1..built, FetchHead(c, n) PROVE RotationTyped'
  <2>1. KeysOK' /\ LogOK'
    BY <1>4 DEF FetchHead, KeysOK, LogOK, keyRows, directory
  <2>2. n \in Ops
    BY DEF LogOK, Ops
  <2>. RunsOK'
    BY <1>4, <2>2 DEF FetchHead, Advance, RunsOK
  <2>3. FlagsOK'
    BY <1>4 DEF FetchHead, FlagsOK
  <2>. QED BY <2>1, <2>2, <2>3
<1>5. ASSUME NEW c \in Completions, ReadStaged(c) \/ TakeLock(c) PROVE RotationTyped'
  <2>1. KeysOK' /\ LogOK'
    BY <1>5 DEF ReadStaged, TakeLock, KeysOK, LogOK, keyRows, directory
  <2>2. RunsOK'
    BY <1>5 DEF ReadStaged, TakeLock, Advance, RunsOK
  <2>3. FlagsOK'
    BY <1>5, Zenon DEF ReadStaged, TakeLock, FlagsOK
  <2>. QED BY <2>1, <2>2, <2>3
<1>6. ASSUME NEW c \in Completions, NEW answered \in BOOLEAN, Submit(c, answered)
      PROVE  RotationTyped'
  <2>1. KeysOK' /\ LogOK'
    BY <1>6 DEF Submit, KeysOK, LogOK, RunsOK, keyRows
  <2>2. RunsOK'
    BY <1>6 DEF Submit, End, Advance, RunsOK, Ops
  <2>3. landed' \in [Completions -> BOOLEAN]
    BY <1>6 DEF Submit, End, FlagsOK
  <2>4. FlagsOK'
    BY <1>6, <2>3, Zenon DEF Submit, FlagsOK
  <2>. QED BY <2>1, <2>2, <2>4
<1>7. ASSUME NEW c \in Completions, Promote(c) \/ Leave(c) PROVE RotationTyped'
  <2>1. KeysOK' /\ LogOK'
    BY <1>7 DEF Promote, Leave, KeysOK, LogOK, RunsOK, keyRows, directory
  <2>2. RunsOK'
    BY <1>7 DEF Promote, Leave, End, Advance, RunsOK, Ops
  <2>3. landed' \in [Completions -> BOOLEAN]
    BY <1>7 DEF Promote, Leave, End, FlagsOK
  <2>4. FlagsOK'
    BY <1>7, <2>3, Zenon DEF Promote, Leave, FlagsOK
  <2>. QED BY <2>1, <2>2, <2>4
<1>8. CASE UNCHANGED rotationVars
  <2>1. KeysOK' /\ LogOK' /\ RunsOK'
    BY <1>8 DEF rotationVars, keyRows, directory, completion, KeysOK, LogOK, RunsOK
  <2>2. FlagsOK'
    BY <1>8, Zenon DEF rotationVars, completion, FlagsOK
  <2>. QED BY <2>1, <2>2
<1>. QED BY <1>1, <1>2, <1>3, <1>4, <1>5, <1>6, <1>7, <1>8 DEF Next, Complete

-----------------------------------------------------------------------------
(* The log and the lock.                                                   *)

\* Every step keeps the log well-formed: the head moves to an operation chained
\* onto it.
LEMMA OpsStep ==
  ASSUME RotationAssumption, KeysOK, LogOK, RunsOK, OpsInv, [Next]_rotationVars
  PROVE  OpsInv'
<1>0. /\ built \in Nat /\ head \in Nat /\ minted \in Nat /\ activeKey \in Nat
      /\ stagedKey \in Nat /\ 0 \in Ops /\ Built \subseteq Ops \ {0}
      /\ \A n \in Ops : opPrev[n] \in Nat /\ opKey[n] \in Nat
  BY DEF RotationAssumption, KeysOK, LogOK, Ops, Built
<1>1. CASE Begin
  <2>1. /\ UNCHANGED <<opKey, opPrev, built, head, rot, rotOp, activeKey>>
        /\ minted' = minted + 1 /\ stagedKey' = minted'
    BY <1>1 DEF Begin, directory, completion
  <2>2. Built' = Built /\ documentKey' = documentKey
    BY <2>1 DEF Built, documentKey
  <2>. QED BY <1>0, <2>1, <2>2 DEF OpsInv
<1>2. CASE UpdateIdentity
  <2>1. /\ built < MaxOps /\ built' = built + 1 /\ head' = built'
        /\ opKey' = [opKey EXCEPT ![built'] = documentKey]
        /\ opPrev' = [opPrev EXCEPT ![built'] = head]
        /\ UNCHANGED <<rot, rotOp, activeKey, stagedKey, minted>>
    BY <1>2 DEF UpdateIdentity, keyRows, completion
  <2>2. documentKey <= minted
    BY <1>0 DEF documentKey, OpsInv, Built
  <2>3. built' \in Ops /\ built' \notin Built /\ Built' = Built \cup {built'} /\ built' # 0
    BY <1>0, <2>1 DEF Built, Ops, RotationAssumption
  <2>4. /\ opPrev'[built'] = head /\ opKey'[built'] = documentKey /\ opKey'[0] = 0
        /\ \A n \in Built : opPrev'[n] = opPrev[n] /\ opKey'[n] = opKey[n]
    BY <1>0, <2>1, <2>3 DEF LogOK, OpsInv
  <2>5. \A n \in Built' : opPrev'[n] < n /\ opPrev'[n] < head' /\ opKey'[n] <= minted
    BY <1>0, <2>1, <2>2, <2>3, <2>4 DEF OpsInv
  <2>6. \A n \in Built' : opPrev'[n] # head'
    BY <1>0, <2>1, <2>3, <2>4 DEF OpsInv
  <2>. QED BY <1>0, <2>1, <2>3, <2>4, <2>5, <2>6 DEF OpsInv
<1>3. CASE Commit \/ UNCHANGED rotationVars
  BY <1>3 DEF Commit, rotationVars, keyRows, directory, completion, OpsInv, Built, documentKey
<1>4. ASSUME NEW k \in 1..minted, SignOp(k) PROVE OpsInv'
  <2>1. /\ built < MaxOps /\ built' = built + 1 /\ k # documentKey
        /\ opKey' = [opKey EXCEPT ![built'] = k]
        /\ opPrev' = [opPrev EXCEPT ![built'] = head]
        /\ UNCHANGED <<rot, rotOp, activeKey, stagedKey, minted, head>>
    BY <1>4 DEF SignOp, keyRows, completion
  <2>2. built' \in Ops /\ built' \notin Built /\ Built' = Built \cup {built'} /\ built' # 0
    BY <1>0, <2>1 DEF Built, Ops, RotationAssumption
  <2>3. /\ opPrev'[built'] = head /\ opKey'[built'] = k /\ opKey'[0] = 0
        /\ \A n \in Built : opPrev'[n] = opPrev[n] /\ opKey'[n] = opKey[n]
    BY <1>0, <2>1, <2>2 DEF LogOK, OpsInv
  <2>4. head < built' /\ documentKey' = documentKey
    BY <1>0, <2>1, <2>2, <2>3 DEF OpsInv, documentKey, Built
  <2>. QED BY <1>0, <2>1, <2>2, <2>3, <2>4 DEF OpsInv
<1>5. ASSUME NEW c \in Completions, NEW n \in 1..built, FetchHead(c, n) PROVE OpsInv'
  BY <1>5 DEF FetchHead, Advance, RunsOK, keyRows, directory, OpsInv, Built, documentKey
<1>6. ASSUME NEW c \in Completions, ReadStaged(c) \/ TakeLock(c) PROVE OpsInv'
  BY <1>6 DEF ReadStaged, TakeLock, Advance, RunsOK, keyRows, directory, OpsInv, Built,
              documentKey
<1>7. ASSUME NEW c \in Completions, NEW answered \in BOOLEAN, Submit(c, answered)
      PROVE  OpsInv'
  <2>1. /\ rotOp[c] \in Built /\ opPrev[rotOp[c]] = head /\ head' = rotOp[c]
        /\ UNCHANGED <<opKey, opPrev, built, activeKey, stagedKey, minted>>
    BY <1>7 DEF Submit, keyRows, OpsInv
  <2>2. Built' = Built /\ head < head' /\ head' <= built /\ head' \in Nat
    BY <1>0, <2>1 DEF Built, OpsInv
  <2>3. \A b \in Completions : rot'[b] # "idle" => rotOp'[b] \in Built
    BY <1>7 DEF Submit, End, Advance, RunsOK, OpsInv
  <2>4. \A n \in Built : opPrev[n] < head'
    BY <1>0, <2>1, <2>2 DEF OpsInv
  <2>5. \A n \in Built : opPrev[n] <= head' /\ opPrev[n] # head'
    BY <1>0, <2>1, <2>2, <2>4
  <2>. QED BY <1>0, <2>1, <2>2, <2>3, <2>5 DEF OpsInv
<1>8. ASSUME NEW c \in Completions, Promote(c) \/ Leave(c) PROVE OpsInv'
  <2>1. \A b \in Completions : rot'[b] # "idle" => rotOp'[b] \in Built
    BY <1>8 DEF Promote, Leave, End, Advance, RunsOK, OpsInv
  <2>2. UNCHANGED <<opKey, opPrev, built, head, minted>>
    BY <1>8 DEF Promote, Leave, keyRows, directory
  <2>3. /\ activeKey' = activeKey \/ activeKey' = stagedKey
        /\ stagedKey' = stagedKey \/ stagedKey' = 0
    BY <1>8 DEF Promote, Leave, keyRows
  <2>4. Built' = Built /\ documentKey' = documentKey
    BY <2>2 DEF Built, documentKey
  <2>. QED BY <1>0, <2>1, <2>2, <2>3, <2>4 DEF OpsInv
<1>. QED BY <1>1, <1>2, <1>3, <1>4, <1>5, <1>6, <1>7, <1>8 DEF Next, Complete

\* Every step keeps the write lock with the completion that took it.
LEMMA LockStep ==
  ASSUME RotationAssumption, RunsOK, FlagsOK, LockInv, [Next]_rotationVars
  PROVE  LockInv'
<1>. USE DEF RotationAssumption, RunsOK, FlagsOK, LockInv
<1>1. CASE Begin \/ UpdateIdentity \/ Commit \/ (\E k \in 1..minted : SignOp(k))
  BY <1>1 DEF Begin, UpdateIdentity, Commit, SignOp, completion
<1>2. ASSUME NEW c \in Completions, NEW n \in 1..built, FetchHead(c, n) PROVE LockInv'
  BY <1>2 DEF FetchHead, Advance
<1>3. ASSUME NEW c \in Completions, ReadStaged(c) PROVE LockInv'
  BY <1>3 DEF ReadStaged, Advance
<1>4. ASSUME NEW c \in Completions, TakeLock(c) PROVE LockInv'
  BY <1>4 DEF TakeLock, Advance
<1>5. ASSUME NEW c \in Completions, NEW answered \in BOOLEAN, Submit(c, answered)
      PROVE  LockInv'
  BY <1>5 DEF Submit, End, Advance
<1>6. ASSUME NEW c \in Completions, Promote(c) \/ Leave(c) PROVE LockInv'
  BY <1>6 DEF Promote, Leave, End, Advance
<1>7. CASE UNCHANGED rotationVars
  BY <1>7 DEF rotationVars, completion
<1>. QED BY <1>1, <1>2, <1>3, <1>4, <1>5, <1>6, <1>7 DEF Next, Complete

-----------------------------------------------------------------------------
(* What the steps leave alone, for the rest of the invariant.              *)

\* An operation that has been built stays as it is.
LEMMA LogStable ==
  ASSUME RotationAssumption, RotationTyped, OpsInv, [Next]_rotationVars
  PROVE  \A n \in Built : n \in Built' /\ opKey'[n] = opKey[n] /\ opPrev'[n] = opPrev[n]
<1>1. built \in Nat /\ Built \subseteq Ops
  BY DEF RotationTyped, LogOK, Ops, Built, RotationAssumption
<1>2. CASE UpdateIdentity \/ (\E k \in 1..minted : SignOp(k))
  <2>1. PICK k : /\ built' = built + 1 /\ opKey' = [opKey EXCEPT ![built'] = k]
                 /\ opPrev' = [opPrev EXCEPT ![built'] = head]
    BY <1>2 DEF UpdateIdentity, SignOp
  <2>2. built' \notin Built /\ Built \subseteq Built'
    BY <1>1, <2>1 DEF Built
  <2>. QED BY <1>1, <2>1, <2>2 DEF RotationTyped, LogOK
<1>3. CASE UNCHANGED <<opKey, opPrev, built>>
  BY <1>3 DEF Built
<1>. QED BY <1>2, <1>3
         DEF Next, Complete, Begin, Commit, FetchHead, ReadStaged, TakeLock, Submit,
             Promote, Leave, rotationVars, directory

\* Only a submission or another operation moves the head, past every operation
\* built before, and another operation keeps the key.
LEMMA HeadMoves ==
  ASSUME RotationAssumption, RotationTyped, OpsInv, [Next]_rotationVars
  PROVE  \/ head' = head /\ documentKey' = documentKey
         \/ /\ UpdateIdentity /\ documentKey' = documentKey
            /\ \A n \in Built : opPrev[n] # head'
         \/ \E c \in Completions, answered \in BOOLEAN :
              /\ Submit(c, answered) /\ documentKey' = opKey[rotOp[c]]
              /\ \A n \in Built : opPrev[n] # head'
<1>0. /\ head \in Ops /\ built \in Nat /\ head \in Nat /\ Built \subseteq Nat
      /\ \A n \in Built : opPrev[n] \in Nat
  BY DEF RotationTyped, LogOK, Ops, Built, RotationAssumption
<1>1. CASE UpdateIdentity
  <2>1. /\ built' = built + 1 /\ head' = built' /\ built < MaxOps
        /\ opKey' = [opKey EXCEPT ![built'] = documentKey]
    BY <1>1 DEF UpdateIdentity
  <2>2. built' \in Ops /\ head < built'
    BY <1>0, <2>1 DEF Ops, OpsInv, RotationAssumption
  <2>3. documentKey' = documentKey
    BY <2>1, <2>2 DEF documentKey, RotationTyped, LogOK
  <2>4. \A n \in Built : opPrev[n] # head'
    BY <1>0, <2>1, <2>2 DEF OpsInv
  <2>. QED BY <1>1, <2>3, <2>4
<1>2. ASSUME NEW k \in 1..minted, SignOp(k)
      PROVE  head' = head /\ documentKey' = documentKey
  <2>1. /\ built' = built + 1 /\ head' = head /\ built < MaxOps
        /\ opKey' = [opKey EXCEPT ![built'] = k]
    BY <1>2 DEF SignOp
  <2>2. head # built'
    BY <1>0, <2>1 DEF OpsInv
  <2>. QED BY <1>0, <2>1, <2>2 DEF documentKey, RotationTyped, LogOK
<1>3. ASSUME NEW c \in Completions, NEW answered \in BOOLEAN, Submit(c, answered)
      PROVE  documentKey' = opKey[rotOp[c]] /\ \A n \in Built : opPrev[n] # head'
  <2>1. /\ rotOp[c] \in Built /\ opPrev[rotOp[c]] = head /\ head' = rotOp[c]
        /\ opKey' = opKey
    BY <1>3 DEF Submit, OpsInv
  <2>2. head < head'
    BY <1>0, <2>1 DEF OpsInv
  <2>. QED BY <1>0, <2>1, <2>2 DEF OpsInv, documentKey
<1>4. CASE UNCHANGED <<opKey, head>>
  BY <1>4 DEF documentKey
<1>. QED BY <1>1, <1>2, <1>3, <1>4
         DEF Next, Complete, Begin, Commit, FetchHead, ReadStaged, TakeLock,
             Promote, Leave, rotationVars, directory

-----------------------------------------------------------------------------
(* The completions.                                                        *)

\* A completion moves on, or keeps what it was given.
LEMMA RunMoves ==
  ASSUME RotationAssumption, RotationTyped, [Next]_rotationVars,
         NEW c \in Completions, rot'[c] # "idle"
  PROVE  \/ \E n \in Built : FetchHead(c, n) /\ rotOp'[c] = n /\ (landed'[c] <=> n = head)
         \/ rot[c] # "idle" /\ rotOp'[c] = rotOp[c] /\ (landed'[c] <=> landed[c])
BY DEF Next, Complete, Begin, UpdateIdentity, Commit, SignOp, FetchHead, ReadStaged,
       TakeLock, Submit, Promote, Leave, End, Advance, rotationVars, completion,
       RotationTyped, RunsOK, FlagsOK, Built

\* A completion past the check for the staged key has just made it, or was there.
LEMMA PastCheck ==
  ASSUME RotationAssumption, RotationTyped, [Next]_rotationVars,
         NEW c \in Completions, rot'[c] \in {"waiting", "locked", "accepted"}
  PROVE  \/ ReadStaged(c) /\ rotOp'[c] = rotOp[c] /\ rot'[c] = "waiting"
         \/ rot[c] \in {"waiting", "locked", "accepted"} /\ rotOp'[c] = rotOp[c]
BY DEF Next, Complete, Begin, UpdateIdentity, Commit, SignOp, FetchHead, ReadStaged,
       TakeLock, Submit, Promote, Leave, End, Advance, rotationVars, completion,
       RotationTyped, RunsOK

\* Every step keeps the first key out of what passed the check.
LEMMA InstallsStep ==
  ASSUME RotationAssumption, RotationTyped, OpsInv, InstallsInv, [Next]_rotationVars
  PROVE  InstallsInv'
<1>. SUFFICES ASSUME NEW c \in Completions, rot'[c] \in {"waiting", "locked", "accepted"}
              PROVE  opKey'[rotOp'[c]] # 0
  BY DEF InstallsInv
<1>1. rotOp[c] \in Built /\ opKey[rotOp[c]] # 0 /\ rotOp'[c] = rotOp[c]
  BY PastCheck DEF ReadStaged, InstallsStaged, InstallsInv, OpsInv
<1>. QED BY <1>1, LogStable

\* The staged key changes by a new rotation and by a promotion.
LEMMA StagedMoves ==
  ASSUME [Next]_rotationVars
  PROVE  \/ stagedKey' = stagedKey /\ activeKey' = activeKey
         \/ Begin
         \/ \E c \in Completions : Promote(c) /\ stagedKey = opKey[rotOp[c]]
BY DEF Next, Complete, UpdateIdentity, Commit, SignOp, FetchHead, ReadStaged,
       TakeLock, Submit, Promote, Leave, rotationVars, keyRows

\* What went wrong once is remembered.
LEMMA History ==
  ASSUME [Next]_rotationVars
  PROVE  (restaged => restaged') /\ (interrupted => interrupted')
<1>1. CASE Begin
  BY <1>1, Zenon DEF Begin
<1>2. ASSUME NEW c \in Completions, Leave(c)
      PROVE  (restaged => restaged') /\ (interrupted => interrupted')
  BY <1>2, Zenon DEF Leave
<1>3. ASSUME NEW c \in Completions, NEW answered \in BOOLEAN, Submit(c, answered)
      PROVE  (restaged => restaged') /\ (interrupted => interrupted')
  BY <1>3, Zenon DEF Submit
<1>4. CASE UNCHANGED <<restaged, interrupted>>
  BY <1>4, Zenon
<1>. QED BY <1>1, <1>2, <1>3, <1>4
         DEF Next, Complete, UpdateIdentity, Commit, SignOp, FetchHead, ReadStaged,
             TakeLock, Promote, rotationVars

\* Beginning a rotation while an operation for the staged key is out.
LEMMA BeginRestages ==
  ASSUME Begin, stagedKey # 0, NEW n \in Built, opKey[n] = stagedKey PROVE restaged'
BY DEF Begin, Built

\* A key is promoted only if the document names it.
LEMMA PromotesDocumentKey ==
  ASSUME InstallsInv, AcceptedInv, LandedInv, ~restaged,
         NEW c \in Completions, rot[c] = "accepted", opKey[rotOp[c]] = stagedKey
  PROVE  stagedKey = documentKey /\ stagedKey # 0
BY DEF InstallsInv, AcceptedInv, LandedInv

\* Every step keeps the staged key for the completions that can still submit.
LEMMA StagedStep ==
  ASSUME RotationAssumption, KeysInv, [Next]_rotationVars PROVE StagedInv'
<1>. SUFFICES ASSUME NEW c \in Completions, rot'[c] \in {"waiting", "locked"}, ~landed'[c],
                     opPrev'[rotOp'[c]] = head', ~restaged'
              PROVE  stagedKey' # 0 /\ opKey'[rotOp'[c]] = stagedKey'
  BY DEF StagedInv
<1>. USE DEF KeysInv
<1>1. CASE ReadStaged(c)
  BY <1>1, PastCheck DEF ReadStaged, InstallsStaged, keyRows, directory
<1>2. CASE ~ReadStaged(c)
  <2>1. /\ rot[c] \in {"waiting", "locked"} /\ ~landed[c] /\ rotOp'[c] = rotOp[c]
        /\ rotOp[c] \in Built
    <3>1. rot[c] \in {"waiting", "locked", "accepted"} /\ rotOp'[c] = rotOp[c]
      BY <1>2, PastCheck
    <3>2. ~landed[c]
      BY <3>1, RunMoves DEF FetchHead
    <3>3. rot[c] # "accepted"
      BY DEF Next, Complete, Begin, UpdateIdentity, Commit, SignOp, FetchHead, ReadStaged,
             TakeLock, Submit, Promote, Leave, End, Advance, rotationVars, completion,
             RotationTyped, RunsOK
    <3>. QED BY <3>1, <3>2, <3>3 DEF OpsInv
  <2>2. opPrev[rotOp[c]] = head /\ head' = head
    BY <2>1, LogStable, HeadMoves
  <2>3. stagedKey # 0 /\ opKey[rotOp[c]] = stagedKey /\ stagedKey # documentKey
    BY <2>1, <2>2, History DEF StagedInv, OpsInv
  <2>4. stagedKey' = stagedKey
    <3>1. ~Begin
      BY <2>1, <2>3, BeginRestages
    <3>2. ASSUME NEW b \in Completions, Promote(b), stagedKey = opKey[rotOp[b]] PROVE FALSE
      BY <2>3, <3>2, PromotesDocumentKey, History DEF Promote
    <3>. QED BY <3>1, <3>2, StagedMoves
  <2>. QED BY <2>1, <2>3, <2>4, LogStable
<1>. QED BY <1>1, <1>2

\* A submission installs the staged key.
LEMMA SubmitsStaged ==
  ASSUME LockInv, StagedInv, NEW c \in Completions, NEW answered \in BOOLEAN,
         Submit(c, answered), ~restaged
  PROVE  stagedKey # 0 /\ opKey[rotOp[c]] = stagedKey
BY DEF LockInv, StagedInv, Submit

\* Every step keeps what a repeated completion promotes.
LEMMA LandedStep ==
  ASSUME RotationAssumption, KeysInv, [Next]_rotationVars PROVE LandedInv'
<1>. SUFFICES ASSUME NEW c \in Completions, rot'[c] # "idle", landed'[c], stagedKey' # 0,
                     opKey'[rotOp'[c]] = stagedKey', ~restaged'
              PROVE  stagedKey' = documentKey'
  BY DEF LandedInv
<1>. USE DEF KeysInv
<1>1. ASSUME NEW n \in Built, FetchHead(c, n), rotOp'[c] = n, n = head
      PROVE  stagedKey' = documentKey'
  BY <1>1 DEF FetchHead, directory, documentKey
<1>2. CASE rot[c] # "idle" /\ rotOp'[c] = rotOp[c] /\ landed[c]
  <2>1. rotOp[c] \in Built /\ opKey[rotOp[c]] = stagedKey' /\ opKey[rotOp[c]] <= minted
    BY <1>2, LogStable DEF OpsInv
  <2>2. ~Begin
    <3>1. minted \in Nat
      BY DEF RotationTyped, KeysOK
    <3>. QED BY <2>1, <3>1 DEF Begin
  <2>3. stagedKey' = stagedKey
    BY <2>2, StagedMoves DEF Promote
  <2>4. stagedKey = documentKey /\ ~restaged
    BY <1>2, <2>1, <2>3, History DEF LandedInv
  <2>. QED BY <2>3, <2>4, HeadMoves, SubmitsStaged
<1>. QED BY <1>1, <1>2, RunMoves

\* Every step keeps the submitted key staged until its promotion.
LEMMA AcceptedStep ==
  ASSUME RotationAssumption, KeysInv, [Next]_rotationVars PROVE AcceptedInv'
<1>. SUFFICES ASSUME NEW c \in Completions, rot'[c] = "accepted", ~landed'[c]
              PROVE  /\ opKey'[rotOp'[c]] = documentKey'
                     /\ restaged' \/ (stagedKey' # 0 /\ stagedKey' = documentKey')
  BY DEF AcceptedInv
<1>. USE DEF KeysInv
<1>1. /\ rot[c] # "idle" /\ rotOp'[c] = rotOp[c] /\ ~landed[c] /\ rotOp[c] \in Built
  BY RunMoves DEF FetchHead, Advance, OpsInv, RotationTyped, RunsOK
<1>2. opKey'[rotOp'[c]] = opKey[rotOp[c]]
  BY <1>1, LogStable
<1>3. ASSUME NEW answered \in BOOLEAN, Submit(c, answered)
      PROVE  /\ opKey[rotOp[c]] = documentKey'
             /\ restaged' \/ (stagedKey' # 0 /\ stagedKey' = documentKey')
  <2>1. documentKey' = opKey[rotOp[c]] /\ stagedKey' = stagedKey
    BY <1>3 DEF Submit, documentKey, keyRows
  <2>. QED BY <1>3, <2>1, SubmitsStaged, History
<1>4. CASE rot[c] = "accepted"
  <2>1. writeLock = c
    BY <1>4 DEF LockInv
  <2>2. documentKey' = documentKey
    BY <1>4, <2>1, HeadMoves DEF Submit, LockInv
  <2>3. \A b \in Completions : ~Promote(b)
    BY <1>4, <2>1 DEF Promote, End, Advance, LockInv, RotationTyped, RunsOK
  <2>4. /\ opKey[rotOp[c]] = documentKey
        /\ restaged \/ (stagedKey # 0 /\ stagedKey = documentKey)
    BY <1>1, <1>4 DEF AcceptedInv
  <2>5. CASE restaged
    BY <1>2, <2>2, <2>4, <2>5, History
  <2>6. CASE stagedKey # 0 /\ stagedKey = documentKey
    <3>1. Begin => restaged'
      BY <1>1, <2>4, <2>6, BeginRestages
    <3>2. restaged' \/ stagedKey' = stagedKey
      BY <2>3, <3>1, StagedMoves
    <3>. QED BY <1>2, <2>2, <2>4, <2>6, <3>2
  <2>. QED BY <2>4, <2>5, <2>6
<1>5. rot[c] = "accepted" \/ \E answered \in BOOLEAN : Submit(c, answered)
  BY <1>1 DEF Next, Complete, Begin, UpdateIdentity, Commit, SignOp, FetchHead, ReadStaged,
         TakeLock, Submit, Promote, Leave, End, Advance, rotationVars, completion,
         RotationTyped, RunsOK
<1>. QED BY <1>2, <1>3, <1>4, <1>5

\* Every step keeps the active key, or has the promotion still to come.
LEMMA ActiveKeyStep ==
  ASSUME RotationAssumption, KeysInv, [Next]_rotationVars PROVE ActiveKeyInv'
<1>. SUFFICES ASSUME ~interrupted', ~restaged',
                     \A c \in Completions : ~(rot'[c] = "accepted" /\ ~landed'[c])
              PROVE  activeKey' = documentKey'
  BY DEF ActiveKeyInv
<1>. USE DEF KeysInv
<1>0. ~interrupted /\ ~restaged
  BY History
<1>1. ASSUME NEW c \in Completions, Promote(c), stagedKey = opKey[rotOp[c]]
      PROVE  activeKey' = documentKey'
  <2>1. activeKey' = stagedKey /\ documentKey' = documentKey /\ rot[c] = "accepted"
    BY <1>1 DEF Promote, directory, documentKey
  <2>. QED BY <1>0, <1>1, <2>1, PromotesDocumentKey
<1>2. CASE ~ \E c \in Completions : Promote(c) /\ stagedKey = opKey[rotOp[c]]
  <2>1. activeKey' = activeKey
    BY <1>2, StagedMoves DEF Begin
  <2>2. ASSUME NEW c \in Completions, NEW answered \in BOOLEAN, Submit(c, answered)
        PROVE  FALSE
    BY <2>2 DEF Submit, Advance, LockInv, RotationTyped, RunsOK
  <2>3. documentKey' = documentKey
    BY <2>2, HeadMoves
  <2>4. ASSUME NEW c \in Completions, rot[c] = "accepted", ~landed[c] PROVE FALSE
    <3>1. ~Promote(c)
      BY <1>0, <1>2, <2>4 DEF Promote, AcceptedInv
    <3>2. ~Leave(c)
      BY <2>4 DEF Leave
    <3>3. rot'[c] = rot[c]
      BY <2>2, <2>4, <3>1, <3>2
         DEF Next, Complete, Begin, UpdateIdentity, Commit, SignOp, FetchHead, ReadStaged,
             TakeLock, Promote, Leave, End, Advance, rotationVars, completion,
             RotationTyped, RunsOK
    <3>. QED BY <2>4, <3>3, RunMoves DEF FetchHead
  <2>. QED BY <1>0, <2>1, <2>3, <2>4 DEF ActiveKeyInv
<1>. QED BY <1>1, <1>2

\* Every step keeps the private half of the document's key.
LEMMA HeldStep ==
  ASSUME RotationAssumption, KeysInv, [Next]_rotationVars PROVE DocumentKeyHeld'
<1>. SUFFICES ASSUME ~restaged'
              PROVE  (documentKey = activeKey \/ (stagedKey # 0 /\ documentKey = stagedKey))'
  BY DEF DocumentKeyHeld
<1>. USE DEF KeysInv
<1>0. ~restaged
  BY History
<1>1. ASSUME NEW c \in Completions, Promote(c), stagedKey = opKey[rotOp[c]]
      PROVE  activeKey' = documentKey'
  <2>1. activeKey' = stagedKey /\ documentKey' = documentKey /\ rot[c] = "accepted"
    BY <1>1 DEF Promote, directory, documentKey
  <2>. QED BY <1>0, <1>1, <2>1, PromotesDocumentKey
<1>2. CASE Begin
  <2>1. activeKey' = activeKey /\ documentKey' = documentKey
    BY <1>2 DEF Begin, directory, documentKey
  <2>2. CASE documentKey = activeKey
    BY <2>1, <2>2
  <2>3. CASE stagedKey # 0 /\ documentKey = stagedKey
    <3>1. head \in Built
      BY <2>3 DEF OpsInv, Built, documentKey, RotationTyped, LogOK, Ops
    <3>. QED BY <1>2, <2>3, <3>1, BeginRestages DEF documentKey
  <2>. QED BY <1>0, <2>2, <2>3 DEF DocumentKeyHeld
<1>3. CASE stagedKey' = stagedKey /\ activeKey' = activeKey
  BY <1>0, <1>3, HeadMoves, SubmitsStaged DEF DocumentKeyHeld
<1>. QED BY <1>1, <1>2, <1>3, StagedMoves

\* A commit is made while no completion is between submission and promotion.
LEMMA VerifyStep ==
  ASSUME RotationAssumption, KeysInv, [Next]_rotationVars PROVE CommitsVerify'
<1>. USE DEF KeysInv, CommitsVerify
<1>1. CASE Commit
  <2>1. \A c \in Completions : rot[c] # "accepted"
    BY <1>1 DEF Commit, LockIsFree, LockInv, RotationAssumption
  <2>2. interrupted \/ restaged \/ activeKey = documentKey
    BY <2>1 DEF ActiveKeyInv
  <2>. QED BY <1>1, <2>2, Zenon DEF Commit
<1>2. CASE UNCHANGED strays
  BY <1>2, History
<1>. QED BY <1>1, <1>2
         DEF Next, Complete, Begin, UpdateIdentity, SignOp, FetchHead, ReadStaged,
             TakeLock, Submit, Promote, Leave, rotationVars

\* The conjunction is inductive.
LEMMA RotationInv == ASSUME RotationAssumption PROVE Spec => []KeysInv
<1>1. Init => KeysInv
  <2>1. Init => RotationTyped
    <3>1. Init => KeysOK /\ LogOK /\ RunsOK
      BY DEF RotationAssumption, Init, KeysOK, LogOK, RunsOK, Ops
    <3>2. Init => FlagsOK
      BY Zenon DEF Init, FlagsOK
    <3>. QED BY <3>1, <3>2 DEF RotationTyped
  <2>2. Init => OpsInv /\ LockInv /\ InstallsInv
    BY DEF RotationAssumption, Init, OpsInv, LockInv, InstallsInv, Built, Ops
  <2>3. Init => documentKey = 0
    BY DEF RotationAssumption, Init, documentKey, Ops
  <2>4. Init => /\ StagedInv /\ AcceptedInv /\ LandedInv /\ ActiveKeyInv
                /\ DocumentKeyHeld /\ CommitsVerify
    BY <2>3 DEF Init, StagedInv, AcceptedInv, LandedInv, ActiveKeyInv, DocumentKeyHeld,
                CommitsVerify
  <2>. QED BY <2>1, <2>2, <2>4 DEF KeysInv
<1>2. KeysInv /\ [Next]_rotationVars => KeysInv'
  BY RotationTypeStep, OpsStep, LockStep, InstallsStep, StagedStep, AcceptedStep, LandedStep,
     ActiveKeyStep, HeldStep, VerifyStep
     DEF KeysInv, RotationTyped
<1>. QED BY <1>1, <1>2, PTL DEF Spec

-----------------------------------------------------------------------------
\* Types of the key rows, the directory's log and the completions, for any number
\* of each.
THEOREM RotationTypeCorrect == ASSUME RotationAssumption PROVE Spec => []TypeOK
<1>1. KeysInv => TypeOK
  BY DEF KeysInv, RotationTyped, KeysOK, LogOK, RunsOK, FlagsOK, TypeOK
<1>. QED BY <1>1, RotationInv, PTL

\* complete_repo_key_rotation never deletes the private half of the key that the
\* document names, however completions overlap, answers are lost and requests
\* are dropped, as long as no rotation is begun over one that is out.
THEOREM DocumentKeyIsHeld == ASSUME RotationAssumption PROVE Spec => []DocumentKeyHeld
<1>1. KeysInv => DocumentKeyHeld
  BY DEF KeysInv
<1>. QED BY <1>1, RotationInv, PTL

\* No commit is signed by a key that is absent from the document, unless a
\* completion ended between its submission and its promotion.
THEOREM CommitsAlwaysVerify == ASSUME RotationAssumption PROVE Spec => []CommitsVerify
<1>1. KeysInv => CommitsVerify
  BY DEF KeysInv
<1>. QED BY <1>1, RotationInv, PTL

-----------------------------------------------------------------------------
(* The instance that TLC runs: the rotation beside the migration.          *)

\* Each of its behaviours is one of the rotation and one of the migration, so
\* what is proved of them holds in it.
THEOREM IdentityRunsBoth == MCSpec => Spec /\ MigrationSpec
<1>1. MCInit => Init /\ MigrationInit
  BY DEF MCInit
<1>2. [MCNext]_allVars => [Next]_rotationVars /\ [MigrationNext]_migrateVars
  BY Zenon DEF MCNext, allVars
<1>. QED BY <1>1, <1>2, PTL DEF MCSpec, Spec, MigrationSpec

\* The types of the key rows, the directory's log and the completions, and those
\* of the wallet's commands and the hosts, for any number of each.
THEOREM IdentityTypesCorrect ==
  ASSUME RotationAssumption, MigrationAssumption
  PROVE  MCSpec => []TypesOK
<1>1. TypeOK /\ MigrationTypeOK => TypesOK
  BY DEF TypesOK
<1>. QED BY <1>1, IdentityRunsBoth, RotationTypeCorrect, MigrationTypeCorrect, PTL
=============================================================================
