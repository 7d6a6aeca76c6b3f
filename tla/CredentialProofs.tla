-------------------------- MODULE CredentialProofs --------------------------
(***************************************************************************)
(* Password sessions for any number of requests, tokens and app passwords: *)
(* one live chain per session, nothing outlives its session or its app     *)
(* password, and no refresh escalates.  Requests act on what they read     *)
(* before, so the invariant relates what each has read to the rows.        *)
(*                                                                         *)
(* Device transfers: a completed swap leaves no device of an earlier one,  *)
(* for any number of transfers.  The argument is the order of the rows: a  *)
(* transfer is initiated after every earlier one was, and while one is     *)
(* active there is no later row, so that the one being completed is the    *)
(* last.                                                                   *)
(***************************************************************************)
EXTENDS MCCredentials, OAuthProofs

MintedJtis == {j \in Jtis : j <= issued}

\* The rows: numbers come from issued, and a session belongs to one password.
SessionRowsInv ==
  /\ tokens \subseteq MintedJtis /\ sessions \subseteq MintedJtis
  /\ \A j \in MintedJtis : session[j] \in MintedJtis
  /\ \A j, k \in MintedJtis : session[j] = session[k] => name[j] = name[k]
  /\ \A j \in Jtis \ MintedJtis : next[j] = 0

\* A refresh knows the session and the password of the token it presented.
RefreshInv ==
  \A r \in Requests :
    pc[r] \in {"found", "granted"} =>
      jti[r] \in MintedJtis /\ sid[r] = session[jti[r]] /\ kind[r] = name[jti[r]]

\* Grants that were read are current for as long as the token is there; the
\* main password has none.
GrantsInv ==
  \A r \in Requests :
    /\ pc[r] = "granted" /\ jti[r] \in tokens =>
         granted[r] = (kind[r] # Main /\ grants[kind[r]])
    /\ pc[r] = "verified" /\ kind[r] = Main => granted[r] = FALSE

IInv ==
  /\ TypeOK /\ SessionRowsInv /\ RefreshInv /\ GrantsInv
  /\ NoTokenOutlives /\ OneLiveChain /\ ScopeFollowsGrants

-----------------------------------------------------------------------------
(* The actions by what they do to the rows.                                *)

\* The rows stay as they are.
Reads ==
  \/ \E n \in Names, privileged \in BOOLEAN : CreateAppPassword(n, privileged)
  \/ \E r \in Requests, n \in Names \cup {Main} : Verify(r, n)
  \/ \E r \in Requests, j \in Jtis : Present(r, j) \/ FindSession(r, j)
  \/ \E r \in Requests : ReadGrants(r) \/ Abandon(r)

\* Rows go, and none is changed.
Removes ==
  \/ \E n \in Names : RevokeAppPassword(n)
  \/ \E r \in Requests : RevokeSession(r)
  \/ TransferSweep \/ RevokeCredentials

\* Every step reads, removes, inserts a session or rotates a token.
LEMMA StepKinds ==
  ASSUME [Next]_vars
  PROVE  \/ Reads \/ Removes \/ UNCHANGED vars
         \/ \E r \in Requests : IssueSession(r) \/ Rotate(r)
BY DEF Next, Handle, Reads, Removes

\* Reading steps of logins, refreshes and logouts leave the token rows alone.
LEMMA ReadsKeepRows ==
  ASSUME Reads PROVE UNCHANGED <<sessions, tokens, next, session, name, issued, scope>>
BY DEF Reads, CreateAppPassword, Verify, Present, FindSession, ReadGrants, Abandon,
       rows, chains

\* Revocations and sweeps only take rows away.
LEMMA RemovesOnly ==
  ASSUME Removes
  PROVE  /\ tokens' \subseteq tokens /\ sessions' \subseteq sessions
         /\ UNCHANGED <<next, session, name, issued, scope>>
BY DEF Removes, RevokeAppPassword, RevokeSession, TransferSweep, RevokeCredentials, chains

\* What the two actions that insert a token do, request r for session s.
Inserts(r, s) ==
  /\ r \in Requests /\ issued' = issued + 1 /\ issued' \in Jtis
  /\ tokens' = tokens \cup {issued'}
  /\ session' = [session EXCEPT ![issued'] = s]
  /\ name' = [name EXCEPT ![issued'] = kind[r]]
  /\ scope' = [scope EXCEPT ![issued'] = granted[r]]
  /\ pc' = [pc EXCEPT ![r] = "idle"]
  /\ UNCHANGED passwords

\* issue_session inserts the first token of a session named after it.
LEMMA IssueInserts ==
  ASSUME SessionsAssumption, TypeOK, NEW r \in Requests, IssueSession(r)
  PROVE  Inserts(r, issued') /\ sessions' = sessions \cup {issued'} /\ UNCHANGED next
BY DEF SessionsAssumption, TypeOK, IssueSession, InsertToken, Return, Inserts, Jtis

\* refresh_session inserts the successor and chains the rotated token to it.
LEMMA RotateInserts ==
  ASSUME SessionsAssumption, TypeOK, NEW r \in Requests, Rotate(r)
  PROVE  /\ Inserts(r, sid[r]) /\ UNCHANGED sessions
         /\ next' = [next EXCEPT ![jti[r]] = issued']
         /\ sid[r] \in sessions /\ jti[r] \in tokens /\ next[jti[r]] = 0
         /\ pc[r] = "granted"
BY DEF SessionsAssumption, TypeOK, Rotate, InsertToken, Return, Inserts, Jtis,
       SessionExists, Rotatable

\* The new row, and that the others stay as they are.
LEMMA Inserted ==
  ASSUME SessionsAssumption, TypeOK, SessionRowsInv, NEW r \in Requests, NEW s, Inserts(r, s)
  PROVE  /\ issued' \notin MintedJtis /\ issued' \in Jtis /\ issued' # 0
         /\ MintedJtis' = MintedJtis \cup {issued'} /\ tokens' = tokens \cup {issued'}
         /\ session'[issued'] = s /\ name'[issued'] = kind[r]
         /\ scope'[issued'] = granted[r]
         /\ \A j \in MintedJtis : /\ session'[j] = session[j] /\ name'[j] = name[j]
                             /\ scope'[j] = scope[j]
         /\ UNCHANGED passwords
<1>1. issued \in Nat /\ issued' = issued + 1 /\ Jtis \subseteq Nat /\ issued' # 0
  BY DEF SessionsAssumption, TypeOK, Inserts, Jtis
<1>2. issued' \notin MintedJtis
  BY <1>1 DEF MintedJtis
<1>3. MintedJtis' = MintedJtis \cup {issued'}
  BY <1>1 DEF MintedJtis, Inserts, Jtis
<1>4. MintedJtis \subseteq Jtis /\ issued' \in Jtis
  BY DEF MintedJtis, Inserts
<1>5. /\ session \in [Jtis -> 0..MaxTokens] /\ name \in [Jtis -> Names \cup {Main}]
      /\ scope \in [Jtis -> BOOLEAN]
  BY DEF TypeOK
<1>. QED BY <1>1, <1>2, <1>3, <1>4, <1>5 DEF Inserts

-----------------------------------------------------------------------------
\* Every step keeps the types.
LEMMA TypeStep ==
  ASSUME SessionsAssumption, TypeOK, SessionRowsInv, RefreshInv, [Next]_vars PROVE TypeOK'
<1>. USE DEF SessionsAssumption, TypeOK, Jtis, Return
<1>1. ASSUME NEW n \in Names, NEW p \in BOOLEAN, CreateAppPassword(n, p) PROVE TypeOK'
  BY <1>1 DEF CreateAppPassword, rows, chains, reads
<1>2. ASSUME NEW n \in Names, RevokeAppPassword(n) PROVE TypeOK'
  BY <1>2 DEF RevokeAppPassword, chains, reads
<1>3. ASSUME NEW r \in Requests, NEW n \in Names \cup {Main}, Verify(r, n) PROVE TypeOK'
  BY <1>3 DEF Verify, passwords, rows, chains
<1>4. ASSUME NEW r \in Requests, NEW j \in Jtis, Present(r, j) \/ FindSession(r, j)
      PROVE  TypeOK'
  <2>1. CASE Present(r, j)
    BY <2>1 DEF Present, passwords, rows, chains
  <2>2. CASE FindSession(r, j)
    BY <2>2 DEF FindSession, passwords, rows, chains
  <2>. QED BY <1>4, <2>1, <2>2
<1>5. ASSUME NEW r \in Requests, RevokeSession(r) \/ Abandon(r) PROVE TypeOK'
  <2>1. CASE RevokeSession(r)
    <3>1. tokens' \subseteq Jtis /\ sessions' \subseteq Jtis
      BY <2>1 DEF RevokeSession
    <3>2. /\ pc' = [pc EXCEPT ![r] = "idle"] /\ jti' = [jti EXCEPT ![r] = 0]
          /\ sid' = [sid EXCEPT ![r] = 0] /\ kind' = [kind EXCEPT ![r] = Main]
          /\ granted' = [granted EXCEPT ![r] = FALSE]
      BY <2>1 DEF RevokeSession
    <3>3. UNCHANGED <<names, grants, next, session, name, issued, scope>>
      BY <2>1 DEF RevokeSession, passwords, chains
    <3>. QED BY <3>1, <3>2, <3>3
  <2>2. CASE Abandon(r)
    BY <2>2 DEF Abandon, passwords, rows, chains
  <2>. QED BY <1>5, <2>1, <2>2
<1>6. ASSUME NEW r \in Requests, ReadGrants(r) PROVE TypeOK'
  BY <1>6 DEF ReadGrants, passwords, rows, chains
<1>7. ASSUME NEW r \in Requests, IssueSession(r) PROVE TypeOK'
  BY <1>7 DEF IssueSession, InsertToken, passwords
<1>8. ASSUME NEW r \in Requests, Rotate(r) PROVE TypeOK'
  <2>1. jti[r] \in Jtis /\ sid[r] \in 0..MaxTokens /\ kind[r] \in Names \cup {Main}
    BY <1>8, RotateInserts
  <2>2. issued' \in Jtis /\ issued' \in 0..MaxTokens
    BY <1>8 DEF Rotate, InsertToken
  <2>3. next' \in [Jtis -> 0..MaxTokens] /\ session' \in [Jtis -> 0..MaxTokens]
    BY <1>8, <2>1, <2>2 DEF Rotate, InsertToken
  <2>. QED BY <1>8, <2>1, <2>2, <2>3 DEF Rotate, InsertToken, SessionExists, passwords
<1>9. CASE TransferSweep \/ RevokeCredentials
  BY <1>9 DEF TransferSweep, RevokeCredentials, passwords, chains, reads
<1>10. CASE UNCHANGED vars
  BY <1>10 DEF vars, passwords, rows, chains, reads
<1>. QED BY <1>1, <1>2, <1>3, <1>4, <1>5, <1>6, <1>7, <1>8, <1>9, <1>10 DEF Next, Handle

\* Every step keeps the rows well-formed.
LEMMA RowsStep ==
  ASSUME SessionsAssumption, TypeOK, SessionRowsInv, RefreshInv, [Next]_vars PROVE SessionRowsInv'
<1>. USE DEF SessionsAssumption, SessionRowsInv, MintedJtis
<1>1. CASE Reads \/ UNCHANGED vars
  BY <1>1, ReadsKeepRows DEF vars, rows, chains
<1>2. CASE Removes
  BY <1>2, RemovesOnly
<1>3. ASSUME NEW r \in Requests, IssueSession(r) PROVE SessionRowsInv'
  <2>1. sessions' = sessions \cup {issued'} /\ UNCHANGED next
    BY <1>3, IssueInserts
  <2>2. \A j \in Jtis \ MintedJtis : next[j] = 0
    BY DEF SessionRowsInv
  <2>. HIDE DEF MintedJtis
  <2>. QED BY <1>3, <2>1, <2>2, IssueInserts, Inserted DEF Jtis
<1>4. ASSUME NEW r \in Requests, Rotate(r) PROVE SessionRowsInv'
  <2>1. /\ UNCHANGED sessions /\ next' = [next EXCEPT ![jti[r]] = issued']
        /\ jti[r] \in MintedJtis /\ sid[r] = session[jti[r]] /\ kind[r] = name[jti[r]]
    BY <1>4, RotateInserts DEF RefreshInv
  <2>2. \A j \in Jtis \ MintedJtis : next[j] = 0
    BY DEF SessionRowsInv
  <2>3. next \in [Jtis -> 0..MaxTokens]
    BY DEF TypeOK
  <2>4. /\ issued' \notin MintedJtis /\ issued' \in Jtis
        /\ MintedJtis' = MintedJtis \cup {issued'} /\ tokens' = tokens \cup {issued'}
        /\ session'[issued'] = sid[r] /\ name'[issued'] = kind[r]
        /\ \A j \in MintedJtis : session'[j] = session[j] /\ name'[j] = name[j]
    BY <1>4, RotateInserts, Inserted
  <2>5. (\A j \in Jtis \ MintedJtis : next[j] = 0)'
    BY <2>1, <2>2, <2>3, <2>4 DEF Jtis
  <2>. HIDE DEF MintedJtis
  <2>. QED BY <2>1, <2>4, <2>5
<1>. QED BY <1>1, <1>2, <1>3, <1>4, StepKinds

\* What a refresh in flight knows of its token stays true: rows are never
\* rewritten.
LEMMA RefreshStep ==
  ASSUME SessionsAssumption, TypeOK, SessionRowsInv, RefreshInv, [Next]_vars PROVE RefreshInv'
<1>. USE DEF SessionsAssumption, TypeOK, SessionRowsInv, RefreshInv, MintedJtis
<1>1. ASSUME NEW n \in Names, NEW p \in BOOLEAN, CreateAppPassword(n, p) PROVE RefreshInv'
  BY <1>1 DEF CreateAppPassword, rows, chains, reads
<1>2. CASE (\E n \in Names : RevokeAppPassword(n)) \/ TransferSweep \/ RevokeCredentials
  BY <1>2 DEF RevokeAppPassword, TransferSweep, RevokeCredentials, chains, reads
<1>3. ASSUME NEW r \in Requests, NEW n \in Names \cup {Main}, Verify(r, n)
      PROVE  RefreshInv'
  BY <1>3 DEF Verify, rows, chains
<1>4. ASSUME NEW r \in Requests, NEW j \in Jtis, Present(r, j) \/ FindSession(r, j)
      PROVE  RefreshInv'
  BY <1>4 DEF Present, FindSession, rows, chains
<1>5. ASSUME NEW r \in Requests, RevokeSession(r) \/ Abandon(r) PROVE RefreshInv'
  BY <1>5 DEF RevokeSession, Abandon, Return, rows, chains
<1>6. ASSUME NEW r \in Requests, ReadGrants(r) PROVE RefreshInv'
  BY <1>6 DEF ReadGrants, rows, chains
<1>7. ASSUME NEW r \in Requests, IssueSession(r) \/ Rotate(r) PROVE RefreshInv'
  <2>1. \E s : Inserts(r, s)
    BY <1>7, IssueInserts, RotateInserts
  <2>2. MintedJtis \subseteq MintedJtis'
    BY <2>1, Inserted
  <2>3. \A j \in MintedJtis : session'[j] = session[j] /\ name'[j] = name[j]
    BY <2>1, Inserted
  <2>4. /\ pc' = [pc EXCEPT ![r] = "idle"] /\ jti' = [jti EXCEPT ![r] = 0]
        /\ sid' = [sid EXCEPT ![r] = 0] /\ kind' = [kind EXCEPT ![r] = Main]
    BY <1>7 DEF IssueSession, Rotate, Return
  <2>. HIDE DEF MintedJtis, SessionRowsInv
  <2>. QED BY <2>2, <2>3, <2>4
<1>8. CASE UNCHANGED vars
  BY <1>8 DEF vars, rows, chains, reads
<1>. QED BY <1>1, <1>2, <1>3, <1>4, <1>5, <1>6, <1>7, <1>8 DEF Next, Handle

\* A token inserted by a refresh has the session of a row that is still there and
\* the password of a token that is; one inserted by a login was checked.
LEMMA OutlivesStep ==
  ASSUME SessionsAssumption, TypeOK, SessionRowsInv, RefreshInv, NoTokenOutlives, [Next]_vars
  PROVE  NoTokenOutlives'
<1>. USE DEF NoTokenOutlives
<1>1. CASE Reads
  <2>1. names \subseteq names'
    BY <1>1 DEF Reads, CreateAppPassword, Verify, Present, FindSession, ReadGrants,
                Abandon, passwords
  <2>. QED BY <1>1, <2>1, ReadsKeepRows DEF rows, chains
<1>2. ASSUME NEW n \in Names, RevokeAppPassword(n) PROVE NoTokenOutlives'
  BY <1>2 DEF RevokeAppPassword, chains, SessionRowsInv
<1>3. ASSUME NEW r \in Requests, RevokeSession(r) PROVE NoTokenOutlives'
  BY <1>3 DEF RevokeSession, chains, passwords
<1>4. CASE TransferSweep \/ RevokeCredentials
  BY <1>4 DEF TransferSweep, RevokeCredentials
<1>5. ASSUME NEW r \in Requests, IssueSession(r) PROVE NoTokenOutlives'
  <2>1. kind[r] # Main => kind[r] \in names
    BY <1>5 DEF IssueSession, GrantsUnchanged
  <2>2. tokens \subseteq MintedJtis
    BY DEF SessionRowsInv
  <2>. QED BY <1>5, <2>1, <2>2, IssueInserts, Inserted DEF passwords
<1>6. ASSUME NEW r \in Requests, Rotate(r) PROVE NoTokenOutlives'
  <2>1. kind[r] # Main => kind[r] \in names
    BY <1>6, RotateInserts DEF RefreshInv
  <2>2. tokens \subseteq MintedJtis
    BY DEF SessionRowsInv
  <2>. QED BY <1>6, <2>1, <2>2, RotateInserts, Inserted DEF passwords
<1>7. CASE UNCHANGED vars
  BY <1>7 DEF vars, passwords, rows, chains
<1>. QED BY <1>1, <1>2, <1>3, <1>4, <1>5, <1>6, <1>7, StepKinds DEF Removes

\* The current token of session s.
Current(s, j) == j \in tokens /\ \A k \in tokens : session[k] = s /\ next[k] = 0 <=> k = j

\* Rows that go take whole sessions with them, and a rotation replaces the
\* current token of its session by the new one.
LEMMA ChainStep ==
  ASSUME SessionsAssumption, TypeOK, SessionRowsInv, RefreshInv, OneLiveChain, [Next]_vars
  PROVE  OneLiveChain'
<1>. SUFFICES ASSUME NEW s \in sessions' PROVE \E j \in tokens' : Current(s, j)'
  BY DEF OneLiveChain, Current
<1>. USE DEF Current
<1>1. ASSUME s \in sessions PROVE \E j \in tokens : Current(s, j)
  BY <1>1 DEF OneLiveChain
<1>2. CASE Reads \/ UNCHANGED vars
  BY <1>1, <1>2, ReadsKeepRows DEF vars, rows, chains
<1>3. CASE Removes
  <2>1. \A j \in tokens : session[j] = s => j \in tokens'
    BY <1>3 DEF Removes, RevokeAppPassword, RevokeSession, TransferSweep, RevokeCredentials
  <2>2. s \in sessions /\ tokens' \subseteq tokens /\ UNCHANGED <<session, next>>
    BY <1>3, RemovesOnly DEF chains
  <2>3. PICK j \in tokens : Current(s, j)
    BY <1>1, <2>2
  <2>. QED BY <2>1, <2>2, <2>3
<1>4. ASSUME NEW r \in Requests, IssueSession(r) PROVE \E j \in tokens' : Current(s, j)'
  <2>. USE IssueInserts, Inserted, <1>4 DEF SessionRowsInv
  <2>1. CASE s = issued'
    <3>1. Current(s, s)'
      BY <2>1
    <3>. QED BY <2>1, <3>1
  <2>2. CASE s \in sessions
    <3>1. PICK j \in tokens : Current(s, j)
      BY <1>1, <2>2
    <3>2. Current(s, j)'
      BY <2>2, <3>1
    <3>. QED BY <3>1, <3>2
  <2>. QED BY <2>1, <2>2
<1>5. ASSUME NEW r \in Requests, Rotate(r) PROVE \E j \in tokens' : Current(s, j)'
  <2>. USE RotateInserts, Inserted, <1>5 DEF SessionRowsInv, RefreshInv
  <2>0. next \in [Jtis -> 0..MaxTokens] /\ MintedJtis \subseteq Jtis
    BY DEF TypeOK, MintedJtis
  <2>1. PICK j \in tokens : Current(s, j)
    BY <1>1
  <2>2. CASE s = sid[r]
    <3>1. j = jti[r]
      BY <2>1, <2>2
    <3>2. PICK n : n = issued'
      OBVIOUS
    <3>3. Current(s, n)'
      BY <2>0, <2>1, <2>2, <3>1, <3>2
    <3>. QED BY <3>2, <3>3
  <2>3. CASE s # sid[r]
    <3>1. Current(s, j)'
      BY <2>0, <2>1, <2>3
    <3>. QED BY <2>1, <3>1
  <2>. QED BY <2>2, <2>3
<1>. QED BY <1>2, <1>3, <1>4, <1>5, StepKinds

\* A name is created again only when no token of its former password is left, so
\* that what a refresh read under it cannot have changed.
LEMMA GrantsStep ==
  ASSUME SessionsAssumption, TypeOK, SessionRowsInv, RefreshInv, GrantsInv, NoTokenOutlives,
         [Next]_vars
  PROVE  GrantsInv'
<1>. USE DEF SessionsAssumption, TypeOK, GrantsInv
<1>1. ASSUME NEW n \in Names, NEW p \in BOOLEAN, CreateAppPassword(n, p) PROVE GrantsInv'
  <2>1. \A r \in Requests : pc[r] = "granted" /\ jti[r] \in tokens => kind[r] # n
    BY <1>1 DEF CreateAppPassword, NoTokenOutlives, RefreshInv
  <2>. QED BY <1>1, <2>1 DEF CreateAppPassword, rows, reads
<1>2. CASE (\E n \in Names : RevokeAppPassword(n)) \/ TransferSweep \/ RevokeCredentials
  BY <1>2 DEF RevokeAppPassword, TransferSweep, RevokeCredentials, passwords, reads
<1>3. ASSUME NEW r \in Requests, NEW n \in Names \cup {Main}, Verify(r, n)
      PROVE  GrantsInv'
  BY <1>3 DEF Verify, passwords, rows
<1>4. ASSUME NEW r \in Requests, NEW j \in Jtis, Present(r, j) \/ FindSession(r, j)
      PROVE  GrantsInv'
  BY <1>4 DEF Present, FindSession, passwords, rows
<1>5. ASSUME NEW r \in Requests, RevokeSession(r) \/ Abandon(r) PROVE GrantsInv'
  BY <1>5 DEF RevokeSession, Abandon, Return, passwords, rows
<1>6. ASSUME NEW r \in Requests, ReadGrants(r) PROVE GrantsInv'
  BY <1>6 DEF ReadGrants, passwords, rows
<1>7. ASSUME NEW r \in Requests, IssueSession(r) \/ Rotate(r) PROVE GrantsInv'
  <2>1. \A q \in Requests : pc[q] = "granted" => jti[q] # issued'
    BY <1>7, IssueInserts, RotateInserts DEF Inserts, RefreshInv, MintedJtis
  <2>. QED BY <1>7, <2>1 DEF IssueSession, Rotate, InsertToken, Return, passwords
<1>8. CASE UNCHANGED vars
  BY <1>8 DEF vars, passwords, rows, reads
<1>. QED BY <1>1, <1>2, <1>3, <1>4, <1>5, <1>6, <1>7, <1>8 DEF Next, Handle

\* A new token has the scope of grants that are still current.
LEMMA ScopeStep ==
  ASSUME SessionsAssumption, TypeOK, SessionRowsInv, RefreshInv, GrantsInv, NoTokenOutlives,
         ScopeFollowsGrants, [Next]_vars
  PROVE  ScopeFollowsGrants'
<1>. USE DEF SessionsAssumption, TypeOK, ScopeFollowsGrants
<1>1. ASSUME NEW n \in Names, NEW p \in BOOLEAN, CreateAppPassword(n, p)
      PROVE  ScopeFollowsGrants'
  <2>1. \A j \in tokens : name[j] # n
    BY <1>1 DEF CreateAppPassword, NoTokenOutlives
  <2>. QED BY <1>1, <2>1 DEF CreateAppPassword, rows, chains
<1>2. CASE /\ Reads
           /\ ~ \E n \in Names, p \in BOOLEAN : CreateAppPassword(n, p)
  <2>1. UNCHANGED grants
    BY <1>2 DEF Reads, Verify, Present, FindSession, ReadGrants, Abandon, passwords
  <2>. QED BY <1>2, <2>1, ReadsKeepRows DEF rows, chains
<1>3. CASE Removes
  <2>1. UNCHANGED grants
    BY <1>3 DEF Removes, RevokeAppPassword, RevokeSession, TransferSweep,
                RevokeCredentials, passwords
  <2>. QED BY <1>3, <2>1, RemovesOnly DEF chains
<1>4. ASSUME NEW r \in Requests, IssueSession(r) \/ Rotate(r) PROVE ScopeFollowsGrants'
  <2>1. \E q : Inserts(r, q)
    BY <1>4, IssueInserts, RotateInserts
  <2>2. granted[r] = (kind[r] # Main /\ grants[kind[r]])
    <3>1. CASE IssueSession(r)
      BY <3>1 DEF IssueSession, GrantsUnchanged, GrantsInv
    <3>2. CASE Rotate(r)
      BY <3>2, RotateInserts DEF GrantsInv
    <3>. QED BY <1>4, <3>1, <3>2
  <2>3. issued' \notin tokens
    BY <2>1 DEF Inserts, SessionRowsInv, MintedJtis
  <2>. QED BY <2>1, <2>2, <2>3 DEF Inserts, passwords
<1>5. CASE UNCHANGED vars
  BY <1>5 DEF vars, passwords, rows, chains
<1>. QED BY <1>1, <1>2, <1>3, <1>4, <1>5, StepKinds

\* The conjunction is inductive.
LEMMA SessionsInv == ASSUME SessionsAssumption PROVE Spec => []IInv
<1>1. Init => IInv
  BY DEF SessionsAssumption, Init, IInv, TypeOK, SessionRowsInv, RefreshInv, GrantsInv,
         NoTokenOutlives, OneLiveChain, ScopeFollowsGrants, MintedJtis, Jtis
<1>2. IInv /\ [Next]_vars => IInv'
  BY TypeStep, RowsStep, RefreshStep, GrantsStep, OutlivesStep, ChainStep, ScopeStep
     DEF IInv
<1>. QED BY <1>1, <1>2, PTL DEF Spec

-----------------------------------------------------------------------------
\* Types, for any number of requests, app passwords and tokens.
THEOREM SessionsTypeCorrect == ASSUME SessionsAssumption PROVE Spec => []TypeOK
<1>1. IInv => TypeOK
  BY DEF IInv
<1>. QED BY <1>1, SessionsInv, PTL

\* A session that exists has exactly one token that was not rotated, however many
\* refreshes read it before one of them rotates it (refresh_session).
THEOREM RefreshKeepsOneChain == ASSUME SessionsAssumption PROVE Spec => []OneLiveChain
<1>1. IInv => OneLiveChain
  BY DEF IInv
<1>. QED BY <1>1, SessionsInv, PTL

\* No token is left of an ended session or of a revoked app password, whatever
\* logins and refreshes in flight had read (issue_session, refresh_session).
THEOREM RevocationIsFinal == ASSUME SessionsAssumption PROVE Spec => []NoTokenOutlives
<1>1. IInv => NoTokenOutlives
  BY DEF IInv
<1>. QED BY <1>1, SessionsInv, PTL

\* The access token minted with a refresh token has the grants of its app
\* password: a refresh does not escalate, also when the name was created again.
THEOREM RefreshDoesNotEscalate ==
  ASSUME SessionsAssumption PROVE Spec => []ScopeFollowsGrants
<1>1. IInv => ScopeFollowsGrants
  BY DEF IInv
<1>. QED BY <1>1, SessionsInv, PTL

-----------------------------------------------------------------------------
(* Device transfers.                                                       *)

\* Rows are made in order, and nothing comes after a row that is active.
InOrder ==
  \A t, u \in Transfers :
    t < u /\ (status[t] = "none" \/ Active(t)) => status[u] = "none"

SwapInv == TransferTypeOK /\ InOrder /\ LastDeviceHoldsAccount

\* The unique index: after an initiation only the new row is active.
LEMMA SwapTypeStep ==
  ASSUME TransferAssumption, TransferTypeOK, [TransferNext]_transferVars
  PROVE  TransferTypeOK'
<1>. USE DEF TransferAssumption, TransferTypeOK, Transfers, Active
<1>1. CASE SignIn \/ SweepDevices
  BY <1>1 DEF SignIn, SweepDevices
<1>2. ASSUME NEW t \in Transfers, Lapse(t) \/ Accept(t) \/ Expire(t) \/ Cancel(t)
      PROVE  TransferTypeOK'
  BY <1>2 DEF Lapse, Accept, Expire, Cancel, Cancellable
<1>3. ASSUME NEW t \in Transfers, Initiate(t) PROVE TransferTypeOK'
  BY <1>3 DEF Initiate, NoneActiveBut
<1>4. ASSUME NEW t \in Transfers, NEW byTarget \in BOOLEAN, Complete(t, byTarget)
      PROVE  TransferTypeOK'
  BY <1>4 DEF Complete, OnlyDevice
<1>5. CASE UNCHANGED transferVars
  BY <1>5 DEF transferVars
<1>. QED BY <1>1, <1>2, <1>3, <1>4, <1>5 DEF TransferNext

\* Only the first row that does not exist yet is made, when none is active.
LEMMA OrderStep ==
  ASSUME TransferAssumption, TransferTypeOK, InOrder, [TransferNext]_transferVars
  PROVE  InOrder'
<1>. USE DEF TransferAssumption, TransferTypeOK, Transfers, Active, InOrder
<1>1. CASE SignIn \/ SweepDevices
  BY <1>1 DEF SignIn, SweepDevices
<1>2. ASSUME NEW t \in Transfers, Lapse(t) \/ Accept(t) \/ Expire(t) \/ Cancel(t)
      PROVE  InOrder'
  BY <1>2 DEF Lapse, Accept, Expire, Cancel, Cancellable
<1>3. ASSUME NEW t \in Transfers, Initiate(t) PROVE InOrder'
  BY <1>3 DEF Initiate, NoneActiveBut
<1>4. ASSUME NEW t \in Transfers, NEW byTarget \in BOOLEAN, Complete(t, byTarget)
      PROVE  InOrder'
  BY <1>4 DEF Complete
<1>5. CASE UNCHANGED transferVars
  BY <1>5 DEF transferVars
<1>. QED BY <1>1, <1>2, <1>3, <1>4, <1>5 DEF TransferNext

\* A completion keeps its own device only, and it is that of the last row.
LEMMA DeviceStep ==
  ASSUME TransferAssumption, SwapInv, [TransferNext]_transferVars
  PROVE  LastDeviceHoldsAccount'
<1>. USE DEF TransferAssumption, SwapInv, TransferTypeOK, Transfers, Active, InOrder,
             LastDeviceHoldsAccount
<1>1. CASE SignIn \/ SweepDevices
  BY <1>1 DEF SignIn, SweepDevices
<1>2. ASSUME NEW t \in Transfers, Lapse(t) \/ Accept(t) \/ Expire(t) \/ Cancel(t)
      PROVE  LastDeviceHoldsAccount'
  BY <1>2 DEF Lapse, Accept, Expire, Cancel, Cancellable
<1>3. ASSUME NEW t \in Transfers, Initiate(t) PROVE LastDeviceHoldsAccount'
  BY <1>3 DEF Initiate, NoneActiveBut
<1>4. ASSUME NEW t \in Transfers, NEW byTarget \in BOOLEAN, Complete(t, byTarget)
      PROVE  LastDeviceHoldsAccount'
  BY <1>4 DEF Complete, OnlyDevice
<1>5. CASE UNCHANGED transferVars
  BY <1>5 DEF transferVars
<1>. QED BY <1>1, <1>2, <1>3, <1>4, <1>5 DEF TransferNext

\* The conjunction is inductive.
LEMMA TransferInv == ASSUME TransferAssumption PROVE TransferSpec => []SwapInv
<1>1. TransferInit => SwapInv
  BY DEF TransferInit, SwapInv, TransferTypeOK, InOrder, LastDeviceHoldsAccount, Active,
         Transfers
<1>2. SwapInv /\ [TransferNext]_transferVars => SwapInv'
  BY SwapTypeStep, OrderStep, DeviceStep DEF SwapInv
<1>. QED BY <1>1, <1>2, PTL DEF TransferSpec

\* Types, and at most one transfer of the account is active, for any number of
\* transfers and whatever lapses meanwhile: the unique index and the expiry of
\* stale rows inside insert_transfer.
THEOREM OneActiveTransfer ==
  ASSUME TransferAssumption PROVE TransferSpec => []TransferTypeOK
<1>1. SwapInv => TransferTypeOK
  BY DEF SwapInv
<1>. QED BY <1>1, TransferInv, PTL

\* A device that can still authenticate belongs to a transfer that was accepted
\* and not cancelled, and no later swap was completed: complete_transfer has no
\* expiry check and does not need one.
THEOREM SwapLeavesOneDevice ==
  ASSUME TransferAssumption PROVE TransferSpec => []LastDeviceHoldsAccount
<1>1. SwapInv => LastDeviceHoldsAccount
  BY DEF SwapInv
<1>. QED BY <1>1, TransferInv, PTL

-----------------------------------------------------------------------------
(* The instance that TLC runs: all credentials of an account together.     *)

\* Each of its behaviours is one of every component, so what is proved of the
\* components holds in it.
THEOREM CredentialsRunEach ==
  MCSpec => Spec /\ TokensSpec /\ ConsentSpec /\ TransferSpec
<1>1. MCInit => Init /\ TokensInit /\ ConsentInit /\ TransferInit
  BY DEF MCInit
<1>2. [MCNext]_allVars =>
        /\ [Next]_vars /\ [TokensNext]_oauthVars
        /\ [ConsentNext]_consentVars /\ [TransferNext]_transferVars
  BY Zenon DEF MCNext, allVars
<1>. QED BY <1>1, <1>2, PTL DEF MCSpec, Spec, TokensSpec, ConsentSpec, TransferSpec

\* The types of sessions, OAuth tokens, consents and transfers, for any number of
\* each.
THEOREM CredentialTypesCorrect ==
  ASSUME SessionsAssumption, OAuthAssumption, ConsentAssumption, TransferAssumption
  PROVE  MCSpec => []TypesOK
<1>1. TypeOK /\ TokensTypeOK /\ ConsentTypeOK /\ TransferTypeOK => TypesOK
  BY DEF TypesOK
<1>. QED BY <1>1, CredentialsRunEach, SessionsTypeCorrect, TokensTypeCorrect,
            ConsentTypeCorrect, OneActiveTransfer, PTL
=============================================================================
