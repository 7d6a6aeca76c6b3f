------------------------------ MODULE Sessions ------------------------------
(***************************************************************************)
(* The password sessions of one account: createSession with the main       *)
(* password or an app password, refreshSession with rotation and replay    *)
(* detection, deleteSession, the creation and revocation of app passwords, *)
(* and the sweeps of an operator and of a completed device transfer.       *)
(*                                                                         *)
(* A refresh token is the number of its jti.  A session is named by its    *)
(* first token, and an app password by its name.                           *)
(***************************************************************************)
EXTENDS Naturals

CONSTANTS
  Requests,    \* concurrent requests
  Names,       \* names of app passwords
  Main,        \* the main password, in place of an app password's name
  MaxTokens    \* bound: refresh tokens issued

SessionsAssumption == Main \notin Names /\ MaxTokens \in Nat

VARIABLES
  names,       \* app_passwords
  grants,      \* app_passwords: privileged
  sessions,    \* sessions
  tokens,      \* refresh_tokens
  next,        \* refresh_tokens.next_jti, 0 for NULL
  session,     \* refresh_tokens.session_id
  name,        \* refresh_tokens.app_password_name, Main for NULL
  issued,      \* tokens minted so far
  scope,       \* whether the access JWT minted with each token is privileged
  pc,          \* progress of each request
  jti,         \* the token it presented
  sid,         \* the session it read
  kind,        \* the password that authorised it
  granted      \* the grants it read

passwords == <<names, grants>>
chains    == <<next, session, name, issued, scope>>
rows      == <<sessions, tokens, chains>>
reads     == <<jti, sid, kind, granted>>
vars      == <<passwords, rows, pc, reads>>

Jtis == 1..MaxTokens

Init ==
  /\ names = {} /\ grants = [n \in Names |-> FALSE]
  /\ sessions = {} /\ tokens = {} /\ issued = 0
  /\ next = [j \in Jtis |-> 0] /\ session = [j \in Jtis |-> 0]
  /\ name = [j \in Jtis |-> Main] /\ scope = [j \in Jtis |-> FALSE]
  /\ pc = [r \in Requests |-> "idle"]
  /\ jti = [r \in Requests |-> 0] /\ sid = [r \in Requests |-> 0]
  /\ kind = [r \in Requests |-> Main] /\ granted = [r \in Requests |-> FALSE]

-----------------------------------------------------------------------------
(* App passwords.                                                          *)

\* createAppPassword: a name that is taken is refused.
CreateAppPassword(n, privileged) ==
  /\ n \notin names
  /\ names' = names \cup {n}
  /\ grants' = [grants EXCEPT ![n] = privileged]
  /\ UNCHANGED <<rows, pc, reads>>

\* revokeAppPassword: the password and every session it opened.
RevokeAppPassword(n) ==
  LET gone == {j \in tokens : name[j] = n} IN
  /\ n \in names
  /\ names' = names \ {n}
  /\ tokens' = tokens \ gone
  /\ sessions' = sessions \ {session[j] : j \in gone}
  /\ UNCHANGED <<grants, chains, pc, reads>>

-----------------------------------------------------------------------------
(* createSession.                                                          *)

\* The password is verified: the main one, or one of the app passwords.
Verify(r, n) ==
  /\ pc[r] = "idle"
  /\ n # Main => n \in names
  /\ pc' = [pc EXCEPT ![r] = "verified"]
  /\ kind' = [kind EXCEPT ![r] = n]
  /\ granted' = [granted EXCEPT ![r] = n # Main /\ grants[n]]
  /\ UNCHANGED <<passwords, rows, jti, sid>>

\* Fault: only the name is looked up again.
StillExists(r) == kind[r] # Main => kind[r] \in names

\* Fault: the app password is not looked at again.
NoRecheck(r) == TRUE

\* The check of issue_session_in_transaction: the name still has these grants.
GrantsUnchanged(r) ==
  kind[r] # Main => kind[r] \in names /\ grants[kind[r]] = granted[r]

\* One row of refresh_tokens, for the session s.
InsertToken(r, s) ==
  /\ issued < MaxTokens
  /\ issued' = issued + 1
  /\ tokens' = tokens \cup {issued'}
  /\ session' = [session EXCEPT ![issued'] = s]
  /\ name' = [name EXCEPT ![issued'] = kind[r]]
  /\ scope' = [scope EXCEPT ![issued'] = granted[r]]

\* The request ends, and forgets what it read.
Return(r) ==
  /\ pc' = [pc EXCEPT ![r] = "idle"]
  /\ jti' = [jti EXCEPT ![r] = 0] /\ sid' = [sid EXCEPT ![r] = 0]
  /\ kind' = [kind EXCEPT ![r] = Main]
  /\ granted' = [granted EXCEPT ![r] = FALSE]

\* issue_session: the session and its first token in one transaction.
IssueSession(r) ==
  /\ pc[r] = "verified"
  /\ GrantsUnchanged(r)
  /\ InsertToken(r, issued + 1)
  /\ sessions' = sessions \cup {issued'}
  /\ Return(r)
  /\ UNCHANGED <<passwords, next>>

-----------------------------------------------------------------------------
(* refreshSession and deleteSession.                                       *)

\* get_active_refresh_token: a client presents any token it was ever given,
\* also one it has used before.  A rotated one is a replay.
Present(r, j) ==
  /\ pc[r] = "idle"
  /\ j \in tokens
  /\ pc' = [pc EXCEPT ![r] = IF next[j] = 0 THEN "found" ELSE "revoking"]
  /\ jti' = [jti EXCEPT ![r] = j]
  /\ sid' = [sid EXCEPT ![r] = session[j]]
  /\ kind' = [kind EXCEPT ![r] = name[j]]
  /\ granted' = [granted EXCEPT ![r] = FALSE]
  /\ UNCHANGED <<passwords, rows>>

\* deleteSession: session_id_for_jti.
FindSession(r, j) ==
  /\ pc[r] = "idle"
  /\ j \in tokens
  /\ pc' = [pc EXCEPT ![r] = "revoking"]
  /\ jti' = [jti EXCEPT ![r] = j]
  /\ sid' = [sid EXCEPT ![r] = session[j]]
  /\ UNCHANGED <<passwords, rows, kind, granted>>

\* Replay or logout: every token of the session, and the session.
RevokeSession(r) ==
  /\ pc[r] = "revoking"
  /\ tokens' = {j \in tokens : session[j] # sid[r]}
  /\ sessions' = sessions \ {sid[r]}
  /\ Return(r)
  /\ UNCHANGED <<passwords, chains>>

\* The grants of the new access token: those stored under the name now.
ReadGrants(r) ==
  /\ pc[r] = "found"
  /\ kind[r] # Main => kind[r] \in names
  /\ pc' = [pc EXCEPT ![r] = "granted"]
  /\ granted' = [granted EXCEPT ![r] = kind[r] # Main /\ grants[kind[r]]]
  /\ UNCHANGED <<passwords, rows, jti, sid, kind>>

\* Fault: the UPDATE does not ask whether the token was rotated meanwhile.
RotatableTwice(r) == jti[r] \in tokens

\* The UPDATE finds its row, and the INSERT's session exists (foreign key).
Rotatable(r) == jti[r] \in tokens /\ next[jti[r]] = 0

SessionExists(r) == sid[r] \in sessions

\* The rotation: insert the new token and mark the old one, or neither.
Rotate(r) ==
  /\ pc[r] = "granted"
  /\ SessionExists(r)
  /\ Rotatable(r)
  /\ InsertToken(r, sid[r])
  /\ next' = [next EXCEPT ![jti[r]] = issued']
  /\ Return(r)
  /\ UNCHANGED <<passwords, sessions>>

\* Any refusal, failure or drop: nothing of the open transaction stays.
Abandon(r) ==
  /\ pc[r] # "idle"
  /\ Return(r)
  /\ UNCHANGED <<passwords, rows>>

-----------------------------------------------------------------------------
\* complete_transfer: every session of the account.
TransferSweep ==
  /\ sessions # {}
  /\ tokens' = {} /\ sessions' = {}
  /\ UNCHANGED <<passwords, chains, pc, reads>>

\* revoke_account_credentials: the sessions and the app passwords.
RevokeCredentials ==
  /\ sessions # {} \/ names # {}
  /\ tokens' = {} /\ sessions' = {}
  /\ names' = {}
  /\ UNCHANGED <<grants, chains, pc, reads>>

Handle(r) ==
  \/ IssueSession(r) \/ ReadGrants(r) \/ Rotate(r) \/ RevokeSession(r) \/ Abandon(r)

Next ==
  \/ \E n \in Names, privileged \in BOOLEAN : CreateAppPassword(n, privileged)
  \/ \E n \in Names : RevokeAppPassword(n)
  \/ \E r \in Requests, n \in Names \cup {Main} : Verify(r, n)
  \/ \E r \in Requests, j \in Jtis : Present(r, j) \/ FindSession(r, j)
  \/ \E r \in Requests : Handle(r)
  \/ TransferSweep \/ RevokeCredentials

Spec == Init /\ [][Next]_vars

-----------------------------------------------------------------------------
\* Types; a refresh past its lookup holds a token.
TypeOK ==
  /\ names \subseteq Names /\ grants \in [Names -> BOOLEAN]
  /\ sessions \subseteq Jtis /\ tokens \subseteq Jtis /\ issued \in 0..MaxTokens
  /\ next \in [Jtis -> 0..MaxTokens] /\ session \in [Jtis -> 0..MaxTokens]
  /\ name \in [Jtis -> Names \cup {Main}]
  /\ scope \in [Jtis -> BOOLEAN]
  /\ pc \in [Requests -> {"idle", "verified", "found", "granted", "revoking"}]
  /\ jti \in [Requests -> 0..MaxTokens] /\ sid \in [Requests -> 0..MaxTokens]
  /\ kind \in [Requests -> Names \cup {Main}]
  /\ granted \in [Requests -> BOOLEAN]
  /\ \A r \in Requests : pc[r] \in {"found", "granted"} => jti[r] # 0

\* One refresh token yields at most one live chain, and a session that exists
\* can be continued: exactly one of its tokens was not rotated.  Two requests
\* may both have read that token before either rotates it.
OneLiveChain ==
  \A s \in sessions :
    \E j \in tokens : \A k \in tokens : session[k] = s /\ next[k] = 0 <=> k = j

\* A session outlives neither its row (logout, replay, sweep) nor its app
\* password: no token is left of a session that was ended or of an app
\* password that was revoked, whatever a login or a refresh had read before.
NoTokenOutlives ==
  \A j \in tokens :
    /\ session[j] \in sessions
    /\ name[j] # Main => name[j] \in names

\* The access token minted with a refresh token is as privileged as the app
\* password it belongs to, and not privileged otherwise (refreshSession must
\* not escalate): grants are read outside the transaction that mints.
ScopeFollowsGrants ==
  \A j \in tokens : scope[j] = (name[j] # Main /\ grants[name[j]])
=============================================================================
