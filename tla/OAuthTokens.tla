----------------------------- MODULE OAuthTokens -----------------------------
(***************************************************************************)
(* The token endpoint for one account and one client: the exchange of an   *)
(* authorization code, refresh with rotation, the grace window and reuse   *)
(* detection, revocation, and the sweep of an operator.  Every handler     *)
(* reads, decides and writes in statements of their own, so two handlers   *)
(* may interleave between any two of them.                                 *)
(*                                                                         *)
(* A session family is named by its first token.  Keys are the DPoP keys   *)
(* that sign the requests.  Access tokens are stateless and left out.      *)
(***************************************************************************)
EXTENDS Naturals

CONSTANTS
  TokenCalls,  \* concurrent requests to the endpoint
  Keys,        \* DPoP keys
  NoKey,       \* in place of a key: none
  MaxCodes,    \* bound: authorization codes issued
  MaxGrants    \* bound: refresh tokens issued

OAuthAssumption == NoKey \notin Keys /\ MaxCodes \in Nat /\ MaxGrants \in Nat

VARIABLES
  codes,       \* oauth_authorization_codes
  codesIssued, \* codes issued so far
  bound,       \* dpop_jkt of each code
  grantRows,   \* oauth_tokens
  grantsIssued,\* tokens issued so far
  age,         \* superseded_at: "current", "grace" (window open) or "late"
  family,      \* session_id
  key,         \* jkt
  from,        \* the code that opened the token's family
  shown,       \* tokens a refresh has accepted, to rotate them
  expired,     \* families past their absolute expiry
  revoked,     \* families revoked or swept
  step,        \* progress of each request
  item,        \* the code or token it read
  signer       \* the key of its DPoP proof

codeTable  == <<codes, codesIssued, bound>>
tokenTable == <<grantRows, grantsIssued, age, family, key, from>>
request    == <<step, item, signer>>
history    == <<shown, expired, revoked>>
oauthVars  == <<codeTable, tokenTable, history, request>>

Codes  == 1..MaxCodes
Grants == 1..MaxGrants

TokensInit ==
  /\ codes = {} /\ codesIssued = 0 /\ bound = [c \in Codes |-> NoKey]
  /\ grantRows = {} /\ grantsIssued = 0
  /\ age = [t \in Grants |-> "current"]
  /\ family = [t \in Grants |-> t] /\ key = [t \in Grants |-> NoKey]
  /\ from = [t \in Grants |-> 0]
  /\ shown = {} /\ expired = {} /\ revoked = {}
  /\ step = [r \in TokenCalls |-> "idle"] /\ item = [r \in TokenCalls |-> 0]
  /\ signer = [r \in TokenCalls |-> NoKey]

Begin(r, where, i, k) ==
  /\ step[r] = "idle"
  /\ step' = [step EXCEPT ![r] = where]
  /\ item' = [item EXCEPT ![r] = i]
  /\ signer' = [signer EXCEPT ![r] = k]

GoTo(r, where) ==
  step' = [step EXCEPT ![r] = where] /\ UNCHANGED <<item, signer>>

Finish(r) ==
  /\ step' = [step EXCEPT ![r] = "idle"]
  /\ item' = [item EXCEPT ![r] = 0]
  /\ signer' = [signer EXCEPT ![r] = NoKey]

-----------------------------------------------------------------------------
(* Authorization codes.                                                    *)

\* Consent was given: the wallet's is bound to the key of the pushed request
\* (if it proved one), the password form's to none.
StoreAuthorizationCode(k) ==
  /\ codesIssued < MaxCodes
  /\ codesIssued' = codesIssued + 1
  /\ codes' = codes \cup {codesIssued'}
  /\ bound' = [bound EXCEPT ![codesIssued'] = k]
  /\ UNCHANGED <<tokenTable, history, request>>

\* A code lapses: reads skip it and the next clean-up deletes it.
ExpireCode(c) ==
  /\ c \in codes
  /\ codes' = codes \ {c}
  /\ UNCHANGED <<codesIssued, bound, tokenTable, history, request>>

\* Fault: the key the code is bound to is not compared.
AnyKey(c, k) == TRUE

\* The DPoP check of the exchange.
CodeKeyMatches(c, k) == bound[c] \in {NoKey, k}

\* get_authorization_code, with the checks that follow it.
ReadCode(r, c, k) ==
  /\ c \in codes
  /\ CodeKeyMatches(c, k)
  /\ Begin(r, "code", c, k)
  /\ UNCHANGED <<codeTable, tokenTable, history>>

\* delete_authorization_code: how many rows it deleted is not looked at.
DeleteCode(r) == codes' = codes \ {item[r]}

ConsumeCode(r) ==
  /\ step[r] = "code"
  /\ DeleteCode(r)
  /\ GoTo(r, "consumed")
  /\ UNCHANGED <<codesIssued, bound, tokenTable, history>>

\* One row of oauth_tokens.  The expiry is the family's: a row that joins an
\* expired family is never read.
InsertGrant(f, k, c) ==
  /\ grantsIssued < MaxGrants
  /\ grantsIssued' = grantsIssued + 1
  /\ grantRows' = grantRows \cup ({grantsIssued'} \ {t \in Grants : f \in expired})
  /\ family' = [family EXCEPT ![grantsIssued'] = f]
  /\ key' = [key EXCEPT ![grantsIssued'] = k]
  /\ from' = [from EXCEPT ![grantsIssued'] = c]
  /\ UNCHANGED age

\* store_initial_oauth_refresh_token: a new family.
StoreInitial(r) ==
  /\ step[r] = "consumed"
  /\ InsertGrant(grantsIssued + 1, signer[r], item[r])
  /\ Finish(r)
  /\ UNCHANGED <<codeTable, history>>

-----------------------------------------------------------------------------
(* Refresh and revocation.                                                 *)

\* Fault: a token is believed for its signature, without its row.
WasIssued(t) == t <= grantsIssued

\* The row is there and not expired.
RowExists(t) == t \in grantRows

\* get_oauth_refresh_token, with the key check: a current token and one that
\* is superseded but in its grace window are rotated, a later one is reuse.
ReadGrant(r, t, k) ==
  /\ RowExists(t)
  /\ key[t] = k
  /\ Begin(r, CASE age[t] = "current" -> "current"
                [] age[t] = "grace"   -> "rotating"
                [] age[t] = "late"    -> "revoking", t, k)
  /\ shown' = IF age[t] = "late" THEN shown ELSE shown \cup {t}
  /\ UNCHANGED <<codeTable, tokenTable, expired, revoked>>

\* Fault: the UPDATE names the family instead of the token.
SupersedeFamily(t) ==
  age' = [u \in Grants |->
            IF u \in grantRows /\ family[u] = family[t] /\ age[u] = "current"
            THEN "grace" ELSE age[u]]

\* supersede_oauth_refresh_token: whether it was first is not looked at.
SupersedeToken(t) ==
  age' = [age EXCEPT ![t] = IF @ = "current" THEN "grace" ELSE @]

Supersede(r) ==
  /\ step[r] = "current"
  /\ SupersedeToken(item[r])
  /\ GoTo(r, "rotating")
  /\ UNCHANGED <<codeTable, grantRows, grantsIssued, family, key, from, history>>

\* store_rotated_oauth_refresh_token: the family is the one that was read.
StoreRotated(r) ==
  /\ step[r] = "rotating"
  /\ InsertGrant(family[item[r]], signer[r], from[item[r]])
  /\ Finish(r)
  /\ UNCHANGED <<codeTable, history>>

\* post_revoke: the same read, whatever the age of the token.
ReadForRevoke(r, t, k) ==
  /\ t \in grantRows
  /\ key[t] = k
  /\ Begin(r, "revoking", t, k)
  /\ UNCHANGED <<codeTable, tokenTable, history>>

\* delete_oauth_refresh_session, after reuse or for post_revoke.
DeleteFamily(r) ==
  LET f == family[item[r]] IN
  /\ step[r] = "revoking"
  /\ grantRows' = {t \in grantRows : family[t] # f}
  /\ revoked' = revoked \cup {f}
  /\ Finish(r)
  /\ UNCHANGED <<codeTable, grantsIssued, age, family, key, from, shown, expired>>

\* Any refusal, failure or drop between two statements.
Drop(r) ==
  /\ step[r] # "idle"
  /\ Finish(r)
  /\ UNCHANGED <<codeTable, tokenTable, history>>

-----------------------------------------------------------------------------
\* The grace window of a superseded token closes.
LapseGrace(t) ==
  /\ t \in grantRows /\ age[t] = "grace"
  /\ age' = [age EXCEPT ![t] = "late"]
  /\ UNCHANGED <<codeTable, grantRows, grantsIssued, family, key, from, history, request>>

\* The absolute expiry of a family: reads skip its rows.
ExpireFamily(f) ==
  /\ \E t \in grantRows : family[t] = f
  /\ expired' = expired \cup {f}
  /\ grantRows' = {t \in grantRows : family[t] # f}
  /\ UNCHANGED <<codeTable, grantsIssued, age, family, key, from, shown, revoked, request>>

\* revoke_account_credentials: tokens and codes in one transaction.
SweepGrants ==
  /\ grantRows # {} \/ codes # {}
  /\ grantRows' = {} /\ codes' = {}
  /\ revoked' = revoked \cup {family[t] : t \in grantRows}
  /\ UNCHANGED <<codesIssued, bound, grantsIssued, age, family, key, from,
                 shown, expired, request>>

HandleToken(r) ==
  \/ ConsumeCode(r) \/ StoreInitial(r) \/ Supersede(r) \/ StoreRotated(r)
  \/ DeleteFamily(r) \/ Drop(r)

TokensNext ==
  \/ \E k \in Keys \cup {NoKey} : StoreAuthorizationCode(k)
  \/ \E c \in Codes : ExpireCode(c)
  \/ \E r \in TokenCalls, c \in Codes, k \in Keys : ReadCode(r, c, k)
  \/ \E r \in TokenCalls, t \in Grants, k \in Keys :
       ReadGrant(r, t, k) \/ ReadForRevoke(r, t, k)
  \/ \E r \in TokenCalls : HandleToken(r)
  \/ \E t \in Grants : LapseGrace(t) \/ ExpireFamily(t)
  \/ SweepGrants

TokensSpec == TokensInit /\ [][TokensNext]_oauthVars

-----------------------------------------------------------------------------
Minted == 1..grantsIssued

\* Types of the codes, the tokens and the requests.
TokensTypeOK ==
  /\ codes \subseteq Codes /\ codesIssued \in 0..MaxCodes
  /\ bound \in [Codes -> Keys \cup {NoKey}]
  /\ grantRows \subseteq Grants /\ grantsIssued \in 0..MaxGrants
  /\ age \in [Grants -> {"current", "grace", "late"}]
  /\ family \in [Grants -> Grants] /\ key \in [Grants -> Keys \cup {NoKey}]
  /\ from \in [Grants -> 0..MaxCodes]
  /\ shown \subseteq Grants /\ expired \subseteq Grants /\ revoked \subseteq Grants
  /\ step \in [TokenCalls -> {"idle", "code", "consumed", "current", "rotating", "revoking"}]
  /\ item \in [TokenCalls -> Nat] /\ signer \in [TokenCalls -> Keys \cup {NoKey}]

\* A code that was issued to one key opens no session for another, and the
\* whole family stays with the key that opened it: the key is checked at the
\* exchange and at every refresh, against rows read earlier.
FamilyKeepsKey ==
  \A t \in Minted : /\ bound[from[t]] \in {NoKey, key[t]}
                    /\ key[t] = key[family[t]]

\* The loser of two concurrent refreshes is not stranded: every refresh token
\* that was handed out and not yet presented is the current one of its row,
\* unless its session was ended.
UnusedStaysCurrent ==
  \A t \in Minted \ shown :
    family[t] \notin expired \cup revoked => t \in grantRows /\ age[t] = "current"

\* A family with no row left and no request in progress that read one of its
\* tokens never has a row again: only a request in flight can undo a revocation.
Forgotten(f) ==
  /\ f \in Minted
  /\ \A t \in grantRows : family[t] # f
  /\ \A r \in TokenCalls :
       step[r] \in {"current", "rotating"} => family[item[r]] # f

ForgottenForGood == [][\A f \in Grants : Forgotten(f) => Forgotten(f)']_oauthVars

\* "Revoking any one refresh token ends the session it belongs to": no token
\* is left of a revoked family.
RevokedStaysRevoked == \A t \in grantRows : family[t] \notin revoked
=============================================================================
