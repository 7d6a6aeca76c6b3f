---------------------------- MODULE OAuthProofs ----------------------------
(***************************************************************************)
(* OAuth tokens for any number of calls, keys, codes and tokens, and       *)
(* wallet-confirmed consent for any number of requests and wallets.  A     *)
(* handler acts on what it read statements ago: the invariants say what is *)
(* still true of it, whatever ran in between.                              *)
(***************************************************************************)
EXTENDS OAuthTokens, OAuthConsent, TLAPS

\* The tables: rows are of tokens that were issued, their families too, and a
\* token not issued yet is as it was at the start.
RowsInv ==
  /\ codes \subseteq 1..codesIssued
  /\ grantRows \subseteq Minted
  /\ \A t \in Minted : family[t] \in Minted /\ from[t] \in 1..codesIssued
  /\ \A t \in Grants \ Minted : age[t] = "current"

\* An exchange under way holds a code its key may use; a refresh or revocation
\* under way holds a token of its key, and a refresh one that was accepted.
CallsInv ==
  \A r \in TokenCalls :
    /\ step[r] \in {"code", "consumed"} =>
         item[r] \in 1..codesIssued /\ signer[r] \in Keys
         /\ bound[item[r]] \in {NoKey, signer[r]}
    /\ step[r] \in {"current", "rotating", "revoking"} =>
         item[r] \in Minted /\ signer[r] = key[item[r]]
    /\ step[r] \in {"current", "rotating"} => item[r] \in shown

TokensInv ==
  /\ TokensTypeOK /\ RowsInv /\ CallsInv /\ FamilyKeepsKey /\ UnusedStaysCurrent

-----------------------------------------------------------------------------
(* The actions by what they do to the tokens.                              *)

\* The token rows stay as they are.
TokensStay ==
  \/ \E k \in Keys \cup {NoKey} : StoreAuthorizationCode(k)
  \/ \E c \in Codes : ExpireCode(c)
  \/ \E r \in TokenCalls, c \in Codes, k \in Keys : ReadCode(r, c, k)
  \/ \E r \in TokenCalls, t \in Grants, k \in Keys :
       ReadGrant(r, t, k) \/ ReadForRevoke(r, t, k)
  \/ \E r \in TokenCalls : ConsumeCode(r) \/ Drop(r)

\* Rows go or age, and none is added.
TokensFade ==
  \/ \E r \in TokenCalls : Supersede(r) \/ DeleteFamily(r)
  \/ \E t \in Grants : LapseGrace(t) \/ ExpireFamily(t)
  \/ SweepGrants

\* A token is issued, to a new family or to that of the token presented.
TokenIssued ==
  \E r \in TokenCalls : StoreInitial(r) \/ StoreRotated(r)

\* Every step is of one of the three kinds.
LEMMA TokenStepKinds ==
  ASSUME [TokensNext]_oauthVars
  PROVE  TokensStay \/ TokensFade \/ TokenIssued \/ UNCHANGED oauthVars
BY DEF TokensNext, HandleToken, TokensStay, TokensFade, TokenIssued

\* The tables at the start satisfy the invariant.
LEMMA TokensInitInv ==
  ASSUME OAuthAssumption, TokensInit
  PROVE  TokensInv
BY DEF OAuthAssumption, TokensInit, TokensInv, TokensTypeOK, RowsInv, CallsInv,
       FamilyKeepsKey, UnusedStaysCurrent, Minted, Codes, Grants

\* What a refresh does with the token it read: to rotate it is to have accepted it.
LEMMA ReadGrantStep ==
  ASSUME TokensTypeOK, NEW r \in TokenCalls, NEW t \in Grants, NEW k \in Keys,
         ReadGrant(r, t, k)
  PROVE  \E where \in {"current", "rotating", "revoking"} :
           Begin(r, where, t, k) /\ (where # "revoking" => t \in shown')
<1>1. age[t] \in {"current", "grace", "late"}
  BY DEF TokensTypeOK
<1>2. CASE age[t] = "current"
  BY <1>2, Zenon DEF ReadGrant
<1>3. CASE age[t] = "grace"
  BY <1>3, Zenon DEF ReadGrant
<1>4. CASE age[t] = "late"
  BY <1>4, Zenon DEF ReadGrant
<1> QED
  BY <1>1, <1>2, <1>3, <1>4

\* Codes are stored, read, consumed or lapse, and tokens are read.
LEMMA TokensStayInv ==
  ASSUME OAuthAssumption, TokensInv, TokensStay
  PROVE  TokensInv'
<1> USE DEF OAuthAssumption, TokensInv, codeTable, tokenTable, request, history
<1>1. ASSUME NEW k \in Keys \cup {NoKey}, StoreAuthorizationCode(k)
      PROVE  TokensInv'
  <2> codesIssued' \in Codes /\ codesIssued' = codesIssued + 1
    BY <1>1 DEF StoreAuthorizationCode, TokensTypeOK, Codes
  <2>1. TokensTypeOK'
    BY <1>1 DEF TokensTypeOK, StoreAuthorizationCode, Codes
  <2>2. RowsInv'
    BY <1>1 DEF TokensTypeOK, RowsInv, StoreAuthorizationCode, Minted
  <2>3. CallsInv'
    BY <1>1 DEF TokensTypeOK, CallsInv, StoreAuthorizationCode, Minted, Codes
  <2>4. FamilyKeepsKey'
    BY <1>1 DEF TokensTypeOK, RowsInv, FamilyKeepsKey, StoreAuthorizationCode, Minted, Codes
  <2>5. UnusedStaysCurrent'
    BY <1>1 DEF UnusedStaysCurrent, StoreAuthorizationCode, Minted
  <2> QED
    BY <2>1, <2>2, <2>3, <2>4, <2>5
<1>2. ASSUME NEW c \in Codes, ExpireCode(c)
      PROVE  TokensInv'
  <2>1. TokensTypeOK'
    BY <1>2 DEF TokensTypeOK, ExpireCode
  <2>2. RowsInv'
    BY <1>2 DEF TokensTypeOK, RowsInv, Minted, ExpireCode
  <2>3. CallsInv'
    BY <1>2 DEF TokensTypeOK, RowsInv, CallsInv, Minted, ExpireCode
  <2>4. FamilyKeepsKey'
    BY <1>2 DEF FamilyKeepsKey, Minted, ExpireCode
  <2>5. UnusedStaysCurrent'
    BY <1>2 DEF TokensTypeOK, RowsInv, UnusedStaysCurrent, Minted, ExpireCode
  <2> QED
    BY <2>1, <2>2, <2>3, <2>4, <2>5
<1>3. ASSUME NEW r \in TokenCalls, NEW c \in Codes, NEW k \in Keys, ReadCode(r, c, k)
      PROVE  TokensInv'
  <2>1. TokensTypeOK'
    BY <1>3 DEF TokensTypeOK, Codes, ReadCode, CodeKeyMatches, Begin
  <2>2. RowsInv'
    BY <1>3 DEF TokensTypeOK, RowsInv, Minted, ReadCode, CodeKeyMatches, Begin
  <2>3. CallsInv'
    BY <1>3 DEF TokensTypeOK, RowsInv, CallsInv, Minted, ReadCode, CodeKeyMatches, Begin
  <2>4. FamilyKeepsKey'
    BY <1>3 DEF FamilyKeepsKey, Minted, ReadCode, CodeKeyMatches, Begin
  <2>5. UnusedStaysCurrent'
    BY <1>3 DEF TokensTypeOK, RowsInv, UnusedStaysCurrent, Minted, ReadCode, CodeKeyMatches, Begin
  <2> QED
    BY <2>1, <2>2, <2>3, <2>4, <2>5
<1>4. ASSUME NEW r \in TokenCalls, NEW t \in Grants, NEW k \in Keys, ReadGrant(r, t, k)
      PROVE  TokensInv'
  <2> PICK where \in {"current", "rotating", "revoking"} :
             Begin(r, where, t, k) /\ (where # "revoking" => t \in shown')
    BY <1>4, ReadGrantStep
  <2> /\ t \in grantRows /\ key[t] = k
      /\ shown \subseteq shown' /\ shown' \subseteq shown \cup {t}
      /\ UNCHANGED <<codeTable, tokenTable, expired, revoked>>
    BY <1>4, Zenon DEF ReadGrant, RowExists
  <2> t \in Nat
    BY DEF Grants
  <2>1. TokensTypeOK'
    BY DEF TokensTypeOK, Begin
  <2>2. RowsInv'
    BY DEF TokensTypeOK, RowsInv, Minted, Begin
  <2>3. CallsInv'
    BY DEF TokensTypeOK, RowsInv, CallsInv, Minted, Begin
  <2>4. FamilyKeepsKey'
    BY DEF FamilyKeepsKey, Minted, Begin
  <2>5. UnusedStaysCurrent'
    BY DEF TokensTypeOK, RowsInv, UnusedStaysCurrent, Minted, Begin
  <2> QED
    BY <2>1, <2>2, <2>3, <2>4, <2>5
<1>5. ASSUME NEW r \in TokenCalls, NEW t \in Grants, NEW k \in Keys, ReadForRevoke(r, t, k)
      PROVE  TokensInv'
  <2> t \in Nat
    BY DEF Grants
  <2>1. TokensTypeOK'
    BY <1>5 DEF TokensTypeOK, ReadForRevoke, Begin
  <2>2. RowsInv'
    BY <1>5 DEF TokensTypeOK, RowsInv, Minted, ReadForRevoke, Begin
  <2>3. CallsInv'
    BY <1>5 DEF TokensTypeOK, RowsInv, CallsInv, Minted, ReadForRevoke, Begin
  <2>4. FamilyKeepsKey'
    BY <1>5 DEF FamilyKeepsKey, Minted, ReadForRevoke, Begin
  <2>5. UnusedStaysCurrent'
    BY <1>5 DEF TokensTypeOK, RowsInv, UnusedStaysCurrent, Minted, ReadForRevoke, Begin
  <2> QED
    BY <2>1, <2>2, <2>3, <2>4, <2>5
<1>6. ASSUME NEW r \in TokenCalls, ConsumeCode(r)
      PROVE  TokensInv'
  <2>1. TokensTypeOK'
    BY <1>6 DEF TokensTypeOK, ConsumeCode, DeleteCode, GoTo
  <2>2. RowsInv'
    BY <1>6 DEF TokensTypeOK, RowsInv, Minted, ConsumeCode, DeleteCode, GoTo
  <2>3. CallsInv'
    BY <1>6 DEF TokensTypeOK, RowsInv, CallsInv, Minted, ConsumeCode, DeleteCode, GoTo
  <2>4. FamilyKeepsKey'
    BY <1>6 DEF FamilyKeepsKey, Minted, ConsumeCode, DeleteCode, GoTo
  <2>5. UnusedStaysCurrent'
    BY <1>6 DEF TokensTypeOK, RowsInv, UnusedStaysCurrent, Minted, ConsumeCode, DeleteCode, GoTo
  <2> QED
    BY <2>1, <2>2, <2>3, <2>4, <2>5
<1>7. ASSUME NEW r \in TokenCalls, Drop(r)
      PROVE  TokensInv'
  <2>1. TokensTypeOK'
    BY <1>7 DEF TokensTypeOK, Drop, Finish
  <2>2. RowsInv'
    BY <1>7 DEF TokensTypeOK, RowsInv, Minted, Drop, Finish
  <2>3. CallsInv'
    BY <1>7 DEF TokensTypeOK, RowsInv, CallsInv, Minted, Drop, Finish
  <2>4. FamilyKeepsKey'
    BY <1>7 DEF FamilyKeepsKey, Minted, Drop, Finish
  <2>5. UnusedStaysCurrent'
    BY <1>7 DEF TokensTypeOK, RowsInv, UnusedStaysCurrent, Minted, Drop, Finish
  <2> QED
    BY <2>1, <2>2, <2>3, <2>4, <2>5
<1> QED
  BY <1>1, <1>2, <1>3, <1>4, <1>5, <1>6, <1>7 DEF TokensStay

\* Tokens are superseded, lapse, expire, or are revoked with their family.
LEMMA TokensFadeInv ==
  ASSUME OAuthAssumption, TokensInv, TokensFade
  PROVE  TokensInv'
<1> USE DEF OAuthAssumption, TokensInv, codeTable, tokenTable, request, history
<1>1. ASSUME NEW r \in TokenCalls, Supersede(r)
      PROVE  TokensInv'
  <2>1. TokensTypeOK'
    BY <1>1 DEF TokensTypeOK, Supersede, SupersedeToken, GoTo
  <2>2. RowsInv'
    BY <1>1 DEF TokensTypeOK, RowsInv, CallsInv, Minted, Supersede, SupersedeToken, GoTo
  <2>3. CallsInv'
    BY <1>1 DEF TokensTypeOK, RowsInv, CallsInv, Minted, Supersede, SupersedeToken, GoTo
  <2>4. FamilyKeepsKey'
    BY <1>1 DEF FamilyKeepsKey, Minted, Supersede, SupersedeToken, GoTo
  <2>5. UnusedStaysCurrent'
    BY <1>1 DEF TokensTypeOK, CallsInv, UnusedStaysCurrent, Minted, Supersede, SupersedeToken, GoTo
  <2> QED
    BY <2>1, <2>2, <2>3, <2>4, <2>5
<1>2. ASSUME NEW r \in TokenCalls, DeleteFamily(r)
      PROVE  TokensInv'
  <2> item[r] \in Grants
    BY <1>2 DEF DeleteFamily, TokensTypeOK, CallsInv, Minted, Grants
  <2>1. TokensTypeOK'
    BY <1>2 DEF TokensTypeOK, DeleteFamily, Finish
  <2>2. RowsInv'
    BY <1>2 DEF TokensTypeOK, RowsInv, Minted, DeleteFamily, Finish
  <2>3. CallsInv'
    BY <1>2 DEF TokensTypeOK, RowsInv, CallsInv, Minted, DeleteFamily, Finish
  <2>4. FamilyKeepsKey'
    BY <1>2 DEF FamilyKeepsKey, Minted, DeleteFamily, Finish
  <2>5. UnusedStaysCurrent'
    BY <1>2 DEF TokensTypeOK, RowsInv, UnusedStaysCurrent, Minted, DeleteFamily, Finish
  <2> QED
    BY <2>1, <2>2, <2>3, <2>4, <2>5
<1>3. ASSUME NEW t \in Grants, LapseGrace(t)
      PROVE  TokensInv'
  <2>1. TokensTypeOK'
    BY <1>3 DEF TokensTypeOK, LapseGrace
  <2>2. RowsInv'
    BY <1>3 DEF TokensTypeOK, RowsInv, Minted, LapseGrace
  <2>3. CallsInv'
    BY <1>3 DEF TokensTypeOK, RowsInv, CallsInv, Minted, LapseGrace
  <2>4. FamilyKeepsKey'
    BY <1>3 DEF FamilyKeepsKey, Minted, LapseGrace
  <2>5. UnusedStaysCurrent'
    BY <1>3 DEF TokensTypeOK, RowsInv, UnusedStaysCurrent, Minted, LapseGrace
  <2> QED
    BY <2>1, <2>2, <2>3, <2>4, <2>5
<1>4. ASSUME NEW t \in Grants, ExpireFamily(t)
      PROVE  TokensInv'
  <2>1. TokensTypeOK'
    BY <1>4 DEF TokensTypeOK, ExpireFamily
  <2>2. RowsInv'
    BY <1>4 DEF TokensTypeOK, RowsInv, Minted, ExpireFamily
  <2>3. CallsInv'
    BY <1>4 DEF TokensTypeOK, RowsInv, CallsInv, Minted, ExpireFamily
  <2>4. FamilyKeepsKey'
    BY <1>4 DEF FamilyKeepsKey, Minted, ExpireFamily
  <2>5. UnusedStaysCurrent'
    BY <1>4 DEF TokensTypeOK, RowsInv, UnusedStaysCurrent, Minted, ExpireFamily
  <2> QED
    BY <2>1, <2>2, <2>3, <2>4, <2>5
<1>5. ASSUME SweepGrants
      PROVE  TokensInv'
  <2>1. TokensTypeOK'
    BY <1>5 DEF TokensTypeOK, SweepGrants
  <2>2. RowsInv'
    BY <1>5 DEF TokensTypeOK, RowsInv, Minted, SweepGrants
  <2>3. CallsInv'
    BY <1>5 DEF TokensTypeOK, RowsInv, CallsInv, Minted, SweepGrants
  <2>4. FamilyKeepsKey'
    BY <1>5 DEF FamilyKeepsKey, Minted, SweepGrants
  <2>5. UnusedStaysCurrent'
    BY <1>5 DEF TokensTypeOK, RowsInv, UnusedStaysCurrent, Minted, SweepGrants
  <2> QED
    BY <2>1, <2>2, <2>3, <2>4, <2>5
<1> QED
  BY <1>1, <1>2, <1>3, <1>4, <1>5 DEF TokensFade

\* One row more: the new token is of family f, with key k and code c, and
\* nothing else changes in the tables.
LEMMA InsertGrantInv ==
  ASSUME OAuthAssumption, TokensInv, NEW f \in Nat, NEW k \in Keys \cup {NoKey},
         NEW c \in 1..codesIssued,
         f \in Minted \/ f = grantsIssued + 1,
         bound[c] \in {NoKey, k},
         f \in Minted => key[f] = k,
         NEW r \in TokenCalls, InsertGrant(f, k, c), Finish(r), UNCHANGED <<codeTable, history>>
  PROVE  TokensInv'
<1> USE DEF OAuthAssumption, TokensInv
<1> UNCHANGED <<codes, codesIssued, bound, shown, expired, revoked>>
  BY DEF codeTable, history
<1> DEFINE t0 == grantsIssued + 1
<1>0. /\ t0 \in Grants /\ f \in Grants /\ c \in 0..MaxCodes /\ grantsIssued' = t0
      /\ Minted' = Minted \cup {t0} /\ t0 \notin Minted /\ Minted \subseteq Grants
      /\ f \in Minted \cup {t0}
  <2> /\ grantsIssued < MaxGrants /\ grantsIssued' = t0
      /\ grantsIssued \in Nat /\ MaxGrants \in Nat
      /\ codesIssued \in 0..MaxCodes /\ MaxCodes \in Nat
    BY DEF InsertGrant, TokensTypeOK
  <2>1. t0 \in Grants /\ t0 \notin Minted /\ Minted \subseteq Grants
    BY DEF Minted, Grants
  <2>2. Minted' = Minted \cup {t0}
    BY DEF Minted
  <2>3. c \in 0..MaxCodes
    OBVIOUS
  <2> QED
    BY <2>1, <2>2, <2>3
<1>1. /\ family' = [family EXCEPT ![t0] = f] /\ key' = [key EXCEPT ![t0] = k]
      /\ from' = [from EXCEPT ![t0] = c] /\ UNCHANGED age
      /\ grantRows' = grantRows \cup ({t0} \ {t \in Grants : f \in expired})
  BY DEF InsertGrant
<1> HIDE DEF t0
<1>r. /\ grantRows \subseteq grantRows' /\ grantRows' \subseteq grantRows \cup {t0}
      /\ f \notin expired => t0 \in grantRows'
  BY <1>0, <1>1
<1>n. family'[t0] = f /\ key'[t0] = k /\ from'[t0] = c
  BY <1>0, <1>1 DEF TokensTypeOK
<1>o. \A t \in Minted : family'[t] = family[t] /\ key'[t] = key[t] /\ from'[t] = from[t]
  BY <1>0, <1>1 DEF TokensTypeOK
<1>2. TokensTypeOK'
  <2>1. step' \in [TokenCalls -> {"idle", "code", "consumed", "current", "rotating", "revoking"}]
        /\ item' \in [TokenCalls -> Nat] /\ signer' \in [TokenCalls -> Keys \cup {NoKey}]
    BY DEF Finish, TokensTypeOK
  <2>2. grantsIssued' \in 0..MaxGrants
    BY <1>0 DEF Grants
  <2> QED
    BY <1>0, <1>1, <1>r, <2>1, <2>2 DEF TokensTypeOK
<1>3. RowsInv'
  <2>1. \A t \in Minted' : family'[t] \in Minted' /\ from'[t] \in 1..codesIssued'
    BY <1>0, <1>n, <1>o DEF RowsInv
  <2>2. grantRows' \subseteq Minted' /\ \A t \in Grants \ Minted' : age'[t] = "current"
    BY <1>0, <1>1, <1>r DEF RowsInv
  <2> QED
    BY <2>1, <2>2 DEF RowsInv
<1>4. CallsInv'
  BY <1>0, <1>o DEF CallsInv, Finish, TokensTypeOK
<1>5. FamilyKeepsKey'
  <2> SUFFICES ASSUME NEW t \in Minted \cup {t0}
               PROVE  bound[from'[t]] \in {NoKey, key'[t]} /\ key'[t] = key'[family'[t]]
    BY <1>0 DEF FamilyKeepsKey
  <2>1. CASE t = t0
    BY <2>1, <1>0, <1>n, <1>o
  <2>2. CASE t \in Minted
    BY <2>2, <1>o DEF FamilyKeepsKey, RowsInv
  <2> QED
    BY <2>1, <2>2
<1>6. UnusedStaysCurrent'
  <2> SUFFICES ASSUME NEW t \in Minted \cup {t0}, t \notin shown,
                      family'[t] \notin expired \cup revoked
               PROVE  t \in grantRows' /\ age[t] = "current"
    BY <1>0, <1>1 DEF UnusedStaysCurrent
  <2>1. CASE t = t0
    BY <2>1, <1>0, <1>r, <1>n DEF RowsInv
  <2>2. CASE t \in Minted
    BY <2>2, <1>r, <1>o DEF UnusedStaysCurrent
  <2> QED
    BY <2>1, <2>2
<1> QED
  BY <1>2, <1>3, <1>4, <1>5, <1>6

\* A token is issued, for an exchange or for a refresh.
LEMMA TokenIssuedInv ==
  ASSUME OAuthAssumption, TokensInv, TokenIssued
  PROVE  TokensInv'
<1>1. ASSUME NEW r \in TokenCalls, StoreInitial(r)
      PROVE  TokensInv'
  <2>1. /\ item[r] \in 1..codesIssued /\ signer[r] \in Keys
        /\ bound[item[r]] \in {NoKey, signer[r]}
    BY <1>1 DEF StoreInitial, TokensInv, CallsInv
  <2>2. grantsIssued + 1 \in Nat /\ grantsIssued + 1 \notin Minted
    BY DEF TokensInv, TokensTypeOK, Minted
  <2> QED
    BY <1>1, <2>1, <2>2, InsertGrantInv DEF StoreInitial
<1>2. ASSUME NEW r \in TokenCalls, StoreRotated(r)
      PROVE  TokensInv'
  <2>1. item[r] \in Minted /\ signer[r] = key[item[r]]
    BY <1>2 DEF StoreRotated, TokensInv, CallsInv
  <2>2. family[item[r]] \in Minted /\ from[item[r]] \in 1..codesIssued
    BY <2>1 DEF TokensInv, RowsInv
  <2>3. bound[from[item[r]]] \in {NoKey, signer[r]} /\ key[family[item[r]]] = signer[r]
    BY <2>1 DEF TokensInv, FamilyKeepsKey
  <2>4. family[item[r]] \in Nat
    BY <2>2 DEF Minted
  <2>5. signer[r] \in Keys \cup {NoKey}
    BY <2>1 DEF TokensInv, TokensTypeOK
  <2> QED
    BY <1>2, <2>2, <2>3, <2>4, <2>5, InsertGrantInv DEF StoreRotated
<1> QED
  BY <1>1, <1>2 DEF TokenIssued

\* The invariant holds in every reachable state.
LEMMA TokensInvariant ==
  ASSUME OAuthAssumption
  PROVE  TokensSpec => []TokensInv
<1>1. TokensInit => TokensInv
  BY TokensInitInv
<1>2. TokensInv /\ [TokensNext]_oauthVars => TokensInv'
  <2> SUFFICES ASSUME TokensInv, [TokensNext]_oauthVars PROVE TokensInv'
    OBVIOUS
  <2>1. CASE UNCHANGED oauthVars
    BY <2>1 DEF oauthVars, codeTable, tokenTable, request, history, TokensInv, TokensTypeOK,
                RowsInv, CallsInv, FamilyKeepsKey, UnusedStaysCurrent, Minted, Codes, Grants
  <2> QED
    BY <2>1, TokenStepKinds, TokensStayInv, TokensFadeInv, TokenIssuedInv
<1> QED
  BY <1>1, <1>2, PTL DEF TokensSpec

\* The code and token tables and the calls keep their types.
THEOREM TokensTypeCorrect ==
  ASSUME OAuthAssumption
  PROVE  TokensSpec => []TokensTypeOK
BY TokensInvariant, PTL DEF TokensInv

\* A code that was bound to a key opens a family for that key only, and every
\* token of the family stays with it: handle_authorization_code and
\* handle_refresh_token compare keys with rows they read earlier.
THEOREM KeyHeldByFamily ==
  ASSUME OAuthAssumption
  PROVE  TokensSpec => []FamilyKeepsKey
BY TokensInvariant, PTL DEF TokensInv

\* A refresh token that was handed out and never presented is current, however
\* many refreshes of its family ran at once, until its session ends:
\* supersede_oauth_refresh_token names the token that was presented.
THEOREM NobodyStranded ==
  ASSUME OAuthAssumption
  PROVE  TokensSpec => []UnusedStaysCurrent
BY TokensInvariant, PTL DEF TokensInv

\* A step leaves a forgotten family forgotten: a new row is of a new family or
\* of that of a token in flight, and a token is only read from its row.
LEMMA ForgottenStep ==
  ASSUME OAuthAssumption, TokensInv, [TokensNext]_oauthVars,
         NEW f \in Grants, Forgotten(f)
  PROVE  Forgotten(f)'
<1> USE DEF OAuthAssumption, TokensInv
<1>0. grantsIssued \in Nat /\ f \in Minted /\ Minted \subseteq Grants
  BY DEF Forgotten, TokensTypeOK, Minted, Grants
<1>1. CASE TokensStay
  <2>1. UNCHANGED tokenTable
    BY <1>1, Zenon DEF TokensStay, StoreAuthorizationCode, ExpireCode, ReadCode, ReadGrant,
                ReadForRevoke, ConsumeCode, Drop
  <2>2. f \in Minted' /\ \A t \in grantRows' : family'[t] # f
    BY <1>0, <2>1 DEF tokenTable, Forgotten, Minted
  <2>3. ASSUME NEW q \in TokenCalls, step'[q] \in {"current", "rotating"}
        PROVE  family'[item'[q]] # f
    <3>1. CASE \/ \E k \in Keys \cup {NoKey} : StoreAuthorizationCode(k)
               \/ \E c \in Codes : ExpireCode(c)
      BY <3>1, <2>1, <2>3 DEF StoreAuthorizationCode, ExpireCode, request, Forgotten, tokenTable
    <3>2. CASE \E r \in TokenCalls, c \in Codes, k \in Keys : ReadCode(r, c, k)
      BY <3>2, <2>1, <2>3 DEF ReadCode, Begin, Forgotten, tokenTable, TokensTypeOK
    <3>3. ASSUME NEW r \in TokenCalls, NEW t \in Grants, NEW k \in Keys, ReadGrant(r, t, k)
          PROVE  family'[item'[q]] # f
      <4>1. PICK where : Begin(r, where, t, k)
        BY <3>3, ReadGrantStep
      <4>2. t \in grantRows
        BY <3>3, Zenon DEF ReadGrant, RowExists
      <4> QED
        BY <4>1, <4>2, <2>1, <2>3 DEF Begin, Forgotten, tokenTable, TokensTypeOK
    <3>4. CASE \E r \in TokenCalls, t \in Grants, k \in Keys : ReadForRevoke(r, t, k)
      BY <3>4, <2>1, <2>3 DEF ReadForRevoke, Begin, Forgotten, tokenTable, TokensTypeOK
    <3>5. CASE \E r \in TokenCalls : ConsumeCode(r)
      BY <3>5, <2>1, <2>3 DEF ConsumeCode, GoTo, Forgotten, tokenTable, TokensTypeOK
    <3>6. CASE \E r \in TokenCalls : Drop(r)
      BY <3>6, <2>1, <2>3 DEF Drop, Finish, Forgotten, tokenTable, TokensTypeOK
    <3> QED
      BY <1>1, <3>1, <3>2, <3>3, <3>4, <3>5, <3>6 DEF TokensStay
  <2> QED
    BY <2>2, <2>3 DEF Forgotten
<1>2. CASE TokensFade
  <2>1. grantRows' \subseteq grantRows /\ UNCHANGED <<grantsIssued, family>>
    BY <1>2 DEF TokensFade, Supersede, DeleteFamily, LapseGrace, ExpireFamily, SweepGrants
  <2>2. ASSUME NEW q \in TokenCalls, step'[q] \in {"current", "rotating"}
        PROVE  step[q] \in {"current", "rotating"} /\ item'[q] = item[q]
    <3>1. CASE \E r \in TokenCalls : Supersede(r)
      BY <3>1, <2>2 DEF Supersede, GoTo, TokensTypeOK
    <3>2. CASE \E r \in TokenCalls : DeleteFamily(r)
      BY <3>2, <2>2 DEF DeleteFamily, Finish, TokensTypeOK
    <3>3. CASE SweepGrants \/ \E t \in Grants : LapseGrace(t) \/ ExpireFamily(t)
      BY <3>3, <2>2 DEF LapseGrace, ExpireFamily, SweepGrants, request
    <3> QED
      BY <1>2, <3>1, <3>2, <3>3 DEF TokensFade
  <2> QED
    BY <2>1, <2>2 DEF Forgotten, Minted
<1>3. CASE TokenIssued
  <2>1. PICK r \in TokenCalls, g \in Grants :
          /\ \E k, c : InsertGrant(g, k, c)
          /\ Finish(r) /\ g # f
    <3>1. ASSUME NEW r \in TokenCalls, StoreInitial(r)
          PROVE  grantsIssued + 1 \in Grants \ {f}
      BY <3>1, <1>0 DEF StoreInitial, InsertGrant, Minted, Grants, TokensTypeOK
    <3>2. ASSUME NEW r \in TokenCalls, StoreRotated(r)
          PROVE  family[item[r]] \in Grants \ {f}
      BY <3>2, <1>0 DEF StoreRotated, Forgotten, CallsInv, RowsInv
    <3> QED
      BY <1>3, <3>1, <3>2 DEF TokenIssued, StoreInitial, StoreRotated
  <2>2. grantsIssued' = grantsIssued + 1 /\ grantsIssued' \in Grants
    BY <2>1 DEF InsertGrant, TokensTypeOK, Grants
  <2>3. /\ family' = [family EXCEPT ![grantsIssued'] = g]
        /\ grantRows' \subseteq grantRows \cup {grantsIssued'}
    BY <2>1 DEF InsertGrant
  <2>4. \A t \in Minted : t # grantsIssued'
    BY <2>2, <1>0 DEF Minted
  <2>5. \A t \in Minted : family'[t] = family[t]
    BY <2>3, <2>4, <1>0 DEF TokensTypeOK
  <2>6. f \in Minted' /\ \A t \in grantRows' : family'[t] # f
    <3>1. f \in Minted'
      BY <1>0, <2>2 DEF Minted
    <3>2. family'[grantsIssued'] # f
      BY <2>1, <2>2, <2>3 DEF TokensTypeOK
    <3> QED
      BY <3>1, <3>2, <2>3, <2>5 DEF Forgotten, RowsInv
  <2>7. ASSUME NEW q \in TokenCalls, step'[q] \in {"current", "rotating"}
        PROVE  family'[item'[q]] # f
    BY <2>1, <2>5, <2>7 DEF Finish, Forgotten, CallsInv, TokensTypeOK
  <2> QED
    BY <2>6, <2>7 DEF Forgotten
<1>4. CASE UNCHANGED oauthVars
  BY <1>4 DEF oauthVars, tokenTable, request, Forgotten, Minted
<1> QED
  BY <1>1, <1>2, <1>3, <1>4, TokenStepKinds

\* Revocation is final but for refreshes under way: a family without a row, and
\* with no refresh in progress that read one, has no row ever again.
THEOREM RevocationFinal ==
  ASSUME OAuthAssumption
  PROVE  TokensSpec => ForgottenForGood
<1>1. TokensInv /\ [TokensNext]_oauthVars
        => [\A f \in Grants : Forgotten(f) => Forgotten(f)']_oauthVars
  BY ForgottenStep
<1> QED
  BY <1>1, TokensInvariant, PTL DEF TokensSpec, ForgottenForGood

\* Hypothesis: when a session is revoked, or swept, no refresh of it is between
\* its read of the presented token and its insert of the next.
NoRefreshMeetsRevocation ==
  [][\A f \in revoked' \ revoked, r \in TokenCalls :
       step[r] \in {"current", "rotating"} => family[item[r]] # f]_oauthVars

\* A revoked session is forgotten, in the sense of ForgottenForGood.
RevokedInv == \A f \in revoked : Forgotten(f)

\* What is revoked is forgotten at once, when no refresh of it is under way.
LEMMA RevokedStep ==
  ASSUME OAuthAssumption, TokensInv, [TokensNext]_oauthVars, NEW f \in revoked' \ revoked,
         \A r \in TokenCalls : step[r] \in {"current", "rotating"} => family[item[r]] # f
  PROVE  Forgotten(f)'
<1> USE DEF TokensInv
<1>1. CASE \E r \in TokenCalls : DeleteFamily(r)
  <2>1. PICK r \in TokenCalls : DeleteFamily(r)
    BY <1>1
  <2>2. f = family[item[r]] /\ UNCHANGED <<family, grantsIssued>>
    BY <2>1 DEF DeleteFamily
  <2>3. f \in Minted'
    BY <2>1, <2>2 DEF DeleteFamily, CallsInv, RowsInv, Minted
  <2>4. \A t \in grantRows' : family'[t] # f
    BY <2>1, <2>2 DEF DeleteFamily
  <2>5. ASSUME NEW q \in TokenCalls, step'[q] \in {"current", "rotating"}
        PROVE  family'[item'[q]] # f
    BY <2>1, <2>2, <2>5 DEF DeleteFamily, Finish, TokensTypeOK
  <2> QED
    BY <2>3, <2>4, <2>5 DEF Forgotten
<1>2. CASE SweepGrants
  <2>1. f \in Minted'
    BY <1>2 DEF SweepGrants, RowsInv, Minted
  <2>2. grantRows' = {}
    BY <1>2 DEF SweepGrants
  <2>3. UNCHANGED <<step, item, family>>
    BY <1>2 DEF SweepGrants, request
  <2> QED
    BY <2>1, <2>2, <2>3 DEF Forgotten
<1>3. CASE UNCHANGED revoked
  BY <1>3
<1>4. \/ UNCHANGED revoked \/ SweepGrants
      \/ \E r \in TokenCalls : DeleteFamily(r)
  <2>1. CASE TokensStay
    BY <2>1 DEF TokensStay, StoreAuthorizationCode, ExpireCode, ReadCode, ReadGrant,
                ReadForRevoke, ConsumeCode, Drop, history
  <2>2. CASE TokensFade
    BY <2>2 DEF TokensFade, Supersede, LapseGrace, ExpireFamily, history
  <2>3. CASE TokenIssued
    BY <2>3 DEF TokenIssued, StoreInitial, StoreRotated, history
  <2>4. CASE UNCHANGED oauthVars
    BY <2>4 DEF oauthVars, history
  <2> QED
    BY <2>1, <2>2, <2>3, <2>4, TokenStepKinds
<1> QED
  BY <1>1, <1>2, <1>3, <1>4

\* "Revoking any one refresh token ends the session it belongs to": no token is
\* left of a revoked session, whatever codes are exchanged and whichever other
\* sessions refresh meanwhile, unless a refresh of that session is under way
\* when it is revoked: the insert of store_rotated_oauth_refresh_token does not
\* look at the session again.
THEOREM RevokedSessionsEnd ==
  ASSUME OAuthAssumption
  PROVE  TokensSpec /\ NoRefreshMeetsRevocation => []RevokedStaysRevoked
<1> DEFINE Alone == \A f \in revoked' \ revoked, r \in TokenCalls :
                      step[r] \in {"current", "rotating"} => family[item[r]] # f
<1>1. TokensInit => RevokedInv
  BY DEF TokensInit, RevokedInv
<1>2. TokensInv /\ RevokedInv /\ [TokensNext]_oauthVars /\ [Alone]_oauthVars => RevokedInv'
  <2> SUFFICES ASSUME TokensInv, RevokedInv, [TokensNext]_oauthVars, [Alone]_oauthVars,
                      NEW f \in revoked'
               PROVE  Forgotten(f)'
    BY DEF RevokedInv
  <2>1. CASE f \in revoked
    <3>1. f \in Grants /\ Forgotten(f)
      BY <2>1 DEF RevokedInv, TokensInv, TokensTypeOK
    <3> QED
      BY <3>1, ForgottenStep
  <2>2. CASE f \notin revoked
    <3>1. Alone
      BY <2>2 DEF oauthVars, history
    <3> QED
      BY <2>2, <3>1, RevokedStep
  <2> QED
    BY <2>1, <2>2
<1>3. RevokedInv => RevokedStaysRevoked
  BY DEF RevokedInv, Forgotten, RevokedStaysRevoked
<1> QED
  BY <1>1, <1>2, <1>3, TokensInvariant, PTL DEF TokensSpec, NoRefreshMeetsRevocation

-----------------------------------------------------------------------------
(* Consent.                                                                *)

\* What is on record of a request, by the status of its row.
RecordInv ==
  \A q \in Asks :
    /\ ask[q] \in {"none", "pushed", "opened", "pending"} =>
         decisions[q] = <<>> /\ codesOf[q] = 0
    /\ ask[q] = "approved" => decisions[q] = <<"approve">> /\ codesOf[q] = 0

ConsentInv == ConsentTypeOK /\ RecordInv /\ OneCodePerConsent

\* Nothing is decided at the start.
LEMMA ConsentInitInv ==
  ASSUME ConsentAssumption, ConsentInit
  PROVE  ConsentInv
BY DEF ConsentAssumption, ConsentInit, ConsentInv, ConsentTypeOK, RecordInv, OneCodePerConsent

\* The wallet's record of a decision keeps its types when it is dropped.
LEMMA DoneTypes ==
  ASSUME ConsentAssumption, ConsentTypeOK, NEW w \in Wallets, Done(w)
  PROVE  /\ at' \in [Wallets -> {"idle", "read"}] /\ about' \in [Wallets -> Asks]
         /\ approve' \in [Wallets -> BOOLEAN]
         /\ mustMatch' \in [Wallets -> BOOLEAN] /\ number' \in [Wallets -> BOOLEAN]
<1>1. (CHOOSE q \in Asks : TRUE) \in Asks
  BY DEF ConsentAssumption
<1> QED
  BY <1>1 DEF ConsentTypeOK, Done

\* Every step of a request, a wallet or a browser keeps the invariant.
LEMMA ConsentStepInv ==
  ASSUME ConsentAssumption, ConsentInv, [ConsentNext]_consentVars
  PROVE  ConsentInv'
<1> USE DEF ConsentInv, RecordInv, OneCodePerConsent, askVars, walletVars
<1>1. ASSUME NEW q \in Asks, PushRequest(q)
      PROVE  ConsentInv'
  BY <1>1 DEF ConsentTypeOK, PushRequest
<1>2. ASSUME NEW q \in Asks, OpenPage(q)
      PROVE  ConsentInv'
  BY <1>2 DEF ConsentTypeOK, OpenPage
<1>3. ASSUME NEW q \in Asks, CreatePending(q)
      PROVE  ConsentInv'
  BY <1>3 DEF ConsentTypeOK, CreatePending
<1>4. ASSUME NEW q \in Asks, SendPush(q) \/ LatchNumber(q) \/ Tick(q)
      PROVE  ConsentInv'
  BY <1>4 DEF ConsentTypeOK, SendPush, LatchNumber, Tick
<1>5. ASSUME NEW q \in Asks, CompleteAuthorization(q)
      PROVE  ConsentInv'
  BY <1>5 DEF ConsentTypeOK, CompleteAuthorization, Completable
<1>6. ASSUME NEW w \in Wallets, NEW q \in Asks, NEW yes \in BOOLEAN, NEW sees \in BOOLEAN,
             ReadPending(w, q, yes, sees)
      PROVE  ConsentInv'
  BY <1>6 DEF ConsentTypeOK, ReadPending
<1>7. ASSUME NEW w \in Wallets, Decide(w)
      PROVE  ConsentInv'
  <2> DEFINE q == about[w]
             choice == IF approve[w] THEN "approve" ELSE "deny"
  <2>1. q \in Asks /\ ask[q] = "pending" /\ choice \in {"approve", "deny"}
        /\ (approve[w] => choice = "approve")
    BY <1>7 DEF Decide, StillPending, ConsentTypeOK
  <2>2. /\ ask' = [ask EXCEPT ![q] = IF approve[w] THEN "approved" ELSE "denied"]
        /\ decisions' = [decisions EXCEPT ![q] = Append(@, choice)]
        /\ Done(w) /\ UNCHANGED <<clock, push, codesOf>>
    BY <1>7 DEF Decide
  <2> HIDE DEF q, choice
  <2>3. Append(decisions[q], choice) = <<choice>>
    <3>1. decisions[q] = <<>>
      BY <2>1
    <3>2. Append(<<>>, choice) = <<choice>>
      OBVIOUS
    <3> QED
      BY <3>1, <3>2
  <2>4. <<choice>> \in Seq({"approve", "deny"})
    BY <2>1
  <2>5. ConsentTypeOK'
    BY <2>1, <2>2, <2>3, <2>4, DoneTypes DEF ConsentTypeOK
  <2>6. RecordInv' /\ OneCodePerConsent'
    BY <2>1, <2>2, <2>3 DEF ConsentTypeOK
  <2> QED
    BY <2>5, <2>6
<1>8. ASSUME NEW w \in Wallets, GiveUp(w)
      PROVE  ConsentInv'
  BY <1>8, DoneTypes DEF ConsentTypeOK, GiveUp
<1>9. CASE UNCHANGED consentVars
  BY <1>9 DEF consentVars, ConsentTypeOK
<1> QED
  BY <1>1, <1>2, <1>3, <1>4, <1>5, <1>6, <1>7, <1>8, <1>9 DEF ConsentNext

\* The invariant holds in every reachable state.
LEMMA ConsentInvariant ==
  ASSUME ConsentAssumption
  PROVE  ConsentSpec => []ConsentInv
<1>1. ConsentInit => ConsentInv
  BY ConsentInitInv
<1>2. ConsentInv /\ [ConsentNext]_consentVars => ConsentInv'
  BY ConsentStepInv
<1> QED
  BY <1>1, <1>2, PTL DEF ConsentSpec

\* The requests and the decisions under way keep their types.
THEOREM ConsentTypeCorrect ==
  ASSUME ConsentAssumption
  PROVE  ConsentSpec => []ConsentTypeOK
BY ConsentInvariant, PTL DEF ConsentInv

\* A consent yields at most one code, after one decision, an approval, however
\* many wallets decide and browsers complete at once: the UPDATE of
\* complete_pending_authorization takes the row out of "approved".
THEOREM OneCodeEach ==
  ASSUME ConsentAssumption
  PROVE  ConsentSpec => []OneCodePerConsent
BY ConsentInvariant, PTL DEF ConsentInv

\* No decision is recorded on a request that is decided, completed, expired or
\* reclaimed, whatever the wallet's handler read of it before.
THEOREM NoLateDecision ==
  ASSUME ConsentAssumption
  PROVE  ConsentSpec => LateDecisionLoses
<1> DEFINE P == \A q \in Asks :
                  ask[q] # "pending" \/ clock[q] # "fresh" => decisions'[q] = decisions[q]
<1>1. ConsentInv /\ [ConsentNext]_consentVars => [P]_consentVars
  <2> SUFFICES ASSUME ConsentInv, ConsentNext PROVE P
    OBVIOUS
  <2>1. ASSUME NEW w \in Wallets, Decide(w) PROVE P
    BY <2>1 DEF Decide, StillPending, ConsentInv, ConsentTypeOK
  <2>2. CASE \A w \in Wallets : ~Decide(w)
    BY <2>2 DEF ConsentNext, PushRequest, OpenPage, CreatePending, SendPush, LatchNumber, Tick,
                CompleteAuthorization, ReadPending, GiveUp, askVars
  <2> QED
    BY <2>1, <2>2
<1> QED
  BY <1>1, ConsentInvariant, PTL DEF ConsentSpec, LateDecisionLoses
=============================================================================
