--------------------------- MODULE MCCredentials ---------------------------
(***************************************************************************)
(* Instances for TLC of the components that keep the credentials of one    *)
(* account: password sessions, OAuth tokens, OAuth consent and device      *)
(* transfer.  They share no state, so a behaviour picks one of them and    *)
(* runs it, and the others stay in their initial states.  The actors       *)
(* (requests and wallets) are interchangeable, and so are the DPoP keys.   *)
(***************************************************************************)
EXTENDS Sessions, Transfer, OAuthTokens, OAuthConsent, TLC

VARIABLE part  \* the component that runs

allVars == <<part, vars, oauthVars, consentVars, transferVars>>

ASSUME
  SessionsAssumption /\ OAuthAssumption /\ ConsentAssumption /\ TransferAssumption

MCInit ==
  /\ part \in {"sessions", "tokens", "consent", "transfer"}
  /\ Init /\ TokensInit /\ ConsentInit /\ TransferInit

MCNext ==
  \/ /\ part = "sessions" /\ Next
     /\ UNCHANGED <<part, oauthVars, consentVars, transferVars>>
  \/ /\ part = "tokens" /\ TokensNext
     /\ UNCHANGED <<part, vars, consentVars, transferVars>>
  \/ /\ part = "consent" /\ ConsentNext
     /\ UNCHANGED <<part, vars, oauthVars, transferVars>>
  \/ /\ part = "transfer" /\ TransferNext
     /\ UNCHANGED <<part, vars, oauthVars, consentVars>>

MCSpec == MCInit /\ [][MCNext]_allVars

Symmetry == Permutations(Requests) \cup Permutations(Keys)

-----------------------------------------------------------------------------
(* The properties are those of the components, as they stand.              *)

\* The type invariant of each component.
TypesOK == TypeOK /\ TokensTypeOK /\ ConsentTypeOK /\ TransferTypeOK
=============================================================================
