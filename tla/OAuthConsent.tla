---------------------------- MODULE OAuthConsent ----------------------------
(***************************************************************************)
(* The wallet-confirmed consent of an OAuth sign-in: the pushed request,   *)
(* the consent page that consumes it and opens a pending authorization,    *)
(* the push that announces it and latches a number, the decision a wallet  *)
(* signs, and the code the browser fetches.  Requests live in              *)
(* oauth_par_requests and then in pending_oauth_authorizations; the        *)
(* scopes, signatures and authority checks are data and left out.          *)
(***************************************************************************)
EXTENDS Naturals, Sequences

CONSTANTS
  Asks,        \* sign-in requests
  Wallets      \* decisions being processed

ConsentAssumption == Asks # {}

VARIABLES
  ask,         \* where each request is: its row and the row's status
  clock,       \* of the pending row: "fresh", "expired" or "reclaimable"
  push,        \* the announcement: "none", "sent" or "latched" (match_code set)
  decisions,   \* the decisions in the consent audit log
  codesOf,     \* authorization codes minted for the request
  at,          \* progress of each decision: "idle" or "read"
  about,       \* the request it decides
  approve,     \* approve, or deny
  mustMatch,   \* it read a match_code
  number       \* it presents the number shown on the page

askVars     == <<ask, clock, push, decisions, codesOf>>
walletVars  == <<at, about, approve, mustMatch, number>>
consentVars == <<askVars, walletVars>>

ConsentInit ==
  /\ ask = [q \in Asks |-> "none"] /\ clock = [q \in Asks |-> "fresh"]
  /\ push = [q \in Asks |-> "none"] /\ decisions = [q \in Asks |-> <<>>]
  /\ codesOf = [q \in Asks |-> 0]
  /\ at = [w \in Wallets |-> "idle"]
  /\ about = [w \in Wallets |-> CHOOSE q \in Asks : TRUE]
  /\ approve = [w \in Wallets |-> FALSE]
  /\ mustMatch = [w \in Wallets |-> FALSE] /\ number = [w \in Wallets |-> FALSE]

-----------------------------------------------------------------------------
\* store_par_request.
PushRequest(q) ==
  /\ ask[q] = "none"
  /\ ask' = [ask EXCEPT ![q] = "pushed"]
  /\ UNCHANGED <<clock, push, decisions, codesOf, walletVars>>

\* consume_par_request: one statement, so one page per pushed request.
OpenPage(q) ==
  /\ ask[q] = "pushed"
  /\ ask' = [ask EXCEPT ![q] = "opened"]
  /\ UNCHANGED <<clock, push, decisions, codesOf, walletVars>>

\* create_pending_request: rows expired for long are reclaimed first.
CreatePending(q) ==
  /\ ask[q] = "opened"
  /\ ask' = [p \in Asks |-> IF p = q THEN "pending"
                            ELSE IF clock[p] = "reclaimable" THEN "reclaimed"
                            ELSE ask[p]]
  /\ UNCHANGED <<clock, push, decisions, codesOf, walletVars>>

\* dispatch_login_approval_push: the push goes out ...
SendPush(q) ==
  /\ ask[q] # "none" /\ ask[q] # "pushed" /\ ask[q] # "opened"
  /\ push[q] = "none"
  /\ push' = [push EXCEPT ![q] = "sent"]
  /\ UNCHANGED <<ask, clock, decisions, codesOf, walletVars>>

\* ... and then set_push_dispatched binds the number, if still pending.
LatchNumber(q) ==
  /\ ask[q] = "pending" /\ push[q] = "sent"
  /\ push' = [push EXCEPT ![q] = "latched"]
  /\ UNCHANGED <<ask, clock, decisions, codesOf, walletVars>>

\* expires_at passes, and then the clean-up's hour of grace.
Tick(q) ==
  /\ ask[q] \in {"pending", "approved", "denied", "completed"}
  /\ clock[q] # "reclaimable"
  /\ clock' = [clock EXCEPT ![q] = IF @ = "fresh" THEN "expired" ELSE "reclaimable"]
  /\ UNCHANGED <<ask, push, decisions, codesOf, walletVars>>

-----------------------------------------------------------------------------
\* post_authorization_approve loads the request, and match_code with it, then
\* looks up keys and handles over the network.  A wallet knows the number once
\* the page shows it.
ReadPending(w, q, yes, sees) ==
  /\ at[w] = "idle"
  /\ ask[q] = "pending" /\ clock[q] = "fresh"
  /\ sees => push[q] = "latched"
  /\ at' = [at EXCEPT ![w] = "read"]
  /\ about' = [about EXCEPT ![w] = q]
  /\ approve' = [approve EXCEPT ![w] = yes]
  /\ mustMatch' = [mustMatch EXCEPT ![w] = push[q] = "latched"]
  /\ number' = [number EXCEPT ![w] = sees]
  /\ UNCHANGED askVars

Done(w) ==
  /\ at' = [at EXCEPT ![w] = "idle"]
  /\ about' = [about EXCEPT ![w] = CHOOSE q \in Asks : TRUE]
  /\ approve' = [approve EXCEPT ![w] = FALSE]
  /\ mustMatch' = [mustMatch EXCEPT ![w] = FALSE]
  /\ number' = [number EXCEPT ![w] = FALSE]

\* Fault: the UPDATE trusts the read.
AnyRow(q) == ask[q] \in {"pending", "approved", "denied"}

\* The WHERE of approve_pending_authorization and deny_pending_authorization.
StillPending(q) == ask[q] = "pending" /\ clock[q] = "fresh"

\* The number as read, then the guarded UPDATE and its audit row.
Decide(w) ==
  LET q == about[w] IN
  /\ at[w] = "read"
  /\ approve[w] /\ mustMatch[w] => number[w]
  /\ StillPending(q)
  /\ ask' = [ask EXCEPT ![q] = IF approve[w] THEN "approved" ELSE "denied"]
  /\ decisions' = [decisions EXCEPT ![q] = Append(@, IF approve[w] THEN "approve" ELSE "deny")]
  /\ Done(w)
  /\ UNCHANGED <<clock, push, codesOf>>

\* Any refusal, failure or drop; the transaction leaves nothing.
GiveUp(w) == at[w] = "read" /\ Done(w) /\ UNCHANGED askVars

\* Fault: a completed request is completed again.
ApprovedOnce(q) == ask[q] \in {"approved", "completed"}

\* The WHERE of complete_pending_authorization: no expiry.
Completable(q) == ask[q] = "approved"

\* post_authorization_complete: transition, code and audit in one transaction.
CompleteAuthorization(q) ==
  /\ Completable(q)
  /\ ask' = [ask EXCEPT ![q] = "completed"]
  /\ codesOf' = [codesOf EXCEPT ![q] = @ + 1]
  /\ UNCHANGED <<clock, push, decisions, walletVars>>

ConsentNext ==
  \/ \E q \in Asks : \/ PushRequest(q) \/ OpenPage(q) \/ CreatePending(q) \/ SendPush(q)
                     \/ LatchNumber(q) \/ Tick(q) \/ CompleteAuthorization(q)
  \/ \E w \in Wallets, q \in Asks, yes, sees \in BOOLEAN : ReadPending(w, q, yes, sees)
  \/ \E w \in Wallets : Decide(w) \/ GiveUp(w)

ConsentSpec == ConsentInit /\ [][ConsentNext]_consentVars

-----------------------------------------------------------------------------
\* Types of the requests and of the decisions under way.
ConsentTypeOK ==
  /\ ask \in [Asks -> {"none", "pushed", "opened", "pending", "approved", "denied",
                       "completed", "reclaimed"}]
  /\ clock \in [Asks -> {"fresh", "expired", "reclaimable"}]
  /\ push \in [Asks -> {"none", "sent", "latched"}]
  /\ decisions \in [Asks -> Seq({"approve", "deny"})] /\ codesOf \in [Asks -> Nat]
  /\ at \in [Wallets -> {"idle", "read"}] /\ about \in [Wallets -> Asks]
  /\ approve \in [Wallets -> BOOLEAN]
  /\ mustMatch \in [Wallets -> BOOLEAN] /\ number \in [Wallets -> BOOLEAN]

\* A consent yields at most one code, and only when the one decision on record
\* is an approval: two wallets may decide, and two browsers may complete, at the
\* same time.
OneCodePerConsent ==
  \A q \in Asks : codesOf[q] <= 1 /\ (codesOf[q] = 1 => decisions[q] = <<"approve">>)

\* A decision that was under way when the request was decided, completed,
\* expired or reclaimed changes nothing, though it read the request before.
LateDecisionLoses ==
  [][\A q \in Asks :
       ask[q] # "pending" \/ clock[q] # "fresh" => decisions'[q] = decisions[q]]_consentVars
=============================================================================
