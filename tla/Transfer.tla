------------------------------ MODULE Transfer ------------------------------
(***************************************************************************)
(* The planned device swap of one account: initiate on the source device,  *)
(* accept with the code on the target, complete from either, cancellation  *)
(* and the credential sweep by an operator.  Each is one transaction; what *)
(* is hard is the order they come in, and the clock.                       *)
(*                                                                         *)
(* Transfers are numbered in the order they were initiated.  A transfer is *)
(* accepted at most once, so a transfer's number also names the device     *)
(* that accepted it.  Nothing in the code writes the status "completing";   *)
(* the audit events, which no operation reads, are left out.               *)
(***************************************************************************)
EXTENDS Naturals

CONSTANT MaxTransfers   \* bound: transfers initiated

TransferAssumption == MaxTransfers \in Nat

VARIABLES
  status,      \* transfers.status, "none" before the row exists
  lapsed,      \* transfers past expires_at
  devices,     \* transfer_devices whose revoked_at is NULL
  signedIn     \* the account has a bearer session

transferVars == <<status, lapsed, devices, signedIn>>

Transfers == 1..MaxTransfers

TransferInit ==
  /\ status = [t \in Transfers |-> "none"]
  /\ lapsed = {} /\ devices = {} /\ signedIn = FALSE

Active(t) == status[t] \in {"pending", "accepted"}

\* insert_provisioning_session.
SignIn ==
  /\ ~signedIn
  /\ signedIn' = TRUE
  /\ UNCHANGED <<status, lapsed, devices>>

\* expires_at passes.
Lapse(t) ==
  /\ Active(t) /\ t \notin lapsed
  /\ lapsed' = lapsed \cup {t}
  /\ UNCHANGED <<status, devices, signedIn>>

\* Fault: there is no unique index.
NoIndex(stale) == TRUE

\* The partial unique index: one active transfer for each account.
NoneActiveBut(stale) == \A u \in Transfers \ stale : ~Active(u)

\* insert_transfer: lapsed active rows become expired, and if none is active
\* any more the new row is inserted.
Initiate(t) ==
  LET stale == {u \in Transfers : Active(u) /\ u \in lapsed} IN
  /\ signedIn
  /\ status[t] = "none" /\ \A u \in Transfers : u < t => status[u] # "none"
  /\ NoneActiveBut(stale)
  /\ status' = [u \in Transfers |-> IF u = t THEN "pending"
                                    ELSE IF u \in stale THEN "expired" ELSE status[u]]
  /\ UNCHANGED <<lapsed, devices, signedIn>>

\* accept_transfer: the target device is registered with the acceptance.
Accept(t) ==
  /\ status[t] = "pending" /\ t \notin lapsed
  /\ status' = [status EXCEPT ![t] = "accepted"]
  /\ devices' = devices \cup {t}
  /\ UNCHANGED <<lapsed, signedIn>>

\* accept_transfer and cancel_transfer first write down a pending row's expiry.
Expire(t) ==
  /\ status[t] = "pending" /\ t \in lapsed
  /\ status' = [status EXCEPT ![t] = "expired"]
  /\ UNCHANGED <<lapsed, devices, signedIn>>

\* Fault: the devices of earlier transfers are kept.
KeepOthers(t) == devices

\* revoke_other_transfer_devices.
OnlyDevice(t) == devices \cap {t}

\* complete_transfer, by the source session or by the target device: sessions
\* and the other devices go.  There is no expiry check.
Complete(t, byTarget) ==
  /\ status[t] = "accepted"
  /\ IF byTarget THEN t \in devices ELSE signedIn
  /\ status' = [status EXCEPT ![t] = "complete"]
  /\ signedIn' = FALSE
  /\ devices' = OnlyDevice(t)
  /\ UNCHANGED lapsed

\* The statuses mark_transfer_cancelled rewrites, a lapsed pending row being
\* expired before.
Cancellable(t) == status[t] = "accepted" \/ (status[t] = "pending" /\ t \notin lapsed)

\* cancel_transfer: the accepted device's credential is revoked with it.
Cancel(t) ==
  /\ Cancellable(t)
  /\ status' = [status EXCEPT ![t] = "cancelled"]
  /\ devices' = devices \ {t}
  /\ UNCHANGED <<lapsed, signedIn>>

\* revoke_account_credentials: sessions and devices, not the transfers.
SweepDevices ==
  /\ signedIn \/ devices # {}
  /\ signedIn' = FALSE /\ devices' = {}
  /\ UNCHANGED <<status, lapsed>>

TransferNext ==
  \/ SignIn \/ SweepDevices
  \/ \E t \in Transfers : \/ Lapse(t) \/ Initiate(t) \/ Accept(t) \/ Expire(t)
                          \/ Cancel(t)
  \/ \E t \in Transfers, byTarget \in BOOLEAN : Complete(t, byTarget)

TransferSpec == TransferInit /\ [][TransferNext]_transferVars

-----------------------------------------------------------------------------
\* Types; and at most one transfer is active.
TransferTypeOK ==
  /\ status \in [Transfers -> {"none", "pending", "accepted", "complete",
                               "cancelled", "expired"}]
  /\ lapsed \subseteq Transfers /\ devices \subseteq Transfers
  /\ signedIn \in BOOLEAN
  /\ \A t, u \in Transfers : Active(t) /\ Active(u) => t = u

\* A device that can still authenticate took part in a transfer that was
\* accepted and not cancelled, and no later transfer was completed: a completed
\* swap leaves one device, whatever was accepted, lapsed or swept before it.
LastDeviceHoldsAccount ==
  \A t \in devices :
    /\ status[t] \in {"accepted", "complete", "expired"}
    /\ \A u \in Transfers : u > t => status[u] # "complete"
=============================================================================
