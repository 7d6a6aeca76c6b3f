------------------------------ MODULE MCBlobGc ------------------------------
(***************************************************************************)
(* Instances of BlobGc for TLC: two accounts that share one blob.          *)
(***************************************************************************)
EXTENDS BlobGc

ASSUME BlobAssumption
=============================================================================
