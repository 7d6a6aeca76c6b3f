----------------------------- MODULE MCFirehose -----------------------------
(* Instances of Firehose for TLC.                                          *)
EXTENDS Firehose, TLC
=============================================================================
