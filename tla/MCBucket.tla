------------------------------ MODULE MCBucket ------------------------------
(* Model values for Bucket.                                                *)
EXTENDS Bucket, TLC
=============================================================================
