---------------------------- MODULE MCModeQuota -----------------------------
(* Instances of ModeQuota for TLC: small targets, a buffer of two rounds    *)
(* instead of 25.                                                           *)
EXTENDS ModeQuota
=============================================================================
