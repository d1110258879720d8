-------------------------- MODULE MCDriverLifecycle --------------------------
(* Small instances of DriverLifecycle for TLC.                             *)
EXTENDS DriverLifecycle

CONSTANTS r, m1, m2
=============================================================================
