------------------------------ MODULE QTimerMC ------------------------------
(***************************************************************************)
(* Instances of QTimer for TLC.                                            *)
(***************************************************************************)
EXTENDS QTimer, TLC

=============================================================================
