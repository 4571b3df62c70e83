---------------------------- MODULE MCSSCClient ----------------------------
(* Small instances of SSCClient for TLC. *)
EXTENDS SSCClient

\* All that libqrtr, libqmi and the caller may do wrong.
AllFaults == FaultKinds

=============================================================================
