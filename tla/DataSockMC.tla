----------------------------- MODULE DataSockMC -----------------------------
(***************************************************************************)
(* Instances of DataSock for TLC.                                          *)
(***************************************************************************)
EXTENDS DataSock, TLC

MCStanding == {CtlFd, INVALID_SOCKET, MgmtFd}
MCTypes == {"ctl_type", "wd_type", "data_type", "console_type", "mgmt_ctl", "mgmt_data"}
MCPrio == {"data_type"}
MCReads == {"wd_type", "data_type"}

Symmetry == {p @@ q : p \in Permutations(Fds), q \in Permutations(Endpoints)}
=============================================================================
