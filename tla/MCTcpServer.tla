----------------------------- MODULE MCTcpServer -----------------------------
(* Instances of TcpServer: fewer descriptors than connections, so that they  *)
(* are reused, and a ring so short that it fills.                            *)
EXTENDS TcpServer, TLC

CONSTANTS f1, f2
OneFd  == {f1}
TwoFds == {f1, f2}
FdSymmetry == Permutations({f1, f2})
=============================================================================
