----------------------------- MODULE MCRtspServer -----------------------------
(* Instances of RtspServer: two suffixes, and descriptors enough for one     *)
(* connection over UDP, so that they come back with another's socket.        *)
EXTENDS RtspServer, TLC

CONSTANTS f1, f2, f3, x1, x2
OneFd       == {f1}
TwoFds      == {f1, f2}
ThreeFds    == {f1, f2, f3}
TwoSuffixes == {x1, x2}
OneSuffix   == {x1}
\* The rest of the process has none of the descriptors, or all but one.
AllOrOne == {{}} \cup {Fds \ {f} : f \in Fds}
Symmetry == Permutations({f1, f2, f3}) \cup Permutations({x1, x2})
=============================================================================
