----------------------------- MODULE MCAviReader -----------------------------
(* Instances of AviReader with everything scaled down: three entries fill a  *)
(* standard index, two or three chunks a RIFF.                               *)
EXTENDS AviReader
=============================================================================
