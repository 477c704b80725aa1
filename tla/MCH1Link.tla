------------------------------ MODULE MCH1Link ------------------------------
(***************************************************************************)
(* An instance of H1Link for TLC.  With the 16 bytes of the initialization *)
(* vector the lengths are those at which a ws header changes its form (125 *)
(* and 126, 2^16 - 1 and 2^16), and one that is longer than the slice of   *)
(* the client's reader (2^16).  As many messages each way fill the         *)
(* network, the relay's hands and the session's, and one more waits.       *)
(***************************************************************************)
EXTENDS H1Link

MCUpSizes == <<110, 65520, 65519, 109>>
MCDownSizes == <<109, 65537, 110>>
=============================================================================
