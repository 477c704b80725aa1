-------------------------- MODULE MCReadWriteBuffer --------------------------
(***************************************************************************)
(* Small instances of ReadWriteBuffer for TLC.  BufSize 2 and BufSizeMax 4 *)
(* keep the proportions that matter: a write may fit, may need one step of *)
(* growth, several steps, or be refused.                                   *)
(***************************************************************************)
EXTENDS ReadWriteBuffer

\* An empty write, as h1pool makes them, a write that fits in one step of growth
\* and one that may need two.
MCWriteSizes == {0, 1, 3}
\* A read smaller than most writes and one that empties most buffers.
MCReadSizes == {1, 4}

=============================================================================
