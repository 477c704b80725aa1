----------------------------- MODULE ByteStream -----------------------------
(***************************************************************************)
(* What a ReadWriteBuffer, and each direction of a tunnel, promises to its *)
(* two ends: one FIFO stream of bytes.  The bytes of the stream are named  *)
(* by their position, 1, 2, 3, ..., so a lost, repeated or overtaken byte  *)
(* is visible in what the readers are given.  A write that overlaps Close  *)
(* may still be accepted, exactly as an accepted write may still be unread *)
(* when the stream is closed.                                              *)
(***************************************************************************)
EXTENDS Naturals, Sequences

CONSTANT Sizes         \* how many bytes a write may bring

VARIABLES pending,    \* accepted and not yet read, oldest first
          delivered,  \* everything the readers were given, in order
          closed      \* Close has been called

vars == <<pending, delivered, closed>>

Init == /\ pending = << >>
        /\ delivered = << >>
        /\ closed = FALSE

\* The next n bytes of the stream are accepted.
Put(n) ==
    /\ LET last == Len(delivered) + Len(pending)
       IN  pending' = pending \o [i \in 1..n |-> last + i]
    /\ UNCHANGED <<delivered, closed>>

\* A reader is given the n oldest unread bytes.
Take(n) ==
    /\ delivered' = delivered \o SubSeq(pending, 1, n)
    /\ pending' = SubSeq(pending, n + 1, Len(pending))
    /\ UNCHANGED closed

Close == closed' = TRUE /\ UNCHANGED <<pending, delivered>>

Next == \/ Close
        \/ \E n \in Sizes : Put(n)
        \/ \E n \in 1..Len(pending) : Take(n)

Spec == Init /\ [][Next]_vars
=============================================================================
