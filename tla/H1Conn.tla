------------------------------- MODULE H1Conn -------------------------------
(***************************************************************************)
(* The connection under an h1 transport, as both of its ends see it: the   *)
(* request and the response of the handshake, then frames, in order, each  *)
(* way.  A frame reaches the reader whole (io.ReadFull) or, when the       *)
(* connection breaks within it, not at all.                                *)
(***************************************************************************)
EXTENDS Framer, Sequences, SequencesExt

CONSTANTS WireCap,   \* frames the network holds before a write waits
          UpSizes,   \* the lengths of the messages the client's user writes
          DownSizes  \* the lengths of the messages the session writes

ASSUME WireAssumption == /\ WireCap \in Nat \ {0}
                         /\ UpSizes \in Seq(Nat) /\ DownSizes \in Seq(Nat)

VARIABLES
    conn,    \* the TCP connection: none, open, broken
    up,      \* what is on its way to the server
    down     \* what is on its way to the client

wireVars == <<conn, up, down>>

WireInit == conn = "none" /\ up = << >> /\ down = << >>

\* What is on its way may still be read, or the error is met before it.
ConnBreaks == conn = "open" /\ conn' = "broken" /\ UNCHANGED <<up, down>>

\* Where a stream of messages ends, and the next message of it, n bytes long.
StreamEnd(msgs) == IF msgs = << >> THEN 0 ELSE Last(msgs).at + Last(msgs).len
NextMessage(msgs, n) == Data(StreamEnd(msgs), n)

\* What a reader was given, in a history of intervals: one interval as long as
\* each piece continues the one before.
Given(h, d) ==
    IF d.ok /\ h # << >> /\ Last(h).ok /\ Last(h).at + Last(h).len = d.at
    THEN [h EXCEPT ![Len(h)].len = @ + d.len]
    ELSE Append(h, d)

\* A history that is the beginning of a stream of n bytes.
IsStreamStart(h, n) ==
    h # << >> => Len(h) = 1 /\ h[1].ok /\ h[1].at = 0 /\ h[1].len <= n
=============================================================================
