------------------------------ MODULE TunnelTx ------------------------------
(***************************************************************************)
(* The transport under one tunnel, as its two ends use it: messages in     *)
(* order in each direction, with room for a few; the order is what         *)
(* ReadWriteBuffer and a single trunk of h1pool give.                      *)
(***************************************************************************)
EXTENDS Integers, Sequences, SequencesExt

CONSTANTS TxCap,      \* messages a direction holds before a write waits
          ChCap,      \* 8: capacity of chUp and chDown in utils.Proxy
          MaxUp,      \* bound: chunks read from the application
          MaxDown,    \* bound: chunks read from the target
          Endings     \* bound: sets of what may end the tunnel: link, app, target

ASSUME TunnelAssumption == /\ {TxCap, ChCap} \subseteq Nat \ {0}
                           /\ {MaxUp, MaxDown} \subseteq Nat
                           /\ Endings \subseteq SUBSET {"link", "app", "target"}

VARIABLES
    ends,    \* what may end this tunnel
    tx,      \* up; closed by the client without the server noticing, as h1pool
             \* does; broken.  What is written when it is not up is lost or refused.
    c2s,     \* messages on their way to the session
    s2c      \* messages on their way to the client

txVars == <<ends, tx, c2s, s2c>>

Msg(kind, dat) == [kind |-> kind, dat |-> dat]

TxInit == ends \in Endings /\ tx = "up" /\ c2s = << >> /\ s2c = << >>

\* The transport fails; what is on its way may still be read.
TxBreaks == "link" \in ends /\ tx = "up" /\ tx' = "broken" /\ UNCHANGED <<ends, c2s, s2c>>
=============================================================================
