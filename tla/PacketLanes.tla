---------------------------- MODULE PacketLanes ----------------------------
(***************************************************************************)
(* What h1pool promises to the two ends of a connection, where a transport *)
(* should be a ByteStream: each write is a numbered packet that takes one  *)
(* lane, and arrives once or not at all.  A lane keeps the order of its    *)
(* packets; between lanes there is none, and any packet may be lost.       *)
(***************************************************************************)
EXTENDS Naturals, Sequences

CONSTANTS Clients,    \* connections, by client id
          Lanes       \* what a packet may be sent by

VARIABLES sent,   \* of each client the packets written: number n, lane t
          fed     \* of each client the packets that have arrived, in order

vars == <<sent, fed>>

Init == /\ sent = [d \in Clients |-> << >>]
        /\ fed = [d \in Clients |-> << >>]

\* Packets are numbered from 0 on, but for one number, which is that of OP_EOS.
Send(d, t) ==
    /\ \E n \in Len(sent[d])..Len(sent[d]) + 1 :
         /\ \A i \in 1..Len(sent[d]) : sent[d][i].n < n
         /\ sent' = [sent EXCEPT ![d] = Append(@, [n |-> n, t |-> t])]
    /\ UNCHANGED fed

\* A packet arrives, behind all that have arrived by its lane.
Arrive(d, i) ==
    /\ \A j \in 1..Len(fed[d]) : fed[d][j].t = sent[d][i].t => fed[d][j].n < sent[d][i].n
    /\ fed' = [fed EXCEPT ![d] = Append(@, sent[d][i])]
    /\ UNCHANGED sent

Next == \E d \in Clients :
            \/ \E t \in Lanes : Send(d, t)
            \/ \E i \in 1..Len(sent[d]) : Arrive(d, i)

Spec == Init /\ [][Next]_vars
=============================================================================
