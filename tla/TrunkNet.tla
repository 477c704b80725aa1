------------------------------ MODULE TrunkNet ------------------------------
(***************************************************************************)
(* The trunks between the two halves of h1pool: what both see of an h1     *)
(* connection, and the packets (transport/h1pool/packet.go) it carries, in *)
(* order, in each direction.                                               *)
(*                                                                         *)
(* Trunks are numbered in the order of their createdAt; SharedClients      *)
(* proves that no two of a pool are of one age.                            *)
(***************************************************************************)
EXTENDS Integers, Sequences, FiniteSets, FiniteSetsExt, SequencesExt

CONSTANTS NTrunks,    \* bound: trunks created
          Clients,    \* divided clients, by client id
          NoClient,   \* the empty client id
          WireCap     \* packets on their way down that nobody has read yet fill the
                      \* TCP connection (the way up is left without a limit)

ASSUME TrunkAssumption ==
    /\ NTrunks \in Nat
    /\ NoClient \notin Clients
    /\ WireCap \in Nat

Trunks == 1..NTrunks

VARIABLES
    trunk,   \* the client's side: none, connecting, up (connected), broken
             \* (closed but still in sharedClients), gone (closed and deleted),
             \* failed (deleted after a failed Connect, never closed)
    conn,    \* the TCP connection: none, open, broken
    up,      \* packets on their way to the server
    down     \* packets on their way to the client

netVars == <<trunk, conn, up, down>>

Packet(op, cid, serial) == [op |-> op, cid |-> cid, serial |-> serial]

\* writePacket: the meta part, and with it the client id, is only written for
\* OP_DATA; readAnyPacket leaves the id of a packet without meta empty.
Wire(p) == IF p.op = "data" THEN p ELSE [p EXCEPT !.cid = NoClient]

\* The connection ends.  What was on its way may still be read, or the reader
\* meets the error before it.
ConnBreaks(t) ==
    /\ conn[t] = "open"
    /\ conn' = [conn EXCEPT ![t] = "broken"]
    /\ UNCHANGED <<trunk, up, down>>

NetInit ==
    /\ trunk = [t \in Trunks |-> "none"]
    /\ conn = [t \in Trunks |-> "none"]
    /\ up = [t \in Trunks |-> << >>]
    /\ down = [t \in Trunks |-> << >>]
=============================================================================
