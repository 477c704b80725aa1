---------------------------- MODULE DividedClient ----------------------------
(***************************************************************************)
(* transport/h1pool/client.go, the traffic side: divided clients that      *)
(* write packets through whichever shared client is the latest, and the    *)
(* reader goroutine of each shared client that hands what arrives to the   *)
(* divided client it is for.  When trunks are added and given up is the    *)
(* subject of SharedClients; here both may happen at any time.             *)
(***************************************************************************)
EXTENDS TrunkNet

CONSTANTS MaxWrites,  \* bound: calls of Write per divided client
          MaxPings,   \* bound: pings per trunk
          Closers     \* bound: the divided clients that are closed by their user

VARIABLES
    dstate,   \* new, open (in the clients map), closed
    serial,   \* dividedClient.serial
    wpc, wvia,    \* the goroutine in Write: idle or send, and the trunk it chose
    cpc, cvia,    \* the goroutine in Close: idle, pick, send or done; its trunk
    rdone,    \* trunks whose reader goroutine has returned
    pings,    \* pings sent through each trunk
    sent,     \* history: the data packets of a client: serial and trunk
    got       \* history: the packets fed to a client's buffer, with their trunk

divVars == <<dstate, serial, wpc, wvia, cpc, cvia, sent, got>>
clientVars == <<divVars, rdone, pings>>

ClientInit ==
    /\ dstate = [d \in Clients |-> "new"]
    /\ serial = [d \in Clients |-> 0]
    /\ wpc = [d \in Clients |-> "idle"]
    /\ wvia = [d \in Clients |-> 0]
    /\ cpc = [d \in Clients |-> "idle"]
    /\ cvia = [d \in Clients |-> 0]
    /\ rdone = {}
    /\ pings = [t \in Trunks |-> 0]
    /\ sent = [d \in Clients |-> << >>]
    /\ got = [d \in Clients |-> << >>]

-----------------------------------------------------------------------------
(* Shared clients *)

\* The keys of sharedClients.
Pool == {t \in Trunks : trunk[t] \in {"connecting", "up", "broken"}}

AddTrunk(t) ==
    /\ trunk[t] = "none"
    /\ \A s \in Trunks : s < t => trunk[s] # "none"
    /\ trunk' = [trunk EXCEPT ![t] = "connecting"]
    /\ UNCHANGED <<conn, up, down, clientVars>>

\* Connect returns.  http.ReadResponse reads on behind the header: packets that
\* arrived with the response are swallowed.
Connected(t) ==
    /\ trunk[t] = "connecting"
    /\ conn[t] # "none"
    /\ trunk' = [trunk EXCEPT ![t] = "up"]
    /\ \E k \in 0..Len(down[t]) :
         down' = [down EXCEPT ![t] = SubSeq(@, k + 1, Len(@))]
    /\ UNCHANGED <<conn, up, clientVars>>

\* Connect fails: the trunk is deleted and its tx is never closed.
ConnectFails(t) ==
    /\ trunk[t] = "connecting"
    /\ conn[t] # "open"
    /\ trunk' = [trunk EXCEPT ![t] = "failed"]
    /\ UNCHANGED <<conn, up, down, clientVars>>

\* RelayTraffic meets the error and sets closed.
RelayEnds(t) ==
    /\ trunk[t] = "up"
    /\ conn[t] = "broken"
    /\ trunk' = [trunk EXCEPT ![t] = "broken"]
    /\ UNCHANGED <<conn, up, down, clientVars>>

\* client.start returns (pong stalled, decommissioned, ping not written, reader
\* cancelled): tx.Close and Delete.  Nobody closes the TCP connection.
TrunkExits(t) ==
    /\ trunk[t] \in {"up", "broken"}
    /\ trunk' = [trunk EXCEPT ![t] = "gone"]
    /\ UNCHANGED <<conn, up, down, clientVars>>

\* The loop of client.start writes a ping.
SendPing(t) ==
    /\ trunk[t] = "up"
    /\ pings[t] < MaxPings
    /\ pings' = [pings EXCEPT ![t] = @ + 1]
    /\ up' = [up EXCEPT ![t] = Append(@, Wire(Packet("ping", NoClient, 0)))]
    /\ UNCHANGED <<trunk, conn, down, divVars, rdone>>

\* A packet written to a trunk whose connection is broken goes nowhere.
Sent(t, p) == IF conn[t] = "open" THEN Append(up[t], Wire(p)) ELSE up[t]

-----------------------------------------------------------------------------
(* Divided clients *)

Open(d) ==
    /\ dstate[d] = "new"
    /\ dstate' = [dstate EXCEPT ![d] = "open"]
    /\ UNCHANGED <<netVars, serial, wpc, wvia, cpc, cvia, rdone, pings, sent, got>>

\* Mutated form: without a trunk, none (0) is returned as if it were one.
AvailableOrNil ==
    LET connected == {t \in Trunks : trunk[t] = "up"}
    IN  IF connected # {} THEN {Max(connected)}
        ELSE IF Pool # {} THEN Pool ELSE {0}

\* getAvailableSharedClient: the latest connected trunk, else any of the pool.
Available ==
    LET connected == {t \in Trunks : trunk[t] = "up"}
    IN  IF connected # {} THEN {Max(connected)} ELSE Pool

\* Write, up to the choice of the trunk (an empty pool is polled).  It does not
\* look whether the client is closed.
WritePick(d) ==
    /\ wpc[d] = "idle"
    /\ dstate[d] # "new"
    /\ Len(sent[d]) < MaxWrites
    /\ \E t \in Available : wvia' = [wvia EXCEPT ![d] = t]
    /\ wpc' = [wpc EXCEPT ![d] = "send"]
    /\ UNCHANGED <<netVars, dstate, serial, cpc, cvia, rdone, pings, sent, got>>

\* Mutated form: the packet is written a second time.
WriteSendTwice(d) ==
    LET t == wvia[d]
        p == Packet("data", d, serial[d])
    IN
    /\ wpc[d] = "send"
    /\ trunk[t] = "up"
    /\ wpc' = [wpc EXCEPT ![d] = "idle"]
    /\ wvia' = [wvia EXCEPT ![d] = 0]
    /\ serial' = [serial EXCEPT ![d] = @ + 1]
    /\ sent' = [sent EXCEPT ![d] = Append(@, [n |-> serial[d], t |-> t])]
    /\ up' = [up EXCEPT ![t] = @ \o <<Wire(p), Wire(p)>>]
    /\ UNCHANGED <<trunk, conn, down, dstate, cpc, cvia, rdone, pings, got>>

\* Write, the packet: a serial is used up; tx.Write waits for a trunk that is
\* connecting (for ever if that fails) and refuses when tx is closed.  When the
\* trunk ends between the check and the send it never returns; no fairness is
\* assumed of this step.
WriteSend(d) ==
    LET t == wvia[d] IN
    /\ wpc[d] = "send"
    /\ trunk[t] \in {"up", "broken", "gone"}
    /\ wpc' = [wpc EXCEPT ![d] = "idle"]
    /\ wvia' = [wvia EXCEPT ![d] = 0]
    /\ serial' = [serial EXCEPT ![d] = @ + 1]
    /\ sent' = [sent EXCEPT ![d] = Append(@, [n |-> serial[d], t |-> t])]
    /\ \/ /\ trunk[t] = "up"
          /\ up' = [up EXCEPT ![t] = Sent(t, Packet("data", d, serial[d]))]
       \/ trunk[t] # "up" /\ UNCHANGED up
    /\ UNCHANGED <<trunk, conn, down, dstate, cpc, cvia, rdone, pings, got>>

\* Close, called by the user (the reader of a trunk calls it in ClientRecv).
CloseBegin(d) ==
    /\ d \in Closers
    /\ dstate[d] = "open"
    /\ dstate' = [dstate EXCEPT ![d] = "closed"]
    /\ cpc' = [cpc EXCEPT ![d] = "pick"]
    /\ UNCHANGED <<netVars, serial, wpc, wvia, cvia, rdone, pings, sent, got>>

ClosePick(d) ==
    /\ cpc[d] = "pick"
    /\ \E t \in Available : cvia' = [cvia EXCEPT ![d] = t]
    /\ cpc' = [cpc EXCEPT ![d] = "send"]
    /\ UNCHANGED <<netVars, dstate, serial, wpc, wvia, rdone, pings, sent, got>>

\* No trunk turned up in 30 s: nothing is sent.
CloseGivesUp(d) ==
    /\ cpc[d] = "pick"
    /\ Pool = {}
    /\ cpc' = [cpc EXCEPT ![d] = "done"]
    /\ UNCHANGED <<netVars, dstate, serial, wpc, wvia, cvia, rdone, pings, sent, got>>

\* The OP_EOS packet takes a serial of its own.
CloseSend(d) ==
    LET t == cvia[d] IN
    /\ cpc[d] = "send"
    /\ trunk[t] \in {"up", "broken", "gone"}
    /\ cpc' = [cpc EXCEPT ![d] = "done"]
    /\ serial' = [serial EXCEPT ![d] = @ + 1]
    /\ \/ /\ trunk[t] = "up"
          /\ up' = [up EXCEPT ![t] = Sent(t, Packet("eos", d, serial[d]))]
       \/ trunk[t] # "up" /\ UNCHANGED up
    /\ UNCHANGED <<trunk, conn, down, dstate, wpc, wvia, cvia, rdone, pings, sent, got>>

-----------------------------------------------------------------------------
\* The keys of the clients map.
clients == {d \in Clients : dstate[d] = "open"}

\* The reader goroutine of a trunk takes the next packet.  Reads of a closed tx
\* are refused: at most the packet it was in the middle of comes through then.  A
\* client's buffer may have no room for a packet, which is lost.
ClientRecv(t) ==
    /\ trunk[t] \in {"up", "broken", "gone"}
    /\ t \notin rdone
    /\ down[t] # << >>
    /\ down' = [down EXCEPT ![t] = Tail(@)]
    /\ rdone' = IF trunk[t] = "up" THEN rdone ELSE rdone \cup {t}
    /\ LET p == Head(down[t]) IN
       \/ /\ p.op = "data" /\ p.cid \in clients
          /\ got' = [got EXCEPT ![p.cid] = Append(@, [n |-> p.serial, t |-> t])]
          /\ UNCHANGED <<dstate, cpc>>
       \/ /\ p.op = "eos" /\ p.cid \in clients
          /\ dstate' = [dstate EXCEPT ![p.cid] = "closed"]
          /\ cpc' = [cpc EXCEPT ![p.cid] = "pick"]
          /\ UNCHANGED got
       \/ /\ p.op = "eos" => p.cid \notin clients
          /\ UNCHANGED <<dstate, cpc, got>>
    /\ UNCHANGED <<trunk, conn, up, serial, wpc, wvia, cvia, pings, sent>>

ClientStep ==
    \/ \E t \in Trunks :
         \/ AddTrunk(t) \/ Connected(t) \/ ConnectFails(t) \/ RelayEnds(t)
         \/ TrunkExits(t) \/ SendPing(t) \/ ClientRecv(t)
    \/ \E d \in Clients :
         \/ Open(d) \/ WritePick(d) \/ WriteSend(d)
         \/ CloseBegin(d) \/ ClosePick(d) \/ CloseGivesUp(d) \/ CloseSend(d)
=============================================================================
