------------------------------- MODULE H1Pool -------------------------------
(***************************************************************************)
(* The transport h1pool (transport/h1pool): the divided clients of one     *)
(* process and the instances that serve them on the other side, joined by  *)
(* the trunks both ends come to at any time, in any order, and lose at any *)
(* time.  What a byte stream between a client and its session is made of:  *)
(* packets that are written to the latest trunk of the moment and fed to   *)
(* the instance, or the client, by whichever trunk's reader meets them.    *)
(***************************************************************************)
EXTENDS DividedClient, PooledServer

vars == <<netVars, clientVars, serverVars>>

Init == NetInit /\ ClientInit /\ ServerInit

TrunkBreaks == \E t \in Trunks : ConnBreaks(t) /\ UNCHANGED <<clientVars, serverVars>>

Next ==
    \/ ClientStep /\ UNCHANGED serverVars
    \/ ServerStep /\ UNCHANGED clientVars
    \/ TrunkBreaks

\* Goroutines of the server that can run do run.  What the network, the user of
\* a client and the session decide is left open, and so is all of the client.
TrunkFairness(t) ==
    WF_vars((\/ ServerRecv(t) \/ ServerFeedFirst(t) \/ ServerPong(t)
             \/ ServerReadEnds(t)) /\ UNCHANGED clientVars)
    /\ WF_vars((ServerReply(t) \/ ServerExit(t)) /\ UNCHANGED clientVars)

InstanceFairness(d) ==
    WF_vars((\/ InstanceLaunch(d) \/ InstanceSelect(d) \/ InstanceEosPick(d)
             \/ InstanceEosSend(d) \/ InstanceDelete(d)) /\ UNCHANGED clientVars)
    /\ WF_vars(SessionSend(d) /\ UNCHANGED clientVars)

Spec == Init /\ [][Next]_vars

FairSpec ==
    /\ Spec
    /\ \A t \in Trunks : TrunkFairness(t)
    /\ \A d \in Clients : InstanceFairness(d)

-----------------------------------------------------------------------------
(* Properties *)

Fed == [n : Nat, t : Trunks]
Packets == [op : {"none", "data", "ping", "pong", "eos"},
            cid : Clients \cup {NoClient}, serial : Nat]

\* Every variable holds a value the code can give it; whoever sends has a trunk
\* or a channel to send to.
TypeOK ==
    /\ trunk \in [Trunks -> {"none", "connecting", "up", "broken", "gone", "failed"}]
    /\ conn \in [Trunks -> {"none", "open", "broken"}]
    /\ \A t \in Trunks : up[t] \in Seq(Packets) /\ down[t] \in Seq(Packets)
    /\ dstate \in [Clients -> {"new", "open", "closed"}]
    /\ serial \in [Clients -> Nat]
    /\ wpc \in [Clients -> {"idle", "send"}]
    /\ cpc \in [Clients -> {"idle", "pick", "send", "done"}]
    /\ \A d \in Clients :
         /\ {wvia[d], cvia[d], rvia[d]} \subseteq Trunks \cup {0}
         /\ wpc[d] = "send" => wvia[d] \in Trunks
         /\ cpc[d] = "send" => cvia[d] \in Trunks
         /\ hnd[d] = "send" \/ sel[d] = "eosSend" => rvia[d] \in Trunks
    /\ \A d \in Clients : {Range(sent[d]), Range(got[d]), Range(fed[d])} \subseteq SUBSET Fed
    /\ rdone \subseteq Trunks
    /\ pings \in [Trunks -> Nat]
    /\ serving \in [Trunks -> {"none", "on", "off"}]
    /\ \A t \in Trunks : chReply[t] \in Seq(Packets) /\ Len(chReply[t]) <= ReplyCap
    /\ createdAt \in [Trunks -> Nat]
    /\ rpc \in [Trunks -> {"read", "create", "pong", "ended"}]
    /\ held \in [Trunks -> Packets]
    /\ inMap \subseteq Clients
    /\ sel \in [Clients -> {"none", "starting", "select", "eosPick", "eosSend",
                            "exited", "done"}]
    /\ hnd \in [Clients -> {"none", "run", "send", "closing", "signal", "done"}]
    /\ bufClosed \subseteq Clients /\ overrun \subseteq Clients
    /\ replies \in [Clients -> Nat]

\* In a history of packets, those that came by one trunk are in the order they
\* were numbered, and none is there twice.
InTrunkOrder(h) ==
    \A i, j \in 1..Len(h) :
        i < j => h[i].n # h[j].n /\ (h[i].t = h[j].t => h[i].n < h[j].n)

\* What an instance's buffer is fed by one trunk keeps the order of the client's
\* writes and repeats nothing, whatever else other trunks feed in between and
\* whichever trunk created the instance.
UpInTrunkOrder == \A d \in Clients : InTrunkOrder(fed[d])

\* The same of the replies a divided client is fed, although they wait in a
\* channel, are written by another goroutine and may be swallowed in part.
DownInTrunkOrder == \A d \in Clients : InTrunkOrder(got[d])

\* A client that has used one trunk only is served in order and without a gap, until
\* its session's buffer overruns: its session has been fed the first of its writes,
\* however many, whatever ends first.
OneTrunkStream ==
    \A d \in Clients \ overrun :
        (\E t \in Trunks : \A i \in 1..Len(sent[d]) : sent[d][i].t = t)
            => IsPrefix(fed[d], sent[d])

Laned == INSTANCE PacketLanes WITH Lanes <- Trunks

\* What a session is fed are packets its client has written, each by the trunk it was
\* written to and once, although the reader that creates an instance feeds it later
\* than readers of other trunks may: writes are numbered without a hole but for the
\* number of OP_EOS, and no step does more than write one packet or feed one.
IsLaned == Laned!Spec

\* A client id is served once: packets that arrive by another trunk after the
\* instance has ended do not start a second session in the middle of the stream.
NoSecondSession ==
    [][\A d \in Clients : sel[d] = "done" => sel'[d] = "done"]_vars

\* The reply channel of a trunk is full and nothing is taken out: its handler has
\* returned, or waits in a write to a client that does not read.
Clogged(t) ==
    /\ Len(chReply[t]) = ReplyCap
    /\ serving[t] = "off" \/ (conn[t] = "open" /\ Len(down[t]) = WireCap)

\* The reader of a trunk is stuck in one way only while its connection works: what is
\* on its way up is read, although the reader waits for room in the reply channel,
\* unless the client reads nothing any more and the connection stays open for ever.
TrunkDrains ==
    \A t \in Trunks : up[t] # << >> ~> \/ up[t] = << >> \/ conn[t] = "broken"
                                       \/ []Clogged(t)

\* A session that sends a reply gets it into the channel it chose unless that channel
\* is clogged for ever, however many sessions and pongs share the channel and whether
\* the trunk breaks while the reader itself waits for room.
ReplySent ==
    \A d \in Clients :
        hnd[d] = "send" ~> \/ hnd[d] # "send"
                           \/ \E t \in Trunks : [](rvia[d] = t /\ Clogged(t))

\* A transport.Transport delivers what is written to it in the order written.
InOrder ==
    \A d \in Clients : \A i, j \in 1..Len(fed[d]) :
        i < j => fed[d][i].n < fed[d][j].n

\* "close the instance": the OP_EOS of a client closes its instance.
EosClosesInstance ==
    \A d \in Clients, t \in Trunks :
        (/\ cpc[d] = "done" /\ cvia[d] = t /\ d \in inMap
         /\ \E i \in 1..Len(up[t]) : up[t][i].op = "eos")
            ~> (d \in bufClosed \/ conn[t] = "broken")
=============================================================================
