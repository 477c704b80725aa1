------------------------------ MODULE Gateway ------------------------------
(***************************************************************************)
(* An HTTP client's request through the gateway, the SOCKS5 server and its *)
(* backend to a target.                                                    *)
(***************************************************************************)
EXTENDS Socks5Server

vars == <<wireVars, gatewayVars, lost, serverVars>>

Init == WireInit /\ GatewayInit /\ ServerInit

GatewayMoves == (ReadRequest \/ GatewayStep \/ Relay) /\ UNCHANGED serverVars
ClientMoves == (ClientBody \/ ClientSends \/ ClientCloses) /\ UNCHANGED serverVars
ConnectionBreaks == WireBreaks /\ UNCHANGED <<gatewayVars, lost, serverVars>>

Next ==
    \/ GatewayMoves \/ ClientMoves \/ ServerStep \/ DialAsks \/ SessionStep \/ TargetCloses
    \/ ConnectionBreaks

\* Both handlers go on while they can; net.Dial returns, and the secure backend's wait
\* for the session ends after 30 s.  Nothing is assumed of the write of its request, of
\* the session, the client, the target or the connection.
Fairness ==
    /\ WF_vars((GatewayStep \/ Relay) /\ UNCHANGED serverVars)
    /\ WF_vars(ServerStep)

Spec == Init /\ [][Next]_vars /\ Fairness

-----------------------------------------------------------------------------
Data == {"early", "req", "late"}

\* Every variable holds a value the code can give it; neither direction holds more
\* than the client sent, or than one answer at a time.
TypeOK ==
    /\ s5 \in {"none", "open", "gwclosed", "srvclosed", "broken"}
    /\ gw \in {"read", "connect", "hsAck", "ack", "answer", "proxy", "closed"}
    /\ srv \in {"greeting", "request", "dial", "direct", "asking", "waiting", "open",
                "refused", "proxy", "closed"}
    /\ sess \in {"idle", "asked", "judged", "open", "ended"}
    /\ ip \in Addresses \cup {NilIP} /\ dns \in Answers \cup {None}
    /\ cconn \in {"open", "closed"} /\ tconn \in {"none", "open", "closed"}
    /\ Len(g2s) <= MaxSends + 2 /\ Len(s2g) <= 1
    /\ sent \in 0..MaxSends /\ answered \in BOOLEAN /\ owed \in BOOLEAN
    /\ ToSet(cin) \cup ToSet(reached) \cup lost \subseteq Data

\* The client is told that its connection stands, or its request is taken on, only
\* once the server has dialled: of the answers, all of which begin with version 5,
\* the gateway tells success from failure by their length and their fourth byte, the
\* type of an address, and not by the verdict in the second.
AnsweredMeansDialled == answered \/ "req" \in ToSet(reached) => dialled # {}

\* What is dialled is what the client asked for, through the forms an address takes,
\* where its name and port fit into the bytes SOCKS5 has for them.
TargetReached ==
    \A d \in dialled :
        req.host.size < 256 /\ AskedPort < 65536 => d.host = req.host /\ d.port = AskedPort

\* The far end of the tunnel never connects to an address of its own surroundings,
\* whoever asks and in whatever form, although a name is resolved once for the check
\* and may be resolved differently at any other time, before and after it, and its
\* answers may mix addresses of both kinds.
TunnelNeverLocal == \A d \in dialled : d.by = "secure" => d.ip.class = "other"

\* No data is left in a reader's buffer unless the client sent it before it had an
\* answer: each side of the SOCKS5 exchange waits for the other before it sends on.
WaitingClientKeeps == lost # {} => early

\* A request that was read is taken on or its client's connection is closed, although
\* the gateway reads without a deadline and a refusal is told by closing.  Two things the
\* code sets no limit to are excepted: the client keeps the body it owes and its
\* connection, or the secure backend never comes back from writing its request.
RequestSettles ==
    gw = "connect" ~> \/ gw \in {"proxy", "closed"}
                      \/ [](gw = "answer" /\ owed)
                      \/ [](gw = "ack" /\ srv = "asking")
=============================================================================
