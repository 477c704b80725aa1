---------------------------- MODULE HttpGateway ----------------------------
(***************************************************************************)
(* h2s/server.go: one connection of an HTTP client, whose request the      *)
(* gateway takes to the SOCKS5 server with socks5.Socks5Connect            *)
(* (socks/socks5/client.go) and whose data it then copies (utils.Proxy).   *)
(* The client may send data along with its request, or wait for the answer.*)
(***************************************************************************)
EXTENDS Socks5Wire

CONSTANT MaxSends   \* what the client sends after its answer

ASSUME GatewayAssumption == MaxSends \in Nat

VARIABLES
    req,        \* the request: method, https, host, port
    early,      \* the client sends data without waiting for the answer
    owed,       \* the client has not sent the body of its request yet
    cconn,      \* the client's connection: open or closed
    cin,        \* data on it that the gateway has not read
    answered,   \* the client has the answer to its CONNECT
    sent,       \* what it has sent since
    gw,         \* handleConn: read, connect, hsAck, ack, answer, proxy, closed
    lost        \* data left in a bufio.Reader that is not read again

clientVars == <<req, early, owed, cconn, cin, answered, sent>>
gatewayVars == <<clientVars, gw>>

GatewayInit ==
    /\ req \in [method : {"connect", "get"}, https : BOOLEAN, host : Hosts, port : Ports]
    /\ early \in BOOLEAN
    /\ owed \in IF req.method = "connect" \/ early THEN {FALSE} ELSE BOOLEAN
    /\ cconn = "open" /\ cin = IF early THEN <<"early">> ELSE << >>
    /\ answered = FALSE /\ sent = 0
    /\ gw = "read"
    /\ lost = {}

\* The port of the URL, or that of its scheme.
AskedPort == IF req.port # 0 THEN req.port ELSE IF req.https THEN 443 ELSE 80

\* handleConn returns; Socks5Connect does not close its connection when it fails.
Gives == gw' = "closed" /\ cconn' = "closed"

\* http.ReadRequest reads the request and, into its bufio.Reader, what came with it.
ReadRequest ==
    /\ gw = "read"
    /\ \/ /\ cconn = "open"
          /\ gw' = "connect"
          /\ \/ cin' = << >> /\ lost' = lost \cup ToSet(cin)
             \/ UNCHANGED <<cin, lost>>
          /\ UNCHANGED cconn
       \/ Gives /\ UNCHANGED <<cin, lost>>
    /\ UNCHANGED <<wireVars, req, early, owed, answered, sent>>

-----------------------------------------------------------------------------
(* Socks5Connect *)

\* The address is split, the server dialled and the greeting written.
Connect ==
    /\ gw = "connect"
    /\ \/ /\ SplitHostPort(req.host)
          /\ s5' = "open" /\ g2s' = <<[kind |-> "hs"]>>
          /\ gw' = "hsAck"
          /\ UNCHANGED cconn
       \/ Gives /\ UNCHANGED <<s5, g2s>>
    /\ UNCHANGED <<s2g, req, early, owed, cin, answered, sent, lost>>

\* Its answer is read and the request written.
HsAck ==
    /\ gw = "hsAck"
    /\ \/ /\ s2g # << >> /\ s2g' = Tail(s2g)
          /\ g2s' = Append(g2s, [kind |-> "request", r |-> Request(req.host, AskedPort)])
          /\ gw' = "ack"
          /\ UNCHANGED cconn
       \/ s2g = << >> /\ s5 # "open" /\ Gives /\ UNCHANGED <<g2s, s2g>>
    /\ UNCHANGED <<s5, req, early, owed, cin, answered, sent, lost>>

\* Mutated form: a request other than CONNECT is sent on before the server answers.
AckPipelined ==
    /\ gw = "ack"
    /\ \/ req.method # "connect" /\ UNCHANGED s2g
       \/ s2g # << >> /\ Head(s2g).size = 10 /\ s2g' = Tail(s2g)
    /\ gw' = "answer"
    /\ UNCHANGED <<s5, g2s, clientVars, lost>>

\* Ten bytes of the answer are read, and of these the first and the fourth looked at,
\* not the second, which has the server's verdict.  A refusal has six bytes: io.ReadFull
\* waits for more until the server closes.
Ack ==
    /\ gw = "ack"
    /\ \/ /\ s2g # << >> /\ Head(s2g).size = 10
          /\ s2g' = Tail(s2g)
          /\ \/ /\ Head(s2g).ver = 5 /\ Head(s2g).addrTyp = 1
                /\ gw' = "answer" /\ UNCHANGED cconn
             \/ ~ (Head(s2g).ver = 5 /\ Head(s2g).addrTyp = 1) /\ Gives
       \/ /\ \A i \in 1..Len(s2g) : s2g[i].size < 10
          /\ s5 # "open"
          /\ Gives /\ UNCHANGED s2g
    /\ UNCHANGED <<s5, g2s, req, early, owed, cin, answered, sent, lost>>

-----------------------------------------------------------------------------
\* handleConn returns, and the deferred s5conn.Close.
Closes == Gives /\ s5' = IF s5 = "open" THEN "gwclosed" ELSE s5

\* The answer to CONNECT is written to the client.
AnswerConnect ==
    /\ gw = "answer" /\ req.method = "connect"
    /\ \/ cconn = "open" /\ answered' = TRUE /\ gw' = "proxy" /\ UNCHANGED <<s5, cconn>>
       \/ cconn = "closed" /\ Closes /\ UNCHANGED answered
    /\ UNCHANGED <<g2s, s2g, req, early, owed, cin, sent, lost>>

\* Any other request is written to the server, with its body, which req.Write reads from
\* the client: without a deadline, and without a look at the server's connection.
SendRequest ==
    /\ gw = "answer" /\ req.method # "connect"
    /\ \/ /\ ~ owed /\ s5 = "open"
          /\ g2s' = Append(g2s, [kind |-> "data", dat |-> "req"])
          /\ gw' = "proxy"
          /\ UNCHANGED <<s5, cconn>>
       \/ /\ IF owed THEN cconn = "closed" ELSE s5 # "open"
          /\ Closes /\ UNCHANGED g2s
    /\ UNCHANGED <<s2g, req, early, owed, cin, answered, sent, lost>>

\* Mutated form: what was written is written again with what comes next.
RelayAgain ==
    /\ gw = "proxy"
    /\ cin # << >> /\ s5 = "open"
    /\ g2s' = Append(g2s, [kind |-> "data", dat |-> Head(cin)])
    /\ UNCHANGED <<s5, s2g, req, early, owed, cconn, cin, answered, sent, gw, lost>>

\* utils.Proxy: data of the client's connection, to the server.
Relay ==
    /\ gw = "proxy"
    /\ cin # << >> /\ s5 = "open"
    /\ g2s' = Append(g2s, [kind |-> "data", dat |-> Head(cin)])
    /\ cin' = Tail(cin)
    /\ UNCHANGED <<s5, s2g, req, early, owed, cconn, answered, sent, gw, lost>>

ProxyEnds ==
    /\ gw = "proxy"
    /\ cconn = "closed" \/ s5 # "open"
    /\ Closes
    /\ UNCHANGED <<g2s, s2g, req, early, owed, cin, answered, sent, lost>>

\* The client: the body it owes, data after its answer; it may leave.
ClientBody ==
    /\ cconn = "open" /\ owed
    /\ owed' = FALSE
    /\ UNCHANGED <<wireVars, req, early, cconn, cin, answered, sent, gw, lost>>

ClientSends ==
    /\ cconn = "open" /\ answered /\ sent < MaxSends
    /\ cin' = Append(cin, "late") /\ sent' = sent + 1
    /\ UNCHANGED <<wireVars, req, early, owed, cconn, answered, gw, lost>>

ClientCloses ==
    /\ cconn = "open"
    /\ cconn' = "closed"
    /\ UNCHANGED <<wireVars, req, early, owed, cin, answered, sent, gw, lost>>

Connects == Connect \/ HsAck \/ Ack
GatewayStep == Connects \/ AnswerConnect \/ SendRequest \/ ProxyEnds
=============================================================================
