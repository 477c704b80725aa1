---------------------------- MODULE Socks5Server ----------------------------
(***************************************************************************)
(* socks/socks5/server.go and socks5.go: one connection of the SOCKS5      *)
(* server, with the choice of its backend, and the Dial of each backend    *)
(* (socks/backend/backend_direct.go and backend_secure.go).                *)
(***************************************************************************)
EXTENDS SessionDial

VARIABLES
    srv,        \* handleConn: greeting, request, dial, direct, asking, waiting, open,
                \* refused, proxy, closed
    want,       \* the host and port requested
    reached     \* data written to the target's connection

serverVars == <<srv, want, reached, sessionVars>>

ServerInit == srv = "greeting" /\ want = << >> /\ reached = << >> /\ SessionInit

\* handleConn returns, and the deferred conn.Close.
Leaves == srv' = "closed" /\ s5' = IF s5 = "open" THEN "srvclosed" ELSE s5

\* A write to the gateway, which is lost when that has gone.
Reply(m) == s2g' = IF s5 = "open" THEN Append(s2g, m) ELSE s2g

\* The other end has closed or the connection has failed, and all data is read.
AtEnd == g2s = << >> /\ s5 \notin {"none", "open"}

\* The greeting is read and answered.
Handshake ==
    /\ srv = "greeting"
    /\ \/ /\ g2s # << >> /\ g2s' = Tail(g2s)
          /\ Reply([kind |-> "hsAck"])
          /\ srv' = "request"
          /\ UNCHANGED s5
       \/ AtEnd /\ Leaves /\ UNCHANGED <<g2s, s2g>>
    /\ UNCHANGED <<gatewayVars, lost, want, reached, sessionVars>>

\* HandleRequest reads the request and, into its bufio.Reader, what came with it.
HandleRequest ==
    /\ srv = "request"
    /\ \/ /\ g2s # << >>
          /\ \E n \in 1..Len(g2s) :
                /\ lost' = lost \cup {g2s[i].dat : i \in 2..n}
                /\ g2s' = SubSeq(g2s, n + 1, Len(g2s))
          /\ want' \in Requested(Head(g2s).r)
          /\ srv' = "dial"
          /\ UNCHANGED s5
       \/ AtEnd /\ Leaves /\ UNCHANGED <<g2s, lost, want>>
    /\ UNCHANGED <<s2g, gatewayVars, reached, sessionVars>>

\* Options of the server: the backend of its BackendProvider, or nil, and the one
\* GetBackend makes for its ProtocolSuit.
Options == [provider : {"nil", "direct", "secure"}, suit : {"direct", "secure"}]

\* isHostLocal, of an address only, and the backend it leads to.
isHostLocal(h) == ParseIP(h) # NilIP /\ ~ IsLegitProxiableIP(ParseIP(h))
Backend(o, h) ==
    IF o.provider # "nil" THEN o.provider
    ELSE IF isHostLocal(h) THEN "direct" ELSE o.suit

GetBackend ==
    /\ srv = "dial"
    /\ \E o \in Options :
          srv' = IF Backend(o, want.host) = "direct" THEN "direct" ELSE "asking"
    /\ UNCHANGED <<wireVars, gatewayVars, lost, want, reached, sessionVars>>

\* uplinkDirect.Dial: net.Dial of whatever it is, from this machine; without a host it
\* is one to this machine.  The system gives up at some time.
DialDirect ==
    /\ srv = "direct"
    /\ \/ SplitHostPort(want.host) /\ Connected(want, "direct", NilIP) /\ srv' = "open"
       \/ srv' = "refused" /\ UNCHANGED <<dialled, tconn>>
    /\ UNCHANGED <<wireVars, gatewayVars, lost, want, reached, sess, ip, dns>>

\* uplinkSecure.Dial: the request is written to the tunnel.  The write comes before the
\* timer of the dial and may be refused, or wait for ever in h1.Client.Write.
DialAsks ==
    /\ srv = "asking"
    /\ \/ srv' = "waiting" /\ sess' = "asked"
       \/ srv' = "refused" /\ UNCHANGED sess
    /\ UNCHANGED <<wireVars, gatewayVars, lost, want, reached, ip, dns, dialled, tconn>>

\* The session's answer, or none within 30 s; the session may dial after that.
DialWaits ==
    /\ srv = "waiting"
    /\ \/ sess = "open" /\ srv' = "open"
       \/ srv' = "refused"
    /\ UNCHANGED <<wireVars, gatewayVars, lost, want, reached, sessionVars>>

SessionStep ==
    /\ SessionResolves(want.host) \/ SessionDials(want)
    /\ UNCHANGED <<wireVars, gatewayVars, lost, srv, want, reached>>

\* Mutated form: a refusal in the ten bytes RFC 1928 has for it.
RefuseInFull ==
    /\ srv = "refused"
    /\ Reply([kind |-> "ack", ver |-> 5, addrTyp |-> 1, size |-> 10])
    /\ Leaves
    /\ UNCHANGED <<g2s, gatewayVars, lost, want, reached, sessionVars>>

\* Mutated form: the connection stays open after a refusal.
RefuseOpen ==
    /\ srv = "refused"
    /\ Reply([kind |-> "ack", ver |-> 5, addrTyp |-> 0, size |-> 6])
    /\ srv' = "closed"
    /\ UNCHANGED <<s5, g2s, gatewayVars, lost, want, reached, sessionVars>>

\* The six bytes of a refusal.
Refuse ==
    /\ srv = "refused"
    /\ Reply([kind |-> "ack", ver |-> 5, addrTyp |-> 0, size |-> 6])
    /\ Leaves
    /\ UNCHANGED <<g2s, gatewayVars, lost, want, reached, sessionVars>>

\* The answer, and Proxy; the write may fail when the gateway has gone.
Establish ==
    /\ srv = "open"
    /\ \/ /\ Reply([kind |-> "ack", ver |-> 5, addrTyp |-> 1, size |-> 10])
          /\ srv' = "proxy" /\ UNCHANGED <<s5, tconn>>
       \/ s5 # "open" /\ Leaves /\ tconn' = "closed" /\ UNCHANGED s2g
    /\ UNCHANGED <<g2s, gatewayVars, lost, want, reached, sess, ip, dns, dialled>>

\* utils.Proxy: data of the gateway, to the target.
ServerRelay ==
    /\ srv = "proxy"
    /\ g2s # << >> /\ tconn = "open"
    /\ reached' = Append(reached, Head(g2s).dat)
    /\ g2s' = Tail(g2s)
    /\ UNCHANGED <<s5, s2g, gatewayVars, lost, srv, want, sessionVars>>

ServerProxyEnds ==
    /\ srv = "proxy"
    /\ AtEnd \/ tconn = "closed"
    /\ Leaves /\ tconn' = "closed"
    /\ UNCHANGED <<g2s, s2g, gatewayVars, lost, want, reached, sess, ip, dns, dialled>>

TargetCloses ==
    /\ tconn = "open"
    /\ tconn' = "closed"
    /\ UNCHANGED <<wireVars, gatewayVars, lost, srv, want, reached, sess, ip, dns, dialled>>

ServerStep ==
    \/ Handshake \/ HandleRequest \/ GetBackend \/ DialDirect \/ DialWaits \/ Refuse
    \/ Establish \/ ServerRelay \/ ServerProxyEnds
=============================================================================
