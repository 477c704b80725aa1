---------------------------- MODULE SessionDial ----------------------------
(***************************************************************************)
(* socks/tunnel/server_handler.go: what the session at the far end of the  *)
(* tunnel does with the address of a dial request, up to the connection to *)
(* the target: it resolves a name, through a cache of its own or anew,     *)
(* takes one of the addresses, judges it and dials.  Every look-up of a    *)
(* name may be answered differently.  The messages of the tunnel and what  *)
(* follows the dial are in Tunnel.                                         *)
(***************************************************************************)
EXTENDS HttpGateway

CONSTANTS
    Answers,    \* what net.LookupIP may return for a name: sequences of Addresses
    None        \* nothing in the cache

ASSUME SessionAssumption == Answers \subseteq Seq(Addresses) /\ None \notin Answers

VARIABLES
    sess,       \* handleDialConn: idle, asked, judged, open, ended
    ip,         \* the address it has judged
    dns,        \* what dnsCache holds for the name asked for
    dialled,    \* the connections made: host, port, backend, and the session's ip
    tconn       \* the target's connection: none, open, closed

sessionVars == <<sess, ip, dns, dialled, tconn>>

\* The cache may hold an answer that an earlier session was given.
SessionInit ==
    /\ sess = "idle" /\ ip = NilIP
    /\ dns \in IF req.host.kind = "name" THEN Answers \cup {None} ELSE {None}
    /\ dialled = {} /\ tconn = "none"

\* The first address of four bytes; nil when there is none.
FourBytes(ips) ==
    LET First(i) == ips[i].size = 4 /\ \A j \in 1..i - 1 : ips[j].size # 4
    IN  IF \E i \in 1..Len(ips) : First(i)
        THEN ips[CHOOSE i \in 1..Len(ips) : First(i)] ELSE NilIP

\* An address goes on to be dialled if it is a legitimate one.
Judge(a) ==
    \/ IsLegitProxiableIP(a) /\ sess' = "judged" /\ ip' = a
    \/ ~ IsLegitProxiableIP(a) /\ sess' = "ended" /\ UNCHANGED ip

\* The address of a host that is one; for a name, what lookupIP finds in the cache, or
\* is told now and puts there.  Without a host, or an answer, there is nothing to dial.
SessionResolves(h) ==
    /\ sess = "asked"
    /\ \/ h.kind # "name" /\ SplitHostPort(h) /\ Judge(ParseIP(h)) /\ UNCHANGED dns
       \/ h.kind = "name" /\ dns # None /\ Judge(FourBytes(dns)) /\ UNCHANGED dns
       \/ /\ h.kind = "name" /\ dns = None /\ h.size > 0
          /\ dns' \in Answers /\ Judge(FourBytes(dns'))
       \/ /\ ~ SplitHostPort(h) \/ (h.kind = "name" /\ dns = None)
          /\ sess' = "ended" /\ UNCHANGED <<ip, dns>>
    /\ UNCHANGED <<dialled, tconn>>

\* net.Dial has connected to a, for the target t of the request.
Connected(t, by, a) ==
    /\ dialled' = {[host |-> t.host, port |-> t.port, by |-> by, ip |-> a]}
    /\ tconn' = "open"

\* Mutated form: hostTarget stays m1.Address, and net.Dial resolves the name again.
SessionDialsName(t) ==
    /\ sess = "judged"
    /\ \/ /\ \E a \in IF t.host.kind = "name"
                      THEN UNION {ToSet(ips) : ips \in Answers} ELSE {ip} :
                Connected(t, "secure", a)
          /\ sess' = "open"
       \/ sess' = "ended" /\ UNCHANGED <<dialled, tconn>>
    /\ UNCHANGED <<ip, dns>>

\* net.Dial of the address judged, not of the name.
SessionDials(t) ==
    /\ sess = "judged"
    /\ \/ Connected(t, "secure", ip) /\ sess' = "open"
       \/ sess' = "ended" /\ UNCHANGED <<dialled, tconn>>
    /\ UNCHANGED <<ip, dns>>
=============================================================================
