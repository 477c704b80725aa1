----------------------------- MODULE Socks5Wire -----------------------------
(***************************************************************************)
(* The connection between the HTTP gateway and the SOCKS5 server, and the  *)
(* forms an address takes on its way: of the URL, of the SOCKS5 request,   *)
(* of net.Dial.  Of a host is kept whether it is an address, and of which  *)
(* class, or a name, and its length; the bytes of a name stand for         *)
(* themselves.                                                             *)
(***************************************************************************)
EXTENDS Integers, Sequences, SequencesExt

\* The classes net.IP tells apart, those of a host's own surroundings and the rest.
LocalClasses ==
    {"linkLocalUnicast", "linkLocalMulticast", "loopback", "private", "multicast", "unspecified"}
Classes == LocalClasses \cup {"other"}

\* net.IP: four or sixteen bytes of some class, or nil.
Addresses == [size : {4, 16}, class : Classes]
NilIP == [size |-> 0, class |-> "nil"]

CONSTANTS
    Hosts,      \* an URL without a host has the name of size 0
    Ports       \* of URLs; 0 where there is none

ASSUME WireAssumption ==
    /\ Hosts \subseteq [kind : {"ip4", "ip6"}, size : Nat, class : Classes]
                   \cup [kind : {"name"}, size : Nat, class : {"nil"}]
    /\ Ports \subseteq Nat

VARIABLES
    s5,         \* the connection: none, open, gwclosed, srvclosed, broken
    g2s, s2g    \* what is on its way on it

wireVars == <<s5, g2s, s2g>>

WireInit == s5 = "none" /\ g2s = << >> /\ s2g = << >>

\* net.SplitHostPort of host:port; an IPv6 address has too many colons.
SplitHostPort(h) == h.kind # "ip6"

\* net.ParseIP: sixteen bytes for every address, nil for a name.
ParseIP(h) == IF h.kind = "name" THEN NilIP ELSE [size |-> 16, class |-> h.class]

\* utils.IsLegitProxiableIP; net.IP finds the class of four and of sixteen bytes alike.
IsLegitProxiableIP(a) == a # NilIP /\ a.class \notin LocalClasses

\* Mutated form: the length of a name is one short.
RequestShort(h, port) ==
    [addrTyp |-> IF ParseIP(h) = NilIP THEN 3 ELSE 4,
     host |-> h, size |-> (h.size - 1) % 256, port |-> port % 65536]

\* The SOCKS5 request for a host and a port: an address is sent in sixteen bytes; the
\* length of a name goes into a byte, the port into two.
Request(h, port) ==
    [addrTyp |-> IF ParseIP(h) = NilIP THEN 3 ELSE 4,
     host |-> h, size |-> h.size % 256, port |-> port % 65536]

\* What the server reads of it: sixteen bytes of an IPv4 address are printed as four
\* numbers; of a name as many bytes as its length byte says, and the next two are the
\* port, its last two or two of the name.
Requested(r) ==
    IF r.addrTyp = 3 /\ r.size # r.host.size
    THEN [host : [kind : {"name"}, size : {r.size}, class : {"nil"}], port : Ports \ {0}]
    ELSE [host : {r.host}, port : {r.port}]

\* The connection fails under both.
WireBreaks ==
    /\ s5 = "open"
    /\ s5' = "broken" /\ g2s' = << >> /\ s2g' = << >>
=============================================================================
