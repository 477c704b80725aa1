----------------------------- MODULE MCGateway -----------------------------
(* Hosts of every kind, of the lengths around a byte, and ports around two; answers  *)
(* of a resolver that are good, local, mixed, or of no use.                          *)
EXTENDS Gateway

MCHosts ==
    [kind : {"ip4"}, size : {9}, class : Classes]
    \cup [kind : {"ip6"}, size : {9}, class : {"other"}]
    \cup [kind : {"name"}, size : {0, 255, 300}, class : {"nil"}]

Four(class) == [size |-> 4, class |-> class]
Sixteen(class) == [size |-> 16, class |-> class]

MCAnswers ==
    {<<Four(class)>> : class \in Classes}
    \cup {<< >>, <<Sixteen("other")>>,
          <<Sixteen("loopback"), Four("other"), Four("private")>>}
=============================================================================
