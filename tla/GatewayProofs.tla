--------------------------- MODULE GatewayProofs ---------------------------
(***************************************************************************)
(* Proofs about Gateway, for any hosts, ports and number of sends.         *)
(*                                                                         *)
(* What the SOCKS5 connection carries depends on how far the server and    *)
(* the gateway have come, and neither runs ahead of the other: this        *)
(* lockstep, with a count of the client's data and what the session knows  *)
(* of the address it will dial, is the inductive invariant.                *)
(***************************************************************************)
EXTENDS Gateway, SequenceTheorems, TLAPS

Greeting == [kind |-> "hs"]
GreetingAck == [kind |-> "hsAck"]
Asked == Request(req.host, AskedPort)
AskedMsg == [kind |-> "request", r |-> Asked]
Refusal == [kind |-> "ack", ver |-> 5, addrTyp |-> 0, size |-> 6]
Granted == [kind |-> "ack", ver |-> 5, addrTyp |-> 1, size |-> 10]
DataMsg == [kind : {"data"}, dat : Data]

Quiet == g2s = << >> /\ s2g = << >>

\* The greeting has not been read.
InGreeting ==
    \/ s5 = "none" /\ gw \in {"read", "connect", "closed"} /\ Quiet
    \/ s5 = "open" /\ gw = "hsAck" /\ g2s = <<Greeting>> /\ s2g = << >>
    \/ s5 = "broken" /\ gw \in {"hsAck", "closed"} /\ Quiet

\* Its answer, or the request, is on its way.
InRequest ==
    \/ s5 = "open" /\ gw = "hsAck" /\ g2s = << >> /\ s2g = <<GreetingAck>>
    \/ s5 = "open" /\ gw = "ack" /\ g2s = <<AskedMsg>> /\ s2g = << >>
    \/ s5 = "broken" /\ gw \in {"hsAck", "ack", "closed"} /\ Quiet

\* The gateway waits for the dial.
InDial ==
    /\ Quiet
    /\ \/ s5 = "open" /\ gw = "ack"
       \/ s5 = "broken" /\ gw \in {"ack", "closed"}

\* The answer is on its way, or data.
InProxy ==
    \/ s5 = "open" /\ gw = "ack" /\ g2s = << >> /\ s2g = <<Granted>>
    \/ s5 = "open" /\ gw \in {"answer", "proxy"} /\ s2g = << >>
    \/ s5 = "gwclosed" /\ gw = "closed" /\ s2g = << >>
    \/ s5 = "broken" /\ gw \in {"ack", "answer", "proxy", "closed"} /\ Quiet

\* The server has left.
InClosed ==
    \/ s5 = "broken" /\ gw \in {"hsAck", "ack", "answer", "proxy", "closed"} /\ Quiet
    \/ s5 = "gwclosed" /\ gw = "closed" /\ s2g = << >>
    \/ s5 = "srvclosed" /\ gw \in {"ack", "closed"} /\ g2s = << >> /\ s2g = <<Refusal>>
    \/ s5 = "srvclosed" /\ gw = "ack" /\ g2s = << >> /\ s2g = <<Granted>> /\ dialled # {}
    \/ s5 = "srvclosed" /\ gw \in {"answer", "proxy", "closed"} /\ s2g = << >>

\* The server is in linker.Dial, or about to be.
Dialling == {"dial", "direct", "asking", "waiting"}

Lockstep ==
    /\ srv = "greeting" => InGreeting
    /\ srv = "request" => InRequest
    /\ srv \in Dialling \cup {"open", "refused"} => InDial
    /\ srv = "proxy" => InProxy
    /\ srv = "closed" => InClosed
    /\ srv \in {"proxy", "closed"} => g2s \in Seq(DataMsg)
    /\ gw = "answer" => g2s = << >>

\* Who has come past the server's answer has a connection that was dialled.
Dialled ==
    /\ srv \in {"open", "proxy"} \/ gw \in {"answer", "proxy"} => dialled # {}
    /\ answered \/ reached # << >> \/ tconn # "none" \/ sess = "open" => dialled # {}

\* What is dialled is one of the readings of the request.
Wanted ==
    /\ srv \in {"greeting", "request", "dial", "direct", "asking"} => sess = "idle"
    /\ srv \in Dialling \/ sess # "idle" => want \in Requested(Asked)
    /\ \A d \in dialled : [host |-> d.host, port |-> d.port] \in Requested(Asked)

\* The address the session will dial, and any it has dialled, was judged.
Judged ==
    /\ sess = "judged" => ip.class = "other"
    /\ \A d \in dialled : d.by = "secure" => d.ip.class = "other"

\* The client's data: on its connection, between gateway and server, or left behind.
Counted ==
    /\ gw \in {"proxy", "closed"} => Len(g2s) + Len(cin) <= sent + 2
    /\ gw \notin {"proxy", "closed"} => Len(cin) <= sent + 1
    /\ gw = "read" /\ ~ early => cin = << >>
    /\ answered => gw \in {"proxy", "closed"}
    /\ lost # {} => early

Types ==
    /\ req \in [method : {"connect", "get"}, https : BOOLEAN, host : Hosts, port : Ports]
    /\ s5 \in {"none", "open", "gwclosed", "srvclosed", "broken"}
    /\ gw \in {"read", "connect", "hsAck", "ack", "answer", "proxy", "closed"}
    /\ srv \in Dialling \cup {"greeting", "request", "open", "refused", "proxy", "closed"}
    /\ sess \in {"idle", "asked", "judged", "open", "ended"}
    /\ ip \in Addresses \cup {NilIP} /\ dns \in Answers \cup {None}
    /\ cconn \in {"open", "closed"} /\ tconn \in {"none", "open", "closed"}
    /\ sent \in 0..MaxSends
    /\ cin \in Seq(Data) /\ reached \in Seq(Data) /\ lost \subseteq Data
    /\ answered \in BOOLEAN /\ early \in BOOLEAN /\ owed \in BOOLEAN

IInv == Types /\ Lockstep /\ Dialled /\ Wanted /\ Judged /\ Counted

-----------------------------------------------------------------------------
(* A sequence of one message. *)
LEMMA OneMessage ==
    ASSUME NEW m
    PROVE  /\ <<m>> # << >> /\ Len(<<m>>) = 1 /\ Head(<<m>>) = m
           /\ Tail(<<m>>) = << >> /\ Append(<< >>, m) = <<m>>
           /\ <<m>>[1] = m /\ SubSeq(<<m>>, 2, 1) = << >>
OBVIOUS

(* Of a sequence over S: what it holds, and its parts. *)
LEMMA OverSet ==
    ASSUME NEW S, NEW s \in Seq(S)
    PROVE  /\ ToSet(s) \subseteq S /\ Len(s) \in Nat
           /\ s # << >> => /\ Head(s) \in S /\ Tail(s) \in Seq(S)
                           /\ Len(Tail(s)) = Len(s) - 1
           /\ \A x \in S : Append(s, x) \in Seq(S) /\ Len(Append(s, x)) = Len(s) + 1
BY HeadTailProperties, AppendProperties, LenProperties DEF ToSet

(* The steps of the specification, one by one. *)
LEMMA NextCases ==
    ASSUME [Next]_vars
    PROVE  \/ (ReadRequest /\ UNCHANGED serverVars)
           \/ (Connect /\ UNCHANGED serverVars)
           \/ (HsAck /\ UNCHANGED serverVars)
           \/ (Ack /\ UNCHANGED serverVars)
           \/ (AnswerConnect /\ UNCHANGED serverVars)
           \/ (SendRequest /\ UNCHANGED serverVars)
           \/ (ProxyEnds /\ UNCHANGED serverVars)
           \/ (Relay /\ UNCHANGED serverVars)
           \/ (ClientBody /\ UNCHANGED serverVars)
           \/ (ClientSends /\ UNCHANGED serverVars)
           \/ (ClientCloses /\ UNCHANGED serverVars)
           \/ (WireBreaks /\ UNCHANGED <<gatewayVars, lost, serverVars>>)
           \/ Handshake
           \/ HandleRequest
           \/ GetBackend
           \/ DialDirect
           \/ DialAsks
           \/ DialWaits
           \/ SessionStep
           \/ Refuse
           \/ Establish
           \/ ServerRelay
           \/ ServerProxyEnds
           \/ TargetCloses
           \/ UNCHANGED vars
BY DEF Next, GatewayMoves, ClientMoves, ServerStep, ConnectionBreaks, GatewayStep, Connects

(* The request of the client, and so what it asks the server for, stays. *)
LEMMA AskedStays ==
    ASSUME [Next]_vars
    PROVE  req' = req /\ early' = early /\ Asked' = Asked /\ AskedMsg' = AskedMsg
<1>1. req' = req /\ early' = early
  <2>1. CASE ReadRequest /\ UNCHANGED serverVars
    BY <2>1 DEF ReadRequest, gatewayVars, clientVars
  <2>2. CASE Connect /\ UNCHANGED serverVars
    BY <2>2 DEF Connect, gatewayVars, clientVars
  <2>3. CASE HsAck /\ UNCHANGED serverVars
    BY <2>3 DEF HsAck, gatewayVars, clientVars
  <2>4. CASE Ack /\ UNCHANGED serverVars
    BY <2>4 DEF Ack, gatewayVars, clientVars
  <2>5. CASE AnswerConnect /\ UNCHANGED serverVars
    BY <2>5 DEF AnswerConnect, gatewayVars, clientVars
  <2>6. CASE SendRequest /\ UNCHANGED serverVars
    BY <2>6 DEF SendRequest, gatewayVars, clientVars
  <2>7. CASE ProxyEnds /\ UNCHANGED serverVars
    BY <2>7 DEF ProxyEnds, gatewayVars, clientVars
  <2>8. CASE Relay /\ UNCHANGED serverVars
    BY <2>8 DEF Relay, gatewayVars, clientVars
  <2>9. CASE ClientBody /\ UNCHANGED serverVars
    BY <2>9 DEF ClientBody, gatewayVars, clientVars
  <2>10. CASE ClientSends /\ UNCHANGED serverVars
    BY <2>10 DEF ClientSends, gatewayVars, clientVars
  <2>11. CASE ClientCloses /\ UNCHANGED serverVars
    BY <2>11 DEF ClientCloses, gatewayVars, clientVars
  <2>12. CASE WireBreaks /\ UNCHANGED <<gatewayVars, lost, serverVars>>
    BY <2>12 DEF WireBreaks, gatewayVars, clientVars
  <2>13. CASE Handshake
    BY <2>13 DEF Handshake, gatewayVars, clientVars
  <2>14. CASE HandleRequest
    BY <2>14 DEF HandleRequest, gatewayVars, clientVars
  <2>15. CASE GetBackend
    BY <2>15 DEF GetBackend, gatewayVars, clientVars
  <2>16. CASE DialDirect
    BY <2>16 DEF DialDirect, gatewayVars, clientVars
  <2>17. CASE DialAsks
    BY <2>17 DEF DialAsks, gatewayVars, clientVars
  <2>18. CASE DialWaits
    BY <2>18 DEF DialWaits, gatewayVars, clientVars
  <2>19. CASE SessionStep
    BY <2>19 DEF SessionStep, gatewayVars, clientVars
  <2>20. CASE Refuse
    BY <2>20 DEF Refuse, gatewayVars, clientVars
  <2>21. CASE Establish
    BY <2>21 DEF Establish, gatewayVars, clientVars
  <2>22. CASE ServerRelay
    BY <2>22 DEF ServerRelay, gatewayVars, clientVars
  <2>23. CASE ServerProxyEnds
    BY <2>23 DEF ServerProxyEnds, gatewayVars, clientVars
  <2>24. CASE TargetCloses
    BY <2>24 DEF TargetCloses, gatewayVars, clientVars
  <2>25. CASE UNCHANGED vars
    BY <2>25 DEF vars, gatewayVars, clientVars
  <2> QED
    BY <2>1, <2>2, <2>3, <2>4, <2>5, <2>6, <2>7, <2>8, <2>9, <2>10, <2>11, <2>12,
       <2>13, <2>14, <2>15, <2>16, <2>17, <2>18, <2>19, <2>20, <2>21, <2>22, <2>23,
       <2>24, <2>25, NextCases
<1> QED
  BY <1>1 DEF Asked, AskedMsg, AskedPort, Request

(* HandleRequest finds the request alone: nothing is read into its buffer with it. *)
LEMMA RequestAlone ==
    ASSUME IInv, HandleRequest
    PROVE  /\ lost' = lost /\ g2s' = << >>
           /\ s5' = s5
           /\ \/ srv' = "dial" /\ want' \in Requested(Asked) /\ g2s # << >>
              \/ srv' = "closed" /\ s5 # "open" /\ want' = want
<1> USE DEF IInv, Lockstep, InRequest, Quiet
<1>0. srv = "request" /\ InRequest
  BY DEF HandleRequest
<1>1. CASE AtEnd /\ Leaves /\ UNCHANGED <<g2s, lost, want>>
  BY <1>0, <1>1 DEF AtEnd, Leaves
<1>2. CASE /\ g2s # << >>
           /\ \E n \in 1..Len(g2s) :
                 /\ lost' = lost \cup {g2s[i].dat : i \in 2..n}
                 /\ g2s' = SubSeq(g2s, n + 1, Len(g2s))
           /\ want' \in Requested(Head(g2s).r)
           /\ srv' = "dial"
           /\ UNCHANGED s5
  <2>1. g2s = <<AskedMsg>>
    BY <1>0, <1>2
  <2>2. Head(g2s).r = Asked /\ Len(g2s) = 1 /\ SubSeq(g2s, 2, 1) = << >>
    BY <2>1 DEF AskedMsg
  <2>3. PICK n \in 1..1 : /\ lost' = lost \cup {g2s[i].dat : i \in 2..n}
                         /\ g2s' = SubSeq(g2s, n + 1, Len(g2s))
    BY <1>2, <2>2
  <2>4. {g2s[i].dat : i \in 2..n} = {}
    BY <2>3
  <2>5. lost' = lost /\ g2s' = << >>
    BY <2>2, <2>3, <2>4
  <2> QED
    BY <1>2, <2>2, <2>5
<1> QED
  BY <1>1, <1>2 DEF HandleRequest

(* Only the answer of an established connection takes the gateway further. *)
LEMMA AckGranted ==
    ASSUME IInv, Ack
    PROVE  \/ /\ s2g = <<Granted>> /\ s2g' = << >> /\ gw' = "answer" /\ cconn' = cconn
              /\ g2s = << >> /\ dialled # {} /\ srv \in {"proxy", "closed"}
           \/ s5 # "open" /\ Gives /\ s2g' = s2g
<1> USE DEF IInv, Types, Lockstep, Dialled, InGreeting, InRequest, InDial, InProxy, InClosed, Quiet,
        Dialling
<1>1. CASE s2g # << >> /\ Head(s2g).size = 10
  <2>1. gw = "ack"
    BY DEF Ack
  <2>2. Head(<<Refusal>>).size = 6
    BY OneMessage DEF Refusal
  <2>3. s2g = <<Granted>> /\ srv \in {"proxy", "closed"} /\ g2s = << >> /\ dialled # {}
    BY <1>1, <2>1, <2>2
  <2>4. Head(s2g) = Granted /\ Len(s2g) = 1 /\ s2g[1] = Granted /\ Tail(s2g) = << >>
    BY <2>3, OneMessage
  <2>5. Head(s2g).ver = 5 /\ Head(s2g).addrTyp = 1 /\ ~ (\A i \in 1..Len(s2g) : s2g[i].size < 10)
    BY <2>4 DEF Granted
  <2> QED
    BY <2>3, <2>4, <2>5 DEF Ack
<1>2. CASE ~ (s2g # << >> /\ Head(s2g).size = 10)
  BY <1>2 DEF Ack
<1> QED
  BY <1>1, <1>2

(* The gateway's own request is the first of its data. *)
LEMMA RequestSent ==
    ASSUME IInv, SendRequest
    PROVE  g2s = << >> /\ g2s' \in Seq(DataMsg) /\ Len(g2s') <= 1
<1>1. g2s = << >>
  BY DEF SendRequest, IInv, Lockstep
<1>2. \A x \in DataMsg : Append(g2s, x) \in Seq(DataMsg) /\ Len(Append(g2s, x)) = 1
  <2> TAKE x \in DataMsg
  <2>1. Append(g2s, x) = <<x>> /\ Len(<<x>>) = 1
    BY <1>1
  <2> QED
    BY <2>1
<1>3. [kind |-> "data", dat |-> "req"] \in DataMsg
  BY DEF DataMsg, Data
<1>4. g2s' = g2s \/ g2s' = Append(g2s, [kind |-> "data", dat |-> "req"])
  BY DEF SendRequest
<1>5. CASE g2s' = g2s
  BY <1>1, <1>5
<1>6. CASE g2s' = Append(g2s, [kind |-> "data", dat |-> "req"])
  BY <1>1, <1>2, <1>3, <1>6
<1> QED
  BY <1>1, <1>4, <1>5, <1>6

(* The session takes an address its cache or the resolver gave it, or the host itself; *)
(* past the check it is one of no local class.                                        *)
LEMMA Resolved ==
    ASSUME IInv, SessionResolves(want.host), want \in Requested(Asked)
    PROVE  /\ sess' \in {"judged", "ended"} /\ dns' \in Answers \cup {None}
           /\ ip' \in Addresses \cup {NilIP}
           /\ sess' = "judged" => ip'.class = "other"
<1>1. \A ips \in Answers : FourBytes(ips) \in Addresses \cup {NilIP}
  <2> SUFFICES ASSUME NEW ips \in Answers PROVE FourBytes(ips) \in Addresses \cup {NilIP}
    OBVIOUS
  <2>1. ips \in Seq(Addresses)
    BY SessionAssumption
  <2>2. \A i \in 1..Len(ips) : ips[i] \in Addresses
    BY <2>1
  <2> QED
    BY <2>2 DEF FourBytes
<1>2. want.host.kind # "name" => ParseIP(want.host) \in Addresses
  <2>1. want.host \in Hosts \/ want.host.kind = "name"
    BY DEF Requested, Asked, Request, IInv, Types
  <2>2. \A h \in Hosts : h.kind # "name" => h.class \in Classes
    BY WireAssumption
  <2> QED
    BY <2>1, <2>2 DEF ParseIP, Addresses
<1>3. ASSUME NEW a \in Addresses \cup {NilIP}, Judge(a)
      PROVE  /\ sess' \in {"judged", "ended"} /\ ip' \in Addresses \cup {NilIP}
             /\ sess' = "judged" => ip'.class = "other"
  <2>1. IsLegitProxiableIP(a) => a.class = "other"
    BY DEF IsLegitProxiableIP, Addresses, Classes
  <2> QED
    BY <1>3, <2>1 DEF Judge, IInv, Types
<1> QED
  BY <1>1, <1>2, <1>3 DEF SessionResolves, IInv, Types

(* A reading of the request, taken apart and put together. *)
LEMMA Readings ==
    ASSUME NEW w \in Requested(Asked)
    PROVE  [host |-> w.host, port |-> w.port] \in Requested(Asked)
BY DEF Requested

(* Every step keeps the shapes. *)
LEMMA TypesStep == IInv /\ [Next]_vars => Types'
<1> SUFFICES ASSUME IInv, [Next]_vars PROVE Types'
  OBVIOUS
<1> USE DEF IInv, Types, Dialling, wireVars, clientVars, gatewayVars, serverVars, sessionVars
<1>1. CASE ReadRequest /\ UNCHANGED serverVars
  <2>1. cin' \in Seq(Data) /\ lost' \subseteq Data
    <3>1. ToSet(cin) \subseteq Data /\ << >> \in Seq(Data)
      BY OverSet
    <3> QED
      BY <1>1, <3>1 DEF ReadRequest
  <2> QED
    BY <1>1, <2>1 DEF ReadRequest, Gives
<1>2. CASE Connect /\ UNCHANGED serverVars
  BY <1>2 DEF Connect, Gives
<1>3. CASE HsAck /\ UNCHANGED serverVars
  BY <1>3 DEF HsAck, Gives
<1>4. CASE Ack /\ UNCHANGED serverVars
  BY <1>4, AckGranted DEF Ack, Gives
<1>5. CASE AnswerConnect /\ UNCHANGED serverVars
  <2>1. answered' \in BOOLEAN /\ early' \in BOOLEAN /\ owed' \in BOOLEAN
    BY <1>5, Zenon DEF AnswerConnect
  <2> QED
    BY <1>5, <2>1 DEF AnswerConnect, Closes, Gives
<1>6. CASE SendRequest /\ UNCHANGED serverVars
  BY <1>6 DEF SendRequest, Closes, Gives
<1>7. CASE ProxyEnds /\ UNCHANGED serverVars
  BY <1>7 DEF ProxyEnds, Closes, Gives
<1>8. CASE Relay /\ UNCHANGED serverVars
  BY <1>8 DEF Relay
<1>9. CASE ClientBody /\ UNCHANGED serverVars
  <2>1. owed' \in BOOLEAN
    BY <1>9, Zenon DEF ClientBody
  <2> QED
    BY <1>9, <2>1 DEF ClientBody
<1>10. CASE ClientSends /\ UNCHANGED serverVars
  <2>1. cin' \in Seq(Data)
    BY <1>10, OverSet DEF ClientSends, Data
  <2>2. sent' \in 0..MaxSends
    BY <1>10, GatewayAssumption DEF ClientSends
  <2> QED
    BY <1>10, <2>1, <2>2 DEF ClientSends
<1>11. CASE ClientCloses /\ UNCHANGED serverVars
  BY <1>11 DEF ClientCloses
<1>12. CASE WireBreaks /\ UNCHANGED <<gatewayVars, lost, serverVars>>
  BY <1>12 DEF WireBreaks
<1>13. CASE Handshake
  BY <1>13 DEF Handshake, Leaves
<1>14. CASE HandleRequest
  <2>1. lost' = lost /\ srv' \in {"dial", "closed"} /\ s5' = s5
    BY <1>14, RequestAlone
  <2> QED
    BY <1>14, <2>1 DEF HandleRequest
<1>15. CASE GetBackend
  BY <1>15 DEF GetBackend, Dialling
<1>16. CASE DialDirect
  BY <1>16 DEF DialDirect, Connected, Dialling
<1>17. CASE DialAsks
  BY <1>17 DEF DialAsks, Dialling
<1>18. CASE DialWaits
  BY <1>18 DEF DialWaits, Dialling
<1>19. CASE SessionStep
  <2>1. CASE SessionResolves(want.host)
    <3>1. want \in Requested(Asked)
      BY <2>1 DEF SessionResolves, Wanted
    <3>2. /\ sess' \in {"judged", "ended"} /\ dns' \in Answers \cup {None}
          /\ ip' \in Addresses \cup {NilIP}
      BY <2>1, <3>1, Resolved
    <3> QED
      BY <1>19, <2>1, <3>2 DEF SessionStep, SessionResolves
  <2>2. CASE SessionDials(want)
    BY <1>19, <2>2 DEF SessionStep, SessionDials, Connected
  <2> QED
    BY <1>19, <2>1, <2>2 DEF SessionStep
<1>20. CASE Refuse
  BY <1>20 DEF Refuse, Leaves
<1>21. CASE Establish
  BY <1>21 DEF Establish, Leaves
<1>22. CASE ServerRelay
  <2>1. g2s \in Seq(DataMsg) /\ g2s # << >>
    BY <1>22 DEF ServerRelay, Lockstep
  <2>2. Head(g2s).dat \in Data
    <3>1. Head(g2s) \in DataMsg
      BY <2>1, OverSet
    <3> QED
      BY <3>1 DEF DataMsg
  <2>3. reached' \in Seq(Data)
    BY <1>22, <2>2, OverSet DEF ServerRelay
  <2> QED
    BY <1>22, <2>3 DEF ServerRelay
<1>23. CASE ServerProxyEnds
  BY <1>23 DEF ServerProxyEnds, Leaves
<1>24. CASE TargetCloses
  BY <1>24 DEF TargetCloses
<1>25. CASE UNCHANGED vars
  BY <1>25 DEF vars
<1> QED
  BY <1>1, <1>2, <1>3, <1>4, <1>5, <1>6, <1>7, <1>8, <1>9, <1>10, <1>11, <1>12, <1>13,
     <1>14, <1>15, <1>16, <1>17, <1>18, <1>19, <1>20, <1>21, <1>22, <1>23, <1>24,
     <1>25, NextCases

(* Every step keeps gateway and server in step. *)
LEMMA LockstepStep == IInv /\ [Next]_vars => Lockstep'
<1> SUFFICES ASSUME IInv, [Next]_vars PROVE Lockstep'
  OBVIOUS
<1> USE DEF IInv, Types, Lockstep, Dialled, InGreeting, InRequest, InDial, InProxy, InClosed,
   Quiet, Dialling, wireVars, clientVars, gatewayVars, serverVars, sessionVars
<1>1. CASE ReadRequest /\ UNCHANGED serverVars
  BY <1>1 DEF ReadRequest, Gives
<1>2. CASE Connect /\ UNCHANGED serverVars
  BY <1>2 DEF Connect, Gives, Greeting
<1>3. CASE HsAck /\ UNCHANGED serverVars
  <2>0. gw = "hsAck"
    BY <1>3 DEF HsAck
  <2>1. CASE s2g = << >>
    BY <1>3, <2>0, <2>1 DEF HsAck, Gives
  <2>2. CASE s2g # << >>
    <3>1. srv = "request" /\ s5 = "open" /\ g2s = << >> /\ s2g = <<GreetingAck>>
      BY <2>0, <2>2
    <3>2. g2s' = <<AskedMsg>> /\ s2g' = << >> /\ gw' = "ack" /\ s5' = s5 /\ srv' = srv
      BY <1>3, <2>2, <3>1 DEF HsAck, AskedMsg, Asked
    <3> QED
      BY <3>1, <3>2, AskedStays
  <2> QED
    BY <2>1, <2>2
<1>4. CASE Ack /\ UNCHANGED serverVars
  <2>0. gw = "ack" /\ s5' = s5 /\ g2s' = g2s /\ srv' = srv /\ dialled' = dialled
    BY <1>4 DEF Ack
  <2>1. CASE /\ s2g = <<Granted>> /\ s2g' = << >> /\ gw' = "answer"
             /\ g2s = << >> /\ srv \in {"proxy", "closed"}
    <3>1. s5 \in {"open", "srvclosed"}
      BY <2>0, <2>1
    <3> QED
      BY <2>0, <2>1, <3>1
  <2>2. CASE s5 # "open" /\ gw' = "closed" /\ s2g' = s2g
    <3>1. s2g # <<Granted>>
      <4> SUFFICES ASSUME s2g = <<Granted>> PROVE FALSE
        OBVIOUS
      <4>1. Len(s2g) = 1 /\ s2g[1].size = 10 /\ s2g # << >>
        BY OneMessage DEF Granted
      <4>2. \A i \in 1..Len(s2g) : s2g[i].size < 10
        BY <1>4, <2>2 DEF Ack
      <4> QED
        BY <4>1, <4>2
    <3> QED
      BY <2>0, <2>2, <3>1
  <2> QED
    BY <1>4, <2>1, <2>2, AckGranted DEF Gives
<1>5. CASE AnswerConnect /\ UNCHANGED serverVars
  BY <1>5 DEF AnswerConnect, Closes, Gives
<1>6. CASE SendRequest /\ UNCHANGED serverVars
  <2>0. /\ gw = "answer" /\ g2s = << >> /\ srv \in {"proxy", "closed"}
        /\ s2g' = s2g /\ UNCHANGED serverVars
    BY <1>6 DEF SendRequest, Dialling
  <2>1. g2s' \in Seq(DataMsg)
    BY <1>6, RequestSent
  <2> QED
    BY <1>6, <2>0, <2>1 DEF SendRequest, Closes, Gives, Dialling
<1>7. CASE ProxyEnds /\ UNCHANGED serverVars
  BY <1>7 DEF ProxyEnds, Closes, Gives
<1>8. CASE Relay /\ UNCHANGED serverVars
  <2>0. /\ gw = "proxy" /\ s5 = "open" /\ srv = "proxy" /\ cin # << >>
        /\ UNCHANGED <<gw, s5, s2g>> /\ UNCHANGED serverVars
    BY <1>8 DEF Relay
  <2>1. [kind |-> "data", dat |-> Head(cin)] \in DataMsg
    BY <2>0, OverSet DEF DataMsg
  <2>2. g2s' \in Seq(DataMsg)
    BY <1>8, <2>0, <2>1, OverSet DEF Relay
  <2> QED
    BY <2>0, <2>2
<1>9. CASE ClientBody /\ UNCHANGED serverVars
  BY <1>9, AskedStays DEF ClientBody
<1>10. CASE ClientSends /\ UNCHANGED serverVars
  BY <1>10, AskedStays DEF ClientSends
<1>11. CASE ClientCloses /\ UNCHANGED serverVars
  BY <1>11, AskedStays DEF ClientCloses
<1>12. CASE WireBreaks /\ UNCHANGED <<gatewayVars, lost, serverVars>>
  BY <1>12 DEF WireBreaks
<1>13. CASE Handshake
  <2>0. srv = "greeting" /\ UNCHANGED <<gw, dialled>>
    BY <1>13 DEF Handshake
  <2>1. CASE AtEnd /\ Leaves /\ UNCHANGED <<g2s, s2g>>
    BY <2>0, <2>1 DEF AtEnd, Leaves
  <2>2. CASE /\ g2s # << >> /\ g2s' = Tail(g2s) /\ srv' = "request" /\ s5' = s5
             /\ Reply(GreetingAck)
    <3>1. s5 = "open" /\ gw = "hsAck" /\ g2s = <<Greeting>> /\ s2g = << >>
      BY <2>0, <2>2
    <3>2. g2s' = << >> /\ s2g' = <<GreetingAck>>
      BY <2>2, <3>1 DEF Reply
    <3> QED
      BY <2>0, <2>2, <3>1, <3>2
  <2> QED
    BY <1>13, <2>1, <2>2 DEF Handshake, GreetingAck
<1>14. CASE HandleRequest
  <2>1. /\ srv = "request" /\ g2s' = << >> /\ s5' = s5 /\ UNCHANGED <<s2g, gw, dialled>>
        /\ (srv' = "dial" /\ g2s # << >>) \/ (srv' = "closed" /\ s5 # "open")
    BY <1>14, RequestAlone DEF HandleRequest
  <2> QED
    BY <2>1
<1>15. CASE GetBackend
  BY <1>15 DEF GetBackend, Dialling
<1>16. CASE DialDirect
  BY <1>16 DEF DialDirect, Connected, Dialling
<1>17. CASE DialAsks
  BY <1>17 DEF DialAsks, Dialling
<1>18. CASE DialWaits
  BY <1>18 DEF DialWaits, Dialling
<1>19. CASE SessionStep
  <2>1. dialled # {} => dialled' # {}
    BY <1>19 DEF SessionStep, SessionResolves, SessionDials, Connected
  <2> QED
    BY <1>19, <2>1, AskedStays DEF SessionStep
<1>20. CASE Refuse
  BY <1>20 DEF Refuse, Reply, Leaves, Refusal
<1>21. CASE Establish
  BY <1>21 DEF Establish, Reply, Leaves, Granted
<1>22. CASE ServerRelay
  BY <1>22 DEF ServerRelay
<1>23. CASE ServerProxyEnds
  BY <1>23 DEF ServerProxyEnds, Leaves
<1>24. CASE TargetCloses
  BY <1>24, AskedStays DEF TargetCloses
<1>25. CASE UNCHANGED vars
  BY <1>25, AskedStays DEF vars
<1> QED
  BY <1>1, <1>2, <1>3, <1>4, <1>5, <1>6, <1>7, <1>8, <1>9, <1>10, <1>11, <1>12, <1>13,
     <1>14, <1>15, <1>16, <1>17, <1>18, <1>19, <1>20, <1>21, <1>22, <1>23, <1>24,
     <1>25, NextCases

(* No step comes past the server's answer without a dialled connection. *)
LEMMA DialledStep == IInv /\ [Next]_vars => Dialled'
<1> SUFFICES ASSUME IInv, [Next]_vars PROVE Dialled'
  OBVIOUS
<1> USE DEF IInv, Types, Lockstep, Dialled, wireVars, clientVars, gatewayVars, serverVars, sessionVars
<1>1. CASE ReadRequest /\ UNCHANGED serverVars
  BY <1>1 DEF ReadRequest, Gives
<1>2. CASE Connect /\ UNCHANGED serverVars
  BY <1>2 DEF Connect, Gives
<1>3. CASE HsAck /\ UNCHANGED serverVars
  BY <1>3 DEF HsAck, Gives
<1>4. CASE Ack /\ UNCHANGED serverVars
  BY <1>4, AckGranted DEF Ack, Gives
<1>5. CASE AnswerConnect /\ UNCHANGED serverVars
  BY <1>5 DEF AnswerConnect, Closes, Gives
<1>6. CASE SendRequest /\ UNCHANGED serverVars
  BY <1>6 DEF SendRequest, Closes, Gives
<1>7. CASE ProxyEnds /\ UNCHANGED serverVars
  BY <1>7 DEF ProxyEnds
<1>8. CASE Relay /\ UNCHANGED serverVars
  BY <1>8 DEF Relay
<1>9. CASE ClientBody /\ UNCHANGED serverVars
  BY <1>9 DEF ClientBody
<1>10. CASE ClientSends /\ UNCHANGED serverVars
  BY <1>10 DEF ClientSends
<1>11. CASE ClientCloses /\ UNCHANGED serverVars
  BY <1>11 DEF ClientCloses
<1>12. CASE WireBreaks /\ UNCHANGED <<gatewayVars, lost, serverVars>>
  BY <1>12 DEF WireBreaks
<1>13. CASE Handshake
  BY <1>13 DEF Handshake, Leaves
<1>14. CASE HandleRequest
  BY <1>14, RequestAlone DEF HandleRequest
<1>15. CASE GetBackend
  BY <1>15 DEF GetBackend
<1>16. CASE DialDirect
  BY <1>16 DEF DialDirect, Connected
<1>17. CASE DialAsks
  BY <1>17 DEF DialAsks
<1>18. CASE DialWaits
  BY <1>18 DEF DialWaits
<1>19. CASE SessionStep
  <2>1. CASE SessionResolves(want.host)
    BY <1>19, <2>1 DEF SessionStep, SessionResolves, Judge
  <2>2. CASE SessionDials(want)
    BY <1>19, <2>2 DEF SessionStep, SessionDials, Connected
  <2> QED
    BY <1>19, <2>1, <2>2 DEF SessionStep
<1>20. CASE Refuse
  BY <1>20 DEF Refuse, Leaves
<1>21. CASE Establish
  BY <1>21 DEF Establish
<1>22. CASE ServerRelay
  BY <1>22 DEF ServerRelay
<1>23. CASE ServerProxyEnds
  BY <1>23 DEF ServerProxyEnds
<1>24. CASE TargetCloses
  BY <1>24 DEF TargetCloses
<1>25. CASE UNCHANGED vars
  BY <1>25 DEF vars
<1> QED
  BY <1>1, <1>2, <1>3, <1>4, <1>5, <1>6, <1>7, <1>8, <1>9, <1>10, <1>11, <1>12, <1>13,
     <1>14, <1>15, <1>16, <1>17, <1>18, <1>19, <1>20, <1>21, <1>22, <1>23, <1>24,
     <1>25, NextCases

(* Every step keeps what is dialled to the readings of the request; Dial adds to it. *)
LEMMA WantedStep == IInv /\ [Next]_vars => Wanted'
<1> SUFFICES ASSUME IInv, [Next]_vars PROVE Wanted'
  OBVIOUS
<1> USE DEF IInv, Wanted, Dialling, wireVars, clientVars, gatewayVars, serverVars, sessionVars
<1>1. CASE ReadRequest /\ UNCHANGED serverVars
  BY <1>1, AskedStays DEF ReadRequest
<1>2. CASE Connect /\ UNCHANGED serverVars
  BY <1>2, AskedStays DEF Connect
<1>3. CASE HsAck /\ UNCHANGED serverVars
  BY <1>3, AskedStays DEF HsAck
<1>4. CASE Ack /\ UNCHANGED serverVars
  BY <1>4, AskedStays, AckGranted DEF Ack
<1>5. CASE AnswerConnect /\ UNCHANGED serverVars
  BY <1>5, AskedStays DEF AnswerConnect
<1>6. CASE SendRequest /\ UNCHANGED serverVars
  BY <1>6, AskedStays DEF SendRequest
<1>7. CASE ProxyEnds /\ UNCHANGED serverVars
  BY <1>7, AskedStays DEF ProxyEnds
<1>8. CASE Relay /\ UNCHANGED serverVars
  BY <1>8, AskedStays DEF Relay
<1>9. CASE ClientBody /\ UNCHANGED serverVars
  BY <1>9, AskedStays DEF ClientBody
<1>10. CASE ClientSends /\ UNCHANGED serverVars
  BY <1>10, AskedStays DEF ClientSends
<1>11. CASE ClientCloses /\ UNCHANGED serverVars
  BY <1>11, AskedStays DEF ClientCloses
<1>12. CASE WireBreaks /\ UNCHANGED <<gatewayVars, lost, serverVars>>
  BY <1>12, AskedStays DEF WireBreaks
<1>13. CASE Handshake
  BY <1>13, AskedStays DEF Handshake, Leaves
<1>14. CASE HandleRequest
  BY <1>14, AskedStays, RequestAlone DEF HandleRequest
<1>15. CASE GetBackend
  BY <1>15, AskedStays DEF GetBackend, Dialling
<1>16. CASE DialDirect
  <2>1. srv = "direct" /\ want' = want /\ sess' = sess /\ want \in Requested(Asked)
    BY <1>16 DEF DialDirect, Dialling
  <2>2. \/ dialled' = dialled
        \/ dialled' = {[host |-> want.host, port |-> want.port, by |-> "direct", ip |-> NilIP]}
    BY <1>16 DEF DialDirect, Connected
  <2> QED
    BY <2>1, <2>2, AskedStays, Readings
<1>17. CASE DialAsks
  BY <1>17, AskedStays DEF DialAsks, Dialling
<1>18. CASE DialWaits
  BY <1>18, AskedStays DEF DialWaits, Dialling
<1>19. CASE SessionStep
  <2>1. sess # "idle" /\ UNCHANGED <<srv, want>> /\ want \in Requested(Asked)
    BY <1>19 DEF SessionStep, SessionResolves, SessionDials
  <2>2. \/ dialled' = dialled
        \/ dialled' = {[host |-> want.host, port |-> want.port, by |-> "secure", ip |-> ip]}
    BY <1>19 DEF SessionStep, SessionResolves, SessionDials, Connected
  <2> QED
    BY <2>1, <2>2, AskedStays, Readings
<1>20. CASE Refuse
  BY <1>20, AskedStays DEF Refuse, Leaves
<1>21. CASE Establish
  BY <1>21, AskedStays DEF Establish, Leaves
<1>22. CASE ServerRelay
  BY <1>22, AskedStays DEF ServerRelay
<1>23. CASE ServerProxyEnds
  BY <1>23, AskedStays DEF ServerProxyEnds, Leaves
<1>24. CASE TargetCloses
  BY <1>24, AskedStays DEF TargetCloses
<1>25. CASE UNCHANGED vars
  BY <1>25, AskedStays DEF vars
<1> QED
  BY <1>1, <1>2, <1>3, <1>4, <1>5, <1>6, <1>7, <1>8, <1>9, <1>10, <1>11, <1>12, <1>13,
     <1>14, <1>15, <1>16, <1>17, <1>18, <1>19, <1>20, <1>21, <1>22, <1>23, <1>24,
     <1>25, NextCases

(* No step but the session's own makes or judges an address of its; Judge and the dial of *)
(* the address judged keep local ones out.                                               *)
LEMMA JudgedStep == IInv /\ [Next]_vars => Judged'
<1> SUFFICES ASSUME IInv, [Next]_vars PROVE Judged'
  OBVIOUS
<1> USE DEF IInv, Judged, wireVars, clientVars, gatewayVars, serverVars, sessionVars
<1>1. CASE UNCHANGED <<sess, ip, dialled>>
  BY <1>1
<1>2. CASE SessionStep
  <2>1. CASE SessionResolves(want.host)
    <3>1. want \in Requested(Asked) /\ dialled' = dialled
      BY <2>1 DEF SessionResolves, Wanted
    <3> QED
      BY <2>1, <3>1, Resolved
  <2>2. CASE SessionDials(want)
    <3>1. sess = "judged" /\ sess' # "judged" /\ ip.class = "other"
      BY <2>2 DEF SessionDials
    <3>2. \/ dialled' = dialled
          \/ dialled' = {[host |-> want.host, port |-> want.port, by |-> "secure", ip |-> ip]}
      BY <2>2 DEF SessionDials, Connected
    <3> QED
      BY <3>1, <3>2
  <2> QED
    BY <1>2, <2>1, <2>2 DEF SessionStep
<1>3. CASE DialDirect
  <2>1. /\ UNCHANGED <<sess, ip>>
        /\ \/ dialled' = dialled
           \/ dialled' = {[host |-> want.host, port |-> want.port, by |-> "direct", ip |-> NilIP]}
    BY <1>3 DEF DialDirect, Connected
  <2> QED
    BY <2>1
<1>4. CASE DialAsks
  BY <1>4 DEF DialAsks
<1> QED
  <2>1. SessionStep \/ DialDirect \/ DialAsks \/ UNCHANGED <<sess, ip, dialled>>
    BY NextCases DEF vars, AnswerConnect, SendRequest, Handshake, HandleRequest, GetBackend,
       DialWaits, Refuse, Establish, ServerRelay, ServerProxyEnds, TargetCloses
  <2> QED
    BY <1>1, <1>2, <1>3, <1>4, <2>1

(* Every step accounts for the client's data. *)
LEMMA CountedStep == IInv /\ [Next]_vars => Counted'
<1> SUFFICES ASSUME IInv, [Next]_vars PROVE Counted'
  OBVIOUS
<1> USE DEF IInv, Types, Lockstep, Counted, wireVars, clientVars, gatewayVars, serverVars, sessionVars
<1>1. CASE ReadRequest /\ UNCHANGED serverVars
  <2>0. gw = "read" /\ g2s = << >> /\ UNCHANGED <<g2s, early, sent, answered>>
    BY <1>1 DEF ReadRequest, InGreeting, Quiet, InRequest, InDial, InProxy, InClosed
  <2>1. \/ gw' = "connect" /\ cin' = << >> /\ lost' = lost \cup ToSet(cin)
        \/ gw' \in {"connect", "closed"} /\ UNCHANGED <<cin, lost>>
    BY <1>1 DEF ReadRequest, Gives
  <2>2. ~ early => ToSet(cin) = {}
    BY <2>0 DEF ToSet
  <2> QED
    BY <2>0, <2>1, <2>2
<1>2. CASE Connect /\ UNCHANGED serverVars
  <2>1. /\ gw' # "read" /\ gw \notin {"proxy", "closed"}
        /\ UNCHANGED <<cin, sent, lost, early, answered>>
    BY <1>2 DEF Connect, Gives
  <2>2. gw' = "closed" => g2s' = << >>
    BY <1>2 DEF Connect, InGreeting, InRequest, InDial, InProxy, InClosed, Quiet
  <2>3. gw' # "proxy"
    BY <1>2 DEF Connect, Gives
  <2> QED
    BY <2>1, <2>2, <2>3, LenProperties
<1>3. CASE HsAck /\ UNCHANGED serverVars
  <2>1. /\ gw' # "read" /\ gw \notin {"proxy", "closed"}
        /\ UNCHANGED <<cin, sent, lost, early, answered>>
    BY <1>3 DEF HsAck, Gives
  <2>2. gw' = "closed" => g2s' = << >>
    BY <1>3 DEF HsAck, InGreeting, InRequest, InDial, InProxy, InClosed, Quiet
  <2>3. gw' # "proxy"
    BY <1>3 DEF HsAck, Gives
  <2> QED
    BY <2>1, <2>2, <2>3, LenProperties
<1>4. CASE Ack /\ UNCHANGED serverVars
  <2>1. gw' \in {"answer", "closed"} /\ UNCHANGED <<cin, sent, lost, early, answered>> /\ gw = "ack"
    BY <1>4 DEF Ack, Gives
  <2>2. gw' = "closed" => g2s' = << >>
    BY <1>4 DEF Ack, InGreeting, InRequest, InDial, InProxy, InClosed, Quiet
  <2> QED
    BY <2>1, <2>2, LenProperties
<1>5. CASE AnswerConnect /\ UNCHANGED serverVars
  BY <1>5, LenProperties DEF AnswerConnect, Closes, Gives
<1>6. CASE SendRequest /\ UNCHANGED serverVars
  <2>1. /\ gw = "answer" /\ gw' \in {"proxy", "closed"} /\ g2s = << >>
        /\ UNCHANGED <<cin, sent, lost, early, answered>>
    BY <1>6 DEF SendRequest, Closes, Gives
  <2>2. Len(g2s') <= 1 /\ Len(g2s') \in Nat
    BY <1>6, RequestSent, LenProperties
  <2> QED
    BY <2>1, <2>2, LenProperties
<1>7. CASE ProxyEnds /\ UNCHANGED serverVars
  BY <1>7 DEF ProxyEnds, Closes, Gives
<1>8. CASE Relay /\ UNCHANGED serverVars
  BY <1>8 DEF Relay
<1>9. CASE ClientBody /\ UNCHANGED serverVars
  BY <1>9 DEF ClientBody
<1>10. CASE ClientSends /\ UNCHANGED serverVars
  <2>1. "late" \in Data /\ gw # "read"
    BY <1>10 DEF ClientSends, Data
  <2>2. Len(cin') = Len(cin) + 1
    BY <1>10, <2>1, OverSet DEF ClientSends
  <2> QED
    BY <1>10, <2>1, <2>2, LenProperties DEF ClientSends
<1>11. CASE ClientCloses /\ UNCHANGED serverVars
  BY <1>11 DEF ClientCloses
<1>12. CASE WireBreaks /\ UNCHANGED <<gatewayVars, lost, serverVars>>
  BY <1>12 DEF WireBreaks
<1>13. CASE Handshake
  BY <1>13 DEF Handshake
<1>14. CASE HandleRequest
  <2>1. lost' = lost /\ g2s' = << >> /\ UNCHANGED <<gw, cin, sent, early, answered>>
    BY <1>14, RequestAlone DEF HandleRequest
  <2> QED
    BY <2>1, LenProperties
<1>15. CASE GetBackend
  BY <1>15 DEF GetBackend
<1>16. CASE DialDirect
  BY <1>16 DEF DialDirect
<1>17. CASE DialAsks
  BY <1>17 DEF DialAsks
<1>18. CASE DialWaits
  BY <1>18 DEF DialWaits
<1>19. CASE SessionStep
  BY <1>19 DEF SessionStep
<1>20. CASE Refuse
  BY <1>20 DEF Refuse
<1>21. CASE Establish
  BY <1>21 DEF Establish
<1>22. CASE ServerRelay
  BY <1>22 DEF ServerRelay
<1>23. CASE ServerProxyEnds
  BY <1>23 DEF ServerProxyEnds
<1>24. CASE TargetCloses
  BY <1>24 DEF TargetCloses
<1>25. CASE UNCHANGED vars
  BY <1>25 DEF vars
<1> QED
  BY <1>1, <1>2, <1>3, <1>4, <1>5, <1>6, <1>7, <1>8, <1>9, <1>10, <1>11, <1>12, <1>13,
     <1>14, <1>15, <1>16, <1>17, <1>18, <1>19, <1>20, <1>21, <1>22, <1>23, <1>24,
     <1>25, NextCases

-----------------------------------------------------------------------------
(* IInv holds of every reachable state. *)
THEOREM Inductive == Spec => []IInv
<1>1. Init => IInv
  <2> SUFFICES ASSUME Init PROVE IInv
    OBVIOUS
  <2> USE DEF Init, WireInit, GatewayInit, ServerInit, SessionInit
  <2>1. Types
    <3>1. cin \in Seq(Data) /\ reached \in Seq(Data)
      <4>1. << >> \in Seq(Data) /\ <<"early">> \in Seq(Data)
        BY DEF Data
      <4>2. cin = << >> \/ cin = <<"early">>
        BY Zenon
      <4> QED
        BY <4>1, <4>2
    <3>2. sent \in 0..MaxSends
      BY GatewayAssumption
    <3>3. answered \in BOOLEAN /\ early \in BOOLEAN /\ owed \in BOOLEAN
      BY Zenon
    <3>4. dns \in Answers \cup {None}
      OBVIOUS
    <3> QED
      BY <3>1, <3>2, <3>3, <3>4 DEF Types
  <2>2. Lockstep
    BY DEF Lockstep, InGreeting, Quiet, Dialling
  <2>3. Dialled /\ Wanted /\ Judged
    BY DEF Dialled, Wanted, Judged, Dialling
  <2>4. Counted
    <3>1. Len(cin) <= 1
      BY OneMessage
    <3> QED
      BY <3>1 DEF Counted
  <2> QED
    BY <2>1, <2>2, <2>3, <2>4 DEF IInv
<1>2. IInv /\ [Next]_vars => IInv'
  BY TypesStep, LockstepStep, DialledStep, WantedStep, JudgedStep, CountedStep DEF IInv
<1> QED
  BY <1>1, <1>2, PTL DEF Spec

(* TypeOK: what is on its way stays within what the client sent. *)
THEOREM TypeCorrect == Spec => []TypeOK
<1>1. IInv => TypeOK
  <2> SUFFICES ASSUME IInv PROVE TypeOK
    OBVIOUS
  <2> USE DEF IInv, Types, Lockstep, InGreeting, InRequest, InDial, InProxy, InClosed, Quiet,
         Dialling
  <2>1. Len(s2g) <= 1
    <3>1. Len(<< >>) = 0 /\ Len(<<GreetingAck>>) = 1 /\ Len(<<Granted>>) = 1 /\ Len(<<Refusal>>) = 1
      BY EmptySeq
    <3>2. \/ s2g = << >> \/ s2g = <<GreetingAck>> \/ s2g = <<Granted>> \/ s2g = <<Refusal>>
      OBVIOUS
    <3>3. Len(s2g) = 0 \/ Len(s2g) = 1
      BY ONLY <3>1, <3>2, Zenon
    <3> QED
      BY ONLY <3>3
  <2>2. Len(g2s) <= MaxSends + 2
    <3>1. CASE srv \notin {"proxy", "closed"}
      <4>1. Len(<< >>) = 0 /\ Len(<<Greeting>>) = 1 /\ Len(<<AskedMsg>>) = 1
        BY EmptySeq
      <4>2. g2s = << >> \/ g2s = <<Greeting>> \/ g2s = <<AskedMsg>>
        BY <3>1
      <4>3. Len(g2s) = 0 \/ Len(g2s) = 1
        BY ONLY <4>1, <4>2, Zenon
      <4> QED
        <5>1. \A n : n = 0 \/ n = 1 => n <= MaxSends + 2
          BY GatewayAssumption
        <5> QED
          BY ONLY <4>3, <5>1, Zenon
    <3>2. CASE srv \in {"proxy", "closed"} /\ gw \in {"proxy", "closed"}
      <4>1. Len(g2s) \in Nat /\ Len(cin) \in Nat
        BY <3>2, OverSet
      <4>2. Len(g2s) + Len(cin) <= sent + 2 /\ sent \in 0..MaxSends
        BY <3>2 DEF Counted
      <4> QED
        BY <4>1, <4>2, GatewayAssumption
    <3>3. CASE srv \in {"proxy", "closed"} /\ gw \notin {"proxy", "closed"}
      BY <3>3, GatewayAssumption
    <3> QED
      BY <3>1, <3>2, <3>3
  <2>3. ToSet(cin) \cup ToSet(reached) \cup lost \subseteq Data
    BY OverSet
  <2> QED
    BY <2>1, <2>2, <2>3 DEF TypeOK
<1> QED
  BY <1>1, Inductive, PTL

(* AnsweredMeansDialled: no client is told of a connection that was not made. *)
THEOREM NoFalseAnswer == Spec => []AnsweredMeansDialled
<1>1. IInv => AnsweredMeansDialled
  BY DEF IInv, Dialled, AnsweredMeansDialled, ToSet
<1> QED
  BY <1>1, Inductive, PTL

(* TargetReached: for every host name shorter than 256 bytes and every port below *)
(* 65536 the address survives the forms it takes on its way.                      *)
THEOREM AddressKept == Spec => []TargetReached
<1>1. IInv => TargetReached
  <2> SUFFICES ASSUME IInv, NEW d \in dialled, req.host.size < 256, AskedPort < 65536
               PROVE  d.host = req.host /\ d.port = AskedPort
    BY DEF TargetReached
  <2>1. req.host.size \in Nat /\ AskedPort \in Nat
    <3>1. req.host \in Hosts /\ req.port \in Ports
      BY DEF IInv, Types
    <3>2. req.host.size \in Nat /\ req.port \in Nat
      <4>1. \A h \in Hosts : h.size \in Nat
        BY WireAssumption
      <4>2. Ports \subseteq Nat
        BY WireAssumption
      <4> QED
        BY ONLY <3>1, <4>1, <4>2, Zenon
    <3> QED
      BY <3>2 DEF AskedPort
  <2>2. req.host.size % 256 = req.host.size /\ AskedPort % 65536 = AskedPort
    BY <2>1
  <2>3. Asked.size = Asked.host.size /\ Asked.host = req.host /\ Asked.port = AskedPort
    BY <2>2 DEF Asked, Request
  <2>4. [host |-> d.host, port |-> d.port] \in [host : {req.host}, port : {AskedPort}]
    BY <2>3 DEF IInv, Wanted, Requested
  <2> QED
    BY <2>4
<1> QED
  BY <1>1, Inductive, PTL

(* TunnelNeverLocal: whatever the resolver answers, at whatever time, and whatever of it  *)
(* is cached, the session connects only to the address it has judged, of no local class. *)
THEOREM NeverLocal == Spec => []TunnelNeverLocal
<1>1. IInv => TunnelNeverLocal
  BY DEF IInv, Judged, TunnelNeverLocal
<1> QED
  BY <1>1, Inductive, PTL

(* WaitingClientKeeps: neither bufio.Reader holds data of a client that waits.    *)
THEOREM NothingLost == Spec => []WaitingClientKeeps
<1>1. IInv => WaitingClientKeeps
  BY DEF IInv, Counted, WaitingClientKeeps
<1> QED
  BY <1>1, Inductive, PTL
=============================================================================
