---------------------------- MODULE H1PoolProofs ----------------------------
(***************************************************************************)
(* Proofs about H1Pool, for every number of trunks, clients, packets and   *)
(* replies.                                                                *)
(***************************************************************************)
EXTENDS H1Pool, SequenceTheorems, WellFoundedInduction, TLAPS

-----------------------------------------------------------------------------
(* What is on its way, as sets of numbers *)

\* The numbers of the data packets of client d in a queue.
Data(q, d) == {n \in Nat : \E i \in 1..Len(q) :
                   q[i].op = "data" /\ q[i].cid = d /\ q[i].serial = n}

\* The numbers of the packets in a history that went by trunk t.
By(h, t) == {n \in Nat : \E i \in 1..Len(h) : h[i].n = n /\ h[i].t = t}

\* The data packets of each client in a queue are in the order of their numbers.
Ordered(q) ==
    \A i, j \in 1..Len(q) :
        i < j /\ q[i].op = "data" /\ q[j].op = "data" /\ q[i].cid = q[j].cid
            => q[i].serial < q[j].serial

\* The data packets in a queue are those of clients.
Named(q) == \A i \in 1..Len(q) : q[i].op = "data" => q[i].cid \in Clients

-----------------------------------------------------------------------------
(* The inductive invariant *)

\* The types of the three modules' variables, queues and histories as sequences; of
\* data packets the client id is that of a client, and no channel is overfull.
NetTypes ==
    /\ trunk \in [Trunks -> {"none", "connecting", "up", "broken", "gone", "failed"}]
    /\ conn \in [Trunks -> {"none", "open", "broken"}]
    /\ up \in [Trunks -> Seq(Packets)] /\ down \in [Trunks -> Seq(Packets)]
    /\ \A t \in Trunks : Named(up[t]) /\ Named(down[t])

ClientTypes ==
    /\ dstate \in [Clients -> {"new", "open", "closed"}]
    /\ serial \in [Clients -> Nat]
    /\ wpc \in [Clients -> {"idle", "send"}]
    /\ cpc \in [Clients -> {"idle", "pick", "send", "done"}]
    /\ wvia \in [Clients -> Trunks \cup {0}] /\ cvia \in [Clients -> Trunks \cup {0}]
    /\ \A d \in Clients : /\ wpc[d] = "send" => wvia[d] \in Trunks
                          /\ cpc[d] = "send" => cvia[d] \in Trunks
    /\ rdone \subseteq Trunks
    /\ pings \in [Trunks -> Nat]
    /\ sent \in [Clients -> Seq(Fed)] /\ got \in [Clients -> Seq(Fed)]

ServerTypes ==
    /\ serving \in [Trunks -> {"none", "on", "off"}]
    /\ chReply \in [Trunks -> Seq(Packets)]
    /\ \A t \in Trunks : Named(chReply[t]) /\ Len(chReply[t]) <= ReplyCap
    /\ createdAt \in [Trunks -> Nat]
    /\ \E b \in Nat : \A t \in Trunks : createdAt[t] <= b
    /\ rpc \in [Trunks -> {"read", "create", "pong", "ended"}]
    /\ held \in [Trunks -> Packets]
    /\ inMap \subseteq Clients /\ bufClosed \subseteq Clients
    /\ sel \in [Clients -> {"none", "starting", "select", "eosPick", "eosSend",
                            "exited", "done"}]
    /\ hnd \in [Clients -> {"none", "run", "send", "closing", "signal", "done"}]
    /\ rvia \in [Clients -> Trunks \cup {0}]
    /\ \A d \in Clients : hnd[d] = "send" \/ sel[d] = "eosSend" => rvia[d] \in Trunks
    /\ replies \in [Clients -> Nat]
    /\ fed \in [Clients -> Seq(Fed)]
    /\ \A t \in Trunks : rpc[t] = "create" => held[t].cid \in Clients /\ held[t].serial = 0

Types == NetTypes /\ ClientTypes /\ ServerTypes

\* An instance is in the map from its start to its end.  Before its goroutine meets
\* the end its buffer is closed, and the session is over when it sends OP_EOS.
Instances ==
    \A d \in Clients :
        /\ d \in inMap <=> sel[d] \notin {"none", "done"}
        /\ sel[d] \in {"eosPick", "eosSend", "exited", "done"} => d \in bufClosed
        /\ hnd[d] = "signal" => d \in bufClosed
        /\ sel[d] \in {"eosPick", "eosSend"} => hnd[d] = "done"

\* The writes of a client are numbered upwards, and each goes by one trunk.
SentInOrder ==
    \A d \in Clients :
        /\ \A i \in 1..Len(sent[d]) : sent[d][i].n < serial[d]
        /\ \A i, j \in 1..Len(sent[d]) : i < j => sent[d][i].n < sent[d][j].n

\* A packet that trunk t holds, with which it is about to start instance d.
Starts(t, d) == rpc[t] = "create" /\ held[t].cid = d

\* A trunk carries the packets written to it in their order, and feeds an instance
\* only what came before them.
UpCarried ==
    \A t \in Trunks :
        /\ Ordered(up[t])
        /\ \A d \in Clients :
             /\ Data(up[t], d) \subseteq By(sent[d], t)
             /\ By(fed[d], t) \subseteq By(sent[d], t)
             /\ \A m \in By(fed[d], t), n \in Data(up[t], d) : m < n
             /\ Starts(t, d) => /\ 0 \in By(sent[d], t)
                                /\ 0 \notin Data(up[t], d) /\ By(fed[d], t) = {}

\* The packet that starts an instance is the first of its client's, and comes once;
\* before the start nothing is fed.
OneStart ==
    \A d \in Clients :
        /\ sel[d] # "none" => /\ sent[d] # << >> /\ sent[d][1].n = 0
                              /\ \A t \in Trunks : 0 \notin Data(up[t], d)
        /\ sel[d] = "none" => fed[d] = << >> /\ \A t \in Trunks : ~ Starts(t, d)

\* What is on its way down a trunk, written to it or waiting in its channel.
Flow(t, d) == Data(down[t], d) \cup Data(chReply[t], d)

\* Replies are numbered upwards, each goes by one trunk, and a trunk hands them over
\* in their order.
DownCarried ==
    \A t \in Trunks :
        /\ Ordered(down[t]) /\ Ordered(chReply[t])
        /\ \A d \in Clients :
             /\ \A n \in Flow(t, d) \cup By(got[d], t) : n < replies[d]
             /\ \A m \in Data(down[t], d), n \in Data(chReply[t], d) : m < n
             /\ \A m \in By(got[d], t), n \in Flow(t, d) : m < n
             /\ \A s \in Trunks \ {t} :
                  (Flow(t, d) \cup By(got[d], t)) \cap (Flow(s, d) \cup By(got[d], s)) = {}

\* All writes of client d went by trunk t.
Only(d, t) == \A i \in 1..Len(sent[d]) : sent[d][i].t = t

\* Nothing more is fed to the instance of client d.
Cut(d) == d \in bufClosed \/ (sent[d] # << >> /\ sent[d][1].n # 0)

\* Write i of client d has been fed to its instance, or is on its way by trunk t.
Safe(d, t, i) ==
    \/ i <= Len(fed[d])
    \/ sent[d][i].n \in Data(up[t], d)
    \/ Starts(t, d) /\ i = 1

\* The writes of client d, all by trunk t: its instance is fed the first ones, and
\* before a packet on its way none is missing unless nothing more is fed at all; while
\* the trunk works, none is missing.
Kept(d, t) ==
    /\ Len(fed[d]) <= Len(sent[d])
    /\ \A i \in 1..Len(fed[d]) : fed[d][i] = sent[d][i]
    /\ ~ Cut(d) =>
         /\ \A i, j \in 1..Len(sent[d]) :
              i < j /\ sent[d][j].n \in Data(up[t], d) => Safe(d, t, i)
         /\ trunk[t] = "up" /\ conn[t] = "open" => \A i \in 1..Len(sent[d]) : Safe(d, t, i)

\* A client writes to trunks that have been connected.
Written ==
    \A d \in Clients : \A i \in 1..Len(sent[d]) : trunk[sent[d][i].t] \in {"up", "broken", "gone"}

\* Of a client with one trunk what is lost are its last writes, unless its session's
\* buffer has overrun.
NoGap == \A d \in Clients \ overrun, t \in Trunks : Only(d, t) => Kept(d, t)

Overruns == overrun \subseteq Clients

IInv ==
    /\ Types /\ Instances
    /\ SentInOrder /\ UpCarried /\ OneStart /\ UpInTrunkOrder /\ Written /\ NoGap
    /\ DownCarried /\ DownInTrunkOrder /\ Overruns

-----------------------------------------------------------------------------
(* Lemmas about maxima, queues and histories *)

(* A set of natural numbers has a least element. *)
LEMMA LeastOf ==
    ASSUME NEW T \in SUBSET Nat, T # {}
    PROVE  \E m \in T : \A y \in T : m <= y
<1>1. PICK m \in T : \A y \in T : ~ (<<y, m>> \in OpToRel(<, Nat))
  BY WFMin, NatLessThanWellFounded
<1>2. ASSUME NEW y \in T, y < m
      PROVE  FALSE
  <2>1. <<y, m>> \in Nat \X Nat /\ <<y, m>>[1] < <<y, m>>[2]
    BY <1>2
  <2>2. <<y, m>> \in OpToRel(<, Nat)
    BY <2>1, Zenon DEF OpToRel
  <2> QED
    BY <1>1, <2>2
<1> QED
  BY <1>2

(* The Max of a bounded set of natural numbers is its greatest element. *)
LEMMA MaxIsIn ==
    ASSUME NEW S \in SUBSET Nat, NEW b \in Nat, \A x \in S : x <= b, S # {}
    PROVE  Max(S) \in S /\ \A y \in S : y <= Max(S)
<1> DEFINE T == {n \in Nat : \E x \in S : n = b - x}
<1>1. T \in SUBSET Nat
  OBVIOUS
<1>2. T # {}
  <2>1. PICK x \in S : TRUE
    OBVIOUS
  <2>2. b - x \in T
    BY <2>1
  <2> QED
    BY <2>2
<1>3. PICK m \in T : \A y \in T : m <= y
  <2> HIDE DEF T
  <2> QED
    BY <1>1, <1>2, LeastOf
<1>4. PICK x \in S : m = b - x
  BY <1>3
<1>5. \A y \in S : x >= y
  <2> SUFFICES ASSUME NEW y \in S
               PROVE  x >= y
    OBVIOUS
  <2>1. b - y \in T
    OBVIOUS
  <2> QED
    BY <1>3, <1>4, <2>1
<1> QED
  BY <1>5 DEF Max

(* What Append leaves of a sequence. *)
LEMMA AppendFacts ==
    ASSUME NEW S, NEW q \in Seq(S), NEW x \in S
    PROVE  /\ Append(q, x) \in Seq(S) /\ Len(q) \in Nat /\ Len(Append(q, x)) = Len(q) + 1
           /\ \A i \in 1..Len(q) : Append(q, x)[i] = q[i] /\ q[i] \in S
           /\ Append(q, x)[Len(q) + 1] = x
  OBVIOUS

(* What Tail leaves of a sequence. *)
LEMMA TailFacts ==
    ASSUME NEW S, NEW q \in Seq(S), q # << >>
    PROVE  /\ Len(q) \in Nat /\ Len(q) >= 1 /\ Head(q) = q[1] /\ Head(q) \in S
           /\ Tail(q) \in Seq(S) /\ Len(Tail(q)) = Len(q) - 1
           /\ \A i \in 1..Len(q) - 1 : Tail(q)[i] = q[i + 1]
  OBVIOUS

(* What is behind the first k packets of a queue. *)
LEMMA RestFacts ==
    ASSUME NEW S, NEW q \in Seq(S), NEW k \in 0..Len(q)
    PROVE  /\ SubSeq(q, k + 1, Len(q)) \in Seq(S)
           /\ Len(SubSeq(q, k + 1, Len(q))) = Len(q) - k /\ Len(q) \in Nat
           /\ \A i \in 1..Len(q) - k : SubSeq(q, k + 1, Len(q))[i] = q[i + k]
  OBVIOUS

(* A packet that is appended to a queue is one more of its client. *)
LEMMA DataAppend ==
    ASSUME NEW q \in Seq(Packets), NEW p \in Packets
    PROVE  /\ Append(q, p) \in Seq(Packets)
           /\ \A d, n : n \in Data(Append(q, p), d) <=>
                  n \in Data(q, d) \/ (n = p.serial /\ p.op = "data" /\ p.cid = d)
           /\ Ordered(q) /\ (p.op = "data" => \A n \in Data(q, p.cid) : n < p.serial)
                  => Ordered(Append(q, p))
           /\ Named(q) /\ (p.op = "data" => p.cid \in Clients) => Named(Append(q, p))
<1>1. /\ Append(q, p) \in Seq(Packets) /\ Len(q) \in Nat /\ Len(Append(q, p)) = Len(q) + 1
      /\ \A i \in 1..Len(q) : Append(q, p)[i] = q[i] /\ q[i] \in Packets
      /\ Append(q, p)[Len(q) + 1] = p
  BY AppendFacts
<1>2. p.serial \in Nat /\ \A i \in 1..Len(q) : q[i].serial \in Nat
  BY <1>1 DEF Packets
<1> DEFINE a == Append(q, p)
<1> HIDE DEF a
<1>3. \A i : i \in 1..Len(a) <=> (i \in 1..Len(q) \/ i = Len(q) + 1)
  BY <1>1 DEF a
<1>4. \A d, n : n \in Data(a, d) <=>
          n \in Data(q, d) \/ (n = p.serial /\ p.op = "data" /\ p.cid = d)
  BY <1>1, <1>2, <1>3 DEF Data, a
<1>5. ASSUME Ordered(q), p.op = "data" => \A n \in Data(q, p.cid) : n < p.serial
      PROVE  Ordered(a)
  <2> SUFFICES ASSUME NEW i \in 1..Len(a), NEW j \in 1..Len(a), i < j,
                      a[i].op = "data", a[j].op = "data", a[i].cid = a[j].cid
               PROVE  a[i].serial < a[j].serial
    BY DEF Ordered
  <2>1. i \in 1..Len(q) /\ a[i] = q[i]
    BY <1>1, <1>3 DEF a
  <2>2. CASE j \in 1..Len(q)
    BY <1>1, <1>5, <2>1, <2>2 DEF Ordered, a
  <2>3. CASE j = Len(q) + 1
    <3>1. a[j] = p /\ q[i].serial \in Data(q, p.cid)
      BY <1>1, <1>2, <2>1, <2>3 DEF Data, a
    <3> QED
      BY <1>5, <2>1, <3>1
  <2> QED
    BY <1>3, <2>2, <2>3
<1>6. ASSUME Named(q), p.op = "data" => p.cid \in Clients
      PROVE  Named(a)
  BY <1>1, <1>3, <1>6 DEF Named, a
<1> QED
  BY <1>1, <1>4, <1>5, <1>6 DEF a

(* A packet that is no data packet adds nothing of any client. *)
LEMMA DataQuiet ==
    ASSUME NEW q \in Seq(Packets), NEW p \in Packets, p.op # "data", Ordered(q)
    PROVE  /\ Append(q, p) \in Seq(Packets) /\ Ordered(Append(q, p))
           /\ \A d, n : n \in Data(Append(q, p), d) <=> n \in Data(q, d)
<1>1. /\ Append(q, p) \in Seq(Packets) /\ Ordered(Append(q, p))
      /\ \A d, n : n \in Data(Append(q, p), d) <=>
             n \in Data(q, d) \/ (n = p.serial /\ p.op = "data" /\ p.cid = d)
  BY DataAppend
<1> QED
  BY <1>1

(* The head of a queue is one of its packets, and before the others of its client. *)
LEMMA DataTail ==
    ASSUME NEW q \in Seq(Packets), q # << >>
    PROVE  /\ Head(q) \in Packets /\ Tail(q) \in Seq(Packets)
           /\ \A d, n : n \in Data(q, d) <=>
                  \/ n \in Data(Tail(q), d)
                  \/ n = Head(q).serial /\ Head(q).op = "data" /\ Head(q).cid = d
           /\ Ordered(q) => Ordered(Tail(q))
           /\ Ordered(q) /\ Head(q).op = "data"
                  => \A n \in Data(Tail(q), Head(q).cid) : Head(q).serial < n
           /\ Named(q) => Named(Tail(q)) /\ (Head(q).op = "data" => Head(q).cid \in Clients)
<1> DEFINE r == Tail(q)
<1> HIDE DEF r
<1>1. /\ Len(q) \in Nat /\ Len(q) >= 1 /\ Head(q) = q[1] /\ Head(q) \in Packets
      /\ r \in Seq(Packets) /\ Len(r) = Len(q) - 1
      /\ \A i \in 1..Len(r) : r[i] = q[i + 1]
  BY TailFacts DEF r
<1>2. \A i \in 1..Len(q) : q[i].serial \in Nat
  <2>1. \A i \in 1..Len(q) : q[i] \in Packets
    OBVIOUS
  <2> QED
    BY <2>1 DEF Packets
<1>3. /\ \A i \in 1..Len(r) : i + 1 \in 1..Len(q)
      /\ \A i \in 1..Len(q) : i = 1 \/ (i - 1 \in 1..Len(r) /\ q[i] = r[i - 1])
  BY <1>1
<1>4. \A d, n : n \in Data(q, d) <=>
          \/ n \in Data(r, d)
          \/ n = Head(q).serial /\ Head(q).op = "data" /\ Head(q).cid = d
  <2> TAKE d, n
  <2>1. ASSUME n \in Data(q, d)
        PROVE  \/ n \in Data(r, d)
               \/ n = Head(q).serial /\ Head(q).op = "data" /\ Head(q).cid = d
    <3>1. PICK i \in 1..Len(q) :
              n \in Nat /\ q[i].op = "data" /\ q[i].cid = d /\ q[i].serial = n
      BY <2>1 DEF Data
    <3>2. CASE i = 1
      BY <1>1, <3>1, <3>2
    <3>3. CASE i # 1
      BY <1>3, <3>1, <3>3 DEF Data
    <3> QED
      BY <3>2, <3>3
  <2>2. ASSUME n \in Data(r, d)
        PROVE  n \in Data(q, d)
    <3>1. PICK i \in 1..Len(r) :
              n \in Nat /\ r[i].op = "data" /\ r[i].cid = d /\ r[i].serial = n
      BY <2>2 DEF Data
    <3> QED
      BY <1>1, <1>3, <3>1 DEF Data
  <2>3. ASSUME n = Head(q).serial, Head(q).op = "data", Head(q).cid = d
        PROVE  n \in Data(q, d)
    BY <1>1, <1>2, <2>3 DEF Data
  <2> QED
    BY <2>1, <2>2, <2>3
<1>5. Ordered(q) => Ordered(r)
  BY <1>1, <1>3 DEF Ordered
<1>6. ASSUME Ordered(q), Head(q).op = "data", NEW n \in Data(r, Head(q).cid)
      PROVE  Head(q).serial < n
  <2>1. PICK i \in 1..Len(r) :
            n \in Nat /\ r[i].op = "data" /\ r[i].cid = Head(q).cid /\ r[i].serial = n
    BY DEF Data
  <2> QED
    BY <1>1, <1>3, <1>6, <2>1 DEF Ordered
<1>7. Named(q) => Named(r) /\ (Head(q).op = "data" => Head(q).cid \in Clients)
  <2>1. Named(q) => Named(r)
    BY <1>1, <1>3 DEF Named
  <2>2. 1 \in 1..Len(q)
    BY <1>1
  <2> QED
    BY <1>1, <2>1, <2>2 DEF Named
<1> QED
  BY <1>1, <1>4, <1>5, <1>6, <1>7 DEF r

(* An empty queue has no packets. *)
LEMMA DataEmpty ==
    /\ \A d : Data(<< >>, d) = {}
    /\ Ordered(<< >>) /\ Named(<< >>) /\ << >> \in Seq(Packets)
  BY DEF Data, Ordered, Named

(* What is left of a queue whose first packets are lost. *)
LEMMA DataRest ==
    ASSUME NEW q \in Seq(Packets), NEW k \in 0..Len(q)
    PROVE  /\ SubSeq(q, k + 1, Len(q)) \in Seq(Packets)
           /\ \A d : Data(SubSeq(q, k + 1, Len(q)), d) \subseteq Data(q, d)
           /\ Ordered(q) => Ordered(SubSeq(q, k + 1, Len(q)))
           /\ Named(q) => Named(SubSeq(q, k + 1, Len(q)))
<1> DEFINE r == SubSeq(q, k + 1, Len(q))
<1> HIDE DEF r
<1>1. /\ Len(q) \in Nat /\ r \in Seq(Packets) /\ Len(r) = Len(q) - k
      /\ \A i \in 1..Len(r) : r[i] = q[i + k] /\ i + k \in 1..Len(q)
  BY RestFacts DEF r
<1>2. \A d : Data(r, d) \subseteq Data(q, d)
  <2> SUFFICES ASSUME NEW d, NEW n \in Data(r, d)
               PROVE  n \in Data(q, d)
    OBVIOUS
  <2>1. PICK i \in 1..Len(r) :
            n \in Nat /\ r[i].op = "data" /\ r[i].cid = d /\ r[i].serial = n
    BY DEF Data
  <2> QED
    BY <1>1, <2>1 DEF Data
<1>3. Ordered(q) => Ordered(r)
  BY <1>1 DEF Ordered
<1>4. Named(q) => Named(r)
  BY <1>1 DEF Named
<1> QED
  BY <1>1, <1>2, <1>3, <1>4 DEF r

(* An entry that is appended to a history is one more of its trunk. *)
LEMMA ByAppend ==
    ASSUME NEW h \in Seq(Fed), NEW m \in Nat, NEW t \in Trunks
    PROVE  /\ Append(h, [n |-> m, t |-> t]) \in Seq(Fed)
           /\ \A s, n : n \in By(Append(h, [n |-> m, t |-> t]), s) <=>
                  n \in By(h, s) \/ (n = m /\ s = t)
           /\ InTrunkOrder(h) /\ (\A s \in Trunks : m \notin By(h, s))
                /\ (\A n \in By(h, t) : n < m)
                  => InTrunkOrder(Append(h, [n |-> m, t |-> t]))
<1> DEFINE e == [n |-> m, t |-> t]
           a == Append(h, e)
<1>1. e \in Fed /\ e.n = m /\ e.t = t
  BY DEF Fed
<1> HIDE DEF e
<1>2. /\ a \in Seq(Fed) /\ Len(h) \in Nat /\ Len(a) = Len(h) + 1
      /\ \A i \in 1..Len(h) : a[i] = h[i] /\ h[i] \in Fed
      /\ a[Len(h) + 1] = e
  BY <1>1, AppendFacts
<1>3. \A i \in 1..Len(h) : h[i].n \in Nat /\ h[i].t \in Trunks
  BY <1>2 DEF Fed
<1> HIDE DEF a
<1>4. \A i : i \in 1..Len(a) <=> (i \in 1..Len(h) \/ i = Len(h) + 1)
  BY <1>2
<1>5. \A s, n : n \in By(a, s) <=> n \in By(h, s) \/ (n = m /\ s = t)
  BY <1>1, <1>2, <1>4 DEF By
<1>6. ASSUME InTrunkOrder(h), \A s \in Trunks : m \notin By(h, s), \A n \in By(h, t) : n < m
      PROVE  InTrunkOrder(a)
  <2> SUFFICES ASSUME NEW i \in 1..Len(a), NEW j \in 1..Len(a), i < j
               PROVE  a[i].n # a[j].n /\ (a[i].t = a[j].t => a[i].n < a[j].n)
    BY DEF InTrunkOrder
  <2>1. i \in 1..Len(h) /\ a[i] = h[i]
    BY <1>2, <1>4
  <2>2. CASE j \in 1..Len(h)
    BY <1>2, <1>6, <2>1, <2>2 DEF InTrunkOrder
  <2>3. CASE j = Len(h) + 1
    <3>1. a[j].n = m /\ a[j].t = t /\ h[i].n \in By(h, h[i].t) /\ h[i].t \in Trunks
      BY <1>1, <1>2, <1>3, <2>1, <2>3 DEF By
    <3> QED
      BY <1>6, <2>1, <3>1
  <2> QED
    BY <1>4, <2>2, <2>3
<1> QED
  BY <1>2, <1>5, <1>6 DEF a, e

(* In an empty history there is nothing. *)
LEMMA ByEmpty == (\A t : By(<< >>, t) = {}) /\ InTrunkOrder(<< >>) /\ << >> \in Seq(Fed)
  BY DEF By, InTrunkOrder

(* Writing a packet changes no data packet, and none becomes one. *)
LEMMA WireFacts ==
    ASSUME NEW p \in Packets
    PROVE  Wire(p) \in Packets /\ Wire(p).op = p.op /\ (p.op = "data" => Wire(p) = p)
  BY DEF Wire, Packets

(* The packets the code makes. *)
LEMMA PacketFacts ==
    ASSUME NEW op \in {"none", "data", "ping", "pong", "eos"}, NEW c \in Clients \cup {NoClient},
           NEW n \in Nat
    PROVE  /\ Packet(op, c, n) \in Packets /\ Packet(op, c, n).op = op
           /\ Packet(op, c, n).cid = c /\ Packet(op, c, n).serial = n
  BY DEF Packet, Packets

(* The constants, as the proofs use them. *)
LEMMA Constants ==
    NTrunks \in Nat /\ ReplyCap \in Nat /\ NoClient \notin Clients /\ Trunks \subseteq Nat
  BY TrunkAssumption, ReplyAssumption DEF Trunks

(* getAvailableSharedClient returns a trunk. *)
LEMMA AvailableIsTrunk == Available \subseteq Trunks
<1> DEFINE connected == {t \in Trunks : trunk[t] = "up"}
<1>1. CASE connected # {}
  <2>1. connected \in SUBSET Nat /\ \A x \in connected : x <= NTrunks
    BY Constants DEF Trunks
  <2>2. Max(connected) \in connected
    <3> HIDE DEF connected
    <3> QED
      BY <1>1, <2>1, MaxIsIn, Constants
  <2> QED
    BY <1>1, <2>2 DEF Available
<1>2. CASE connected = {}
  BY <1>2 DEF Available, Pool
<1> QED
  BY <1>1, <1>2

(* Replacing the queue of a trunk by one that is typed keeps the queues typed. *)
LEMMA QueueSet ==
    ASSUME NEW f \in [Trunks -> Seq(Packets)], \A s \in Trunks : Named(f[s]),
           NEW t \in Trunks, NEW q \in Seq(Packets), Named(q)
    PROVE  /\ [f EXCEPT ![t] = q] \in [Trunks -> Seq(Packets)]
           /\ \A s \in Trunks : Named([f EXCEPT ![t] = q][s])
<1>1. \A s \in Trunks : [f EXCEPT ![t] = q][s] = IF s = t THEN q ELSE f[s]
  OBVIOUS
<1> QED
  BY <1>1

(* What a write leaves on the trunk it goes by: one packet more, or nothing. *)
LEMMA SentFacts ==
    ASSUME NetTypes, NEW t \in Trunks, NEW p \in Packets, p.op = "data" => p.cid \in Clients
    PROVE  /\ Sent(t, p) \in Seq(Packets) /\ Named(Sent(t, p))
           /\ conn[t] = "open" => Sent(t, p) = Append(up[t], Wire(p))
           /\ conn[t] # "open" => Sent(t, p) = up[t]
<1>1. Append(up[t], Wire(p)) \in Seq(Packets) /\ Named(Append(up[t], Wire(p)))
  BY WireFacts, DataAppend DEF NetTypes
<1> QED
  BY <1>1 DEF Sent, NetTypes

\* The reader of trunk t takes a packet.
Takes(t) ==
    /\ rpc[t] = "read"
    /\ up' = [up EXCEPT ![t] = Tail(@)]
    /\ UNCHANGED <<trunk, conn, down, chReply, serving, createdAt, hnd, rvia, replies>>

(* What the reader of a trunk does with a packet: it starts an instance with it, feeds *)
(* it to one, or changes neither instances nor what they were fed but, for OP_EOS,     *)
(* closes one.                                                                         *)
LEMMA RecvCases ==
    ASSUME Types, Instances, NEW t \in Trunks, ServerRecv(t)
    PROVE  LET p == Head(up[t]) IN
           /\ Takes(t) /\ up[t] \in Seq(Packets) /\ up[t] # << >> /\ Named(up[t])
           /\ p \in Packets /\ (p.op = "data" => p.cid \in Clients)
           /\ overrun' = overrun \/ (p.op = "data" /\ overrun' = overrun \cup {p.cid})
           /\ \/ /\ p.op = "data" /\ p.cid \notin inMap /\ p.serial = 0
                 /\ inMap' = inMap \cup {p.cid}
                 /\ sel' = [sel EXCEPT ![p.cid] = "starting"]
                 /\ rpc' = [rpc EXCEPT ![t] = "create"]
                 /\ held' = [held EXCEPT ![t] = p]
                 /\ UNCHANGED <<bufClosed, fed>>
              \/ /\ p.op = "data" /\ p.cid \in inMap /\ p.cid \notin bufClosed
                 /\ fed' = [fed EXCEPT ![p.cid] = Append(@, [n |-> p.serial, t |-> t])]
                 /\ UNCHANGED <<rpc, held, inMap, sel, bufClosed>>
              \/ /\ p.op = "data"
                 /\ \/ p.cid \in bufClosed \/ p.cid \in overrun'
                    \/ p.cid \notin inMap /\ p.serial # 0
                 /\ UNCHANGED <<rpc, held, inMap, sel, bufClosed, fed>>
              \/ /\ p.op = "eos" /\ p.cid \in inMap /\ CloseInstance(p.cid)
                 /\ UNCHANGED <<rpc, held, inMap, fed>>
              \/ /\ p.op # "data"
                 /\ rpc' = rpc \/ rpc' = [rpc EXCEPT ![t] = "pong"]
                 /\ UNCHANGED <<held, inMap, sel, bufClosed, fed>>
<1> DEFINE p == Head(up[t])
<1>1. up[t] \in Seq(Packets) /\ up[t] # << >> /\ Named(up[t])
  BY DEF ServerRecv, Types, NetTypes
<1>2. p \in Packets /\ (p.op = "data" => p.cid \in Clients)
  BY <1>1, DataTail
<1> HIDE DEF p
<1>3. Takes(t)
  BY DEF ServerRecv, Takes, RecvData, Feed, CloseInstance, instVars, chanVars
<1>4. CASE p.op = "ping" /\ rpc' = [rpc EXCEPT ![t] = "pong"] /\ UNCHANGED <<held, inMap, instVars, fed, overrun>>
  BY <1>1, <1>2, <1>3, <1>4 DEF p, instVars
<1>5. CASE /\ p.op = "eos" /\ p.cid \in inMap
           /\ CloseInstance(p.cid) /\ UNCHANGED <<rpc, held, inMap, hnd, rvia, replies, fed, overrun>>
  BY <1>1, <1>2, <1>3, <1>5 DEF p
<1>6. CASE p.op = "eos" /\ p.cid \notin inMap /\ UNCHANGED <<rpc, held, inMap, instVars, fed, overrun>>
  BY <1>1, <1>2, <1>3, <1>6 DEF p, instVars
<1>7. CASE p.op = "data" /\ RecvData(t, p)
  <2>1. CASE p.cid \in inMap /\ Feed(t, p) /\ UNCHANGED <<rpc, held, inMap, instVars>>
    <3>1. CASE p.cid \in bufClosed /\ UNCHANGED <<fed, overrun>>
      BY <1>1, <1>2, <1>3, <1>7, <2>1, <3>1 DEF p, instVars
    <3>2. CASE /\ p.cid \notin bufClosed /\ UNCHANGED overrun
               /\ fed' = [fed EXCEPT ![p.cid] = Append(@, [n |-> p.serial, t |-> t])]
      BY <1>1, <1>2, <1>3, <1>7, <2>1, <3>2 DEF p, instVars
    <3>3. CASE overrun' = overrun \cup {p.cid} /\ UNCHANGED fed
      BY <1>1, <1>2, <1>3, <1>7, <2>1, <3>3 DEF p, instVars
    <3> QED
      BY <2>1, <3>1, <3>2, <3>3 DEF Feed
  <2>2. CASE /\ p.cid \notin inMap /\ p.serial = 0
             /\ inMap' = inMap \cup {p.cid} /\ sel' = [sel EXCEPT ![p.cid] = "starting"]
             /\ rpc' = [rpc EXCEPT ![t] = "create"] /\ held' = [held EXCEPT ![t] = p]
             /\ UNCHANGED <<hnd, rvia, bufClosed, replies, fed, overrun>>
    BY <1>1, <1>2, <1>3, <1>7, <2>2 DEF p
  <2>3. CASE p.cid \notin inMap /\ p.serial # 0 /\ UNCHANGED <<rpc, held, inMap, instVars, fed, overrun>>
    BY <1>1, <1>2, <1>3, <1>7, <2>3 DEF p, instVars
  <2> QED
    BY <1>7, <2>1, <2>2, <2>3 DEF RecvData
<1> QED
  BY <1>4, <1>5, <1>6, <1>7 DEF ServerRecv, p

\* The reply channels.
ReplyTypes ==
    /\ chReply \in [Trunks -> Seq(Packets)]
    /\ \A t \in Trunks : Named(chReply[t]) /\ Len(chReply[t]) <= ReplyCap

(* A send to a channel that has room. *)
LEMMA ReplyPut ==
    ASSUME Types, NEW t \in Trunks, NEW p \in Packets, p.op = "data" => p.cid \in Clients,
           Len(chReply[t]) < ReplyCap, chReply' = [chReply EXCEPT ![t] = Append(chReply[t], p)]
    PROVE  ReplyTypes'
<1>1. Append(chReply[t], p) \in Seq(Packets) /\ Named(Append(chReply[t], p))
  BY DataAppend DEF Types, ServerTypes
<1>2. Len(Append(chReply[t], p)) <= ReplyCap
  BY AppendFacts, Constants DEF Types, ServerTypes
<1> QED
  BY <1>1, <1>2 DEF Types, ServerTypes, ReplyTypes

-----------------------------------------------------------------------------
(* Types *)

(* The steps that change the connection of a trunk or what is on its way. *)
LEMMA NetCases ==
    ASSUME [Next]_vars
    PROVE  \/ UNCHANGED <<trunk, conn, up, down>>
           \/ \E t \in Trunks : AddTrunk(t) /\ UNCHANGED serverVars
           \/ \E t \in Trunks : Connected(t) /\ UNCHANGED serverVars
           \/ \E t \in Trunks : ConnectFails(t) /\ UNCHANGED serverVars
           \/ \E t \in Trunks : RelayEnds(t) /\ UNCHANGED serverVars
           \/ \E t \in Trunks : TrunkExits(t) /\ UNCHANGED serverVars
           \/ \E t \in Trunks : SendPing(t) /\ UNCHANGED serverVars
           \/ \E t \in Trunks : ClientRecv(t) /\ UNCHANGED serverVars
           \/ \E d \in Clients : WriteSend(d) /\ UNCHANGED serverVars
           \/ \E d \in Clients : CloseSend(d) /\ UNCHANGED serverVars
           \/ \E t \in Trunks : Accept(t) /\ UNCHANGED clientVars
           \/ \E t \in Trunks : ServerRecv(t) /\ UNCHANGED clientVars
           \/ \E t \in Trunks : ServerReadEnds(t) /\ UNCHANGED clientVars
           \/ \E t \in Trunks : ServerReply(t) /\ UNCHANGED clientVars
           \/ TrunkBreaks
<1>1. ASSUME NEW d \in Clients, UNCHANGED serverVars,
             \/ Open(d) \/ WritePick(d) \/ CloseBegin(d) \/ ClosePick(d)
             \/ CloseGivesUp(d)
      PROVE  UNCHANGED <<trunk, conn, up, down>>
  BY ONLY <1>1 DEF Open, WritePick, CloseBegin, ClosePick, CloseGivesUp, chanVars,
     netVars, serverVars
<1>2. ASSUME NEW t \in Trunks, UNCHANGED clientVars,
             \/ ServerFeedFirst(t) \/ ServerPong(t) \/ ServerExit(t)
      PROVE  UNCHANGED <<trunk, conn, up, down>>
  BY ONLY <1>2 DEF ServerFeedFirst, ServerPong, ServerExit, chanVars, clientVars, divVars,
     instVars, netVars, Feed
<1>3. ASSUME NEW d \in Clients, UNCHANGED clientVars,
             \/ InstanceLaunch(d) \/ InstanceSelect(d) \/ SessionWrite(d)
             \/ SessionSend(d) \/ SessionEnds(d) \/ SessionCloses(d)
             \/ SessionSignals(d) \/ InstanceEosPick(d) \/ InstanceEosSend(d)
             \/ InstanceDelete(d)
      PROVE  UNCHANGED <<trunk, conn, up, down>>
  BY ONLY <1>3 DEF InstanceLaunch, InstanceSelect, SessionWrite, SessionSend, SessionEnds,
     SessionCloses, SessionSignals, InstanceEosPick, InstanceEosSend, InstanceDelete,
     chanVars, clientVars, divVars, netVars, CloseInstance
<1>4. CASE UNCHANGED vars
  BY <1>4 DEF vars, netVars, clientVars, divVars, serverVars, chanVars
<1> QED
  BY <1>1, <1>2, <1>3, <1>4 DEF Next, ClientStep, ServerStep

(* Every step keeps the trunks and what is on its way in their types. *)
LEMMA NetTypesStep == IInv /\ [Next]_vars => NetTypes'
<1> SUFFICES ASSUME IInv, [Next]_vars
             PROVE  NetTypes'
  OBVIOUS
<1>1. CASE UNCHANGED <<trunk, conn, up, down>>
  BY <1>1 DEF IInv, Types, NetTypes
<1>2. ASSUME NEW t \in Trunks, AddTrunk(t), UNCHANGED serverVars
      PROVE  NetTypes'
  BY <1>2 DEF AddTrunk, chanVars, clientVars, divVars, serverVars, IInv, Types, NetTypes
<1>3. ASSUME NEW t \in Trunks, Connected(t), UNCHANGED serverVars
      PROVE  NetTypes'
  <2>1. PICK k \in 0..Len(down[t]) :
            down' = [down EXCEPT ![t] = SubSeq(@, k + 1, Len(@))]
    BY <1>3 DEF Connected
  <2>2. down' = [down EXCEPT ![t] = SubSeq(down[t], k + 1, Len(down[t]))]
    BY <2>1
  <2> QED
    BY <1>3, <2>2, DataRest, QueueSet DEF Connected, IInv, Types, NetTypes
<1>4. ASSUME NEW t \in Trunks, ConnectFails(t), UNCHANGED serverVars
      PROVE  NetTypes'
  BY <1>4 DEF ConnectFails, chanVars, clientVars, divVars, serverVars, IInv, Types,
     NetTypes
<1>5. ASSUME NEW t \in Trunks, RelayEnds(t), UNCHANGED serverVars
      PROVE  NetTypes'
  BY <1>5 DEF RelayEnds, chanVars, clientVars, divVars, serverVars, IInv, Types, NetTypes
<1>6. ASSUME NEW t \in Trunks, TrunkExits(t), UNCHANGED serverVars
      PROVE  NetTypes'
  BY <1>6 DEF TrunkExits, chanVars, clientVars, divVars, serverVars, IInv, Types, NetTypes
<1>7. ASSUME NEW t \in Trunks, SendPing(t), UNCHANGED serverVars
      PROVE  NetTypes'
  <2> DEFINE p == Wire(Packet("ping", NoClient, 0))
  <2>1. p \in Packets /\ p.op # "data"
    BY PacketFacts, WireFacts
  <2>2. up' = [up EXCEPT ![t] = Append(up[t], p)]
    BY <1>7 DEF SendPing
  <2> HIDE DEF p
  <2>3. Append(up[t], p) \in Seq(Packets) /\ Named(Append(up[t], p))
    BY <2>1, DataAppend DEF IInv, Types, NetTypes
  <2> QED
    BY <1>7, <2>2, <2>3, QueueSet DEF SendPing, IInv, Types, NetTypes
<1>8. ASSUME NEW t \in Trunks, ClientRecv(t), UNCHANGED serverVars
      PROVE  NetTypes'
  <2>1. Tail(down[t]) \in Seq(Packets) /\ Named(Tail(down[t]))
    BY <1>8, DataTail DEF ClientRecv, IInv, Types, NetTypes
  <2>2. down' = [down EXCEPT ![t] = Tail(down[t])] /\ UNCHANGED <<trunk, conn, up>>
    BY <1>8 DEF ClientRecv
  <2> QED
    BY <2>1, <2>2, QueueSet DEF IInv, Types, NetTypes
<1>9. ASSUME NEW d \in Clients, WriteSend(d), UNCHANGED serverVars
      PROVE  NetTypes'
  <2> DEFINE p == Packet("data", d, serial[d])
  <2>1. p \in Packets /\ p.op = "data" /\ p.cid = d /\ wvia[d] \in Trunks
    BY <1>9, PacketFacts DEF WriteSend, IInv, Types, ClientTypes
  <2>2. /\ UNCHANGED <<trunk, conn, down>>
        /\ up' = up \/ up' = [up EXCEPT ![wvia[d]] = Sent(wvia[d], p)]
    BY <1>9 DEF WriteSend
  <2> HIDE DEF p
  <2>3. Sent(wvia[d], p) \in Seq(Packets) /\ Named(Sent(wvia[d], p))
    BY <2>1, SentFacts DEF IInv, Types
  <2>4. CASE up' = up
    BY <2>2, <2>4 DEF IInv, Types, NetTypes
  <2>5. CASE up' = [up EXCEPT ![wvia[d]] = Sent(wvia[d], p)]
    BY <2>1, <2>2, <2>3, <2>5, QueueSet DEF IInv, Types, NetTypes
  <2> QED
    BY <2>2, <2>4, <2>5
<1>10. ASSUME NEW d \in Clients, CloseSend(d), UNCHANGED serverVars
      PROVE  NetTypes'
  <2> DEFINE p == Packet("eos", d, serial[d])
  <2>1. p \in Packets /\ p.op = "eos" /\ cvia[d] \in Trunks
    BY <1>10, PacketFacts DEF CloseSend, IInv, Types, ClientTypes
  <2>2. /\ UNCHANGED <<trunk, conn, down>>
        /\ up' = up \/ up' = [up EXCEPT ![cvia[d]] = Sent(cvia[d], p)]
    BY <1>10 DEF CloseSend
  <2> HIDE DEF p
  <2>3. Sent(cvia[d], p) \in Seq(Packets) /\ Named(Sent(cvia[d], p))
    BY <2>1, SentFacts DEF IInv, Types
  <2>4. CASE up' = up
    BY <2>2, <2>4 DEF IInv, Types, NetTypes
  <2>5. CASE up' = [up EXCEPT ![cvia[d]] = Sent(cvia[d], p)]
    BY <2>1, <2>2, <2>3, <2>5, QueueSet DEF IInv, Types, NetTypes
  <2> QED
    BY <2>2, <2>4, <2>5
<1>11. ASSUME NEW t \in Trunks, Accept(t), UNCHANGED clientVars
      PROVE  NetTypes'
  BY <1>11 DEF Accept, clientVars, divVars, instVars, IInv, Types, NetTypes
<1>12. ASSUME NEW t \in Trunks, ServerRecv(t), UNCHANGED clientVars
      PROVE  NetTypes'
  <2>1. /\ Takes(t) /\ up[t] \in Seq(Packets) /\ up[t] # << >> /\ Named(up[t])
    BY <1>12, RecvCases DEF IInv
  <2>2. Tail(up[t]) \in Seq(Packets) /\ Named(Tail(up[t]))
    BY <2>1, DataTail
  <2>3. up' = [up EXCEPT ![t] = Tail(up[t])] /\ UNCHANGED <<trunk, conn, down>>
    BY <2>1 DEF Takes
  <2> QED
    BY <2>2, <2>3, QueueSet DEF IInv, Types, NetTypes
<1>13. ASSUME NEW t \in Trunks, ServerReadEnds(t), UNCHANGED clientVars
      PROVE  NetTypes'
  BY <1>13, DataEmpty, QueueSet DEF ServerReadEnds, IInv, Types, NetTypes
<1>14. ASSUME NEW t \in Trunks, ServerReply(t), UNCHANGED clientVars
      PROVE  NetTypes'
  <2> DEFINE p == Wire(Head(chReply[t]))
  <2>1. Head(chReply[t]) \in Packets
        /\ (Head(chReply[t]).op = "data" => Head(chReply[t]).cid \in Clients)
    BY <1>14, DataTail DEF ServerReply, IInv, Types, ServerTypes
  <2>2. p \in Packets /\ (p.op = "data" => p.cid \in Clients)
    BY <2>1, WireFacts
  <2>3. down' = [down EXCEPT ![t] = Append(down[t], p)] /\ UNCHANGED <<trunk, conn, up>>
    BY <1>14 DEF ServerReply
  <2> HIDE DEF p
  <2>4. Append(down[t], p) \in Seq(Packets) /\ Named(Append(down[t], p))
    BY <2>2, DataAppend DEF IInv, Types, NetTypes
  <2> QED
    BY <2>3, <2>4, QueueSet DEF IInv, Types, NetTypes
<1>15. CASE TrunkBreaks
  BY <1>15 DEF TrunkBreaks, ConnBreaks, clientVars, divVars, serverVars, chanVars, IInv,
     Types, NetTypes
<1> QED
  BY <1>1, <1>2, <1>3, <1>4, <1>5, <1>6, <1>7, <1>8, <1>9, <1>10, <1>11, <1>12, <1>13,
     <1>14, <1>15, NetCases

(* The steps that change the divided clients. *)
LEMMA ClientCases ==
    ASSUME [Next]_vars
    PROVE  \/ UNCHANGED <<dstate, serial, wpc, wvia, cpc, cvia, rdone, pings, sent, got>>
           \/ \E t \in Trunks : SendPing(t) /\ UNCHANGED serverVars
           \/ \E t \in Trunks : ClientRecv(t) /\ UNCHANGED serverVars
           \/ \E d \in Clients : Open(d) /\ UNCHANGED serverVars
           \/ \E d \in Clients : WritePick(d) /\ UNCHANGED serverVars
           \/ \E d \in Clients : WriteSend(d) /\ UNCHANGED serverVars
           \/ \E d \in Clients : CloseBegin(d) /\ UNCHANGED serverVars
           \/ \E d \in Clients : ClosePick(d) /\ UNCHANGED serverVars
           \/ \E d \in Clients : CloseGivesUp(d) /\ UNCHANGED serverVars
           \/ \E d \in Clients : CloseSend(d) /\ UNCHANGED serverVars
<1>1. ASSUME NEW t \in Trunks, UNCHANGED serverVars,
             \/ AddTrunk(t) \/ Connected(t) \/ ConnectFails(t) \/ RelayEnds(t)
             \/ TrunkExits(t)
      PROVE  UNCHANGED <<dstate, serial, wpc, wvia, cpc, cvia, rdone, pings, sent, got>>
  BY ONLY <1>1 DEF AddTrunk, Connected, ConnectFails, RelayEnds, TrunkExits, chanVars,
     clientVars, divVars, serverVars
<1>2. ASSUME NEW t \in Trunks, UNCHANGED clientVars,
             \/ Accept(t) \/ ServerRecv(t) \/ ServerFeedFirst(t) \/ ServerPong(t)
             \/ ServerReadEnds(t) \/ ServerReply(t) \/ ServerExit(t)
      PROVE  UNCHANGED <<dstate, serial, wpc, wvia, cpc, cvia, rdone, pings, sent, got>>
  BY ONLY <1>2 DEF Accept, ServerRecv, ServerFeedFirst, ServerPong, ServerReadEnds,
     ServerReply, ServerExit, chanVars, clientVars, divVars, instVars, netVars, Feed,
     RecvData, CloseInstance
<1>3. ASSUME NEW d \in Clients, UNCHANGED clientVars,
             \/ InstanceLaunch(d) \/ InstanceSelect(d) \/ SessionWrite(d)
             \/ SessionSend(d) \/ SessionEnds(d) \/ SessionCloses(d)
             \/ SessionSignals(d) \/ InstanceEosPick(d) \/ InstanceEosSend(d)
             \/ InstanceDelete(d)
      PROVE  UNCHANGED <<dstate, serial, wpc, wvia, cpc, cvia, rdone, pings, sent, got>>
  BY ONLY <1>3 DEF InstanceLaunch, InstanceSelect, SessionWrite, SessionSend, SessionEnds,
     SessionCloses, SessionSignals, InstanceEosPick, InstanceEosSend, InstanceDelete,
     chanVars, clientVars, divVars, netVars, CloseInstance
<1>4. CASE TrunkBreaks
  BY <1>4 DEF TrunkBreaks, ConnBreaks, clientVars, divVars, serverVars, chanVars
<1>5. CASE UNCHANGED vars
  BY <1>5 DEF vars, netVars, clientVars, divVars, serverVars, chanVars
<1> QED
  BY <1>1, <1>2, <1>3, <1>4, <1>5 DEF Next, ClientStep, ServerStep

(* Every step keeps the divided clients in their types. *)
LEMMA ClientTypesStep == IInv /\ [Next]_vars => ClientTypes'
<1> SUFFICES ASSUME IInv, [Next]_vars
             PROVE  ClientTypes'
  OBVIOUS
<1>1. CASE UNCHANGED <<dstate, serial, wpc, wvia, cpc, cvia, rdone, pings, sent, got>>
  BY <1>1 DEF IInv, Types, ClientTypes
<1>2. ASSUME NEW t \in Trunks, SendPing(t), UNCHANGED serverVars
      PROVE  ClientTypes'
  BY <1>2 DEF SendPing, chanVars, divVars, serverVars, IInv, Types, ClientTypes
<1>3. ASSUME NEW t \in Trunks, ClientRecv(t), UNCHANGED serverVars
      PROVE  ClientTypes'
  <2> DEFINE p == Head(down[t])
  <2>1. p \in Packets /\ p.serial \in Nat
    BY <1>3, DataTail DEF ClientRecv, IInv, Types, NetTypes, Packets
  <2>2. /\ rdone' \subseteq Trunks
        /\ UNCHANGED <<serial, wpc, wvia, cvia, pings, sent>>
        /\ \/ /\ p.cid \in clients /\ got' = [got EXCEPT ![p.cid] = Append(@, [n |-> p.serial, t |-> t])]
              /\ UNCHANGED <<dstate, cpc>>
           \/ /\ p.cid \in clients /\ dstate' = [dstate EXCEPT ![p.cid] = "closed"]
              /\ cpc' = [cpc EXCEPT ![p.cid] = "pick"] /\ got' = got
           \/ UNCHANGED <<dstate, cpc, got>>
    BY <1>3 DEF ClientRecv, IInv, Types, ClientTypes
  <2> HIDE DEF p
  <2>3. got' \in [Clients -> Seq(Fed)]
    <3>1. \A d \in Clients : Append(got[d], [n |-> p.serial, t |-> t]) \in Seq(Fed)
      BY <2>1, ByAppend DEF IInv, Types, ClientTypes
    <3> QED
      BY <2>2, <3>1 DEF IInv, Types, ClientTypes, clients
  <2>4. /\ dstate' \in [Clients -> {"new", "open", "closed"}]
        /\ cpc' \in [Clients -> {"idle", "pick", "send", "done"}]
        /\ \A d \in Clients : cpc'[d] = "send" => cpc[d] = "send"
    BY <2>2 DEF IInv, Types, ClientTypes, clients
  <2> QED
    BY <2>2, <2>3, <2>4 DEF IInv, Types, ClientTypes
<1>4. ASSUME NEW d \in Clients, Open(d), UNCHANGED serverVars
      PROVE  ClientTypes'
  BY <1>4 DEF Open, chanVars, netVars, serverVars, IInv, Types, ClientTypes
<1>5. ASSUME NEW d \in Clients, WritePick(d), UNCHANGED serverVars
      PROVE  ClientTypes'
  BY <1>5, AvailableIsTrunk DEF WritePick, IInv, Types, ClientTypes
<1>6. ASSUME NEW d \in Clients, WriteSend(d), UNCHANGED serverVars
      PROVE  ClientTypes'
  <2>1. wvia[d] \in Trunks /\ serial[d] \in Nat /\ sent[d] \in Seq(Fed)
    BY <1>6 DEF WriteSend, IInv, Types, ClientTypes
  <2>2. Append(sent[d], [n |-> serial[d], t |-> wvia[d]]) \in Seq(Fed)
    BY <2>1, ByAppend
  <2> QED
    BY <1>6, <2>2 DEF WriteSend, IInv, Types, ClientTypes
<1>7. ASSUME NEW d \in Clients, CloseBegin(d), UNCHANGED serverVars
      PROVE  ClientTypes'
  BY <1>7 DEF CloseBegin, chanVars, netVars, serverVars, IInv, Types, ClientTypes
<1>8. ASSUME NEW d \in Clients, ClosePick(d), UNCHANGED serverVars
      PROVE  ClientTypes'
  BY <1>8, AvailableIsTrunk DEF ClosePick, IInv, Types, ClientTypes
<1>9. ASSUME NEW d \in Clients, CloseGivesUp(d), UNCHANGED serverVars
      PROVE  ClientTypes'
  BY <1>9 DEF CloseGivesUp, chanVars, netVars, serverVars, IInv, Types, ClientTypes
<1>10. ASSUME NEW d \in Clients, CloseSend(d), UNCHANGED serverVars
      PROVE  ClientTypes'
  BY <1>10 DEF CloseSend, chanVars, serverVars, IInv, Types, ClientTypes
<1> QED
  BY <1>1, <1>2, <1>3, <1>4, <1>5, <1>6, <1>7, <1>8, <1>9, <1>10, ClientCases

(* The steps that change the server. *)
LEMMA ServerCases ==
    ASSUME [Next]_vars
    PROVE  \/ UNCHANGED <<serving, chReply, createdAt, rpc, held, inMap, sel, hnd, rvia, bufClosed, replies, fed>>
           \/ \E t \in Trunks : Accept(t) /\ UNCHANGED clientVars
           \/ \E t \in Trunks : ServerRecv(t) /\ UNCHANGED clientVars
           \/ \E t \in Trunks : ServerFeedFirst(t) /\ UNCHANGED clientVars
           \/ \E t \in Trunks : ServerPong(t) /\ UNCHANGED clientVars
           \/ \E t \in Trunks : ServerReadEnds(t) /\ UNCHANGED clientVars
           \/ \E t \in Trunks : ServerReply(t) /\ UNCHANGED clientVars
           \/ \E t \in Trunks : ServerExit(t) /\ UNCHANGED clientVars
           \/ \E d \in Clients : InstanceLaunch(d) /\ UNCHANGED clientVars
           \/ \E d \in Clients : InstanceSelect(d) /\ UNCHANGED clientVars
           \/ \E d \in Clients : SessionWrite(d) /\ UNCHANGED clientVars
           \/ \E d \in Clients : SessionSend(d) /\ UNCHANGED clientVars
           \/ \E d \in Clients : SessionEnds(d) /\ UNCHANGED clientVars
           \/ \E d \in Clients : SessionCloses(d) /\ UNCHANGED clientVars
           \/ \E d \in Clients : SessionSignals(d) /\ UNCHANGED clientVars
           \/ \E d \in Clients : InstanceEosPick(d) /\ UNCHANGED clientVars
           \/ \E d \in Clients : InstanceEosSend(d) /\ UNCHANGED clientVars
           \/ \E d \in Clients : InstanceDelete(d) /\ UNCHANGED clientVars
<1>1. ASSUME NEW t \in Trunks, UNCHANGED serverVars,
             \/ AddTrunk(t) \/ Connected(t) \/ ConnectFails(t) \/ RelayEnds(t)
             \/ TrunkExits(t) \/ SendPing(t) \/ ClientRecv(t)
      PROVE  UNCHANGED <<serving, chReply, createdAt, rpc, held, inMap, sel, hnd, rvia, bufClosed, replies, fed>>
  BY ONLY <1>1 DEF AddTrunk, Connected, ConnectFails, RelayEnds, TrunkExits, SendPing,
     ClientRecv, chanVars, clientVars, divVars, serverVars
<1>2. ASSUME NEW d \in Clients, UNCHANGED serverVars,
             \/ Open(d) \/ WritePick(d) \/ WriteSend(d) \/ CloseBegin(d)
             \/ ClosePick(d) \/ CloseGivesUp(d) \/ CloseSend(d)
      PROVE  UNCHANGED <<serving, chReply, createdAt, rpc, held, inMap, sel, hnd, rvia, bufClosed, replies, fed>>
  BY ONLY <1>2 DEF Open, WritePick, WriteSend, CloseBegin, ClosePick, CloseGivesUp,
     CloseSend, chanVars, netVars, serverVars
<1>3. CASE TrunkBreaks
  BY <1>3 DEF TrunkBreaks, ConnBreaks, clientVars, divVars, serverVars, chanVars
<1>4. CASE UNCHANGED vars
  BY <1>4 DEF vars, netVars, clientVars, divVars, serverVars, chanVars
<1> QED
  BY <1>1, <1>2, <1>3, <1>4 DEF Next, ClientStep, ServerStep

(* Every step keeps the server in its types. *)
LEMMA ServerTypesStep == IInv /\ [Next]_vars => ServerTypes'
<1> SUFFICES ASSUME IInv, [Next]_vars
             PROVE  ServerTypes'
  OBVIOUS
<1>1. CASE UNCHANGED <<serving, chReply, createdAt, rpc, held, inMap, sel, hnd, rvia, bufClosed, replies, fed>>
  BY <1>1 DEF IInv, Types, ServerTypes
<1>2. ASSUME NEW t \in Trunks, Accept(t), UNCHANGED clientVars
      PROVE  ServerTypes'
  <2> DEFINE ages == {createdAt[s] : s \in Trunks}
             last == Max(ages)
  <2>1. PICK b \in Nat : \A s \in Trunks : createdAt[s] <= b
    BY DEF IInv, Types, ServerTypes
  <2>2. ages \in SUBSET Nat /\ (\A x \in ages : x <= b) /\ ages # {}
    BY <2>1 DEF IInv, Types, ServerTypes
  <2>3. last \in Nat
    <3> HIDE DEF ages
    <3> QED
      BY <2>2, MaxIsIn
  <2>4. Max({last, 1}) \in Nat
    <3>1. {last, 1} \in SUBSET Nat /\ {last, 1} # {} /\ last + 1 \in Nat
          /\ \A x \in {last, 1} : x <= last + 1
      BY <2>3
    <3>2. Max({last, 1}) \in {last, 1}
      BY <3>1, MaxIsIn
    <3> QED
      BY <2>3, <3>2
  <2>5. PICK s \in Nat : createdAt' = [createdAt EXCEPT ![t] = s]
    <3>1. PICK s \in {Max({last, 1}), last + 1} : createdAt' = [createdAt EXCEPT ![t] = s]
      BY <1>2 DEF Accept
    <3>2. s \in Nat
      <4> HIDE DEF last
      <4> QED
        BY <2>3, <2>4
    <3> QED
      BY <3>1, <3>2
  <2>6. b + s \in Nat /\ \A u \in Trunks : createdAt'[u] <= b + s
    BY <2>1, <2>5 DEF IInv, Types, ServerTypes
  <2>7. createdAt' \in [Trunks -> Nat]
    BY <2>5 DEF IInv, Types, ServerTypes
  <2> QED
    BY <1>2, <2>6, <2>7 DEF Accept, instVars, IInv, Types, ServerTypes
<1>3. ASSUME NEW t \in Trunks, ServerRecv(t), UNCHANGED clientVars
      PROVE  ServerTypes'
  <2> DEFINE p == Head(up[t])
  <2>1. p \in Packets /\ (p.op = "data" => p.cid \in Clients) /\ Takes(t)
    BY <1>3, RecvCases DEF IInv
  <2>2. UNCHANGED <<serving, chReply, createdAt, hnd, rvia, replies>>
    BY <2>1 DEF Takes
  <2>3. CASE /\ p.op = "data" /\ p.serial = 0
             /\ inMap' = inMap \cup {p.cid} /\ sel' = [sel EXCEPT ![p.cid] = "starting"]
             /\ rpc' = [rpc EXCEPT ![t] = "create"] /\ held' = [held EXCEPT ![t] = p]
             /\ UNCHANGED <<bufClosed, fed>>
    BY <2>1, <2>2, <2>3 DEF IInv, Types, ServerTypes
  <2>4. CASE /\ p.op = "data"
             /\ fed' = [fed EXCEPT ![p.cid] = Append(@, [n |-> p.serial, t |-> t])]
             /\ UNCHANGED <<rpc, held, inMap, sel, bufClosed>>
    <3>1. p.serial \in Nat /\ fed[p.cid] \in Seq(Fed)
      BY <2>1, <2>4 DEF IInv, Types, ServerTypes, Packets
    <3>2. Append(fed[p.cid], [n |-> p.serial, t |-> t]) \in Seq(Fed)
      BY <3>1, ByAppend
    <3> QED
      BY <2>1, <2>2, <2>4, <3>2 DEF IInv, Types, ServerTypes
  <2>5. CASE p.cid \in inMap /\ CloseInstance(p.cid) /\ UNCHANGED <<rpc, held, inMap, fed>>
    BY <2>1, <2>2, <2>5 DEF CloseInstance, IInv, Types, ServerTypes
  <2>6. CASE /\ rpc' = rpc \/ rpc' = [rpc EXCEPT ![t] = "pong"]
             /\ UNCHANGED <<held, inMap, sel, bufClosed, fed>>
    BY <2>1, <2>2, <2>6 DEF IInv, Types, ServerTypes
  <2> QED
    BY <1>3, <2>3, <2>4, <2>5, <2>6, RecvCases DEF IInv
<1>4. ASSUME NEW t \in Trunks, ServerFeedFirst(t), UNCHANGED clientVars
      PROVE  ServerTypes'
  <2> DEFINE p == held[t]
  <2>1. p \in Packets /\ p.serial \in Nat /\ p.cid \in Clients
    BY <1>4 DEF ServerFeedFirst, IInv, Types, ServerTypes, Packets
  <2>2. fed' = fed \/ fed' = [fed EXCEPT ![p.cid] = Append(@, [n |-> p.serial, t |-> t])]
    BY <1>4 DEF ServerFeedFirst, Feed
  <2>3. Append(fed[p.cid], [n |-> p.serial, t |-> t]) \in Seq(Fed)
    BY <2>1, ByAppend DEF IInv, Types, ServerTypes
  <2> HIDE DEF p
  <2>4. fed' \in [Clients -> Seq(Fed)]
    BY <2>1, <2>2, <2>3 DEF IInv, Types, ServerTypes
  <2> QED
    BY <1>4, <2>4 DEF ServerFeedFirst, chanVars, instVars, IInv, Types, ServerTypes
<1>5. ASSUME NEW t \in Trunks, ServerPong(t), UNCHANGED clientVars
      PROVE  ServerTypes'
  <2> DEFINE p == Packet("pong", NoClient, 0)
  <2>1. p \in Packets /\ p.op # "data"
    BY PacketFacts
  <2>2. chReply' = [chReply EXCEPT ![t] = Append(chReply[t], p)] /\ Len(chReply[t]) < ReplyCap
    BY <1>5 DEF ServerPong
  <2> HIDE DEF p
  <2>3. ReplyTypes'
    BY <2>1, <2>2, ReplyPut DEF IInv, Types
  <2> QED
    BY <1>5, <2>3 DEF ServerPong, chanVars, instVars, IInv, Types, ServerTypes, ReplyTypes
<1>6. ASSUME NEW t \in Trunks, ServerReadEnds(t), UNCHANGED clientVars
      PROVE  ServerTypes'
  BY <1>6 DEF ServerReadEnds, chanVars, clientVars, divVars, instVars, IInv, Types,
     ServerTypes, Instances
<1>7. ASSUME NEW t \in Trunks, ServerReply(t), UNCHANGED clientVars
      PROVE  ServerTypes'
  <2>1. chReply[t] \in Seq(Packets) /\ chReply[t] # << >> /\ Named(chReply[t])
    BY <1>7 DEF ServerReply, IInv, Types, ServerTypes
  <2>2. Tail(chReply[t]) \in Seq(Packets) /\ Named(Tail(chReply[t]))
    BY <2>1, DataTail
  <2>3. Len(Tail(chReply[t])) <= ReplyCap
    BY <2>1, TailFacts, Constants DEF IInv, Types, ServerTypes
  <2>4. chReply' = [chReply EXCEPT ![t] = Tail(chReply[t])]
    BY <1>7 DEF ServerReply
  <2> QED
    BY <1>7, <2>2, <2>3, <2>4 DEF ServerReply, chanVars, instVars, IInv, Types, ServerTypes
<1>8. ASSUME NEW t \in Trunks, ServerExit(t), UNCHANGED clientVars
      PROVE  ServerTypes'
  BY <1>8 DEF ServerExit, clientVars, divVars, instVars, netVars, IInv, Types,
     ServerTypes, Instances
<1>9. ASSUME NEW d \in Clients, InstanceLaunch(d), UNCHANGED clientVars
      PROVE  ServerTypes'
  BY <1>9 DEF InstanceLaunch, chanVars, clientVars, divVars, netVars, IInv, Types,
     ServerTypes, Instances
<1>10. ASSUME NEW d \in Clients, InstanceSelect(d), UNCHANGED clientVars
      PROVE  ServerTypes'
  BY <1>10 DEF InstanceSelect, chanVars, clientVars, divVars, netVars, IInv, Types,
     ServerTypes, Instances
<1>11. ASSUME NEW d \in Clients, SessionWrite(d), UNCHANGED clientVars
      PROVE  ServerTypes'
  <2>1. Channels \subseteq Trunks
    BY DEF Channels
  <2>2. sel[d] # "eosSend"
    BY <1>11 DEF SessionWrite, IInv, Instances
  <2>3. CASE hnd' = [hnd EXCEPT ![d] = "send"] /\ \E t \in Channels : rvia' = [rvia EXCEPT ![d] = t]
    BY <1>11, <2>1, <2>3 DEF SessionWrite, chanVars, IInv, Types, ServerTypes
  <2>4. CASE hnd' = [hnd EXCEPT ![d] = "closing"] /\ rvia' = rvia
    BY <1>11, <2>4 DEF SessionWrite, chanVars, IInv, Types, ServerTypes
  <2> QED
    BY <1>11, <2>3, <2>4 DEF SessionWrite
<1>12. ASSUME NEW d \in Clients, SessionSend(d), UNCHANGED clientVars
      PROVE  ServerTypes'
  <2> DEFINE p == Packet("data", d, replies[d])
             t == rvia[d]
  <2>1. p \in Packets /\ p.op = "data" /\ p.cid = d /\ t \in Trunks
    BY <1>12, PacketFacts DEF SessionSend, IInv, Types, ServerTypes
  <2>2. chReply' = [chReply EXCEPT ![t] = Append(chReply[t], p)] /\ Len(chReply[t]) < ReplyCap
    BY <1>12 DEF SessionSend
  <2>3. sel[d] # "eosSend"
    BY <1>12 DEF SessionSend, IInv, Instances
  <2> HIDE DEF p, t
  <2>4. ReplyTypes'
    BY <2>1, <2>2, ReplyPut DEF IInv, Types
  <2> QED
    BY <1>12, <2>3, <2>4 DEF SessionSend, chanVars, IInv, Types, ServerTypes, ReplyTypes
<1>13. ASSUME NEW d \in Clients, SessionEnds(d), UNCHANGED clientVars
      PROVE  ServerTypes'
  BY <1>13 DEF SessionEnds, chanVars, clientVars, divVars, netVars, IInv, Types,
     ServerTypes, Instances
<1>14. ASSUME NEW d \in Clients, SessionCloses(d), UNCHANGED clientVars
      PROVE  ServerTypes'
  BY <1>14 DEF SessionCloses, CloseInstance, chanVars, IInv, Types, ServerTypes
<1>15. ASSUME NEW d \in Clients, SessionSignals(d), UNCHANGED clientVars
      PROVE  ServerTypes'
  BY <1>15 DEF SessionSignals, chanVars, clientVars, divVars, netVars, IInv, Types,
     ServerTypes, Instances
<1>16. ASSUME NEW d \in Clients, InstanceEosPick(d), UNCHANGED clientVars
      PROVE  ServerTypes'
  <2>1. Channels \subseteq Trunks
    BY DEF Channels
  <2>2. CASE sel' = [sel EXCEPT ![d] = "eosSend"] /\ \E t \in Channels : rvia' = [rvia EXCEPT ![d] = t]
    BY <1>16, <2>1, <2>2 DEF InstanceEosPick, chanVars, IInv, Types, ServerTypes
  <2>3. CASE sel' = [sel EXCEPT ![d] = "exited"] /\ rvia' = rvia
    BY <1>16, <2>3 DEF InstanceEosPick, chanVars, IInv, Types, ServerTypes
  <2> QED
    BY <1>16, <2>2, <2>3 DEF InstanceEosPick
<1>17. ASSUME NEW d \in Clients, InstanceEosSend(d), UNCHANGED clientVars
      PROVE  ServerTypes'
  <2> DEFINE p == Packet("eos", d, 0)
             t == rvia[d]
  <2>1. p \in Packets /\ p.op # "data" /\ t \in Trunks
    BY <1>17, PacketFacts DEF InstanceEosSend, IInv, Types, ServerTypes
  <2>2. chReply' = [chReply EXCEPT ![t] = Append(chReply[t], p)] /\ Len(chReply[t]) < ReplyCap
    BY <1>17 DEF InstanceEosSend
  <2>3. hnd[d] # "send"
    BY <1>17 DEF InstanceEosSend, IInv, Instances
  <2> HIDE DEF p, t
  <2>4. ReplyTypes'
    BY <2>1, <2>2, ReplyPut DEF IInv, Types
  <2> QED
    BY <1>17, <2>3, <2>4 DEF InstanceEosSend, chanVars, IInv, Types, ServerTypes, ReplyTypes
<1>18. ASSUME NEW d \in Clients, InstanceDelete(d), UNCHANGED clientVars
      PROVE  ServerTypes'
  BY <1>18 DEF InstanceDelete, chanVars, clientVars, divVars, netVars, IInv, Types,
     ServerTypes, Instances
<1> QED
  BY <1>1, <1>2, <1>3, <1>4, <1>5, <1>6, <1>7, <1>8, <1>9, <1>10, <1>11, <1>12, <1>13,
     <1>14, <1>15, <1>16, <1>17, <1>18, ServerCases

-----------------------------------------------------------------------------
(* What the steps of the way up do to queues and histories *)

(* The numbers of a client's writes are below its serial, each went by one trunk, and *)
(* number and place tell the same order.                                               *)
LEMMA NumbersSent ==
    ASSUME Types, SentInOrder, NEW d \in Clients
    PROVE  /\ sent[d] \in Seq(Fed) /\ Len(sent[d]) \in Nat /\ serial[d] \in Nat
           /\ \A i \in 1..Len(sent[d]) : /\ sent[d][i] \in Fed /\ sent[d][i].n \in Nat
                                         /\ sent[d][i].t \in Trunks
           /\ \A t : \A n \in By(sent[d], t) : n \in Nat /\ n < serial[d]
           /\ \A s, t : s # t => By(sent[d], s) \cap By(sent[d], t) = {}
           /\ \A i, j \in 1..Len(sent[d]) : sent[d][i].n = sent[d][j].n => i = j
           /\ \A i, j \in 1..Len(sent[d]) : sent[d][i].n < sent[d][j].n => i < j
<1>1. sent[d] \in Seq(Fed) /\ Len(sent[d]) \in Nat /\ serial[d] \in Nat
  BY DEF Types, ClientTypes
<1>2. \A i \in 1..Len(sent[d]) : sent[d][i] \in Fed
  BY <1>1
<1>3. \A i \in 1..Len(sent[d]) : sent[d][i].n \in Nat /\ sent[d][i].t \in Trunks
  BY <1>2 DEF Fed
<1>4. /\ \A i \in 1..Len(sent[d]) : sent[d][i].n < serial[d]
      /\ \A i, j \in 1..Len(sent[d]) : i < j => sent[d][i].n < sent[d][j].n
  BY DEF SentInOrder
<1>5. \A i, j \in 1..Len(sent[d]) : i < j \/ j < i \/ i = j
  BY <1>1
<1>6. /\ \A i, j \in 1..Len(sent[d]) : sent[d][i].n = sent[d][j].n => i = j
      /\ \A i, j \in 1..Len(sent[d]) : sent[d][i].n < sent[d][j].n => i < j
  BY <1>3, <1>4, <1>5
<1>7. \A t : \A n \in By(sent[d], t) : n \in Nat /\ n < serial[d]
  BY <1>4 DEF By
<1>8. ASSUME NEW s, NEW t, s # t, NEW n \in By(sent[d], s), n \in By(sent[d], t)
      PROVE  FALSE
  <2>1. PICK i \in 1..Len(sent[d]) : sent[d][i].n = n /\ sent[d][i].t = s
    BY DEF By
  <2>2. PICK j \in 1..Len(sent[d]) : sent[d][j].n = n /\ sent[d][j].t = t
    BY <1>8 DEF By
  <2> QED
    BY <1>6, <1>8, <2>1, <2>2
<1> QED
  BY <1>1, <1>2, <1>3, <1>6, <1>7, <1>8

(* A write is one more of its client's on its trunk, if that one works. *)
LEMMA WriteEffect ==
    ASSUME Types, SentInOrder, UpCarried, NEW d \in Clients, WriteSend(d)
    PROVE  LET t == wvia[d] IN
           /\ t \in Trunks /\ serial[d] \in Nat /\ trunk[t] \in {"up", "broken", "gone"}
           /\ \A s \in Trunks : s # t => up'[s] = up[s]
           /\ \A e, n : n \in Data(up'[t], e) <=>
                  \/ n \in Data(up[t], e)
                  \/ e = d /\ n = serial[d] /\ trunk[t] = "up" /\ conn[t] = "open"
           /\ Ordered(up'[t])
           /\ serial' = [serial EXCEPT ![d] = @ + 1]
           /\ \A e \in Clients : e # d => sent'[e] = sent[e]
           /\ sent'[d] = Append(sent[d], [n |-> serial[d], t |-> t])
           /\ \A s, n : n \in By(sent'[d], s) <=> n \in By(sent[d], s) \/ (n = serial[d] /\ s = t)
<1> DEFINE t == wvia[d]
           p == Packet("data", d, serial[d])
<1>1. /\ t \in Trunks /\ serial[d] \in Nat /\ trunk[t] \in {"up", "broken", "gone"}
      /\ serial' = [serial EXCEPT ![d] = @ + 1]
      /\ \A e \in Clients : e # d => sent'[e] = sent[e]
      /\ sent'[d] = Append(sent[d], [n |-> serial[d], t |-> t])
  BY DEF WriteSend, Types, ClientTypes
<1>2. \A s, n : n \in By(sent'[d], s) <=> n \in By(sent[d], s) \/ (n = serial[d] /\ s = t)
  <2>1. sent[d] \in Seq(Fed)
    BY DEF Types, ClientTypes
  <2> QED
    BY <1>1, <2>1, ByAppend
<1>3. p \in Packets /\ p.op = "data" /\ p.cid = d /\ p.serial = serial[d] /\ Wire(p) = p
  BY <1>1, PacketFacts, WireFacts
<1>4. /\ \A n \in Data(up[t], d) : n < serial[d]
      /\ Ordered(up[t]) /\ up[t] \in Seq(Packets)
  BY <1>1, NumbersSent DEF UpCarried, Types, NetTypes
<1>5. /\ conn[t] = "open" => Sent(t, p) = Append(up[t], p)
      /\ conn[t] # "open" => Sent(t, p) = up[t]
  BY <1>1, <1>3, SentFacts DEF Types
<1>6. \/ trunk[t] = "up" /\ up' = [up EXCEPT ![t] = Sent(t, p)]
      \/ trunk[t] # "up" /\ up' = up
  BY DEF WriteSend
<1> HIDE DEF p, t
<1>7. /\ \A s \in Trunks : s # t => up'[s] = up[s]
      /\ up'[t] = IF trunk[t] = "up" /\ conn[t] = "open" THEN Append(up[t], p) ELSE up[t]
  BY <1>1, <1>5, <1>6 DEF Types, NetTypes
<1>8. CASE trunk[t] = "up" /\ conn[t] = "open"
  <2>1. /\ \A e, n : n \in Data(up'[t], e) <=> n \in Data(up[t], e) \/ (n = serial[d] /\ d = e)
        /\ Ordered(up'[t])
    BY <1>3, <1>4, <1>7, <1>8, DataAppend
  <2> QED
    BY <1>1, <1>2, <1>7, <1>8, <2>1 DEF t
<1>9. CASE ~ (trunk[t] = "up" /\ conn[t] = "open")
  <2>1. up'[t] = up[t]
    BY <1>7, <1>9
  <2> QED
    BY <1>1, <1>2, <1>4, <1>7, <1>9, <2>1 DEF t
<1> QED
  BY <1>8, <1>9

(* OP_PING and OP_EOS are no data packets. *)
LEMMA QuietEffect ==
    ASSUME Types, UpCarried,
           (\E t \in Trunks : SendPing(t)) \/ (\E d \in Clients : CloseSend(d))
    PROVE  /\ \A s \in Trunks : Ordered(up'[s])
           /\ \A s \in Trunks : \A e, n : n \in Data(up'[s], e) <=> n \in Data(up[s], e)
           /\ UNCHANGED <<trunk, conn, sent>>
<1>1. PICK t \in Trunks, q \in Seq(Packets) :
          /\ up' = up \/ up' = [up EXCEPT ![t] = q]
          /\ Ordered(q) /\ \A e, n : n \in Data(q, e) <=> n \in Data(up[t], e)
  <2>1. ASSUME NEW t \in Trunks, SendPing(t)
        PROVE  \E q \in Seq(Packets) :
                 /\ up' = [up EXCEPT ![t] = q]
                 /\ Ordered(q) /\ \A e, n : n \in Data(q, e) <=> n \in Data(up[t], e)
    <3> DEFINE p == Wire(Packet("ping", NoClient, 0))
    <3>1. p \in Packets /\ p.op # "data"
      BY PacketFacts, WireFacts
    <3>2. up' = [up EXCEPT ![t] = Append(up[t], p)]
      BY <2>1 DEF SendPing
    <3>3. up[t] \in Seq(Packets) /\ Ordered(up[t])
      BY DEF Types, NetTypes, UpCarried
    <3> HIDE DEF p
    <3>4. /\ Append(up[t], p) \in Seq(Packets) /\ Ordered(Append(up[t], p))
          /\ \A e, n : n \in Data(Append(up[t], p), e) <=> n \in Data(up[t], e)
      BY <3>1, <3>3, DataQuiet
    <3> QED
      BY <3>2, <3>4
  <2>2. ASSUME NEW d \in Clients, CloseSend(d)
        PROVE  \E t \in Trunks, q \in Seq(Packets) :
                 /\ up' = up \/ up' = [up EXCEPT ![t] = q]
                 /\ Ordered(q) /\ \A e, n : n \in Data(q, e) <=> n \in Data(up[t], e)
    <3> DEFINE p == Packet("eos", d, serial[d])
               t == cvia[d]
    <3>1. p \in Packets /\ p.op = "eos" /\ t \in Trunks
      BY <2>2, PacketFacts DEF CloseSend, Types, ClientTypes
    <3>2. up' = up \/ up' = [up EXCEPT ![t] = Sent(t, p)]
      BY <2>2 DEF CloseSend
    <3>3. up[t] \in Seq(Packets) /\ Ordered(up[t])
      BY <3>1 DEF Types, NetTypes, UpCarried
    <3> HIDE DEF p, t
    <3>4. Sent(t, p) = Append(up[t], Wire(p)) \/ Sent(t, p) = up[t]
      BY DEF Sent
    <3>5. Wire(p) \in Packets /\ Wire(p).op # "data"
      BY <3>1, WireFacts
    <3>6. CASE Sent(t, p) = Append(up[t], Wire(p))
      <4>1. /\ Sent(t, p) \in Seq(Packets) /\ Ordered(Sent(t, p))
            /\ \A e, n : n \in Data(Sent(t, p), e) <=> n \in Data(up[t], e)
        BY <3>3, <3>5, <3>6, DataQuiet
      <4> QED
        BY <3>1, <3>2, <4>1
    <3>7. CASE Sent(t, p) = up[t]
      BY <3>1, <3>2, <3>3, <3>7
    <3> QED
      BY <3>4, <3>6, <3>7
  <2> QED
    BY <2>1, <2>2
<1>2. UNCHANGED <<trunk, conn, sent>>
  BY DEF SendPing, CloseSend, divVars
<1> QED
  BY <1>1, <1>2 DEF Types, NetTypes, UpCarried

(* A packet the reader takes is before all others of its client. *)
LEMMA TakeEffect ==
    ASSUME Types, UpCarried, NEW t \in Trunks, Takes(t), up[t] # << >>
    PROVE  LET p == Head(up[t]) IN
           /\ \A s \in Trunks : s # t => up'[s] = up[s]
           /\ p.serial \in Nat
           /\ \A e, n : n \in Data(up[t], e) <=>
                  n \in Data(up'[t], e) \/ (n = p.serial /\ p.op = "data" /\ p.cid = e)
           /\ Ordered(up'[t])
           /\ p.op = "data" => \A n \in Data(up'[t], p.cid) : n \in Nat /\ p.serial < n
<1>1. up' = [up EXCEPT ![t] = Tail(up[t])] /\ up[t] \in Seq(Packets) /\ Ordered(up[t])
  BY DEF Takes, Types, NetTypes, UpCarried
<1>2. up'[t] = Tail(up[t]) /\ \A s \in Trunks : s # t => up'[s] = up[s]
  BY <1>1 DEF Types, NetTypes
<1>3. Head(up[t]).serial \in Nat
  BY <1>1, DataTail DEF Packets
<1>4. \A e : \A n \in Data(up'[t], e) : n \in Nat
  BY DEF Data
<1> DEFINE r == Tail(up[t])
<1>5. /\ \A e, n : n \in Data(up[t], e) <=>
              \/ n \in Data(r, e)
              \/ n = Head(up[t]).serial /\ Head(up[t]).op = "data" /\ Head(up[t]).cid = e
      /\ Ordered(r)
      /\ Head(up[t]).op = "data" => \A n \in Data(r, Head(up[t]).cid) : Head(up[t]).serial < n
  BY <1>1, DataTail
<1> HIDE DEF r
<1> QED
  BY <1>2, <1>3, <1>4, <1>5 DEF r

(* What is fed to an instance is one more that came by its trunk. *)
LEMMA FeedEffect ==
    ASSUME Types, NEW t \in Trunks, NEW c \in Clients, NEW m \in Nat,
           fed' = [fed EXCEPT ![c] = Append(@, [n |-> m, t |-> t])]
    PROVE  /\ \A e \in Clients : e # c => fed'[e] = fed[e]
           /\ fed'[c] = Append(fed[c], [n |-> m, t |-> t])
           /\ \A s, n : n \in By(fed'[c], s) <=> n \in By(fed[c], s) \/ (n = m /\ s = t)
           /\ InTrunkOrder(fed[c]) /\ (\A s \in Trunks : m \notin By(fed[c], s))
                /\ (\A n \in By(fed[c], t) : n < m) => InTrunkOrder(fed'[c])
<1>1. fed \in [Clients -> Seq(Fed)] /\ fed[c] \in Seq(Fed)
  BY DEF Types, ServerTypes
<1>2. /\ \A e \in Clients : e # c => fed'[e] = fed[e]
      /\ fed'[c] = Append(fed[c], [n |-> m, t |-> t])
  BY <1>1
<1> QED
  BY <1>1, <1>2, ByAppend

(* A step that changes no data packet on its way keeps what the trunks carry. *)
LEMMA UpSame ==
    ASSUME UpCarried, UNCHANGED <<fed, rpc, held, sent>>,
           \A s \in Trunks : Ordered(up'[s]),
           \A s \in Trunks : \A e, n : n \in Data(up'[s], e) <=> n \in Data(up[s], e)
    PROVE  UpCarried'
<1>1. \A s \in Trunks, e \in Clients : Starts(s, e)' <=> Starts(s, e)
  BY DEF Starts
<1>2. \A s \in Trunks, e \in Clients : Data(up'[s], e) = Data(up[s], e)
  BY DEF Data
<1> QED
  BY <1>1, <1>2 DEF UpCarried

(* A packet that leaves a trunk and is fed to nobody leaves the others carried; it may *)
(* start an instance that has been fed nothing.                                        *)
LEMMA UpLess ==
    ASSUME UpCarried, NEW t \in Trunks, UNCHANGED <<fed, sent>>,
           \A s \in Trunks : s # t => up'[s] = up[s],
           Ordered(up'[t]), \A e, n : n \in Data(up'[t], e) => n \in Data(up[t], e),
           \A s \in Trunks, e \in Clients : Starts(s, e)' =>
               \/ Starts(s, e)
               \/ /\ s = t /\ 0 \in By(sent[e], t)
                  /\ 0 \notin Data(up'[t], e) /\ By(fed[e], t) = {}
    PROVE  UpCarried'
<1> SUFFICES ASSUME NEW s \in Trunks, NEW e \in Clients
             PROVE  /\ Ordered(up'[s])
                    /\ Data(up'[s], e) \subseteq By(sent[e], s)
                    /\ By(fed[e], s) \subseteq By(sent[e], s)
                    /\ \A m \in By(fed[e], s), n \in Data(up'[s], e) : m < n
                    /\ Starts(s, e)' => /\ 0 \in By(sent[e], s)
                                        /\ 0 \notin Data(up'[s], e) /\ By(fed[e], s) = {}
  BY DEF UpCarried
<1>1. /\ Ordered(up[s])
      /\ Data(up[s], e) \subseteq By(sent[e], s)
      /\ By(fed[e], s) \subseteq By(sent[e], s)
      /\ \A m \in By(fed[e], s), n \in Data(up[s], e) : m < n
      /\ Starts(s, e) => /\ 0 \in By(sent[e], s)
                         /\ 0 \notin Data(up[s], e) /\ By(fed[e], s) = {}
  BY DEF UpCarried
<1>2. Ordered(up'[s]) /\ \A n : n \in Data(up'[s], e) => n \in Data(up[s], e)
  BY <1>1
<1> QED
  BY <1>1, <1>2

(* A packet of trunk t that is above all it fed before is fed in order. *)
LEMMA FedInOrder ==
    ASSUME Types, SentInOrder, UpCarried, UpInTrunkOrder, NEW t \in Trunks, NEW c \in Clients,
           NEW m \in Nat, m \in By(sent[c], t), \A n \in By(fed[c], t) : n < m,
           fed' = [fed EXCEPT ![c] = Append(@, [n |-> m, t |-> t])]
    PROVE  UpInTrunkOrder'
<1>1. \A s \in Trunks : m \notin By(fed[c], s)
  <2> SUFFICES ASSUME NEW s \in Trunks, m \in By(fed[c], s)
               PROVE  FALSE
    OBVIOUS
  <2>1. CASE s = t
    BY <2>1
  <2>2. CASE s # t
    BY <2>2, NumbersSent DEF UpCarried
  <2> QED
    BY <2>1, <2>2
<1>2. InTrunkOrder(fed'[c]) /\ \A e \in Clients : e # c => fed'[e] = fed[e]
  BY <1>1, FeedEffect DEF UpInTrunkOrder
<1> QED
  BY <1>2 DEF UpInTrunkOrder

(* A client that has written a packet number 0 wrote it first. *)
LEMMA FirstIsZero ==
    ASSUME Types, SentInOrder, NEW d \in Clients, NEW t \in Trunks, 0 \in By(sent[d], t)
    PROVE  /\ sent[d] # << >> /\ sent[d][1].n = 0 /\ 1 \in 1..Len(sent[d])
           /\ \A i \in 1..Len(sent[d]) : sent[d][i].n = 0 => i = 1
<1>1. PICK i \in 1..Len(sent[d]) : sent[d][i].n = 0
  BY DEF By
<1>2. sent[d] # << >> /\ 1 \in 1..Len(sent[d]) /\ Len(sent[d]) \in Nat
  BY <1>1, NumbersSent
<1>3. sent[d][1].n \in Nat /\ (1 < i => sent[d][1].n < sent[d][i].n)
  BY <1>1, <1>2, NumbersSent DEF SentInOrder
<1>4. i = 1
  BY <1>1, <1>2, <1>3
<1> QED
  BY <1>1, <1>2, <1>4, NumbersSent

(* A step that takes packets off a trunk but loses none keeps what is kept. *)
LEMMA KeptLess ==
    ASSUME NEW d \in Clients, NEW t \in Trunks, Kept(d, t),
           sent' = sent, fed'[d] = fed[d], trunk' = trunk, conn' = conn,
           bufClosed \subseteq bufClosed',
           \A n : n \in Data(up'[t], d) => n \in Data(up[t], d),
           \A i \in 1..Len(sent[d]) : Safe(d, t, i) => Safe(d, t, i)'
    PROVE  Kept(d, t)'
<1>1. Cut(d) => Cut(d)'
  BY DEF Cut
<1> QED
  BY <1>1 DEF Kept

-----------------------------------------------------------------------------
(* Instances and numbers *)

(* The steps that change an instance's state. *)
LEMMA InstanceCases ==
    ASSUME [Next]_vars
    PROVE  \/ UNCHANGED <<inMap, sel, hnd, bufClosed>>
           \/ \E t \in Trunks : ServerRecv(t) /\ UNCHANGED clientVars
           \/ \E d \in Clients : InstanceLaunch(d) /\ UNCHANGED clientVars
           \/ \E d \in Clients : InstanceSelect(d) /\ UNCHANGED clientVars
           \/ \E d \in Clients : SessionWrite(d) /\ UNCHANGED clientVars
           \/ \E d \in Clients : SessionSend(d) /\ UNCHANGED clientVars
           \/ \E d \in Clients : SessionEnds(d) /\ UNCHANGED clientVars
           \/ \E d \in Clients : SessionCloses(d) /\ UNCHANGED clientVars
           \/ \E d \in Clients : SessionSignals(d) /\ UNCHANGED clientVars
           \/ \E d \in Clients : InstanceEosPick(d) /\ UNCHANGED clientVars
           \/ \E d \in Clients : InstanceEosSend(d) /\ UNCHANGED clientVars
           \/ \E d \in Clients : InstanceDelete(d) /\ UNCHANGED clientVars
<1>1. ASSUME NEW t \in Trunks, UNCHANGED serverVars,
             \/ AddTrunk(t) \/ Connected(t) \/ ConnectFails(t) \/ RelayEnds(t)
             \/ TrunkExits(t) \/ SendPing(t) \/ ClientRecv(t)
      PROVE  UNCHANGED <<inMap, sel, hnd, bufClosed>>
  BY ONLY <1>1 DEF AddTrunk, Connected, ConnectFails, RelayEnds, TrunkExits, SendPing,
     ClientRecv, chanVars, clientVars, divVars, serverVars
<1>2. ASSUME NEW d \in Clients, UNCHANGED serverVars,
             \/ Open(d) \/ WritePick(d) \/ WriteSend(d) \/ CloseBegin(d)
             \/ ClosePick(d) \/ CloseGivesUp(d) \/ CloseSend(d)
      PROVE  UNCHANGED <<inMap, sel, hnd, bufClosed>>
  BY ONLY <1>2 DEF Open, WritePick, WriteSend, CloseBegin, ClosePick, CloseGivesUp,
     CloseSend, chanVars, netVars, serverVars
<1>3. ASSUME NEW t \in Trunks, UNCHANGED clientVars,
             \/ Accept(t) \/ ServerFeedFirst(t) \/ ServerPong(t)
             \/ ServerReadEnds(t) \/ ServerReply(t) \/ ServerExit(t)
      PROVE  UNCHANGED <<inMap, sel, hnd, bufClosed>>
  BY ONLY <1>3 DEF Accept, ServerFeedFirst, ServerPong, ServerReadEnds, ServerReply,
     ServerExit, chanVars, clientVars, divVars, instVars, netVars, Feed
<1>4. CASE TrunkBreaks
  BY <1>4 DEF TrunkBreaks, ConnBreaks, clientVars, divVars, serverVars, chanVars
<1>5. CASE UNCHANGED vars
  BY <1>5 DEF vars, netVars, clientVars, divVars, serverVars, chanVars
<1> QED
  BY <1>1, <1>2, <1>3, <1>4, <1>5 DEF Next, ClientStep, ServerStep

(* An instance is in the map while it is served, and closed before it ends. *)
LEMMA InstancesStep == IInv /\ [Next]_vars => Instances'
<1> SUFFICES ASSUME IInv, [Next]_vars
             PROVE  Instances'
  OBVIOUS
<1>1. CASE UNCHANGED <<inMap, sel, hnd, bufClosed>>
  BY <1>1 DEF IInv, Instances
<1>2. ASSUME NEW t \in Trunks, ServerRecv(t), UNCHANGED clientVars
      PROVE  Instances'
  <2> DEFINE p == Head(up[t])
  <2>1. hnd' = hnd /\ (p.op = "data" => p.cid \in Clients)
    BY <1>2, RecvCases DEF IInv, Takes
  <2>2. CASE /\ p.op = "data" /\ p.cid \notin inMap
             /\ inMap' = inMap \cup {p.cid} /\ sel' = [sel EXCEPT ![p.cid] = "starting"]
             /\ UNCHANGED <<bufClosed, fed>>
    BY <2>1, <2>2 DEF IInv, Types, ServerTypes, Instances
  <2>3. CASE UNCHANGED <<inMap, sel, bufClosed>>
    BY <2>1, <2>3 DEF IInv, Instances
  <2>4. CASE p.cid \in inMap /\ CloseInstance(p.cid) /\ inMap' = inMap
    BY <2>1, <2>4 DEF CloseInstance, IInv, Types, ServerTypes, Instances
  <2> QED
    BY <1>2, <2>2, <2>3, <2>4, RecvCases DEF IInv
<1>3. ASSUME NEW d \in Clients, InstanceLaunch(d), UNCHANGED clientVars
      PROVE  Instances'
  BY <1>3 DEF InstanceLaunch, chanVars, clientVars, divVars, netVars, IInv, Types,
     ServerTypes, Instances
<1>4. ASSUME NEW d \in Clients, InstanceSelect(d), UNCHANGED clientVars
      PROVE  Instances'
  BY <1>4 DEF InstanceSelect, chanVars, clientVars, divVars, netVars, IInv, Types,
     ServerTypes, Instances
<1>5. ASSUME NEW d \in Clients, SessionWrite(d), UNCHANGED clientVars
      PROVE  Instances'
  BY <1>5 DEF SessionWrite, chanVars, clientVars, divVars, netVars, IInv, Types,
     ServerTypes, Instances
<1>6. ASSUME NEW d \in Clients, SessionSend(d), UNCHANGED clientVars
      PROVE  Instances'
  BY <1>6 DEF SessionSend, chanVars, clientVars, divVars, netVars, IInv, Types,
     ServerTypes, Instances
<1>7. ASSUME NEW d \in Clients, SessionEnds(d), UNCHANGED clientVars
      PROVE  Instances'
  BY <1>7 DEF SessionEnds, chanVars, clientVars, divVars, netVars, IInv, Types,
     ServerTypes, Instances
<1>8. ASSUME NEW d \in Clients, SessionCloses(d), UNCHANGED clientVars
      PROVE  Instances'
  BY <1>8 DEF SessionCloses, CloseInstance, IInv, Types, ServerTypes, Instances
<1>9. ASSUME NEW d \in Clients, SessionSignals(d), UNCHANGED clientVars
      PROVE  Instances'
  BY <1>9 DEF SessionSignals, chanVars, clientVars, divVars, netVars, IInv, Types,
     ServerTypes, Instances
<1>10. ASSUME NEW d \in Clients, InstanceEosPick(d), UNCHANGED clientVars
      PROVE  Instances'
  BY <1>10 DEF InstanceEosPick, chanVars, clientVars, divVars, netVars, IInv, Types,
     ServerTypes, Instances
<1>11. ASSUME NEW d \in Clients, InstanceEosSend(d), UNCHANGED clientVars
      PROVE  Instances'
  BY <1>11 DEF InstanceEosSend, chanVars, clientVars, divVars, netVars, IInv, Types,
     ServerTypes, Instances
<1>12. ASSUME NEW d \in Clients, InstanceDelete(d), UNCHANGED clientVars
      PROVE  Instances'
  BY <1>12 DEF InstanceDelete, chanVars, clientVars, divVars, netVars, IInv, Types,
     ServerTypes, Instances
<1> QED
  BY <1>1, <1>2, <1>3, <1>4, <1>5, <1>6, <1>7, <1>8, <1>9, <1>10, <1>11, <1>12,
     InstanceCases

(* The steps that number packets. *)
LEMMA SerialCases ==
    ASSUME [Next]_vars
    PROVE  \/ UNCHANGED <<sent, serial>>
           \/ \E d \in Clients : WriteSend(d) /\ UNCHANGED serverVars
           \/ \E d \in Clients : CloseSend(d) /\ UNCHANGED serverVars
<1>1. ASSUME NEW t \in Trunks, UNCHANGED serverVars,
             \/ AddTrunk(t) \/ Connected(t) \/ ConnectFails(t) \/ RelayEnds(t)
             \/ TrunkExits(t) \/ SendPing(t) \/ ClientRecv(t)
      PROVE  UNCHANGED <<sent, serial>>
  BY ONLY <1>1 DEF AddTrunk, Connected, ConnectFails, RelayEnds, TrunkExits, SendPing,
     ClientRecv, chanVars, clientVars, divVars, serverVars
<1>2. ASSUME NEW d \in Clients, UNCHANGED serverVars,
             \/ Open(d) \/ WritePick(d) \/ CloseBegin(d) \/ ClosePick(d)
             \/ CloseGivesUp(d)
      PROVE  UNCHANGED <<sent, serial>>
  BY ONLY <1>2 DEF Open, WritePick, CloseBegin, ClosePick, CloseGivesUp, chanVars,
     netVars, serverVars
<1>3. ASSUME NEW t \in Trunks, UNCHANGED clientVars,
             \/ Accept(t) \/ ServerRecv(t) \/ ServerFeedFirst(t) \/ ServerPong(t)
             \/ ServerReadEnds(t) \/ ServerReply(t) \/ ServerExit(t)
      PROVE  UNCHANGED <<sent, serial>>
  BY ONLY <1>3 DEF Accept, ServerRecv, ServerFeedFirst, ServerPong, ServerReadEnds,
     ServerReply, ServerExit, chanVars, clientVars, divVars, instVars, netVars, Feed,
     RecvData, CloseInstance
<1>4. ASSUME NEW d \in Clients, UNCHANGED clientVars,
             \/ InstanceLaunch(d) \/ InstanceSelect(d) \/ SessionWrite(d)
             \/ SessionSend(d) \/ SessionEnds(d) \/ SessionCloses(d)
             \/ SessionSignals(d) \/ InstanceEosPick(d) \/ InstanceEosSend(d)
             \/ InstanceDelete(d)
      PROVE  UNCHANGED <<sent, serial>>
  BY ONLY <1>4 DEF InstanceLaunch, InstanceSelect, SessionWrite, SessionSend, SessionEnds,
     SessionCloses, SessionSignals, InstanceEosPick, InstanceEosSend, InstanceDelete,
     chanVars, clientVars, divVars, netVars, CloseInstance
<1>5. CASE TrunkBreaks
  BY <1>5 DEF TrunkBreaks, ConnBreaks, clientVars, divVars, serverVars, chanVars
<1>6. CASE UNCHANGED vars
  BY <1>6 DEF vars, netVars, clientVars, divVars, serverVars, chanVars
<1> QED
  BY <1>1, <1>2, <1>3, <1>4, <1>5, <1>6 DEF Next, ClientStep, ServerStep

(* A client numbers its packets upwards. *)
LEMMA SentInOrderStep == IInv /\ [Next]_vars => SentInOrder'
<1> SUFFICES ASSUME IInv, [Next]_vars
             PROVE  SentInOrder'
  OBVIOUS
<1>1. CASE UNCHANGED <<sent, serial>>
  BY <1>1 DEF IInv, SentInOrder
<1>2. ASSUME NEW d \in Clients, WriteSend(d), UNCHANGED serverVars
      PROVE  SentInOrder'
  <2> DEFINE w == [n |-> serial[d], t |-> wvia[d]]
  <2>1. /\ w \in Fed /\ w.n = serial[d] /\ serial[d] \in Nat /\ sent[d] \in Seq(Fed)
    BY <1>2 DEF WriteSend, IInv, Types, ClientTypes, Fed
  <2>2. /\ \A e \in Clients : e # d => sent'[e] = sent[e] /\ serial'[e] = serial[e]
        /\ sent'[d] = Append(sent[d], w) /\ serial'[d] = serial[d] + 1
    BY <1>2 DEF WriteSend, IInv, Types, ClientTypes
  <2> HIDE DEF w
  <2>3. /\ Len(sent[d]) \in Nat /\ Len(sent'[d]) = Len(sent[d]) + 1
        /\ \A i \in 1..Len(sent[d]) : sent'[d][i] = sent[d][i] /\ sent[d][i] \in Fed
        /\ sent'[d][Len(sent[d]) + 1] = w
    BY <2>1, <2>2, AppendFacts
  <2>4. \A i \in 1..Len(sent[d]) : sent[d][i].n \in Nat
    BY <2>3 DEF Fed
  <2>5. \A i \in 1..Len(sent'[d]) :
            \/ i \in 1..Len(sent[d]) /\ sent'[d][i] = sent[d][i]
            \/ i = Len(sent[d]) + 1 /\ sent'[d][i] = w
    BY <2>3
  <2>6. /\ \A i \in 1..Len(sent[d]) : sent[d][i].n < serial[d]
        /\ \A i, j \in 1..Len(sent[d]) : i < j => sent[d][i].n < sent[d][j].n
    BY DEF IInv, SentInOrder
  <2>7. /\ \A i \in 1..Len(sent'[d]) : sent'[d][i].n < serial'[d]
        /\ \A i, j \in 1..Len(sent'[d]) : i < j => sent'[d][i].n < sent'[d][j].n
    BY <2>1, <2>2, <2>3, <2>4, <2>5, <2>6
  <2> QED
    BY <2>2, <2>7 DEF IInv, SentInOrder
<1>3. ASSUME NEW d \in Clients, CloseSend(d), UNCHANGED serverVars
      PROVE  SentInOrder'
  <2>1. /\ sent' = sent /\ serial' = [serial EXCEPT ![d] = @ + 1]
    BY <1>3 DEF CloseSend
  <2>2. \A e \in Clients : serial[e] \in Nat /\ sent[e] \in Seq(Fed) /\ serial'[e] >= serial[e]
                           /\ serial'[e] \in Nat
    BY <2>1 DEF IInv, Types, ClientTypes
  <2>3. \A e \in Clients : \A i \in 1..Len(sent[e]) : sent[e][i] \in Fed
    BY <2>2
  <2>4. \A e \in Clients : \A i \in 1..Len(sent[e]) : sent[e][i].n \in Nat
    BY <2>3 DEF Fed
  <2> QED
    BY <2>1, <2>2, <2>4 DEF IInv, SentInOrder
<1> QED
  BY <1>1, <1>2, <1>3, SerialCases

-----------------------------------------------------------------------------
(* The way up *)

(* The steps that change what is on its way up or what was fed. *)
LEMMA UpCases ==
    ASSUME [Next]_vars
    PROVE  \/ UNCHANGED <<up, sent, fed, rpc, held>>
           \/ \E t \in Trunks : SendPing(t) /\ UNCHANGED serverVars
           \/ \E d \in Clients : WriteSend(d) /\ UNCHANGED serverVars
           \/ \E d \in Clients : CloseSend(d) /\ UNCHANGED serverVars
           \/ \E t \in Trunks : ServerRecv(t) /\ UNCHANGED clientVars
           \/ \E t \in Trunks : ServerFeedFirst(t) /\ UNCHANGED clientVars
           \/ \E t \in Trunks : ServerPong(t) /\ UNCHANGED clientVars
           \/ \E t \in Trunks : ServerReadEnds(t) /\ UNCHANGED clientVars
<1>1. ASSUME NEW t \in Trunks, UNCHANGED serverVars,
             \/ AddTrunk(t) \/ Connected(t) \/ ConnectFails(t) \/ RelayEnds(t)
             \/ TrunkExits(t) \/ ClientRecv(t)
      PROVE  UNCHANGED <<up, sent, fed, rpc, held>>
  BY ONLY <1>1 DEF AddTrunk, Connected, ConnectFails, RelayEnds, TrunkExits, ClientRecv,
     chanVars, clientVars, divVars, serverVars
<1>2. ASSUME NEW d \in Clients, UNCHANGED serverVars,
             \/ Open(d) \/ WritePick(d) \/ CloseBegin(d) \/ ClosePick(d)
             \/ CloseGivesUp(d)
      PROVE  UNCHANGED <<up, sent, fed, rpc, held>>
  BY ONLY <1>2 DEF Open, WritePick, CloseBegin, ClosePick, CloseGivesUp, chanVars,
     netVars, serverVars
<1>3. ASSUME NEW t \in Trunks, UNCHANGED clientVars,
             \/ Accept(t) \/ ServerReply(t) \/ ServerExit(t)
      PROVE  UNCHANGED <<up, sent, fed, rpc, held>>
  BY ONLY <1>3 DEF Accept, ServerReply, ServerExit, chanVars, clientVars, divVars,
     instVars, netVars
<1>4. ASSUME NEW d \in Clients, UNCHANGED clientVars,
             \/ InstanceLaunch(d) \/ InstanceSelect(d) \/ SessionWrite(d)
             \/ SessionSend(d) \/ SessionEnds(d) \/ SessionCloses(d)
             \/ SessionSignals(d) \/ InstanceEosPick(d) \/ InstanceEosSend(d)
             \/ InstanceDelete(d)
      PROVE  UNCHANGED <<up, sent, fed, rpc, held>>
  BY ONLY <1>4 DEF InstanceLaunch, InstanceSelect, SessionWrite, SessionSend, SessionEnds,
     SessionCloses, SessionSignals, InstanceEosPick, InstanceEosSend, InstanceDelete,
     chanVars, clientVars, divVars, netVars, CloseInstance
<1>5. CASE TrunkBreaks
  BY <1>5 DEF TrunkBreaks, ConnBreaks, clientVars, divVars, serverVars, chanVars
<1>6. CASE UNCHANGED vars
  BY <1>6 DEF vars, netVars, clientVars, divVars, serverVars, chanVars
<1> QED
  BY <1>1, <1>2, <1>3, <1>4, <1>5, <1>6 DEF Next, ClientStep, ServerStep

(* A trunk carries and feeds a client's packets in the order they were written to it. *)
LEMMA UpCarriedStep == IInv /\ [Next]_vars => UpCarried'
<1> SUFFICES ASSUME IInv, [Next]_vars
             PROVE  UpCarried'
  OBVIOUS
<1>1. CASE UNCHANGED <<up, sent, fed, rpc, held>>
  BY <1>1 DEF IInv, UpCarried, Starts
<1>2. ASSUME NEW t \in Trunks, SendPing(t), UNCHANGED serverVars
      PROVE  UpCarried'
  <2>1. UNCHANGED <<fed, rpc, held>>
    BY <1>2 DEF serverVars
  <2> QED
    BY <1>2, <2>1, QuietEffect, UpSame DEF IInv
<1>3. ASSUME NEW d \in Clients, WriteSend(d), UNCHANGED serverVars
      PROVE  UpCarried'
  <2> DEFINE t == wvia[d]
             k == serial[d]
  <2>1. /\ t \in Trunks /\ k \in Nat
        /\ \A s \in Trunks : s # t => up'[s] = up[s]
        /\ \A e, n : n \in Data(up'[t], e) => n \in Data(up[t], e) \/ (e = d /\ n = k)
        /\ Ordered(up'[t])
        /\ \A e \in Clients : e # d => sent'[e] = sent[e]
        /\ \A s, n : n \in By(sent'[d], s) <=> n \in By(sent[d], s) \/ (n = k /\ s = t)
    BY <1>3, WriteEffect DEF IInv
  <2>2. UNCHANGED <<fed, rpc, held>>
    BY <1>3 DEF serverVars
  <2>3. \A s \in Trunks : \A n \in By(sent[d], s) : n \in Nat /\ n < k
    BY NumbersSent DEF IInv
  <2> HIDE DEF t, k
  <2> SUFFICES ASSUME NEW s \in Trunks, NEW e \in Clients
               PROVE  /\ Ordered(up'[s])
                      /\ Data(up'[s], e) \subseteq By(sent'[e], s)
                      /\ By(fed[e], s) \subseteq By(sent'[e], s)
                      /\ \A m \in By(fed[e], s), n \in Data(up'[s], e) : m < n
                      /\ Starts(s, e) => /\ 0 \in By(sent'[e], s)
                                         /\ 0 \notin Data(up'[s], e) /\ By(fed[e], s) = {}
    BY <2>1, <2>2 DEF UpCarried, Starts, IInv
  <2>4. /\ Ordered(up[s])
        /\ Data(up[s], e) \subseteq By(sent[e], s)
        /\ By(fed[e], s) \subseteq By(sent[e], s)
        /\ \A m \in By(fed[e], s), n \in Data(up[s], e) : m < n
        /\ Starts(s, e) => /\ 0 \in By(sent[e], s)
                           /\ 0 \notin Data(up[s], e) /\ By(fed[e], s) = {}
    BY DEF IInv, UpCarried
  <2>5. \A n : n \in By(sent[e], s) => n \in By(sent'[e], s)
    BY <2>1
  <2>6. \A n \in Data(up'[s], e) : n \in Data(up[s], e) \/ (e = d /\ s = t /\ n = k)
    BY <2>1
  <2>7. e = d /\ s = t => k \in By(sent'[e], s)
    BY <2>1
  <2>8. \A m \in By(fed[e], s), n \in Data(up'[s], e) : m < n
    BY <2>3, <2>4, <2>6
  <2>9. Starts(s, e) /\ e = d => k # 0
    BY <2>1, <2>3, <2>4
  <2>10. Ordered(up'[s])
    BY <2>1, <2>4
  <2> QED
    BY <2>4, <2>5, <2>6, <2>7, <2>8, <2>9, <2>10
<1>4. ASSUME NEW d \in Clients, CloseSend(d), UNCHANGED serverVars
      PROVE  UpCarried'
  <2>1. UNCHANGED <<fed, rpc, held>>
    BY <1>4 DEF serverVars
  <2> QED
    BY <1>4, <2>1, QuietEffect, UpSame DEF IInv
<1>5. ASSUME NEW t \in Trunks, ServerRecv(t), UNCHANGED clientVars
      PROVE  UpCarried'
  <2> DEFINE p == Head(up[t])
  <2>1. /\ Takes(t) /\ up[t] # << >> /\ (p.op = "data" => p.cid \in Clients) /\ rpc[t] = "read"
    BY <1>5, RecvCases DEF IInv, Takes
  <2>2. /\ \A s \in Trunks : s # t => up'[s] = up[s]
        /\ p.serial \in Nat
        /\ \A e, n : n \in Data(up[t], e) <=>
               n \in Data(up'[t], e) \/ (n = p.serial /\ p.op = "data" /\ p.cid = e)
        /\ Ordered(up'[t])
        /\ p.op = "data" => \A n \in Data(up'[t], p.cid) : n \in Nat /\ p.serial < n
    BY <2>1, TakeEffect DEF IInv
  <2>3. sent' = sent
    BY <1>5 DEF clientVars, divVars
  <2>4. rpc \in [Trunks -> {"read", "create", "pong", "ended"}] /\ held \in [Trunks -> Packets]
    BY DEF IInv, Types, ServerTypes
  <2>5. \A e \in Clients : ~ Starts(t, e)
    BY <2>1 DEF Starts
  <2> HIDE DEF p
  <2>6. CASE /\ p.op = "data" /\ p.serial = 0
             /\ rpc' = [rpc EXCEPT ![t] = "create"] /\ held' = [held EXCEPT ![t] = p]
             /\ fed' = fed
    <3>1. \A s \in Trunks, e \in Clients :
              Starts(s, e)' <=> IF s = t THEN e = p.cid ELSE Starts(s, e)
      BY <2>4, <2>6 DEF Starts
    <3>2. \A e \in Clients : \A m \in By(fed[e], t) : m \in Nat
      BY DEF By
    <3>3. 0 \in Data(up[t], p.cid) /\ p.cid \in Clients /\ 0 \notin Data(up'[t], p.cid)
      BY <2>1, <2>2, <2>6
    <3>4. 0 \in By(sent[p.cid], t) /\ \A m \in By(fed[p.cid], t) : m < 0
      BY <3>3 DEF IInv, UpCarried
    <3>5. By(fed[p.cid], t) = {}
      BY <3>2, <3>3, <3>4
    <3> QED
      BY <2>1, <2>2, <2>3, <2>6, <3>1, <3>3, <3>4, <3>5, UpLess DEF IInv
  <2>7. CASE /\ p.op = "data"
             /\ fed' = [fed EXCEPT ![p.cid] = Append(@, [n |-> p.serial, t |-> t])]
             /\ UNCHANGED <<rpc, held>>
    <3>1. /\ \A e \in Clients : e # p.cid => fed'[e] = fed[e]
          /\ \A s, n : n \in By(fed'[p.cid], s) <=> n \in By(fed[p.cid], s) \/ (n = p.serial /\ s = t)
      <4>1. Types /\ p.cid \in Clients /\ p.serial \in Nat
        BY <2>1, <2>2, <2>7 DEF IInv
      <4> QED
        BY <2>7, <4>1, FeedEffect
    <3>2. \A s \in Trunks, e \in Clients : Starts(s, e)' <=> Starts(s, e)
      BY <2>7 DEF Starts
    <3>3. p.serial \in By(sent[p.cid], t)
      BY <2>1, <2>2, <2>7 DEF IInv, UpCarried
    <3> SUFFICES ASSUME NEW s \in Trunks, NEW e \in Clients
                 PROVE  /\ Ordered(up'[s])
                        /\ Data(up'[s], e) \subseteq By(sent[e], s)
                        /\ By(fed'[e], s) \subseteq By(sent[e], s)
                        /\ \A m \in By(fed'[e], s), n \in Data(up'[s], e) : m < n
                        /\ Starts(s, e)' => /\ 0 \in By(sent[e], s)
                                            /\ 0 \notin Data(up'[s], e) /\ By(fed'[e], s) = {}
      BY <2>1, <2>3, <2>7 DEF UpCarried
    <3>4. /\ Ordered(up[s])
          /\ Data(up[s], e) \subseteq By(sent[e], s)
          /\ By(fed[e], s) \subseteq By(sent[e], s)
          /\ \A m \in By(fed[e], s), n \in Data(up[s], e) : m < n
          /\ Starts(s, e) => /\ 0 \in By(sent[e], s)
                             /\ 0 \notin Data(up[s], e) /\ By(fed[e], s) = {}
      BY DEF IInv, UpCarried
    <3>5. CASE s = t /\ e = p.cid
      BY <2>2, <2>5, <2>7, <3>1, <3>2, <3>3, <3>4, <3>5
    <3>6. CASE s # t \/ e # p.cid
      <4>1. \A n : n \in By(fed'[e], s) <=> n \in By(fed[e], s)
        <5>1. CASE e # p.cid
          BY <3>1, <5>1
        <5>2. CASE e = p.cid /\ s # t
          BY <3>1, <5>2
        <5> QED
          BY <3>6, <5>1, <5>2
      <4>2. Ordered(up'[s]) /\ \A n : n \in Data(up'[s], e) => n \in Data(up[s], e)
        BY <2>2, <3>4
      <4> QED
        BY <3>2, <3>4, <4>1, <4>2
    <3> QED
      BY <3>5, <3>6
  <2>8. CASE fed' = fed /\ held' = held /\ (rpc' = rpc \/ rpc' = [rpc EXCEPT ![t] = "pong"])
    <3>1. \A s \in Trunks, e \in Clients : Starts(s, e)' => Starts(s, e)
      BY <2>4, <2>8 DEF Starts
    <3> QED
      BY <2>1, <2>2, <2>3, <2>8, <3>1, UpLess DEF IInv
  <2> QED
    BY <1>5, <2>6, <2>7, <2>8, RecvCases DEF IInv, p
<1>6. ASSUME NEW t \in Trunks, ServerFeedFirst(t), UNCHANGED clientVars
      PROVE  UpCarried'
  <2> DEFINE c == held[t].cid
  <2>1. c \in Clients /\ held[t].serial = 0 /\ Starts(t, c)
    BY <1>6 DEF ServerFeedFirst, IInv, Types, ServerTypes, Starts
  <2>2. fed' = fed \/ fed' = [fed EXCEPT ![c] = Append(@, [n |-> 0, t |-> t])]
    BY <1>6, <2>1 DEF ServerFeedFirst, Feed
  <2>3. UNCHANGED <<up, sent, held>> /\ rpc' = [rpc EXCEPT ![t] = "read"]
    BY <1>6 DEF ServerFeedFirst, netVars, clientVars, divVars
  <2>4. \A s \in Trunks, e \in Clients : Starts(s, e)' <=> s # t /\ Starts(s, e)
    BY <2>3 DEF Starts, IInv, Types, ServerTypes
  <2> HIDE DEF c
  <2>5. CASE fed' = fed
    BY <2>3, <2>4, <2>5 DEF IInv, UpCarried
  <2>6. CASE fed' = [fed EXCEPT ![c] = Append(@, [n |-> 0, t |-> t])]
    <3>1. /\ \A e \in Clients : e # c => fed'[e] = fed[e]
          /\ \A s, n : n \in By(fed'[c], s) <=> n \in By(fed[c], s) \/ (n = 0 /\ s = t)
      <4>1. PICK k \in Nat : k = 0
        OBVIOUS
      <4>2. fed' = [fed EXCEPT ![c] = Append(@, [n |-> k, t |-> t])] /\ Types
        BY <2>6, <4>1 DEF IInv
      <4>3. /\ \A e \in Clients : e # c => fed'[e] = fed[e]
            /\ \A s, n : n \in By(fed'[c], s) <=> n \in By(fed[c], s) \/ (n = k /\ s = t)
        BY <2>1, <4>2, FeedEffect
      <4> QED
        BY <4>1, <4>3
    <3>2. 0 \in By(sent[c], t) /\ 0 \notin Data(up[t], c) /\ By(fed[c], t) = {}
      BY <2>1 DEF IInv, UpCarried
    <3>3. \A n \in Data(up[t], c) : n \in Nat
      BY DEF Data
    <3> SUFFICES ASSUME NEW s \in Trunks, NEW e \in Clients
                 PROVE  /\ By(fed'[e], s) \subseteq By(sent[e], s)
                        /\ \A m \in By(fed'[e], s), n \in Data(up[s], e) : m < n
                        /\ s # t /\ Starts(s, e) => By(fed'[e], s) = {}
      BY <2>3, <2>4 DEF UpCarried, IInv
    <3>4. /\ By(fed[e], s) \subseteq By(sent[e], s)
          /\ \A m \in By(fed[e], s), n \in Data(up[s], e) : m < n
          /\ Starts(s, e) => By(fed[e], s) = {}
      BY DEF IInv, UpCarried
    <3>5. CASE s = t /\ e = c
      BY <3>1, <3>2, <3>3, <3>4, <3>5
    <3>6. CASE s # t \/ e # c
      <4>1. \A n : n \in By(fed'[e], s) <=> n \in By(fed[e], s)
        <5>1. CASE e # c
          BY <3>1, <5>1
        <5>2. CASE e = c /\ s # t
          BY <3>1, <5>2
        <5> QED
          BY <3>6, <5>1, <5>2
      <4> QED
        BY <2>4, <3>4, <4>1
    <3> QED
      BY <3>5, <3>6
  <2> QED
    BY <2>2, <2>5, <2>6
<1>7. ASSUME NEW t \in Trunks, ServerPong(t), UNCHANGED clientVars
      PROVE  UpCarried'
  <2>1. UNCHANGED <<up, sent, held, fed>> /\ rpc' = [rpc EXCEPT ![t] = "read"]
    BY <1>7 DEF ServerPong, netVars, clientVars, divVars
  <2>2. \A s \in Trunks, e \in Clients : Starts(s, e)' => Starts(s, e)
    BY <2>1 DEF Starts, IInv, Types, ServerTypes
  <2> QED
    BY <2>1, <2>2 DEF IInv, UpCarried
<1>8. ASSUME NEW t \in Trunks, ServerReadEnds(t), UNCHANGED clientVars
      PROVE  UpCarried'
  <2>1. UNCHANGED <<sent, held, fed>> /\ rpc' = [rpc EXCEPT ![t] = "ended"]
    BY <1>8 DEF ServerReadEnds, clientVars, divVars
  <2>2. \A s \in Trunks, e \in Clients : Starts(s, e)' => Starts(s, e)
    BY <2>1 DEF Starts, IInv, Types, ServerTypes
  <2>3. /\ \A s \in Trunks : s # t => up'[s] = up[s]
        /\ up'[t] = << >>
    BY <1>8 DEF ServerReadEnds, IInv, Types, NetTypes
  <2>4. Ordered(up'[t]) /\ \A e, n : n \in Data(up'[t], e) => n \in Data(up[t], e)
    BY <2>3, DataEmpty
  <2> QED
    BY <2>1, <2>2, <2>3, <2>4, UpLess DEF IInv
<1> QED
  BY <1>1, <1>2, <1>3, <1>4, <1>5, <1>6, <1>7, <1>8, UpCases

(* What one trunk feeds an instance is in order, and nothing is fed twice. *)
LEMMA UpOrderStep == IInv /\ [Next]_vars => UpInTrunkOrder'
<1> SUFFICES ASSUME IInv, [Next]_vars
             PROVE  UpInTrunkOrder'
  OBVIOUS
<1>1. CASE UNCHANGED <<up, sent, fed, rpc, held>>
  BY <1>1 DEF IInv, UpInTrunkOrder
<1>2. ASSUME NEW t \in Trunks, SendPing(t), UNCHANGED serverVars
      PROVE  UpInTrunkOrder'
  BY <1>2 DEF serverVars, IInv, UpInTrunkOrder
<1>3. ASSUME NEW d \in Clients, WriteSend(d), UNCHANGED serverVars
      PROVE  UpInTrunkOrder'
  BY <1>3 DEF serverVars, IInv, UpInTrunkOrder
<1>4. ASSUME NEW d \in Clients, CloseSend(d), UNCHANGED serverVars
      PROVE  UpInTrunkOrder'
  BY <1>4 DEF serverVars, IInv, UpInTrunkOrder
<1>5. ASSUME NEW t \in Trunks, ServerRecv(t), UNCHANGED clientVars
      PROVE  UpInTrunkOrder'
  <2> DEFINE p == Head(up[t])
  <2>1. CASE /\ p.op = "data" /\ fed' = [fed EXCEPT ![p.cid] = Append(@, [n |-> p.serial, t |-> t])]
    <3>1. Takes(t) /\ up[t] # << >> /\ p.cid \in Clients
      BY <1>5, <2>1, RecvCases DEF IInv
    <3>2. p.serial \in Nat /\ p.serial \in Data(up[t], p.cid)
      BY <2>1, <3>1, TakeEffect DEF IInv
    <3> HIDE DEF p
    <3>3. /\ p.serial \in By(sent[p.cid], t)
          /\ \A m \in By(fed[p.cid], t) : m < p.serial
      BY <3>1, <3>2 DEF IInv, UpCarried
    <3> QED
      BY <2>1, <3>1, <3>2, <3>3, FedInOrder DEF IInv
  <2>2. CASE fed' = fed
    BY <2>2 DEF IInv, UpInTrunkOrder
  <2> QED
    BY <1>5, <2>1, <2>2, RecvCases DEF IInv
<1>6. ASSUME NEW t \in Trunks, ServerFeedFirst(t), UNCHANGED clientVars
      PROVE  UpInTrunkOrder'
  <2> DEFINE c == held[t].cid
  <2>1. c \in Clients /\ held[t].serial = 0 /\ Starts(t, c)
    BY <1>6 DEF ServerFeedFirst, IInv, Types, ServerTypes, Starts
  <2>2. fed' = fed \/ fed' = [fed EXCEPT ![c] = Append(@, [n |-> 0, t |-> t])]
    BY <1>6, <2>1 DEF ServerFeedFirst, Feed
  <2> HIDE DEF c
  <2>3. 0 \in By(sent[c], t) /\ By(fed[c], t) = {}
    BY <2>1 DEF IInv, UpCarried
  <2>4. CASE fed' = fed
    BY <2>4 DEF IInv, UpInTrunkOrder
  <2>5. CASE fed' = [fed EXCEPT ![c] = Append(@, [n |-> 0, t |-> t])]
    <3>1. PICK k \in Nat : k = 0
      OBVIOUS
    <3>2. /\ fed' = [fed EXCEPT ![c] = Append(@, [n |-> k, t |-> t])]
          /\ k \in By(sent[c], t) /\ \A n \in By(fed[c], t) : n < k
      BY <2>3, <2>5, <3>1
    <3> QED
      BY <2>1, <3>2, FedInOrder DEF IInv
  <2> QED
    BY <2>2, <2>4, <2>5
<1>7. ASSUME NEW t \in Trunks, ServerPong(t), UNCHANGED clientVars
      PROVE  UpInTrunkOrder'
  BY <1>7 DEF ServerPong, IInv, UpInTrunkOrder
<1>8. ASSUME NEW t \in Trunks, ServerReadEnds(t), UNCHANGED clientVars
      PROVE  UpInTrunkOrder'
  BY <1>8 DEF ServerReadEnds, IInv, UpInTrunkOrder
<1> QED
  BY <1>1, <1>2, <1>3, <1>4, <1>5, <1>6, <1>7, <1>8, UpCases

(* The steps that start an instance, feed it or change what is on its way up. *)
LEMMA StartCases ==
    ASSUME [Next]_vars
    PROVE  \/ UNCHANGED <<sel, sent, up, fed, rpc, held>>
           \/ \E t \in Trunks : SendPing(t) /\ UNCHANGED serverVars
           \/ \E d \in Clients : WriteSend(d) /\ UNCHANGED serverVars
           \/ \E d \in Clients : CloseSend(d) /\ UNCHANGED serverVars
           \/ \E t \in Trunks : ServerRecv(t) /\ UNCHANGED clientVars
           \/ \E t \in Trunks : ServerFeedFirst(t) /\ UNCHANGED clientVars
           \/ \E t \in Trunks : ServerPong(t) /\ UNCHANGED clientVars
           \/ \E t \in Trunks : ServerReadEnds(t) /\ UNCHANGED clientVars
           \/ \E d \in Clients : InstanceSelect(d) /\ UNCHANGED clientVars
           \/ \E d \in Clients : SessionCloses(d) /\ UNCHANGED clientVars
           \/ \E d \in Clients : SessionSignals(d) /\ UNCHANGED clientVars
           \/ \E d \in Clients : InstanceEosPick(d) /\ UNCHANGED clientVars
           \/ \E d \in Clients : InstanceEosSend(d) /\ UNCHANGED clientVars
           \/ \E d \in Clients : InstanceDelete(d) /\ UNCHANGED clientVars
<1>1. ASSUME NEW t \in Trunks, UNCHANGED serverVars,
             \/ AddTrunk(t) \/ Connected(t) \/ ConnectFails(t) \/ RelayEnds(t)
             \/ TrunkExits(t) \/ ClientRecv(t)
      PROVE  UNCHANGED <<sel, sent, up, fed, rpc, held>>
  BY ONLY <1>1 DEF AddTrunk, Connected, ConnectFails, RelayEnds, TrunkExits, ClientRecv,
     chanVars, clientVars, divVars, serverVars
<1>2. ASSUME NEW d \in Clients, UNCHANGED serverVars,
             \/ Open(d) \/ WritePick(d) \/ CloseBegin(d) \/ ClosePick(d)
             \/ CloseGivesUp(d)
      PROVE  UNCHANGED <<sel, sent, up, fed, rpc, held>>
  BY ONLY <1>2 DEF Open, WritePick, CloseBegin, ClosePick, CloseGivesUp, chanVars,
     netVars, serverVars
<1>3. ASSUME NEW t \in Trunks, UNCHANGED clientVars,
             \/ Accept(t) \/ ServerReply(t) \/ ServerExit(t)
      PROVE  UNCHANGED <<sel, sent, up, fed, rpc, held>>
  BY ONLY <1>3 DEF Accept, ServerReply, ServerExit, chanVars, clientVars, divVars,
     instVars, netVars
<1>4. ASSUME NEW d \in Clients, UNCHANGED clientVars,
             \/ InstanceLaunch(d) \/ SessionWrite(d) \/ SessionSend(d)
             \/ SessionEnds(d)
      PROVE  UNCHANGED <<sel, sent, up, fed, rpc, held>>
  BY ONLY <1>4 DEF InstanceLaunch, SessionWrite, SessionSend, SessionEnds, chanVars,
     clientVars, divVars, netVars
<1>5. CASE TrunkBreaks
  BY <1>5 DEF TrunkBreaks, ConnBreaks, clientVars, divVars, serverVars, chanVars
<1>6. CASE UNCHANGED vars
  BY <1>6 DEF vars, netVars, clientVars, divVars, serverVars, chanVars
<1> QED
  BY <1>1, <1>2, <1>3, <1>4, <1>5, <1>6 DEF Next, ClientStep, ServerStep

(* An instance starts once, with the first packet of its client. *)
LEMMA OneStartStep == IInv /\ [Next]_vars => OneStart'
<1> SUFFICES ASSUME IInv, [Next]_vars
             PROVE  OneStart'
  OBVIOUS
<1>1. CASE UNCHANGED <<sel, sent, up, fed, rpc, held>>
  BY <1>1 DEF IInv, OneStart, Starts
<1>2. ASSUME NEW t \in Trunks, SendPing(t), UNCHANGED serverVars
      PROVE  OneStart'
  <2>1. UNCHANGED <<sel, fed, rpc, held>>
    BY <1>2 DEF serverVars
  <2>2. sent' = sent /\ \A s \in Trunks : \A e, n : n \in Data(up'[s], e) <=> n \in Data(up[s], e)
    BY <1>2, QuietEffect DEF IInv
  <2> QED
    BY <2>1, <2>2 DEF IInv, OneStart, Starts
<1>3. ASSUME NEW d \in Clients, WriteSend(d), UNCHANGED serverVars
      PROVE  OneStart'
  <2> DEFINE t == wvia[d]
             w == [n |-> serial[d], t |-> t]
  <2>1. UNCHANGED <<sel, fed, rpc, held>>
    BY <1>3 DEF serverVars
  <2>2. /\ t \in Trunks /\ serial[d] \in Nat
        /\ \A s \in Trunks : s # t => up'[s] = up[s]
        /\ \A e, n : n \in Data(up'[t], e) => n \in Data(up[t], e) \/ (e = d /\ n = serial[d])
        /\ \A e \in Clients : e # d => sent'[e] = sent[e]
        /\ sent'[d] = Append(sent[d], w)
    BY <1>3, WriteEffect DEF IInv
  <2>3. w \in Fed /\ sent[d] \in Seq(Fed)
    BY <2>2 DEF IInv, Types, ClientTypes, Fed
  <2> HIDE DEF w, t
  <2>4. sent[d] # << >> => sent'[d] # << >> /\ sent'[d][1] = sent[d][1]
    BY <2>2, <2>3, AppendFacts
  <2>5. sel[d] # "none" => serial[d] # 0 /\ sent[d] # << >>
    <3>1. \A i \in 1..Len(sent[d]) : sent[d][i].n < serial[d] /\ sent[d][i].n \in Nat
      BY NumbersSent DEF IInv, SentInOrder
    <3>2. sent[d] # << >> => 1 \in 1..Len(sent[d])
      BY <2>3
    <3> QED
      BY <2>2, <3>1, <3>2 DEF IInv, OneStart
  <2> SUFFICES ASSUME NEW e \in Clients, sel[e] # "none"
               PROVE  /\ sent'[e] # << >> /\ sent'[e][1].n = 0
                      /\ \A s \in Trunks : 0 \notin Data(up'[s], e)
    BY <2>1 DEF IInv, OneStart, Starts
  <2>6. /\ sent[e] # << >> /\ sent[e][1].n = 0
        /\ \A s \in Trunks : 0 \notin Data(up[s], e)
    BY DEF IInv, OneStart
  <2>7. sent'[e] # << >> /\ sent'[e][1].n = 0
    BY <2>2, <2>4, <2>6
  <2>8. ASSUME NEW s \in Trunks
        PROVE  0 \notin Data(up'[s], e)
    BY <2>2, <2>5, <2>6
  <2> QED
    BY <2>7, <2>8
<1>4. ASSUME NEW d \in Clients, CloseSend(d), UNCHANGED serverVars
      PROVE  OneStart'
  <2>1. UNCHANGED <<sel, fed, rpc, held>>
    BY <1>4 DEF serverVars
  <2>2. sent' = sent /\ \A s \in Trunks : \A e, n : n \in Data(up'[s], e) <=> n \in Data(up[s], e)
    BY <1>4, QuietEffect DEF IInv
  <2> QED
    BY <2>1, <2>2 DEF IInv, OneStart, Starts
<1>5. ASSUME NEW t \in Trunks, ServerRecv(t), UNCHANGED clientVars
      PROVE  OneStart'
  <2> DEFINE p == Head(up[t])
  <2>1. /\ Takes(t) /\ up[t] # << >> /\ (p.op = "data" => p.cid \in Clients) /\ rpc[t] = "read"
    BY <1>5, RecvCases DEF IInv, Takes
  <2>2. /\ \A s \in Trunks : s # t => up'[s] = up[s]
        /\ p.serial \in Nat
        /\ \A e, n : n \in Data(up[t], e) <=>
               n \in Data(up'[t], e) \/ (n = p.serial /\ p.op = "data" /\ p.cid = e)
        /\ p.op = "data" => \A n \in Data(up'[t], p.cid) : n \in Nat /\ p.serial < n
    BY <2>1, TakeEffect DEF IInv
  <2>3. sent' = sent
    BY <1>5 DEF clientVars, divVars
  <2>4. /\ rpc \in [Trunks -> {"read", "create", "pong", "ended"}] /\ held \in [Trunks -> Packets]
        /\ sel \in [Clients -> {"none", "starting", "select", "eosPick", "eosSend",
                                "exited", "done"}]
        /\ fed \in [Clients -> Seq(Fed)]
    BY DEF IInv, Types, ServerTypes
  <2> HIDE DEF p
  <2>5. \A s \in Trunks, e \in Clients : 0 \in Data(up'[s], e) => 0 \in Data(up[s], e)
    BY <2>2
  <2>6. \A e \in Clients :
          /\ sel[e] # "none" => /\ sent[e] # << >> /\ sent[e][1].n = 0
                                /\ \A s \in Trunks : 0 \notin Data(up'[s], e)
          /\ sel[e] = "none" => fed[e] = << >> /\ \A s \in Trunks : ~ Starts(s, e)
    BY <2>5 DEF IInv, OneStart
  <2>7. CASE /\ p.op = "data" /\ p.serial = 0
             /\ sel' = [sel EXCEPT ![p.cid] = "starting"]
             /\ rpc' = [rpc EXCEPT ![t] = "create"] /\ held' = [held EXCEPT ![t] = p]
             /\ fed' = fed
    <3>1. 0 \in Data(up[t], p.cid) /\ p.cid \in Clients /\ 0 \notin Data(up'[t], p.cid)
      BY <2>1, <2>2, <2>7
    <3>2. 0 \in By(sent[p.cid], t)
      BY <3>1 DEF IInv, UpCarried
    <3>3. sent[p.cid] # << >> /\ sent[p.cid][1].n = 0
      BY <3>1, <3>2, FirstIsZero DEF IInv
    <3>4. \A s \in Trunks : 0 \notin Data(up'[s], p.cid)
      <4> SUFFICES ASSUME NEW s \in Trunks, s # t, 0 \in Data(up[s], p.cid)
                   PROVE  FALSE
        BY <2>5, <3>1
      <4>1. 0 \in By(sent[p.cid], s)
        BY <3>1 DEF IInv, UpCarried
      <4> QED
        BY <3>1, <3>2, <4>1, NumbersSent DEF IInv
    <3>5. \A s \in Trunks, e \in Clients :
              Starts(s, e)' <=> IF s = t THEN e = p.cid ELSE Starts(s, e)
      BY <2>4, <2>7 DEF Starts
    <3>6. \A e \in Clients : sel'[e] = IF e = p.cid THEN "starting" ELSE sel[e]
      BY <2>4, <2>7
    <3> QED
      BY <2>3, <2>6, <2>7, <3>3, <3>4, <3>5, <3>6 DEF OneStart
  <2>8. CASE /\ p.op = "data" /\ p.cid \in inMap
             /\ fed' = [fed EXCEPT ![p.cid] = Append(@, [n |-> p.serial, t |-> t])]
             /\ UNCHANGED <<rpc, held, sel>>
    <3>1. p.cid \in Clients /\ sel[p.cid] # "none"
      BY <2>1, <2>8 DEF IInv, Instances
    <3>2. \A e \in Clients : e # p.cid => fed'[e] = fed[e]
      BY <2>4, <2>8
    <3> QED
      BY <2>3, <2>6, <2>8, <3>1, <3>2 DEF OneStart, Starts
  <2>9. CASE p.cid \in inMap /\ CloseInstance(p.cid) /\ UNCHANGED <<rpc, held, fed>>
    <3>1. \A e \in Clients : sel'[e] = "none" <=> sel[e] = "none"
      BY <2>4, <2>9 DEF CloseInstance
    <3> QED
      BY <2>3, <2>6, <2>9, <3>1 DEF OneStart, Starts
  <2>10. CASE UNCHANGED <<held, sel, fed>> /\ (rpc' = rpc \/ rpc' = [rpc EXCEPT ![t] = "pong"])
    <3>1. \A s \in Trunks, e \in Clients : Starts(s, e)' => Starts(s, e)
      BY <2>4, <2>10 DEF Starts
    <3> QED
      BY <2>3, <2>6, <2>10, <3>1 DEF OneStart
  <2> QED
    BY <1>5, <2>7, <2>8, <2>9, <2>10, RecvCases DEF IInv, p
<1>6. ASSUME NEW t \in Trunks, ServerFeedFirst(t), UNCHANGED clientVars
      PROVE  OneStart'
  <2> DEFINE c == held[t].cid
  <2>1. c \in Clients /\ Starts(t, c)
    BY <1>6 DEF ServerFeedFirst, IInv, Types, ServerTypes, Starts
  <2>2. \A e \in Clients : e # c => fed'[e] = fed[e]
    BY <1>6 DEF ServerFeedFirst, Feed, IInv, Types, ServerTypes
  <2>3. UNCHANGED <<up, sent, held, sel>> /\ rpc' = [rpc EXCEPT ![t] = "read"]
    BY <1>6 DEF ServerFeedFirst, netVars, clientVars, divVars, instVars
  <2>4. \A s \in Trunks, e \in Clients : Starts(s, e)' => Starts(s, e)
    BY <2>3 DEF Starts, IInv, Types, ServerTypes
  <2> HIDE DEF c
  <2>5. sel[c] # "none"
    BY <2>1 DEF IInv, OneStart
  <2> QED
    BY <2>1, <2>2, <2>3, <2>4, <2>5 DEF IInv, OneStart
<1>7. ASSUME NEW t \in Trunks, ServerPong(t), UNCHANGED clientVars
      PROVE  OneStart'
  <2>1. UNCHANGED <<up, sent, held, fed, sel>> /\ rpc' = [rpc EXCEPT ![t] = "read"]
    BY <1>7 DEF ServerPong, netVars, clientVars, divVars, instVars
  <2>2. \A s \in Trunks, e \in Clients : Starts(s, e)' => Starts(s, e)
    BY <2>1 DEF Starts, IInv, Types, ServerTypes
  <2> QED
    BY <2>1, <2>2 DEF IInv, OneStart
<1>8. ASSUME NEW t \in Trunks, ServerReadEnds(t), UNCHANGED clientVars
      PROVE  OneStart'
  <2>1. UNCHANGED <<sent, held, fed, sel>> /\ rpc' = [rpc EXCEPT ![t] = "ended"]
    BY <1>8 DEF ServerReadEnds, clientVars, divVars, instVars
  <2>2. \A s \in Trunks, e \in Clients : Starts(s, e)' => Starts(s, e)
    BY <2>1 DEF Starts, IInv, Types, ServerTypes
  <2>3. \A s \in Trunks : s # t => up'[s] = up[s]
    BY <1>8 DEF ServerReadEnds, IInv, Types, NetTypes
  <2>4. \A e \in Clients : 0 \notin Data(up'[t], e)
    <3>1. up'[t] = << >>
      BY <1>8 DEF ServerReadEnds, IInv, Types, NetTypes
    <3> QED
      BY <3>1, DataEmpty
  <2> QED
    BY <2>1, <2>2, <2>3, <2>4 DEF IInv, OneStart
<1>9. ASSUME NEW d \in Clients, InstanceSelect(d), UNCHANGED clientVars
      PROVE  OneStart'
  <2>1. UNCHANGED <<up, sent, fed, rpc, held>>
    BY <1>9 DEF InstanceSelect, netVars, clientVars, divVars
  <2>2. \A e \in Clients : sel'[e] = "none" <=> sel[e] = "none"
    BY <1>9 DEF InstanceSelect, IInv, Types, ServerTypes
  <2> QED
    BY <2>1, <2>2 DEF IInv, OneStart, Starts
<1>10. ASSUME NEW d \in Clients, SessionCloses(d), UNCHANGED clientVars
      PROVE  OneStart'
  <2>1. UNCHANGED <<up, sent, fed, rpc, held>>
    BY <1>10 DEF SessionCloses, netVars, clientVars, divVars
  <2>2. \A e \in Clients : sel'[e] = "none" <=> sel[e] = "none"
    BY <1>10 DEF SessionCloses, CloseInstance, IInv, Types, ServerTypes
  <2> QED
    BY <2>1, <2>2 DEF IInv, OneStart, Starts
<1>11. ASSUME NEW d \in Clients, SessionSignals(d), UNCHANGED clientVars
      PROVE  OneStart'
  <2>1. UNCHANGED <<up, sent, fed, rpc, held>>
    BY <1>11 DEF SessionSignals, netVars, clientVars, divVars
  <2>2. \A e \in Clients : sel'[e] = "none" <=> sel[e] = "none"
    BY <1>11 DEF SessionSignals, IInv, Types, ServerTypes
  <2> QED
    BY <2>1, <2>2 DEF IInv, OneStart, Starts
<1>12. ASSUME NEW d \in Clients, InstanceEosPick(d), UNCHANGED clientVars
      PROVE  OneStart'
  <2>1. UNCHANGED <<up, sent, fed, rpc, held>>
    BY <1>12 DEF InstanceEosPick, netVars, clientVars, divVars
  <2>2. \A e \in Clients : sel'[e] = "none" <=> sel[e] = "none"
    BY <1>12 DEF InstanceEosPick, IInv, Types, ServerTypes
  <2> QED
    BY <2>1, <2>2 DEF IInv, OneStart, Starts
<1>13. ASSUME NEW d \in Clients, InstanceEosSend(d), UNCHANGED clientVars
      PROVE  OneStart'
  <2>1. UNCHANGED <<up, sent, fed, rpc, held>>
    BY <1>13 DEF InstanceEosSend, netVars, clientVars, divVars
  <2>2. \A e \in Clients : sel'[e] = "none" <=> sel[e] = "none"
    BY <1>13 DEF InstanceEosSend, IInv, Types, ServerTypes
  <2> QED
    BY <2>1, <2>2 DEF IInv, OneStart, Starts
<1>14. ASSUME NEW d \in Clients, InstanceDelete(d), UNCHANGED clientVars
      PROVE  OneStart'
  <2>1. UNCHANGED <<up, sent, fed, rpc, held>>
    BY <1>14 DEF InstanceDelete, netVars, clientVars, divVars
  <2>2. \A e \in Clients : sel'[e] = "none" <=> sel[e] = "none"
    BY <1>14 DEF InstanceDelete, IInv, Types, ServerTypes
  <2> QED
    BY <2>1, <2>2 DEF IInv, OneStart, Starts
<1> QED
  BY <1>1, <1>2, <1>3, <1>4, <1>5, <1>6, <1>7, <1>8, <1>9, <1>10, <1>11, <1>12, <1>13,
     <1>14, StartCases

(* The steps that change the state of a trunk or write to one. *)
LEMMA TrunkCases ==
    ASSUME [Next]_vars
    PROVE  \/ UNCHANGED <<trunk, sent>>
           \/ \E t \in Trunks : AddTrunk(t) /\ UNCHANGED serverVars
           \/ \E t \in Trunks : Connected(t) /\ UNCHANGED serverVars
           \/ \E t \in Trunks : ConnectFails(t) /\ UNCHANGED serverVars
           \/ \E t \in Trunks : RelayEnds(t) /\ UNCHANGED serverVars
           \/ \E t \in Trunks : TrunkExits(t) /\ UNCHANGED serverVars
           \/ \E d \in Clients : WriteSend(d) /\ UNCHANGED serverVars
<1>1. ASSUME NEW t \in Trunks, UNCHANGED serverVars,
             \/ SendPing(t) \/ ClientRecv(t)
      PROVE  UNCHANGED <<trunk, sent>>
  BY ONLY <1>1 DEF SendPing, ClientRecv, chanVars, divVars, serverVars
<1>2. ASSUME NEW d \in Clients, UNCHANGED serverVars,
             \/ Open(d) \/ WritePick(d) \/ CloseBegin(d) \/ ClosePick(d)
             \/ CloseGivesUp(d) \/ CloseSend(d)
      PROVE  UNCHANGED <<trunk, sent>>
  BY ONLY <1>2 DEF Open, WritePick, CloseBegin, ClosePick, CloseGivesUp, CloseSend,
     chanVars, netVars, serverVars
<1>3. ASSUME NEW t \in Trunks, UNCHANGED clientVars,
             \/ Accept(t) \/ ServerRecv(t) \/ ServerFeedFirst(t) \/ ServerPong(t)
             \/ ServerReadEnds(t) \/ ServerReply(t) \/ ServerExit(t)
      PROVE  UNCHANGED <<trunk, sent>>
  BY ONLY <1>3 DEF Accept, ServerRecv, ServerFeedFirst, ServerPong, ServerReadEnds,
     ServerReply, ServerExit, chanVars, clientVars, divVars, instVars, netVars, Feed,
     RecvData, CloseInstance
<1>4. ASSUME NEW d \in Clients, UNCHANGED clientVars,
             \/ InstanceLaunch(d) \/ InstanceSelect(d) \/ SessionWrite(d)
             \/ SessionSend(d) \/ SessionEnds(d) \/ SessionCloses(d)
             \/ SessionSignals(d) \/ InstanceEosPick(d) \/ InstanceEosSend(d)
             \/ InstanceDelete(d)
      PROVE  UNCHANGED <<trunk, sent>>
  BY ONLY <1>4 DEF InstanceLaunch, InstanceSelect, SessionWrite, SessionSend, SessionEnds,
     SessionCloses, SessionSignals, InstanceEosPick, InstanceEosSend, InstanceDelete,
     chanVars, clientVars, divVars, netVars, CloseInstance
<1>5. CASE TrunkBreaks
  BY <1>5 DEF TrunkBreaks, ConnBreaks, clientVars, divVars, serverVars, chanVars
<1>6. CASE UNCHANGED vars
  BY <1>6 DEF vars, netVars, clientVars, divVars, serverVars, chanVars
<1> QED
  BY <1>1, <1>2, <1>3, <1>4, <1>5, <1>6 DEF Next, ClientStep, ServerStep

(* A trunk that has been written to has been connected. *)
LEMMA WrittenStep == IInv /\ [Next]_vars => Written'
<1> SUFFICES ASSUME IInv, [Next]_vars
             PROVE  Written'
  OBVIOUS
<1>1. CASE UNCHANGED <<trunk, sent>>
  BY <1>1 DEF IInv, Written
<1>2. ASSUME NEW t \in Trunks, AddTrunk(t), UNCHANGED serverVars
      PROVE  Written'
  <2>1. sent' = sent
    BY <1>2 DEF AddTrunk, clientVars, divVars
  <2>2. \A u \in Trunks : trunk[u] \in {"up", "broken", "gone"} => trunk'[u] \in {"up", "broken", "gone"}
    BY <1>2 DEF AddTrunk, IInv, Types, NetTypes
  <2>3. \A d \in Clients : \A i \in 1..Len(sent[d]) : sent[d][i].t \in Trunks
    BY NumbersSent DEF IInv
  <2> QED
    BY <2>1, <2>2, <2>3 DEF IInv, Written
<1>3. ASSUME NEW t \in Trunks, Connected(t), UNCHANGED serverVars
      PROVE  Written'
  <2>1. sent' = sent
    BY <1>3 DEF Connected, clientVars, divVars
  <2>2. \A u \in Trunks : trunk[u] \in {"up", "broken", "gone"} => trunk'[u] \in {"up", "broken", "gone"}
    BY <1>3 DEF Connected, IInv, Types, NetTypes
  <2>3. \A d \in Clients : \A i \in 1..Len(sent[d]) : sent[d][i].t \in Trunks
    BY NumbersSent DEF IInv
  <2> QED
    BY <2>1, <2>2, <2>3 DEF IInv, Written
<1>4. ASSUME NEW t \in Trunks, ConnectFails(t), UNCHANGED serverVars
      PROVE  Written'
  <2>1. sent' = sent
    BY <1>4 DEF ConnectFails, clientVars, divVars
  <2>2. \A u \in Trunks : trunk[u] \in {"up", "broken", "gone"} => trunk'[u] \in {"up", "broken", "gone"}
    BY <1>4 DEF ConnectFails, IInv, Types, NetTypes
  <2>3. \A d \in Clients : \A i \in 1..Len(sent[d]) : sent[d][i].t \in Trunks
    BY NumbersSent DEF IInv
  <2> QED
    BY <2>1, <2>2, <2>3 DEF IInv, Written
<1>5. ASSUME NEW t \in Trunks, RelayEnds(t), UNCHANGED serverVars
      PROVE  Written'
  <2>1. sent' = sent
    BY <1>5 DEF RelayEnds, clientVars, divVars
  <2>2. \A u \in Trunks : trunk[u] \in {"up", "broken", "gone"} => trunk'[u] \in {"up", "broken", "gone"}
    BY <1>5 DEF RelayEnds, IInv, Types, NetTypes
  <2>3. \A d \in Clients : \A i \in 1..Len(sent[d]) : sent[d][i].t \in Trunks
    BY NumbersSent DEF IInv
  <2> QED
    BY <2>1, <2>2, <2>3 DEF IInv, Written
<1>6. ASSUME NEW t \in Trunks, TrunkExits(t), UNCHANGED serverVars
      PROVE  Written'
  <2>1. sent' = sent
    BY <1>6 DEF TrunkExits, clientVars, divVars
  <2>2. \A u \in Trunks : trunk[u] \in {"up", "broken", "gone"} => trunk'[u] \in {"up", "broken", "gone"}
    BY <1>6 DEF TrunkExits, IInv, Types, NetTypes
  <2>3. \A d \in Clients : \A i \in 1..Len(sent[d]) : sent[d][i].t \in Trunks
    BY NumbersSent DEF IInv
  <2> QED
    BY <2>1, <2>2, <2>3 DEF IInv, Written
<1>7. ASSUME NEW d \in Clients, WriteSend(d), UNCHANGED serverVars
      PROVE  Written'
  <2> DEFINE t == wvia[d]
             w == [n |-> serial[d], t |-> t]
  <2>1. /\ t \in Trunks /\ serial[d] \in Nat /\ trunk[t] \in {"up", "broken", "gone"}
        /\ \A e \in Clients : e # d => sent'[e] = sent[e]
        /\ sent'[d] = Append(sent[d], w)
    BY <1>7, WriteEffect DEF IInv
  <2>2. w \in Fed /\ w.t = t /\ sent[d] \in Seq(Fed) /\ trunk' = trunk
    BY <1>7, <2>1 DEF WriteSend, IInv, Types, ClientTypes, Fed
  <2> HIDE DEF w, t
  <2>3. \A i \in 1..Len(sent'[d]) :
            \/ i \in 1..Len(sent[d]) /\ sent'[d][i] = sent[d][i]
            \/ sent'[d][i] = w
    BY <2>1, <2>2, AppendFacts
  <2> QED
    BY <2>1, <2>2, <2>3 DEF IInv, Written
<1> QED
  BY <1>1, <1>2, <1>3, <1>4, <1>5, <1>6, <1>7, TrunkCases

(* The buffers that have overrun are of clients, and none is forgotten. *)
LEMMA OverrunStep == IInv /\ [Next]_vars => Overruns' /\ overrun \subseteq overrun'
<1> SUFFICES ASSUME IInv, [Next]_vars
             PROVE  Overruns' /\ overrun \subseteq overrun'
  OBVIOUS
<1>1. ASSUME NEW t \in Trunks, ServerRecv(t)
      PROVE  Overruns' /\ overrun \subseteq overrun'
  BY <1>1, RecvCases DEF IInv, Overruns
<1>2. ASSUME NEW t \in Trunks, ServerFeedFirst(t)
      PROVE  Overruns' /\ overrun \subseteq overrun'
  <2>1. held[t].cid \in Clients
    BY <1>2 DEF ServerFeedFirst, IInv, Types, ServerTypes
  <2>2. overrun' = overrun \/ overrun' = overrun \cup {held[t].cid}
    BY <1>2 DEF ServerFeedFirst, Feed
  <2> QED
    BY <2>1, <2>2 DEF IInv, Overruns
<1>3. ASSUME NEW t \in Trunks,
             \/ Accept(t) \/ ServerPong(t) \/ ServerReadEnds(t) \/ ServerReply(t)
             \/ ServerExit(t)
      PROVE  overrun' = overrun
  BY ONLY <1>3 DEF Accept, ServerPong, ServerReadEnds, ServerReply, ServerExit
<1>4. ASSUME NEW d \in Clients,
             \/ InstanceLaunch(d) \/ InstanceSelect(d) \/ SessionWrite(d)
             \/ SessionSend(d) \/ SessionEnds(d) \/ SessionCloses(d)
             \/ SessionSignals(d) \/ InstanceEosPick(d) \/ InstanceEosSend(d)
             \/ InstanceDelete(d)
      PROVE  overrun' = overrun
  BY ONLY <1>4 DEF InstanceLaunch, InstanceSelect, SessionWrite, SessionSend, SessionEnds,
     SessionCloses, SessionSignals, InstanceEosPick, InstanceEosSend, InstanceDelete
<1>5. CASE UNCHANGED serverVars
  BY <1>5 DEF serverVars, IInv, Overruns
<1>6. CASE UNCHANGED vars
  BY <1>6 DEF vars, serverVars, IInv, Overruns
<1>7. CASE TrunkBreaks
  BY <1>7 DEF TrunkBreaks, serverVars, IInv, Overruns
<1> QED
  BY <1>1, <1>2, <1>3, <1>4, <1>5, <1>6, <1>7 DEF Next, ServerStep, IInv, Overruns

(* The steps that can lose a packet. *)
LEMMA GapCases ==
    ASSUME [Next]_vars
    PROVE  \/ UNCHANGED <<trunk, conn, up, sent, fed, rpc, held, bufClosed>>
           \/ \E t \in Trunks : AddTrunk(t) /\ UNCHANGED serverVars
           \/ \E t \in Trunks : Connected(t) /\ UNCHANGED serverVars
           \/ \E t \in Trunks : ConnectFails(t) /\ UNCHANGED serverVars
           \/ \E t \in Trunks : RelayEnds(t) /\ UNCHANGED serverVars
           \/ \E t \in Trunks : TrunkExits(t) /\ UNCHANGED serverVars
           \/ \E t \in Trunks : SendPing(t) /\ UNCHANGED serverVars
           \/ \E d \in Clients : WriteSend(d) /\ UNCHANGED serverVars
           \/ \E d \in Clients : CloseSend(d) /\ UNCHANGED serverVars
           \/ \E t \in Trunks : Accept(t) /\ UNCHANGED clientVars
           \/ \E t \in Trunks : ServerRecv(t) /\ UNCHANGED clientVars
           \/ \E t \in Trunks : ServerFeedFirst(t) /\ UNCHANGED clientVars
           \/ \E t \in Trunks : ServerPong(t) /\ UNCHANGED clientVars
           \/ \E t \in Trunks : ServerReadEnds(t) /\ UNCHANGED clientVars
           \/ \E d \in Clients : SessionCloses(d) /\ UNCHANGED clientVars
           \/ TrunkBreaks
<1>1. ASSUME NEW t \in Trunks, UNCHANGED serverVars,
             \/ ClientRecv(t)
      PROVE  UNCHANGED <<trunk, conn, up, sent, fed, rpc, held, bufClosed>>
  BY ONLY <1>1 DEF ClientRecv, chanVars, serverVars
<1>2. ASSUME NEW d \in Clients, UNCHANGED serverVars,
             \/ Open(d) \/ WritePick(d) \/ CloseBegin(d) \/ ClosePick(d)
             \/ CloseGivesUp(d)
      PROVE  UNCHANGED <<trunk, conn, up, sent, fed, rpc, held, bufClosed>>
  BY ONLY <1>2 DEF Open, WritePick, CloseBegin, ClosePick, CloseGivesUp, chanVars,
     netVars, serverVars
<1>3. ASSUME NEW t \in Trunks, UNCHANGED clientVars,
             \/ ServerReply(t) \/ ServerExit(t)
      PROVE  UNCHANGED <<trunk, conn, up, sent, fed, rpc, held, bufClosed>>
  BY ONLY <1>3 DEF ServerReply, ServerExit, chanVars, clientVars, divVars, instVars,
     netVars
<1>4. ASSUME NEW d \in Clients, UNCHANGED clientVars,
             \/ InstanceLaunch(d) \/ InstanceSelect(d) \/ SessionWrite(d)
             \/ SessionSend(d) \/ SessionEnds(d) \/ SessionSignals(d)
             \/ InstanceEosPick(d) \/ InstanceEosSend(d) \/ InstanceDelete(d)
      PROVE  UNCHANGED <<trunk, conn, up, sent, fed, rpc, held, bufClosed>>
  BY ONLY <1>4 DEF InstanceLaunch, InstanceSelect, SessionWrite, SessionSend, SessionEnds,
     SessionSignals, InstanceEosPick, InstanceEosSend, InstanceDelete, chanVars,
     clientVars, divVars, netVars
<1>5. CASE UNCHANGED vars
  BY <1>5 DEF vars, netVars, clientVars, divVars, serverVars, chanVars
<1> QED
  BY <1>1, <1>2, <1>3, <1>4, <1>5 DEF Next, ClientStep, ServerStep

(* Of a client with one trunk what is lost are its last writes. *)
LEMMA NoGapStep == IInv /\ [Next]_vars => NoGap'
<1> SUFFICES ASSUME IInv, [Next]_vars
             PROVE  NoGap'
  OBVIOUS
<1>0. overrun \subseteq overrun'
  BY OverrunStep
<1>1. CASE UNCHANGED <<trunk, conn, up, sent, fed, rpc, held, bufClosed>>
  BY <1>0, <1>1 DEF IInv, NoGap, Only, Kept, Cut, Safe, Starts
<1>2. ASSUME NEW t \in Trunks, AddTrunk(t), UNCHANGED serverVars
      PROVE  NoGap'
  <2>1. UNCHANGED <<conn, up, sent, fed, rpc, held, bufClosed>>
    BY <1>2 DEF AddTrunk, clientVars, divVars, serverVars
  <2>2. \A u \in Trunks : trunk'[u] = "up" => trunk[u] = "up"
    BY <1>2 DEF AddTrunk, IInv, Types, NetTypes
  <2> QED
    BY <1>0, <2>1, <2>2 DEF IInv, NoGap, Only, Kept, Cut, Safe, Starts
<1>3. ASSUME NEW t \in Trunks, Connected(t), UNCHANGED serverVars
      PROVE  NoGap'
  <2>1. UNCHANGED <<conn, up, sent, fed, rpc, held, bufClosed>>
    BY <1>3 DEF Connected, clientVars, divVars, serverVars
  <2>2. trunk[t] = "connecting" /\ \A u \in Trunks : u # t => trunk'[u] = trunk[u]
    BY <1>3 DEF Connected, IInv, Types, NetTypes
  <2> SUFFICES ASSUME NEW d \in Clients, d \notin overrun', NEW u \in Trunks, Only(d, u)
               PROVE  Kept(d, u)'
    BY <2>1 DEF NoGap, Only
  <2>3. Kept(d, u)
    BY <1>0 DEF IInv, NoGap
  <2>4. CASE u # t
    BY <2>1, <2>2, <2>3, <2>4 DEF Kept, Cut, Safe, Starts
  <2>5. CASE u = t
    <3>1. \A i \in 1..Len(sent[d]) : FALSE
      BY <2>2, <2>5 DEF IInv, Written, Only
    <3> QED
      BY <2>1, <2>3, <3>1 DEF Kept
  <2> QED
    BY <2>4, <2>5
<1>4. ASSUME NEW t \in Trunks, ConnectFails(t), UNCHANGED serverVars
      PROVE  NoGap'
  <2>1. UNCHANGED <<conn, up, sent, fed, rpc, held, bufClosed>>
    BY <1>4 DEF ConnectFails, clientVars, divVars, serverVars
  <2>2. \A u \in Trunks : trunk'[u] = "up" => trunk[u] = "up"
    BY <1>4 DEF ConnectFails, IInv, Types, NetTypes
  <2> QED
    BY <1>0, <2>1, <2>2 DEF IInv, NoGap, Only, Kept, Cut, Safe, Starts
<1>5. ASSUME NEW t \in Trunks, RelayEnds(t), UNCHANGED serverVars
      PROVE  NoGap'
  <2>1. UNCHANGED <<conn, up, sent, fed, rpc, held, bufClosed>>
    BY <1>5 DEF RelayEnds, clientVars, divVars, serverVars
  <2>2. \A u \in Trunks : trunk'[u] = "up" => trunk[u] = "up"
    BY <1>5 DEF RelayEnds, IInv, Types, NetTypes
  <2> QED
    BY <1>0, <2>1, <2>2 DEF IInv, NoGap, Only, Kept, Cut, Safe, Starts
<1>6. ASSUME NEW t \in Trunks, TrunkExits(t), UNCHANGED serverVars
      PROVE  NoGap'
  <2>1. UNCHANGED <<conn, up, sent, fed, rpc, held, bufClosed>>
    BY <1>6 DEF TrunkExits, clientVars, divVars, serverVars
  <2>2. \A u \in Trunks : trunk'[u] = "up" => trunk[u] = "up"
    BY <1>6 DEF TrunkExits, IInv, Types, NetTypes
  <2> QED
    BY <1>0, <2>1, <2>2 DEF IInv, NoGap, Only, Kept, Cut, Safe, Starts
<1>7. ASSUME NEW t \in Trunks, SendPing(t), UNCHANGED serverVars
      PROVE  NoGap'
  <2>1. UNCHANGED <<fed, rpc, held, bufClosed>>
    BY <1>7 DEF serverVars
  <2>2. /\ UNCHANGED <<trunk, conn, sent>>
        /\ \A s \in Trunks : \A e, n : n \in Data(up'[s], e) <=> n \in Data(up[s], e)
    BY <1>7, QuietEffect DEF IInv
  <2> SUFFICES ASSUME NEW e \in Clients, e \notin overrun', NEW u \in Trunks, Only(e, u)
               PROVE  Kept(e, u)'
    BY <2>2 DEF NoGap, Only
  <2>3. \A i \in 1..Len(sent[e]) : Safe(e, u, i) => Safe(e, u, i)'
    BY <2>1, <2>2 DEF Safe, Starts
  <2>4. Kept(e, u)
    BY <1>0 DEF IInv, NoGap
  <2> QED
    BY <2>1, <2>2, <2>3, <2>4, KeptLess
<1>8. ASSUME NEW d \in Clients, WriteSend(d), UNCHANGED serverVars
      PROVE  NoGap'
  <2>1. PICK t \in Trunks, k \in Nat, w \in Fed :
        /\ w = [n |-> k, t |-> t]
        /\ \A s \in Trunks : s # t => up'[s] = up[s]
        /\ \A e, n : n \in Data(up'[t], e) <=>
               \/ n \in Data(up[t], e)
               \/ e = d /\ n = k /\ trunk[t] = "up" /\ conn[t] = "open"
        /\ \A e \in Clients : e # d => sent'[e] = sent[e]
        /\ sent'[d] = Append(sent[d], w)
        /\ k = serial[d]
    <3> DEFINE t == wvia[d]
               k == serial[d]
               w == [n |-> k, t |-> t]
    <3>1. /\ t \in Trunks /\ k \in Nat
          /\ \A s \in Trunks : s # t => up'[s] = up[s]
          /\ \A e, n : n \in Data(up'[t], e) <=>
                 \/ n \in Data(up[t], e)
                 \/ e = d /\ n = k /\ trunk[t] = "up" /\ conn[t] = "open"
          /\ \A e \in Clients : e # d => sent'[e] = sent[e]
          /\ sent'[d] = Append(sent[d], w)
      BY <1>8, WriteEffect DEF IInv
    <3>2. w \in Fed
      BY <3>1 DEF Fed
    <3> QED
      BY <3>1, <3>2
  <2>2. w.n = k /\ w.t = t /\ sent[d] \in Seq(Fed)
    BY <2>1 DEF IInv, Types, ClientTypes, Fed
  <2>3. UNCHANGED <<trunk, conn, fed, rpc, held, bufClosed>>
    BY <1>8 DEF WriteSend, serverVars
  <2>4. k \notin Data(up[t], d)
    <3>1. Data(up[t], d) \subseteq By(sent[d], t)
      BY DEF IInv, UpCarried
    <3>2. \A n \in By(sent[d], t) : n \in Nat /\ n < k
      BY <2>1, NumbersSent DEF IInv
    <3> QED
      BY <3>1, <3>2
  <2>5. /\ Len(sent[d]) \in Nat /\ Len(sent'[d]) = Len(sent[d]) + 1
        /\ \A i \in 1..Len(sent[d]) : sent'[d][i] = sent[d][i]
        /\ sent'[d][Len(sent[d]) + 1] = w
    BY <2>1, <2>2, AppendFacts
  <2> SUFFICES ASSUME NEW e \in Clients, e \notin overrun', NEW u \in Trunks, Only(e, u)'
               PROVE  Kept(e, u)'
    BY DEF NoGap
  <2>6. CASE e # d
    <3>1. sent'[e] = sent[e] /\ \A n : n \in Data(up'[u], e) <=> n \in Data(up[u], e)
      BY <2>1, <2>6
    <3>2. Only(e, u) /\ Kept(e, u)
      BY <1>0, <3>1 DEF Only, IInv, NoGap
    <3> QED
      BY <2>3, <3>1, <3>2 DEF Kept, Cut, Safe, Starts
  <2>7. CASE e = d
    <3>1. u = t
      BY <2>2, <2>5, <2>7 DEF Only
    <3>2. Only(d, t) /\ Kept(d, t)
      <4>1. \A i \in 1..Len(sent'[d]) : sent'[d][i].t = t
        BY <2>7, <3>1 DEF Only
      <4>2. \A i \in 1..Len(sent[d]) : i \in 1..Len(sent'[d])
        BY <2>5
      <4>3. Only(d, t)
        BY <2>5, <4>1, <4>2 DEF Only
      <4> QED
        BY <1>0, <2>7, <4>3 DEF IInv, NoGap
    <3>3. fed[d] \in Seq(Fed) /\ Len(fed[d]) \in Nat
      BY DEF IInv, Types, ServerTypes
    <3>4. /\ Len(fed[d]) <= Len(sent'[d])
          /\ \A i \in 1..Len(fed[d]) : fed[d][i] = sent'[d][i]
      BY <2>5, <3>2, <3>3 DEF Kept
    <3>5. ASSUME ~ Cut(d)'
          PROVE  ~ Cut(d)
      BY <2>3, <2>5, <3>5 DEF Cut
    <3>6. ASSUME NEW i \in 1..Len(sent[d]), Safe(d, t, i)
          PROVE  Safe(d, t, i)'
      BY <2>1, <2>3, <2>5, <3>6 DEF Safe, Starts
    <3>7. ASSUME ~ Cut(d), trunk[t] = "up", conn[t] = "open", NEW i \in 1..Len(sent'[d])
          PROVE  Safe(d, t, i)'
      <4>1. CASE i \in 1..Len(sent[d])
        BY <3>2, <3>6, <3>7, <4>1 DEF Kept
      <4>2. CASE i = Len(sent[d]) + 1
        BY <2>1, <2>2, <2>5, <3>7, <4>2 DEF Safe
      <4> QED
        BY <2>5, <4>1, <4>2
    <3>8. ASSUME ~ Cut(d), NEW i \in 1..Len(sent'[d]), NEW j \in 1..Len(sent'[d]), i < j,
                 sent'[d][j].n \in Data(up'[t], d)
          PROVE  Safe(d, t, i)'
      <4>1. CASE trunk[t] = "up" /\ conn[t] = "open"
        BY <3>7, <3>8, <4>1
      <4>2. CASE ~ (trunk[t] = "up" /\ conn[t] = "open")
        <5>1. sent'[d][j].n \in Data(up[t], d)
          BY <2>1, <3>8, <4>2
        <5>2. j \in 1..Len(sent[d]) /\ sent'[d][j] = sent[d][j] /\ i \in 1..Len(sent[d])
          BY <2>2, <2>4, <2>5, <3>8, <5>1
        <5>3. Safe(d, t, i)
          BY <3>2, <3>8, <5>1, <5>2 DEF Kept
        <5> QED
          BY <3>6, <5>2, <5>3
      <4> QED
        BY <4>1, <4>2
    <3> QED
      BY <2>3, <2>7, <3>1, <3>4, <3>5, <3>7, <3>8 DEF Kept
  <2> QED
    BY <2>6, <2>7
<1>9. ASSUME NEW d \in Clients, CloseSend(d), UNCHANGED serverVars
      PROVE  NoGap'
  <2>1. UNCHANGED <<fed, rpc, held, bufClosed>>
    BY <1>9 DEF serverVars
  <2>2. /\ UNCHANGED <<trunk, conn, sent>>
        /\ \A s \in Trunks : \A e, n : n \in Data(up'[s], e) <=> n \in Data(up[s], e)
    BY <1>9, QuietEffect DEF IInv
  <2> SUFFICES ASSUME NEW e \in Clients, e \notin overrun', NEW u \in Trunks, Only(e, u)
               PROVE  Kept(e, u)'
    BY <2>2 DEF NoGap, Only
  <2>3. \A i \in 1..Len(sent[e]) : Safe(e, u, i) => Safe(e, u, i)'
    BY <2>1, <2>2 DEF Safe, Starts
  <2>4. Kept(e, u)
    BY <1>0 DEF IInv, NoGap
  <2> QED
    BY <2>1, <2>2, <2>3, <2>4, KeptLess
<1>10. ASSUME NEW t \in Trunks, Accept(t), UNCHANGED clientVars
      PROVE  NoGap'
  <2>1. UNCHANGED <<trunk, up, sent, fed, rpc, held, bufClosed>>
    BY <1>10 DEF Accept, clientVars, divVars, instVars
  <2>2. trunk[t] # "up" /\ \A u \in Trunks : u # t => conn'[u] = conn[u]
    BY <1>10 DEF Accept, IInv, Types, NetTypes
  <2> QED
    BY <1>0, <2>1, <2>2 DEF IInv, NoGap, Only, Kept, Cut, Safe, Starts
<1>11. ASSUME NEW t \in Trunks, ServerRecv(t), UNCHANGED clientVars
      PROVE  NoGap'
  <2> DEFINE p == Head(up[t])
  <2>1. /\ Takes(t) /\ up[t] # << >> /\ (p.op = "data" => p.cid \in Clients) /\ rpc[t] = "read"
        /\ UNCHANGED <<trunk, conn>>
    BY <1>11, RecvCases DEF IInv, Takes
  <2>2. /\ \A s \in Trunks : s # t => up'[s] = up[s]
        /\ p.serial \in Nat
        /\ \A e, n : n \in Data(up[t], e) <=>
               n \in Data(up'[t], e) \/ (n = p.serial /\ p.op = "data" /\ p.cid = e)
        /\ p.op = "data" => \A n \in Data(up'[t], p.cid) : n \in Nat /\ p.serial < n
    BY <2>1, TakeEffect DEF IInv
  <2>3. sent' = sent
    BY <1>11 DEF clientVars, divVars
  <2>4. /\ rpc \in [Trunks -> {"read", "create", "pong", "ended"}] /\ held \in [Trunks -> Packets]
        /\ fed \in [Clients -> Seq(Fed)] /\ bufClosed \subseteq Clients
    BY DEF IInv, Types, ServerTypes
  <2>5. \A e : ~ Starts(t, e)
    BY <2>1 DEF Starts
  <2> HIDE DEF p
  <2>6. \A s \in Trunks, e \in Clients : Starts(s, e) => Starts(s, e)'
    <3>1. \A s \in Trunks : s # t => rpc'[s] = rpc[s] /\ held'[s] = held[s]
      <4>1. rpc' = rpc \/ rpc' = [rpc EXCEPT ![t] = "create"] \/ rpc' = [rpc EXCEPT ![t] = "pong"]
        BY <1>11, RecvCases DEF IInv
      <4>2. held' = held \/ held' = [held EXCEPT ![t] = p]
        BY <1>11, RecvCases DEF IInv, p
      <4> QED
        BY <2>4, <4>1, <4>2
    <3> QED
      BY <2>5, <3>1 DEF Starts
  <2>7. bufClosed \subseteq bufClosed'
    BY <1>11, RecvCases DEF IInv, CloseInstance
  <2>8. \A e \in Clients : ~ (p.op = "data" /\ p.cid = e) => fed'[e] = fed[e]
    <3>1. \/ fed' = fed
          \/ /\ p.op = "data"
             /\ fed' = [fed EXCEPT ![p.cid] = Append(@, [n |-> p.serial, t |-> t])]
      BY <1>11, RecvCases DEF IInv, p
    <3> QED
      BY <2>4, <3>1
  <2> SUFFICES ASSUME NEW e \in Clients, e \notin overrun', NEW u \in Trunks, Only(e, u)
               PROVE  Kept(e, u)'
    BY <2>3 DEF NoGap, Only
  <2>9. Kept(e, u)
    BY <1>0 DEF IInv, NoGap
  <2>10. CASE ~ (p.op = "data" /\ p.cid = e)
    <3>1. \A n : n \in Data(up'[u], e) <=> n \in Data(up[u], e)
      BY <2>2, <2>10
    <3>2. fed'[e] = fed[e]
      BY <2>8, <2>10
    <3> QED
      <4>1. \A i \in 1..Len(sent[e]) : Safe(e, u, i) => Safe(e, u, i)'
        BY <2>3, <2>6, <3>1, <3>2 DEF Safe
      <4> QED
        BY <2>1, <2>3, <2>7, <2>9, <3>1, <3>2, <4>1, KeptLess
  <2>11. CASE p.op = "data" /\ p.cid = e
    <3>1. PICK m \in Nat : m = p.serial
      BY <2>2
    <3>2. /\ m \in Data(up[t], e) /\ \A n \in Data(up'[t], e) : n \in Nat /\ m < n
          /\ \A n : n \in Data(up[t], e) <=> n \in Data(up'[t], e) \/ n = m
      BY <2>2, <2>11, <3>1
    <3>3. m \in By(sent[e], t) /\ (\A n \in By(fed[e], t) : n < m)
      BY <3>2 DEF IInv, UpCarried
    <3>4. PICK i \in 1..Len(sent[e]) : sent[e][i].n = m /\ sent[e][i].t = t
      BY <3>3 DEF By
    <3>5. u = t
      BY <3>4 DEF Only
    <3>6. /\ Len(sent[e]) \in Nat
          /\ \A j \in 1..Len(sent[e]) : sent[e][j].n \in Nat /\ sent[e][j] \in Fed
          /\ \A j, l \in 1..Len(sent[e]) : j < l => sent[e][j].n < sent[e][l].n
          /\ \A j \in 1..Len(sent[e]) : sent[e][j].n = m => j = i
      BY <3>4, NumbersSent DEF IInv, SentInOrder
    <3>7. fed[e] \in Seq(Fed) /\ Len(fed[e]) \in Nat
      BY <2>4
    <3>8. CASE /\ p.cid \notin inMap /\ p.serial = 0 /\ UNCHANGED <<bufClosed, fed>>
               /\ rpc' = [rpc EXCEPT ![t] = "create"] /\ held' = [held EXCEPT ![t] = p]
      <4>1. Starts(t, e)'
        BY <2>4, <2>11, <3>8 DEF Starts
      <4>2. i = 1
        BY <3>1, <3>3, <3>4, <3>8, FirstIsZero DEF IInv
      <4>3. ASSUME NEW j \in 1..Len(sent[e]), Safe(e, t, j)
            PROVE  Safe(e, t, j)'
        BY <2>3, <2>5, <3>2, <3>6, <3>8, <4>1, <4>2, <4>3 DEF Safe
      <4> QED
        BY <2>1, <2>3, <2>7, <2>9, <3>2, <3>5, <3>8, <4>3, KeptLess
    <3>9. CASE /\ p.cid \in inMap /\ p.cid \notin bufClosed
               /\ fed' = [fed EXCEPT ![p.cid] = Append(@, [n |-> p.serial, t |-> t])]
               /\ UNCHANGED <<rpc, held, bufClosed>>
      <4>1. ~ Cut(e)
        BY <2>11, <3>9 DEF Cut, IInv, OneStart, Instances
      <4>2. ASSUME NEW j \in 1..Len(sent[e]), j < i
            PROVE  j <= Len(fed[e])
        <5>1. Safe(e, t, j)
          BY <2>9, <3>2, <3>4, <3>5, <4>1, <4>2 DEF Kept
        <5>2. sent[e][j].n < m
          BY <3>4, <3>6, <4>2
        <5>3. sent[e][j].n \notin Data(up[t], e)
          BY <3>2, <3>6, <5>2
        <5> QED
          BY <2>5, <5>1, <5>3 DEF Safe
      <4>3. ~ (i <= Len(fed[e]))
        <5> SUFFICES ASSUME i <= Len(fed[e])
                     PROVE  FALSE
          OBVIOUS
        <5>1. i \in 1..Len(fed[e]) /\ fed[e][i] = sent[e][i]
          BY <2>9, <3>6, <3>7 DEF Kept
        <5>2. m \in By(fed[e], t)
          BY <3>4, <5>1 DEF By
        <5> QED
          BY <3>3, <5>2
      <4>4. i = Len(fed[e]) + 1
        <5>1. i = 1 \/ i - 1 \in 1..Len(sent[e])
          BY <3>6
        <5> QED
          BY <3>6, <3>7, <4>2, <4>3, <5>1
      <4>5. [n |-> m, t |-> t] = sent[e][i] /\ sent[e][i] \in Fed
        BY <3>4, <3>6 DEF Fed
      <4>6. fed'[e] = Append(fed[e], sent[e][i])
        BY <2>4, <2>11, <3>1, <3>9, <4>5
      <4>7. /\ Len(fed'[e]) = Len(fed[e]) + 1 /\ fed'[e][Len(fed[e]) + 1] = sent[e][i]
            /\ \A j \in 1..Len(fed[e]) : fed'[e][j] = fed[e][j]
        BY <3>7, <4>5, <4>6, AppendFacts
      <4>8. /\ Len(fed'[e]) <= Len(sent[e])
            /\ \A j \in 1..Len(fed'[e]) : fed'[e][j] = sent[e][j]
        <5>1. \A j \in 1..Len(fed[e]) : fed[e][j] = sent[e][j]
          BY <2>9 DEF Kept
        <5> QED
          BY <3>6, <3>7, <4>4, <4>7, <5>1
      <4>9. ASSUME NEW j \in 1..Len(sent[e]), Safe(e, t, j)
            PROVE  Safe(e, t, j)'
        <5>1. CASE j <= Len(fed[e])
          BY <3>6, <3>7, <4>7, <5>1 DEF Safe
        <5>2. CASE sent[e][j].n \in Data(up[t], e)
          BY <2>3, <3>2, <3>6, <3>7, <4>4, <4>7, <5>2 DEF Safe
        <5> QED
          BY <2>5, <4>9, <5>1, <5>2 DEF Safe
      <4> QED
        BY <2>1, <2>3, <2>9, <3>2, <3>5, <4>1, <4>8, <4>9 DEF Kept
    <3>10. CASE /\ p.cid \in bufClosed \/ (p.cid \notin inMap /\ p.serial # 0)
                /\ UNCHANGED <<rpc, held, bufClosed, fed>>
      <4>1. Cut(e)
        <5> SUFFICES ASSUME ~ Cut(e)
                     PROVE  FALSE
          OBVIOUS
        <5>1. e \notin inMap /\ m # 0 /\ e \notin bufClosed
          BY <2>11, <3>1, <3>10 DEF Cut
        <5>2. 1 \in 1..Len(sent[e]) /\ sent[e][1].n = 0
          BY <3>4, <3>6 DEF Cut
        <5>3. i # 1
          BY <3>4, <5>1, <5>2
        <5>4. Safe(e, t, 1)
          BY <2>9, <3>2, <3>4, <3>5, <3>6, <5>2, <5>3 DEF Kept
        <5>5. 0 \notin Data(up[t], e)
          BY <3>2, <5>1
        <5>6. fed[e] # << >>
          BY <2>5, <3>7, <5>2, <5>4, <5>5 DEF Safe
        <5>7. sel[e] # "none"
          BY <5>6 DEF IInv, OneStart
        <5>8. sel[e] = "done"
          BY <5>1, <5>7 DEF IInv, Instances
        <5> QED
          BY <5>1, <5>8 DEF IInv, Instances
      <4>2. Cut(e)'
        BY <2>3, <3>10, <4>1 DEF Cut
      <4> QED
        BY <2>3, <2>9, <3>10, <4>2 DEF Kept
    <3> QED
      BY <1>11, <2>11, <3>8, <3>9, <3>10, RecvCases DEF IInv, p
  <2> QED
    BY <2>10, <2>11
<1>12. ASSUME NEW t \in Trunks, ServerFeedFirst(t), UNCHANGED clientVars
      PROVE  NoGap'
  <2>1. PICK c \in Clients : c = held[t].cid /\ held[t].serial = 0 /\ Starts(t, c)
    BY <1>12 DEF ServerFeedFirst, IInv, Types, ServerTypes, Starts
  <2>2. \/ (c \in bufClosed \/ c \in overrun') /\ fed' = fed
        \/ c \notin bufClosed /\ fed' = [fed EXCEPT ![c] = Append(@, [n |-> 0, t |-> t])]
    BY <1>12, <2>1 DEF ServerFeedFirst, Feed
  <2>3. /\ UNCHANGED <<trunk, conn, up, sent, held, bufClosed>>
        /\ rpc' = [rpc EXCEPT ![t] = "read"]
    BY <1>12 DEF ServerFeedFirst, netVars, clientVars, divVars, instVars
  <2>4. \A s \in Trunks, e \in Clients : Starts(s, e)' <=> s # t /\ Starts(s, e)
    BY <2>3 DEF Starts, IInv, Types, ServerTypes
  <2>5. fed \in [Clients -> Seq(Fed)]
    BY DEF IInv, Types, ServerTypes
  <2> SUFFICES ASSUME NEW e \in Clients, e \notin overrun', NEW u \in Trunks, Only(e, u)
               PROVE  Kept(e, u)'
    BY <2>3 DEF NoGap, Only
  <2>6. Kept(e, u)
    BY <1>0 DEF IInv, NoGap
  <2>7. CASE e # c
    <3>1. fed'[e] = fed[e]
      BY <2>2, <2>5, <2>7
    <3>2. Starts(u, e) => Starts(u, e)'
      BY <2>1, <2>4, <2>7 DEF Starts
    <3>3. \A i \in 1..Len(sent[e]) : Safe(e, u, i) => Safe(e, u, i)'
      BY <2>3, <3>1, <3>2 DEF Safe
    <3> QED
      BY <2>3, <2>6, <3>1, <3>3, KeptLess
  <2>8. CASE e = c /\ c \in bufClosed
    <3>1. Cut(e)'
      BY <2>3, <2>8 DEF Cut
    <3>2. fed' = fed
      BY <2>2, <2>8
    <3> QED
      BY <2>3, <2>6, <3>1, <3>2 DEF Kept
  <2>9. CASE e = c /\ c \notin bufClosed
    <3>1. 0 \in By(sent[e], t) /\ By(fed[e], t) = {}
      BY <2>1, <2>9 DEF IInv, UpCarried
    <3>2. /\ sent[e] # << >> /\ sent[e][1].n = 0 /\ 1 \in 1..Len(sent[e])
          /\ \A i \in 1..Len(sent[e]) : sent[e][i].n = 0 => i = 1
      BY <3>1, FirstIsZero DEF IInv
    <3>3. PICK i \in 1..Len(sent[e]) : sent[e][i].n = 0 /\ sent[e][i].t = t
      BY <3>1 DEF By
    <3>4. i = 1 /\ u = t /\ sent[e][1].t = t
      BY <3>2, <3>3 DEF Only
    <3>5. /\ Len(sent[e]) \in Nat /\ sent[e][1] \in Fed
          /\ \A j \in 1..Len(sent[e]) : sent[e][j].n \in Nat /\ sent[e][j].t = t
      BY <3>2, <3>4, NumbersSent DEF IInv, Only
    <3>6. fed[e] \in Seq(Fed) /\ Len(fed[e]) \in Nat
      BY <2>5
    <3>7. Len(fed[e]) = 0
      <4> SUFFICES ASSUME Len(fed[e]) # 0
                   PROVE  FALSE
        OBVIOUS
      <4>1. 1 \in 1..Len(fed[e]) /\ fed[e][1] = sent[e][1]
        BY <2>6, <3>6 DEF Kept
      <4>2. 0 \in By(fed[e], t)
        BY <3>2, <3>4, <4>1 DEF By
      <4> QED
        BY <3>1, <4>2
    <3>8. [n |-> 0, t |-> t] = sent[e][1]
      BY <3>2, <3>4, <3>5 DEF Fed
    <3>9. fed'[e] = Append(fed[e], sent[e][1])
      BY <2>2, <2>5, <2>9, <3>8
    <3>10. Len(fed'[e]) = 1 /\ fed'[e][1] = sent[e][1]
      BY <3>5, <3>6, <3>7, <3>9, AppendFacts
    <3>11. /\ Len(fed'[e]) <= Len(sent[e])
           /\ \A j \in 1..Len(fed'[e]) : fed'[e][j] = sent[e][j]
      BY <3>2, <3>5, <3>10
    <3>12. ASSUME NEW j \in 1..Len(sent[e]), Safe(e, t, j)
           PROVE  Safe(e, t, j)'
      BY <2>3, <3>5, <3>7, <3>10, <3>12 DEF Safe
    <3>13. Cut(e) <=> Cut(e)'
      BY <2>3 DEF Cut
    <3> QED
      BY <2>3, <2>6, <3>4, <3>11, <3>12, <3>13 DEF Kept
  <2> QED
    BY <2>7, <2>8, <2>9
<1>13. ASSUME NEW t \in Trunks, ServerPong(t), UNCHANGED clientVars
      PROVE  NoGap'
  <2>1. UNCHANGED <<trunk, conn, up, sent, fed, held, bufClosed>>
    BY <1>13 DEF ServerPong, netVars, clientVars, divVars, instVars
  <2>2. \A s \in Trunks, e \in Clients : Starts(s, e)' <=> Starts(s, e)
    BY <1>13 DEF ServerPong, Starts, IInv, Types, ServerTypes
  <2> QED
    BY <1>0, <2>1, <2>2 DEF IInv, NoGap, Only, Kept, Cut, Safe
<1>14. ASSUME NEW t \in Trunks, ServerReadEnds(t), UNCHANGED clientVars
      PROVE  NoGap'
  <2>1. UNCHANGED <<trunk, conn, sent, fed, held, bufClosed>>
    BY <1>14 DEF ServerReadEnds, clientVars, divVars, instVars
  <2>2. \A s \in Trunks, e \in Clients : Starts(s, e)' <=> Starts(s, e)
    BY <1>14 DEF ServerReadEnds, Starts, IInv, Types, ServerTypes
  <2>3. conn[t] # "open" /\ up'[t] = << >> /\ \A s \in Trunks : s # t => up'[s] = up[s]
    BY <1>14 DEF ServerReadEnds, IInv, Types, NetTypes
  <2>4. \A e : Data(up'[t], e) = {}
    BY <2>3, DataEmpty
  <2> SUFFICES ASSUME NEW d \in Clients, d \notin overrun', NEW u \in Trunks, Only(d, u)
               PROVE  Kept(d, u)'
    BY <2>1 DEF NoGap, Only
  <2>5. Kept(d, u)
    BY <1>0 DEF IInv, NoGap
  <2>6. CASE u # t
    BY <2>1, <2>2, <2>3, <2>5, <2>6 DEF Kept, Cut, Safe
  <2>7. CASE u = t
    BY <2>1, <2>3, <2>4, <2>5, <2>7 DEF Kept, Cut
  <2> QED
    BY <2>6, <2>7
<1>15. ASSUME NEW d \in Clients, SessionCloses(d), UNCHANGED clientVars
      PROVE  NoGap'
  <2>1. UNCHANGED <<trunk, conn, up, sent, fed, rpc, held>> /\ bufClosed \subseteq bufClosed'
    BY <1>15 DEF SessionCloses, CloseInstance, netVars, clientVars, divVars
  <2> QED
    BY <1>0, <2>1 DEF IInv, NoGap, Only, Kept, Cut, Safe, Starts
<1>16. CASE TrunkBreaks
  <2>1. UNCHANGED <<trunk, up, sent, fed, rpc, held, bufClosed>>
    BY <1>16 DEF TrunkBreaks, ConnBreaks, clientVars, divVars, serverVars
  <2>2. \A u \in Trunks : conn'[u] = "open" => conn[u] = "open"
    BY <1>16 DEF TrunkBreaks, ConnBreaks, IInv, Types, NetTypes
  <2> QED
    BY <1>0, <2>1, <2>2 DEF IInv, NoGap, Only, Kept, Cut, Safe, Starts
<1> QED
  BY <1>1, <1>2, <1>3, <1>4, <1>5, <1>6, <1>7, <1>8, <1>9, <1>10, <1>11, <1>12, <1>13,
     <1>14, <1>15, <1>16, GapCases

-----------------------------------------------------------------------------
(* The way down *)

\* Reply n of client d has gone by trunk t.
Went(t, d, n) == n \in Data(down[t], d) \/ n \in Data(chReply[t], d) \/ n \in By(got[d], t)

(* What DownCarried says of a trunk and a client. *)
LEMMA DownFacts ==
    ASSUME DownCarried, NEW t \in Trunks, NEW d \in Clients
    PROVE  /\ \A n : Went(t, d, n) => n \in Nat /\ n < replies[d]
           /\ \A m \in Data(down[t], d), n \in Data(chReply[t], d) : m < n
           /\ \A m \in By(got[d], t), n \in Data(down[t], d) : m < n
           /\ \A m \in By(got[d], t), n \in Data(chReply[t], d) : m < n
           /\ \A s \in Trunks : \A n : s # t /\ Went(t, d, n) => ~ Went(s, d, n)
<1>1. \A n : Went(t, d, n) => n \in Nat
  BY DEF Went, Data, By
<1> QED
  BY <1>1 DEF DownCarried, Flow, Went

(* The same, put together again. *)
LEMMA DownTogether ==
    ASSUME \A t \in Trunks : Ordered(down'[t]) /\ Ordered(chReply'[t]),
           \A t \in Trunks, d \in Clients :
             /\ \A n : Went(t, d, n)' => n < replies'[d]
             /\ \A m \in Data(down'[t], d), n \in Data(chReply'[t], d) : m < n
             /\ \A m \in By(got'[d], t), n \in Data(down'[t], d) : m < n
             /\ \A m \in By(got'[d], t), n \in Data(chReply'[t], d) : m < n
             /\ \A s \in Trunks : \A n : s # t /\ Went(t, d, n)' => ~ Went(s, d, n)'
    PROVE  DownCarried'
<1> SUFFICES ASSUME NEW t \in Trunks, NEW d \in Clients
             PROVE  /\ \A n \in Flow(t, d)' \cup By(got'[d], t) : n < replies'[d]
                    /\ \A m \in By(got'[d], t), n \in Flow(t, d)' : m < n
                    /\ \A s \in Trunks \ {t} :
                         (Flow(t, d)' \cup By(got'[d], t)) \cap (Flow(s, d)' \cup By(got'[d], s)) = {}
  BY DEF DownCarried
<1>1. \A s \in Trunks : \A n : Went(s, d, n)' <=> n \in Flow(s, d)' \cup By(got'[d], s)
  BY DEF Went, Flow
<1>2. \A n \in Flow(t, d)' \cup By(got'[d], t) : n < replies'[d]
  BY <1>1
<1>3. \A m \in By(got'[d], t), n \in Flow(t, d)' : m < n
  BY DEF Flow
<1>4. ASSUME NEW s \in Trunks \ {t}
      PROVE  (Flow(t, d)' \cup By(got'[d], t)) \cap (Flow(s, d)' \cup By(got'[d], s)) = {}
  BY <1>1
<1> QED
  BY <1>2, <1>3, <1>4

(* A step that sends no reply and hands none over keeps the others in order. *)
LEMMA DownLess ==
    ASSUME DownCarried, UNCHANGED <<got, replies>>,
           \A t \in Trunks : Ordered(down'[t]) /\ Ordered(chReply'[t]),
           \A t \in Trunks : \A d, n : n \in Data(down'[t], d) => n \in Data(down[t], d),
           \A t \in Trunks : \A d, n : n \in Data(chReply'[t], d) => n \in Data(chReply[t], d)
    PROVE  DownCarried'
<1>1. \A t \in Trunks, d \in Clients : \A n : Went(t, d, n)' => Went(t, d, n)
  BY DEF Went
<1>2. ASSUME NEW t \in Trunks, NEW d \in Clients
      PROVE  /\ \A n : Went(t, d, n)' => n < replies'[d]
             /\ \A m \in Data(down'[t], d), n \in Data(chReply'[t], d) : m < n
             /\ \A m \in By(got'[d], t), n \in Data(down'[t], d) : m < n
             /\ \A m \in By(got'[d], t), n \in Data(chReply'[t], d) : m < n
             /\ \A s \in Trunks : \A n : s # t /\ Went(t, d, n)' => ~ Went(s, d, n)'
  BY <1>1, DownFacts
<1> QED
  BY <1>2, DownTogether

(* A packet that is put into a reply channel. *)
LEMMA PutInChannel ==
    ASSUME chReply \in [Trunks -> Seq(Packets)], \A s \in Trunks : Ordered(chReply[s]),
           NEW t \in Trunks, NEW p \in Packets,
           p.op = "data" => \A n \in Data(chReply[t], p.cid) : n < p.serial,
           chReply' = [chReply EXCEPT ![t] = Append(chReply[t], p)]
    PROVE  /\ \A s \in Trunks : Ordered(chReply'[s])
           /\ \A s \in Trunks : \A e, n : n \in Data(chReply'[s], e) <=>
                  \/ n \in Data(chReply[s], e)
                  \/ s = t /\ n = p.serial /\ p.op = "data" /\ p.cid = e
<1>1. chReply'[t] = Append(chReply[t], p) /\ \A s \in Trunks : s # t => chReply'[s] = chReply[s]
  OBVIOUS
<1>2. /\ Ordered(chReply'[t])
      /\ \A e, n : n \in Data(chReply'[t], e) <=>
             n \in Data(chReply[t], e) \/ (n = p.serial /\ p.op = "data" /\ p.cid = e)
  BY <1>1, DataAppend
<1> QED
  BY <1>1, <1>2

(* A packet that the server writes to a trunk. *)
LEMMA PutOnTrunk ==
    ASSUME down \in [Trunks -> Seq(Packets)], \A s \in Trunks : Ordered(down[s]),
           NEW t \in Trunks, NEW p \in Packets,
           p.op = "data" => \A n \in Data(down[t], p.cid) : n < p.serial,
           down' = [down EXCEPT ![t] = Append(down[t], p)]
    PROVE  /\ \A s \in Trunks : Ordered(down'[s])
           /\ \A s \in Trunks : \A e, n : n \in Data(down'[s], e) <=>
                  \/ n \in Data(down[s], e)
                  \/ s = t /\ n = p.serial /\ p.op = "data" /\ p.cid = e
<1>1. down'[t] = Append(down[t], p) /\ \A s \in Trunks : s # t => down'[s] = down[s]
  OBVIOUS
<1>2. /\ Ordered(down'[t])
      /\ \A e, n : n \in Data(down'[t], e) <=>
             n \in Data(down[t], e) \/ (n = p.serial /\ p.op = "data" /\ p.cid = e)
  BY <1>1, DataAppend
<1> QED
  BY <1>1, <1>2

(* The packet that is taken out of a reply channel. *)
LEMMA TakenOutOfChannel ==
    ASSUME chReply \in [Trunks -> Seq(Packets)], \A s \in Trunks : Ordered(chReply[s]),
           NEW t \in Trunks, chReply[t] # << >>, chReply' = [chReply EXCEPT ![t] = Tail(chReply[t])]
    PROVE  LET p == Head(chReply[t]) IN
           /\ p \in Packets /\ p.serial \in Nat
           /\ \A s \in Trunks : Ordered(chReply'[s])
           /\ \A s \in Trunks : \A e, n : n \in Data(chReply[s], e) <=>
                  \/ n \in Data(chReply'[s], e)
                  \/ s = t /\ n = p.serial /\ p.op = "data" /\ p.cid = e
           /\ p.op = "data" => \A n \in Data(chReply'[t], p.cid) : p.serial < n
<1> DEFINE r == Tail(chReply[t])
           p == Head(chReply[t])
<1>1. chReply'[t] = r /\ \A s \in Trunks : s # t => chReply'[s] = chReply[s]
  OBVIOUS
<1>2. /\ p \in Packets /\ Ordered(r)
      /\ \A e, n : n \in Data(chReply[t], e) <=>
             n \in Data(r, e) \/ (n = p.serial /\ p.op = "data" /\ p.cid = e)
      /\ p.op = "data" => \A n \in Data(r, p.cid) : p.serial < n
  BY DataTail
<1>3. p.serial \in Nat
  BY <1>2 DEF Packets
<1> HIDE DEF r, p
<1>4. /\ \A s \in Trunks : Ordered(chReply'[s])
      /\ \A s \in Trunks : \A e, n : n \in Data(chReply[s], e) <=>
             \/ n \in Data(chReply'[s], e)
             \/ s = t /\ n = p.serial /\ p.op = "data" /\ p.cid = e
      /\ p.op = "data" => \A n \in Data(chReply'[t], p.cid) : p.serial < n
  BY <1>1, <1>2
<1> QED
  BY <1>2, <1>3, <1>4 DEF p

(* The packet that the client takes off a trunk. *)
LEMMA TakenOffTrunk ==
    ASSUME down \in [Trunks -> Seq(Packets)], \A s \in Trunks : Ordered(down[s]),
           NEW t \in Trunks, down[t] # << >>, down' = [down EXCEPT ![t] = Tail(down[t])]
    PROVE  LET p == Head(down[t]) IN
           /\ p \in Packets /\ p.serial \in Nat
           /\ \A s \in Trunks : Ordered(down'[s])
           /\ \A s \in Trunks : \A e, n : n \in Data(down[s], e) <=>
                  \/ n \in Data(down'[s], e)
                  \/ s = t /\ n = p.serial /\ p.op = "data" /\ p.cid = e
           /\ p.op = "data" => \A n \in Data(down'[t], p.cid) : p.serial < n
<1> DEFINE r == Tail(down[t])
           p == Head(down[t])
<1>1. down'[t] = r /\ \A s \in Trunks : s # t => down'[s] = down[s]
  OBVIOUS
<1>2. /\ p \in Packets /\ Ordered(r)
      /\ \A e, n : n \in Data(down[t], e) <=>
             n \in Data(r, e) \/ (n = p.serial /\ p.op = "data" /\ p.cid = e)
      /\ p.op = "data" => \A n \in Data(r, p.cid) : p.serial < n
  BY DataTail
<1>3. p.serial \in Nat
  BY <1>2 DEF Packets
<1> HIDE DEF r, p
<1>4. /\ \A s \in Trunks : Ordered(down'[s])
      /\ \A s \in Trunks : \A e, n : n \in Data(down[s], e) <=>
             \/ n \in Data(down'[s], e)
             \/ s = t /\ n = p.serial /\ p.op = "data" /\ p.cid = e
      /\ p.op = "data" => \A n \in Data(down'[t], p.cid) : p.serial < n
  BY <1>1, <1>2
<1> QED
  BY <1>2, <1>3, <1>4 DEF p

(* The steps that change what is on its way down or what clients were fed. *)
LEMMA DownCases ==
    ASSUME [Next]_vars
    PROVE  \/ UNCHANGED <<down, chReply, got, replies>>
           \/ \E t \in Trunks : Connected(t) /\ UNCHANGED serverVars
           \/ \E t \in Trunks : ClientRecv(t) /\ UNCHANGED serverVars
           \/ \E t \in Trunks : ServerRecv(t) /\ UNCHANGED clientVars
           \/ \E t \in Trunks : ServerPong(t) /\ UNCHANGED clientVars
           \/ \E t \in Trunks : ServerReply(t) /\ UNCHANGED clientVars
           \/ \E d \in Clients : SessionSend(d) /\ UNCHANGED clientVars
           \/ \E d \in Clients : InstanceEosSend(d) /\ UNCHANGED clientVars
<1>1. ASSUME NEW t \in Trunks, UNCHANGED serverVars,
             \/ AddTrunk(t) \/ ConnectFails(t) \/ RelayEnds(t) \/ TrunkExits(t)
             \/ SendPing(t)
      PROVE  UNCHANGED <<down, chReply, got, replies>>
  BY ONLY <1>1 DEF AddTrunk, ConnectFails, RelayEnds, TrunkExits, SendPing, chanVars,
     clientVars, divVars, serverVars
<1>2. ASSUME NEW d \in Clients, UNCHANGED serverVars,
             \/ Open(d) \/ WritePick(d) \/ WriteSend(d) \/ CloseBegin(d)
             \/ ClosePick(d) \/ CloseGivesUp(d) \/ CloseSend(d)
      PROVE  UNCHANGED <<down, chReply, got, replies>>
  BY ONLY <1>2 DEF Open, WritePick, WriteSend, CloseBegin, ClosePick, CloseGivesUp,
     CloseSend, chanVars, netVars, serverVars
<1>3. ASSUME NEW t \in Trunks, UNCHANGED clientVars,
             \/ Accept(t) \/ ServerFeedFirst(t) \/ ServerReadEnds(t)
             \/ ServerExit(t)
      PROVE  UNCHANGED <<down, chReply, got, replies>>
  BY ONLY <1>3 DEF Accept, ServerFeedFirst, ServerReadEnds, ServerExit, chanVars,
     clientVars, divVars, instVars, netVars, Feed
<1>4. ASSUME NEW d \in Clients, UNCHANGED clientVars,
             \/ InstanceLaunch(d) \/ InstanceSelect(d) \/ SessionWrite(d)
             \/ SessionEnds(d) \/ SessionCloses(d) \/ SessionSignals(d)
             \/ InstanceEosPick(d) \/ InstanceDelete(d)
      PROVE  UNCHANGED <<down, chReply, got, replies>>
  BY ONLY <1>4 DEF InstanceLaunch, InstanceSelect, SessionWrite, SessionEnds,
     SessionCloses, SessionSignals, InstanceEosPick, InstanceDelete, chanVars, clientVars,
     divVars, netVars, CloseInstance
<1>5. CASE TrunkBreaks
  BY <1>5 DEF TrunkBreaks, ConnBreaks, clientVars, divVars, serverVars, chanVars
<1>6. CASE UNCHANGED vars
  BY <1>6 DEF vars, netVars, clientVars, divVars, serverVars, chanVars
<1> QED
  BY <1>1, <1>2, <1>3, <1>4, <1>5, <1>6 DEF Next, ClientStep, ServerStep

(* A trunk hands a client's replies over in the order they were written to it. *)
LEMMA DownCarriedStep == IInv /\ [Next]_vars => DownCarried'
<1> SUFFICES ASSUME IInv, [Next]_vars
             PROVE  DownCarried'
  OBVIOUS
<1>1. CASE UNCHANGED <<down, chReply, got, replies>>
  BY <1>1 DEF IInv, DownCarried, Flow
<1>2. ASSUME NEW t \in Trunks, Connected(t), UNCHANGED serverVars
      PROVE  DownCarried'
  <2>1. PICK k \in 0..Len(down[t]) :
            down' = [down EXCEPT ![t] = SubSeq(down[t], k + 1, Len(down[t]))]
    BY <1>2 DEF Connected
  <2>2. /\ UNCHANGED <<chReply, got, replies>>
        /\ down \in [Trunks -> Seq(Packets)] /\ \A s \in Trunks : Ordered(down[s]) /\ Ordered(chReply[s])
    BY <1>2 DEF Connected, clientVars, divVars, serverVars, IInv, Types, NetTypes, DownCarried
  <2>3. /\ \A s \in Trunks : s # t => down'[s] = down[s]
        /\ down'[t] = SubSeq(down[t], k + 1, Len(down[t]))
    BY <2>1, <2>2
  <2>4. Ordered(down'[t]) /\ \A e : Data(down'[t], e) \subseteq Data(down[t], e)
    BY <2>2, <2>3, DataRest
  <2> QED
    BY <2>2, <2>3, <2>4, DownLess DEF IInv
<1>3. ASSUME NEW t \in Trunks, ClientRecv(t), UNCHANGED serverVars
      PROVE  DownCarried'
  <2> DEFINE p == Head(down[t])
  <2>1. /\ UNCHANGED <<chReply, replies>>
        /\ down' = [down EXCEPT ![t] = Tail(down[t])] /\ down[t] # << >>
    BY <1>3 DEF ClientRecv, serverVars
  <2>2. /\ down \in [Trunks -> Seq(Packets)] /\ got \in [Clients -> Seq(Fed)]
        /\ \A s \in Trunks : Ordered(down[s]) /\ Ordered(chReply[s])
    BY DEF IInv, Types, NetTypes, ClientTypes, DownCarried
  <2>3. /\ p \in Packets /\ p.serial \in Nat
        /\ \A s \in Trunks : Ordered(down'[s])
        /\ \A s \in Trunks : \A e, n : n \in Data(down[s], e) <=>
               \/ n \in Data(down'[s], e)
               \/ s = t /\ n = p.serial /\ p.op = "data" /\ p.cid = e
        /\ p.op = "data" => \A n \in Data(down'[t], p.cid) : p.serial < n
    BY <2>1, <2>2, TakenOffTrunk
  <2>4. CASE got' = got
    BY <2>1, <2>2, <2>3, <2>4, DownLess DEF IInv
  <2>5. CASE /\ p.op = "data" /\ p.cid \in clients
             /\ got' = [got EXCEPT ![p.cid] = Append(@, [n |-> p.serial, t |-> t])]
    <3>1. PICK c \in Clients, k \in Nat : c = p.cid /\ k = p.serial
      BY <2>3, <2>5 DEF clients
    <3>2. got'[c] = Append(got[c], [n |-> k, t |-> t]) /\ \A e \in Clients : e # c => got'[e] = got[e]
      BY <2>2, <2>5, <3>1
    <3>3. \A s, n : n \in By(got'[c], s) <=> n \in By(got[c], s) \/ (n = k /\ s = t)
      BY <2>2, <3>2, ByAppend
    <3>4. /\ k \in Data(down[t], c) /\ \A n \in Data(down'[t], c) : k < n
          /\ \A s \in Trunks : \A e, n : n \in Data(down[s], e) <=>
                 n \in Data(down'[s], e) \/ (s = t /\ n = k /\ e = c)
      BY <2>3, <2>5, <3>1
    <3>5. \A s \in Trunks, e \in Clients : \A n : n \in By(got'[e], s) <=>
              n \in By(got[e], s) \/ (s = t /\ n = k /\ e = c)
      BY <3>2, <3>3
    <3>6. \A s \in Trunks, e \in Clients : \A n : Went(s, e, n)' <=> Went(s, e, n)
      BY <2>1, <3>4, <3>5 DEF Went
    <3>7. ASSUME NEW s \in Trunks, NEW e \in Clients
          PROVE  /\ \A n : Went(s, e, n)' => n < replies'[e]
                 /\ \A m \in Data(down'[s], e), n \in Data(chReply'[s], e) : m < n
                 /\ \A m \in By(got'[e], s), n \in Data(down'[s], e) : m < n
                 /\ \A m \in By(got'[e], s), n \in Data(chReply'[s], e) : m < n
                 /\ \A u \in Trunks : \A n : u # s /\ Went(s, e, n)' => ~ Went(u, e, n)'
      <4>1. /\ \A n : Went(s, e, n) => n < replies[e]
            /\ \A m \in Data(down[s], e), n \in Data(chReply[s], e) : m < n
            /\ \A m \in By(got[e], s), n \in Data(down[s], e) : m < n
            /\ \A m \in By(got[e], s), n \in Data(chReply[s], e) : m < n
            /\ \A u \in Trunks : \A n : u # s /\ Went(s, e, n) => ~ Went(u, e, n)
        BY DownFacts DEF IInv
      <4>2. (\A n : Went(s, e, n)' => n < replies'[e])
            /\ \A u \in Trunks : \A n : u # s /\ Went(s, e, n)' => ~ Went(u, e, n)'
        BY <2>1, <3>6, <4>1
      <4>3. \A m \in Data(down'[s], e), n \in Data(chReply'[s], e) : m < n
        BY <2>1, <3>4, <4>1
      <4>4. \A m \in By(got'[e], s), n \in Data(down'[s], e) : m < n
        BY <3>4, <3>5, <4>1
      <4>5. \A m \in By(got'[e], s), n \in Data(chReply'[s], e) : m < n
        BY <2>1, <3>4, <3>5, <4>1
      <4> QED
        BY <4>2, <4>3, <4>4, <4>5
    <3> QED
      BY <2>1, <2>2, <2>3, <3>7, DownTogether
  <2> QED
    BY <1>3, <2>4, <2>5 DEF ClientRecv
<1>4. ASSUME NEW t \in Trunks, ServerRecv(t), UNCHANGED clientVars
      PROVE  DownCarried'
  <2>1. UNCHANGED <<down, chReply, got, replies>>
    BY <1>4, RecvCases DEF IInv, Takes, clientVars, divVars
  <2> QED
    BY <2>1 DEF IInv, DownCarried, Flow
<1>5. ASSUME NEW t \in Trunks, ServerPong(t), UNCHANGED clientVars
      PROVE  DownCarried'
  <2>1. PICK p \in Packets : p.op # "data" /\ chReply' = [chReply EXCEPT ![t] = Append(chReply[t], p)]
    BY <1>5, PacketFacts DEF ServerPong
  <2>2. /\ UNCHANGED <<down, got, replies>> /\ chReply \in [Trunks -> Seq(Packets)]
        /\ \A s \in Trunks : Ordered(down[s]) /\ Ordered(chReply[s])
    BY <1>5 DEF ServerPong, netVars, clientVars, divVars, instVars, IInv, Types, ServerTypes, DownCarried
  <2>3. /\ \A s \in Trunks : Ordered(chReply'[s])
        /\ \A s \in Trunks : \A e, n : n \in Data(chReply'[s], e) => n \in Data(chReply[s], e)
    BY <2>1, <2>2, PutInChannel
  <2> QED
    BY <2>2, <2>3, DownLess DEF IInv
<1>6. ASSUME NEW t \in Trunks, ServerReply(t), UNCHANGED clientVars
      PROVE  DownCarried'
  <2> DEFINE q == Head(chReply[t])
             p == Wire(q)
  <2>1. /\ UNCHANGED <<got, replies>>
        /\ down' = [down EXCEPT ![t] = Append(down[t], p)]
        /\ chReply' = [chReply EXCEPT ![t] = Tail(chReply[t])] /\ chReply[t] # << >>
    BY <1>6 DEF ServerReply, clientVars, divVars, instVars
  <2>2. /\ chReply \in [Trunks -> Seq(Packets)] /\ down \in [Trunks -> Seq(Packets)]
        /\ \A s \in Trunks : Ordered(down[s]) /\ Ordered(chReply[s])
        /\ Named(chReply[t])
    BY DEF IInv, Types, NetTypes, ServerTypes, DownCarried
  <2>3. /\ q \in Packets /\ q.serial \in Nat
        /\ \A s \in Trunks : Ordered(chReply'[s])
        /\ \A s \in Trunks : \A e, n : n \in Data(chReply[s], e) <=>
               \/ n \in Data(chReply'[s], e)
               \/ s = t /\ n = q.serial /\ q.op = "data" /\ q.cid = e
        /\ q.op = "data" => \A n \in Data(chReply'[t], q.cid) : q.serial < n
    BY <2>1, <2>2, TakenOutOfChannel
  <2>4. q.op = "data" => q.cid \in Clients
    BY <2>1, <2>2, DataTail
  <2> HIDE DEF q
  <2>5. p \in Packets /\ p.op = q.op /\ (p.op = "data" => p = q)
    BY <2>3, WireFacts
  <2> HIDE DEF p
  <2>6. q.op = "data" => \A n \in Data(down[t], q.cid) : n < q.serial
    BY <2>3, <2>4, DownFacts DEF IInv
  <2>7. p.op = "data" => \A n \in Data(down[t], p.cid) : n < p.serial
    BY <2>5, <2>6
  <2>8. /\ \A s \in Trunks : Ordered(down'[s])
        /\ \A s \in Trunks : \A e, n : n \in Data(down'[s], e) <=>
               \/ n \in Data(down[s], e)
               \/ s = t /\ n = p.serial /\ p.op = "data" /\ p.cid = e
    BY <2>1, <2>2, <2>5, <2>7, PutOnTrunk
  <2>9. \A s \in Trunks : \A e, n : n \in Data(down'[s], e) <=>
            \/ n \in Data(down[s], e)
            \/ s = t /\ n = q.serial /\ q.op = "data" /\ q.cid = e
    BY <2>5, <2>8
  <2>10. \A s \in Trunks, e \in Clients : \A n : Went(s, e, n)' <=> Went(s, e, n)
    BY <2>1, <2>3, <2>9 DEF Went
  <2>11. ASSUME NEW s \in Trunks, NEW e \in Clients
         PROVE  /\ \A n : Went(s, e, n)' => n < replies'[e]
                /\ \A m \in Data(down'[s], e), n \in Data(chReply'[s], e) : m < n
                /\ \A m \in By(got'[e], s), n \in Data(down'[s], e) : m < n
                /\ \A m \in By(got'[e], s), n \in Data(chReply'[s], e) : m < n
                /\ \A u \in Trunks : \A n : u # s /\ Went(s, e, n)' => ~ Went(u, e, n)'
    <3>1. /\ \A n : Went(s, e, n) => n < replies[e]
          /\ \A m \in Data(down[s], e), n \in Data(chReply[s], e) : m < n
          /\ \A m \in By(got[e], s), n \in Data(down[s], e) : m < n
          /\ \A m \in By(got[e], s), n \in Data(chReply[s], e) : m < n
          /\ \A u \in Trunks : \A n : u # s /\ Went(s, e, n) => ~ Went(u, e, n)
      BY DownFacts DEF IInv
    <3>2. (\A n : Went(s, e, n)' => n < replies'[e])
          /\ \A u \in Trunks : \A n : u # s /\ Went(s, e, n)' => ~ Went(u, e, n)'
      BY <2>1, <2>10, <3>1
    <3>3. \A m \in Data(down'[s], e), n \in Data(chReply'[s], e) : m < n
      BY <2>3, <2>9, <3>1
    <3>4. /\ \A m \in By(got'[e], s), n \in Data(down'[s], e) : m < n
          /\ \A m \in By(got'[e], s), n \in Data(chReply'[s], e) : m < n
      BY <2>1, <2>3, <2>9, <3>1
    <3> QED
      BY <3>2, <3>3, <3>4
  <2> QED
    BY <2>3, <2>8, <2>11, DownTogether
<1>7. ASSUME NEW d \in Clients, SessionSend(d), UNCHANGED clientVars
      PROVE  DownCarried'
  <2>1. PICK t \in Trunks, k \in Nat, p \in Packets :
            /\ p.op = "data" /\ p.cid = d /\ p.serial = k /\ k = replies[d]
            /\ chReply' = [chReply EXCEPT ![t] = Append(chReply[t], p)]
    <3>1. rvia[d] \in Trunks /\ replies[d] \in Nat
      BY <1>7 DEF SessionSend, IInv, Types, ServerTypes
    <3> DEFINE p == Packet("data", d, replies[d])
    <3>2. p \in Packets /\ p.op = "data" /\ p.cid = d /\ p.serial = replies[d]
      BY <3>1, PacketFacts
    <3>3. chReply' = [chReply EXCEPT ![rvia[d]] = Append(chReply[rvia[d]], p)]
      BY <1>7 DEF SessionSend
    <3> HIDE DEF p
    <3> QED
      BY <3>1, <3>2, <3>3
  <2>2. /\ UNCHANGED <<down, got>> /\ chReply \in [Trunks -> Seq(Packets)]
        /\ \A s \in Trunks : Ordered(down[s]) /\ Ordered(chReply[s])
    BY <1>7 DEF SessionSend, netVars, clientVars, divVars, IInv, Types, ServerTypes, DownCarried
  <2>3. /\ \A e \in Clients : e # d => replies'[e] = replies[e]
        /\ replies'[d] = k + 1
    BY <1>7, <2>1 DEF SessionSend, IInv, Types, ServerTypes
  <2>4. \A s \in Trunks : \A n : Went(s, d, n) => n \in Nat /\ n < k
    BY <2>1, DownFacts DEF IInv
  <2>5. /\ \A s \in Trunks : Ordered(chReply'[s])
        /\ \A s \in Trunks : \A e, n : n \in Data(chReply'[s], e) <=>
               n \in Data(chReply[s], e) \/ (s = t /\ n = k /\ e = d)
    <3>1. \A n \in Data(chReply[t], p.cid) : n < p.serial
      BY <2>1, <2>4 DEF Went
    <3>2. /\ \A s \in Trunks : Ordered(chReply'[s])
          /\ \A s \in Trunks : \A e, n : n \in Data(chReply'[s], e) <=>
                 \/ n \in Data(chReply[s], e)
                 \/ s = t /\ n = p.serial /\ p.op = "data" /\ p.cid = e
      BY <2>1, <2>2, <3>1, PutInChannel
    <3> QED
      BY <2>1, <3>2
  <2>6. \A s \in Trunks, e \in Clients : \A n :
            Went(s, e, n)' <=> Went(s, e, n) \/ (s = t /\ n = k /\ e = d)
    BY <2>2, <2>5 DEF Went
  <2>7. ASSUME NEW s \in Trunks, NEW e \in Clients
        PROVE  /\ \A n : Went(s, e, n)' => n < replies'[e]
               /\ \A m \in Data(down'[s], e), n \in Data(chReply'[s], e) : m < n
               /\ \A m \in By(got'[e], s), n \in Data(down'[s], e) : m < n
               /\ \A m \in By(got'[e], s), n \in Data(chReply'[s], e) : m < n
               /\ \A u \in Trunks : \A n : u # s /\ Went(s, e, n)' => ~ Went(u, e, n)'
    <3>1. \A n : Went(s, e, n) => n < replies[e]
      BY DownFacts DEF IInv
    <3>2. /\ \A m \in Data(down[s], e), n \in Data(chReply[s], e) : m < n
          /\ \A m \in By(got[e], s), n \in Data(down[s], e) : m < n
          /\ \A m \in By(got[e], s), n \in Data(chReply[s], e) : m < n
      BY DownFacts DEF IInv
    <3>3. \A n : Went(s, e, n)' => n < replies'[e]
      BY <2>1, <2>3, <2>4, <2>6, <3>1
    <3>4. /\ \A m \in Data(down'[s], e), n \in Data(chReply'[s], e) : m < n
          /\ \A m \in By(got'[e], s), n \in Data(chReply'[s], e) : m < n
      BY <2>2, <2>4, <2>5, <3>2 DEF Went
    <3>5. ASSUME NEW u \in Trunks, NEW n, u # s, Went(s, e, n)', Went(u, e, n)'
          PROVE  FALSE
      <4>1. CASE e = d /\ n = k
        BY <2>4, <2>6, <3>5, <4>1
      <4>2. CASE ~ (e = d /\ n = k)
        BY <2>6, <3>5, <4>2, DownFacts DEF IInv
      <4> QED
        BY <4>1, <4>2
    <3> QED
      BY <2>2, <3>2, <3>3, <3>4, <3>5
  <2> QED
    BY <2>2, <2>5, <2>7, DownTogether
<1>8. ASSUME NEW d \in Clients, InstanceEosSend(d), UNCHANGED clientVars
      PROVE  DownCarried'
  <2>1. PICK t \in Trunks, p \in Packets :
            p.op # "data" /\ chReply' = [chReply EXCEPT ![t] = Append(chReply[t], p)]
    <3>1. rvia[d] \in Trunks
      BY <1>8 DEF InstanceEosSend, IInv, Types, ServerTypes
    <3>2. Packet("eos", d, 0) \in Packets /\ Packet("eos", d, 0).op # "data"
      BY PacketFacts
    <3> QED
      BY <1>8, <3>1, <3>2 DEF InstanceEosSend
  <2>2. /\ UNCHANGED <<down, got, replies>> /\ chReply \in [Trunks -> Seq(Packets)]
        /\ \A s \in Trunks : Ordered(down[s]) /\ Ordered(chReply[s])
    BY <1>8 DEF InstanceEosSend, netVars, clientVars, divVars, IInv, Types, ServerTypes, DownCarried
  <2>3. /\ \A s \in Trunks : Ordered(chReply'[s])
        /\ \A s \in Trunks : \A e, n : n \in Data(chReply'[s], e) => n \in Data(chReply[s], e)
    BY <2>1, <2>2, PutInChannel
  <2> QED
    BY <2>2, <2>3, DownLess DEF IInv
<1> QED
  BY <1>1, <1>2, <1>3, <1>4, <1>5, <1>6, <1>7, <1>8, DownCases

(* What one trunk hands a client is in order, and nothing is handed over twice. *)
LEMMA DownOrderStep == IInv /\ [Next]_vars => DownInTrunkOrder'
<1> SUFFICES ASSUME IInv, [Next]_vars
             PROVE  DownInTrunkOrder'
  OBVIOUS
<1>1. CASE UNCHANGED <<down, chReply, got, replies>>
  BY <1>1 DEF IInv, DownInTrunkOrder
<1>2. ASSUME NEW t \in Trunks, Connected(t), UNCHANGED serverVars
      PROVE  DownInTrunkOrder'
  BY <1>2 DEF Connected, clientVars, divVars, IInv, DownInTrunkOrder
<1>3. ASSUME NEW t \in Trunks, ClientRecv(t), UNCHANGED serverVars
      PROVE  DownInTrunkOrder'
  <2> DEFINE p == Head(down[t])
  <2>1. /\ down' = [down EXCEPT ![t] = Tail(down[t])] /\ down[t] # << >>
        /\ down \in [Trunks -> Seq(Packets)] /\ got \in [Clients -> Seq(Fed)]
        /\ \A s \in Trunks : Ordered(down[s])
    BY <1>3 DEF ClientRecv, IInv, Types, NetTypes, ClientTypes, DownCarried
  <2>2. /\ p.serial \in Nat
        /\ p.op = "data" => p.serial \in Data(down[t], p.cid)
    <3>1. /\ p.serial \in Nat
          /\ \A s \in Trunks : \A e, n : n \in Data(down[s], e) <=>
                 \/ n \in Data(down'[s], e)
                 \/ s = t /\ n = p.serial /\ p.op = "data" /\ p.cid = e
      BY <2>1, TakenOffTrunk
    <3> HIDE DEF p
    <3> QED
      BY <3>1
  <2>3. CASE got' = got
    BY <2>3 DEF IInv, DownInTrunkOrder
  <2>4. CASE /\ p.op = "data" /\ p.cid \in clients
             /\ got' = [got EXCEPT ![p.cid] = Append(@, [n |-> p.serial, t |-> t])]
    <3>1. PICK c \in Clients, k \in Nat : c = p.cid /\ k = p.serial
      BY <2>2, <2>4 DEF clients
    <3>2. got'[c] = Append(got[c], [n |-> k, t |-> t]) /\ \A e \in Clients : e # c => got'[e] = got[e]
      BY <2>1, <2>4, <3>1
    <3>3. k \in Data(down[t], c)
      BY <2>2, <2>4, <3>1
    <3>4. \A n \in By(got[c], t) : n < k
      BY <3>3, DownFacts DEF IInv
    <3>5. \A s \in Trunks : k \notin By(got[c], s)
      <4> SUFFICES ASSUME NEW s \in Trunks, k \in By(got[c], s)
                   PROVE  FALSE
        OBVIOUS
      <4>1. CASE s = t
        BY <3>4, <4>1
      <4>2. CASE s # t
        <5>1. Went(t, c, k) /\ Went(s, c, k)
          BY <3>3 DEF Went
        <5> QED
          BY <4>2, <5>1, DownFacts DEF IInv
      <4> QED
        BY <4>1, <4>2
    <3>6. InTrunkOrder(got[c]) /\ got[c] \in Seq(Fed)
      BY <2>1 DEF IInv, DownInTrunkOrder
    <3>7. InTrunkOrder(got'[c])
      BY <3>2, <3>4, <3>5, <3>6, ByAppend
    <3> QED
      BY <3>2, <3>7 DEF IInv, DownInTrunkOrder
  <2> QED
    BY <1>3, <2>3, <2>4 DEF ClientRecv
<1>4. ASSUME NEW t \in Trunks, ServerRecv(t), UNCHANGED clientVars
      PROVE  DownInTrunkOrder'
  BY <1>4 DEF clientVars, divVars, IInv, DownInTrunkOrder
<1>5. ASSUME NEW t \in Trunks, ServerPong(t), UNCHANGED clientVars
      PROVE  DownInTrunkOrder'
  BY <1>5 DEF ServerPong, clientVars, divVars, IInv, DownInTrunkOrder
<1>6. ASSUME NEW t \in Trunks, ServerReply(t), UNCHANGED clientVars
      PROVE  DownInTrunkOrder'
  BY <1>6 DEF ServerReply, clientVars, divVars, IInv, DownInTrunkOrder
<1>7. ASSUME NEW d \in Clients, SessionSend(d), UNCHANGED clientVars
      PROVE  DownInTrunkOrder'
  BY <1>7 DEF SessionSend, clientVars, divVars, IInv, DownInTrunkOrder
<1>8. ASSUME NEW d \in Clients, InstanceEosSend(d), UNCHANGED clientVars
      PROVE  DownInTrunkOrder'
  BY <1>8 DEF InstanceEosSend, clientVars, divVars, IInv, DownInTrunkOrder
<1> QED
  BY <1>1, <1>2, <1>3, <1>4, <1>5, <1>6, <1>7, <1>8, DownCases

-----------------------------------------------------------------------------
(* Theorems *)

(* At the start nothing is on its way and nobody is served. *)
LEMMA InitInvariant == Init => IInv
<1> SUFFICES ASSUME Init
             PROVE  IInv
  OBVIOUS
<1> USE DEF Init, NetInit, ClientInit, ServerInit
<1>1. Types
  <2>1. NetTypes
    BY DataEmpty DEF NetTypes
  <2>2. ClientTypes
    BY DEF ClientTypes
  <2>3. ServerTypes
    <3>1. Packet("none", NoClient, 0) \in Packets
      BY PacketFacts
    <3> QED
      BY <3>1, DataEmpty, Constants DEF ServerTypes
  <2> QED
    BY <2>1, <2>2, <2>3 DEF Types
<1>2. Instances
  BY DEF Instances
<1>3. SentInOrder /\ Written /\ UpInTrunkOrder /\ DownInTrunkOrder
  BY ByEmpty DEF SentInOrder, Written, UpInTrunkOrder, DownInTrunkOrder
<1>4. UpCarried
  BY DataEmpty, ByEmpty DEF UpCarried, Starts
<1>5. OneStart
  BY DEF OneStart, Starts
<1>6. NoGap
  BY DEF NoGap, Kept
<1>7. DownCarried
  BY DataEmpty, ByEmpty DEF DownCarried, Flow
<1> QED
  BY <1>1, <1>2, <1>3, <1>4, <1>5, <1>6, <1>7 DEF IInv, Overruns

(* Every step of the divided clients, of the server and of the trunks between them *)
(* keeps the inductive invariant.                                                   *)
LEMMA StepInvariant == IInv /\ [Next]_vars => IInv'
  BY NetTypesStep, ClientTypesStep, ServerTypesStep, InstancesStep, SentInOrderStep,
     UpCarriedStep, OneStartStep, UpOrderStep, WrittenStep, NoGapStep, OverrunStep,
     DownCarriedStep, DownOrderStep DEF IInv, Types

(* The inductive invariant holds in every reachable state of h1pool. *)
THEOREM Inductive == Spec => []IInv
  BY InitInvariant, StepInvariant, PTL DEF Spec

(* Every variable of h1pool has its type, whoever sends has a trunk or a channel to *)
(* send to, and no reply channel holds more than its capacity.                       *)
THEOREM TypeCorrect == Spec => []TypeOK
<1>1. IInv => TypeOK
  <2> SUFFICES ASSUME IInv
               PROVE  TypeOK
    OBVIOUS
  <2>1. ASSUME NEW h \in Seq(Fed)
        PROVE  Range(h) \in SUBSET Fed
    BY DEF Range
  <2>2. \A d \in Clients : {Range(sent[d]), Range(got[d]), Range(fed[d])} \subseteq SUBSET Fed
    <3>1. ASSUME NEW d \in Clients
          PROVE  sent[d] \in Seq(Fed) /\ got[d] \in Seq(Fed) /\ fed[d] \in Seq(Fed)
      BY DEF IInv, Types, ClientTypes, ServerTypes
    <3> QED
      BY <2>1, <3>1
  <2>3. \A d \in Clients :
          /\ {wvia[d], cvia[d], rvia[d]} \subseteq Trunks \cup {0}
          /\ wpc[d] = "send" => wvia[d] \in Trunks
          /\ cpc[d] = "send" => cvia[d] \in Trunks
          /\ hnd[d] = "send" \/ sel[d] = "eosSend" => rvia[d] \in Trunks
    BY DEF IInv, Types, ClientTypes, ServerTypes
  <2>4. \A t \in Trunks : up[t] \in Seq(Packets) /\ down[t] \in Seq(Packets)
    BY DEF IInv, Types, NetTypes
  <2>5. \A t \in Trunks : chReply[t] \in Seq(Packets) /\ Len(chReply[t]) <= ReplyCap
    BY DEF IInv, Types, ServerTypes
  <2> QED
    BY <2>2, <2>3, <2>4, <2>5 DEF IInv, Types, NetTypes, ClientTypes, ServerTypes, TypeOK,
       Overruns
<1> QED
  BY Inductive, <1>1, PTL

(* What the readers of the trunks feed an instance: of each trunk in the order the *)
(* client wrote, and nothing twice.                                                 *)
THEOREM UpOrder == Spec => []UpInTrunkOrder
<1>1. IInv => UpInTrunkOrder
  BY DEF IInv
<1> QED
  BY Inductive, <1>1, PTL

(* The same of the replies that the readers of a pool's trunks feed a divided client. *)
THEOREM DownOrder == Spec => []DownInTrunkOrder
<1>1. IInv => DownInTrunkOrder
  BY DEF IInv
<1> QED
  BY Inductive, <1>1, PTL

(* A divided client all of whose writes went by one trunk: its instance has been fed *)
(* the first of them, without a gap, unless its buffer has had no room for one.       *)
THEOREM OneTrunk == Spec => []OneTrunkStream
<1>1. IInv => OneTrunkStream
  <2> SUFFICES ASSUME IInv, NEW d \in Clients \ overrun, NEW t \in Trunks,
                      \A i \in 1..Len(sent[d]) : sent[d][i].t = t
               PROVE  IsPrefix(fed[d], sent[d])
    BY DEF OneTrunkStream
  <2>1. Kept(d, t)
    BY DEF IInv, NoGap, Only
  <2>2. sent[d] \in Seq(Fed) /\ fed[d] \in Seq(Fed)
    BY DEF IInv, Types, ClientTypes, ServerTypes
  <2>3. Len(fed[d]) <= Len(sent[d]) /\ \A i \in 1..Len(fed[d]) : fed[d][i] = sent[d][i]
    BY <2>1 DEF Kept
  <2>4. SubSeq(sent[d], 1, Len(fed[d])) = fed[d]
    BY <2>2, <2>3
  <2> QED
    BY <2>2, <2>3, <2>4 DEF IsPrefix
<1> QED
  BY Inductive, <1>1, PTL

(* An instance that has ended is not started again: the packet that started it was  *)
(* number 0, which no trunk carries any more, and a later one starts none.            *)
THEOREM ServedOnce == Spec => NoSecondSession
<1>1. IInv /\ [Next]_vars => [\A d \in Clients : sel[d] = "done" => sel'[d] = "done"]_vars
  <2> SUFFICES ASSUME IInv, [Next]_vars, NEW d \in Clients, sel[d] = "done"
               PROVE  sel'[d] = "done"
    OBVIOUS
  <2>1. sel \in [Clients -> {"none", "starting", "select", "eosPick", "eosSend",
                             "exited", "done"}]
    BY DEF IInv, Types, ServerTypes
  <2>2. CASE UNCHANGED <<inMap, sel, hnd, bufClosed>>
    BY <2>2
  <2>3. ASSUME NEW t \in Trunks, ServerRecv(t)
        PROVE  sel'[d] = "done"
    <3> DEFINE p == Head(up[t])
    <3>1. /\ Takes(t) /\ up[t] # << >> /\ (p.op = "data" => p.cid \in Clients)
      BY <2>3, RecvCases DEF IInv
    <3>2. p.op = "data" => p.serial \in Data(up[t], p.cid)
      BY <3>1, TakeEffect DEF IInv
    <3>3. CASE p.op = "data" /\ p.serial = 0 /\ sel' = [sel EXCEPT ![p.cid] = "starting"]
      <4>1. p.cid # d
        BY <3>2, <3>3 DEF IInv, OneStart
      <4> QED
        BY <2>1, <3>3, <4>1
    <3>4. CASE CloseInstance(p.cid)
      BY <2>1, <3>4 DEF CloseInstance
    <3>5. CASE sel' = sel
      BY <3>5
    <3> QED
      BY <2>3, <3>3, <3>4, <3>5, RecvCases DEF IInv
  <2>4. ASSUME NEW e \in Clients,
               \/ InstanceLaunch(e) \/ InstanceSelect(e) \/ SessionWrite(e)
               \/ SessionSend(e) \/ SessionEnds(e) \/ SessionCloses(e)
               \/ SessionSignals(e) \/ InstanceEosPick(e) \/ InstanceEosSend(e)
               \/ InstanceDelete(e)
        PROVE  sel'[d] = "done"
    BY <2>1, <2>4 DEF InstanceLaunch, InstanceSelect, SessionWrite, SessionSend, SessionEnds,
       SessionCloses, CloseInstance, SessionSignals, InstanceEosPick, InstanceEosSend,
       InstanceDelete
  <2> QED
    BY <2>2, <2>3, <2>4, InstanceCases
<1> QED
  BY Inductive, <1>1, PTL DEF Spec, NoSecondSession

-----------------------------------------------------------------------------
(* Packets in lanes *)

\* Writes are numbered without a hole, but for the number that OP_EOS took: a client
\* sends that once, since its Close runs once.
Numbered ==
    \A d \in Clients :
        /\ cpc[d] # "idle" => dstate[d] = "closed"
        /\ \/ serial[d] = Len(sent[d])
           \/ cpc[d] = "done" /\ serial[d] = Len(sent[d]) + 1

(* A step that leaves serials and writes alone, ends no Close twice and begins none *)
(* but of an open client keeps the numbering.                                       *)
LEMMA NumberedSame ==
    ASSUME Numbered, UNCHANGED <<serial, sent>>,
           \A d \in Clients : /\ cpc'[d] # "idle" => dstate'[d] = "closed"
                              /\ cpc[d] = "done" => cpc'[d] = "done"
    PROVE  Numbered'
  BY DEF Numbered

(* Every step keeps the numbering of a client's writes. *)
LEMMA NumberedStep == IInv /\ Numbered /\ [Next]_vars => Numbered'
<1> SUFFICES ASSUME IInv, Numbered, [Next]_vars
             PROVE  Numbered'
  OBVIOUS
<1>t. /\ dstate \in [Clients -> {"new", "open", "closed"}]
      /\ cpc \in [Clients -> {"idle", "pick", "send", "done"}]
  BY DEF IInv, Types, ClientTypes
<1>c. \A d \in Clients : cpc[d] # "idle" => dstate[d] = "closed"
  BY DEF Numbered
<1>1. CASE UNCHANGED <<dstate, serial, wpc, wvia, cpc, cvia, rdone, pings, sent, got>>
  BY <1>1, <1>c, NumberedSame
<1>2. ASSUME NEW t \in Trunks, SendPing(t)
      PROVE  Numbered'
  BY <1>2, <1>c, NumberedSame DEF SendPing, divVars
<1>3. ASSUME NEW t \in Trunks, ClientRecv(t)
      PROVE  Numbered'
  <2> DEFINE c == Head(down[t]).cid
  <2>1. UNCHANGED <<serial, sent>>
    BY <1>3 DEF ClientRecv
  <2>2. \/ UNCHANGED <<dstate, cpc>>
        \/ /\ c \in clients /\ dstate' = [dstate EXCEPT ![c] = "closed"]
           /\ cpc' = [cpc EXCEPT ![c] = "pick"]
    BY <1>3 DEF ClientRecv
  <2> HIDE DEF c
  <2>3. CASE UNCHANGED <<dstate, cpc>>
    BY <1>c, <2>1, <2>3, NumberedSame
  <2>4. CASE /\ c \in clients /\ dstate' = [dstate EXCEPT ![c] = "closed"]
             /\ cpc' = [cpc EXCEPT ![c] = "pick"]
    <3>1. c \in Clients /\ dstate[c] = "open" /\ cpc[c] = "idle"
      BY <1>c, <2>4 DEF clients
    <3>2. \A d \in Clients : /\ cpc'[d] # "idle" => dstate'[d] = "closed"
                             /\ cpc[d] = "done" => cpc'[d] = "done"
      BY <1>t, <1>c, <2>4, <3>1
    <3> QED
      BY <2>1, <3>2, NumberedSame
  <2> QED
    BY <2>2, <2>3, <2>4
<1>4. ASSUME NEW d \in Clients,
             Open(d) \/ WritePick(d) \/ CloseBegin(d) \/ ClosePick(d) \/ CloseGivesUp(d)
      PROVE  Numbered'
  <2>1. UNCHANGED <<serial, sent>>
    BY <1>4 DEF Open, WritePick, CloseBegin, ClosePick, CloseGivesUp
  <2>2. \A e \in Clients : /\ cpc'[e] # "idle" => dstate'[e] = "closed"
                           /\ cpc[e] = "done" => cpc'[e] = "done"
    BY <1>t, <1>c, <1>4 DEF Open, WritePick, CloseBegin, ClosePick, CloseGivesUp
  <2> QED
    BY <2>1, <2>2, NumberedSame
<1>5. ASSUME NEW d \in Clients, WriteSend(d)
      PROVE  Numbered'
  <2>1. /\ serial \in [Clients -> Nat] /\ serial[d] \in Nat
        /\ sent \in [Clients -> Seq(Fed)] /\ sent[d] \in Seq(Fed) /\ Len(sent[d]) \in Nat
        /\ wvia[d] \in Trunks
    BY <1>5 DEF WriteSend, IInv, Types, ClientTypes
  <2> DEFINE w == [n |-> serial[d], t |-> wvia[d]]
  <2>2. /\ UNCHANGED <<cpc, dstate>>
        /\ serial'[d] = serial[d] + 1 /\ sent'[d] = Append(sent[d], w)
        /\ \A e \in Clients : e # d => serial'[e] = serial[e] /\ sent'[e] = sent[e]
    BY <1>5, <2>1 DEF WriteSend
  <2>3. w \in Fed
    BY <2>1 DEF Fed
  <2> HIDE DEF w
  <2>4. Len(sent'[d]) = Len(sent[d]) + 1
    BY <2>1, <2>2, <2>3, AppendFacts
  <2> QED
    BY <2>1, <2>2, <2>4 DEF Numbered
<1>6. ASSUME NEW d \in Clients, CloseSend(d)
      PROVE  Numbered'
  <2>1. /\ serial \in [Clients -> Nat] /\ serial[d] \in Nat /\ cpc[d] = "send"
        /\ UNCHANGED <<sent, dstate>>
        /\ serial' = [serial EXCEPT ![d] = @ + 1] /\ cpc' = [cpc EXCEPT ![d] = "done"]
    BY <1>6 DEF CloseSend, IInv, Types, ClientTypes
  <2>2. serial[d] = Len(sent[d]) /\ dstate[d] = "closed"
    BY <2>1 DEF Numbered
  <2>3. /\ serial'[d] = Len(sent[d]) + 1 /\ cpc'[d] = "done"
        /\ \A e \in Clients : e # d => serial'[e] = serial[e] /\ cpc'[e] = cpc[e]
    BY <1>t, <2>1, <2>2
  <2> QED
    BY <2>1, <2>2, <2>3 DEF Numbered
<1> QED
  BY <1>1, <1>2, <1>3, <1>4, <1>5, <1>6, ClientCases

(* A write is one more packet of its lane, the next number or the one after. *)
LEMMA WriteIsSend ==
    ASSUME IInv, Numbered, NEW d \in Clients, WriteSend(d), UNCHANGED serverVars
    PROVE  Laned!Send(d, wvia[d])
<1>1. /\ serial[d] \in Nat /\ Len(sent[d]) \in Nat
      /\ \A i \in 1..Len(sent[d]) : sent[d][i].n < serial[d]
  BY NumbersSent DEF IInv, SentInOrder
<1>2. serial[d] \in Len(sent[d])..Len(sent[d]) + 1
  BY <1>1 DEF Numbered
<1>3. /\ sent' = [sent EXCEPT ![d] = Append(@, [n |-> serial[d], t |-> wvia[d]])]
      /\ fed' = fed
  BY DEF WriteSend, serverVars
<1> QED
  BY <1>1, <1>2, <1>3 DEF Laned!Send

(* A packet that was written to trunk t, above all that trunk has fed, arrives. *)
LEMMA FedIsArrive ==
    ASSUME Types, SentInOrder, NEW t \in Trunks, NEW c \in Clients, NEW m \in Nat,
           m \in By(sent[c], t), \A n \in By(fed[c], t) : n < m, sent' = sent,
           fed' = [fed EXCEPT ![c] = Append(@, [n |-> m, t |-> t])]
    PROVE  \E i \in 1..Len(sent[c]) : Laned!Arrive(c, i)
<1>1. PICK i \in 1..Len(sent[c]) : sent[c][i].n = m /\ sent[c][i].t = t
  BY DEF By
<1>2. sent[c][i] \in Fed
  BY NumbersSent
<1>3. sent[c][i] = [n |-> m, t |-> t]
  BY <1>1, <1>2 DEF Fed
<1>4. fed[c] \in Seq(Fed)
  BY DEF Types, ServerTypes
<1>5. \A j \in 1..Len(fed[c]) : fed[c][j] \in Fed
  BY <1>4
<1>6. \A j \in 1..Len(fed[c]) : fed[c][j].n \in Nat
  BY <1>5 DEF Fed
<1>7. \A j \in 1..Len(fed[c]) : fed[c][j].t = t => fed[c][j].n \in By(fed[c], t)
  BY <1>6 DEF By
<1>8. \A j \in 1..Len(fed[c]) : fed[c][j].t = sent[c][i].t => fed[c][j].n < sent[c][i].n
  BY <1>1, <1>7
<1>9. fed' = [fed EXCEPT ![c] = Append(@, sent[c][i])]
  BY <1>3
<1> QED
  BY <1>8, <1>9 DEF Laned!Arrive

(* Every step of h1pool writes a packet to a lane, feeds one that comes by its lane, or *)
(* is none of the promise's business.                                                    *)
LEMMA LaneStep == IInv /\ Numbered /\ [Next]_vars => [Laned!Next]_<<sent, fed>>
<1> SUFFICES ASSUME IInv, Numbered, [Next]_vars
             PROVE  Laned!Next \/ UNCHANGED <<sent, fed>>
  OBVIOUS
<1>1. CASE UNCHANGED <<up, sent, fed, rpc, held>>
  BY <1>1
<1>2. ASSUME NEW t \in Trunks, SendPing(t), UNCHANGED serverVars
      PROVE  UNCHANGED <<sent, fed>>
  BY <1>2 DEF SendPing, divVars, serverVars
<1>3. ASSUME NEW d \in Clients, WriteSend(d), UNCHANGED serverVars
      PROVE  Laned!Next
  <2>1. wvia[d] \in Trunks /\ Laned!Send(d, wvia[d])
    BY <1>3, WriteIsSend DEF WriteSend, IInv, Types, ClientTypes
  <2> QED
    BY <2>1 DEF Laned!Next
<1>4. ASSUME NEW d \in Clients, CloseSend(d), UNCHANGED serverVars
      PROVE  UNCHANGED <<sent, fed>>
  BY <1>4 DEF CloseSend, serverVars
<1>5. ASSUME NEW t \in Trunks, ServerRecv(t), UNCHANGED clientVars
      PROVE  Laned!Next \/ UNCHANGED <<sent, fed>>
  <2> DEFINE p == Head(up[t])
  <2>1. sent' = sent
    BY <1>5 DEF clientVars, divVars
  <2>2. CASE p.op = "data" /\ fed' = [fed EXCEPT ![p.cid] = Append(@, [n |-> p.serial, t |-> t])]
    <3>1. Takes(t) /\ up[t] # << >> /\ p.cid \in Clients
      BY <1>5, <2>2, RecvCases DEF IInv
    <3>2. p.serial \in Nat /\ p.serial \in Data(up[t], p.cid)
      BY <2>2, <3>1, TakeEffect DEF IInv
    <3> HIDE DEF p
    <3>3. /\ p.serial \in By(sent[p.cid], t)
          /\ \A m \in By(fed[p.cid], t) : m < p.serial
      BY <3>1, <3>2 DEF IInv, UpCarried
    <3>4. \E i \in 1..Len(sent[p.cid]) : Laned!Arrive(p.cid, i)
      BY <2>1, <2>2, <3>1, <3>2, <3>3, FedIsArrive DEF IInv
    <3> QED
      BY <3>1, <3>4 DEF Laned!Next
  <2>3. CASE fed' = fed
    BY <2>1, <2>3
  <2> QED
    BY <1>5, <2>2, <2>3, RecvCases DEF IInv
<1>6. ASSUME NEW t \in Trunks, ServerFeedFirst(t), UNCHANGED clientVars
      PROVE  Laned!Next \/ UNCHANGED <<sent, fed>>
  <2> DEFINE c == held[t].cid
  <2>1. c \in Clients /\ held[t].serial = 0 /\ Starts(t, c) /\ sent' = sent
    BY <1>6 DEF ServerFeedFirst, IInv, Types, ServerTypes, Starts, clientVars, divVars
  <2>2. fed' = fed \/ fed' = [fed EXCEPT ![c] = Append(@, [n |-> 0, t |-> t])]
    BY <1>6, <2>1 DEF ServerFeedFirst, Feed
  <2> HIDE DEF c
  <2>3. 0 \in By(sent[c], t) /\ By(fed[c], t) = {}
    BY <2>1 DEF IInv, UpCarried
  <2>4. CASE fed' = [fed EXCEPT ![c] = Append(@, [n |-> 0, t |-> t])]
    <3>1. PICK k \in Nat : k = 0
      OBVIOUS
    <3>2. /\ fed' = [fed EXCEPT ![c] = Append(@, [n |-> k, t |-> t])]
          /\ k \in By(sent[c], t) /\ \A n \in By(fed[c], t) : n < k
      BY <2>3, <2>4, <3>1
    <3>3. \E i \in 1..Len(sent[c]) : Laned!Arrive(c, i)
      BY <2>1, <3>2, FedIsArrive DEF IInv
    <3> QED
      BY <2>1, <3>3 DEF Laned!Next
  <2> QED
    BY <2>1, <2>2, <2>4
<1>7. ASSUME NEW t \in Trunks, ServerPong(t) \/ ServerReadEnds(t), UNCHANGED clientVars
      PROVE  UNCHANGED <<sent, fed>>
  BY <1>7 DEF ServerPong, ServerReadEnds, clientVars, divVars
<1> QED
  BY <1>1, <1>2, <1>3, <1>4, <1>5, <1>6, <1>7, UpCases

(* What a session is fed are packets of its client, by the trunk each was written to, in *)
(* that trunk's order and each once: h1pool implements packets in lanes, which is less   *)
(* than the byte stream a transport promises.                                             *)
THEOREM ImplementsLanes == Spec => IsLaned
<1>1. Init => Laned!Init /\ Numbered
  BY DEF Init, NetInit, ClientInit, ServerInit, Laned!Init, Numbered
<1>2. Spec => []Numbered
  BY Inductive, <1>1, NumberedStep, PTL DEF Spec
<1> QED
  BY Inductive, <1>1, <1>2, LaneStep, PTL DEF Spec, IsLaned, Laned!Spec, Laned!vars
=============================================================================
