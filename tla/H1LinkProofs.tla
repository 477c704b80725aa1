---------------------------- MODULE H1LinkProofs ----------------------------
(***************************************************************************)
(* Proofs about H1Link, for messages of any lengths, any room on the       *)
(* network, any slice of the reader and any keys: the framers undo each    *)
(* other, both ends of a connection hold one key, and the data is a stream *)
(* in both directions.                                                     *)
(***************************************************************************)
EXTENDS H1Link, SequenceTheorems, TLAPS

-----------------------------------------------------------------------------
(* Framers *)

\* The bytes len of a stream from position at.
Good == {d \in Pieces : d.ok}

\* Two ends that understand each other.
Fit(f, g) == f.ws = g.ws /\ f.psk = g.psk /\ (f.ws => f.mask # g.mask)

(* The smaller of two natural numbers. *)
LEMMA MinOfTwo ==
    ASSUME NEW m \in Nat, NEW n \in Nat
    PROVE  Min({m, n}) = IF m <= n THEN m ELSE n
<1> DEFINE k == IF m <= n THEN m ELSE n
<1>1. k \in {m, n} /\ \A y \in {m, n} : k <= y
  OBVIOUS
<1>2. \A x \in {m, n} : (\A y \in {m, n} : x <= y) => x = k
  OBVIOUS
<1> HIDE DEF k
<1> QED
  BY <1>1, <1>2 DEF Min, k

(* The length in a ws header is read as it was written, in each of its three forms. *)
LEMMA HeaderKept ==
    ASSUME NEW n \in Nat
    PROVE  WsSize(WsHeader(n)) = n
<1>1. CASE n <= 125
  BY <1>1 DEF WsSize, WsHeader
<1>2. CASE n >= 65536
  BY <1>2 DEF WsSize, WsHeader
<1>3. CASE n > 125 /\ n < 65536
  <2>1. n % 65536 = n
    BY <1>3
  <2> QED
    BY <1>3, <2>1 DEF WsSize, WsHeader
<1> QED
  BY <1>1, <1>2, <1>3

(* A frame that one end writes is accepted by the other and holds the data, whatever *)
(* its length, its format and its padding: F1.Write, F1.Read, Ws.Write and Ws.Read.   *)
THEOREM FrameRoundTrip ==
    ASSUME NEW f, NEW g, Fit(f, g), NEW d \in Good, NEW x \in Frames(f, d)
    PROVE  ~ Refused(g, x) /\ Chunk(g, x) = d
<1>1. d = [at |-> d.at, len |-> d.len, ok |-> TRUE] /\ d.at \in Nat /\ d.len \in Nat
  BY DEF Good, Pieces
<1>2. CASE f.ws
  <2>1. x = WsFrame(f, d) /\ g.ws /\ f.psk = g.psk /\ f.mask # g.mask
    BY <1>2 DEF Frames, Fit
  <2>2. /\ x.header = WsHeader(KeySize + d.len) /\ x.masking = f.mask
        /\ x.enc = [key |-> f.psk, dat |-> d, size |-> KeySize + d.len]
    BY <2>1 DEF WsFrame, Encrypt
  <2>3. KeySize + d.len \in Nat
    BY <1>1 DEF KeySize
  <2>4. WsSize(x.header) = x.enc.size
    BY <2>2, <2>3, HeaderKept
  <2>5. Chunk(g, x) = d
    BY <2>1, <2>2, <2>4 DEF Chunk, WsChunk, Decrypt
  <2>6. ~ Refused(g, x)
    BY <2>1, <2>2 DEF Refused, WsRefused
  <2> QED
    BY <2>5, <2>6
<1>3. CASE ~ f.ws
  <2>1. x \in F1Frames(f, d) /\ ~ g.ws /\ f.psk = g.psk
    BY <1>3 DEF Frames, Fit
  <2>2. PICK pad \in 2..255 :
            LET enc == Encrypt(f.psk, Data(d.at, d.len + pad))
            IN  x = [size |-> enc.size, pad |-> pad, enc |-> enc]
    <3> DEFINE P == IF d.len < 256 THEN Pads ELSE {2}
               Frame(pad) == LET enc == Encrypt(f.psk, Data(d.at, d.len + pad))
                             IN  [size |-> enc.size, pad |-> pad, enc |-> enc]
    <3>1. x \in {Frame(pad) : pad \in P}
      BY <2>1 DEF F1Frames
    <3>2. \A pad \in P : pad \in 2..255
      BY PadAssumption
    <3> HIDE DEF P
    <3> QED
      BY <3>1, <3>2
  <2>3. /\ x.size = x.enc.size /\ x.pad = pad
        /\ x.enc.key = f.psk /\ x.enc.dat = [at |-> d.at, len |-> d.len + pad, ok |-> TRUE]
    BY <2>2 DEF Encrypt, Data
  <2>4. Min({d.len, d.len + pad}) = d.len /\ d.len + pad - pad = d.len
    <3>1. pad \in Nat /\ d.len + pad \in Nat /\ d.len <= d.len + pad
      BY <1>1, <2>2
    <3> QED
      BY <1>1, <3>1, MinOfTwo
  <2>5. F1Chunk(g, x) = [at |-> d.at, len |-> d.len, ok |-> TRUE]
    <3>1. F1Chunk(g, x) = TakeBytes(x.enc.dat, x.enc.dat.len - x.pad)
      BY <2>1, <2>3 DEF F1Chunk, Decrypt
    <3>2. PICK e : e = x.enc.dat /\ e = [at |-> d.at, len |-> d.len + pad, ok |-> TRUE]
      BY <2>3
    <3>3. e.len = d.len + pad
      BY <3>2
    <3>4. [e EXCEPT !.len = d.len] = [at |-> d.at, len |-> d.len, ok |-> TRUE]
      <4>1. e \in Pieces /\ e.at = d.at /\ e.ok = TRUE
        BY <1>1, <3>2 DEF Pieces
      <4>2. /\ [e EXCEPT !.len = d.len] \in Pieces
            /\ [e EXCEPT !.len = d.len].at = e.at
            /\ [e EXCEPT !.len = d.len].len = d.len
            /\ [e EXCEPT !.len = d.len].ok = e.ok
        BY <1>1, <4>1 DEF Pieces
      <4>3. \A r \in Pieces : r = [at |-> r.at, len |-> r.len, ok |-> r.ok]
        BY DEF Pieces
      <4>4. PICK r \in Pieces : r = [e EXCEPT !.len = d.len]
        BY <4>2
      <4>5. r.at = d.at /\ r.len = d.len /\ r.ok = TRUE
        BY <4>1, <4>2, <4>4
      <4> QED
        BY <4>3, <4>4, <4>5
    <3>5. e.len - x.pad = d.len
      <4>1. x.pad = pad /\ pad \in Nat
        BY <2>3
      <4> QED
        BY <1>1, <3>3, <4>1
    <3>6. TakeBytes(e, d.len) = [e EXCEPT !.len = d.len]
      BY <2>4, <3>3 DEF TakeBytes
    <3> QED
      BY <3>1, <3>2, <3>4, <3>5, <3>6
  <2>6. Chunk(g, x) = d /\ ~ Refused(g, x)
    BY <1>1, <2>1, <2>5 DEF Chunk, Refused
  <2> QED
    BY <2>6
<1> QED
  BY <1>2, <1>3

-----------------------------------------------------------------------------
(* Data that follow one another *)

EndOf(d) == d.at + d.len

\* Where data ends that begins at from.
ChainEnd(ds, from) == IF ds = << >> THEN from ELSE EndOf(ds[Len(ds)])

\* Each piece begins where the one before ends, the first at from.
Chain(ds, from) ==
    /\ ds \in Seq(Good)
    /\ from <= ChainEnd(ds, from)
    /\ \A i \in 1..Len(ds) : /\ ds[i].at = IF i = 1 THEN from ELSE EndOf(ds[i - 1])
                             /\ EndOf(ds[i]) <= ChainEnd(ds, from)

\* A history that is one interval from the start, or empty, and where it ends.
GivenEnd(h) == IF h = << >> THEN 0 ELSE h[1].len
Started(h) == h = << >> \/ (GivenEnd(h) \in Nat /\ h = <<Data(0, GivenEnd(h))>>)

\* A queue is a sequence, whatever is in it; what end g reads in it.
Queue(q) == q \in Seq(Range(q))
Read(g, q) == [i \in 1..Len(q) |-> Chunk(g, q[i])]

\* Frames that end g accepts, with data from position from on.
Carries(g, q, from) ==
    /\ Chain(Read(g, q), from)
    /\ \A i \in 1..Len(q) : ~ Refused(g, q[i])

-----------------------------------------------------------------------------
(* The inductive invariant *)

\* What the client's request and the server's answer carry.
Asked == [ws |-> ctx.ws, psk |-> ClientPsk, ts |-> Ts, nonce |-> Nonce]
Granted == [token |-> NewKey]
Refusal == [token |-> {}]

\* The key of the session: what the server drew, the nonce and the time stamp.
SessionKey == Xor(Xor(NewKey, Nonce), Ts)

\* The places of the two ends, and that a channel is written once.
Places ==
    /\ conn \in {"none", "open", "broken"} /\ closed \in BOOLEAN
    /\ relay \in {"new", "request", "await", "start", "select", "write", "failed", "ended"}
    /\ reader \in {"none", "read", "ended"} /\ user \in {"idle", "send"}
    /\ session \in {"none", "run", "write", "ended"}
    /\ chErr \in Nat /\ chErr <= (IF reader = "ended" THEN 1 ELSE 0)
    /\ chClose \in Nat /\ chClose <= (IF closed THEN 1 ELSE 0)
    /\ reply \in Nat /\ offer \in Nat
    /\ Queue(up) /\ Len(up) <= WireCap
    /\ Queue(down) /\ Len(down) <= WireCap + 1
    /\ connected \in BOOLEAN
    /\ connected <=> relay \in {"start", "select", "write", "ended"}

\* Before the handshake is over nothing but its two messages is on its way: the
\* session, which writes only after it has read, has nothing to read.
Phases ==
    /\ relay \in {"new", "request"} => session = "none" /\ up = << >>
    /\ session = "none" => /\ ~ connected /\ down = << >>
                           /\ up = << >> \/ up = <<Asked>>
    /\ ~ connected => /\ reader = "none" /\ session # "write" /\ nread = 0
                      /\ written = << >> /\ replied = << >>
                      /\ stx.left.len = 0 /\ ctx.left.len = 0
                      /\ session # "none" => up = << >>
    /\ relay = "await" /\ session = "run" => down = <<Granted>>
    /\ relay = "await" /\ session = "ended" =>
           down = << >> \/ down = <<Granted>> \/ down = <<Refusal>>
    /\ reader # "none" => relay \in {"select", "write", "ended"}

\* Each end that has a framer has the one of the session.
Framers ==
    /\ session \in {"run", "write"} \/ connected \/ down = <<Granted>> =>
         stx.psk = SessionKey /\ stx.ws = ctx.ws /\ stx.mask = FALSE
    /\ connected => ctx.psk = SessionKey /\ ctx.mask = ctx.ws
    /\ ctx.ws \in BOOLEAN
    /\ ctx = [ws |-> ctx.ws, psk |-> ctx.psk, mask |-> ctx.mask, left |-> ctx.left]
    /\ stx = [ws |-> stx.ws, psk |-> stx.psk, mask |-> stx.mask, left |-> stx.left]

\* The messages of the user are a stream, of which the relay holds the last.
Written ==
    /\ Chain(written, 0)
    /\ \A i \in 1..Len(written) : written[i].len > HeadSize
    /\ chunk \in Pieces
    /\ relay = "write" => written # << >> /\ chunk = written[Len(written)]
    /\ user = "send" => offer > HeadSize

\* Where the k-th message begins.
StartOf(k) == IF k = 1 THEN 0 ELSE EndOf(written[k - 1])

\* The session has been given the beginning of it, up to where it is in a message,
\* and what its framer has left comes next.
Position ==
    /\ Started(seen) /\ GivenEnd(seen) <= StreamEnd(written)
    /\ nread \in Nat /\ nread <= Len(written) /\ need \in Nat /\ inBody \in BOOLEAN
    /\ ~ inBody => /\ need \in 1..HeadSize
                   /\ GivenEnd(seen) + need = StartOf(nread + 1) + HeadSize
    /\ inBody => /\ nread < Len(written)
                 /\ GivenEnd(seen) + need = EndOf(written[nread + 1])
    /\ stx.left \in Pieces
    /\ stx.left.len > 0 => stx.left.ok /\ stx.left.at = GivenEnd(seen)

\* Then come the frames on their way, and behind them nothing is missing but, for
\* good, what was lost with the connection.
UpWire ==
    connected =>
        LET from == GivenEnd(seen) + stx.left.len
            to == ChainEnd(Read(stx, up), from)
        IN  /\ Carries(stx, up, from)
            /\ to <= StreamEnd(written)
            /\ conn = "open" => to = IF relay = "write" THEN chunk.at ELSE StreamEnd(written)

\* The same of the session's messages and bufRead, until it refuses a piece.
Replied == Chain(replied, 0)

Fed ==
    /\ Started(got) /\ GivenEnd(got) <= StreamEnd(replied)
    /\ ctx.left \in Pieces
    /\ reader # "ended" /\ ctx.left.len > 0 => ctx.left.ok /\ ctx.left.at = GivenEnd(got)

DownWire ==
    connected /\ reader # "ended" =>
        LET from == GivenEnd(got) + ctx.left.len
        IN  /\ Carries(ctx, down, from)
            /\ ChainEnd(Read(ctx, down), from) = StreamEnd(replied)

Handshake == Places /\ Phases /\ Framers
UpFlow == Written /\ Position /\ UpWire
DownFlow == Replied /\ Fed /\ DownWire

IInv == Handshake /\ UpFlow /\ DownFlow

-----------------------------------------------------------------------------
(* Sequences, chains and histories *)

(* What the operations on a sequence leave of it. *)
LEMMA SeqFacts ==
    ASSUME NEW S, NEW s \in Seq(S)
    PROVE  /\ Len(s) \in Nat
           /\ \A x \in S : /\ Append(s, x) \in Seq(S) /\ Len(Append(s, x)) = Len(s) + 1
                           /\ \A i \in 1..Len(s) : Append(s, x)[i] = s[i]
                           /\ Append(s, x)[Len(s) + 1] = x /\ Append(s, x) # << >>
           /\ s # << >> => /\ Len(s) >= 1 /\ Head(s) = s[1] /\ Head(s) \in S
                           /\ Tail(s) \in Seq(S) /\ Len(Tail(s)) = Len(s) - 1
                           /\ \A i \in 1..Len(s) - 1 : Tail(s)[i] = s[i + 1]
           /\ s = << >> <=> Len(s) = 0
           /\ \A i \in 1..Len(s) : s[i] \in S
<1>1. /\ Len(s) \in Nat /\ (s = << >> <=> Len(s) = 0)
      /\ \A i \in 1..Len(s) : s[i] \in S
  OBVIOUS
<1>2. ASSUME NEW x \in S
      PROVE  /\ Append(s, x) \in Seq(S) /\ Len(Append(s, x)) = Len(s) + 1
             /\ \A i \in 1..Len(s) : Append(s, x)[i] = s[i]
             /\ Append(s, x)[Len(s) + 1] = x /\ Append(s, x) # << >>
  <2>1. /\ Append(s, x) \in Seq(S) /\ Len(Append(s, x)) = Len(s) + 1
        /\ \A i \in 1..Len(s) : Append(s, x)[i] = s[i]
        /\ Append(s, x)[Len(s) + 1] = x
    OBVIOUS
  <2>2. Len(Append(s, x)) # 0
    BY <1>1, <2>1
  <2> QED
    BY <2>1, <2>2
<1>3. s # << >> => /\ Len(s) >= 1 /\ Head(s) = s[1] /\ Head(s) \in S
                   /\ Tail(s) \in Seq(S) /\ Len(Tail(s)) = Len(s) - 1
                   /\ \A i \in 1..Len(s) - 1 : Tail(s)[i] = s[i + 1]
  OBVIOUS
<1> QED
  BY <1>1, <1>2, <1>3

(* The same of a queue, whatever it holds. *)
LEMMA QueueFacts ==
    ASSUME NEW q, Queue(q)
    PROVE  /\ Len(q) \in Nat
           /\ \A x : /\ Queue(Append(q, x)) /\ Len(Append(q, x)) = Len(q) + 1
                     /\ \A i \in 1..Len(q) : Append(q, x)[i] = q[i]
                     /\ Append(q, x)[Len(q) + 1] = x
           /\ q # << >> => /\ Len(q) >= 1 /\ Head(q) = q[1] /\ Queue(Tail(q))
                           /\ Len(Tail(q)) = Len(q) - 1
                           /\ \A i \in 1..Len(q) - 1 : Tail(q)[i] = q[i + 1]
           /\ q = << >> <=> Len(q) = 0
<1>0. q \in Seq(Range(q))
  BY DEF Queue
<1>1. ASSUME NEW T, NEW s \in Seq(T)
      PROVE  Queue(s)
  <2>1. s \in [1..Len(s) -> T] /\ Len(s) \in Nat
    OBVIOUS
  <2>2. s \in [1..Len(s) -> Range(s)]
    BY <2>1 DEF Range
  <2> QED
    BY <2>1, <2>2 DEF Queue
<1>2. ASSUME NEW x
      PROVE  /\ Queue(Append(q, x)) /\ Len(Append(q, x)) = Len(q) + 1
             /\ \A i \in 1..Len(q) : Append(q, x)[i] = q[i]
             /\ Append(q, x)[Len(q) + 1] = x
  <2> DEFINE T == Range(q) \cup {x}
  <2>1. q \in Seq(T) /\ x \in T
    BY <1>0
  <2> HIDE DEF T
  <2>2. Append(q, x) \in Seq(T)
    BY <2>1, SeqFacts
  <2>3. Queue(Append(q, x))
    BY <2>2, <1>1
  <2>4. /\ Len(Append(q, x)) = Len(q) + 1 /\ Append(q, x)[Len(q) + 1] = x
        /\ \A i \in 1..Len(q) : Append(q, x)[i] = q[i]
    BY <2>1, SeqFacts
  <2> QED
    BY <2>3, <2>4
<1>3. q # << >> => /\ Len(q) >= 1 /\ Head(q) = q[1] /\ Queue(Tail(q))
                   /\ Len(Tail(q)) = Len(q) - 1
                   /\ \A i \in 1..Len(q) - 1 : Tail(q)[i] = q[i + 1]
  BY <1>0, <1>1, SeqFacts
<1> QED
  BY <1>0, <1>2, <1>3, SeqFacts

(* The empty queue. *)
LEMMA EmptyQueue == Queue(<< >>) /\ Len(<< >>) = 0
  BY DEF Queue, Range

(* Good data is known by its place. *)
LEMMA GoodData ==
    ASSUME NEW d \in Good
    PROVE  /\ d.at \in Nat /\ d.len \in Nat /\ d.ok = TRUE /\ EndOf(d) \in Nat
           /\ d.at <= EndOf(d) /\ EndOf(d) = d.at + d.len /\ d \in Pieces
  BY DEF Good, Pieces, EndOf

(* Data that is a number of bytes at a position is good. *)
LEMMA DataGood ==
    ASSUME NEW at \in Nat, NEW n \in Nat
    PROVE  /\ Data(at, n) \in Good /\ Data(at, n).at = at /\ Data(at, n).len = n
           /\ EndOf(Data(at, n)) = at + n
  BY DEF Good, Pieces, Data, EndOf

(* The end of a chain. *)
LEMMA ChainEnds ==
    ASSUME NEW ds, NEW from \in Nat, Chain(ds, from)
    PROVE  ChainEnd(ds, from) \in Nat /\ from <= ChainEnd(ds, from)
<1>1. ds \in Seq(Good)
  BY DEF Chain
<1>2. CASE ds = << >>
  BY <1>2 DEF ChainEnd
<1>3. CASE ds # << >>
  <2>1. ds[Len(ds)] \in Good
    BY <1>1, <1>3, SeqFacts
  <2> QED
    BY <1>3, <2>1, GoodData DEF ChainEnd, Chain
<1> QED
  BY <1>2, <1>3

(* An empty chain. *)
LEMMA EmptyChain ==
    ASSUME NEW from \in Nat
    PROVE  Chain(<< >>, from) /\ ChainEnd(<< >>, from) = from
<1>1. ChainEnd(<< >>, from) = from
  BY DEF ChainEnd
<1> QED
  BY <1>1 DEF Chain

(* A chain is continued at its end. *)
LEMMA ChainAppend ==
    ASSUME NEW ds, NEW from \in Nat, Chain(ds, from),
           NEW d \in Good, d.at = ChainEnd(ds, from)
    PROVE  Chain(Append(ds, d), from) /\ ChainEnd(Append(ds, d), from) = EndOf(d)
<1> DEFINE es == Append(ds, d)
<1>1. /\ ds \in Seq(Good) /\ es \in Seq(Good) /\ Len(ds) \in Nat
      /\ Len(es) = Len(ds) + 1 /\ es[Len(ds) + 1] = d
      /\ \A i \in 1..Len(ds) : es[i] = ds[i]
      /\ es # << >>
  BY SeqFacts DEF Chain
<1> HIDE DEF es
<1>2. ChainEnd(es, from) = EndOf(d)
  BY <1>1 DEF ChainEnd
<1>3. ChainEnd(ds, from) \in Nat /\ from <= ChainEnd(ds, from)
  BY ChainEnds
<1>4. ChainEnd(ds, from) <= EndOf(d) /\ EndOf(d) \in Nat
  BY <1>3, GoodData
<1>5. ASSUME NEW i \in 1..Len(es)
      PROVE  /\ es[i].at = IF i = 1 THEN from ELSE EndOf(es[i - 1])
             /\ EndOf(es[i]) <= EndOf(d)
  <2>1. CASE i \in 1..Len(ds)
    <3>1. es[i] = ds[i] /\ (i # 1 => i - 1 \in 1..Len(ds) /\ es[i - 1] = ds[i - 1])
      BY <1>1, <2>1
    <3>2. ds[i] \in Good
      BY <1>1, <2>1, SeqFacts
    <3>3. /\ ds[i].at = IF i = 1 THEN from ELSE EndOf(ds[i - 1])
          /\ EndOf(ds[i]) <= ChainEnd(ds, from)
      BY <2>1 DEF Chain
    <3>4. EndOf(ds[i]) \in Nat
      BY <3>2, GoodData
    <3>5. EndOf(es[i]) <= EndOf(d)
      BY <1>3, <1>4, <3>1, <3>3, <3>4
    <3>6. CASE i = 1
      BY <3>1, <3>3, <3>5, <3>6
    <3>7. CASE i # 1
      BY <3>1, <3>3, <3>5, <3>7
    <3> QED
      BY <3>6, <3>7
  <2>2. CASE i = Len(ds) + 1
    <3>1. CASE ds = << >>
      BY <1>1, <1>4, <2>2, <3>1 DEF ChainEnd
    <3>2. CASE ds # << >>
      <4>1. i # 1 /\ i - 1 = Len(ds) /\ Len(ds) \in 1..Len(ds)
        BY <1>1, <2>2, <3>2, SeqFacts
      <4> QED
        BY <1>1, <1>4, <2>2, <3>2, <4>1 DEF ChainEnd
    <3> QED
      BY <3>1, <3>2
  <2> QED
    BY <1>1, <2>1, <2>2
<1>6. from <= EndOf(d)
  BY <1>3, <1>4
<1>7. Chain(es, from)
  BY <1>1, <1>2, <1>5, <1>6 DEF Chain
<1> QED
  BY <1>2, <1>7 DEF es

(* A chain without its first piece begins where that ends. *)
LEMMA ChainTail ==
    ASSUME NEW ds, NEW from \in Nat, Chain(ds, from), ds # << >>
    PROVE  /\ Head(ds) \in Good /\ Head(ds).at = from
           /\ EndOf(Head(ds)) <= ChainEnd(ds, from)
           /\ Chain(Tail(ds), EndOf(Head(ds)))
           /\ ChainEnd(Tail(ds), EndOf(Head(ds))) = ChainEnd(ds, from)
<1> DEFINE es == Tail(ds)
           e == EndOf(Head(ds))
<1>1. /\ ds \in Seq(Good) /\ es \in Seq(Good) /\ Len(ds) \in Nat /\ Len(ds) >= 1
      /\ Head(ds) = ds[1] /\ Head(ds) \in Good /\ Len(es) = Len(ds) - 1
      /\ \A i \in 1..Len(ds) - 1 : es[i] = ds[i + 1]
      /\ es = << >> <=> Len(es) = 0
  BY SeqFacts DEF Chain
<1>2. 1 \in 1..Len(ds) /\ Head(ds).at = from /\ e <= ChainEnd(ds, from)
  BY <1>1 DEF Chain
<1> HIDE DEF es
<1>3. ChainEnd(es, e) = ChainEnd(ds, from)
  <2>1. CASE es = << >>
    <3>1. Len(ds) = 1
      BY <1>1, <2>1
    <3> QED
      BY <1>1, <2>1, <3>1 DEF ChainEnd
  <2>2. CASE es # << >>
    <3>1. es[Len(es)] = ds[Len(ds)]
      BY <1>1, <2>2
    <3> QED
      BY <2>2, <3>1 DEF ChainEnd
  <2> QED
    BY <2>1, <2>2
<1>4. ASSUME NEW i \in 1..Len(es)
      PROVE  /\ es[i].at = IF i = 1 THEN e ELSE EndOf(es[i - 1])
             /\ EndOf(es[i]) <= ChainEnd(ds, from)
  <2>1. i + 1 \in 1..Len(ds) /\ i + 1 # 1 /\ es[i] = ds[i + 1] /\ (i + 1) - 1 = i
    BY <1>1
  <2>2. ds[i + 1].at = EndOf(ds[i]) /\ EndOf(ds[i + 1]) <= ChainEnd(ds, from)
    BY <2>1 DEF Chain
  <2>3. CASE i = 1
    BY <1>1, <2>1, <2>2, <2>3
  <2>4. CASE i # 1
    <3>1. i - 1 \in 1..Len(ds) - 1 /\ es[i - 1] = ds[i]
      BY <1>1, <2>1, <2>4
    <3> QED
      BY <2>1, <2>2, <2>4, <3>1
  <2> QED
    BY <2>3, <2>4
<1>5. Chain(es, e)
  BY <1>1, <1>2, <1>3, <1>4 DEF Chain
<1> QED
  BY <1>1, <1>2, <1>3, <1>5 DEF es

(* Frames that are written at the end of a queue, or read at its head. *)
LEMMA CarriesAppend ==
    ASSUME NEW g, NEW q, Queue(q), NEW from \in Nat, Carries(g, q, from), NEW x, ~ Refused(g, x),
           Chunk(g, x) \in Good, Chunk(g, x).at = ChainEnd(Read(g, q), from)
    PROVE  /\ Carries(g, Append(q, x), from)
           /\ ChainEnd(Read(g, Append(q, x)), from) = EndOf(Chunk(g, x))
<1>1. /\ Queue(q) /\ Len(q) \in Nat /\ Queue(Append(q, x)) /\ Len(Append(q, x)) = Len(q) + 1
      /\ \A i \in 1..Len(q) : Append(q, x)[i] = q[i]
      /\ Append(q, x)[Len(q) + 1] = x
  BY QueueFacts DEF Carries
<1>2. PICK p : p = Append(q, x)
  OBVIOUS
<1>3. Read(g, q) \in Seq(Good) /\ Len(Read(g, q)) = Len(q)
  BY <1>1 DEF Carries, Chain, Read
<1>4. Read(g, p) = Append(Read(g, q), Chunk(g, x))
  <2>1. /\ Append(Read(g, q), Chunk(g, x)) \in Seq(Good)
        /\ Len(Append(Read(g, q), Chunk(g, x))) = Len(q) + 1
        /\ \A i \in 1..Len(q) : Append(Read(g, q), Chunk(g, x))[i] = Read(g, q)[i]
        /\ Append(Read(g, q), Chunk(g, x))[Len(q) + 1] = Chunk(g, x)
    BY <1>3, SeqFacts
  <2>2. \A i \in 1..Len(q) : Read(g, q)[i] = Chunk(g, q[i])
    BY DEF Read
  <2>3. \A i \in 1..Len(q) + 1 : Append(Read(g, q), Chunk(g, x))[i] = Chunk(g, p[i])
    BY <1>1, <1>2, <2>1, <2>2
  <2>4. Append(Read(g, q), Chunk(g, x)) = [i \in 1..Len(q) + 1 |-> Chunk(g, p[i])]
    <3>1. \A s \in Seq(Good) : s = [i \in 1..Len(s) |-> s[i]]
      OBVIOUS
    <3> QED
      BY <2>1, <2>3, <3>1
  <2> QED
    BY <1>1, <1>2, <2>4 DEF Read
<1>5. Chain(Read(g, p), from) /\ ChainEnd(Read(g, p), from) = EndOf(Chunk(g, x))
  BY <1>4, ChainAppend DEF Carries
<1>6. \A i \in 1..Len(p) : ~ Refused(g, p[i])
  BY <1>1, <1>2 DEF Carries
<1> QED
  BY <1>1, <1>2, <1>5, <1>6 DEF Carries

(* The head of a queue is accepted, and holds the next data. *)
LEMMA CarriesTail ==
    ASSUME NEW g, NEW q, Queue(q), NEW from \in Nat, Carries(g, q, from), q # << >>
    PROVE  LET d == Chunk(g, Head(q)) IN
           /\ ~ Refused(g, Head(q)) /\ d \in Good /\ d.at = from
           /\ EndOf(d) <= ChainEnd(Read(g, q), from)
           /\ Carries(g, Tail(q), EndOf(d))
           /\ ChainEnd(Read(g, Tail(q)), EndOf(d)) = ChainEnd(Read(g, q), from)
<1>1. /\ Queue(q) /\ Len(q) \in Nat /\ Len(q) >= 1 /\ Head(q) = q[1] /\ Queue(Tail(q))
      /\ Len(Tail(q)) = Len(q) - 1
      /\ \A i \in 1..Len(q) - 1 : Tail(q)[i] = q[i + 1]
  BY QueueFacts DEF Carries
<1>2. PICK p : p = Tail(q)
  OBVIOUS
<1>3. /\ Read(g, q) \in Seq(Good) /\ Len(Read(g, q)) = Len(q) /\ Read(g, q) # << >>
      /\ \A i \in 1..Len(q) : Read(g, q)[i] = Chunk(g, q[i])
  BY <1>1 DEF Carries, Chain, Read
<1>4. Read(g, p) = Tail(Read(g, q)) /\ Head(Read(g, q)) = Chunk(g, Head(q))
  <2>1. /\ Tail(Read(g, q)) \in Seq(Good) /\ Len(Tail(Read(g, q))) = Len(q) - 1
        /\ \A i \in 1..Len(q) - 1 : Tail(Read(g, q))[i] = Read(g, q)[i + 1]
        /\ Head(Read(g, q)) = Read(g, q)[1]
    BY <1>3, SeqFacts
  <2>2. \A i \in 1..Len(q) - 1 : i + 1 \in 1..Len(q) /\ Tail(Read(g, q))[i] = Chunk(g, p[i])
    BY <1>1, <1>2, <1>3, <2>1
  <2>3. Tail(Read(g, q)) = [i \in 1..Len(q) - 1 |-> Chunk(g, p[i])]
    <3>1. \A s \in Seq(Good) : s = [i \in 1..Len(s) |-> s[i]]
      OBVIOUS
    <3> QED
      BY <2>1, <2>2, <3>1
  <2> QED
    BY <1>1, <1>2, <1>3, <2>1, <2>3 DEF Read
<1>5. \A i \in 1..Len(p) : ~ Refused(g, p[i])
  BY <1>1, <1>2 DEF Carries
<1>6. ~ Refused(g, Head(q))
  BY <1>1 DEF Carries
<1> QED
  BY <1>1, <1>2, <1>3, <1>4, <1>5, <1>6, ChainTail DEF Carries

(* What an end reads does not depend on what it has left. *)
LEMMA SameEnd ==
    ASSUME NEW f, NEW g, f.ws = g.ws, f.psk = g.psk, f.mask = g.mask, NEW q, NEW from
    PROVE  /\ Read(f, q) = Read(g, q) /\ (Carries(f, q, from) <=> Carries(g, q, from))
           /\ \A d : Frames(f, d) = Frames(g, d)
<1>1. \A x : Chunk(f, x) = Chunk(g, x) /\ (Refused(f, x) <=> Refused(g, x))
  BY DEF Chunk, Refused, WsChunk, F1Chunk, WsRefused
<1>2. \A d : Frames(f, d) = Frames(g, d)
  BY DEF Frames, WsFrame, F1Frames
<1>3. Read(f, q) = Read(g, q)
  BY <1>1 DEF Read
<1> QED
  BY <1>1, <1>2, <1>3 DEF Carries

(* Nothing on its way. *)
LEMMA CarriesNone ==
    ASSUME NEW g, NEW from \in Nat
    PROVE  Carries(g, << >>, from) /\ ChainEnd(Read(g, << >>), from) = from
<1>1. Read(g, << >>) = << >>
  BY EmptyQueue DEF Read
<1> QED
  BY <1>1, EmptyQueue, EmptyChain DEF Carries

(* Taking the first n bytes of data, and dropping them. *)
LEMMA BytesTaken ==
    ASSUME NEW d \in Good, NEW n \in Nat
    PROVE  \E k \in Nat : /\ k <= n /\ k <= d.len /\ (k = n \/ k = d.len)
                          /\ TakeBytes(d, n) = Data(d.at, k)
                          /\ DropBytes(d, n) = Data(d.at + k, d.len - k)
<1>1. d.at \in Nat /\ d.len \in Nat /\ d = [at |-> d.at, len |-> d.len, ok |-> TRUE]
  BY DEF Good, Pieces
<1>2. PICK k \in Nat : k = Min({n, d.len}) /\ k <= n /\ k <= d.len /\ (k = n \/ k = d.len)
  BY <1>1, MinOfTwo
<1>3. \A r \in Pieces : r = [at |-> r.at, len |-> r.len, ok |-> r.ok]
  BY DEF Pieces
<1>4. TakeBytes(d, n) = Data(d.at, k)
  <2>1. PICK r \in Pieces : r = [d EXCEPT !.len = k]
    BY <1>1, <1>2 DEF Good, Pieces
  <2>2. r.at = d.at /\ r.len = k /\ r.ok = TRUE
    BY <1>1, <2>1 DEF Good, Pieces
  <2> QED
    BY <1>2, <1>3, <2>1, <2>2 DEF TakeBytes, Data
<1>5. TakeBytes(d, n).len = k
  BY <1>4 DEF Data
<1>6. DropBytes(d, n) = Data(d.at + k, d.len - k)
  <2>0. d.at + k \in Nat /\ d.len - k \in Nat
    BY <1>1, <1>2
  <2>1. PICK r \in Pieces : r = [d EXCEPT !.at = @ + k, !.len = @ - k]
    BY <2>0 DEF Good, Pieces
  <2>2. r.at = d.at + k /\ r.len = d.len - k /\ r.ok = TRUE
    BY <1>1, <2>1 DEF Good, Pieces
  <2> QED
    BY <1>3, <1>5, <2>1, <2>2 DEF DropBytes, Data
<1> QED
  BY <1>2, <1>4, <1>6

(* A history takes in the data that comes next. *)
LEMMA GivenNext ==
    ASSUME NEW h, Started(h), NEW n \in Nat
    PROVE  /\ Started(Given(h, Data(GivenEnd(h), n)))
           /\ GivenEnd(Given(h, Data(GivenEnd(h), n))) = GivenEnd(h) + n
           /\ GivenEnd(h) \in Nat
<1>1. CASE h = << >>
  <2>1. GivenEnd(h) = 0 /\ Given(h, Data(0, n)) = <<Data(0, n)>>
    BY <1>1 DEF GivenEnd, Given
  <2>2. GivenEnd(<<Data(0, n)>>) = n
    BY DEF GivenEnd, Data
  <2> QED
    BY <2>1, <2>2 DEF Started
<1>2. CASE h # << >>
  <2>1. PICK k \in Nat : k = GivenEnd(h) /\ h = <<Data(0, k)>>
    BY <1>2 DEF Started
  <2>2. Last(h) = Data(0, k) /\ Len(h) = 1
    BY <2>1 DEF Last
  <2>3. Data(0, k).ok /\ Data(k, n).ok /\ Data(0, k).at + Data(0, k).len = k /\ Data(k, n).at = k
    BY DEF Data
  <2>4. Given(h, Data(k, n)) = [h EXCEPT ![1].len = @ + n]
    BY <1>2, <2>2, <2>3 DEF Given, Data
  <2>5. [h EXCEPT ![1].len = @ + n] = <<Data(0, k + n)>>
    <3>1. h[1] = Data(0, k) /\ Data(0, k) \in Pieces /\ Data(0, k).len = k
      BY <2>1 DEF Data, Pieces
    <3>2. \A e \in Pieces : e = [at |-> e.at, len |-> e.len, ok |-> e.ok]
      BY DEF Pieces
    <3>3. PICK e \in Pieces : e = [Data(0, k) EXCEPT !.len = k + n]
      <4>1. k + n \in Nat
        BY <2>1
      <4> QED
        BY <3>1, <4>1 DEF Pieces
    <3>4. e.at = 0 /\ e.len = k + n /\ e.ok = TRUE
      BY <3>1, <3>3 DEF Pieces, Data
    <3>5. e = Data(0, k + n)
      BY <3>2, <3>4 DEF Data
    <3>6. [h EXCEPT ![1].len = @ + n] = [h EXCEPT ![1] = e]
      BY <3>1, <3>3
    <3>7. [h EXCEPT ![1] = e] = <<e>>
      BY <2>1
    <3> QED
      BY <3>5, <3>6, <3>7
  <2>6. GivenEnd(<<Data(0, k + n)>>) = k + n
    BY DEF GivenEnd, Data
  <2> QED
    BY <2>1, <2>4, <2>5, <2>6 DEF Started
<1> QED
  BY <1>1, <1>2

-----------------------------------------------------------------------------
(* The handshake *)

(* Messages of the handshake, alone on their way. *)
LEMMA OneMessage ==
    ASSUME NEW x
    PROVE  /\ Append(<< >>, x) = <<x>> /\ Head(<<x>>) = x /\ Tail(<<x>>) = << >>
           /\ <<x>> # << >> /\ Len(<<x>>) = 1 /\ Len(<< >>) = 0
           /\ Queue(<<x>>) /\ Queue(<< >>)
<1>1. /\ Append(<< >>, x) = <<x>> /\ Head(<<x>>) = x /\ Tail(<<x>>) = << >>
      /\ <<x>> # << >> /\ Len(<<x>>) = 1 /\ Len(<< >>) = 0
  OBVIOUS
<1>2. Queue(Append(<< >>, x))
  BY EmptyQueue, QueueFacts
<1> QED
  BY <1>1, <1>2, EmptyQueue

(* Reading a piece of data changes only what is left of a frame. *)
LEMMA ReadKeepsFramer ==
    ASSUME NEW f, f = [ws |-> f.ws, psk |-> f.psk, mask |-> f.mask, left |-> f.left],
           NEW dat, NEW n
    PROVE  LET g == ReadChunk(f, dat, n) IN
           /\ g = [ws |-> g.ws, psk |-> g.psk, mask |-> g.mask, left |-> g.left]
           /\ g.ws = f.ws /\ g.psk = f.psk /\ g.mask = f.mask /\ g.left = DropBytes(dat, n)
  BY DEF ReadChunk

(* What a write and a read leave of the two queues. *)
LEMMA Room ==
    ASSUME Places
    PROVE  /\ Len(up) \in Nat /\ Len(down) \in Nat
           /\ Len(up) <= WireCap /\ Len(down) <= WireCap + 1
           /\ \A x : Queue(Append(up, x)) /\ Len(Append(up, x)) = Len(up) + 1
           /\ up # << >> => Queue(Tail(up)) /\ Len(Tail(up)) = Len(up) - 1
           /\ \A x : Queue(Append(down, x)) /\ Len(Append(down, x)) = Len(down) + 1
           /\ down # << >> => Queue(Tail(down)) /\ Len(Tail(down)) = Len(down) - 1
  BY QueueFacts DEF Places

(* The server's answer gives it the key of the session. *)
LEMMA AnswerStep == IInv /\ HandleServerConn /\ UNCHANGED clientVars => Handshake'
<1> SUFFICES ASSUME IInv, HandleServerConn, UNCHANGED clientVars
             PROVE  Handshake'
  OBVIOUS
<1>1. /\ session = "none" /\ up = <<Asked>> /\ down = << >> /\ ~ connected
      /\ UNCHANGED <<nread, reply, replied>> /\ conn' \in {conn, "broken"}
  BY DEF IInv, Handshake, Phases, HandleServerConn, readVars
<1>2. Head(up) = Asked /\ up' = << >>
  BY <1>1, OneMessage DEF HandleServerConn
<1>3. UNCHANGED <<closed, connected, relay, reader, chErr, chClose, ctx, user, offer, written>>
  BY DEF clientVars
<1>4. Asked.ws = ctx.ws /\ Asked.nonce = Nonce /\ Asked.ts = Ts
  BY DEF Asked
<1>5. relay \notin {"new", "request", "start", "select", "write", "ended"} /\ reader = "none"
  BY <1>1, OneMessage DEF IInv, Handshake, Phases, Places
<1>6. CASE /\ down' = Append(down, [token |-> NewKey]) /\ session' = "run"
           /\ stx' = NewFramer(Asked.ws, Xor(NewKey, Asked.nonce), Asked.ts, "server")
  <2>1. /\ stx' = [ws |-> ctx.ws, psk |-> SessionKey, mask |-> FALSE, left |-> NoData]
        /\ stx'.left.len = 0
    BY <1>4, <1>6 DEF NewFramer, SessionKey, NoData, Data
  <2>2. down' = <<Granted>>
    BY <1>1, <1>6, OneMessage DEF Granted
  <2>3. Places'
    BY <1>1, <1>2, <1>3, <1>6, <2>2, OneMessage, WireAssumption DEF IInv, Handshake, Places
  <2>4. Phases'
    BY <1>1, <1>2, <1>3, <1>5, <1>6, <2>1, <2>2 DEF IInv, Handshake, Phases, Granted
  <2>5. Framers'
    BY <1>1, <1>3, <1>5, <1>6, <2>1 DEF IInv, Handshake, Framers, SessionKey
  <2> QED
    BY <2>3, <2>4, <2>5 DEF Handshake
<1>7. CASE /\ down' = IF conn = "open" THEN Append(down, [token |-> {}]) ELSE down
           /\ session' = "ended" /\ stx' = stx
  <2>1. down' = << >> \/ down' = <<Refusal>>
    BY <1>1, <1>7, OneMessage DEF Refusal
  <2>2. down' # <<Granted>>
    <3>1. Granted.token # Refusal.token
      BY DEF Granted, Refusal, NewKey
    <3> QED
      BY <2>1, <3>1, OneMessage
  <2>3. Places'
    BY <1>1, <1>2, <1>3, <1>7, <2>1, OneMessage, WireAssumption DEF IInv, Handshake, Places
  <2>4. Phases'
    BY <1>1, <1>2, <1>3, <1>5, <1>7, <2>1 DEF IInv, Handshake, Phases, Refusal
  <2>5. Framers'
    BY <1>1, <1>3, <1>5, <1>7, <2>2 DEF IInv, Handshake, Framers, Granted
  <2> QED
    BY <2>3, <2>4, <2>5 DEF Handshake
<1> QED
  BY <1>2, <1>6, <1>7 DEF HandleServerConn

(* What the client learns from the response: a token only from the session's grant, *)
(* which is alone on its way.                                                        *)
LEMMA ResponseIsGrant ==
    ASSUME IInv, relay = "await", down # << >>, Head(down).token # {}
    PROVE  /\ down = <<Granted>> /\ Head(down).token = NewKey
           /\ \A k \in 1..Len(down) : SubSeq(down, k + 1, Len(down)) = << >>
<1>1. down = <<Granted>> \/ down = <<Refusal>>
  BY DEF IInv, Handshake, Phases, Places
<1>2. Head(<<Granted>>).token = NewKey /\ Head(<<Refusal>>).token = {}
  BY OneMessage DEF Granted, Refusal
<1>3. down = <<Granted>>
  BY <1>1, <1>2
<1>4. \A k \in 1..1 : SubSeq(<<Granted>>, k + 1, 1) = << >>
  OBVIOUS
<1> QED
  BY <1>2, <1>3, <1>4, OneMessage

(* The response gives the client the key of the session; without a token it fails. *)
LEMMA ResponseStep == IInv /\ ReadResponse /\ UNCHANGED serverVars => Handshake'
<1> SUFFICES ASSUME IInv, ReadResponse, UNCHANGED serverVars
             PROVE  Handshake'
  OBVIOUS
<1>1. /\ relay = "await"
      /\ UNCHANGED <<conn, up, closed, reader, chErr, chClose, user, offer, written,
                     session, stx, nread, reply, replied>>
  BY DEF ReadResponse, serverVars, userVars
<1>2. ~ connected /\ reader = "none"
  BY <1>1 DEF IInv, Handshake, Phases, Places
<1>3. CASE /\ down # << >> /\ Head(down).token # {} /\ connected' = TRUE /\ relay' = "start"
           /\ \E k \in 1..Len(down) : down' = SubSeq(down, k + 1, Len(down))
           /\ ctx' = NewFramer(ctx.ws, Xor(Head(down).token, Nonce), Ts, "client")
  <2>1. down = <<Granted>> /\ Head(down).token = NewKey /\ down' = << >>
    BY <1>1, <1>3, ResponseIsGrant
  <2>2. session # "none"
    BY <2>1, OneMessage DEF IInv, Handshake, Phases
  <2>3. ctx' = [ws |-> ctx.ws, psk |-> SessionKey, mask |-> (ctx.ws /\ TRUE), left |-> NoData]
    BY <1>3, <2>1 DEF NewFramer, SessionKey
  <2>4. ctx'.ws = ctx.ws /\ ctx'.psk = SessionKey /\ ctx'.mask = ctx'.ws
    <3>1. ctx'.ws = ctx.ws /\ ctx'.psk = SessionKey /\ ctx'.mask = (ctx.ws /\ TRUE)
      BY <2>3
    <3>2. (ctx.ws /\ TRUE) = ctx.ws
      BY Zenon DEF IInv, Handshake, Framers
    <3> QED
      BY <3>1, <3>2
  <2>5. Places'
    <3>1. Queue(down') /\ Len(down') <= WireCap + 1
      BY <2>1, EmptyQueue, WireAssumption
    <3> QED
      BY <1>1, <1>3, <3>1 DEF IInv, Handshake, Places
  <2>6. Phases'
    BY <1>1, <1>2, <1>3, <2>2 DEF IInv, Handshake, Phases
  <2>7. Framers'
    BY <1>1, <2>1, <2>3, <2>4 DEF IInv, Handshake, Framers, SessionKey
  <2> QED
    BY <2>5, <2>6, <2>7 DEF Handshake
<1>4. CASE /\ \/ down # << >> /\ Head(down).token = {} /\ down' = Tail(down)
              \/ conn = "broken" /\ UNCHANGED down
           /\ relay' = "failed" /\ UNCHANGED <<ctx, connected>>
  <2>1. \/ down' = down
        \/ down # << >> /\ Head(down).token = {} /\ down' = << >>
    <3>1. down = << >> \/ down = <<Granted>> \/ down = <<Refusal>>
      BY <1>1 DEF IInv, Handshake, Phases, Places
    <3> QED
      BY <1>4, <3>1, OneMessage
  <2>2. Places'
    <3>1. Queue(down') /\ Len(down') <= WireCap + 1
      BY <2>1, EmptyQueue, WireAssumption DEF IInv, Handshake, Places
    <3> QED
      BY <1>1, <1>2, <1>4, <3>1 DEF IInv, Handshake, Places
  <2>3. Phases'
    BY <1>1, <1>2, <1>4, <2>1 DEF IInv, Handshake, Phases, Asked
  <2>4. Framers'
    BY <1>1, <1>2, <1>4, <2>1, OneMessage DEF IInv, Handshake, Framers, SessionKey, Granted
  <2> QED
    BY <2>2, <2>3, <2>4 DEF Handshake
<1> QED
  BY <1>3, <1>4 DEF ReadResponse

(* The other steps of the client. *)
LEMMA ClientKeeps == IInv /\ ClientStep /\ UNCHANGED serverVars => Handshake'
<1> SUFFICES ASSUME IInv, ClientStep, UNCHANGED serverVars
             PROVE  Handshake'
  OBVIOUS
<1>0. UNCHANGED <<session, stx, nread, reply, replied>> /\ Handshake
  BY DEF serverVars, IInv
<1>1. CASE Dial
  <2>1. /\ relay = "new" /\ relay' \in {"request", "failed"} /\ conn' \in {conn, "open"}
        /\ UNCHANGED <<up, down, closed, connected, reader, chErr, chClose, user, offer, written>>
    BY <1>1 DEF Dial, userVars
  <2>2. /\ session = "none" /\ up = << >> /\ down = << >> /\ ~ connected /\ reader = "none"
    BY <1>0, <2>1 DEF Handshake, Phases, Places
  <2>3. ctx' = ctx \/ \E ws \in BOOLEAN : ctx' = [ctx EXCEPT !.ws = ws]
    BY <1>1 DEF Dial
  <2>4. /\ ctx' = [ws |-> ctx'.ws, psk |-> ctx'.psk, mask |-> ctx'.mask, left |-> ctx'.left]
        /\ ctx'.ws \in BOOLEAN /\ ctx'.left = ctx.left
    BY <1>0, <2>3 DEF Handshake, Framers
  <2>5. Places'
    BY <1>0, <2>1 DEF Handshake, Places
  <2>6. Phases'
    BY <1>0, <2>1, <2>2, <2>4 DEF Handshake, Phases
  <2>7. Framers'
    BY <1>0, <2>1, <2>2, <2>4, OneMessage DEF Handshake, Framers
  <2> QED
    BY <2>5, <2>6, <2>7 DEF Handshake
<1>2. CASE SendRequest
  <2>1. /\ relay = "request"
        /\ UNCHANGED <<conn, down, closed, connected, reader, chErr, chClose, ctx, user,
                       offer, written>>
        /\ \/ up' = Append(up, Asked) /\ relay' = "await"
           \/ up' = up /\ relay' = "failed"
    BY <1>2 DEF SendRequest, Asked, userVars
  <2>2. /\ session = "none" /\ up = << >> /\ down = << >> /\ ~ connected /\ reader = "none"
    BY <1>0, <2>1 DEF Handshake, Phases, Places
  <2>3. up' = << >> \/ up' = <<Asked>>
    BY <2>1, <2>2, OneMessage
  <2>4. Asked' = Asked
    BY <2>1 DEF Asked
  <2>5. Places'
    BY <1>0, <2>1, <2>3, OneMessage, WireAssumption DEF Handshake, Places
  <2>6. Phases'
    BY <1>0, <2>1, <2>2, <2>3, <2>4 DEF Handshake, Phases
  <2>7. Framers'
    BY <1>0, <2>1, <2>2, OneMessage DEF Handshake, Framers
  <2> QED
    BY <2>5, <2>6, <2>7 DEF Handshake
<1>3. CASE RelayStart \/ RelayTakes \/ RelayEnds \/ UserWrites \/ UserCloses
  <2>1. UNCHANGED <<conn, up, down, connected, ctx>>
    BY <1>3 DEF RelayStart, RelayTakes, RelayEnds, UserWrites, UserCloses, wireVars
  <2>2. \/ relay' = relay /\ reader' = reader /\ written' = written
        \/ /\ relay \in {"start", "select"} /\ relay' \in {"select", "write", "ended"}
           /\ reader' = reader \/ (reader' = "read" /\ relay = "start")
    BY <1>3 DEF RelayStart, RelayTakes, RelayEnds, UserWrites, UserCloses, wireVars
  <2>3. Asked' = Asked
    BY <2>1 DEF Asked
  <2>4. Places'
    <3>1. reply \in Nat /\ offer \in Nat /\ offer' \in Nat
      <4>1. CASE offer' = offer
        BY <1>0, <4>1 DEF Handshake, Places
      <4>2. CASE UserWrites
        <5>1. Len(written) \in Nat /\ Len(written) + 1 \in 1..Len(UpSizes)
          BY <4>2, SeqFacts, WireAssumption DEF UserWrites, IInv, UpFlow, Written, Chain
        <5> QED
          BY <1>0, <4>2, <5>1, SeqFacts, WireAssumption DEF UserWrites, Handshake, Places
      <4> QED
        BY <1>3, <4>1, <4>2 DEF RelayStart, RelayTakes, RelayEnds, UserCloses, userVars
    <3>2. /\ chErr' \in Nat /\ chErr' <= (IF reader' = "ended" THEN 1 ELSE 0)
          /\ chClose' \in Nat /\ chClose' <= (IF closed' THEN 1 ELSE 0)
          /\ closed' \in BOOLEAN /\ user' \in {"idle", "send"}
      <4>1. CASE RelayStart
        <5>1. reader = "none"
          BY <1>0, <4>1 DEF RelayStart, Handshake, Places, Phases
        <5> QED
          BY <1>0, <4>1, <5>1 DEF RelayStart, Handshake, Places, userVars
      <4>2. CASE RelayTakes \/ UserWrites
        BY <1>0, <4>2 DEF RelayTakes, UserWrites, Handshake, Places
      <4>3. CASE RelayEnds
        BY <1>0, <4>3 DEF RelayEnds, Handshake, Places, userVars
      <4>4. CASE UserCloses
        BY <1>0, <4>4 DEF UserCloses, Handshake, Places, userVars
      <4> QED
        BY <1>3, <4>1, <4>2, <4>3, <4>4
    <3> QED
      BY <1>0, <2>1, <2>2, <3>1, <3>2 DEF Handshake, Places
  <2>5. Phases'
    BY <1>0, <2>1, <2>2, <2>3 DEF Handshake, Phases, Places
  <2>6. Framers'
    BY <1>0, <2>1 DEF Handshake, Framers
  <2> QED
    BY <2>4, <2>5, <2>6 DEF Handshake
<1>4. CASE RelayWrites
  <2>1. /\ relay = "write" /\ relay' \in {"select", "ended"}
        /\ UNCHANGED <<conn, down, connected, reader, chErr, chClose, ctx, user, offer, written>>
        /\ \/ Len(up) < WireCap /\ closed' = closed /\ \E f : up' = Append(up, f)
           \/ up' = up /\ closed' \in {closed, TRUE}
    BY <1>4 DEF RelayWrites, userVars
  <2>2. connected /\ session # "none"
    BY <1>0, <2>1 DEF Handshake, Phases, Places
  <2>3. Queue(up') /\ Len(up') <= WireCap
    <3>1. CASE up' = up
      BY <1>0, <3>1 DEF Handshake, Places
    <3>2. ASSUME NEW f, Len(up) < WireCap, up' = Append(up, f)
          PROVE  Queue(up') /\ Len(up') <= WireCap
      BY <1>0, <3>2, Room, WireAssumption DEF Handshake
    <3> QED
      BY <2>1, <3>1, <3>2
  <2>4. closed' \in BOOLEAN /\ chClose' \in Nat /\ chClose' <= (IF closed' THEN 1 ELSE 0)
    <3>1. CASE closed' = closed
      BY <1>0, <2>1, <3>1 DEF Handshake, Places
    <3>2. CASE closed' = TRUE
      BY <1>0, <2>1, <3>2 DEF Handshake, Places
    <3> QED
      BY <2>1, <3>1, <3>2
  <2>4a. Places'
    BY <1>0, <2>1, <2>3, <2>4 DEF Handshake, Places
  <2>5. Phases'
    BY <1>0, <2>1, <2>2 DEF Handshake, Phases
  <2>6. Framers'
    BY <1>0, <2>1 DEF Handshake, Framers
  <2> QED
    BY <2>4a, <2>5, <2>6 DEF Handshake
<1>5. CASE ReaderReads
  <2>1. /\ reader = "read"
        /\ UNCHANGED <<conn, up, closed, connected, relay, chClose, user, offer, written>>
        /\ \/ reader' = reader /\ chErr' = chErr
           \/ reader' = "ended" /\ chErr' = chErr + 1
        /\ ctx' = ctx \/ \E dat : ctx' = ReadChunk(ctx, dat, BufferSize)
        /\ down' = down \/ (down # << >> /\ down' = Tail(down))
    BY <1>5 DEF ReaderReads, ReaderFeeds, ReaderStop, userVars
  <2>2. connected /\ session # "none" /\ relay \in {"select", "write", "ended"}
    BY <1>0, <2>1 DEF Handshake, Phases, Places
  <2>3. /\ ctx' = [ws |-> ctx'.ws, psk |-> ctx'.psk, mask |-> ctx'.mask, left |-> ctx'.left]
        /\ ctx'.ws = ctx.ws /\ ctx'.psk = ctx.psk /\ ctx'.mask = ctx.mask
    BY <1>0, <2>1, ReadKeepsFramer DEF Handshake, Framers
  <2>4. Queue(down') /\ Len(down') <= WireCap + 1
    <3>1. CASE down' = down
      BY <1>0, <3>1 DEF Handshake, Places
    <3>2. CASE down # << >> /\ down' = Tail(down)
      BY <1>0, <3>2, Room, WireAssumption DEF Handshake
    <3> QED
      BY <2>1, <3>1, <3>2
  <2>5. Places'
    BY <1>0, <2>1, <2>4 DEF Handshake, Places
  <2>6. Phases'
    BY <1>0, <2>1, <2>2 DEF Handshake, Phases
  <2>7. Framers'
    BY <1>0, <2>1, <2>2, <2>3 DEF Handshake, Framers, SessionKey
  <2> QED
    BY <2>5, <2>6, <2>7 DEF Handshake
<1> QED
  BY <1>1, <1>2, <1>3, <1>4, <1>5, ResponseStep DEF ClientStep, RelayStep

(* The steps of a session. *)
LEMMA SessionKeeps == IInv /\ ServerStep(written) /\ UNCHANGED clientVars => Handshake'
<1> SUFFICES ASSUME IInv, ServerStep(written), UNCHANGED clientVars
             PROVE  Handshake'
  OBVIOUS
<1>0. /\ UNCHANGED <<closed, relay, connected, reader, chErr, chClose, ctx, user, offer, written>>
      /\ Handshake
  BY DEF clientVars, IInv
<1>1. CASE SessionReads(written)
  <2>1. /\ session = "run" /\ session' \in {"run", "ended"} /\ conn' \in {conn, "broken"}
        /\ stx' = stx \/ \E dat : stx' = ReadChunk(stx, dat, need)
        /\ UNCHANGED <<down, reply, replied>>
        /\ up' = up \/ (up # << >> /\ up' = Tail(up))
        /\ \/ stx.left.len > 0 \/ up # << >>
           \/ session' = "ended" /\ UNCHANGED <<up, stx, nread>>
    BY <1>1 DEF SessionReads, Receives, End, readVars, wireVars
  <2>2. /\ stx' = [ws |-> stx'.ws, psk |-> stx'.psk, mask |-> stx'.mask, left |-> stx'.left]
        /\ stx'.ws = stx.ws /\ stx'.psk = stx.psk /\ stx'.mask = stx.mask
    BY <1>0, <2>1, ReadKeepsFramer DEF Handshake, Framers
  <2>3. ~ connected => session' = "ended" /\ UNCHANGED <<up, stx, nread>>
    <3>1. ~ connected => up = << >> /\ ~ (stx.left.len > 0)
      BY <1>0, <2>1 DEF Handshake, Phases
    <3> QED
      BY <2>1, <3>1
  <2>4. relay \notin {"new", "request"}
    BY <1>0, <2>1 DEF Handshake, Phases
  <2>5. Queue(up') /\ Len(up') <= WireCap
    <3>1. CASE up' = up
      BY <1>0, <3>1 DEF Handshake, Places
    <3>2. CASE up # << >> /\ up' = Tail(up)
      BY <1>0, <3>2, Room, WireAssumption DEF Handshake
    <3> QED
      BY <2>1, <3>1, <3>2
  <2>6. Places'
    BY <1>0, <2>1, <2>5 DEF Handshake, Places
  <2>7. Phases'
    BY <1>0, <2>1, <2>3, <2>4 DEF Handshake, Phases, Places, Granted, Refusal
  <2>8. Framers'
    BY <1>0, <2>1, <2>2 DEF Handshake, Framers, SessionKey
  <2> QED
    BY <2>6, <2>7, <2>8 DEF Handshake
<1>2. CASE SessionReplies
  <2>1. /\ session = "run" /\ session' = "write" /\ nread > 0
        /\ UNCHANGED <<conn, up, down, stx, nread, replied>>
        /\ Len(replied) < Len(DownSizes) /\ reply' = DownSizes[Len(replied) + 1]
    BY <1>2 DEF SessionReplies, wireVars, readVars
  <2>2. connected
    BY <1>0, <2>1 DEF Handshake, Phases
  <2>3. reply' \in Nat
    <3>1. Len(replied) \in Nat /\ Len(replied) + 1 \in 1..Len(DownSizes)
      BY <2>1, SeqFacts, WireAssumption DEF IInv, DownFlow, Replied, Chain
    <3> QED
      BY <2>1, <3>1, SeqFacts, WireAssumption
  <2>4. Places'
    BY <1>0, <2>1, <2>3 DEF Handshake, Places
  <2>5. Phases'
    BY <1>0, <2>1, <2>2 DEF Handshake, Phases, Places
  <2>6. Framers'
    BY <1>0, <2>1 DEF Handshake, Framers, SessionKey
  <2> QED
    BY <2>4, <2>5, <2>6 DEF Handshake
<1>3. CASE SessionWrites
  <2>1. /\ session = "write" /\ session' \in {"run", "ended"} /\ conn' \in {conn, "broken"}
        /\ UNCHANGED <<up, stx, nread, reply>>
        /\ down' = down \/ (Len(down) < WireCap /\ \E f : down' = Append(down, f))
    BY <1>3 DEF SessionWrites, End, readVars
  <2>2. connected
    BY <1>0, <2>1 DEF Handshake, Phases
  <2>3. Queue(down') /\ Len(down') <= WireCap + 1
    <3>1. CASE down' = down
      BY <1>0, <3>1 DEF Handshake, Places
    <3>2. ASSUME NEW f, Len(down) < WireCap, down' = Append(down, f)
          PROVE  Queue(down') /\ Len(down') <= WireCap + 1
      BY <1>0, <3>2, Room, WireAssumption DEF Handshake
    <3> QED
      BY <2>1, <3>1, <3>2
  <2>4. Places'
    BY <1>0, <2>1, <2>3 DEF Handshake, Places
  <2>5. Phases'
    BY <1>0, <2>1, <2>2 DEF Handshake, Phases, Places
  <2>6. Framers'
    BY <1>0, <2>1, <2>2 DEF Handshake, Framers, SessionKey
  <2> QED
    BY <2>4, <2>5, <2>6 DEF Handshake
<1>4. CASE SessionEnds
  <2>1. /\ session = "run" /\ session' = "ended" /\ conn' = "broken"
        /\ UNCHANGED <<up, down, stx, nread, reply, replied>>
    BY <1>4 DEF SessionEnds, End, readVars
  <2>2. Places'
    BY <1>0, <2>1 DEF Handshake, Places
  <2>3. Phases'
    BY <1>0, <2>1 DEF Handshake, Phases, Granted
  <2>4. Framers'
    BY <1>0, <2>1 DEF Handshake, Framers
  <2> QED
    BY <2>2, <2>3, <2>4 DEF Handshake
<1> QED
  BY <1>1, <1>2, <1>3, <1>4, AnswerStep DEF ServerStep


-----------------------------------------------------------------------------
(* Reading and writing a stream *)

(* The end of a stream that begins at 0. *)
LEMMA StreamIsChain ==
    ASSUME NEW ms, Chain(ms, 0)
    PROVE  StreamEnd(ms) = ChainEnd(ms, 0) /\ StreamEnd(ms) \in Nat
<1>1. StreamEnd(ms) = ChainEnd(ms, 0)
  BY DEF StreamEnd, ChainEnd, Last, EndOf
<1> QED
  BY <1>1, ChainEnds

(* A stream is continued by its next message. *)
LEMMA StreamGrows ==
    ASSUME NEW ms, Chain(ms, 0), NEW n \in Nat
    PROVE  /\ NextMessage(ms, n) \in Good
           /\ NextMessage(ms, n).at = StreamEnd(ms) /\ NextMessage(ms, n).len = n
           /\ EndOf(NextMessage(ms, n)) = StreamEnd(ms) + n
           /\ Chain(Append(ms, NextMessage(ms, n)), 0)
           /\ StreamEnd(Append(ms, NextMessage(ms, n))) = StreamEnd(ms) + n
           /\ Append(ms, NextMessage(ms, n)) # << >>
           /\ Len(Append(ms, NextMessage(ms, n))) = Len(ms) + 1
           /\ Append(ms, NextMessage(ms, n))[Len(ms) + 1] = NextMessage(ms, n)
           /\ \A i \in 1..Len(ms) : Append(ms, NextMessage(ms, n))[i] = ms[i]
<1>1. StreamEnd(ms) = ChainEnd(ms, 0) /\ StreamEnd(ms) \in Nat
  BY StreamIsChain
<1>2. PICK d : d = NextMessage(ms, n)
  OBVIOUS
<1>3. d \in Good /\ d.at = StreamEnd(ms) /\ d.len = n /\ EndOf(d) = StreamEnd(ms) + n
  BY <1>1, <1>2, DataGood DEF NextMessage
<1>4. Chain(Append(ms, d), 0) /\ ChainEnd(Append(ms, d), 0) = EndOf(d)
  BY <1>1, <1>3, ChainAppend
<1>5. StreamEnd(Append(ms, d)) = EndOf(d)
  BY <1>4, StreamIsChain
<1>6. /\ Append(ms, d) # << >> /\ Len(Append(ms, d)) = Len(ms) + 1
      /\ Append(ms, d)[Len(ms) + 1] = d
      /\ \A i \in 1..Len(ms) : Append(ms, d)[i] = ms[i]
  BY <1>3, SeqFacts DEF Chain
<1> QED
  BY <1>2, <1>3, <1>4, <1>5, <1>6

\* An end reads dat, from what it has left or from the next frame, which leaves q2.
Reads(g, q, h, dat, q2) ==
    /\ g = [ws |-> g.ws, psk |-> g.psk, mask |-> g.mask, left |-> g.left]
    /\ Queue(q) /\ Started(h) /\ g.left \in Pieces
    /\ g.left.len > 0 => g.left.ok /\ g.left.at = GivenEnd(h)
    /\ Carries(g, q, GivenEnd(h) + g.left.len)
    /\ \/ g.left.len > 0 /\ dat = g.left /\ q2 = q
       \/ g.left.len = 0 /\ q # << >> /\ dat = Chunk(g, Head(q)) /\ q2 = Tail(q)

\* What was given has grown by k bytes, and nothing of the stream up to to is lost.
HasRead(h, k, to, g2, q2, h2) ==
    /\ Started(h2) /\ GivenEnd(h2) = GivenEnd(h) + k /\ GivenEnd(h) \in Nat /\ k \in Nat
    /\ g2.left \in Pieces /\ g2.left.ok /\ g2.left.at = GivenEnd(h2)
    /\ Carries(g2, q2, GivenEnd(h2) + g2.left.len)
    /\ ChainEnd(Read(g2, q2), GivenEnd(h2) + g2.left.len) = to
    /\ to \in Nat /\ GivenEnd(h2) <= to

(* One read into a slice of n bytes: Read of a framer, and what its caller does. *)
LEMMA ReadStep ==
    ASSUME NEW g, NEW q, NEW h, NEW dat, NEW q2, Reads(g, q, h, dat, q2), NEW n \in Nat
    PROVE  /\ TakeBytes(dat, n).len <= n
           /\ HasRead(h, TakeBytes(dat, n).len,
                      ChainEnd(Read(g, q), GivenEnd(h) + g.left.len),
                      ReadChunk(g, dat, n), q2, Given(h, TakeBytes(dat, n)))
<1> USE DEF Reads
<1>1. GivenEnd(h) \in Nat /\ g.left.len \in Nat
  BY GivenNext DEF Pieces
<1>2. PICK from \in Nat : from = GivenEnd(h) + g.left.len
  BY <1>1
<1>3. PICK to \in Nat : to = ChainEnd(Read(g, q), from) /\ from <= to
  BY <1>2, ChainEnds DEF Carries
<1>4. /\ dat \in Good /\ dat.at = GivenEnd(h) /\ EndOf(dat) <= to
      /\ Carries(g, q2, EndOf(dat)) /\ ChainEnd(Read(g, q2), EndOf(dat)) = to
  <2>1. CASE g.left.len > 0 /\ dat = g.left /\ q2 = q
    <3>1. dat \in Good /\ dat.at = GivenEnd(h) /\ EndOf(dat) = from
      BY <1>1, <1>2, <2>1 DEF Good, Pieces, EndOf
    <3> QED
      BY <1>2, <1>3, <2>1, <3>1
  <2>2. CASE g.left.len = 0 /\ q # << >> /\ dat = Chunk(g, Head(q)) /\ q2 = Tail(q)
    <3>1. from = GivenEnd(h)
      BY <1>1, <1>2, <2>2
    <3> QED
      BY <1>2, <1>3, <2>2, <3>1, CarriesTail
  <2> QED
    BY <2>1, <2>2
<1>5. PICK k \in Nat : /\ k <= n /\ k <= dat.len
                       /\ TakeBytes(dat, n) = Data(dat.at, k)
                       /\ DropBytes(dat, n) = Data(dat.at + k, dat.len - k)
  BY <1>4, BytesTaken
<1>6. TakeBytes(dat, n).len = k
  BY <1>5 DEF Data
<1>7. PICK h2 : h2 = Given(h, TakeBytes(dat, n)) /\ Started(h2) /\ GivenEnd(h2) = GivenEnd(h) + k
  BY <1>4, <1>5, GivenNext
<1>8. PICK g2 : /\ g2 = ReadChunk(g, dat, n) /\ g2.left = DropBytes(dat, n)
                /\ g2.ws = g.ws /\ g2.psk = g.psk /\ g2.mask = g.mask
  BY ReadKeepsFramer
<1>9. /\ dat.at + k \in Nat /\ dat.len - k \in Nat /\ dat.len \in Nat
      /\ (dat.at + k) + (dat.len - k) = EndOf(dat) /\ dat.at + k <= EndOf(dat)
  <2>1. dat.at \in Nat /\ dat.len \in Nat /\ EndOf(dat) = dat.at + dat.len
    BY <1>4, GoodData
  <2> QED
    BY <1>5, <2>1
<1>10. g2.left \in Good /\ g2.left.at = dat.at + k /\ g2.left.len = dat.len - k
  <2>1. PICK a \in Nat, b \in Nat : a = dat.at + k /\ b = dat.len - k
    BY <1>9
  <2>2. g2.left = Data(a, b)
    BY <1>5, <1>8, <2>1
  <2>3. Data(a, b) \in Good /\ Data(a, b).at = a /\ Data(a, b).len = b
    BY DataGood
  <2> QED
    BY <2>1, <2>2, <2>3
<1>11. GivenEnd(h2) + g2.left.len = EndOf(dat)
  BY <1>4, <1>7, <1>9, <1>10
<1>12. Carries(g2, q2, EndOf(dat)) /\ ChainEnd(Read(g2, q2), EndOf(dat)) = to
  BY <1>4, <1>8, SameEnd
<1>13. GivenEnd(h2) <= to
  <2>1. EndOf(dat) \in Nat /\ GivenEnd(h2) = dat.at + k
    BY <1>4, <1>7, GoodData
  <2> QED
    BY <1>4, <1>9, <2>1
<1>14. g2.left \in Pieces /\ g2.left.ok /\ g2.left.at = GivenEnd(h2)
  BY <1>4, <1>7, <1>10, GoodData
<1>15. HasRead(h, k, to, g2, q2, h2)
  BY <1>1, <1>3, <1>5, <1>7, <1>11, <1>12, <1>13, <1>14 DEF HasRead
<1> QED
  BY <1>2, <1>3, <1>5, <1>6, <1>7, <1>8, <1>15

(* Once the client is connected each end understands the other. *)
LEMMA EndsFit ==
    ASSUME IInv, connected
    PROVE  Fit(ctx, stx) /\ Fit(stx, ctx)
<1>1. /\ ctx.ws \in BOOLEAN /\ ctx.psk = SessionKey /\ ctx.mask = ctx.ws
      /\ stx.psk = SessionKey /\ stx.ws = ctx.ws /\ stx.mask = FALSE
  BY DEF IInv, Handshake, Framers
<1> QED
  BY <1>1 DEF Fit

-----------------------------------------------------------------------------
(* The stream to the server *)

(* What does not touch the stream, or touches it where no frame is on its way. *)
LEMMA UpKept ==
    ASSUME UpFlow, UNCHANGED <<written, chunk, seen, stx, nread, need, inBody>>,
           relay' = "write" => relay = "write",
           user' = "send" => user = "send" /\ offer' = offer,
           connected' => connected /\ up' = up,
           connected' /\ conn' = "open" =>
               conn = "open" /\ (relay = "write" <=> relay' = "write")
    PROVE  UpFlow'
<1>1. Written'
  BY DEF UpFlow, Written
<1>2. Position'
  BY DEF UpFlow, Position, StartOf
<1>3. UpWire'
  <2>1. SUFFICES ASSUME connected' PROVE UpWire'
    BY DEF UpWire
  <2>2. CASE conn' = "open"
    BY <2>1, <2>2 DEF UpFlow, UpWire
  <2>3. CASE conn' # "open"
    BY <2>1, <2>3 DEF UpFlow, UpWire
  <2> QED
    BY <2>2, <2>3
<1> QED
  BY <1>1, <1>2, <1>3 DEF UpFlow

(* The relay takes a message from the user. *)
LEMMA UpTakes == IInv /\ RelayTakes /\ UNCHANGED serverVars => UpFlow'
<1> SUFFICES ASSUME IInv, RelayTakes, UNCHANGED serverVars
             PROVE  UpFlow'
  OBVIOUS
<1>1. /\ relay = "select" /\ user = "send" /\ relay' = "write" /\ user' = "idle"
      /\ chunk' = NextMessage(written, offer)
      /\ written' = Append(written, NextMessage(written, offer))
      /\ UNCHANGED <<conn, up, connected, stx, need, inBody, nread, seen>>
  BY DEF RelayTakes, serverVars, wireVars
<1>2. Chain(written, 0) /\ offer \in Nat /\ offer > HeadSize /\ Len(written) \in Nat
  BY <1>1, SeqFacts DEF IInv, Handshake, Places, UpFlow, Written, Chain
<1>3. /\ chunk' \in Good /\ chunk'.at = StreamEnd(written) /\ chunk'.len = offer
      /\ Chain(written', 0) /\ StreamEnd(written') = StreamEnd(written) + offer
      /\ written' # << >> /\ Len(written') = Len(written) + 1
      /\ written'[Len(written) + 1] = chunk'
      /\ \A i \in 1..Len(written) : written'[i] = written[i]
      /\ StreamEnd(written) \in Nat
  BY <1>1, <1>2, StreamGrows, StreamIsChain
<1>4. Written'
  <2>1. ASSUME NEW i \in 1..Len(written') PROVE written'[i].len > HeadSize
    <3>1. i \in 1..Len(written) \/ i = Len(written) + 1
      BY <1>2, <1>3
    <3> QED
      BY <1>2, <1>3, <3>1 DEF IInv, UpFlow, Written
  <2> QED
    BY <1>1, <1>3, <2>1, GoodData DEF Written
<1>5. Position'
  <2>1. Started(seen) /\ GivenEnd(seen) <= StreamEnd(written) /\ GivenEnd(seen) \in Nat
    BY GivenNext DEF IInv, UpFlow, Position
  <2>2. nread \in Nat /\ nread <= Len(written)
    BY DEF IInv, UpFlow, Position
  <2>3. (StartOf(nread + 1))' = StartOf(nread + 1)
    <3>1. CASE nread = 0
      BY <1>1, <3>1 DEF StartOf
    <3>2. CASE nread # 0
      <4>1. nread \in 1..Len(written) /\ nread + 1 # 1 /\ nread + 1 - 1 = nread
        BY <1>2, <2>2, <3>2
      <4>2. written'[nread] = written[nread]
        BY <1>3, <4>1
      <4> QED
        BY <1>1, <4>1, <4>2 DEF StartOf
    <3> QED
      BY <3>1, <3>2
  <2>4. inBody => /\ nread < Len(written')
                  /\ GivenEnd(seen) + need = EndOf(written'[nread + 1])
    <3> SUFFICES ASSUME inBody PROVE /\ nread < Len(written')
                                     /\ GivenEnd(seen) + need = EndOf(written'[nread + 1])
      OBVIOUS
    <3>1. nread < Len(written) /\ GivenEnd(seen) + need = EndOf(written[nread + 1])
      BY DEF IInv, UpFlow, Position
    <3>2. nread + 1 \in 1..Len(written)
      BY <1>2, <2>2, <3>1
    <3> QED
      BY <1>2, <1>3, <2>2, <3>1, <3>2
  <2>5. GivenEnd(seen) <= StreamEnd(written')
    BY <1>2, <1>3, <2>1
  <2>6. nread <= Len(written')
    BY <1>2, <1>3, <2>2
  <2>7. ~ inBody => /\ need \in 1..HeadSize
                    /\ GivenEnd(seen) + need = (StartOf(nread + 1))' + HeadSize
    BY <2>3 DEF IInv, UpFlow, Position
  <2>8. /\ need \in Nat /\ inBody \in BOOLEAN /\ stx.left \in Pieces
        /\ stx.left.len > 0 => stx.left.ok /\ stx.left.at = GivenEnd(seen)
    BY DEF IInv, UpFlow, Position
  <2> QED
    BY <1>1, <2>1, <2>2, <2>4, <2>5, <2>6, <2>7, <2>8 DEF Position
<1>6. UpWire'
  <2>1. connected
    BY <1>1 DEF IInv, Handshake, Places
  <2>2. PICK from : from = GivenEnd(seen) + stx.left.len
    OBVIOUS
  <2>3. PICK to : to = ChainEnd(Read(stx, up), from)
    OBVIOUS
  <2>4. /\ Carries(stx, up, from) /\ to <= StreamEnd(written)
        /\ conn = "open" => to = StreamEnd(written)
    BY <1>1, <2>1, <2>2, <2>3 DEF IInv, UpFlow, UpWire
  <2>5. from \in Nat
    BY <2>2, GivenNext DEF IInv, UpFlow, Position, Pieces
  <2>6. to \in Nat
    BY <2>3, <2>4, <2>5, ChainEnds DEF Carries
  <2>7. to <= StreamEnd(written')
    BY <1>2, <1>3, <2>4, <2>6
  <2> QED
    BY <1>1, <1>3, <2>2, <2>3, <2>4, <2>7 DEF UpWire
<1> QED
  BY <1>4, <1>5, <1>6 DEF UpFlow

(* The relay writes it as a frame. *)
LEMMA UpWrites == IInv /\ RelayWrites /\ UNCHANGED serverVars => UpFlow'
<1> SUFFICES ASSUME IInv, RelayWrites, UNCHANGED serverVars
             PROVE  UpFlow'
  OBVIOUS
<1>1. /\ relay = "write" /\ relay' # "write"
      /\ UNCHANGED <<conn, connected, written, chunk, user, offer, stx, need, inBody,
                     nread, seen>>
  BY DEF RelayWrites, serverVars, userVars
<1>2. CASE conn = "broken" /\ up' = up
  BY <1>1, <1>2, UpKept DEF IInv
<1>3. ASSUME conn = "open", NEW f \in Frames(ctx, chunk), up' = Append(up, f)
      PROVE  UpFlow'
  <2>1. connected
    BY <1>1 DEF IInv, Handshake, Places
  <2>2. /\ written # << >> /\ chunk = written[Len(written)] /\ Chain(written, 0)
    BY <1>1 DEF IInv, UpFlow, Written
  <2>3. chunk \in Good /\ EndOf(chunk) = StreamEnd(written) /\ StreamEnd(written) \in Nat
    BY <2>2, SeqFacts, StreamIsChain DEF Chain, ChainEnd
  <2>4. ~ Refused(stx, f) /\ Chunk(stx, f) = chunk
    BY <1>3, <2>1, <2>3, EndsFit, FrameRoundTrip
  <2>5. PICK from \in Nat : from = GivenEnd(seen) + stx.left.len
    BY GivenNext DEF IInv, UpFlow, Position, Pieces
  <2>6. Carries(stx, up, from) /\ ChainEnd(Read(stx, up), from) = chunk.at
    BY <1>1, <1>3, <2>1, <2>5 DEF IInv, UpFlow, UpWire
  <2>7. /\ Carries(stx, Append(up, f), from)
        /\ ChainEnd(Read(stx, Append(up, f)), from) = EndOf(chunk)
    BY <2>3, <2>4, <2>6, CarriesAppend DEF IInv, Handshake, Places
  <2>8. UpWire'
    BY <1>1, <1>3, <2>3, <2>5, <2>7 DEF UpWire
  <2>9. Written' /\ Position'
    BY <1>1 DEF IInv, UpFlow, Written, Position, StartOf
  <2> QED
    BY <2>8, <2>9 DEF UpFlow
<1> QED
  BY <1>2, <1>3 DEF RelayWrites

(* The client is connected: nothing has been sent yet. *)
LEMMA UpConnects == IInv /\ ReadResponse /\ UNCHANGED serverVars => UpFlow'
<1> SUFFICES ASSUME IInv, ReadResponse, UNCHANGED serverVars
             PROVE  UpFlow'
  OBVIOUS
<1>1. /\ relay = "await" /\ relay' \in {"start", "failed"}
      /\ UNCHANGED <<conn, up, written, chunk, user, offer, stx, need, inBody, nread, seen>>
      /\ connected' = connected \/ (down # << >> /\ Head(down).token # {})
  BY DEF ReadResponse, serverVars, userVars
<1>2. ~ connected
  BY <1>1 DEF IInv, Handshake, Places
<1>3. CASE connected' = connected
  BY <1>1, <1>2, <1>3, UpKept DEF IInv
<1>4. CASE down # << >> /\ Head(down).token # {}
  <2>1. down = <<Granted>>
    BY <1>1, <1>4, ResponseIsGrant
  <2>2. session # "none"
    BY <1>4 DEF IInv, Handshake, Phases
  <2>3. up = << >> /\ written = << >> /\ stx.left.len = 0
    BY <1>2, <2>2 DEF IInv, Handshake, Phases
  <2>4. StreamEnd(written) = 0
    BY <2>3 DEF StreamEnd
  <2>5. GivenEnd(seen) = 0
    BY <2>4, GivenNext DEF IInv, UpFlow, Position
  <2>6. PICK from : from = GivenEnd(seen) + stx.left.len /\ from = 0
    BY <2>3, <2>5
  <2>7. UpWire'
    BY <1>1, <2>3, <2>4, <2>6, CarriesNone DEF UpWire
  <2>8. Written' /\ Position'
    BY <1>1 DEF IInv, UpFlow, Written, Position, StartOf
  <2> QED
    BY <2>7, <2>8 DEF UpFlow
<1> QED
  BY <1>1, <1>3, <1>4

(* The server's framer is new: the session has been given nothing. *)
LEMMA UpAnswers == IInv /\ HandleServerConn /\ UNCHANGED clientVars => UpFlow'
<1> SUFFICES ASSUME IInv, HandleServerConn, UNCHANGED clientVars
             PROVE  UpFlow'
  OBVIOUS
<1>1. /\ session = "none"
      /\ UNCHANGED <<connected, relay, written, chunk, user, offer, need, inBody, nread, seen>>
      /\ stx' = stx \/ \E ws, key, ts : stx' = NewFramer(ws, key, ts, "server")
  BY DEF HandleServerConn, clientVars, readVars
<1>2. ~ connected'
  BY <1>1 DEF IInv, Handshake, Phases
<1>3. CASE stx' = stx
  BY <1>1, <1>2, <1>3, UpKept DEF IInv
<1>4. CASE \E ws, key, ts : stx' = NewFramer(ws, key, ts, "server")
  <2>1. stx'.left \in Pieces /\ stx'.left.len = 0
    BY <1>4 DEF NewFramer, NoData, Data, Pieces
  <2>2. Written' /\ Position'
    BY <1>1, <2>1 DEF IInv, UpFlow, Written, Position, StartOf
  <2> QED
    BY <1>2, <2>2 DEF UpFlow, UpWire
<1> QED
  BY <1>1, <1>3, <1>4

(* The session reads: it is given what comes next, and its place in the messages is *)
(* where it was given to.                                                             *)
LEMMA UpReads == IInv /\ SessionReads(written) /\ UNCHANGED clientVars => UpFlow'
<1> SUFFICES ASSUME IInv, SessionReads(written), UNCHANGED clientVars
             PROVE  UpFlow'
  OBVIOUS
<1>1. session = "run" /\ UNCHANGED <<connected, relay, written, chunk, user, offer>>
  BY DEF SessionReads, clientVars
<1>2. ASSUME End, UNCHANGED <<up, stx, readVars>>
      PROVE  UpFlow'
  <2>1. conn' = "broken" /\ UNCHANGED <<need, inBody, nread, seen>>
    BY <1>2 DEF End, readVars
  <2> QED
    BY <1>1, <1>2, <2>1, UpKept DEF IInv
<1>3. ASSUME NEW dat, Receives(dat, written), UNCHANGED conn,
             \/ stx.left.len > 0 /\ dat = stx.left /\ up' = up
             \/ stx.left.len = 0 /\ up # << >> /\ dat = Chunk(stx, Head(up)) /\ up' = Tail(up)
      PROVE  UpFlow'
  <2>1. /\ seen' = Given(seen, TakeBytes(dat, need)) /\ stx' = ReadChunk(stx, dat, need)
    BY <1>3 DEF Receives
  <2>2. connected
    BY <1>1, <1>3 DEF IInv, Handshake, Phases
  <2>3. /\ Started(seen) /\ GivenEnd(seen) <= StreamEnd(written) /\ stx.left \in Pieces
        /\ nread \in Nat /\ nread <= Len(written) /\ need \in Nat /\ inBody \in BOOLEAN
        /\ stx.left.len > 0 => stx.left.ok /\ stx.left.at = GivenEnd(seen)
    BY DEF IInv, UpFlow, Position
  <2>4. /\ stx = [ws |-> stx.ws, psk |-> stx.psk, mask |-> stx.mask, left |-> stx.left]
        /\ Queue(up)
    BY DEF IInv, Handshake, Framers, Places
  <2>5. PICK to : to = ChainEnd(Read(stx, up), GivenEnd(seen) + stx.left.len)
    OBVIOUS
  <2>6. /\ Carries(stx, up, GivenEnd(seen) + stx.left.len) /\ to <= StreamEnd(written)
        /\ conn = "open" => to = IF relay = "write" THEN chunk.at ELSE StreamEnd(written)
    BY <2>2, <2>5 DEF IInv, UpFlow, UpWire
  <2>7. Reads(stx, up, seen, dat, up')
    BY <1>3, <2>3, <2>4, <2>6 DEF Reads
  <2>8. PICK k : k = TakeBytes(dat, need).len
    OBVIOUS
  <2>9a. k <= need /\ HasRead(seen, k, to, stx', up', seen')
    BY <2>1, <2>3, <2>5, <2>7, <2>8, ReadStep
  <2>9. /\ k \in Nat /\ k <= need
        /\ Started(seen') /\ GivenEnd(seen') = GivenEnd(seen) + k /\ GivenEnd(seen) \in Nat
        /\ stx'.left \in Pieces /\ stx'.left.ok /\ stx'.left.at = GivenEnd(seen')
        /\ Carries(stx', up', GivenEnd(seen') + stx'.left.len)
        /\ ChainEnd(Read(stx', up'), GivenEnd(seen') + stx'.left.len) = to
        /\ to \in Nat /\ GivenEnd(seen') <= to
    BY <2>9a DEF HasRead
  <2>10. Chain(written, 0) /\ Len(written) \in Nat /\ StreamEnd(written) \in Nat
    BY SeqFacts, StreamIsChain DEF IInv, UpFlow, Written, Chain
  <2>11. GivenEnd(seen') <= StreamEnd(written)
    BY <2>6, <2>9, <2>10
  <2>12. /\ nread' \in Nat /\ nread' <= Len(written) /\ need' \in Nat /\ inBody' \in BOOLEAN
         /\ ~ inBody' => /\ need' \in 1..HeadSize
                         /\ GivenEnd(seen') + need' = (StartOf(nread + 1))' + HeadSize
         /\ inBody' => /\ nread' < Len(written)
                       /\ GivenEnd(seen') + need' = EndOf(written[nread' + 1])
    <3> DEFINE p == GivenEnd(seen)
    <3>1. StartOf(nread + 1) \in Nat /\ (nread < Len(written) =>
              /\ written[nread + 1].at = StartOf(nread + 1) /\ written[nread + 1].len \in Nat
              /\ written[nread + 1].len > HeadSize
              /\ EndOf(written[nread + 1]) = StartOf(nread + 1) + written[nread + 1].len)
      <4>1. \A i \in 1..Len(written) : written[i] \in Good /\ written[i].len > HeadSize
        BY <2>10, SeqFacts DEF IInv, UpFlow, Written, Chain
      <4>2. CASE nread = 0
        <5>1. StartOf(nread + 1) = 0 /\ nread + 1 = 1
          BY <4>2 DEF StartOf
        <5>2. nread < Len(written) => 1 \in 1..Len(written) /\ written[1].at = 0
          BY <2>10, <4>2 DEF Chain
        <5>3. nread < Len(written) =>
                  /\ written[1] \in Good /\ written[1].len > HeadSize /\ written[1].len \in Nat
                  /\ EndOf(written[1]) = written[1].at + written[1].len
          BY <4>1, <5>2, GoodData
        <5> QED
          BY <5>1, <5>2, <5>3
      <4>3. CASE nread # 0
        <5>1. nread \in 1..Len(written) /\ nread + 1 # 1 /\ nread + 1 - 1 = nread
          BY <2>3, <2>10, <4>3
        <5>2. StartOf(nread + 1) = EndOf(written[nread])
          BY <5>1 DEF StartOf
        <5>3. nread < Len(written) =>
                  nread + 1 \in 1..Len(written) /\ written[nread + 1].at = EndOf(written[nread])
          BY <2>3, <2>10, <5>1 DEF Chain
        <5> QED
          BY <4>1, <5>1, <5>2, <5>3, GoodData
      <4> QED
        BY <4>2, <4>3
    <3>2. \A j : (StartOf(j))' = StartOf(j)
      BY <1>1 DEF StartOf
    <3>3. /\ ~ inBody => need \in 1..HeadSize /\ p + need = StartOf(nread + 1) + HeadSize
          /\ inBody => nread < Len(written) /\ p + need = EndOf(written[nread + 1])
      BY DEF IInv, UpFlow, Position
    <3>4. p \in Nat /\ GivenEnd(seen') = p + k
      BY <2>9
    <3> HIDE DEF p
    <3>5. CASE k < need /\ need' = need - k /\ UNCHANGED <<inBody, nread>>
      <4>1. (StartOf(nread + 1))' = StartOf(nread + 1)
        BY <1>1, <3>5 DEF StartOf
      <4>2. need' \in Nat /\ need' >= 1 /\ need' <= need /\ (p + k) + need' = p + need
        BY <2>3, <2>9, <3>4, <3>5
      <4>3. CASE inBody
        BY <2>3, <3>3, <3>4, <3>5, <4>2, <4>3
      <4>4. CASE ~ inBody
        <5>1. need' \in 1..HeadSize
          BY <3>3, <4>2, <4>4 DEF HeadSize
        <5> QED
          BY <2>3, <3>3, <3>4, <3>5, <4>1, <4>2, <4>4, <5>1
      <4> QED
        BY <4>3, <4>4
    <3>6. CASE /\ k = need /\ ~ inBody /\ need' = written[nread + 1].len - HeadSize
               /\ inBody' = TRUE /\ nread' = nread
      <4>1. p + need = StartOf(nread + 1) + HeadSize
        BY <3>3, <3>6
      <4>2. nread < Len(written)
        <5>1. SUFFICES ASSUME nread = Len(written) PROVE FALSE
          BY <2>3, <2>10
        <5>2. StartOf(nread + 1) = StreamEnd(written)
          <6>1. CASE written = << >>
            BY <5>1, <6>1, EmptyQueue DEF StartOf, StreamEnd
          <6>2. CASE written # << >>
            <7>1. nread + 1 # 1 /\ nread + 1 - 1 = Len(written)
              BY <2>10, <5>1, <6>2, SeqFacts DEF Chain
            <7>2. StartOf(nread + 1) = EndOf(written[nread + 1 - 1])
              BY <2>3, <7>1 DEF StartOf
            <7>3. StreamEnd(written) = EndOf(written[Len(written)])
              BY <6>2 DEF StreamEnd, Last, EndOf
            <7> QED
              BY <7>1, <7>2, <7>3
          <6> QED
            BY <6>1, <6>2
        <5> QED
          BY <2>10, <2>11, <3>4, <3>6, <4>1, <5>2 DEF HeadSize
      <4>3. need' \in Nat /\ (p + k) + need' = EndOf(written[nread + 1])
        BY <3>1, <3>4, <3>6, <4>1, <4>2 DEF HeadSize
      <4> QED
        BY <2>3, <3>4, <3>6, <4>2, <4>3
    <3>7. CASE k = need /\ inBody /\ need' = HeadSize /\ inBody' = FALSE /\ nread' = nread + 1
      <4>1. nread < Len(written) /\ p + need = EndOf(written[nread + 1])
        BY <3>3, <3>7
      <4>2. (StartOf(nread + 1))' = EndOf(written[nread + 1])
        <5>1. nread' + 1 # 1 /\ nread' + 1 - 1 = nread + 1
          BY <2>3, <3>7
        <5>2. (StartOf(nread + 1))' = EndOf(written'[nread' + 1 - 1])
          BY <2>3, <3>7, <5>1 DEF StartOf
        <5> QED
          BY <1>1, <5>1, <5>2
      <4>3. (p + k) + need' = EndOf(written[nread + 1]) + HeadSize
        BY <3>7, <4>1
      <4>4. need' \in 1..HeadSize /\ need' \in Nat
        BY <3>7 DEF HeadSize
      <4>5. nread' \in Nat /\ nread' <= Len(written)
        BY <2>3, <2>10, <3>7, <4>1
      <4> QED
        BY <3>4, <3>7, <4>2, <4>3, <4>4, <4>5
    <3>8. \/ k < need /\ need' = need - k /\ UNCHANGED <<inBody, nread>>
          \/ /\ k = need /\ ~ inBody /\ need' = written[nread + 1].len - HeadSize
             /\ inBody' = TRUE /\ nread' = nread
          \/ k = need /\ inBody /\ need' = HeadSize /\ inBody' = FALSE /\ nread' = nread + 1
      BY <1>3, <2>8 DEF Receives
    <3> QED
      BY <3>5, <3>6, <3>7, <3>8
  <2>13. Position'
    BY <1>1, <2>9, <2>11, <2>12 DEF Position
  <2>14. Written'
    BY <1>1 DEF IInv, UpFlow, Written
  <2>15. UpWire'
    BY <1>1, <1>3, <2>6, <2>9 DEF UpWire
  <2> QED
    BY <2>13, <2>14, <2>15 DEF UpFlow
<1> QED
  BY <1>2, <1>3 DEF SessionReads, wireVars

(* No step breaks the stream to the server. *)
LEMMA UpStep == IInv /\ Next => UpFlow'
<1> SUFFICES ASSUME IInv, Next
             PROVE  UpFlow'
  OBVIOUS
<1>1. ASSUME ClientStep, UNCHANGED serverVars
      PROVE  UpFlow'
  <2>0. UNCHANGED <<stx, need, inBody, nread, seen>> /\ UpFlow
    BY <1>1 DEF serverVars, IInv
  <2>1. CASE Dial \/ SendRequest
    <3>1. ~ connected' /\ relay' # "write" /\ UNCHANGED <<written, chunk, user, offer>>
      BY <2>1 DEF Dial, SendRequest, userVars, IInv, Handshake, Places
    <3> QED
      BY <2>0, <3>1, UpKept
  <2>2. CASE RelayStart \/ RelayEnds \/ ReaderReads \/ UserCloses
    <3>1. /\ UNCHANGED <<conn, up, connected, written, chunk, user, offer>>
          /\ relay = "write" <=> relay' = "write"
      BY <2>2 DEF RelayStart, RelayEnds, ReaderReads, UserCloses, userVars, wireVars
    <3> QED
      BY <2>0, <3>1, UpKept
  <2>3. CASE UserWrites
    <3>1. /\ UNCHANGED <<conn, up, connected, relay, written, chunk>>
          /\ Len(written) < Len(UpSizes) /\ offer' = UpSizes[Len(written) + 1]
      BY <2>3 DEF UserWrites, wireVars
    <3>2. Len(written) + 1 \in 1..Len(UpSizes)
      BY <3>1, SeqFacts, WireAssumption DEF IInv, UpFlow, Written, Chain
    <3>3. offer' > HeadSize
      BY <3>1, <3>2, MessageAssumption
    <3> QED
      BY <2>0, <3>1, <3>3 DEF UpFlow, Written, Position, StartOf, UpWire
  <2> QED
    BY <1>1, <2>1, <2>2, <2>3, UpTakes, UpWrites, UpConnects DEF ClientStep, RelayStep
<1>2. ASSUME ServerStep(written), UNCHANGED clientVars
      PROVE  UpFlow'
  <2>1. CASE SessionReplies \/ SessionWrites \/ SessionEnds
    <3>1. /\ UNCHANGED <<up, connected, relay, written, chunk, user, offer, stx, need, inBody,
                         nread, seen>>
          /\ conn' = conn \/ conn' = "broken"
      BY <1>2, <2>1
         DEF SessionReplies, SessionWrites, SessionEnds, End, readVars, clientVars, wireVars
    <3> QED
      BY <3>1, UpKept DEF IInv
  <2> QED
    BY <1>2, <2>1, UpAnswers, UpReads DEF ServerStep
<1>3. ASSUME ConnBreaks, UNCHANGED <<clientVars, serverVars>>
      PROVE  UpFlow'
  <2>1. /\ UNCHANGED <<up, connected, relay, written, chunk, user, offer, stx, need, inBody,
                       nread, seen>>
        /\ conn' = "broken"
    BY <1>3 DEF ConnBreaks, clientVars, serverVars
  <2> QED
    BY <2>1, UpKept DEF IInv
<1> QED
  BY <1>1, <1>2, <1>3 DEF Next

-----------------------------------------------------------------------------
(* The stream to the client *)

(* What does not touch the stream, or touches it when the reader is over. *)
LEMMA DownKept ==
    ASSUME DownFlow, UNCHANGED <<replied, got>>, ctx'.left = ctx.left,
           reader' # "ended" => reader # "ended",
           connected' /\ reader' # "ended" => connected /\ down' = down /\ ctx' = ctx
    PROVE  DownFlow'
<1>1. Replied' /\ Fed'
  BY DEF DownFlow, Replied, Fed
<1>2. DownWire'
  BY DEF DownFlow, DownWire
<1> QED
  BY <1>1, <1>2 DEF DownFlow

(* The session writes a message as a frame. *)
LEMMA DownWrites == IInv /\ SessionWrites /\ UNCHANGED clientVars => DownFlow'
<1> SUFFICES ASSUME IInv, SessionWrites, UNCHANGED clientVars
             PROVE  DownFlow'
  OBVIOUS
<1>1. session = "write" /\ UNCHANGED <<connected, reader, ctx, got, stx>>
  BY DEF SessionWrites, clientVars
<1>2. CASE UNCHANGED <<down, replied>>
  BY <1>1, <1>2, DownKept DEF IInv
<1>3. ASSUME NEW f \in Frames(stx, NextMessage(replied, reply)), down' = Append(down, f),
             replied' = Append(replied, NextMessage(replied, reply))
      PROVE  DownFlow'
  <2>1. connected
    BY <1>1 DEF IInv, Handshake, Phases
  <2>2. PICK m : m = NextMessage(replied, reply)
    OBVIOUS
  <2>3. Chain(replied, 0) /\ reply \in Nat
    BY DEF IInv, DownFlow, Replied, Handshake, Places
  <2>4. /\ m \in Good /\ m.at = StreamEnd(replied) /\ EndOf(m) = StreamEnd(replied) + reply
        /\ Chain(replied', 0) /\ StreamEnd(replied') = StreamEnd(replied) + reply
        /\ StreamEnd(replied) \in Nat
    BY <1>3, <2>2, <2>3, StreamGrows, StreamIsChain
  <2>5. ~ Refused(ctx, f) /\ Chunk(ctx, f) = m
    BY <1>3, <2>1, <2>2, <2>4, EndsFit, FrameRoundTrip
  <2>6. Fed'
    <3>1. GivenEnd(got) <= StreamEnd(replied) /\ GivenEnd(got) \in Nat
      BY GivenNext DEF IInv, DownFlow, Fed
    <3>2. GivenEnd(got) <= StreamEnd(replied')
      BY <2>3, <2>4, <3>1
    <3> QED
      BY <1>1, <3>2 DEF IInv, DownFlow, Fed
  <2>7. DownWire'
    <3>1. SUFFICES ASSUME reader # "ended" PROVE DownWire'
      BY <1>1 DEF DownWire
    <3>2. PICK from \in Nat : from = GivenEnd(got) + ctx.left.len
      BY GivenNext DEF IInv, DownFlow, Fed, Pieces
    <3>3. Carries(ctx, down, from) /\ ChainEnd(Read(ctx, down), from) = m.at
      BY <2>1, <2>4, <3>1, <3>2 DEF IInv, DownFlow, DownWire
    <3>4. /\ Carries(ctx, Append(down, f), from)
          /\ ChainEnd(Read(ctx, Append(down, f)), from) = EndOf(m)
      BY <2>4, <2>5, <3>3, CarriesAppend DEF IInv, Handshake, Places
    <3> QED
      BY <1>1, <1>3, <2>4, <3>2, <3>4 DEF DownWire
  <2> QED
    BY <2>4, <2>6, <2>7 DEF DownFlow, Replied
<1> QED
  BY <1>2, <1>3 DEF SessionWrites

(* The client is connected: nothing has been written yet, or it was a refusal. *)
LEMMA DownConnects == IInv /\ ReadResponse /\ UNCHANGED serverVars => DownFlow'
<1> SUFFICES ASSUME IInv, ReadResponse, UNCHANGED serverVars
             PROVE  DownFlow'
  OBVIOUS
<1>1. relay = "await" /\ UNCHANGED <<reader, got, replied>>
  BY DEF ReadResponse, serverVars
<1>2. ~ connected
  BY <1>1 DEF IInv, Handshake, Places
<1>3. CASE UNCHANGED <<ctx, connected>>
  BY <1>1, <1>2, <1>3, DownKept DEF IInv
<1>4. CASE /\ down # << >> /\ Head(down).token # {}
           /\ \E k \in 1..Len(down) : down' = SubSeq(down, k + 1, Len(down))
           /\ ctx' = NewFramer(ctx.ws, Xor(Head(down).token, Nonce), Ts, "client")
  <2>1. down' = << >>
    BY <1>1, <1>4, ResponseIsGrant
  <2>2. ctx'.left = NoData
    BY <1>4 DEF NewFramer
  <2>3. ctx'.left \in Pieces /\ ctx'.left.len = 0
    BY <2>2 DEF NoData, Data, Pieces
  <2>4. StreamEnd(replied) = 0
    BY <1>2 DEF IInv, Handshake, Phases, StreamEnd
  <2>5. GivenEnd(got) = 0
    BY <2>4, GivenNext DEF IInv, DownFlow, Fed
  <2>6. PICK from : from = GivenEnd(got) + ctx'.left.len /\ from = 0
    BY <2>3, <2>5
  <2>7. DownWire'
    BY <1>1, <2>1, <2>4, <2>6, CarriesNone DEF DownWire
  <2>8. Replied' /\ Fed'
    BY <1>1, <2>3 DEF IInv, DownFlow, Replied, Fed
  <2> QED
    BY <2>7, <2>8 DEF DownFlow
<1> QED
  BY <1>3, <1>4 DEF ReadResponse

(* The reader reads a piece and hands it to bufRead, or it is over. *)
LEMMA DownReads == IInv /\ ReaderReads /\ UNCHANGED serverVars => DownFlow'
<1> SUFFICES ASSUME IInv, ReaderReads, UNCHANGED serverVars
             PROVE  DownFlow'
  OBVIOUS
<1>1. reader = "read" /\ UNCHANGED <<connected, replied>>
  BY DEF ReaderReads, serverVars
<1>2. CASE ReaderStop /\ UNCHANGED <<ctx, got>>
  BY <1>1, <1>2, DownKept DEF IInv, ReaderStop
<1>3. ASSUME NEW dat, ctx' = ReadChunk(ctx, dat, BufferSize), ReaderFeeds(dat),
             \/ ctx.left.len > 0 /\ dat = ctx.left /\ down' = down
             \/ /\ ctx.left.len = 0 /\ down # << >>
                /\ dat = Chunk(ctx, Head(down)) /\ down' = Tail(down)
      PROVE  DownFlow'
  <2>1. connected
    BY <1>1 DEF IInv, Handshake, Phases, Places
  <2>2. /\ Started(got) /\ GivenEnd(got) <= StreamEnd(replied) /\ ctx.left \in Pieces
        /\ ctx.left.len > 0 => ctx.left.ok /\ ctx.left.at = GivenEnd(got)
    BY <1>1 DEF IInv, DownFlow, Fed
  <2>3. /\ ctx = [ws |-> ctx.ws, psk |-> ctx.psk, mask |-> ctx.mask, left |-> ctx.left]
        /\ Queue(down) /\ BufferSize \in Nat
    BY SliceAssumption DEF IInv, Handshake, Framers, Places
  <2>4. /\ Carries(ctx, down, GivenEnd(got) + ctx.left.len)
        /\ ChainEnd(Read(ctx, down), GivenEnd(got) + ctx.left.len) = StreamEnd(replied)
    BY <1>1, <2>1 DEF IInv, DownFlow, DownWire
  <2>5. Reads(ctx, down, got, dat, down')
    BY <1>3, <2>2, <2>3, <2>4 DEF Reads
  <2>6. PICK h, k : h = Given(got, TakeBytes(dat, BufferSize)) /\ k = TakeBytes(dat, BufferSize).len
    OBVIOUS
  <2>7. HasRead(got, k, StreamEnd(replied), ctx', down', h)
    BY <1>3, <2>3, <2>4, <2>5, <2>6, ReadStep
  <2>8. CASE got' = h /\ reader' = reader
    BY <1>1, <2>7, <2>8 DEF DownFlow, Replied, Fed, DownWire, IInv, HasRead
  <2>9. CASE reader' = "ended" /\ got' = got
    BY <1>1, <2>2, <2>7, <2>9 DEF DownFlow, Replied, Fed, DownWire, IInv, HasRead
  <2> QED
    BY <1>3, <2>6, <2>8, <2>9 DEF ReaderFeeds, ReaderStop
<1> QED
  BY <1>2, <1>3 DEF ReaderReads

(* No step breaks the stream to the client. *)
LEMMA DownStep == IInv /\ Next => DownFlow'
<1> SUFFICES ASSUME IInv, Next
             PROVE  DownFlow'
  OBVIOUS
<1>1. ASSUME ClientStep, UNCHANGED serverVars
      PROVE  DownFlow'
  <2>0. UNCHANGED replied /\ DownFlow
    BY <1>1 DEF serverVars, IInv
  <2>1. CASE Dial
    <3>1. ~ connected' /\ UNCHANGED <<got, reader>> /\ ctx'.left = ctx.left
      <4>1. ctx = [ws |-> ctx.ws, psk |-> ctx.psk, mask |-> ctx.mask, left |-> ctx.left]
        BY DEF IInv, Handshake, Framers
      <4>2. \A ws : [ctx EXCEPT !.ws = ws].left = ctx.left
        BY <4>1
      <4> QED
        BY <2>1, <4>2 DEF Dial, IInv, Handshake, Places
    <3> QED
      BY <2>0, <3>1, DownKept
  <2>2. CASE \/ SendRequest \/ RelayStart \/ RelayTakes \/ RelayWrites \/ RelayEnds
             \/ UserWrites \/ UserCloses
    <3>1. /\ UNCHANGED <<down, connected, ctx, got>>
          /\ reader' # "ended" => reader # "ended"
      <4>1. CASE RelayStart
        <5>1. reader = "none"
          BY <4>1 DEF RelayStart, IInv, Handshake, Phases
        <5> QED
          BY <4>1, <5>1 DEF RelayStart, wireVars
      <4> QED
        BY <2>2, <4>1
           DEF SendRequest, RelayTakes, RelayWrites, RelayEnds, UserWrites, UserCloses, wireVars
    <3> QED
      BY <2>0, <3>1, DownKept
  <2> QED
    BY <1>1, <2>1, <2>2, DownConnects, DownReads DEF ClientStep, RelayStep
<1>2. ASSUME ServerStep(written), UNCHANGED clientVars
      PROVE  DownFlow'
  <2>0. UNCHANGED <<connected, reader, ctx, got>> /\ DownFlow
    BY <1>2 DEF clientVars, IInv
  <2>1. CASE HandleServerConn
    <3>1. ~ connected /\ UNCHANGED replied
      BY <2>1 DEF HandleServerConn, IInv, Handshake, Phases
    <3> QED
      BY <2>0, <3>1, DownKept
  <2>2. CASE SessionReads(written) \/ SessionReplies \/ SessionEnds
    <3>1. UNCHANGED <<down, replied>>
      BY <2>2 DEF SessionReads, SessionReplies, SessionEnds, wireVars
    <3> QED
      BY <2>0, <3>1, DownKept
  <2> QED
    BY <1>2, <2>1, <2>2, DownWrites DEF ServerStep
<1>3. ASSUME ConnBreaks, UNCHANGED <<clientVars, serverVars>>
      PROVE  DownFlow'
  BY <1>3, DownKept DEF ConnBreaks, clientVars, serverVars, IInv
<1> QED
  BY <1>1, <1>2, <1>3 DEF Next

-----------------------------------------------------------------------------
(* The theorems *)

(* The invariant holds before anything has been dialled. *)
LEMMA InitHolds == Init => IInv
<1> SUFFICES ASSUME Init PROVE IInv
  OBVIOUS
<1>1. /\ conn = "none" /\ up = << >> /\ down = << >>
      /\ closed = FALSE /\ connected = FALSE /\ relay = "new" /\ chunk = NoData
      /\ reader = "none" /\ chErr = 0 /\ chClose = 0
      /\ ctx = NewFramer(FALSE, {}, {}, "client") /\ user = "idle" /\ offer = 0
      /\ written = << >> /\ got = << >>
      /\ session = "none" /\ reply = 0 /\ stx = NewFramer(FALSE, {}, {}, "server")
      /\ need = HeadSize /\ inBody = FALSE /\ nread = 0 /\ replied = << >> /\ seen = << >>
  BY DEF Init, WireInit, ClientInit, ServerInit
<1>2. /\ ctx.ws = FALSE /\ ctx.left = NoData /\ stx.left = NoData
      /\ ctx = [ws |-> ctx.ws, psk |-> ctx.psk, mask |-> ctx.mask, left |-> ctx.left]
      /\ stx = [ws |-> stx.ws, psk |-> stx.psk, mask |-> stx.mask, left |-> stx.left]
  BY <1>1 DEF NewFramer
<1>3. NoData \in Pieces /\ NoData.len = 0
  BY DEF NoData, Data, Pieces
<1>4. Places
  <2>1. Queue(up) /\ Queue(down) /\ Len(up) = 0 /\ Len(down) = 0
    BY <1>1, EmptyQueue
  <2>2. closed \in BOOLEAN /\ connected \in BOOLEAN
    BY <1>1, Zenon
  <2>3. Len(up) <= WireCap /\ Len(down) <= WireCap + 1
    BY <2>1, WireAssumption
  <2>4. connected <=> relay \in {"start", "select", "write", "ended"}
    BY <1>1
  <2>5. chErr <= (IF reader = "ended" THEN 1 ELSE 0) /\ chClose <= (IF closed THEN 1 ELSE 0)
    BY <1>1
  <2> QED
    BY <1>1, <2>1, <2>2, <2>3, <2>4, <2>5 DEF Places
<1>5. Phases
  BY <1>1, <1>2, <1>3 DEF Phases
<1>6. Framers
  BY <1>1, <1>2, OneMessage DEF Framers
<1>7. Chain(<< >>, 0) /\ Started(<< >>) /\ GivenEnd(<< >>) = 0 /\ StreamEnd(<< >>) = 0
  BY EmptyChain DEF Started, GivenEnd, StreamEnd
<1>8. Written
  BY <1>1, <1>3, <1>7, EmptyQueue DEF Written
<1>9. Position
  <2>1. StartOf(nread + 1) = 0
    BY <1>1 DEF StartOf
  <2>2. Started(seen) /\ GivenEnd(seen) = 0 /\ StreamEnd(written) = 0 /\ Len(written) = 0
    BY <1>1, <1>7, EmptyQueue
  <2>3. stx.left \in Pieces /\ stx.left.len = 0
    BY <1>2, <1>3
  <2>4. inBody \in BOOLEAN /\ ~ inBody
    BY <1>1, Zenon
  <2>5. need \in Nat /\ need \in 1..HeadSize /\ 0 + need = 0 + HeadSize
    BY <1>1 DEF HeadSize
  <2>6. nread \in Nat /\ nread <= Len(written) /\ GivenEnd(seen) <= StreamEnd(written)
    BY <1>1, <2>2
  <2>7. GivenEnd(seen) + need = StartOf(nread + 1) + HeadSize
    BY <2>1, <2>2, <2>5
  <2> QED
    BY <2>2, <2>3, <2>4, <2>5, <2>6, <2>7 DEF Position
<1>10. UpWire /\ DownWire
  BY <1>1 DEF UpWire, DownWire
<1>11. Replied /\ Fed
  <2>1. ctx.left \in Pieces /\ ctx.left.len = 0
    BY <1>2, <1>3
  <2>2. Started(got) /\ GivenEnd(got) = 0 /\ StreamEnd(replied) = 0 /\ Chain(replied, 0)
    BY <1>1, <1>7
  <2> QED
    BY <2>1, <2>2 DEF Replied, Fed
<1> QED
  BY <1>4, <1>5, <1>6, <1>8, <1>9, <1>10, <1>11 DEF IInv, Handshake, UpFlow, DownFlow

(* A connection breaks at any time, before, in or after the handshake. *)
LEMMA BreakKeeps == IInv /\ ConnBreaks /\ UNCHANGED <<clientVars, serverVars>> => Handshake'
<1> SUFFICES ASSUME IInv, ConnBreaks, UNCHANGED <<clientVars, serverVars>>
             PROVE  Handshake'
  OBVIOUS
<1>1. /\ conn' = "broken" /\ Handshake
      /\ UNCHANGED <<up, down, closed, connected, relay, reader, chErr, chClose, ctx, user, offer,
                     written, session, reply, stx, nread, replied>>
  BY DEF ConnBreaks, clientVars, serverVars, IInv
<1>2. Asked' = Asked
  BY <1>1 DEF Asked
<1> QED
  BY <1>1, <1>2 DEF Handshake, Places, Phases, Framers

(* IInv holds initially and no step of the client, of the server or of the network *)
(* breaks it: the handshake, and a stream in each direction.                         *)
THEOREM Inductive == Spec => []IInv
<1>1. IInv /\ [Next]_vars => IInv'
  <2> SUFFICES ASSUME IInv, [Next]_vars
               PROVE  IInv'
    OBVIOUS
  <2>1. CASE Next
    <3>1. Handshake'
      BY <2>1, ClientKeeps, SessionKeeps, BreakKeeps DEF Next
    <3> QED
      BY <2>1, <3>1, UpStep, DownStep DEF IInv
  <2>2. CASE UNCHANGED vars
    <3>1. UNCHANGED wireVars /\ UNCHANGED clientVars /\ UNCHANGED serverVars
      BY <2>2 DEF vars
    <3>2. /\ UNCHANGED <<conn, up, down, closed, connected, relay, reader, chErr, chClose, ctx,
                         user, offer, written, chunk, got>>
          /\ UNCHANGED <<session, reply, stx, need, inBody, nread, replied, seen>>
      BY <3>1 DEF wireVars, clientVars, serverVars
    <3>3. Asked' = Asked
      BY <3>2 DEF Asked
    <3>4. Handshake'
      BY <3>2, <3>3 DEF IInv, Handshake, Places, Phases, Framers
    <3>5. UpFlow'
      BY <3>2, UpKept DEF IInv
    <3>6. DownFlow'
      BY <3>2, DownKept DEF IInv
    <3> QED
      BY <3>4, <3>5, <3>6 DEF IInv
  <2> QED
    BY <2>1, <2>2
<1> QED
  BY <1>1, InitHolds, PTL DEF Spec

(* Every variable has a value of its type, and neither channel of the client ever *)
(* holds more values than it has room for: nobody waits for room in them.          *)
THEOREM TypeCorrect == Spec => []TypeOK
<1>1. IInv => TypeOK
  <2> SUFFICES ASSUME IInv PROVE TypeOK
    OBVIOUS
  <2>1. ASSUME NEW h, Started(h), NEW i \in 1..Len(h) PROVE h[i] \in Pieces
    <3>1. h # << >>
      BY <2>1, EmptyQueue
    <3>2. PICK n \in Nat : h = <<Data(0, n)>>
      BY <2>1, <3>1 DEF Started
    <3>3. i = 1
      BY <2>1, <3>2
    <3> QED
      BY <3>2, <3>3 DEF Data, Pieces
  <2>2. Places /\ Started(seen) /\ Started(got)
    BY DEF IInv, Handshake, UpFlow, Position, DownFlow, Fed
  <2>3. /\ need \in Nat /\ nread \in Nat /\ inBody \in BOOLEAN
        /\ chunk \in Pieces /\ ctx.left \in Pieces /\ stx.left \in Pieces
    BY DEF IInv, UpFlow, Written, Position, DownFlow, Fed
  <2>4. chErr \in 0..2 /\ chClose \in 0..2
    BY <2>2 DEF Places
  <2>5. \A h \in {got, seen} : \A i \in 1..Len(h) : h[i] \in Pieces
    BY <2>1, <2>2
  <2> QED
    BY <2>2, <2>3, <2>4, <2>5 DEF TypeOK, Places
<1> QED
  BY <1>1, Inductive, PTL

(* Both ends of a connection hold one key, in one format and with opposite roles, as *)
(* soon as both have a framer, whatever the keys of the configurations.               *)
THEOREM OneKey == Spec => []KeysAgree
<1>1. IInv => KeysAgree
  <2>1. SessionKey # {}
    BY DEF SessionKey, Xor, NewKey, Nonce, Ts
  <2> QED
    BY <2>1 DEF IInv, Handshake, Framers, KeysAgree
<1> QED
  BY <1>1, Inductive, PTL

(* What a history that is one interval says of a stream. *)
LEMMA StartedIsStart ==
    ASSUME NEW h, Started(h), NEW n \in Nat, GivenEnd(h) <= n
    PROVE  IsStreamStart(h, n)
<1> SUFFICES ASSUME h # << >>
             PROVE  Len(h) = 1 /\ h[1].ok /\ h[1].at = 0 /\ h[1].len <= n
  BY DEF IsStreamStart
<1>1. PICK k \in Nat : k = GivenEnd(h) /\ h = <<Data(0, k)>>
  BY DEF Started
<1>2. Data(0, k).ok /\ Data(0, k).at = 0 /\ Data(0, k).len = k
  BY DEF Data
<1> QED
  BY <1>1, <1>2

(* The session is given the beginning of what was taken from the user: nothing is *)
(* lost, doubled or out of place, in whatever frames and slices it comes.          *)
THEOREM UpStream == Spec => []UpIsStream
<1>1. IInv => UpIsStream
  <2> SUFFICES ASSUME IInv PROVE UpIsStream
    OBVIOUS
  <2>1. Started(seen) /\ GivenEnd(seen) <= StreamEnd(written) /\ StreamEnd(written) \in Nat
    BY StreamIsChain DEF IInv, UpFlow, Position, Written
  <2> QED
    BY <2>1, StartedIsStart DEF UpIsStream
<1> QED
  BY <1>1, Inductive, PTL

(* The same of the session's messages and of what bufRead is given. *)
THEOREM DownStream == Spec => []DownIsStream
<1>1. IInv => DownIsStream
  <2> SUFFICES ASSUME IInv PROVE DownIsStream
    OBVIOUS
  <2>1. Started(got) /\ GivenEnd(got) <= StreamEnd(replied) /\ StreamEnd(replied) \in Nat
    BY StreamIsChain DEF IInv, DownFlow, Fed, Replied
  <2> QED
    BY <2>1, StartedIsStart DEF DownIsStream
<1> QED
  BY <1>1, Inductive, PTL
=============================================================================
