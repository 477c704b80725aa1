------------------------------ MODULE H1Client ------------------------------
(***************************************************************************)
(* transport/h1/client.go: one Client with the goroutine that connects and *)
(* relays (CreateClient, or client.start of h1pool), the reader goroutine  *)
(* of RelayTraffic, and a user who writes and closes.  Reads of the user   *)
(* are those of bufRead, a ReadWriteBuffer: as its abstract specification  *)
(* has it, a write to it is accepted whole or refused.                     *)
(***************************************************************************)
EXTENDS H1Conn

CONSTANTS ClientPsk,     \* conf.FRAMER_PSK of the client
          BufferSize     \* conf.DEFAULT_BUFFER_SIZE

ASSUME SliceAssumption == BufferSize \in Nat \ {0}

VARIABLES
    closed, connected,
    relay,      \* new, request, await (Connect); start, select, write (RelayTraffic);
                \* failed, ended
    chunk,      \* the message that is being relayed
    reader,     \* the reader goroutine: none, read, ended
    chErr, chClose,   \* how many values the two channels hold
    ctx,        \* the client's framer
    user,       \* the user in Write: idle, or send with the length in offer
    offer,
    written,    \* history: the messages taken from the user
    got         \* history: what bufRead was given

clientVars == <<closed, connected, relay, chunk, reader, chErr, chClose, ctx, user,
                offer, written, got>>
userVars == <<user, offer>>

\* What the client draws for one handshake: the 16 random bytes and the time.
Nonce == {"nonce"}
Ts == {"ts"}

ClientInit ==
    /\ closed = FALSE /\ connected = FALSE
    /\ relay = "new" /\ chunk = NoData
    /\ reader = "none"
    /\ chErr = 0 /\ chClose = 0
    /\ ctx = NewFramer(FALSE, {}, {}, "client")
    /\ user = "idle" /\ offer = 0
    /\ written = << >> /\ got = << >>

-----------------------------------------------------------------------------
(* Connect *)

\* net.Dial, for an http or a ws URL.
Dial ==
    /\ relay = "new"
    /\ \/ /\ ~closed
          /\ \E ws \in BOOLEAN : ctx' = [ctx EXCEPT !.ws = ws]
          /\ conn' = "open"
          /\ relay' = "request"
       \/ relay' = "failed" /\ UNCHANGED <<conn, ctx>>
    /\ UNCHANGED <<up, down, closed, connected, chunk, reader, chErr, chClose,
                   userVars, written, got>>

\* The request: time stamp and nonce, encrypted with the shared key.
SendRequest ==
    /\ relay = "request"
    /\ \/ /\ conn = "open"
          /\ up' = Append(up, [ws |-> ctx.ws, psk |-> ClientPsk, ts |-> Ts, nonce |-> Nonce])
          /\ relay' = "await"
       \/ conn = "broken" /\ relay' = "failed" /\ UNCHANGED up
    /\ UNCHANGED <<conn, down, closed, connected, chunk, reader, chErr, chClose, ctx,
                   userVars, written, got>>

\* Mutated form: a response without a token is passed over.
ReadResponseAgain ==
    /\ relay = "await"
    /\ down # << >>
    /\ relay' = IF Head(down).token # {} THEN "start" ELSE relay
    /\ ctx' = NewFramer(ctx.ws, Xor(Head(down).token, Nonce), Ts, "client")
    /\ connected' = (Head(down).token # {})
    /\ down' = Tail(down)
    /\ UNCHANGED <<conn, up, closed, chunk, reader, chErr, chClose, userVars,
                   written, got>>

\* Mutated form: the framer is not told the time stamp.
ReadResponseNoTs ==
    /\ relay = "await"
    /\ down # << >>
    /\ Head(down).token # {}
    /\ relay' = "start"
    /\ ctx' = NewFramer(ctx.ws, Xor(Head(down).token, Nonce), {}, "client")
    /\ connected' = TRUE
    /\ down' = Tail(down)
    /\ UNCHANGED <<conn, up, closed, chunk, reader, chErr, chClose, userVars,
                   written, got>>

\* ReadResponse: the token, encrypted with the shared key, makes the session key;
\* without one (whatever the status) Connect fails.
\* Frames that have arrived behind the header may be swallowed with it.
ReadResponse ==
    /\ relay = "await"
    /\ \/ /\ down # << >> /\ Head(down).token # {}
          /\ \E k \in 1..Len(down) : down' = SubSeq(down, k + 1, Len(down))
          /\ ctx' = NewFramer(ctx.ws, Xor(Head(down).token, Nonce), Ts, "client")
          /\ connected' = TRUE
          /\ relay' = "start"
       \/ /\ \/ down # << >> /\ Head(down).token = {} /\ down' = Tail(down)
             \/ conn = "broken" /\ UNCHANGED down
          /\ relay' = "failed"
          /\ UNCHANGED <<ctx, connected>>
    /\ UNCHANGED <<conn, up, closed, chunk, reader, chErr, chClose, userVars,
                   written, got>>

-----------------------------------------------------------------------------
(* RelayTraffic *)

RelayStart ==
    /\ relay = "start"
    /\ \/ closed /\ relay' = "ended" /\ UNCHANGED reader
       \/ ~closed /\ relay' = "select" /\ reader' = "read"
    /\ UNCHANGED <<wireVars, closed, connected, chunk, chErr, chClose, ctx, userVars,
                   written, got>>

\* chW hands the user's message over; Write returns.
RelayTakes ==
    /\ relay = "select"
    /\ user = "send"
    /\ relay' = "write"
    /\ chunk' = NextMessage(written, offer)
    /\ user' = "idle"
    /\ written' = Append(written, NextMessage(written, offer))
    /\ UNCHANGED <<wireVars, closed, connected, reader, chErr, chClose, ctx, offer, got>>

\* tx.Write waits for room; on a broken connection it fails, or the bytes are lost.
RelayWrites ==
    /\ relay = "write"
    /\ \/ /\ conn = "open" /\ Len(up) < WireCap
          /\ \E f \in Frames(ctx, chunk) : up' = Append(up, f)
          /\ relay' = "select"
          /\ UNCHANGED closed
       \/ /\ conn = "broken"
          /\ \/ relay' = "ended" /\ closed' = TRUE
             \/ relay' = "select" /\ UNCHANGED closed
          /\ UNCHANGED up
    /\ UNCHANGED <<conn, down, connected, chunk, reader, chErr, chClose, ctx, userVars,
                   written, got>>

\* The other two cases of the select; the deferred call sets closed.
RelayEnds ==
    /\ relay = "select"
    /\ \/ chErr > 0 /\ chErr' = chErr - 1 /\ UNCHANGED chClose
       \/ chClose > 0 /\ chClose' = chClose - 1 /\ UNCHANGED chErr
    /\ relay' = "ended"
    /\ closed' = TRUE
    /\ UNCHANGED <<wireVars, connected, chunk, reader, ctx, userVars, written, got>>

\* The error of the reader goes to chErr.
ReaderStop == reader' = "ended" /\ chErr' = chErr + 1

\* The reader hands a piece to bufRead, which takes it or refuses it.
ReaderFeeds(dat) ==
    \/ /\ got' = Given(got, TakeBytes(dat, BufferSize))
       /\ UNCHANGED <<reader, chErr>>
    \/ ReaderStop /\ UNCHANGED got

\* tx.Read: first what is left, then the next frame, or the end of the connection.
ReaderReads ==
    /\ reader = "read"
    /\ \/ /\ ctx.left.len > 0
          /\ ctx' = ReadChunk(ctx, ctx.left, BufferSize)
          /\ ReaderFeeds(ctx.left)
          /\ UNCHANGED down
       \/ /\ ctx.left.len = 0 /\ down # << >>
          /\ down' = Tail(down)
          /\ LET dat == Chunk(ctx, Head(down)) IN
             \/ /\ ~Refused(ctx, Head(down))
                /\ ctx' = ReadChunk(ctx, dat, BufferSize)
                /\ ReaderFeeds(dat)
             \/ /\ Refused(ctx, Head(down))
                /\ ReaderStop
                /\ UNCHANGED <<ctx, got>>
       \/ /\ ctx.left.len = 0 /\ conn = "broken"
          /\ ReaderStop
          /\ UNCHANGED <<ctx, down, got>>
    /\ UNCHANGED <<conn, up, closed, connected, relay, chunk, chClose, userVars, written>>

-----------------------------------------------------------------------------
(* The user *)

\* Write looks at closed, then waits for the relay.
UserWrites ==
    /\ user = "idle"
    /\ ~closed
    /\ Len(written) < Len(UpSizes)
    /\ user' = "send"
    /\ offer' = UpSizes[Len(written) + 1]
    /\ UNCHANGED <<wireVars, closed, connected, relay, chunk, reader, chErr, chClose,
                   ctx, written, got>>

\* Mutated form: every Close leaves a word for the relay.
UserClosesAgain ==
    /\ chClose < 3
    /\ closed' = TRUE
    /\ chClose' = chClose + 1
    /\ UNCHANGED <<wireVars, connected, relay, chunk, reader, chErr, ctx, userVars,
                   written, got>>

\* Mutated form: Close leaves no word for the relay.
UserClosesSilently ==
    /\ ~closed
    /\ closed' = TRUE
    /\ UNCHANGED <<wireVars, connected, relay, chunk, reader, chErr, chClose, ctx,
                   userVars, written, got>>

\* Close: the first one leaves a word for the relay.
UserCloses ==
    /\ ~closed
    /\ closed' = TRUE
    /\ chClose' = chClose + 1
    /\ UNCHANGED <<wireVars, connected, relay, chunk, reader, chErr, ctx, userVars,
                   written, got>>

RelayStep == \/ Dial \/ SendRequest \/ ReadResponse
             \/ RelayStart \/ RelayTakes \/ RelayWrites \/ RelayEnds

ClientStep == RelayStep \/ ReaderReads \/ UserWrites \/ UserCloses
=============================================================================
