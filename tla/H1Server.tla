------------------------------ MODULE H1Server ------------------------------
(***************************************************************************)
(* transport/h1/server.go: handleServerConn, from the request to the end   *)
(* of the session it starts (socks/tunnel), which reads messages as the s1 *)
(* codec does, a header of 20 bytes and then as many as the header says,   *)
(* and writes only after it has read.                                      *)
(***************************************************************************)
EXTENDS H1Conn

CONSTANT ServerPsks   \* conf.FRAMER_PSK of the server: one of these

VARIABLES
    serverPsk,
    session,     \* none, run, write (a reply of length reply waits for room), ended
    reply,
    stx,         \* the server's framer
    need,        \* bytes that io.ReadFull still waits for
    inBody,      \* they belong to the body of a message
    nread,       \* messages read
    replied,     \* history: the messages written to the client
    seen         \* history: what the session was given

serverVars == <<serverPsk, session, reply, stx, need, inBody, nread, replied, seen>>
readVars == <<need, inBody, nread, seen>>

HeadSize == 20   \* kind, reserved, id, ack and length

\* No message is without a body.
ASSUME MessageAssumption == \A i \in 1..Len(UpSizes) : UpSizes[i] > HeadSize

\* What the server draws for one handshake.
NewKey == {"key"}

ServerInit ==
    /\ serverPsk \in ServerPsks
    /\ session = "none" /\ reply = 0
    /\ stx = NewFramer(FALSE, {}, {}, "server")
    /\ need = HeadSize /\ inBody = FALSE /\ nread = 0
    /\ replied = << >> /\ seen = << >>

\* Time stamp minus the server's clock, in seconds: around the limits.
Skews == {-121, -120, 0, 120, 121}

\* The window of the time stamp.  Decrypted with another key it is a number out
\* of 2^64, taken to be outside.
Timely(request, skew) ==
    request.psk = serverPsk /\ ~(skew > 120 \/ skew < -120)

\* The request is answered with a token or with a refusal, after which the
\* connection is closed; a response that cannot be written ends it too.
HandleServerConn ==
    /\ session = "none"
    /\ up # << >>
    /\ up' = Tail(up)
    /\ \E skew \in Skews : LET request == Head(up) IN
       \/ /\ Timely(request, skew) /\ conn = "open"
          /\ down' = Append(down, [token |-> NewKey])
          /\ stx' = NewFramer(request.ws, Xor(NewKey, request.nonce), request.ts, "server")
          /\ session' = "run"
          /\ UNCHANGED conn
       \/ /\ ~Timely(request, skew) \/ conn = "broken"
          /\ down' = IF conn = "open" THEN Append(down, [token |-> {}]) ELSE down
          /\ session' = "ended"
          /\ conn' = "broken"
          /\ UNCHANGED stx
    /\ UNCHANGED <<serverPsk, reply, readVars, replied>>

\* The session returns, and its connection is closed.
End == session' = "ended" /\ conn' = "broken"

\* A piece arrives.  When nothing more is needed the header tells the length of
\* the body (msgs: the messages that were written), or the message is complete.
Receives(dat, msgs) ==
    LET n == TakeBytes(dat, need).len IN
    /\ seen' = Given(seen, TakeBytes(dat, need))
    /\ stx' = ReadChunk(stx, dat, need)
    /\ \/ /\ n < need
          /\ need' = need - n
          /\ UNCHANGED <<inBody, nread>>
       \/ /\ n = need /\ ~inBody
          /\ need' = msgs[nread + 1].len - HeadSize
          /\ inBody' = TRUE
          /\ UNCHANGED nread
       \/ /\ n = need /\ inBody
          /\ need' = HeadSize
          /\ inBody' = FALSE
          /\ nread' = nread + 1

SessionReads(msgs) ==
    /\ session = "run"
    /\ \/ /\ stx.left.len > 0
          /\ Receives(stx.left, msgs)
          /\ UNCHANGED <<wireVars, session>>
       \/ /\ stx.left.len = 0 /\ up # << >> /\ ~Refused(stx, Head(up))
          /\ up' = Tail(up)
          /\ Receives(Chunk(stx, Head(up)), msgs)
          /\ UNCHANGED <<conn, down, session>>
       \/ /\ stx.left.len = 0
          /\ conn = "broken" \/ (up # << >> /\ Refused(stx, Head(up)))
          /\ End
          /\ UNCHANGED <<up, down, stx, readVars>>
    /\ UNCHANGED <<serverPsk, reply, replied>>

SessionReplies ==
    /\ session = "run"
    /\ nread > 0
    /\ Len(replied) < Len(DownSizes)
    /\ session' = "write"
    /\ reply' = DownSizes[Len(replied) + 1]
    /\ UNCHANGED <<wireVars, serverPsk, stx, readVars, replied>>

\* tx.Write waits for room; the session ends when it fails.
SessionWrites ==
    /\ session = "write"
    /\ \/ /\ conn = "open" /\ Len(down) < WireCap
          /\ \E f \in Frames(stx, NextMessage(replied, reply)) : down' = Append(down, f)
          /\ replied' = Append(replied, NextMessage(replied, reply))
          /\ session' = "run"
          /\ UNCHANGED conn
       \/ conn = "broken" /\ End /\ UNCHANGED <<down, replied>>
    /\ UNCHANGED <<up, serverPsk, reply, stx, readVars>>

\* The session is over for reasons of its own.
SessionEnds ==
    /\ session = "run"
    /\ End
    /\ UNCHANGED <<up, down, serverPsk, reply, stx, readVars, replied>>

ServerStep(msgs) ==
    \/ HandleServerConn \/ SessionReads(msgs) \/ SessionReplies \/ SessionWrites
    \/ SessionEnds
=============================================================================
