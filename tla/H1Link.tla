------------------------------- MODULE H1Link -------------------------------
(***************************************************************************)
(* The transport h1: a Client and the session that serves it, from the     *)
(* handshake that gives both a session key to the end of the connection.   *)
(***************************************************************************)
EXTENDS H1Client, H1Server

vars == <<wireVars, clientVars, serverVars>>

Init == WireInit /\ ClientInit /\ ServerInit

Next ==
    \/ ClientStep /\ UNCHANGED serverVars
    \/ ServerStep(written) /\ UNCHANGED clientVars
    \/ ConnBreaks /\ UNCHANGED <<clientVars, serverVars>>

\* The client's goroutines that can run do run: net.Dial returns.  Whether the server
\* answers, its session reads or writes, the user does anything and the network fails
\* is left open.
Fairness ==
    /\ WF_vars(RelayStep /\ UNCHANGED serverVars)
    /\ WF_vars(ReaderReads /\ UNCHANGED serverVars)

Spec == Init /\ [][Next]_vars /\ Fairness

-----------------------------------------------------------------------------
(* Properties *)

Pieces == [at : Nat, len : Nat, ok : BOOLEAN]

\* Every variable holds a value the code can give it; neither channel is ever
\* fuller than the two values it has room for.
TypeOK ==
    /\ conn \in {"none", "open", "broken"}
    /\ {closed, connected, inBody} \subseteq BOOLEAN
    /\ relay \in {"new", "request", "await", "start", "select", "write", "failed", "ended"}
    /\ reader \in {"none", "read", "ended"}
    /\ session \in {"none", "run", "write", "ended"}
    /\ user \in {"idle", "send"}
    /\ {chErr, chClose} \subseteq 0..2
    /\ {need, nread, reply, offer} \subseteq Nat
    /\ {chunk, ctx.left, stx.left} \subseteq Pieces
    /\ Len(up) <= WireCap /\ Len(down) <= WireCap + 1
    /\ \A h \in {got, seen} : \A i \in 1..Len(h) : h[i] \in Pieces

\* Both ends encrypt with one key, in one format and with opposite roles, as soon
\* as both have a framer: each has computed it from what it drew itself and what
\* came with the other's message.
KeysAgree ==
    connected /\ session \in {"run", "write"} =>
        /\ ctx.psk = stx.psk /\ ctx.psk # {}
        /\ ctx.ws = stx.ws
        /\ ctx.ws => ctx.mask # stx.mask

\* What the session is given is the beginning of what was taken from the user, in
\* order, whatever the lengths of frames and slices and wherever it breaks.
UpIsStream == IsStreamStart(seen, StreamEnd(written))

\* The same of what bufRead is given of the session's messages.
DownIsStream == IsStreamStart(got, StreamEnd(replied))

\* Connect waits for a response that does not come; tx.Write waits for room that the
\* session does not make.  Neither has a deadline.
Unanswered == relay = "await" /\ conn = "open" /\ down = << >>
Unread == relay = "write" /\ conn = "open" /\ Len(up) = WireCap

\* A Write that waits on chW is taken, unless nobody is there to take it: Connect has
\* failed or the relay has ended (then it waits for ever), or they wait for a server
\* that does not answer or does not read.  Once the relay has ended no more Writes
\* begin to wait.
WriteTaken ==
    /\ user = "send" ~> \/ user = "idle" \/ relay \in {"failed", "ended"}
                        \/ []Unanswered \/ []Unread
    /\ [][relay = "ended" /\ user = "idle" => user' = "idle"]_vars

\* Close ends the relay, unless it waits for a server that does not answer or does not
\* read: a Close between net.Dial and the first select is seen too, and so is one
\* behind a broken connection.
CloseEndsRelay == closed ~> \/ relay \in {"failed", "ended"}
                            \/ []Unanswered \/ []Unread
=============================================================================
