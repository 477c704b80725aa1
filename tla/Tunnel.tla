------------------------------- MODULE Tunnel -------------------------------
(***************************************************************************)
(* A tunnel from an application to its target: SecureBackend on one side   *)
(* of the transport, TunnelSession on the other, nine goroutines and six   *)
(* channels in a ring.                                                     *)
(***************************************************************************)
EXTENDS SecureBackend, TunnelSession

vars == <<txVars, backendVars, sessionVars>>

Init == TxInit /\ BackendInit /\ SessionInit

LinkFails == TxBreaks /\ UNCHANGED <<backendVars, sessionVars>>

Next ==
    \/ BackendStep /\ UNCHANGED sessionVars
    \/ SessionStep /\ UNCHANGED backendVars
    \/ LinkFails

\* Every goroutine that can go on does, but for a read of the transport, which may
\* sleep on what has arrived (ReadWriteBuffer): nothing is assumed of WorkerRecv and
\* ClientRead.  Nor is it of what ends a tunnel (AppCloses, TargetCloses, LinkFails,
\* DialTimeout).  An open application and an open target take what is written to them.
Fairness ==
    /\ WF_vars(RequestStep /\ UNCHANGED sessionVars)
    /\ WF_vars(DialAnswer /\ UNCHANGED sessionVars)
    /\ WF_vars((AppQueue \/ AppRead) /\ UNCHANGED sessionVars)
    /\ WF_vars((UpTake \/ UpToPump \/ UpCancelled) /\ UNCHANGED sessionVars)
    /\ WF_vars(VirtualStep /\ UNCHANGED sessionVars)
    /\ WF_vars(PumpWrite /\ UNCHANGED sessionVars)
    /\ WF_vars(TargetRead /\ UNCHANGED backendVars)
    /\ WF_vars(LoopStep /\ UNCHANGED backendVars)

Spec == Init /\ [][Next]_vars /\ Fairness

-----------------------------------------------------------------------------
Up == 1..MaxUp
Down == 1..MaxDown * Slices

\* Shapes of the variables; no channel of the tunnel holds more than it can, and
\* each goroutine reports one error at most, so that chErr has room for it.
TypeOK ==
    /\ tx \in {"up", "closed", "broken"}
    /\ Len(c2s) <= TxCap /\ Len(s2c) <= TxCap
    /\ app \in {"open", "closed"} /\ appSent \in 0..MaxUp /\ Range(appGot) \subseteq Down
    /\ hpc \in {"greeting", "request", "direct", "dial", "wait", "refused", "stuck",
               "open", "proxy", "closing", "txclose", "done"}
    /\ watch \in BOOLEAN /\ vclosed \in BOOLEAN
    /\ wk \in {"none", "read", "state", "data", "ended"}
    /\ pump \in {"none", "select", "write", "stuck", "ended"}
    /\ Range(bufRead) \subseteq Down
    /\ {appDat, upWDat, pumpDat, cliDat} \subseteq Up \cup {0}
    /\ {appR, upR, tgtR, cliR} \subseteq {"none", "read", "wait", "send", "ended"}
    /\ upW \in {"none", "select", "write", "ended"}
    /\ chUp \in Seq(Up) /\ Len(chUp) <= ChCap
    /\ chDown \in Seq(Down) /\ Len(chDown) <= ChCap
    /\ chErr \in 0..3 /\ sErr \in 0..2
    /\ target \in {"none", "open", "closed"}
    /\ tgtSent \in 0..MaxDown /\ Range(tgtGot) \subseteq Up
    /\ sess \in {"read", "dial", "opening", "erring", "loop", "write", "closing", "ended"}

UpBytes == INSTANCE ByteStream WITH
    Sizes <- {1},
    pending <- [i \in 1..appSent - Len(tgtGot) |-> Len(tgtGot) + i],
    delivered <- tgtGot,
    closed <- (app = "closed")

DownBytes == INSTANCE ByteStream WITH
    Sizes <- {Slices},
    pending <- [i \in 1..tgtSent * Slices - Len(appGot) |-> Len(appGot) + i],
    delivered <- appGot,
    closed <- (target = "closed")

\* What the target is given is what the application sent, from the first chunk on, in
\* order, without a gap and never before it was sent, however the tunnel ends: five
\* goroutines hand a chunk on, each of which may meet the end of the tunnel first, and
\* from outside each of their steps accepts the next chunk, gives the oldest one, closes
\* or is not seen.
UpIsByteStream == UpBytes!Spec

\* The same of what the application is given, although a chunk of the target is accepted
\* whole and given in the slices of virtualConn.Read, by way of bufRead.
DownIsByteStream == DownBytes!Spec

Stands == hpc = "proxy" /\ tx = "up" /\ target = "open"

\* The pump writes to a transport that is full, and the session does not read: its
\* loop writes to the other direction, which is full too, or its reader has not been
\* woken.
Jammed ==
    /\ pump = "write" /\ Len(c2s) = TxCap
    /\ cliR = "read" \/ (sess = "write" /\ Len(s2c) = TxCap)

\* Nobody can go on: handleConn and the worker; the goroutines of Proxy and Dial; those
\* of the session.  Each line is what one of them waits for.  A read of the transport
\* may rest whatever has arrived.
AtRest ==
    /\ hpc \in {"direct", "stuck", "proxy", "closing", "done"}
    /\ hpc = "proxy" => chDown = << >> /\ chErr = 0
    /\ hpc = "closing" => pump # "select"
    /\ appR = "read" => app = "open" /\ appSent = MaxUp
    /\ appR = "send" => Len(chUp) = ChCap
    /\ upW = "select" => chUp = << >> /\ hpc = "proxy"
    /\ upW = "write" => pump # "select"
    /\ upR # "read" /\ (upR = "wait" => wk # "data")
    /\ upR = "send" => Len(chDown) = ChCap
    /\ pump = "write" => tx = "up" /\ Len(c2s) = TxCap
    /\ tgtR = "read" => target = "open" /\ tgtSent = MaxDown
    /\ sess = "loop" => cliR # "send" /\ tgtR # "send" /\ sErr = 0
    /\ sess = "write" => tx = "up" /\ Len(s2c) = TxCap
    /\ sess # "closing"

\* When the application has gone and nothing moves any more, its handler has
\* returned, although Close waits for the pump to take its nil: unless the transport
\* had ended and the write of the request or of the pump waits for ever on chW, or the
\* pump has returned by itself; or, while it stands, the pump waits for a session that
\* does not read.
RequestEnds ==
    app = "closed" /\ AtRest =>
        \/ hpc \in {"done", "direct"}
        \/ tx # "up" /\ (hpc = "stuck" \/ pump \in {"stuck", "ended"})
        \/ Jammed

\* A read of the transport sleeps on what has arrived: that of the worker, that of the
\* session.
WorkerDozes == wk = "read" /\ s2c # << >>
SessionDozes == cliR = "read" /\ c2s # << >>

\* While the tunnel stands, what the application sends reaches the target and what the
\* target sends reaches the application, unless a reader of the transport is never
\* woken: the two directions share the loop of handleDialConn and yet never wait for
\* each other in a circle.
BothWaysFlow ==
    /\ Stands /\ appSent > Len(tgtGot) ~>
           appSent = Len(tgtGot) \/ ~ Stands \/ []WorkerDozes \/ []SessionDozes
    /\ Stands /\ tgtSent * Slices > Len(appGot) ~>
           \/ tgtSent * Slices = Len(appGot) \/ ~ Stands
           \/ []WorkerDozes \/ []SessionDozes
=============================================================================
