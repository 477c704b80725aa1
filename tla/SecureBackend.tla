---------------------------- MODULE SecureBackend ----------------------------
(***************************************************************************)
(* The client's end of a tunnel: one SOCKS5 connection (socks5.handleConn, *)
(* HandleRequest) that dials through socks/backend (uplinkSecure.Dial, its *)
(* worker, the pump goroutine of the connection, virtualConn) and then     *)
(* copies both ways with the four goroutines of utils.Proxy.  The          *)
(* application sends data once it has the reply, as RFC 1928 has it.       *)
(*                                                                         *)
(* A chunk from the application is a number; a chunk from the target is a  *)
(* sequence of numbers, each as much as one Read of virtualConn returns.   *)
(* A send on an unbuffered channel and its receive are one step.           *)
(***************************************************************************)
EXTENDS TunnelTx

VARIABLES
    app,       \* the application's connection: open or closed
    appSent,   \* chunks read from it
    appGot,    \* what was written to it
    hpc,       \* handleConn and HandleRequest: greeting, request, direct, dial,
               \* wait, refused, stuck, open, proxy, closing, txclose, done
    watch,     \* the connection's handler is in mapWaitConn
    wk, wkMsg, \* the worker: none, read, state or data with the message, ended
    pump, pumpDat,  \* Dial's goroutine: none, select, write, stuck, ended
    vclosed,   \* virtualConn.closed
    bufRead,   \* virtualConn.bufRead
    appR, appDat,   \* Proxy's reader of the application: none, read, send, ended
    upR, upDat,     \* Proxy's reader of the virtual connection: none, read, wait, send, ended
    upW, upWDat,    \* Proxy's writer to it: none, select, write, ended
    chUp, chDown, chErr   \* Proxy's channels; of chErr the number of errors

appVars == <<app, appSent, appGot>>
dialVars == <<watch, wk, wkMsg, pump, pumpDat, vclosed, bufRead>>
copyVars == <<appR, appDat, upR, upDat, upW, upWDat, chUp, chDown, chErr>>
backendVars == <<appVars, hpc, dialVars, copyVars>>

BackendInit ==
    /\ app = "open" /\ appSent = 0 /\ appGot = << >>
    /\ hpc = "greeting"
    /\ watch = FALSE
    /\ wk = "none" /\ wkMsg = << >>
    /\ pump = "none" /\ pumpDat = 0
    /\ vclosed = FALSE /\ bufRead = << >>
    /\ appR = "none" /\ appDat = 0
    /\ upR = "none" /\ upDat = 0
    /\ upW = "none" /\ upWDat = 0
    /\ chUp = << >> /\ chDown = << >> /\ chErr = 0

-----------------------------------------------------------------------------
(* handleConn up to Dial *)

\* Not SOCKS5, a command other than connect, or the application has gone.
GiveUp == hpc' = "done" /\ app' = "closed"

Handshake ==
    /\ hpc = "greeting"
    /\ \/ app = "open" /\ hpc' = "request" /\ UNCHANGED app
       \/ GiveUp
    /\ UNCHANGED <<txVars, appSent, appGot, dialVars, copyVars>>

\* The request is read and its backend made, with its worker; a destination in
\* the local network takes the direct backend and no tunnel.
HandleRequest ==
    /\ hpc = "request"
    /\ \/ app = "open" /\ hpc' = "dial" /\ wk' = "read" /\ UNCHANGED app
       \/ app = "open" /\ hpc' = "direct" /\ UNCHANGED <<app, wk>>
       \/ GiveUp /\ UNCHANGED wk
    /\ UNCHANGED <<txVars, appSent, appGot, watch, wkMsg, pump, pumpDat, vclosed,
                   bufRead, copyVars>>

-----------------------------------------------------------------------------
(* uplinkSecure.Dial *)

\* The handler is stored, then the request is written.  When the transport has ended
\* h1.Client.Write refuses it or, if Connect has failed or the relay ends after the
\* look at closed, waits on chW for ever; the 30 s begin behind it.
DialRequest ==
    /\ hpc = "dial"
    /\ watch' = TRUE
    /\ \/ /\ tx = "up"
          /\ c2s' = Append(c2s, Msg("dial", << >>))
          /\ hpc' = "wait"
       \/ /\ tx # "up"
          /\ hpc' \in {"refused", "stuck"}
          /\ UNCHANGED c2s
    /\ UNCHANGED <<ends, tx, s2c, appVars, wk, wkMsg, pump, pumpDat, vclosed, bufRead,
                   copyVars>>

\* 30 s without an answer; the handler stays in mapWaitConn.
DialTimeout ==
    /\ hpc = "wait"
    /\ hpc' = "refused"
    /\ UNCHANGED <<txVars, appVars, dialVars, copyVars>>

\* The worker's handler hands the state to Dial: the pump is started or Dial fails.
DialAnswer ==
    /\ wk = "state" /\ hpc = "wait"
    /\ wk' = "read"
    /\ \/ wkMsg = <<"open">> /\ hpc' = "open" /\ pump' = "select"
       \/ wkMsg # <<"open">> /\ hpc' = "refused" /\ UNCHANGED pump
    /\ UNCHANGED <<txVars, appVars, watch, wkMsg, pumpDat, vclosed, bufRead, copyVars>>

\* The worker reads a message and looks for its connection's handler, in which
\* it then waits for Dial or for a Read of the connection.
WorkerRecv ==
    /\ wk = "read"
    /\ s2c # << >>
    /\ s2c' = Tail(s2c)
    /\ \/ watch /\ wk' = Head(s2c).kind /\ wkMsg' = Head(s2c).dat
       \/ ~ watch /\ UNCHANGED <<wk, wkMsg>>
    /\ UNCHANGED <<ends, tx, c2s, appVars, hpc, watch, pump, pumpDat, vclosed, bufRead,
                   copyVars>>

WorkerEnds ==
    /\ wk = "read"
    /\ tx # "up"
    /\ wk' = "ended"
    /\ UNCHANGED <<txVars, appVars, hpc, watch, wkMsg, pump, pumpDat, vclosed,
                   bufRead, copyVars>>

\* The pump's deferred calls.
PumpReturns == pump' = "ended" /\ vclosed' = TRUE /\ watch' = FALSE

\* The pump writes a chunk to the transport; when that has ended the chunk is lost,
\* or refused and the pump returns, or the write waits on chW for ever.
PumpWrite ==
    /\ pump = "write"
    /\ \/ /\ tx = "up" /\ Len(c2s) < TxCap
          /\ c2s' = Append(c2s, Msg("data", <<pumpDat>>))
          /\ pump' = "select"
          /\ UNCHANGED <<vclosed, watch>>
       \/ tx # "up" /\ pump' \in {"select", "stuck"} /\ UNCHANGED <<c2s, vclosed, watch>>
       \/ tx # "up" /\ PumpReturns /\ UNCHANGED c2s
    /\ UNCHANGED <<ends, tx, s2c, appVars, hpc, wk, wkMsg, pumpDat, bufRead, copyVars>>

-----------------------------------------------------------------------------
(* HandleRequest around Proxy *)

Refused ==
    /\ hpc = "refused"
    /\ hpc' = "txclose"
    /\ UNCHANGED <<txVars, appVars, dialVars, copyVars>>

\* The reply to the application; Proxy and its goroutines start unless it cannot be
\* written.
Established ==
    /\ hpc = "open"
    /\ \/ hpc' = "proxy" /\ appR' = "read" /\ upR' = "read" /\ upW' = "select"
       \/ app = "closed" /\ hpc' = "closing" /\ UNCHANGED <<appR, upR, upW>>
    /\ UNCHANGED <<txVars, appVars, dialVars, appDat, upDat, upWDat, chUp, chDown, chErr>>

\* The deferred upConn.Close waits for the pump to take its nil.
CloseVirtual ==
    /\ hpc = "closing" /\ pump = "select"
    /\ PumpReturns
    /\ hpc' = "txclose"
    /\ UNCHANGED <<txVars, appVars, wk, wkMsg, pumpDat, bufRead, copyVars>>

\* The deferred linker.Close, which h1 tells the server and h1pool does not, and
\* handleConn closes the application's connection.
CloseTx ==
    /\ hpc = "txclose"
    /\ hpc' = "done"
    /\ tx' \in IF tx = "up" THEN {"closed", "broken"} ELSE {tx}
    /\ app' = "closed"
    /\ UNCHANGED <<ends, c2s, s2c, appSent, appGot, dialVars, copyVars>>

-----------------------------------------------------------------------------
(* utils.Proxy *)

\* Mutated form: the reader does not return after its error.
AppReadNoReturn ==
    /\ appR = "read"
    /\ \/ /\ app = "open" /\ appSent < MaxUp
          /\ appSent' = appSent + 1
          /\ appDat' = appSent + 1
          /\ appR' = "send"
          /\ UNCHANGED chErr
       \/ /\ app = "closed"
          /\ chErr' = chErr + 1
          /\ UNCHANGED <<appSent, appDat, appR>>
    /\ UNCHANGED <<txVars, app, appGot, hpc, dialVars, upR, upDat, upW, upWDat,
                   chUp, chDown>>

\* Mutated form: the reader returns without a word.
AppReadSilent ==
    /\ appR = "read"
    /\ \/ /\ app = "open" /\ appSent < MaxUp
          /\ appSent' = appSent + 1
          /\ appDat' = appSent + 1
          /\ appR' = "send"
       \/ /\ app = "closed"
          /\ appR' = "ended"
          /\ UNCHANGED <<appSent, appDat>>
    /\ UNCHANGED <<txVars, app, appGot, hpc, dialVars, upR, upDat, upW, upWDat,
                   chUp, chDown, chErr>>

\* The reader of the application: a chunk, or the end.
AppRead ==
    /\ appR = "read"
    /\ \/ /\ app = "open" /\ appSent < MaxUp
          /\ appSent' = appSent + 1
          /\ appDat' = appSent + 1
          /\ appR' = "send"
          /\ UNCHANGED chErr
       \/ /\ app = "closed"
          /\ appR' = "ended" /\ chErr' = chErr + 1
          /\ UNCHANGED <<appSent, appDat>>
    /\ UNCHANGED <<txVars, app, appGot, hpc, dialVars, upR, upDat, upW, upWDat,
                   chUp, chDown>>

AppQueue ==
    /\ appR = "send"
    /\ Len(chUp) < ChCap
    /\ chUp' = Append(chUp, appDat)
    /\ appR' = "read"
    /\ UNCHANGED <<txVars, appVars, hpc, dialVars, appDat, upR, upDat, upW, upWDat,
                   chDown, chErr>>

\* The writer takes a chunk; virtualConn.Write refuses it when closed.
UpTake ==
    /\ upW = "select"
    /\ chUp # << >>
    /\ chUp' = Tail(chUp)
    /\ \/ ~ vclosed /\ upW' = "write" /\ upWDat' = Head(chUp) /\ UNCHANGED chErr
       \/ vclosed /\ upW' = "ended" /\ chErr' = chErr + 1 /\ UNCHANGED upWDat
    /\ UNCHANGED <<txVars, appVars, hpc, dialVars, appR, appDat, upR, upDat, chDown>>

\* chW <- dat meets the pump.
UpToPump ==
    /\ upW = "write" /\ pump = "select"
    /\ upW' = "select"
    /\ pump' = "write" /\ pumpDat' = upWDat
    /\ UNCHANGED <<txVars, appVars, hpc, watch, wk, wkMsg, vclosed, bufRead, appR,
                   appDat, upR, upDat, upWDat, chUp, chDown, chErr>>

\* x.Done, once Proxy has returned.
UpCancelled ==
    /\ upW = "select" /\ hpc # "proxy"
    /\ upW' = "ended"
    /\ UNCHANGED <<txVars, appVars, hpc, dialVars, appR, appDat, upR, upDat, upWDat,
                   chUp, chDown, chErr>>

\* Mutated form: what does not fit into the slice is dropped.
VirtualReadChunkCut ==
    /\ upR = "wait" /\ wk = "data"
    /\ wk' = "read"
    /\ upDat' = Head(wkMsg)
    /\ upR' = "send"
    /\ UNCHANGED <<txVars, appVars, hpc, watch, wkMsg, pump, pumpDat, vclosed, bufRead,
                   appR, appDat, upW, upWDat, chUp, chDown, chErr>>

\* virtualConn.Read meets the worker: it returns what fits into the slice and
\* leaves the rest in bufRead.
VirtualReadChunk ==
    /\ upR = "wait" /\ wk = "data"
    /\ wk' = "read"
    /\ upDat' = Head(wkMsg) /\ bufRead' = Tail(wkMsg)
    /\ upR' = "send"
    /\ UNCHANGED <<txVars, appVars, hpc, watch, wkMsg, pump, pumpDat, vclosed, appR,
                   appDat, upW, upWDat, chUp, chDown, chErr>>

\* Its start: what is left of a chunk, the end if closed, else it waits for a
\* chunk, whatever becomes of the connection.
VirtualRead ==
    /\ upR = "read"
    /\ \/ /\ bufRead # << >>
          /\ upDat' = Head(bufRead) /\ bufRead' = Tail(bufRead)
          /\ upR' = "send"
          /\ UNCHANGED chErr
       \/ /\ bufRead = << >> /\ vclosed
          /\ upR' = "ended" /\ chErr' = chErr + 1
          /\ UNCHANGED <<upDat, bufRead>>
       \/ /\ bufRead = << >> /\ ~ vclosed
          /\ upR' = "wait"
          /\ UNCHANGED <<upDat, bufRead, chErr>>
    /\ UNCHANGED <<txVars, appVars, hpc, watch, wk, wkMsg, pump, pumpDat, vclosed,
                   appR, appDat, upW, upWDat, chUp, chDown>>

VirtualQueue ==
    /\ upR = "send"
    /\ Len(chDown) < ChCap
    /\ chDown' = Append(chDown, upDat)
    /\ upR' = "read"
    /\ UNCHANGED <<txVars, appVars, hpc, dialVars, appR, appDat, upDat, upW, upWDat,
                   chUp, chErr>>

\* Mutated form: one goroutine writes to both sides.
ProxyDownShared ==
    /\ hpc = "proxy" /\ upW = "select"
    /\ chDown # << >>
    /\ chDown' = Tail(chDown)
    /\ appGot' = Append(appGot, Head(chDown))
    /\ UNCHANGED <<txVars, app, appSent, hpc, dialVars, appR, appDat, upR, upDat, upW,
                   upWDat, chUp, chErr>>

\* Proxy's own loop: a chunk for the application, or the write fails.
ProxyDown ==
    /\ hpc = "proxy"
    /\ chDown # << >>
    /\ chDown' = Tail(chDown)
    /\ \/ appGot' = Append(appGot, Head(chDown)) /\ UNCHANGED hpc
       \/ app = "closed" /\ hpc' = "closing" /\ UNCHANGED appGot
    /\ UNCHANGED <<txVars, app, appSent, dialVars, appR, appDat, upR, upDat, upW,
                   upWDat, chUp, chErr>>

\* An error of any of the goroutines ends Proxy, whatever is still in chDown.
ProxyErr ==
    /\ hpc = "proxy"
    /\ chErr > 0
    /\ chErr' = chErr - 1
    /\ hpc' = "closing"
    /\ UNCHANGED <<txVars, appVars, dialVars, appR, appDat, upR, upDat, upW, upWDat,
                   chUp, chDown>>

\* The application closes its connection.
AppCloses ==
    /\ "app" \in ends /\ app = "open"
    /\ app' = "closed"
    /\ UNCHANGED <<txVars, appSent, appGot, hpc, dialVars, copyVars>>

RequestStep == Refused \/ Established \/ CloseVirtual \/ CloseTx \/ ProxyDown \/ ProxyErr
WorkerStep == WorkerRecv \/ DialAnswer
CopyStep == AppQueue \/ UpTake \/ UpToPump \/ UpCancelled
VirtualStep == VirtualRead \/ VirtualReadChunk \/ VirtualQueue
BackendStep ==
    \/ RequestStep \/ WorkerStep \/ CopyStep \/ VirtualStep \/ PumpWrite
    \/ Handshake \/ HandleRequest \/ DialRequest \/ DialTimeout \/ WorkerEnds \/ AppRead \/ AppCloses
=============================================================================
