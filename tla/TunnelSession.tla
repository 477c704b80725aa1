---------------------------- MODULE TunnelSession ----------------------------
(***************************************************************************)
(* socks/tunnel/server_handler.go: the session at the far end of a tunnel. *)
(* It reads a dial request, connects to the target and relays with three   *)
(* goroutines: a reader of the target, a reader of the client and the loop *)
(* of handleDialConn.  No client sends a connection state "close", so that *)
(* branch of the loop has no step here.                                    *)
(***************************************************************************)
EXTENDS TunnelTx

CONSTANT Slices   \* a chunk of the target is read by the client in this many Reads

ASSUME SessionAssumption == Slices \in Nat \ {0}

VARIABLES
    target,    \* the target's connection: none, open, closed
    tgtSent,   \* chunks read from it
    tgtGot,    \* what was written to it
    sess,      \* handle and handleDialConn: read, dial, opening, erring, loop,
               \* write, closing, ended
    sessDat,   \* the chunk the loop writes to the client
    tgtR, tgtDat,   \* the reader of the target: none, read, send, ended
    cliR, cliDat,   \* the reader of the client: none, read, send, ended
    sErr       \* errors in chErr

targetVars == <<target, tgtSent, tgtGot>>
readerVars == <<tgtR, tgtDat, cliR, cliDat>>
sessionVars == <<targetVars, sess, sessDat, readerVars, sErr>>

SessionInit ==
    /\ target = "none" /\ tgtSent = 0 /\ tgtGot = << >>
    /\ sess = "read" /\ sessDat = << >>
    /\ tgtR = "none" /\ tgtDat = << >>
    /\ cliR = "none" /\ cliDat = 0
    /\ sErr = 0

\* The first message; a transport that fails first ends the session.
SessionRequest ==
    /\ sess = "read"
    /\ \/ c2s # << >> /\ c2s' = Tail(c2s) /\ sess' = "dial"
       \/ tx = "broken" /\ sess' = "closing" /\ UNCHANGED c2s
    /\ UNCHANGED <<ends, tx, s2c, targetVars, sessDat, readerVars, sErr>>

\* The address is refused or not resolved (no answer is sent), the target does
\* not accept, or it does.
SessionDial ==
    /\ sess = "dial"
    /\ \/ sess' \in {"closing", "erring"} /\ UNCHANGED target
       \/ sess' = "opening" /\ target' = "open"
    /\ UNCHANGED <<txVars, tgtSent, tgtGot, sessDat, readerVars, sErr>>

\* s1.Writer.Write accepts a message: it is on its way, or lost with the transport.
ToClient(m) ==
    \/ tx = "up" /\ Len(s2c) < TxCap /\ s2c' = Append(s2c, m)
    \/ tx # "up" /\ UNCHANGED s2c

\* The state is written and the readers start.
SessionAnswer ==
    /\ \/ sess = "opening" /\ ToClient(Msg("state", <<"open">>))
          /\ sess' = "loop" /\ tgtR' = "read" /\ cliR' = "read"
       \/ sess = "erring" /\ ToClient(Msg("state", <<"error">>))
          /\ sess' = "closing" /\ UNCHANGED <<tgtR, cliR>>
       \/ sess \in {"opening", "erring"} /\ tx = "broken"
          /\ sess' = "closing" /\ UNCHANGED <<s2c, tgtR, cliR>>
    /\ UNCHANGED <<ends, tx, c2s, targetVars, sessDat, tgtDat, cliDat, sErr>>

\* The reader of the target: a chunk of so many slices, or the end.
TargetRead ==
    /\ tgtR = "read"
    /\ \/ /\ target = "open" /\ tgtSent < MaxDown
          /\ tgtSent' = tgtSent + 1
          /\ tgtDat' = [i \in 1..Slices |-> tgtSent * Slices + i]
          /\ tgtR' = "send"
          /\ UNCHANGED sErr
       \/ /\ target = "closed"
          /\ tgtR' = "ended" /\ sErr' = sErr + 1
          /\ UNCHANGED <<tgtSent, tgtDat>>
    /\ UNCHANGED <<txVars, target, tgtGot, sess, sessDat, cliR, cliDat>>

\* Mutated form: a chunk the loop is not ready for is dropped.
ClientReadDropping ==
    /\ cliR = "read"
    /\ c2s # << >>
    /\ c2s' = Tail(c2s)
    /\ \/ sess = "loop" /\ cliDat' = Head(c2s).dat[1] /\ cliR' = "send"
       \/ sess # "loop" /\ UNCHANGED <<cliDat, cliR>>
    /\ UNCHANGED <<ends, tx, s2c, targetVars, sess, sessDat, tgtR, tgtDat, sErr>>

\* The reader of the client: the next chunk, or the end of the transport.
ClientRead ==
    /\ cliR = "read"
    /\ \/ /\ c2s # << >>
          /\ c2s' = Tail(c2s)
          /\ cliDat' = Head(c2s).dat[1] /\ cliR' = "send"
          /\ UNCHANGED sErr
       \/ /\ tx = "broken"
          /\ cliR' = "ended" /\ sErr' = sErr + 1
          /\ UNCHANGED <<c2s, cliDat>>
    /\ UNCHANGED <<ends, tx, s2c, targetVars, sess, sessDat, tgtR, tgtDat>>

\* The loop: data for the target, which may refuse it.
LoopUp ==
    /\ sess = "loop" /\ cliR = "send"
    /\ cliR' = "read"
    /\ \/ tgtGot' = Append(tgtGot, cliDat) /\ UNCHANGED sess
       \/ target = "closed" /\ sess' = "closing" /\ UNCHANGED tgtGot
    /\ UNCHANGED <<txVars, target, tgtSent, sessDat, tgtR, tgtDat, cliDat, sErr>>

\* Data for the client, written in the loop.
LoopDown ==
    /\ sess = "loop" /\ tgtR = "send"
    /\ tgtR' = "read"
    /\ sess' = "write" /\ sessDat' = tgtDat
    /\ UNCHANGED <<txVars, targetVars, tgtDat, cliR, cliDat, sErr>>

LoopWrite ==
    /\ sess = "write"
    /\ \/ ToClient(Msg("data", sessDat)) /\ sess' = "loop"
       \/ tx = "broken" /\ sess' = "closing" /\ UNCHANGED s2c
    /\ UNCHANGED <<ends, tx, c2s, targetVars, sessDat, readerVars, sErr>>

LoopErr ==
    /\ sess = "loop"
    /\ sErr > 0
    /\ sErr' = sErr - 1
    /\ sess' = "closing"
    /\ UNCHANGED <<txVars, targetVars, sessDat, readerVars>>

\* The deferred calls: the target's connection, then the transport.
SessionCloses ==
    /\ sess = "closing"
    /\ sess' = "ended"
    /\ target' = IF target = "open" THEN "closed" ELSE target
    /\ tx' = "broken"
    /\ UNCHANGED <<ends, c2s, s2c, tgtSent, tgtGot, sessDat, readerVars, sErr>>

\* The target closes its connection.
TargetCloses ==
    /\ "target" \in ends /\ target = "open"
    /\ target' = "closed"
    /\ UNCHANGED <<txVars, tgtSent, tgtGot, sess, sessDat, readerVars, sErr>>

LoopStep == LoopUp \/ LoopDown \/ LoopWrite \/ LoopErr \/ SessionCloses
SessionStep ==
    \/ SessionRequest \/ SessionDial \/ SessionAnswer \/ LoopStep
    \/ TargetRead \/ ClientRead \/ TargetCloses
=============================================================================
