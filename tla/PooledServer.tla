---------------------------- MODULE PooledServer ----------------------------
(***************************************************************************)
(* transport/h1pool/server.go: pooledServerHandler, one per trunk, with    *)
(* its reader goroutine and its reply channel; and the instances, one per  *)
(* divided client, each with the goroutine of instance.start and the       *)
(* goroutine of the session handler (socks/tunnel) that reads and writes   *)
(* through it.                                                             *)
(***************************************************************************)
EXTENDS TrunkNet

CONSTANTS ReplyCap,    \* 32: capacity of replyChannel.ch
          MaxReplies   \* bound: replies a session writes

ASSUME ReplyAssumption == ReplyCap \in Nat

VARIABLES
    serving,    \* the trunk's handler: none, on (its channel is in chansReply), off
    chReply,    \* the content of each trunk's reply channel
    createdAt,  \* the second in which a channel in chansReply was made, else 0
    rpc, held,  \* the reader: read, create or pong with the packet it holds, ended
    inMap,      \* the client ids in the instances map
    sel,        \* instance.start: none, starting, select, eosPick, eosSend, exited, done
    hnd,        \* the session: none, run, send, closing, signal, done
    rvia,       \* the reply channel the session or the select goroutine chose
    bufClosed,  \* instance.buf is closed
    replies,    \* replies written by each session
    fed,        \* history: the packets fed to an instance's buffer, with their trunk
    overrun     \* history: the instances whose buffer had no room for a packet

chanVars == <<serving, createdAt>>
serverVars == <<chanVars, chReply, rpc, held, inMap, sel, hnd, rvia, bufClosed,
                replies, fed, overrun>>
instVars == <<sel, hnd, rvia, bufClosed, replies>>

ServerInit ==
    /\ serving = [t \in Trunks |-> "none"]
    /\ chReply = [t \in Trunks |-> << >>]
    /\ createdAt = [t \in Trunks |-> 0]
    /\ rpc = [t \in Trunks |-> "read"]
    /\ held = [t \in Trunks |-> Packet("none", NoClient, 0)]
    /\ inMap = {}
    /\ sel = [d \in Clients |-> "none"]
    /\ hnd = [d \in Clients |-> "none"]
    /\ rvia = [d \in Clients |-> 0]
    /\ bufClosed = {}
    /\ replies = [d \in Clients |-> 0]
    /\ fed = [d \in Clients |-> << >>]
    /\ overrun = {}

-----------------------------------------------------------------------------
(* The handler of a trunk *)

\* handleServerConn has authenticated the request and answered it; the handler
\* registers the reply channel, perhaps in the second of the one before.
Accept(t) ==
    LET last == Max({createdAt[s] : s \in Trunks}) IN
    /\ trunk[t] = "connecting"
    /\ conn[t] = "none"
    /\ conn' = [conn EXCEPT ![t] = "open"]
    /\ serving' = [serving EXCEPT ![t] = "on"]
    /\ \E s \in {Max({last, 1}), last + 1} : createdAt' = [createdAt EXCEPT ![t] = s]
    /\ UNCHANGED <<trunk, up, down, chReply, rpc, held, inMap, instVars, fed, overrun>>

\* instance.Close: the send on chCloseByClient succeeds only while
\* instance.start waits in its select.
CloseInstance(d) ==
    /\ sel' = IF sel[d] = "select" THEN [sel EXCEPT ![d] = "exited"] ELSE sel
    /\ bufClosed' = bufClosed \cup {d}

\* instance.writePacket: a closed buffer refuses, and so does one that would grow
\* beyond its 8 MB for this packet, though not for a smaller one that follows.  What
\* the session has read of the buffer is left open.  The error is not looked at.
Feed(t, p) ==
    \/ /\ p.cid \notin bufClosed
       /\ fed' = [fed EXCEPT ![p.cid] = Append(@, [n |-> p.serial, t |-> t])]
       /\ UNCHANGED overrun
    \/ /\ p.cid \in bufClosed
       /\ UNCHANGED <<fed, overrun>>
    \/ /\ p.cid \notin bufClosed
       /\ fed[p.cid] # << >>
       /\ overrun' = overrun \cup {p.cid}
       /\ UNCHANGED fed

\* Mutated form: any packet of an unknown client creates its instance.
RecvDataAnySerial(t, p) ==
    /\ rpc' = [rpc EXCEPT ![t] = IF p.cid \in inMap THEN "read" ELSE "create"]
    /\ held' = [held EXCEPT ![t] = p]
    /\ inMap' = inMap \cup {p.cid}
    /\ IF p.cid \in inMap
       THEN Feed(t, p) /\ UNCHANGED instVars
       ELSE /\ sel' = [sel EXCEPT ![p.cid] = "starting"]
            /\ UNCHANGED <<hnd, rvia, bufClosed, replies, fed, overrun>>

\* Mutated form: the packet that creates an instance is also fed to it at once.
RecvDataFedAtOnce(t, p) ==
    \/ /\ p.cid \in inMap
       /\ Feed(t, p)
       /\ UNCHANGED <<rpc, held, inMap, instVars>>
    \/ /\ p.cid \notin inMap /\ p.serial = 0
       /\ inMap' = inMap \cup {p.cid}
       /\ sel' = [sel EXCEPT ![p.cid] = "starting"]
       /\ rpc' = [rpc EXCEPT ![t] = "create"]
       /\ held' = [held EXCEPT ![t] = p]
       /\ Feed(t, p)
       /\ UNCHANGED <<hnd, rvia, bufClosed, replies>>
    \/ /\ p.cid \notin inMap /\ p.serial # 0
       /\ UNCHANGED <<rpc, held, inMap, instVars, fed, overrun>>

\* A data packet: fed to its instance; creates it if it is the first; else lost.
\* The new instance is in the map before its first packet is fed.
RecvData(t, p) ==
    \/ /\ p.cid \in inMap
       /\ Feed(t, p)
       /\ UNCHANGED <<rpc, held, inMap, instVars>>
    \/ /\ p.cid \notin inMap /\ p.serial = 0
       /\ inMap' = inMap \cup {p.cid}
       /\ sel' = [sel EXCEPT ![p.cid] = "starting"]
       /\ rpc' = [rpc EXCEPT ![t] = "create"]
       /\ held' = [held EXCEPT ![t] = p]
       /\ UNCHANGED <<hnd, rvia, bufClosed, replies, fed, overrun>>
    \/ /\ p.cid \notin inMap /\ p.serial # 0
       /\ UNCHANGED <<rpc, held, inMap, instVars, fed, overrun>>

\* The reader takes the next packet from the trunk.
ServerRecv(t) ==
    /\ serving[t] # "none"
    /\ rpc[t] = "read"
    /\ up[t] # << >>
    /\ up' = [up EXCEPT ![t] = Tail(@)]
    /\ LET p == Head(up[t]) IN
       \/ /\ p.op = "ping"
          /\ rpc' = [rpc EXCEPT ![t] = "pong"]
          /\ UNCHANGED <<held, inMap, instVars, fed, overrun>>
       \/ /\ p.op = "eos" /\ p.cid \in inMap
          /\ CloseInstance(p.cid)
          /\ UNCHANGED <<rpc, held, inMap, hnd, rvia, replies, fed, overrun>>
       \/ /\ p.op = "eos" /\ p.cid \notin inMap
          /\ UNCHANGED <<rpc, held, inMap, instVars, fed, overrun>>
       \/ p.op = "data" /\ RecvData(t, p)
    /\ UNCHANGED <<trunk, conn, down, chanVars, chReply>>

\* Mutated form: the packet that creates an instance is not fed to it.
ServerFeedFirstSkipped(t) ==
    /\ rpc[t] = "create"
    /\ rpc' = [rpc EXCEPT ![t] = "read"]
    /\ UNCHANGED <<netVars, chanVars, chReply, held, inMap, instVars, fed, overrun>>

\* inst.writePacket after instances.Store.
ServerFeedFirst(t) ==
    /\ rpc[t] = "create"
    /\ Feed(t, held[t])
    /\ rpc' = [rpc EXCEPT ![t] = "read"]
    /\ UNCHANGED <<netVars, chanVars, chReply, held, inMap, instVars>>

\* chReply.ch <- pong waits for room.
ServerPong(t) ==
    /\ rpc[t] = "pong"
    /\ Len(chReply[t]) < ReplyCap
    /\ chReply' = [chReply EXCEPT ![t] = Append(@, Packet("pong", NoClient, 0))]
    /\ rpc' = [rpc EXCEPT ![t] = "read"]
    /\ UNCHANGED <<netVars, chanVars, held, inMap, instVars, fed, overrun>>

\* readPacket fails, and what is still on its way is lost: the reader cancels the
\* handler's context.
ServerReadEnds(t) ==
    /\ rpc[t] = "read"
    /\ conn[t] = "broken"
    /\ up' = [up EXCEPT ![t] = << >>]
    /\ rpc' = [rpc EXCEPT ![t] = "ended"]
    /\ UNCHANGED <<trunk, conn, down, chanVars, chReply, held, inMap, instVars, fed, overrun>>

\* Mutated form: the loop that writes replies is also the one that reads.
ServerReplyWhenReading(t) ==
    /\ serving[t] = "on"
    /\ rpc[t] = "read"
    /\ conn[t] = "open"
    /\ chReply[t] # << >>
    /\ Len(down[t]) < WireCap
    /\ down' = [down EXCEPT ![t] = Append(@, Wire(Head(chReply[t])))]
    /\ chReply' = [chReply EXCEPT ![t] = Tail(@)]
    /\ UNCHANGED <<trunk, conn, up, chanVars, rpc, held, inMap, instVars, fed, overrun>>

\* The handler's loop writes the next reply to the trunk.  The write has no
\* deadline: it waits while the client does not read what is on its way.
ServerReply(t) ==
    /\ serving[t] = "on"
    /\ conn[t] = "open"
    /\ chReply[t] # << >>
    /\ Len(down[t]) < WireCap
    /\ down' = [down EXCEPT ![t] = Append(@, Wire(Head(chReply[t])))]
    /\ chReply' = [chReply EXCEPT ![t] = Tail(@)]
    /\ UNCHANGED <<trunk, conn, up, chanVars, rpc, held, inMap, instVars, fed, overrun>>

\* Mutated form: a reply that cannot be written does not end the handler.
ServerExitOnDone(t) ==
    /\ serving[t] = "on"
    /\ rpc[t] = "ended"
    /\ serving' = [serving EXCEPT ![t] = "off"]
    /\ createdAt' = [createdAt EXCEPT ![t] = 0]
    /\ UNCHANGED <<netVars, chReply, rpc, held, inMap, instVars, fed, overrun>>

\* The handler returns, on x.Done or because a reply cannot be written; its
\* channel leaves chansReply with what is in it.  The deferred conn.Close finds
\* the connection broken.
ServerExit(t) ==
    /\ serving[t] = "on"
    /\ rpc[t] = "ended" \/ (conn[t] = "broken" /\ chReply[t] # << >>)
    /\ serving' = [serving EXCEPT ![t] = "off"]
    /\ createdAt' = [createdAt EXCEPT ![t] = 0]
    /\ UNCHANGED <<netVars, chReply, rpc, held, inMap, instVars, fed, overrun>>

-----------------------------------------------------------------------------
(* An instance *)

\* instance.start launches the session and enters its select.
InstanceLaunch(d) ==
    /\ sel[d] = "starting" /\ hnd[d] = "none"
    /\ hnd' = [hnd EXCEPT ![d] = "run"]
    /\ UNCHANGED <<netVars, chanVars, chReply, rpc, held, inMap, sel, rvia,
                   bufClosed, replies, fed, overrun>>

InstanceSelect(d) ==
    /\ sel[d] = "starting" /\ hnd[d] # "none"
    /\ sel' = [sel EXCEPT ![d] = "select"]
    /\ UNCHANGED <<netVars, chanVars, chReply, rpc, held, inMap, hnd, rvia,
                   bufClosed, replies, fed, overrun>>

\* getReplyChannel: the latest channel in chansReply; the first that is met when
\* two are of one second.
Channels ==
    LET on == {t \in Trunks : serving[t] = "on"}
    IN  {t \in on : \A s \in on : createdAt[s] <= createdAt[t]}

\* instance.Write; the session ends when there is no channel.
SessionWrite(d) ==
    /\ hnd[d] = "run"
    /\ replies[d] < MaxReplies
    /\ \/ /\ Channels # {}
          /\ \E t \in Channels : rvia' = [rvia EXCEPT ![d] = t]
          /\ hnd' = [hnd EXCEPT ![d] = "send"]
       \/ /\ Channels = {}
          /\ hnd' = [hnd EXCEPT ![d] = "closing"]
          /\ UNCHANGED rvia
    /\ UNCHANGED <<netVars, chanVars, chReply, rpc, held, inMap, sel, bufClosed,
                   replies, fed, overrun>>

\* chReply.ch <- p waits for room, in a channel that may have been given up.
\* (Replies are told apart by a number the code does not send.)
SessionSend(d) ==
    /\ hnd[d] = "send"
    /\ Len(chReply[rvia[d]]) < ReplyCap
    /\ chReply' = [chReply EXCEPT ![rvia[d]] = Append(@, Packet("data", d, replies[d]))]
    /\ replies' = [replies EXCEPT ![d] = @ + 1]
    /\ hnd' = [hnd EXCEPT ![d] = "run"]
    /\ rvia' = [rvia EXCEPT ![d] = 0]
    /\ UNCHANGED <<netVars, chanVars, rpc, held, inMap, sel, bufClosed, fed, overrun>>

\* The session is over for reasons of its own.
SessionEnds(d) ==
    /\ hnd[d] = "run"
    /\ hnd' = [hnd EXCEPT ![d] = "closing"]
    /\ UNCHANGED <<netVars, chanVars, chReply, rpc, held, inMap, sel, rvia,
                   bufClosed, replies, fed, overrun>>

\* Its deferred conn.Close, where conn is the instance.
SessionCloses(d) ==
    /\ hnd[d] = "closing"
    /\ CloseInstance(d)
    /\ hnd' = [hnd EXCEPT ![d] = "signal"]
    /\ UNCHANGED <<netVars, chanVars, chReply, rpc, held, inMap, rvia, replies, fed, overrun>>

\* chCloseByServer <- 1 meets the select.
SessionSignals(d) ==
    /\ hnd[d] = "signal" /\ sel[d] = "select"
    /\ hnd' = [hnd EXCEPT ![d] = "done"]
    /\ sel' = [sel EXCEPT ![d] = "eosPick"]
    /\ UNCHANGED <<netVars, chanVars, chReply, rpc, held, inMap, rvia, bufClosed,
                   replies, fed, overrun>>

InstanceEosPick(d) ==
    /\ sel[d] = "eosPick"
    /\ \/ /\ Channels # {}
          /\ \E t \in Channels : rvia' = [rvia EXCEPT ![d] = t]
          /\ sel' = [sel EXCEPT ![d] = "eosSend"]
       \/ /\ Channels = {}
          /\ sel' = [sel EXCEPT ![d] = "exited"]
          /\ UNCHANGED rvia
    /\ UNCHANGED <<netVars, chanVars, chReply, rpc, held, inMap, hnd, bufClosed,
                   replies, fed, overrun>>

InstanceEosSend(d) ==
    /\ sel[d] = "eosSend"
    /\ Len(chReply[rvia[d]]) < ReplyCap
    /\ chReply' = [chReply EXCEPT ![rvia[d]] = Append(@, Packet("eos", d, 0))]
    /\ sel' = [sel EXCEPT ![d] = "exited"]
    /\ rvia' = [rvia EXCEPT ![d] = 0]
    /\ UNCHANGED <<netVars, chanVars, rpc, held, inMap, hnd, bufClosed,
                   replies, fed, overrun>>

\* The deferred instances.Delete, or instancesCleaner, whichever comes first.
InstanceDelete(d) ==
    /\ sel[d] = "exited"
    /\ sel' = [sel EXCEPT ![d] = "done"]
    /\ inMap' = inMap \ {d}
    /\ UNCHANGED <<netVars, chanVars, chReply, rpc, held, hnd, rvia, bufClosed,
                   replies, fed, overrun>>

ServerStep ==
    \/ \E t \in Trunks :
         \/ Accept(t) \/ ServerRecv(t) \/ ServerFeedFirst(t) \/ ServerPong(t)
         \/ ServerReadEnds(t) \/ ServerReply(t) \/ ServerExit(t)
    \/ \E d \in Clients :
         \/ InstanceLaunch(d) \/ InstanceSelect(d) \/ SessionWrite(d)
         \/ SessionSend(d) \/ SessionEnds(d) \/ SessionCloses(d)
         \/ SessionSignals(d) \/ InstanceEosPick(d) \/ InstanceEosSend(d)
         \/ InstanceDelete(d)
=============================================================================
