---------------------------- MODULE TunnelProofs ----------------------------
(***************************************************************************)
(* Proofs about Tunnel, for any capacities, any number of chunks and of    *)
(* slices, and any set of endings.                                         *)
(*                                                                         *)
(* What a goroutine or a channel holds is placed by counting what is ahead *)
(* of it: the chunks the target was given, or the slices the application   *)
(* was given.  The counts tie in from both ends, and each tie is dropped   *)
(* when the end of the tunnel has cut the stream there for good.  With     *)
(* that, each direction is a ByteStream once nothing on its way is ahead   *)
(* of what was sent, and the end of a request follows from who waits for   *)
(* whom.                                                                   *)
(***************************************************************************)
EXTENDS Tunnel, SequenceTheorems, TLAPS

\* 1 or 0: a goroutine that holds something, or not.
Holds(b) == IF b THEN 1 ELSE 0
ReaderHolds == Holds(cliR = "send")
PumpHolds == Holds(pump = "write")
WriterHolds == Holds(upW = "write")
AppHolds == Holds(appR = "send")
ReadHolds == Holds(upR = "send")
WorkerHolds == Holds(wk = "data")
LoopHolds == Holds(sess = "write")
TargetHolds == Holds(tgtR = "send")

\* The k-th chunk of the target, from 0, as its slices.
Chunk(k) == [i \in 1..Slices |-> k * Slices + i]

DialMsg == Msg("dial", << >>)
UpMsg == {Msg("data", <<n>>) : n \in Up}
OpenMsg == Msg("state", <<"open">>)
ErrorMsg == Msg("state", <<"error">>)
DownMsg == {Msg("data", Chunk(k)) : k \in 0..MaxDown - 1}
Chunks == {Chunk(k) : k \in 0..MaxDown - 1}

-----------------------------------------------------------------------------
(* Shapes, with what each holder may hold *)
AppTypes ==
    /\ app \in {"open", "closed"} /\ appSent \in 0..MaxUp
    /\ appR \in {"none", "read", "send", "ended"} /\ appDat \in Up \cup {0}
    /\ appR = "send" => appDat \in Up
    /\ chUp \in Seq(Up) /\ Len(chUp) <= ChCap
    /\ upW \in {"none", "select", "write", "ended"} /\ upWDat \in Up \cup {0}
    /\ upW = "write" => upWDat \in Up
    /\ pump \in {"none", "select", "write", "stuck", "ended"} /\ pumpDat \in Up \cup {0}
    /\ pump = "write" => pumpDat \in Up

WireTypes ==
    /\ tx \in {"up", "closed", "broken"}
    /\ c2s \in Seq(UpMsg \cup {DialMsg}) /\ Len(c2s) <= TxCap
    /\ s2c \in Seq(DownMsg \cup {OpenMsg, ErrorMsg}) /\ Len(s2c) <= TxCap
    /\ sess \in {"read", "dial", "opening", "erring", "loop", "write", "closing", "ended"}
    /\ sess = "write" => sessDat \in Chunks
    /\ cliR \in {"none", "read", "send", "ended"} /\ cliDat \in Up \cup {0}
    /\ cliR = "send" => cliDat \in Up
    /\ target \in {"none", "open", "closed"}
    /\ tgtSent \in 0..MaxDown /\ tgtGot \in Seq(Up)
    /\ tgtR \in {"none", "read", "send", "ended"}
    /\ tgtR = "send" => tgtDat \in Chunks

DownTypes ==
    /\ hpc \in {"greeting", "request", "direct", "dial", "wait", "refused", "stuck",
                "open", "proxy", "closing", "txclose", "done"}
    /\ watch \in BOOLEAN /\ vclosed \in BOOLEAN
    /\ wk \in {"none", "read", "state", "data", "ended"}
    /\ wk = "data" => wkMsg \in Chunks
    /\ bufRead \in Seq(Down)
    /\ upR \in {"none", "read", "wait", "send", "ended"}
    /\ upR = "send" => upDat \in Down
    /\ upR = "wait" => bufRead = << >>
    /\ chDown \in Seq(Down) /\ Len(chDown) <= ChCap
    /\ appGot \in Seq(Down)

\* A goroutine reports an error when it ends.
Errors ==
    /\ chErr \in Nat /\ sErr \in Nat
    /\ chErr <= Holds(appR = "ended") + Holds(upR = "ended") + Holds(upW = "ended")
    /\ sErr <= Holds(tgtR = "ended") + Holds(cliR = "ended")

-----------------------------------------------------------------------------
(* The opening of the tunnel *)

\* The session relays, or has relayed.
Opened == cliR # "none"

\* The request has not been written.
Undialled == hpc \in {"greeting", "request", "direct", "dial"}

Opening ==
    /\ Undialled => /\ c2s = << >> /\ s2c = << >> /\ ~ watch /\ ~ Opened
                    /\ wk \notin {"state", "data"} /\ sess \in {"read", "closing", "ended"}
    /\ Undialled \/ hpc = "wait" => pump = "none"
    /\ hpc \notin {"proxy", "closing", "txclose", "done"} =>
           appR = "none" /\ upR = "none" /\ upW = "none"
    /\ ~ Opened => /\ pump = "none" /\ hpc \notin {"open", "proxy", "closing"}
                   /\ appR = "none" /\ upR = "none" /\ upW = "none" /\ tgtR = "none"
                   /\ appSent = 0 /\ tgtSent = 0 /\ tgtGot = << >> /\ appGot = << >>
                   /\ chUp = << >> /\ chDown = << >> /\ bufRead = << >>
                   /\ wk # "data" /\ sess \notin {"loop", "write"}
                   /\ wk = "state" => wkMsg # <<"open">>
                   /\ s2c \in {<< >>, <<ErrorMsg>>} /\ c2s \in {<< >>, <<DialMsg>>}
    /\ Opened => c2s \in Seq(UpMsg) /\ sess \in {"loop", "write", "closing", "ended"}
    /\ sess \in {"read", "dial", "opening", "erring"} => s2c = << >> /\ wk # "state"
    /\ sess \in {"dial", "opening", "erring"} => c2s = << >>

-----------------------------------------------------------------------------
(* Up: the numbers from the target back to the application *)

\* What the target was given is numbered from 1, without a gap.
UpIsStream == \A i \in 1..Len(tgtGot) : tgtGot[i] = i

\* The session still writes to the target.
Relays == sess \notin {"closing", "ended"}

\* Chunks the session has taken from the transport.
Taken == Len(tgtGot) + ReaderHolds

\* What the reader of the client, the transport, the pump and Proxy's writer hold.
ReaderNext == Relays /\ cliR = "send" => cliDat = Len(tgtGot) + 1
WireNext ==
    Relays /\ Opened => \A i \in 1..Len(c2s) : c2s[i] = Msg("data", <<Taken + i>>)
PumpNext == Relays /\ tx = "up" /\ pump = "write" => pumpDat = Taken + Len(c2s) + 1
WriterNext ==
    Relays /\ tx = "up" /\ upW = "write" =>
        upWDat = Taken + Len(c2s) + PumpHolds + 1

UpAhead == UpIsStream /\ ReaderNext /\ WireNext /\ PumpNext /\ WriterNext

\* What Proxy's reader and chUp hold.
UpBehind ==
    /\ appR = "send" => appDat = appSent
    /\ \A i \in 1..Len(chUp) : chUp[i] = appSent - AppHolds - Len(chUp) + i

\* Between the two nothing is missing.
UpTied ==
    Relays /\ Opened /\ tx = "up" /\ upW # "ended" =>
        appSent = Taken + Len(c2s) + PumpHolds + WriterHolds
                  + Len(chUp) + AppHolds

-----------------------------------------------------------------------------
(* Down: the numbers from the application back to the target *)

\* What the application was given is numbered from 1, without a gap.
DownIsStream == \A i \in 1..Len(appGot) : appGot[i] = i

\* Slices that virtualConn.Read has returned.
Given == Len(appGot) + Len(chDown) + ReadHolds

\* The state, ahead of the data.
StateAhead == Holds(s2c # << >> /\ s2c[1].kind = "state")

\* Proxy still writes to the application.
Writes == hpc \notin {"closing", "txclose", "done"}

\* What chDown, Proxy's reader and bufRead hold.
DownQueued == \A i \in 1..Len(chDown) : chDown[i] = Len(appGot) + i
ReadNext == upR = "send" => upDat = Given
BufferNext == \A i \in 1..Len(bufRead) : bufRead[i] = Given + i

\* With w whole chunks out of the worker's hands: what it and the transport hold, and
\* that nothing is missing up to what was read from the target.
Whole(w) == Given + Len(bufRead) = w * Slices
WorkerNext(w) == wk = "data" => wkMsg = Chunk(w)
AnswerNext(w) ==
    watch => \A i \in 1..Len(s2c) :
               i > StateAhead =>
                   s2c[i] = Msg("data", Chunk(w + WorkerHolds + i - StateAhead - 1))
DownTied(w) ==
    watch /\ tx = "up" /\ Relays =>
        tgtSent = w + WorkerHolds + Len(s2c) - StateAhead + LoopHolds + TargetHolds

DownAhead(w) ==
    /\ DownQueued /\ ReadNext /\ BufferNext
    /\ Whole(w) /\ WorkerNext(w) /\ AnswerNext(w) /\ DownTied(w)

\* What the loop and the reader of the target hold.
DownBehind ==
    /\ tgtR = "send" => tgtDat = Chunk(tgtSent - 1)
    /\ sess = "write" => sessDat = Chunk(tgtSent - TargetHolds - 1)

DownNumbered == Writes => \E w \in Nat : DownAhead(w)

DownAligned == DownIsStream /\ DownNumbered /\ DownBehind

Types == AppTypes /\ WireTypes /\ DownTypes
UpAligned == UpAhead /\ UpBehind /\ UpTied
IInv == Types /\ Errors /\ Opening /\ UpAligned /\ DownAligned

-----------------------------------------------------------------------------
(* The constants, one by one. *)
LEMMA Constants ==
    /\ TxCap \in Nat \ {0} /\ ChCap \in Nat \ {0} /\ MaxUp \in Nat /\ MaxDown \in Nat
    /\ Slices \in Nat \ {0}
BY TunnelAssumption, SessionAssumption DEF TunnelAssumption, SessionAssumption

(* One chunk, or none. *)
LEMMA HoldsOne ==
    /\ ReaderHolds \in {0, 1} /\ PumpHolds \in {0, 1} /\ WriterHolds \in {0, 1}
    /\ AppHolds \in {0, 1} /\ ReadHolds \in {0, 1} /\ WorkerHolds \in {0, 1}
    /\ LoopHolds \in {0, 1} /\ TargetHolds \in {0, 1}
BY DEF ReaderHolds, PumpHolds, WriterHolds, AppHolds, ReadHolds, WorkerHolds, LoopHolds,
       TargetHolds, Holds

(* Of a sequence over S: what it holds, its head and tail, and one element more. *)
LEMMA SeqFacts ==
    ASSUME NEW S, NEW s \in Seq(S)
    PROVE  /\ Len(s) \in Nat
           /\ \A i \in 1..Len(s) : s[i] \in S
           /\ s # << >> => /\ Len(s) > 0 /\ Head(s) = s[1] /\ Head(s) \in S
                           /\ Tail(s) \in Seq(S) /\ Len(Tail(s)) = Len(s) - 1
                           /\ \A i \in 1..Len(s) - 1 : Tail(s)[i] = s[i + 1]
           /\ \A x \in S : /\ Append(s, x) \in Seq(S) /\ Len(Append(s, x)) = Len(s) + 1
                          /\ \A i \in 1..Len(s) : Append(s, x)[i] = s[i]
                          /\ Append(s, x)[Len(s) + 1] = x
BY HeadTailProperties, AppendProperties, LenProperties

(* A chunk as a sequence of slices. *)
LEMMA ChunkFacts ==
    ASSUME NEW k \in Nat
    PROVE  /\ k * Slices \in Nat
           /\ Chunk(k) \in Seq(Nat) /\ Chunk(k) # << >> /\ Len(Chunk(k)) = Slices
           /\ \A i \in 1..Slices : Chunk(k)[i] = k * Slices + i
<1>1. k * Slices \in Nat
  BY Constants
<1>2. Chunk(k) \in [1..Slices -> Nat]
  BY <1>1, Constants DEF Chunk
<1>3. Chunk(k) \in Seq(Nat) /\ Len(Chunk(k)) = Slices
  BY <1>2, Constants
<1>4. Chunk(k) # << >>
  BY <1>3, Constants
<1> QED
  BY <1>1, <1>3, <1>4 DEF Chunk

(* The slices of a chunk are the target's. *)
LEMMA ChunkIsDown ==
    ASSUME NEW k \in 0..MaxDown - 1
    PROVE  Chunk(k) \in Seq(Down) /\ Chunk(k) # << >>
<1>1. k \in Nat /\ k + 1 <= MaxDown /\ k * Slices \in Nat
  BY Constants
<1>2. (k + 1) * Slices = k * Slices + Slices /\ (k + 1) * Slices <= MaxDown * Slices
  BY <1>1, Constants
<1>3. \A i \in 1..Slices : k * Slices + i \in Down
  BY <1>1, <1>2, Constants DEF Down
<1>4. Chunk(k) \in [1..Slices -> Down]
  BY <1>3 DEF Chunk
<1> QED
  BY <1>1, <1>4, ChunkFacts, Constants

(* The steps of the specification, one by one. *)
LEMMA NextCases ==
    ASSUME [Next]_vars
    PROVE  \/ (Refused /\ UNCHANGED sessionVars)
           \/ (Established /\ UNCHANGED sessionVars)
           \/ (CloseVirtual /\ UNCHANGED sessionVars)
           \/ (CloseTx /\ UNCHANGED sessionVars)
           \/ (ProxyDown /\ UNCHANGED sessionVars)
           \/ (ProxyErr /\ UNCHANGED sessionVars)
           \/ (WorkerRecv /\ UNCHANGED sessionVars)
           \/ (DialAnswer /\ UNCHANGED sessionVars)
           \/ (AppQueue /\ UNCHANGED sessionVars)
           \/ (UpTake /\ UNCHANGED sessionVars)
           \/ (UpToPump /\ UNCHANGED sessionVars)
           \/ (UpCancelled /\ UNCHANGED sessionVars)
           \/ (VirtualRead /\ UNCHANGED sessionVars)
           \/ (VirtualReadChunk /\ UNCHANGED sessionVars)
           \/ (VirtualQueue /\ UNCHANGED sessionVars)
           \/ (PumpWrite /\ UNCHANGED sessionVars)
           \/ (Handshake /\ UNCHANGED sessionVars)
           \/ (HandleRequest /\ UNCHANGED sessionVars)
           \/ (DialRequest /\ UNCHANGED sessionVars)
           \/ (DialTimeout /\ UNCHANGED sessionVars)
           \/ (WorkerEnds /\ UNCHANGED sessionVars)
           \/ (AppRead /\ UNCHANGED sessionVars)
           \/ (AppCloses /\ UNCHANGED sessionVars)
           \/ (SessionRequest /\ UNCHANGED backendVars)
           \/ (SessionDial /\ UNCHANGED backendVars)
           \/ (SessionAnswer /\ UNCHANGED backendVars)
           \/ (LoopUp /\ UNCHANGED backendVars)
           \/ (LoopDown /\ UNCHANGED backendVars)
           \/ (LoopWrite /\ UNCHANGED backendVars)
           \/ (LoopErr /\ UNCHANGED backendVars)
           \/ (SessionCloses /\ UNCHANGED backendVars)
           \/ (TargetRead /\ UNCHANGED backendVars)
           \/ (ClientRead /\ UNCHANGED backendVars)
           \/ (TargetCloses /\ UNCHANGED backendVars)
           \/ (TxBreaks /\ UNCHANGED <<backendVars, sessionVars>>)
           \/ UNCHANGED vars
BY DEF Next, BackendStep, SessionStep, LinkFails, RequestStep, WorkerStep, CopyStep,
   VirtualStep, LoopStep

(* Every step keeps what the way up holds to the application's chunks. *)
LEMMA AppTypesStep == IInv /\ [Next]_vars => AppTypes'
<1> SUFFICES ASSUME IInv, [Next]_vars PROVE AppTypes'
  OBVIOUS
<1> USE DEF IInv, Types, UpAligned, DownAligned, AppTypes, txVars, appVars, dialVars, copyVars,
   backendVars, targetVars, readerVars, sessionVars
<1>1. CASE Established /\ UNCHANGED sessionVars
  BY <1>1 DEF Established
<1>2. CASE CloseVirtual /\ UNCHANGED sessionVars
  BY <1>2 DEF CloseVirtual, PumpReturns
<1>3. CASE CloseTx /\ UNCHANGED sessionVars
  BY <1>3 DEF CloseTx
<1>4. CASE DialAnswer /\ UNCHANGED sessionVars
  BY <1>4 DEF DialAnswer
<1>5. CASE AppQueue /\ UNCHANGED sessionVars
  <2>1. chUp' \in Seq(Up) /\ Len(chUp') <= ChCap
    BY <1>5, SeqFacts, Constants DEF AppQueue
  <2> QED
    BY <1>5, <2>1 DEF AppQueue
<1>6. CASE UpTake /\ UNCHANGED sessionVars
  <2>1. Head(chUp) \in Up /\ chUp' \in Seq(Up) /\ Len(chUp') <= ChCap
    BY <1>6, SeqFacts, Constants DEF UpTake
  <2> QED
    BY <1>6, <2>1 DEF UpTake
<1>7. CASE UpToPump /\ UNCHANGED sessionVars
  BY <1>7 DEF UpToPump
<1>8. CASE UpCancelled /\ UNCHANGED sessionVars
  BY <1>8 DEF UpCancelled
<1>9. CASE PumpWrite /\ UNCHANGED sessionVars
  BY <1>9 DEF PumpWrite, PumpReturns
<1>10. CASE Handshake /\ UNCHANGED sessionVars
  BY <1>10 DEF Handshake, GiveUp
<1>11. CASE HandleRequest /\ UNCHANGED sessionVars
  BY <1>11 DEF HandleRequest, GiveUp
<1>12. CASE AppRead /\ UNCHANGED sessionVars
  <2>1. appSent < MaxUp => appSent + 1 \in Up /\ appSent + 1 \in 0..MaxUp
    BY Constants DEF Up
  <2> QED
    BY <1>12, <2>1 DEF AppRead
<1>13. CASE AppCloses /\ UNCHANGED sessionVars
  BY <1>13 DEF AppCloses
<1>14. CASE (Refused \/ ProxyDown \/ ProxyErr \/ WorkerRecv \/ VirtualRead \/ VirtualReadChunk
             \/ VirtualQueue \/ DialRequest \/ DialTimeout \/ WorkerEnds) /\ UNCHANGED
             sessionVars
  <2>1. UNCHANGED <<app, appSent, appR, appDat, chUp, upW, upWDat, pump, pumpDat>>
    BY ONLY <1>14 DEF Refused, ProxyDown, ProxyErr, WorkerRecv, VirtualRead, VirtualReadChunk,
       VirtualQueue, DialRequest, DialTimeout, WorkerEnds, txVars, appVars, dialVars, copyVars,
       backendVars, targetVars, readerVars, sessionVars
  <2> QED
    BY <2>1
<1>15. CASE (SessionRequest \/ SessionDial \/ SessionAnswer \/ LoopUp \/ LoopDown \/ LoopWrite
             \/ LoopErr \/ SessionCloses \/ TargetRead \/ ClientRead \/ TargetCloses) /\
             UNCHANGED backendVars
  <2>1. UNCHANGED <<app, appSent, appR, appDat, chUp, upW, upWDat, pump, pumpDat>>
    BY ONLY <1>15 DEF SessionRequest, SessionDial, SessionAnswer, LoopUp, LoopDown, LoopWrite,
       LoopErr, SessionCloses, TargetRead, ClientRead, TargetCloses, txVars, appVars, dialVars,
       copyVars, backendVars, targetVars, readerVars, sessionVars
  <2> QED
    BY <2>1
<1>16. CASE TxBreaks /\ UNCHANGED <<backendVars, sessionVars>>
  BY <1>16 DEF TxBreaks
<1>17. CASE UNCHANGED vars
  BY <1>17 DEF vars
<1> HIDE DEF AppTypes
<1> QED
  BY <1>1, <1>2, <1>3, <1>4, <1>5, <1>6, <1>7, <1>8, <1>9, <1>10, <1>11, <1>12, <1>13, <1>14,
     <1>15, <1>16, <1>17, NextCases

(* Every step keeps what the transport and the session hold to what was sent. *)
LEMMA WireTypesStep == IInv /\ [Next]_vars => WireTypes'
<1> SUFFICES ASSUME IInv, [Next]_vars PROVE WireTypes'
  OBVIOUS
<1> USE DEF IInv, Types, UpAligned, DownAligned, WireTypes, DownTypes, AppTypes, txVars,
   appVars, dialVars, copyVars, backendVars, targetVars, readerVars, sessionVars
<1>1. CASE CloseTx /\ UNCHANGED sessionVars
  BY <1>1 DEF CloseTx
<1>2. CASE WorkerRecv /\ UNCHANGED sessionVars
  <2>1. s2c' \in Seq(DownMsg \cup {OpenMsg, ErrorMsg}) /\ Len(s2c') <= TxCap
    BY <1>2, SeqFacts, Constants DEF WorkerRecv
  <2> QED
    BY <1>2, <2>1 DEF WorkerRecv
<1>3. CASE PumpWrite /\ UNCHANGED sessionVars
  <2>1. c2s' \in Seq(UpMsg \cup {DialMsg}) /\ Len(c2s') <= TxCap
    <3>1. CASE c2s' = c2s
      BY <3>1
    <3>2. CASE Len(c2s) < TxCap /\ c2s' = Append(c2s, Msg("data", <<pumpDat>>))
      <4>1. Msg("data", <<pumpDat>>) \in UpMsg \cup {DialMsg}
        BY <1>3 DEF PumpWrite, UpMsg
      <4> QED
        BY <3>2, <4>1, SeqFacts, Constants
    <3> QED
      BY <1>3, <3>1, <3>2 DEF PumpWrite
  <2> QED
    BY <1>3, <2>1 DEF PumpWrite
<1>4. CASE DialRequest /\ UNCHANGED sessionVars
  <2>1. c2s' = c2s \/ c2s' = Append(<< >>, DialMsg)
    BY <1>4 DEF DialRequest, Opening, Undialled, DialMsg
  <2>2. << >> \in Seq(UpMsg \cup {DialMsg}) /\ Len(<< >>) = 0
    BY EmptySeq
  <2>3. c2s' \in Seq(UpMsg \cup {DialMsg}) /\ Len(c2s') <= TxCap
    <3>1. Append(<< >>, DialMsg) \in Seq(UpMsg \cup {DialMsg}) /\ Len(Append(<< >>, DialMsg)) = 1
      BY <2>2, SeqFacts
    <3>2. 1 <= TxCap
      BY Constants
    <3> QED
      BY <2>1, <3>1, <3>2, Zenon
  <2> QED
    BY <1>4, <2>3 DEF DialRequest
<1>5. CASE SessionRequest /\ UNCHANGED backendVars
  <2>1. c2s' \in Seq(UpMsg \cup {DialMsg}) /\ Len(c2s') <= TxCap
    <3>1. CASE c2s' = c2s
      BY <3>1
    <3>2. CASE c2s # << >> /\ c2s' = Tail(c2s)
      BY <3>2, SeqFacts, Constants
    <3> QED
      BY <1>5, <3>1, <3>2 DEF SessionRequest
  <2> QED
    BY <1>5, <2>1 DEF SessionRequest
<1>6. CASE SessionDial /\ UNCHANGED backendVars
  BY <1>6 DEF SessionDial
<1>7. CASE SessionAnswer /\ UNCHANGED backendVars
  <2>1. s2c' \in Seq(DownMsg \cup {OpenMsg, ErrorMsg}) /\ Len(s2c') <= TxCap
    <3>1. CASE s2c' = s2c
      BY <3>1
    <3>2. CASE Len(s2c) < TxCap /\ (s2c' = Append(s2c, OpenMsg) \/ s2c' = Append(s2c, ErrorMsg))
      <4>1. \A m \in {OpenMsg, ErrorMsg} :
                 /\ Append(s2c, m) \in Seq(DownMsg \cup {OpenMsg, ErrorMsg})
                 /\ Len(Append(s2c, m)) = Len(s2c) + 1 /\ Len(s2c) \in Nat
        BY SeqFacts
      <4>2. PICK m \in {OpenMsg, ErrorMsg} : s2c' = Append(s2c, m)
        BY <3>2
      <4> QED
        BY <3>2, <4>1, <4>2, Constants
    <3> QED
      BY <1>7, <3>1, <3>2 DEF SessionAnswer, ToClient, OpenMsg, ErrorMsg
  <2> QED
    BY <1>7, <2>1 DEF SessionAnswer
<1>8. CASE LoopUp /\ UNCHANGED backendVars
  <2>1. tgtGot' \in Seq(Up)
    <3>1. cliDat \in Up /\ (tgtGot' = tgtGot \/ tgtGot' = Append(tgtGot, cliDat))
      BY <1>8 DEF LoopUp
    <3>2. Append(tgtGot, cliDat) \in Seq(Up)
      BY <3>1, SeqFacts
    <3> QED
      BY <3>1, <3>2
  <2> QED
    BY <1>8, <2>1 DEF LoopUp
<1>9. CASE LoopDown /\ UNCHANGED backendVars
  BY <1>9 DEF LoopDown
<1>10. CASE LoopWrite /\ UNCHANGED backendVars
  <2>1. s2c' \in Seq(DownMsg \cup {OpenMsg, ErrorMsg}) /\ Len(s2c') <= TxCap
    <3>1. CASE s2c' = s2c
      BY <3>1
    <3>2. CASE Len(s2c) < TxCap /\ s2c' = Append(s2c, Msg("data", sessDat))
      <4>1. Msg("data", sessDat) \in DownMsg \cup {OpenMsg, ErrorMsg}
        BY <1>10 DEF LoopWrite, Chunks, DownMsg
      <4> QED
        BY <3>2, <4>1, SeqFacts, Constants
    <3> QED
      BY <1>10, <3>1, <3>2 DEF LoopWrite, ToClient
  <2> QED
    BY <1>10, <2>1 DEF LoopWrite
<1>11. CASE LoopErr /\ UNCHANGED backendVars
  BY <1>11 DEF LoopErr
<1>12. CASE SessionCloses /\ UNCHANGED backendVars
  BY <1>12 DEF SessionCloses
<1>13. CASE TargetRead /\ UNCHANGED backendVars
  <2>1. tgtSent < MaxDown => tgtSent \in 0..MaxDown - 1 /\ tgtSent + 1 \in 0..MaxDown
    BY Constants
  <2>2. tgtR' = "send" => tgtDat' \in Chunks
    BY <1>13, <2>1 DEF TargetRead, Chunks, Chunk
  <2> QED
    BY <1>13, <2>1, <2>2 DEF TargetRead
<1>14. CASE ClientRead /\ UNCHANGED backendVars
  <2>1. CASE c2s' = c2s /\ cliDat' = cliDat
    BY <1>14, <2>1 DEF ClientRead
  <2>2. CASE c2s # << >> /\ c2s' = Tail(c2s) /\ cliDat' = Head(c2s).dat[1] /\ cliR' = "send"
    <3>1. c2s' \in Seq(UpMsg \cup {DialMsg}) /\ Len(c2s') <= TxCap
      BY <2>2, SeqFacts, Constants
    <3>2. c2s \in Seq(UpMsg)
      BY <1>14 DEF ClientRead, Opening, Opened
    <3>3. Head(c2s) \in UpMsg
      BY <2>2, <3>2, SeqFacts
    <3>4. cliDat' \in Up
      <4>1. PICK n \in Up : Head(c2s) = [kind |-> "data", dat |-> <<n>>]
        BY <3>3 DEF UpMsg, Msg
      <4>2. Head(c2s).dat = <<n>>
        BY <4>1
      <4> QED
        BY <2>2, <4>2
    <3> QED
      BY <1>14, <2>2, <3>1, <3>4 DEF ClientRead
  <2> QED
    BY <1>14, <2>1, <2>2 DEF ClientRead
<1>15. CASE TargetCloses /\ UNCHANGED backendVars
  BY <1>15 DEF TargetCloses
<1>16. CASE TxBreaks /\ UNCHANGED <<backendVars, sessionVars>>
  BY <1>16 DEF TxBreaks
<1>17. CASE (Refused \/ Established \/ CloseVirtual \/ ProxyDown \/ ProxyErr \/ DialAnswer \/
             AppQueue \/ UpTake \/ UpToPump \/ UpCancelled \/ VirtualRead \/ VirtualReadChunk \/
             VirtualQueue \/ Handshake \/ HandleRequest \/ DialTimeout \/ WorkerEnds \/ AppRead
             \/ AppCloses) /\ UNCHANGED sessionVars
  <2>1. UNCHANGED <<tx, c2s, s2c, sess, sessDat, cliR, cliDat, target, tgtSent, tgtGot, tgtR,
                    tgtDat>>
    BY ONLY <1>17 DEF Refused, Established, CloseVirtual, ProxyDown, ProxyErr, DialAnswer,
       AppQueue, UpTake, UpToPump, UpCancelled, VirtualRead, VirtualReadChunk, VirtualQueue,
       Handshake, HandleRequest, DialTimeout, WorkerEnds, AppRead, AppCloses, GiveUp, txVars,
       appVars, dialVars, copyVars, backendVars, targetVars, readerVars, sessionVars
  <2> QED
    BY <2>1
<1>18. CASE UNCHANGED vars
  BY <1>18 DEF vars
<1> HIDE DEF WireTypes, DownTypes, AppTypes
<1> QED
  BY <1>1, <1>2, <1>3, <1>4, <1>5, <1>6, <1>7, <1>8, <1>9, <1>10, <1>11, <1>12, <1>13, <1>14,
     <1>15, <1>16, <1>17, <1>18, NextCases

(* Every step keeps what the way down holds to the target's slices. *)
LEMMA DownTypesStep == IInv /\ [Next]_vars => DownTypes'
<1> SUFFICES ASSUME IInv, [Next]_vars PROVE DownTypes'
  OBVIOUS
<1> USE DEF IInv, Types, UpAligned, DownAligned, DownTypes, WireTypes, txVars, appVars,
   dialVars, copyVars, backendVars, targetVars, readerVars, sessionVars
<1>1. CASE Refused /\ UNCHANGED sessionVars
  BY <1>1 DEF Refused
<1>2. CASE Established /\ UNCHANGED sessionVars
  BY <1>2 DEF Established
<1>3. CASE CloseVirtual /\ UNCHANGED sessionVars
  BY <1>3 DEF CloseVirtual, PumpReturns
<1>4. CASE CloseTx /\ UNCHANGED sessionVars
  BY <1>4 DEF CloseTx
<1>5. CASE ProxyDown /\ UNCHANGED sessionVars
  <2>1. /\ chDown' \in Seq(Down) /\ Len(chDown') <= ChCap
        /\ Head(chDown) \in Down
    BY <1>5, SeqFacts, Constants DEF ProxyDown
  <2>2. appGot' \in Seq(Down)
    <3>1. appGot' = appGot \/ appGot' = Append(appGot, Head(chDown))
      BY <1>5 DEF ProxyDown
    <3>2. Append(appGot, Head(chDown)) \in Seq(Down)
      BY <2>1, SeqFacts
    <3> QED
      BY <3>1, <3>2
  <2> QED
    BY <1>5, <2>1, <2>2 DEF ProxyDown
<1>6. CASE ProxyErr /\ UNCHANGED sessionVars
  BY <1>6 DEF ProxyErr
<1>7. CASE WorkerRecv /\ UNCHANGED sessionVars
  <2>1. Head(s2c) \in DownMsg \cup {OpenMsg, ErrorMsg}
    BY <1>7, SeqFacts DEF WorkerRecv
  <2>2. /\ Head(s2c).kind \in {"state", "data"}
        /\ Head(s2c).kind = "data" => Head(s2c).dat \in Chunks
    BY <2>1 DEF DownMsg, OpenMsg, ErrorMsg, Msg, Chunks
  <2> QED
    BY <1>7, <2>2 DEF WorkerRecv
<1>8. CASE DialAnswer /\ UNCHANGED sessionVars
  BY <1>8 DEF DialAnswer
<1>9. CASE VirtualRead /\ UNCHANGED sessionVars
  <2>1. bufRead # << >> => Head(bufRead) \in Down /\ Tail(bufRead) \in Seq(Down)
    BY SeqFacts
  <2> QED
    BY <1>9, <2>1 DEF VirtualRead
<1>10. CASE VirtualReadChunk /\ UNCHANGED sessionVars
  <2>1. PICK k \in 0..MaxDown - 1 : wkMsg = Chunk(k)
    BY <1>10 DEF VirtualReadChunk, Chunks
  <2>2. Head(wkMsg) \in Down /\ Tail(wkMsg) \in Seq(Down)
    BY <2>1, ChunkIsDown, SeqFacts
  <2> QED
    BY <1>10, <2>2 DEF VirtualReadChunk
<1>11. CASE VirtualQueue /\ UNCHANGED sessionVars
  <2>1. chDown' \in Seq(Down) /\ Len(chDown') <= ChCap
    BY <1>11, SeqFacts, Constants DEF VirtualQueue
  <2> QED
    BY <1>11, <2>1 DEF VirtualQueue
<1>12. CASE PumpWrite /\ UNCHANGED sessionVars
  <2>1. watch' \in BOOLEAN /\ vclosed' \in BOOLEAN
    BY <1>12, Zenon DEF PumpWrite, PumpReturns
  <2> QED
    BY <1>12, <2>1 DEF PumpWrite
<1>13. CASE Handshake /\ UNCHANGED sessionVars
  BY <1>13 DEF Handshake, GiveUp
<1>14. CASE HandleRequest /\ UNCHANGED sessionVars
  BY <1>14 DEF HandleRequest, GiveUp
<1>15. CASE DialRequest /\ UNCHANGED sessionVars
  BY <1>15 DEF DialRequest
<1>16. CASE DialTimeout /\ UNCHANGED sessionVars
  BY <1>16 DEF DialTimeout
<1>17. CASE WorkerEnds /\ UNCHANGED sessionVars
  BY <1>17 DEF WorkerEnds
<1>18. CASE (AppQueue \/ UpTake \/ UpToPump \/ UpCancelled \/ AppRead \/ AppCloses) /\ UNCHANGED
             sessionVars
  <2>1. UNCHANGED <<hpc, watch, vclosed, wk, wkMsg, bufRead, upR, upDat, chDown, appGot>>
    BY ONLY <1>18 DEF AppQueue, UpTake, UpToPump, UpCancelled, AppRead, AppCloses, txVars,
       appVars, dialVars, copyVars, backendVars, targetVars, readerVars, sessionVars
  <2> QED
    BY <2>1
<1>19. CASE (SessionRequest \/ SessionDial \/ SessionAnswer \/ LoopUp \/ LoopDown \/ LoopWrite
             \/ LoopErr \/ SessionCloses \/ TargetRead \/ ClientRead \/ TargetCloses) /\
             UNCHANGED backendVars
  <2>1. UNCHANGED <<hpc, watch, vclosed, wk, wkMsg, bufRead, upR, upDat, chDown, appGot>>
    BY ONLY <1>19 DEF SessionRequest, SessionDial, SessionAnswer, LoopUp, LoopDown, LoopWrite,
       LoopErr, SessionCloses, TargetRead, ClientRead, TargetCloses, txVars, appVars, dialVars,
       copyVars, backendVars, targetVars, readerVars, sessionVars
  <2> QED
    BY <2>1
<1>20. CASE TxBreaks /\ UNCHANGED <<backendVars, sessionVars>>
  BY <1>20 DEF TxBreaks
<1>21. CASE UNCHANGED vars
  BY <1>21 DEF vars
<1> HIDE DEF DownTypes, WireTypes
<1> QED
  BY <1>1, <1>2, <1>3, <1>4, <1>5, <1>6, <1>7, <1>8, <1>9, <1>10, <1>11, <1>12, <1>13, <1>14,
     <1>15, <1>16, <1>17, <1>18, <1>19, <1>20, <1>21, NextCases

(* A goroutine ends when it has reported its error. *)
LEMMA ErrorsStep == IInv /\ [Next]_vars => Errors'
<1> SUFFICES ASSUME IInv, [Next]_vars PROVE Errors'
  OBVIOUS
<1> USE DEF IInv, Types, UpAligned, DownAligned, Errors, Holds, AppTypes, WireTypes, DownTypes,
   txVars, appVars, dialVars, copyVars, backendVars, targetVars, readerVars, sessionVars
<1>1. CASE Established /\ UNCHANGED sessionVars
  BY <1>1 DEF Established, Opening
<1>2. CASE ProxyErr /\ UNCHANGED sessionVars
  BY <1>2 DEF ProxyErr
<1>3. CASE AppQueue /\ UNCHANGED sessionVars
  BY <1>3 DEF AppQueue
<1>4. CASE UpTake /\ UNCHANGED sessionVars
  BY <1>4 DEF UpTake
<1>5. CASE UpToPump /\ UNCHANGED sessionVars
  BY <1>5 DEF UpToPump
<1>6. CASE UpCancelled /\ UNCHANGED sessionVars
  BY <1>6 DEF UpCancelled
<1>7. CASE VirtualRead /\ UNCHANGED sessionVars
  BY <1>7 DEF VirtualRead
<1>8. CASE VirtualReadChunk /\ UNCHANGED sessionVars
  BY <1>8 DEF VirtualReadChunk
<1>9. CASE VirtualQueue /\ UNCHANGED sessionVars
  BY <1>9 DEF VirtualQueue
<1>10. CASE AppRead /\ UNCHANGED sessionVars
  BY <1>10 DEF AppRead
<1>11. CASE SessionAnswer /\ UNCHANGED backendVars
  BY <1>11 DEF SessionAnswer, Opening, Opened
<1>12. CASE LoopUp /\ UNCHANGED backendVars
  BY <1>12 DEF LoopUp
<1>13. CASE LoopDown /\ UNCHANGED backendVars
  BY <1>13 DEF LoopDown
<1>14. CASE LoopErr /\ UNCHANGED backendVars
  BY <1>14 DEF LoopErr
<1>15. CASE TargetRead /\ UNCHANGED backendVars
  BY <1>15 DEF TargetRead
<1>16. CASE ClientRead /\ UNCHANGED backendVars
  BY <1>16 DEF ClientRead
<1>17. CASE (Refused \/ CloseVirtual \/ CloseTx \/ ProxyDown \/ WorkerRecv \/ DialAnswer \/
             PumpWrite \/ Handshake \/ HandleRequest \/ DialRequest \/ DialTimeout \/ WorkerEnds
             \/ AppCloses) /\ UNCHANGED sessionVars
  <2>1. UNCHANGED <<chErr, sErr, appR, upR, upW, tgtR, cliR>>
    BY ONLY <1>17 DEF Refused, CloseVirtual, CloseTx, ProxyDown, WorkerRecv, DialAnswer,
       PumpWrite, Handshake, HandleRequest, DialRequest, DialTimeout, WorkerEnds, AppCloses,
       GiveUp, txVars, appVars, dialVars, copyVars, backendVars, targetVars, readerVars,
       sessionVars
  <2> QED
    BY <2>1
<1>18. CASE (SessionRequest \/ SessionDial \/ LoopWrite \/ SessionCloses \/ TargetCloses) /\
             UNCHANGED backendVars
  <2>1. UNCHANGED <<chErr, sErr, appR, upR, upW, tgtR, cliR>>
    BY ONLY <1>18 DEF SessionRequest, SessionDial, LoopWrite, SessionCloses, TargetCloses,
       txVars, appVars, dialVars, copyVars, backendVars, targetVars, readerVars, sessionVars
  <2> QED
    BY <2>1
<1>19. CASE TxBreaks /\ UNCHANGED <<backendVars, sessionVars>>
  BY <1>19 DEF TxBreaks
<1>20. CASE UNCHANGED vars
  BY <1>20 DEF vars
<1> HIDE DEF Errors, Holds, AppTypes, WireTypes, DownTypes
<1> QED
  BY <1>1, <1>2, <1>3, <1>4, <1>5, <1>6, <1>7, <1>8, <1>9, <1>10, <1>11, <1>12, <1>13, <1>14,
     <1>15, <1>16, <1>17, <1>18, <1>19, <1>20, NextCases

(* Every step keeps the order in which a tunnel is opened. *)
LEMMA OpeningStep == IInv /\ [Next]_vars => Opening'
<1> SUFFICES ASSUME IInv, [Next]_vars PROVE Opening'
  OBVIOUS
<1> USE DEF IInv, Types, UpAligned, DownAligned, Opening, Opened, Undialled, AppTypes,
   WireTypes, DownTypes, txVars, appVars, dialVars, copyVars, backendVars, targetVars,
   readerVars, sessionVars
<1>1. CASE Refused /\ UNCHANGED sessionVars
  BY <1>1 DEF Refused
<1>2. CASE Established /\ UNCHANGED sessionVars
  BY <1>2 DEF Established
<1>3. CASE CloseVirtual /\ UNCHANGED sessionVars
  BY <1>3 DEF CloseVirtual, PumpReturns
<1>4. CASE CloseTx /\ UNCHANGED sessionVars
  BY <1>4 DEF CloseTx
<1>5. CASE ProxyDown /\ UNCHANGED sessionVars
  BY <1>5 DEF ProxyDown
<1>6. CASE ProxyErr /\ UNCHANGED sessionVars
  BY <1>6 DEF ProxyErr
<1>7. CASE WorkerRecv /\ UNCHANGED sessionVars
  <2>1. Head(s2c) \in DownMsg \cup {OpenMsg, ErrorMsg} /\ s2c # << >>
    BY <1>7, SeqFacts DEF WorkerRecv
  <2>2. Opened \/ s2c = <<ErrorMsg>>
    BY <2>1
  <2>3. s2c = <<ErrorMsg>> => s2c' = << >> /\ Head(s2c) = ErrorMsg
    BY <1>7 DEF WorkerRecv
  <2>4. ErrorMsg.dat # <<"open">> /\ ErrorMsg.kind = "state"
    BY DEF ErrorMsg, Msg
  <2>5. CASE Opened
    BY <1>7, <2>1, <2>5 DEF WorkerRecv
  <2>6. CASE ~ Opened
    BY <1>7, <2>1, <2>2, <2>3, <2>4, <2>6 DEF WorkerRecv
  <2> QED
    BY <2>5, <2>6
<1>8. CASE DialAnswer /\ UNCHANGED sessionVars
  BY <1>8 DEF DialAnswer
<1>9. CASE AppQueue /\ UNCHANGED sessionVars
  BY <1>9 DEF AppQueue
<1>10. CASE UpTake /\ UNCHANGED sessionVars
  BY <1>10 DEF UpTake
<1>11. CASE UpToPump /\ UNCHANGED sessionVars
  BY <1>11 DEF UpToPump
<1>12. CASE UpCancelled /\ UNCHANGED sessionVars
  BY <1>12 DEF UpCancelled
<1>13. CASE VirtualRead /\ UNCHANGED sessionVars
  BY <1>13 DEF VirtualRead
<1>14. CASE VirtualReadChunk /\ UNCHANGED sessionVars
  BY <1>14 DEF VirtualReadChunk
<1>15. CASE VirtualQueue /\ UNCHANGED sessionVars
  BY <1>15 DEF VirtualQueue
<1>16. CASE PumpWrite /\ UNCHANGED sessionVars
  <2>1. Opened /\ ~ Undialled /\ hpc # "wait"
    BY <1>16 DEF PumpWrite
  <2>2. c2s' \in Seq(UpMsg)
    <3>1. CASE c2s' = c2s
      BY <2>1, <3>1
    <3>2. CASE c2s' = Append(c2s, Msg("data", <<pumpDat>>))
      <4>1. Msg("data", <<pumpDat>>) \in UpMsg
        BY <1>16 DEF PumpWrite, UpMsg
      <4> QED
        BY <2>1, <3>2, <4>1, SeqFacts
    <3> QED
      BY <1>16, <3>1, <3>2 DEF PumpWrite
  <2> QED
    BY <1>16, <2>1, <2>2 DEF PumpWrite
<1>17. CASE Handshake /\ UNCHANGED sessionVars
  BY <1>17 DEF Handshake, GiveUp
<1>18. CASE HandleRequest /\ UNCHANGED sessionVars
  BY <1>18 DEF HandleRequest, GiveUp
<1>19. CASE DialRequest /\ UNCHANGED sessionVars
  <2>1. c2s' = << >> \/ c2s' = <<DialMsg>>
    BY <1>19 DEF DialRequest, DialMsg
  <2> QED
    BY <1>19, <2>1 DEF DialRequest
<1>20. CASE DialTimeout /\ UNCHANGED sessionVars
  BY <1>20 DEF DialTimeout
<1>21. CASE WorkerEnds /\ UNCHANGED sessionVars
  BY <1>21 DEF WorkerEnds
<1>22. CASE AppRead /\ UNCHANGED sessionVars
  BY <1>22 DEF AppRead
<1>23. CASE SessionRequest /\ UNCHANGED backendVars
  BY <1>23 DEF SessionRequest
<1>24. CASE SessionDial /\ UNCHANGED backendVars
  BY <1>24 DEF SessionDial
<1>25. CASE SessionAnswer /\ UNCHANGED backendVars
  <2>1. /\ ~ Opened /\ s2c = << >> /\ c2s = << >> /\ ~ Undialled
        /\ sess \in {"opening", "erring"}
    BY <1>25 DEF SessionAnswer
  <2>2. CASE sess' = "loop" /\ cliR' = "read"
    <3>1. c2s' \in Seq(UpMsg)
      BY <1>25, <2>1 DEF SessionAnswer
    <3> QED
      BY <1>25, <2>1, <2>2, <3>1 DEF SessionAnswer
  <2>3. CASE sess' = "closing" /\ UNCHANGED <<tgtR, cliR>>
    <3>1. s2c' = << >> \/ s2c' = <<ErrorMsg>>
      BY <1>25, <2>1, <2>3 DEF SessionAnswer, ToClient, ErrorMsg
    <3> QED
      BY <1>25, <2>1, <2>3, <3>1 DEF SessionAnswer
  <2> QED
    BY <1>25, <2>2, <2>3 DEF SessionAnswer
<1>26. CASE LoopUp /\ UNCHANGED backendVars
  BY <1>26 DEF LoopUp
<1>27. CASE LoopDown /\ UNCHANGED backendVars
  BY <1>27 DEF LoopDown
<1>28. CASE LoopWrite /\ UNCHANGED backendVars
  BY <1>28 DEF LoopWrite, ToClient
<1>29. CASE LoopErr /\ UNCHANGED backendVars
  BY <1>29 DEF LoopErr
<1>30. CASE SessionCloses /\ UNCHANGED backendVars
  BY <1>30 DEF SessionCloses
<1>31. CASE TargetRead /\ UNCHANGED backendVars
  BY <1>31 DEF TargetRead
<1>32. CASE ClientRead /\ UNCHANGED backendVars
  <2>1. Opened /\ ~ Undialled
    BY <1>32 DEF ClientRead
  <2>2. c2s' \in Seq(UpMsg)
    <3>1. c2s' = c2s \/ (c2s # << >> /\ c2s' = Tail(c2s))
      BY <1>32 DEF ClientRead
    <3>2. c2s # << >> => Tail(c2s) \in Seq(UpMsg)
      BY <2>1, SeqFacts
    <3> QED
      BY <2>1, <3>1, <3>2
  <2> QED
    BY <1>32, <2>1, <2>2 DEF ClientRead
<1>33. CASE (AppCloses) /\ UNCHANGED sessionVars
  <2>1. UNCHANGED <<c2s, s2c, watch, cliR, wk, wkMsg, sess, hpc, pump, appR, upR, upW, tgtR,
                    appSent, tgtSent, tgtGot, appGot, chUp, chDown, bufRead>>
    BY ONLY <1>33 DEF AppCloses, txVars, appVars, dialVars, copyVars, backendVars, targetVars,
       readerVars, sessionVars
  <2> QED
    BY <2>1
<1>34. CASE (TargetCloses) /\ UNCHANGED backendVars
  <2>1. UNCHANGED <<c2s, s2c, watch, cliR, wk, wkMsg, sess, hpc, pump, appR, upR, upW, tgtR,
                    appSent, tgtSent, tgtGot, appGot, chUp, chDown, bufRead>>
    BY ONLY <1>34 DEF TargetCloses, txVars, appVars, dialVars, copyVars, backendVars,
       targetVars, readerVars, sessionVars
  <2> QED
    BY <2>1
<1>35. CASE TxBreaks /\ UNCHANGED <<backendVars, sessionVars>>
  BY <1>35 DEF TxBreaks
<1>36. CASE UNCHANGED vars
  BY <1>36 DEF vars
<1> HIDE DEF Opening, Opened, Undialled, AppTypes, WireTypes, DownTypes
<1> QED
  BY <1>1, <1>2, <1>3, <1>4, <1>5, <1>6, <1>7, <1>8, <1>9, <1>10, <1>11, <1>12, <1>13, <1>14,
     <1>15, <1>16, <1>17, <1>18, <1>19, <1>20, <1>21, <1>22, <1>23, <1>24, <1>25, <1>26, <1>27,
     <1>28, <1>29, <1>30, <1>31, <1>32, <1>33, <1>34, <1>35, <1>36, NextCases

-----------------------------------------------------------------------------
(* Every step keeps the numbers of the way up, counted from the target. *)
LEMMA UpAheadStep == IInv /\ [Next]_vars => UpAhead'
<1> SUFFICES ASSUME IInv, [Next]_vars PROVE UpAhead'
  OBVIOUS
<1> USE DEF IInv, Types, UpAligned, DownAligned, UpAhead, UpIsStream, ReaderNext, WireNext,
   PumpNext, WriterNext, UpBehind, UpTied, Relays, Opened, Taken, ReaderHolds, PumpHolds,
   WriterHolds, AppHolds, Holds, Opening, Undialled, AppTypes, WireTypes, txVars, appVars,
   dialVars, copyVars, backendVars, targetVars, readerVars, sessionVars
<1>1. CASE Established /\ UNCHANGED sessionVars
  BY <1>1 DEF Established
<1>2. CASE CloseVirtual /\ UNCHANGED sessionVars
  BY <1>2 DEF CloseVirtual, PumpReturns
<1>3. CASE CloseTx /\ UNCHANGED sessionVars
  BY <1>3 DEF CloseTx
<1>4. CASE DialAnswer /\ UNCHANGED sessionVars
  BY <1>4 DEF DialAnswer
<1>5. CASE UpTake /\ UNCHANGED sessionVars
  <2>1. UpIsStream' /\ ReaderNext' /\ WireNext' /\ PumpNext'
    BY <1>5 DEF UpTake
  <2>2. Head(chUp) = chUp[1] /\ Len(chUp) > 0 /\ Len(chUp) \in Nat
    BY <1>5, SeqFacts DEF UpTake
  <2>3. Head(chUp) = appSent - AppHolds - Len(chUp) + 1
    BY <2>2
  <2>4. Opened
    BY <1>5 DEF UpTake
  <2>5. WriterNext'
    <3> SUFFICES ASSUME Relays, tx = "up", upW' = "write"
                 PROVE  upWDat' = Taken + Len(c2s) + PumpHolds + 1
      BY <1>5 DEF UpTake
    <3>1. upW = "select" /\ upWDat' = Head(chUp)
      BY <1>5 DEF UpTake
    <3>2. Len(tgtGot) \in Nat /\ Len(c2s) \in Nat /\ appSent \in Nat
      BY SeqFacts
    <3> QED
      <4>1. appSent = Taken + Len(c2s) + PumpHolds + WriterHolds + Len(chUp) + AppHolds
        BY <2>4, <3>1
      <4>2. WriterHolds = 0 /\ Taken \in Nat /\ PumpHolds \in Nat /\ AppHolds \in Nat
        BY <3>1, <3>2
      <4> QED
        <5> HIDE DEF Taken, ReaderHolds, PumpHolds, WriterHolds, AppHolds
        <5> QED
          BY <2>2, <2>3, <3>1, <3>2, <4>1, <4>2
  <2> QED
    BY <2>1, <2>5 DEF UpAhead
<1>6. CASE UpToPump /\ UNCHANGED sessionVars
  BY <1>6 DEF UpToPump
<1>7. CASE UpCancelled /\ UNCHANGED sessionVars
  BY <1>7 DEF UpCancelled
<1>8. CASE PumpWrite /\ UNCHANGED sessionVars
  <2>0. /\ pump = "write" /\ Opened /\ pump' # "write"
        /\ UNCHANGED <<tx, sess, tgtGot, cliR, cliDat, upW, upWDat>>
    BY <1>8 DEF PumpWrite, PumpReturns
  <2>1. UpIsStream' /\ ReaderNext' /\ PumpNext'
    BY <2>0
  <2>2. CASE c2s' = c2s /\ tx # "up"
    BY <2>0, <2>1, <2>2
  <2>3. CASE tx = "up" /\ c2s' = Append(c2s, Msg("data", <<pumpDat>>))
    <3>1. c2s \in Seq(UpMsg) /\ Msg("data", <<pumpDat>>) \in UpMsg
      BY <2>0 DEF UpMsg
    <3>2. /\ Len(c2s) \in Nat /\ Len(c2s') = Len(c2s) + 1
          /\ \A i \in 1..Len(c2s) : c2s'[i] = c2s[i]
          /\ c2s'[Len(c2s) + 1] = Msg("data", <<pumpDat>>)
      BY <2>3, <3>1, SeqFacts
    <3>3. Taken' = Taken /\ Taken \in Nat
      BY <2>0, SeqFacts
    <3>4. Relays => pumpDat = Taken + Len(c2s) + 1
      BY <2>0, <2>3
    <3>5. WireNext'
      <4> SUFFICES ASSUME Relays, NEW i \in 1..Len(c2s) + 1
                   PROVE  c2s'[i] = Msg("data", <<Taken + i>>)
        BY <2>0, <3>2, <3>3
      <4>1. CASE i \in 1..Len(c2s)
        BY <2>0, <3>2, <4>1
      <4>2. CASE i = Len(c2s) + 1
        <5>1. pumpDat = Taken + i
          <6> HIDE DEF Taken, ReaderHolds, PumpHolds, WriterHolds, AppHolds
          <6> QED
            BY <3>2, <3>3, <3>4, <4>2, Relays
        <5> QED
          <6> HIDE DEF Taken, ReaderHolds, PumpHolds, WriterHolds, AppHolds
          <6> QED
            BY <3>2, <4>2, <5>1
      <4>3. i \in 1..Len(c2s) \/ i = Len(c2s) + 1
        BY ONLY <3>2, i \in 1..Len(c2s) + 1
      <4> QED
        BY <4>1, <4>2, <4>3
    <3>6. WriterNext'
      <4>1. PumpHolds = 1 /\ PumpHolds' = 0
        BY <2>0
      <4>2. Relays /\ upW = "write" => upWDat = Taken + Len(c2s) + PumpHolds + 1
        BY <2>3
      <4>3. Relays /\ upW = "write" => upWDat = Taken' + Len(c2s') + PumpHolds' + 1
        <5> HIDE DEF Taken, ReaderHolds, PumpHolds, WriterHolds, AppHolds
        <5> QED
          BY <3>2, <3>3, <4>1, <4>2
      <4> QED
        BY <2>0, <4>3
    <3> QED
      BY <2>1, <3>5, <3>6
  <2> QED
    BY <1>8, <2>2, <2>3 DEF PumpWrite
<1>9. CASE DialRequest /\ UNCHANGED sessionVars
  BY <1>9 DEF DialRequest
<1>10. CASE SessionRequest /\ UNCHANGED backendVars
  BY <1>10 DEF SessionRequest
<1>11. CASE SessionDial /\ UNCHANGED backendVars
  BY <1>11 DEF SessionDial
<1>12. CASE SessionAnswer /\ UNCHANGED backendVars
  <2>1. /\ ~ Opened /\ tgtGot = << >> /\ c2s = << >> /\ pump = "none" /\ upW = "none"
        /\ cliR' \in {"none", "read"} /\ UNCHANGED <<tgtGot, c2s, pump, upW>>
    BY <1>12 DEF SessionAnswer
  <2> QED
    BY <2>1
<1>13. CASE LoopUp /\ UNCHANGED backendVars
  <2>0. /\ Relays /\ Opened /\ cliR = "send" /\ cliR' = "read"
        /\ UNCHANGED <<tx, c2s, pump, pumpDat, upW, upWDat>>
    BY <1>13 DEF LoopUp
  <2>1. CASE sess' = "closing" /\ tgtGot' = tgtGot
    BY <2>0, <2>1
  <2>2. CASE tgtGot' = Append(tgtGot, cliDat) /\ sess' = sess
    <3>1. cliDat \in Up /\ cliDat = Len(tgtGot) + 1
      BY <2>0
    <3>2. /\ Len(tgtGot) \in Nat /\ Len(tgtGot') = Len(tgtGot) + 1
          /\ \A i \in 1..Len(tgtGot) : tgtGot'[i] = tgtGot[i]
          /\ tgtGot'[Len(tgtGot) + 1] = cliDat
      BY <2>2, <3>1, SeqFacts
    <3>3. UpIsStream'
      BY ONLY <3>1, <3>2, UpIsStream DEF UpIsStream
    <3>4. Taken' = Taken
      BY <2>0, <3>2
    <3>5. WireNext'
      BY <2>0, <2>2, <3>4
    <3>6. PumpNext' /\ WriterNext'
      BY <2>0, <2>2, <3>4
    <3> QED
      BY <2>0, <3>3, <3>5, <3>6
  <2> QED
    BY <1>13, <2>1, <2>2 DEF LoopUp
<1>14. CASE LoopDown /\ UNCHANGED backendVars
  BY <1>14 DEF LoopDown
<1>15. CASE LoopWrite /\ UNCHANGED backendVars
  BY <1>15 DEF LoopWrite, ToClient
<1>16. CASE LoopErr /\ UNCHANGED backendVars
  BY <1>16 DEF LoopErr
<1>17. CASE SessionCloses /\ UNCHANGED backendVars
  BY <1>17 DEF SessionCloses
<1>18. CASE ClientRead /\ UNCHANGED backendVars
  <2>0. /\ cliR = "read" /\ Opened /\ c2s \in Seq(UpMsg) /\ cliR' \in {"send", "ended"}
        /\ UNCHANGED <<sess, tx, tgtGot, pump, pumpDat, upW, upWDat>>
    BY <1>18 DEF ClientRead
  <2>1. UpIsStream'
    BY <2>0
  <2>2. CASE c2s' = c2s /\ cliR' = "ended"
    <3>1. Taken' = Taken
      BY <2>0, <2>2
    <3> QED
      BY <2>0, <2>1, <2>2, <3>1
  <2>3. CASE c2s # << >> /\ c2s' = Tail(c2s) /\ cliDat' = Head(c2s).dat[1] /\ cliR' = "send"
    <3>1. /\ Len(c2s) \in Nat /\ Len(c2s) > 0 /\ Len(c2s') = Len(c2s) - 1
          /\ Head(c2s) = c2s[1] /\ \A i \in 1..Len(c2s) - 1 : c2s'[i] = c2s[i + 1]
      BY <2>0, <2>3, SeqFacts
    <3>2. Len(tgtGot) \in Nat /\ Taken = Len(tgtGot) /\ Taken' = Taken + 1
      BY <2>0, <2>3, SeqFacts
    <3>3. ReaderNext'
      <4> SUFFICES ASSUME Relays PROVE cliDat' = Len(tgtGot) + 1
        BY <2>0
      <4>1. c2s[1] = Msg("data", <<Taken + 1>>)
        BY <2>0, <3>1
      <4>2. c2s[1].dat = <<Taken + 1>>
        BY <4>1 DEF Msg
      <4> QED
        BY <2>3, <3>1, <3>2, <4>2
    <3>4. WireNext'
      <4> SUFFICES ASSUME Relays, NEW i \in 1..Len(c2s) - 1
                   PROVE  c2s'[i] = Msg("data", <<Taken + 1 + i>>)
        BY <2>0, <3>1, <3>2
      <4>1. c2s[i + 1] = Msg("data", <<Taken + (i + 1)>>)
        BY <2>0, <3>1
      <4>2. Taken + (i + 1) = Taken + 1 + i
        <5> HIDE DEF Taken, ReaderHolds, PumpHolds, WriterHolds, AppHolds
        <5> QED
          BY <3>1, <3>2, i \in 1..Len(c2s) - 1
      <4> QED
        BY <3>1, <4>1, <4>2
    <3>5. PumpNext' /\ WriterNext'
      <4>1. Taken' + Len(c2s') = Taken + Len(c2s) /\ PumpHolds' = PumpHolds
        BY <2>0, <3>1, <3>2
      <4> QED
        BY <2>0, <4>1
    <3> QED
      BY <2>1, <3>3, <3>4, <3>5
  <2> QED
    BY <1>18, <2>2, <2>3 DEF ClientRead
<1>19. CASE TxBreaks /\ UNCHANGED <<backendVars, sessionVars>>
  BY <1>19 DEF TxBreaks
<1>20. CASE (Refused \/ ProxyDown \/ ProxyErr \/ WorkerRecv \/ AppQueue \/ VirtualRead \/
             VirtualReadChunk \/ VirtualQueue \/ Handshake \/ HandleRequest \/ DialTimeout \/
             WorkerEnds \/ AppRead \/ AppCloses) /\ UNCHANGED sessionVars
  <2>1. UNCHANGED <<tgtGot, cliR, cliDat, c2s, pump, pumpDat, upW, upWDat, sess, tx>>
    BY ONLY <1>20 DEF Refused, ProxyDown, ProxyErr, WorkerRecv, AppQueue, VirtualRead,
       VirtualReadChunk, VirtualQueue, Handshake, HandleRequest, DialTimeout, WorkerEnds,
       AppRead, AppCloses, GiveUp, txVars, appVars, dialVars, copyVars, backendVars, targetVars,
       readerVars, sessionVars
  <2> QED
    BY <2>1
<1>21. CASE (TargetRead \/ TargetCloses) /\ UNCHANGED backendVars
  <2>1. UNCHANGED <<tgtGot, cliR, cliDat, c2s, pump, pumpDat, upW, upWDat, sess, tx>>
    BY ONLY <1>21 DEF TargetRead, TargetCloses, txVars, appVars, dialVars, copyVars,
       backendVars, targetVars, readerVars, sessionVars
  <2> QED
    BY <2>1
<1>22. CASE UNCHANGED vars
  BY <1>22 DEF vars
<1> HIDE DEF UpAhead, UpIsStream, ReaderNext, WireNext, PumpNext, WriterNext, UpBehind, UpTied,
   Relays, Opened, Taken, ReaderHolds, PumpHolds, WriterHolds, AppHolds, Holds, Opening,
   Undialled, AppTypes, WireTypes
<1> QED
  BY <1>1, <1>2, <1>3, <1>4, <1>5, <1>6, <1>7, <1>8, <1>9, <1>10, <1>11, <1>12, <1>13, <1>14,
     <1>15, <1>16, <1>17, <1>18, <1>19, <1>20, <1>21, <1>22, NextCases

(* Every step keeps the numbers of the way up, counted from the application. *)
LEMMA UpBehindStep == IInv /\ [Next]_vars => UpBehind'
<1> SUFFICES ASSUME IInv, [Next]_vars PROVE UpBehind'
  OBVIOUS
<1> USE DEF IInv, Types, UpAligned, DownAligned, UpBehind, AppHolds, Holds, AppTypes, txVars,
   appVars, dialVars, copyVars, backendVars, targetVars, readerVars, sessionVars
<1>1. CASE Established /\ UNCHANGED sessionVars
  BY <1>1 DEF Established, Opening
<1>2. CASE AppQueue /\ UNCHANGED sessionVars
  BY <1>2 DEF AppQueue
<1>3. CASE UpTake /\ UNCHANGED sessionVars
  BY <1>3 DEF UpTake
<1>4. CASE AppRead /\ UNCHANGED sessionVars
  BY <1>4 DEF AppRead
<1>5. CASE (Refused \/ CloseVirtual \/ CloseTx \/ ProxyDown \/ ProxyErr \/ WorkerRecv \/
            DialAnswer \/ UpToPump \/ UpCancelled \/ VirtualRead \/ VirtualReadChunk \/
            VirtualQueue \/ PumpWrite \/ Handshake \/ HandleRequest \/ DialRequest \/
            DialTimeout \/ WorkerEnds \/ AppCloses) /\ UNCHANGED sessionVars
  <2>1. UNCHANGED <<appR, appDat, appSent, chUp>>
    BY ONLY <1>5 DEF Refused, CloseVirtual, CloseTx, ProxyDown, ProxyErr, WorkerRecv,
       DialAnswer, UpToPump, UpCancelled, VirtualRead, VirtualReadChunk, VirtualQueue,
       PumpWrite, Handshake, HandleRequest, DialRequest, DialTimeout, WorkerEnds, AppCloses,
       GiveUp, txVars, appVars, dialVars, copyVars, backendVars, targetVars, readerVars,
       sessionVars
  <2> QED
    BY <2>1
<1>6. CASE (SessionRequest \/ SessionDial \/ SessionAnswer \/ LoopUp \/ LoopDown \/ LoopWrite \/
            LoopErr \/ SessionCloses \/ TargetRead \/ ClientRead \/ TargetCloses) /\ UNCHANGED
            backendVars
  <2>1. UNCHANGED <<appR, appDat, appSent, chUp>>
    BY ONLY <1>6 DEF SessionRequest, SessionDial, SessionAnswer, LoopUp, LoopDown, LoopWrite,
       LoopErr, SessionCloses, TargetRead, ClientRead, TargetCloses, txVars, appVars, dialVars,
       copyVars, backendVars, targetVars, readerVars, sessionVars
  <2> QED
    BY <2>1
<1>7. CASE TxBreaks /\ UNCHANGED <<backendVars, sessionVars>>
  BY <1>7 DEF TxBreaks
<1>8. CASE UNCHANGED vars
  BY <1>8 DEF vars
<1> HIDE DEF UpBehind, AppHolds, Holds, AppTypes
<1> QED
  BY <1>1, <1>2, <1>3, <1>4, <1>5, <1>6, <1>7, <1>8, NextCases

(* No step leaves a chunk out between the two. *)
LEMMA UpTiedStep == IInv /\ [Next]_vars => UpTied'
<1> SUFFICES ASSUME IInv, [Next]_vars PROVE UpTied'
  OBVIOUS
<1> USE DEF IInv, Types, UpAligned, DownAligned, UpTied, Relays, Opened, Taken, ReaderHolds,
   PumpHolds, WriterHolds, AppHolds, Holds, Opening, AppTypes, WireTypes, txVars, appVars,
   dialVars, copyVars, backendVars, targetVars, readerVars, sessionVars
<1>1. CASE Established /\ UNCHANGED sessionVars
  BY <1>1 DEF Established
<1>2. CASE CloseVirtual /\ UNCHANGED sessionVars
  BY <1>2 DEF CloseVirtual, PumpReturns
<1>3. CASE CloseTx /\ UNCHANGED sessionVars
  BY <1>3 DEF CloseTx
<1>4. CASE DialAnswer /\ UNCHANGED sessionVars
  BY <1>4 DEF DialAnswer
<1>5. CASE AppQueue /\ UNCHANGED sessionVars
  <2>0. /\ Len(tgtGot) \in Nat /\ Len(c2s) \in Nat /\ Len(chUp) \in Nat /\ appSent \in Nat
        /\ Taken \in Nat
    BY SeqFacts
  <2>1. Len(chUp') = Len(chUp) + 1
    BY <1>5, SeqFacts DEF AppQueue
  <2> SUFFICES ASSUME Relays, Opened, tx = "up", upW' # "ended"
               PROVE  appSent' = Taken' + Len(c2s') + PumpHolds' + WriterHolds'
                                 + Len(chUp') + AppHolds'
    BY <1>5 DEF AppQueue
  <2>5. appSent = Taken + Len(c2s) + PumpHolds + WriterHolds + Len(chUp) + AppHolds
    BY <1>5 DEF AppQueue
  <2>6. AppHolds = 1 /\ AppHolds' = 0
    BY <1>5 DEF AppQueue
  <2>7. UNCHANGED <<appSent, Taken, c2s, PumpHolds, WriterHolds>>
    BY <1>5 DEF AppQueue
  <2> QED
    <3> HIDE DEF Taken, ReaderHolds, PumpHolds, WriterHolds, AppHolds
    <3> QED
      BY <2>0, <2>1, <2>5, <2>6, <2>7, HoldsOne
<1>6. CASE UpTake /\ UNCHANGED sessionVars
  <2>0. /\ Len(tgtGot) \in Nat /\ Len(c2s) \in Nat /\ Len(chUp) \in Nat /\ appSent \in Nat
        /\ Taken \in Nat
    BY SeqFacts
  <2>1. Len(chUp') = Len(chUp) - 1 /\ upW = "select" /\ upW' \in {"write", "ended"}
    BY <1>6, SeqFacts DEF UpTake
  <2> SUFFICES ASSUME Relays, Opened, tx = "up", upW' # "ended"
               PROVE  appSent' = Taken' + Len(c2s') + PumpHolds' + WriterHolds'
                                 + Len(chUp') + AppHolds'
    BY <1>6 DEF UpTake
  <2>5. appSent = Taken + Len(c2s) + PumpHolds + WriterHolds + Len(chUp) + AppHolds
    BY <1>6 DEF UpTake
  <2>6. WriterHolds = 0 /\ WriterHolds' = 1
    BY <1>6, <2>1 DEF UpTake
  <2>7. UNCHANGED <<appSent, Taken, c2s, PumpHolds, AppHolds>>
    BY <1>6 DEF UpTake
  <2> QED
    <3> HIDE DEF Taken, ReaderHolds, PumpHolds, WriterHolds, AppHolds
    <3> QED
      BY <2>0, <2>1, <2>5, <2>6, <2>7, HoldsOne
<1>7. CASE UpToPump /\ UNCHANGED sessionVars
  BY <1>7 DEF UpToPump
<1>8. CASE UpCancelled /\ UNCHANGED sessionVars
  BY <1>8 DEF UpCancelled
<1>9. CASE PumpWrite /\ UNCHANGED sessionVars
  <2>0. /\ Len(tgtGot) \in Nat /\ Len(c2s) \in Nat /\ Len(chUp) \in Nat /\ appSent \in Nat
        /\ Taken \in Nat
    BY SeqFacts
  <2>1. CASE tx # "up"
    BY <1>9, <2>1 DEF PumpWrite
  <2>2. CASE tx = "up"
    <3>1. Msg("data", <<pumpDat>>) \in UpMsg \cup {DialMsg}
      BY <1>9 DEF PumpWrite, UpMsg
    <3>2. Len(c2s') = Len(c2s) + 1
      BY <1>9, <2>2, <3>1, SeqFacts DEF PumpWrite
    <3>3. Opened
      BY <1>9 DEF PumpWrite
    <3> SUFFICES ASSUME Relays, upW # "ended"
                 PROVE  appSent' = Taken' + Len(c2s') + PumpHolds' + WriterHolds'
                                   + Len(chUp') + AppHolds'
      BY <1>9 DEF PumpWrite
    <3>5. appSent = Taken + Len(c2s) + PumpHolds + WriterHolds + Len(chUp) + AppHolds
      BY <2>2, <3>3
    <3>6. PumpHolds = 1 /\ PumpHolds' = 0
      BY <1>9, <2>2 DEF PumpWrite
    <3>7. UNCHANGED <<appSent, Taken, chUp, WriterHolds, AppHolds>>
      BY <1>9 DEF PumpWrite
    <3> QED
      <4> HIDE DEF Taken, ReaderHolds, PumpHolds, WriterHolds, AppHolds
      <4> QED
        BY <2>0, <3>2, <3>5, <3>6, <3>7, HoldsOne
  <2> QED
    BY <2>1, <2>2
<1>10. CASE DialRequest /\ UNCHANGED sessionVars
  <2>1. ~ Opened'
    BY <1>10 DEF DialRequest, Undialled
  <2> QED
    BY <2>1
<1>11. CASE AppRead /\ UNCHANGED sessionVars
  <2>0. /\ Len(tgtGot) \in Nat /\ Len(c2s) \in Nat /\ Len(chUp) \in Nat /\ appSent \in Nat
        /\ Taken \in Nat
    BY SeqFacts
  <2>1. CASE appSent' = appSent /\ appR' = "ended"
    BY <1>11, <2>1 DEF AppRead
  <2>2. CASE appSent' = appSent + 1 /\ appR' = "send"
    <3> SUFFICES ASSUME Relays, Opened, tx = "up", upW' # "ended"
                 PROVE  appSent' = Taken' + Len(c2s') + PumpHolds' + WriterHolds'
                                   + Len(chUp') + AppHolds'
      BY <1>11 DEF AppRead
    <3>5. appSent = Taken + Len(c2s) + PumpHolds + WriterHolds + Len(chUp) + AppHolds
      BY <1>11 DEF AppRead
    <3>6. AppHolds = 0 /\ AppHolds' = 1
      BY <1>11, <2>2 DEF AppRead
    <3>7. UNCHANGED <<Taken, c2s, PumpHolds, WriterHolds, chUp>>
      BY <1>11 DEF AppRead
    <3> QED
      <4> HIDE DEF Taken, ReaderHolds, PumpHolds, WriterHolds, AppHolds
      <4> QED
        BY <2>0, <2>2, <3>5, <3>6, <3>7, HoldsOne
  <2> QED
    BY <1>11, <2>1, <2>2 DEF AppRead
<1>12. CASE SessionRequest /\ UNCHANGED backendVars
  BY <1>12 DEF SessionRequest
<1>13. CASE SessionDial /\ UNCHANGED backendVars
  BY <1>13 DEF SessionDial
<1>14. CASE SessionAnswer /\ UNCHANGED backendVars
  <2>1. /\ ~ Opened /\ tgtGot' = << >> /\ c2s' = << >> /\ pump' = "none" /\ upW' = "none"
        /\ appR' = "none" /\ chUp' = << >> /\ appSent' = 0 /\ cliR' \in {"none", "read"}
    BY <1>14 DEF SessionAnswer
  <2>2. Len(tgtGot') = 0 /\ Len(c2s') = 0 /\ Len(chUp') = 0
    BY <2>1
  <2> QED
    BY <2>1, <2>2
<1>15. CASE LoopUp /\ UNCHANGED backendVars
  <2>0. /\ Len(tgtGot) \in Nat /\ Len(c2s) \in Nat /\ Len(chUp) \in Nat /\ appSent \in Nat
        /\ Taken \in Nat
    BY SeqFacts
  <2>1. CASE sess' = "closing"
    BY <2>1
  <2>2. CASE tgtGot' = Append(tgtGot, cliDat) /\ sess' = sess
    <3>1. Len(tgtGot') = Len(tgtGot) + 1
      BY <1>15, <2>2, SeqFacts DEF LoopUp
    <3> QED
      BY <1>15, <2>0, <2>2, <3>1 DEF LoopUp
  <2> QED
    BY <1>15, <2>1, <2>2 DEF LoopUp
<1>16. CASE LoopDown /\ UNCHANGED backendVars
  BY <1>16 DEF LoopDown
<1>17. CASE LoopWrite /\ UNCHANGED backendVars
  BY <1>17 DEF LoopWrite, ToClient
<1>18. CASE LoopErr /\ UNCHANGED backendVars
  BY <1>18 DEF LoopErr
<1>19. CASE SessionCloses /\ UNCHANGED backendVars
  BY <1>19 DEF SessionCloses
<1>20. CASE ClientRead /\ UNCHANGED backendVars
  <2>0. /\ Len(tgtGot) \in Nat /\ Len(c2s) \in Nat /\ Len(chUp) \in Nat /\ appSent \in Nat
        /\ Taken \in Nat
    BY SeqFacts
  <2>1. CASE c2s' = c2s /\ cliR' = "ended"
    BY <1>20, <2>0, <2>1 DEF ClientRead
  <2>2. CASE c2s # << >> /\ c2s' = Tail(c2s) /\ cliR' = "send"
    <3>1. Len(c2s') = Len(c2s) - 1
      BY <2>2, SeqFacts
    <3> QED
      BY <1>20, <2>0, <2>2, <3>1 DEF ClientRead
  <2> QED
    BY <1>20, <2>1, <2>2 DEF ClientRead
<1>21. CASE TxBreaks /\ UNCHANGED <<backendVars, sessionVars>>
  BY <1>21 DEF TxBreaks
<1>22. CASE (Refused \/ ProxyDown \/ ProxyErr \/ WorkerRecv \/ VirtualRead \/ VirtualReadChunk
             \/ VirtualQueue \/ Handshake \/ HandleRequest \/ DialTimeout \/ WorkerEnds \/
             AppCloses) /\ UNCHANGED sessionVars
  <2>1. UNCHANGED <<tgtGot, cliR, c2s, pump, upW, chUp, appR, appSent, sess, tx>>
    BY ONLY <1>22 DEF Refused, ProxyDown, ProxyErr, WorkerRecv, VirtualRead, VirtualReadChunk,
       VirtualQueue, Handshake, HandleRequest, DialTimeout, WorkerEnds, AppCloses, GiveUp,
       txVars, appVars, dialVars, copyVars, backendVars, targetVars, readerVars, sessionVars
  <2> QED
    BY <2>1
<1>23. CASE (TargetRead \/ TargetCloses) /\ UNCHANGED backendVars
  <2>1. UNCHANGED <<tgtGot, cliR, c2s, pump, upW, chUp, appR, appSent, sess, tx>>
    BY ONLY <1>23 DEF TargetRead, TargetCloses, txVars, appVars, dialVars, copyVars,
       backendVars, targetVars, readerVars, sessionVars
  <2> QED
    BY <2>1
<1>24. CASE UNCHANGED vars
  BY <1>24 DEF vars
<1> HIDE DEF UpTied, Relays, Opened, Taken, ReaderHolds, PumpHolds, WriterHolds, AppHolds,
   Holds, Opening, AppTypes, WireTypes
<1> QED
  BY <1>1, <1>2, <1>3, <1>4, <1>5, <1>6, <1>7, <1>8, <1>9, <1>10, <1>11, <1>12, <1>13, <1>14,
     <1>15, <1>16, <1>17, <1>18, <1>19, <1>20, <1>21, <1>22, <1>23, <1>24, NextCases

(* Every step keeps what the session holds for the client to its last chunks. *)
LEMMA DownBehindStep == IInv /\ [Next]_vars => DownBehind'
<1> SUFFICES ASSUME IInv, [Next]_vars PROVE DownBehind'
  OBVIOUS
<1> USE DEF IInv, Types, UpAligned, DownAligned, DownBehind, TargetHolds, LoopHolds, Holds,
   WireTypes, txVars, appVars, dialVars, copyVars, backendVars, targetVars, readerVars,
   sessionVars
<1>1. CASE SessionRequest /\ UNCHANGED backendVars
  BY <1>1 DEF SessionRequest
<1>2. CASE SessionDial /\ UNCHANGED backendVars
  BY <1>2 DEF SessionDial
<1>3. CASE SessionAnswer /\ UNCHANGED backendVars
  BY <1>3 DEF SessionAnswer, ToClient
<1>4. CASE LoopUp /\ UNCHANGED backendVars
  BY <1>4 DEF LoopUp
<1>5. CASE LoopDown /\ UNCHANGED backendVars
  BY <1>5 DEF LoopDown
<1>6. CASE LoopWrite /\ UNCHANGED backendVars
  BY <1>6 DEF LoopWrite, ToClient
<1>7. CASE LoopErr /\ UNCHANGED backendVars
  BY <1>7 DEF LoopErr
<1>8. CASE SessionCloses /\ UNCHANGED backendVars
  BY <1>8 DEF SessionCloses
<1>9. CASE TargetRead /\ UNCHANGED backendVars
  <2>1. tgtR' = "send" => tgtDat' = Chunk(tgtSent' - 1)
    BY <1>9 DEF TargetRead, Chunk
  <2>2. sess = "write" => sessDat = Chunk(tgtSent - 1)
    BY <1>9 DEF TargetRead
  <2> QED
    BY <1>9, <2>1, <2>2, Constants DEF TargetRead
<1>10. CASE (Refused \/ Established \/ CloseVirtual \/ CloseTx \/ ProxyDown \/ ProxyErr \/
             WorkerRecv \/ DialAnswer \/ AppQueue \/ UpTake \/ UpToPump \/ UpCancelled \/
             VirtualRead \/ VirtualReadChunk \/ VirtualQueue \/ PumpWrite \/ Handshake \/
             HandleRequest \/ DialRequest \/ DialTimeout \/ WorkerEnds \/ AppRead \/ AppCloses)
             /\ UNCHANGED sessionVars
  <2>1. UNCHANGED <<tgtR, tgtDat, tgtSent, sess, sessDat>>
    BY ONLY <1>10 DEF Refused, Established, CloseVirtual, CloseTx, ProxyDown, ProxyErr,
       WorkerRecv, DialAnswer, AppQueue, UpTake, UpToPump, UpCancelled, VirtualRead,
       VirtualReadChunk, VirtualQueue, PumpWrite, Handshake, HandleRequest, DialRequest,
       DialTimeout, WorkerEnds, AppRead, AppCloses, GiveUp, txVars, appVars, dialVars, copyVars,
       backendVars, targetVars, readerVars, sessionVars
  <2> QED
    BY <2>1
<1>11. CASE (ClientRead \/ TargetCloses) /\ UNCHANGED backendVars
  <2>1. UNCHANGED <<tgtR, tgtDat, tgtSent, sess, sessDat>>
    BY ONLY <1>11 DEF ClientRead, TargetCloses, txVars, appVars, dialVars, copyVars,
       backendVars, targetVars, readerVars, sessionVars
  <2> QED
    BY <2>1
<1>12. CASE TxBreaks /\ UNCHANGED <<backendVars, sessionVars>>
  BY <1>12 DEF TxBreaks
<1>13. CASE UNCHANGED vars
  BY <1>13 DEF vars
<1> HIDE DEF DownBehind, TargetHolds, LoopHolds, Holds, WireTypes
<1> QED
  BY <1>1, <1>2, <1>3, <1>4, <1>5, <1>6, <1>7, <1>8, <1>9, <1>10, <1>11, <1>12, <1>13, NextCases

-----------------------------------------------------------------------------
(* Steps that only stop a goroutine, or move a chunk between the reader of the target *)
(* and the loop, keep the numbers of the way down.                                    *)
LEMMA DownFrame ==
    ASSUME NEW w \in Nat, DownAhead(w),
           UNCHANGED <<appGot, chDown, upDat, bufRead, s2c, wkMsg>>,
           upR' = upR \/ {upR, upR'} \subseteq {"none", "read", "wait", "ended"},
           wk' = wk \/ {wk, wk'} \subseteq {"none", "read", "state", "ended"},
           watch' => watch,
           tx' = "up" /\ Relays' =>
               /\ tx = "up" /\ Relays
               /\ tgtSent' - LoopHolds' - TargetHolds' = tgtSent - LoopHolds - TargetHolds,
           tgtSent \in Nat, tgtSent' \in Nat, s2c \in Seq(DownMsg \cup {OpenMsg, ErrorMsg})
    PROVE  DownAhead(w)'
<1>1. ReadHolds' = ReadHolds /\ Given' = Given /\ (upR' = "send" => upR = "send")
  BY DEF ReadHolds, Holds, Given
<1>2. WorkerHolds' = WorkerHolds /\ (wk' = "data" => wk = "data")
  BY DEF WorkerHolds, Holds
<1>3. StateAhead' = StateAhead
  BY DEF StateAhead
<1>4. DownQueued' /\ ReadNext' /\ BufferNext' /\ Whole(w)' /\ WorkerNext(w)'
  BY <1>1, <1>2 DEF DownAhead, DownQueued, ReadNext, BufferNext, Whole, WorkerNext
<1>5. AnswerNext(w)'
  BY <1>2, <1>3 DEF DownAhead, AnswerNext
<1>6. DownTied(w)'
  <2> SUFFICES ASSUME watch', tx' = "up", Relays'
               PROVE  tgtSent' = w + WorkerHolds + Len(s2c) - StateAhead + LoopHolds' + TargetHolds'
    BY <1>2, <1>3 DEF DownTied
  <2>1. tgtSent = w + WorkerHolds + Len(s2c) - StateAhead + LoopHolds + TargetHolds
    BY DEF DownAhead, DownTied
  <2>2. /\ WorkerHolds \in Nat /\ LoopHolds \in Nat /\ TargetHolds \in Nat /\ StateAhead \in Nat
        /\ LoopHolds' \in Nat /\ TargetHolds' \in Nat /\ Len(s2c) \in Nat
        /\ w \in Nat /\ tgtSent \in Nat /\ tgtSent' \in Nat
    BY SeqFacts DEF WorkerHolds, LoopHolds, TargetHolds, StateAhead, Holds
  <2>3. tgtSent' - LoopHolds' - TargetHolds' = tgtSent - LoopHolds - TargetHolds
    OBVIOUS
  <2>4. PICK sent \in Nat, loop \in Nat, reader \in Nat :
            sent = tgtSent' /\ loop = LoopHolds' /\ reader = TargetHolds'
    BY ONLY <2>2
  <2>5. PICK s \in Nat, l \in Nat, r \in Nat, h \in Nat, n \in Nat, a \in Nat :
            /\ s = tgtSent /\ l = LoopHolds /\ r = TargetHolds
            /\ h = WorkerHolds /\ n = Len(s2c) /\ a = StateAhead
    BY ONLY <2>2
  <2>6. sent - loop - reader = s - l - r /\ s = w + h + n - a + l + r
    BY ONLY <2>1, <2>3, <2>4, <2>5
  <2>7. sent = w + h + n - a + loop + reader
    BY ONLY <2>6, w \in Nat
  <2> QED
    BY ONLY <2>4, <2>5, <2>7
<1> QED
  BY <1>4, <1>5, <1>6 DEF DownAhead

(* Before the first chunk there is nothing to number. *)
Blank ==
    /\ appGot = << >> /\ chDown = << >> /\ bufRead = << >> /\ tgtSent = 0
    /\ upR # "send" /\ wk # "data" /\ tgtR # "send" /\ sess # "write"
    /\ s2c \in {<< >>, <<OpenMsg>>, <<ErrorMsg>>}

(* Blank gives the numbers of the way down, with no chunk out of the worker's hands. *)
LEMMA BlankAligned == Blank => DownAhead(0)
<1> SUFFICES ASSUME Blank PROVE DownAhead(0)
  OBVIOUS
<1>1. Given = 0 /\ Len(bufRead) = 0 /\ 0 * Slices = 0
  BY Constants DEF Blank, Given, ReadHolds, Holds
<1>2. WorkerHolds = 0 /\ LoopHolds = 0 /\ TargetHolds = 0
  BY DEF Blank, WorkerHolds, LoopHolds, TargetHolds, Holds
<1>3. s2c = << >> \/ \E m \in {OpenMsg, ErrorMsg} : s2c = <<m>>
  BY DEF Blank
<1>4. Len(s2c) = StateAhead /\ StateAhead \in {0, 1}
  <2>1. CASE s2c = << >>
    BY <2>1 DEF StateAhead, Holds
  <2>2. ASSUME NEW m \in {OpenMsg, ErrorMsg}, s2c = <<m>> PROVE Len(s2c) = StateAhead /\
     StateAhead \in {0, 1}
    <3>1. m.kind = "state"
      BY DEF OpenMsg, ErrorMsg, Msg
    <3> QED
      BY <2>2, <3>1 DEF StateAhead, Holds
  <2> QED
    BY <1>3, <2>1, <2>2
<1>5. DownQueued /\ ReadNext /\ BufferNext /\ WorkerNext(0)
  BY DEF Blank, DownQueued, ReadNext, BufferNext, WorkerNext
<1>6. Whole(0)
  BY <1>1 DEF Whole
<1>7. AnswerNext(0)
  BY <1>4 DEF AnswerNext
<1>8. DownTied(0)
  BY <1>2, <1>4 DEF DownTied, Blank
<1> QED
  BY <1>5, <1>6, <1>7, <1>8 DEF DownAhead

(* The same of the states that IInv describes. *)
LEMMA DownKept ==
    ASSUME IInv,
           UNCHANGED <<appGot, chDown, upDat, bufRead, s2c, wkMsg>>,
           upR' = upR \/ {upR, upR'} \subseteq {"none", "read", "wait", "ended"},
           wk' = wk \/ {wk, wk'} \subseteq {"none", "read", "state", "ended"},
           watch' => watch, Writes' => Writes, tgtSent' \in Nat,
           tx' = "up" /\ Relays' =>
               /\ tx = "up" /\ Relays
               /\ tgtSent' - LoopHolds' - TargetHolds' = tgtSent - LoopHolds - TargetHolds
    PROVE  DownIsStream' /\ DownNumbered'
<1>1. DownIsStream'
  BY DEF IInv, DownAligned, DownIsStream
<1>2. ASSUME Writes' PROVE \E w \in Nat : DownAhead(w)'
  <2>1. PICK w \in Nat : DownAhead(w)
    BY <1>2 DEF IInv, DownAligned, DownNumbered
  <2>2. tgtSent \in Nat /\ s2c \in Seq(DownMsg \cup {OpenMsg, ErrorMsg})
    BY DEF IInv, Types, WireTypes
  <2>3. DownAhead(w)'
    BY <2>1, <2>2, DownFrame
  <2> QED
    BY <2>3
<1> QED
  BY <1>1, <1>2 DEF DownNumbered

(* Where the loop and the reader of the target stay, so do their chunks. *)
LEMMA LoopStays ==
    sess' = sess /\ tgtR' = tgtR =>
        /\ LoopHolds' = LoopHolds /\ TargetHolds' = TargetHolds
        /\ LoopHolds \in Nat /\ TargetHolds \in Nat
BY DEF LoopHolds, TargetHolds, Holds

(* Every step keeps the numbers of the way down. *)
LEMMA DownStep == IInv /\ [Next]_vars => DownIsStream' /\ DownNumbered'
<1> SUFFICES ASSUME IInv, [Next]_vars PROVE DownIsStream' /\ DownNumbered'
  OBVIOUS
<1> USE DEF txVars, appVars, dialVars, copyVars, backendVars, targetVars, readerVars, sessionVars
<1>1. CASE Refused /\ UNCHANGED sessionVars
  BY <1>1, DownKept DEF Refused, IInv, Types, WireTypes, Writes, Relays, LoopHolds, TargetHolds
<1>2. CASE Established /\ UNCHANGED sessionVars
  BY <1>2, DownKept DEF Established, IInv, Types, WireTypes, Opening, Writes, Relays, LoopHolds,
     TargetHolds
<1>3. CASE CloseVirtual /\ UNCHANGED sessionVars
  BY <1>3, DownKept DEF CloseVirtual, PumpReturns, IInv, Types, WireTypes, Writes, Relays,
     LoopHolds, TargetHolds
<1>4. CASE CloseTx /\ UNCHANGED sessionVars
  BY <1>4, DownKept DEF CloseTx, IInv, Types, WireTypes, Writes
<1>5. CASE ProxyDown /\ UNCHANGED sessionVars
  <2>0. /\ hpc = "proxy" /\ chDown # << >> /\ chDown' = Tail(chDown)
        /\ UNCHANGED <<upR, upDat, bufRead, wk, wkMsg, watch, s2c, tx, sess, tgtSent, tgtR>>
    BY <1>5 DEF ProxyDown
  <2>1. CASE hpc' = "closing" /\ appGot' = appGot
    BY <2>1 DEF IInv, DownAligned, DownIsStream, DownNumbered, Writes
  <2>2. CASE hpc' = hpc /\ appGot' = Append(appGot, Head(chDown))
    <3>1. PICK w \in Nat : DownAhead(w)
      BY <2>0 DEF IInv, DownAligned, DownNumbered, Writes
    <3>2. /\ Len(chDown) \in Nat /\ Len(chDown) > 0 /\ Head(chDown) = chDown[1]
          /\ Len(chDown') = Len(chDown) - 1 /\ Head(chDown) \in Down
          /\ \A i \in 1..Len(chDown) - 1 : chDown'[i] = chDown[i + 1]
      BY <2>0, SeqFacts DEF IInv, Types, DownTypes
    <3>3. /\ Len(appGot) \in Nat /\ Len(appGot') = Len(appGot) + 1
          /\ \A i \in 1..Len(appGot) : appGot'[i] = appGot[i]
          /\ appGot'[Len(appGot) + 1] = Head(chDown)
      BY <2>2, <3>2, SeqFacts DEF IInv, Types, DownTypes
    <3>4. \A i \in 1..Len(chDown) : chDown[i] = Len(appGot) + i
      BY <3>1 DEF DownAhead, DownQueued
    <3>5. Head(chDown) = Len(appGot) + 1
      BY <3>2, <3>4
    <3>6. DownIsStream'
      <4>1. \A i \in 1..Len(appGot) : appGot[i] = i
        BY DEF IInv, DownAligned, DownIsStream
      <4> QED
        BY <3>3, <3>5, <4>1 DEF DownIsStream
    <3>7. DownQueued'
      BY <3>2, <3>3, <3>4 DEF DownQueued
    <3>8. ReadHolds' = ReadHolds /\ ReadHolds \in Nat
      BY <2>0 DEF ReadHolds, Holds
    <3>9. Given' = Given
      BY <3>2, <3>3, <3>8 DEF Given
    <3>10. WorkerHolds' = WorkerHolds /\ StateAhead' = StateAhead
      BY <2>0 DEF WorkerHolds, StateAhead
    <3>11. LoopHolds' = LoopHolds /\ TargetHolds' = TargetHolds /\ (Relays' <=> Relays)
      BY <2>0 DEF LoopHolds, TargetHolds, Relays
    <3>12. ReadNext' /\ BufferNext' /\ Whole(w)' /\ WorkerNext(w)'
      BY <2>0, <3>1, <3>9 DEF DownAhead, ReadNext, BufferNext, Whole, WorkerNext
    <3>13. AnswerNext(w)' /\ DownTied(w)'
      BY <2>0, <3>1, <3>10, <3>11 DEF DownAhead, AnswerNext, DownTied
    <3> QED
      BY <3>6, <3>7, <3>12, <3>13 DEF DownAhead, DownNumbered
  <2> QED
    BY <1>5, <2>1, <2>2 DEF ProxyDown
<1>6. CASE ProxyErr /\ UNCHANGED sessionVars
  BY <1>6, DownKept DEF ProxyErr, IInv, Types, WireTypes, Writes, Relays, LoopHolds, TargetHolds
<1>7. CASE WorkerRecv /\ UNCHANGED sessionVars
  <2>0. /\ UNCHANGED <<appGot, chDown, upR, upDat, bufRead, watch, tx, sess, tgtSent, tgtR, hpc>>
        /\ wk = "read" /\ s2c # << >> /\ s2c' = Tail(s2c)
    BY <1>7 DEF WorkerRecv
  <2>1. CASE ~ Writes
    BY <2>0, <2>1 DEF IInv, DownAligned, DownIsStream, DownNumbered, Writes
  <2>2. CASE Writes
    <3>1. PICK w \in Nat : DownAhead(w)
      BY <2>2 DEF IInv, DownAligned, DownNumbered
    <3>2. Given' = Given /\ DownQueued' /\ ReadNext' /\ BufferNext' /\ Whole(w)'
      BY <2>0, <3>1 DEF DownAhead, DownQueued, ReadNext, BufferNext, Whole, Given, ReadHolds
    <3>3. CASE ~ watch /\ UNCHANGED <<wk, wkMsg>>
      <4>1. WorkerNext(w)' /\ AnswerNext(w)' /\ DownTied(w)'
        BY <2>0, <3>1, <3>3 DEF DownAhead, WorkerNext, AnswerNext, DownTied
      <4> QED
        BY <2>0, <3>2, <4>1 DEF DownAhead, DownNumbered, IInv, DownAligned, DownIsStream
    <3>4. CASE watch /\ wk' = Head(s2c).kind /\ wkMsg' = Head(s2c).dat
      <4>1. /\ Len(s2c) \in Nat /\ Len(s2c) > 0 /\ Head(s2c) = s2c[1]
            /\ s2c[1] \in DownMsg \cup {OpenMsg, ErrorMsg}
            /\ Len(s2c') = Len(s2c) - 1
            /\ \A i \in 1..Len(s2c) - 1 : s2c'[i] = s2c[i + 1]
            /\ s2c' # << >> => Len(s2c) - 1 > 0
        BY <2>0, SeqFacts DEF IInv, Types, WireTypes
      <4>2. s2c[1].kind \in {"state", "data"}
        BY <4>1 DEF DownMsg, OpenMsg, ErrorMsg, Msg
      <4>3. WorkerHolds = 0
        BY <2>0 DEF WorkerHolds, Holds
      <4>4. \A i \in 1..Len(s2c) :
               i > StateAhead => s2c[i] = Msg("data", Chunk(w + i - StateAhead - 1))
        BY <3>1, <3>4, <4>3 DEF DownAhead, AnswerNext
      <4>5. StateAhead' = 0
        <5>1. \A i \in 2..Len(s2c) : s2c[i].kind = "data"
          <6> TAKE i \in 2..Len(s2c)
          <6>1. StateAhead \in {0, 1}
            BY DEF StateAhead, Holds
          <6>2. i \in 1..Len(s2c) /\ i > StateAhead
            BY <4>1, <6>1
          <6>3. s2c[i] = Msg("data", Chunk(w + i - StateAhead - 1))
            BY <4>4, <6>2
          <6> QED
            BY <6>3 DEF Msg
        <5>2. s2c' # << >> => s2c'[1].kind = "data"
          BY <4>1, <5>1
        <5> QED
          BY <5>2 DEF StateAhead, Holds
      <4>6. tx = "up" /\ Relays => tgtSent = w + Len(s2c) - StateAhead + LoopHolds + TargetHolds
        BY <3>1, <3>4, <4>3 DEF DownAhead, DownTied
      <4>7. LoopHolds \in Nat /\ TargetHolds \in Nat /\ UNCHANGED <<LoopHolds, TargetHolds, Relays>>
        BY <2>0 DEF LoopHolds, TargetHolds, Relays, Holds
      <4>8. CASE s2c[1].kind = "state"
        <5>1. StateAhead = 1 /\ WorkerHolds' = 0 /\ wk' = "state"
          BY <2>0, <3>4, <4>1, <4>8 DEF StateAhead, WorkerHolds, Holds
        <5>2. AnswerNext(w)'
          <6> SUFFICES ASSUME NEW i \in 1..Len(s2c) - 1
                       PROVE  s2c'[i] = Msg("data", Chunk(w + 0 + i - 0 - 1))
            BY <4>1, <4>5, <5>1 DEF AnswerNext
          <6>1. s2c[i + 1] = Msg("data", Chunk(w + (i + 1) - 1 - 1))
            BY <4>1, <4>4, <5>1
          <6>2. w + (i + 1) - 1 - 1 = w + 0 + i - 0 - 1
            BY <4>1
          <6> QED
            BY <4>1, <6>1, <6>2
        <5>3. DownTied(w)'
          BY <2>0, <4>1, <4>5, <4>6, <4>7, <5>1 DEF DownTied
        <5>4. WorkerNext(w)'
          BY <5>1 DEF WorkerNext
        <5> QED
          BY <2>0, <3>2, <5>2, <5>3, <5>4 DEF DownAhead, DownNumbered, IInv, DownAligned,
             DownIsStream
      <4>9. CASE s2c[1].kind = "data"
        <5>1. StateAhead = 0 /\ WorkerHolds' = 1 /\ wk' = "data"
          BY <2>0, <3>4, <4>1, <4>9 DEF StateAhead, WorkerHolds, Holds
        <5>2. AnswerNext(w)'
          <6> SUFFICES ASSUME NEW i \in 1..Len(s2c) - 1
                       PROVE  s2c'[i] = Msg("data", Chunk(w + 1 + i - 0 - 1))
            BY <4>1, <4>5, <5>1 DEF AnswerNext
          <6>1. s2c[i + 1] = Msg("data", Chunk(w + (i + 1) - 0 - 1))
            BY <4>1, <4>4, <5>1
          <6>2. w + (i + 1) - 0 - 1 = w + 1 + i - 0 - 1
            BY <4>1
          <6> QED
            BY <4>1, <6>1, <6>2
        <5>3. DownTied(w)'
          BY <2>0, <4>1, <4>5, <4>6, <4>7, <5>1 DEF DownTied
        <5>4. WorkerNext(w)'
          <6>1. s2c[1] = Msg("data", Chunk(w + 1 - 0 - 1))
            BY <4>1, <4>4, <5>1
          <6>2. w + 1 - 0 - 1 = w
            OBVIOUS
          <6>3. s2c[1].dat = Chunk(w)
            BY <6>1, <6>2 DEF Msg
          <6> QED
            BY <3>4, <4>1, <6>3 DEF WorkerNext
        <5> QED
          BY <2>0, <3>2, <5>2, <5>3, <5>4 DEF DownAhead, DownNumbered, IInv, DownAligned,
             DownIsStream
      <4> QED
        BY <4>2, <4>8, <4>9
    <3> QED
      BY <1>7, <3>3, <3>4 DEF WorkerRecv
  <2> QED
    BY <2>1, <2>2
<1>8. CASE DialAnswer /\ UNCHANGED sessionVars
  BY <1>8, DownKept DEF DialAnswer, IInv, Types, WireTypes, Writes, Relays, LoopHolds, TargetHolds
<1>9. CASE VirtualRead /\ UNCHANGED sessionVars
  <2>0. UNCHANGED <<appGot, chDown, wk, wkMsg, watch, s2c, tx, sess, tgtSent, tgtR, hpc>>
    BY <1>9 DEF VirtualRead
  <2>1. CASE UNCHANGED <<upDat, bufRead>> /\ upR = "read" /\ upR' \in {"ended", "wait"}
    BY <2>0, <2>1, DownKept, LoopStays DEF Relays, Writes, IInv, Types, WireTypes
  <2>2. CASE /\ bufRead # << >> /\ upDat' = Head(bufRead) /\ bufRead' = Tail(bufRead)
             /\ upR = "read" /\ upR' = "send" /\ Writes
    <3>1. PICK w \in Nat : DownAhead(w)
      BY <2>2 DEF IInv, DownAligned, DownNumbered
    <3>2. /\ Len(bufRead) \in Nat /\ Len(bufRead) > 0 /\ Head(bufRead) = bufRead[1]
          /\ Len(bufRead') = Len(bufRead) - 1
          /\ \A i \in 1..Len(bufRead) - 1 : bufRead'[i] = bufRead[i + 1]
      BY <2>2, SeqFacts DEF IInv, Types, DownTypes
    <3>3. Given' = Given + 1 /\ Given \in Nat
      BY <2>0, <2>2, SeqFacts DEF Given, ReadHolds, Holds, IInv, Types, DownTypes
    <3>4. \A i \in 1..Len(bufRead) : bufRead[i] = Given + i
      BY <3>1 DEF DownAhead, BufferNext
    <3>5. ReadNext'
      BY <2>2, <3>2, <3>3, <3>4 DEF ReadNext
    <3>6. BufferNext'
      BY <3>2, <3>3, <3>4 DEF BufferNext
    <3>7. Whole(w)'
      BY <3>1, <3>2, <3>3 DEF DownAhead, Whole
    <3>8. DownQueued' /\ WorkerNext(w)'
      BY <2>0, <3>1 DEF DownAhead, DownQueued, WorkerNext
    <3>9. AnswerNext(w)' /\ DownTied(w)'
      BY <2>0, <3>1, LoopStays DEF DownAhead, AnswerNext, DownTied, Relays, WorkerHolds, StateAhead
    <3> QED
      BY <2>0, <3>5, <3>6, <3>7, <3>8, <3>9 DEF DownAhead, DownNumbered, IInv, DownAligned,
         DownIsStream
  <2>3. CASE ~ Writes
    BY <2>0, <2>3 DEF IInv, DownAligned, DownIsStream, DownNumbered, Writes
  <2> QED
    BY <1>9, <2>1, <2>2, <2>3 DEF VirtualRead
<1>10. CASE VirtualReadChunk /\ UNCHANGED sessionVars
  <2>0. /\ UNCHANGED <<appGot, chDown, watch, s2c, tx, sess, tgtSent, tgtR, hpc>>
        /\ upR = "wait" /\ upR' = "send" /\ wk = "data" /\ wk' = "read" /\ bufRead = << >>
        /\ upDat' = Head(wkMsg) /\ bufRead' = Tail(wkMsg)
    BY <1>10 DEF VirtualReadChunk, IInv, Types, DownTypes
  <2>1. CASE ~ Writes
    BY <2>0, <2>1 DEF IInv, DownAligned, DownIsStream, DownNumbered, Writes
  <2>2. CASE Writes
    <3>1. PICK w \in Nat : DownAhead(w)
      BY <2>2 DEF IInv, DownAligned, DownNumbered
    <3>2. wkMsg = Chunk(w) /\ Given = w * Slices
      BY <2>0, <3>1, SeqFacts DEF DownAhead, WorkerNext, Whole, Given, ReadHolds, Holds, IInv,
         Types, DownTypes
    <3>3. /\ Chunk(w) \in Seq(Nat) /\ Chunk(w) # << >> /\ Len(Chunk(w)) = Slices
          /\ w * Slices \in Nat
          /\ \A i \in 1..Slices : Chunk(w)[i] = w * Slices + i
      BY ChunkFacts
    <3>4. /\ upDat' = w * Slices + 1 /\ Len(bufRead') = Slices - 1
          /\ \A i \in 1..Slices - 1 : bufRead'[i] = w * Slices + (i + 1)
      BY <2>0, <3>2, <3>3, SeqFacts, Constants
    <3>5. Given' = Given + 1
      BY <2>0, SeqFacts DEF Given, ReadHolds, Holds, IInv, Types, DownTypes
    <3>6. ReadNext' /\ BufferNext'
      BY <3>2, <3>3, <3>4, <3>5, Constants DEF ReadNext, BufferNext
    <3>7. Whole(w + 1)'
      <4>1. (w + 1) * Slices = w * Slices + Slices
        BY Constants
      <4> QED
        BY <3>2, <3>3, <3>4, <3>5, <4>1, Constants DEF Whole
    <3>8. WorkerHolds = 1 /\ WorkerHolds' = 0
      BY <2>0 DEF WorkerHolds, Holds
    <3>9. AnswerNext(w + 1)'
      BY <2>0, <3>1, <3>8 DEF DownAhead, AnswerNext, StateAhead
    <3>10. DownTied(w + 1)'
      BY <2>0, <3>1, <3>8, LoopStays DEF DownAhead, DownTied, Relays, StateAhead
    <3>11. DownQueued' /\ WorkerNext(w + 1)'
      BY <2>0, <3>1 DEF DownAhead, DownQueued, WorkerNext
    <3>12. DownAhead(w + 1)' /\ w + 1 \in Nat
      BY <3>6, <3>7, <3>9, <3>10, <3>11 DEF DownAhead
    <3> QED
      BY <2>0, <3>12 DEF DownNumbered, IInv, DownAligned, DownIsStream
  <2> QED
    BY <2>1, <2>2
<1>11. CASE VirtualQueue /\ UNCHANGED sessionVars
  <2>0. /\ UNCHANGED <<appGot, bufRead, wk, wkMsg, watch, s2c, tx, sess, tgtSent, tgtR, hpc>>
        /\ upR = "send" /\ upR' = "read" /\ chDown' = Append(chDown, upDat)
    BY <1>11 DEF VirtualQueue
  <2>1. CASE ~ Writes
    BY <2>0, <2>1 DEF IInv, DownAligned, DownIsStream, DownNumbered, Writes
  <2>2. CASE Writes
    <3>1. PICK w \in Nat : DownAhead(w)
      BY <2>2 DEF IInv, DownAligned, DownNumbered
    <3>2. upDat \in Down /\ chDown \in Seq(Down) /\ appGot \in Seq(Down)
      BY <2>0 DEF IInv, Types, DownTypes
    <3>3. /\ Len(chDown) \in Nat /\ Len(chDown') = Len(chDown) + 1
          /\ \A i \in 1..Len(chDown) : chDown'[i] = chDown[i]
          /\ chDown'[Len(chDown) + 1] = upDat
      BY <2>0, <3>2, SeqFacts
    <3>4. Len(appGot) \in Nat
      BY <3>2, SeqFacts
    <3>5. Given = Len(appGot) + Len(chDown) + 1 /\ Given' = Given
      BY <2>0, <3>3, <3>4 DEF Given, ReadHolds, Holds
    <3>6. upDat = Len(appGot) + Len(chDown) + 1
      BY <2>0, <3>1, <3>5 DEF DownAhead, ReadNext
    <3>7. \A i \in 1..Len(chDown) : chDown[i] = Len(appGot) + i
      BY <3>1 DEF DownAhead, DownQueued
    <3>8. DownQueued'
      <4> SUFFICES ASSUME NEW i \in 1..Len(chDown) + 1 PROVE chDown'[i] = Len(appGot) + i
        BY <2>0, <3>3 DEF DownQueued
      <4>1. CASE i \in 1..Len(chDown)
        BY <3>3, <3>7, <4>1
      <4>2. CASE i = Len(chDown) + 1
        BY <3>3, <3>4, <3>6, <4>2
      <4> QED
        BY <3>3, <4>1, <4>2
    <3>9. ReadNext' /\ BufferNext' /\ Whole(w)' /\ WorkerNext(w)'
      BY <2>0, <3>1, <3>5 DEF DownAhead, ReadNext, BufferNext, Whole, WorkerNext
    <3>10. AnswerNext(w)' /\ DownTied(w)'
      BY <2>0, <3>1, LoopStays DEF DownAhead, AnswerNext, DownTied, Relays, WorkerHolds, StateAhead
    <3> QED
      BY <2>0, <3>8, <3>9, <3>10 DEF DownAhead, DownNumbered, IInv, DownAligned, DownIsStream
  <2> QED
    BY <2>1, <2>2
<1>12. CASE PumpWrite /\ UNCHANGED sessionVars
  BY <1>12, DownKept DEF PumpWrite, PumpReturns, IInv, Types, WireTypes, Writes, Relays,
     LoopHolds, TargetHolds
<1>13. CASE Handshake /\ UNCHANGED sessionVars
  BY <1>13, DownKept DEF Handshake, IInv, Types, WireTypes, Writes, Relays, LoopHolds, TargetHolds
<1>14. CASE HandleRequest /\ UNCHANGED sessionVars
  BY <1>14, DownKept DEF HandleRequest, IInv, Types, WireTypes, DownTypes, Opening, Undialled,
     Writes, Relays, LoopHolds, TargetHolds
<1>15. CASE DialRequest /\ UNCHANGED sessionVars
  <2>1. Blank'
    BY <1>15 DEF DialRequest, IInv, Opening, Undialled, Opened, Blank
  <2>2. DownAhead(0)'
    BY <2>1, BlankAligned, PTL
  <2> QED
    BY <1>15, <2>2 DEF DialRequest, DownNumbered, IInv, DownAligned, DownIsStream
<1>16. CASE DialTimeout /\ UNCHANGED sessionVars
  BY <1>16, DownKept DEF DialTimeout, IInv, Types, WireTypes, Writes, Relays, LoopHolds, TargetHolds
<1>17. CASE WorkerEnds /\ UNCHANGED sessionVars
  BY <1>17, DownKept DEF WorkerEnds, IInv, Types, WireTypes, Writes
<1>18. CASE SessionRequest /\ UNCHANGED backendVars
  BY <1>18, DownKept DEF SessionRequest, IInv, Types, WireTypes, Writes, Relays, LoopHolds,
     TargetHolds
<1>19. CASE SessionDial /\ UNCHANGED backendVars
  BY <1>19, DownKept DEF SessionDial, IInv, Types, WireTypes, Writes, Relays, LoopHolds, TargetHolds
<1>20. CASE SessionAnswer /\ UNCHANGED backendVars
  <2>1. ~ Opened /\ s2c = << >>
    BY <1>20 DEF SessionAnswer, IInv, Opening, Opened
  <2>2. s2c' = << >> \/ s2c' = <<OpenMsg>> \/ s2c' = <<ErrorMsg>>
    BY <1>20, <2>1 DEF SessionAnswer, ToClient, OpenMsg, ErrorMsg
  <2>3. Blank'
    BY <1>20, <2>1, <2>2 DEF SessionAnswer, IInv, Opening, Blank
  <2>4. DownAhead(0)'
    BY <2>3, BlankAligned, PTL
  <2> QED
    BY <1>20, <2>4 DEF SessionAnswer, DownNumbered, IInv, DownAligned, DownIsStream
<1>21. CASE LoopUp /\ UNCHANGED backendVars
  BY <1>21, DownKept DEF LoopUp, IInv, Types, WireTypes, Writes, Relays, LoopHolds, TargetHolds
<1>22. CASE LoopDown /\ UNCHANGED backendVars
  BY <1>22, DownKept DEF LoopDown, IInv, Types, WireTypes, Writes, Relays, LoopHolds,
     TargetHolds, Holds
<1>23. CASE LoopWrite /\ UNCHANGED backendVars
  <2>0. /\ UNCHANGED <<appGot, chDown, upR, upDat, bufRead, wk, wkMsg, watch, tx, tgtSent,
                       tgtR, hpc>>
        /\ sess = "write"
    BY <1>23 DEF LoopWrite
  <2>1. CASE s2c' = s2c /\ (tx # "up" \/ sess' = "closing")
    BY <2>0, <2>1, DownKept DEF Writes, Relays, IInv, Types, WireTypes
  <2>2. CASE ~ Writes
    BY <2>0, <2>2 DEF IInv, DownAligned, DownIsStream, DownNumbered, Writes
  <2>3. CASE Writes /\ tx = "up" /\ s2c' = Append(s2c, Msg("data", sessDat)) /\ sess' = "loop"
    <3>1. PICK w \in Nat : DownAhead(w)
      BY <2>3 DEF IInv, DownAligned, DownNumbered
    <3>2. Given' = Given /\ DownQueued' /\ ReadNext' /\ BufferNext' /\ Whole(w)' /\ WorkerNext(w)'
      BY <2>0, <3>1
      DEF DownAhead, DownQueued, ReadNext, BufferNext, Whole, Given, ReadHolds, WorkerNext
    <3>3. Msg("data", sessDat) \in DownMsg \cup {OpenMsg, ErrorMsg}
      BY <2>0 DEF IInv, Types, WireTypes, Chunks, DownMsg
    <3>4. /\ Len(s2c) \in Nat /\ Len(s2c') = Len(s2c) + 1
          /\ \A i \in 1..Len(s2c) : s2c'[i] = s2c[i]
          /\ s2c'[Len(s2c) + 1] = Msg("data", sessDat)
      BY <2>3, <3>3, SeqFacts DEF IInv, Types, WireTypes
    <3>5. StateAhead' = StateAhead /\ StateAhead \in {0, 1} /\ StateAhead <= Len(s2c)
      <4>1. CASE s2c = << >>
        <5>1. s2c'[1].kind = "data"
          BY <3>4, <4>1 DEF Msg
        <5> QED
          BY <4>1, <5>1 DEF StateAhead, Holds
      <4>2. CASE s2c # << >>
        <5>1. Len(s2c) > 0
          BY <4>2, SeqFacts DEF IInv, Types, WireTypes
        <5>2. s2c'[1] = s2c[1] /\ s2c' # << >>
          BY <3>4, <5>1
        <5> QED
          BY <3>4, <4>2, <5>1, <5>2 DEF StateAhead, Holds
      <4> QED
        BY <4>1, <4>2
    <3>6. /\ WorkerHolds' = WorkerHolds /\ WorkerHolds \in Nat
          /\ TargetHolds' = TargetHolds /\ TargetHolds \in Nat
          /\ LoopHolds = 1 /\ LoopHolds' = 0
      BY <2>0, <2>3 DEF WorkerHolds, TargetHolds, LoopHolds, Holds
    <3>7. watch => tgtSent = w + WorkerHolds + Len(s2c) - StateAhead + LoopHolds + TargetHolds
      BY <2>0, <2>3, <3>1 DEF DownAhead, DownTied, Relays
    <3>8. sessDat = Chunk(tgtSent - TargetHolds - 1) /\ tgtSent \in Nat
      BY <2>0 DEF IInv, DownAligned, DownBehind, Types, WireTypes
    <3>9. DownTied(w)'
      BY <2>0, <3>4, <3>5, <3>6, <3>7, <3>8 DEF DownTied
    <3>10. AnswerNext(w)'
      <4> SUFFICES ASSUME watch, NEW i \in 1..Len(s2c) + 1, i > StateAhead
                   PROVE  s2c'[i] = Msg("data", Chunk(w + WorkerHolds + i - StateAhead - 1))
        BY <2>0, <3>4, <3>5, <3>6 DEF AnswerNext
      <4>1. CASE i \in 1..Len(s2c)
        BY <3>1, <3>4, <4>1 DEF DownAhead, AnswerNext
      <4>2. CASE i = Len(s2c) + 1
        <5>1. tgtSent - TargetHolds - 1 = w + WorkerHolds + i - StateAhead - 1
          BY <3>4, <3>5, <3>6, <3>7, <3>8, <4>2
        <5> QED
          BY <3>4, <3>8, <4>2, <5>1
      <4> QED
        BY <3>4, <4>1, <4>2
    <3> QED
      BY <2>0, <3>2, <3>9, <3>10 DEF DownAhead, DownNumbered, IInv, DownAligned, DownIsStream
  <2> QED
    BY <1>23, <2>1, <2>2, <2>3 DEF LoopWrite, ToClient
<1>24. CASE LoopErr /\ UNCHANGED backendVars
  BY <1>24, DownKept DEF LoopErr, IInv, Types, WireTypes, Writes, Relays
<1>25. CASE SessionCloses /\ UNCHANGED backendVars
  BY <1>25, DownKept DEF SessionCloses, IInv, Types, WireTypes, Writes
<1>26. CASE TargetRead /\ UNCHANGED backendVars
  <2>1. UNCHANGED <<appGot, chDown, upR, upDat, bufRead, s2c, wk, wkMsg, watch, hpc, tx, sess>>
    BY <1>26 DEF TargetRead
  <2>2. /\ tgtR = "read" /\ tgtSent \in Nat /\ tgtSent' \in Nat
        /\ \/ tgtR' = "send" /\ tgtSent' = tgtSent + 1
           \/ tgtR' = "ended" /\ tgtSent' = tgtSent
    BY <1>26, Constants DEF TargetRead, IInv, Types, WireTypes
  <2>3. LoopHolds \in {0, 1} /\ LoopHolds' = LoopHolds /\ TargetHolds = 0
    BY <2>1, <2>2 DEF LoopHolds, TargetHolds, Holds
  <2>4. tgtSent' - LoopHolds' - TargetHolds' = tgtSent - LoopHolds - TargetHolds
    <3>1. \/ TargetHolds' = 1 /\ tgtSent' = tgtSent + 1
          \/ TargetHolds' = 0 /\ tgtSent' = tgtSent
      BY <2>2 DEF TargetHolds, Holds
    <3> QED
      BY ONLY <2>2, <2>3, <3>1
  <2> QED
    BY <2>1, <2>2, <2>4, DownKept DEF Writes, Relays
<1>27. CASE TxBreaks /\ UNCHANGED <<backendVars, sessionVars>>
  BY <1>27, DownKept DEF TxBreaks, IInv, Types, WireTypes, Writes
<1>28. CASE (AppQueue \/ UpTake \/ UpToPump \/ UpCancelled \/ AppRead \/ AppCloses) /\ UNCHANGED
             sessionVars
  <2>1. UNCHANGED <<appGot, chDown, upR, upDat, bufRead, s2c, wk, wkMsg, watch, hpc, tx,
                    sess, tgtSent, tgtR>>
    BY ONLY <1>28 DEF AppQueue, UpTake, UpToPump, UpCancelled, AppRead, AppCloses, txVars,
       appVars, dialVars, copyVars, backendVars, targetVars, readerVars, sessionVars
  <2> QED
    BY <2>1, DownKept, LoopStays DEF Writes, Relays, IInv, Types, WireTypes
<1>29. CASE (ClientRead \/ TargetCloses) /\ UNCHANGED backendVars
  <2>1. UNCHANGED <<appGot, chDown, upR, upDat, bufRead, s2c, wk, wkMsg, watch, hpc, tx,
                    sess, tgtSent, tgtR>>
    BY ONLY <1>29 DEF ClientRead, TargetCloses, txVars, appVars, dialVars, copyVars,
       backendVars, targetVars, readerVars, sessionVars
  <2> QED
    BY <2>1, DownKept, LoopStays DEF Writes, Relays, IInv, Types, WireTypes
<1>30. CASE UNCHANGED vars
  <2>1. UNCHANGED <<appGot, chDown, upR, upDat, bufRead, s2c, wk, wkMsg, watch, hpc, tx,
                    sess, tgtSent, tgtR>>
    BY <1>30 DEF vars
  <2> QED
    BY <2>1, DownKept, LoopStays DEF Writes, Relays, IInv, Types, WireTypes
<1> QED
  BY <1>1, <1>2, <1>3, <1>4, <1>5, <1>6, <1>7, <1>8, <1>9, <1>10, <1>11, <1>12, <1>13, <1>14,
     <1>15, <1>16, <1>17, <1>18, <1>19, <1>20, <1>21, <1>22, <1>23, <1>24, <1>25, <1>26, <1>27,
     <1>28, <1>29, <1>30, NextCases

-----------------------------------------------------------------------------
(* IInv holds of every reachable state. *)
THEOREM Inductive == Spec => []IInv
<1>1. Init => IInv
  <2> SUFFICES ASSUME Init PROVE IInv
    OBVIOUS
  <2> USE DEF Init, TxInit, BackendInit, SessionInit
  <2>1. AppTypes
    BY Constants DEF AppTypes
  <2>2. WireTypes
    BY Constants DEF WireTypes
  <2>3. DownTypes
    <3>1. watch \in BOOLEAN /\ vclosed \in BOOLEAN
      BY Zenon
    <3> QED
      BY <3>1, Constants DEF DownTypes
  <2>4. Errors
    BY DEF Errors, Holds
  <2>5. Opening
    BY DEF Opening, Opened, Undialled
  <2>6. UpAhead
    BY DEF UpAhead, UpIsStream, ReaderNext, WireNext, PumpNext, WriterNext, Opened
  <2>7. UpBehind /\ UpTied
    BY DEF UpBehind, UpTied, Opened
  <2>8. Blank
    BY DEF Blank
  <2>9. DownAligned
    BY <2>8, BlankAligned DEF DownAligned, DownIsStream, DownNumbered, DownBehind
  <2> QED
    BY <2>1, <2>2, <2>3, <2>4, <2>5, <2>6, <2>7, <2>9 DEF IInv, Types, UpAligned
<1>2. IInv /\ [Next]_vars => IInv'
  BY AppTypesStep, WireTypesStep, DownTypesStep, ErrorsStep, OpeningStep, UpAheadStep,
     UpBehindStep, UpTiedStep, DownStep, DownBehindStep
  DEF IInv, Types, UpAligned, DownAligned
<1> QED
  BY <1>1, <1>2, PTL DEF Spec

(* TypeOK: no channel overflows, whatever its capacity, and chErr has room for every *)
(* error.                                                                            *)
THEOREM TypeCorrect == Spec => []TypeOK
<1>1. IInv => TypeOK
  <2> SUFFICES ASSUME IInv PROVE TypeOK
    OBVIOUS
  <2> USE DEF IInv, Types, AppTypes, WireTypes, DownTypes
  <2>1. chErr \in 0..3 /\ sErr \in 0..2
    BY DEF Errors, Holds
  <2>2. Range(appGot) \subseteq Down /\ Range(bufRead) \subseteq Down /\ Range(tgtGot) \subseteq Up
    BY SeqFacts DEF Range
  <2> QED
    BY <2>1, <2>2 DEF TypeOK
<1> QED
  BY <1>1, Inductive, PTL

-----------------------------------------------------------------------------
(* The end of a request *)

\* While Proxy runs, an error that a goroutine has reported is still to be taken; Dial
\* has started the pump; nothing at the session ends before the transport has, nor is a
\* write held for ever or the pump back by itself.
Reported ==
    /\ hpc = "proxy" =>
           /\ appR # "none" /\ upR # "none" /\ upW # "none"
           /\ chErr = Holds(appR = "ended") + Holds(upR = "ended") + Holds(upW = "ended")
    /\ hpc \in {"open", "proxy", "closing"} => pump # "none"
    /\ sess = "ended" \/ cliR = "ended" => tx = "broken"
    /\ hpc = "stuck" \/ pump = "stuck" => tx # "up"
    /\ hpc \in {"open", "proxy", "closing"} /\ pump = "ended" => tx # "up"

(* Every step keeps what has been reported. *)
LEMMA ReportedStep == IInv /\ Reported /\ [Next]_vars => Reported'
<1> SUFFICES ASSUME IInv, Reported, [Next]_vars PROVE Reported'
  OBVIOUS
<1> USE DEF Reported, Holds, txVars, appVars, dialVars, copyVars, backendVars, targetVars,
   readerVars, sessionVars
<1>1. CASE Established /\ UNCHANGED sessionVars
  BY <1>1 DEF Established, IInv, Opening, Errors
<1>2. CASE CloseVirtual /\ UNCHANGED sessionVars
  BY <1>2 DEF CloseVirtual, PumpReturns
<1>3. CASE CloseTx /\ UNCHANGED sessionVars
  BY <1>3 DEF CloseTx
<1>4. CASE (ProxyDown \/ ProxyErr) /\ UNCHANGED sessionVars
  BY <1>4 DEF ProxyDown, ProxyErr
<1>5. CASE DialAnswer /\ UNCHANGED sessionVars
  BY <1>5 DEF DialAnswer
<1>6. CASE (AppQueue \/ AppRead) /\ UNCHANGED sessionVars
  BY <1>6 DEF AppQueue, AppRead, IInv, Errors
<1>7. CASE (UpTake \/ UpToPump \/ UpCancelled) /\ UNCHANGED sessionVars
  BY <1>7 DEF UpTake, UpToPump, UpCancelled, IInv, Errors
<1>8. CASE (VirtualRead \/ VirtualReadChunk \/ VirtualQueue) /\ UNCHANGED sessionVars
  BY <1>8 DEF VirtualRead, VirtualReadChunk, VirtualQueue, IInv, Errors
<1>9. CASE PumpWrite /\ UNCHANGED sessionVars
  BY <1>9 DEF PumpWrite, PumpReturns
<1>10. CASE (Refused \/ Handshake \/ HandleRequest \/ DialRequest \/ DialTimeout)
             /\ UNCHANGED sessionVars
  BY <1>10 DEF Refused, Handshake, HandleRequest, DialRequest, DialTimeout, GiveUp
<1>11. CASE (WorkerRecv \/ WorkerEnds \/ AppCloses) /\ UNCHANGED sessionVars
  BY <1>11 DEF WorkerRecv, WorkerEnds, AppCloses
<1>12. CASE (SessionRequest \/ SessionDial \/ SessionAnswer) /\ UNCHANGED backendVars
  BY <1>12 DEF SessionRequest, SessionDial, SessionAnswer
<1>13. CASE (LoopUp \/ LoopDown \/ LoopWrite \/ LoopErr) /\ UNCHANGED backendVars
  BY <1>13 DEF LoopUp, LoopDown, LoopWrite, LoopErr
<1>14. CASE SessionCloses /\ UNCHANGED backendVars
  BY <1>14 DEF SessionCloses
<1>15. CASE (TargetRead \/ ClientRead \/ TargetCloses) /\ UNCHANGED backendVars
  BY <1>15 DEF TargetRead, ClientRead, TargetCloses
<1>16. CASE TxBreaks /\ UNCHANGED <<backendVars, sessionVars>>
  BY <1>16 DEF TxBreaks
<1>17. CASE UNCHANGED vars
  BY <1>17 DEF vars
<1> HIDE DEF Reported
<1> QED
  BY <1>1, <1>2, <1>3, <1>4, <1>5, <1>6, <1>7, <1>8, <1>9, <1>10, <1>11, <1>12, <1>13, <1>14,
     <1>15, <1>16, <1>17, NextCases

(* AtRest leaves no step to any goroutine of a tunnel, but for the readers of the       *)
(* transport.                                                                          *)
LEMMA NobodyMoves ==
    ASSUME AtRest
    PROVE  /\ ~ (\/ Handshake \/ HandleRequest \/ DialRequest \/ DialTimeout \/ DialAnswer
                 \/ RequestStep \/ CopyStep \/ VirtualStep \/ PumpWrite \/ AppRead)
           /\ ~ (TargetRead \/ LoopStep)
<1> USE DEF AtRest
<1>1. ~ RequestStep
  BY DEF RequestStep, Refused, Established, CloseVirtual, CloseTx, ProxyDown, ProxyErr
<1>2. ~ (Handshake \/ HandleRequest \/ DialRequest \/ DialTimeout \/ DialAnswer)
  BY DEF Handshake, HandleRequest, DialRequest, DialTimeout, DialAnswer
<1>3. ~ CopyStep
  BY Constants DEF CopyStep, AppQueue, UpTake, UpToPump, UpCancelled
<1>4. ~ VirtualStep
  BY Constants DEF VirtualStep, VirtualRead, VirtualReadChunk, VirtualQueue
<1>5. ~ PumpWrite /\ ~ AppRead
  BY Constants DEF PumpWrite, AppRead
<1>6. ~ TargetRead
  BY Constants DEF TargetRead
<1>7. ~ LoopStep
  BY Constants DEF LoopStep, LoopUp, LoopDown, LoopWrite, ToClient, LoopErr, SessionCloses
<1> QED
  BY <1>1, <1>2, <1>3, <1>4, <1>5, <1>6, <1>7

(* Nothing moves and the pump waits for the transport: the session's loop waits for it *)
(* too, the other way, or its reader has not been woken.                               *)
LEMMA WaitingPump ==
    ASSUME IInv, Reported, AtRest, pump = "write"
    PROVE  Jammed
<1>1. tx = "up" /\ Len(c2s) = TxCap
  BY DEF AtRest
<1>2. cliR \in {"read", "send"}
  BY <1>1 DEF Reported, IInv, Types, WireTypes, Opening, Opened
<1>3. CASE cliR = "read"
  BY <1>1, <1>3 DEF Jammed
<1>4. CASE cliR = "send"
  <2>1. sess = "write"
    BY <1>1, <1>4 DEF AtRest, Reported, IInv, Types, WireTypes, Opening, Opened
  <2> QED
    BY <1>1, <2>1 DEF AtRest, Jammed
<1> QED
  BY <1>2, <1>3, <1>4

(* RequestEnds: the handler of an application that has gone returns, but for a          *)
(* transport that has ended under a write, a pump that has returned by itself, and a    *)
(* transport that is full and not read.                                                 *)
THEOREM RequestEndsHolds == Spec => []RequestEnds
<1>1. Init => Reported
  BY DEF Init, TxInit, BackendInit, SessionInit, Reported
<1>2. IInv /\ Reported => RequestEnds
  <2> SUFFICES ASSUME IInv, Reported, AtRest, app = "closed", hpc \notin {"done", "direct"}
               PROVE  \/ tx # "up" /\ (hpc = "stuck" \/ pump \in {"stuck", "ended"})
                      \/ Jammed
    BY DEF RequestEnds
  <2>1. CASE hpc = "stuck" \/ pump = "stuck"
    BY <2>1 DEF Reported
  <2>2. CASE hpc \in {"proxy", "closing"} /\ pump = "ended"
    BY <2>2 DEF Reported
  <2>3. CASE hpc \in {"proxy", "closing"} /\ pump \notin {"stuck", "ended"}
    <3>1. SUFFICES pump = "write"
      BY <3>1, WaitingPump
    <3>2. pump \in {"select", "write"}
      BY <2>3 DEF IInv, Types, AppTypes, Reported
    <3>3. CASE hpc = "closing"
      BY <3>2, <3>3 DEF AtRest
    <3>4. CASE hpc = "proxy"
      <4>1. chErr = 0 /\ appR \notin {"none", "ended"} /\ upW \notin {"none", "ended"}
        BY <3>4 DEF AtRest, Reported, Holds
      <4>2. appR = "send" /\ chUp # << >>
        BY <4>1, Constants DEF AtRest, IInv, Types, AppTypes
      <4>3. upW = "write"
        BY <4>1, <4>2 DEF AtRest, IInv, Types, AppTypes
      <4> QED
        BY <3>2, <4>3 DEF AtRest
    <3> QED
      BY <2>3, <3>3, <3>4
  <2> QED
    BY <2>1, <2>2, <2>3 DEF AtRest
<1> QED
  BY <1>1, <1>2, ReportedStep, Inductive, PTL DEF Spec

-----------------------------------------------------------------------------
(* Nothing is on its way that has not been sent *)

UpSentMsg(n) == {Msg("data", <<m>>) : m \in 1..n}
SentChunks(n) == {Chunk(k) : k \in 0..n - 1}
SentSlices(n) == 1..n * Slices
DownSentMsg(n) == {Msg("data", c) : c \in SentChunks(n)}

\* On the way up every holder holds a chunk that the application has sent.
UpSent ==
    /\ Len(tgtGot) <= appSent
    /\ cliR = "send" => cliDat \in 1..appSent
    /\ c2s \in Seq(UpSentMsg(appSent) \cup {DialMsg})
    /\ pump = "write" => pumpDat \in 1..appSent
    /\ upW = "write" => upWDat \in 1..appSent
    /\ chUp \in Seq(1..appSent)
    /\ appR = "send" => appDat \in 1..appSent

\* On the way down one that the target has sent, or a slice of one.
DownSent ==
    /\ sess \in {"read", "dial"} => target = "none"
    /\ tgtR = "send" => tgtDat \in SentChunks(tgtSent)
    /\ sess = "write" => sessDat \in SentChunks(tgtSent)
    /\ s2c \in Seq(DownSentMsg(tgtSent) \cup {OpenMsg, ErrorMsg})
    /\ wk = "data" => wkMsg \in SentChunks(tgtSent)
    /\ bufRead \in Seq(SentSlices(tgtSent))
    /\ upR = "send" => upDat \in SentSlices(tgtSent)
    /\ chDown \in Seq(SentSlices(tgtSent))
    /\ Len(appGot) <= tgtSent * Slices

(* A sequence over a set is one over a larger set. *)
LEMMA SeqGrows ==
    ASSUME NEW S, NEW T, S \subseteq T, NEW s \in Seq(S)
    PROVE  s \in Seq(T)
<1>1. Len(s) \in Nat /\ s \in [1..Len(s) -> S]
  BY LenProperties
<1>2. s \in [1..Len(s) -> T]
  BY <1>1
<1> QED
  BY <1>1, <1>2

(* What has been sent stays sent. *)
LEMMA SentGrows ==
    ASSUME NEW n \in Nat
    PROVE  /\ 1..n \subseteq 1..n + 1 /\ UpSentMsg(n) \subseteq UpSentMsg(n + 1)
           /\ n * Slices \in Nat /\ (n + 1) * Slices \in Nat
           /\ (n + 1) * Slices = n * Slices + Slices /\ n * Slices <= (n + 1) * Slices
           /\ SentChunks(n) \subseteq SentChunks(n + 1) /\ Chunk(n) \in SentChunks(n + 1)
           /\ SentSlices(n) \subseteq SentSlices(n + 1)
           /\ DownSentMsg(n) \subseteq DownSentMsg(n + 1)
<1>1. 1..n \subseteq 1..n + 1 /\ 0..n - 1 \subseteq 0..(n + 1) - 1 /\ n \in 0..(n + 1) - 1
  OBVIOUS
<1>2. /\ n * Slices \in Nat /\ (n + 1) * Slices \in Nat
      /\ (n + 1) * Slices = n * Slices + Slices
  BY Constants
<1>3. n * Slices <= (n + 1) * Slices /\ SentSlices(n) \subseteq SentSlices(n + 1)
  BY <1>2, Constants DEF SentSlices
<1>4. SentChunks(n) \subseteq SentChunks(n + 1) /\ Chunk(n) \in SentChunks(n + 1)
  BY <1>1 DEF SentChunks
<1>5. UpSentMsg(n) \subseteq UpSentMsg(n + 1) /\ DownSentMsg(n) \subseteq DownSentMsg(n + 1)
  BY <1>1, <1>4 DEF UpSentMsg, DownSentMsg
<1> QED
  BY <1>1, <1>2, <1>3, <1>4, <1>5

(* The slices of a chunk that has been sent have been sent. *)
LEMMA SentChunkSlices ==
    ASSUME NEW n \in Nat, NEW c \in SentChunks(n)
    PROVE  Head(c) \in SentSlices(n) /\ Tail(c) \in Seq(SentSlices(n))
<1>1. PICK k \in 0..n - 1 : c = Chunk(k)
  BY DEF SentChunks
<1>2. k \in Nat /\ k + 1 <= n /\ k * Slices \in Nat
  BY <1>1, Constants
<1>3. (k + 1) * Slices = k * Slices + Slices /\ (k + 1) * Slices <= n * Slices
  BY <1>2, Constants
<1>4. \A i \in 1..Slices : k * Slices + i \in SentSlices(n)
  BY <1>2, <1>3, Constants DEF SentSlices
<1>5. Chunk(k) \in [1..Slices -> SentSlices(n)]
  BY <1>4 DEF Chunk
<1>6. Chunk(k) \in Seq(SentSlices(n)) /\ Chunk(k) # << >>
  BY <1>2, <1>5, ChunkFacts, Constants
<1> QED
  BY <1>1, <1>6, SeqFacts

(* Every step keeps the way up to what has been sent. *)
LEMMA UpSentStep == IInv /\ UpSent /\ [Next]_vars => UpSent'
<1> SUFFICES ASSUME IInv, UpSent, [Next]_vars PROVE UpSent'
  OBVIOUS
<1>0. appSent \in Nat
  BY Constants DEF IInv, Types, AppTypes
<1> USE DEF UpSent, txVars, appVars, dialVars, copyVars, backendVars, targetVars, readerVars,
   sessionVars
<1>1. CASE Established /\ UNCHANGED sessionVars
  BY <1>1 DEF Established
<1>2. CASE CloseVirtual /\ UNCHANGED sessionVars
  BY <1>2 DEF CloseVirtual, PumpReturns
<1>3. CASE DialAnswer /\ UNCHANGED sessionVars
  BY <1>3 DEF DialAnswer
<1>4. CASE AppQueue /\ UNCHANGED sessionVars
  BY <1>4, SeqFacts DEF AppQueue
<1>5. CASE UpTake /\ UNCHANGED sessionVars
  <2>1. Head(chUp) \in 1..appSent /\ Tail(chUp) \in Seq(1..appSent)
    BY <1>5, SeqFacts DEF UpTake
  <2> QED
    BY <1>5, <2>1 DEF UpTake
<1>6. CASE (UpToPump \/ UpCancelled) /\ UNCHANGED sessionVars
  BY <1>6 DEF UpToPump, UpCancelled
<1>7. CASE PumpWrite /\ UNCHANGED sessionVars
  <2>1. Msg("data", <<pumpDat>>) \in UpSentMsg(appSent)
    BY <1>7 DEF PumpWrite, UpSentMsg
  <2>2. c2s' \in Seq(UpSentMsg(appSent) \cup {DialMsg})
    <3> DEFINE M == UpSentMsg(appSent) \cup {DialMsg}
    <3>1. c2s \in Seq(M) /\ Msg("data", <<pumpDat>>) \in M
      BY <2>1
    <3>2. Append(c2s, Msg("data", <<pumpDat>>)) \in Seq(M)
      BY ONLY <3>1, SeqFacts
    <3> QED
      BY <1>7, <3>1, <3>2 DEF PumpWrite
  <2> QED
    BY <1>7, <2>2 DEF PumpWrite, PumpReturns
<1>8. CASE DialRequest /\ UNCHANGED sessionVars
  <2>1. c2s' \in Seq(UpSentMsg(appSent) \cup {DialMsg})
    BY <1>8, SeqFacts DEF DialRequest, DialMsg
  <2> QED
    BY <1>8, <2>1 DEF DialRequest
<1>9. CASE AppRead /\ UNCHANGED sessionVars
  <2>1. CASE UNCHANGED <<appSent, appDat>>
    BY <1>0, <1>9, <2>1 DEF AppRead
  <2>2. CASE appSent' = appSent + 1
    <3>1. 1..appSent \subseteq 1..appSent' /\ UpSentMsg(appSent) \subseteq UpSentMsg(appSent')
      BY <1>0, <2>2, SentGrows
    <3>2. c2s' \in Seq(UpSentMsg(appSent') \cup {DialMsg})
      BY <1>9, <3>1, SeqGrows DEF AppRead
    <3>3. chUp' \in Seq(1..appSent')
      BY <1>9, <3>1, SeqGrows DEF AppRead
    <3>4. Len(tgtGot') <= appSent'
      BY <1>0, <1>9, <2>2, SeqFacts DEF AppRead, IInv, Types, WireTypes
    <3>5. appDat' \in 1..appSent'
      BY <1>0, <1>9, <2>2 DEF AppRead
    <3> QED
      BY <1>9, <3>1, <3>2, <3>3, <3>4, <3>5 DEF AppRead
  <2> QED
    BY <1>9, <2>1, <2>2 DEF AppRead
<1>10. CASE (Refused \/ CloseTx \/ ProxyDown \/ ProxyErr \/ WorkerRecv \/ VirtualRead
             \/ VirtualReadChunk \/ VirtualQueue \/ Handshake \/ HandleRequest \/ DialTimeout
             \/ WorkerEnds \/ AppCloses) /\ UNCHANGED sessionVars
  <2>1. UNCHANGED <<tgtGot, appSent, cliR, cliDat, c2s, pump, pumpDat, upW, upWDat, chUp, appR,
                    appDat>>
    BY ONLY <1>10 DEF Refused, CloseTx, ProxyDown, ProxyErr, WorkerRecv, VirtualRead,
       VirtualReadChunk, VirtualQueue, Handshake, HandleRequest, DialTimeout, WorkerEnds,
       AppCloses, GiveUp, txVars, appVars, dialVars, copyVars, backendVars, targetVars,
       readerVars, sessionVars
  <2> QED
    BY <2>1
<1>11. CASE SessionRequest /\ UNCHANGED backendVars
  <2>1. c2s # << >> => Tail(c2s) \in Seq(UpSentMsg(appSent) \cup {DialMsg})
    BY SeqFacts
  <2> QED
    BY <1>11, <2>1 DEF SessionRequest
<1>12. CASE SessionAnswer /\ UNCHANGED backendVars
  BY <1>12 DEF SessionAnswer
<1>13. CASE LoopUp /\ UNCHANGED backendVars
  <2>1. cliDat = Len(tgtGot) + 1 /\ cliDat \in 1..appSent
    BY <1>13 DEF LoopUp, IInv, UpAligned, UpAhead, ReaderNext, Relays
  <2>2. Len(tgtGot') <= appSent
    <3>1. tgtGot \in Seq(Up) /\ cliDat \in Up
      BY <1>13 DEF LoopUp, IInv, Types, WireTypes
    <3> QED
      BY <1>0, <1>13, <2>1, <3>1, SeqFacts DEF LoopUp
  <2> QED
    BY <1>13, <2>2 DEF LoopUp
<1>14. CASE ClientRead /\ UNCHANGED backendVars
  <2>1. CASE c2s # << >> /\ c2s' = Tail(c2s) /\ cliDat' = Head(c2s).dat[1] /\ cliR' = "send"
    <3>1. Head(c2s) \in UpSentMsg(appSent) \cup {DialMsg} /\ Head(c2s) \in UpMsg
      BY <1>14, <2>1, SeqFacts DEF ClientRead, IInv, Opening, Opened
    <3>2. Head(c2s) \in UpSentMsg(appSent)
      <4>1. PICK m \in Up : Head(c2s) = Msg("data", <<m>>)
        BY <3>1 DEF UpMsg
      <4>2. Head(c2s) # DialMsg
        BY <4>1 DEF DialMsg, Msg
      <4> QED
        BY <3>1, <4>2
    <3>3. PICK m \in 1..appSent : Head(c2s) = Msg("data", <<m>>)
      BY <3>2 DEF UpSentMsg
    <3>4. cliDat' \in 1..appSent
      BY <2>1, <3>3 DEF Msg
    <3>5. c2s' \in Seq(UpSentMsg(appSent) \cup {DialMsg})
      BY <2>1, SeqFacts
    <3> QED
      BY <1>14, <3>4, <3>5 DEF ClientRead
  <2>2. CASE cliR' = "ended" /\ UNCHANGED c2s
    BY <1>14, <2>2 DEF ClientRead
  <2> QED
    BY <1>14, <2>1, <2>2 DEF ClientRead
<1>15. CASE (SessionDial \/ LoopDown \/ LoopWrite \/ LoopErr \/ SessionCloses \/ TargetRead
             \/ TargetCloses) /\ UNCHANGED backendVars
  <2>1. UNCHANGED <<tgtGot, appSent, cliR, cliDat, c2s, pump, pumpDat, upW, upWDat, chUp, appR,
                    appDat>>
    BY ONLY <1>15 DEF SessionDial, LoopDown, LoopWrite, LoopErr, SessionCloses, TargetRead,
       TargetCloses, txVars, appVars, dialVars, copyVars, backendVars, targetVars,
       readerVars, sessionVars
  <2> QED
    BY <2>1
<1>16. CASE TxBreaks /\ UNCHANGED <<backendVars, sessionVars>>
  BY <1>16 DEF TxBreaks
<1>17. CASE UNCHANGED vars
  BY <1>17 DEF vars
<1> HIDE DEF UpSent
<1> QED
  BY <1>1, <1>2, <1>3, <1>4, <1>5, <1>6, <1>7, <1>8, <1>9, <1>10, <1>11, <1>12, <1>13, <1>14,
     <1>15, <1>16, <1>17, NextCases

(* Every step keeps the way down to what has been sent. *)
LEMMA DownSentStep == IInv /\ DownSent /\ [Next]_vars => DownSent'
<1> SUFFICES ASSUME IInv, DownSent, [Next]_vars PROVE DownSent'
  OBVIOUS
<1>0. tgtSent \in Nat /\ tgtSent * Slices \in Nat
  BY Constants DEF IInv, Types, WireTypes
<1> DEFINE M == DownSentMsg(tgtSent) \cup {OpenMsg, ErrorMsg}
<1>m. \A m \in M : s2c' = Append(s2c, m) => s2c' \in Seq(M)
  BY SeqFacts DEF DownSent
<1> HIDE DEF M
<1> USE DEF DownSent, txVars, appVars, dialVars, copyVars, backendVars, targetVars, readerVars,
   sessionVars
<1>1. CASE Established /\ UNCHANGED sessionVars
  BY <1>1 DEF Established
<1>2. CASE ProxyDown /\ UNCHANGED sessionVars
  <2>1. Head(chDown) \in SentSlices(tgtSent) /\ Tail(chDown) \in Seq(SentSlices(tgtSent))
    BY <1>2, SeqFacts DEF ProxyDown
  <2>2. PICK w \in Nat : DownAhead(w)
    BY <1>2 DEF ProxyDown, IInv, DownAligned, DownNumbered, Writes
  <2>3. Head(chDown) = Len(appGot) + 1 /\ Head(chDown) \in Down
    BY <1>2, <2>2, SeqFacts DEF ProxyDown, DownAhead, DownQueued, IInv, Types, DownTypes
  <2>4. Len(Append(appGot, Head(chDown))) <= tgtSent * Slices
    BY <2>1, <2>3, SeqFacts, <1>0 DEF SentSlices, IInv, Types, DownTypes
  <2> QED
    BY <1>2, <2>1, <2>4 DEF ProxyDown
<1>3. CASE WorkerRecv /\ UNCHANGED sessionVars
  <2>1. Head(s2c) \in M /\ s2c' \in Seq(M)
    BY <1>3, SeqFacts DEF WorkerRecv, M
  <2>2. Head(s2c).kind = "data" => Head(s2c).dat \in SentChunks(tgtSent)
    BY <2>1 DEF M, DownSentMsg, OpenMsg, ErrorMsg, Msg
  <2>3. wk' = "data" => wkMsg' \in SentChunks(tgtSent)
    BY <1>3, <2>2 DEF WorkerRecv
  <2> QED
    BY <1>3, <2>1, <2>3 DEF WorkerRecv, M
<1>4. CASE DialAnswer /\ UNCHANGED sessionVars
  BY <1>4 DEF DialAnswer
<1>5. CASE VirtualRead /\ UNCHANGED sessionVars
  <2>1. bufRead # << >> => /\ Head(bufRead) \in SentSlices(tgtSent)
                           /\ Tail(bufRead) \in Seq(SentSlices(tgtSent))
    BY SeqFacts
  <2> QED
    BY <1>5, <2>1 DEF VirtualRead
<1>6. CASE VirtualReadChunk /\ UNCHANGED sessionVars
  <2>1. Head(wkMsg) \in SentSlices(tgtSent) /\ Tail(wkMsg) \in Seq(SentSlices(tgtSent))
    BY <1>0, <1>6, SentChunkSlices DEF VirtualReadChunk
  <2> QED
    BY <1>6, <2>1 DEF VirtualReadChunk
<1>7. CASE VirtualQueue /\ UNCHANGED sessionVars
  <2>1. Append(chDown, upDat) \in Seq(SentSlices(tgtSent))
    BY <1>7, SeqFacts DEF VirtualQueue
  <2> QED
    BY <1>7, <2>1 DEF VirtualQueue
<1>8. CASE (HandleRequest \/ WorkerEnds) /\ UNCHANGED sessionVars
  BY <1>8 DEF HandleRequest, WorkerEnds
<1>9. CASE (Refused \/ CloseVirtual \/ CloseTx \/ ProxyErr \/ AppQueue \/ UpTake \/ UpToPump
            \/ UpCancelled \/ PumpWrite \/ Handshake \/ DialRequest \/ DialTimeout \/ AppRead
            \/ AppCloses) /\ UNCHANGED sessionVars
  <2>1. UNCHANGED <<s2c, wk, wkMsg, bufRead, upR, upDat, chDown, appGot, sessionVars>>
    BY ONLY <1>9 DEF Refused, CloseVirtual, PumpReturns, CloseTx, ProxyErr, AppQueue, UpTake,
       UpToPump, UpCancelled, PumpWrite, Handshake, GiveUp, DialRequest, DialTimeout, AppRead,
       AppCloses, txVars, appVars, dialVars, copyVars, backendVars, targetVars, readerVars,
       sessionVars
  <2> QED
    BY <2>1
<1>10. CASE (SessionRequest \/ SessionDial \/ SessionCloses \/ TargetCloses)
             /\ UNCHANGED backendVars
  BY <1>10 DEF SessionRequest, SessionDial, SessionCloses, TargetCloses
<1>11. CASE SessionAnswer /\ UNCHANGED backendVars
  <2>1. s2c' \in Seq(M)
    <3>1. OpenMsg \in M /\ ErrorMsg \in M /\ s2c \in Seq(M)
      BY DEF M
    <3>2. s2c' \in {s2c, Append(s2c, OpenMsg), Append(s2c, ErrorMsg)}
      BY <1>11 DEF SessionAnswer, ToClient, OpenMsg, ErrorMsg
    <3> QED
      BY <1>m, <3>1, <3>2
  <2> QED
    BY <1>11, <2>1 DEF SessionAnswer, M
<1>12. CASE (LoopUp \/ LoopDown \/ LoopErr \/ ClientRead) /\ UNCHANGED backendVars
  BY <1>12 DEF LoopUp, LoopDown, LoopErr, ClientRead
<1>13. CASE LoopWrite /\ UNCHANGED backendVars
  <2>1. s2c' \in Seq(M)
    <3>1. Msg("data", sessDat) \in M /\ s2c \in Seq(M)
      BY <1>13 DEF LoopWrite, M, DownSentMsg
    <3>2. s2c' \in {s2c, Append(s2c, Msg("data", sessDat))}
      BY <1>13 DEF LoopWrite, ToClient
    <3> QED
      BY <1>m, <3>1, <3>2
  <2> QED
    BY <1>13, <2>1 DEF LoopWrite, M
<1>14. CASE TargetRead /\ UNCHANGED backendVars
  <2>1. CASE tgtR' = "ended" /\ UNCHANGED <<tgtSent, tgtDat>>
    BY <1>14, <2>1 DEF TargetRead
  <2>2. CASE tgtSent' = tgtSent + 1 /\ tgtDat' = Chunk(tgtSent)
    <3> DEFINE n == tgtSent + 1
    <3>1. /\ SentChunks(tgtSent) \subseteq SentChunks(n) /\ Chunk(tgtSent) \in SentChunks(n)
          /\ SentSlices(tgtSent) \subseteq SentSlices(n)
          /\ DownSentMsg(tgtSent) \subseteq DownSentMsg(n)
          /\ tgtSent * Slices <= n * Slices /\ n * Slices \in Nat
      BY ONLY <1>0, SentGrows
    <3> HIDE DEF n
    <3>2. s2c \in Seq(DownSentMsg(n) \cup {OpenMsg, ErrorMsg})
      BY <3>1, SeqGrows
    <3>3. bufRead \in Seq(SentSlices(n)) /\ chDown \in Seq(SentSlices(n))
      BY <3>1, SeqGrows
    <3>4. Len(appGot) <= n * Slices
      BY <1>0, <3>1, SeqFacts DEF IInv, Types, DownTypes
    <3>5. tgtSent' = n
      BY <2>2 DEF n
    <3> QED
      BY <1>14, <2>2, <3>1, <3>2, <3>3, <3>4, <3>5 DEF TargetRead
  <2> QED
    BY <1>14, <2>1, <2>2 DEF TargetRead, Chunk
<1>15. CASE TxBreaks /\ UNCHANGED <<backendVars, sessionVars>>
  BY <1>15 DEF TxBreaks
<1>16. CASE UNCHANGED vars
  BY <1>16 DEF vars
<1> HIDE DEF DownSent
<1> QED
  BY <1>1, <1>2, <1>3, <1>4, <1>5, <1>6, <1>7, <1>8, <1>9, <1>10, <1>11, <1>12, <1>13, <1>14,
     <1>15, <1>16, NextCases

-----------------------------------------------------------------------------
(* The two directions as byte streams *)

\* The numbers after a, up to b.
Between(a, b) == [i \in 1..b - a |-> a + i]

(* How many they are. *)
LEMMA BetweenSeq ==
    ASSUME NEW a \in Nat, NEW b \in Nat, a <= b
    PROVE  /\ b - a \in Nat
           /\ Between(a, b) \in Seq(Nat) /\ Len(Between(a, b)) = b - a
           /\ \A i \in 1..b - a : Between(a, b)[i] = a + i
BY DEF Between

(* n more are accepted. *)
LEMMA BetweenGrows ==
    ASSUME NEW a \in Nat, NEW b \in Nat, a <= b, NEW n \in Nat
    PROVE  Between(a, b + n) = Between(a, b) \o [i \in 1..n |-> b + i]
<1> DEFINE s == Between(a, b)
           t == [i \in 1..n |-> b + i]
           u == Between(a, b + n)
<1>1. t \in Seq(Nat) /\ Len(t) = n /\ \A i \in 1..n : t[i] = b + i
  OBVIOUS
<1>2. u \in Seq(Nat) /\ Len(u) = (b - a) + n /\ \A i \in 1..(b - a) + n : u[i] = a + i
  BY DEF Between
<1>3. /\ b - a \in Nat
      /\ s \in Seq(Nat) /\ Len(s) = b - a /\ \A i \in 1..b - a : s[i] = a + i
  BY BetweenSeq
<1> HIDE DEF s, t, u
<1>4. /\ s \o t \in Seq(Nat) /\ Len(s \o t) = Len(s) + Len(t)
      /\ \A i \in 1..Len(s) + Len(t) :
             (s \o t)[i] = IF i <= Len(s) THEN s[i] ELSE t[i - Len(s)]
  BY <1>1, <1>3, ConcatProperties, Zenon
<1>5. ASSUME NEW i \in 1..(b - a) + n PROVE (s \o t)[i] = a + i
  <2>1. CASE i <= b - a
    BY <1>1, <1>3, <1>4, <2>1
  <2>2. CASE i > b - a
    <3>1. i - (b - a) \in 1..n /\ b + (i - (b - a)) = a + i
      BY <1>3, <2>2
    <3>2. (s \o t)[i] = t[i - (b - a)]
      BY <1>1, <1>3, <1>4, <2>2
    <3> QED
      BY <1>1, <3>1, <3>2
  <2>3. i <= b - a \/ i > b - a
    BY <1>3
  <2> QED
    BY <2>1, <2>2, <2>3
<1>6. Len(u) = Len(s \o t) /\ \A i \in 1..Len(u) : u[i] = (s \o t)[i]
  BY <1>1, <1>2, <1>3, <1>4, <1>5
<1>7. u = s \o t
  BY <1>2, <1>4, <1>6, SeqEqual, Zenon
<1> QED
  BY <1>7 DEF s, t, u

(* The first is given. *)
LEMMA BetweenTail ==
    ASSUME NEW a \in Nat, NEW b \in Nat, a < b
    PROVE  /\ 1 \in 1..Len(Between(a, b))
           /\ SubSeq(Between(a, b), 1, 1) = <<a + 1>>
           /\ SubSeq(Between(a, b), 1 + 1, Len(Between(a, b))) = Between(a + 1, b)
<1> DEFINE s == Between(a, b)
<1>1. /\ b - a \in Nat /\ s \in Seq(Nat) /\ Len(s) = b - a
      /\ \A i \in 1..b - a : s[i] = a + i
  BY BetweenSeq
<1>2. SubSeq(s, 1 + 1, b - a) = [i \in 1..b - (a + 1) |-> (a + 1) + i]
  BY DEF Between
<1> HIDE DEF s
<1>3. 1 \in 1..Len(s) /\ s[1] = a + 1
  BY <1>1
<1>4. SubSeq(s, 1, 1) = [i \in 1..1 |-> s[i]]
  BY <1>1, <1>3
<1>5. [i \in 1..1 |-> s[i]] = <<s[1]>>
  BY <1>1, <1>3
<1> QED
  BY <1>1, <1>2, <1>3, <1>4, <1>5 DEF s, Between

(* What a step may do to the way up, as its two ends see it. *)
LEMMA UpEnds ==
    ASSUME IInv, UpSent, [Next]_vars
    PROVE  \/ UNCHANGED <<appSent, tgtGot>> /\ app' \in {app, "closed"}
           \/ appSent' = appSent + 1 /\ UNCHANGED <<app, tgtGot>>
           \/ /\ tgtGot' = Append(tgtGot, Len(tgtGot) + 1) /\ Len(tgtGot) < appSent
              /\ UNCHANGED <<app, appSent>>
<1> USE DEF txVars, appVars, dialVars, copyVars, backendVars, targetVars, readerVars,
   sessionVars
<1>1. CASE AppRead /\ UNCHANGED sessionVars
  BY <1>1 DEF AppRead
<1>2. CASE LoopUp /\ UNCHANGED backendVars
  <2>1. cliDat = Len(tgtGot) + 1 /\ cliDat \in 1..appSent
    BY <1>2 DEF LoopUp, IInv, UpAligned, UpAhead, ReaderNext, Relays, UpSent
  <2>2. appSent \in Nat /\ Len(tgtGot) \in Nat
    BY SeqFacts, Constants DEF IInv, Types, AppTypes, WireTypes
  <2> QED
    BY <1>2, <2>1, <2>2 DEF LoopUp
<1>3. CASE (Refused \/ Established \/ CloseVirtual \/ CloseTx \/ ProxyDown \/ ProxyErr
            \/ WorkerRecv \/ DialAnswer \/ AppQueue \/ UpTake \/ UpToPump \/ UpCancelled
            \/ VirtualRead \/ VirtualReadChunk \/ VirtualQueue \/ PumpWrite \/ Handshake
            \/ HandleRequest \/ DialRequest \/ DialTimeout \/ WorkerEnds \/ AppCloses)
            /\ UNCHANGED sessionVars
  BY ONLY <1>3 DEF Refused, Established, CloseVirtual, PumpReturns, CloseTx, ProxyDown,
     ProxyErr, WorkerRecv, DialAnswer, AppQueue, UpTake, UpToPump, UpCancelled, VirtualRead,
     VirtualReadChunk, VirtualQueue, PumpWrite, Handshake, HandleRequest, GiveUp, DialRequest,
     DialTimeout, WorkerEnds, AppCloses, txVars, appVars, dialVars, copyVars, backendVars,
     targetVars, readerVars, sessionVars
<1>4. CASE (SessionRequest \/ SessionDial \/ SessionAnswer \/ LoopDown \/ LoopWrite \/ LoopErr
            \/ SessionCloses \/ TargetRead \/ ClientRead \/ TargetCloses)
            /\ UNCHANGED backendVars
  BY ONLY <1>4 DEF SessionRequest, SessionDial, SessionAnswer, LoopDown, LoopWrite, LoopErr,
     SessionCloses, TargetRead, ClientRead, TargetCloses, txVars, appVars, dialVars, copyVars,
     backendVars, targetVars, readerVars, sessionVars
<1>5. CASE TxBreaks /\ UNCHANGED <<backendVars, sessionVars>>
  BY <1>5
<1>6. CASE UNCHANGED vars
  BY <1>6 DEF vars
<1> QED
  BY <1>1, <1>2, <1>3, <1>4, <1>5, <1>6, NextCases

(* And to the way down. *)
LEMMA DownEnds ==
    ASSUME IInv, DownSent, [Next]_vars
    PROVE  \/ UNCHANGED <<tgtSent, appGot>>
              /\ (target = "closed" => target' = "closed")
           \/ tgtSent' = tgtSent + 1 /\ UNCHANGED <<target, appGot>>
           \/ /\ appGot' = Append(appGot, Len(appGot) + 1) /\ Len(appGot) < tgtSent * Slices
              /\ UNCHANGED <<target, tgtSent>>
<1> USE DEF txVars, appVars, dialVars, copyVars, backendVars, targetVars, readerVars,
   sessionVars
<1>1. CASE TargetRead /\ UNCHANGED backendVars
  BY <1>1 DEF TargetRead
<1>2. CASE ProxyDown /\ UNCHANGED sessionVars
  <2>1. Head(chDown) \in SentSlices(tgtSent)
    BY <1>2, SeqFacts DEF ProxyDown, DownSent
  <2>2. PICK w \in Nat : DownAhead(w)
    BY <1>2 DEF ProxyDown, IInv, DownAligned, DownNumbered, Writes
  <2>3. Head(chDown) = Len(appGot) + 1
    BY <1>2, <2>2, SeqFacts DEF ProxyDown, DownAhead, DownQueued, IInv, Types, DownTypes
  <2>4. Len(appGot) \in Nat /\ tgtSent * Slices \in Nat
    BY SeqFacts, Constants DEF IInv, Types, WireTypes, DownTypes
  <2> QED
    BY <1>2, <2>1, <2>3, <2>4 DEF ProxyDown, SentSlices
<1>3. CASE SessionDial /\ UNCHANGED backendVars
  BY <1>3 DEF SessionDial, DownSent
<1>4. CASE (Refused \/ Established \/ CloseVirtual \/ CloseTx \/ ProxyErr
            \/ WorkerRecv \/ DialAnswer \/ AppQueue \/ UpTake \/ UpToPump \/ UpCancelled
            \/ VirtualRead \/ VirtualReadChunk \/ VirtualQueue \/ PumpWrite \/ Handshake
            \/ HandleRequest \/ DialRequest \/ DialTimeout \/ WorkerEnds \/ AppRead \/ AppCloses)
            /\ UNCHANGED sessionVars
  BY ONLY <1>4 DEF Refused, Established, CloseVirtual, PumpReturns, CloseTx,
     ProxyErr, WorkerRecv, DialAnswer, AppQueue, UpTake, UpToPump, UpCancelled, VirtualRead,
     VirtualReadChunk, VirtualQueue, PumpWrite, Handshake, HandleRequest, GiveUp, DialRequest,
     DialTimeout, WorkerEnds, AppRead, AppCloses, txVars, appVars, dialVars, copyVars,
     backendVars, targetVars, readerVars, sessionVars
<1>5. CASE (SessionRequest \/ SessionAnswer \/ LoopUp \/ LoopDown \/ LoopWrite \/ LoopErr
            \/ SessionCloses \/ ClientRead \/ TargetCloses) /\ UNCHANGED backendVars
  BY ONLY <1>5 DEF SessionRequest, SessionAnswer, LoopUp, LoopDown, LoopWrite, LoopErr,
     SessionCloses, ClientRead, TargetCloses, txVars, appVars, dialVars, copyVars,
     backendVars, targetVars, readerVars, sessionVars
<1>6. CASE TxBreaks /\ UNCHANGED <<backendVars, sessionVars>>
  BY <1>6
<1>7. CASE UNCHANGED vars
  BY <1>7 DEF vars
<1> QED
  BY <1>1, <1>2, <1>3, <1>4, <1>5, <1>6, <1>7, NextCases

(* UpIsByteStream: reading from the application is Put, writing to the target is Take, *)
(* and nothing between them shows.                                                     *)
THEOREM UpImplements == Spec => UpIsByteStream
<1>1. Init => UpSent /\ UpBytes!Init
  <2> SUFFICES ASSUME Init PROVE UpSent /\ UpBytes!Init
    OBVIOUS
  <2> USE DEF Init, TxInit, BackendInit, SessionInit
  <2>1. UpSent
    BY DEF UpSent
  <2>2. UpBytes!Init
    BY DEF UpBytes!Init
  <2> QED
    BY <2>1, <2>2
<1>2. IInv /\ UpSent /\ [Next]_vars => [UpBytes!Next]_(UpBytes!vars)
  <2> SUFFICES ASSUME IInv, UpSent, [Next]_vars PROVE [UpBytes!Next]_(UpBytes!vars)
    OBVIOUS
  <2> DEFINE pend == [i \in 1..appSent - Len(tgtGot) |-> Len(tgtGot) + i]
             a == Len(tgtGot)
  <2>0. a \in Nat /\ appSent \in Nat /\ a <= appSent /\ pend = Between(a, appSent)
    BY SeqFacts, Constants DEF IInv, Types, AppTypes, WireTypes, UpSent, Between
  <2>1. CASE UNCHANGED <<appSent, tgtGot>> /\ app' \in {app, "closed"}
    <3>1. pend' = pend
      BY <2>1
    <3> QED
      BY <2>1, <3>1 DEF UpBytes!vars, UpBytes!Next, UpBytes!Close
  <2>2. CASE appSent' = appSent + 1 /\ UNCHANGED <<app, tgtGot>>
    <3>1. pend' = Between(a, appSent + 1)
      BY <2>2 DEF Between
    <3>2. 1 \in Nat
      OBVIOUS
    <3> HIDE DEF pend, a
    <3>3. pend' = pend \o [i \in 1..1 |-> appSent + i]
      BY ONLY <2>0, <3>1, <3>2, BetweenGrows, Zenon
    <3>4. Len(pend) = appSent - a
      BY ONLY <2>0, BetweenSeq, Zenon
    <3>5. a + Len(pend) = appSent
      BY ONLY <2>0, <3>4
    <3> USE DEF pend, a
    <3> QED
      BY <2>2, <3>3, <3>5 DEF UpBytes!Next, UpBytes!Put
  <2>3. CASE /\ tgtGot' = Append(tgtGot, Len(tgtGot) + 1) /\ Len(tgtGot) < appSent
             /\ UNCHANGED <<app, appSent>>
    <3>1. /\ 1 \in 1..Len(pend) /\ SubSeq(pend, 1, 1) = <<a + 1>>
          /\ SubSeq(pend, 1 + 1, Len(pend)) = Between(a + 1, appSent)
      BY ONLY <2>0, <2>3, BetweenTail
    <3>2. tgtGot \in Seq(Nat)
      BY SeqGrows, Constants DEF IInv, Types, WireTypes, Up
    <3>3. Len(tgtGot') = a + 1 /\ tgtGot' = tgtGot \o <<a + 1>>
      BY <2>0, <2>3, <3>2
    <3>4. pend' = Between(a + 1, appSent)
      BY <2>3, <3>3 DEF Between
    <3>5. UpBytes!Take(1)
      BY <2>3, <3>1, <3>3, <3>4 DEF UpBytes!Take
    <3> QED
      BY <3>1, <3>5 DEF UpBytes!Next
  <2> QED
    BY <2>1, <2>2, <2>3, UpEnds
<1> QED
  BY <1>1, <1>2, UpSentStep, Inductive, PTL DEF Spec, UpIsByteStream, UpBytes!Spec

(* DownIsByteStream: reading from the target is Put of a whole chunk, writing to the *)
(* application is Take of a slice.                                                   *)
THEOREM DownImplements == Spec => DownIsByteStream
<1>1. Init => DownSent /\ DownBytes!Init
  <2> SUFFICES ASSUME Init PROVE DownSent /\ DownBytes!Init
    OBVIOUS
  <2> USE DEF Init, TxInit, BackendInit, SessionInit
  <2>1. DownSent
    BY Constants DEF DownSent
  <2>2. DownBytes!Init
    BY Constants DEF DownBytes!Init
  <2> QED
    BY <2>1, <2>2
<1>2. IInv /\ DownSent /\ [Next]_vars => [DownBytes!Next]_(DownBytes!vars)
  <2> SUFFICES ASSUME IInv, DownSent, [Next]_vars PROVE [DownBytes!Next]_(DownBytes!vars)
    OBVIOUS
  <2> DEFINE pend == [i \in 1..tgtSent * Slices - Len(appGot) |-> Len(appGot) + i]
             a == Len(appGot)
             b == tgtSent * Slices
  <2>0. a \in Nat /\ b \in Nat /\ a <= b /\ pend = Between(a, b) /\ tgtSent \in Nat
    BY SeqFacts, Constants DEF IInv, Types, WireTypes, DownTypes, DownSent, Between
  <2>1. CASE UNCHANGED <<tgtSent, appGot>> /\ (target = "closed" => target' = "closed")
    <3>1. pend' = pend
      BY <2>1
    <3> QED
      BY <2>1, <3>1 DEF DownBytes!vars, DownBytes!Next, DownBytes!Close
  <2>2. CASE tgtSent' = tgtSent + 1 /\ UNCHANGED <<target, appGot>>
    <3>0. tgtSent' * Slices = b + Slices
      BY <2>0, <2>2, SentGrows
    <3>1. pend' = Between(a, b + Slices)
      BY <2>2, <3>0 DEF Between
    <3>2. Slices \in Nat
      BY Constants
    <3> HIDE DEF pend, a, b
    <3>3. pend' = pend \o [i \in 1..Slices |-> b + i]
      BY ONLY <2>0, <3>1, <3>2, BetweenGrows, Zenon
    <3>4. Len(pend) = b - a
      BY ONLY <2>0, BetweenSeq, Zenon
    <3>5. a + Len(pend) = b
      BY ONLY <2>0, <3>4
    <3> USE DEF pend, a, b
    <3> QED
      BY <2>2, <3>3, <3>5 DEF DownBytes!Next, DownBytes!Put
  <2>3. CASE /\ appGot' = Append(appGot, Len(appGot) + 1) /\ Len(appGot) < tgtSent * Slices
             /\ UNCHANGED <<target, tgtSent>>
    <3>1. /\ 1 \in 1..Len(pend) /\ SubSeq(pend, 1, 1) = <<a + 1>>
          /\ SubSeq(pend, 1 + 1, Len(pend)) = Between(a + 1, b)
      BY ONLY <2>0, <2>3, BetweenTail
    <3>2. appGot \in Seq(Nat)
      BY SeqGrows, Constants DEF IInv, Types, DownTypes, Down
    <3>3. Len(appGot') = a + 1 /\ appGot' = appGot \o <<a + 1>>
      BY <2>0, <2>3, <3>2
    <3>4. pend' = Between(a + 1, b)
      BY <2>3, <3>3 DEF Between
    <3>5. DownBytes!Take(1)
      BY <2>3, <3>1, <3>3, <3>4 DEF DownBytes!Take
    <3> QED
      BY <3>1, <3>5 DEF DownBytes!Next
  <2> QED
    BY <2>1, <2>2, <2>3, DownEnds
<1> QED
  BY <1>1, <1>2, DownSentStep, Inductive, PTL DEF Spec, DownIsByteStream, DownBytes!Spec
=============================================================================
