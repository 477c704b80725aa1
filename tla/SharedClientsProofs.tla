------------------------- MODULE SharedClientsProofs -------------------------
(***************************************************************************)
(* Proofs about SharedClients, for any number of callers and trunks and    *)
(* any durations: TypeOK; that the pool's trunks are spaced and bounded,   *)
(* from the package mutex covering the scan of the pool and the Store of   *)
(* the new trunk (AddInv); and that the watch of a trunk over itself keeps *)
(* the trunks that answer and ends the others in time (WatchInv).          *)
(***************************************************************************)
EXTENDS SharedClients, TLAPS, FiniteSetTheorems

(* The constants are natural numbers, one by one.                          *)
LEMMA ConstantsAreNat ==
    /\ MaxTrunks \in Nat /\ Healthy \in Nat /\ Young \in Nat /\ Idle \in Nat
    /\ IdleLong \in Nat /\ PongStall \in Nat /\ Loop \in Nat /\ Lag \in Nat
    /\ FirstLag \in Nat /\ PongLag \in Nat /\ StartTime \in Nat /\ MaxTime \in Nat
BY PoolAssumption DEF PoolAssumption

(* No step but the Swap of a worker puts one into its loop: whoever moves  *)
(* from a place in the loop to another, or from none to none, keeps it.    *)
LEMMA WorkersKept ==
    ASSUME OneWorker, workerAlive' = workerAlive,
           \A w \in Workers : InLoop(w)' => InLoop(w)
    PROVE  OneWorker'
BY DEF OneWorker

(* Shapes of the pool's variables, for every action.                       *)
THEOREM TypeCorrect == Spec => []TypeOK
<1> USE DEF Stamps
<1>1. Init => TypeOK
  <2> SUFFICES ASSUME Init PROVE TypeOK
    OBVIOUS
  <2>1. /\ now \in Nat /\ late \subseteq Trunks
        /\ reaped \subseteq Trunks /\ clients \subseteq Callers
        /\ lck \in Procs \cup {Nobody}
    BY ConstantsAreNat DEF Init
  <2>2. cfgOk \in BOOLEAN /\ workerAlive \in BOOLEAN
    BY Zenon DEF Init
  <2>3. pingNext \in [Trunks -> BOOLEAN] /\ pings \in [Trunks -> Seq(Nat)]
    BY DEF Init
  <2>4. /\ created \in Stamps /\ lastPing \in Stamps /\ lastPong \in Stamps
        /\ lastData \in Stamps /\ due \in Stamps /\ failedSince \in Stamps
    BY DEF Init
  <2>5. /\ phase \in [Trunks -> {"none", "starting", "running", "exiting"}]
        /\ link \in [Trunks -> {"up", "silent", "broken", "blocked"}]
    BY DEF Init
  <2>6. pc \in [Procs -> {"off", "spawned", "idle", "tryAdd", "create", "register", "using"}]
    BY DEF Init
  <2>7. \A w \in Workers : ~ InLoop(w)
    BY DEF Init, InLoop, Procs
  <2> QED
    BY <2>1, <2>2, <2>3, <2>4, <2>5, <2>6, <2>7 DEF TypeOK, OneWorker
<1>2. TypeOK /\ [Next]_vars => TypeOK'
  <2> SUFFICES ASSUME TypeOK, [Next]_vars PROVE TypeOK'
    OBVIOUS
  <2> USE DEF TypeOK, trunkVars, procVars
  <2> DEFINE PCs == {"off", "spawned", "idle", "tryAdd", "create", "register", "using"}
  <2>0. Workers \cap Callers = {}
    BY PoolAssumption DEF PoolAssumption
  <2>1. ASSUME NEW c \in Callers, GetClient(c)  PROVE TypeOK'
    <3>1. /\ pc' \in [Procs -> PCs]
          /\ \A w \in Workers : InLoop(w)' => InLoop(w)
      BY <2>0, <2>1 DEF GetClient, Procs, InLoop
    <3>2. UNCHANGED <<now, cfgOk, trunkVars, lck, clients, workerAlive>>
      BY <2>1 DEF GetClient
    <3> QED
      BY <3>1, <3>2, WorkersKept
  <2>2. ASSUME NEW c \in Callers, Register(c) \/ CloseClient(c)  PROVE TypeOK'
    <3>1. /\ pc' \in [Procs -> PCs]
          /\ \A w \in Workers : InLoop(w)' => InLoop(w)
      BY <2>0, <2>2 DEF Register, CloseClient, Procs, InLoop
    <3>2. /\ UNCHANGED <<now, cfgOk, trunkVars, lck, workerAlive>>
          /\ clients' \subseteq Callers
      BY <2>2 DEF Register, CloseClient
    <3> QED
      BY <3>1, <3>2, WorkersKept
  <2>4. ASSUME NEW w \in Workers, WorkerStart(w)  PROVE TypeOK'
    <3>1. pc' \in [Procs -> PCs] /\ UNCHANGED <<now, cfgOk, trunkVars, lck, clients>>
      BY <2>4 DEF WorkerStart, Procs
    <3>2. workerAlive' = TRUE
      BY <2>4 DEF WorkerStart
    <3>3. OneWorker'
      BY <2>4, <3>2 DEF WorkerStart, OneWorker, InLoop, Procs
    <3> QED
      BY <3>1, <3>2, <3>3
  <2>5. ASSUME NEW w \in Workers, WorkerWake(w)  PROVE TypeOK'
    <3>1. /\ pc' \in [Procs -> PCs]
          /\ \A v \in Workers : InLoop(v)' => InLoop(v)
      BY <2>5 DEF WorkerWake, Procs, InLoop
    <3>2. UNCHANGED <<now, cfgOk, trunkVars, lck, clients, workerAlive>>
      BY <2>5 DEF WorkerWake
    <3> QED
      BY <3>1, <3>2, WorkersKept
  <2>6. ASSUME NEW p \in Procs, TryAddScan(p)  PROVE TypeOK'
    <3>1. /\ pc' \in [Procs -> PCs]
          /\ \A w \in Workers : InLoop(w)' => InLoop(w)
      BY <2>6 DEF TryAddScan, AfterAdd, InLoop, Procs
    <3>2. /\ UNCHANGED <<now, cfgOk, trunkVars, clients, workerAlive>>
          /\ lck' \in Procs \cup {Nobody}
      BY <2>6 DEF TryAddScan
    <3> QED
      BY <3>1, <3>2, WorkersKept
  <2>7. ASSUME NEW p \in Procs, TryAddStore(p)  PROVE TypeOK'
    <3>1. /\ lck' \in Procs \cup {Nobody}
          /\ pc' \in [Procs -> PCs]
          /\ UNCHANGED <<now, cfgOk, clients, workerAlive>>
          /\ \A w \in Workers : InLoop(w)' => InLoop(w)
      BY <2>7 DEF TryAddStore, AfterAdd, InLoop, Procs
    <3>0. OneWorker'
      BY <3>1, WorkersKept
    <3>2. CASE UNCHANGED trunkVars
      BY <3>0, <3>1, <3>2
    <3>3. CASE \E t \in Trunks :
                 /\ phase' = [phase EXCEPT ![t] = "starting"]
                 /\ created' = [created EXCEPT ![t] = now]
                 /\ UNCHANGED <<lastPing, lastPong, lastData, due, pingNext, pings,
                                link, failedSince, late, reaped>>
      BY <3>0, <3>1, <3>3
    <3> QED
      BY <2>7, <3>2, <3>3 DEF TryAddStore
  <2> USE DEF OneWorker, InLoop
  <2>8. ASSUME NEW t \in Trunks, LoopPass(t)  PROVE TypeOK'
    <3>0. UNCHANGED <<now, cfgOk, procVars>>
      BY <2>8 DEF LoopPass
    <3>1. CASE Leave(t) /\ reaped' \subseteq Trunks
      BY <3>0, <3>1 DEF Leave
    <3>2. CASE /\ due' = [due EXCEPT ![t] = now + Loop]
               /\ pingNext' = [pingNext EXCEPT ![t] = ~ @]
               /\ IF pingNext[t]
                  THEN /\ lastPing' = [lastPing EXCEPT ![t] = now]
                       /\ pings' = [pings EXCEPT ![t] =
                                       IF link[t] = "up" THEN Append(@, now) ELSE @]
                  ELSE UNCHANGED <<lastPing, pings>>
               /\ UNCHANGED <<phase, created, lastPong, lastData, link,
                              failedSince, late, reaped>>
      <4>1. due' \in Stamps /\ lastPing' \in Stamps
        <5>1. now + Loop \in Nat /\ now \in Nat
          BY ConstantsAreNat
        <5> QED
          BY <3>2, <5>1
      <4>2. pingNext' \in [Trunks -> BOOLEAN]
        BY <3>2, Zenon
      <4>3. pings' \in [Trunks -> Seq(Nat)]
        <5>1. now \in Nat /\ pings[t] \in Seq(Nat)
          OBVIOUS
        <5>2. Append(pings[t], now) \in Seq(Nat)
          BY <5>1
        <5>3. pings \in [Trunks -> Seq(Nat)]
          OBVIOUS
        <5>4. \/ pings' = pings
              \/ pings' = [pings EXCEPT ![t] = Append(pings[t], now)]
          BY <3>2
        <5> QED
          BY ONLY <5>1, <5>2, <5>3, <5>4, t \in Trunks, Zenon
      <4> QED
        BY <3>0, <3>2, <4>1, <4>2, <4>3
    <3> QED
      BY <2>8, <3>1, <3>2 DEF LoopPass
  <2>9. ASSUME NEW t \in Trunks, ReadError(t)  PROVE TypeOK'
    BY <2>9 DEF ReadError, Leave
  <2>10. ASSUME NEW t \in Trunks, Exit(t)  PROVE TypeOK'
    BY <2>10 DEF Exit
  <2>11. ASSUME NEW t \in Trunks, Connect(t)  PROVE TypeOK'
    <3>1. now + Loop \in Nat
      BY ConstantsAreNat
    <3> QED
      BY <2>11, <3>1 DEF Connect
  <2>12. ASSUME NEW t \in Trunks, Pong(t)  PROVE TypeOK'
    <3>1. pings[t] \in Seq(Nat) /\ Tail(pings[t]) \in Seq(Nat)
      BY <2>12 DEF Pong
    <3> QED
      BY <2>12, <3>1 DEF Pong
  <2>13. ASSUME NEW t \in Trunks, Data(t)  PROVE TypeOK'
    BY <2>13 DEF Data
  <2>14. ASSUME NEW t \in Trunks, LinkFails(t)  PROVE TypeOK'
    BY <2>14, PoolAssumption DEF LinkFails, PoolAssumption
  <2>15. CASE Tick
    BY <2>15 DEF Tick
  <2>16. CASE UNCHANGED vars
    BY <2>16 DEF vars
  <2> QED
    BY <2>1, <2>2, <2>4, <2>5, <2>6, <2>7, <2>8, <2>9, <2>10, <2>11,
       <2>12, <2>13, <2>14, <2>15, <2>16 DEF Next, ProcStep, TrunkStep
<1> QED
  BY <1>1, <1>2, PTL DEF Spec

-----------------------------------------------------------------------------
(* What tryAddNewSharedClient knows between its scan and its Store: it has *)
(* lck to itself, there is room, and no trunk is younger than Healthy.     *)
AddInv ==
    /\ \A t \in Trunks : created[t] <= now
    /\ \A p \in Procs : pc[p] = "create" =>
         /\ lck = p
         /\ \A t \in sharedClients : created[t] + Healthy <= now
         /\ Cardinality(sharedClients) < MaxTrunks

PoolInv == AddInv /\ Spaced /\ Bounded

(* The pool is a finite set.                                               *)
LEMMA PoolFinite ==
    IsFiniteSet(sharedClients) /\ Cardinality(sharedClients) \in Nat
<1>1. IsFiniteSet(sharedClients)
  BY PoolAssumption, FS_Subset, Zenon DEF PoolAssumption, sharedClients
<1> QED
  BY <1>1, FS_CardinalityType

(* A step that keeps the pool, the ages and every process's place in       *)
(* tryAddNewSharedClient keeps the invariant, whatever time it is.         *)
LEMMA FramePool ==
    ASSUME TypeOK, PoolInv,
           sharedClients' = sharedClients, created' = created,
           now' \in Nat, now <= now', lck' = lck,
           \A p \in Procs : pc'[p] = "create" => pc[p] = "create"
    PROVE  PoolInv'
<1>1. Spaced' /\ Bounded'
  BY DEF PoolInv, Spaced, Bounded
<1>2. AddInv'
  <2>1. \A t \in Trunks : created[t] \in Nat
    BY DEF TypeOK, Stamps
  <2>2. sharedClients \subseteq Trunks
    BY DEF sharedClients
  <2>3. now \in Nat
    BY DEF TypeOK
  <2> QED
    BY <2>1, <2>2, <2>3, ConstantsAreNat DEF PoolInv, AddInv
<1> QED
  BY <1>1, <1>2 DEF PoolInv

(* The steps that neither add nor remove a trunk and do not move a process *)
(* into the section that adds one.                                         *)
LEMMA QuietSteps ==
    ASSUME TypeOK, TypeOK',
           \/ \E c \in Callers : GetClient(c) \/ Register(c) \/ CloseClient(c)
           \/ (\E w \in Workers : WorkerStart(w) \/ WorkerWake(w)) \/ Tick \/ UNCHANGED vars
           \/ \E t \in Trunks : \/ LoopPass(t) \/ ReadError(t) \/ Connect(t)
                                \/ Pong(t) \/ Data(t) \/ LinkFails(t)
    PROVE  /\ sharedClients' = sharedClients
           /\ created' = created
           /\ now' \in Nat /\ now <= now'
           /\ lck' = lck
           /\ \A p \in Procs : pc'[p] = "create" => pc[p] = "create"
<1>0. now \in Nat /\ now' \in Nat
  BY DEF TypeOK
<1>1. ASSUME NEW c \in Callers, GetClient(c) \/ Register(c) \/ CloseClient(c)
      PROVE  /\ UNCHANGED <<now, lck, phase, created>>
             /\ \A p \in Procs : pc'[p] = "create" => pc[p] = "create"
  BY <1>1 DEF GetClient, Register, CloseClient, trunkVars, TypeOK, Procs
<1>2. CASE \E w \in Workers : WorkerStart(w) \/ WorkerWake(w)
  <2>1. /\ UNCHANGED <<now, lck, phase, created>>
        /\ \A p \in Procs : pc'[p] = "create" => pc[p] = "create"
    BY <1>2 DEF WorkerStart, WorkerWake, trunkVars, TypeOK, Procs
  <2> QED
    BY <1>0, <2>1 DEF sharedClients
<1>3. CASE Tick \/ UNCHANGED vars
  <2>1. /\ UNCHANGED <<lck, phase, created, pc>>
        /\ now <= now'
    BY <1>0, <1>3 DEF Tick, vars, trunkVars, procVars
  <2> QED
    BY <1>0, <2>1 DEF sharedClients
<1>4. ASSUME NEW t \in Trunks,
             \/ LoopPass(t) \/ ReadError(t) \/ Connect(t)
             \/ Pong(t) \/ Data(t) \/ LinkFails(t)
      PROVE  /\ sharedClients' = sharedClients
             /\ UNCHANGED <<now, lck, created, pc>>
  <2>1. UNCHANGED <<now, lck, created, pc>>
    BY <1>4 DEF LoopPass, ReadError, Connect, Pong, Data, LinkFails, Leave, procVars
  <2>2. \/ phase' = phase
        \/ /\ phase[t] # "none"
           /\ \/ phase' = [phase EXCEPT ![t] = "running"]
              \/ phase' = [phase EXCEPT ![t] = "exiting"]
    BY <1>4 DEF LoopPass, ReadError, Connect, Pong, Data, LinkFails, Leave
  <2>3. \A s \in Trunks : phase'[s] # "none" <=> phase[s] # "none"
    BY <2>2 DEF TypeOK
  <2> QED
    BY <2>1, <2>3 DEF sharedClients
<1> QED
  BY <1>0, <1>1, <1>2, <1>3, <1>4 DEF sharedClients

(* The scan: lck is free, so no other process is in the section; the new   *)
(* holder has just seen what AddInv says it knows.                         *)
LEMMA ScanStep ==
    ASSUME TypeOK, PoolInv, NEW p \in Procs, TryAddScan(p)
    PROVE  PoolInv'
<1>1. /\ sharedClients' = sharedClients
      /\ UNCHANGED <<created, now>>
  BY DEF TryAddScan, trunkVars, sharedClients
<1>2. Spaced' /\ Bounded'
  BY <1>1 DEF PoolInv, Spaced, Bounded
<1>3. \A q \in Procs : pc[q] # "create"
  BY PoolAssumption DEF TryAddScan, PoolInv, AddInv, PoolAssumption, Procs
<1>4. CASE /\ Cardinality(sharedClients) < MaxTrunks
           /\ \A t \in sharedClients : created[t] + Healthy <= now
           /\ lck' = p
           /\ pc' = [pc EXCEPT ![p] = "create"]
  <2>1. \A q \in Procs : pc'[q] = "create" => q = p
    BY <1>3, <1>4 DEF TypeOK
  <2> QED
    BY <1>1, <1>2, <1>4, <2>1 DEF PoolInv, AddInv
<1>5. CASE pc' = [pc EXCEPT ![p] = AfterAdd(p, TRUE)]
  <2>1. \A q \in Procs : pc'[q] # "create"
    BY <1>3, <1>5 DEF TypeOK, AfterAdd
  <2> QED
    BY <1>1, <1>2, <2>1 DEF PoolInv, AddInv
<1> QED
  BY <1>4, <1>5 DEF TryAddScan

(* The Store: the new trunk is the youngest by at least Healthy, and there *)
(* was room for it.                                                        *)
LEMMA StoreStep ==
    ASSUME TypeOK, PoolInv, NEW p \in Procs, TryAddStore(p)
    PROVE  PoolInv'
<1>0. now \in Nat /\ now' = now /\ \A t \in Trunks : created[t] \in Nat
  BY DEF TypeOK, Stamps, TryAddStore
<1>1. /\ pc[p] = "create" /\ lck = p
      /\ \A t \in sharedClients : created[t] + Healthy <= now
      /\ Cardinality(sharedClients) < MaxTrunks
  BY DEF TryAddStore, PoolInv, AddInv
<1>2. \A q \in Procs : pc'[q] # "create"
  <2>1. \A q \in Procs : pc[q] = "create" => q = p
    BY <1>1 DEF PoolInv, AddInv
  <2> QED
    BY <2>1 DEF TryAddStore, AfterAdd, TypeOK
<1>3. CASE UNCHANGED trunkVars
  <2>1. sharedClients' = sharedClients /\ created' = created
    BY <1>3 DEF trunkVars, sharedClients
  <2> QED
    BY <1>0, <1>2, <2>1 DEF PoolInv, AddInv, Spaced, Bounded
<1>4. ASSUME NEW t \in Trunks \ sharedClients,
             phase' = [phase EXCEPT ![t] = "starting"],
             created' = [created EXCEPT ![t] = now]
      PROVE  PoolInv'
  <2>1. sharedClients' = sharedClients \cup {t}
    BY <1>4 DEF sharedClients, TypeOK
  <2>2. \A s \in Trunks : created'[s] = IF s = t THEN now ELSE created[s]
    BY <1>4 DEF TypeOK, Stamps
  <2>3. sharedClients \subseteq Trunks
    BY DEF sharedClients
  <2>4. Spaced'
    BY <1>0, <1>1, <2>1, <2>2, <2>3, <1>4 DEF PoolInv, Spaced
  <2>5. Cardinality(sharedClients') = Cardinality(sharedClients) + 1
    BY <1>4, <2>1, PoolFinite, FS_AddElement
  <2>6. Bounded'
    BY <1>1, <2>5, PoolFinite, ConstantsAreNat DEF Bounded
  <2>7. AddInv'
    BY <1>0, <1>2, <2>2 DEF PoolInv, AddInv
  <2> QED
    BY <2>4, <2>6, <2>7 DEF PoolInv
<1> QED
  BY <1>3, <1>4 DEF TryAddStore

(* The Delete: fewer trunks, none of them older or younger than before.    *)
LEMMA ExitStep ==
    ASSUME TypeOK, PoolInv, NEW t \in Trunks, Exit(t)
    PROVE  PoolInv'
<1>0. /\ now \in Nat /\ now' = now /\ UNCHANGED <<lck, pc>>
      /\ \A s \in Trunks : created[s] \in Nat
  BY DEF TypeOK, Stamps, Exit, procVars
<1>1. sharedClients' = sharedClients \ {t}
  BY DEF sharedClients, TypeOK, Exit
<1>2. \A s \in Trunks : created'[s] = IF s = t THEN 0 ELSE created[s]
  BY DEF TypeOK, Stamps, Exit
<1>3. sharedClients \subseteq Trunks
  BY DEF sharedClients
<1>4. Spaced'
  BY <1>1, <1>2, <1>3 DEF PoolInv, Spaced
<1>5. /\ Cardinality(sharedClients') <= Cardinality(sharedClients)
      /\ Cardinality(sharedClients') \in Nat
  BY <1>1, PoolFinite, FS_Subset, FS_CardinalityType
<1>6. Bounded'
  BY <1>5, PoolFinite, ConstantsAreNat DEF PoolInv, Bounded
<1>7. AddInv'
  BY <1>0, <1>1, <1>2, <1>3, <1>5, PoolFinite, ConstantsAreNat DEF PoolInv, AddInv
<1> QED
  BY <1>4, <1>6, <1>7 DEF PoolInv

(* The invariant of the pool, from which its two properties follow.        *)
LEMMA PoolInvariant == Spec => []PoolInv
<1>1. Init => PoolInv
  <2> SUFFICES ASSUME Init PROVE PoolInv
    OBVIOUS
  <2>1. sharedClients = {}
    BY DEF Init, sharedClients
  <2>2. \A p \in Procs : pc[p] # "create"
    BY DEF Init
  <2>3. \A t \in Trunks : created[t] <= now
    BY ConstantsAreNat DEF Init
  <2> QED
    BY <2>1, <2>2, <2>3, FS_EmptySet, ConstantsAreNat
    DEF PoolInv, AddInv, Spaced, Bounded
<1>2. TypeOK /\ TypeOK' /\ PoolInv /\ [Next]_vars => PoolInv'
  BY QuietSteps, FramePool, ScanStep, StoreStep, ExitStep
  DEF Next, ProcStep, TrunkStep
<1> QED
  BY <1>1, <1>2, TypeCorrect, PTL DEF Spec

(* No two trunks of the pool are closer in age than Healthy.               *)
THEOREM SpacedHolds == Spec => []Spaced
<1>1. PoolInv => Spaced
  BY DEF PoolInv
<1> QED
  BY <1>1, PoolInvariant, PTL

(* The pool never holds more than MaxTrunks trunks.                        *)
THEOREM BoundedHolds == Spec => []Bounded
<1>1. PoolInv => Bounded
  BY DEF PoolInv
<1> QED
  BY <1>1, PoolInvariant, PTL
-----------------------------------------------------------------------------
(* How a trunk watches itself *)

\* A trunk that does not run has not pinged.
Fresh(t) ==
    /\ lastPing[t] = 0 /\ lastPong[t] = 0 /\ pings[t] = << >>
    /\ ~ pingNext[t] /\ link[t] = "up" /\ t \notin late

\* Before the first ping nothing is awaited and nothing has come.
PingFirst(t) == lastPing[t] = 0 => lastPong[t] = 0 /\ pings[t] = << >>

\* Passes of the loop come in time, and pings two passes apart.
Paced(t) ==
    /\ StartTime <= created[t] /\ created[t] + Loop <= due[t] /\ due[t] <= now + Loop
    /\ lastPing[t] <= now /\ lastPong[t] <= now
    /\ link[t] # "blocked" => now <= due[t] + Lag
    /\ lastPing[t] # 0 =>
         /\ created[t] < lastPing[t]
         /\ ~ pingNext[t] => due[t] = lastPing[t] + Loop
         /\ pingNext[t] => /\ lastPing[t] + 2 * Loop <= due[t]
                           /\ link[t] # "blocked" => due[t] <= lastPing[t] + 2 * Loop + Lag

\* As long as no pong is late: all pings are answered, or all but the last, or, between
\* a ping and the next pass, all but the last two.
NoneOut(t) == pings[t] = << >> /\ lastPing[t] <= lastPong[t]

OneOut(t) ==
    /\ pings[t] = << lastPing[t] >>
    /\ now <= lastPing[t] + (IF lastPong[t] = 0 THEN FirstLag ELSE PongLag)
    /\ lastPong[t] # 0 => lastPing[t] <= lastPong[t] + 2 * (Loop + Lag)

TwoOut(t) ==
    /\ lastPong[t] # 0 /\ lastPing[t] # 0
    /\ \E p \in Nat : /\ pings[t] = << p, lastPing[t] >>
                      /\ p + 2 * Loop <= lastPing[t]
                      /\ now <= p + PongLag

InTime(t) ==
    link[t] = "up" /\ t \notin late => NoneOut(t) \/ OneOut(t) \/ TwoOut(t)

\* A ping that is too far from the last pong is the last one, and is not much further
\* from it; before the first pong it is the first ping.
GivenUp(t) ==
    lastPing[t] # 0 /\ link[t] # "blocked" =>
        \/ lastPing[t] <= lastPong[t] + PongStall
        \/ ~ pingNext[t] /\ lastPong[t] # 0
             /\ lastPing[t] <= lastPong[t] + PongStall + 2 * (Loop + Lag)
        \/ ~ pingNext[t] /\ lastPong[t] = 0
             /\ (link[t] = "silent" => lastPing[t] <= failedSince[t] + 2 * (Loop + Lag))

\* Since the link failed there were no more passes than it takes to the next ping.
ToPing(t) ==
    due[t] <= failedSince[t] + Loop + (IF pingNext[t] THEN Loop + Lag ELSE 0)

Failed(t) ==
    \/ link[t] \in {"up", "blocked"}
    \/ link[t] = "silent" /\ lastPing[t] # 0
    \/ ToPing(t)

Watched(t) ==
    /\ phase[t] \in {"none", "starting"} => Fresh(t)
    /\ phase[t] = "starting" => StartTime <= created[t] /\ created[t] <= now
    /\ phase[t] = "running" =>
         PingFirst(t) /\ Paced(t) /\ InTime(t) /\ GivenUp(t) /\ Failed(t)

WatchInv == reaped = {} /\ StartTime <= now /\ \A t \in Trunks : Watched(t)

(* What the durations are to each other.                                   *)
LEMMA Durations ==
    /\ Loop \in Nat /\ Lag \in Nat /\ FirstLag \in Nat /\ PongLag \in Nat
    /\ PongStall \in Nat /\ StartTime \in Nat
    /\ FirstLag < Loop /\ PongLag < 3 * Loop /\ 2 * (Loop + Lag) <= PongStall
    /\ PongStall < StartTime /\ 0 < StartTime
  BY PoolAssumption, DurationAssumption, ConstantsAreNat
  DEF PoolAssumption, DurationAssumption

(* The types of a trunk's fields.                                          *)
LEMMA TrunkTypes ==
    ASSUME TypeOK, NEW t \in Trunks
    PROVE  /\ now \in Nat /\ created[t] \in Nat /\ lastPing[t] \in Nat /\ lastPong[t] \in Nat
           /\ due[t] \in Nat /\ failedSince[t] \in Nat
           /\ pingNext[t] \in BOOLEAN
           /\ link[t] \in {"up", "silent", "broken", "blocked"}
           /\ phase[t] \in {"none", "starting", "running", "exiting"}
  BY DEF TypeOK, Stamps

\* The fields of trunk s are what they were.
Same(s) ==
    /\ phase'[s] = phase[s] /\ created'[s] = created[s] /\ due'[s] = due[s]
    /\ lastPing'[s] = lastPing[s] /\ lastPong'[s] = lastPong[s]
    /\ pingNext'[s] = pingNext[s] /\ pings'[s] = pings[s]
    /\ link'[s] = link[s] /\ failedSince'[s] = failedSince[s]
    /\ (s \in late') = (s \in late)

(* A trunk whose fields do not change is watched as before.                *)
LEMMA SameWatched ==
    ASSUME NEW s \in Trunks, Watched(s), Same(s), now' = now
    PROVE  Watched(s)'
  BY DEF Same, Watched, Fresh, PingFirst, Paced, InTime, NoneOut, OneOut, TwoOut, GivenUp, Failed, ToPing

(* A step of one trunk leaves the watch over the others alone.             *)
LEMMA OneWatched ==
    ASSUME WatchInv, NEW t \in Trunks, Watched(t)', now' = now, reaped' = {},
           \A s \in Trunks \ {t} : Same(s)
    PROVE  WatchInv'
<1>1. \A s \in Trunks \ {t} : Watched(s)'
  BY SameWatched DEF WatchInv
<1> QED
  BY <1>1 DEF WatchInv

(* A second ping behind a first.                                           *)
LEMMA AppendTwo ==
    ASSUME NEW p \in Nat, NEW q \in Nat
    PROVE  Append(<< p >>, q) = << p, q >>
<1>1. Append(<< p >>, q) = [i \in 1..2 |-> IF i = 1 THEN p ELSE q]
  OBVIOUS
<1>2. << p, q >> = [i \in 1..2 |-> IF i = 1 THEN p ELSE q]
  OBVIOUS
<1> QED
  BY <1>1, <1>2

(* At a pass of a trunk none of whose pongs is late, one ping at most is   *)
(* out, not the first, and the pong check finds nothing.                   *)
LEMMA PassInTime ==
    ASSUME TypeOK, NEW t \in Trunks, PingFirst(t), Paced(t), InTime(t), link[t] = "up", t \notin late,
           now >= due[t]
    PROVE  /\ NoneOut(t) \/ (OneOut(t) /\ lastPong[t] # 0)
           /\ ~ Stalled(t)
<1>1. ~ TwoOut(t)
  <2> SUFFICES ASSUME TwoOut(t) PROVE FALSE
    OBVIOUS
  <2>1. PICK p \in Nat : p + 2 * Loop <= lastPing[t] /\ now <= p + PongLag
    BY DEF TwoOut
  <2>2. lastPing[t] + Loop <= due[t]
    BY Durations, TrunkTypes DEF Paced, TwoOut
  <2> QED
    BY <2>1, <2>2, Durations, TrunkTypes
<1>2. CASE NoneOut(t)
  BY <1>2, Durations, TrunkTypes DEF NoneOut, Stalled
<1>3. CASE OneOut(t)
  <2>1. lastPing[t] # 0
    BY <1>3 DEF OneOut, PingFirst
  <2>2. lastPing[t] + Loop <= due[t]
    BY <2>1, Durations, TrunkTypes DEF Paced
  <2>3. lastPong[t] # 0
    BY <1>3, <2>2, Durations, TrunkTypes DEF OneOut
  <2>4. ~ Stalled(t)
    BY <1>3, <2>3, Durations, TrunkTypes DEF OneOut, Stalled
  <2> QED
    BY <1>3, <2>3, <2>4
<1> QED
  BY <1>1, <1>2, <1>3 DEF InTime

(* A pass that leaves. *)
LEMMA LeaveKeeps ==
    ASSUME TypeOK, WatchInv, NEW t \in Trunks, Leave(t), now' = now, reaped' = {}
    PROVE  WatchInv'
<1>1. phase'[t] = "exiting" /\ \A s \in Trunks \ {t} : Same(s)
  BY DEF Leave, TypeOK, Same
<1>2. Watched(t)'
  BY <1>1 DEF Watched
<1> QED
  BY <1>1, <1>2, OneWatched

(* A pass that stays, without a ping: the next one pings. *)
LEMMA PassKeeps ==
    ASSUME TypeOK, WatchInv, NEW t \in Trunks, phase[t] = "running", now >= due[t],
           ~ Stalled(t), ~ pingNext[t], now' = now, reaped' = reaped, late' = late,
           due' = [due EXCEPT ![t] = now + Loop],
           pingNext' = [pingNext EXCEPT ![t] = ~ @],
           UNCHANGED <<lastPing, pings, phase, created, lastPong, link, failedSince>>
    PROVE  WatchInv'
<1>1. \A s \in Trunks \ {t} : Same(s)
  BY DEF TypeOK, Stamps, Same
<1>2. due'[t] = now + Loop /\ pingNext'[t] = TRUE
  BY DEF TypeOK, Stamps
<1>3. PingFirst(t) /\ Paced(t) /\ InTime(t) /\ GivenUp(t) /\ Failed(t)
  BY DEF WatchInv, Watched
<1>4. Paced(t)'
  BY <1>2, <1>3, Durations, TrunkTypes DEF Paced
<1>5. InTime(t)'
  BY <1>3 DEF InTime, NoneOut, OneOut, TwoOut
<1>6. GivenUp(t)'
  <2>1. lastPing[t] # 0 => lastPing[t] <= lastPong[t] + PongStall
    BY <1>3, Durations, TrunkTypes DEF Paced, Stalled
  <2> QED
    BY <2>1 DEF GivenUp
<1>7. Failed(t)'
  BY <1>2, <1>3, Durations, TrunkTypes DEF Paced, Failed, ToPing
<1>8. Watched(t)'
  BY <1>3, <1>4, <1>5, <1>6, <1>7 DEF Watched, PingFirst
<1> QED
  BY <1>1, <1>8, OneWatched DEF WatchInv

(* A pass that pings: the ping before it was near enough to the last pong, *)
(* and if no pong is late, one ping at most was out.                       *)
LEMMA PingKeeps ==
    ASSUME TypeOK, WatchInv, NEW t \in Trunks, phase[t] = "running", now >= due[t],
           ~ Stalled(t), pingNext[t], link[t] \in {"up", "silent"},
           now' = now, reaped' = reaped, late' = late,
           due' = [due EXCEPT ![t] = now + Loop],
           pingNext' = [pingNext EXCEPT ![t] = ~ @],
           lastPing' = [lastPing EXCEPT ![t] = now],
           pings' = [pings EXCEPT ![t] = IF link[t] = "up" THEN Append(@, now) ELSE @],
           UNCHANGED <<phase, created, lastPong, link, failedSince>>
    PROVE  WatchInv'
<1>1. \A s \in Trunks \ {t} : Same(s)
  BY DEF TypeOK, Stamps, Same
<1>2. due'[t] = now + Loop /\ pingNext'[t] = FALSE /\ lastPing'[t] = now
  BY DEF TypeOK, Stamps
<1>3. link[t] = "up" => pings'[t] = Append(pings[t], now)
  BY DEF TypeOK
<1>4. PingFirst(t) /\ Paced(t) /\ InTime(t) /\ GivenUp(t) /\ Failed(t) /\ StartTime <= now
  BY DEF WatchInv, Watched
<1>0. /\ now \in Nat /\ created[t] \in Nat /\ lastPing[t] \in Nat
      /\ lastPong[t] \in Nat /\ due[t] \in Nat /\ now >= due[t] /\ now' = now
  BY TrunkTypes
<1>12. Paced(t) /\ StartTime <= now /\ pingNext[t] /\ ~ Stalled(t) /\ link[t] # "blocked"
  BY <1>4
<1>5. now # 0 /\ created[t] < now
  BY ONLY <1>0, <1>12, Durations DEF Paced
<1>13. UNCHANGED <<created, lastPong, link>>
  OBVIOUS
<1>6. Paced(t)'
  BY ONLY <1>0, <1>2, <1>5, <1>12, <1>13, Durations DEF Paced
<1>7. lastPing[t] # 0 => /\ lastPing[t] + 2 * Loop <= now
                         /\ now <= lastPing[t] + 2 * (Loop + Lag)
                         /\ lastPing[t] <= lastPong[t] + PongStall
  BY ONLY <1>0, <1>12, Durations DEF Paced, Stalled
<1>8. InTime(t)'
  <2> SUFFICES ASSUME link[t] = "up", t \notin late
               PROVE  NoneOut(t)' \/ OneOut(t)' \/ TwoOut(t)'
    BY DEF InTime
  <2>1. NoneOut(t) \/ (OneOut(t) /\ lastPong[t] # 0)
    BY <1>4, PassInTime
  <2>2. CASE NoneOut(t)
    <3>1. pings'[t] = << now >>
      BY <1>3, <2>2, TrunkTypes DEF NoneOut
    <3>2. lastPong[t] # 0 => now <= lastPong[t] + 2 * (Loop + Lag)
      BY <1>4, <1>7, <2>2, Durations, TrunkTypes DEF NoneOut, PingFirst
    <3>3. OneOut(t)'
      BY <1>2, <3>1, <3>2, Durations, TrunkTypes DEF OneOut
    <3> QED
      BY <3>3
  <2>3. CASE OneOut(t) /\ lastPong[t] # 0
    <3>1. lastPing[t] # 0
      BY <1>4, <2>3 DEF OneOut, PingFirst
    <3>2. pings'[t] = << lastPing[t], now >>
      <4>1. pings'[t] = Append(<< lastPing[t] >>, now)
        BY <1>3, <2>3 DEF OneOut
      <4> QED
        BY ONLY <1>0, <4>1, AppendTwo
    <3>3. now <= lastPing[t] + PongLag
      BY <2>3 DEF OneOut
    <3>4. TwoOut(t)'
      <4>1. lastPing[t] \in Nat /\ lastPing[t] + 2 * Loop <= now
        BY <1>7, <3>1, TrunkTypes
      <4> QED
        BY <1>2, <1>5, <2>3, <3>2, <3>3, <4>1 DEF TwoOut
    <3> QED
      BY <3>4
  <2> QED
    BY <2>1, <2>2, <2>3
<1>9. GivenUp(t)'
  <2>1. CASE lastPong[t] # 0
    <3>1. lastPing[t] # 0
      BY <1>4, <2>1 DEF PingFirst
    <3>2. now <= lastPong[t] + PongStall + 2 * (Loop + Lag)
      BY <1>7, <3>1, Durations, TrunkTypes
    <3> QED
      BY <1>2, <2>1, <3>2 DEF GivenUp
  <2>2. CASE lastPong[t] = 0
    <3>1. lastPing[t] = 0
      BY <1>4, <1>7, <2>2, Durations, TrunkTypes DEF Paced
    <3>2. link[t] = "silent" => now <= failedSince[t] + 2 * (Loop + Lag)
      BY <1>4, <3>1, Durations, TrunkTypes DEF Paced, Failed, ToPing
    <3> QED
      BY <1>2, <2>2, <3>2 DEF GivenUp
  <2> QED
    BY <2>1, <2>2
<1>10. Failed(t)'
  BY <1>2, <1>5 DEF Failed
<1>11. Watched(t)'
  BY <1>2, <1>5, <1>6, <1>8, <1>9, <1>10 DEF Watched, PingFirst
<1> QED
  BY <1>1, <1>11, OneWatched DEF WatchInv

(* A pass of the loop, with all its exits. *)
LEMMA LoopKeeps ==
    ASSUME TypeOK, WatchInv, NEW t \in Trunks, LoopPass(t)
    PROVE  WatchInv'
<1>0. phase[t] = "running" /\ now >= due[t] /\ now' = now /\ reaped = {}
  BY DEF LoopPass, WatchInv
<1>1. CASE /\ Stalled(t) /\ Leave(t)
           /\ reaped' = IF link[t] = "up" /\ t \notin late THEN reaped \cup {t} ELSE reaped
  <2>1. ~ (link[t] = "up" /\ t \notin late)
    BY <1>0, <1>1, PassInTime DEF WatchInv, Watched
  <2> QED
    BY <1>0, <1>1, <2>1, LeaveKeeps
<1>2. CASE Leave(t) /\ UNCHANGED reaped
  BY <1>0, <1>2, LeaveKeeps
<1>3. CASE /\ ~ Stalled(t)
           /\ pingNext[t] => link[t] \in {"up", "silent"}
           /\ due' = [due EXCEPT ![t] = now + Loop]
           /\ pingNext' = [pingNext EXCEPT ![t] = ~ @]
           /\ IF pingNext[t]
              THEN /\ lastPing' = [lastPing EXCEPT ![t] = now]
                   /\ pings' = [pings EXCEPT ![t] =
                                   IF link[t] = "up" THEN Append(@, now) ELSE @]
              ELSE UNCHANGED <<lastPing, pings>>
           /\ UNCHANGED <<phase, created, lastPong, link, failedSince, late, reaped>>
  <2>1. CASE pingNext[t]
    BY <1>0, <1>3, <2>1, PingKeeps
  <2>2. CASE ~ pingNext[t]
    BY <1>0, <1>3, <2>2, PassKeeps
  <2> QED
    BY <2>1, <2>2
<1> QED
  BY <1>1, <1>2, <1>3 DEF LoopPass

(* A pong: the oldest ping that was out is answered now. *)
LEMMA PongKeeps ==
    ASSUME TypeOK, WatchInv, NEW t \in Trunks, Pong(t)
    PROVE  WatchInv'
<1>0. reaped = {} /\ reaped' = {} /\ now' = now
  BY DEF Pong, WatchInv
<1>1. \A s \in Trunks \ {t} : Same(s)
  BY DEF Pong, TypeOK, Stamps, Same
<1>2. /\ phase[t] = "running" /\ pings[t] # << >> /\ lastPong'[t] = now
      /\ UNCHANGED <<phase, created, lastPing, due, pingNext, link, failedSince, late>>
  BY DEF Pong, TypeOK, Stamps
<1>3. pings'[t] = Tail(pings[t])
  BY DEF Pong, TypeOK
<1>4. PingFirst(t) /\ Paced(t) /\ InTime(t) /\ Failed(t) /\ StartTime <= now
  BY <1>2 DEF WatchInv, Watched
<1>5. lastPing[t] # 0 /\ lastPing[t] <= now /\ now # 0
  BY <1>2, <1>4, Durations, TrunkTypes DEF Paced, PingFirst
<1>6. Paced(t)'
  BY <1>0, <1>2, <1>4, <1>5, TrunkTypes DEF Paced
<1>7. Failed(t)'
  BY <1>2, <1>4 DEF Failed, ToPing
<1>8. GivenUp(t)'
  BY <1>2, <1>5, Durations, TrunkTypes DEF GivenUp
<1>9. InTime(t)'
  <2> SUFFICES ASSUME link[t] = "up", t \notin late
               PROVE  NoneOut(t)' \/ OneOut(t)' \/ TwoOut(t)'
    BY <1>2 DEF InTime
  <2>1. CASE OneOut(t)
    <3>1. pings'[t] = << >>
      BY <1>3, <2>1 DEF OneOut
    <3> QED
      BY <1>2, <1>5, <3>1 DEF NoneOut
  <2>2. CASE TwoOut(t)
    <3>1. PICK p \in Nat : /\ pings[t] = << p, lastPing[t] >>
                           /\ p + 2 * Loop <= lastPing[t] /\ now <= p + PongLag
      BY <2>2 DEF TwoOut
    <3>2. pings'[t] = << lastPing[t] >>
      BY <1>3, <3>1, TrunkTypes
    <3>3. now <= lastPing[t] + PongLag
      BY <3>1, Durations, TrunkTypes
    <3>4. lastPing[t] <= now + 2 * (Loop + Lag)
      BY <1>5, Durations, TrunkTypes
    <3>5. OneOut(t)'
      BY <1>0, <1>2, <1>5, <3>2, <3>3, <3>4 DEF OneOut
    <3> QED
      BY <3>5
  <2> QED
    BY <1>2, <1>4, <2>1, <2>2 DEF InTime, NoneOut
<1>10. Watched(t)'
  BY <1>2, <1>5, <1>6, <1>7, <1>8, <1>9 DEF Watched, PingFirst
<1> QED
  BY <1>0, <1>1, <1>10, OneWatched

(* The other steps of a trunk. *)
LEMMA TrunkKeeps ==
    ASSUME TypeOK, WatchInv, NEW t \in Trunks,
           \/ ReadError(t) \/ Exit(t) \/ Connect(t) \/ Data(t) \/ LinkFails(t)
    PROVE  WatchInv'
<1>0. reaped = {} /\ reaped' = {} /\ now' = now
  BY DEF ReadError, Exit, Connect, Data, LinkFails, WatchInv
<1>1. CASE ReadError(t)
  BY <1>0, <1>1, LeaveKeeps DEF ReadError
<1>2. CASE Exit(t)
  <2>1. \A s \in Trunks \ {t} : Same(s)
    BY <1>2 DEF Exit, TypeOK, Stamps, Same
  <2>2. phase'[t] = "none" /\ lastPing'[t] = 0 /\ lastPong'[t] = 0 /\ link'[t] = "up"
    BY <1>2 DEF Exit, TypeOK, Stamps
  <2>3. pingNext'[t] = FALSE /\ pings'[t] = << >> /\ t \notin late'
    BY <1>2 DEF Exit, TypeOK
  <2>4. Watched(t)'
    BY <2>2, <2>3 DEF Watched, Fresh
  <2> QED
    BY <1>0, <2>1, <2>4, OneWatched
<1>3. CASE Connect(t)
  <2>1. \A s \in Trunks \ {t} : Same(s)
    BY <1>3 DEF Connect, TypeOK, Stamps, Same
  <2>2. /\ phase[t] = "starting" /\ phase'[t] \in {"running", "exiting"}
        /\ due'[t] = now + Loop
        /\ UNCHANGED <<created, lastPing, lastPong, pingNext, pings, link, failedSince, late>>
    BY <1>3 DEF Connect, TypeOK, Stamps
  <2>3. Fresh(t) /\ StartTime <= created[t] /\ created[t] <= now
    BY <2>2 DEF WatchInv, Watched
  <2>4. Paced(t)' /\ GivenUp(t)' /\ Failed(t)'
    BY <1>0, <2>2, <2>3, Durations, TrunkTypes DEF Fresh, Paced, GivenUp, Failed
  <2>5. InTime(t)'
    BY <2>2, <2>3, Durations DEF Fresh, InTime, NoneOut
  <2>6. Watched(t)'
    BY <2>2, <2>3, <2>4, <2>5 DEF Watched, PingFirst, Fresh
  <2> QED
    BY <1>0, <2>1, <2>6, OneWatched
<1>4. CASE Data(t)
  <2>1. \A s \in Trunks : Same(s)
    BY <1>4 DEF Data, Same
  <2>2. Watched(t)'
    BY <1>0, <2>1, SameWatched DEF WatchInv
  <2> QED
    BY <1>0, <2>1, <2>2, OneWatched
<1>5. CASE LinkFails(t)
  <2>1. \A s \in Trunks \ {t} : Same(s)
    BY <1>5 DEF LinkFails, TypeOK, Stamps, Same
  <2>2. /\ phase[t] = "running" /\ link[t] = "up" /\ link'[t] \in LinkFaults
        /\ failedSince'[t] = now
        /\ UNCHANGED <<phase, created, lastPing, lastPong, due, pingNext, pings>>
    BY <1>5 DEF LinkFails, TypeOK, Stamps
  <2>3. link'[t] \in {"silent", "broken", "blocked"}
    BY <2>2, PoolAssumption DEF PoolAssumption
  <2>4. PingFirst(t) /\ Paced(t) /\ GivenUp(t)
    BY <2>2 DEF WatchInv, Watched
  <2>5. Paced(t)' /\ InTime(t)'
    BY <1>0, <2>2, <2>3, <2>4 DEF Paced, InTime
  <2>6. ToPing(t)'
    BY <1>0, <2>2, <2>4, Durations, TrunkTypes DEF Paced, ToPing
  <2>7. GivenUp(t)'
    <3>1. lastPing[t] <= now + 2 * (Loop + Lag)
      BY <2>4, Durations, TrunkTypes DEF Paced
    <3> QED
      BY <2>2, <2>3, <2>4, <3>1 DEF GivenUp
  <2>8. Watched(t)'
    BY <2>2, <2>4, <2>5, <2>6, <2>7 DEF Watched, PingFirst, Failed
  <2> QED
    BY <1>0, <2>1, <2>8, OneWatched
<1> QED
  BY <1>1, <1>2, <1>3, <1>4, <1>5

(* Time passes: no pass is overdue, and a trunk whose pong is becomes late. *)
LEMMA TickKeeps ==
    ASSUME TypeOK, WatchInv, Tick
    PROVE  WatchInv'
<1>1. /\ now' = now + 1 /\ late' = late \cup {t \in Trunks : Overdue(t)}
      /\ UNCHANGED <<phase, created, lastPing, lastPong, due, pingNext, pings, link,
                     failedSince, reaped>>
  BY DEF Tick
<1>2. ASSUME NEW t \in Trunks
      PROVE  Watched(t)'
  <2>2. CASE phase[t] # "running"
    <3>1. Fresh(t) => Fresh(t)'
      BY <1>1 DEF Fresh, Overdue
    <3> QED
      BY <1>1, <2>2, <3>1, TrunkTypes DEF WatchInv, Watched
  <2>3. CASE phase[t] = "running"
    <3>1. link[t] # "blocked" => now < due[t] + Lag
      BY <2>3 DEF Tick
    <3>2. PingFirst(t) /\ Paced(t) /\ InTime(t) /\ GivenUp(t) /\ Failed(t)
      BY <2>3 DEF WatchInv, Watched
    <3>3. Paced(t)'
      BY <1>1, <3>1, <3>2, Durations, TrunkTypes DEF Paced
    <3>4. InTime(t)'
      <4> SUFFICES ASSUME link[t] = "up", t \notin late'
                   PROVE  NoneOut(t)' \/ OneOut(t)' \/ TwoOut(t)'
        BY <1>1 DEF InTime
      <4>0. t \notin late /\ ~ Overdue(t)
        BY <1>1
      <4>1. CASE NoneOut(t)
        BY <1>1, <4>1 DEF NoneOut
      <4>2. CASE OneOut(t)
        <5>1. pings[t] # << >> /\ Head(pings[t]) = lastPing[t]
          BY <4>2 DEF OneOut
        <5>2. now + 1 <= lastPing[t] + (IF lastPong[t] = 0 THEN FirstLag ELSE PongLag)
          BY <4>0, <5>1, Durations, TrunkTypes DEF Overdue
        <5> QED
          BY <1>1, <4>2, <5>2 DEF OneOut
      <4>3. CASE TwoOut(t)
        <5>1. PICK p \in Nat : /\ pings[t] = << p, lastPing[t] >>
                               /\ p + 2 * Loop <= lastPing[t] /\ now <= p + PongLag
          BY <4>3 DEF TwoOut
        <5>2. pings[t] # << >> /\ Head(pings[t]) = p /\ lastPong[t] # 0
          BY <4>3, <5>1 DEF TwoOut
        <5>3. now + 1 <= p + PongLag
          BY <4>0, <5>2, Durations, TrunkTypes DEF Overdue
        <5> QED
          BY <1>1, <4>3, <5>1, <5>3 DEF TwoOut
      <4> QED
        BY <3>2, <4>0, <4>1, <4>2, <4>3 DEF InTime
    <3>5. GivenUp(t)' /\ Failed(t)'
      BY <1>1, <3>2 DEF GivenUp, Failed, ToPing
    <3> QED
      BY <1>1, <2>3, <3>2, <3>3, <3>4, <3>5 DEF Watched, PingFirst
  <2> QED
    BY <2>2, <2>3
<1>3. now \in Nat
  BY DEF TypeOK
<1> QED
  BY <1>1, <1>2, <1>3, Durations DEF WatchInv

(* A new trunk has not pinged. *)
LEMMA StoreKeeps ==
    ASSUME TypeOK, WatchInv, NEW p \in Procs, TryAddStore(p)
    PROVE  WatchInv'
<1>0. now' = now
  BY DEF TryAddStore
<1>1. CASE UNCHANGED trunkVars
  BY <1>0, <1>1, SameWatched DEF trunkVars, Same, WatchInv
<1>2. ASSUME NEW t \in Trunks \ sharedClients,
             phase' = [phase EXCEPT ![t] = "starting"],
             created' = [created EXCEPT ![t] = now],
             UNCHANGED <<lastPing, lastPong, due, pingNext, pings, link, failedSince, late, reaped>>
      PROVE  WatchInv'
  <2>1. \A s \in Trunks \ {t} : Same(s)
    BY <1>2 DEF TypeOK, Stamps, Same
  <2>2. phase[t] = "none" /\ phase'[t] = "starting" /\ created'[t] = now
    BY <1>2 DEF TypeOK, Stamps, sharedClients
  <2>3. Fresh(t) /\ StartTime <= now /\ reaped = {}
    BY <2>2, <1>2 DEF WatchInv, Watched
  <2>4. Watched(t)'
    BY <1>0, <1>2, <2>2, <2>3, TrunkTypes DEF Watched, Fresh
  <2> QED
    BY <1>0, <1>2, <2>1, <2>3, <2>4, OneWatched
<1> QED
  BY <1>1, <1>2 DEF TryAddStore

(* Every running trunk is watched in time. *)
LEMMA WatchInvariant == Spec => []WatchInv
<1>1. Init => WatchInv
  <2> SUFFICES ASSUME Init PROVE WatchInv
    OBVIOUS
  <2>1. \A t \in Trunks : phase[t] = "none" /\ lastPing[t] = 0 /\ lastPong[t] = 0 /\ link[t] = "up"
    BY DEF Init
  <2>2. \A t \in Trunks : pingNext[t] = FALSE /\ pings[t] = << >>
    BY DEF Init
  <2>3. reaped = {} /\ late = {} /\ StartTime <= now
    BY ConstantsAreNat DEF Init
  <2> QED
    BY <2>1, <2>2, <2>3 DEF WatchInv, Watched, Fresh
<1>2. TypeOK /\ WatchInv /\ [Next]_vars => WatchInv'
  <2> SUFFICES ASSUME TypeOK, WatchInv, [Next]_vars PROVE WatchInv'
    OBVIOUS
  <2>1. ASSUME UNCHANGED trunkVars, now' = now  PROVE WatchInv'
    BY <2>1, SameWatched DEF trunkVars, Same, WatchInv
  <2>2. CASE \E c \in Callers : GetClient(c) \/ Register(c) \/ CloseClient(c)
    BY <2>1, <2>2 DEF GetClient, Register, CloseClient
  <2>3. CASE (\E w \in Workers : WorkerStart(w) \/ WorkerWake(w)) \/ UNCHANGED vars
    BY <2>1, <2>3 DEF WorkerStart, WorkerWake, vars
  <2>4. CASE \E p \in Procs : ProcStep(p)
    BY <2>1, <2>4, StoreKeeps DEF ProcStep, TryAddScan
  <2> QED
    BY <2>2, <2>3, <2>4, LoopKeeps, PongKeeps, TrunkKeeps, TickKeeps DEF Next, TrunkStep
<1> QED
  BY <1>1, <1>2, TypeCorrect, PTL DEF Spec

(* AnsweringTrunkKept: the pong check of client.start ends a trunk whose   *)
(* connection is up only if a pong was late, however slow the others were. *)
THEOREM AnsweringKept == Spec => []AnsweringTrunkKept
<1>1. WatchInv => AnsweringTrunkKept
  BY DEF WatchInv, AnsweringTrunkKept
<1> QED
  BY <1>1, WatchInvariant, PTL

(* DeadTrunkLeaves: a broken trunk leaves within two passes of the loop, one whose peer *)
(* has vanished within three of that or of its last pong's having become too old.        *)
THEOREM DeadLeaves == Spec => []DeadTrunkLeaves
<1>1. TypeOK /\ WatchInv => DeadTrunkLeaves
  <2> SUFFICES ASSUME TypeOK, WatchInv, NEW t \in Trunks, phase[t] = "running"
               PROVE  /\ link[t] = "broken" => now <= failedSince[t] + 2 * (Loop + Lag)
                      /\ link[t] = "silent" =>
                           \/ now <= failedSince[t] + 3 * (Loop + Lag)
                           \/ now <= lastPong[t] + PongStall + 3 * (Loop + Lag)
    BY DEF DeadTrunkLeaves
  <2>1. Paced(t) /\ GivenUp(t) /\ Failed(t)
    BY DEF WatchInv, Watched
  <2>2. link[t] # "blocked" => now <= due[t] + Lag
    BY <2>1 DEF Paced
  <2>3. ToPing(t) => due[t] <= failedSince[t] + Loop + (Loop + Lag)
    BY Durations, TrunkTypes DEF ToPing
  <2>4. CASE lastPing[t] = 0 \/ link[t] # "silent"
    BY <2>1, <2>2, <2>3, <2>4, Durations, TrunkTypes DEF Failed
  <2>5. CASE lastPing[t] # 0 /\ link[t] = "silent"
    <3>1. IF pingNext[t] THEN now <= lastPing[t] + 2 * (Loop + Lag)
                         ELSE now <= lastPing[t] + (Loop + Lag)
      BY <2>1, <2>2, <2>5, Durations, TrunkTypes DEF Paced
    <3> QED
      BY <2>1, <2>5, <3>1, Durations, TrunkTypes DEF GivenUp
  <2> QED
    BY <2>4, <2>5
<1> QED
  BY <1>1, TypeCorrect, WatchInvariant, PTL
=============================================================================
