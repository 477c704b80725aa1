---------------------------- MODULE SharedClients ----------------------------
(***************************************************************************)
(* transport/h1pool/client.go: the pool of shared clients ("trunks") that  *)
(* all divided clients of the process send their packets through.  Who may *)
(* add a trunk (getClient and the clientsWorker, under the package mutex   *)
(* lck), how a trunk watches itself (the 5 s loop of client.start: pong    *)
(* stall, decommission, ping) and how it leaves sharedClients.             *)
(*                                                                         *)
(* Time is a clock `now` in abstract units; the durations of the code are  *)
(* constants.  0 stands for "never" in the time stamps, as in the code,    *)
(* and StartTime is late enough for 0 to be long ago.                      *)
(***************************************************************************)
EXTENDS Naturals, FiniteSets, Sequences

CONSTANTS
    Trunks,      \* identities of shared clients; free again after the exit
    Callers,     \* goroutines that open, use and close a divided client
    Workers,     \* goroutines of clientsWorker; bound: so many at once
    Nobody,      \* lck is free
    MaxTrunks,   \* 5: total < 5
    Healthy,     \* 300: a trunk younger than this keeps new ones away
    Young,       \* 120: a trunk is not decommissioned before
    Idle,        \* 30
    IdleLong,    \* 60
    PongStall,   \* 15
    Loop,        \* 5: the time.After of client.start
    Lag,         \* how late a due pass of that loop may run
    FirstLag,    \* a first pong that takes longer is late, see Overdue
    PongLag,     \* the same for the pongs after the first
    LinkFaults,  \* what can happen to a connection, see LinkFails
    StartTime,   \* the clock when the process starts
    MaxTime      \* bound: the clock stops here

ASSUME PoolAssumption ==
    /\ Workers \cap Callers = {}
    /\ Nobody \notin Callers \cup Workers
    /\ {MaxTrunks, Healthy, Young, Idle, IdleLong, PongStall, Loop, Lag,
        FirstLag, PongLag, StartTime, MaxTime} \subseteq Nat
    /\ MaxTrunks > 0
    /\ Healthy > 0
    /\ StartTime > Healthy
    /\ LinkFaults \subseteq {"silent", "broken", "blocked"}
    /\ IsFiniteSet(Trunks)

\* How the durations of the code are to each other, and what they make of a pong: the
\* first has to be there at the pass after its ping, another at the third pass.
ASSUME DurationAssumption ==
    /\ 2 * (Loop + Lag) <= PongStall
    /\ PongStall <= Healthy
    /\ FirstLag < Loop
    /\ PongLag < 3 * Loop

Procs == Callers \cup Workers

VARIABLES
    now,          \* time.Now().Unix()
    cfgOk,        \* h1.NewClient accepts the configuration
    phase,        \* each trunk: none, starting (Connect), running, exiting
    created,      \* createdAt
    lastPing,     \* lastPingUnix
    lastPong,     \* lastPongUnix
    lastData,     \* lastDataUnix
    due,          \* when the loop's time.After fires next
    pingNext,     \* serial is even: this pass of the loop pings
    pings,        \* the times of the pings that were written to a live server and
                  \* whose pongs the reader has not met, the oldest first
    link,         \* up, silent, broken or blocked, see LinkFails
    failedSince,  \* history: when the link failed
    late,         \* history: trunks one of whose pongs was, or is, overdue
    reaped,       \* history: trunks the pong check ended although the link was up
                  \* and no pong was late
    lck,          \* the holder of the package mutex
    pc,           \* where each caller and each worker is
    clients,      \* the divided clients in the clients map, by caller
    workerAlive   \* workerAlive

trunkVars == <<phase, created, lastPing, lastPong, lastData, due, pingNext,
               pings, link, failedSince, late, reaped>>
procVars == <<lck, pc, clients, workerAlive>>
vars == <<now, cfgOk, trunkVars, procVars>>

\* The keys of the sharedClients map.
sharedClients == {t \in Trunks : phase[t] # "none"}

Init ==
    /\ now = StartTime
    /\ cfgOk \in BOOLEAN
    /\ phase = [t \in Trunks |-> "none"]
    /\ created = [t \in Trunks |-> 0]
    /\ lastPing = [t \in Trunks |-> 0]
    /\ lastPong = [t \in Trunks |-> 0]
    /\ lastData = [t \in Trunks |-> 0]
    /\ due = [t \in Trunks |-> 0]
    /\ pingNext = [t \in Trunks |-> FALSE]
    /\ pings = [t \in Trunks |-> << >>]
    /\ link = [t \in Trunks |-> "up"]
    /\ failedSince = [t \in Trunks |-> 0]
    /\ late = {}
    /\ reaped = {}
    /\ lck = Nobody
    /\ pc = [p \in Procs |-> IF p \in Workers THEN "off" ELSE "idle"]
    /\ clients = {}
    /\ workerAlive = FALSE

-----------------------------------------------------------------------------
(* Adding trunks *)

\* Mutated form: nobody starts the worker.
GetClientNoWorker(c) ==
    /\ pc[c] = "idle"
    /\ pc' = [pc EXCEPT ![c] = "tryAdd"]
    /\ UNCHANGED <<now, cfgOk, trunkVars, lck, clients, workerAlive>>

\* getClient first starts a worker if none runs.
GetClient(c) ==
    /\ pc[c] = "idle"
    /\ \/ workerAlive /\ pc' = [pc EXCEPT ![c] = "tryAdd"]
       \/ /\ ~ workerAlive
          /\ \E w \in Workers :
               /\ pc[w] = "off"
               /\ pc' = [pc EXCEPT ![c] = "tryAdd", ![w] = "spawned"]
    /\ UNCHANGED <<now, cfgOk, trunkVars, lck, clients, workerAlive>>

\* Mutated form: what Swap returns is not looked at.
WorkerStartAnyway(w) ==
    /\ pc[w] = "spawned"
    /\ workerAlive' = TRUE
    /\ pc' = [pc EXCEPT ![w] = "idle"]
    /\ UNCHANGED <<now, cfgOk, trunkVars, lck, clients>>

\* clientsWorker: all but the first to swap workerAlive return.
WorkerStart(w) ==
    /\ pc[w] = "spawned"
    /\ workerAlive' = TRUE
    /\ pc' = [pc EXCEPT ![w] = IF workerAlive THEN "off" ELSE "idle"]
    /\ UNCHANGED <<now, cfgOk, trunkVars, lck, clients>>

\* A pass of the worker's loop that finds clients and no trunk.
WorkerWake(w) ==
    /\ pc[w] = "idle"
    /\ clients # {}
    /\ sharedClients = {}
    /\ pc' = [pc EXCEPT ![w] = "tryAdd"]
    /\ UNCHANGED <<now, cfgOk, trunkVars, lck, clients, workerAlive>>

\* Where tryAddNewSharedClient returns to: with an error, getClient gives up.
AfterAdd(p, ok) == IF p \in Callers /\ ok THEN "register" ELSE "idle"

\* Mutated form: off by one in total < 5.
TryAddScanOneMore(p) ==
    LET room == Cardinality(sharedClients) <= MaxTrunks
        noneHealthy == \A t \in sharedClients : created[t] + Healthy <= now
    IN
    /\ pc[p] = "tryAdd"
    /\ lck = Nobody
    /\ IF room /\ noneHealthy
       THEN lck' = p /\ pc' = [pc EXCEPT ![p] = "create"]
       ELSE pc' = [pc EXCEPT ![p] = AfterAdd(p, TRUE)] /\ UNCHANGED lck
    /\ UNCHANGED <<now, cfgOk, trunkVars, clients, workerAlive>>

\* tryAddNewSharedClient up to its decision; lck is kept when it will add.
TryAddScan(p) ==
    LET room == Cardinality(sharedClients) < MaxTrunks
        noneHealthy == \A t \in sharedClients : created[t] + Healthy <= now
    IN
    /\ pc[p] = "tryAdd"
    /\ lck = Nobody
    /\ IF room /\ noneHealthy
       THEN lck' = p /\ pc' = [pc EXCEPT ![p] = "create"]
       ELSE pc' = [pc EXCEPT ![p] = AfterAdd(p, TRUE)] /\ UNCHANGED lck
    /\ UNCHANGED <<now, cfgOk, trunkVars, clients, workerAlive>>

\* h1.NewClient, newClient with its own reading of the clock, Store, go start.
TryAddStore(p) ==
    /\ pc[p] = "create"
    /\ lck' = Nobody
    /\ pc' = [pc EXCEPT ![p] = AfterAdd(p, cfgOk)]
    /\ \/ ~ cfgOk /\ UNCHANGED trunkVars
       \/ /\ cfgOk
          /\ \E t \in Trunks \ sharedClients :
               /\ phase' = [phase EXCEPT ![t] = "starting"]
               /\ created' = [created EXCEPT ![t] = now]
          /\ UNCHANGED <<lastPing, lastPong, lastData, due, pingNext, pings,
                         link, failedSince, late, reaped>>
    /\ UNCHANGED <<now, cfgOk, clients, workerAlive>>

Register(c) ==
    /\ pc[c] = "register"
    /\ pc' = [pc EXCEPT ![c] = "using"]
    /\ clients' = clients \cup {c}
    /\ UNCHANGED <<now, cfgOk, trunkVars, lck, workerAlive>>

\* dividedClient.Close takes the client out of the map.
CloseClient(c) ==
    /\ pc[c] = "using"
    /\ pc' = [pc EXCEPT ![c] = "idle"]
    /\ clients' = clients \ {c}
    /\ UNCHANGED <<now, cfgOk, trunkVars, lck, workerAlive>>

-----------------------------------------------------------------------------
(* The life of a trunk: client.start *)

Connect(t) ==
    /\ phase[t] = "starting"
    /\ \/ phase' = [phase EXCEPT ![t] = "running"]
       \/ phase' = [phase EXCEPT ![t] = "exiting"]
    /\ due' = [due EXCEPT ![t] = now + Loop]
    /\ UNCHANGED <<now, cfgOk, created, lastPing, lastPong, lastData, pingNext,
                   pings, link, failedSince, late, reaped, procVars>>

\* Mutated form: traffic counts as a sign of life.
StalledByData(t) == lastPing[t] > created[t] /\ lastData[t] + PongStall < lastPing[t]

Stalled(t) == lastPing[t] > created[t] /\ lastPong[t] + PongStall < lastPing[t]

\* queryClientInfo and the condition around it.
Decommissioned(t) ==
    LET oldest == \A s \in sharedClients : created[t] <= created[s]
        total == Cardinality(sharedClients)
    IN  /\ created[t] + Young < now
        /\ oldest
        /\ \/ total > 1 /\ lastData[t] + Idle < now
           \/ lastData[t] + IdleLong < now

Leave(t) ==
    /\ phase' = [phase EXCEPT ![t] = "exiting"]
    /\ UNCHANGED <<created, lastPing, lastPong, lastData, due, pingNext,
                   pings, link, failedSince, late>>

\* One pass of the loop: stalled or idle trunks leave, every second pass pings
\* and leaves if the ping cannot be written.  A ping on a blocked link does not
\* return.
LoopPass(t) ==
    /\ phase[t] = "running"
    /\ now >= due[t]
    /\ \/ /\ Stalled(t)
          /\ Leave(t)
          /\ reaped' = IF link[t] = "up" /\ t \notin late THEN reaped \cup {t} ELSE reaped
       \/ /\ ~ Stalled(t)
          /\ Decommissioned(t) \/ (pingNext[t] /\ link[t] = "broken")
          /\ Leave(t)
          /\ UNCHANGED reaped
       \/ /\ ~ Stalled(t) /\ ~ Decommissioned(t)
          /\ pingNext[t] => link[t] \in {"up", "silent"}
          /\ due' = [due EXCEPT ![t] = now + Loop]
          /\ pingNext' = [pingNext EXCEPT ![t] = ~ @]
          /\ IF pingNext[t]
             THEN /\ lastPing' = [lastPing EXCEPT ![t] = now]
                  /\ pings' = [pings EXCEPT ![t] =
                                  IF link[t] = "up" THEN Append(@, now) ELSE @]
             ELSE UNCHANGED <<lastPing, pings>>
          /\ UNCHANGED <<phase, created, lastPong, lastData, link, failedSince,
                         late, reaped>>
    /\ UNCHANGED <<now, cfgOk, procVars>>

\* The loop ends on x.Done: the reader goroutine met an error and cancelled.  It
\* only does if it calls tx.Read after the relay has ended; a reader that sleeps
\* in bufRead is not woken.
ReadError(t) ==
    /\ phase[t] = "running"
    /\ link[t] = "broken"
    /\ Leave(t)
    /\ UNCHANGED <<now, cfgOk, reaped, procVars>>

\* The deferred calls: tx.Close, exited, sharedClients.Delete.  The client
\* object is garbage from here on; its identity stands for a new one.
Exit(t) ==
    /\ phase[t] = "exiting"
    /\ phase' = [phase EXCEPT ![t] = "none"]
    /\ created' = [created EXCEPT ![t] = 0]
    /\ lastPing' = [lastPing EXCEPT ![t] = 0]
    /\ lastPong' = [lastPong EXCEPT ![t] = 0]
    /\ lastData' = [lastData EXCEPT ![t] = 0]
    /\ due' = [due EXCEPT ![t] = 0]
    /\ pingNext' = [pingNext EXCEPT ![t] = FALSE]
    /\ pings' = [pings EXCEPT ![t] = << >>]
    /\ link' = [link EXCEPT ![t] = "up"]
    /\ failedSince' = [failedSince EXCEPT ![t] = 0]
    /\ late' = late \ {t}
    /\ UNCHANGED <<now, cfgOk, reaped, procVars>>

\* Mutated form: the pong is received but its time is not stored.
PongUnstored(t) ==
    /\ phase[t] = "running"
    /\ pings[t] # << >>
    /\ pings' = [pings EXCEPT ![t] = Tail(@)]
    /\ UNCHANGED <<now, cfgOk, phase, created, lastPing, lastPong, lastData, due,
                   pingNext, link, failedSince, late, reaped, procVars>>

\* The reader goroutine of the trunk meets the next pong.  It may be as late as it
\* likes, or not come to it at all: the server may be slow, and the reader may sleep
\* in bufRead, or stand at its mutex (ReadWriteBuffer), whatever has arrived.
Pong(t) ==
    /\ phase[t] = "running"
    /\ pings[t] # << >>
    /\ pings' = [pings EXCEPT ![t] = Tail(@)]
    /\ lastPong' = [lastPong EXCEPT ![t] = now]
    /\ UNCHANGED <<now, cfgOk, phase, created, lastPing, lastData, due, pingNext,
                   link, failedSince, late, reaped, procVars>>

\* A data packet is sent through the trunk or received from it.
Data(t) ==
    /\ phase[t] = "running"
    /\ link[t] \in {"up", "silent"}
    /\ clients # {}
    /\ lastData' = [lastData EXCEPT ![t] = now]
    /\ UNCHANGED <<now, cfgOk, phase, created, lastPing, lastPong, due, pingNext,
                   pings, link, failedSince, late, reaped, procVars>>

\* The network: the peer vanishes without a word (silent); the connection ends
\* and with it RelayTraffic, after which writes fail (broken); RelayTraffic is
\* held up in tx.Write, or ends between Write's look at closed and its send on
\* chW, so that a write does not come back (blocked).
LinkFails(t) ==
    /\ phase[t] = "running"
    /\ link[t] = "up"
    /\ \E f \in LinkFaults : link' = [link EXCEPT ![t] = f]
    /\ failedSince' = [failedSince EXCEPT ![t] = now]
    /\ UNCHANGED <<now, cfgOk, phase, created, lastPing, lastPong, lastData, due,
                   pingNext, pings, late, reaped, procVars>>

\* The oldest pong trunk t waits for will have taken longer than is allowed to it.
Overdue(t) ==
    /\ pings[t] # << >>
    /\ now + 1 > Head(pings[t]) + (IF lastPong[t] = 0 THEN FirstLag ELSE PongLag)

\* Time passes, but no due pass of a loop is later than its lag, unless its ping is
\* held up.
Tick ==
    /\ now < MaxTime
    /\ \A t \in Trunks :
         phase[t] = "running" /\ link[t] # "blocked" => now < due[t] + Lag
    /\ now' = now + 1
    /\ late' = late \cup {t \in Trunks : Overdue(t)}
    /\ UNCHANGED <<cfgOk, phase, created, lastPing, lastPong, lastData, due, pingNext,
                   pings, link, failedSince, reaped, procVars>>

-----------------------------------------------------------------------------
ProcStep(p) == TryAddScan(p) \/ TryAddStore(p)
TrunkStep(t) == LoopPass(t) \/ Exit(t)

Next ==
    \/ \E c \in Callers : GetClient(c) \/ Register(c) \/ CloseClient(c)
    \/ \E w \in Workers : WorkerStart(w) \/ WorkerWake(w)
    \/ \E p \in Procs : ProcStep(p)
    \/ \E t \in Trunks : \/ TrunkStep(t) \/ ReadError(t) \/ Connect(t)
                         \/ Pong(t) \/ Data(t) \/ LinkFails(t)
    \/ Tick

(* Goroutines that can go on do so.  Nothing is assumed of the network, of *)
(* Connect, of a trunk's reader or of the users of the pool.               *)
Fairness ==
    /\ \A w \in Workers : WF_vars(WorkerStart(w)) /\ WF_vars(WorkerWake(w))
    /\ \A p \in Procs : WF_vars(ProcStep(p))
    /\ \A t \in Trunks : WF_vars(TrunkStep(t))

Spec == Init /\ [][Next]_vars /\ Fairness

-----------------------------------------------------------------------------
Stamps == [Trunks -> Nat]

\* A worker that has got past its Swap.
InLoop(w) == pc[w] \in {"idle", "tryAdd", "create"}

OneWorker ==
    /\ \A w \in Workers : InLoop(w) => workerAlive
    /\ \A v, w \in Workers : InLoop(v) /\ InLoop(w) => v = w

\* Shapes of the variables; workerAlive tells of one worker in its loop, however many
\* were spawned before the first of them ran.
TypeOK ==
    /\ now \in Nat
    /\ cfgOk \in BOOLEAN
    /\ phase \in [Trunks -> {"none", "starting", "running", "exiting"}]
    /\ created \in Stamps /\ lastPing \in Stamps /\ lastPong \in Stamps
    /\ lastData \in Stamps /\ due \in Stamps /\ failedSince \in Stamps
    /\ pingNext \in [Trunks -> BOOLEAN]
    /\ pings \in [Trunks -> Seq(Nat)]
    /\ link \in [Trunks -> {"up", "silent", "broken", "blocked"}]
    /\ late \subseteq Trunks /\ reaped \subseteq Trunks
    /\ lck \in Procs \cup {Nobody}
    /\ pc \in [Procs -> {"off", "spawned", "idle", "tryAdd", "create", "register", "using"}]
    /\ clients \subseteq Callers
    /\ workerAlive \in BOOLEAN
    /\ OneWorker

(* Two trunks of the pool are at least Healthy apart in age, although      *)
(* getClient runs in many goroutines beside the worker: "the oldest" of    *)
(* queryClientInfo and "the latest" of getAvailableSharedClient are one    *)
(* trunk each.                                                             *)
Spaced ==
    \A s, t \in sharedClients :
        s # t => created[s] + Healthy <= created[t] \/ created[t] + Healthy <= created[s]

\* The pool never holds more than MaxTrunks trunks, whoever adds them.
Bounded == Cardinality(sharedClients) <= MaxTrunks

(* The pong check of client.start ends a trunk whose connection is up only *)
(* if a pong was late: the first by a pass of the loop, another by three.  *)
(* A slower server, or a slower reader, costs the trunk its life.          *)
AnsweringTrunkKept == reaped = {}

(* A dead trunk is given up in time, although nobody tells its reader: a   *)
(* broken one at its next ping, two passes away at most; one whose peer    *)
(* has vanished at most three passes after that, or after the last pong,   *)
(* however late its reader came to it, has become too old.  A trunk whose  *)
(* ping is held up (a blocked link) stays: nothing in the code ends it.    *)
DeadTrunkLeaves ==
    \A t \in Trunks : phase[t] = "running" =>
        /\ link[t] = "broken" => now <= failedSince[t] + 2 * (Loop + Lag)
        /\ link[t] = "silent" =>
             \/ now <= failedSince[t] + 3 * (Loop + Lag)
             \/ now <= lastPong[t] + PongStall + 3 * (Loop + Lag)

\* While somebody holds a divided client, an empty pool is filled again.
PoolRefilled ==
    (cfgOk /\ clients # {}) ~> (sharedClients # {} \/ clients = {})
=============================================================================
