------------------------------ MODULE NsLookup ------------------------------
(***************************************************************************)
(* Names resolved through the tunnel: concurrent calls of                  *)
(* uplinkSecure.LookupIP (socks/backend/backend_secure.go) over uplinks    *)
(* whose workers dispatch the replies, the session that answers            *)
(* (tunnel/server_handler.go, handleDNS), and the cache of all uplinks     *)
(* (lru/ts_cache.go).  The first call for a name asks for it; a call that  *)
(* finds it being asked registers a callback and waits 5 s for it.         *)
(*                                                                         *)
(* A send on an unbuffered channel and its receive are one step.  What     *)
(* time.After measures is left out: a timeout may come at any moment.  Of  *)
(* a reply is kept whose addresses, possibly none, it has.                 *)
(***************************************************************************)
EXTENDS Naturals, Sequences

CONSTANTS
    NLookups,   \* calls of LookupIP
    Names,
    Links,      \* uplinks
    None,       \* no table, no call, nothing in the cache
    IdLimit,    \* 1 << 15, after which request ids start again
    MaxTicks    \* ticks of 5 s after which a call gives up: 5

ASSUME LookupAssumption ==
    /\ NLookups \in Nat /\ IdLimit \in Nat /\ MaxTicks \in Nat \ {0}
    /\ NLookups <= IdLimit + 1   \* no id is met twice
    /\ None \notin Names \cup Links \cup Nat

VARIABLES
    pc,         \* of a call: idle, enter, join, callback, send, wait, got, hand, done, failed
    dn, via,    \* its name and its uplink
    reqId,      \* nsReqId
    res,        \* what it returns: "error", or the name whose addresses it has
    total,      \* durTotal, in ticks
    late,       \* it waited in vain for its callback
    table,      \* the table of callbacks it joined or ranges over
    todo, to,   \* the callbacks Range has left, and the one it is in
    nsWait,     \* mapNsWait: the table of a name, called by the call that made it
    callbacks,  \* the calls whose callback a table holds
    seed,       \* seedNsReqId
    cache,      \* dnsCache
    mapWait,    \* of an uplink: the call that waits for a request id
    wk,         \* its worker: read, ended, or handler
    wkCall, wkRes,   \* the call in whose handler it is, and the reply
    up,         \* it stands
    reqs        \* requests whose replies the worker has not read

callVars == <<pc, dn, via, reqId, res, total, late, table, todo, to>>
sharedVars == <<nsWait, callbacks, seed, cache>>
linkVars == <<mapWait, wk, wkCall, wkRes, up, reqs>>
vars == <<callVars, sharedVars, linkVars>>

Lookups == 1..NLookups   \* in the order the calls are made
Ids == 1..IdLimit + 1

Init ==
    /\ pc = [l \in Lookups |-> "idle"]
    /\ dn = [l \in Lookups |-> None] /\ via = [l \in Lookups |-> None]
    /\ reqId = [l \in Lookups |-> 0]
    /\ res = [l \in Lookups |-> None]
    /\ total = [l \in Lookups |-> 0]
    /\ late = [l \in Lookups |-> FALSE]
    /\ table = [l \in Lookups |-> None]
    /\ todo = [l \in Lookups |-> {}] /\ to = [l \in Lookups |-> None]
    /\ nsWait = [n \in Names |-> None]
    /\ callbacks = [l \in Lookups |-> {}]
    /\ seed = 0
    /\ cache = [n \in Names |-> None]
    /\ mapWait = [k \in Links |-> [i \in Ids |-> None]]
    /\ wk = [k \in Links |-> "read"] 
    /\ wkCall = [k \in Links |-> None] /\ wkRes = [k \in Links |-> None]
    /\ up = [k \in Links |-> TRUE]
    /\ reqs = [k \in Links |-> << >>]

-----------------------------------------------------------------------------
(* LookupIP *)

\* Mutated form: the id is not advanced past the first.
nextNsReqIdStuck == IF seed > IdLimit THEN 1 ELSE 1

nextNsReqId == IF seed > IdLimit THEN 1 ELSE seed + 1

\* A call for a name on an uplink: what is cached is returned; else the call gets
\* its request id.
LookupIP(l) ==
    /\ pc[l] = "idle" /\ \A m \in 1..l - 1 : pc[m] # "idle"
    /\ \E n \in Names, k \in Links :
          /\ dn' = [dn EXCEPT ![l] = n] /\ via' = [via EXCEPT ![l] = k]
          /\ \/ /\ cache[n] # None
                /\ res' = [res EXCEPT ![l] = cache[n]]
                /\ pc' = [pc EXCEPT ![l] = "done"]
                /\ UNCHANGED <<reqId, seed>>
             \/ /\ cache[n] = None
                /\ seed' = nextNsReqId
                /\ reqId' = [reqId EXCEPT ![l] = nextNsReqId]
                /\ pc' = [pc EXCEPT ![l] = "enter"]
                /\ UNCHANGED res
    /\ UNCHANGED <<total, late, table, todo, to, nsWait, callbacks, cache, linkVars>>

\* Mutated form: mapNsWait is looked at and not stored to.
LoadOrStoreNoStore(l) ==
    /\ pc[l] = "enter"
    /\ \/ /\ nsWait[dn[l]] # None
          /\ table' = [table EXCEPT ![l] = nsWait[dn[l]]]
          /\ pc' = [pc EXCEPT ![l] = "join"]
       \/ /\ nsWait[dn[l]] = None
          /\ pc' = [pc EXCEPT ![l] = "send"]
          /\ UNCHANGED table
    /\ UNCHANGED <<dn, via, reqId, res, total, late, todo, to, sharedVars, linkVars>>

\* The call is the first to ask for the name and makes its table, or it finds one.
LoadOrStore(l) ==
    /\ pc[l] = "enter"
    /\ \/ /\ nsWait[dn[l]] # None
          /\ table' = [table EXCEPT ![l] = nsWait[dn[l]]]
          /\ pc' = [pc EXCEPT ![l] = "join"]
          /\ UNCHANGED nsWait
       \/ /\ nsWait[dn[l]] = None
          /\ nsWait' = [nsWait EXCEPT ![dn[l]] = l]
          /\ pc' = [pc EXCEPT ![l] = "send"]
          /\ UNCHANGED table
    /\ UNCHANGED <<dn, via, reqId, res, total, late, todo, to, callbacks, seed, cache,
                   linkVars>>

\* The callback is stored in the table found, which may be out of mapNsWait by
\* then; a Range under way may or may not meet it.
StoreCallback(l) ==
    /\ pc[l] = "join"
    /\ callbacks' = [callbacks EXCEPT ![table[l]] = @ \cup {l}]
    /\ \E seen \in SUBSET {k \in Lookups : pc[k] = "hand" /\ table[k] = table[l]} :
          todo' = [k \in Lookups |-> IF k \in seen THEN todo[k] \cup {l} ELSE todo[k]]
    /\ pc' = [pc EXCEPT ![l] = "callback"]
    /\ UNCHANGED <<dn, via, reqId, res, total, late, table, to, nsWait, seed, cache, linkVars>>

\* 5 s in vain: the call asks for the name itself, and leaves its callback behind.
CallbackTimeout(l) ==
    /\ pc[l] = "callback"
    /\ pc' = [pc EXCEPT ![l] = "send"]
    /\ late' = [late EXCEPT ![l] = TRUE]
    /\ table' = [table EXCEPT ![l] = None]
    /\ UNCHANGED <<dn, via, reqId, res, total, todo, to, sharedVars, linkVars>>

\* A return past the defer: whatever table the name has by now is deleted.
Returns(l, outcome, r) ==
    /\ pc' = [pc EXCEPT ![l] = outcome]
    /\ res' = [res EXCEPT ![l] = r]
    /\ nsWait' = [nsWait EXCEPT ![dn[l]] = None]
    /\ reqId' = [reqId EXCEPT ![l] = 0]
    /\ total' = [total EXCEPT ![l] = 0]
    /\ table' = [table EXCEPT ![l] = None]

\* The handler is stored and the request written; a refused write leaves the handler.
\* Nothing says that the write comes back: h1.Client.Write waits on chW for a relay
\* that may be held up in its own writing, have ended since, or never have begun.  Until
\* then the call stays here, its table in mapNsWait.
WriteRequest(l) ==
    /\ pc[l] = "send"
    /\ mapWait' = [mapWait EXCEPT ![via[l]][reqId[l]] = l]
    /\ \/ /\ up[via[l]]
          /\ reqs' = [reqs EXCEPT ![via[l]] = Append(@, [id |-> reqId[l], name |-> dn[l]])]
          /\ pc' = [pc EXCEPT ![l] = "wait"]
          /\ UNCHANGED <<res, nsWait, reqId, total, table>>
       \/ ~ up[via[l]] /\ Returns(l, "failed", "error") /\ UNCHANGED reqs
    /\ UNCHANGED <<dn, via, late, todo, to, callbacks, seed, cache,
                   wk, wkCall, wkRes, up>>

\* Mutated form: the call waits one tick more.
WaitTickLonger(l) ==
    /\ pc[l] = "wait"
    /\ \/ /\ total[l] < MaxTicks
          /\ total' = [total EXCEPT ![l] = @ + 1]
          /\ UNCHANGED <<pc, res, nsWait, reqId, table>>
       \/ total[l] = MaxTicks /\ Returns(l, "failed", "error")
    /\ UNCHANGED <<dn, via, late, todo, to, callbacks, seed, cache, linkVars>>

\* Mutated form: durTotal starts again with every tick.
WaitTickAgain(l) ==
    /\ pc[l] = "wait"
    /\ total' = [total EXCEPT ![l] = 1 - total[l]]
    /\ UNCHANGED <<pc, dn, via, reqId, res, late, table, todo, to, sharedVars, linkVars>>

\* 5 s without the reply; once durTotal has passed 20 s the call fails, and its
\* handler stays in mapWait.
WaitTick(l) ==
    /\ pc[l] = "wait"
    /\ \/ /\ total[l] + 1 < MaxTicks
          /\ total' = [total EXCEPT ![l] = @ + 1]
          /\ UNCHANGED <<pc, res, nsWait, reqId, table>>
       \/ total[l] + 1 = MaxTicks /\ Returns(l, "failed", "error")
    /\ UNCHANGED <<dn, via, late, todo, to, callbacks, seed, cache, linkVars>>

\* The handler hands the reply to the call, which caches it, whether or not the
\* name did resolve.
TakeReply(l) ==
    /\ pc[l] = "wait" /\ wkCall[via[l]] = l
    /\ res' = [res EXCEPT ![l] = wkRes[via[l]]]
    /\ cache' = [cache EXCEPT ![dn[l]] = wkRes[via[l]]]
    /\ wk' = [wk EXCEPT ![via[l]] = "read"]
    /\ wkCall' = [wkCall EXCEPT ![via[l]] = None] /\ wkRes' = [wkRes EXCEPT ![via[l]] = None]
    /\ pc' = [pc EXCEPT ![l] = "got"]
    /\ UNCHANGED <<dn, via, reqId, total, late, table, todo, to, nsWait, callbacks, seed,
                   mapWait, up, reqs>>

\* Range over the table the name has now.
RangeCallbacks(l) ==
    /\ pc[l] = "got"
    /\ table' = [table EXCEPT ![l] = nsWait[dn[l]]]
    /\ todo' = [todo EXCEPT ![l] = IF nsWait[dn[l]] = None THEN {} ELSE callbacks[nsWait[dn[l]]]]
    /\ pc' = [pc EXCEPT ![l] = "hand"]
    /\ UNCHANGED <<dn, via, reqId, res, total, late, to, sharedVars, linkVars>>

NextCallback(l) ==
    /\ pc[l] = "hand" /\ to[l] = None
    /\ \E w \in todo[l] :
          /\ to' = [to EXCEPT ![l] = w]
          /\ todo' = [todo EXCEPT ![l] = @ \ {w}]
    /\ UNCHANGED <<pc, dn, via, reqId, res, total, late, table, sharedVars, linkVars>>

\* The callback meets its call: if that has stopped waiting, never.
Callback(l) ==
    /\ pc[l] = "hand" /\ to[l] # None
    /\ pc[to[l]] = "callback"
    /\ pc' = [pc EXCEPT ![to[l]] = "done"]
    /\ res' = [res EXCEPT ![to[l]] = res[l]]
    /\ reqId' = [reqId EXCEPT ![to[l]] = 0]
    /\ table' = [table EXCEPT ![to[l]] = None]
    /\ to' = [to EXCEPT ![l] = None]
    /\ UNCHANGED <<dn, via, total, late, todo, sharedVars, linkVars>>

RangeEnds(l) ==
    /\ pc[l] = "hand" /\ to[l] = None /\ todo[l] = {}
    /\ Returns(l, "done", res[l])
    /\ UNCHANGED <<dn, via, late, todo, to, callbacks, seed, cache, linkVars>>

\* removeOutdatedItems: a name not asked for in five minutes.
removeOutdatedItems(n) ==
    /\ cache[n] # None
    /\ cache' = [cache EXCEPT ![n] = None]
    /\ UNCHANGED <<callVars, nsWait, callbacks, seed, linkVars>>

-----------------------------------------------------------------------------
(* The uplink *)

\* The session's reply to a request; the error of a name that does not resolve is
\* in it, and LookupIP does not look at it.
handleDNS(req) == [ack |-> req.id, addrs |-> req.name]

\* Requests are answered in their order.  The worker reads a reply, takes its
\* handler out of mapWait and goes into it; it stays there when the call has
\* given up.
dispatchReply(k) ==
    /\ wk[k] = "read" /\ reqs[k] # << >>
    /\ LET m == handleDNS(Head(reqs[k]))
       IN  /\ \/ /\ mapWait[k][m.ack] # None
                 /\ wk' = [wk EXCEPT ![k] = "handler"]
                 /\ wkCall' = [wkCall EXCEPT ![k] = mapWait[k][m.ack]]
                 /\ wkRes' = [wkRes EXCEPT ![k] = m.addrs]
              \/ mapWait[k][m.ack] = None /\ UNCHANGED <<wk, wkCall, wkRes>>
           /\ mapWait' = [mapWait EXCEPT ![k][m.ack] = None]
    /\ reqs' = [reqs EXCEPT ![k] = Tail(@)]
    /\ UNCHANGED <<callVars, sharedVars, up>>

\* The worker meets the end of its transport.
WorkerEnds(k) ==
    /\ wk[k] = "read" /\ ~ up[k]
    /\ wk' = [wk EXCEPT ![k] = "ended"]
    /\ UNCHANGED <<callVars, sharedVars, mapWait, wkCall, wkRes, up, reqs>>

\* The transport ends, by Close or by itself, and what is on its way is lost.
LinkEnds(k) ==
    /\ up[k]
    /\ up' = [up EXCEPT ![k] = FALSE]
    /\ reqs' = [reqs EXCEPT ![k] = << >>]
    /\ UNCHANGED <<callVars, sharedVars, mapWait, wk, wkCall, wkRes>>

-----------------------------------------------------------------------------
Enters(l) == LoadOrStore(l) \/ StoreCallback(l)
Timers(l) == CallbackTimeout(l) \/ WaitTick(l)
Gives(l) == RangeCallbacks(l) \/ NextCallback(l) \/ Callback(l) \/ RangeEnds(l)
LookupStep(l) == Enters(l) \/ Timers(l) \/ TakeReply(l) \/ Gives(l)
LinkStep(k) == dispatchReply(k) \/ WorkerEnds(k) \/ LinkEnds(k)

Next ==
    \/ \E l \in Lookups : LookupIP(l) \/ WriteRequest(l) \/ LookupStep(l)
    \/ \E k \in Links : LinkStep(k)
    \/ \E n \in Names : removeOutdatedItems(n)

\* A call goes on while it can and its timers fire.  Nothing is assumed of the
\* session, the transport or the worker: a write may never come back, a reply never
\* come.
Spec == Init /\ [][Next]_vars /\ \A l \in Lookups : WF_vars(LookupStep(l))

-----------------------------------------------------------------------------
Ended(l) == pc[l] \in {"done", "failed"}

\* Every variable holds a value the code can give it; a call that has waited for
\* MaxTicks is over, and a request id never passes its limit.
TypeOK ==
    /\ pc \in [Lookups -> {"idle", "enter", "join", "callback", "send", "wait", "got",
                           "hand", "done", "failed"}]
    /\ dn \in [Lookups -> Names \cup {None}] /\ via \in [Lookups -> Links \cup {None}]
    /\ reqId \in [Lookups -> Ids \cup {0}] /\ seed \in Ids \cup {0}
    /\ total \in [Lookups -> 0..MaxTicks - 1] /\ late \in [Lookups -> BOOLEAN]
    /\ table \in [Lookups -> Lookups \cup {None}] /\ nsWait \in [Names -> Lookups \cup {None}]
    /\ todo \in [Lookups -> SUBSET Lookups] /\ to \in [Lookups -> Lookups \cup {None}]
    /\ callbacks \in [Lookups -> SUBSET Lookups]
    /\ mapWait \in [Links -> [Ids -> Lookups \cup {None}]]
    /\ wk \in [Links -> {"read", "handler", "ended"}]
    /\ wkCall \in [Links -> Lookups \cup {None}] /\ up \in [Links -> BOOLEAN]

\* A call returns addresses of the name it was asked for, and the cache of all
\* uplinks holds them under that name, although replies are matched by an id that
\* calls of every uplink draw from one counter, pass through handlers and
\* callbacks that outlive their calls, and are given to calls of other uplinks.
AnswerIsOwn ==
    /\ \A l \in Lookups : res[l] \in {dn[l], None, "error"}
    /\ \A n \in Names : cache[n] \in {n, None}

Asking(l) == pc[l] \in {"send", "wait"}

\* Two calls ask for one name at a time only after a call has waited in vain for
\* it: the table a call stores keeps the others from asking until the call that
\* stored it returns, and only one that waited in vain deletes another's table.
SingleFlight ==
    \A l, m \in Lookups :
        l # m /\ Asking(l) /\ Asking(m) /\ dn[l] = dn[m]
            => \E w \in Lookups : dn[w] = dn[l] /\ late[w]

\* The call is in the callback of one that no longer waits for it.
Caught(l) == to[l] # None /\ pc[to[l]] # "callback"

\* In the end every call made has returned, whatever became of the replies, of the
\* worker and of the other calls, those that never return and keep their table in
\* mapNsWait among them.  The exceptions, which no timer of the code bounds: its own
\* w.Write never comes back, or it is caught in the callback of a call that stopped
\* waiting.
LookupEnds ==
    \A l \in Lookups :
        <>[](pc[l] = "idle" \/ Ended(l)) \/ <>[](pc[l] = "send") \/ <>[]Caught(l)
=============================================================================
