--------------------------- MODULE NsLookupProofs ---------------------------
(***************************************************************************)
(* Proofs about NsLookup, for every number of calls, names and uplinks.    *)
(***************************************************************************)
EXTENDS NsLookup, SequenceTheorems, TLAPS

Request == [id : Ids, name : Names]

\* What TypeOK leaves open: the values on their way, and what a call has in each of
\* its steps.
Types ==
    /\ res \in [Lookups -> Names \cup {None, "error"}]
    /\ cache \in [Names -> Names \cup {None}]
    /\ wkRes \in [Links -> Names \cup {None}]
    /\ reqs \in [Links -> Seq(Request)]
    /\ \A l \in Lookups :
         /\ pc[l] # "idle" => dn[l] \in Names /\ via[l] \in Links
         /\ pc[l] = "idle" => res[l] = None /\ ~ late[l]
         /\ pc[l] = "join" => table[l] # None

PcStates == [Lookups -> {"idle", "enter", "join", "callback", "send", "wait", "got", "hand",
                         "done", "failed"}]

\* A call before its request is written.
Before(l) == pc[l] \in {"enter", "join", "callback", "send"}

\* Ids are drawn one by one, at most one by a call, and calls are made in order: the
\* counter never starts again and no two calls hold one id.
Drawn ==
    /\ \A l \in Lookups : pc[l] = "idle" => seed < l /\ reqId[l] = 0
    /\ \A l \in Lookups : Before(l) => reqId[l] \in Ids
    /\ \A l \in Lookups : reqId[l] <= seed
    /\ \A l, m \in Lookups : reqId[l] = reqId[m] /\ reqId[l] # 0 => l = m

\* Id i has been drawn, and by none of the calls whose request is to be written.
Used(i) == i <= seed /\ \A m \in Lookups : Before(m) => reqId[m] # i

\* A request on uplink k is of an id that is in use, and of the name of the call whose
\* handler its reply will meet.
Fits(k, r) ==
    /\ Used(r.id)
    /\ mapWait[k][r.id] # None => dn[mapWait[k][r.id]] = r.name

\* Handlers are of ids in use, requests fit them, and so does the reply in a handler.
Matched ==
    /\ \A k \in Links, i \in Ids :
         mapWait[k][i] # None => Used(i) /\ pc[mapWait[k][i]] # "idle"
    /\ \A k \in Links : \A j \in 1..Len(reqs[k]) : Fits(k, reqs[k][j])
    /\ \A k \in Links :
         wkCall[k] # None => pc[wkCall[k]] # "idle" /\ wkRes[k] = dn[wkCall[k]]

\* Calls that ask for one name.
Same(l, m) == pc[l] # "idle" /\ pc[m] # "idle" /\ dn[l] = dn[m]

\* The tables, the callbacks in them and those a Range has left are of calls for one
\* name.
OneName ==
    /\ \A n \in Names : nsWait[n] # None => pc[nsWait[n]] # "idle" /\ dn[nsWait[n]] = n
    /\ \A l \in Lookups : table[l] # None => Same(l, table[l])
    /\ \A l \in Lookups : \A m \in callbacks[l] : Same(l, m)
    /\ \A l \in Lookups : \A m \in todo[l] : Same(l, m)
    /\ \A l \in Lookups : to[l] # None => Same(l, to[l])

\* A call that asks for its name, or hands the reply on, made the table the name has
\* now, unless a call for that name has waited in vain.
Owner ==
    \A l \in Lookups :
        pc[l] \in {"send", "wait", "got", "hand"}
            => \/ nsWait[dn[l]] = l
               \/ \E w \in Lookups : dn[w] = dn[l] /\ late[w]

IInv == TypeOK /\ Types /\ Drawn /\ Matched /\ OneName /\ Owner /\ AnswerIsOwn

(* The constants, as the proofs use them. *)
LEMMA Constants ==
    /\ NLookups \in Nat /\ IdLimit \in Nat /\ MaxTicks \in Nat /\ MaxTicks > 0
    /\ NLookups <= IdLimit + 1
    /\ None \notin Names /\ None \notin Links /\ None \notin Lookups
  BY LookupAssumption DEF Lookups

(* The queues of requests: what an Append and a Tail leave of them. *)
LEMMA SeqFacts ==
    ASSUME NEW S, NEW s \in Seq(S)
    PROVE  /\ Len(s) \in Nat
           /\ \A x \in S : /\ Append(s, x) \in Seq(S) /\ Len(Append(s, x)) = Len(s) + 1
                           /\ \A i \in 1..Len(s) : Append(s, x)[i] = s[i]
                           /\ Append(s, x)[Len(s) + 1] = x
           /\ s # << >> => /\ Len(s) >= 1 /\ Head(s) = s[1] /\ Head(s) \in S
                          /\ Tail(s) \in Seq(S) /\ Len(Tail(s)) = Len(s) - 1
                          /\ \A i \in 1..Len(s) - 1 : Tail(s)[i] = s[i + 1]
  OBVIOUS

(* The id a call draws: ids never start again. *)
LEMMA DrawnId ==
    ASSUME TypeOK, Drawn, NEW l \in Lookups, pc[l] = "idle"
    PROVE  nextNsReqId = seed + 1 /\ nextNsReqId \in Ids /\ nextNsReqId <= l /\ seed \in Nat
<1>1. seed \in Nat /\ l \in Nat /\ seed < l /\ l <= IdLimit + 1
  BY Constants DEF TypeOK, Drawn, Lookups, Ids
<1> QED
  BY <1>1, Constants DEF nextNsReqId, Ids

(* A call that returns gives its id back. *)
LEMMA IdGivenBack ==
    ASSUME TypeOK, Drawn, NEW l \in Lookups, pc[l] # "idle",
           NEW outcome \in {"done", "failed"}, pc' = [pc EXCEPT ![l] = outcome],
           reqId' = [reqId EXCEPT ![l] = 0], seed' = seed
    PROVE  Drawn'
<1>1. seed \in Nat /\ pc'[l] = outcome /\ reqId'[l] = 0
  BY DEF TypeOK, Ids
<1>2. \A m \in Lookups : m # l => pc'[m] = pc[m] /\ reqId'[m] = reqId[m]
  BY DEF TypeOK
<1> QED
  BY <1>1, <1>2 DEF Drawn, Before

(* A request on its way has an id and a name. *)
LEMMA RequestAt ==
    ASSUME IInv, NEW k \in Links, NEW j \in 1..Len(reqs[k])
    PROVE  reqs[k][j] \in Request /\ reqs[k][j].id \in Ids
<1>1. reqs[k] \in Seq(Request)
  BY DEF IInv, Types
<1>2. reqs[k][j] \in Request
  BY <1>1
<1> QED
  BY <1>2 DEF Request

(* Requests, handlers and replies stay matched where none is added, calls keep their *)
(* names and ids in use stay in use.                                                 *)
LEMMA MatchedKept ==
    ASSUME IInv, \A i \in Ids : Used(i) => Used(i)',
           \A m \in Lookups : pc[m] # "idle" => pc'[m] # "idle" /\ dn'[m] = dn[m],
           mapWait' = mapWait,
           \A k \in Links : reqs'[k] = << >> \/ reqs'[k] = reqs[k],
           \A k \in Links :
               wkCall'[k] = None \/ (wkCall'[k] = wkCall[k] /\ wkRes'[k] = wkRes[k])
    PROVE  Matched'
<1>1. \A k \in Links, i \in Ids : mapWait[k][i] \in Lookups \cup {None}
  BY DEF IInv, TypeOK
<1>2. \A k \in Links, i \in Ids :
          mapWait'[k][i] # None => Used(i)' /\ pc'[mapWait'[k][i]] # "idle"
  BY <1>1 DEF IInv, Matched
<1>3. ASSUME NEW k \in Links, NEW j \in 1..Len(reqs'[k])
      PROVE  Fits(k, reqs[k][j])'
  <2>1. reqs'[k] = reqs[k] /\ j \in 1..Len(reqs[k])
    BY <1>3
  <2>2. reqs[k][j].id \in Ids /\ Fits(k, reqs[k][j])
    BY <2>1, RequestAt DEF IInv, Matched
  <2> QED
    BY <1>1, <2>1, <2>2 DEF Fits, IInv, Matched
<1>4. \A k \in Links :
          wkCall'[k] # None => pc'[wkCall'[k]] # "idle" /\ wkRes'[k] = dn'[wkCall'[k]]
  BY DEF IInv, TypeOK, Matched
<1> QED
  BY <1>2, <1>3, <1>4 DEF Matched

(* What a return past the defer leaves of the shared tables. *)
LEMMA ReturnsTypes ==
    ASSUME TypeOK, NEW l \in Lookups, dn[l] \in Names, NEW r,
           NEW outcome \in {"done", "failed"}, Returns(l, outcome, r)
    PROVE  /\ pc' \in [Lookups -> {"idle", "enter", "join", "callback", "send", "wait", "got",
                                  "hand", "done", "failed"}]
           /\ nsWait' \in [Names -> Lookups \cup {None}]
           /\ reqId' \in [Lookups -> Ids \cup {0}]
           /\ total' \in [Lookups -> 0..MaxTicks - 1]
           /\ table' \in [Lookups -> Lookups \cup {None}]
<1>1. 0 \in 0..MaxTicks - 1
  BY Constants
<1> QED
  BY <1>1 DEF TypeOK, Returns

(* Every step keeps the types of the run's TypeOK. *)
LEMMA TypeOKStep == IInv /\ [Next]_vars => TypeOK'
<1> SUFFICES ASSUME IInv, [Next]_vars
             PROVE  TypeOK'
  OBVIOUS
<1>1. ASSUME NEW l \in Lookups, LookupIP(l)
      PROVE  TypeOK'
  <2>1. PICK n \in Names, k \in Links :
            dn' = [dn EXCEPT ![l] = n] /\ via' = [via EXCEPT ![l] = k]
    BY <1>1 DEF LookupIP
  <2>2. reqId' \in [Lookups -> Ids \cup {0}] /\ seed' \in Ids \cup {0}
    BY <1>1, DrawnId DEF LookupIP, IInv, TypeOK
  <2>3. pc' = [pc EXCEPT ![l] = "done"] \/ pc' = [pc EXCEPT ![l] = "enter"]
    BY <1>1 DEF LookupIP
  <2>4. pc' \in PcStates
    BY <2>3 DEF IInv, TypeOK, PcStates
  <2> QED
    BY <1>1, <2>1, <2>2, <2>4 DEF LookupIP, IInv, TypeOK, linkVars, PcStates
<1>2. ASSUME NEW l \in Lookups, LoadOrStore(l)
      PROVE  TypeOK'
  <2>1. dn[l] \in Names
    BY <1>2 DEF LoadOrStore, IInv, Types
  <2>2. nsWait[dn[l]] \in Lookups \cup {None}
    BY <2>1 DEF IInv, TypeOK
  <2>3. nsWait' \in [Names -> Lookups \cup {None}]
    BY <1>2, <2>1 DEF LoadOrStore, IInv, TypeOK
  <2>4. table' \in [Lookups -> Lookups \cup {None}]
    BY <1>2, <2>2 DEF LoadOrStore, IInv, TypeOK
  <2>5. pc' \in PcStates
    BY <1>2 DEF LoadOrStore, IInv, TypeOK, PcStates
  <2> QED
    BY <1>2, <2>3, <2>4, <2>5 DEF LoadOrStore, IInv, TypeOK, linkVars, PcStates
<1>3. ASSUME NEW l \in Lookups, StoreCallback(l)
      PROVE  TypeOK'
  BY <1>3 DEF StoreCallback, IInv, TypeOK, Types, linkVars
<1>4. ASSUME NEW l \in Lookups, CallbackTimeout(l)
      PROVE  TypeOK'
  BY <1>4 DEF CallbackTimeout, IInv, TypeOK, Types, sharedVars, linkVars
<1>5. ASSUME NEW l \in Lookups, WriteRequest(l)
      PROVE  TypeOK'
  <2>1. dn[l] \in Names /\ via[l] \in Links /\ reqId[l] \in Ids
    BY <1>5 DEF WriteRequest, IInv, Types, Drawn, Before
  <2>2. mapWait' \in [Links -> [Ids -> Lookups \cup {None}]]
    BY <1>5, <2>1 DEF WriteRequest, IInv, TypeOK
  <2>3. CASE up[via[l]]
    <3>1. pc' = [pc EXCEPT ![l] = "wait"] /\ UNCHANGED <<res, nsWait, reqId, total, table>>
      BY <1>5, <2>3 DEF WriteRequest
    <3> QED
      BY <1>5, <2>2, <3>1 DEF WriteRequest, IInv, TypeOK
  <2>4. CASE ~ up[via[l]]
    <3>1. Returns(l, "failed", "error")
      BY <1>5, <2>4 DEF WriteRequest
    <3> QED
      BY <1>5, <2>1, <2>2, <3>1, ReturnsTypes DEF WriteRequest, IInv, TypeOK
  <2> QED
    BY <2>3, <2>4
<1>6. ASSUME NEW l \in Lookups, WaitTick(l)
      PROVE  TypeOK'
  <2>1. dn[l] \in Names
    BY <1>6 DEF WaitTick, IInv, Types
  <2>2. CASE total[l] + 1 < MaxTicks /\ total' = [total EXCEPT ![l] = @ + 1]
             /\ UNCHANGED <<pc, res, nsWait, reqId, table>>
    <3>1. total[l] + 1 \in 0..MaxTicks - 1
      BY <2>2, Constants DEF IInv, TypeOK
    <3> QED
      BY <1>6, <2>2, <3>1 DEF WaitTick, IInv, TypeOK, linkVars
  <2>3. CASE Returns(l, "failed", "error")
    BY <1>6, <2>1, <2>3, ReturnsTypes DEF WaitTick, IInv, TypeOK, linkVars
  <2> QED
    BY <1>6, <2>2, <2>3 DEF WaitTick
<1>7. ASSUME NEW l \in Lookups, TakeReply(l)
      PROVE  TypeOK'
  BY <1>7 DEF TakeReply, IInv, TypeOK, Types
<1>8. ASSUME NEW l \in Lookups, RangeCallbacks(l)
      PROVE  TypeOK'
  BY <1>8 DEF RangeCallbacks, IInv, TypeOK, Types, sharedVars, linkVars
<1>9. ASSUME NEW l \in Lookups, NextCallback(l)
      PROVE  TypeOK'
  <2>1. PICK w \in todo[l] :
            to' = [to EXCEPT ![l] = w] /\ todo' = [todo EXCEPT ![l] = @ \ {w}]
    BY <1>9 DEF NextCallback
  <2>2. w \in Lookups
    BY <2>1 DEF IInv, TypeOK
  <2> QED
    BY <1>9, <2>1, <2>2 DEF NextCallback, IInv, TypeOK, sharedVars, linkVars
<1>10. ASSUME NEW l \in Lookups, Callback(l)
      PROVE  TypeOK'
  BY <1>10 DEF Callback, IInv, TypeOK, Types, sharedVars, linkVars
<1>11. ASSUME NEW l \in Lookups, RangeEnds(l)
      PROVE  TypeOK'
  <2>1. dn[l] \in Names /\ Returns(l, "done", res[l])
    BY <1>11 DEF RangeEnds, IInv, Types
  <2> QED
    BY <1>11, <2>1, ReturnsTypes DEF RangeEnds, IInv, TypeOK, linkVars
<1>12. ASSUME NEW k \in Links, dispatchReply(k)
      PROVE  TypeOK'
  <2> DEFINE i == Head(reqs[k]).id
  <2>1. i \in Ids
    <3>1. reqs[k] \in Seq(Request) /\ reqs[k] # << >>
      BY <1>12 DEF dispatchReply, IInv, Types
    <3>2. Head(reqs[k]) \in Request
      BY <3>1, SeqFacts
    <3> QED
      BY <3>2 DEF Request
  <2>2. /\ mapWait' = [mapWait EXCEPT ![k][i] = None]
        /\ wkCall' = wkCall \/ wkCall' = [wkCall EXCEPT ![k] = mapWait[k][i]]
        /\ wk' = wk \/ wk' = [wk EXCEPT ![k] = "handler"]
    BY <1>12 DEF dispatchReply, handleDNS
  <2> HIDE DEF i
  <2>3. mapWait' \in [Links -> [Ids -> Lookups \cup {None}]]
    BY <2>1, <2>2 DEF IInv, TypeOK
  <2>4. wkCall' \in [Links -> Lookups \cup {None}]
    <3>1. mapWait[k][i] \in Lookups \cup {None}
      BY <2>1 DEF IInv, TypeOK
    <3> QED
      BY <2>2, <3>1 DEF IInv, TypeOK
  <2>5. wk' \in [Links -> {"read", "handler", "ended"}]
    BY <2>2 DEF IInv, TypeOK
  <2> QED
    BY <1>12, <2>3, <2>4, <2>5 DEF dispatchReply, IInv, TypeOK, callVars, sharedVars
<1>13. ASSUME NEW k \in Links, WorkerEnds(k)
      PROVE  TypeOK'
  BY <1>13 DEF WorkerEnds, IInv, TypeOK, Types, callVars, sharedVars
<1>14. ASSUME NEW k \in Links, LinkEnds(k)
      PROVE  TypeOK'
  BY <1>14 DEF LinkEnds, IInv, TypeOK, Types, callVars, sharedVars
<1>15. ASSUME NEW n \in Names, removeOutdatedItems(n)
      PROVE  TypeOK'
  BY <1>15 DEF removeOutdatedItems, IInv, TypeOK, Types, callVars, linkVars
<1>16. CASE UNCHANGED vars
  BY <1>16 DEF vars, callVars, sharedVars, linkVars, IInv, TypeOK, Types
<1> QED
  BY <1>1, <1>2, <1>3, <1>4, <1>5, <1>6, <1>7, <1>8, <1>9, <1>10, <1>11, <1>12, <1>13,
     <1>14, <1>15, <1>16
     DEF Next, LookupStep, Enters, Timers, Gives, LinkStep

(* Every step keeps the values on their way, and those of each call, in their types. *)
LEMMA TypesStep == IInv /\ [Next]_vars => Types'
<1> SUFFICES ASSUME IInv, [Next]_vars
             PROVE  Types'
  OBVIOUS
<1>1. ASSUME NEW l \in Lookups, LookupIP(l)
      PROVE  Types'
  <2>1. PICK n \in Names, k \in Links :
            /\ dn' = [dn EXCEPT ![l] = n] /\ via' = [via EXCEPT ![l] = k]
            /\ \/ res' = [res EXCEPT ![l] = cache[n]] /\ pc' = [pc EXCEPT ![l] = "done"]
               \/ res' = res /\ pc' = [pc EXCEPT ![l] = "enter"]
    BY <1>1 DEF LookupIP
  <2>2. CASE res' = [res EXCEPT ![l] = cache[n]] /\ pc' = [pc EXCEPT ![l] = "done"]
    BY <1>1, <2>1, <2>2 DEF LookupIP, IInv, TypeOK, Types, linkVars
  <2>3. CASE res' = res /\ pc' = [pc EXCEPT ![l] = "enter"]
    BY <1>1, <2>1, <2>3 DEF LookupIP, IInv, TypeOK, Types, linkVars
  <2> QED
    BY <2>1, <2>2, <2>3
<1>2. ASSUME NEW l \in Lookups, LoadOrStore(l)
      PROVE  Types'
  BY <1>2 DEF LoadOrStore, IInv, TypeOK, Types, linkVars
<1>3. ASSUME NEW l \in Lookups, StoreCallback(l)
      PROVE  Types'
  BY <1>3 DEF StoreCallback, IInv, TypeOK, Types, linkVars
<1>4. ASSUME NEW l \in Lookups, CallbackTimeout(l)
      PROVE  Types'
  BY <1>4 DEF CallbackTimeout, IInv, TypeOK, Types, sharedVars, linkVars
<1>5. ASSUME NEW l \in Lookups, WriteRequest(l)
      PROVE  Types'
  <2>1. dn[l] \in Names /\ via[l] \in Links /\ reqId[l] \in Ids
    BY <1>5 DEF WriteRequest, IInv, Types, Drawn, Before
  <2>2. CASE up[via[l]]
    <3> DEFINE r == [id |-> reqId[l], name |-> dn[l]]
    <3>1. /\ reqs' = [reqs EXCEPT ![via[l]] = Append(@, r)]
          /\ pc' = [pc EXCEPT ![l] = "wait"] /\ UNCHANGED <<res, table>>
      BY <1>5, <2>2 DEF WriteRequest
    <3>2. r \in Request
      BY <2>1 DEF Request
    <3> HIDE DEF r
    <3>3. Append(reqs[via[l]], r) \in Seq(Request)
      BY <2>1, <3>2, SeqFacts DEF IInv, Types
    <3>4. reqs' \in [Links -> Seq(Request)]
      BY <3>1, <3>3 DEF IInv, Types
    <3> QED
      BY <1>5, <3>1, <3>4 DEF WriteRequest, IInv, TypeOK, Types
  <2>3. CASE ~ up[via[l]]
    <3>1. Returns(l, "failed", "error") /\ reqs' = reqs
      BY <1>5, <2>3 DEF WriteRequest
    <3> QED
      BY <1>5, <3>1 DEF WriteRequest, Returns, IInv, TypeOK, Types
  <2> QED
    BY <2>2, <2>3
<1>6. ASSUME NEW l \in Lookups, WaitTick(l)
      PROVE  Types'
  <2>1. CASE UNCHANGED <<pc, res, table>>
    BY <1>6, <2>1 DEF WaitTick, IInv, TypeOK, Types, linkVars
  <2>2. CASE Returns(l, "failed", "error")
    BY <1>6, <2>2 DEF WaitTick, Returns, IInv, TypeOK, Types, linkVars
  <2> QED
    BY <1>6, <2>1, <2>2 DEF WaitTick
<1>7. ASSUME NEW l \in Lookups, TakeReply(l)
      PROVE  Types'
  BY <1>7 DEF TakeReply, IInv, TypeOK, Types
<1>8. ASSUME NEW l \in Lookups, RangeCallbacks(l)
      PROVE  Types'
  BY <1>8 DEF RangeCallbacks, IInv, TypeOK, Types, sharedVars, linkVars
<1>9. ASSUME NEW l \in Lookups, NextCallback(l)
      PROVE  Types'
  BY <1>9 DEF NextCallback, IInv, TypeOK, Types, sharedVars, linkVars
<1>10. ASSUME NEW l \in Lookups, Callback(l)
      PROVE  Types'
  BY <1>10 DEF Callback, IInv, TypeOK, Types, sharedVars, linkVars
<1>11. ASSUME NEW l \in Lookups, RangeEnds(l)
      PROVE  Types'
  BY <1>11 DEF RangeEnds, IInv, TypeOK, Types, linkVars, Returns
<1>12. ASSUME NEW k \in Links, dispatchReply(k)
      PROVE  Types'
  <2>1. reqs[k] \in Seq(Request) /\ reqs[k] # << >>
    BY <1>12 DEF dispatchReply, IInv, Types
  <2>2. Head(reqs[k]) \in Request /\ Tail(reqs[k]) \in Seq(Request)
    BY <2>1, SeqFacts
  <2>3. Head(reqs[k]).name \in Names
    BY <2>2 DEF Request
  <2>4. wkRes' = wkRes \/ wkRes' = [wkRes EXCEPT ![k] = Head(reqs[k]).name]
    BY <1>12 DEF dispatchReply, handleDNS
  <2>5. wkRes' \in [Links -> Names \cup {None}]
    BY <2>3, <2>4 DEF IInv, Types
  <2>6. reqs' \in [Links -> Seq(Request)]
    BY <1>12, <2>2 DEF dispatchReply, IInv, Types
  <2> QED
    BY <1>12, <2>5, <2>6 DEF dispatchReply, IInv, Types, callVars, sharedVars
<1>13. ASSUME NEW k \in Links, WorkerEnds(k)
      PROVE  Types'
  BY <1>13 DEF WorkerEnds, IInv, TypeOK, Types, callVars, sharedVars
<1>14. ASSUME NEW k \in Links, LinkEnds(k)
      PROVE  Types'
  BY <1>14 DEF LinkEnds, IInv, TypeOK, Types, callVars, sharedVars
<1>15. ASSUME NEW n \in Names, removeOutdatedItems(n)
      PROVE  Types'
  BY <1>15 DEF removeOutdatedItems, IInv, TypeOK, Types, callVars, linkVars
<1>16. CASE UNCHANGED vars
  BY <1>16 DEF vars, callVars, sharedVars, linkVars, IInv, TypeOK, Types
<1> QED
  BY <1>1, <1>2, <1>3, <1>4, <1>5, <1>6, <1>7, <1>8, <1>9, <1>10, <1>11, <1>12, <1>13,
     <1>14, <1>15, <1>16
     DEF Next, LookupStep, Enters, Timers, Gives, LinkStep

(* Every step keeps ids apart. *)
LEMMA DrawnStep == IInv /\ [Next]_vars => Drawn'
<1> SUFFICES ASSUME IInv, [Next]_vars
             PROVE  Drawn'
  OBVIOUS
<1>1. ASSUME NEW l \in Lookups, LookupIP(l)
      PROVE  Drawn'
  <2>0. TypeOK /\ Drawn /\ pc[l] = "idle" /\ \A m \in 1..l - 1 : pc[m] # "idle"
    BY <1>1 DEF LookupIP, IInv
  <2>1. CASE pc' = [pc EXCEPT ![l] = "done"] /\ UNCHANGED <<reqId, seed>>
    BY <2>0, <2>1 DEF TypeOK, Drawn, Before
  <2>2. CASE /\ pc' = [pc EXCEPT ![l] = "enter"] /\ seed' = nextNsReqId
             /\ reqId' = [reqId EXCEPT ![l] = nextNsReqId]
    <3> DEFINE i == nextNsReqId
    <3>1. i = seed + 1 /\ i \in Ids /\ i <= l /\ seed \in Nat
      BY <2>0, DrawnId
    <3> HIDE DEF i
    <3>2. \A m \in Lookups : m # l => reqId'[m] = reqId[m] /\ pc'[m] = pc[m] /\ reqId[m] <= seed
      BY <2>0, <2>2 DEF TypeOK, Drawn
    <3>3. reqId'[l] = i /\ pc'[l] = "enter" /\ seed' = i
      BY <2>0, <2>2 DEF TypeOK, i
    <3>4. \A m \in Lookups : pc'[m] = "idle" => seed' < m /\ reqId'[m] = 0
      <4> SUFFICES ASSUME NEW m \in Lookups, pc'[m] = "idle"
                   PROVE  seed' < m /\ reqId'[m] = 0
        OBVIOUS
      <4>1. m # l /\ pc[m] = "idle"
        BY <3>2, <3>3
      <4>2. m > l
        BY <2>0, <4>1 DEF Lookups
      <4> QED
        BY <2>0, <3>1, <3>2, <3>3, <4>1, <4>2 DEF Drawn, Lookups, Ids
    <3>5. \A m \in Lookups : Before(m)' => reqId'[m] \in Ids
      BY <2>0, <3>1, <3>2, <3>3 DEF Drawn, Before
    <3>6. \A m \in Lookups : reqId'[m] <= seed'
      <4>1. \A m \in Lookups : reqId[m] \in Nat
        BY <2>0, Constants DEF TypeOK, Ids
      <4> QED
        BY <3>1, <3>2, <3>3, <4>1
    <3>7. \A a, b \in Lookups : reqId'[a] = reqId'[b] /\ reqId'[a] # 0 => a = b
      BY <2>0, <3>1, <3>2, <3>3 DEF TypeOK, Drawn, Ids
    <3> QED
      BY <3>4, <3>5, <3>6, <3>7 DEF Drawn
  <2> QED
    BY <1>1, <2>1, <2>2 DEF LookupIP
<1>2. ASSUME NEW l \in Lookups, LoadOrStore(l)
      PROVE  Drawn'
  BY <1>2 DEF LoadOrStore, IInv, TypeOK, Types, Drawn, Before, linkVars
<1>3. ASSUME NEW l \in Lookups, StoreCallback(l)
      PROVE  Drawn'
  BY <1>3 DEF StoreCallback, IInv, TypeOK, Types, Drawn, Before, linkVars
<1>4. ASSUME NEW l \in Lookups, CallbackTimeout(l)
      PROVE  Drawn'
  BY <1>4 DEF CallbackTimeout, IInv, TypeOK, Types, Drawn, Before, sharedVars, linkVars
<1>5. ASSUME NEW l \in Lookups, WriteRequest(l)
      PROVE  Drawn'
  <2>1. CASE pc' = [pc EXCEPT ![l] = "wait"] /\ UNCHANGED <<reqId, seed>>
    BY <2>1 DEF IInv, TypeOK, Drawn, Before
  <2>2. CASE /\ pc' = [pc EXCEPT ![l] = "failed"]
             /\ reqId' = [reqId EXCEPT ![l] = 0] /\ seed' = seed
    BY <1>5, <2>2, IdGivenBack DEF WriteRequest, IInv
  <2> QED
    BY <1>5, <2>1, <2>2 DEF WriteRequest, Returns
<1>6. ASSUME NEW l \in Lookups, WaitTick(l)
      PROVE  Drawn'
  <2>1. CASE UNCHANGED <<pc, reqId, seed>>
    BY <2>1 DEF IInv, TypeOK, Drawn, Before
  <2>2. CASE /\ pc' = [pc EXCEPT ![l] = "failed"]
             /\ reqId' = [reqId EXCEPT ![l] = 0] /\ seed' = seed
    BY <1>6, <2>2, IdGivenBack DEF WaitTick, IInv
  <2> QED
    BY <1>6, <2>1, <2>2 DEF WaitTick, Returns
<1>7. ASSUME NEW l \in Lookups, TakeReply(l)
      PROVE  Drawn'
  BY <1>7 DEF TakeReply, IInv, TypeOK, Types, Drawn, Before
<1>8. ASSUME NEW l \in Lookups, RangeCallbacks(l)
      PROVE  Drawn'
  BY <1>8 DEF RangeCallbacks, IInv, TypeOK, Types, Drawn, Before, sharedVars, linkVars
<1>9. ASSUME NEW l \in Lookups, NextCallback(l)
      PROVE  Drawn'
  BY <1>9 DEF NextCallback, IInv, TypeOK, Types, Drawn, Before, sharedVars, linkVars
<1>10. ASSUME NEW l \in Lookups, Callback(l)
      PROVE  Drawn'
  <2>1. to[l] \in Lookups
    BY <1>10 DEF Callback, IInv, TypeOK
  <2> QED
    BY <1>10, <2>1, IdGivenBack DEF Callback, IInv, sharedVars
<1>11. ASSUME NEW l \in Lookups, RangeEnds(l)
      PROVE  Drawn'
  BY <1>11, IdGivenBack DEF RangeEnds, Returns, IInv
<1>12. ASSUME NEW k \in Links, dispatchReply(k)
      PROVE  Drawn'
  BY <1>12 DEF dispatchReply, IInv, TypeOK, Types, Drawn, Before, callVars, sharedVars,
     handleDNS
<1>13. ASSUME NEW k \in Links, WorkerEnds(k)
      PROVE  Drawn'
  BY <1>13 DEF WorkerEnds, IInv, TypeOK, Types, Drawn, Before, callVars, sharedVars
<1>14. ASSUME NEW k \in Links, LinkEnds(k)
      PROVE  Drawn'
  BY <1>14 DEF LinkEnds, IInv, TypeOK, Types, Drawn, Before, callVars, sharedVars
<1>15. ASSUME NEW n \in Names, removeOutdatedItems(n)
      PROVE  Drawn'
  BY <1>15 DEF removeOutdatedItems, IInv, TypeOK, Types, Drawn, Before, callVars, linkVars
<1>16. CASE UNCHANGED vars
  BY <1>16 DEF vars, callVars, sharedVars, linkVars, IInv, TypeOK, Types, Drawn, Before
<1> QED
  BY <1>1, <1>2, <1>3, <1>4, <1>5, <1>6, <1>7, <1>8, <1>9, <1>10, <1>11, <1>12, <1>13,
     <1>14, <1>15, <1>16
     DEF Next, LookupStep, Enters, Timers, Gives, LinkStep

(* Every step keeps requests, handlers and replies matched. *)
LEMMA MatchedStep == IInv /\ [Next]_vars => Matched'
<1> SUFFICES ASSUME IInv, [Next]_vars
             PROVE  Matched'
  OBVIOUS
<1>1. ASSUME NEW l \in Lookups, LookupIP(l)
      PROVE  Matched'
  <2>0. TypeOK /\ Drawn /\ pc[l] = "idle" /\ IInv
    BY <1>1 DEF LookupIP, IInv
  <2>1. \A m \in Lookups : pc[m] # "idle" => pc'[m] # "idle" /\ dn'[m] = dn[m]
    BY <1>1 DEF LookupIP, IInv, TypeOK
  <2>2. \A i \in Ids : Used(i) => Used(i)'
    <3>1. CASE pc' = [pc EXCEPT ![l] = "done"] /\ UNCHANGED <<reqId, seed>>
      BY <2>0, <3>1 DEF TypeOK, Used, Before
    <3>2. CASE /\ pc' = [pc EXCEPT ![l] = "enter"] /\ seed' = nextNsReqId
               /\ reqId' = [reqId EXCEPT ![l] = nextNsReqId]
      <4>1. seed' = seed + 1 /\ seed \in Nat /\ reqId'[l] = seed + 1
        BY <2>0, <3>2, DrawnId DEF TypeOK
      <4>2. \A m \in Lookups : m # l => reqId'[m] = reqId[m] /\ (Before(m)' <=> Before(m))
        BY <2>0, <3>2 DEF TypeOK, Before
      <4> QED
        BY <4>1, <4>2 DEF Used, Ids
    <3> QED
      BY <1>1, <3>1, <3>2 DEF LookupIP
  <2> QED
    BY <1>1, <2>0, <2>1, <2>2, MatchedKept DEF LookupIP, linkVars
<1>2. ASSUME NEW l \in Lookups, LoadOrStore(l)
      PROVE  Matched'
  BY <1>2 DEF LoadOrStore, IInv, TypeOK, Types, Drawn, Before, Used, Fits, Matched,
     linkVars
<1>3. ASSUME NEW l \in Lookups, StoreCallback(l)
      PROVE  Matched'
  BY <1>3 DEF StoreCallback, IInv, TypeOK, Types, Drawn, Before, Used, Fits, Matched,
     linkVars
<1>4. ASSUME NEW l \in Lookups, CallbackTimeout(l)
      PROVE  Matched'
  BY <1>4 DEF CallbackTimeout, IInv, TypeOK, Types, Drawn, Before, Used, Fits, Matched,
     sharedVars, linkVars
<1>5. ASSUME NEW l \in Lookups, WriteRequest(l)
      PROVE  Matched'
  <2>0. /\ dn[l] \in Names /\ via[l] \in Links /\ reqId[l] \in Ids
        /\ Before(l) /\ pc[l] = "send"
        /\ reqId[l] <= seed /\ UNCHANGED <<dn, seed, wkCall, wkRes>>
    BY <1>5 DEF WriteRequest, IInv, Types, Drawn, Before
  <2>1. PICK v \in Links, i \in Ids, r \in Request :
            /\ v = via[l] /\ i = reqId[l] /\ r = [id |-> reqId[l], name |-> dn[l]]
            /\ r.id = i /\ r.name = dn[l]
    <3>1. [id |-> reqId[l], name |-> dn[l]] \in Request
      BY <2>0 DEF Request
    <3> QED
      BY <2>0, <3>1
  <2>2. /\ mapWait' = [mapWait EXCEPT ![v][i] = l]
        /\ \/ /\ reqs' = [reqs EXCEPT ![v] = Append(@, r)]
              /\ pc' = [pc EXCEPT ![l] = "wait"] /\ reqId' = reqId
           \/ /\ reqs' = reqs
              /\ pc' = [pc EXCEPT ![l] = "failed"] /\ reqId' = [reqId EXCEPT ![l] = 0]
    BY <1>5, <2>1 DEF WriteRequest, Returns
  <2>3. /\ \A m \in Lookups : pc[m] # "idle" => pc'[m] # "idle"
        /\ \A m \in Lookups : Before(m)' => Before(m) /\ m # l /\ reqId'[m] = reqId[m]
    BY <2>0, <2>2 DEF IInv, TypeOK, Before
  <2>4. \A n \in Ids : Used(n) \/ n = i => Used(n)'
    <3>1. \A m \in Lookups : m # l => reqId[m] # i
      BY <2>0, <2>1, Constants DEF IInv, Drawn, Ids
    <3> QED
      BY <2>0, <2>1, <2>3, <3>1 DEF Used
  <2>5. ~ Used(i)
    BY <2>0, <2>1 DEF Used
  <2>6. \A k \in Links, n \in Ids :
            mapWait'[k][n] = IF k = v /\ n = i THEN l ELSE mapWait[k][n]
    BY <2>2 DEF IInv, TypeOK
  <2>7. \A k \in Links, n \in Ids :
            mapWait'[k][n] # None => Used(n)' /\ pc'[mapWait'[k][n]] # "idle"
    <3> SUFFICES ASSUME NEW k \in Links, NEW n \in Ids, mapWait'[k][n] # None
                 PROVE  Used(n)' /\ pc'[mapWait'[k][n]] # "idle"
      OBVIOUS
    <3>1. CASE k = v /\ n = i
      BY <2>0, <2>3, <2>4, <2>6, <3>1
    <3>2. CASE ~ (k = v /\ n = i)
      BY <2>3, <2>4, <2>6, <3>2 DEF IInv, TypeOK, Matched
    <3> QED
      BY <3>1, <3>2
  <2>8. \A k \in Links :
            wkCall'[k] # None => pc'[wkCall'[k]] # "idle" /\ wkRes'[k] = dn'[wkCall'[k]]
    BY <2>0, <2>3 DEF IInv, TypeOK, Matched
  <2>9. \A k \in Links, q \in Request : Fits(k, q) => Fits(k, q)'
    <3> SUFFICES ASSUME NEW k \in Links, NEW q \in Request, Fits(k, q)
                 PROVE  Fits(k, q)'
      OBVIOUS
    <3>1. q.id \in Ids /\ q.id # i /\ Used(q.id)'
      BY <2>4, <2>5 DEF Request, Fits
    <3> QED
      BY <2>0, <2>6, <3>1 DEF Fits
  <2>10. Fits(v, r)'
    BY <2>0, <2>1, <2>4, <2>6 DEF Fits
  <2>11. ASSUME NEW k \in Links, NEW j \in 1..Len(reqs'[k])
         PROVE  Fits(k, reqs[k][j])'
    <3>1. CASE j \in 1..Len(reqs[k]) /\ reqs'[k][j] = reqs[k][j]
      <4>1. Fits(k, reqs[k][j]) /\ reqs[k][j] \in Request
        BY <3>1, RequestAt DEF IInv, Matched
      <4> QED
        BY <2>9, <3>1, <4>1 DEF Fits
    <3>2. CASE k = v /\ reqs'[k][j] = r
      BY <2>10, <3>2 DEF Fits
    <3>3. CASE k = v /\ reqs'[k] = Append(reqs[k], r)
      <4>1. /\ Len(reqs'[k]) = Len(reqs[k]) + 1 /\ Len(reqs[k]) \in Nat
            /\ reqs'[k][Len(reqs[k]) + 1] = r
            /\ \A n \in 1..Len(reqs[k]) : reqs'[k][n] = reqs[k][n]
        BY <3>3, SeqFacts DEF IInv, Types
      <4>2. j \in 1..Len(reqs[k]) \/ j = Len(reqs[k]) + 1
        BY <2>11, <4>1
      <4> QED
        BY <3>1, <3>2, <3>3, <4>1, <4>2
    <3>4. reqs'[k] = reqs[k] \/ (k = v /\ reqs'[k] = Append(reqs[k], r))
      BY <2>2 DEF IInv, Types
    <3> QED
      BY <2>11, <3>1, <3>3, <3>4
  <2> QED
    BY <2>7, <2>8, <2>11 DEF Matched
<1>6. ASSUME NEW l \in Lookups, WaitTick(l)
      PROVE  Matched'
  <2>1. CASE UNCHANGED <<pc, reqId>>
    <3>1. \A i \in Ids : Used(i) => Used(i)'
      BY <1>6, <2>1 DEF WaitTick, Used, Before
    <3> QED
      BY <1>6, <2>1, <3>1, MatchedKept DEF WaitTick, linkVars
  <2>2. CASE Returns(l, "failed", "error")
    <3>1. \A i \in Ids : Used(i) => Used(i)'
      BY <1>6, <2>2 DEF WaitTick, Returns, IInv, TypeOK, Used, Before
    <3>2. \A m \in Lookups : pc[m] # "idle" => pc'[m] # "idle" /\ dn'[m] = dn[m]
      BY <1>6, <2>2 DEF WaitTick, Returns, IInv, TypeOK
    <3> QED
      BY <1>6, <3>1, <3>2, MatchedKept DEF WaitTick, linkVars
  <2> QED
    BY <1>6, <2>1, <2>2 DEF WaitTick
<1>7. ASSUME NEW l \in Lookups, TakeReply(l)
      PROVE  Matched'
  <2>1. \A i \in Ids : Used(i) => Used(i)'
    BY <1>7 DEF TakeReply, IInv, TypeOK, Used, Before
  <2>2. \A m \in Lookups : pc[m] # "idle" => pc'[m] # "idle" /\ dn'[m] = dn[m]
    BY <1>7 DEF TakeReply, IInv, TypeOK
  <2>3. \A k \in Links : wkCall'[k] = None \/ (wkCall'[k] = wkCall[k] /\ wkRes'[k] = wkRes[k])
    BY <1>7 DEF TakeReply, IInv, TypeOK, Types
  <2> QED
    BY <1>7, <2>1, <2>2, <2>3, MatchedKept DEF TakeReply
<1>8. ASSUME NEW l \in Lookups, RangeCallbacks(l)
      PROVE  Matched'
  BY <1>8 DEF RangeCallbacks, IInv, TypeOK, Types, Drawn, Before, Used, Fits, Matched,
     sharedVars, linkVars
<1>9. ASSUME NEW l \in Lookups, NextCallback(l)
      PROVE  Matched'
  BY <1>9 DEF NextCallback, IInv, TypeOK, Types, Drawn, Before, Used, Fits, Matched,
     sharedVars, linkVars
<1>10. ASSUME NEW l \in Lookups, Callback(l)
      PROVE  Matched'
  BY <1>10 DEF Callback, IInv, TypeOK, Types, Drawn, Before, Used, Fits, Matched,
     sharedVars, linkVars
<1>11. ASSUME NEW l \in Lookups, RangeEnds(l)
      PROVE  Matched'
  BY <1>11 DEF RangeEnds, IInv, TypeOK, Types, Drawn, Before, Used, Fits, Matched,
     linkVars, Returns
<1>12. ASSUME NEW k \in Links, dispatchReply(k)
      PROVE  Matched'
  <2> DEFINE q == reqs[k]
             i == q[1].id
  <2>0. /\ UNCHANGED <<pc, dn, reqId, seed>>
        /\ \A c \in Ids : Used(c) <=> Used(c)'
    BY <1>12 DEF dispatchReply, callVars, sharedVars, Used, Before
  <2>1. /\ q \in Seq(Request) /\ Len(q) \in Nat /\ Len(q) >= 1 /\ Head(q) = q[1]
        /\ Len(Tail(q)) = Len(q) - 1 /\ \A j \in 1..Len(q) - 1 : Tail(q)[j] = q[j + 1]
        /\ q[1] \in Request
    BY <1>12, SeqFacts DEF dispatchReply, IInv, Types
  <2>2. i \in Ids /\ q[1].name \in Names
    BY <2>1 DEF Request
  <2>3. /\ mapWait' = [mapWait EXCEPT ![k][i] = None] /\ reqs' = [reqs EXCEPT ![k] = Tail(@)]
        /\ \/ /\ mapWait[k][i] # None /\ wkCall' = [wkCall EXCEPT ![k] = mapWait[k][i]]
              /\ wkRes' = [wkRes EXCEPT ![k] = q[1].name]
           \/ UNCHANGED <<wkCall, wkRes>>
    BY <1>12, <2>1 DEF dispatchReply, handleDNS
  <2>4. mapWait[k][i] # None => pc[mapWait[k][i]] # "idle" /\ dn[mapWait[k][i]] = q[1].name
    <3>1. Fits(k, q[1])
      BY <2>1 DEF IInv, Matched
    <3> QED
      BY <2>2, <3>1 DEF Fits, IInv, Matched
  <2> HIDE DEF i
  <2>5. \A h \in Links, n \in Ids :
            mapWait'[h][n] = IF h = k /\ n = i THEN None ELSE mapWait[h][n]
    BY <2>2, <2>3 DEF IInv, TypeOK
  <2>6. \A h \in Links, n \in Ids :
            mapWait'[h][n] # None => Used(n)' /\ pc'[mapWait'[h][n]] # "idle"
    BY <2>0, <2>5 DEF IInv, Matched
  <2>7. \A h \in Links :
            wkCall'[h] # None => pc'[wkCall'[h]] # "idle" /\ wkRes'[h] = dn'[wkCall'[h]]
    BY <2>0, <2>3, <2>4 DEF IInv, TypeOK, Types, Matched
  <2>8. ASSUME NEW h \in Links, NEW j \in 1..Len(reqs'[h])
        PROVE  Fits(h, reqs[h][j])'
    <3>1. PICK c \in 1..Len(reqs[h]) : reqs'[h][j] = reqs[h][c]
      <4>1. CASE h = k
        <5>1. reqs'[h] = Tail(q)
          BY <2>3, <4>1 DEF IInv, Types
        <5>2. j + 1 \in 1..Len(q) /\ Tail(q)[j] = q[j + 1]
          BY <2>1, <2>8, <5>1
        <5> QED
          BY <4>1, <5>1, <5>2
      <4>2. CASE h # k
        BY <2>3, <2>8, <4>2 DEF IInv, Types
      <4> QED
        BY <4>1, <4>2
    <3>2. reqs[h][c].id \in Ids /\ Fits(h, reqs[h][c])
      BY RequestAt DEF IInv, Matched
    <3> QED
      BY <2>0, <2>5, <3>1, <3>2 DEF Fits
  <2> QED
    BY <2>6, <2>7, <2>8 DEF Matched
<1>13. ASSUME NEW k \in Links, WorkerEnds(k)
      PROVE  Matched'
  <2>1. \A i \in Ids : Used(i) => Used(i)'
    BY <1>13 DEF WorkerEnds, callVars, sharedVars, Used, Before
  <2> QED
    BY <1>13, <2>1, MatchedKept DEF WorkerEnds, callVars
<1>14. ASSUME NEW k \in Links, LinkEnds(k)
      PROVE  Matched'
  <2>1. \A i \in Ids : Used(i) => Used(i)'
    BY <1>14 DEF LinkEnds, callVars, sharedVars, Used, Before
  <2>2. \A h \in Links : reqs'[h] = << >> \/ reqs'[h] = reqs[h]
    BY <1>14 DEF LinkEnds, IInv, Types
  <2> QED
    BY <1>14, <2>1, <2>2, MatchedKept DEF LinkEnds, callVars
<1>15. ASSUME NEW n \in Names, removeOutdatedItems(n)
      PROVE  Matched'
  BY <1>15 DEF removeOutdatedItems, IInv, TypeOK, Types, Drawn, Before, Used, Fits,
     Matched, callVars, linkVars
<1>16. CASE UNCHANGED vars
  BY <1>16 DEF vars, callVars, sharedVars, linkVars, IInv, TypeOK, Types, Drawn, Before,
     Used, Fits, Matched
<1> QED
  BY <1>1, <1>2, <1>3, <1>4, <1>5, <1>6, <1>7, <1>8, <1>9, <1>10, <1>11, <1>12, <1>13,
     <1>14, <1>15, <1>16
     DEF Next, LookupStep, Enters, Timers, Gives, LinkStep

(* Every step keeps the tables to one name each. *)
LEMMA OneNameStep == IInv /\ [Next]_vars => OneName'
<1> SUFFICES ASSUME IInv, [Next]_vars
             PROVE  OneName'
  OBVIOUS
<1>1. ASSUME NEW l \in Lookups, LookupIP(l)
      PROVE  OneName'
  BY <1>1 DEF LookupIP, IInv, TypeOK, Types, OneName, Same, linkVars
<1>2. ASSUME NEW l \in Lookups, LoadOrStore(l)
      PROVE  OneName'
  <2>1. dn[l] \in Names
    BY <1>2 DEF LoadOrStore, IInv, Types
  <2>2. CASE /\ nsWait[dn[l]] # None /\ table' = [table EXCEPT ![l] = nsWait[dn[l]]]
             /\ pc' = [pc EXCEPT ![l] = "join"] /\ UNCHANGED nsWait
    BY <1>2, <2>1, <2>2 DEF LoadOrStore, IInv, TypeOK, OneName, Same
  <2>3. CASE /\ nsWait[dn[l]] = None /\ nsWait' = [nsWait EXCEPT ![dn[l]] = l]
             /\ pc' = [pc EXCEPT ![l] = "send"] /\ UNCHANGED table
    BY <1>2, <2>1, <2>3, Constants DEF LoadOrStore, IInv, TypeOK, OneName, Same
  <2> QED
    BY <1>2, <2>2, <2>3 DEF LoadOrStore
<1>3. ASSUME NEW l \in Lookups, StoreCallback(l)
      PROVE  OneName'
  BY <1>3 DEF StoreCallback, IInv, TypeOK, Types, OneName, Same, linkVars
<1>4. ASSUME NEW l \in Lookups, CallbackTimeout(l)
      PROVE  OneName'
  BY <1>4 DEF CallbackTimeout, IInv, TypeOK, Types, OneName, Same, sharedVars, linkVars
<1>5. ASSUME NEW l \in Lookups, WriteRequest(l)
      PROVE  OneName'
  <2>1. CASE pc' = [pc EXCEPT ![l] = "wait"] /\ UNCHANGED <<nsWait, table>>
    BY <1>5, <2>1 DEF WriteRequest, IInv, TypeOK, OneName, Same
  <2>2. CASE Returns(l, "failed", "error")
    BY <1>5, <2>2 DEF WriteRequest, Returns, IInv, TypeOK, OneName, Same
  <2> QED
    BY <1>5, <2>1, <2>2 DEF WriteRequest
<1>6. ASSUME NEW l \in Lookups, WaitTick(l)
      PROVE  OneName'
  <2>1. CASE UNCHANGED <<pc, nsWait, table>>
    BY <1>6, <2>1 DEF WaitTick, IInv, TypeOK, OneName, Same
  <2>2. CASE Returns(l, "failed", "error")
    BY <1>6, <2>2 DEF WaitTick, Returns, IInv, TypeOK, OneName, Same
  <2> QED
    BY <1>6, <2>1, <2>2 DEF WaitTick
<1>7. ASSUME NEW l \in Lookups, TakeReply(l)
      PROVE  OneName'
  BY <1>7 DEF TakeReply, IInv, TypeOK, Types, OneName, Same
<1>8. ASSUME NEW l \in Lookups, RangeCallbacks(l)
      PROVE  OneName'
  BY <1>8 DEF RangeCallbacks, IInv, TypeOK, Types, OneName, Same, sharedVars, linkVars
<1>9. ASSUME NEW l \in Lookups, NextCallback(l)
      PROVE  OneName'
  BY <1>9 DEF NextCallback, IInv, TypeOK, Types, OneName, Same, sharedVars, linkVars
<1>10. ASSUME NEW l \in Lookups, Callback(l)
      PROVE  OneName'
  BY <1>10 DEF Callback, IInv, TypeOK, Types, OneName, Same, sharedVars, linkVars
<1>11. ASSUME NEW l \in Lookups, RangeEnds(l)
      PROVE  OneName'
  BY <1>11 DEF RangeEnds, IInv, TypeOK, Types, OneName, Same, linkVars, Returns
<1>12. ASSUME NEW k \in Links, dispatchReply(k)
      PROVE  OneName'
  BY <1>12 DEF dispatchReply, IInv, TypeOK, Types, OneName, Same, callVars, sharedVars,
     handleDNS
<1>13. ASSUME NEW k \in Links, WorkerEnds(k)
      PROVE  OneName'
  BY <1>13 DEF WorkerEnds, IInv, TypeOK, Types, OneName, Same, callVars, sharedVars
<1>14. ASSUME NEW k \in Links, LinkEnds(k)
      PROVE  OneName'
  BY <1>14 DEF LinkEnds, IInv, TypeOK, Types, OneName, Same, callVars, sharedVars
<1>15. ASSUME NEW n \in Names, removeOutdatedItems(n)
      PROVE  OneName'
  BY <1>15 DEF removeOutdatedItems, IInv, TypeOK, Types, OneName, Same, callVars, linkVars
<1>16. CASE UNCHANGED vars
  BY <1>16 DEF vars, callVars, sharedVars, linkVars, IInv, TypeOK, Types, OneName, Same
<1> QED
  BY <1>1, <1>2, <1>3, <1>4, <1>5, <1>6, <1>7, <1>8, <1>9, <1>10, <1>11, <1>12, <1>13,
     <1>14, <1>15, <1>16
     DEF Next, LookupStep, Enters, Timers, Gives, LinkStep

(* Every step keeps the table of a name with the call that asks for it. *)
LEMMA OwnerStep == IInv /\ [Next]_vars => Owner'
<1> SUFFICES ASSUME IInv, [Next]_vars
             PROVE  Owner'
  OBVIOUS
<1>1. ASSUME NEW l \in Lookups, LookupIP(l)
      PROVE  Owner'
  BY <1>1 DEF LookupIP, IInv, TypeOK, Types, Owner, linkVars
<1>2. ASSUME NEW l \in Lookups, LoadOrStore(l)
      PROVE  Owner'
  <2>1. dn[l] \in Names
    BY <1>2 DEF LoadOrStore, IInv, Types
  <2>2. CASE pc' = [pc EXCEPT ![l] = "join"] /\ UNCHANGED <<nsWait, dn, late>>
    BY <2>2 DEF IInv, TypeOK, Owner
  <2>3. CASE /\ nsWait[dn[l]] = None /\ nsWait' = [nsWait EXCEPT ![dn[l]] = l]
             /\ pc' = [pc EXCEPT ![l] = "send"] /\ UNCHANGED <<dn, late>>
    BY <2>1, <2>3, Constants DEF IInv, TypeOK, Owner
  <2> QED
    BY <1>2, <2>2, <2>3 DEF LoadOrStore
<1>3. ASSUME NEW l \in Lookups, StoreCallback(l)
      PROVE  Owner'
  BY <1>3 DEF StoreCallback, IInv, TypeOK, Types, Owner, linkVars
<1>4. ASSUME NEW l \in Lookups, CallbackTimeout(l)
      PROVE  Owner'
  BY <1>4 DEF CallbackTimeout, IInv, TypeOK, Types, Owner, sharedVars, linkVars
<1>5. ASSUME NEW l \in Lookups, WriteRequest(l)
      PROVE  Owner'
  <2>1. CASE pc' = [pc EXCEPT ![l] = "wait"] /\ UNCHANGED nsWait
    BY <1>5, <2>1 DEF WriteRequest, IInv, TypeOK, Owner
  <2>2. CASE Returns(l, "failed", "error")
    BY <1>5, <2>2 DEF WriteRequest, Returns, IInv, TypeOK, Types, Owner
  <2> QED
    BY <1>5, <2>1, <2>2 DEF WriteRequest
<1>6. ASSUME NEW l \in Lookups, WaitTick(l)
      PROVE  Owner'
  BY <1>6 DEF WaitTick, IInv, TypeOK, Types, Owner, linkVars, Returns
<1>7. ASSUME NEW l \in Lookups, TakeReply(l)
      PROVE  Owner'
  BY <1>7 DEF TakeReply, IInv, TypeOK, Types, Owner
<1>8. ASSUME NEW l \in Lookups, RangeCallbacks(l)
      PROVE  Owner'
  BY <1>8 DEF RangeCallbacks, IInv, TypeOK, Types, Owner, sharedVars, linkVars
<1>9. ASSUME NEW l \in Lookups, NextCallback(l)
      PROVE  Owner'
  BY <1>9 DEF NextCallback, IInv, TypeOK, Types, Owner, sharedVars, linkVars
<1>10. ASSUME NEW l \in Lookups, Callback(l)
      PROVE  Owner'
  BY <1>10 DEF Callback, IInv, TypeOK, Types, Owner, sharedVars, linkVars
<1>11. ASSUME NEW l \in Lookups, RangeEnds(l)
      PROVE  Owner'
  BY <1>11 DEF RangeEnds, IInv, TypeOK, Types, Owner, linkVars, Returns
<1>12. ASSUME NEW k \in Links, dispatchReply(k)
      PROVE  Owner'
  BY <1>12 DEF dispatchReply, IInv, TypeOK, Types, Owner, callVars, sharedVars, handleDNS
<1>13. ASSUME NEW k \in Links, WorkerEnds(k)
      PROVE  Owner'
  BY <1>13 DEF WorkerEnds, IInv, TypeOK, Types, Owner, callVars, sharedVars
<1>14. ASSUME NEW k \in Links, LinkEnds(k)
      PROVE  Owner'
  BY <1>14 DEF LinkEnds, IInv, TypeOK, Types, Owner, callVars, sharedVars
<1>15. ASSUME NEW n \in Names, removeOutdatedItems(n)
      PROVE  Owner'
  BY <1>15 DEF removeOutdatedItems, IInv, TypeOK, Types, Owner, callVars, linkVars
<1>16. CASE UNCHANGED vars
  BY <1>16 DEF vars, callVars, sharedVars, linkVars, IInv, TypeOK, Types, Owner
<1> QED
  BY <1>1, <1>2, <1>3, <1>4, <1>5, <1>6, <1>7, <1>8, <1>9, <1>10, <1>11, <1>12, <1>13,
     <1>14, <1>15, <1>16
     DEF Next, LookupStep, Enters, Timers, Gives, LinkStep

(* Every step keeps answers with their names. *)
LEMMA AnswerStep == IInv /\ [Next]_vars => AnswerIsOwn'
<1> SUFFICES ASSUME IInv, [Next]_vars
             PROVE  AnswerIsOwn'
  OBVIOUS
<1>1. ASSUME NEW l \in Lookups, LookupIP(l)
      PROVE  AnswerIsOwn'
  BY <1>1 DEF LookupIP, IInv, TypeOK, Types, OneName, Same, AnswerIsOwn, linkVars
<1>2. ASSUME NEW l \in Lookups, LoadOrStore(l)
      PROVE  AnswerIsOwn'
  BY <1>2 DEF LoadOrStore, IInv, TypeOK, Types, OneName, Same, AnswerIsOwn, linkVars
<1>3. ASSUME NEW l \in Lookups, StoreCallback(l)
      PROVE  AnswerIsOwn'
  BY <1>3 DEF StoreCallback, IInv, TypeOK, Types, OneName, Same, AnswerIsOwn, linkVars
<1>4. ASSUME NEW l \in Lookups, CallbackTimeout(l)
      PROVE  AnswerIsOwn'
  BY <1>4 DEF CallbackTimeout, IInv, TypeOK, Types, OneName, Same, AnswerIsOwn,
     sharedVars, linkVars
<1>5. ASSUME NEW l \in Lookups, WriteRequest(l)
      PROVE  AnswerIsOwn'
  BY <1>5 DEF WriteRequest, IInv, TypeOK, Types, OneName, Same, AnswerIsOwn, Returns
<1>6. ASSUME NEW l \in Lookups, WaitTick(l)
      PROVE  AnswerIsOwn'
  BY <1>6 DEF WaitTick, IInv, TypeOK, Types, OneName, Same, AnswerIsOwn, linkVars, Returns
<1>7. ASSUME NEW l \in Lookups, TakeReply(l)
      PROVE  AnswerIsOwn'
  <2>1. dn[l] \in Names /\ via[l] \in Links
    BY <1>7 DEF TakeReply, IInv, Types
  <2>2. wkRes[via[l]] = dn[l]
    BY <1>7, <2>1, Constants DEF TakeReply, IInv, Matched
  <2> QED
    BY <1>7, <2>1, <2>2 DEF TakeReply, IInv, TypeOK, Types, AnswerIsOwn
<1>8. ASSUME NEW l \in Lookups, RangeCallbacks(l)
      PROVE  AnswerIsOwn'
  BY <1>8 DEF RangeCallbacks, IInv, TypeOK, Types, OneName, Same, AnswerIsOwn, sharedVars,
     linkVars
<1>9. ASSUME NEW l \in Lookups, NextCallback(l)
      PROVE  AnswerIsOwn'
  BY <1>9 DEF NextCallback, IInv, TypeOK, Types, OneName, Same, AnswerIsOwn, sharedVars,
     linkVars
<1>10. ASSUME NEW l \in Lookups, Callback(l)
      PROVE  AnswerIsOwn'
  BY <1>10 DEF Callback, IInv, TypeOK, Types, OneName, Same, AnswerIsOwn, sharedVars,
     linkVars
<1>11. ASSUME NEW l \in Lookups, RangeEnds(l)
      PROVE  AnswerIsOwn'
  BY <1>11 DEF RangeEnds, IInv, TypeOK, Types, OneName, Same, AnswerIsOwn, linkVars,
     Returns
<1>12. ASSUME NEW k \in Links, dispatchReply(k)
      PROVE  AnswerIsOwn'
  BY <1>12 DEF dispatchReply, IInv, TypeOK, Types, OneName, Same, AnswerIsOwn, callVars,
     sharedVars, handleDNS
<1>13. ASSUME NEW k \in Links, WorkerEnds(k)
      PROVE  AnswerIsOwn'
  BY <1>13 DEF WorkerEnds, IInv, TypeOK, Types, OneName, Same, AnswerIsOwn, callVars,
     sharedVars
<1>14. ASSUME NEW k \in Links, LinkEnds(k)
      PROVE  AnswerIsOwn'
  BY <1>14 DEF LinkEnds, IInv, TypeOK, Types, OneName, Same, AnswerIsOwn, callVars,
     sharedVars
<1>15. ASSUME NEW n \in Names, removeOutdatedItems(n)
      PROVE  AnswerIsOwn'
  BY <1>15 DEF removeOutdatedItems, IInv, TypeOK, Types, OneName, Same, AnswerIsOwn,
     callVars, linkVars
<1>16. CASE UNCHANGED vars
  BY <1>16 DEF vars, callVars, sharedVars, linkVars, IInv, TypeOK, Types, OneName, Same,
     AnswerIsOwn
<1> QED
  BY <1>1, <1>2, <1>3, <1>4, <1>5, <1>6, <1>7, <1>8, <1>9, <1>10, <1>11, <1>12, <1>13,
     <1>14, <1>15, <1>16
     DEF Next, LookupStep, Enters, Timers, Gives, LinkStep

(* The invariant is inductive: it holds in the first states. *)
LEMMA InitInvariant == Init => IInv
<1> SUFFICES ASSUME Init
             PROVE  IInv
  OBVIOUS
<1>1. TypeOK
  BY Constants DEF Init, TypeOK, Ids
<1>2. Types
  BY DEF Init, Types
<1>3. Drawn
  BY Constants DEF Init, Drawn, Before, Lookups
<1>4. Matched
  BY DEF Init, Matched
<1>5. OneName
  BY DEF Init, OneName
<1>6. Owner
  BY DEF Init, Owner
<1>7. AnswerIsOwn
  BY DEF Init, AnswerIsOwn
<1> QED
  BY <1>1, <1>2, <1>3, <1>4, <1>5, <1>6, <1>7 DEF IInv

-----------------------------------------------------------------------------
(* The invariant holds in every reachable state, whatever the order of calls, *)
(* replies, timeouts, callbacks and ends of uplinks.                          *)
THEOREM Inductive == Spec => []IInv
<1>1. IInv /\ [Next]_vars => IInv'
  BY TypeOKStep, TypesStep, DrawnStep, MatchedStep, OneNameStep, OwnerStep,
     AnswerStep DEF IInv
<1> QED
  BY InitInvariant, <1>1, PTL DEF Spec

(* The variables of LookupIP, of the uplinks and of the cache keep to their types: *)
(* no call waits longer than MaxTicks, and no request id passes its limit.         *)
THEOREM TypeCorrect == Spec => []TypeOK
<1>1. IInv => TypeOK
  BY DEF IInv
<1> QED
  BY Inductive, <1>1, PTL

(* LookupIP returns, and the cache holds, addresses of the name that was asked for: *)
(* replies, handlers and callbacks that outlive their calls are never mistaken for  *)
(* those of another name, as long as ids do not start again.                        *)
THEOREM OwnAnswer == Spec => []AnswerIsOwn
<1>1. IInv => AnswerIsOwn
  BY DEF IInv
<1> QED
  BY Inductive, <1>1, PTL

(* Two calls of LookupIP ask for one name at a time only after a call for it has *)
(* waited in vain for its callback.                                              *)
THEOREM OneFlight == Spec => []SingleFlight
<1>1. IInv => SingleFlight
  BY DEF IInv, Owner, SingleFlight, Asking
<1> QED
  BY Inductive, <1>1, PTL
=============================================================================
