--------------------------- MODULE ReadWriteBuffer ---------------------------
(***************************************************************************)
(* utils/buffer.go: the growable byte buffer that stands between a         *)
(* goroutine that feeds data and one that reads it (h1.Client.bufRead,     *)
(* h1pool dividedClient.buf and instance.buf).                             *)
(*                                                                         *)
(* lck protects buf and bufLen; every section under it is one step here.   *)
(* The condition variable has a mutex of its own, cond.L (condL), which    *)
(* only readers take: Broadcast is called without it.  sync.Cond.Wait adds *)
(* the caller to the notify list and releases L (parked), and takes L      *)
(* again once a Broadcast has found it there (woken).                      *)
(***************************************************************************)
EXTENDS Integers, Sequences

CONSTANTS Readers,      \* goroutines that call Read
          Writers,      \* goroutines that call Write
          NoReader,     \* cond.L is free
          ReadSizes,    \* lengths of the slices Read is given
          WriteSizes,   \* lengths of the slices Write is given
          BufSize,      \* BUF_SIZE
          BufSizeMax,   \* BUF_SIZE_MAX
          MaxBytes      \* bound: no Write is started once this many bytes are in

ASSUME BufferAssumption ==
    /\ NoReader \notin Readers
    /\ ReadSizes \subseteq Nat \ {0}   \* Read of an empty slice touches nothing
    /\ WriteSizes \subseteq Nat
    /\ BufSize \in Nat \ {0}
    /\ BufSizeMax \in Nat
    /\ MaxBytes \in Nat

VARIABLES
    cap,      \* cap(f.buf) = len(f.buf)
    buf,      \* f.buf, slots 0..cap-1; 0 is the zero byte of a fresh array
    bufLen,   \* f.bufLen
    eof,      \* f.eof
    condL,    \* the holder of f.cond.L
    rpc,      \* where each reader is in Read
    want,     \* len(buf) of each reader's call
    wpc,      \* where each writer is in Write
    dat,      \* len(dat) of each writer's call
    nIn,      \* history: bytes accepted so far; also names the next byte
    nilWoken, \* history: the readers last released by a Write of no bytes
    got       \* history: the bytes Read has returned, in the order of lck

bufVars == <<cap, buf, bufLen, nIn, got>>
vars == <<cap, buf, bufLen, eof, condL, rpc, want, wpc, dat, nIn, nilWoken, got>>

Init ==
    /\ cap = BufSize
    /\ buf = [i \in 0..BufSize-1 |-> 0]
    /\ bufLen = 0
    /\ eof = FALSE
    /\ condL = NoReader
    /\ rpc = [r \in Readers |-> "idle"]
    /\ want = [r \in Readers |-> 0]
    /\ wpc = [w \in Writers |-> "idle"]
    /\ dat = [w \in Writers |-> 0]
    /\ nIn = 0
    /\ nilWoken = {}
    /\ got = << >>

-----------------------------------------------------------------------------
(* Mutated form: the rest is not moved to the front.                       *)
readFromBufNoShift(size) ==
    /\ got' = got \o [i \in 1..size |-> buf[i - 1]]
    /\ bufLen' = bufLen - size
    /\ UNCHANGED <<cap, buf, nIn>>

(* readFromBuf when the buffer is not empty: size bytes are copied out and *)
(* the rest is moved to the front; the slots behind keep what they held.   *)
readFromBuf(size) ==
    /\ got' = got \o [i \in 1..size |-> buf[i - 1]]
    /\ buf' = [i \in 0..cap-1 |->
                 IF i < bufLen - size THEN buf[i + size] ELSE buf[i]]
    /\ bufLen' = bufLen - size
    /\ UNCHANGED <<cap, nIn>>

\* Mutated form: the size is cut to the array, not to what it holds.
ReadSizeToCap(n) == IF n > cap THEN cap ELSE n

ReadSize(n) == IF n > bufLen THEN bufLen ELSE n

\* Read, first look: data is returned at once, else the eof flag comes next.
ReadStart(r, n) ==
    /\ rpc[r] = "idle"
    /\ \/ /\ bufLen > 0
          /\ readFromBuf(ReadSize(n))
          /\ UNCHANGED <<rpc, want>>
       \/ /\ bufLen = 0
          /\ rpc' = [rpc EXCEPT ![r] = "eofCheck"]
          /\ want' = [want EXCEPT ![r] = n]
          /\ UNCHANGED bufVars
    /\ UNCHANGED <<eof, condL, wpc, dat, nilWoken>>

ReadEofCheck(r) ==
    /\ rpc[r] = "eofCheck"
    /\ rpc' = [rpc EXCEPT ![r] = IF eof THEN "idle" ELSE "wait"]
    /\ UNCHANGED <<bufVars, eof, condL, want, wpc, dat, nilWoken>>

\* cond.L.Lock, then cond.Wait up to the point where the caller sleeps.  A
\* reader that comes round the loop still holds L (the Unlock is deferred),
\* so it can never take this step again.
ReadWait(r) ==
    /\ rpc[r] = "wait"
    /\ condL = NoReader
    /\ rpc' = [rpc EXCEPT ![r] = "parked"]
    /\ UNCHANGED <<bufVars, eof, condL, want, wpc, dat, nilWoken>>

\* The end of cond.Wait: L is taken again.
ReadRelock(r) ==
    /\ rpc[r] = "woken"
    /\ condL = NoReader
    /\ condL' = r
    /\ rpc' = [rpc EXCEPT ![r] = "retry"]
    /\ UNCHANGED <<bufVars, eof, want, wpc, dat, nilWoken>>

\* Mutated form: the return path misses its Unlock.
ReadRetryNoUnlock(r) ==
    /\ rpc[r] = "retry"
    /\ \/ /\ bufLen > 0
          /\ readFromBuf(ReadSize(want[r]))
          /\ rpc' = [rpc EXCEPT ![r] = "idle"]
       \/ /\ bufLen = 0
          /\ rpc' = [rpc EXCEPT ![r] = "wait"]
          /\ UNCHANGED bufVars
    /\ UNCHANGED <<eof, condL, want, wpc, dat, nilWoken>>

\* The second look; a return runs the deferred Unlock.
ReadRetry(r) ==
    /\ rpc[r] = "retry"
    /\ \/ /\ bufLen > 0
          /\ readFromBuf(ReadSize(want[r]))
          /\ rpc' = [rpc EXCEPT ![r] = "idle"]
          /\ condL' = NoReader
       \/ /\ bufLen = 0
          /\ rpc' = [rpc EXCEPT ![r] = "wait"]
          /\ UNCHANGED <<bufVars, condL>>
    /\ UNCHANGED <<eof, want, wpc, dat, nilWoken>>

-----------------------------------------------------------------------------
\* Write loads eof before it takes lck.
WriteStart(w, n) ==
    /\ wpc[w] = "idle"
    /\ nIn < MaxBytes
    /\ ~ eof
    /\ wpc' = [wpc EXCEPT ![w] = "locked"]
    /\ dat' = [dat EXCEPT ![w] = n]
    /\ UNCHANGED <<bufVars, eof, condL, rpc, want, nilWoken>>

\* Mutated form: a grown array does not get the old content.
CopyInLosing(c, n) ==
    /\ cap' = c
    /\ buf' = [i \in 0..c-1 |->
                 IF i \in bufLen..bufLen+n-1 THEN nIn + (i - bufLen) + 1
                 ELSE IF c = cap THEN buf[i] ELSE 0]
    /\ bufLen' = bufLen + n
    /\ nIn' = nIn + n
    /\ UNCHANGED got

\* copy(f.buf[f.bufLen:sizeAfter], dat) into an array of c slots.
CopyIn(c, n) ==
    /\ cap' = c
    /\ buf' = [i \in 0..c-1 |->
                 IF i < bufLen THEN buf[i]
                 ELSE IF i < bufLen + n THEN nIn + (i - bufLen) + 1
                 ELSE IF c = cap THEN buf[i] ELSE 0]
    /\ bufLen' = bufLen + n
    /\ nIn' = nIn + n
    /\ UNCHANGED got

\* cond.Broadcast: everybody on the notify list is released.
Broadcast ==
    rpc' = [r \in Readers |-> IF rpc[r] = "parked" THEN "woken" ELSE rpc[r]]

\* Whom the Broadcast at the end of a Write of n bytes releases.
Released(n) ==
    LET parked == {r \in Readers : rpc[r] = "parked"}
    IN  nilWoken' = IF n = 0 THEN nilWoken \cup parked ELSE nilWoken \ parked

(* The section of Write under lck.  An array that is too small grows by k  *)
(* steps of BufSize, the fewest that make room; BufSizeMax is only looked  *)
(* at inside the loop, that is from the second step on.                    *)
WriteLocked(w) ==
    LET n == dat[w]
        sizeAfter == bufLen + n
    IN
    /\ wpc[w] = "locked"
    /\ wpc' = [wpc EXCEPT ![w] = "idle"]
    /\ \/ /\ sizeAfter <= cap
          /\ CopyIn(cap, n)
          /\ Broadcast /\ Released(n)
       \/ /\ sizeAfter > cap
          /\ \E k \in 1..sizeAfter :
               LET capNew == cap + k * BufSize
                   tooLarge == k > 1 /\ capNew > BufSizeMax
               IN  /\ capNew >= sizeAfter
                   /\ k > 1 => capNew - BufSize < sizeAfter
                   /\ \/ ~ tooLarge /\ CopyIn(capNew, n) /\ Broadcast /\ Released(n)
                      \/ tooLarge /\ UNCHANGED <<bufVars, rpc, nilWoken>>
    /\ UNCHANGED <<eof, condL, want, dat>>

\* Mutated form: Close wakes the readers but the loop of Read is left as it is.
CloseBroadcasting ==
    /\ ~ eof
    /\ eof' = TRUE
    /\ Broadcast
    /\ UNCHANGED <<bufVars, condL, want, wpc, dat, nilWoken>>

\* Close swaps the flag and wakes nobody; a second Close only reports an error.
Close ==
    /\ ~ eof
    /\ eof' = TRUE
    /\ UNCHANGED <<bufVars, condL, rpc, want, wpc, dat, nilWoken>>

-----------------------------------------------------------------------------
ReadStep(r) == ReadEofCheck(r) \/ ReadWait(r) \/ ReadRelock(r) \/ ReadRetry(r)

Next ==
    \/ \E r \in Readers : ReadStep(r) \/ \E n \in ReadSizes : ReadStart(r, n)
    \/ \E w \in Writers : WriteLocked(w) \/ \E n \in WriteSizes : WriteStart(w, n)
    \/ Close

(* A call of Read or Write that has begun goes on as soon as it can: the   *)
(* goroutines are scheduled and sync.Mutex does not starve a waiter.       *)
(* Nobody has to begin a call.                                             *)
Fairness ==
    /\ \A r \in Readers : WF_vars(ReadStep(r))
    /\ \A w \in Writers : WF_vars(WriteLocked(w))

Spec == Init /\ [][Next]_vars /\ Fairness

-----------------------------------------------------------------------------
ReaderPC == {"idle", "eofCheck", "wait", "parked", "woken", "retry"}

\* Shapes of the variables; the data always fits into the array.
TypeOK ==
    /\ cap \in Nat
    /\ buf \in [0..cap-1 -> Nat]
    /\ bufLen \in 0..cap
    /\ eof \in BOOLEAN
    /\ condL \in Readers \cup {NoReader}
    /\ rpc \in [Readers -> ReaderPC]
    /\ want \in [Readers -> Nat]
    /\ wpc \in [Writers -> {"idle", "locked"}]
    /\ dat \in [Writers -> WriteSizes \cup {0}]
    /\ nIn \in Nat
    /\ nilWoken \subseteq Readers
    /\ got \in Seq(Nat)

(* Every byte Write accepted is read exactly once and in the order it was  *)
(* accepted, across growing, shifting, partial reads, Close and any number *)
(* of concurrent readers and writers (readFromBuf and the copies of Write).*)
StreamOrder ==
    /\ nIn = Len(got) + bufLen
    /\ \A i \in 1..Len(got) : got[i] = i
    /\ \A i \in 0..bufLen-1 : buf[i] = Len(got) + i + 1

\* r calls L.Lock on the mutex that its own deferred Unlock would have to free.
SelfDeadlocked(r) == rpc[r] = "wait" /\ condL = r

(* Read goes round its loop until there is data, and locks cond.L in each  *)
(* round.  Nothing but a Write of no bytes, as of the empty parts of a     *)
(* pong or an OP_EOS, wakes a reader that is alone into the mutex it       *)
(* holds: released by any other Write it finds data at its second look,    *)
(* and neither Close nor a refused Write releases one.                     *)
OnlyEmptyWriteDeadlocks ==
    \A r \in Readers : SelfDeadlocked(r) => r \in nilWoken

\* A reader released by a Write that brought data returns from Read.
WokenReturns == \A r \in Readers :
    (rpc[r] = "woken" /\ r \notin nilWoken) ~> rpc[r] = "idle"

(* What the feeding side expects of the buffer: data that was accepted     *)
(* while a reader is inside Read reaches a reader.                         *)
FedDataIsRead == \A r \in Readers :
    (bufLen > 0 /\ rpc[r] # "idle") ~> (bufLen = 0 \/ rpc[r] = "idle")

\* The buffer implements the byte stream: the array's first bufLen slots are
\* what is pending.
Stream == INSTANCE ByteStream WITH
    Sizes <- WriteSizes \cup {0},
    pending <- [i \in 1..bufLen |-> buf[i - 1]], delivered <- got, closed <- eof

\* Every step of the buffer's code is a step of ByteStream or changes nothing
\* the stream shows.
IsByteStream == Stream!Spec
=============================================================================
