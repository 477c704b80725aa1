------------------------ MODULE ReadWriteBufferProofs ------------------------
(***************************************************************************)
(* Proofs about ReadWriteBuffer, for any number of readers and writers and *)
(* any sizes, empty ones too: TypeOK, StreamOrder, the refinement of       *)
(* ByteStream, and, for a buffer with one reader, as each of the program's *)
(* has, OnlyEmptyWriteDeadlocks.                                           *)
(***************************************************************************)
EXTENDS ReadWriteBuffer, TLAPS, SequenceTheorems

-----------------------------------------------------------------------------
(* A grown array has a natural number of slots.                            *)
LEMMA GrownCapIsNat ==
    ASSUME NEW c \in Nat, NEW k \in Nat
    PROVE  c + k * BufSize \in Nat
BY BufferAssumption

(* The slice a writer brings has a natural length.                         *)
LEMMA DatIsNat ==
    ASSUME TypeOK
    PROVE  \A w \in Writers : dat[w] \in Nat
<1>1. \A n \in WriteSizes \cup {0} : n \in Nat
  BY BufferAssumption DEF BufferAssumption
<1>2. \A w \in Writers : dat[w] \in WriteSizes \cup {0}
  BY DEF TypeOK
<1> QED
  BY <1>1, <1>2

(* readFromBuf keeps the types when it takes no more than there is.        *)
LEMMA ReadFromBufTyped ==
    ASSUME TypeOK, NEW size \in 0..bufLen, readFromBuf(size)
    PROVE  /\ cap' \in Nat
           /\ buf' \in [0..cap'-1 -> Nat]
           /\ bufLen' \in 0..cap'
           /\ nIn' \in Nat
           /\ got' \in Seq(Nat)
<1> USE DEF TypeOK, readFromBuf
<1>1. \A i \in 1..size : buf[i - 1] \in Nat
  OBVIOUS
<1>2. [i \in 1..size |-> buf[i - 1]] \in Seq(Nat)
  BY <1>1
<1>3. got' \in Seq(Nat)
  BY <1>2
<1>4. \A i \in 0..cap-1 : (IF i < bufLen - size THEN buf[i + size] ELSE buf[i]) \in Nat
  OBVIOUS
<1> QED
  BY <1>3, <1>4

(* ReadSize is never more than there is.                                   *)
LEMMA ReadSizeInRange ==
    ASSUME TypeOK, NEW n \in Nat
    PROVE  ReadSize(n) \in 0..bufLen
BY DEF TypeOK, ReadSize

(* The copy of Write keeps the types when there is room for it.            *)
LEMMA CopyInTyped ==
    ASSUME TypeOK, NEW c \in Nat, NEW n \in Nat, CopyIn(c, n),
           bufLen + n <= c, cap <= c
    PROVE  /\ cap' \in Nat
           /\ buf' \in [0..cap'-1 -> Nat]
           /\ bufLen' \in 0..cap'
           /\ nIn' \in Nat
           /\ got' \in Seq(Nat)
BY DEF TypeOK, CopyIn

(* What the locked section of Write does: nothing, or a copy into an array *)
(* with room for it, followed by Broadcast.                                *)
LEMMA WriteLockedCases ==
    ASSUME TypeOK, NEW w \in Writers, WriteLocked(w)
    PROVE  /\ wpc' = [wpc EXCEPT ![w] = "idle"]
           /\ UNCHANGED <<eof, condL, want, dat>>
           /\ \/ UNCHANGED <<bufVars, rpc, nilWoken>>
              \/ \E c \in Nat : /\ bufLen + dat[w] <= c
                                /\ cap <= c
                                /\ CopyIn(c, dat[w])
                                /\ Broadcast /\ Released(dat[w])
<1> USE DatIsNat DEF TypeOK
<1>1. CASE bufLen + dat[w] <= cap /\ CopyIn(cap, dat[w]) /\ Broadcast /\ Released(dat[w])
  BY <1>1 DEF WriteLocked
<1>2. CASE bufLen + dat[w] > cap
  <2>1. PICK k \in 1..(bufLen + dat[w]) :
          /\ cap + k * BufSize >= bufLen + dat[w]
          /\ \/ CopyIn(cap + k * BufSize, dat[w]) /\ Broadcast /\ Released(dat[w])
             \/ UNCHANGED <<bufVars, rpc, nilWoken>>
    BY <1>2 DEF WriteLocked
  <2>2. cap + k * BufSize \in Nat
    BY <2>1, GrownCapIsNat
  <2>3. cap <= cap + k * BufSize
    BY <2>1, <2>2, <1>2
  <2> QED
    BY <2>1, <2>2, <2>3 DEF WriteLocked
<1> QED
  BY <1>1, <1>2 DEF WriteLocked

-----------------------------------------------------------------------------
(* Types of the buffer: in particular the data always fits into the array. *)
THEOREM TypeCorrect == Spec => []TypeOK
<1>1. Init => TypeOK
  <2> SUFFICES ASSUME Init PROVE TypeOK
    OBVIOUS
  <2>1. buf \in [0..cap-1 -> Nat]
    BY DEF Init
  <2>2. cap \in Nat /\ bufLen \in 0..cap
    BY BufferAssumption DEF Init, BufferAssumption
  <2>3. eof \in BOOLEAN /\ condL \in Readers \cup {NoReader}
    BY Zenon DEF Init
  <2>4. rpc \in [Readers -> ReaderPC] /\ wpc \in [Writers -> {"idle", "locked"}]
    BY DEF Init, ReaderPC
  <2>5. /\ want \in [Readers -> Nat]
        /\ dat \in [Writers -> WriteSizes \cup {0}]
        /\ nIn \in Nat
        /\ got \in Seq(Nat)
        /\ nilWoken \subseteq Readers
    BY DEF Init
  <2> QED
    BY <2>1, <2>2, <2>3, <2>4, <2>5 DEF TypeOK
<1>2. TypeOK /\ [Next]_vars => TypeOK'
  <2> SUFFICES ASSUME TypeOK, [Next]_vars PROVE TypeOK'
    OBVIOUS
  <2>1. ASSUME NEW r \in Readers, NEW n \in ReadSizes, ReadStart(r, n)
        PROVE  TypeOK'
    <3>0. n \in Nat
      BY BufferAssumption
    <3>1. CASE bufLen > 0 /\ readFromBuf(ReadSize(n)) /\ UNCHANGED <<rpc, want>>
      BY <2>1, <3>0, <3>1, ReadSizeInRange, ReadFromBufTyped DEF ReadStart, TypeOK
    <3>2. CASE bufLen = 0
      <4>1. rpc' \in [Readers -> ReaderPC] /\ want' \in [Readers -> Nat]
        BY <2>1, <3>0, <3>2 DEF ReadStart, TypeOK, ReaderPC
      <4>2. UNCHANGED <<bufVars, eof, condL, wpc, dat, nilWoken>>
        BY <2>1, <3>2 DEF ReadStart
      <4> QED
        BY <4>1, <4>2 DEF TypeOK, bufVars
    <3> QED
      BY <2>1, <3>1, <3>2 DEF ReadStart
  <2>2. ASSUME NEW r \in Readers, ReadEofCheck(r)  PROVE TypeOK'
    BY <2>2 DEF ReadEofCheck, TypeOK, bufVars, ReaderPC
  <2>3. ASSUME NEW r \in Readers, ReadWait(r)  PROVE TypeOK'
    BY <2>3 DEF ReadWait, TypeOK, bufVars, ReaderPC
  <2>4. ASSUME NEW r \in Readers, ReadRelock(r)  PROVE TypeOK'
    BY <2>4 DEF ReadRelock, TypeOK, bufVars, ReaderPC
  <2>5. ASSUME NEW r \in Readers, ReadRetry(r)  PROVE TypeOK'
    <3>1. CASE /\ readFromBuf(ReadSize(want[r]))
               /\ rpc' = [rpc EXCEPT ![r] = "idle"]
               /\ condL' = NoReader
      <4>1. want[r] \in Nat
        BY DEF TypeOK
      <4> QED
        BY <2>5, <3>1, <4>1, ReadSizeInRange, ReadFromBufTyped
        DEF ReadRetry, TypeOK, ReaderPC
    <3>2. CASE rpc' = [rpc EXCEPT ![r] = "wait"] /\ UNCHANGED <<bufVars, condL>>
      BY <2>5, <3>2 DEF ReadRetry, TypeOK, bufVars, ReaderPC
    <3> QED
      BY <2>5, <3>1, <3>2 DEF ReadRetry
  <2>6. ASSUME NEW w \in Writers, NEW n \in WriteSizes, WriteStart(w, n)
        PROVE  TypeOK'
    BY <2>6, BufferAssumption DEF WriteStart, TypeOK, bufVars
  <2>7. ASSUME NEW w \in Writers, WriteLocked(w)  PROVE TypeOK'
    <3>1. CASE UNCHANGED <<bufVars, rpc, nilWoken>>
      BY <2>7, <3>1, WriteLockedCases DEF TypeOK, bufVars
    <3>2. CASE \E c \in Nat : /\ bufLen + dat[w] <= c
                              /\ cap <= c
                              /\ CopyIn(c, dat[w])
                              /\ Broadcast /\ Released(dat[w])
      <4>1. PICK c \in Nat : /\ bufLen + dat[w] <= c
                             /\ cap <= c
                             /\ CopyIn(c, dat[w])
                             /\ Broadcast /\ Released(dat[w])
        BY <3>2
      <4>2. dat[w] \in Nat
        BY DatIsNat
      <4>3. rpc' \in [Readers -> ReaderPC]
        BY <4>1 DEF Broadcast, TypeOK, ReaderPC
      <4>4. nilWoken' \subseteq Readers
        BY <4>1 DEF Released, TypeOK
      <4> QED
        BY <2>7, <4>1, <4>2, <4>3, <4>4, CopyInTyped, WriteLockedCases DEF TypeOK
    <3> QED
      BY <2>7, <3>1, <3>2, WriteLockedCases
  <2>8. CASE Close
    BY <2>8 DEF Close, TypeOK, bufVars
  <2>9. CASE UNCHANGED vars
    BY <2>9 DEF vars, TypeOK
  <2> QED
    BY <2>1, <2>2, <2>3, <2>4, <2>5, <2>6, <2>7, <2>8, <2>9 DEF Next, ReadStep
<1> QED
  BY <1>1, <1>2, PTL DEF Spec

-----------------------------------------------------------------------------
(* To the data a step is one of three things: nothing, a read of no more   *)
(* than there is, or an accepted write into an array with room for it.     *)
LEMMA DataCases ==
    ASSUME TypeOK, [Next]_vars
    PROVE  \/ UNCHANGED bufVars /\ (eof' = eof \/ eof' = TRUE)
           \/ \E size \in 0..bufLen : readFromBuf(size) /\ UNCHANGED eof
           \/ \E c \in Nat, w \in Writers :
                 /\ bufLen + dat[w] <= c
                 /\ cap <= c
                 /\ CopyIn(c, dat[w])
                 /\ UNCHANGED eof
<1>1. ASSUME NEW r \in Readers, NEW n \in ReadSizes, ReadStart(r, n)
      PROVE  \/ UNCHANGED bufVars /\ (eof' = eof \/ eof' = TRUE)
             \/ \E size \in 0..bufLen : readFromBuf(size) /\ UNCHANGED eof
  <2>1. n \in Nat
    BY BufferAssumption DEF BufferAssumption
  <2> QED
    BY <1>1, <2>1, ReadSizeInRange DEF ReadStart
<1>2. ASSUME NEW r \in Readers, ReadRetry(r)
      PROVE  \/ UNCHANGED bufVars /\ (eof' = eof \/ eof' = TRUE)
             \/ \E size \in 0..bufLen : readFromBuf(size) /\ UNCHANGED eof
  <2>1. want[r] \in Nat
    BY DEF TypeOK
  <2> QED
    BY <1>2, <2>1, ReadSizeInRange DEF ReadRetry
<1>3. ASSUME NEW w \in Writers, WriteLocked(w)
      PROVE  \/ UNCHANGED bufVars /\ (eof' = eof \/ eof' = TRUE)
             \/ \E c \in Nat : /\ bufLen + dat[w] <= c
                               /\ cap <= c
                               /\ CopyIn(c, dat[w])
                               /\ UNCHANGED eof
  BY <1>3, WriteLockedCases
<1>4. CASE UNCHANGED vars
  BY <1>4 DEF vars, bufVars
<1>5. ASSUME NEW r \in Readers, ReadEofCheck(r) \/ ReadWait(r) \/ ReadRelock(r)
      PROVE  UNCHANGED bufVars /\ eof' = eof
  BY <1>5 DEF ReadEofCheck, ReadWait, ReadRelock
<1>6. ASSUME NEW w \in Writers, NEW n \in WriteSizes, WriteStart(w, n)
      PROVE  UNCHANGED bufVars /\ eof' = eof
  BY <1>6 DEF WriteStart
<1>7. CASE Close
  BY <1>7 DEF Close
<1> QED
  BY <1>1, <1>2, <1>3, <1>4, <1>5, <1>6, <1>7 DEF Next, ReadStep

(* The shift of readFromBuf moves the window on by what was handed out.    *)
LEMMA ReadKeepsOrder ==
    ASSUME TypeOK, StreamOrder, NEW size \in 0..bufLen, readFromBuf(size)
    PROVE  StreamOrder'
<1> DEFINE out == [i \in 1..size |-> buf[i - 1]]
<1>1. out \in Seq(Nat) /\ Len(out) = size
  BY DEF TypeOK
<1>2. /\ got' = got \o out
      /\ Len(got') = Len(got) + size
      /\ \A i \in 1..Len(got) : got'[i] = got[i]
      /\ \A i \in Len(got)+1..Len(got)+size : got'[i] = out[i - Len(got)]
  BY <1>1, got \in Seq(Nat) DEF TypeOK, readFromBuf
<1>3. \A i \in 1..size : out[i] = Len(got) + i
  BY DEF StreamOrder, TypeOK
<1>4. nIn' = Len(got') + bufLen'
  BY <1>2 DEF StreamOrder, TypeOK, readFromBuf
<1>5. \A i \in 1..Len(got') : got'[i] = i
  BY <1>1, <1>2, <1>3 DEF StreamOrder, TypeOK
<1>6. \A i \in 0..bufLen'-1 : buf'[i] = Len(got') + i + 1
  BY <1>2 DEF StreamOrder, TypeOK, readFromBuf
<1> QED
  BY <1>4, <1>5, <1>6 DEF StreamOrder

(* The copies of Write append to the window and move nothing in it.        *)
LEMMA WriteKeepsOrder ==
    ASSUME TypeOK, StreamOrder, NEW c \in Nat, NEW n \in Nat, CopyIn(c, n),
           bufLen + n <= c, cap <= c
    PROVE  StreamOrder'
BY DEF TypeOK, StreamOrder, CopyIn

(* Every byte Write accepted is read exactly once, in the order accepted,  *)
(* for any number of readers and writers and any sizes of their slices.    *)
THEOREM StreamOrderHolds == Spec => []StreamOrder
<1>1. Init => StreamOrder
  BY DEF Init, StreamOrder
<1>2. TypeOK /\ StreamOrder /\ [Next]_vars => StreamOrder'
  <2> SUFFICES ASSUME TypeOK, StreamOrder, [Next]_vars PROVE StreamOrder'
    OBVIOUS
  <2>1. CASE UNCHANGED bufVars
    BY <2>1 DEF StreamOrder, bufVars
  <2>2. CASE \E size \in 0..bufLen : readFromBuf(size)
    BY <2>2, ReadKeepsOrder
  <2>3. CASE \E c \in Nat, w \in Writers :
               bufLen + dat[w] <= c /\ cap <= c /\ CopyIn(c, dat[w])
    <3> QED
      BY <2>3, DatIsNat, WriteKeepsOrder
  <2> QED
    BY <2>1, <2>2, <2>3, DataCases
<1> QED
  BY <1>1, <1>2, TypeCorrect, PTL DEF Spec

-----------------------------------------------------------------------------
(* The strengthening OnlyEmptyWriteDeadlocks needs: cond.L is held between *)
(* waking up and the second look, and for ever after a look that found     *)
(* nothing; a woken reader finds data unless an empty Write released it.   *)
SelfDeadlockInv ==
    /\ \A r \in Readers : condL = r =>
          rpc[r] = "retry" \/ (rpc[r] = "wait" /\ r \in nilWoken)
    /\ \A r \in Readers : rpc[r] \in {"woken", "retry"} =>
          bufLen > 0 \/ r \in nilWoken

(* The reader of a buffer that has no other waits for the cond.L it holds  *)
(* itself only after an empty Write has released it, whatever is written,  *)
(* by whomever, in whatever sizes, and whenever the buffer is closed.      *)
THEOREM OneReaderDeadlocks ==
    ASSUME \A r, s \in Readers : r = s
    PROVE  Spec => []OnlyEmptyWriteDeadlocks
<1>1. Init => SelfDeadlockInv
  BY BufferAssumption DEF Init, SelfDeadlockInv, BufferAssumption
<1>2. TypeOK /\ SelfDeadlockInv /\ [Next]_vars => SelfDeadlockInv'
  <2> SUFFICES ASSUME TypeOK, SelfDeadlockInv, [Next]_vars PROVE SelfDeadlockInv'
    OBVIOUS
  <2> USE DEF TypeOK, SelfDeadlockInv
  <2>1. ASSUME NEW r \in Readers, NEW n \in ReadSizes, ReadStart(r, n)
        PROVE  SelfDeadlockInv'
    <3>1. rpc' = rpc \/ rpc' = [rpc EXCEPT ![r] = "eofCheck"]
      BY <2>1 DEF ReadStart
    <3>2. \A s \in Readers : rpc'[s] \notin {"woken", "retry"}
      BY <2>1, <3>1 DEF ReadStart
    <3>3. \A s \in Readers : condL' # s
      BY <2>1 DEF ReadStart
    <3> QED
      BY <3>2, <3>3
  <2>2. ASSUME NEW r \in Readers, ReadEofCheck(r)  PROVE SelfDeadlockInv'
    BY <2>2 DEF ReadEofCheck, bufVars
  <2>3. ASSUME NEW r \in Readers, ReadWait(r)  PROVE SelfDeadlockInv'
    <3>1. \A s \in Readers : condL' # s
      BY <2>3, BufferAssumption DEF ReadWait, BufferAssumption
    <3> QED
      BY <2>3, <3>1 DEF ReadWait, bufVars
  <2>4. ASSUME NEW r \in Readers, ReadRelock(r)  PROVE SelfDeadlockInv'
    <3>1. rpc[r] = "woken" /\ condL' = r /\ rpc' = [rpc EXCEPT ![r] = "retry"]
      BY <2>4 DEF ReadRelock
    <3>2. bufLen' = bufLen /\ nilWoken' = nilWoken
      BY <2>4 DEF ReadRelock, bufVars
    <3>3. \A s \in Readers : s = r /\ rpc'[s] = "retry"
      BY <3>1
    <3>4. bufLen > 0 \/ r \in nilWoken
      BY <3>1
    <3>5. \A s \in Readers : bufLen' > 0 \/ s \in nilWoken'
      BY <3>2, <3>3, <3>4
    <3> QED
      BY ONLY <3>3, <3>5, Zenon DEF SelfDeadlockInv
  <2>5. ASSUME NEW r \in Readers, ReadRetry(r)  PROVE SelfDeadlockInv'
    <3>1. CASE rpc' = [rpc EXCEPT ![r] = "idle"] /\ condL' = NoReader
      BY <2>5, <3>1, BufferAssumption DEF BufferAssumption
    <3>2. CASE bufLen = 0 /\ rpc' = [rpc EXCEPT ![r] = "wait"] /\ UNCHANGED condL
      <4>1. r \in nilWoken /\ nilWoken' = nilWoken
        BY <2>5, <3>2 DEF ReadRetry
      <4> QED
        BY <3>2, <4>1
    <3> QED
      BY <2>5, <3>1, <3>2 DEF ReadRetry
  <2>6. ASSUME NEW w \in Writers, NEW n \in WriteSizes, WriteStart(w, n)
        PROVE  SelfDeadlockInv'
    BY <2>6 DEF WriteStart, bufVars
  <2>7. ASSUME NEW w \in Writers, WriteLocked(w)  PROVE SelfDeadlockInv'
    <3>1. CASE UNCHANGED <<bufVars, rpc, nilWoken>>
      BY <2>7, <3>1, WriteLockedCases DEF bufVars
    <3>2. CASE \E c \in Nat : CopyIn(c, dat[w]) /\ Broadcast /\ Released(dat[w])
      <4>0. dat[w] \in Nat
        BY DatIsNat
      <4>1. bufLen' = bufLen + dat[w] /\ condL' = condL
        BY <2>7, <3>2, WriteLockedCases DEF CopyIn
      <4>2. \A r \in Readers :
              rpc'[r] = IF rpc[r] = "parked" THEN "woken" ELSE rpc[r]
        BY <3>2 DEF Broadcast
      <4>3. \A r \in Readers :
              r \in nilWoken' <=> IF rpc[r] = "parked" THEN dat[w] = 0 ELSE r \in nilWoken
        BY <3>2 DEF Released
      <4> QED
        BY <4>0, <4>1, <4>2, <4>3
    <3> QED
      BY <2>7, <3>1, <3>2, WriteLockedCases
  <2>8. CASE Close
    BY <2>8 DEF Close, bufVars
  <2>9. CASE UNCHANGED vars
    BY <2>9 DEF vars
  <2> QED
    BY <2>1, <2>2, <2>3, <2>4, <2>5, <2>6, <2>7, <2>8, <2>9 DEF Next, ReadStep
<1>3. SelfDeadlockInv => OnlyEmptyWriteDeadlocks
  BY DEF SelfDeadlockInv, OnlyEmptyWriteDeadlocks, SelfDeadlocked
<1> QED
  BY <1>1, <1>2, <1>3, TypeCorrect, PTL DEF Spec

-----------------------------------------------------------------------------
(* An array g that holds f's first m slots and then n new bytes, read as a *)
(* sequence, is f's sequence with the new bytes appended.                  *)
LEMMA AppendedSlots ==
    ASSUME NEW f, NEW g, NEW m \in Nat, NEW n \in Nat, NEW last \in Nat,
           \A i \in 0..m-1 : f[i] \in Nat /\ g[i] = f[i],
           \A i \in m..m+n-1 : g[i] = last + (i - m) + 1
    PROVE  [i \in 1..m+n |-> g[i - 1]] =
             [i \in 1..m |-> f[i - 1]] \o [i \in 1..n |-> last + i]
<1> DEFINE a == [i \in 1..m |-> f[i - 1]]
           b == [i \in 1..n |-> last + i]
           c == [i \in 1..m+n |-> g[i - 1]]
<1>1. a \in Seq(Nat) /\ Len(a) = m
  OBVIOUS
<1>2. b \in Seq(Nat) /\ Len(b) = n
  OBVIOUS
<1>3. \A i \in 1..m+n : g[i - 1] \in Nat
  OBVIOUS
<1>4. c \in Seq(Nat) /\ Len(c) = m + n
  BY <1>3
<1>5. \A i \in 1..m+n : c[i] = IF i <= m THEN a[i] ELSE b[i - m]
  OBVIOUS
<1> HIDE DEF a, b, c
<1>6. /\ a \o b \in Seq(Nat)
      /\ Len(a \o b) = m + n
      /\ \A i \in 1..m+n : (a \o b)[i] = IF i <= m THEN a[i] ELSE b[i - m]
  <2>1. /\ a \o b \in Seq(Nat)
        /\ Len(a \o b) = Len(a) + Len(b)
        /\ \A i \in 1..Len(a) + Len(b) :
             (a \o b)[i] = IF i <= Len(a) THEN a[i] ELSE b[i - Len(a)]
    BY <1>1, <1>2, ConcatProperties, Zenon
  <2> QED
    BY <1>1, <1>2, <2>1
<1>7. c = a \o b
  <2>1. Len(c) = Len(a \o b) /\ \A i \in 1..Len(c) : c[i] = (a \o b)[i]
    BY <1>4, <1>5, <1>6
  <2> QED
    BY <1>4, <1>6, <2>1, SeqEqual, Zenon
<1> QED
  BY <1>7 DEF a, b, c

(* The buffer implements the byte stream: reads are Take, accepted writes  *)
(* are Put, and nothing else shows.                                        *)
THEOREM ImplementsByteStream == Spec => IsByteStream
<1> DEFINE pend == [i \in 1..bufLen |-> buf[i - 1]]
<1>1. Init => Stream!Init
  BY DEF Init, Stream!Init
<1>2. TypeOK /\ TypeOK' /\ StreamOrder /\ [Next]_vars => [Stream!Next]_(Stream!vars)
  <2> SUFFICES ASSUME TypeOK, TypeOK', StreamOrder, [Next]_vars
               PROVE  [Stream!Next]_(Stream!vars)
    OBVIOUS
  <2>0. pend \in Seq(Nat) /\ Len(pend) = bufLen
    BY DEF TypeOK
  <2>1. CASE UNCHANGED bufVars /\ (eof' = eof \/ eof' = TRUE)
    <3>1. pend' = pend /\ got' = got
      BY <2>1 DEF bufVars
    <3> QED
      BY <2>1, <3>1 DEF Stream!vars, Stream!Next, Stream!Close
  <2>2. ASSUME NEW size \in 0..bufLen, readFromBuf(size), UNCHANGED eof
        PROVE  [Stream!Next]_(Stream!vars)
    <3>1. CASE size = 0
      <4>1. bufLen' = bufLen /\ got' = got
        BY <2>2, <3>1 DEF readFromBuf, TypeOK
      <4>2. \A i \in 1..bufLen : buf'[i - 1] = buf[i - 1]
        BY <2>2, <3>1 DEF readFromBuf, TypeOK
      <4>3. pend' = pend
        BY <4>1, <4>2
      <4> QED
        BY <2>2, <4>1, <4>3 DEF Stream!vars
    <3>2. CASE size > 0
      <4>1. SubSeq(pend, 1, size) = [i \in 1..size |-> buf[i - 1]]
        BY <2>0, <2>2 DEF TypeOK
      <4>2. SubSeq(pend, size + 1, Len(pend)) = [i \in 1..(bufLen - size) |-> buf[i + size - 1]]
        BY <2>0, <2>2 DEF TypeOK
      <4>3. bufLen' = bufLen - size /\ \A i \in 1..(bufLen - size) : buf'[i - 1] = buf[i + size - 1]
        BY <2>2 DEF readFromBuf, TypeOK
      <4>4. pend' = SubSeq(pend, size + 1, Len(pend))
        BY <4>2, <4>3
      <4>5. got' = got \o SubSeq(pend, 1, size)
        BY <2>2, <4>1 DEF readFromBuf
      <4>6. size \in 1..Len(pend)
        BY <2>0, <2>2, <3>2 DEF TypeOK
      <4> QED
        BY <2>2, <4>4, <4>5, <4>6 DEF Stream!Next, Stream!Take
    <3> QED
      BY <3>1, <3>2
  <2>3. ASSUME NEW c \in Nat, NEW w \in Writers, UNCHANGED eof,
               bufLen + dat[w] <= c, cap <= c, CopyIn(c, dat[w])
        PROVE  [Stream!Next]_(Stream!vars)
    <3>0. dat[w] \in Nat
      BY DatIsNat
    <3>1. nIn \in Nat /\ nIn = Len(got) + Len(pend)
      BY <2>0 DEF TypeOK, StreamOrder
    <3>2. bufLen' = bufLen + dat[w] /\ got' = got
      BY <2>3 DEF CopyIn
    <3>3. \A i \in 0..bufLen-1 : buf[i] \in Nat /\ buf'[i] = buf[i]
      BY <2>3, <3>0 DEF CopyIn, TypeOK
    <3>5. bufLen \in Nat
      BY DEF TypeOK
    <3>4. \A i \in bufLen..bufLen+dat[w]-1 : buf'[i] = nIn + (i - bufLen) + 1
      <4> SUFFICES ASSUME NEW i \in bufLen..bufLen+dat[w]-1
                   PROVE  buf'[i] = nIn + (i - bufLen) + 1
        OBVIOUS
      <4>1. i \in 0..c-1 /\ ~ i < bufLen /\ i < bufLen + dat[w]
        BY <2>3, <3>0, <3>5
      <4> QED
        BY <2>3, <4>1 DEF CopyIn
    <3>6. [i \in 1..bufLen+dat[w] |-> buf'[i - 1]] =
            pend \o [i \in 1..dat[w] |-> nIn + i]
      BY <3>0, <3>1, <3>3, <3>4, <3>5, AppendedSlots
    <3>7. pend' = pend \o [i \in 1..dat[w] |-> nIn + i]
      BY <3>2, <3>6
    <3>8. dat[w] \in WriteSizes \cup {0}
      BY DEF TypeOK
    <3> QED
      BY <2>3, <3>1, <3>2, <3>7, <3>8 DEF Stream!Next, Stream!Put
  <2> QED
    BY <2>1, <2>2, <2>3, DataCases
<1> QED
  BY <1>1, <1>2, TypeCorrect, StreamOrderHolds, PTL DEF Spec, IsByteStream, Stream!Spec
=============================================================================
