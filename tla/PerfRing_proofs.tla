--------------------------- MODULE PerfRing_proofs ---------------------------
(* Safety of the ring buffer, for buffers and records of any size.        *)
EXTENDS PerfRing, SequenceTheorems, TLAPS

(* An index that moves forward or backward by at most the whole buffer. *)
LEMMA ModForward ==
  ASSUME NEW n \in Nat \ {0}, NEW a \in 0 .. n - 1, NEW b \in 0 .. n - 1
  PROVE  (a + b) % n = IF a + b < n THEN a + b ELSE a + b - n
  BY SMTT(30)

LEMMA ModBackward ==
  ASSUME NEW n \in Nat \ {0}, NEW a \in 0 .. n - 1, NEW b \in 1 .. n
  PROVE  (a + n - b) % n = IF b <= a THEN a - b ELSE a - b + n
  BY SMTT(30)

(* A function on 1 .. n is a sequence. *)
LEMMA FunctionIsSeq ==
  ASSUME NEW S, NEW n \in Nat, NEW f \in [1 .. n -> S]
  PROVE  f \in Seq(S)
  BY SeqDef

(* The place of the k-th newest byte. *)
PlaceOf(k) ==
  IF k <= perf_buf_head THEN perf_buf_head - k ELSE perf_buf_head - k + PERFBUF_SIZE

(***************************************************************************)
(* The inductive invariant: the whole buffer, read backwards from the      *)
(* head, holds the newest bytes; what counts as unread has been written    *)
(* and is newer than what was delivered.                                   *)
(***************************************************************************)
HoldsNewest ==
  \A k \in 1 .. PERFBUF_SIZE : k <= written => perf_buffer[PlaceOf(k)] = written - k + 1

IInv ==
  /\ TypeOK
  /\ HoldsNewest
  /\ Available <= written
  /\ delivered <= written - Available

-----------------------------------------------------------------------------
(* What a write does to the indices, with the wrapping spelled out. *)
LEMMA WriteIndices ==
  ASSUME TypeOK, NEW len \in 0 .. MaxWrite
  PROVE  /\ HeadAfter(len) = IF perf_buf_head + len < PERFBUF_SIZE
                             THEN perf_buf_head + len
                             ELSE perf_buf_head + len - PERFBUF_SIZE
         /\ TailAfter(len) = IF HeadAfter(len) # perf_buf_tail THEN perf_buf_tail
                             ELSE IF perf_buf_tail + len < PERFBUF_SIZE
                             THEN perf_buf_tail + len
                             ELSE perf_buf_tail + len - PERFBUF_SIZE
         /\ HeadAfter(len) \in Place
         /\ TailAfter(len) \in Place
<1> DEFINE N == PERFBUF_SIZE
<1>1. N \in Nat \ {0} /\ len \in 0 .. N - 1
  BY PerfRingAssumption
<1>2. perf_buf_head \in 0 .. N - 1 /\ perf_buf_tail \in 0 .. N - 1
  BY DEF TypeOK, Place
<1>4. (perf_buf_head + len) % N = IF perf_buf_head + len < N
                                  THEN perf_buf_head + len
                                  ELSE perf_buf_head + len - N
  BY <1>1, <1>2, ModForward, Zenon
<1>5. (perf_buf_tail + len) % N = IF perf_buf_tail + len < N
                                  THEN perf_buf_tail + len
                                  ELSE perf_buf_tail + len - N
  BY <1>1, <1>2, ModForward, Zenon
<1>6. HeadAfter(len) = IF perf_buf_head + len < N
                       THEN perf_buf_head + len
                       ELSE perf_buf_head + len - N
  BY <1>1, <1>2, <1>4 DEF HeadAfter
<1>7. HeadAfter(len) \in Place
  BY <1>1, <1>2, <1>6 DEF Place
<1> QED
  BY <1>1, <1>2, <1>5, <1>6, <1>7 DEF TailAfter, Place

(* What a read does to the tail. *)
LEMMA ReadIndices ==
  ASSUME TypeOK, NEW len \in 0 .. Available
  PROVE  /\ Available \in 0 .. PERFBUF_SIZE - 1
         /\ (IF perf_buf_tail + len <= PERFBUF_SIZE
             THEN (perf_buf_tail + len) % PERFBUF_SIZE
             ELSE len - (PERFBUF_SIZE - perf_buf_tail))
            = IF perf_buf_tail + len < PERFBUF_SIZE
              THEN perf_buf_tail + len
              ELSE perf_buf_tail + len - PERFBUF_SIZE
<1> DEFINE N == PERFBUF_SIZE
<1>1. N \in Nat \ {0}
  BY PerfRingAssumption
<1>2. perf_buf_head \in 0 .. N - 1 /\ perf_buf_tail \in 0 .. N - 1
  BY DEF TypeOK, Place
<1>3. Available \in 0 .. N - 1
  BY <1>1, <1>2 DEF Available
<1>4. len \in 0 .. N - 1
  BY <1>1, <1>3
<1>5. (perf_buf_tail + len) % N = IF perf_buf_tail + len < N
                                  THEN perf_buf_tail + len
                                  ELSE perf_buf_tail + len - N
  BY <1>1, <1>2, <1>4, ModForward, Zenon
<1> QED
  BY <1>1, <1>2, <1>3, <1>4, <1>5

(***************************************************************************)
(* A write puts its bytes in front of the newest ones: counted from the    *)
(* new head, place k holds byte k of the record, or byte k - len of what   *)
(* was there.                                                              *)
(***************************************************************************)
LEMMA WriteHoldsNewest ==
  ASSUME IInv, NEW len \in 0 .. MaxWrite, perfchar_write(len)
  PROVE  HoldsNewest'
<1> DEFINE N == PERFBUF_SIZE
<1> DEFINE h == perf_buf_head
<1>1. N \in Nat \ {0} /\ len \in 0 .. N - 1
  BY PerfRingAssumption
<1>2. /\ h \in 0 .. N - 1 /\ written \in Nat /\ perf_buffer \in [Place -> 0 .. MaxBytes]
  BY PerfRingAssumption DEF IInv, TypeOK, Place
<1>3. perf_buf_head' = IF h + len < N THEN h + len ELSE h + len - N
  BY WriteIndices DEF IInv, perfchar_write
<1>4. written' = written + len /\ perf_buffer' = Stored(len)
  BY DEF perfchar_write
<1> SUFFICES ASSUME NEW k \in 1 .. PERFBUF_SIZE, k <= written'
             PROVE  perf_buffer'[PlaceOf(k)'] = written' - k + 1
  BY DEF HoldsNewest
<1>5. PlaceOf(k)' = IF k <= perf_buf_head' THEN perf_buf_head' - k ELSE perf_buf_head' - k + N
  BY DEF PlaceOf
<1>6. PlaceOf(k)' \in Place
  BY <1>1, <1>2, <1>3, <1>5 DEF Place
<1>7. CASE k <= len
  <2>1. CASE h + len <= N
    <3>1. PlaceOf(k)' = h + len - k
      BY <1>1, <1>2, <1>3, <1>5, <1>7, <2>1
    <3> QED
      BY <1>1, <1>2, <1>4, <1>6, <1>7, <2>1, <3>1 DEF Stored
  <2>2. CASE h + len > N
    <3>1. PlaceOf(k)' = IF k <= h + len - N THEN h + len - N - k ELSE h + len - k
      BY <1>1, <1>2, <1>3, <1>5, <1>7, <2>2
    <3> QED
      BY <1>1, <1>2, <1>4, <1>6, <1>7, <2>2, <3>1 DEF Stored
  <2> QED
    BY <1>1, <1>2, <2>1, <2>2
<1>8. CASE k > len
  <2>1. k - len \in 1 .. N /\ k - len <= written
    BY <1>1, <1>2, <1>4, <1>8
  <2>2. perf_buffer[PlaceOf(k - len)] = written - (k - len) + 1
    BY <2>1 DEF IInv, HoldsNewest
  <2>3. PlaceOf(k)' = PlaceOf(k - len)
    BY <1>1, <1>2, <1>3, <1>5, <1>8 DEF PlaceOf
  <2>4. Stored(len)[PlaceOf(k)'] = perf_buffer[PlaceOf(k)']
    <3>1. CASE h + len <= N
      <4>1. PlaceOf(k)' \notin h .. h + len - 1
        BY <1>1, <1>2, <1>3, <1>5, <1>8, <3>1
      <4> QED
        BY <1>6, <3>1, <4>1 DEF Stored
    <3>2. CASE h + len > N
      <4>1. ~(PlaceOf(k)' >= h) /\ ~(PlaceOf(k)' < len - (N - h))
        BY <1>1, <1>2, <1>3, <1>5, <1>8, <3>2
      <4>2. ~(h + len <= N)
        BY <1>1, <1>2, <3>2
      <4> QED
        BY <1>6, <4>1, <4>2 DEF Stored
    <3> QED
      BY <1>1, <1>2, <3>1, <3>2
  <2> QED
    BY <1>1, <1>2, <1>4, <2>2, <2>3, <2>4
<1> QED
  BY <1>1, <1>7, <1>8

(* A write keeps the invariant. *)
LEMMA WriteInvariant ==
  ASSUME IInv, NEW len \in 0 .. MaxWrite, perfchar_write(len)
  PROVE  IInv'
<1> DEFINE N == PERFBUF_SIZE
<1>1. N \in Nat \ {0} /\ len \in 0 .. N - 1 /\ MaxBytes \in Nat
  BY PerfRingAssumption
<1>2. /\ TypeOK /\ perf_buf_head \in 0 .. N - 1 /\ perf_buf_tail \in 0 .. N - 1
      /\ written \in 0 .. MaxBytes /\ delivered \in 0 .. MaxBytes
      /\ perf_buffer \in [Place -> 0 .. MaxBytes]
  BY DEF IInv, TypeOK, Place
<1>3. /\ perf_buf_head' = HeadAfter(len) /\ perf_buf_tail' = TailAfter(len)
      /\ written' = written + len /\ written + len <= MaxBytes
      /\ perf_buffer' = Stored(len) /\ delivered' = delivered /\ last_read' = last_read
  BY DEF perfchar_write
<1>4. Available' = IF perf_buf_head' >= perf_buf_tail'
                   THEN perf_buf_head' - perf_buf_tail'
                   ELSE N - perf_buf_tail' + perf_buf_head'
  BY DEF Available
<1>5. Available <= written /\ delivered <= written - Available
  BY DEF IInv
<1>6. /\ perf_buf_head' = IF perf_buf_head + len < N
                          THEN perf_buf_head + len ELSE perf_buf_head + len - N
      /\ perf_buf_tail' = IF perf_buf_head' # perf_buf_tail THEN perf_buf_tail
                          ELSE IF perf_buf_tail + len < N
                          THEN perf_buf_tail + len ELSE perf_buf_tail + len - N
  BY <1>2, <1>3, WriteIndices
<1>7. Available' <= written' /\ delivered' <= written' - Available'
  BY <1>1, <1>2, <1>3, <1>4, <1>5, <1>6 DEF Available
<1>8. Stored(len) \in [Place -> 0 .. MaxBytes]
  <2>1. ASSUME NEW p \in Place PROVE Stored(len)[p] \in 0 .. MaxBytes
    <3>1. p \in 0 .. N - 1
      BY DEF Place
    <3> QED
      BY <1>1, <1>2, <1>3, <3>1 DEF Stored
  <2>2. Stored(len) = [p \in Place |-> Stored(len)[p]]
    BY DEF Stored
  <2> QED
    BY <2>1, <2>2
<1>9. TypeOK'
  BY <1>1, <1>2, <1>3, <1>8, WriteIndices DEF TypeOK
<1> QED
  BY <1>7, <1>9, WriteHoldsNewest DEF IInv

(***************************************************************************)
(* What copy_to_user copies are the oldest unread bytes: byte k of a read  *)
(* is byte k after what has been passed.                                   *)
(***************************************************************************)
LEMMA CopiedBytes ==
  ASSUME IInv, NEW len \in 0 .. Available, NEW k \in 1 .. len
  PROVE  Copied(len)[k] = written - Available + k
<1> DEFINE N == PERFBUF_SIZE
<1> DEFINE j == Available - k + 1
<1>1. N \in Nat \ {0}
  BY PerfRingAssumption
<1>2. perf_buf_head \in 0 .. N - 1 /\ perf_buf_tail \in 0 .. N - 1 /\ written \in Nat
  BY DEF IInv, TypeOK, Place
<1>3. Available \in 0 .. N - 1 /\ Available <= written
  BY <1>1, <1>2 DEF Available, IInv
<1>4. j \in 1 .. N /\ j <= written
  BY <1>1, <1>2, <1>3
<1>5. perf_buffer[PlaceOf(j)] = written - j + 1
  BY <1>4 DEF IInv, HoldsNewest
<1>6. PlaceOf(j) = IF perf_buf_tail + k - 1 < N
                   THEN perf_buf_tail + k - 1
                   ELSE k - 1 - (N - perf_buf_tail)
  BY <1>1, <1>2, <1>3 DEF PlaceOf, Available
<1>7. Copied(len)[k] = perf_buffer[PlaceOf(j)]
  BY <1>6 DEF Copied
<1> QED
  BY <1>2, <1>3, <1>5, <1>7

(* A read keeps the invariant. *)
LEMMA ReadInvariant ==
  ASSUME IInv, NEW asked \in 1 .. MaxRead, perfchar_read(asked)
  PROVE  IInv'
<1> DEFINE N == PERFBUF_SIZE
<1> DEFINE len == IF asked > Available THEN Available ELSE asked
<1>1. N \in Nat \ {0} /\ MaxBytes \in Nat /\ MaxRead \in Nat
  BY PerfRingAssumption
<1>2. /\ TypeOK /\ perf_buf_head \in 0 .. N - 1 /\ perf_buf_tail \in 0 .. N - 1
      /\ written \in 0 .. MaxBytes /\ delivered \in 0 .. MaxBytes
  BY DEF IInv, TypeOK, Place
<1>3. /\ last_read' = Copied(len)
      /\ delivered' = IF len = 0 THEN delivered ELSE last_read'[len]
      /\ perf_buf_tail' = IF perf_buf_tail + len <= N
                          THEN (perf_buf_tail + len) % N
                          ELSE len - (N - perf_buf_tail)
      /\ UNCHANGED <<perf_buffer, perf_buf_head, written>>
  BY DEF perfchar_read
<1>4. Available \in 0 .. N - 1 /\ Available <= written /\ delivered <= written - Available
  BY <1>1, <1>2 DEF Available, IInv
<1>5. len \in 0 .. Available
  BY <1>1, <1>4
<1>6. perf_buf_tail' = IF perf_buf_tail + len < N THEN perf_buf_tail + len
                       ELSE perf_buf_tail + len - N
  BY <1>2, <1>3, <1>5, ReadIndices
<1>7. Available' = Available - len
  <2>1. Available' = IF perf_buf_head >= perf_buf_tail' THEN perf_buf_head - perf_buf_tail'
                     ELSE N - perf_buf_tail' + perf_buf_head
    BY <1>3 DEF Available
  <2> QED
    BY <1>1, <1>2, <1>5, <1>6, <2>1 DEF Available
<1>8. \A k \in 1 .. len : last_read'[k] = written - Available + k
  BY <1>3, <1>5, CopiedBytes
<1>9. delivered' = IF len = 0 THEN delivered ELSE written - Available + len
  BY <1>3, <1>4, <1>5, <1>8
<1>10. last_read' \in Seq(0 .. MaxBytes)
  <2>1. len \in Nat
    BY <1>4, <1>5
  <2>2. \A k \in 1 .. len : Copied(len)[k] \in 0 .. MaxBytes
    BY <1>1, <1>2, <1>3, <1>4, <1>5, <1>8
  <2>3. Copied(len) = [k \in 1 .. len |-> Copied(len)[k]]
    BY DEF Copied
  <2>4. Copied(len) \in [1 .. len -> 0 .. MaxBytes]
    BY <2>2, <2>3
  <2> QED
    BY <1>3, <2>1, <2>4, FunctionIsSeq, Zenon
<1>11. TypeOK'
  <2>1. perf_buf_tail' \in Place
    BY <1>1, <1>2, <1>4, <1>5, <1>6 DEF Place
  <2>2. delivered' \in 0 .. MaxBytes
    BY <1>1, <1>2, <1>4, <1>5, <1>9
  <2> QED
    BY <1>2, <1>3, <1>10, <2>1, <2>2 DEF TypeOK
<1>12. HoldsNewest'
  BY <1>3 DEF IInv, HoldsNewest, PlaceOf
<1>13. Available' <= written' /\ delivered' <= written' - Available'
  BY <1>2, <1>3, <1>4, <1>5, <1>7, <1>9
<1> QED
  BY <1>11, <1>12, <1>13 DEF IInv

(* The ring starts empty. *)
LEMMA InitInvariant == Init => IInv
<1> SUFFICES ASSUME Init PROVE IInv
  OBVIOUS
<1>1. TypeOK
  BY PerfRingAssumption DEF Init, TypeOK, Place
<1>2. Available = 0 /\ HoldsNewest
  BY PerfRingAssumption DEF Init, Available, HoldsNewest
<1> QED
  BY <1>1, <1>2 DEF Init, IInv

(* Writes and reads keep the invariant. *)
LEMMA StepInvariant ==
  ASSUME IInv, [Next]_vars
  PROVE  IInv'
<1>1. CASE \E len \in 0 .. MaxWrite : perfchar_write(len)
  BY <1>1, WriteInvariant
<1>2. CASE \E asked \in 1 .. MaxRead : perfchar_read(asked)
  BY <1>2, ReadInvariant
<1>3. CASE UNCHANGED vars
  BY <1>3 DEF vars, IInv, TypeOK, HoldsNewest, PlaceOf, Available
<1> QED
  BY <1>1, <1>2, <1>3 DEF Next

(***************************************************************************)
(* The invariant holds in every reachable state of the ring.               *)
(***************************************************************************)
THEOREM Invariant == Spec => []IInv
  BY InitInvariant, StepInvariant, PTL DEF Spec

(* Both indices stay inside the buffer, for every size of it. *)
THEOREM TypeCorrect == Spec => []TypeOK
  BY Invariant, PTL DEF IInv

(***************************************************************************)
(* What waits to be read are the newest bytes, in order, for every size of *)
(* the buffer and of the records.                                          *)
(***************************************************************************)
THEOREM UnreadBytesNewest == Spec => []UnreadIsNewest
<1>1. IInv => UnreadIsNewest
  <2> SUFFICES ASSUME IInv, NEW k \in 1 .. Available
               PROVE  perf_buffer[(perf_buf_head + PERFBUF_SIZE - k) % PERFBUF_SIZE]
                        = written - k + 1
    BY DEF UnreadIsNewest
  <2> DEFINE N == PERFBUF_SIZE
  <2>1. N \in Nat \ {0}
    BY PerfRingAssumption
  <2>2. perf_buf_head \in 0 .. N - 1 /\ perf_buf_tail \in 0 .. N - 1 /\ written \in Nat
    BY DEF IInv, TypeOK, Place
  <2>3. Available \in 0 .. N - 1 /\ Available <= written
    BY <2>1, <2>2 DEF Available, IInv
  <2>4. k \in 1 .. N /\ k <= written
    BY <2>1, <2>2, <2>3
  <2>5. (perf_buf_head + N - k) % N = PlaceOf(k)
    BY <2>1, <2>2, <2>4, ModBackward, Zenon DEF PlaceOf
  <2> QED
    BY <2>4, <2>5 DEF IInv, HoldsNewest
<1> QED
  BY <1>1, Invariant, PTL

(***************************************************************************)
(* Reads return ever newer bytes, and none is skipped within a read.       *)
(***************************************************************************)
THEOREM ReadsForward == Spec => ReadsMoveForward
<1> DEFINE Forward ==
      last_read' # last_read =>
        \A k \in 1 .. Len(last_read') :
          /\ last_read'[k] > delivered
          /\ k > 1 => last_read'[k] = last_read'[k - 1] + 1
<1>1. ASSUME IInv, [Next]_vars PROVE [Forward]_vars
  <2>1. CASE \E len \in 0 .. MaxWrite : perfchar_write(len)
    BY <2>1 DEF perfchar_write
  <2>2. CASE \E asked \in 1 .. MaxRead : perfchar_read(asked)
    <3>1. PICK asked \in 1 .. MaxRead : perfchar_read(asked)
      BY <2>2
    <3> DEFINE len == IF asked > Available THEN Available ELSE asked
    <3>2. Available \in Nat /\ written \in Nat /\ delivered \in Nat
          /\ Available <= written /\ delivered <= written - Available
      BY <1>1, PerfRingAssumption DEF IInv, TypeOK, Place, Available
    <3>3. len \in 0 .. Available /\ last_read' = Copied(len)
      BY <3>1, <3>2, PerfRingAssumption DEF perfchar_read
    <3>4. Len(last_read') = len
      BY <3>2, <3>3 DEF Copied
    <3>5. \A k \in 1 .. len : last_read'[k] = written - Available + k
      BY <1>1, <3>3, CopiedBytes
    <3> QED
      BY <3>2, <3>3, <3>4, <3>5
  <2>3. CASE UNCHANGED vars
    BY <2>3
  <2> QED
    BY <1>1, <2>1, <2>2, <2>3 DEF Next
<1>2. IInv /\ [Next]_vars => [Forward]_vars
  BY <1>1
<1> QED
  BY <1>2, Invariant, PTL DEF Spec, ReadsMoveForward
=============================================================================
