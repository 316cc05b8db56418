------------------------------ MODULE PerfRing ------------------------------
(***************************************************************************)
(* The ring buffer behind /dev/lsm_perf: perfchar_write, called by the     *)
(* instrumentation of the hooks on any processor, and perfchar_read,       *)
(* called by the process that collects the measurements.  Both run under   *)
(* perf_lock from beginning to end, so each call is one step.              *)
(*                                                                         *)
(* The bytes written are numbered 1, 2, 3, ...: a byte is its number.      *)
(***************************************************************************)
EXTENDS Integers, Sequences

CONSTANTS
  PERFBUF_SIZE,   (* 40960                                                 *)
  MaxWrite,       (* longest record, in bytes (64)                         *)
  MaxRead,        (* largest buffer of a reader                            *)
  MaxBytes        (* bound on the bytes written in a run                   *)

ASSUME PerfRingAssumption ==
  /\ PERFBUF_SIZE \in Nat \ {0} /\ MaxRead \in Nat /\ MaxBytes \in Nat
  /\ MaxWrite \in 0 .. PERFBUF_SIZE - 1

VARIABLES
  perf_buffer,     (* what each place holds, 0 from kzalloc                *)
  perf_buf_head,   (* where the next byte is written                       *)
  perf_buf_tail,   (* where the next byte is read                          *)
  written,         (* bytes written so far                                 *)
  last_read,       (* the bytes the last read returned                     *)
  delivered        (* the newest byte any read has returned                *)

vars == <<perf_buffer, perf_buf_head, perf_buf_tail, written, last_read, delivered>>

Place == 0 .. PERFBUF_SIZE - 1

(* init_char_device. *)
Init ==
  /\ perf_buffer = [p \in Place |-> 0]
  /\ perf_buf_head = 0
  /\ perf_buf_tail = 0
  /\ written = 0
  /\ last_read = <<>>
  /\ delivered = 0

(* Mutants: a head that does not wrap; a split that counts len twice. *)
HeadUnwrapped(len) ==
  IF perf_buf_head + len <= PERFBUF_SIZE
  THEN perf_buf_head + len
  ELSE len - (PERFBUF_SIZE - perf_buf_head)

HeadSplitWrong(len) ==
  IF perf_buf_head + len <= PERFBUF_SIZE
  THEN (perf_buf_head + len) % PERFBUF_SIZE
  ELSE len

(* head + len, in one piece or wrapped around the end of the buffer. *)
HeadAfter(len) ==
  IF perf_buf_head + len <= PERFBUF_SIZE
  THEN (perf_buf_head + len) % PERFBUF_SIZE
  ELSE len - (PERFBUF_SIZE - perf_buf_head)

(* The memcpy, or the two of them. *)
Stored(len) ==
  IF perf_buf_head + len <= PERFBUF_SIZE
  THEN [p \in Place |-> IF p \in perf_buf_head .. perf_buf_head + len - 1
                        THEN written + 1 + (p - perf_buf_head)
                        ELSE perf_buffer[p]]
  ELSE LET first_part == PERFBUF_SIZE - perf_buf_head
       IN  [p \in Place |-> IF p >= perf_buf_head
                            THEN written + 1 + (p - perf_buf_head)
                            ELSE IF p < len - first_part
                            THEN written + 1 + first_part + p
                            ELSE perf_buffer[p]]

(* The tail moves if the head has come to stand on it. *)
TailAfter(len) ==
  IF HeadAfter(len) = perf_buf_tail
  THEN (perf_buf_tail + len) % PERFBUF_SIZE
  ELSE perf_buf_tail

perfchar_write(len) ==
  /\ written + len <= MaxBytes
  /\ perf_buffer' = Stored(len)
  /\ perf_buf_head' = HeadAfter(len)
  /\ perf_buf_tail' = TailAfter(len)
  /\ written' = written + len
  /\ UNCHANGED <<last_read, delivered>>

(* Mutant: the byte at the head counts. *)
AvailableWithHead ==
  IF perf_buf_head >= perf_buf_tail
  THEN perf_buf_head - perf_buf_tail + 1
  ELSE PERFBUF_SIZE - perf_buf_tail + perf_buf_head

(* available_data *)
Available ==
  IF perf_buf_head >= perf_buf_tail
  THEN perf_buf_head - perf_buf_tail
  ELSE PERFBUF_SIZE - perf_buf_tail + perf_buf_head

(* What copy_to_user copies, from one place or from two. *)
Copied(len) ==
  [k \in 1 .. len |->
     IF perf_buf_tail + k - 1 < PERFBUF_SIZE
     THEN perf_buffer[perf_buf_tail + k - 1]
     ELSE perf_buffer[k - 1 - (PERFBUF_SIZE - perf_buf_tail)]]

(* A copy_to_user that faults changes nothing and is left out. *)
perfchar_read(asked) ==
  /\ perf_buf_head # perf_buf_tail
  /\ LET len == IF asked > Available THEN Available ELSE asked
     IN  /\ last_read' = Copied(len)
         /\ delivered' = IF len = 0 THEN delivered ELSE last_read'[len]
         /\ perf_buf_tail' = IF perf_buf_tail + len <= PERFBUF_SIZE
                             THEN (perf_buf_tail + len) % PERFBUF_SIZE
                             ELSE len - (PERFBUF_SIZE - perf_buf_tail)
  /\ UNCHANGED <<perf_buffer, perf_buf_head, written>>

Next ==
  \/ \E len \in 0 .. MaxWrite : perfchar_write(len)
  \/ \E asked \in 1 .. MaxRead : perfchar_read(asked)

Spec == Init /\ [][Next]_vars

-----------------------------------------------------------------------------
(* Type invariant of the ring; both indices stay inside the buffer. *)
TypeOK ==
  /\ perf_buffer \in [Place -> 0 .. MaxBytes]
  /\ perf_buf_head \in Place
  /\ perf_buf_tail \in Place
  /\ written \in 0 .. MaxBytes
  /\ last_read \in Seq(0 .. MaxBytes)
  /\ delivered \in 0 .. MaxBytes

(***************************************************************************)
(* However the head has wrapped around and run over the tail, what waits   *)
(* to be read are the newest bytes, all of them and in order: a reader     *)
(* never gets a byte that was overwritten half way or one never written.   *)
(***************************************************************************)
UnreadIsNewest ==
  \A k \in 1 .. Available :
    perf_buffer[(perf_buf_head + PERFBUF_SIZE - k) % PERFBUF_SIZE] = written - k + 1

(***************************************************************************)
(* A read returns consecutive bytes, all newer than those of any read      *)
(* before it: records are lost at most between two reads, and no byte is   *)
(* read twice.                                                             *)
(***************************************************************************)
ReadsMoveForward ==
  [][last_read' # last_read =>
       \A k \in 1 .. Len(last_read') :
         /\ last_read'[k] > delivered
         /\ k > 1 => last_read'[k] = last_read'[k - 1] + 1]_vars

(***************************************************************************)
(* "Overwrite old data if the buffer is full": what gives way is old data, *)
(* the record that has just been written can be read.                      *)
(***************************************************************************)
OverwritesOldData ==
  [][written' - written <= Available']_vars
=============================================================================
