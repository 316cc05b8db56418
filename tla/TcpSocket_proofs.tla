-------------------------- MODULE TcpSocket_proofs --------------------------
(***************************************************************************)
(* What _tcp_send and _tcp_recv keep for buffers of any length and sizes   *)
(* of any width, although the counts they work with wrap around.           *)
(***************************************************************************)
EXTENDS TcpSocket, SequenceTheorems, TLAPS

Sizes == 0 .. SizeMod - 1

Types ==
  /\ op \in {"send", "recv"} /\ pc \in {"loop", "done"} /\ link \in {"up", "broken"}
  /\ len \in Nat \ {0} /\ len <= IF op = "send" THEN MaxLen ELSE AnswerLen
  /\ iov_base \in Sizes /\ iov_len \in Sizes
  /\ ret \in Int
  /\ signals \in 0 .. MaxSignals /\ answers \in 0 .. MaxAnswers
  /\ wire \in Seq(Sizes)
  /\ queue \in Nat /\ queue <= answers * AnswerLen

(***************************************************************************)
(* The vector of a send starts after the last byte that was sent, until an *)
(* error is taken for a count; from then on nothing is sent any more.      *)
(***************************************************************************)
Sending ==
  /\ Len(wire) <= len
  /\ \A k \in 1 .. Len(wire) : wire[k] = k - 1
  /\ op = "recv" => wire = <<>>
  /\ op = "send" => total_rb = 0
  /\ op = "send" /\ link = "up" =>
       /\ iov_base = Len(wire) /\ iov_len = len - Len(wire)
       /\ pc = "done" => iov_len = 0 /\ ret = len

(* What a receive knows of the queue, of the answers, and what it returns. *)
Waiting  == /\ total_rb = 0 /\ iov_base = 0 /\ iov_len = AnswerLen
            /\ \/ queue = 0 /\ answers = 0
               \/ queue >= AnswerLen /\ answers > 0
Answered == total_rb = AnswerLen /\ iov_base = AnswerLen /\ iov_len = 0 /\ answers > 0
Failed   == total_rb = -ECONNRESET /\ iov_len = AnswerLen + ECONNRESET
Empty    == total_rb = 0 /\ iov_base = 0 /\ iov_len = AnswerLen

(***************************************************************************)
(* A receive waits for its answer, or has it and finds more in the queue.  *)
(***************************************************************************)
Receiving ==
  op = "recv" =>
    /\ len = AnswerLen
    /\ pc = "loop" => Waiting \/ (Answered /\ queue > 0)
    /\ pc = "done" => ret = total_rb /\ (Empty \/ Answered \/ Failed)

IInv == Types /\ Sending /\ Receiving

-----------------------------------------------------------------------------
(* Unsigned arithmetic: in range, and exact as long as nothing wraps. *)
LEMMA ModRange == ASSUME NEW a \in Int, NEW m \in Nat \ {0} PROVE a % m \in 0 .. m - 1
OBVIOUS

(* A number that fits is kept. *)
LEMMA ModSmall == ASSUME NEW m \in Nat, NEW a \in 0 .. m - 1 PROVE a % m = a
OBVIOUS

(* Taking away an error, kept as a count, adds its number. *)
LEMMA ModError == ASSUME NEW m \in Nat, NEW a \in 0 .. m - 1 PROVE (a - m) % m = a
OBVIOUS

(* One answer more in the queue. *)
LEMMA OneMore == ASSUME NEW a \in Nat, NEW b \in Nat PROVE (a + 1) * b = a * b + b
OBVIOUS

(* More answers are more bytes. *)
LEMMA MoreBytes == ASSUME NEW a \in Nat, NEW m \in Nat, NEW b \in Nat, a <= m PROVE a * b <= m * b
OBVIOUS

-----------------------------------------------------------------------------
(* A call that has just begun. *)
LEMMA InitInvariant == Init => IInv
<1> SUFFICES ASSUME Init PROVE IInv
  OBVIOUS
<1>1. op = "send" => len \in 1 .. MaxLen
  BY DEF Init
<1>2. op = "recv" => len = AnswerLen
  BY DEF Init
<1>3. Types
  BY <1>1, <1>2, TcpSocketAssumption DEF Init, Types, Sizes, ECONNRESET
<1>4. Sending
  BY <1>3 DEF Init, Types, Sending
<1>5. Receiving
  BY <1>2 DEF Init, Receiving, Waiting
<1> QED
  BY <1>3, <1>4, <1>5 DEF IInv

(* A part of the buffer is taken: its bytes follow those that were sent. *)
LEMMA SendSomeInv ==
  ASSUME IInv, SendSome
  PROVE  IInv'
<1> DEFINE Part(n) == [k \in 1 .. n |-> iov_base + k - 1]
<1>1. PICK n \in 1 .. iov_len : wire' = wire \o Part(n) /\ Advance(n)
  BY DEF SendSome
<1>2. /\ op = "send" /\ pc = "loop" /\ link = "up" /\ SendAgain
      /\ UNCHANGED <<op, len, link, total_rb, signals, queue, answers>>
  BY DEF SendSome, Running, call
<1>3. /\ len \in Nat \ {0} /\ len <= MaxLen /\ iov_base = Len(wire) /\ iov_len = len - Len(wire)
      /\ wire \in Seq(Sizes) /\ \A k \in 1 .. Len(wire) : wire[k] = k - 1
  BY <1>2 DEF IInv, Types, Sending
<1>4. n \in Nat \ {0} /\ n <= len - Len(wire) /\ Len(wire) \in Nat
  BY <1>1, <1>3
<1>5. SizeMod \in Nat /\ len < SizeMod
  BY <1>3, TcpSocketAssumption
<1>6. Part(n) \in Seq(Sizes) /\ Len(Part(n)) = n
  <2>1. Part(n) \in [1 .. n -> Sizes]
    BY <1>3, <1>4, <1>5 DEF Sizes
  <2> HIDE DEF Part
  <2> QED
    BY <1>4, <2>1, SeqDef
<1>7. /\ wire' \in Seq(Sizes) /\ Len(wire') = Len(wire) + n
      /\ \A k \in 1 .. Len(wire') : wire'[k] = k - 1
  <2>1. \A k \in 1 .. n : Part(n)[k] = Len(wire) + k - 1
    BY <1>3
  <2> HIDE DEF Part
  <2>2. /\ wire' \in Seq(Sizes) /\ Len(wire') = Len(wire) + n
        /\ \A k \in 1 .. Len(wire) + n :
             wire'[k] = IF k <= Len(wire) THEN wire[k] ELSE Part(n)[k - Len(wire)]
    <3> DEFINE p == Part(n)
    <3>1. wire \in Seq(Sizes) /\ p \in Seq(Sizes) /\ Len(p) = n /\ wire' = wire \o p
      BY <1>1, <1>3, <1>6
    <3> HIDE DEF p
    <3>2. /\ wire' \in Seq(Sizes) /\ Len(wire') = Len(wire) + n
          /\ \A k \in 1 .. Len(wire) + n : wire'[k] = IF k <= Len(wire) THEN wire[k] ELSE p[k - Len(wire)]
      BY <3>1, ConcatProperties
    <3> QED
      BY <3>2 DEF p
  <2>3. ASSUME NEW k \in 1 .. Len(wire) + n, ~(k <= Len(wire))
        PROVE  k - Len(wire) \in 1 .. n /\ Len(wire) + (k - Len(wire)) - 1 = k - 1
    BY <1>4, <2>3
  <2>4. ASSUME NEW k \in 1 .. Len(wire) + n PROVE wire'[k] = k - 1
    <3>1. CASE k <= Len(wire)
      BY <1>3, <1>4, <2>2, <3>1
    <3>2. CASE ~(k <= Len(wire))
      <4>1. wire'[k] = Part(n)[k - Len(wire)]
        BY <2>2, <3>2
      <4> QED
        BY <2>1, <2>3, <3>2, <4>1
    <3> QED
      BY <3>1, <3>2
  <2> QED
    BY <2>2, <2>4
<1>8. iov_base' = Len(wire) + n /\ iov_len' = len - (Len(wire) + n)
  <2>1. iov_base + n \in 0 .. SizeMod - 1 /\ iov_len - n \in 0 .. SizeMod - 1
    BY <1>3, <1>4, <1>5
  <2> QED
    <3>1. (iov_base + n) % SizeMod = iov_base + n /\ (iov_len - n) % SizeMod = iov_len - n
      BY <1>5, <2>1, ModSmall
    <3> QED
      BY <1>1, <1>3, <1>4, <3>1 DEF Advance
<1>9. \/ pc' = "loop" /\ ret' = ret
      \/ pc' = "done" /\ ret' = len /\ iov_len' = 0
  <2>1. CASE iov_len' # 0
    BY <1>2, <2>1 DEF SendAgain
  <2>2. CASE iov_len' = 0
    BY <1>2, <2>2 DEF SendAgain, Finish
  <2> QED
    BY <2>1, <2>2
<1>10. Types'
  <2>1. iov_base' \in Sizes /\ iov_len' \in Sizes
    BY <1>3, <1>4, <1>5, <1>8 DEF Sizes
  <2>2. Types
    BY DEF IInv
  <2>3. pc' \in {"loop", "done"} /\ ret' \in Int
    BY <1>3, <1>9, <2>2 DEF Types
  <2> QED
    BY <1>2, <1>7, <2>1, <2>2, <2>3 DEF Types
<1>11. Sending'
  BY <1>2, <1>3, <1>4, <1>7, <1>8, <1>9 DEF IInv, Sending
<1> QED
  BY <1>2, <1>10, <1>11 DEF IInv, Receiving

(* The connection is broken: the vector wraps, and nothing is sent. *)
LEMMA SendFailsInv ==
  ASSUME IInv, SendFails
  PROVE  IInv'
<1>1. /\ op = "send" /\ link = "broken" /\ Advance(SizeMod - EPIPE) /\ SendAgain
      /\ UNCHANGED <<op, len, link, total_rb, signals, wire, queue, answers>>
  BY DEF SendFails, Running, call
<1>2. iov_base' \in Sizes /\ iov_len' \in Sizes
  <2>1. SizeMod \in Nat \ {0} /\ iov_base \in Int /\ iov_len \in Int /\ EPIPE \in Int
    BY TcpSocketAssumption DEF IInv, Types, Sizes, EPIPE, ECONNRESET
  <2> QED
    BY <1>1, <2>1, ModRange DEF Advance, Sizes
<1>3. pc' \in {"loop", "done"} /\ ret' \in Int
  BY <1>1 DEF SendAgain, Finish, IInv, Types
<1> QED
  BY <1>1, <1>2, <1>3 DEF IInv, Types, Sending, Receiving

(* A receive takes an answer, or nothing because its buffer is full. *)
LEMMA RecvSomeInv ==
  ASSUME IInv, RecvSome
  PROVE  IInv'
<1>1. /\ op = "recv" /\ pc = "loop" /\ queue > 0 /\ queue' = queue - Taken
      /\ total_rb' = total_rb + Taken /\ Advance(Taken) /\ RecvAgain
      /\ UNCHANGED <<op, len, link, signals, wire, answers>>
  BY DEF RecvSome, Running, call
<1>2. /\ len = AnswerLen /\ AnswerLen \in Nat \ {0} /\ AnswerLen < SizeMod /\ SizeMod \in Nat
      /\ queue \in Nat /\ answers \in Nat /\ queue <= answers * AnswerLen
      /\ Waiting \/ (Answered /\ queue > 0)
  BY <1>1, TcpSocketAssumption DEF IInv, Types, Receiving, ECONNRESET
<1>3. /\ Taken \in Nat /\ Taken <= queue
      /\ iov_base + Taken = AnswerLen /\ iov_len - Taken = 0 /\ total_rb + Taken = AnswerLen
      /\ answers > 0
  BY <1>1, <1>2 DEF Taken, Waiting, Answered
<1>4. /\ iov_base' = AnswerLen /\ iov_len' = 0 /\ total_rb' = AnswerLen /\ queue' \in Nat
      /\ queue' <= queue
  <2>1. AnswerLen % SizeMod = AnswerLen /\ 0 % SizeMod = 0
    BY <1>2, ModSmall
  <2> QED
    BY <1>1, <1>2, <1>3, <2>1 DEF Advance
<1>5. \/ pc' = "loop" /\ ret' = ret /\ queue' > 0
      \/ pc' = "done" /\ ret' = AnswerLen
  BY <1>1, <1>4 DEF RecvAgain, Finish
<1>6. Types'
  <2>1. queue' <= answers' * AnswerLen
    <3>1. answers * AnswerLen \in Int /\ answers' = answers
      BY <1>1, <1>2
    <3> QED
      BY <1>2, <1>4, <3>1
  <2> QED
    BY <1>1, <1>2, <1>4, <1>5, <2>1 DEF IInv, Types, Sizes
<1>7. Receiving'
  BY <1>1, <1>2, <1>3, <1>4, <1>5 DEF Receiving, Answered
<1> QED
  BY <1>1, <1>6, <1>7 DEF IInv, Sending

(* Nothing has come: the call ends, with an error or without. *)
LEMMA RecvFailsInv ==
  ASSUME IInv, RecvFails
  PROVE  IInv'
<1>1. PICK err \in {0, ECONNRESET} :
        Advance((SizeMod - err) % SizeMod) /\ total_rb' = total_rb - err
  BY DEF RecvFails
<1>2. /\ op = "recv" /\ pc = "loop" /\ queue = 0 /\ RecvAgain
      /\ UNCHANGED <<op, len, link, signals, wire, queue, answers>>
  BY DEF RecvFails, Running, call
<1>3. /\ len = AnswerLen /\ AnswerLen \in Nat \ {0} /\ SizeMod \in Nat /\ AnswerLen + ECONNRESET < SizeMod
      /\ total_rb = 0 /\ iov_base = 0 /\ iov_len = AnswerLen
  BY <1>2, TcpSocketAssumption DEF IInv, Receiving, Waiting, Answered
<1>4. pc' = "done" /\ ret' = total_rb'
  BY <1>2 DEF RecvAgain, Finish
<1>5. CASE err = 0
  <2>1. SizeMod % SizeMod = 0 /\ 0 % SizeMod = 0 /\ AnswerLen % SizeMod = AnswerLen
    <3>1. 0 \in 0 .. SizeMod - 1 /\ AnswerLen \in 0 .. SizeMod - 1
      BY <1>3 DEF ECONNRESET
    <3>2. 0 % SizeMod = 0 /\ AnswerLen % SizeMod = AnswerLen
      BY <1>3, <3>1, ModSmall
    <3>3. SizeMod % SizeMod = 0
      BY <1>3 DEF ECONNRESET
    <3> QED
      BY <3>2, <3>3
  <2>2. iov_base' = 0 /\ iov_len' = AnswerLen /\ total_rb' = 0
    <3>1. iov_base + 0 = 0 /\ iov_len - 0 = AnswerLen /\ total_rb - 0 = 0 /\ SizeMod - 0 = SizeMod
      BY <1>3
    <3>2. iov_base' = (iov_base + 0) % SizeMod /\ iov_len' = (iov_len - 0) % SizeMod
      BY <1>1, <1>5, <2>1, <3>1 DEF Advance
    <3> QED
      BY <1>1, <1>5, <2>1, <3>1, <3>2
  <2>3. Types'
    BY <1>2, <1>3, <1>4, <2>2 DEF IInv, Types, Sizes, ECONNRESET
  <2> QED
    BY <1>2, <1>3, <1>4, <2>2, <2>3 DEF IInv, Sending, Receiving, Empty
<1>6. CASE err = ECONNRESET
  <2>1. (SizeMod - ECONNRESET) % SizeMod = SizeMod - ECONNRESET
    BY <1>3, ModSmall DEF ECONNRESET
  <2>2. iov_len' = AnswerLen + ECONNRESET
    <3>1. iov_len - (SizeMod - ECONNRESET) = (AnswerLen + ECONNRESET) - SizeMod
      BY <1>3 DEF ECONNRESET
    <3>2. AnswerLen + ECONNRESET \in 0 .. SizeMod - 1
      BY <1>3 DEF ECONNRESET
    <3> QED
      BY <1>1, <1>3, <1>6, <2>1, <3>1, <3>2, ModError DEF Advance
  <2>3. iov_base' \in Sizes
    <3>1. 0 + (SizeMod - ECONNRESET) \in Int /\ SizeMod \in Nat \ {0}
      BY <1>3 DEF ECONNRESET
    <3> QED
      BY <1>1, <1>3, <1>6, <2>1, <3>1, ModRange DEF Advance, Sizes
  <2>4. total_rb' = -ECONNRESET /\ ret' \in Int
    BY <1>1, <1>3, <1>4, <1>6 DEF ECONNRESET
  <2>5. Types'
    BY <1>2, <1>3, <1>4, <2>2, <2>3, <2>4 DEF IInv, Types, Sizes, ECONNRESET
  <2> QED
    BY <1>2, <1>3, <1>4, <2>2, <2>4, <2>5 DEF IInv, Sending, Receiving, Failed
<1> QED
  BY <1>5, <1>6

(* Waits cut short, the network, and a connection that breaks. *)
LEMMA OtherInv ==
  ASSUME IInv, SendRestarted \/ RecvRestarted \/ AnswerArrives \/ LinkBreaks \/ UNCHANGED vars
  PROVE  IInv'
<1>1. CASE SendRestarted
  BY <1>1, TcpSocketAssumption DEF SendRestarted, Running, call, vec, IInv, Types, Sending, Receiving
<1>2. CASE RecvRestarted
  <2>1. /\ op = "recv" /\ pc = "loop" /\ queue = 0 /\ pc' = "done" /\ ret' = total_rb' /\ signals' \in 0 .. MaxSignals
        /\ UNCHANGED <<op, len, link, iov_base, iov_len, total_rb, queue, wire, answers>>
    BY <1>2, TcpSocketAssumption DEF RecvRestarted, Running, RecvAgain, Finish, call, vec, IInv, Types
  <2>2. len = AnswerLen /\ Waiting /\ AnswerLen \in Nat
    BY <2>1, TcpSocketAssumption DEF IInv, Receiving
  <2>3. Types'
    BY <2>1, <2>2 DEF IInv, Types, Waiting
  <2> QED
    BY <2>1, <2>2, <2>3 DEF IInv, Sending, Receiving, Waiting, Empty
<1>3. CASE AnswerArrives
  <2>1. /\ pc = "loop" /\ answers' = answers + 1 /\ answers' \in 1 .. MaxAnswers /\ queue' = queue + AnswerLen
        /\ AnswerLen \in Nat \ {0} /\ queue \in Nat /\ answers \in Nat /\ queue <= answers * AnswerLen
        /\ UNCHANGED <<op, len, link, pc, iov_base, iov_len, total_rb, ret, signals, wire>>
    BY <1>3, TcpSocketAssumption DEF AnswerArrives, call, vec, IInv, Types
  <2>2. queue' <= answers' * AnswerLen
    <3>1. (answers + 1) * AnswerLen = answers * AnswerLen + AnswerLen /\ answers * AnswerLen \in Int
      BY <2>1, OneMore
    <3> QED
      BY <2>1, <3>1
  <2>3. Types'
    BY <2>1, <2>2 DEF IInv, Types
  <2>4. Receiving'
    BY <2>1 DEF IInv, Receiving, Waiting, Answered
  <2> QED
    BY <2>1, <2>3, <2>4 DEF IInv, Sending
<1>4. CASE LinkBreaks
  BY <1>4 DEF LinkBreaks, vec, IInv, Types, Sending, Receiving, Waiting, Answered, Empty, Failed
<1>5. CASE UNCHANGED vars
  BY <1>5 DEF vars, call, vec, IInv, Types, Sending, Receiving, Waiting, Answered, Empty, Failed
<1> QED
  BY <1>1, <1>2, <1>3, <1>4, <1>5

(* The invariant is inductive: one step for each kind of action. *)
LEMMA StepInvariant == IInv /\ [Next]_vars => IInv'
BY SendSomeInv, SendFailsInv, RecvSomeInv, RecvFailsInv, OtherInv DEF Next, Step

(* The inductive invariant holds in every reachable state. *)
THEOREM Invariant == Spec => []IInv
<1>1. Init => IInv
  BY InitInvariant
<1>2. IInv /\ [Next]_vars => IInv'
  BY StepInvariant
<1> QED
  BY <1>1, <1>2, PTL DEF Spec

(* The counts and the queue keep their types, whatever wraps around. *)
THEOREM TypeCorrect == Spec => []TypeOK
<1>1. IInv => TypeOK
  <2> SUFFICES ASSUME IInv PROVE TypeOK
    OBVIOUS
  <2>1. total_rb \in -ECONNRESET .. AnswerLen
    BY TcpSocketAssumption DEF IInv, Types, Sending, Receiving, Waiting, Answered, Failed, Empty, ECONNRESET
  <2>2. queue \in 0 .. MaxAnswers * AnswerLen
    <3>1. answers \in Nat /\ MaxAnswers \in Nat /\ AnswerLen \in Nat /\ answers <= MaxAnswers /\ queue \in Nat
      BY TcpSocketAssumption DEF IInv, Types
    <3>2. answers * AnswerLen <= MaxAnswers * AnswerLen
      BY <3>1, MoreBytes
    <3>3. answers * AnswerLen \in Int /\ MaxAnswers * AnswerLen \in Int /\ queue <= answers * AnswerLen
      BY <3>1 DEF IInv, Types
    <3> QED
      BY <3>1, <3>2, <3>3
  <2>3. len \in 1 .. (IF op = "send" THEN MaxLen ELSE AnswerLen)
    BY TcpSocketAssumption DEF IInv, Types
  <2> QED
    BY <2>1, <2>2, <2>3 DEF IInv, Types, Sizes, TypeOK
<1> QED
  BY <1>1, Invariant, PTL

(* No byte of the buffer is skipped or sent twice, whatever is cut short. *)
THEOREM BytesInOrder == Spec => []SentInOrder
<1>1. IInv => SentInOrder
  <2> SUFFICES ASSUME IInv PROVE SentInOrder
    OBVIOUS
  <2>1. Len(wire) \in Nat /\ len \in Nat
    BY DEF IInv, Types
  <2> QED
    BY <2>1 DEF IInv, Sending, SentInOrder
<1> QED
  BY <1>1, Invariant, PTL

(* Only a whole answer makes a receive return the length of one. *)
THEOREM CountsTellAnswers == Spec => []RecvCounts
<1>1. IInv => RecvCounts
  BY TcpSocketAssumption DEF IInv, Types, Receiving, Waiting, Answered, Failed, Empty, RecvCounts, ECONNRESET
<1> QED
  BY <1>1, Invariant, PTL
=============================================================================
