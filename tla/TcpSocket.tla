----------------------------- MODULE TcpSocket -----------------------------
(***************************************************************************)
(* One call of _tcp_send or of _tcp_recv: the loops around kernel_sendmsg  *)
(* and kernel_recvmsg.  What these two return is stored in a size_t, an    *)
(* unsigned number of Width bits, so an error becomes a large count.       *)
(***************************************************************************)
EXTENDS Integers, Sequences

CONSTANTS
  Width,        (* bits of size_t                                          *)
  MaxLen,       (* longest buffer to send, in bytes                        *)
  AnswerLen,    (* bytes of an answer, and of the receive buffer (4)       *)
  MaxAnswers,   (* answers that may arrive during a call                   *)
  MaxSignals,   (* times a wait is cut short                               *)
  LinkMayFail   (* whether the connection may break                        *)

EPIPE      == 32
ECONNRESET == 104
SizeMod    == 2 ^ Width

ASSUME TcpSocketAssumption ==
  /\ Width \in Nat /\ MaxLen \in Nat \ {0} /\ AnswerLen \in Nat \ {0}
  /\ MaxAnswers \in Nat /\ MaxSignals \in Nat /\ LinkMayFail \in BOOLEAN
  /\ SizeMod \in Nat /\ MaxLen < SizeMod /\ AnswerLen + ECONNRESET < SizeMod

VARIABLES
  op,         (* "send" or "recv"                                          *)
  len,        (* the argument len                                          *)
  pc,         (* "loop" or "done"                                          *)
  iov_base,   (* vec.iov_base, as an offset in buf                         *)
  iov_len,    (* vec.iov_len                                               *)
  total_rb,   (* total_rb, signed                                          *)
  ret,        (* the value returned                                        *)
  link,       (* "up" or "broken"                                          *)
  signals,    (* waits cut short so far                                    *)
  wire,       (* offsets of buf that were sent, oldest first               *)
  queue,      (* bytes in sk_receive_queue                                 *)
  answers     (* answers that have arrived                                 *)

call == <<op, len, link>>
vec  == <<iov_base, iov_len>>
vars == <<call, pc, vec, total_rb, ret, signals, wire, queue, answers>>

Init ==
  /\ op \in {"send", "recv"}
  /\ len \in IF op = "send" THEN 1 .. MaxLen ELSE {AnswerLen}
  /\ pc = "loop"
  /\ iov_base = 0
  /\ iov_len = len
  /\ total_rb = 0
  /\ ret = 0
  /\ link = "up"
  /\ signals = 0
  /\ wire = <<>>
  /\ queue = 0
  /\ answers = 0

Running(which) == pc = "loop" /\ op = which

(* Mutant: only the length is updated. *)
AdvanceLength(n) ==
  /\ iov_base' = iov_base
  /\ iov_len' = (iov_len - n) % SizeMod

(* Mutant: the length is signed and does not wrap. *)
AdvanceSigned(n) ==
  /\ iov_base' = (iov_base + n) % SizeMod
  /\ iov_len' = iov_len - n

(* vec.iov_base += n; vec.iov_len -= n; with n read as unsigned. *)
Advance(n) ==
  /\ iov_base' = (iov_base + n) % SizeMod
  /\ iov_len' = (iov_len - n) % SizeMod

Finish(value) == pc' = "done" /\ ret' = value

-----------------------------------------------------------------------------
(* Mutant: the loop tests the length from before the send. *)
SendAgainOld ==
  IF iov_len # 0 THEN UNCHANGED <<pc, ret>> ELSE Finish(len)

(* The send loop ends when nothing is left of the buffer. *)
SendAgain ==
  IF iov_len' # 0 THEN UNCHANGED <<pc, ret>> ELSE Finish(len)

(* kernel_sendmsg takes any part of what is offered. *)
SendSome ==
  /\ Running("send")
  /\ link = "up"
  /\ \E n \in 1 .. iov_len :
       /\ wire' = wire \o [k \in 1 .. n |-> iov_base + k - 1]
       /\ Advance(n)
  /\ SendAgain
  /\ UNCHANGED <<call, total_rb, signals, queue, answers>>

(* -ERESTARTSYS or -EAGAIN: continue goes to the test of the loop. *)
SendRestarted ==
  /\ Running("send")
  /\ signals < MaxSignals
  /\ signals' = signals + 1
  /\ UNCHANGED <<call, pc, vec, total_rb, ret, wire, queue, answers>>

(* An error: wb < 0 is false, and the loop takes it for a count. *)
SendFails ==
  /\ Running("send")
  /\ link = "broken"
  /\ Advance(SizeMod - EPIPE)
  /\ SendAgain
  /\ UNCHANGED <<call, total_rb, signals, wire, queue, answers>>

-----------------------------------------------------------------------------
(* Mutant: len is returned, whatever was received. *)
RecvAgainLen ==
  IF queue' # 0 THEN UNCHANGED <<pc, ret>> ELSE Finish(len)

(* The receive loop goes on while the queue is not empty. *)
RecvAgain ==
  IF queue' # 0 THEN UNCHANGED <<pc, ret>> ELSE Finish(total_rb')

(* What kernel_recvmsg returns: no more than iov_len. *)
Taken == IF queue < iov_len THEN queue ELSE iov_len

RecvSome ==
  /\ Running("recv")
  /\ queue > 0
  /\ queue' = queue - Taken
  /\ total_rb' = total_rb + Taken
  /\ Advance(Taken)
  /\ RecvAgain
  /\ UNCHANGED <<call, signals, wire, answers>>

(* -ERESTARTSYS: the same test ends the loop if nothing has arrived. *)
RecvRestarted ==
  /\ Running("recv")
  /\ queue = 0
  /\ signals < MaxSignals
  /\ signals' = signals + 1
  /\ UNCHANGED <<vec, total_rb, queue>>
  /\ RecvAgain
  /\ UNCHANGED <<call, wire, answers>>

(* The end of the stream, or an error, which is added as if it were a count. *)
RecvFails ==
  /\ Running("recv")
  /\ queue = 0
  /\ link = "broken"
  /\ \E err \in {0, ECONNRESET} :
       /\ Advance((SizeMod - err) % SizeMod)
       /\ total_rb' = total_rb - err
  /\ UNCHANGED queue
  /\ RecvAgain
  /\ UNCHANGED <<call, signals, wire, answers>>

-----------------------------------------------------------------------------
(* The network: an answer of the server arrives in one segment. *)
AnswerArrives ==
  /\ link = "up"
  /\ pc = "loop"
  /\ answers < MaxAnswers
  /\ answers' = answers + 1
  /\ queue' = queue + AnswerLen
  /\ UNCHANGED <<call, pc, vec, total_rb, ret, signals, wire>>

LinkBreaks ==
  /\ LinkMayFail
  /\ link = "up"
  /\ link' = "broken"
  /\ UNCHANGED <<op, len, pc, vec, total_rb, ret, signals, wire, queue, answers>>

Step ==
  \/ SendSome
  \/ SendFails
  \/ RecvSome
  \/ RecvFails

Next ==
  \/ Step
  \/ SendRestarted
  \/ RecvRestarted
  \/ AnswerArrives
  \/ LinkBreaks

FirstAnswer == answers = 0 /\ AnswerArrives

(* The loop runs, and a server that is asked sends one answer. *)
Spec == Init /\ [][Next]_vars /\ WF_vars(Step) /\ WF_vars(FirstAnswer)

-----------------------------------------------------------------------------
(* Type invariant of the two loops. *)
TypeOK ==
  /\ op \in {"send", "recv"} /\ pc \in {"loop", "done"} /\ link \in {"up", "broken"}
  /\ len \in 1 .. (IF op = "send" THEN MaxLen ELSE AnswerLen)
  /\ iov_base \in 0 .. SizeMod - 1 /\ iov_len \in 0 .. SizeMod - 1
  /\ total_rb \in -ECONNRESET .. AnswerLen
  /\ ret \in Int
  /\ signals \in 0 .. MaxSignals /\ answers \in 0 .. MaxAnswers
  /\ wire \in Seq(0 .. SizeMod - 1)
  /\ queue \in 0 .. MaxAnswers * AnswerLen

(***************************************************************************)
(* Short writes and restarts neither skip nor repeat a byte, and a send    *)
(* that returns on a connection that holds has sent the whole buffer.      *)
(***************************************************************************)
SentInOrder ==
  /\ Len(wire) <= len
  /\ \A k \in 1 .. Len(wire) : wire[k] = k - 1
  /\ op = "send" /\ pc = "done" /\ link = "up" => ret = len /\ Len(wire) = len

(***************************************************************************)
(* The receive loop writes inside the buffer, and what it returns tells an *)
(* answer from everything else: the hooks compare it with 4 only.          *)
(***************************************************************************)
RecvCounts ==
  op = "recv" =>
    /\ total_rb >= 0 => iov_base = total_rb /\ iov_len = len - total_rb
    /\ pc = "done" => (ret >= AnswerLen <=> answers > 0 /\ iov_len = 0)

(***************************************************************************)
(* A call comes back, as long as the connection holds and the server sends *)
(* no second answer.                                                       *)
(***************************************************************************)
CallReturns == [](link = "up" /\ answers <= 1) => <>(pc = "done")

(***************************************************************************)
(* RET(wb < 0, -1, "unable to send data (%ld)", wb): a send on a broken    *)
(* connection ends with an error.                                          *)
(***************************************************************************)
SendErrorReported == link = "broken" ~> pc = "done"
=============================================================================
