----------------------------- MODULE McheckTcp -----------------------------
(***************************************************************************)
(* The mcheck LSM in its use_tcp mode, together with the server.  Tasks    *)
(* run in the kernel: a task that calls mmap or mprotect enters            *)
(* send_pages_to_userspace_tcp, one that loads a BPF program enters        *)
(* send_bpf_data_tcp.  All of them use one socket, sock, and one           *)
(* analyzer_response, and no lock of the LSM protects either.  The page    *)
(* hooks hold the mmap lock of their process, which orders the threads of  *)
(* one process; the BPF hook holds no lock.                                *)
(*                                                                         *)
(* The page walk is PageWalk; here its messages are drawn from the set of  *)
(* present pages, one maximal run at a time.                               *)
(***************************************************************************)
EXTENDS TcpServer, FiniteSets, FiniteSetsExt

CONSTANTS
  Task,            (* threads that run system calls                        *)
  Process,         (* Process[t]: the process, hence the mmap lock, of t   *)
  TargetTask,      (* tasks whose comm is target_comm                      *)
  BpfTask,         (* tasks that load BPF programs                         *)
  Mappings,        (* the mappings that may be made: [len, present]        *)
  MaxCalls,        (* calls of hooks per task                              *)
  MaxReboots,      (* restarts of the virtual machine                      *)
  SendBuffer,      (* cells a connection holds before a sender waits       *)
  KernelFaults     (* which of "kvmalloc", "kvrealloc", "flush" (vmap or   *)
                   (* kmalloc), "connect" and "signal" may happen          *)

ASSUME McheckTcpAssumption ==
  /\ TargetTask \subseteq Task /\ BpfTask \subseteq Task
  /\ MaxCalls \in Nat /\ Call = Task \X (1 .. MaxCalls)
  /\ Mappings \subseteq [len : 1 .. MaxLen, present : SUBSET Offset]
  /\ \A m \in Mappings : m.present \subseteq 0 .. m.len - 1
  /\ MaxReboots \in Nat /\ SendBuffer \in Nat \ {0}
  /\ KernelFaults \subseteq {"kvmalloc", "kvrealloc", "flush", "connect", "signal"}

VARIABLES
  sock,               (* the global socket                                 *)
  analyzer_response,  (* the global verdict: the call it is about          *)
  pc,                 (* pc[t]: where task t is in its hook                *)
  kind,               (* kind[t]: "page" or "bpf" hook                     *)
  calls,              (* calls[t]: hook calls of t so far                  *)
  mapping,            (* mapping[t]: what the hook was called for          *)
  left,               (* left[t]: present pages the walk has not sent      *)
  memory_error,       (* memory_error[t]: ctx.memory_error                 *)
  ended,              (* ended[t]: is_end_of_mapping has been set          *)
  out,                (* out[t]: cells of the message being sent           *)
  sk,                 (* sk[t]: the socket of the send or receive at work  *)
  reply,              (* reply[t]: the answer in the hook's buffer         *)
  result,             (* result[t]: what the hook returned                 *)
  reboots

globals == <<sock, analyzer_response>>
walk    == <<mapping, left, memory_error, ended>>
hooks   == <<pc, kind, calls, walk, out, sk, reply, result>>
vars    == <<network, server, globals, hooks, reboots>>

(* A verdict is the call it answers, or what an unwritten buffer holds. *)
Junk    == <<"junk", 0>>
Verdict == Call \cup {Junk}
None    == <<"none", 0>>
Skipped == <<"SKIPPED", 0>>
NoMem   == <<"ENOMEM", 0>>
Result  == Verdict \cup {None, Skipped, NoMem}

PC == {"idle", "connect", "connecting", "gates", "walk", "send", "recv",
       "drain", "ret", "oops", "spin"}

ThisCall(t) == <<t, calls[t]>>

Init ==
  /\ ServerInit
  /\ sock = NoConn
  /\ analyzer_response = Junk
  /\ pc = [t \in Task |-> "idle"]
  /\ kind = [t \in Task |-> "page"]
  /\ calls = [t \in Task |-> 0]
  /\ mapping = [t \in Task |-> [len |-> 1, present |-> {}]]
  /\ left = [t \in Task |-> {}]
  /\ memory_error = [t \in Task |-> FALSE]
  /\ ended = [t \in Task |-> FALSE]
  /\ out = [t \in Task |-> <<>>]
  /\ sk = [t \in Task |-> NoConn]
  /\ reply = [t \in Task |-> Junk]
  /\ result = [t \in Task |-> None]
  /\ reboots = 0

-----------------------------------------------------------------------------
Goto(t, where) == pc' = [pc EXCEPT ![t] = where]

(* The hook of t returns r; only what later steps read is kept. *)
Return(t, r) ==
  /\ Goto(t, "idle")
  /\ result' = [result EXCEPT ![t] = r]

(* The mmap lock of the process of t is not held by a page hook. *)
MmapLockFree(t) ==
  \A u \in Task \ {t} : Process[u] = Process[t] =>
    pc[u] = "idle" \/ kind[u] = "bpf"

(* Mutant: every call connects. *)
ConnectEachCall == TRUE

(* !sock *)
NoSock == sock = NoConn

(* What both hooks do first: a missing connection is made. *)
StartCall(t, k, m) ==
  /\ calls' = [calls EXCEPT ![t] = @ + 1]
  /\ kind' = [kind EXCEPT ![t] = k]
  /\ mapping' = [mapping EXCEPT ![t] = m]
  /\ left' = [left EXCEPT ![t] = m.present]
  /\ memory_error' = [memory_error EXCEPT ![t] = FALSE]
  /\ ended' = [ended EXCEPT ![t] = FALSE]
  /\ sk' = [sk EXCEPT ![t] = NoConn]
  /\ reply' = [reply EXCEPT ![t] = Junk]
  /\ Goto(t, IF NoSock THEN "connect" ELSE "gates")
  /\ result' = [result EXCEPT ![t] = None]

(***************************************************************************)
(* mmap or mprotect by a task whose comm is target_comm.  Other tasks      *)
(* return SKIPPED before they touch anything.                              *)
(***************************************************************************)
EnterPageHook(t) ==
  /\ pc[t] = "idle"
  /\ calls[t] < MaxCalls
  /\ MmapLockFree(t)
  /\ IF t \in TargetTask
     THEN \E m \in Mappings : StartCall(t, "page", m)
     ELSE /\ calls' = [calls EXCEPT ![t] = @ + 1]
          /\ kind' = [kind EXCEPT ![t] = "page"]
          /\ Return(t, Skipped)
          /\ UNCHANGED <<walk, sk, reply>>
  /\ UNCHANGED <<network, server, globals, out, reboots>>

(* A jited program is one buffer; there is no test of comm. *)
BpfImage == [len |-> 1, present |-> {0}]

EnterBpfHook(t) ==
  /\ t \in BpfTask
  /\ pc[t] = "idle"
  /\ calls[t] < MaxCalls
  /\ StartCall(t, "bpf", BpfImage)
  /\ UNCHANGED <<network, server, globals, out, reboots>>

(* lsm_init_tcp_connection tests sock again before it connects. *)
TestSock(t) ==
  /\ pc[t] = "connect"
  /\ Goto(t, IF NoSock THEN "connecting" ELSE "gates")
  /\ UNCHANGED <<network, server, globals, kind, calls, walk, out, sk, reply, result, reboots>>

Unused == {c \in Conn : /\ c \notin closed \cup hungup
                        /\ sock_client # c /\ \A k \in 1 .. Len(backlog) : backlog[k] # c
                        /\ sock # c /\ \A t \in Task : sk[t] # c}

(* _tcp_connect succeeds: the connection waits in the backlog. *)
Connect(t) ==
  /\ pc[t] = "connecting"
  /\ phase # "killed"
  /\ Len(backlog) < Backlog
  /\ Unused # {}
  /\ LET c == CHOOSE c \in Unused : TRUE
     IN  sock' = c /\ backlog' = Append(backlog, c)
  /\ Goto(t, "gates")
  /\ UNCHANGED <<up, down, hungup, closed, server, analyzer_response,
                 kind, calls, walk, out, sk, reply, result, reboots>>

(* _tcp_connect fails, and its NULL is assigned to sock. *)
ConnectFails(t) ==
  /\ pc[t] = "connecting"
  /\ "connect" \in KernelFaults \/ phase = "killed"
  /\ sock' = NoConn
  /\ Return(t, Skipped)
  /\ UNCHANGED <<network, server, analyzer_response, kind, calls, walk, out, sk, reply, reboots>>

(***************************************************************************)
(* The remaining tests of the page hook: a mapping that is neither         *)
(* writable nor executable, or has a file, is skipped, after the           *)
(* connection was made.  The BPF hook has none.                            *)
(***************************************************************************)
PassGates(t) ==
  /\ pc[t] = "gates"
  /\ Goto(t, "walk")
  /\ UNCHANGED <<network, server, globals, kind, calls, walk, out, sk, reply, result, reboots>>

StopAtGates(t) ==
  /\ pc[t] = "gates"
  /\ kind[t] = "page"
  /\ \/ Return(t, Skipped)
     \/ "kvmalloc" \in KernelFaults /\ Return(t, NoMem)
  /\ UNCHANGED <<network, server, globals, kind, calls, walk, out, sk, reply, reboots>>

-----------------------------------------------------------------------------
(* The pages that collect_pages accumulates before an entry breaks the run. *)
FirstRun(pages) == {p \in pages : Min(pages) .. p \subseteq pages}

(* Mutant: info.len holds the length of the mapping. *)
WholeLen(t, run) == mapping[t].len

(* data_len of the pages that are flushed. *)
DataLen(t, run) == Cardinality(run)

(* The header and payload cells for a run of pages of the call of t. *)
Message(t, run, end) ==
  LET first == IF run = {} THEN 0 ELSE Min(run)
      header == [kind |-> "header", call |-> ThisCall(t), mapped_addr |-> first,
                 len |-> DataLen(t, run), mapping_len |-> mapping[t].len,
                 is_end_of_mapping |-> end]
  IN  <<header>> \o [k \in 1 .. Cardinality(run) |->
                       [kind |-> "page", call |-> ThisCall(t), page |-> first + k - 1]]

(* Mutant: the walk flushes its last run by itself. *)
OnlyEmptyFlush(t, run) == left[t] = run /\ run = {}

(* The run that ends the mapping leaves with the last flush. *)
IsLastFlush(t, run) == left[t] = run /\ (run = {} \/ mapping[t].len - 1 \in run)

(* flush_accumulated_pages: the message is sent, or lost for lack of memory. *)
FlushRun(t, run, end) ==
  /\ ended' = [ended EXCEPT ![t] = end]
  /\ \/ out' = [out EXCEPT ![t] = Message(t, run, end)]
     \/ "flush" \in KernelFaults /\ kind[t] = "page" /\ out' = [out EXCEPT ![t] = <<>>]
  /\ sk' = [sk EXCEPT ![t] = NoConn]
  /\ Goto(t, "send")
  /\ UNCHANGED <<network, server, globals, kind, calls, mapping, reply, result, reboots>>

FlushNextRun(t) ==
  /\ pc[t] = "walk"
  /\ ~memory_error[t]
  /\ LET run == IF left[t] = {} THEN {} ELSE FirstRun(left[t])
     IN  /\ FlushRun(t, run, IsLastFlush(t, run))
         /\ left' = [left EXCEPT ![t] = @ \ run]
  /\ UNCHANGED memory_error

(***************************************************************************)
(* kvrealloc fails within a run: what is accumulated is flushed, and one   *)
(* more page is collected before the walk is aborted.                      *)
(***************************************************************************)
GrowFails(t) ==
  /\ pc[t] = "walk"
  /\ ~memory_error[t]
  /\ "kvrealloc" \in KernelFaults
  /\ kind[t] = "page"
  /\ left[t] # {}
  /\ \E p \in FirstRun(left[t]) \ {Min(left[t])} :
       /\ FlushRun(t, Min(left[t]) .. p - 1, FALSE)
       /\ left' = [left EXCEPT ![t] = {p}]
  /\ memory_error' = [memory_error EXCEPT ![t] = TRUE]

(***************************************************************************)
(* After the failure: the page leaves with the last flush, or, when a hole *)
(* follows it, alone and the last flush is empty.                          *)
(***************************************************************************)
FlushAborted(t) ==
  /\ pc[t] = "walk"
  /\ memory_error[t]
  /\ \/ FlushRun(t, left[t], TRUE)
     \/ /\ left[t] # {}
        /\ Max(left[t]) + 1 \in (0 .. mapping[t].len - 1) \ mapping[t].present
        /\ FlushRun(t, left[t], FALSE)
  /\ left' = [left EXCEPT ![t] = {}]
  /\ UNCHANGED memory_error

(***************************************************************************)
(* _tcp_send puts one more cell on its socket, waiting while the buffer is *)
(* full.  lsm_send_to_userspace_tcp is called once for the header and once *)
(* for the payload, and reads sock each time.                              *)
(***************************************************************************)
SockOf(t) == IF sk[t] = NoConn THEN sock ELSE sk[t]

SendCell(t) ==
  /\ pc[t] = "send"
  /\ out[t] # <<>>
  /\ LET c == SockOf(t) IN
     /\ c # NoConn
     /\ c \notin closed
     /\ Len(up[c]) < SendBuffer
     /\ up' = [up EXCEPT ![c] = Append(@, Head(out[t]))]
     /\ sk' = [sk EXCEPT ![t] =
                 IF Head(out[t]).kind = "header" \/ Len(out[t]) = 1 THEN NoConn ELSE c]
  /\ out' = [out EXCEPT ![t] = Tail(@)]
  /\ UNCHANGED <<down, backlog, hungup, closed, server, globals,
                 pc, kind, calls, walk, reply, result, reboots>>

(* A send or receive on sock = NULL dereferences it. *)
NullSock(t) ==
  /\ \/ pc[t] = "send" /\ out[t] # <<>> /\ SockOf(t) = NoConn
     \/ pc[t] = "recv" /\ sk[t] = NoConn
  /\ Goto(t, "oops")
  /\ UNCHANGED <<network, server, globals, kind, calls, walk, out, sk, reply, result, reboots>>

(***************************************************************************)
(* The server has closed the connection, but the reset it answers the      *)
(* first bytes with has not arrived: they are taken and thrown away.       *)
(***************************************************************************)
SendDiscarded(t) ==
  /\ pc[t] = "send"
  /\ out[t] # <<>>
  /\ SockOf(t) \in closed
  /\ out' = [out EXCEPT ![t] = Tail(@)]
  /\ UNCHANGED <<network, server, globals, pc, kind, calls, walk, sk, reply, result, reboots>>

(***************************************************************************)
(* The connection is known to be closed: the error of kernel_sendmsg is    *)
(* stored in the unsigned wb, never found negative, and added to the       *)
(* length left to send, so that the loop goes on.                          *)
(***************************************************************************)
SendOnClosed(t) ==
  /\ pc[t] = "send"
  /\ out[t] # <<>>
  /\ SockOf(t) \in closed
  /\ Goto(t, "spin")
  /\ UNCHANGED <<network, server, globals, kind, calls, walk, out, sk, reply, result, reboots>>

(***************************************************************************)
(* The message is sent: go on walking, give up, or wait for the answer, on *)
(* what sock is when _tcp_recv is called.                                  *)
(***************************************************************************)
MessageSent(t) ==
  /\ pc[t] = "send"
  /\ out[t] = <<>>
  /\ IF ~ended[t] THEN Goto(t, "walk") /\ UNCHANGED result
     ELSE IF memory_error[t] THEN Return(t, NoMem)
     ELSE Goto(t, "recv") /\ UNCHANGED result
  /\ sk' = [sk EXCEPT ![t] = IF ended[t] /\ ~memory_error[t] THEN sock ELSE @]
  /\ UNCHANGED <<network, server, globals, kind, calls, walk, out, reply, reboots>>

-----------------------------------------------------------------------------
(* _tcp_recv reads the four bytes of an answer. *)
RecvAnswer(t) ==
  /\ pc[t] = "recv"
  /\ sk[t] # NoConn
  /\ down[sk[t]] # <<>>
  /\ reply' = [reply EXCEPT ![t] = Head(down[sk[t]])]
  /\ down' = [down EXCEPT ![sk[t]] = Tail(@)]
  /\ Goto(t, "drain")
  /\ UNCHANGED <<up, backlog, hungup, closed, server, globals, kind, calls, walk, out, sk, result, reboots>>

(***************************************************************************)
(* The loop of _tcp_recv goes on, with no room left in the buffer, while   *)
(* the receive queue of the socket is not empty.                           *)
(***************************************************************************)
StopReceiving(t) ==
  /\ pc[t] = "drain"
  /\ down[sk[t]] = <<>>
  /\ analyzer_response' = reply[t]
  /\ Goto(t, "ret")
  /\ UNCHANGED <<network, server, sock, kind, calls, walk, out, sk, reply, result, reboots>>

(***************************************************************************)
(* _tcp_recv comes back without the four bytes: the server has closed the  *)
(* connection, or a signal interrupted the wait.  The buffer goes into     *)
(* analyzer_response as it is, and the hook returns SKIPPED.               *)
(***************************************************************************)
RecvNothing(t) ==
  /\ pc[t] = "recv"
  /\ sk[t] # NoConn
  /\ down[sk[t]] = <<>>
  /\ sk[t] \in closed \/ "signal" \in KernelFaults
  /\ analyzer_response' = Junk
  /\ Return(t, Skipped)
  /\ UNCHANGED <<network, server, sock, kind, calls, walk, out, sk, reply, reboots>>

(* return -analyzer_response. *)
ReturnVerdict(t) ==
  /\ pc[t] = "ret"
  /\ Return(t, analyzer_response)
  /\ UNCHANGED <<network, server, globals, kind, calls, walk, out, sk, reply, reboots>>

(***************************************************************************)
(* The virtual machine is restarted: its connections end, with any part of *)
(* what was on its way delivered, and the LSM starts anew.                 *)
(***************************************************************************)
Reboot ==
  /\ reboots < MaxReboots
  /\ reboots' = reboots + 1
  /\ hungup' = Conn \ Unused
  /\ \E cut \in [Conn -> 0 .. SendBuffer] :
       /\ \A c \in Conn : cut[c] <= Len(up[c])
       /\ up' = [c \in Conn |-> SubSeq(up[c], 1, cut[c])]
  /\ down' = [c \in Conn |-> <<>>]
  /\ sock' = NoConn
  /\ analyzer_response' = Junk
  /\ pc' = [t \in Task |-> "idle"]
  /\ out' = [t \in Task |-> <<>>]
  /\ sk' = [t \in Task |-> NoConn]
  /\ result' = [t \in Task |-> None]
  /\ UNCHANGED <<backlog, closed, server, kind, calls, walk, reply>>

HookStep(t) ==
  \/ TestSock(t)
  \/ Connect(t)
  \/ ConnectFails(t)
  \/ PassGates(t)
  \/ StopAtGates(t)
  \/ FlushNextRun(t)
  \/ GrowFails(t)
  \/ FlushAborted(t)
  \/ SendCell(t)
  \/ NullSock(t)
  \/ SendDiscarded(t)
  \/ SendOnClosed(t)
  \/ MessageSent(t)
  \/ RecvAnswer(t)
  \/ StopReceiving(t)
  \/ RecvNothing(t)
  \/ ReturnVerdict(t)

ServerStep == ServerNext /\ UNCHANGED <<globals, hooks, reboots>>

Next ==
  \/ \E t \in Task : EnterPageHook(t) \/ EnterBpfHook(t) \/ HookStep(t)
  \/ ServerStep
  \/ Reboot

(* The scheduler runs a task that can go on, and the server never stops. *)
Fairness ==
  /\ \A t \in Task : WF_vars(HookStep(t))
  /\ WF_vars(ServerStep)

Spec == Init /\ [][Next]_vars /\ Fairness

-----------------------------------------------------------------------------
(* Type invariant of the LSM with the server. *)
TypeOK ==
  /\ ServerTypeOK
  /\ sock \in Conn \cup {NoConn}
  /\ analyzer_response \in Verdict
  /\ pc \in [Task -> PC]
  /\ kind \in [Task -> {"page", "bpf"}]
  /\ calls \in [Task -> 0 .. MaxCalls]
  /\ mapping \in [Task -> [len : 1 .. MaxLen, present : SUBSET Offset]]
  /\ left \in [Task -> SUBSET Offset]
  /\ memory_error \in [Task -> BOOLEAN]
  /\ ended \in [Task -> BOOLEAN]
  /\ out \in [Task -> Seq(Cell)]
  /\ sk \in [Task -> Conn \cup {NoConn}]
  /\ reply \in [Task -> Verdict]
  /\ result \in [Task -> Result]
  /\ reboots \in 0 .. MaxReboots

(***************************************************************************)
(* A hook returns the verdict on the pages it has sent itself, never one   *)
(* that was meant for another call: an answer does not say which mapping   *)
(* it is about, and every hook takes the first one it finds.               *)
(***************************************************************************)
OwnVerdict ==
  \A t \in Task : result[t] \in Verdict => result[t] = ThisCall(t)

(* The mapping consists of one run of pages that reaches to its end. *)
OneRun(m) == m.present # {} /\ m.present = Min(m.present) .. m.len - 1

DumpedPages(d) == {d.content[k].page : k \in {j \in 1 .. Len(d.content) : d.content[j] # Zero}}

DumpedWhole(t) ==
  \E d \in dumps : /\ d.call = ThisCall(t)
                   /\ Len(d.content) = mapping[t].len
                   /\ DumpedPages(d) = mapping[t].present

(***************************************************************************)
(* When a hook returns a verdict the server has dumped the mapping; the    *)
(* dump has all pages if they left in one message.                         *)
(***************************************************************************)
VerdictAfterDump ==
  \A t \in Task : result[t] = ThisCall(t) /\ OneRun(mapping[t]) => DumpedWhole(t)

(***************************************************************************)
(* What the commit that added mapped_addr to the header announces:         *)
(* "Modified logic so we can reconstruct the sparse memory serverside".    *)
(***************************************************************************)
SparseMemoryReconstructed ==
  \A t \in Task : result[t] = ThisCall(t) => DumpedWhole(t)

(***************************************************************************)
(* Once all hooks have returned, nothing is left over for the next one:    *)
(* no byte and no answer in flight, no buffer, the server at a header.     *)
(* With a second answer in the queue _tcp_recv would never return.         *)
(***************************************************************************)
QuietBetweenCalls ==
  (\A t \in Task : pc[t] = "idle") =>
    \A c \in Conn \ hungup : /\ up[c] = <<>> /\ down[c] = <<>>
                             /\ sock_client = c => phase = "header" /\ root_buf = <<>>

(***************************************************************************)
(* The socket of the LSM is made once: no step replaces it, or forgets it, *)
(* except a restart.  lsm_init_tcp_connection tests it long before it      *)
(* stores the new one.                                                     *)
(***************************************************************************)
SockKept == [][sock = NoConn \/ sock' = sock \/ reboots' = reboots + 1]_vars

(***************************************************************************)
(* A system call that enters a hook comes back: the hook waits, with the   *)
(* mmap lock held, for a server that must read all of its messages and     *)
(* answer exactly once.                                                    *)
(***************************************************************************)
HookReturns == \A t \in Task : pc[t] # "idle" ~> pc[t] = "idle"

(***************************************************************************)
(* A machine that has been restarted is served, wherever in a message its  *)
(* predecessor was cut off.                                                *)
(***************************************************************************)
NextClientServed ==
  \A c \in Conn : (\E k \in 1 .. Len(backlog) : backlog[k] = c) ~> sock_client = c
=============================================================================
