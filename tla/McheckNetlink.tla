--------------------------- MODULE McheckNetlink ---------------------------
(***************************************************************************)
(* The mcheck LSM in its netlink mode (use_tcp = false), together with the *)
(* analyzer process of the same machine.  A hook starts a kernel thread    *)
(* that maps memory of the right length into the analyzer, sends the       *)
(* analyzer the address by a netlink multicast, and waits for its answer.  *)
(* The three completions by which hooks, threads and the analyzer wait for *)
(* each other are global, and so is the answer.                            *)
(*                                                                         *)
(* The page hooks hold the mmap lock of the process that calls, which      *)
(* orders the threads of one process; the BPF hook holds no lock.  What    *)
(* the pages hold is left out.                                             *)
(***************************************************************************)
EXTENDS Naturals, Sequences, FiniteSets

CONSTANTS
  Task,            (* threads that run system calls                        *)
  Process,         (* Process[t]: the process, hence the mmap lock, of t   *)
  BpfTask,         (* tasks that load BPF programs                         *)
  Analyzer,        (* analyzer processes that may be started               *)
  NoAnalyzer,      (* analyzer_task = NULL                                 *)
  MaxCalls,        (* MaxCalls[t]: calls of hooks by t                     *)
  Findings,        (* what the analyzer may find, TRUE for a clean mapping *)
  Faults           (* what may fail, see FaultKind                         *)

FaultKind == {"kmalloc",   (* analyzer_data                                *)
              "kthread",   (* kthread_run                                  *)
              "pages",     (* the page array, or get_user_pages            *)
              "vm_mmap",   (* vm_mmap into the analyzer                    *)
              "copy",      (* copy_to_user of a BPF image                  *)
              "remap",     (* remap_pfn_range                              *)
              "send",      (* lsm_send_to_userspace                        *)
              "reply",     (* send_int_msg of the analyzer                 *)
              "register",  (* find_task_by_vpid                            *)
              "crash"}     (* the analyzer is killed                       *)

ASSUME McheckNetlinkAssumption ==
  /\ BpfTask \subseteq Task
  /\ NoAnalyzer \notin Analyzer
  /\ MaxCalls \in [Task -> Nat]
  /\ Findings \subseteq BOOLEAN /\ Faults \subseteq FaultKind

Call == UNION {{t} \X (1 .. MaxCalls[t]) : t \in Task}

VARIABLES
  analyzer_task,        (* the registered analyzer                         *)
  analyzer_response,    (* the global verdict                              *)
  analyzer_ready,       (* completion: an answer has come                  *)
  analyzer_mmap_done,   (* completion: the thread has mapped               *)
  analyzer_munmap_ready,(* completion: the thread may unmap                *)
  pc,                   (* pc[t]: where task t is in its hook              *)
  kind,                 (* kind[c]: "mmap", "mprotect" or "bpf"            *)
  calls,                (* calls[t]: hook calls of t so far                *)
  asked,                (* asked[t]: the analyzer has been sent the call   *)
  result,               (* result[c]: what the hook returned               *)
  th,                   (* th[c]: the kernel thread started by call c      *)
  address,              (* address[c]: data->address of that thread        *)
  stop,                 (* calls for whose thread kthread_stop was called  *)
  freed,                (* calls whose analyzer_data was freed             *)
  mm_refs,              (* calls that hold a reference of the analyzer_mm  *)
  mapped,               (* calls with a mapping in the analyzer            *)
  lock_kept,            (* its mmap lock was taken and not released        *)
  started,              (* analyzers that were started                     *)
  alive,                (* and those that still run                        *)
  inbox,                (* inbox[a]: netlink messages a has not read       *)
  working               (* working[a]: the call a is about to answer       *)

completions == <<analyzer_ready, analyzer_mmap_done, analyzer_munmap_ready>>
answer      == <<analyzer_task, analyzer_response>>
hooks       == <<pc, kind, calls, asked, result>>
threads     == <<th, address, stop>>
memory      == <<freed, mm_refs, mapped, lock_kept>>
analyzers   == <<started, alive, inbox, working>>
vars        == <<answer, completions, hooks, threads, memory, analyzers>>

(***************************************************************************)
(* What a hook returns: what it is about and whether it is zero.  A        *)
(* verdict is about a call, or is the process id that an analyzer sends    *)
(* when it starts, which is not zero.  The number 0 belongs to no call.    *)
(* Allowed and Unasked are the same zero for the caller: the first is of a *)
(* call that is of no interest, the second of one that should have been    *)
(* analysed, but a failure kept the hook from asking.                      *)
(***************************************************************************)
Startup == <<"startup", 0>>
NoCall  == <<"none", 0>>
Verdict == [about : Call \cup {Startup, NoCall}, clean : BOOLEAN]

Unset   == [about |-> NoCall, clean |-> TRUE]
Pending == [about |-> <<"pending", 0>>, clean |-> TRUE]
Allowed == [about |-> <<"allowed", 0>>, clean |-> TRUE]
Unasked == [about |-> <<"unasked", 0>>, clean |-> TRUE]
Invalid == [about |-> <<"EINVAL", 0>>, clean |-> FALSE]
NoMem   == [about |-> <<"ENOMEM", 0>>, clean |-> FALSE]
Result  == Verdict \cup {Pending, Allowed, Unasked, Invalid, NoMem}

PC == {"idle", "start", "pin", "await_mmap", "sleep_mmap", "mapped", "remap", "send",
       "await_ready", "sleep_ready", "reinit", "release", "stop", "join", "oops"}

ThreadPC == {"none", "created", "init", "signal", "await", "asleep", "poked",
             "unmap", "stopping", "exited"}

ThisCall(t) == <<t, calls[t]>>

-----------------------------------------------------------------------------
(***************************************************************************)
(* A completion: a count, and the waiters asleep in the order they came.   *)
(* complete() wakes the first one, which then tests the count again.       *)
(* init_completion forgets the waiters; they stay asleep.                  *)
(***************************************************************************)
Completion(Waiter) == [done : Nat, queue : Seq(Waiter)]

Fresh == [done |-> 0, queue |-> <<>>]

reinit(x) == [x EXCEPT !.done = 0]

Woken(x) == IF x.queue = <<>> THEN {} ELSE {Head(x.queue)}

complete(x) == [done |-> x.done + 1, queue |-> IF x.queue = <<>> THEN <<>> ELSE Tail(x.queue)]

Consumed(x) == [x EXCEPT !.done = @ - 1]

Joined(x, w) == [x EXCEPT !.queue = Append(@, w)]

Init ==
  /\ analyzer_task = NoAnalyzer
  /\ analyzer_response = Unset
  /\ analyzer_ready = Fresh
  /\ analyzer_mmap_done = Fresh
  /\ analyzer_munmap_ready = Fresh
  /\ pc = [t \in Task |-> "idle"]
  /\ kind = [c \in Call |-> "mmap"]
  /\ calls = [t \in Task |-> 0]
  /\ asked = [t \in Task |-> FALSE]
  /\ result = [c \in Call |-> Pending]
  /\ th = [c \in Call |-> "none"]
  /\ address = [c \in Call |-> "none"]
  /\ stop = {} /\ freed = {} /\ mm_refs = {} /\ mapped = {}
  /\ lock_kept = FALSE
  /\ started = {} /\ alive = {}
  /\ inbox = [a \in Analyzer |-> <<>>]
  /\ working = [a \in Analyzer |-> NoCall]

-----------------------------------------------------------------------------
(* The hooks. *)
Goto(t, where) == pc' = [pc EXCEPT ![t] = where]

Return(t, c, r) ==
  /\ Goto(t, "idle")
  /\ result' = [result EXCEPT ![c] = r]

(* The mmap lock of the process of t is not held by a page hook. *)
InPageHook(u) == pc[u] # "idle" /\ kind[ThisCall(u)] # "bpf"

MmapLockFree(t) == \A u \in Task \ {t} : Process[u] = Process[t] => ~InPageHook(u)

(***************************************************************************)
(* The gates let call c pass if no analyzer is registered, or the call is  *)
(* of no interest: not executable, of the analyzer itself, no jited        *)
(* program.  An analyzer without memory is an error.  get_task_mm takes a  *)
(* reference, which a failing kmalloc keeps.                               *)
(***************************************************************************)
Gates(t, c) ==
  \/ Return(t, c, Allowed) /\ UNCHANGED mm_refs
  \/ /\ analyzer_task # NoAnalyzer
     /\ analyzer_task \notin alive
     /\ Return(t, c, Invalid) /\ UNCHANGED mm_refs
  \/ /\ analyzer_task \in alive
     /\ mm_refs' = mm_refs \cup {c}
     /\ \/ Goto(t, "start") /\ UNCHANGED result
        \/ "kmalloc" \in Faults /\ Return(t, c, NoMem)

(* A hook is called: the BPF hook by tasks that load programs, with no lock. *)
EnterHook(t, k) ==
  LET c == <<t, calls[t] + 1>> IN
  /\ pc[t] = "idle"
  /\ calls[t] < MaxCalls[t]
  /\ IF k = "bpf" THEN t \in BpfTask ELSE MmapLockFree(t)
  /\ calls' = [calls EXCEPT ![t] = @ + 1]
  /\ kind' = [kind EXCEPT ![c] = k]
  /\ asked' = [asked EXCEPT ![t] = FALSE]
  /\ Gates(t, c)
  /\ UNCHANGED <<answer, completions, threads, freed, mapped, lock_kept, analyzers>>

(***************************************************************************)
(* analyzer_mmap_done is initialised anew, and the thread is started.  If  *)
(* that fails the hook returns zero.                                       *)
(***************************************************************************)
StartThread(t) ==
  LET c == ThisCall(t) IN
  /\ pc[t] = "start"
  /\ analyzer_mmap_done' = Fresh
  /\ \/ /\ th' = [th EXCEPT ![c] = "created"]
        /\ Goto(t, IF kind[c] = "mprotect" THEN "pin" ELSE "await_mmap")
        /\ UNCHANGED <<result, freed>>
     \/ /\ "kthread" \in Faults
        /\ freed' = freed \cup {c}
        /\ Return(t, c, Unasked)
        /\ UNCHANGED th
  /\ UNCHANGED <<answer, analyzer_ready, analyzer_munmap_ready, kind, calls, asked,
                 address, stop, mm_refs, mapped, lock_kept, analyzers>>

(* Mutant: the hook that returns early frees what its thread still uses. *)
PinPagesFrees(t) ==
  /\ pc[t] = "pin"
  /\ \/ Goto(t, "await_mmap") /\ UNCHANGED <<result, freed>>
     \/ /\ "pages" \in Faults
        /\ freed' = freed \cup {ThisCall(t)}
        /\ Return(t, ThisCall(t), NoMem)
  /\ UNCHANGED <<answer, completions, kind, calls, asked, threads, mm_refs, mapped, lock_kept, analyzers>>

(* mprotect only.  When this fails the hook returns and leaves its thread. *)
PinPages(t) ==
  /\ pc[t] = "pin"
  /\ \/ Goto(t, "await_mmap") /\ UNCHANGED result
     \/ "pages" \in Faults /\ Return(t, ThisCall(t), NoMem)
  /\ UNCHANGED <<answer, completions, kind, calls, asked, threads, memory, analyzers>>

(* Mutant: the hook does not wait for its thread to map. *)
SkipMmapWait(t) ==
  /\ pc[t] = "await_mmap"
  /\ Goto(t, "mapped")
  /\ UNCHANGED <<answer, completions, kind, calls, asked, result, threads, memory, analyzers>>

(* wait_for_completion(&analyzer_mmap_done) *)
AwaitMmapDone(t) ==
  /\ pc[t] = "await_mmap"
  /\ IF analyzer_mmap_done.done > 0
     THEN Goto(t, "mapped") /\ analyzer_mmap_done' = Consumed(analyzer_mmap_done)
     ELSE Goto(t, "sleep_mmap") /\ analyzer_mmap_done' = Joined(analyzer_mmap_done, t)
  /\ UNCHANGED <<answer, analyzer_ready, analyzer_munmap_ready, kind, calls, asked, result,
                 threads, memory, analyzers>>

(* data->address is tested, whatever vm_mmap has left there. *)
CheckAddress(t) ==
  /\ pc[t] = "mapped"
  /\ Goto(t, IF address[ThisCall(t)] = "none" THEN "stop"
             ELSE IF kind[ThisCall(t)] = "mprotect" THEN "remap" ELSE "send")
  /\ UNCHANGED <<answer, completions, kind, calls, asked, result, threads, memory, analyzers>>

(* Mutant: a failing remap_pfn_range goes past complete(&analyzer_munmap_ready). *)
RemapSkipsRelease(t) ==
  /\ pc[t] = "remap"
  /\ ~lock_kept
  /\ \/ Goto(t, "send")
     \/ "remap" \in Faults /\ Goto(t, "stop")
  /\ UNCHANGED <<answer, completions, kind, calls, asked, result, threads, memory, analyzers>>

(***************************************************************************)
(* mprotect only: the pinned pages are mapped over the new mapping, with   *)
(* the mmap lock of the analyzer.  If find_vma finds nothing, its result   *)
(* is dereferenced; if it finds the mapping of a file, the hook returns    *)
(* and keeps the lock.                                                     *)
(***************************************************************************)
Remap(t) ==
  LET c == ThisCall(t) IN
  /\ pc[t] = "remap"
  /\ ~lock_kept
  /\ \/ /\ address[c] # "error"
        /\ \/ Goto(t, "send")
           \/ "remap" \in Faults /\ Goto(t, "release")
        /\ UNCHANGED <<lock_kept, result>>
     \/ /\ c \notin mapped
        /\ lock_kept' = TRUE
        /\ \/ Goto(t, "oops") /\ UNCHANGED result
           \/ address[c] # "error" /\ Return(t, c, Unasked)
  /\ UNCHANGED <<answer, completions, kind, calls, asked, threads, freed, mm_refs, mapped, analyzers>>

(* Mutant: the hook does not wait for the answer. *)
SendAndGo(t) ==
  /\ pc[t] = "send"
  /\ inbox' = [a \in Analyzer |-> IF a \in alive THEN Append(inbox[a], ThisCall(t)) ELSE inbox[a]]
  /\ asked' = [asked EXCEPT ![t] = TRUE]
  /\ Goto(t, "release")
  /\ UNCHANGED <<answer, completions, kind, calls, result, threads, memory, started, alive, working>>

(* lsm_send_to_userspace: every analyzer that listens gets the message. *)
Send(t) ==
  /\ pc[t] = "send"
  /\ \/ inbox' = [a \in Analyzer |-> IF a \in alive THEN Append(inbox[a], ThisCall(t)) ELSE inbox[a]]
     \/ "send" \in Faults /\ UNCHANGED inbox
  /\ asked' = [asked EXCEPT ![t] = TRUE]
  /\ Goto(t, "await_ready")
  /\ UNCHANGED <<answer, completions, kind, calls, result, threads, memory, started, alive, working>>

(* wait_for_completion(&analyzer_ready) *)
AwaitReady(t) ==
  /\ pc[t] = "await_ready"
  /\ IF analyzer_ready.done > 0
     THEN Goto(t, "reinit") /\ analyzer_ready' = Consumed(analyzer_ready)
     ELSE Goto(t, "sleep_ready") /\ analyzer_ready' = Joined(analyzer_ready, t)
  /\ UNCHANGED <<answer, analyzer_mmap_done, analyzer_munmap_ready, kind, calls, asked, result,
                 threads, memory, analyzers>>

(* reinit_completion(&analyzer_ready) *)
ReinitReady(t) ==
  /\ pc[t] = "reinit"
  /\ analyzer_ready' = reinit(analyzer_ready)
  /\ Goto(t, "release")
  /\ UNCHANGED <<answer, analyzer_mmap_done, analyzer_munmap_ready, kind, calls, asked, result,
                 threads, memory, analyzers>>

(* complete(&analyzer_munmap_ready) *)
ReleaseThread(t) ==
  /\ pc[t] = "release"
  /\ analyzer_munmap_ready' = complete(analyzer_munmap_ready)
  /\ th' = [c \in Call |-> IF c \in Woken(analyzer_munmap_ready) THEN "await" ELSE th[c]]
  /\ Goto(t, "stop")
  /\ UNCHANGED <<answer, analyzer_ready, analyzer_mmap_done, kind, calls, asked, result,
                 address, stop, memory, analyzers>>

(* kthread_stop wakes the thread, wherever it sleeps, and waits for it. *)
StopThread(t) ==
  LET c == ThisCall(t) IN
  /\ pc[t] = "stop"
  /\ stop' = stop \cup {c}
  /\ th' = [th EXCEPT ![c] = IF @ = "asleep" THEN "poked" ELSE @]
  /\ Goto(t, "join")
  /\ UNCHANGED <<answer, completions, kind, calls, asked, result, address, memory, analyzers>>

(* Mutant: the hook does not wait for the end of its thread. *)
JoinNobody(t) ==
  LET c == ThisCall(t) IN
  /\ pc[t] = "join"
  /\ freed' = freed \cup {c}
  /\ mm_refs' = mm_refs \ {c}
  /\ Return(t, c, IF asked[t] THEN analyzer_response ELSE Unasked)
  /\ UNCHANGED <<answer, completions, kind, calls, asked, threads, mapped, lock_kept, analyzers>>

(* Mutant: a hook that has not asked the analyzer forgets mmput. *)
JoinKeepsReference(t) ==
  LET c == ThisCall(t) IN
  /\ pc[t] = "join"
  /\ th[c] = "exited"
  /\ freed' = freed \cup {c}
  /\ mm_refs' = IF ~asked[t] THEN mm_refs ELSE mm_refs \ {c}
  /\ Return(t, c, IF asked[t] THEN analyzer_response ELSE Unasked)
  /\ UNCHANGED <<answer, completions, kind, calls, asked, threads, mapped, lock_kept, analyzers>>

(***************************************************************************)
(* The thread has ended: mmput and kfree, and the verdict, or zero if the  *)
(* analyzer was not asked, for nothing was mapped or remap_pfn_range       *)
(* failed.  The BPF hook does not call mmput if nothing was mapped.        *)
(***************************************************************************)
JoinThread(t) ==
  LET c == ThisCall(t) IN
  /\ pc[t] = "join"
  /\ th[c] = "exited"
  /\ freed' = freed \cup {c}
  /\ mm_refs' = IF kind[c] = "bpf" /\ ~asked[t] THEN mm_refs ELSE mm_refs \ {c}
  /\ Return(t, c, IF asked[t] THEN analyzer_response ELSE Unasked)
  /\ UNCHANGED <<answer, completions, kind, calls, asked, threads, mapped, lock_kept, analyzers>>

HookStep(t) ==
  \/ StartThread(t)
  \/ PinPages(t)
  \/ AwaitMmapDone(t)
  \/ CheckAddress(t)
  \/ Remap(t)
  \/ Send(t)
  \/ AwaitReady(t)
  \/ ReinitReady(t)
  \/ ReleaseThread(t)
  \/ StopThread(t)
  \/ JoinThread(t)

-----------------------------------------------------------------------------
(* mmap_analyzer_thread of call c. *)
ThreadGoto(c, where) == th' = [th EXCEPT ![c] = where]

(***************************************************************************)
(* vm_mmap, which waits for the mmap lock of the analyzer.  An error of    *)
(* its is an address like any other, but the copy of a BPF image to it     *)
(* fails, and that makes the address zero.  The three are one step: only a *)
(* hook that the signal of another thread has woken could see the address  *)
(* between them.                                                           *)
(***************************************************************************)
MapInAnalyzer(c) ==
  /\ th[c] = "created"
  /\ ~lock_kept
  /\ \/ mapped' = mapped \cup {c} /\ address' = [address EXCEPT ![c] = "mapped"]
     \/ /\ "vm_mmap" \in Faults
        /\ kind[c] # "bpf"
        /\ address' = [address EXCEPT ![c] = "error"]
        /\ UNCHANGED mapped
     \/ /\ {"vm_mmap", "copy"} \cap Faults # {}
        /\ kind[c] = "bpf"
        /\ UNCHANGED <<mapped, address>>
  /\ ThreadGoto(c, "init")
  /\ UNCHANGED <<answer, completions, hooks, stop, freed, mm_refs, lock_kept, analyzers>>

(* init_completion(&analyzer_munmap_ready) *)
InitMunmapReady(c) ==
  /\ th[c] = "init"
  /\ analyzer_munmap_ready' = Fresh
  /\ ThreadGoto(c, "signal")
  /\ UNCHANGED <<answer, analyzer_ready, analyzer_mmap_done, hooks, address, stop, memory, analyzers>>

(* Mutant: the thread unmaps without waiting for the hook. *)
SignalAndUnmap(c) ==
  /\ th[c] = "signal"
  /\ analyzer_mmap_done' = complete(analyzer_mmap_done)
  /\ pc' = [t \in Task |-> IF t \in Woken(analyzer_mmap_done) THEN "await_mmap" ELSE pc[t]]
  /\ ThreadGoto(c, IF address[c] = "none" THEN "stopping" ELSE "unmap")
  /\ UNCHANGED <<answer, analyzer_ready, analyzer_munmap_ready, kind, calls, asked, result,
                 address, stop, memory, analyzers>>

(* complete(&analyzer_mmap_done) *)
SignalMmapDone(c) ==
  /\ th[c] = "signal"
  /\ analyzer_mmap_done' = complete(analyzer_mmap_done)
  /\ pc' = [t \in Task |-> IF t \in Woken(analyzer_mmap_done) THEN "await_mmap" ELSE pc[t]]
  /\ ThreadGoto(c, IF address[c] = "none" THEN "stopping" ELSE "await")
  /\ UNCHANGED <<answer, analyzer_ready, analyzer_munmap_ready, kind, calls, asked, result,
                 address, stop, memory, analyzers>>

(* wait_for_completion(&analyzer_munmap_ready) *)
AwaitMunmapReady(c) ==
  /\ th[c] = "await"
  /\ IF analyzer_munmap_ready.done > 0
     THEN ThreadGoto(c, "unmap") /\ analyzer_munmap_ready' = Consumed(analyzer_munmap_ready)
     ELSE ThreadGoto(c, "asleep") /\ analyzer_munmap_ready' = Joined(analyzer_munmap_ready, c)
  /\ UNCHANGED <<answer, analyzer_ready, analyzer_mmap_done, hooks, address, stop, memory, analyzers>>

(* Mutant: woken by kthread_stop, the thread does not test the count. *)
TestNothing(c) ==
  /\ th[c] = "poked"
  /\ ThreadGoto(c, "unmap")
  /\ analyzer_munmap_ready' = Consumed(analyzer_munmap_ready)
  /\ UNCHANGED <<answer, analyzer_ready, analyzer_mmap_done, hooks, address, stop, memory, analyzers>>

(***************************************************************************)
(* Woken by kthread_stop in that wait, the thread tests the count.  When   *)
(* it leaves the queue and had been forgotten, its stale links may make    *)
(* the queue empty.                                                        *)
(***************************************************************************)
TestMunmapReady(c) ==
  LET q == analyzer_munmap_ready.queue
      Leaves(r) == analyzer_munmap_ready' = [done |-> analyzer_munmap_ready.done - 1, queue |-> r]
  IN
  /\ th[c] = "poked"
  /\ \/ /\ analyzer_munmap_ready.done = 0
        /\ ThreadGoto(c, "asleep")
        /\ UNCHANGED analyzer_munmap_ready
     \/ /\ analyzer_munmap_ready.done > 0
        /\ ThreadGoto(c, "unmap")
        /\ \/ \E k \in 1 .. Len(q) : q[k] = c /\ Leaves(SubSeq(q, 1, k - 1) \o SubSeq(q, k + 1, Len(q)))
           \/ (\A k \in 1 .. Len(q) : q[k] # c) /\ (Leaves(q) \/ Leaves(<<>>))
  /\ UNCHANGED <<answer, analyzer_ready, analyzer_mmap_done, hooks, address, stop, memory, analyzers>>

(* vm_munmap *)
Unmap(c) ==
  /\ th[c] = "unmap"
  /\ ~lock_kept
  /\ mapped' = mapped \ {c}
  /\ ThreadGoto(c, "stopping")
  /\ UNCHANGED <<answer, completions, hooks, address, stop, freed, mm_refs, lock_kept, analyzers>>

(***************************************************************************)
(* The loop on kthread_should_stop ends.  A thread that is stopped before  *)
(* it ever ran ends without doing anything.                                *)
(***************************************************************************)
ExitThread(c) ==
  /\ th[c] \in {"stopping", "created"}
  /\ c \in stop
  /\ ThreadGoto(c, "exited")
  /\ UNCHANGED <<answer, completions, hooks, address, stop, memory, analyzers>>

ThreadStep(c) ==
  \/ MapInAnalyzer(c)
  \/ InitMunmapReady(c)
  \/ SignalMmapDone(c)
  \/ AwaitMunmapReady(c)
  \/ TestMunmapReady(c)
  \/ Unmap(c)
  \/ ExitThread(c)

-----------------------------------------------------------------------------
(* lsm_receive_reply, once an analyzer is registered. *)
Answer(v) ==
  /\ analyzer_response' = v
  /\ analyzer_ready' = complete(analyzer_ready)
  /\ pc' = [t \in Task |-> IF t \in Woken(analyzer_ready) THEN "await_ready" ELSE pc[t]]

(* Mutant: lsm_receive_reply goes on after the registration. *)
StartAndAnswer(a) ==
  /\ a \notin started
  /\ started' = started \cup {a}
  /\ alive' = alive \cup {a}
  /\ analyzer_task' = IF analyzer_task = NoAnalyzer THEN a ELSE analyzer_task
  /\ Answer([about |-> Startup, clean |-> FALSE])
  /\ UNCHANGED <<analyzer_mmap_done, analyzer_munmap_ready, kind, calls, asked, result,
                 threads, memory, inbox, working>>

(***************************************************************************)
(* An analyzer starts to listen and sends its process id.  The first one   *)
(* is registered by it; from then on lsm_receive_reply cannot tell it from *)
(* an answer.                                                              *)
(***************************************************************************)
StartAnalyzer(a) ==
  /\ a \notin started
  /\ started' = started \cup {a}
  /\ alive' = alive \cup {a}
  /\ \/ /\ analyzer_task = NoAnalyzer
        /\ \/ analyzer_task' = a
           \/ "register" \in Faults /\ UNCHANGED analyzer_task
        /\ UNCHANGED <<analyzer_response, analyzer_ready, pc>>
     \/ /\ analyzer_task # NoAnalyzer
        /\ Answer([about |-> Startup, clean |-> FALSE])
        /\ UNCHANGED analyzer_task
  /\ UNCHANGED <<analyzer_mmap_done, analyzer_munmap_ready, kind, calls, asked, result,
                 threads, memory, inbox, working>>

Dies(a) ==
  /\ alive' = alive \ {a}
  /\ inbox' = [inbox EXCEPT ![a] = <<>>]
  /\ working' = [working EXCEPT ![a] = NoCall]

(***************************************************************************)
(* message_handler copies the memory at the address it was sent.  If it is *)
(* not mapped there the analyzer dies, or, in an analyzer that has not     *)
(* been registered, or when other memory has taken its place, it copies    *)
(* something else.                                                         *)
(***************************************************************************)
Analyze(a) ==
  /\ a \in alive
  /\ working[a] = NoCall
  /\ inbox[a] # <<>>
  /\ LET c == Head(inbox[a]) IN
     \/ /\ address[c] # "error"
        /\ inbox' = [inbox EXCEPT ![a] = Tail(@)]
        /\ working' = [working EXCEPT ![a] = c]
        /\ UNCHANGED alive
     \/ /\ a # analyzer_task \/ c \notin mapped
        /\ Dies(a)
  /\ UNCHANGED <<answer, completions, hooks, threads, memory, started>>

(* The answer: zero, or the errno of a dump that could not be written. *)
Reply(a) ==
  /\ a \in alive
  /\ working[a] # NoCall
  /\ \/ /\ analyzer_task # NoAnalyzer
        /\ \E clean \in Findings : Answer([about |-> working[a], clean |-> clean])
     \/ "reply" \in Faults /\ UNCHANGED <<analyzer_response, analyzer_ready, pc>>
  /\ working' = [working EXCEPT ![a] = NoCall]
  /\ UNCHANGED <<analyzer_task, analyzer_mmap_done, analyzer_munmap_ready, kind, calls, asked,
                 result, threads, memory, started, alive, inbox>>

Crash(a) ==
  /\ "crash" \in Faults
  /\ a \in alive
  /\ Dies(a)
  /\ UNCHANGED <<answer, completions, hooks, threads, memory, started>>

AnalyzerStep(a) == Analyze(a) \/ Reply(a)

Next ==
  \/ \E t \in Task : HookStep(t) \/ \E k \in {"mmap", "mprotect", "bpf"} : EnterHook(t, k)
  \/ \E c \in Call : ThreadStep(c)
  \/ \E a \in Analyzer : StartAnalyzer(a) \/ AnalyzerStep(a) \/ Crash(a)

(* Tasks, kernel threads and a running analyzer are scheduled. *)
Fairness ==
  /\ \A t \in Task : WF_vars(HookStep(t))
  /\ \A c \in Call : WF_vars(ThreadStep(c))
  /\ \A a \in Analyzer : WF_vars(AnalyzerStep(a))

Spec == Init /\ [][Next]_vars /\ Fairness
-----------------------------------------------------------------------------
(* Type invariant of the LSM with its analyzers. *)
TypeOK ==
  /\ analyzer_task \in Analyzer \cup {NoAnalyzer}
  /\ analyzer_response \in Verdict
  /\ analyzer_ready \in Completion(Task)
  /\ analyzer_mmap_done \in Completion(Task)
  /\ analyzer_munmap_ready \in Completion(Call)
  /\ pc \in [Task -> PC]
  /\ kind \in [Call -> {"mmap", "mprotect", "bpf"}]
  /\ calls \in [Task -> Nat] /\ \A t \in Task : calls[t] <= MaxCalls[t]
  /\ asked \in [Task -> BOOLEAN]
  /\ result \in [Call -> Result]
  /\ th \in [Call -> ThreadPC]
  /\ address \in [Call -> {"none", "mapped", "error"}]
  /\ stop \subseteq Call /\ freed \subseteq Call
  /\ mm_refs \subseteq Call /\ mapped \subseteq Call
  /\ lock_kept \in BOOLEAN
  /\ started \subseteq Analyzer /\ alive \subseteq started
  /\ inbox \in [Analyzer -> Seq(Call)]
  /\ working \in [Analyzer -> Call \cup {NoCall}]

(***************************************************************************)
(* A kernel thread that has not ended still has its analyzer_data and a    *)
(* reference of the memory it works in, whatever fails and whoever wakes   *)
(* whom: every path of a hook that gives them up joins the thread first,   *)
(* or gives up neither.                                                    *)
(***************************************************************************)
ThreadKeepsItsData ==
  \A c \in Call : th[c] \notin {"none", "exited"} => c \in mm_refs /\ c \notin freed

(***************************************************************************)
(* A hook returns the answer to its own message.  Answers carry no sign of *)
(* the message they belong to, and wait in one completion for any hook.    *)
(***************************************************************************)
OwnVerdict ==
  \A c \in Call : result[c] \in Verdict => result[c].about = c

(***************************************************************************)
(* The analyzer only reads memory that is mapped there for the call it     *)
(* analyses: the thread unmaps after the answer, not before.               *)
(***************************************************************************)
MappedWhenAnalysed ==
  [][\A a \in Analyzer :
       (working'[a] \notin {working[a], NoCall} => working'[a] \in mapped)
       /\ (a \in alive => a \in alive')]_vars

(***************************************************************************)
(* Once all hooks have returned, nothing of them is left: no mapping and   *)
(* no thread, no message, and no answer that the next hook could take for  *)
(* its own.                                                                *)
(***************************************************************************)
QuietBetweenCalls ==
  (\A t \in Task : pc[t] = "idle") =>
    /\ mapped = {} /\ \A c \in Call : th[c] \in {"none", "exited"}
    /\ \A a \in Analyzer : inbox[a] = <<>> /\ working[a] = NoCall
    /\ analyzer_ready = Fresh /\ analyzer_munmap_ready = Fresh

(***************************************************************************)
(* A hook that has returned has given back its reference of the analyzer's *)
(* memory, unless an allocation failed or the thread could not be started: *)
(* those two paths lack the mmput.                                         *)
(***************************************************************************)
ReferencesReturned ==
  \A c \in mm_refs : \/ result[c] \in {Pending, NoMem}
                     \/ result[c] = Unasked /\ th[c] = "none"

(* The hooks release the mmap lock of the analyzer that they take. *)
AnalyzerUnlocked == ~lock_kept
=============================================================================
