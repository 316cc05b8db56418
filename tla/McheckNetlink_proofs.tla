------------------------ MODULE McheckNetlink_proofs ------------------------
EXTENDS HookSites, SequenceTheorems, TLAPS

(***************************************************************************)
(* Proofs about the netlink mode (McheckNetlink) and the system calls      *)
(* around its hooks (HookSites).  Types hold, and the structure that a     *)
(* hook shares with its kernel thread outlives the thread.                 *)
(*                                                                         *)
(* The data needs a strengthening.  A hook frees it at its end, once it    *)
(* has joined its thread; the paths that leave without joining it free     *)
(* nothing.  That a thread meets no free data is therefore a matter of     *)
(* the whole life of a call: no thread of it exists before the call and    *)
(* at the start of its hook; the call has its data while its hook runs;    *)
(* and a wake-up, which may be meant for another, finds a task or thread   *)
(* in the sleep of the completion it comes from, and takes it nowhere      *)
(* else.                                                                   *)
(***************************************************************************)

(* The tasks or threads that sleep in the completion x. *)
Waiting(x) == {x.queue[i] : i \in 1 .. Len(x.queue)}

(* Nobody sleeps twice in the completion x. *)
Distinct(x) == \A i, j \in 1 .. Len(x.queue) : x.queue[i] = x.queue[j] => i = j

(* A call is a task with one of the numbers its bound allows. *)
LEMMA CallsOfTasks ==
  ASSUME NEW t \in Task
  PROVE  /\ MaxCalls[t] \in Nat
         /\ \A k : <<t, k>> \in Call <=> k \in 1 .. MaxCalls[t]
<1>1. MaxCalls[t] \in Nat
  BY McheckNetlinkAssumption
<1>2. ASSUME NEW k, k \in 1 .. MaxCalls[t] PROVE <<t, k>> \in Call
  <2>1. <<t, k>> \in {t} \X (1 .. MaxCalls[t])
    BY <1>2
  <2> QED
    BY <2>1 DEF Call
<1>3. ASSUME NEW k, <<t, k>> \in Call PROVE k \in 1 .. MaxCalls[t]
  <2>1. PICK u \in Task : <<t, k>> \in {u} \X (1 .. MaxCalls[u])
    BY <1>3 DEF Call
  <2> QED
    BY <2>1
<1> QED
  BY <1>1, <1>2, <1>3

(* init_completion leaves nobody waiting. *)
LEMMA FreshEffect ==
  ASSUME NEW W
  PROVE  Fresh \in Completion(W) /\ Distinct(Fresh) /\ Waiting(Fresh) = {}
  BY DEF Fresh, Completion, Distinct, Waiting

(* complete() wakes waiters, adds none and keeps the others apart. *)
LEMMA CompleteEffect ==
  ASSUME NEW W, NEW x \in Completion(W), Distinct(x)
  PROVE  /\ complete(x) \in Completion(W)
         /\ Distinct(complete(x))
         /\ Waiting(x) \subseteq W
         /\ Woken(x) \subseteq Waiting(x)
         /\ Waiting(complete(x)) = Waiting(x) \ Woken(x)
<1> DEFINE q == x.queue
<1>1. x.done \in Nat /\ q \in Seq(W)
  BY DEF Completion
<1>2. CASE q = <<>>
  BY <1>1, <1>2 DEF complete, Completion, Distinct, Waiting, Woken
<1>3. CASE q # <<>>
  <2>1. /\ Tail(q) \in Seq(W) /\ Len(Tail(q)) = Len(q) - 1 /\ Len(q) \in Nat \ {0}
        /\ \A i \in 1 .. Len(q) - 1 : Tail(q)[i] = q[i + 1]
        /\ \A i \in 1 .. Len(q) : q[i] \in W
        /\ Head(q) = q[1]
    BY <1>1, <1>3
  <2>2. complete(x) = [done |-> x.done + 1, queue |-> Tail(q)] /\ Woken(x) = {q[1]}
    BY <1>3, <2>1 DEF complete, Woken
  <2>3. complete(x) \in Completion(W) /\ complete(x).queue = Tail(q)
    BY <1>1, <2>1, <2>2 DEF Completion
  <2>4. Distinct(complete(x))
    <3>1. ASSUME NEW i \in 1 .. Len(Tail(q)), NEW j \in 1 .. Len(Tail(q)), Tail(q)[i] = Tail(q)[j]
          PROVE  i = j
      <4>1. i + 1 \in 1 .. Len(q) /\ j + 1 \in 1 .. Len(q)
        BY <2>1
      <4>2. q[i + 1] = q[j + 1]
        BY <2>1, <3>1
      <4>3. i + 1 = j + 1
        BY <4>1, <4>2 DEF Distinct
      <4> QED
        BY <2>1, <4>3
    <3> HIDE DEF q
    <3> QED
      BY <3>1, <2>3, Zenon DEF Distinct
  <2>5. Waiting(x) \subseteq W /\ Woken(x) \subseteq Waiting(x)
    BY <2>1, <2>2 DEF Waiting
  <2>6. ASSUME NEW w \in Waiting(complete(x)) PROVE w \in Waiting(x) \ Woken(x)
    <3>1. PICK i \in 1 .. Len(q) - 1 : w = q[i + 1]
      BY <2>1, <2>3, <2>6 DEF Waiting
    <3>2. i + 1 \in 1 .. Len(q) /\ i + 1 # 1 /\ 1 \in 1 .. Len(q)
      BY <2>1
    <3> QED
      BY <3>1, <3>2, <2>2 DEF Waiting, Distinct
  <2>7. ASSUME NEW w \in Waiting(x) \ Woken(x) PROVE w \in Waiting(complete(x))
    <3>1. PICK i \in 1 .. Len(q) : w = q[i]
      BY <2>7 DEF Waiting
    <3>2. i - 1 \in 1 .. Len(q) - 1 /\ w = Tail(q)[i - 1]
      BY <3>1, <2>1, <2>2, <2>7
    <3> QED
      BY <3>2, <2>1, <2>3 DEF Waiting
  <2> QED
    BY <2>3, <2>4, <2>5, <2>6, <2>7
<1> QED
  BY <1>2, <1>3

(* Who falls asleep in a completion waits in it, after all the others. *)
LEMMA JoinEffect ==
  ASSUME NEW W, NEW x \in Completion(W), Distinct(x), NEW w \in W, w \notin Waiting(x)
  PROVE  /\ Joined(x, w) \in Completion(W)
         /\ Distinct(Joined(x, w))
         /\ Waiting(Joined(x, w)) = Waiting(x) \cup {w}
<1> DEFINE q == x.queue
           r == Append(q, w)
<1>1. x.done \in Nat /\ q \in Seq(W) /\ x = [done |-> x.done, queue |-> q]
  BY DEF Completion
<1>2. Joined(x, w) = [done |-> x.done, queue |-> r]
  <2>1. Joined(x, w) = [x EXCEPT !.queue = r]
    BY DEF Joined
  <2> HIDE DEF r
  <2> QED
    BY <1>1, <2>1
<1>3. /\ r \in Seq(W) /\ Len(r) = Len(q) + 1 /\ Len(q) \in Nat
      /\ r[Len(q) + 1] = w /\ \A i \in 1 .. Len(q) : r[i] = q[i]
  BY <1>1
<1>4. Joined(x, w) \in Completion(W) /\ Joined(x, w).queue = r
  BY <1>1, <1>2, <1>3 DEF Completion
<1>5. \A i \in 1 .. Len(q) : q[i] # w
  BY DEF Waiting
<1>6. Distinct(Joined(x, w))
  BY <1>3, <1>4, <1>5 DEF Distinct
<1>7. Waiting(Joined(x, w)) = Waiting(x) \cup {w}
  <2>1. \A v \in Waiting(Joined(x, w)) : v \in Waiting(x) \cup {w}
    BY <1>3, <1>4 DEF Waiting
  <2>2. \A v \in Waiting(x) \cup {w} : v \in Waiting(Joined(x, w))
    BY <1>3, <1>4 DEF Waiting
  <2> QED
    BY <2>1, <2>2
<1> QED
  BY <1>4, <1>6, <1>7

(* Taking or clearing `done' changes no waiter. *)
LEMMA CountEffect ==
  ASSUME NEW W, NEW x \in Completion(W), Distinct(x)
  PROVE  /\ reinit(x) \in Completion(W) /\ Distinct(reinit(x)) /\ Waiting(reinit(x)) = Waiting(x)
         /\ x.done > 0 => /\ Consumed(x) \in Completion(W)
                          /\ Distinct(Consumed(x)) /\ Waiting(Consumed(x)) = Waiting(x)
<1>1. x.done \in Nat /\ x.queue \in Seq(W) /\ x = [done |-> x.done, queue |-> x.queue]
  BY DEF Completion
<1>2. reinit(x) = [done |-> 0, queue |-> x.queue] /\ Consumed(x) = [done |-> x.done - 1, queue |-> x.queue]
  BY <1>1 DEF reinit, Consumed
<1> QED
  BY <1>1, <1>2 DEF Completion, Distinct, Waiting

(* The completion x with `done' at n and without its k-th waiter: what a thread *)
(* whose sleep a signal has broken leaves behind when it finds the test signalled. *)
Left(x, k, n) ==
  [done |-> n, queue |-> SubSeq(x.queue, 1, k - 1) \o SubSeq(x.queue, k + 1, Len(x.queue))]

(* A waiter that leaves takes itself, and nobody else, out of the completion. *)
LEMMA LeaveEffect ==
  ASSUME NEW W, NEW x \in Completion(W), Distinct(x), NEW k \in 1 .. Len(x.queue), NEW n \in Nat
  PROVE  /\ Left(x, k, n) \in Completion(W)
         /\ Distinct(Left(x, k, n))
         /\ Waiting(Left(x, k, n)) = Waiting(x) \ {x.queue[k]}
<1> DEFINE y == Left(x, k, n)
<1> DEFINE q == x.queue
           a == SubSeq(q, 1, k - 1)
           b == SubSeq(q, k + 1, Len(q))
           r == a \o b
<1>1. q \in Seq(W) /\ Len(q) \in Nat /\ k \in Nat \ {0} /\ k <= Len(q)
  BY DEF Completion
<1>2. /\ a \in Seq(W) /\ Len(a) = k - 1 /\ \A i \in 1 .. k - 1 : a[i] = q[i]
  BY <1>1
<1>3. /\ b \in Seq(W) /\ Len(b) = Len(q) - k /\ \A i \in 1 .. Len(q) - k : b[i] = q[k + i]
  BY <1>1
<1>4. /\ r \in Seq(W) /\ Len(r) = Len(q) - 1
      /\ \A i \in 1 .. Len(q) - 1 : r[i] = IF i < k THEN q[i] ELSE q[i + 1]
  <2>1. /\ r \in Seq(W) /\ Len(r) = Len(a) + Len(b)
        /\ \A i \in 1 .. Len(a) + Len(b) : r[i] = IF i <= Len(a) THEN a[i] ELSE b[i - Len(a)]
    <3> HIDE DEF a, b
    <3> QED
      BY <1>2, <1>3, ConcatProperties, Zenon
  <2> HIDE DEF a, b, r, q
  <2>2. Len(r) = Len(q) - 1
    BY <2>1, <1>1, <1>2, <1>3
  <2>3. ASSUME NEW i \in 1 .. Len(q) - 1 PROVE r[i] = IF i < k THEN q[i] ELSE q[i + 1]
    <3>1. CASE i < k
      BY <3>1, <2>1, <2>2, <1>1, <1>2
    <3>2. CASE ~(i < k)
      <4>1. i - (k - 1) \in 1 .. Len(q) - k /\ k + (i - (k - 1)) = i + 1 /\ ~(i <= k - 1)
        BY <3>2, <1>1
      <4>2. r[i] = b[i - (k - 1)]
        BY <4>1, <2>1, <2>2, <1>2
      <4> QED
        BY <3>2, <4>1, <4>2, <1>3
    <3> QED
      BY <3>1, <3>2
  <2> QED
    BY <2>1, <2>2, <2>3
<1> HIDE DEF r, q
<1>5. y \in Completion(W) /\ y.queue = r
  BY <1>4 DEF Left, Completion, r, q
<1> HIDE DEF y
<1>6. Distinct(y)
  <2>1. SUFFICES ASSUME NEW i \in 1 .. Len(q) - 1, NEW j \in 1 .. Len(q) - 1, r[i] = r[j]
                 PROVE  i = j
    BY <1>4, <1>5 DEF Distinct
  <2> DEFINE From(n0) == IF n0 < k THEN n0 ELSE n0 + 1
  <2>2. From(i) \in 1 .. Len(q) /\ From(j) \in 1 .. Len(q) /\ (From(i) = From(j) => i = j)
    BY <1>1
  <2>3. q[From(i)] = q[From(j)]
    BY <2>1, <1>1, <1>4
  <2> HIDE DEF From
  <2> QED
    BY <2>2, <2>3 DEF Distinct, q
<1>7. \A w \in Waiting(y) : w \in Waiting(x) \ {q[k]}
  <2>1. SUFFICES ASSUME NEW i \in 1 .. Len(q) - 1 PROVE r[i] \in Waiting(x) \ {q[k]}
    BY <1>4, <1>5 DEF Waiting
  <2>2. PICK j \in 1 .. Len(q) : r[i] = q[j] /\ j # k
    <3>1. i \in 1 .. Len(q) /\ i + 1 \in 1 .. Len(q)
      BY <1>1
    <3> QED
      BY <3>1, <1>1, <1>4
  <2> QED
    BY <2>2 DEF Waiting, Distinct, q
<1>8. \A w \in Waiting(x) \ {q[k]} : w \in Waiting(y)
  <2>1. SUFFICES ASSUME NEW i \in 1 .. Len(q), i # k PROVE q[i] \in Waiting(y)
    BY DEF Waiting, q
  <2>2. PICK j \in 1 .. Len(q) - 1 : r[j] = q[i]
    <3>1. CASE i < k
      BY <3>1, <1>1, <1>4
    <3>2. CASE i > k
      <4>1. i - 1 \in 1 .. Len(q) - 1 /\ ~(i - 1 < k) /\ i - 1 + 1 = i
        BY <3>2, <1>1
      <4> QED
        BY <4>1, <1>4
    <3> QED
      BY <3>1, <3>2, <2>1, <1>1
  <2> QED
    BY <2>2, <1>4, <1>5 DEF Waiting
<1>9. Waiting(y) = Waiting(x) \ {q[k]}
  BY <1>7, <1>8
<1> QED
  BY <1>5, <1>6, <1>9 DEF q, y
-----------------------------------------------------------------------------
(***************************************************************************)
(* The inductive invariant.  A task or thread that waits in a completion   *)
(* is asleep in that wait, once; only a call that was made has a thread;   *)
(* and while a task is in a hook its call has its data and a reference.    *)
(***************************************************************************)
WaitersAsleep ==
  /\ Distinct(analyzer_ready) /\ Distinct(analyzer_mmap_done) /\ Distinct(analyzer_munmap_ready)
  /\ \A t \in Task :
       /\ t \in Waiting(analyzer_ready) => pc[t] = "sleep_ready"
       /\ t \in Waiting(analyzer_mmap_done) => pc[t] = "sleep_mmap"
  /\ \A c \in Call : c \in Waiting(analyzer_munmap_ready) => th[c] \in {"asleep", "poked"}

CallsToCome ==
  \A t \in Task : \A k \in 1 .. MaxCalls[t] :
    k > calls[t] => th[<<t, k>>] = "none" /\ <<t, k>> \notin freed

HookHasItsData ==
  \A t \in Task : pc[t] # "idle" =>
    /\ calls[t] \in 1 .. MaxCalls[t]
    /\ ThisCall(t) \in mm_refs
    /\ ThisCall(t) \notin freed
    /\ pc[t] = "start" => th[ThisCall(t)] = "none"

IInv ==
  /\ TypeOK
  /\ WaitersAsleep
  /\ CallsToCome
  /\ HookHasItsData
  /\ ThreadKeepsItsData

(* Results and answers are well typed. *)
LEMMA ResultTypes ==
  /\ {Pending, Allowed, Unasked, Invalid, NoMem} \subseteq Result
  /\ Verdict \subseteq Result
  /\ Unset \in Verdict
  /\ \A a \in Call \cup {Startup}, b \in BOOLEAN : [about |-> a, clean |-> b] \in Verdict
  BY DEF Result, Verdict, Unset

(* No call was made and nobody waits when the module is loaded. *)
LEMMA InitInvariant == Init => IInv
<1> SUFFICES ASSUME Init PROVE IInv
  OBVIOUS
<1>1. \A W : Fresh \in Completion(W) /\ Distinct(Fresh) /\ Waiting(Fresh) = {}
  BY FreshEffect
<1>2. TypeOK
  <2>1. calls \in [Task -> Nat] /\ \A t \in Task : calls[t] <= MaxCalls[t]
    BY McheckNetlinkAssumption DEF Init
  <2>2. inbox \in [Analyzer -> Seq(Call)]
    BY DEF Init
  <2> QED
    BY <1>1, <2>1, <2>2, ResultTypes DEF Init, TypeOK, PC, ThreadPC
<1>3. WaitersAsleep
  BY <1>1 DEF Init, WaitersAsleep
<1>4. CallsToCome
  BY CallsOfTasks DEF Init, CallsToCome
<1>5. HookHasItsData
  BY DEF Init, HookHasItsData
<1>6. ThreadKeepsItsData
  BY DEF Init, ThreadKeepsItsData
<1> QED
  BY <1>2, <1>3, <1>4, <1>5, <1>6 DEF IInv

(* Waiters are not disturbed by a step that wakes none of them. *)
LEMMA WaitersKept ==
  ASSUME WaitersAsleep, UNCHANGED completions,
         \A t \in Task : pc[t] \in {"sleep_ready", "sleep_mmap"} => pc'[t] = pc[t],
         \A c \in Call : th[c] \in {"asleep", "poked"} => th'[c] \in {"asleep", "poked"}
  PROVE  WaitersAsleep'
<1>1. /\ analyzer_ready' = analyzer_ready
      /\ analyzer_mmap_done' = analyzer_mmap_done
      /\ analyzer_munmap_ready' = analyzer_munmap_ready
  BY DEF completions
<1> QED
  BY <1>1 DEF WaitersAsleep

(* A hook that starts has its data and a reference, and no thread yet. *)
LEMMA EnterHookInvariant ==
  ASSUME IInv, NEW t \in Task, NEW k \in {"mmap", "mprotect", "bpf"}, EnterHook(t, k)
  PROVE  IInv'
<1> DEFINE c == <<t, calls[t] + 1>>
<1>1. /\ calls[t] \in Nat /\ calls[t] < MaxCalls[t] /\ MaxCalls[t] \in Nat
      /\ calls[t] + 1 \in 1 .. MaxCalls[t] /\ c \in Call
  <2>1. calls[t] \in Nat
    BY DEF IInv, TypeOK
  <2>2. calls[t] < MaxCalls[t]
    BY DEF EnterHook, Gates
  <2>3. MaxCalls[t] \in Nat /\ \A n : <<t, n>> \in Call <=> n \in 1 .. MaxCalls[t]
    BY CallsOfTasks
  <2>4. calls[t] + 1 \in 1 .. MaxCalls[t]
    BY <2>1, <2>2, <2>3
  <2> QED
    BY <2>1, <2>2, <2>3, <2>4
<1>2. TypeOK'
  <2>1. pc' \in [Task -> PC] /\ result' \in [Call -> Result] /\ mm_refs' \subseteq Call
    <3>1. PICK p \in {"idle", "start"} : pc' = [pc EXCEPT ![t] = p]
      BY DEF EnterHook, Gates, Goto, Return
    <3>2. result' = result \/ \E r \in {Allowed, Invalid, NoMem} : result' = [result EXCEPT ![c] = r]
      BY DEF EnterHook, Gates, Goto, Return
    <3>3. mm_refs' = mm_refs \/ mm_refs' = mm_refs \cup {c}
      BY DEF EnterHook, Gates
    <3>4. pc' \in [Task -> PC]
      BY <3>1 DEF IInv, TypeOK, PC
    <3>5. result' \in [Call -> Result]
      <4>1. result \in [Call -> Result]
        BY DEF IInv, TypeOK
      <4> QED
        BY <1>1, <3>2, <4>1, ResultTypes
    <3>6. mm_refs' \subseteq Call
      BY <1>1, <3>3 DEF IInv, TypeOK
    <3> QED
      BY <3>4, <3>5, <3>6
  <2>2. /\ kind' \in [Call -> {"mmap", "mprotect", "bpf"}] /\ asked' \in [Task -> BOOLEAN]
        /\ calls' \in [Task -> Nat] /\ \A u \in Task : calls'[u] <= MaxCalls[u]
    BY <1>1 DEF IInv, TypeOK, EnterHook, Gates
  <2> QED
    BY <2>1, <2>2 DEF IInv, TypeOK, EnterHook, Gates, answer, completions, threads, analyzers
<1>3. WaitersAsleep'
  <2>1. \A u \in Task : pc[u] \in {"sleep_ready", "sleep_mmap"} => pc'[u] = pc[u]
    BY DEF IInv, TypeOK, EnterHook, Gates, Goto, Return
  <2> QED
    BY <2>1, WaitersKept DEF IInv, EnterHook, Gates, threads
<1>4. CallsToCome'
  BY <1>1, CallsOfTasks DEF IInv, TypeOK, CallsToCome, EnterHook, Gates, threads
<1>5. HookHasItsData'
  BY <1>1, CallsOfTasks DEF IInv, TypeOK, CallsToCome, HookHasItsData, ThisCall, EnterHook, Gates, Goto, Return, threads
<1>6. ThreadKeepsItsData'
  BY <1>1 DEF IInv, TypeOK, ThreadKeepsItsData, EnterHook, Gates, threads
<1> QED
  BY <1>2, <1>3, <1>4, <1>5, <1>6 DEF IInv

(* The call of a task in a hook is a call, and no other task is in it. *)
LEMMA CallInHook ==
  ASSUME IInv, NEW t \in Task, pc[t] # "idle"
  PROVE  /\ ThisCall(t) \in Call
         /\ \A u \in Task : u # t => ThisCall(u) # ThisCall(t)
<1>1. ThisCall(t) \in Call
  BY CallsOfTasks DEF IInv, HookHasItsData, ThisCall
<1> QED
  BY <1>1 DEF ThisCall

(***************************************************************************)
(* What a step does that frees nothing and starts nothing: tasks in a hook *)
(* move on, threads that run move on, and all of them keep their data.     *)
(***************************************************************************)
LEMMA DataKept ==
  ASSUME IInv, UNCHANGED <<calls, freed, mm_refs>>,
         \A u \in Task : pc'[u] = pc[u] \/ (pc[u] # "idle" /\ pc'[u] # "start"),
         \A c \in Call : th'[c] = th[c] \/ th[c] \notin {"none", "exited"}
  PROVE  CallsToCome' /\ HookHasItsData' /\ ThreadKeepsItsData'
<1>1. CallsToCome'
  <2>1. SUFFICES ASSUME NEW t \in Task, NEW k \in 1 .. MaxCalls[t], k > calls[t]
                 PROVE  th'[<<t, k>>] = "none" /\ <<t, k>> \notin freed
    BY DEF CallsToCome
  <2>2. <<t, k>> \in Call
    BY CallsOfTasks
  <2> QED
    BY <2>1, <2>2 DEF IInv, CallsToCome
<1>2. HookHasItsData'
  <2>1. SUFFICES ASSUME NEW t \in Task, pc'[t] # "idle"
                 PROVE  /\ calls[t] \in 1 .. MaxCalls[t]
                        /\ ThisCall(t) \in mm_refs
                        /\ ThisCall(t) \notin freed
                        /\ pc'[t] = "start" => th'[ThisCall(t)] = "none"
    BY DEF HookHasItsData, ThisCall
  <2>2. pc[t] # "idle"
    BY <2>1
  <2>3. ThisCall(t) \in Call
    BY <2>2, CallInHook
  <2> QED
    BY <2>1, <2>2, <2>3 DEF IInv, HookHasItsData
<1>3. ThreadKeepsItsData'
  BY DEF IInv, ThreadKeepsItsData
<1> QED
  BY <1>1, <1>2, <1>3

(* A step of a hook that changes only where the task is, and its result. *)
LEMMA QuietStep ==
  ASSUME IInv, NEW t \in Task, NEW p \in PC \ {"start"}, pc[t] \notin {"idle", "sleep_ready", "sleep_mmap"},
         pc' = [pc EXCEPT ![t] = p],
         result' = result \/ \E r \in Result : result' = [result EXCEPT ![ThisCall(t)] = r],
         UNCHANGED <<answer, completions, kind, calls, threads, freed, mm_refs, mapped, started, alive, working>>,
         asked' \in [Task -> BOOLEAN], lock_kept' \in BOOLEAN, inbox' \in [Analyzer -> Seq(Call)]
  PROVE  IInv'
<1>1. TypeOK'
  <2>1. pc' \in [Task -> PC]
    BY DEF IInv, TypeOK
  <2>2. result' \in [Call -> Result]
    <3>1. result \in [Call -> Result]
      BY DEF IInv, TypeOK
    <3> QED
      BY <3>1, CallInHook
  <2> QED
    BY <2>1, <2>2 DEF IInv, TypeOK, answer, completions, threads
<1>2. WaitersAsleep'
  <2>1. \A u \in Task : pc[u] \in {"sleep_ready", "sleep_mmap"} => pc'[u] = pc[u]
    BY DEF IInv, TypeOK
  <2> QED
    BY <2>1, WaitersKept DEF IInv, threads
<1>3. CallsToCome' /\ HookHasItsData' /\ ThreadKeepsItsData'
  <2>1. \A u \in Task : pc'[u] = pc[u] \/ (pc[u] # "idle" /\ pc'[u] # "start")
    BY DEF IInv, TypeOK
  <2> QED
    BY <2>1, DataKept DEF threads
<1> QED
  BY <1>1, <1>2, <1>3 DEF IInv

(* Counting or pinning pages only sends the hook on or ends it. *)
LEMMA PinPagesInvariant ==
  ASSUME IInv, NEW t \in Task, PinPages(t)
  PROVE  IInv'
<1>1. PICK p \in PC \ {"start"} : pc' = [pc EXCEPT ![t] = p]
  BY DEF PinPages, Goto, Return, PC
<1>2. result' = result \/ \E r \in Result : result' = [result EXCEPT ![ThisCall(t)] = r]
  BY ResultTypes DEF PinPages, Return
<1>3. asked' \in [Task -> BOOLEAN] /\ lock_kept' \in BOOLEAN /\ inbox' \in [Analyzer -> Seq(Call)]
  BY DEF PinPages, memory, analyzers, IInv, TypeOK
<1> QED
  BY <1>1, <1>2, <1>3, QuietStep DEF PinPages, memory, analyzers

(* So does the test of the address. *)
LEMMA CheckAddressInvariant ==
  ASSUME IInv, NEW t \in Task, CheckAddress(t)
  PROVE  IInv'
<1>1. PICK p \in PC \ {"start"} : pc' = [pc EXCEPT ![t] = p]
  BY DEF CheckAddress, Goto, PC
<1>2. asked' \in [Task -> BOOLEAN] /\ lock_kept' \in BOOLEAN /\ inbox' \in [Analyzer -> Seq(Call)]
  BY DEF CheckAddress, memory, analyzers, IInv, TypeOK
<1> QED
  BY <1>1, <1>2, QuietStep DEF CheckAddress, memory, analyzers

(* So does the mapping of the pages in the analyzer. *)
LEMMA RemapInvariant ==
  ASSUME IInv, NEW t \in Task, Remap(t)
  PROVE  IInv'
<1>1. PICK p \in PC \ {"start"} : pc' = [pc EXCEPT ![t] = p]
  BY DEF Remap, Goto, Return, PC
<1>2. result' = result \/ \E r \in Result : result' = [result EXCEPT ![ThisCall(t)] = r]
  BY ResultTypes DEF Remap, Return
<1>3. asked' \in [Task -> BOOLEAN] /\ lock_kept' \in BOOLEAN /\ inbox' \in [Analyzer -> Seq(Call)]
  BY DEF Remap, analyzers, IInv, TypeOK
<1> QED
  BY <1>1, <1>2, <1>3, QuietStep DEF Remap, analyzers

(* So does the report to the analyzer. *)
LEMMA SendInvariant ==
  ASSUME IInv, NEW t \in Task, Send(t)
  PROVE  IInv'
<1>1. "await_ready" \in PC \ {"start"} /\ pc' = [pc EXCEPT ![t] = "await_ready"]
  BY DEF Send, Goto, PC
<1>2. asked' \in [Task -> BOOLEAN] /\ lock_kept' \in BOOLEAN
  BY DEF Send, memory, IInv, TypeOK
<1>3. inbox' \in [Analyzer -> Seq(Call)]
  <2>1. ThisCall(t) \in Call /\ inbox \in [Analyzer -> Seq(Call)]
    BY CallInHook DEF Send, IInv, TypeOK
  <2>2. \A a \in Analyzer : Append(inbox[a], ThisCall(t)) \in Seq(Call) /\ inbox[a] \in Seq(Call)
    BY <2>1
  <2>3. CASE inbox' = inbox
    BY <2>1, <2>3
  <2>4. CASE inbox' = [a \in Analyzer |-> IF a \in alive THEN Append(inbox[a], ThisCall(t)) ELSE inbox[a]]
    BY <2>2, <2>4
  <2> QED
    BY <2>3, <2>4 DEF Send
<1> QED
  BY <1>1, <1>2, <1>3, QuietStep DEF Send, memory

(* A thread is started while its data exists. *)
LEMMA StartThreadInvariant ==
  ASSUME IInv, NEW t \in Task, StartThread(t)
  PROVE  IInv'
<1> DEFINE c == ThisCall(t)
<1>1. /\ c \in Call /\ \A u \in Task : u # t => ThisCall(u) # c
      /\ c \in mm_refs /\ c \notin freed /\ calls[t] \in 1 .. MaxCalls[t] /\ th[c] = "none"
  BY CallInHook DEF StartThread, IInv, HookHasItsData
<1>2. \E p \in {"pin", "await_mmap", "idle"} : pc' = [pc EXCEPT ![t] = p]
  BY DEF StartThread, Goto, Return
<1>3. \/ th' = [th EXCEPT ![c] = "created"] /\ freed' = freed /\ result' = result
      \/ /\ th' = th /\ freed' = freed \cup {c} /\ result' = [result EXCEPT ![c] = Unasked]
         /\ pc' = [pc EXCEPT ![t] = "idle"]
  BY DEF StartThread, Goto, Return
<1>4. TypeOK'
  <2>1. pc' \in [Task -> PC]
    BY <1>2 DEF IInv, TypeOK, PC
  <2>2. result' \in [Call -> Result]
    <3>1. result \in [Call -> Result] /\ Unasked \in Result
      BY ResultTypes DEF IInv, TypeOK
    <3> QED
      BY <3>1, <1>1, <1>3
  <2>3. th' \in [Call -> ThreadPC] /\ freed' \subseteq Call
    BY <1>1, <1>3 DEF IInv, TypeOK, ThreadPC
  <2>4. analyzer_mmap_done' \in Completion(Task)
    BY FreshEffect DEF StartThread
  <2> QED
    BY <2>1, <2>2, <2>3, <2>4 DEF IInv, TypeOK, StartThread, answer, analyzers
<1>5. WaitersAsleep'
  <2>1. Distinct(Fresh) /\ Waiting(Fresh) = {}
    BY FreshEffect
  <2>2. \A u \in Task : pc[u] \in {"sleep_ready", "sleep_mmap"} => pc'[u] = pc[u]
    BY <1>2 DEF IInv, TypeOK, StartThread
  <2>3. \A d \in Call : th[d] \in {"asleep", "poked"} => th'[d] = th[d]
    BY <1>1, <1>3 DEF IInv, TypeOK
  <2> QED
    BY <2>1, <2>2, <2>3 DEF IInv, WaitersAsleep, StartThread
<1>6. CallsToCome'
  <2>1. \A u \in Task : \A k \in 1 .. MaxCalls[u] : k > calls[u] => <<u, k>> # c /\ <<u, k>> \in Call
    BY CallsOfTasks, <1>1 DEF ThisCall, IInv, TypeOK
  <2>2. \A d \in Call : d # c => th'[d] = th[d] /\ (d \in freed' => d \in freed)
    BY <1>3 DEF IInv, TypeOK
  <2>3. calls' = calls
    BY DEF StartThread
  <2> QED
    BY <2>1, <2>2, <2>3 DEF IInv, CallsToCome
<1>7. HookHasItsData'
  <2>1. calls' = calls /\ mm_refs' = mm_refs
    BY DEF StartThread
  <2>2. SUFFICES ASSUME NEW u \in Task, pc'[u] # "idle"
                 PROVE  /\ calls[u] \in 1 .. MaxCalls[u]
                        /\ ThisCall(u) \in mm_refs
                        /\ ThisCall(u) \notin freed'
                        /\ pc'[u] = "start" => th'[ThisCall(u)] = "none"
    BY <2>1 DEF HookHasItsData, ThisCall
  <2>3. CASE u = t
    <3>1. pc'[t] # "start" /\ freed' = freed
      BY <1>2, <1>3, <2>2, <2>3 DEF IInv, TypeOK
    <3> QED
      BY <3>1, <2>3, <1>1
  <2>4. CASE u # t
    <3>1. pc'[u] = pc[u] /\ ThisCall(u) # c
      BY <1>1, <1>2, <2>4 DEF IInv, TypeOK
    <3>2. ThisCall(u) \in Call
      BY <3>1, <2>2, CallInHook
    <3>3. th'[ThisCall(u)] = th[ThisCall(u)] /\ (ThisCall(u) \in freed' => ThisCall(u) \in freed)
      BY <3>1, <3>2, <1>3 DEF IInv, TypeOK
    <3> QED
      BY <3>1, <3>3, <2>2 DEF IInv, HookHasItsData
  <2> QED
    BY <2>3, <2>4
<1>8. ThreadKeepsItsData'
  <2>1. mm_refs' = mm_refs
    BY DEF StartThread
  <2>2. \A d \in Call : d # c => th'[d] = th[d] /\ (d \in freed' => d \in freed)
    BY <1>3 DEF IInv, TypeOK
  <2>3. th'[c] \notin {"none", "exited"} => c \in mm_refs /\ c \notin freed'
    BY <1>1, <1>3
  <2> QED
    BY <2>1, <2>2, <2>3 DEF IInv, ThreadKeepsItsData
<1> QED
  BY <1>4, <1>5, <1>6, <1>7, <1>8 DEF IInv

(* A task that tests a completion takes it or falls asleep in it. *)
LEMMA AwaitMmapDoneInvariant ==
  ASSUME IInv, NEW t \in Task, AwaitMmapDone(t)
  PROVE  IInv'
<1> DEFINE x == analyzer_mmap_done
<1>1. x \in Completion(Task) /\ Distinct(x) /\ t \notin Waiting(x)
  BY DEF IInv, TypeOK, WaitersAsleep, AwaitMmapDone
<1>2. /\ x.done \in Nat
      /\ x' \in Completion(Task) /\ Distinct(x')
      /\ \/ Waiting(x') = Waiting(x) /\ pc' = [pc EXCEPT ![t] = "mapped"]
         \/ Waiting(x') = Waiting(x) \cup {t} /\ pc' = [pc EXCEPT ![t] = "sleep_mmap"]
  <2>1. x.done \in Nat
    BY <1>1 DEF Completion
  <2>2. CASE x.done > 0
    <3>1. x' = Consumed(x) /\ pc' = [pc EXCEPT ![t] = "mapped"]
      BY <2>2 DEF AwaitMmapDone, Goto
    <3> QED
      BY <1>1, <2>1, <2>2, <3>1, CountEffect
  <2>3. CASE ~(x.done > 0)
    <3>1. x' = Joined(x, t) /\ pc' = [pc EXCEPT ![t] = "sleep_mmap"]
      BY <2>3 DEF AwaitMmapDone, Goto
    <3> QED
      BY <1>1, <2>1, <3>1, JoinEffect
  <2> QED
    BY <2>2, <2>3
<1>3. TypeOK'
  BY <1>2 DEF IInv, TypeOK, PC, AwaitMmapDone, answer, threads, memory, analyzers
<1>4. WaitersAsleep'
  <2>1. \A u \in Task : u # t => pc'[u] = pc[u]
    BY <1>2 DEF IInv, TypeOK
  <2>2. pc[t] = "await_mmap" /\ th' = th
    BY DEF AwaitMmapDone, threads
  <2>3. t \notin Waiting(analyzer_ready) /\ (t \in Waiting(x') => pc'[t] = "sleep_mmap")
    BY <1>1, <1>2, <2>2 DEF IInv, TypeOK, WaitersAsleep
  <2> QED
    BY <1>2, <2>1, <2>2, <2>3 DEF IInv, WaitersAsleep, AwaitMmapDone
<1>5. CallsToCome' /\ HookHasItsData' /\ ThreadKeepsItsData'
  <2>1. \A u \in Task : pc'[u] = pc[u] \/ (pc[u] # "idle" /\ pc'[u] # "start")
    BY <1>2 DEF IInv, TypeOK, AwaitMmapDone
  <2> QED
    BY <2>1, DataKept DEF AwaitMmapDone, threads, memory
<1> QED
  BY <1>3, <1>4, <1>5 DEF IInv

(* So does the wait for the verdict. *)
LEMMA AwaitReadyInvariant ==
  ASSUME IInv, NEW t \in Task, AwaitReady(t)
  PROVE  IInv'
<1> DEFINE x == analyzer_ready
<1>1. x \in Completion(Task) /\ Distinct(x) /\ t \notin Waiting(x)
  BY DEF IInv, TypeOK, WaitersAsleep, AwaitReady
<1>2. /\ x.done \in Nat
      /\ x' \in Completion(Task) /\ Distinct(x')
      /\ \/ Waiting(x') = Waiting(x) /\ pc' = [pc EXCEPT ![t] = "reinit"]
         \/ Waiting(x') = Waiting(x) \cup {t} /\ pc' = [pc EXCEPT ![t] = "sleep_ready"]
  <2>1. x.done \in Nat
    BY <1>1 DEF Completion
  <2>2. CASE x.done > 0
    <3>1. x' = Consumed(x) /\ pc' = [pc EXCEPT ![t] = "reinit"]
      BY <2>2 DEF AwaitReady, Goto
    <3> QED
      BY <1>1, <2>1, <2>2, <3>1, CountEffect
  <2>3. CASE ~(x.done > 0)
    <3>1. x' = Joined(x, t) /\ pc' = [pc EXCEPT ![t] = "sleep_ready"]
      BY <2>3 DEF AwaitReady, Goto
    <3> QED
      BY <1>1, <2>1, <3>1, JoinEffect
  <2> QED
    BY <2>2, <2>3
<1>3. TypeOK'
  BY <1>2 DEF IInv, TypeOK, PC, AwaitReady, answer, threads, memory, analyzers
<1>4. WaitersAsleep'
  <2>1. \A u \in Task : u # t => pc'[u] = pc[u]
    BY <1>2 DEF IInv, TypeOK
  <2>2. pc[t] = "await_ready" /\ th' = th
    BY DEF AwaitReady, threads
  <2>3. t \notin Waiting(analyzer_mmap_done) /\ (t \in Waiting(x') => pc'[t] = "sleep_ready")
    BY <1>1, <1>2, <2>2 DEF IInv, TypeOK, WaitersAsleep
  <2> QED
    BY <1>2, <2>1, <2>2, <2>3 DEF IInv, WaitersAsleep, AwaitReady
<1>5. CallsToCome' /\ HookHasItsData' /\ ThreadKeepsItsData'
  <2>1. \A u \in Task : pc'[u] = pc[u] \/ (pc[u] # "idle" /\ pc'[u] # "start")
    BY <1>2 DEF IInv, TypeOK, AwaitReady
  <2> QED
    BY <2>1, DataKept DEF AwaitReady, threads, memory
<1> QED
  BY <1>3, <1>4, <1>5 DEF IInv

(* Initialising the completion of the verdict again forgets its waiters. *)
LEMMA ReinitReadyInvariant ==
  ASSUME IInv, NEW t \in Task, ReinitReady(t)
  PROVE  IInv'
<1> DEFINE x == analyzer_ready
<1>1. /\ x' \in Completion(Task) /\ Distinct(x') /\ Waiting(x') = Waiting(x)
      /\ pc[t] = "reinit" /\ pc' = [pc EXCEPT ![t] = "release"]
  BY CountEffect DEF IInv, TypeOK, WaitersAsleep, ReinitReady, Goto
<1>2. TypeOK'
  BY <1>1 DEF IInv, TypeOK, PC, ReinitReady, answer, threads, memory, analyzers
<1>3. WaitersAsleep'
  <2>1. \A u \in Task : pc[u] \in {"sleep_ready", "sleep_mmap"} => pc'[u] = pc[u]
    BY <1>1 DEF IInv, TypeOK
  <2> QED
    BY <1>1, <2>1 DEF IInv, WaitersAsleep, ReinitReady, threads
<1>4. CallsToCome' /\ HookHasItsData' /\ ThreadKeepsItsData'
  <2>1. \A u \in Task : pc'[u] = pc[u] \/ (pc[u] # "idle" /\ pc'[u] # "start")
    BY <1>1 DEF IInv, TypeOK
  <2> QED
    BY <2>1, DataKept DEF ReinitReady, threads, memory
<1> QED
  BY <1>2, <1>3, <1>4 DEF IInv

(* A hook that lets its thread unmap wakes one that sleeps for it, or the count. *)
LEMMA ReleaseThreadInvariant ==
  ASSUME IInv, NEW t \in Task, ReleaseThread(t)
  PROVE  IInv'
<1> DEFINE x == analyzer_munmap_ready
<1>1. x \in Completion(Call) /\ Distinct(x)
  BY DEF IInv, TypeOK, WaitersAsleep
<1>2. /\ x' \in Completion(Call) /\ Distinct(x')
      /\ Woken(x) \subseteq Waiting(x) /\ Waiting(x') = Waiting(x) \ Woken(x)
  BY <1>1, CompleteEffect DEF ReleaseThread
<1>3. \A c \in Call : \/ c \notin Woken(x) /\ th'[c] = th[c]
                      \/ c \in Woken(x) /\ th'[c] = "await" /\ th[c] \in {"asleep", "poked"}
  BY <1>2 DEF IInv, WaitersAsleep, ReleaseThread
<1>4. pc[t] = "release" /\ pc' = [pc EXCEPT ![t] = "stop"]
  BY DEF ReleaseThread, Goto
<1>5. TypeOK'
  <2>1. th' \in [Call -> ThreadPC]
    BY DEF IInv, TypeOK, ThreadPC, ReleaseThread
  <2>2. pc' \in [Task -> PC]
    BY <1>4 DEF IInv, TypeOK, PC
  <2> QED
    BY <1>2, <2>1, <2>2 DEF IInv, TypeOK, ReleaseThread, answer, memory, analyzers
<1>6. WaitersAsleep'
  <2>1. \A u \in Task : pc[u] \in {"sleep_ready", "sleep_mmap"} => pc'[u] = pc[u]
    BY <1>4 DEF IInv, TypeOK
  <2>2. \A c \in Call : c \in Waiting(x') => th'[c] \in {"asleep", "poked"}
    BY <1>2, <1>3 DEF IInv, WaitersAsleep
  <2> QED
    BY <1>2, <2>1, <2>2 DEF IInv, WaitersAsleep, ReleaseThread
<1>7. CallsToCome' /\ HookHasItsData' /\ ThreadKeepsItsData'
  <2>1. \A u \in Task : pc'[u] = pc[u] \/ (pc[u] # "idle" /\ pc'[u] # "start")
    BY <1>4 DEF IInv, TypeOK
  <2>2. \A c \in Call : th'[c] = th[c] \/ th[c] \notin {"none", "exited"}
    BY <1>3
  <2> QED
    BY <2>1, <2>2, DataKept DEF ReleaseThread, memory
<1> QED
  BY <1>5, <1>6, <1>7 DEF IInv

(* kthread_stop breaks the sleep of a thread and starts none. *)
LEMMA StopThreadInvariant ==
  ASSUME IInv, NEW t \in Task, StopThread(t)
  PROVE  IInv'
<1> DEFINE c == ThisCall(t)
<1>1. pc[t] = "stop" /\ pc' = [pc EXCEPT ![t] = "join"] /\ c \in Call
  BY CallInHook DEF StopThread, Goto
<1>2. \A d \in Call : th'[d] = th[d] \/ (th[d] = "asleep" /\ th'[d] = "poked")
  BY <1>1 DEF IInv, TypeOK, StopThread
<1>3. TypeOK'
  <2>1. th' \in [Call -> ThreadPC]
    BY <1>1 DEF IInv, TypeOK, ThreadPC, StopThread
  <2>2. pc' \in [Task -> PC] /\ stop' \subseteq Call
    BY <1>1 DEF IInv, TypeOK, PC, StopThread
  <2> QED
    BY <2>1, <2>2 DEF IInv, TypeOK, StopThread, answer, completions, memory, analyzers
<1>4. WaitersAsleep'
  <2>1. \A u \in Task : pc[u] \in {"sleep_ready", "sleep_mmap"} => pc'[u] = pc[u]
    BY <1>1 DEF IInv, TypeOK
  <2>2. \A d \in Call : th[d] \in {"asleep", "poked"} => th'[d] \in {"asleep", "poked"}
    BY <1>2
  <2> QED
    BY <2>1, <2>2, WaitersKept DEF IInv, StopThread
<1>5. CallsToCome' /\ HookHasItsData' /\ ThreadKeepsItsData'
  <2>1. \A u \in Task : pc'[u] = pc[u] \/ (pc[u] # "idle" /\ pc'[u] # "start")
    BY <1>1 DEF IInv, TypeOK
  <2>2. \A d \in Call : th'[d] = th[d] \/ th[d] \notin {"none", "exited"}
    BY <1>2
  <2> QED
    BY <2>1, <2>2, DataKept DEF StopThread, memory
<1> QED
  BY <1>3, <1>4, <1>5 DEF IInv

(* The hook frees the data of a call once its thread has exited, or never was. *)
LEMMA JoinThreadInvariant ==
  ASSUME IInv, NEW t \in Task, JoinThread(t)
  PROVE  IInv'
<1> DEFINE c == ThisCall(t)
<1>1. /\ c \in Call /\ \A u \in Task : u # t => ThisCall(u) # c
      /\ calls[t] \in 1 .. MaxCalls[t] /\ th[c] = "exited"
      /\ pc[t] = "join" /\ pc' = [pc EXCEPT ![t] = "idle"]
      /\ th' = th /\ calls' = calls
  BY CallInHook DEF JoinThread, IInv, HookHasItsData, Goto, Return, threads
<1>2. /\ freed' = freed \cup {c}
      /\ mm_refs' \subseteq mm_refs
      /\ \A d \in mm_refs : d # c => d \in mm_refs'
  BY DEF JoinThread
<1>3. TypeOK'
  <2>1. result' \in [Call -> Result]
    <3>1. result \in [Call -> Result] /\ analyzer_response \in Result /\ Unasked \in Result
      BY ResultTypes DEF IInv, TypeOK
    <3>2. \E r \in {analyzer_response, Unasked} : result' = [result EXCEPT ![c] = r]
      BY DEF JoinThread, Return
    <3> QED
      BY <1>1, <3>1, <3>2
  <2>2. pc' \in [Task -> PC]
    BY <1>1 DEF IInv, TypeOK, PC
  <2>3. freed' \subseteq Call /\ mm_refs' \subseteq Call
    BY <1>1, <1>2 DEF IInv, TypeOK
  <2> QED
    BY <2>1, <2>2, <2>3 DEF IInv, TypeOK, JoinThread, answer, completions, threads, analyzers
<1>4. WaitersAsleep'
  <2>1. \A u \in Task : pc[u] \in {"sleep_ready", "sleep_mmap"} => pc'[u] = pc[u]
    BY <1>1 DEF IInv, TypeOK
  <2> QED
    BY <1>1, <2>1, WaitersKept DEF IInv, JoinThread
<1>5. CallsToCome'
  <2>1. \A u \in Task : \A k \in 1 .. MaxCalls[u] : k > calls[u] => <<u, k>> # c
    BY <1>1 DEF ThisCall, IInv, TypeOK
  <2> QED
    BY <1>1, <1>2, <2>1 DEF IInv, CallsToCome
<1>6. HookHasItsData'
  <2>1. SUFFICES ASSUME NEW u \in Task, pc'[u] # "idle"
                 PROVE  /\ calls[u] \in 1 .. MaxCalls[u]
                        /\ ThisCall(u) \in mm_refs'
                        /\ ThisCall(u) \notin freed'
                        /\ pc'[u] = "start" => th[ThisCall(u)] = "none"
    BY <1>1 DEF HookHasItsData, ThisCall
  <2>2. u # t /\ pc'[u] = pc[u]
    BY <1>1, <2>1 DEF IInv, TypeOK
  <2>3. ThisCall(u) # c
    BY <1>1, <2>2
  <2> QED
    BY <1>2, <2>1, <2>2, <2>3 DEF IInv, HookHasItsData
<1>7. ThreadKeepsItsData'
  BY <1>1, <1>2 DEF IInv, ThreadKeepsItsData
<1> QED
  BY <1>3, <1>4, <1>5, <1>6, <1>7 DEF IInv

(* Every step of a hook preserves the invariant. *)
LEMMA HookStepInvariant ==
  ASSUME IInv, NEW t \in Task, HookStep(t)
  PROVE  IInv'
  BY StartThreadInvariant, PinPagesInvariant, AwaitMmapDoneInvariant, CheckAddressInvariant,
     RemapInvariant, SendInvariant, AwaitReadyInvariant, ReinitReadyInvariant,
     ReleaseThreadInvariant, StopThreadInvariant, JoinThreadInvariant
  DEF HookStep

-----------------------------------------------------------------------------
(* A step of a thread that touches no completion. *)
LEMMA QuietThreadStep ==
  ASSUME IInv, NEW c \in Call, NEW p \in ThreadPC,
         th[c] \notin {"none", "exited", "asleep", "poked"}, th' = [th EXCEPT ![c] = p],
         UNCHANGED <<answer, completions, hooks, freed, mm_refs, analyzers>>,
         address' \in [Call -> {"none", "mapped", "error"}],
         stop' \subseteq Call, mapped' \subseteq Call, lock_kept' \in BOOLEAN
  PROVE  IInv'
<1>1. TypeOK'
  <2>1. th' \in [Call -> ThreadPC]
    BY DEF IInv, TypeOK
  <2> QED
    BY <2>1 DEF IInv, TypeOK, answer, completions, hooks, analyzers
<1>2. \A d \in Call : th'[d] = th[d] \/ (d = c /\ th[d] \notin {"none", "exited", "asleep", "poked"})
  BY DEF IInv, TypeOK
<1>3. WaitersAsleep'
  BY <1>2, WaitersKept DEF IInv, hooks
<1>4. CallsToCome' /\ HookHasItsData' /\ ThreadKeepsItsData'
  BY <1>2, DataKept DEF hooks
<1> QED
  BY <1>1, <1>3, <1>4 DEF IInv

(* vm_mmap in the analyzer changes where the thread is, and its result. *)
LEMMA MapInAnalyzerInvariant ==
  ASSUME IInv, NEW c \in Call, MapInAnalyzer(c)
  PROVE  IInv'
<1>1. "init" \in ThreadPC /\ th' = [th EXCEPT ![c] = "init"]
  BY DEF MapInAnalyzer, ThreadGoto, ThreadPC
<1>2. address' \in [Call -> {"none", "mapped", "error"}]
  BY DEF MapInAnalyzer, IInv, TypeOK
<1>3. mapped' \subseteq Call /\ stop' \subseteq Call /\ lock_kept' \in BOOLEAN
  BY DEF MapInAnalyzer, IInv, TypeOK
<1> QED
  BY <1>1, <1>2, <1>3, QuietThreadStep DEF MapInAnalyzer

(* So does vm_munmap. *)
LEMMA UnmapInvariant ==
  ASSUME IInv, NEW c \in Call, Unmap(c)
  PROVE  IInv'
<1>1. "stopping" \in ThreadPC /\ th' = [th EXCEPT ![c] = "stopping"]
  BY DEF Unmap, ThreadGoto, ThreadPC
<1>2. /\ address' \in [Call -> {"none", "mapped", "error"}]
      /\ mapped' \subseteq Call /\ stop' \subseteq Call /\ lock_kept' \in BOOLEAN
  BY DEF Unmap, IInv, TypeOK
<1> QED
  BY <1>1, <1>2, QuietThreadStep DEF Unmap

(* A thread that exits waits nowhere. *)
LEMMA ExitThreadInvariant ==
  ASSUME IInv, NEW c \in Call, ExitThread(c)
  PROVE  IInv'
<1>1. "exited" \in ThreadPC /\ th' = [th EXCEPT ![c] = "exited"]
  BY DEF ExitThread, ThreadGoto, ThreadPC
<1>2. /\ address' \in [Call -> {"none", "mapped", "error"}]
      /\ mapped' \subseteq Call /\ stop' \subseteq Call /\ lock_kept' \in BOOLEAN
  BY DEF ExitThread, memory, IInv, TypeOK
<1> QED
  BY <1>1, <1>2, QuietThreadStep DEF ExitThread, memory

(* A thread that initialises the completion of the unmapping forgets its waiters. *)
LEMMA InitMunmapReadyInvariant ==
  ASSUME IInv, NEW c \in Call, InitMunmapReady(c)
  PROVE  IInv'
<1> DEFINE x == analyzer_munmap_ready
<1>1. /\ x' \in Completion(Call) /\ Distinct(x') /\ Waiting(x') = {}
      /\ th[c] = "init" /\ th' = [th EXCEPT ![c] = "signal"]
  BY FreshEffect DEF InitMunmapReady, ThreadGoto
<1>2. TypeOK'
  BY <1>1 DEF IInv, TypeOK, ThreadPC, InitMunmapReady, answer, hooks, memory, analyzers
<1>3. WaitersAsleep'
  BY <1>1 DEF IInv, WaitersAsleep, InitMunmapReady, hooks
<1>4. CallsToCome' /\ HookHasItsData' /\ ThreadKeepsItsData'
  <2>1. \A d \in Call : th'[d] = th[d] \/ th[d] \notin {"none", "exited"}
    BY <1>1 DEF IInv, TypeOK
  <2> QED
    BY <2>1, DataKept DEF InitMunmapReady, hooks, memory
<1> QED
  BY <1>2, <1>3, <1>4 DEF IInv

(* The signal of the thread wakes hooks, never a thread. *)
LEMMA SignalMmapDoneInvariant ==
  ASSUME IInv, NEW c \in Call, SignalMmapDone(c)
  PROVE  IInv'
<1> DEFINE x == analyzer_mmap_done
<1>1. x \in Completion(Task) /\ Distinct(x)
  BY DEF IInv, TypeOK, WaitersAsleep
<1>2. /\ x' \in Completion(Task) /\ Distinct(x')
      /\ Woken(x) \subseteq Waiting(x) /\ Waiting(x') = Waiting(x) \ Woken(x)
  BY <1>1, CompleteEffect DEF SignalMmapDone
<1>3. \A u \in Task : \/ u \notin Woken(x) /\ pc'[u] = pc[u]
                      \/ u \in Woken(x) /\ pc'[u] = "await_mmap" /\ pc[u] = "sleep_mmap"
  BY <1>2 DEF IInv, WaitersAsleep, SignalMmapDone
<1>4. th[c] = "signal" /\ \E p \in {"stopping", "await"} : th' = [th EXCEPT ![c] = p]
  BY DEF SignalMmapDone, ThreadGoto
<1>5. TypeOK'
  <2>1. pc' \in [Task -> PC]
    BY DEF IInv, TypeOK, PC, SignalMmapDone
  <2>2. th' \in [Call -> ThreadPC]
    BY <1>4 DEF IInv, TypeOK, ThreadPC
  <2> QED
    BY <1>2, <2>1, <2>2 DEF IInv, TypeOK, SignalMmapDone, answer, memory, analyzers
<1>6. WaitersAsleep'
  <2>1. \A d \in Call : th[d] \in {"asleep", "poked"} => th'[d] = th[d]
    BY <1>4 DEF IInv, TypeOK
  <2>2. \A u \in Task : u \in Waiting(x') => pc'[u] = "sleep_mmap"
    BY <1>2, <1>3 DEF IInv, WaitersAsleep
  <2>3. \A u \in Task : u \in Waiting(analyzer_ready) => pc'[u] = "sleep_ready"
    BY <1>3 DEF IInv, WaitersAsleep
  <2> QED
    BY <1>2, <2>1, <2>2, <2>3 DEF IInv, WaitersAsleep, SignalMmapDone
<1>7. CallsToCome' /\ HookHasItsData' /\ ThreadKeepsItsData'
  <2>1. \A u \in Task : pc'[u] = pc[u] \/ (pc[u] # "idle" /\ pc'[u] # "start")
    BY <1>3
  <2>2. \A d \in Call : th'[d] = th[d] \/ th[d] \notin {"none", "exited"}
    BY <1>4 DEF IInv, TypeOK
  <2> QED
    BY <2>1, <2>2, DataKept DEF SignalMmapDone, memory
<1> QED
  BY <1>5, <1>6, <1>7 DEF IInv

(* A thread takes the permission to unmap or falls asleep for it. *)
LEMMA AwaitMunmapReadyInvariant ==
  ASSUME IInv, NEW c \in Call, AwaitMunmapReady(c)
  PROVE  IInv'
<1> DEFINE x == analyzer_munmap_ready
<1>1. x \in Completion(Call) /\ Distinct(x) /\ c \notin Waiting(x) /\ th[c] = "await"
  BY DEF IInv, TypeOK, WaitersAsleep, AwaitMunmapReady
<1>2. /\ x' \in Completion(Call) /\ Distinct(x')
      /\ \/ Waiting(x') = Waiting(x) /\ th' = [th EXCEPT ![c] = "unmap"]
         \/ Waiting(x') = Waiting(x) \cup {c} /\ th' = [th EXCEPT ![c] = "asleep"]
  <2>1. x.done \in Nat
    BY <1>1 DEF Completion
  <2>2. CASE x.done > 0
    <3>1. x' = Consumed(x) /\ th' = [th EXCEPT ![c] = "unmap"]
      BY <2>2 DEF AwaitMunmapReady, ThreadGoto
    <3> QED
      BY <1>1, <2>1, <2>2, <3>1, CountEffect
  <2>3. CASE ~(x.done > 0)
    <3>1. x' = Joined(x, c) /\ th' = [th EXCEPT ![c] = "asleep"]
      BY <2>3 DEF AwaitMunmapReady, ThreadGoto
    <3> QED
      BY <1>1, <2>1, <3>1, JoinEffect
  <2> QED
    BY <2>2, <2>3
<1>3. TypeOK'
  <2>1. th' \in [Call -> ThreadPC]
    BY <1>2 DEF IInv, TypeOK, ThreadPC
  <2> QED
    BY <1>2, <2>1 DEF IInv, TypeOK, AwaitMunmapReady, answer, hooks, memory, analyzers
<1>4. WaitersAsleep'
  <2>1. \A d \in Call : d # c => th'[d] = th[d]
    BY <1>2 DEF IInv, TypeOK
  <2>2. c \in Waiting(x') => th'[c] = "asleep"
    BY <1>1, <1>2 DEF IInv, TypeOK
  <2> QED
    BY <1>2, <2>1, <2>2 DEF IInv, WaitersAsleep, AwaitMunmapReady, hooks
<1>5. CallsToCome' /\ HookHasItsData' /\ ThreadKeepsItsData'
  <2>1. \A d \in Call : th'[d] = th[d] \/ th[d] \notin {"none", "exited"}
    BY <1>1, <1>2 DEF IInv, TypeOK
  <2> QED
    BY <2>1, DataKept DEF AwaitMunmapReady, hooks, memory
<1> QED
  BY <1>3, <1>4, <1>5 DEF IInv

(* A thread whose sleep was broken takes itself out of the queue, or sleeps on. *)
LEMMA TestMunmapReadyInvariant ==
  ASSUME IInv, NEW c \in Call, TestMunmapReady(c)
  PROVE  IInv'
<1> DEFINE x == analyzer_munmap_ready
           q == x.queue
<1>1. /\ x \in Completion(Call) /\ Distinct(x) /\ th[c] = "poked"
      /\ x.done \in Nat /\ q \in Seq(Call)
  BY DEF IInv, TypeOK, WaitersAsleep, TestMunmapReady, Completion
<1>2. /\ x' \in Completion(Call) /\ Distinct(x') /\ Waiting(x') \subseteq Waiting(x)
      /\ \/ th' = [th EXCEPT ![c] = "asleep"]
         \/ th' = [th EXCEPT ![c] = "unmap"] /\ c \notin Waiting(x')
  <2>1. CASE x' = x /\ th' = [th EXCEPT ![c] = "asleep"]
    BY <1>1, <2>1
  <2>2. CASE /\ x.done > 0 /\ th' = [th EXCEPT ![c] = "unmap"]
             /\ \E k \in 1 .. Len(q) :
                  /\ q[k] = c
                  /\ x' = [done |-> x.done - 1, queue |-> SubSeq(q, 1, k - 1) \o SubSeq(q, k + 1, Len(q))]
    <3>1. PICK k \in 1 .. Len(q) :
            /\ q[k] = c
            /\ x' = [done |-> x.done - 1, queue |-> SubSeq(q, 1, k - 1) \o SubSeq(q, k + 1, Len(q))]
      BY <2>2
    <3>2. x.done - 1 \in Nat
      BY <1>1, <2>2
    <3>3. x' \in Completion(Call) /\ Distinct(x') /\ Waiting(x') = Waiting(x) \ {q[k]}
      <4>1. x' = Left(x, k, x.done - 1)
        BY <3>1 DEF Left
      <4>2. k \in 1 .. Len(x.queue)
        OBVIOUS
      <4> HIDE DEF x
      <4> QED
        BY <1>1, <3>2, <4>1, <4>2, LeaveEffect
    <3> QED
      BY <2>2, <3>1, <3>3
  <2>3. CASE /\ x.done > 0 /\ th' = [th EXCEPT ![c] = "unmap"]
             /\ \A k \in 1 .. Len(q) : q[k] # c
             /\ x' = [done |-> x.done - 1, queue |-> q] \/ x' = [done |-> x.done - 1, queue |-> <<>>]
    <3>1. c \notin Waiting(x)
      BY <2>3 DEF Waiting
    <3>2. CASE x' = [done |-> x.done - 1, queue |-> q]
      BY <1>1, <2>3, <3>1, <3>2 DEF Completion, Distinct, Waiting
    <3>3. CASE x' = [done |-> x.done - 1, queue |-> <<>>]
      BY <1>1, <2>3, <3>1, <3>3 DEF Completion, Distinct, Waiting
    <3> QED
      BY <2>3, <3>2, <3>3
  <2> QED
    BY <2>1, <2>2, <2>3 DEF TestMunmapReady, ThreadGoto
<1>3. TypeOK'
  <2>1. th' \in [Call -> ThreadPC]
    BY <1>2 DEF IInv, TypeOK, ThreadPC
  <2> QED
    BY <1>2, <2>1 DEF IInv, TypeOK, TestMunmapReady, answer, hooks, memory, analyzers
<1>4. WaitersAsleep'
  <2>1. \A d \in Call : d # c => th'[d] = th[d]
    BY <1>2 DEF IInv, TypeOK
  <2>2. c \in Waiting(x') => th'[c] = "asleep"
    BY <1>1, <1>2 DEF IInv, TypeOK
  <2> QED
    BY <1>2, <2>1, <2>2 DEF IInv, WaitersAsleep, TestMunmapReady, hooks
<1>5. CallsToCome' /\ HookHasItsData' /\ ThreadKeepsItsData'
  <2>1. \A d \in Call : th'[d] = th[d] \/ th[d] \notin {"none", "exited"}
    BY <1>1, <1>2 DEF IInv, TypeOK
  <2> QED
    BY <2>1, DataKept DEF TestMunmapReady, hooks, memory
<1> QED
  BY <1>3, <1>4, <1>5 DEF IInv

(* Every step of a thread preserves the invariant. *)
LEMMA ThreadStepInvariant ==
  ASSUME IInv, NEW c \in Call, ThreadStep(c)
  PROVE  IInv'
  BY MapInAnalyzerInvariant, InitMunmapReadyInvariant, SignalMmapDoneInvariant,
     AwaitMunmapReadyInvariant, TestMunmapReadyInvariant, UnmapInvariant, ExitThreadInvariant
  DEF ThreadStep

-----------------------------------------------------------------------------
(***************************************************************************)
(* A step of an analyzer: it answers, which wakes a hook, or it leaves the *)
(* hooks alone.                                                            *)
(***************************************************************************)
LEMMA AnalyzerChange ==
  ASSUME IInv,
         UNCHANGED <<analyzer_mmap_done, analyzer_munmap_ready, kind, calls, asked, result, threads, memory>>,
         \/ \E v \in Verdict : Answer(v)
         \/ UNCHANGED <<analyzer_response, analyzer_ready, pc>>,
         analyzer_task' \in Analyzer \cup {NoAnalyzer},
         started' \subseteq Analyzer, alive' \subseteq started',
         inbox' \in [Analyzer -> Seq(Call)], working' \in [Analyzer -> Call \cup {NoCall}]
  PROVE  IInv'
<1> DEFINE x == analyzer_ready
<1>1. x \in Completion(Task) /\ Distinct(x)
  BY DEF IInv, TypeOK, WaitersAsleep
<1>2. /\ x' \in Completion(Task) /\ Distinct(x')
      /\ Waiting(x') \subseteq Waiting(x)
      /\ pc' \in [Task -> PC] /\ analyzer_response' \in Verdict
      /\ \A u \in Task : \/ pc'[u] = pc[u]
                         \/ u \notin Waiting(x') /\ pc[u] = "sleep_ready" /\ pc'[u] = "await_ready"
  <2>1. CASE UNCHANGED <<analyzer_response, analyzer_ready, pc>>
    BY <1>1, <2>1 DEF IInv, TypeOK
  <2>2. CASE \E v \in Verdict : Answer(v)
    <3>1. /\ x' = complete(x) /\ analyzer_response' \in Verdict
          /\ pc' = [u \in Task |-> IF u \in Woken(x) THEN "await_ready" ELSE pc[u]]
      BY <2>2 DEF Answer
    <3>2. /\ x' \in Completion(Task) /\ Distinct(x')
          /\ Woken(x) \subseteq Waiting(x) /\ Waiting(x') = Waiting(x) \ Woken(x)
      BY <1>1, <3>1, CompleteEffect
    <3>3. pc' \in [Task -> PC]
      BY <3>1 DEF IInv, TypeOK, PC
    <3>4. \A u \in Task : u \in Woken(x) => pc[u] = "sleep_ready" /\ u \notin Waiting(x')
      BY <3>2 DEF IInv, WaitersAsleep
    <3> QED
      BY <3>1, <3>2, <3>3, <3>4
  <2> QED
    BY <2>1, <2>2
<1>3. TypeOK'
  BY <1>2 DEF IInv, TypeOK, threads, memory
<1>4. WaitersAsleep'
  <2>1. \A u \in Task : u \in Waiting(x') => pc'[u] = "sleep_ready"
    BY <1>2 DEF IInv, WaitersAsleep
  <2>2. \A u \in Task : u \in Waiting(analyzer_mmap_done) => pc'[u] = "sleep_mmap"
    BY <1>2 DEF IInv, WaitersAsleep
  <2> QED
    BY <1>2, <2>1, <2>2 DEF IInv, WaitersAsleep, threads
<1>5. CallsToCome' /\ HookHasItsData' /\ ThreadKeepsItsData'
  <2>1. \A u \in Task : pc'[u] = pc[u] \/ (pc[u] # "idle" /\ pc'[u] # "start")
    BY <1>2
  <2> QED
    BY <2>1, DataKept DEF threads, memory
<1> QED
  BY <1>3, <1>4, <1>5 DEF IInv

(* An analyzer registers and wakes nobody. *)
LEMMA StartAnalyzerInvariant ==
  ASSUME IInv, NEW a \in Analyzer, StartAnalyzer(a)
  PROVE  IInv'
<1>1. [about |-> Startup, clean |-> FALSE] \in Verdict
  BY ResultTypes
<1>2. \/ \E v \in Verdict : Answer(v)
      \/ UNCHANGED <<analyzer_response, analyzer_ready, pc>>
  BY <1>1 DEF StartAnalyzer
<1>3. /\ analyzer_task' \in Analyzer \cup {NoAnalyzer}
      /\ started' \subseteq Analyzer /\ alive' \subseteq started'
      /\ inbox' \in [Analyzer -> Seq(Call)] /\ working' \in [Analyzer -> Call \cup {NoCall}]
  BY DEF StartAnalyzer, IInv, TypeOK
<1> QED
  BY <1>2, <1>3, AnalyzerChange DEF StartAnalyzer

(* What the death of an analyzer changes keeps its type. *)
LEMMA DeathTypes ==
  ASSUME TypeOK, NEW a \in Analyzer, Dies(a)
  PROVE  /\ alive' \subseteq started
         /\ inbox' \in [Analyzer -> Seq(Call)] /\ working' \in [Analyzer -> Call \cup {NoCall}]
<1>1. <<>> \in Seq(Call)
  OBVIOUS
<1> QED
  BY <1>1 DEF TypeOK, Dies

(* An analyzer that takes a report touches no hook and no thread. *)
LEMMA AnalyzeInvariant ==
  ASSUME IInv, NEW a \in Analyzer, Analyze(a)
  PROVE  IInv'
<1>1. UNCHANGED <<analyzer_response, analyzer_ready, pc>> /\ started' = started /\ analyzer_task' = analyzer_task
  BY DEF Analyze, answer, completions, hooks
<1>2. /\ alive' \subseteq started
      /\ inbox' \in [Analyzer -> Seq(Call)] /\ working' \in [Analyzer -> Call \cup {NoCall}]
  <2>1. CASE Dies(a)
    BY <2>1, DeathTypes DEF IInv
  <2>2. CASE /\ inbox' = [inbox EXCEPT ![a] = Tail(@)]
             /\ working' = [working EXCEPT ![a] = Head(inbox[a])]
             /\ alive' = alive
    <3>1. inbox[a] \in Seq(Call) /\ inbox[a] # <<>>
      BY DEF Analyze, IInv, TypeOK
    <3>2. Tail(inbox[a]) \in Seq(Call) /\ Head(inbox[a]) \in Call
      BY <3>1
    <3> QED
      BY <2>2, <3>2 DEF IInv, TypeOK
  <2> QED
    BY <2>1, <2>2 DEF Analyze
<1>3. analyzer_task' \in Analyzer \cup {NoAnalyzer} /\ started' \subseteq Analyzer
  BY <1>1 DEF IInv, TypeOK
<1> QED
  BY <1>1, <1>2, <1>3, AnalyzerChange DEF Analyze, completions, hooks

(* A verdict wakes hooks that wait for one and touches no thread. *)
LEMMA ReplyInvariant ==
  ASSUME IInv, NEW a \in Analyzer, Reply(a)
  PROVE  IInv'
<1>1. working[a] \in Call
  BY DEF Reply, IInv, TypeOK
<1>2. \A clean \in Findings : [about |-> working[a], clean |-> clean] \in Verdict
  BY <1>1, ResultTypes, McheckNetlinkAssumption
<1>3. \/ \E v \in Verdict : Answer(v)
      \/ UNCHANGED <<analyzer_response, analyzer_ready, pc>>
  BY <1>2 DEF Reply
<1>4. /\ analyzer_task' \in Analyzer \cup {NoAnalyzer}
      /\ started' \subseteq Analyzer /\ alive' \subseteq started'
      /\ inbox' \in [Analyzer -> Seq(Call)] /\ working' \in [Analyzer -> Call \cup {NoCall}]
  BY DEF Reply, IInv, TypeOK
<1> QED
  BY <1>3, <1>4, AnalyzerChange DEF Reply

(* An analyzer that dies touches no hook and no thread. *)
LEMMA CrashInvariant ==
  ASSUME IInv, NEW a \in Analyzer, Crash(a)
  PROVE  IInv'
<1>1. /\ alive' \subseteq started
      /\ inbox' \in [Analyzer -> Seq(Call)] /\ working' \in [Analyzer -> Call \cup {NoCall}]
  BY DeathTypes DEF Crash, IInv
<1>2. analyzer_task' \in Analyzer \cup {NoAnalyzer} /\ started' = started /\ started' \subseteq Analyzer
  BY DEF Crash, answer, IInv, TypeOK
<1> QED
  BY <1>1, <1>2, AnalyzerChange DEF Crash, answer, completions, hooks

(* The invariant is inductive: one case for each disjunct of Next. *)
LEMMA StepInvariant == IInv /\ [Next]_vars => IInv'
<1> SUFFICES ASSUME IInv, [Next]_vars PROVE IInv'
  OBVIOUS
<1>1. CASE UNCHANGED vars
  <2>1. CallsToCome' /\ HookHasItsData' /\ ThreadKeepsItsData'
    BY <1>1, DataKept DEF vars, hooks, threads, memory
  <2>2. WaitersAsleep'
    BY <1>1, WaitersKept DEF vars, hooks, threads, IInv
  <2>3. TypeOK'
    BY <1>1 DEF vars, answer, completions, hooks, threads, memory, analyzers, IInv, TypeOK
  <2> QED
    BY <2>1, <2>2, <2>3 DEF IInv
<1>2. ASSUME NEW t \in Task, HookStep(t) PROVE IInv'
  BY <1>2, HookStepInvariant
<1>3. ASSUME NEW t \in Task, NEW k \in {"mmap", "mprotect", "bpf"}, EnterHook(t, k) PROVE IInv'
  BY <1>3, EnterHookInvariant
<1>4. ASSUME NEW c \in Call, ThreadStep(c) PROVE IInv'
  BY <1>4, ThreadStepInvariant
<1>5. ASSUME NEW a \in Analyzer, StartAnalyzer(a) \/ AnalyzerStep(a) \/ Crash(a) PROVE IInv'
  BY <1>5, StartAnalyzerInvariant, AnalyzeInvariant, ReplyInvariant, CrashInvariant DEF AnalyzerStep
<1> QED
  BY <1>1, <1>2, <1>3, <1>4, <1>5 DEF Next

(***************************************************************************)
(* The invariant holds of the hooks, and of the system calls around them,  *)
(* whose steps are steps of the hooks or leave them alone.                 *)
(***************************************************************************)
LEMMA SitesStep == [SitesNext]_svars => [Next]_vars
<1> SUFFICES ASSUME [SitesNext]_svars PROVE [Next]_vars
  OBVIOUS
<1>1. CASE UNCHANGED svars
  BY <1>1 DEF svars
<1>2. ASSUME NEW t \in Task, DoMmap(t) \/ DoMprotect(t) \/ BpfProgLoad(t) PROVE Next
  BY <1>2 DEF DoMmap, DoMprotect, BpfProgLoad, Begin, Next
<1>3. ASSUME NEW t \in Task, SiteStep(t) PROVE [Next]_vars
  <2>1. CASE UNCHANGED vars
    BY <2>1
  <2>2. CASE EnterHook(t, "mprotect")
    BY <2>2 DEF Next
  <2> QED
    BY <1>3, <2>1, <2>2 DEF SiteStep, Refused, Succeed, ChangeVma, Finish
<1>4. CASE /\ \/ \E t \in Task : HookStep(t)
              \/ \E c \in Call : ThreadStep(c)
              \/ \E a \in Analyzer : StartAnalyzer(a) \/ AnalyzerStep(a) \/ Crash(a)
           /\ UNCHANGED sites
  BY <1>4 DEF Next
<1> QED
  BY <1>1, <1>2, <1>3, <1>4 DEF SitesNext

(* The inductive invariant holds in every state of the hooks and the analyzer: *)
(* waiters sleep where they wait, and a hook has the data of its call. *)
THEOREM Invariant == Spec => []IInv
<1>1. Init => IInv
  BY InitInvariant
<1>2. IInv /\ [Next]_vars => IInv'
  BY StepInvariant
<1> QED
  BY <1>1, <1>2, PTL DEF Spec

(* The same invariant holds when the hooks are called by do_mmap, do_mprotect_pkey *)
(* and bpf_prog_load: their own steps leave the hooks alone. *)
THEOREM SitesInvariant == SitesSpec => []IInv
<1>1. SitesInit => IInv
  BY InitInvariant DEF SitesInit
<1>2. IInv /\ [SitesNext]_svars => IInv'
  BY SitesStep, StepInvariant
<1> QED
  BY <1>1, <1>2, PTL DEF SitesSpec

(* Every variable keeps its type, for any number of tasks, calls and analyzers. *)
THEOREM TypeCorrect == SitesSpec => []TypeOK
<1>1. IInv => TypeOK
  BY DEF IInv
<1> QED
  BY <1>1, SitesInvariant, PTL

(* The structure that __mcheck_mmap and __mcheck_mprotect share with their kernel *)
(* thread is not freed while the thread exists. *)
THEOREM ThreadDataAlive == SitesSpec => []ThreadKeepsItsData
<1>1. IInv => ThreadKeepsItsData
  BY DEF IInv
<1> QED
  BY <1>1, SitesInvariant, PTL

-----------------------------------------------------------------------------
(***************************************************************************)
(* The call sites.  That no more mappings are changed than there are needs *)
(* to know that an mprotect in progress has not changed its last one.      *)
(***************************************************************************)
SitesInv ==
  /\ SitesTypeOK
  /\ \A t \in Task : syscall[t] = "mprotect" => changed[t] < vmas[t]

(* The steps of the system calls keep what they count within its bounds. *)
LEMMA SitesStepInv ==
  ASSUME IInv, SitesInv, [SitesNext]_svars
  PROVE  SitesInv'
<1> USE HookSitesAssumption
<1>1. SitesTypeOK /\ \A t \in Task : calls[t] \in Nat
  BY DEF SitesInv, IInv, TypeOK
<1>2. CASE UNCHANGED sites
  BY <1>2 DEF sites, SitesInv, SitesTypeOK
<1>3. ASSUME NEW t \in Task, NEW k \in {"mmap", "mprotect", "bpf"}, NEW n \in 1 .. MaxVmas,
             NEW m \in {0, 1}, k = "mprotect" => m = 0,
             Begin(t, k, n), changed' = [changed EXCEPT ![t] = m]
      PROVE  SitesInv'
  BY <1>1, <1>3 DEF Begin, SitesInv, SitesTypeOK
<1>4. ASSUME NEW t \in Task, DoMmap(t) \/ DoMprotect(t) \/ BpfProgLoad(t) PROVE SitesInv'
  <2>1. 1 \in 1 .. MaxVmas
    OBVIOUS
  <2> QED
    BY <1>3, <1>4, <2>1 DEF DoMmap, DoMprotect, BpfProgLoad
<1>5. ASSUME NEW t \in Task, Refused(t) PROVE SitesInv'
  BY <1>1, <1>5 DEF Refused, Finish, SitesInv, SitesTypeOK
<1>6. ASSUME NEW t \in Task, Succeed(t) PROVE SitesInv'
  BY <1>1, <1>6 DEF Succeed, Finish, SitesInv, SitesTypeOK
<1>7. ASSUME NEW t \in Task, ChangeVma(t) PROVE SitesInv'
  <2>1. changed[t] + 1 \in 0 .. vmas[t] /\ vmas[t] \in 1 .. MaxVmas
    BY <1>1, <1>7 DEF ChangeVma, SitesInv, SitesTypeOK
  <2>2. CASE UNCHANGED changed
    BY <1>1, <1>7, <2>2 DEF ChangeVma, Finish, SitesInv, SitesTypeOK
  <2>3. CASE changed' = [changed EXCEPT ![t] = @ + 1]
    <3>1. changed'[t] = changed[t] + 1
      BY <1>1, <2>3 DEF SitesTypeOK
    <3>2. CASE changed'[t] = vmas[t] /\ Finish(t, "ok")
      BY <1>1, <2>1, <2>3, <3>1, <3>2 DEF Finish, SitesInv, SitesTypeOK
    <3>3. CASE changed'[t] # vmas[t] /\ UNCHANGED <<syscall, vmas, first, outcome>>
      BY <1>1, <2>1, <2>3, <3>1, <3>3 DEF SitesInv, SitesTypeOK
    <3> QED
      BY <1>7, <2>3, <3>2, <3>3, <3>1, <2>1 DEF ChangeVma, Finish
  <2> QED
    BY <1>7, <2>2, <2>3 DEF ChangeVma
<1> QED
  BY <1>2, <1>4, <1>5, <1>6, <1>7 DEF SitesNext, SiteStep, svars

(* What a system call counts and remembers keeps its type and its bounds. *)
THEOREM SitesTypeCorrect == SitesSpec => []SitesTypeOK
<1>1. SitesInit => SitesInv
  BY HookSitesAssumption DEF SitesInit, SitesInv, SitesTypeOK
<1>2. IInv /\ SitesInv /\ [SitesNext]_svars => SitesInv'
  BY SitesStepInv
<1>3. SitesInv => SitesTypeOK
  BY DEF SitesInv
<1> QED
  BY <1>1, <1>2, <1>3, SitesInvariant, PTL DEF SitesSpec
=============================================================================
