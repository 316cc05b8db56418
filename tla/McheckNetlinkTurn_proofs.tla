------------------- MODULE McheckNetlinkTurn_proofs -------------------
EXTENDS McheckNetlink_proofs

(***************************************************************************)
(* Proofs about the netlink mode when hooks run one at a time: the hook    *)
(* that runs, its kernel thread and the one analyzer meet in three global  *)
(* completions that do not say whom they are for.  The proofs follow the   *)
(* three of them from place to place.                                      *)
(*                                                                         *)
(* There are two independent halves.  The question: where the message of   *)
(* the hook is, and that no other is under way.  The rendezvous: where the *)
(* hook and its thread can be at the same time, and what the completions   *)
(* between them hold there.  A fault breaks the second half only if a hook *)
(* leaves its thread behind ("pages"); nothing but a second hook or        *)
(* analyzer breaks the first.                                              *)
(***************************************************************************)
(***************************************************************************)
(* Hooks run one at a time: the tasks that call them are threads of one    *)
(* process, ordered by its mmap lock, or there is only one of them.        *)
(***************************************************************************)
Exclusive ==
  \A t, u \in Task :
    t # u => Process[t] = Process[u] /\ t \notin BpfTask /\ u \notin BpfTask

(* One analyzer is started, and registers itself at most once. *)
OneAnalyzer == \A a, b \in Analyzer : a = b

-----------------------------------------------------------------------------
(* One hook is at work; the BPF hook is called by the tasks that load programs. *)
OneHook ==
  /\ \A t, u \in Task : pc[t] # "idle" /\ pc[u] # "idle" => t = u
  /\ \A c \in Call : kind[c] = "bpf" => c[1] \in BpfTask

(* No hook is entered; those at work go on or return. *)
HooksGoOn ==
  /\ UNCHANGED <<kind, calls>>
  /\ \A u \in Task : pc'[u] # "idle" => pc[u] # "idle"

(* An answer wakes hooks that wait for one. *)
LEMMA AnswerWakes ==
  ASSUME IInv, NEW v, Answer(v)
  PROVE  \A t \in Task : pc'[t] = pc[t] \/ (pc[t] = "sleep_ready" /\ pc'[t] = "await_ready")
<1>1. /\ analyzer_ready \in Completion(Task) /\ Distinct(analyzer_ready)
      /\ \A t \in Waiting(analyzer_ready) : t \in Task => pc[t] = "sleep_ready"
  BY DEF IInv, TypeOK, WaitersAsleep
<1>2. Waiting(analyzer_ready) \subseteq Task /\ Woken(analyzer_ready) \subseteq Waiting(analyzer_ready)
  BY <1>1, CompleteEffect
<1> QED
  BY <1>1, <1>2 DEF Answer

(* The signal of a thread wakes hooks that wait for one. *)
LEMMA SignalWakes ==
  ASSUME IInv, NEW c \in Call, SignalMmapDone(c)
  PROVE  \A t \in Task : pc'[t] = pc[t] \/ (pc[t] = "sleep_mmap" /\ pc'[t] = "await_mmap")
<1>1. /\ analyzer_mmap_done \in Completion(Task) /\ Distinct(analyzer_mmap_done)
      /\ \A t \in Waiting(analyzer_mmap_done) : t \in Task => pc[t] = "sleep_mmap"
  BY DEF IInv, TypeOK, WaitersAsleep
<1>2. Waiting(analyzer_mmap_done) \subseteq Task
      /\ Woken(analyzer_mmap_done) \subseteq Waiting(analyzer_mmap_done)
  BY <1>1, CompleteEffect
<1> QED
  BY <1>1, <1>2 DEF SignalMmapDone

(* A step of a hook moves its own task, out of no idleness. *)
LEMMA HookMoves ==
  ASSUME IInv, NEW t \in Task, HookStep(t)
  PROVE  /\ pc[t] # "idle" /\ UNCHANGED <<kind, calls>>
         /\ \A u \in Task : u # t => pc'[u] = pc[u]
<1>1. pc[t] # "idle" /\ UNCHANGED <<kind, calls>>
  BY DEF HookStep, StartThread, PinPages, AwaitMmapDone, CheckAddress, Remap, Send, AwaitReady,
         ReinitReady, ReleaseThread, StopThread, JoinThread
<1>2. \E p \in PC : pc' = [pc EXCEPT ![t] = p]
  BY DEF HookStep, StartThread, PinPages, AwaitMmapDone, CheckAddress, Remap, Send, AwaitReady,
         ReinitReady, ReleaseThread, StopThread, JoinThread, Goto, Return, PC
<1> QED
  BY <1>1, <1>2 DEF IInv, TypeOK

(* A step of a thread wakes a hook at most. *)
LEMMA ThreadMoves ==
  ASSUME IInv, NEW c \in Call, ThreadStep(c)
  PROVE  /\ UNCHANGED <<kind, calls, asked, result>>
         /\ \A t \in Task : pc'[t] = pc[t] \/ (pc[t] = "sleep_mmap" /\ pc'[t] = "await_mmap")
<1>1. CASE SignalMmapDone(c)
  BY <1>1, SignalWakes DEF SignalMmapDone
<1>2. CASE ~SignalMmapDone(c)
  BY <1>2 DEF ThreadStep, MapInAnalyzer, InitMunmapReady, AwaitMunmapReady, TestMunmapReady,
              Unmap, ExitThread, hooks
<1> QED
  BY <1>1, <1>2

(* So does a step of an analyzer. *)
LEMMA AnalyzerMoves ==
  ASSUME IInv, NEW a \in Analyzer, StartAnalyzer(a) \/ AnalyzerStep(a) \/ Crash(a)
  PROVE  /\ UNCHANGED <<kind, calls, asked, result, threads, memory, analyzer_mmap_done, analyzer_munmap_ready>>
         /\ \A t \in Task : pc'[t] = pc[t] \/ (pc[t] = "sleep_ready" /\ pc'[t] = "await_ready")
<1>1. CASE StartAnalyzer(a)
  BY <1>1, AnswerWakes DEF StartAnalyzer
<1>2. CASE Analyze(a) \/ Crash(a)
  BY <1>2 DEF Analyze, Crash, hooks, completions
<1>3. CASE Reply(a)
  BY <1>3, AnswerWakes DEF Reply
<1> QED
  BY <1>1, <1>2, <1>3 DEF AnalyzerStep

(* Every step enters a hook or lets those at work go on. *)
LEMMA StepKinds ==
  ASSUME IInv, [Next]_vars
  PROVE  (\E t \in Task, k \in {"mmap", "mprotect", "bpf"} : EnterHook(t, k)) \/ HooksGoOn
<1>1. CASE UNCHANGED vars
  BY <1>1 DEF vars, hooks, HooksGoOn
<1>2. ASSUME NEW t \in Task, HookStep(t) PROVE HooksGoOn
  BY <1>2, HookMoves DEF HooksGoOn
<1>3. ASSUME NEW c \in Call, ThreadStep(c) PROVE HooksGoOn
  BY <1>3, ThreadMoves DEF HooksGoOn
<1>4. ASSUME NEW a \in Analyzer, StartAnalyzer(a) \/ AnalyzerStep(a) \/ Crash(a) PROVE HooksGoOn
  BY <1>4, AnalyzerMoves DEF HooksGoOn
<1> QED
  BY <1>1, <1>2, <1>3, <1>4 DEF Next

(* A hook is entered only when no other is at work. *)
LEMMA EnterAlone ==
  ASSUME Exclusive, IInv, OneHook, NEW t \in Task, NEW k \in {"mmap", "mprotect", "bpf"}, EnterHook(t, k)
  PROVE  \A u \in Task : pc[u] = "idle"
<1> SUFFICES ASSUME NEW u \in Task, pc[u] # "idle" PROVE FALSE
  OBVIOUS
<1>1. u # t /\ Process[u] = Process[t] /\ t \notin BpfTask /\ u \notin BpfTask
  BY DEF EnterHook, Gates, Exclusive
<1>2. ThisCall(u) \in Call /\ ThisCall(u)[1] = u
  BY CallInHook DEF ThisCall
<1>3. kind[ThisCall(u)] # "bpf"
  BY <1>1, <1>2 DEF OneHook
<1>4. MmapLockFree(t)
  BY <1>1 DEF EnterHook, Gates
<1> QED
  BY <1>1, <1>3, <1>4 DEF MmapLockFree, InPageHook

(* The mmap lock of the one process keeps its hooks apart. *)
LEMMA OneHookStep ==
  ASSUME Exclusive, IInv, OneHook, [Next]_vars
  PROVE  OneHook'
<1>1. ASSUME NEW t \in Task, NEW k \in {"mmap", "mprotect", "bpf"}, EnterHook(t, k) PROVE OneHook'
  <2>1. \A u \in Task : pc[u] = "idle"
    BY <1>1, EnterAlone
  <2>2. \A u \in Task : u # t => pc'[u] = "idle"
    BY <1>1, <2>1 DEF EnterHook, Gates, Goto, Return, IInv, TypeOK
  <2>3. kind' = [kind EXCEPT ![<<t, calls[t] + 1>>] = k] /\ (k = "bpf" => t \in BpfTask)
    BY <1>1 DEF EnterHook, Gates
  <2>4. kind \in [Call -> {"mmap", "mprotect", "bpf"}]
    BY DEF IInv, TypeOK
  <2>5. \A c \in Call : kind'[c] = "bpf" => c[1] \in BpfTask
    BY <2>3, <2>4 DEF OneHook
  <2> QED
    BY <2>2, <2>5 DEF OneHook
<1>2. CASE HooksGoOn
  BY <1>2 DEF HooksGoOn, OneHook
<1> QED
  BY <1>1, <1>2, StepKinds
-----------------------------------------------------------------------------
(* A hook that has not sent its message, and one that waits for the answer. *)
Before == {"start", "pin", "await_mmap", "sleep_mmap", "mapped", "remap", "send", "oops"}
Asking == {"await_ready", "sleep_ready"}

(* Nothing is with an analyzer, and no answer waits for a hook. *)
NothingAsked == \A a \in Analyzer : inbox[a] = <<>> /\ working[a] = NoCall
NoQuestion   == NothingAsked /\ analyzer_ready.done = 0

(* Message c was lost, or waits for the analyzer, or is in work, or answered. *)
OnItsWay(c) ==
  \/ NoQuestion
  \/ /\ \A a \in Analyzer : inbox[a] = <<c>> /\ working[a] = NoCall
     /\ analyzer_ready.done = 0
  \/ /\ \A a \in Analyzer : inbox[a] = <<>> /\ working[a] = c
     /\ analyzer_ready.done = 0
  \/ NothingAsked /\ analyzer_ready.done = 1 /\ analyzer_response.about = c

Question ==
  /\ (\A t \in Task : pc[t] \notin Asking) => NoQuestion
  /\ \A t \in Task : pc[t] \in Asking => OnItsWay(ThisCall(t))

(* A hook is only at work with an analyzer that was started and is registered. *)
Registered ==
  /\ analyzer_task \in started \cup {NoAnalyzer}
  /\ \A t \in Task : pc[t] # "idle" => analyzer_task # NoAnalyzer

(* A hook that has asked and goes on has its answer in analyzer_response. *)
AskedAndTold ==
  \A t \in Task :
    /\ pc[t] \in Before => ~asked[t]
    /\ pc[t] \notin Before \cup Asking \cup {"idle"} /\ asked[t] =>
         analyzer_response.about = ThisCall(t)

AnswerInv == OneHook /\ Registered /\ Question /\ AskedAndTold /\ OwnVerdict

(* What a hook returns without having asked is no verdict. *)
LEMMA NoVerdicts ==
  {Pending, Allowed, Unasked, Invalid, NoMem} \cap Verdict = {}
<1>1. \A c \in Call : c[2] # 0
  <2> SUFFICES ASSUME NEW c \in Call PROVE c[2] # 0
    OBVIOUS
  <2>1. PICK t \in Task : c \in {t} \X (1 .. MaxCalls[t])
    BY DEF Call
  <2>2. MaxCalls[t] \in Nat
    BY McheckNetlinkAssumption
  <2> QED
    BY <2>1, <2>2
<1>2. ASSUME NEW w, <<w, 0>> \in Call \cup {Startup, NoCall} PROVE w \in {"startup", "none"}
  BY <1>1, <1>2 DEF Startup, NoCall
<1>3. ASSUME NEW r \in Verdict PROVE r.about \in Call \cup {Startup, NoCall}
  BY <1>3 DEF Verdict
<1>4. /\ Pending.about = <<"pending", 0>> /\ Allowed.about = <<"allowed", 0>>
      /\ Unasked.about = <<"unasked", 0>>
      /\ Invalid.about = <<"EINVAL", 0>> /\ NoMem.about = <<"ENOMEM", 0>>
  BY DEF Pending, Allowed, Unasked, Invalid, NoMem
<1>5. \A w \in {"pending", "allowed", "unasked", "EINVAL", "ENOMEM"} : <<w, 0>> \notin Call \cup {Startup, NoCall}
  BY <1>2
<1> QED
  BY <1>3, <1>4, <1>5

(* A result that is no verdict may be set anywhere. *)
LEMMA OtherResults ==
  ASSUME IInv, OwnVerdict,
         result' = result \/ \E c \in Call, r \in {Allowed, Unasked, Invalid, NoMem} :
                             result' = [result EXCEPT ![c] = r]
  PROVE  OwnVerdict'
  BY NoVerdicts DEF OwnVerdict, IInv, TypeOK

(* What a step keeps that neither asks nor answers. *)
LEMMA AnswerKept ==
  ASSUME AnswerInv, OneHook', OwnVerdict',
         UNCHANGED <<answer, analyzer_ready, calls, asked, started, inbox, working>>,
         \A u \in Task :
           \/ pc'[u] = pc[u]
           \/ /\ pc[u] \notin Asking \cup {"idle"} /\ pc'[u] \notin Asking
              /\ pc'[u] \in Before => pc[u] \in Before
  PROVE  AnswerInv'
<1>1. Registered'
  BY DEF AnswerInv, Registered, answer
<1>2. AskedAndTold'
  BY DEF AnswerInv, AskedAndTold, answer, ThisCall, Asking
<1>3. Question'
  <2>1. NothingAsked' = NothingAsked /\ NoQuestion' = NoQuestion
    BY DEF NothingAsked, NoQuestion
  <2>2. \A c : OnItsWay(c)' = OnItsWay(c)
    BY <2>1 DEF OnItsWay, answer
  <2>3. \A u \in Task : ThisCall(u)' = ThisCall(u) /\ (pc'[u] \in Asking <=> pc[u] \in Asking)
    BY DEF ThisCall
  <2>4. ASSUME NEW u \in Task, pc'[u] \in Asking PROVE OnItsWay(ThisCall(u))'
    BY <2>2, <2>3, <2>4 DEF AnswerInv, Question, OnItsWay, ThisCall, answer, NoQuestion, NothingAsked
  <2> QED
    BY <2>1, <2>3, <2>4 DEF AnswerInv, Question
<1> QED
  BY <1>1, <1>2, <1>3 DEF AnswerInv

(* The call that a hook begins is a call. *)
LEMMA EnteredCall ==
  ASSUME IInv, NEW t \in Task, NEW k, EnterHook(t, k)
  PROVE  <<t, calls[t] + 1>> \in Call /\ calls[t] \in Nat
<1>1. calls[t] \in Nat /\ calls[t] < MaxCalls[t]
  BY DEF EnterHook, Gates, IInv, TypeOK
<1>2. MaxCalls[t] \in Nat /\ \A n : <<t, n>> \in Call <=> n \in 1 .. MaxCalls[t]
  BY CallsOfTasks
<1>3. calls[t] + 1 \in 1 .. MaxCalls[t]
  BY <1>1, <1>2
<1> QED
  BY <1>1, <1>2, <1>3

(* A hook is entered when no question is under way. *)
LEMMA EnterHookAnswer ==
  ASSUME Exclusive, IInv, AnswerInv, OneHook',
         NEW t \in Task, NEW k \in {"mmap", "mprotect", "bpf"}, EnterHook(t, k)
  PROVE  AnswerInv'
<1>1. \A u \in Task : pc[u] = "idle"
  BY EnterAlone DEF AnswerInv
<1>2. /\ \A u \in Task : pc'[u] \in {"idle", "start"} /\ (u # t => pc'[u] = "idle")
      /\ UNCHANGED <<answer, analyzer_ready, started, inbox, working>>
      /\ asked' = [asked EXCEPT ![t] = FALSE] /\ asked \in [Task -> BOOLEAN]
  BY <1>1 DEF EnterHook, Gates, Goto, Return, IInv, TypeOK, completions, analyzers
<1>3. NoQuestion'
  BY <1>1, <1>2 DEF AnswerInv, Question, NoQuestion, NothingAsked, Asking
<1>4. Question' /\ AskedAndTold'
  BY <1>2, <1>3 DEF Question, AskedAndTold, Asking, Before
<1>5. Registered'
  <2>1. ASSUME NEW u \in Task, pc'[u] # "idle" PROVE analyzer_task # NoAnalyzer
    <3>1. u = t /\ analyzer_task \in alive
      BY <1>2, <2>1, <1>1 DEF EnterHook, Gates, Return, Goto, IInv, TypeOK
    <3> QED
      BY <3>1, McheckNetlinkAssumption DEF IInv, TypeOK
  <2> QED
    BY <1>2, <2>1 DEF Registered, AnswerInv, answer
<1>6. OwnVerdict'
  <2>1. <<t, calls[t] + 1>> \in Call
    BY EnteredCall
  <2>2. result' = result \/ \E r \in {Allowed, Invalid, NoMem} : result' = [result EXCEPT ![<<t, calls[t] + 1>>] = r]
    BY DEF EnterHook, Gates, Return, Goto
  <2> QED
    BY <2>1, <2>2, OtherResults DEF AnswerInv
<1> QED
  BY <1>4, <1>5, <1>6 DEF AnswerInv

(* Only the hook of t may wait for an answer. *)
LEMMA OnlyAsker ==
  ASSUME OneHook, NEW t \in Task, pc[t] # "idle", NEW u \in Task, u # t
  PROVE  pc[u] = "idle"
  BY DEF OneHook

(* The hook sends its message when no other is under way. *)
LEMMA SendAnswer ==
  ASSUME OneAnalyzer, IInv, AnswerInv, OneHook', NEW t \in Task, Send(t)
  PROVE  AnswerInv'
<1> DEFINE c == ThisCall(t)
<1>1. /\ pc[t] = "send" /\ pc' = [pc EXCEPT ![t] = "await_ready"]
      /\ asked' = [asked EXCEPT ![t] = TRUE]
      /\ UNCHANGED <<answer, analyzer_ready, calls, result, started, working, alive>>
  BY DEF Send, Goto, completions
<1>2. \A u \in Task : u # t => pc[u] = "idle"
  BY <1>1, OnlyAsker DEF AnswerInv
<1>3. /\ pc'[t] = "await_ready" /\ \A u \in Task : u # t => pc'[u] = "idle"
      /\ c' = c
  BY <1>1, <1>2 DEF IInv, TypeOK, ThisCall
<1>4. NoQuestion
  BY <1>1, <1>2 DEF AnswerInv, Question, Asking
<1>5. OnItsWay(c)'
  <2>1. CASE inbox' = inbox
    <3>1. NoQuestion'
      BY <1>1, <1>4, <2>1 DEF NoQuestion, NothingAsked
    <3> QED
      BY <3>1 DEF OnItsWay
  <2>2. CASE inbox' = [a \in Analyzer |-> IF a \in alive THEN Append(inbox[a], c) ELSE inbox[a]]
    <3>1. \A a \in Analyzer : inbox[a] = <<>> /\ working[a] = NoCall
      BY <1>4 DEF NoQuestion, NothingAsked
    <3>2. CASE \A a \in Analyzer : a \notin alive
      <4>1. NoQuestion'
        BY <1>1, <1>4, <2>2, <3>1, <3>2 DEF NoQuestion, NothingAsked
      <4> QED
        BY <4>1 DEF OnItsWay
    <3>3. CASE \E a \in Analyzer : a \in alive
      <4>1. \A a \in Analyzer : a \in alive
        BY <3>3 DEF OneAnalyzer
      <4>2. \A a \in Analyzer : inbox'[a] = <<c>> /\ working'[a] = NoCall
        <5>1. \A a \in Analyzer : inbox'[a] = Append(<<>>, c)
          BY <2>2, <3>1, <4>1
        <5>2. Append(<<>>, c) = <<c>>
          OBVIOUS
        <5> QED
          BY <1>1, <3>1, <5>1, <5>2
      <4>3. analyzer_ready'.done = 0
        BY <1>1, <1>4 DEF NoQuestion
      <4> QED
        BY <1>3, <4>2, <4>3 DEF OnItsWay
    <3> QED
      BY <3>2, <3>3
  <2> QED
    BY <2>1, <2>2 DEF Send
<1>6. Question'
  BY <1>3, <1>5 DEF Question, Asking
<1>7. AskedAndTold'
  BY <1>3 DEF AskedAndTold, Asking, Before
<1>8. Registered' /\ OwnVerdict'
  BY <1>1, <1>3 DEF AnswerInv, Registered, OwnVerdict, answer
<1> QED
  BY <1>6, <1>7, <1>8 DEF AnswerInv

(* The hook takes the answer, which is the one to its message, or sleeps. *)
LEMMA AwaitReadyAnswer ==
  ASSUME IInv, AnswerInv, OneHook', NEW t \in Task, AwaitReady(t)
  PROVE  AnswerInv'
<1> DEFINE c == ThisCall(t)
<1>1. /\ pc[t] = "await_ready"
      /\ UNCHANGED <<answer, calls, asked, result, started, working, inbox>>
  BY DEF AwaitReady, analyzers
<1>2. \A u \in Task : u # t => pc[u] = "idle"
  BY <1>1, OnlyAsker DEF AnswerInv
<1>3. OnItsWay(c) /\ analyzer_ready \in Completion(Task) /\ pc \in [Task -> PC]
  BY <1>1 DEF AnswerInv, Question, Asking, IInv, TypeOK
<1>4. Registered' /\ OwnVerdict'
  BY <1>1, <1>2 DEF AnswerInv, Registered, OwnVerdict, answer
<1>5. ASSUME analyzer_ready.done > 0, pc' = [pc EXCEPT ![t] = "reinit"],
             analyzer_ready' = Consumed(analyzer_ready)
      PROVE  AnswerInv'
  <2>1. /\ pc'[t] = "reinit" /\ \A u \in Task : u # t => pc'[u] = "idle"
    BY <1>2, <1>3, <1>5
  <2>2. NothingAsked /\ analyzer_ready.done = 1 /\ analyzer_response.about = c
    BY <1>3, <1>5 DEF OnItsWay, NoQuestion
  <2>3. analyzer_ready'.done = 0
    BY <1>3, <1>5, <2>2 DEF Consumed, Completion
  <2>4. NoQuestion'
    BY <1>1, <2>2, <2>3 DEF NoQuestion, NothingAsked
  <2>5. Question'
    BY <2>1, <2>4 DEF Question, Asking
  <2>6. AskedAndTold'
    BY <1>1, <2>1, <2>2 DEF AskedAndTold, Asking, Before, ThisCall, answer
  <2> QED
    BY <1>4, <2>5, <2>6 DEF AnswerInv
<1>6. ASSUME pc' = [pc EXCEPT ![t] = "sleep_ready"],
             analyzer_ready' = Joined(analyzer_ready, t)
      PROVE  AnswerInv'
  <2>1. /\ pc'[t] = "sleep_ready" /\ \A u \in Task : u # t => pc'[u] = "idle"
    BY <1>2, <1>3, <1>6
  <2>2. analyzer_ready'.done = analyzer_ready.done
    BY <1>3, <1>6 DEF Joined, Completion
  <2>3. OnItsWay(c)'
    BY <1>1, <1>3, <2>2 DEF OnItsWay, NoQuestion, NothingAsked, ThisCall, answer
  <2>4. Question'
    BY <2>1, <2>3 DEF Question, Asking
  <2>5. AskedAndTold'
    BY <2>1 DEF AskedAndTold, Asking, Before
  <2> QED
    BY <1>4, <2>4, <2>5 DEF AnswerInv
<1> QED
  BY <1>5, <1>6 DEF AwaitReady, Goto

(* The hook clears a count that is zero. *)
LEMMA ReinitReadyAnswer ==
  ASSUME IInv, AnswerInv, OneHook', NEW t \in Task, ReinitReady(t)
  PROVE  AnswerInv'
<1>1. /\ pc[t] = "reinit" /\ pc' = [pc EXCEPT ![t] = "release"]
      /\ UNCHANGED <<answer, calls, asked, result, started, working, inbox>>
      /\ analyzer_ready' = reinit(analyzer_ready)
  BY DEF ReinitReady, Goto, analyzers
<1>2. /\ pc'[t] = "release" /\ \A u \in Task : u # t => pc[u] = "idle" /\ pc'[u] = "idle"
  BY <1>1, OnlyAsker DEF AnswerInv, IInv, TypeOK
<1>3. analyzer_ready'.done = 0
  BY <1>1 DEF reinit, Completion, IInv, TypeOK
<1>4. NoQuestion'
  BY <1>1, <1>2, <1>3 DEF AnswerInv, Question, Asking, NoQuestion, NothingAsked
<1>5. Question'
  BY <1>2, <1>4 DEF Question, Asking
<1>6. AskedAndTold'
  BY <1>1, <1>2 DEF AnswerInv, AskedAndTold, Asking, Before, ThisCall, answer
<1>7. Registered' /\ OwnVerdict'
  BY <1>1, <1>2 DEF AnswerInv, Registered, OwnVerdict, answer
<1> QED
  BY <1>5, <1>6, <1>7 DEF AnswerInv

(* The hook returns what it was told. *)
LEMMA JoinThreadAnswer ==
  ASSUME IInv, AnswerInv, OneHook', NEW t \in Task, JoinThread(t)
  PROVE  AnswerInv'
<1> DEFINE c == ThisCall(t)
<1>1. /\ pc[t] = "join" /\ pc' = [pc EXCEPT ![t] = "idle"]
      /\ UNCHANGED <<answer, analyzer_ready, calls, asked, started, working, inbox>>
      /\ result' = [result EXCEPT ![c] = IF asked[t] THEN analyzer_response ELSE Unasked]
  BY DEF JoinThread, Return, Goto, analyzers, completions
<1>2. c \in Call
  BY <1>1, CallInHook
<1>3. OwnVerdict'
  <2>1. asked[t] => analyzer_response.about = c
    BY <1>1 DEF AnswerInv, AskedAndTold, Before, Asking
  <2> QED
    BY <1>1, <1>2, <2>1, NoVerdicts DEF AnswerInv, OwnVerdict, IInv, TypeOK
<1>4. \A u \in Task : pc'[u] = pc[u] \/ (pc[u] = "join" /\ pc'[u] = "idle")
  BY <1>1 DEF IInv, TypeOK
<1> QED
  BY <1>1, <1>3, <1>4, AnswerKept DEF Asking, Before

(* The other steps of a hook neither ask nor answer. *)
LEMMA HookStepAnswer ==
  ASSUME OneAnalyzer, IInv, AnswerInv, OneHook', NEW t \in Task, HookStep(t)
  PROVE  AnswerInv'
<1>1. CASE Send(t) \/ AwaitReady(t) \/ ReinitReady(t) \/ JoinThread(t)
  BY <1>1, SendAnswer, AwaitReadyAnswer, ReinitReadyAnswer, JoinThreadAnswer
<1>2. CASE \/ StartThread(t) \/ PinPages(t) \/ AwaitMmapDone(t) \/ CheckAddress(t)
           \/ Remap(t) \/ ReleaseThread(t) \/ StopThread(t)
  <2>1. ThisCall(t) \in Call /\ pc \in [Task -> PC]
    BY HookMoves, CallInHook DEF IInv, TypeOK
  <2>2. result' = result \/ \E r \in {Unasked, NoMem} : result' = [result EXCEPT ![ThisCall(t)] = r]
    BY <1>2 DEF StartThread, PinPages, AwaitMmapDone, CheckAddress, Remap, ReleaseThread, StopThread, Return
  <2>3. OwnVerdict'
    BY <2>1, <2>2, OtherResults DEF AnswerInv
  <2>4. UNCHANGED <<answer, analyzer_ready, calls, asked, started, inbox, working>>
    BY <1>2 DEF StartThread, PinPages, AwaitMmapDone, CheckAddress, Remap, ReleaseThread, StopThread,
                completions, analyzers
  <2>5. /\ pc[t] \notin Asking \cup {"idle"} /\ pc'[t] \notin Asking
        /\ pc'[t] \in Before => pc[t] \in Before
    BY <1>2, <2>1 DEF StartThread, PinPages, AwaitMmapDone, CheckAddress, Remap, ReleaseThread, StopThread,
                Goto, Return, Asking, Before
  <2>6. \A u \in Task : u # t => pc'[u] = pc[u]
    BY HookMoves
  <2> QED
    BY <2>3, <2>4, <2>5, <2>6, AnswerKept
<1> QED
  BY <1>1, <1>2 DEF HookStep

(* Nor does a thread. *)
LEMMA ThreadStepAnswer ==
  ASSUME IInv, AnswerInv, OneHook', NEW c \in Call, ThreadStep(c)
  PROVE  AnswerInv'
<1>1. /\ UNCHANGED <<calls, asked, result>>
      /\ \A t \in Task : pc'[t] = pc[t] \/ (pc[t] = "sleep_mmap" /\ pc'[t] = "await_mmap")
  BY ThreadMoves
<1>2. UNCHANGED <<answer, analyzer_ready, started, inbox, working>>
  BY DEF ThreadStep, MapInAnalyzer, InitMunmapReady, SignalMmapDone, AwaitMunmapReady, TestMunmapReady,
         Unmap, ExitThread, completions, analyzers
<1>3. OwnVerdict'
  BY <1>1 DEF AnswerInv, OwnVerdict
<1> QED
  BY <1>1, <1>2, <1>3, AnswerKept DEF Asking, Before

(* The one analyzer that starts finds no other registered, so its process id *)
(* is taken for no answer. *)
LEMMA StartAnalyzerAnswer ==
  ASSUME OneAnalyzer, IInv, AnswerInv, OneHook', NEW a \in Analyzer, StartAnalyzer(a)
  PROVE  AnswerInv'
<1>1. /\ a \notin started /\ started' = started \cup {a}
      /\ UNCHANGED <<calls, asked, result, inbox, working>>
  BY DEF StartAnalyzer
<1>2. analyzer_task = NoAnalyzer
  BY <1>1 DEF OneAnalyzer, AnswerInv, Registered, IInv, TypeOK
<1>3. UNCHANGED <<analyzer_response, analyzer_ready, pc>> /\ analyzer_task' \in {a, NoAnalyzer}
  BY <1>2 DEF StartAnalyzer
<1>4. \A t \in Task : pc[t] = "idle"
  BY <1>2 DEF AnswerInv, Registered
<1>5. Registered'
  BY <1>1, <1>3, <1>4 DEF Registered
<1>6. Question' /\ AskedAndTold' /\ OwnVerdict'
  BY <1>1, <1>3, <1>4 DEF AnswerInv, Question, NoQuestion, NothingAsked, Asking, Before, AskedAndTold, OwnVerdict
<1> QED
  BY <1>5, <1>6 DEF AnswerInv

(* Whatever an analyzer has to do was asked by the hook that waits. *)
LEMMA BusyAnalyzer ==
  ASSUME IInv, AnswerInv, NEW a \in Analyzer, inbox[a] # <<>> \/ working[a] # NoCall
  PROVE  /\ analyzer_ready.done = 0
         /\ \E t \in Task :
              /\ pc[t] \in Asking
              /\ \/ inbox[a] = <<ThisCall(t)>> /\ working[a] = NoCall
                 \/ inbox[a] = <<>> /\ working[a] = ThisCall(t)
<1>1. PICK t \in Task : pc[t] \in Asking
  BY DEF AnswerInv, Question, NoQuestion, NothingAsked
<1>2. OnItsWay(ThisCall(t))
  BY <1>1 DEF AnswerInv, Question
<1> QED
  BY <1>1, <1>2 DEF OnItsWay, NoQuestion, NothingAsked

(* The hook of t waits, and the step keeps it waiting and its message in place. *)
LEMMA StillAsking ==
  ASSUME IInv, AnswerInv, OneHook', NEW t \in Task, pc[t] \in Asking,
         UNCHANGED <<analyzer_task, calls, asked, result, started>>,
         \A u \in Task : pc'[u] = pc[u] \/ (pc[u] = "sleep_ready" /\ pc'[u] = "await_ready"),
         OnItsWay(ThisCall(t))'
  PROVE  AnswerInv'
<1>1. \A u \in Task : u # t => pc[u] = "idle" /\ pc'[u] = "idle"
  BY OnlyAsker DEF AnswerInv, Asking
<1>2. pc'[t] \in Asking
  BY DEF Asking
<1>3. Question'
  BY <1>1, <1>2 DEF Question, Asking
<1>4. AskedAndTold'
  BY <1>1, <1>2 DEF AskedAndTold, Asking, Before
<1>5. Registered' /\ OwnVerdict'
  BY DEF AnswerInv, Registered, OwnVerdict
<1> QED
  BY <1>3, <1>4, <1>5 DEF AnswerInv

(* The analyzer takes the message, or dies of it. *)
LEMMA AnalyzeAnswer ==
  ASSUME OneAnalyzer, IInv, AnswerInv, OneHook', NEW a \in Analyzer, Analyze(a)
  PROVE  AnswerInv'
<1>1. /\ inbox[a] # <<>> /\ working[a] = NoCall
      /\ UNCHANGED <<analyzer_task, analyzer_ready, calls, asked, result, started, pc, analyzer_response>>
  BY DEF Analyze, answer, completions, hooks
<1>2. PICK t \in Task : pc[t] \in Asking /\ inbox[a] = <<ThisCall(t)>>
  BY <1>1, BusyAnalyzer
<1>3. analyzer_ready.done = 0
  BY <1>1, BusyAnalyzer
<1>4. inbox \in [Analyzer -> Seq(Call)] /\ working \in [Analyzer -> Call \cup {NoCall}] /\ \A b \in Analyzer : b = a
  BY DEF IInv, TypeOK, OneAnalyzer
<1>5. ThisCall(t)' = ThisCall(t)
  BY <1>1 DEF ThisCall
<1>6. OnItsWay(ThisCall(t))'
  <2>1. Head(inbox[a]) = ThisCall(t) /\ Tail(inbox[a]) = <<>>
    BY <1>2
  <2>2. CASE inbox' = [inbox EXCEPT ![a] = Tail(@)] /\ working' = [working EXCEPT ![a] = Head(inbox[a])]
    <3>1. inbox'[a] = <<>> /\ working'[a] = ThisCall(t)
      BY <1>4, <2>1, <2>2
    <3> QED
      BY <1>1, <1>3, <1>4, <1>5, <3>1 DEF OnItsWay
  <2>3. CASE Dies(a)
    <3>1. inbox'[a] = <<>> /\ working'[a] = NoCall
      BY <1>4, <2>3 DEF Dies
    <3> QED
      BY <1>1, <1>3, <1>4, <3>1 DEF OnItsWay, NoQuestion, NothingAsked
  <2> QED
    BY <2>2, <2>3 DEF Analyze
<1> QED
  BY <1>1, <1>2, <1>6, StillAsking

(* The answer is about the message, and there is room for no other. *)
LEMMA ReplyAnswer ==
  ASSUME OneAnalyzer, IInv, AnswerInv, OneHook', NEW a \in Analyzer, Reply(a)
  PROVE  AnswerInv'
<1>1. /\ working[a] # NoCall /\ working' = [working EXCEPT ![a] = NoCall]
      /\ UNCHANGED <<analyzer_task, calls, asked, result, started, inbox>>
  BY DEF Reply
<1>2. PICK t \in Task : pc[t] \in Asking /\ inbox[a] = <<>> /\ working[a] = ThisCall(t)
  BY <1>1, BusyAnalyzer
<1>3. analyzer_ready.done = 0 /\ analyzer_ready \in Completion(Task)
  BY <1>1, BusyAnalyzer DEF IInv, TypeOK
<1>4. working \in [Analyzer -> Call \cup {NoCall}] /\ \A b \in Analyzer : b = a
  BY DEF IInv, TypeOK, OneAnalyzer
<1>5. NothingAsked'
  BY <1>1, <1>2, <1>4 DEF NothingAsked
<1>6. \A u \in Task : pc'[u] = pc[u] \/ (pc[u] = "sleep_ready" /\ pc'[u] = "await_ready")
  BY AnalyzerMoves DEF AnalyzerStep
<1>7. OnItsWay(ThisCall(t))'
  <2>1. CASE \E clean \in Findings : Answer([about |-> working[a], clean |-> clean])
    <3>1. analyzer_response'.about = ThisCall(t) /\ analyzer_ready' = complete(analyzer_ready)
      BY <1>2, <2>1 DEF Answer
    <3>2. analyzer_ready'.done = 1
      BY <1>3, <3>1 DEF complete
    <3>3. ThisCall(t)' = ThisCall(t)
      BY <1>1 DEF ThisCall
    <3> QED
      BY <1>5, <3>1, <3>2, <3>3 DEF OnItsWay
  <2>2. CASE UNCHANGED <<analyzer_response, analyzer_ready, pc>>
    BY <1>3, <1>5, <2>2 DEF OnItsWay, NoQuestion
  <2> QED
    BY <2>1, <2>2 DEF Reply
<1> QED
  BY <1>1, <1>2, <1>6, <1>7, StillAsking

(* An analyzer that dies takes the message with it, but not its answer. *)
LEMMA CrashAnswer ==
  ASSUME OneAnalyzer, IInv, AnswerInv, OneHook', NEW a \in Analyzer, Crash(a)
  PROVE  AnswerInv'
<1>1. UNCHANGED <<analyzer_task, analyzer_ready, calls, asked, result, started, pc, analyzer_response>>
  BY DEF Crash, answer, completions, hooks
<1>2. \A b \in Analyzer : inbox'[b] = <<>> /\ working'[b] = NoCall
  BY DEF Crash, Dies, OneAnalyzer, IInv, TypeOK
<1>3. NothingAsked'
  BY <1>2 DEF NothingAsked
<1>4. CASE \E t \in Task : pc[t] \in Asking
  <2>1. PICK t \in Task : pc[t] \in Asking
    BY <1>4
  <2>2. OnItsWay(ThisCall(t)) /\ ThisCall(t)' = ThisCall(t)
    BY <1>1, <2>1 DEF AnswerInv, Question, ThisCall
  <2>3. OnItsWay(ThisCall(t))'
    BY <1>1, <1>3, <2>2 DEF OnItsWay, NoQuestion
  <2> QED
    BY <1>1, <2>1, <2>3, StillAsking
<1>5. CASE \A t \in Task : pc[t] \notin Asking
  <2>1. NoQuestion'
    BY <1>1, <1>3, <1>5 DEF AnswerInv, Question, NoQuestion
  <2>2. Question'
    BY <1>1, <1>5, <2>1 DEF Question
  <2>3. Registered' /\ OwnVerdict' /\ AskedAndTold'
    BY <1>1 DEF AnswerInv, Registered, OwnVerdict, AskedAndTold, ThisCall
  <2> QED
    BY <2>2, <2>3 DEF AnswerInv
<1> QED
  BY <1>4, <1>5

(* One question at a time: one case for each disjunct of Next. *)
LEMMA AnswerStep ==
  ASSUME Exclusive, OneAnalyzer, IInv, AnswerInv, [Next]_vars
  PROVE  AnswerInv'
<1>1. OneHook'
  BY OneHookStep DEF AnswerInv
<1>2. CASE UNCHANGED vars
  <2>1. OwnVerdict'
    BY <1>2 DEF vars, hooks, AnswerInv, OwnVerdict
  <2> QED
    BY <1>1, <1>2, <2>1, AnswerKept DEF vars, hooks, completions, analyzers
<1>3. ASSUME NEW t \in Task, HookStep(t) PROVE AnswerInv'
  BY <1>1, <1>3, HookStepAnswer
<1>4. ASSUME NEW t \in Task, NEW k \in {"mmap", "mprotect", "bpf"}, EnterHook(t, k) PROVE AnswerInv'
  BY <1>1, <1>4, EnterHookAnswer
<1>5. ASSUME NEW c \in Call, ThreadStep(c) PROVE AnswerInv'
  BY <1>1, <1>5, ThreadStepAnswer
<1>6. ASSUME NEW a \in Analyzer, StartAnalyzer(a) \/ AnalyzerStep(a) \/ Crash(a) PROVE AnswerInv'
  BY <1>1, <1>6, StartAnalyzerAnswer, AnalyzeAnswer, ReplyAnswer, CrashAnswer DEF AnalyzerStep
<1> QED
  BY <1>2, <1>3, <1>4, <1>5, <1>6 DEF Next

LEMMA InitAnswer == Init => AnswerInv
<1> SUFFICES ASSUME Init PROVE AnswerInv
  OBVIOUS
<1>1. OneHook
  BY DEF Init, OneHook
<1>2. Registered /\ AskedAndTold
  BY DEF Init, Registered, AskedAndTold
<1>3. Question
  BY DEF Init, Question, NoQuestion, NothingAsked, Fresh, Asking
<1>4. OwnVerdict
  BY NoVerdicts DEF Init, OwnVerdict
<1> QED
  BY <1>1, <1>2, <1>3, <1>4 DEF AnswerInv

(***************************************************************************)
(* With hooks that run one at a time and one analyzer, there is one        *)
(* question at a time: the message of the hook that waits is lost, or with *)
(* the analyzer, or answered, and no other message or answer exists.       *)
(***************************************************************************)
THEOREM AnswerInvariant ==
  ASSUME Exclusive, OneAnalyzer
  PROVE  SitesSpec => []AnswerInv
<1>1. SitesInit => AnswerInv
  BY InitAnswer DEF SitesInit
<1>2. IInv /\ AnswerInv /\ [SitesNext]_svars => AnswerInv'
  BY SitesStep, AnswerStep
<1> QED
  BY <1>1, <1>2, SitesInvariant, PTL DEF SitesSpec

(***************************************************************************)
(* A hook returns the answer to its own message, whatever fails: messages, *)
(* answers and mappings may be lost, and the analyzer may die.             *)
(***************************************************************************)
THEOREM AnalyzerVerdictIsOwn ==
  ASSUME Exclusive, OneAnalyzer
  PROVE  SitesSpec => []OwnVerdict
<1>1. AnswerInv => OwnVerdict
  BY DEF AnswerInv
<1> QED
  BY <1>1, AnswerInvariant, PTL

-----------------------------------------------------------------------------
(***************************************************************************)
(* The system calls around the hooks.  A system call waits for one hook    *)
(* call, that of the mapping after those it has changed; the results of    *)
(* the earlier ones stay.                                                  *)
(***************************************************************************)
ProgressOf(t) ==
  /\ syscall[t] = "none" => pc[t] = "idle"
  /\ syscall[t] # "none" =>
       /\ outcome[t] = "none"
       /\ calls[t] = first[t] + (IF syscall[t] = "mprotect" THEN changed[t] ELSE 0)
       /\ pc[t] = "idle" => result[ThisCall(t)] # Pending
  /\ outcome[t] = "ok" => first[t] + changed[t] <= calls[t] + 1

Progress == \A t \in Task : ProgressOf(t)

(* The hook of call c has cleared it, or was not able to ask. *)
Passed(c) == Cleared(c) \/ result[c] = Unasked

(* ChangedAreCleared, but for the reasons of those calls. *)
ChangesPassed ==
  \A t \in Task :
    syscall[t] = "mprotect" \/ outcome[t] = "ok" =>
      \A v \in 1 .. changed[t] : Passed(<<t, first[t] + v - 1>>)

ClearedInv == Progress /\ ChangesPassed

(* ChangesPassed for the system call of t. *)
ClearedFor(t) ==
  syscall[t] = "mprotect" \/ outcome[t] = "ok" =>
    \A v \in 1 .. changed[t] : Passed(<<t, first[t] + v - 1>>)

(* A hook that has returned zero was told that its own call is clean, or asked nobody. *)
LEMMA CleanIsCleared ==
  ASSUME IInv, OwnVerdict, NEW c \in Call, result[c].clean, result[c] # Pending
  PROVE  Passed(c)
<1>1. ~Invalid.clean /\ ~NoMem.clean /\ result[c] \in Result
  BY DEF Invalid, NoMem, IInv, TypeOK
<1>2. result[c] \in {Allowed, Unasked} \/ result[c] \in Verdict
  BY <1>1 DEF Result
<1>3. CASE result[c] \in Verdict
  <2>1. result[c].about = c /\ result[c].clean = TRUE
    BY <1>3 DEF OwnVerdict, Verdict
  <2>2. result[c] = [about |-> result[c].about, clean |-> result[c].clean]
    BY <1>3 DEF Verdict
  <2> QED
    BY <2>1, <2>2 DEF Passed, Cleared
<1> QED
  BY <1>2, <1>3 DEF Passed, Cleared

(* Entering a hook sets no result but that of the call it begins. *)
LEMMA EnterResult ==
  ASSUME IInv, NEW t \in Task, NEW k \in {"mmap", "mprotect", "bpf"}, EnterHook(t, k)
  PROVE  /\ pc[t] = "idle" /\ calls' = [calls EXCEPT ![t] = @ + 1]
         /\ \A c \in Call : c # <<t, calls[t] + 1>> => result'[c] = result[c]
         /\ \A u \in Task : u # t => pc'[u] = pc[u]
         /\ pc'[t] = "idle" => result'[<<t, calls[t] + 1>>] # Pending
<1>1. <<t, calls[t] + 1>> \in Call
  BY EnteredCall
<1>2. Pending \notin {Allowed, Invalid, NoMem}
  BY DEF Pending, Allowed, Invalid, NoMem
<1> QED
  BY <1>1, <1>2 DEF EnterHook, Gates, Return, Goto, IInv, TypeOK

(* A hook that goes on sets no result but its own, and that when it returns. *)
LEMMA HookResult ==
  ASSUME IInv, NEW t \in Task, HookStep(t)
  PROVE  /\ \A c \in Call : c # ThisCall(t) => result'[c] = result[c]
         /\ pc'[t] = "idle" => result'[ThisCall(t)] # Pending
<1>1. ThisCall(t) \in Call /\ pc \in [Task -> PC] /\ result \in [Call -> Result]
  BY HookMoves, CallInHook DEF IInv, TypeOK
<1>2. Pending \notin {Unasked, NoMem, analyzer_response}
  BY NoVerdicts DEF Pending, Unasked, NoMem, IInv, TypeOK
<1>3. \/ result' = result /\ \E p \in PC \ {"idle"} : pc' = [pc EXCEPT ![t] = p]
      \/ \E r \in {Unasked, NoMem, analyzer_response} :
           pc' = [pc EXCEPT ![t] = "idle"] /\ result' = [result EXCEPT ![ThisCall(t)] = r]
  BY DEF HookStep, StartThread, PinPages, AwaitMmapDone, CheckAddress, Remap, Send, AwaitReady,
         ReinitReady, ReleaseThread, StopThread, JoinThread, Goto, Return, PC
<1> QED
  BY <1>1, <1>2, <1>3

(* What a step does to the results of the calls made so far. *)
LEMMA ResultsStay ==
  ASSUME IInv, [Next]_vars, NEW c \in Call
  PROVE  \/ result'[c] = result[c]
         \/ c[2] = calls[c[1]] + 1
         \/ c[2] = calls[c[1]] /\ pc[c[1]] # "idle"
<1>1. CASE UNCHANGED vars
  BY <1>1 DEF vars, hooks
<1>2. ASSUME NEW t \in Task, HookStep(t), result'[c] # result[c]
      PROVE  c[2] = calls[c[1]] /\ pc[c[1]] # "idle"
  <2>1. c = ThisCall(t) /\ pc[t] # "idle"
    BY <1>2, HookResult, HookMoves
  <2> QED
    BY <2>1 DEF ThisCall
<1>3. ASSUME NEW t \in Task, NEW k \in {"mmap", "mprotect", "bpf"}, EnterHook(t, k), result'[c] # result[c]
      PROVE  c[2] = calls[c[1]] + 1
  <2>1. c = <<t, calls[t] + 1>>
    BY <1>3, EnterResult
  <2> QED
    BY <2>1
<1>4. ASSUME NEW d \in Call, ThreadStep(d) PROVE result'[c] = result[c]
  BY <1>4, ThreadMoves
<1>5. ASSUME NEW a \in Analyzer, StartAnalyzer(a) \/ AnalyzerStep(a) \/ Crash(a) PROVE result'[c] = result[c]
  BY <1>5, AnalyzerMoves
<1> QED
  BY <1>1, <1>2, <1>3, <1>4, <1>5 DEF Next

(* The n-th hook call of t is a call if t has made it. *)
LEMMA CallsMade ==
  ASSUME IInv, NEW t \in Task, NEW n \in 1 .. calls[t]
  PROVE  <<t, n>> \in Call
<1>1. calls[t] \in Nat /\ calls[t] <= MaxCalls[t]
  BY DEF IInv, TypeOK
<1>2. MaxCalls[t] \in Nat /\ (n \in 1 .. MaxCalls[t] => <<t, n>> \in Call)
  BY CallsOfTasks
<1> QED
  BY <1>1, <1>2

(* The numbers of calls and mappings. *)
LEMMA SiteNumbers ==
  ASSUME IInv, SitesInv, NEW t \in Task
  PROVE  calls[t] \in Nat /\ first[t] \in Nat \ {0} /\ changed[t] \in Nat /\ vmas[t] \in Nat
  BY HookSitesAssumption DEF IInv, TypeOK, SitesInv, SitesTypeOK

(* What was cleared for the system call of t stays so while it enters no other. *)
LEMMA ClearedStays ==
  ASSUME IInv, SitesInv, ClearedInv, [Next]_vars, NEW t \in Task,
         syscall[t] = "mprotect" \/ outcome[t] = "ok",
         NEW v \in 1 .. changed[t], NEW n, n = first[t] + v - 1
  PROVE  Passed(<<t, n>>)'
<1>1. n \in 1 .. calls[t] /\ (syscall[t] # "none" => n < calls[t])
  BY SiteNumbers DEF ClearedInv, Progress, ProgressOf
<1>2. syscall[t] = "none" => pc[t] = "idle"
  BY DEF ClearedInv, Progress, ProgressOf
<1>3. <<t, n>> \in Call
  BY <1>1, CallsMade
<1>4. calls[t] \in Nat /\ n \in Nat
  BY <1>1, SiteNumbers
<1>5. result'[<<t, n>>] = result[<<t, n>>]
  <2>1. <<t, n>>[1] = t /\ <<t, n>>[2] = n /\ n # calls[t] + 1 /\ (n = calls[t] => pc[t] = "idle")
    BY <1>1, <1>2, <1>4
  <2> QED
    BY <1>3, <2>1, ResultsStay
<1>6. Passed(<<t, n>>)
  BY DEF ClearedInv, ChangesPassed
<1> QED
  BY <1>5, <1>6 DEF Passed, Cleared

(* A step inside the hooks changes nothing of the system calls. *)
LEMMA InsideStep ==
  ASSUME IInv, SitesInv, ClearedInv, [Next]_vars, UNCHANGED sites,
         \A t \in Task, k \in {"mmap", "mprotect", "bpf"} : ~EnterHook(t, k),
         \A t \in Task : pc[t] # "idle" /\ pc'[t] = "idle" => result'[ThisCall(t)] # Pending
  PROVE  ClearedInv'
<1>1. UNCHANGED calls /\ \A u \in Task : pc'[u] # "idle" => pc[u] # "idle"
  BY StepKinds DEF HooksGoOn
<1>2. UNCHANGED <<syscall, vmas, first, changed, outcome>>
  BY DEF sites
<1>3. ASSUME NEW t \in Task, syscall[t] # "none", pc'[t] = "idle" PROVE result'[ThisCall(t)] # Pending
  <2>1. CASE pc[t] = "idle"
    <3>1. calls[t] \in 1 .. calls[t]
      BY <1>3, SiteNumbers DEF ClearedInv, Progress, ProgressOf
    <3>2. ThisCall(t) \in Call /\ ThisCall(t)[1] = t /\ ThisCall(t)[2] = calls[t] /\ calls[t] # calls[t] + 1
      BY <3>1, CallsMade DEF ThisCall
    <3>3. result'[ThisCall(t)] = result[ThisCall(t)]
      BY <2>1, <3>2, ResultsStay
    <3> QED
      BY <1>3, <2>1, <3>3 DEF ClearedInv, Progress, ProgressOf
  <2> QED
    BY <1>3, <2>1
<1>4. Progress'
  BY <1>1, <1>2, <1>3 DEF ClearedInv, Progress, ProgressOf, ThisCall
<1>5. ChangesPassed'
  <2>1. SUFFICES ASSUME NEW t \in Task, syscall[t] = "mprotect" \/ outcome[t] = "ok",
                        NEW v \in 1 .. changed[t]
                 PROVE  Passed(<<t, first[t] + v - 1>>)'
    BY <1>2 DEF ChangesPassed
  <2>2. PICK n : n = first[t] + v - 1
    OBVIOUS
  <2>3. Passed(<<t, n>>)'
    BY <2>1, <2>2, ClearedStays
  <2> QED
    BY <1>2, <2>2, <2>3 DEF Passed, Cleared
<1> QED
  BY <1>4, <1>5 DEF ClearedInv

(* The other system calls do not see that a hook is entered. *)
LEMMA OtherSites ==
  ASSUME IInv, SitesInv, ClearedInv,
         NEW t \in Task, NEW k \in {"mmap", "mprotect", "bpf"}, EnterHook(t, k), NEW u \in Task, u # t,
         syscall'[u] = syscall[u], first'[u] = first[u], outcome'[u] = outcome[u], changed'[u] = changed[u]
  PROVE  ProgressOf(u)' /\ ClearedFor(u)'
<1>1. /\ calls' = [calls EXCEPT ![t] = calls[t] + 1] /\ pc'[u] = pc[u]
      /\ calls \in [Task -> Nat] /\ [Next]_vars
  BY EnterResult DEF IInv, TypeOK, Next
<1>2. calls'[u] = calls[u] /\ ThisCall(u)' = ThisCall(u)
  BY <1>1 DEF ThisCall
<1>3. ASSUME syscall[u] # "none", pc[u] = "idle"
      PROVE  result'[ThisCall(u)] # Pending
  <2>1. calls[u] \in 1 .. calls[u]
    BY <1>3, SiteNumbers DEF ClearedInv, Progress, ProgressOf
  <2>2. ThisCall(u) \in Call /\ ThisCall(u) # <<t, calls[t] + 1>>
    BY <2>1, CallsMade DEF ThisCall
  <2> QED
    BY <1>3, <2>2, EnterResult DEF ClearedInv, Progress, ProgressOf
<1>4. ProgressOf(u)'
  BY <1>1, <1>2, <1>3 DEF ClearedInv, Progress, ProgressOf
<1>5. ASSUME syscall[u] = "mprotect" \/ outcome[u] = "ok", NEW v \in 1 .. changed[u]
      PROVE  Passed(<<u, first[u] + v - 1>>)'
  <2>1. PICK n : n = first[u] + v - 1
    OBVIOUS
  <2>2. Passed(<<u, n>>)'
    BY <1>1, <1>5, <2>1, ClearedStays
  <2> QED
    BY <2>1, <2>2 DEF Passed, Cleared
<1> QED
  BY <1>4, <1>5 DEF ClearedFor

(* What is to show of a step is so for each system call. *)
LEMMA AllSites ==
  ASSUME \A t \in Task : ProgressOf(t)' /\ ClearedFor(t)'
  PROVE  ClearedInv'
  BY DEF ClearedInv, Progress, ChangesPassed, ClearedFor

(* A system call begins: its first hook is called, and nothing is cleared yet. *)
LEMMA BeginCleared ==
  ASSUME IInv, SitesInv, ClearedInv, NEW t \in Task, NEW k \in {"mmap", "mprotect", "bpf"}, NEW n,
         NEW m \in {0, 1}, k = "mprotect" => m = 0,
         Begin(t, k, n), changed' = [changed EXCEPT ![t] = m]
  PROVE  ClearedInv'
<1>1. EnterHook(t, k)
  BY DEF Begin
<1>2. /\ syscall' = [syscall EXCEPT ![t] = k] /\ first' = [first EXCEPT ![t] = calls[t] + 1]
      /\ outcome' = [outcome EXCEPT ![t] = "none"]
      /\ syscall \in [Task -> {"none", "mmap", "mprotect", "bpf"}]
      /\ first \in [Task -> Nat \ {0}] /\ changed \in [Task -> 0 .. MaxVmas]
      /\ outcome \in [Task -> {"none", "ok", "error"}] /\ calls \in [Task -> Nat]
  BY DEF Begin, SitesInv, SitesTypeOK, IInv, TypeOK
<1>3. ASSUME NEW u \in Task, u # t PROVE ProgressOf(u)' /\ ClearedFor(u)'
  <2>1. syscall'[u] = syscall[u] /\ first'[u] = first[u] /\ outcome'[u] = outcome[u] /\ changed'[u] = changed[u]
    BY <1>2, <1>3
  <2> QED
    BY <1>1, <1>3, <2>1, OtherSites
<1>4. calls' = [calls EXCEPT ![t] = calls[t] + 1]
  BY <1>1, EnterResult
<1>5. /\ syscall'[t] = k /\ first'[t] = calls[t] + 1 /\ outcome'[t] = "none" /\ changed'[t] = m
      /\ calls'[t] = calls[t] + 1 /\ ThisCall(t)' = <<t, calls[t] + 1>>
  BY <1>2, <1>4 DEF ThisCall
<1>6. pc'[t] = "idle" => result'[ThisCall(t)'] # Pending
  BY <1>1, <1>5, EnterResult
<1>7. ProgressOf(t)'
  <2>1. calls[t] + 1 = calls[t] + 1 + (IF k = "mprotect" THEN m ELSE 0)
    BY <1>2
  <2> QED
    BY <1>5, <1>6, <2>1 DEF ProgressOf, ThisCall
<1>8. ClearedFor(t)'
  BY <1>5 DEF ClearedFor
<1> QED
  BY <1>3, <1>7, <1>8, AllSites

(* The hook that t has called for its next mapping said that it is clean. *)
LEMMA PassedIsCleared ==
  ASSUME IInv, SitesInv, ClearedInv, OwnVerdict, NEW t \in Task, syscall[t] # "none", HookPassed(t)
  PROVE  Passed(ThisCall(t)) /\ ThisCall(t) \in Call
<1>1. calls[t] \in 1 .. calls[t]
  BY SiteNumbers DEF ClearedInv, Progress, ProgressOf
<1>2. ThisCall(t) \in Call
  BY <1>1, CallsMade DEF ThisCall
<1> QED
  BY <1>2, CleanIsCleared DEF ClearedInv, Progress, ProgressOf, HookPassed

(* A system call ends, in an error or with what the hook has cleared. *)
LEMMA FinishCleared ==
  ASSUME IInv, SitesInv, ClearedInv, NEW t \in Task, syscall[t] # "none", pc[t] = "idle",
         NEW how \in {"ok", "error"}, Finish(t, how), NEW m \in Nat,
         changed' = [changed EXCEPT ![t] = m],
         how = "ok" => /\ m = (IF syscall[t] = "mprotect" THEN changed[t] + 1 ELSE 1)
                       /\ Passed(ThisCall(t))
  PROVE  ClearedInv'
<1>1. /\ syscall' = [syscall EXCEPT ![t] = "none"]
      /\ outcome' = [outcome EXCEPT ![t] = how]
      /\ UNCHANGED <<pc, calls, result, first>>
      /\ syscall \in [Task -> {"none", "mmap", "mprotect", "bpf"}]
      /\ outcome \in [Task -> {"none", "ok", "error"}] /\ changed \in [Task -> 0 .. MaxVmas]
  BY DEF Finish, vars, hooks, SitesInv, SitesTypeOK
<1>2. ASSUME NEW u \in Task, u # t PROVE ProgressOf(u)' /\ ClearedFor(u)'
  <2>1. syscall'[u] = syscall[u] /\ outcome'[u] = outcome[u] /\ changed'[u] = changed[u]
    BY <1>1, <1>2
  <2>2. ProgressOf(u)'
    BY <1>1, <2>1 DEF ClearedInv, Progress, ProgressOf, ThisCall
  <2>3. ClearedFor(u)'
    BY <1>1, <2>1 DEF ClearedInv, ChangesPassed, ClearedFor, Passed, Cleared
  <2> QED
    BY <2>2, <2>3
<1>3. syscall'[t] = "none" /\ outcome'[t] = how /\ changed'[t] = m
  BY <1>1
<1>4. calls[t] = first[t] + (IF syscall[t] = "mprotect" THEN changed[t] ELSE 0)
  BY DEF ClearedInv, Progress, ProgressOf
<1>5. calls[t] \in Nat /\ first[t] \in Nat \ {0} /\ changed[t] \in Nat
  BY SiteNumbers
<1>6. ProgressOf(t)'
  BY <1>1, <1>3, <1>4, <1>5 DEF ProgressOf
<1>7. ASSUME how = "ok", NEW v \in 1 .. m PROVE Passed(<<t, first[t] + v - 1>>)
  <2>1. CASE v = m
    <3>1. first[t] + v - 1 = calls[t]
      BY <1>4, <1>5, <1>7, <2>1
    <3> QED
      BY <1>7, <3>1 DEF ThisCall
  <2>2. CASE v # m
    <3>1. syscall[t] = "mprotect" /\ v \in 1 .. changed[t]
      BY <1>5, <1>7, <2>2
    <3> QED
      BY <3>1 DEF ClearedInv, ChangesPassed
  <2> QED
    BY <2>1, <2>2
<1>8. ClearedFor(t)'
  BY <1>1, <1>3, <1>7 DEF ClearedFor, Passed, Cleared
<1> QED
  BY <1>2, <1>6, <1>8, AllSites

(* The loop of mprotect goes on with the next mapping. *)
LEMMA NextVmaCleared ==
  ASSUME IInv, SitesInv, ClearedInv, OwnVerdict, NEW t \in Task, syscall[t] = "mprotect", HookPassed(t),
         EnterHook(t, "mprotect"), changed' = [changed EXCEPT ![t] = changed[t] + 1],
         UNCHANGED <<syscall, vmas, first, outcome>>
  PROVE  ClearedInv'
<1>1. calls[t] = first[t] + changed[t] /\ outcome[t] = "none"
  BY DEF ClearedInv, Progress, ProgressOf
<1>2. calls[t] \in Nat /\ first[t] \in Nat \ {0} /\ changed[t] \in Nat
  BY SiteNumbers
<1>3. changed \in [Task -> 0 .. MaxVmas] /\ calls \in [Task -> Nat]
  BY DEF SitesInv, SitesTypeOK, IInv, TypeOK
<1>4. ASSUME NEW u \in Task, u # t PROVE ProgressOf(u)' /\ ClearedFor(u)'
  <2>1. changed'[u] = changed[u]
    BY <1>3, <1>4
  <2> QED
    BY <1>4, <2>1, OtherSites
<1>5. calls' = [calls EXCEPT ![t] = calls[t] + 1]
  BY EnterResult
<1>6. changed'[t] = changed[t] + 1 /\ calls'[t] = calls[t] + 1 /\ ThisCall(t)' = <<t, calls[t] + 1>>
  BY <1>3, <1>5 DEF ThisCall
<1>7. pc'[t] = "idle" => result'[ThisCall(t)'] # Pending
  BY <1>6, EnterResult
<1>8. ProgressOf(t)'
  <2>1. calls[t] + 1 = first[t] + (changed[t] + 1)
    BY <1>1, <1>2
  <2> QED
    BY <1>1, <1>6, <1>7, <2>1 DEF ProgressOf, ThisCall
<1>9. ASSUME NEW v \in 1 .. changed[t] + 1 PROVE Passed(<<t, first[t] + v - 1>>)'
  <2>1. PICK n \in Nat : n = first[t] + v - 1
    BY <1>2
  <2>2. CASE v = changed[t] + 1
    <3>1. n = calls[t] /\ n # calls[t] + 1
      BY <1>1, <1>2, <2>1, <2>2
    <3>2. Passed(<<t, n>>) /\ <<t, n>> \in Call
      BY <3>1, PassedIsCleared DEF ThisCall
    <3>3. result'[<<t, n>>] = result[<<t, n>>]
      BY <3>1, <3>2, EnterResult
    <3> QED
      BY <2>1, <3>2, <3>3 DEF Passed, Cleared
  <2>3. CASE v # changed[t] + 1
    <3>1. v \in 1 .. changed[t] /\ [Next]_vars
      BY <1>2, <1>9, <2>3 DEF Next
    <3>2. Passed(<<t, n>>)'
      BY <2>1, <3>1, ClearedStays
    <3> QED
      BY <2>1, <3>2 DEF Passed, Cleared
  <2> QED
    BY <2>2, <2>3
<1>10. ClearedFor(t)'
  BY <1>6, <1>9 DEF ClearedFor
<1> QED
  BY <1>4, <1>8, <1>10, AllSites

(* What the system calls do keeps their changes cleared. *)
LEMMA SiteStepCleared ==
  ASSUME IInv, SitesInv, ClearedInv, OwnVerdict, NEW t \in Task, SiteStep(t)
  PROVE  ClearedInv'
<1>1. /\ syscall[t] # "none" /\ pc[t] = "idle" /\ changed[t] \in Nat
      /\ changed \in [Task -> 0 .. MaxVmas]
  BY SiteNumbers DEF SiteStep, Refused, Succeed, ChangeVma, HookPassed, SitesInv, SitesTypeOK
<1>2. ASSUME UNCHANGED changed, Finish(t, "error") PROVE ClearedInv'
  <2>1. changed' = [changed EXCEPT ![t] = changed[t]]
    BY <1>1, <1>2
  <2> QED
    BY <1>1, <1>2, <2>1, FinishCleared
<1>3. CASE Refused(t)
  BY <1>2, <1>3 DEF Refused
<1>4. CASE Succeed(t)
  <2>1. Passed(ThisCall(t)) /\ syscall[t] # "mprotect"
    BY <1>1, <1>4, PassedIsCleared DEF Succeed
  <2>2. Finish(t, "ok") /\ changed' = [changed EXCEPT ![t] = 1]
    BY <1>4 DEF Succeed
  <2> QED
    BY <1>1, <2>1, <2>2, FinishCleared
<1>5. CASE ChangeVma(t)
  <2>1. syscall[t] = "mprotect" /\ HookPassed(t) /\ Passed(ThisCall(t))
    BY <1>1, <1>5, PassedIsCleared DEF ChangeVma
  <2>2. ASSUME changed' = [changed EXCEPT ![t] = @ + 1], Finish(t, "ok") PROVE ClearedInv'
    <3>1. changed' = [changed EXCEPT ![t] = changed[t] + 1] /\ changed[t] + 1 \in Nat
      BY <1>1, <2>2
    <3> QED
      BY <1>1, <2>1, <2>2, <3>1, FinishCleared
  <2>3. ASSUME changed' = [changed EXCEPT ![t] = @ + 1], EnterHook(t, "mprotect"),
               UNCHANGED <<syscall, vmas, first, outcome>>
        PROVE  ClearedInv'
    <3>1. changed' = [changed EXCEPT ![t] = changed[t] + 1]
      BY <2>3
    <3> QED
      BY <2>1, <2>3, <3>1, NextVmaCleared
  <2> QED
    BY <1>2, <1>5, <2>2, <2>3 DEF ChangeVma
<1> QED
  BY <1>3, <1>4, <1>5 DEF SiteStep

(* A step of a hook, a thread or an analyzer. *)
LEMMA HooksStepCleared ==
  ASSUME IInv, SitesInv, ClearedInv, UNCHANGED sites,
         \/ UNCHANGED vars
         \/ \E t \in Task : HookStep(t)
         \/ \E c \in Call : ThreadStep(c)
         \/ \E a \in Analyzer : StartAnalyzer(a) \/ AnalyzerStep(a) \/ Crash(a)
  PROVE  ClearedInv'
<1>1. [Next]_vars
  BY DEF Next
<1>2. HooksGoOn
  BY HookMoves, ThreadMoves, AnalyzerMoves DEF HooksGoOn, vars, hooks
<1>3. \A t \in Task, k \in {"mmap", "mprotect", "bpf"} : ~EnterHook(t, k)
  <2> SUFFICES ASSUME NEW t \in Task, NEW k \in {"mmap", "mprotect", "bpf"}, EnterHook(t, k) PROVE FALSE
    OBVIOUS
  <2>1. calls' = [calls EXCEPT ![t] = calls[t] + 1] /\ calls \in [Task -> Nat]
    BY EnterResult DEF IInv, TypeOK
  <2>2. calls'[t] = calls[t] + 1 /\ calls'[t] = calls[t] /\ calls[t] \in Nat
    BY <1>2, <2>1 DEF HooksGoOn
  <2> QED
    BY <2>2
<1>4. ASSUME NEW t \in Task, pc[t] # "idle", pc'[t] = "idle" PROVE result'[ThisCall(t)] # Pending
  <2>1. ASSUME NEW u \in Task, HookStep(u) PROVE result'[ThisCall(t)] # Pending
    <3>1. t = u
      BY <1>4, <2>1, HookMoves
    <3> QED
      BY <1>4, <2>1, <3>1, HookResult
  <2>2. \E u \in Task : HookStep(u)
    BY <1>4, ThreadMoves, AnalyzerMoves DEF vars, hooks
  <2> QED
    BY <2>1, <2>2
<1> QED
  BY <1>1, <1>3, <1>4, InsideStep

(* One case for each disjunct of SitesNext. *)
LEMMA ClearedStep ==
  ASSUME IInv, SitesInv, ClearedInv, OwnVerdict, [SitesNext]_svars
  PROVE  ClearedInv'
<1>1. CASE UNCHANGED svars
  BY <1>1, HooksStepCleared DEF svars
<1>2. ASSUME NEW t \in Task, DoMmap(t) \/ DoMprotect(t) \/ BpfProgLoad(t) PROVE ClearedInv'
  BY <1>2, BeginCleared DEF DoMmap, DoMprotect, BpfProgLoad
<1>3. ASSUME NEW t \in Task, SiteStep(t) PROVE ClearedInv'
  BY <1>3, SiteStepCleared
<1>4. CASE /\ \/ \E t \in Task : HookStep(t)
              \/ \E c \in Call : ThreadStep(c)
              \/ \E a \in Analyzer : StartAnalyzer(a) \/ AnalyzerStep(a) \/ Crash(a)
           /\ UNCHANGED sites
  BY <1>4, HooksStepCleared
<1> QED
  BY <1>1, <1>2, <1>3, <1>4 DEF SitesNext

(* The system calls count their mappings, as an invariant of their own. *)
LEMMA SitesCounted == SitesSpec => []SitesInv
<1>1. SitesInit => SitesInv
  BY HookSitesAssumption DEF SitesInit, SitesInv, SitesTypeOK
<1>2. IInv /\ SitesInv /\ [SitesNext]_svars => SitesInv'
  BY SitesStepInv
<1> QED
  BY <1>1, <1>2, SitesInvariant, PTL DEF SitesSpec

-----------------------------------------------------------------------------
(***************************************************************************)
(* The rendezvous of the hook with its kernel thread.                      *)
(***************************************************************************)

(* A thread between its vm_mmap and its vm_munmap. *)
InMapping == {"init", "signal", "await", "asleep", "poked", "unmap"}

(* What is mapped in the analyzer is what such a thread has mapped. *)
MappedByThread ==
  \A c \in Call :
    /\ c \in mapped <=> address[c] = "mapped" /\ th[c] \in InMapping
    /\ th[c] \in {"none", "created"} => address[c] = "none"
    /\ address[c] = "error" => "vm_mmap" \in Faults

(* A thread that has been started and has not ended. *)
Runs(c) == th[c] \notin {"none", "exited"}

(* Only the hook at work has a thread, which it stops at the end. *)
ThreadOfHook ==
  /\ \A c \in Call : Runs(c) => c = ThisCall(c[1]) /\ pc[c[1]] \notin {"idle", "start"}
  /\ \A c \in stop :
       /\ c[2] <= calls[c[1]]
       /\ c = ThisCall(c[1]) => pc[c[1]] \in {"join", "idle"}

(* The thread of call c has signalled and waits: for the hook, or to be stopped. *)
Waits(c) == IF address[c] = "none" THEN th[c] = "stopping" ELSE th[c] \in {"await", "asleep"}

(***************************************************************************)
(* Where the hook of t and its thread can be at the same time: the thread  *)
(* has not signalled, or the signal is not yet taken, or the thread waits  *)
(* for the hook, or the hook for the end of the thread.                    *)
(***************************************************************************)
NotYetMapped(t) ==
  /\ pc[t] \in {"pin", "await_mmap", "sleep_mmap"}
  /\ th[ThisCall(t)] \in {"created", "init", "signal"}
  /\ analyzer_mmap_done.done = 0
  /\ pc[t] = "sleep_mmap" => analyzer_mmap_done.queue = <<t>>

Signalled(t) ==
  /\ pc[t] \in {"pin", "await_mmap"}
  /\ Waits(ThisCall(t))
  /\ analyzer_mmap_done.done = 1

AtWork(t) ==
  /\ pc[t] \in {"mapped", "remap", "send", "oops", "await_ready", "sleep_ready", "reinit", "release"}
  /\ Waits(ThisCall(t))
  /\ address[ThisCall(t)] = "none" => pc[t] = "mapped"
  /\ analyzer_mmap_done.done = 0

Leaving(t) ==
  /\ pc[t] \in {"stop", "join"}
  /\ \/ th[ThisCall(t)] \in {"stopping", "exited"}
     \/ th[ThisCall(t)] \in {"await", "unmap"} /\ address[ThisCall(t)] # "none"

Meets(t) == pc[t] = "start" \/ NotYetMapped(t) \/ Signalled(t) \/ AtWork(t) \/ Leaving(t)

(* What analyzer_munmap_ready holds there: the hook has released the thread, *)
(* or the thread sleeps in it, or nothing. *)
Release(t) ==
  LET c == ThisCall(t) IN
  analyzer_munmap_ready =
    IF pc[t] \in {"stop", "join"} /\ th[c] = "await" THEN [done |-> 1, queue |-> <<>>]
    ELSE IF th[c] = "asleep" THEN [done |-> 0, queue |-> <<c>>]
    ELSE Fresh

Rendezvous ==
  /\ (\A t \in Task : pc[t] = "idle") => analyzer_munmap_ready = Fresh
  /\ \A t \in Task : pc[t] # "idle" => Meets(t) /\ Release(t)

TurnInv == OneHook /\ MappedByThread /\ ThreadOfHook /\ Rendezvous

(* A call belongs to a task. *)
LEMMA TaskOfCall ==
  ASSUME NEW c \in Call
  PROVE  c[1] \in Task /\ c = <<c[1], c[2]>> /\ c[2] \in Nat \ {0}
<1>1. PICK t \in Task : c \in {t} \X (1 .. MaxCalls[t])
  BY DEF Call
<1>2. MaxCalls[t] \in Nat
  BY McheckNetlinkAssumption
<1> QED
  BY <1>1, <1>2

(* A thread that runs meets the hook at work, and there is no other. *)
LEMMA Runner ==
  ASSUME IInv, TurnInv, NEW c \in Call, Runs(c)
  PROVE  \E t \in Task : /\ c = ThisCall(t) /\ pc[t] \notin {"idle", "start"}
                         /\ Meets(t) /\ Release(t)
                         /\ \A u \in Task : u # t => pc[u] = "idle"
<1>1. /\ c[1] \in Task /\ c = ThisCall(c[1]) /\ pc[c[1]] \notin {"idle", "start"}
  BY TaskOfCall DEF TurnInv, ThreadOfHook
<1> QED
  BY <1>1 DEF TurnInv, OneHook, Rendezvous

(* What is to show of the rendezvous when t has the only hook. *)
LEMMA RendezvousOf ==
  ASSUME NEW t \in Task, \A u \in Task : u # t => pc'[u] = "idle",
         pc'[t] # "idle" => Meets(t)' /\ Release(t)',
         pc'[t] = "idle" => analyzer_munmap_ready' = Fresh
  PROVE  Rendezvous'
  BY DEF Rendezvous

(* Threads that run keep their hooks, and hooks their threads. *)
LEMMA ThreadsStay ==
  ASSUME IInv, ThreadOfHook, UNCHANGED <<calls, stop>>,
         \A c \in Call : Runs(c)' => Runs(c),
         \A u \in Task : pc'[u] = pc[u] \/ (pc[u] \notin {"join", "idle"} /\ pc'[u] \notin {"idle", "start"})
                         \/ (pc'[u] = "idle" /\ ~Runs(ThisCall(u))' /\ (pc[u] # "idle"))
  PROVE  ThreadOfHook'
<1>1. ASSUME NEW c \in Call, Runs(c)' PROVE c = ThisCall(c[1])' /\ pc'[c[1]] \notin {"idle", "start"}
  <2>1. c = ThisCall(c[1]) /\ pc[c[1]] \notin {"idle", "start"} /\ c[1] \in Task
    BY <1>1, TaskOfCall DEF ThreadOfHook
  <2>2. ThisCall(c[1])' = ThisCall(c[1])
    BY DEF ThisCall
  <2> QED
    BY <1>1, <2>1, <2>2 DEF Runs
<1>2. ASSUME NEW c \in stop', c = ThisCall(c[1])', c[1] \in Task PROVE pc'[c[1]] \in {"join", "idle"}
  BY <1>2 DEF ThreadOfHook, ThisCall
<1>3. ASSUME NEW c \in stop' PROVE c[2] <= calls'[c[1]] /\ c[1] \in Task
  BY <1>3, TaskOfCall DEF ThreadOfHook, IInv, TypeOK
<1> QED
  BY <1>1, <1>2, <1>3 DEF ThreadOfHook

(* A step that maps and unmaps nothing, and lets no thread reach or leave a mapping. *)
LEMMA MappedKept ==
  ASSUME MappedByThread, UNCHANGED <<address, mapped>>,
         \A c \in Call : \/ th'[c] = th[c]
                         \/ th'[c] \in InMapping /\ th[c] \in InMapping
                         \/ /\ address[c] = "none" \/ th[c] \notin InMapping
                            /\ address[c] = "none" \/ th'[c] \notin InMapping
                            /\ th'[c] \in {"none", "created"} => address[c] = "none"
  PROVE  MappedByThread'
<1> SUFFICES ASSUME NEW c \in Call
             PROVE  /\ c \in mapped <=> address[c] = "mapped" /\ th'[c] \in InMapping
                    /\ th'[c] \in {"none", "created"} => address[c] = "none"
                    /\ address[c] = "error" => "vm_mmap" \in Faults
  BY DEF MappedByThread
<1>1. /\ c \in mapped <=> address[c] = "mapped" /\ th[c] \in InMapping
      /\ th[c] \in {"none", "created"} => address[c] = "none"
      /\ address[c] = "error" => "vm_mmap" \in Faults
  BY DEF MappedByThread
<1>2. CASE th'[c] = th[c]
  BY <1>1, <1>2
<1>3. CASE th'[c] \in InMapping /\ th[c] \in InMapping
  BY <1>1, <1>3 DEF InMapping
<1>4. CASE address[c] = "none"
  BY <1>1, <1>4
<1>5. CASE /\ th[c] \notin InMapping /\ th'[c] \notin InMapping
           /\ th'[c] \in {"none", "created"} => address[c] = "none"
  BY <1>1, <1>5
<1> QED
  BY <1>2, <1>3, <1>4, <1>5

(* A hook that is entered finds no thread and no signal left. *)
LEMMA EnterHookTurn ==
  ASSUME Exclusive, IInv, TurnInv, OneHook',
         NEW t \in Task, NEW k \in {"mmap", "mprotect", "bpf"}, EnterHook(t, k)
  PROVE  TurnInv'
<1>1. \A u \in Task : pc[u] = "idle"
  BY EnterAlone DEF TurnInv
<1>2. /\ UNCHANGED <<th, address, stop, mapped, analyzer_mmap_done, analyzer_munmap_ready>>
      /\ \A u \in Task : u # t => pc'[u] = "idle"
      /\ pc'[t] \in {"idle", "start"}
      /\ calls' = [calls EXCEPT ![t] = calls[t] + 1] /\ calls \in [Task -> Nat]
      /\ stop \subseteq Call
  BY <1>1 DEF EnterHook, Gates, Goto, Return, IInv, TypeOK, threads, completions
<1>3. MappedByThread'
  BY <1>2, MappedKept DEF TurnInv
<1>4. \A c \in Call : ~Runs(c)
  BY <1>1, TaskOfCall DEF TurnInv, ThreadOfHook
<1>5. ThreadOfHook'
  <2>1. ASSUME NEW c \in stop PROVE c[2] <= calls'[c[1]] /\ (c = ThisCall(c[1])' => pc'[c[1]] \in {"join", "idle"})
    <3>1. c[1] \in Task /\ c[2] <= calls[c[1]] /\ c = <<c[1], c[2]>> /\ c[2] \in Nat
      BY <1>2, <2>1, TaskOfCall DEF TurnInv, ThreadOfHook
    <3>2. CASE c[1] = t
      <4>1. calls'[t] = calls[t] + 1 /\ calls[t] \in Nat
        BY <1>2
      <4> QED
        BY <3>1, <3>2, <4>1 DEF ThisCall
    <3>3. CASE c[1] # t
      BY <1>2, <3>1, <3>3
    <3> QED
      BY <3>2, <3>3
  <2> QED
    BY <1>2, <1>4, <2>1 DEF ThreadOfHook, Runs
<1>6. th[<<t, calls[t] + 1>>] = "none"
  <2>1. <<t, calls[t] + 1>> \in Call /\ calls[t] \in Nat
    BY EnteredCall
  <2>2. calls[t] + 1 \in 1 .. MaxCalls[t] /\ calls[t] + 1 > calls[t]
    BY <2>1, CallsOfTasks
  <2> QED
    BY <2>2 DEF IInv, CallsToCome
<1>7. ThisCall(t)' = <<t, calls[t] + 1>>
  BY <1>2 DEF ThisCall
<1>8. analyzer_munmap_ready = Fresh
  BY <1>1 DEF TurnInv, Rendezvous
<1>9. Rendezvous'
  <2>1. pc'[t] # "idle" => Meets(t)' /\ Release(t)'
    BY <1>2, <1>6, <1>7, <1>8 DEF Meets, Release
  <2> QED
    BY <1>2, <1>8, <2>1, RendezvousOf
<1> QED
  BY <1>3, <1>5, <1>9 DEF TurnInv

(* The hook of t is the only one, and has met its thread. *)
LEMMA HookAlone ==
  ASSUME IInv, TurnInv, NEW t \in Task, HookStep(t)
  PROVE  /\ pc[t] # "idle" /\ ThisCall(t) \in Call /\ ThisCall(t)' = ThisCall(t)
         /\ \A u \in Task : u # t => pc[u] = "idle" /\ pc'[u] = "idle"
         /\ Meets(t) /\ Release(t)
<1>1. pc[t] # "idle" /\ calls' = calls /\ \A u \in Task : u # t => pc'[u] = pc[u]
  BY HookMoves
<1>2. ThisCall(t) \in Call
  BY <1>1, CallInHook
<1> QED
  BY <1>1, <1>2 DEF TurnInv, OneHook, Rendezvous, ThisCall

(* The hook that goes on is where it can meet its thread. *)
LEMMA HookMeets ==
  ASSUME IInv, TurnInv, NEW t \in Task, HookStep(t)
  PROVE  Meets(t) /\ ThisCall(t) \in Call
  BY HookAlone

(* The thread is started with nothing in analyzer_mmap_done. *)
LEMMA StartThreadTurn ==
  ASSUME IInv, TurnInv, OneHook', NEW t \in Task, StartThread(t)
  PROVE  TurnInv'
<1> DEFINE c == ThisCall(t)
<1>1. /\ c \in Call /\ ThisCall(t)' = c /\ Release(t)
      /\ \A u \in Task : u # t => pc[u] = "idle" /\ pc'[u] = "idle"
  BY HookAlone DEF HookStep
<1>2. /\ pc[t] = "start" /\ th[c] = "none" /\ pc \in [Task -> PC] /\ th \in [Call -> ThreadPC]
      /\ stop \subseteq Call
  BY DEF StartThread, IInv, HookHasItsData, TypeOK
<1>3. /\ UNCHANGED <<calls, address, stop, mapped, analyzer_munmap_ready>> /\ analyzer_mmap_done' = Fresh
      /\ \/ th' = [th EXCEPT ![c] = "created"] /\ \E p \in {"pin", "await_mmap"} : pc' = [pc EXCEPT ![t] = p]
         \/ th' = th /\ pc' = [pc EXCEPT ![t] = "idle"]
  BY DEF StartThread, Goto, Return
<1>4. MappedByThread'
  <2>1. \A d \in Call : th'[d] = th[d] \/ (th[d] = "none" /\ th'[d] = "created")
    BY <1>1, <1>2, <1>3
  <2>2. \A d \in Call : th[d] = "none" => address[d] = "none"
    BY DEF TurnInv, MappedByThread
  <2> QED
    BY <1>3, <2>1, <2>2, MappedKept DEF TurnInv, InMapping
<1>5. analyzer_munmap_ready = Fresh
  BY <1>1, <1>2 DEF Release
<1>6. ThreadOfHook'
  <2>1. c \notin stop
    BY <1>2 DEF TurnInv, ThreadOfHook, ThisCall
  <2>2. \A d \in stop : d[1] \in Task
    BY <1>2, TaskOfCall
  <2>3. ASSUME NEW d \in Call, Runs(d)' PROVE d = ThisCall(d[1]) /\ pc'[d[1]] \notin {"idle", "start"}
    <3>1. CASE d = c
      <4>1. d[1] = t /\ th'[c] # th[c]
        BY <1>2, <2>3, <3>1 DEF ThisCall, Runs
      <4> QED
        BY <1>2, <1>3, <3>1, <4>1
    <3>2. CASE d # c
      <4>1. Runs(d)
        BY <1>2, <1>3, <2>3, <3>2 DEF Runs
      <4>2. d = ThisCall(d[1]) /\ pc[d[1]] \notin {"idle", "start"} /\ d[1] \in Task
        BY <4>1, TaskOfCall DEF TurnInv, ThreadOfHook
      <4> QED
        BY <1>1, <1>2, <4>2
    <3> QED
      BY <3>1, <3>2
  <2>4. ASSUME NEW d \in stop PROVE d[2] <= calls[d[1]] /\ (d = ThisCall(d[1]) => pc'[d[1]] \in {"join", "idle"})
    <3>1. d[2] <= calls[d[1]] /\ (d = ThisCall(d[1]) => d[1] # t)
      BY <2>1 DEF TurnInv, ThreadOfHook
    <3> QED
      BY <1>1, <2>2, <3>1
  <2> QED
    BY <1>3, <2>3, <2>4 DEF ThreadOfHook, ThisCall
<1>7. Rendezvous'
  <2>1. pc'[t] # "idle" => NotYetMapped(t)' /\ Release(t)'
    <3>1. ASSUME th' = [th EXCEPT ![c] = "created"], NEW p \in {"pin", "await_mmap"}, pc' = [pc EXCEPT ![t] = p]
          PROVE  NotYetMapped(t)' /\ Release(t)'
      <4>1. th'[c] = "created" /\ pc'[t] \in {"pin", "await_mmap"} /\ analyzer_mmap_done'.done = 0
        BY <1>1, <1>2, <1>3, <3>1 DEF Fresh
      <4> QED
        BY <1>1, <1>3, <1>5, <4>1 DEF NotYetMapped, Release
    <3> QED
      BY <1>2, <1>3, <3>1
  <2> QED
    BY <1>1, <1>3, <1>5, <2>1, RendezvousOf DEF Meets
<1> QED
  BY <1>4, <1>6, <1>7 DEF TurnInv

(***************************************************************************)
(* A step of the hook that leaves the thread, its mapping and the release  *)
(* as they are.                                                            *)
(***************************************************************************)
LEMMA HookOnly ==
  ASSUME IInv, TurnInv, OneHook', NEW t \in Task, HookStep(t), pc[t] # "join",
         UNCHANGED <<th, address, stop, mapped, analyzer_munmap_ready>>,
         NEW p \in PC \ {"idle", "start"}, pc' = [pc EXCEPT ![t] = p],
         (pc[t] \in {"stop", "join"} <=> p \in {"stop", "join"}) \/ th[ThisCall(t)] # "await",
         Meets(t)'
  PROVE  TurnInv'
<1>1. /\ pc[t] # "idle" /\ ThisCall(t) \in Call /\ ThisCall(t)' = ThisCall(t)
      /\ \A u \in Task : u # t => pc[u] = "idle" /\ pc'[u] = "idle"
      /\ Release(t)
  BY HookAlone
<1>2. pc'[t] = p /\ pc \in [Task -> PC] /\ UNCHANGED calls
  BY HookMoves DEF IInv, TypeOK
<1>3. MappedByThread'
  BY MappedKept DEF TurnInv
<1>4. ThreadOfHook'
  BY <1>1, <1>2, ThreadsStay DEF TurnInv, Runs
<1>5. Release(t)'
  <2>1. CASE th[ThisCall(t)] # "await"
    BY <1>1, <2>1 DEF Release
  <2>2. CASE pc[t] \in {"stop", "join"} /\ p \in {"stop", "join"}
    BY <1>1, <1>2, <2>2 DEF Release
  <2>3. CASE pc[t] \notin {"stop", "join"} /\ p \notin {"stop", "join"}
    BY <1>1, <1>2, <2>3 DEF Release
  <2> QED
    BY <2>1, <2>2, <2>3
<1>6. Rendezvous'
  BY <1>1, <1>2, <1>5, RendezvousOf
<1> QED
  BY <1>3, <1>4, <1>6 DEF TurnInv

(* The page hook of mprotect pins its pages, whatever its thread does meanwhile. *)
LEMMA PinPagesTurn ==
  ASSUME "pages" \notin Faults, IInv, TurnInv, OneHook', NEW t \in Task, PinPages(t)
  PROVE  TurnInv'
<1>1. /\ HookStep(t) /\ pc[t] = "pin" /\ pc' = [pc EXCEPT ![t] = "await_mmap"] /\ "await_mmap" \in PC
      /\ UNCHANGED <<th, address, stop, mapped, analyzer_munmap_ready, analyzer_mmap_done>>
  BY DEF HookStep, PinPages, Goto, completions, threads, memory, PC
<1>2. Meets(t) /\ ThisCall(t)' = ThisCall(t) /\ pc'[t] = "await_mmap"
  BY <1>1, HookAlone DEF IInv, TypeOK
<1>3. Meets(t)'
  <2>1. CASE NotYetMapped(t)
    BY <1>1, <1>2, <2>1 DEF Meets, NotYetMapped
  <2>2. CASE Signalled(t)
    BY <1>1, <1>2, <2>2 DEF Meets, Signalled, Waits
  <2> QED
    BY <1>1, <1>2, <2>1, <2>2 DEF Meets, AtWork, Leaving
<1> QED
  BY <1>1, <1>3, HookOnly

(* Only the hook itself sleeps in analyzer_mmap_done. *)
LEMMA AloneInQueue ==
  ASSUME IInv, NEW t \in Task, pc[t] # "sleep_mmap", \A u \in Task : u # t => pc[u] = "idle"
  PROVE  analyzer_mmap_done.queue = <<>>
<1>1. analyzer_mmap_done.queue \in Seq(Task)
  BY DEF IInv, TypeOK, Completion
<1>2. \A u \in Task : u \notin Waiting(analyzer_mmap_done)
  BY DEF IInv, WaitersAsleep
<1>3. ASSUME Len(analyzer_mmap_done.queue) > 0 PROVE FALSE
  <2>1. 1 \in 1 .. Len(analyzer_mmap_done.queue) /\ analyzer_mmap_done.queue[1] \in Task
    BY <1>1, <1>3
  <2> QED
    BY <2>1, <1>2 DEF Waiting
<1> QED
  BY <1>1, <1>3

(* The hook takes the signal that came, or sleeps before it comes. *)
LEMMA AwaitMmapDoneTurn ==
  ASSUME IInv, TurnInv, OneHook', NEW t \in Task, AwaitMmapDone(t)
  PROVE  TurnInv'
<1>1. /\ HookStep(t) /\ pc[t] = "await_mmap"
      /\ UNCHANGED <<th, address, stop, mapped, analyzer_munmap_ready>>
  BY DEF HookStep, AwaitMmapDone, threads, memory
<1>2. Meets(t) /\ ThisCall(t)' = ThisCall(t) /\ pc \in [Task -> PC] /\ \A u \in Task : u # t => pc[u] = "idle"
  BY <1>1, HookAlone DEF IInv, TypeOK
<1>3. analyzer_mmap_done \in Completion(Task) /\ analyzer_mmap_done.done \in Nat
  BY DEF IInv, TypeOK, Completion
<1>4. ASSUME analyzer_mmap_done.done > 0, analyzer_mmap_done' = Consumed(analyzer_mmap_done),
             pc' = [pc EXCEPT ![t] = "mapped"]
      PROVE  TurnInv'
  <2>1. Signalled(t)
    BY <1>1, <1>2, <1>3, <1>4 DEF Meets, NotYetMapped, AtWork, Leaving
  <2>2. analyzer_mmap_done'.done = 0 /\ pc'[t] = "mapped" /\ "mapped" \in PC
    BY <1>2, <1>3, <1>4, <2>1 DEF Signalled, Consumed, Completion, PC
  <2>3. Meets(t)'
    BY <1>1, <1>2, <2>1, <2>2 DEF Meets, Signalled, AtWork, Waits
  <2> QED
    BY <1>1, <1>4, <2>2, <2>3, HookOnly
<1>5. ASSUME analyzer_mmap_done.done = 0, analyzer_mmap_done' = Joined(analyzer_mmap_done, t),
             pc' = [pc EXCEPT ![t] = "sleep_mmap"]
      PROVE  TurnInv'
  <2>1. NotYetMapped(t)
    BY <1>1, <1>2, <1>5 DEF Meets, Signalled, AtWork, Leaving
  <2>2. analyzer_mmap_done.queue = <<>>
    BY <1>1, <1>2, AloneInQueue
  <2>3. Append(<<>>, t) = <<t>>
    OBVIOUS
  <2>4. analyzer_mmap_done'.done = 0 /\ analyzer_mmap_done'.queue = <<t>>
    BY <1>3, <1>5, <2>2, <2>3 DEF Joined, Completion
  <2>5. pc'[t] = "sleep_mmap" /\ "sleep_mmap" \in PC
    BY <1>2, <1>5 DEF PC
  <2>6. Meets(t)'
    BY <1>1, <1>2, <2>1, <2>4, <2>5 DEF Meets, NotYetMapped
  <2> QED
    BY <1>1, <1>5, <2>5, <2>6, HookOnly
<1> QED
  BY <1>3, <1>4, <1>5 DEF AwaitMmapDone, Goto

(* The hook has its signal, so its thread has left what it found in the address. *)
LEMMA CheckAddressTurn ==
  ASSUME IInv, TurnInv, OneHook', NEW t \in Task, CheckAddress(t)
  PROVE  TurnInv'
<1>1. /\ HookStep(t) /\ pc[t] = "mapped"
      /\ UNCHANGED <<th, address, stop, mapped, analyzer_munmap_ready, analyzer_mmap_done>>
  BY DEF HookStep, CheckAddress, threads, memory, completions
<1>2. Meets(t) /\ ThisCall(t)' = ThisCall(t) /\ pc \in [Task -> PC]
  BY <1>1, HookAlone DEF IInv, TypeOK
<1>3. AtWork(t)
  BY <1>1, <1>2 DEF Meets, NotYetMapped, Signalled, Leaving
<1>4. ASSUME address[ThisCall(t)] = "none", pc' = [pc EXCEPT ![t] = "stop"]
      PROVE  TurnInv'
  <2>1. th[ThisCall(t)] = "stopping" /\ pc'[t] = "stop" /\ "stop" \in PC
    BY <1>2, <1>3, <1>4 DEF AtWork, Waits, PC
  <2>2. Meets(t)'
    BY <1>1, <1>2, <2>1 DEF Meets, Leaving
  <2> QED
    BY <1>1, <1>4, <2>1, <2>2, HookOnly
<1>5. ASSUME address[ThisCall(t)] # "none", NEW p \in {"remap", "send"}, pc' = [pc EXCEPT ![t] = p]
      PROVE  TurnInv'
  <2>1. pc'[t] = p /\ p \in PC
    BY <1>2, <1>5 DEF PC
  <2>2. Meets(t)'
    BY <1>1, <1>2, <1>3, <1>5, <2>1 DEF Meets, AtWork, Waits
  <2> QED
    BY <1>1, <1>5, <2>1, <2>2, HookOnly
<1> QED
  BY <1>4, <1>5 DEF CheckAddress, Goto

(***************************************************************************)
(* While a hook is at work its thread keeps the mapping, unless vm_mmap    *)
(* has failed.                                                             *)
(***************************************************************************)
LEMMA AtWorkMapped ==
  ASSUME IInv, TurnInv, NEW t \in Task, AtWork(t), pc[t] # "mapped", ThisCall(t) \in Call,
         address[ThisCall(t)] # "error"
  PROVE  ThisCall(t) \in mapped
<1>1. address[ThisCall(t)] = "mapped"
  BY DEF AtWork, IInv, TypeOK
<1>2. th[ThisCall(t)] \in InMapping
  BY <1>1 DEF AtWork, Waits, InMapping
<1> QED
  BY <1>1, <1>2 DEF TurnInv, MappedByThread

(* From remap_pfn_range the hook goes to the message or to the release. *)
LEMMA RemapTurn ==
  ASSUME IInv, TurnInv, OneHook', NEW t \in Task, Remap(t)
  PROVE  TurnInv'
<1>1. /\ HookStep(t) /\ pc[t] = "remap"
      /\ UNCHANGED <<th, address, stop, mapped, analyzer_munmap_ready, analyzer_mmap_done>>
  BY DEF HookStep, Remap, threads, completions
<1>2. Meets(t) /\ ThisCall(t)' = ThisCall(t) /\ pc \in [Task -> PC] /\ ThisCall(t) \in Call
  BY <1>1, HookAlone DEF IInv, TypeOK
<1>3. AtWork(t)
  BY <1>1, <1>2 DEF Meets, NotYetMapped, Signalled, Leaving
<1>4. PICK p \in {"send", "release", "oops"} : pc' = [pc EXCEPT ![t] = p]
  BY <1>1, <1>2, <1>3, AtWorkMapped DEF Remap, Goto, Return
<1>5. pc'[t] = p /\ p \in PC
  BY <1>2, <1>4 DEF PC
<1>6. Meets(t)'
  BY <1>1, <1>2, <1>3, <1>4, <1>5 DEF Meets, AtWork, Waits
<1> QED
  BY <1>1, <1>4, <1>5, <1>6, HookOnly

(* Asking the analyzer does not touch the thread. *)
LEMMA AskTurn ==
  ASSUME IInv, TurnInv, OneHook', NEW t \in Task, Send(t) \/ AwaitReady(t) \/ ReinitReady(t)
  PROVE  TurnInv'
<1>1. /\ HookStep(t) /\ pc[t] \in {"send", "await_ready", "reinit"}
      /\ UNCHANGED <<th, address, stop, mapped, analyzer_munmap_ready, analyzer_mmap_done>>
  BY DEF HookStep, Send, AwaitReady, ReinitReady, threads, memory, completions
<1>2. Meets(t) /\ ThisCall(t)' = ThisCall(t) /\ pc \in [Task -> PC]
  BY <1>1, HookAlone DEF IInv, TypeOK
<1>3. AtWork(t)
  BY <1>1, <1>2 DEF Meets, NotYetMapped, Signalled, Leaving
<1>4. PICK p \in {"await_ready", "sleep_ready", "reinit", "release"} : pc' = [pc EXCEPT ![t] = p]
  BY DEF Send, AwaitReady, ReinitReady, Goto
<1>5. pc'[t] = p /\ p \in PC
  BY <1>2, <1>4 DEF PC
<1>6. Meets(t)'
  BY <1>1, <1>2, <1>3, <1>4, <1>5 DEF Meets, AtWork, Waits
<1> QED
  BY <1>1, <1>4, <1>5, <1>6, HookOnly

(* The release wakes the thread if it sleeps, and waits for it otherwise. *)
LEMMA ReleaseThreadTurn ==
  ASSUME IInv, TurnInv, OneHook', NEW t \in Task, ReleaseThread(t)
  PROVE  TurnInv'
<1> DEFINE c == ThisCall(t)
<1>1. /\ HookStep(t) /\ pc[t] = "release" /\ pc' = [pc EXCEPT ![t] = "stop"]
      /\ analyzer_munmap_ready' = complete(analyzer_munmap_ready)
      /\ th' = [d \in Call |-> IF d \in Woken(analyzer_munmap_ready) THEN "await" ELSE th[d]]
      /\ UNCHANGED <<calls, address, stop, mapped, analyzer_mmap_done>>
  BY DEF HookStep, ReleaseThread, Goto, memory
<1>2. /\ c \in Call /\ ThisCall(t)' = c /\ Meets(t) /\ Release(t) /\ pc \in [Task -> PC] /\ th \in [Call -> ThreadPC]
      /\ \A u \in Task : u # t => pc[u] = "idle" /\ pc'[u] = "idle"
  BY <1>1, HookAlone DEF IInv, TypeOK
<1>3. AtWork(t) /\ pc'[t] = "stop"
  BY <1>1, <1>2 DEF Meets, NotYetMapped, Signalled, Leaving
<1>4. address[c] # "none" /\ th[c] \in {"await", "asleep"}
  BY <1>1, <1>3 DEF AtWork, Waits
<1>5. /\ analyzer_munmap_ready' = [done |-> 1, queue |-> <<>>]
      /\ th'[c] = "await" /\ \A d \in Call : d # c => th'[d] = th[d]
  <2>1. CASE th[c] = "await"
    <3>1. analyzer_munmap_ready = Fresh
      BY <1>1, <1>2, <2>1 DEF Release
    <3> QED
      BY <1>1, <1>2, <2>1, <3>1 DEF Fresh, complete, Woken
  <2>2. CASE th[c] = "asleep"
    <3>1. analyzer_munmap_ready = [done |-> 0, queue |-> <<c>>]
      BY <1>1, <1>2, <2>2 DEF Release
    <3>2. Head(<<c>>) = c /\ Tail(<<c>>) = <<>> /\ <<c>> # <<>>
      OBVIOUS
    <3>3. Woken(analyzer_munmap_ready) = {c} /\ complete(analyzer_munmap_ready) = [done |-> 1, queue |-> <<>>]
      BY <3>1, <3>2 DEF complete, Woken
    <3> QED
      BY <1>1, <1>2, <3>3
  <2> QED
    BY <1>4, <2>1, <2>2
<1>6. MappedByThread'
  <2>1. \A d \in Call : th'[d] = th[d] \/ (th'[d] \in InMapping /\ th[d] \in InMapping)
    BY <1>4, <1>5 DEF InMapping
  <2> QED
    BY <1>1, <2>1, MappedKept DEF TurnInv
<1>7. ThreadOfHook'
  <2>1. \A d \in Call : Runs(d)' => Runs(d)
    BY <1>4, <1>5 DEF Runs
  <2>2. \A u \in Task : pc'[u] = pc[u] \/ (pc[u] \notin {"join", "idle"} /\ pc'[u] \notin {"idle", "start"})
    BY <1>1, <1>2, <1>3
  <2> QED
    BY <1>1, <2>1, <2>2, ThreadsStay DEF TurnInv
<1>8. Leaving(t)' /\ Release(t)'
  BY <1>1, <1>2, <1>3, <1>4, <1>5 DEF Leaving, Release
<1>9. Rendezvous'
  BY <1>2, <1>3, <1>8, RendezvousOf DEF Meets
<1> QED
  BY <1>6, <1>7, <1>9 DEF TurnInv

(* kthread_stop finds the thread awake: it has been released, or has nothing to unmap. *)
LEMMA StopThreadTurn ==
  ASSUME IInv, TurnInv, OneHook', NEW t \in Task, StopThread(t)
  PROVE  TurnInv'
<1> DEFINE c == ThisCall(t)
<1>1. /\ HookStep(t) /\ pc[t] = "stop" /\ pc' = [pc EXCEPT ![t] = "join"] /\ stop' = stop \cup {c}
      /\ th' = [th EXCEPT ![c] = IF @ = "asleep" THEN "poked" ELSE @]
      /\ UNCHANGED <<calls, address, mapped, analyzer_mmap_done, analyzer_munmap_ready>>
  BY DEF HookStep, StopThread, Goto, memory, completions
<1>2. /\ c \in Call /\ ThisCall(t)' = c /\ Meets(t) /\ Release(t) /\ pc \in [Task -> PC] /\ th \in [Call -> ThreadPC]
      /\ \A u \in Task : u # t => pc[u] = "idle" /\ pc'[u] = "idle"
      /\ stop \subseteq Call
  BY <1>1, HookAlone DEF IInv, TypeOK
<1>3. Leaving(t) /\ pc'[t] = "join"
  BY <1>1, <1>2 DEF Meets, NotYetMapped, Signalled, AtWork
<1>4. th' = th
  BY <1>1, <1>2, <1>3 DEF Leaving
<1>5. MappedByThread'
  BY <1>1, <1>4, MappedKept DEF TurnInv
<1>6. ThreadOfHook'
  <2>1. ASSUME NEW d \in Call, Runs(d) PROVE d = ThisCall(d[1]) /\ pc'[d[1]] \notin {"idle", "start"}
    <3>1. d = ThisCall(d[1]) /\ pc[d[1]] \notin {"idle", "start"} /\ d[1] \in Task
      BY <2>1, TaskOfCall DEF TurnInv, ThreadOfHook
    <3> QED
      BY <1>2, <1>3, <3>1
  <2>2. ASSUME NEW d \in stop' PROVE d[2] <= calls[d[1]] /\ (d = ThisCall(d[1]) => pc'[d[1]] \in {"join", "idle"})
    <3>1. CASE d = c
      <4>1. d[1] = t /\ d[2] = calls[t] /\ calls[t] \in Nat
        BY <3>1 DEF ThisCall, IInv, TypeOK
      <4> QED
        BY <1>3, <4>1
    <3>2. CASE d # c
      <4>1. d \in stop /\ d[1] \in Task
        BY <1>1, <1>2, <2>2, <3>2, TaskOfCall
      <4> QED
        BY <1>2, <1>3, <4>1 DEF TurnInv, ThreadOfHook
    <3> QED
      BY <3>1, <3>2
  <2> QED
    BY <1>1, <1>4, <2>1, <2>2 DEF ThreadOfHook, Runs, ThisCall
<1>7. Leaving(t)' /\ Release(t)'
  BY <1>1, <1>2, <1>3, <1>4 DEF Leaving, Release
<1>8. Rendezvous'
  BY <1>2, <1>3, <1>7, RendezvousOf DEF Meets
<1> QED
  BY <1>5, <1>6, <1>8 DEF TurnInv

(* The hook that has joined its thread leaves nothing in analyzer_munmap_ready. *)
LEMMA JoinThreadTurn ==
  ASSUME IInv, TurnInv, OneHook', NEW t \in Task, JoinThread(t)
  PROVE  TurnInv'
<1> DEFINE c == ThisCall(t)
<1>1. /\ HookStep(t) /\ pc[t] = "join" /\ pc' = [pc EXCEPT ![t] = "idle"] /\ th[c] = "exited"
      /\ UNCHANGED <<calls, th, stop, address, mapped, analyzer_mmap_done, analyzer_munmap_ready>>
  BY DEF HookStep, JoinThread, Goto, Return, threads, completions
<1>2. /\ ThisCall(t)' = c /\ Release(t) /\ pc'[t] = "idle"
      /\ \A u \in Task : u # t => pc[u] = "idle" /\ pc'[u] = "idle"
  BY <1>1, HookAlone DEF IInv, TypeOK
<1>3. MappedByThread'
  BY <1>1, MappedKept DEF TurnInv
<1>4. ThreadOfHook'
  BY <1>1, <1>2, ThreadsStay DEF TurnInv, Runs
<1>5. analyzer_munmap_ready' = Fresh
  BY <1>1, <1>2 DEF Release
<1>6. Rendezvous'
  BY <1>2, <1>5, RendezvousOf
<1> QED
  BY <1>3, <1>4, <1>6 DEF TurnInv

-----------------------------------------------------------------------------
(***************************************************************************)
(* The steps of the thread of call c, whose hook is that of t.  The other  *)
(* threads have ended, or were never started.                              *)
(***************************************************************************)
LEMMA ThreadAlone ==
  ASSUME IInv, TurnInv, NEW c \in Call, ThreadStep(c)
  PROVE  /\ Runs(c) /\ th \in [Call -> ThreadPC] /\ UNCHANGED <<calls, stop>>
         /\ \E q \in ThreadPC : th' = [th EXCEPT ![c] = q]
         /\ \E t \in Task : /\ c = ThisCall(t) /\ ThisCall(t)' = c /\ pc[t] \notin {"idle", "start"}
                            /\ Meets(t) /\ Release(t)
                            /\ \A u \in Task : u # t => pc[u] = "idle" /\ pc'[u] = "idle"
<1>1. Runs(c)
  BY DEF ThreadStep, MapInAnalyzer, InitMunmapReady, SignalMmapDone, AwaitMunmapReady, TestMunmapReady,
         Unmap, ExitThread, Runs
<1>2. UNCHANGED <<calls, stop>>
  BY DEF ThreadStep, MapInAnalyzer, InitMunmapReady, SignalMmapDone, AwaitMunmapReady, TestMunmapReady,
         Unmap, ExitThread, hooks
<1>3. \E q \in ThreadPC : th' = [th EXCEPT ![c] = q]
  BY DEF ThreadStep, MapInAnalyzer, InitMunmapReady, SignalMmapDone, AwaitMunmapReady, TestMunmapReady,
         Unmap, ExitThread, ThreadGoto, ThreadPC
<1>4. \A u \in Task : pc[u] = "idle" => pc'[u] = "idle"
  BY ThreadMoves
<1>5. \A t \in Task : ThisCall(t)' = ThisCall(t)
  BY <1>2 DEF ThisCall
<1>6. PICK t \in Task : /\ c = ThisCall(t) /\ pc[t] \notin {"idle", "start"}
                        /\ Meets(t) /\ Release(t) /\ \A u \in Task : u # t => pc[u] = "idle"
  BY <1>1, Runner
<1>7. c = ThisCall(t) /\ ThisCall(t)' = c /\ \A u \in Task : u # t => pc[u] = "idle" /\ pc'[u] = "idle"
  BY <1>4, <1>5, <1>6
<1> QED
  BY <1>1, <1>2, <1>3, <1>6, <1>7 DEF IInv, TypeOK

(* What is to show of a step of the thread. *)
LEMMA ThreadTurn ==
  ASSUME IInv, TurnInv, OneHook', NEW c \in Call, ThreadStep(c),
         NEW t \in Task, c = ThisCall(t), ThisCall(t)' = c, pc[t] \notin {"idle", "start"},
         \A u \in Task : u # t => pc[u] = "idle" /\ pc'[u] = "idle",
         MappedByThread', Meets(t)', Release(t)'
  PROVE  TurnInv'
<1>1. /\ Runs(c) /\ UNCHANGED <<calls, stop>> /\ th \in [Call -> ThreadPC]
      /\ \E q \in ThreadPC : th' = [th EXCEPT ![c] = q]
  BY ThreadAlone
<1>2. \A d \in Call : Runs(d)' => Runs(d)
  BY <1>1 DEF Runs
<1>3. pc'[t] = pc[t] \/ (pc[t] = "sleep_mmap" /\ pc'[t] = "await_mmap")
  BY ThreadMoves
<1>4. ThreadOfHook'
  <2>1. \A u \in Task : pc'[u] = pc[u] \/ (pc[u] \notin {"join", "idle"} /\ pc'[u] \notin {"idle", "start"})
    BY <1>3
  <2> QED
    BY <1>1, <1>2, <2>1, ThreadsStay DEF TurnInv
<1>5. Rendezvous'
  BY <1>3, RendezvousOf
<1> QED
  BY <1>4, <1>5 DEF TurnInv

(* vm_mmap: the address is set once, before the hook looks at it. *)
LEMMA MapInAnalyzerTurn ==
  ASSUME IInv, TurnInv, OneHook', NEW c \in Call, MapInAnalyzer(c)
  PROVE  TurnInv'
<1>1. /\ ThreadStep(c) /\ th[c] = "created" /\ th' = [th EXCEPT ![c] = "init"]
      /\ UNCHANGED <<pc, analyzer_mmap_done, analyzer_munmap_ready>>
  BY DEF ThreadStep, MapInAnalyzer, ThreadGoto, hooks, completions
<1>2. PICK t \in Task : /\ c = ThisCall(t) /\ ThisCall(t)' = c /\ pc[t] \notin {"idle", "start"}
                        /\ Meets(t) /\ Release(t)
                        /\ \A u \in Task : u # t => pc[u] = "idle" /\ pc'[u] = "idle"
  BY <1>1, ThreadAlone
<1>3. /\ th \in [Call -> ThreadPC] /\ address \in [Call -> {"none", "mapped", "error"}]
      /\ address[c] = "none" /\ c \notin mapped
  BY <1>1 DEF IInv, TypeOK, TurnInv, MappedByThread, InMapping
<1>4. MappedByThread'
  <2>1. /\ th'[c] = "init" /\ \A d \in Call : d # c => th'[d] = th[d] /\ address'[d] = address[d]
        /\ \A d \in Call : d # c => (d \in mapped' <=> d \in mapped)
    BY <1>1, <1>3 DEF MapInAnalyzer
  <2>2. /\ c \in mapped' <=> address'[c] = "mapped"
        /\ address'[c] = "error" => "vm_mmap" \in Faults
    BY <1>3 DEF MapInAnalyzer
  <2> QED
    BY <2>1, <2>2 DEF TurnInv, MappedByThread, InMapping
<1>5. NotYetMapped(t)
  BY <1>1, <1>2 DEF Meets, Signalled, AtWork, Leaving, Waits
<1>6. NotYetMapped(t)' /\ Release(t)'
  BY <1>1, <1>2, <1>3, <1>5 DEF NotYetMapped, Release
<1> QED
  BY <1>1, <1>2, <1>4, <1>6, ThreadTurn DEF Meets

(* init_completion finds the completion as it makes it. *)
LEMMA InitMunmapReadyTurn ==
  ASSUME IInv, TurnInv, OneHook', NEW c \in Call, InitMunmapReady(c)
  PROVE  TurnInv'
<1>1. /\ ThreadStep(c) /\ th[c] = "init" /\ th' = [th EXCEPT ![c] = "signal"]
      /\ analyzer_munmap_ready' = Fresh
      /\ UNCHANGED <<pc, address, mapped, analyzer_mmap_done>>
  BY DEF ThreadStep, InitMunmapReady, ThreadGoto, hooks, memory
<1>2. PICK t \in Task : /\ c = ThisCall(t) /\ ThisCall(t)' = c /\ pc[t] \notin {"idle", "start"}
                        /\ Meets(t) /\ Release(t)
                        /\ \A u \in Task : u # t => pc[u] = "idle" /\ pc'[u] = "idle"
  BY <1>1, ThreadAlone
<1>3. th \in [Call -> ThreadPC]
  BY DEF IInv, TypeOK
<1>4. MappedByThread'
  <2>1. \A d \in Call : th'[d] = th[d] \/ (th'[d] \in InMapping /\ th[d] \in InMapping)
    BY <1>1, <1>3 DEF InMapping
  <2> QED
    BY <1>1, <2>1, MappedKept DEF TurnInv
<1>5. NotYetMapped(t)
  BY <1>1, <1>2 DEF Meets, Signalled, AtWork, Leaving, Waits
<1>6. NotYetMapped(t)' /\ Release(t)'
  BY <1>1, <1>2, <1>3, <1>5 DEF NotYetMapped, Release
<1> QED
  BY <1>1, <1>2, <1>4, <1>6, ThreadTurn DEF Meets

(* The signal wakes the hook if it sleeps, and waits for it otherwise. *)
LEMMA SignalMmapDoneTurn ==
  ASSUME IInv, TurnInv, OneHook', NEW c \in Call, SignalMmapDone(c)
  PROVE  TurnInv'
<1>1. /\ ThreadStep(c) /\ th[c] = "signal"
      /\ th' = [th EXCEPT ![c] = IF address[c] = "none" THEN "stopping" ELSE "await"]
      /\ analyzer_mmap_done' = complete(analyzer_mmap_done)
      /\ pc' = [t \in Task |-> IF t \in Woken(analyzer_mmap_done) THEN "await_mmap" ELSE pc[t]]
      /\ UNCHANGED <<address, mapped, analyzer_munmap_ready>>
  BY DEF ThreadStep, SignalMmapDone, ThreadGoto, memory
<1>2. PICK t \in Task : /\ c = ThisCall(t) /\ ThisCall(t)' = c /\ pc[t] \notin {"idle", "start"}
                        /\ Meets(t) /\ Release(t)
                        /\ \A u \in Task : u # t => pc[u] = "idle" /\ pc'[u] = "idle"
  BY <1>1, ThreadAlone
<1>3. th \in [Call -> ThreadPC] /\ pc \in [Task -> PC]
  BY DEF IInv, TypeOK
<1>4. MappedByThread'
  <2>1. \A d \in Call : \/ th'[d] = th[d]
                        \/ th'[d] \in InMapping /\ th[d] \in InMapping
                        \/ address[d] = "none" /\ th'[d] \notin {"none", "created"}
    BY <1>1, <1>3 DEF InMapping
  <2> QED
    BY <1>1, <2>1, MappedKept DEF TurnInv
<1>5. NotYetMapped(t)
  BY <1>1, <1>2 DEF Meets, Signalled, AtWork, Leaving, Waits
<1>6. analyzer_mmap_done'.done = 1
  BY <1>1, <1>5 DEF NotYetMapped, complete
<1>7. pc'[t] \in {"pin", "await_mmap"}
  <2>1. CASE pc[t] = "sleep_mmap"
    <3>1. analyzer_mmap_done.queue = <<t>> /\ Head(<<t>>) = t /\ <<t>> # <<>>
      BY <1>5, <2>1 DEF NotYetMapped
    <3>2. t \in Woken(analyzer_mmap_done)
      BY <3>1 DEF Woken
    <3> QED
      BY <1>1, <3>2
  <2>2. CASE pc[t] # "sleep_mmap"
    BY <1>1, <1>5, <2>2 DEF NotYetMapped
  <2> QED
    BY <2>1, <2>2
<1>8. th'[c] = IF address[c] = "none" THEN "stopping" ELSE "await"
  BY <1>1, <1>3
<1>9. Signalled(t)' /\ Release(t)'
  BY <1>1, <1>2, <1>6, <1>7, <1>8 DEF Signalled, Waits, Release
<1> QED
  BY <1>1, <1>2, <1>4, <1>9, ThreadTurn DEF Meets

(* The thread takes the release of its own hook, or sleeps before it comes. *)
LEMMA AwaitMunmapReadyTurn ==
  ASSUME IInv, TurnInv, OneHook', NEW c \in Call, AwaitMunmapReady(c)
  PROVE  TurnInv'
<1>1. /\ ThreadStep(c) /\ th[c] = "await"
      /\ UNCHANGED <<pc, address, mapped, analyzer_mmap_done>>
  BY DEF ThreadStep, AwaitMunmapReady, hooks, memory
<1>2. PICK t \in Task : /\ c = ThisCall(t) /\ ThisCall(t)' = c /\ pc[t] \notin {"idle", "start"}
                        /\ Meets(t) /\ Release(t)
                        /\ \A u \in Task : u # t => pc[u] = "idle" /\ pc'[u] = "idle"
  BY <1>1, ThreadAlone
<1>3. th \in [Call -> ThreadPC]
  BY DEF IInv, TypeOK
<1>4. ASSUME NEW q \in {"unmap", "asleep"}, th' = [th EXCEPT ![c] = q] PROVE MappedByThread'
  <2>1. \A d \in Call : th'[d] = th[d] \/ (th'[d] \in InMapping /\ th[d] \in InMapping)
    BY <1>1, <1>3, <1>4 DEF InMapping
  <2> QED
    BY <1>1, <2>1, MappedKept DEF TurnInv
<1>5. /\ ~NotYetMapped(t) /\ pc[t] # "start"
      /\ pc[t] \in {"stop", "join"} => Leaving(t) /\ analyzer_munmap_ready = [done |-> 1, queue |-> <<>>]
      /\ pc[t] \notin {"stop", "join"} => (Signalled(t) \/ AtWork(t)) /\ analyzer_munmap_ready = Fresh
  BY <1>1, <1>2 DEF Meets, NotYetMapped, Signalled, AtWork, Leaving, Release
<1>6. ASSUME analyzer_munmap_ready.done > 0, th' = [th EXCEPT ![c] = "unmap"],
             analyzer_munmap_ready' = Consumed(analyzer_munmap_ready)
      PROVE  TurnInv'
  <2>1. /\ pc[t] \in {"stop", "join"} /\ Leaving(t) /\ analyzer_munmap_ready = [done |-> 1, queue |-> <<>>]
    BY <1>5, <1>6 DEF Fresh
  <2>2. analyzer_munmap_ready' = Fresh
    BY <1>6, <2>1 DEF Consumed, Fresh
  <2>3. th'[c] = "unmap"
    BY <1>3, <1>6
  <2>4. Leaving(t)' /\ Release(t)'
    BY <1>1, <1>2, <2>1, <2>2, <2>3 DEF Leaving, Release
  <2> QED
    BY <1>1, <1>2, <1>4, <1>6, <2>4, ThreadTurn DEF Meets
<1>7. ASSUME ~(analyzer_munmap_ready.done > 0), th' = [th EXCEPT ![c] = "asleep"],
             analyzer_munmap_ready' = Joined(analyzer_munmap_ready, c)
      PROVE  TurnInv'
  <2>1. pc[t] \notin {"stop", "join"} /\ (Signalled(t) \/ AtWork(t)) /\ analyzer_munmap_ready = Fresh
    BY <1>5, <1>7
  <2>2. Append(<<>>, c) = <<c>>
    OBVIOUS
  <2>3. analyzer_munmap_ready' = [done |-> 0, queue |-> <<c>>]
    BY <1>7, <2>1, <2>2 DEF Joined, Fresh
  <2>4. th'[c] = "asleep"
    BY <1>3, <1>7
  <2>5. address[c] # "none"
    BY <1>1, <1>2, <2>1 DEF Signalled, AtWork, Waits
  <2>6. Signalled(t)' \/ AtWork(t)'
    BY <1>1, <1>2, <2>1, <2>4, <2>5 DEF Signalled, AtWork, Waits
  <2>7. Release(t)'
    BY <1>1, <1>2, <2>1, <2>3, <2>4 DEF Release
  <2> QED
    BY <1>1, <1>2, <1>4, <1>7, <2>6, <2>7, ThreadTurn DEF Meets
<1> QED
  BY <1>6, <1>7 DEF AwaitMunmapReady, ThreadGoto

(* kthread_stop never finds the thread asleep, so nobody is woken by it. *)
LEMMA TestMunmapReadyTurn ==
  ASSUME IInv, TurnInv, OneHook', NEW c \in Call, TestMunmapReady(c)
  PROVE  TurnInv'
<1>1. ThreadStep(c) /\ th[c] = "poked"
  BY DEF ThreadStep, TestMunmapReady
<1>2. \E t \in Task : c = ThisCall(t) /\ pc[t] # "start" /\ Meets(t)
  BY <1>1, ThreadAlone
<1> QED
  BY <1>1, <1>2 DEF Meets, NotYetMapped, Signalled, AtWork, Leaving, Waits

(* vm_munmap, when the hook is leaving. *)
LEMMA UnmapTurn ==
  ASSUME IInv, TurnInv, OneHook', NEW c \in Call, Unmap(c)
  PROVE  TurnInv'
<1>1. /\ ThreadStep(c) /\ th[c] = "unmap" /\ th' = [th EXCEPT ![c] = "stopping"] /\ mapped' = mapped \ {c}
      /\ UNCHANGED <<pc, address, analyzer_mmap_done, analyzer_munmap_ready>>
  BY DEF ThreadStep, Unmap, ThreadGoto, hooks, completions
<1>2. PICK t \in Task : /\ c = ThisCall(t) /\ ThisCall(t)' = c /\ pc[t] \notin {"idle", "start"}
                        /\ Meets(t) /\ Release(t)
                        /\ \A u \in Task : u # t => pc[u] = "idle" /\ pc'[u] = "idle"
  BY <1>1, ThreadAlone
<1>3. th'[c] = "stopping" /\ \A d \in Call : d # c => th'[d] = th[d]
  BY <1>1 DEF IInv, TypeOK
<1>4. MappedByThread'
  BY <1>1, <1>3 DEF TurnInv, MappedByThread, InMapping
<1>5. Leaving(t)
  BY <1>1, <1>2 DEF Meets, NotYetMapped, Signalled, AtWork, Waits
<1>6. Leaving(t)' /\ Release(t)'
  BY <1>1, <1>2, <1>3, <1>5 DEF Leaving, Release
<1> QED
  BY <1>1, <1>2, <1>4, <1>6, ThreadTurn DEF Meets

(* The thread ends when its hook waits for that. *)
LEMMA ExitThreadTurn ==
  ASSUME IInv, TurnInv, OneHook', NEW c \in Call, ExitThread(c)
  PROVE  TurnInv'
<1>1. /\ ThreadStep(c) /\ th[c] \in {"stopping", "created"} /\ c \in stop /\ th' = [th EXCEPT ![c] = "exited"]
      /\ UNCHANGED <<pc, address, mapped, analyzer_mmap_done, analyzer_munmap_ready>>
  BY DEF ThreadStep, ExitThread, ThreadGoto, hooks, completions, memory
<1>2. PICK t \in Task : /\ c = ThisCall(t) /\ ThisCall(t)' = c /\ pc[t] \notin {"idle", "start"}
                        /\ Meets(t) /\ Release(t)
                        /\ \A u \in Task : u # t => pc[u] = "idle" /\ pc'[u] = "idle"
  BY <1>1, ThreadAlone
<1>3. th'[c] = "exited" /\ \A d \in Call : d # c => th'[d] = th[d]
  BY <1>1 DEF IInv, TypeOK
<1>4. MappedByThread'
  <2>1. \A d \in Call : th'[d] = th[d] \/ (th[d] \notin InMapping /\ th'[d] = "exited")
    BY <1>1, <1>3 DEF InMapping
  <2> QED
    BY <1>1, <2>1, MappedKept DEF TurnInv, InMapping
<1>5. pc[t] = "join"
  <2>1. c[1] = t
    BY <1>2 DEF ThisCall
  <2> QED
    BY <1>1, <1>2, <2>1 DEF TurnInv, ThreadOfHook
<1>6. Leaving(t)
  BY <1>2, <1>5 DEF Meets, NotYetMapped, Signalled, AtWork
<1>7. Leaving(t)' /\ Release(t)'
  BY <1>1, <1>2, <1>3, <1>5, <1>6 DEF Leaving, Release
<1> QED
  BY <1>1, <1>2, <1>4, <1>7, ThreadTurn DEF Meets

(* Nothing of the rendezvous is the analyzer's. *)
LEMMA AnalyzerTurn ==
  ASSUME IInv, TurnInv, OneHook', NEW a \in Analyzer, StartAnalyzer(a) \/ AnalyzerStep(a) \/ Crash(a)
  PROVE  TurnInv'
<1>1. /\ UNCHANGED <<calls, th, address, stop, mapped, analyzer_mmap_done, analyzer_munmap_ready>>
      /\ \A t \in Task : pc'[t] = pc[t] \/ (pc[t] = "sleep_ready" /\ pc'[t] = "await_ready")
  BY AnalyzerMoves DEF threads, memory
<1>2. MappedByThread'
  BY <1>1, MappedKept DEF TurnInv
<1>3. ThreadOfHook'
  BY <1>1, ThreadsStay DEF TurnInv, Runs
<1>4. \A t \in Task : (pc'[t] = "idle" <=> pc[t] = "idle") /\ ThisCall(t)' = ThisCall(t)
  BY <1>1 DEF ThisCall
<1>5. ASSUME NEW t \in Task, pc[t] # "idle" PROVE Meets(t)' /\ Release(t)'
  <2>1. Meets(t) /\ Release(t) /\ ThisCall(t)' = ThisCall(t)
    BY <1>4, <1>5 DEF TurnInv, Rendezvous
  <2>2. CASE pc'[t] = pc[t]
    BY <1>1, <2>1, <2>2 DEF Meets, NotYetMapped, Signalled, AtWork, Leaving, Waits, Release
  <2>3. CASE pc[t] = "sleep_ready" /\ pc'[t] = "await_ready"
    BY <1>1, <2>1, <2>3 DEF Meets, NotYetMapped, Signalled, AtWork, Leaving, Waits, Release
  <2> QED
    BY <1>1, <2>2, <2>3
<1>6. Rendezvous'
  BY <1>1, <1>4, <1>5 DEF TurnInv, Rendezvous
<1> QED
  BY <1>2, <1>3, <1>6 DEF TurnInv

(* One case for each disjunct of Next. *)
LEMMA TurnStep ==
  ASSUME Exclusive, "pages" \notin Faults, IInv, TurnInv, [Next]_vars
  PROVE  TurnInv'
<1>1. OneHook'
  BY OneHookStep DEF TurnInv
<1>2. CASE UNCHANGED vars
  <2>1. UNCHANGED <<pc, calls, th, address, stop, mapped, analyzer_mmap_done, analyzer_munmap_ready>>
    BY <1>2 DEF vars, completions, hooks, threads, memory
  <2>2. MappedByThread' /\ ThreadOfHook'
    BY <2>1 DEF TurnInv, MappedByThread, ThreadOfHook, Runs, ThisCall
  <2>3. \A t \in Task : (Meets(t) => Meets(t)') /\ (Release(t) => Release(t)')
    BY <2>1 DEF Meets, NotYetMapped, Signalled, AtWork, Leaving, Waits, Release, ThisCall
  <2>4. Rendezvous'
    BY <2>1, <2>3 DEF TurnInv, Rendezvous
  <2> QED
    BY <1>1, <2>2, <2>4 DEF TurnInv
<1>3. ASSUME NEW t \in Task, HookStep(t) PROVE TurnInv'
  BY <1>1, <1>3, StartThreadTurn, PinPagesTurn, AwaitMmapDoneTurn, CheckAddressTurn, RemapTurn, AskTurn,
     ReleaseThreadTurn, StopThreadTurn, JoinThreadTurn DEF HookStep
<1>4. ASSUME NEW t \in Task, NEW k \in {"mmap", "mprotect", "bpf"}, EnterHook(t, k) PROVE TurnInv'
  BY <1>1, <1>4, EnterHookTurn
<1>5. ASSUME NEW c \in Call, ThreadStep(c) PROVE TurnInv'
  BY <1>1, <1>5, MapInAnalyzerTurn, InitMunmapReadyTurn, SignalMmapDoneTurn, AwaitMunmapReadyTurn,
     TestMunmapReadyTurn, UnmapTurn, ExitThreadTurn DEF ThreadStep
<1>6. ASSUME NEW a \in Analyzer, StartAnalyzer(a) \/ AnalyzerStep(a) \/ Crash(a) PROVE TurnInv'
  BY <1>1, <1>6, AnalyzerTurn
<1> QED
  BY <1>2, <1>3, <1>4, <1>5, <1>6 DEF Next

LEMMA InitTurn == Init => TurnInv
<1> SUFFICES ASSUME Init PROVE TurnInv
  OBVIOUS
<1>1. OneHook /\ MappedByThread
  BY DEF Init, OneHook, MappedByThread, InMapping
<1>2. ThreadOfHook /\ Rendezvous
  BY DEF Init, ThreadOfHook, Runs, Rendezvous
<1> QED
  BY <1>1, <1>2 DEF TurnInv

(***************************************************************************)
(* With hooks that run one at a time and leave no thread behind, a hook    *)
(* meets its own thread in the completions, in the places that TurnInv     *)
(* lists, and finds no signal of an earlier call.                          *)
(***************************************************************************)
THEOREM RendezvousInvariant ==
  ASSUME Exclusive, "pages" \notin Faults
  PROVE  SitesSpec => []TurnInv
<1>1. SitesInit => TurnInv
  BY InitTurn DEF SitesInit
<1>2. IInv /\ TurnInv /\ [SitesNext]_svars => TurnInv'
  BY SitesStep, TurnStep
<1> QED
  BY <1>1, <1>2, SitesInvariant, PTL DEF SitesSpec

-----------------------------------------------------------------------------
(* When all hooks have returned nobody sleeps in analyzer_ready. *)
LEMMA NobodyWaits ==
  ASSUME IInv, \A t \in Task : pc[t] = "idle"
  PROVE  analyzer_ready.queue = <<>>
<1>1. analyzer_ready.queue \in Seq(Task)
  BY DEF IInv, TypeOK, Completion
<1>2. \A t \in Task : t \notin Waiting(analyzer_ready)
  BY DEF IInv, WaitersAsleep
<1>3. ASSUME Len(analyzer_ready.queue) > 0 PROVE FALSE
  <2>1. 1 \in 1 .. Len(analyzer_ready.queue) /\ analyzer_ready.queue[1] \in Task
    BY <1>1, <1>3
  <2> QED
    BY <2>1, <1>2 DEF Waiting
<1> QED
  BY <1>1, <1>3

(***************************************************************************)
(* Once all hooks have returned no mapping, thread, message or answer is   *)
(* left that the next hook could take for its own, even if messages or     *)
(* mappings failed or the analyzer died.                                   *)
(***************************************************************************)
THEOREM NothingIsLeft ==
  ASSUME Exclusive, OneAnalyzer, "pages" \notin Faults
  PROVE  SitesSpec => []QuietBetweenCalls
<1>1. IInv /\ AnswerInv /\ TurnInv => QuietBetweenCalls
  <2> SUFFICES ASSUME IInv, AnswerInv, TurnInv, \A t \in Task : pc[t] = "idle"
               PROVE  /\ mapped = {} /\ \A c \in Call : th[c] \in {"none", "exited"}
                      /\ \A a \in Analyzer : inbox[a] = <<>> /\ working[a] = NoCall
                      /\ analyzer_ready = Fresh /\ analyzer_munmap_ready = Fresh
    BY DEF QuietBetweenCalls
  <2>1. \A c \in Call : th[c] \in {"none", "exited"}
    BY TaskOfCall DEF TurnInv, ThreadOfHook, Runs
  <2>2. mapped = {}
    <3>1. \A c \in Call : c \notin mapped
      BY <2>1 DEF TurnInv, MappedByThread, InMapping
    <3> QED
      BY <3>1 DEF IInv, TypeOK
  <2>3. NoQuestion
    BY DEF AnswerInv, Question, Asking
  <2>4. analyzer_ready = Fresh
    <3>1. analyzer_ready.queue = <<>> /\ analyzer_ready.done = 0
      BY <2>3, NobodyWaits DEF NoQuestion
    <3>2. analyzer_ready = [done |-> analyzer_ready.done, queue |-> analyzer_ready.queue]
      BY DEF IInv, TypeOK, Completion
    <3> QED
      BY <3>1, <3>2 DEF Fresh
  <2>5. analyzer_munmap_ready = Fresh
    BY DEF TurnInv, Rendezvous
  <2> QED
    BY <2>1, <2>2, <2>3, <2>4, <2>5 DEF NoQuestion, NothingAsked
<1> QED
  BY <1>1, SitesInvariant, AnswerInvariant, RendezvousInvariant, PTL

(* The hook that remaps finds the mapping of its own thread, unless vm_mmap failed. *)
LEMMA RemapFinds ==
  ASSUME IInv, TurnInv, NEW t \in Task, Remap(t), address[ThisCall(t)] # "error"
  PROVE  ThisCall(t) \in mapped
<1>1. pc[t] = "remap" /\ HookStep(t)
  BY DEF Remap, HookStep
<1>2. Meets(t) /\ ThisCall(t) \in Call
  BY <1>1, HookMeets
<1>3. AtWork(t)
  BY <1>1, <1>2 DEF Meets, NotYetMapped, Signalled, Leaving
<1> QED
  BY <1>1, <1>2, <1>3, AtWorkMapped

(***************************************************************************)
(* The hooks release the mmap lock of the analyzer: the return of          *)
(* mcheck_mprotect that keeps it needs a mapping that is not its thread's. *)
(***************************************************************************)
THEOREM AnalyzerLockReturned ==
  ASSUME Exclusive, "pages" \notin Faults, "vm_mmap" \notin Faults
  PROVE  SitesSpec => []AnalyzerUnlocked
<1>1. SitesInit => AnalyzerUnlocked
  BY DEF SitesInit, Init, AnalyzerUnlocked
<1>2. IInv /\ TurnInv /\ AnalyzerUnlocked /\ [Next]_vars => AnalyzerUnlocked'
  <2> SUFFICES ASSUME IInv, TurnInv, AnalyzerUnlocked, [Next]_vars PROVE AnalyzerUnlocked'
    OBVIOUS
  <2>1. CASE UNCHANGED vars
    BY <2>1 DEF vars, memory, AnalyzerUnlocked
  <2>2. ASSUME NEW t \in Task, HookStep(t) PROVE AnalyzerUnlocked'
    <3>1. CASE Remap(t)
      <4>1. ThisCall(t) \in Call
        BY <2>2, HookMeets
      <4>2. address[ThisCall(t)] # "error" /\ ThisCall(t) \in mapped
        BY <3>1, <4>1, RemapFinds DEF TurnInv, MappedByThread
      <4> QED
        BY <3>1, <4>2 DEF Remap, AnalyzerUnlocked
    <3>2. CASE ~Remap(t)
      BY <2>2, <3>2 DEF HookStep, StartThread, PinPages, AwaitMmapDone, CheckAddress, Send, AwaitReady,
                        ReinitReady, ReleaseThread, StopThread, JoinThread, memory, AnalyzerUnlocked
    <3> QED
      BY <3>1, <3>2
  <2>3. ASSUME NEW t \in Task, NEW k \in {"mmap", "mprotect", "bpf"}, EnterHook(t, k) PROVE AnalyzerUnlocked'
    BY <2>3 DEF EnterHook, Gates, AnalyzerUnlocked
  <2>4. ASSUME NEW c \in Call, ThreadStep(c) PROVE AnalyzerUnlocked'
    BY <2>4 DEF ThreadStep, MapInAnalyzer, InitMunmapReady, SignalMmapDone, AwaitMunmapReady, TestMunmapReady,
                Unmap, ExitThread, memory, AnalyzerUnlocked
  <2>5. ASSUME NEW a \in Analyzer, StartAnalyzer(a) \/ AnalyzerStep(a) \/ Crash(a) PROVE AnalyzerUnlocked'
    BY <2>5, AnalyzerMoves DEF memory, AnalyzerUnlocked
  <2> QED
    BY <2>1, <2>2, <2>3, <2>4, <2>5 DEF Next
<1>3. IInv /\ TurnInv /\ AnalyzerUnlocked /\ [SitesNext]_svars => AnalyzerUnlocked'
  BY <1>2, SitesStep
<1> QED
  BY <1>1, <1>3, SitesInvariant, RendezvousInvariant, PTL DEF SitesSpec

(* What an analyzer takes up is mapped: its message is that of the hook that waits, *)
(* whose thread waits in turn. *)
LEMMA AnalysedIsMapped ==
  ASSUME OneAnalyzer, "vm_mmap" \notin Faults, IInv, AnswerInv, TurnInv,
         NEW a \in Analyzer, inbox[a] # <<>>, working[a] = NoCall
  PROVE  Head(inbox[a]) \in mapped /\ a = analyzer_task
<1>1. PICK t \in Task : pc[t] \in Asking /\ inbox[a] = <<ThisCall(t)>>
  BY BusyAnalyzer
<1>2. pc[t] # "idle" /\ pc[t] # "mapped" /\ Head(inbox[a]) = ThisCall(t)
  BY <1>1 DEF Asking
<1>3. ThisCall(t) \in Call
  BY <1>2, CallInHook
<1>4. AtWork(t)
  BY <1>1, <1>2 DEF TurnInv, Rendezvous, Meets, NotYetMapped, Signalled, Leaving, Asking
<1>5. address[ThisCall(t)] # "error"
  BY <1>3 DEF TurnInv, MappedByThread
<1>6. a = analyzer_task
  BY <1>2 DEF AnswerInv, Registered, OneAnalyzer, IInv, TypeOK
<1> QED
  BY <1>2, <1>3, <1>4, <1>5, <1>6, AtWorkMapped

(***************************************************************************)
(* The analyzer only reads memory that is mapped there for the call it     *)
(* analyses, and so does not die of a message.                             *)
(***************************************************************************)
THEOREM AnalysedWhileMapped ==
  ASSUME Exclusive, OneAnalyzer, Faults \cap {"pages", "vm_mmap", "crash"} = {}
  PROVE  SitesSpec => MappedWhenAnalysed
<1> DEFINE Careful == \A a \in Analyzer : /\ working'[a] \notin {working[a], NoCall} => working'[a] \in mapped
                                          /\ a \in alive => a \in alive'
<1>1. IInv /\ AnswerInv /\ TurnInv /\ [Next]_vars => [Careful]_vars
  <2> SUFFICES ASSUME IInv, AnswerInv, TurnInv, Next PROVE Careful
    OBVIOUS
  <2>1. ASSUME UNCHANGED <<working, alive>> PROVE Careful
    BY <2>1
  <2>2. ASSUME NEW t \in Task, HookStep(t) PROVE Careful
    BY <2>1, <2>2 DEF HookStep, StartThread, PinPages, AwaitMmapDone, CheckAddress, Remap, Send, AwaitReady,
                      ReinitReady, ReleaseThread, StopThread, JoinThread, analyzers
  <2>3. ASSUME NEW t \in Task, NEW k \in {"mmap", "mprotect", "bpf"}, EnterHook(t, k) PROVE Careful
    BY <2>1, <2>3 DEF EnterHook, Gates, analyzers
  <2>4. ASSUME NEW c \in Call, ThreadStep(c) PROVE Careful
    BY <2>1, <2>4 DEF ThreadStep, MapInAnalyzer, InitMunmapReady, SignalMmapDone, AwaitMunmapReady,
                      TestMunmapReady, Unmap, ExitThread, analyzers
  <2>5. ASSUME NEW a \in Analyzer, StartAnalyzer(a) PROVE Careful
    BY <2>5 DEF StartAnalyzer
  <2>6. ASSUME NEW a \in Analyzer, Analyze(a) PROVE Careful
    <3>1. Head(inbox[a]) \in mapped /\ a = analyzer_task
      BY <2>6, AnalysedIsMapped DEF Analyze
    <3>2. UNCHANGED alive /\ working' = [working EXCEPT ![a] = Head(inbox[a])]
      BY <2>6, <3>1 DEF Analyze
    <3> QED
      BY <3>1, <3>2 DEF IInv, TypeOK
  <2>7. ASSUME NEW a \in Analyzer, Reply(a) PROVE Careful
    BY <2>7 DEF Reply, IInv, TypeOK
  <2>8. ASSUME NEW a \in Analyzer, Crash(a) PROVE Careful
    BY <2>8 DEF Crash
  <2> HIDE DEF Careful
  <2> QED
    BY <2>2, <2>3, <2>4, <2>5, <2>6, <2>7, <2>8 DEF Next, AnalyzerStep
<1>2. IInv /\ AnswerInv /\ TurnInv /\ [SitesNext]_svars =>
        [\A a \in Analyzer :
           (working'[a] \notin {working[a], NoCall} => working'[a] \in mapped)
           /\ (a \in alive => a \in alive')]_vars
  BY <1>1, SitesStep
<1>3. SitesSpec => []TurnInv
  BY RendezvousInvariant
<1> QED
  BY <1>2, <1>3, SitesInvariant, AnswerInvariant, PTL DEF SitesSpec, MappedWhenAnalysed

-----------------------------------------------------------------------------
(***************************************************************************)
(* References of the analyzer's memory.                                    *)
(***************************************************************************)

(* The result of a call is set when its hook returns; no call has one, or a *)
(* reference, before it is made. *)
ResultPending ==
  /\ \A t \in Task : pc[t] # "idle" => result[ThisCall(t)] = Pending
  /\ \A c \in Call : c[2] > calls[c[1]] => result[c] = Pending /\ c \notin mm_refs

(* A BPF image is always mapped, and so the analyzer is always asked about it. *)
BpfIsMapped ==
  \A c \in Call : kind[c] = "bpf" /\ th[c] \in InMapping \cup {"stopping"} => address[c] # "none"

BpfIsAsked ==
  \A t \in Task :
    /\ pc[t] = "remap" => kind[ThisCall(t)] = "mprotect"
    /\ pc[t] \in Asking \cup {"reinit", "release", "stop", "join"} /\ kind[ThisCall(t)] = "bpf" => asked[t]

RefInv == ResultPending /\ BpfIsMapped /\ BpfIsAsked /\ ReferencesReturned

(* No task loads BPF programs, or nothing keeps their images from being mapped. *)
BpfMaps == BpfTask = {} \/ Faults \cap {"vm_mmap", "copy"} = {}

(* A call begins with a reference, or with the result of one without. *)
LEMMA EnterHookReferences ==
  ASSUME Exclusive, IInv, TurnInv, RefInv,
         NEW t \in Task, NEW k \in {"mmap", "mprotect", "bpf"}, EnterHook(t, k)
  PROVE  RefInv'
<1> DEFINE c == <<t, calls[t] + 1>>
<1>1. c \in Call /\ calls[t] \in Nat /\ calls \in [Task -> Nat] /\ pc \in [Task -> PC]
  BY EnteredCall DEF IInv, TypeOK
<1>2. /\ calls' = [calls EXCEPT ![t] = @ + 1] /\ kind' = [kind EXCEPT ![c] = k]
      /\ UNCHANGED <<th, address>>
  BY DEF EnterHook, Gates, threads
<1>3. \A u \in Task : u # t => pc'[u] = "idle"
  BY EnterAlone, EnterResult DEF TurnInv
<1>4. pc'[t] \in {"idle", "start"} /\ ThisCall(t)' = c
  BY <1>1, <1>2 DEF EnterHook, Gates, Goto, Return, ThisCall
<1>5. result[c] = Pending /\ c \notin mm_refs
  BY <1>1 DEF RefInv, ResultPending
<1>6. \A d \in Call : d # c => result'[d] = result[d] /\ (d \in mm_refs' <=> d \in mm_refs)
  BY <1>1 DEF EnterHook, Gates, Goto, Return, IInv, TypeOK
<1>7. /\ pc'[t] # "idle" => result'[c] = Pending
      /\ c \in mm_refs' => result'[c] \in {Pending, NoMem}
  BY <1>1, <1>5 DEF EnterHook, Gates, Goto, Return, IInv, TypeOK
<1>8. mm_refs' \subseteq Call
  BY <1>1 DEF EnterHook, Gates, IInv, TypeOK
<1>9. ResultPending'
  <2>1. ASSUME NEW d \in Call, d[2] > calls'[d[1]] PROVE result'[d] = Pending /\ d \notin mm_refs'
    <3>1. d[1] \in Task /\ d[2] \in Nat /\ d = <<d[1], d[2]>>
      BY TaskOfCall
    <3>2. d # c /\ d[2] > calls[d[1]]
      BY <1>1, <1>2, <2>1, <3>1
    <3> QED
      BY <1>6, <3>2 DEF RefInv, ResultPending
  <2>2. ASSUME NEW u \in Task, pc'[u] # "idle" PROVE result'[ThisCall(u)'] = Pending
    <3>1. u = t
      BY <1>3, <2>2
    <3> QED
      BY <1>4, <1>7, <2>2, <3>1
  <2> HIDE DEF c
  <2> QED
    BY <2>1, <2>2 DEF ResultPending
<1>10. BpfIsMapped'
  <2>1. th[c] = "none"
    <3>1. MaxCalls[t] \in Nat /\ calls[t] + 1 \in 1 .. MaxCalls[t] /\ calls[t] + 1 > calls[t]
      BY <1>1, CallsOfTasks
    <3> QED
      BY <3>1 DEF IInv, CallsToCome
  <2>2. kind \in [Call -> {"mmap", "mprotect", "bpf"}]
    BY DEF IInv, TypeOK
  <2> QED
    BY <1>1, <1>2, <2>1, <2>2 DEF RefInv, BpfIsMapped, InMapping
<1>11. BpfIsAsked'
  BY <1>3, <1>4 DEF BpfIsAsked, Asking
<1>12. ReferencesReturned'
  BY <1>2, <1>6, <1>7, <1>8 DEF RefInv, ReferencesReturned
<1> QED
  BY <1>9, <1>10, <1>11, <1>12 DEF RefInv

(* A hook starts its own thread and no other. *)
LEMMA HookThreads ==
  ASSUME IInv, NEW t \in Task, HookStep(t)
  PROVE  \A d \in Call : /\ d # ThisCall(t) /\ th[d] = "none" => th'[d] = "none"
                         /\ th'[d] \in InMapping \cup {"stopping"} => th[d] \in InMapping \cup {"stopping"}
<1>1. CASE StartThread(t)
  BY <1>1 DEF StartThread, IInv, TypeOK, InMapping
<1>2. CASE ReleaseThread(t)
  <2>1. \A d \in Woken(analyzer_munmap_ready) : d \in Call => th[d] \in {"asleep", "poked"}
    BY CompleteEffect DEF IInv, TypeOK, WaitersAsleep
  <2> QED
    BY <1>2, <2>1 DEF ReleaseThread, InMapping
<1>3. CASE StopThread(t)
  BY <1>3 DEF StopThread, IInv, TypeOK, InMapping
<1>4. CASE ~StartThread(t) /\ ~ReleaseThread(t) /\ ~StopThread(t)
  BY <1>4 DEF HookStep, PinPages, AwaitMmapDone, CheckAddress, Remap, Send, AwaitReady, ReinitReady,
              JoinThread, threads
<1> QED
  BY <1>1, <1>2, <1>3, <1>4

(* A hook returns with no reference left, but for the two paths without mmput. *)
LEMMA HookReturn ==
  ASSUME IInv, TurnInv, BpfIsAsked, NEW t \in Task, HookStep(t)
  PROVE  \/ UNCHANGED <<result, mm_refs>> /\ pc'[t] # "idle"
         \/ /\ pc'[t] = "idle" /\ mm_refs' \subseteq mm_refs
            /\ ThisCall(t) \in mm_refs' =>
                 \/ result'[ThisCall(t)] = NoMem
                 \/ result'[ThisCall(t)] = Unasked /\ th'[ThisCall(t)] = "none"
<1>1. ThisCall(t) \in Call /\ pc \in [Task -> PC] /\ result \in [Call -> Result]
  BY HookAlone DEF IInv, TypeOK
<1>2. CASE StartThread(t)
  <2>1. th[ThisCall(t)] = "none"
    BY <1>2 DEF StartThread, IInv, HookHasItsData
  <2> QED
    BY <1>1, <1>2, <2>1 DEF StartThread, Goto, Return
<1>3. CASE PinPages(t)
  BY <1>1, <1>3 DEF PinPages, Goto, Return, memory
<1>4. CASE Remap(t)
  <2>1. address[ThisCall(t)] # "error" => ThisCall(t) \in mapped
    BY <1>4, RemapFinds
  <2> QED
    BY <1>1, <1>4, <2>1 DEF Remap, Goto, Return
<1>5. CASE JoinThread(t)
  <2>1. kind[ThisCall(t)] = "bpf" => asked[t]
    BY <1>5 DEF JoinThread, BpfIsAsked
  <2> QED
    BY <1>1, <1>5, <2>1 DEF JoinThread, Goto, Return
<1>6. CASE ~StartThread(t) /\ ~PinPages(t) /\ ~Remap(t) /\ ~JoinThread(t)
  BY <1>1, <1>6 DEF HookStep, AwaitMmapDone, CheckAddress, Send, AwaitReady, ReinitReady, ReleaseThread,
                    StopThread, Goto, memory
<1> QED
  BY <1>2, <1>3, <1>4, <1>5, <1>6

(* A hook that loads a program and whose image is mapped goes on to ask. *)
LEMMA HookAsks ==
  ASSUME IInv, TurnInv, BpfIsMapped, BpfIsAsked, NEW t \in Task, HookStep(t)
  PROVE  BpfIsAsked'
<1>1. /\ pc[t] # "idle" /\ ThisCall(t) \in Call /\ ThisCall(t)' = ThisCall(t) /\ kind' = kind
      /\ \A u \in Task : u # t => pc'[u] = "idle"
  BY HookAlone, HookMoves
<1> SUFFICES /\ pc'[t] = "remap" => kind[ThisCall(t)] = "mprotect"
             /\ pc'[t] \in Asking \cup {"reinit", "release", "stop", "join"} /\ kind[ThisCall(t)] = "bpf"
                  => asked'[t]
  BY <1>1 DEF BpfIsAsked, Asking
<1>2. pc \in [Task -> PC] /\ asked \in [Task -> BOOLEAN]
  BY DEF IInv, TypeOK
<1>3. CASE CheckAddress(t)
  <2>1. AtWork(t)
    BY <1>3, HookMeets DEF CheckAddress, Meets, NotYetMapped, Signalled, Leaving
  <2>2. address[ThisCall(t)] = "none" => th[ThisCall(t)] = "stopping"
    BY <2>1 DEF AtWork, Waits
  <2>3. kind[ThisCall(t)] = "bpf" => address[ThisCall(t)] # "none"
    BY <1>1, <2>2 DEF BpfIsMapped
  <2> QED
    BY <1>2, <1>3, <2>3 DEF CheckAddress, Goto, Asking
<1>4. CASE Send(t)
  BY <1>2, <1>4 DEF Send, Goto
<1>5. CASE ~CheckAddress(t) /\ ~Send(t)
  BY <1>2, <1>5 DEF HookStep, StartThread, PinPages, AwaitMmapDone, Remap, AwaitReady, ReinitReady,
                    ReleaseThread, StopThread, JoinThread, Goto, Return, BpfIsAsked, Asking
<1> QED
  BY <1>3, <1>4, <1>5

LEMMA HookStepReferences ==
  ASSUME IInv, TurnInv, RefInv, NEW t \in Task, HookStep(t)
  PROVE  RefInv'
<1>1. /\ pc[t] # "idle" /\ ThisCall(t) \in Call /\ ThisCall(t)' = ThisCall(t) /\ UNCHANGED <<kind, calls>>
      /\ \A u \in Task : u # t => pc'[u] = "idle"
  BY HookAlone, HookMoves
<1>2. /\ \A c \in Call : c # ThisCall(t) => result'[c] = result[c]
      /\ pc'[t] # "idle" => UNCHANGED <<result, mm_refs>>
      /\ mm_refs' \subseteq mm_refs
  BY HookResult, HookReturn DEF RefInv
<1>3. ThisCall(t) = <<t, calls[t]>> /\ calls[t] \in Nat
  BY DEF ThisCall, IInv, TypeOK
<1>4. ResultPending'
  <2>1. ASSUME NEW d \in Call, d[2] > calls'[d[1]] PROVE result'[d] = Pending /\ d \notin mm_refs'
    <3>1. d # ThisCall(t)
      BY <1>1, <1>3, <2>1
    <3> QED
      BY <1>1, <1>2, <2>1, <3>1 DEF RefInv, ResultPending
  <2>2. pc'[t] # "idle" => result'[ThisCall(t)] = Pending
    BY <1>1, <1>2 DEF RefInv, ResultPending
  <2> QED
    BY <1>1, <2>1, <2>2 DEF ResultPending
<1>5. BpfIsMapped'
  <2>1. address' = address
    BY DEF HookStep, StartThread, PinPages, AwaitMmapDone, CheckAddress, Remap, Send, AwaitReady,
           ReinitReady, ReleaseThread, StopThread, JoinThread, threads
  <2> QED
    BY <1>1, <2>1, HookThreads DEF RefInv, BpfIsMapped
<1>6. BpfIsAsked'
  BY HookAsks DEF RefInv
<1>7. ReferencesReturned'
  <2> SUFFICES ASSUME NEW c \in mm_refs'
               PROVE  \/ result'[c] \in {Pending, NoMem}
                      \/ result'[c] = Unasked /\ th'[c] = "none"
    BY DEF ReferencesReturned
  <2>1. c \in mm_refs /\ c \in Call
    BY <1>2 DEF IInv, TypeOK
  <2>2. CASE c = ThisCall(t)
    BY <1>1, <2>2, HookReturn DEF RefInv, ResultPending
  <2>3. CASE c # ThisCall(t)
    BY <1>2, <2>1, <2>3, HookThreads DEF RefInv, ReferencesReturned
  <2> QED
    BY <2>2, <2>3
<1> QED
  BY <1>4, <1>5, <1>6, <1>7 DEF RefInv

(* What keeps RefInv while no hook begins or returns. *)
LEMMA ReferencesKept ==
  ASSUME RefInv, HooksGoOn, UNCHANGED <<asked, result, mm_refs>>,
         \A u \in Task : \/ pc'[u] = pc[u]
                         \/ pc'[u] = "await_mmap"
                         \/ pc[u] = "sleep_ready" /\ pc'[u] = "await_ready",
         \A c \in mm_refs : th[c] = "none" => th'[c] = "none",
         BpfIsMapped'
  PROVE  RefInv'
<1>1. \A u \in Task : ThisCall(u)' = ThisCall(u)
  BY DEF HooksGoOn, ThisCall
<1>2. ResultPending'
  BY <1>1 DEF RefInv, ResultPending, HooksGoOn
<1>3. BpfIsAsked'
  BY <1>1 DEF RefInv, BpfIsAsked, HooksGoOn, Asking
<1>4. ReferencesReturned'
  BY DEF RefInv, ReferencesReturned
<1> QED
  BY <1>2, <1>3, <1>4 DEF RefInv

(* The thread of a BPF call maps its image. *)
LEMMA ThreadMapsImage ==
  ASSUME BpfMaps, IInv, TurnInv, BpfIsMapped, NEW c \in Call, ThreadStep(c)
  PROVE  BpfIsMapped'
<1>1. /\ UNCHANGED kind /\ address \in [Call -> {"none", "mapped", "error"}] /\ th \in [Call -> ThreadPC]
      /\ \A d \in Call : d # c => th'[d] = th[d]
  BY ThreadAlone, ThreadMoves DEF IInv, TypeOK
<1>2. CASE MapInAnalyzer(c)
  <2>1. kind[c] = "bpf" => c[1] \in BpfTask
    BY DEF TurnInv, OneHook
  <2>2. kind[c] = "bpf" => address' = [address EXCEPT ![c] = "mapped"]
    BY <1>2, <2>1 DEF MapInAnalyzer, BpfMaps
  <2>3. \A d \in Call : d # c => address'[d] = address[d]
    BY <1>1, <1>2 DEF MapInAnalyzer
  <2> QED
    BY <1>1, <2>2, <2>3 DEF BpfIsMapped
<1>3. CASE ~MapInAnalyzer(c)
  <2>1. address' = address
    BY <1>3 DEF ThreadStep, InitMunmapReady, SignalMmapDone, AwaitMunmapReady, TestMunmapReady,
                Unmap, ExitThread
  <2>2. th'[c] \in InMapping \cup {"stopping"} => th[c] \in InMapping \cup {"stopping"}
    BY <1>1, <1>3 DEF ThreadStep, InitMunmapReady, SignalMmapDone, AwaitMunmapReady, TestMunmapReady,
                      Unmap, ExitThread, ThreadGoto, InMapping
  <2> QED
    BY <1>1, <2>1, <2>2 DEF BpfIsMapped
<1> QED
  BY <1>2, <1>3

LEMMA ThreadStepReferences ==
  ASSUME BpfMaps, IInv, TurnInv, RefInv, NEW c \in Call, ThreadStep(c)
  PROVE  RefInv'
<1>1. UNCHANGED <<asked, result>> /\ HooksGoOn
  BY ThreadMoves DEF HooksGoOn
<1>2. mm_refs' = mm_refs
  BY DEF ThreadStep, MapInAnalyzer, InitMunmapReady, SignalMmapDone, AwaitMunmapReady, TestMunmapReady,
         Unmap, ExitThread, memory
<1>3. \A d \in Call : th[d] = "none" => th'[d] = "none"
  BY ThreadAlone DEF Runs
<1>4. mm_refs \subseteq Call
  BY DEF IInv, TypeOK
<1>5. \A u \in Task : pc'[u] = pc[u] \/ pc'[u] = "await_mmap"
  BY ThreadMoves
<1>6. BpfIsMapped'
  BY ThreadMapsImage DEF RefInv
<1> QED
  BY <1>1, <1>2, <1>3, <1>4, <1>5, <1>6, ReferencesKept

LEMMA AnalyzerReferences ==
  ASSUME IInv, TurnInv, RefInv, NEW a \in Analyzer, StartAnalyzer(a) \/ AnalyzerStep(a) \/ Crash(a)
  PROVE  RefInv'
<1>1. /\ UNCHANGED <<kind, calls, asked, result, th, address, mm_refs>>
      /\ \A t \in Task : pc'[t] = pc[t] \/ (pc[t] = "sleep_ready" /\ pc'[t] = "await_ready")
  BY AnalyzerMoves DEF threads, memory
<1>2. HooksGoOn /\ BpfIsMapped'
  BY <1>1 DEF HooksGoOn, RefInv, BpfIsMapped
<1> QED
  BY <1>1, <1>2, ReferencesKept

LEMMA ReferencesStep ==
  ASSUME Exclusive, BpfMaps, IInv, TurnInv, RefInv, [Next]_vars
  PROVE  RefInv'
<1>1. CASE UNCHANGED vars
  <2>1. UNCHANGED <<pc, kind, calls, asked, result, th, address, mm_refs>>
    BY <1>1 DEF vars, hooks, threads, memory
  <2>2. HooksGoOn /\ BpfIsMapped'
    BY <2>1 DEF HooksGoOn, RefInv, BpfIsMapped
  <2> QED
    BY <2>1, <2>2, ReferencesKept
<1>2. ASSUME NEW t \in Task, HookStep(t) PROVE RefInv'
  BY <1>2, HookStepReferences
<1>3. ASSUME NEW t \in Task, NEW k \in {"mmap", "mprotect", "bpf"}, EnterHook(t, k) PROVE RefInv'
  BY <1>3, EnterHookReferences
<1>4. ASSUME NEW c \in Call, ThreadStep(c) PROVE RefInv'
  BY <1>4, ThreadStepReferences
<1>5. ASSUME NEW a \in Analyzer, StartAnalyzer(a) \/ AnalyzerStep(a) \/ Crash(a) PROVE RefInv'
  BY <1>5, AnalyzerReferences
<1> QED
  BY <1>1, <1>2, <1>3, <1>4, <1>5 DEF Next

(***************************************************************************)
(* A hook gives back its reference of the analyzer's memory on every path  *)
(* but the two without mmput, if BPF images are mapped: the hook of a      *)
(* program whose image is not mapped keeps the reference.                  *)
(***************************************************************************)
THEOREM HooksReturnReferences ==
  ASSUME Exclusive, "pages" \notin Faults, BpfMaps
  PROVE  SitesSpec => []ReferencesReturned
<1>1. SitesInit => RefInv
  <2> SUFFICES ASSUME Init PROVE RefInv
    BY DEF SitesInit
  <2>1. \A c \in Call : c[1] \in Task
    BY TaskOfCall
  <2> QED
    BY <2>1 DEF Init, RefInv, ResultPending, BpfIsMapped, BpfIsAsked, ReferencesReturned, InMapping, Asking
<1>2. IInv /\ TurnInv /\ RefInv /\ [SitesNext]_svars => RefInv'
  BY SitesStep, ReferencesStep
<1>3. RefInv => ReferencesReturned
  BY DEF RefInv
<1> QED
  BY <1>1, <1>2, <1>3, SitesInvariant, RendezvousInvariant, PTL DEF SitesSpec

-----------------------------------------------------------------------------
(***************************************************************************)
(* What passes without having been asked about.                            *)
(***************************************************************************)

(* A call has no result before its hook returns. *)
ResultsUnset ==
  /\ \A t \in Task : pc[t] # "idle" => result[ThisCall(t)] = Pending
  /\ \A c \in Call : c[2] > calls[c[1]] => result[c] = Pending

(* Only the image of a BPF program is ever not mapped, and only by a failure. *)
ImagesNotMapped ==
  \A c \in Call :
    address[c] = "none" /\ th[c] \in InMapping \cup {"stopping"} =>
      kind[c] = "bpf" /\ {"vm_mmap", "copy"} \cap Faults # {}

(* The thread of call c has run, and what failed kept the hook from asking. *)
Unaskable(c) ==
  \/ {"vm_mmap", "copy"} \cap Faults # {} /\ kind[c] = "bpf" /\ address[c] = "none"
  \/ "remap" \in Faults /\ kind[c] = "mprotect" /\ address[c] # "none"

(* A hook that goes to its end has asked, or was not able to. *)
AskedOrNot ==
  \A t \in Task :
    /\ pc[t] = "remap" => kind[ThisCall(t)] = "mprotect" /\ address[ThisCall(t)] # "none"
    /\ pc[t] \in Asking \cup {"reinit"} => asked[t]
    /\ pc[t] \in {"release", "stop", "join"} => asked[t] \/ Unaskable(ThisCall(t))

UnaskedExcused == \A c \in Call : result[c] = Unasked => CouldNotAsk(c)

UnaskedInv == ResultsUnset /\ ImagesNotMapped /\ AskedOrNot /\ UnaskedExcused

(* Zero for want of an answer is no other result. *)
LEMMA UnaskedIsNoOther == Unasked \notin {Pending, Allowed, Invalid, NoMem} /\ Unasked \notin Verdict
  BY NoVerdicts DEF Unasked, Pending, Allowed, Invalid, NoMem

(* A call begins without a result, and no thread has run for it. *)
LEMMA EnterHookUnasked ==
  ASSUME Exclusive, IInv, TurnInv, UnaskedInv,
         NEW t \in Task, NEW k \in {"mmap", "mprotect", "bpf"}, EnterHook(t, k)
  PROVE  UnaskedInv'
<1> DEFINE c == <<t, calls[t] + 1>>
<1>1. c \in Call /\ calls[t] \in Nat /\ calls \in [Task -> Nat] /\ pc \in [Task -> PC]
  BY EnteredCall DEF IInv, TypeOK
<1>2. /\ calls' = [calls EXCEPT ![t] = @ + 1] /\ kind' = [kind EXCEPT ![c] = k]
      /\ UNCHANGED <<th, address>> /\ kind \in [Call -> {"mmap", "mprotect", "bpf"}]
  BY DEF EnterHook, Gates, threads, IInv, TypeOK
<1>3. \A u \in Task : u # t => pc'[u] = "idle"
  BY EnterAlone, EnterResult DEF TurnInv
<1>4. pc'[t] \in {"idle", "start"} /\ ThisCall(t)' = c
  BY <1>1, <1>2 DEF EnterHook, Gates, Goto, Return, ThisCall
<1>5. result[c] = Pending
  BY <1>1 DEF UnaskedInv, ResultsUnset
<1>6. \A d \in Call : d # c => result'[d] = result[d] /\ kind'[d] = kind[d]
  BY <1>1, <1>2, EnterResult
<1>7. /\ pc'[t] # "idle" => result'[c] = Pending
      /\ result'[c] \in {Pending, Allowed, Invalid, NoMem}
  BY <1>1, <1>5 DEF EnterHook, Gates, Goto, Return, IInv, TypeOK
<1>8. ResultsUnset'
  <2>1. ASSUME NEW d \in Call, d[2] > calls'[d[1]] PROVE result'[d] = Pending
    <3>1. d[1] \in Task /\ d[2] \in Nat /\ d = <<d[1], d[2]>>
      BY TaskOfCall
    <3>2. d # c /\ d[2] > calls[d[1]]
      BY <1>1, <1>2, <2>1, <3>1
    <3> QED
      BY <1>6, <3>2 DEF UnaskedInv, ResultsUnset
  <2>2. ASSUME NEW u \in Task, pc'[u] # "idle" PROVE result'[ThisCall(u)'] = Pending
    <3>1. u = t
      BY <1>3, <2>2
    <3> QED
      BY <1>4, <1>7, <2>2, <3>1
  <2> HIDE DEF c
  <2> QED
    BY <2>1, <2>2 DEF ResultsUnset
<1>9. ImagesNotMapped'
  <2>1. th[c] = "none"
    <3>1. MaxCalls[t] \in Nat /\ calls[t] + 1 \in 1 .. MaxCalls[t] /\ calls[t] + 1 > calls[t]
      BY <1>1, CallsOfTasks
    <3> QED
      BY <3>1 DEF IInv, CallsToCome
  <2> QED
    BY <1>1, <1>2, <1>6, <2>1 DEF UnaskedInv, ImagesNotMapped, InMapping
<1>10. AskedOrNot'
  BY <1>3, <1>4 DEF AskedOrNot, Asking
<1>11. UnaskedExcused'
  <2> SUFFICES ASSUME NEW d \in Call, result'[d] = Unasked PROVE CouldNotAsk(d)'
    BY DEF UnaskedExcused
  <2>1. d # c
    BY <1>7, UnaskedIsNoOther
  <2>2. CouldNotAsk(d)
    BY <1>6, <2>1 DEF UnaskedInv, UnaskedExcused
  <2> QED
    BY <1>2, <1>6, <2>1, <2>2 DEF CouldNotAsk
<1> QED
  BY <1>8, <1>9, <1>10, <1>11 DEF UnaskedInv

(* A hook that goes to its end has asked, or finds the reason why it has not. *)
LEMMA HookAskedOrNot ==
  ASSUME IInv, TurnInv, UnaskedInv, NEW t \in Task, HookStep(t)
  PROVE  AskedOrNot'
<1>1. /\ pc[t] # "idle" /\ ThisCall(t) \in Call /\ ThisCall(t)' = ThisCall(t)
      /\ \A u \in Task : u # t => pc'[u] = "idle"
  BY HookAlone
<1>2. UNCHANGED <<kind, address>>
  BY DEF HookStep, StartThread, PinPages, AwaitMmapDone, CheckAddress, Remap, Send, AwaitReady,
         ReinitReady, ReleaseThread, StopThread, JoinThread, threads
<1>3. Unaskable(ThisCall(t))' = Unaskable(ThisCall(t))
  BY <1>1, <1>2 DEF Unaskable
<1>4. pc \in [Task -> PC] /\ asked \in [Task -> BOOLEAN]
  BY DEF IInv, TypeOK
<1>5. /\ pc[t] = "remap" => kind[ThisCall(t)] = "mprotect" /\ address[ThisCall(t)] # "none"
      /\ pc[t] \in Asking \cup {"reinit"} => asked[t]
      /\ pc[t] \in {"release", "stop", "join"} => asked[t] \/ Unaskable(ThisCall(t))
  BY DEF UnaskedInv, AskedOrNot
<1> SUFFICES /\ pc'[t] = "remap" => kind[ThisCall(t)] = "mprotect" /\ address[ThisCall(t)] # "none"
             /\ pc'[t] \in Asking \cup {"reinit"} => asked'[t]
             /\ pc'[t] \in {"release", "stop", "join"} => asked'[t] \/ Unaskable(ThisCall(t))
  BY <1>1, <1>2, <1>3 DEF AskedOrNot, Asking
<1>6. CASE CheckAddress(t)
  <2>1. AtWork(t)
    BY <1>6, HookMeets DEF CheckAddress, Meets, NotYetMapped, Signalled, Leaving
  <2>2. address[ThisCall(t)] = "none" => th[ThisCall(t)] = "stopping"
    BY <2>1 DEF AtWork, Waits
  <2>3. address[ThisCall(t)] = "none" => Unaskable(ThisCall(t))
    BY <1>1, <2>2 DEF UnaskedInv, ImagesNotMapped, Unaskable
  <2> QED
    BY <1>4, <1>6, <2>3 DEF CheckAddress, Goto, Asking
<1>7. CASE Remap(t)
  <2>1. address[ThisCall(t)] # "error" => ThisCall(t) \in mapped
    BY <1>7, RemapFinds
  <2>2. pc'[t] = "release" => "remap" \in Faults
    BY <1>4, <1>7, <2>1 DEF Remap, Goto, Return
  <2>3. pc'[t] \in {"send", "release", "oops"}
    BY <1>4, <1>7, <2>1 DEF Remap, Goto, Return
  <2>4. pc[t] = "remap"
    BY <1>7 DEF Remap
  <2> QED
    BY <1>5, <2>2, <2>3, <2>4 DEF Unaskable, Asking
<1>8. CASE Send(t)
  BY <1>4, <1>8 DEF Send, Goto
<1>9. CASE ~CheckAddress(t) /\ ~Remap(t) /\ ~Send(t)
  BY <1>4, <1>5, <1>9 DEF HookStep, StartThread, PinPages, AwaitMmapDone, AwaitReady, ReinitReady,
                          ReleaseThread, StopThread, JoinThread, Goto, Return, Asking
<1> QED
  BY <1>6, <1>7, <1>8, <1>9

(* A hook that returns zero without a verdict was not able to ask. *)
LEMMA HookExcused ==
  ASSUME IInv, TurnInv, UnaskedInv, NEW t \in Task, HookStep(t), result'[ThisCall(t)] = Unasked
  PROVE  CouldNotAsk(ThisCall(t))'
<1>1. /\ pc[t] # "idle" /\ ThisCall(t) \in Call /\ ThisCall(t)' = ThisCall(t)
      /\ result[ThisCall(t)] = Pending /\ result \in [Call -> Result]
  BY HookAlone DEF UnaskedInv, ResultsUnset, IInv, TypeOK
<1>2. result' # result
  BY <1>1, UnaskedIsNoOther
<1>3. CASE StartThread(t)
  <2>1. th[ThisCall(t)] = "none"
    BY <1>3 DEF StartThread, IInv, HookHasItsData
  <2> QED
    BY <1>1, <1>2, <1>3, <2>1 DEF StartThread, CouldNotAsk
<1>4. CASE JoinThread(t)
  <2>1. result' = [result EXCEPT ![ThisCall(t)] = IF asked[t] THEN analyzer_response ELSE Unasked]
    BY <1>4 DEF JoinThread, Return
  <2>2. ~asked[t]
    BY <1>1, <2>1, UnaskedIsNoOther DEF IInv, TypeOK
  <2>3. Unaskable(ThisCall(t))
    BY <1>4, <2>2 DEF UnaskedInv, AskedOrNot, JoinThread
  <2>4. UNCHANGED <<kind, address>>
    BY <1>4 DEF JoinThread, threads
  <2> QED
    BY <1>1, <2>3, <2>4 DEF Unaskable, CouldNotAsk
<1>5. CASE Remap(t)
  <2>1. address[ThisCall(t)] # "error" => ThisCall(t) \in mapped
    BY <1>5, RemapFinds
  <2> QED
    BY <1>2, <1>5, <2>1 DEF Remap
<1>6. CASE PinPages(t)
  BY <1>1, <1>2, <1>6, UnaskedIsNoOther DEF PinPages, Return
<1>7. CASE ~StartThread(t) /\ ~JoinThread(t) /\ ~Remap(t) /\ ~PinPages(t)
  BY <1>2, <1>7 DEF HookStep, AwaitMmapDone, CheckAddress, Send, AwaitReady, ReinitReady,
                    ReleaseThread, StopThread
<1> QED
  BY <1>3, <1>4, <1>5, <1>6, <1>7

LEMMA HookStepUnasked ==
  ASSUME IInv, TurnInv, UnaskedInv, NEW t \in Task, HookStep(t)
  PROVE  UnaskedInv'
<1>1. /\ pc[t] # "idle" /\ ThisCall(t) \in Call /\ ThisCall(t)' = ThisCall(t) /\ UNCHANGED <<kind, calls>>
      /\ \A u \in Task : u # t => pc'[u] = "idle"
  BY HookAlone, HookMoves
<1>2. \A c \in Call : c # ThisCall(t) => result'[c] = result[c]
  BY HookResult
<1>3. ThisCall(t) = <<t, calls[t]>> /\ calls[t] \in Nat
  BY DEF ThisCall, IInv, TypeOK
<1>4. address' = address
  BY DEF HookStep, StartThread, PinPages, AwaitMmapDone, CheckAddress, Remap, Send, AwaitReady,
         ReinitReady, ReleaseThread, StopThread, JoinThread, threads
<1>5. ResultsUnset'
  <2>1. ASSUME NEW d \in Call, d[2] > calls'[d[1]] PROVE result'[d] = Pending
    <3>1. d # ThisCall(t)
      BY <1>1, <1>3, <2>1
    <3> QED
      BY <1>1, <1>2, <2>1, <3>1 DEF UnaskedInv, ResultsUnset
  <2>2. pc'[t] # "idle" => result' = result
    <3>1. pc \in [Task -> PC]
      BY DEF IInv, TypeOK
    <3> QED
      BY <3>1 DEF HookStep, StartThread, PinPages, AwaitMmapDone, CheckAddress, Remap, Send, AwaitReady,
                  ReinitReady, ReleaseThread, StopThread, JoinThread, Goto, Return
  <2> QED
    BY <1>1, <2>1, <2>2 DEF UnaskedInv, ResultsUnset
<1>6. ImagesNotMapped'
  BY <1>1, <1>4, HookThreads DEF UnaskedInv, ImagesNotMapped
<1>7. AskedOrNot'
  BY HookAskedOrNot
<1>8. UnaskedExcused'
  <2> SUFFICES ASSUME NEW c \in Call, result'[c] = Unasked PROVE CouldNotAsk(c)'
    BY DEF UnaskedExcused
  <2>1. CASE c = ThisCall(t)
    BY <1>1, <2>1, HookExcused DEF CouldNotAsk
  <2>2. CASE c # ThisCall(t)
    <3>1. CouldNotAsk(c) /\ result'[c] = result[c]
      BY <1>2, <2>2 DEF UnaskedInv, UnaskedExcused
    <3> QED
      BY <1>1, <1>4, <2>2, <3>1, HookThreads DEF CouldNotAsk
  <2> QED
    BY <2>1, <2>2
<1> QED
  BY <1>5, <1>6, <1>7, <1>8 DEF UnaskedInv

(* What keeps UnaskedInv while no hook begins or returns. *)
LEMMA UnaskedKept ==
  ASSUME UnaskedInv, UNCHANGED <<kind, calls, asked, result>>,
         \A u \in Task : \/ pc'[u] = pc[u]
                         \/ pc[u] = "sleep_mmap" /\ pc'[u] = "await_mmap"
                         \/ pc[u] = "sleep_ready" /\ pc'[u] = "await_ready",
         \A u \in Task : pc[u] \in {"remap", "release", "stop", "join"} =>
                           address'[ThisCall(u)] = address[ThisCall(u)],
         \A c \in Call : result[c] = Unasked =>
                           /\ th[c] = "none" => th'[c] = "none"
                           /\ address'[c] = address[c],
         ImagesNotMapped'
  PROVE  UnaskedInv'
<1>1. \A u \in Task : ThisCall(u)' = ThisCall(u)
  BY DEF ThisCall
<1>2. ResultsUnset'
  BY <1>1 DEF UnaskedInv, ResultsUnset
<1>3. AskedOrNot'
  BY <1>1 DEF UnaskedInv, AskedOrNot, Unaskable, Asking
<1>4. UnaskedExcused'
  BY DEF UnaskedInv, UnaskedExcused, CouldNotAsk
<1> QED
  BY <1>2, <1>3, <1>4 DEF UnaskedInv

(* The thread maps before its hook looks, and has only the hook at work. *)
LEMMA ThreadStepUnasked ==
  ASSUME IInv, TurnInv, UnaskedInv, NEW c \in Call, ThreadStep(c)
  PROVE  UnaskedInv'
<1>1. /\ UNCHANGED <<kind, calls, asked, result>>
      /\ \A u \in Task : pc'[u] = pc[u] \/ (pc[u] = "sleep_mmap" /\ pc'[u] = "await_mmap")
  BY ThreadMoves
<1>2. /\ th \in [Call -> ThreadPC] /\ address \in [Call -> {"none", "mapped", "error"}]
      /\ Runs(c) /\ \A d \in Call : d # c => th'[d] = th[d]
  BY ThreadAlone DEF IInv, TypeOK
<1>3. PICK t \in Task : /\ c = ThisCall(t) /\ pc[t] \notin {"idle", "start"} /\ Meets(t)
                        /\ \A u \in Task : u # t => pc[u] = "idle"
  BY ThreadAlone
<1>4. result[c] = Pending
  BY <1>3 DEF UnaskedInv, ResultsUnset
<1>5. \A d \in Call : d # c => address'[d] = address[d]
  BY <1>2 DEF ThreadStep, MapInAnalyzer, InitMunmapReady, SignalMmapDone, AwaitMunmapReady, TestMunmapReady,
              Unmap, ExitThread
<1>6. pc[t] \in {"remap", "release", "stop", "join"} => address' = address
  <2>1. CASE MapInAnalyzer(c)
    BY <1>3, <2>1 DEF MapInAnalyzer, Meets, NotYetMapped, Signalled, AtWork, Leaving, Waits
  <2>2. CASE ~MapInAnalyzer(c)
    BY <2>2 DEF ThreadStep, InitMunmapReady, SignalMmapDone, AwaitMunmapReady, TestMunmapReady,
                Unmap, ExitThread
  <2> QED
    BY <2>1, <2>2
<1>7. ImagesNotMapped'
  <2>1. CASE MapInAnalyzer(c)
    <3>1. address'[c] = "none" => kind[c] = "bpf" /\ {"vm_mmap", "copy"} \cap Faults # {}
      BY <1>2, <2>1 DEF MapInAnalyzer
    <3> QED
      BY <1>1, <1>2, <1>5, <3>1 DEF UnaskedInv, ImagesNotMapped
  <2>2. CASE ~MapInAnalyzer(c)
    <3>1. address' = address
      BY <2>2 DEF ThreadStep, InitMunmapReady, SignalMmapDone, AwaitMunmapReady, TestMunmapReady,
                  Unmap, ExitThread
    <3>2. th'[c] \in InMapping \cup {"stopping"} => th[c] \in InMapping \cup {"stopping"}
      BY <1>2, <2>2 DEF ThreadStep, InitMunmapReady, SignalMmapDone, AwaitMunmapReady, TestMunmapReady,
                        Unmap, ExitThread, ThreadGoto, InMapping
    <3> QED
      BY <1>1, <1>2, <3>1, <3>2 DEF UnaskedInv, ImagesNotMapped
  <2> QED
    BY <2>1, <2>2
<1>8. \A u \in Task : pc[u] \in {"remap", "release", "stop", "join"} => address'[ThisCall(u)] = address[ThisCall(u)]
  BY <1>3, <1>6
<1>9. \A d \in Call : result[d] = Unasked => (th[d] = "none" => th'[d] = "none") /\ address'[d] = address[d]
  BY <1>2, <1>4, <1>5, UnaskedIsNoOther
<1> QED
  BY <1>1, <1>7, <1>8, <1>9, UnaskedKept

(* One case for each disjunct of Next. *)
LEMMA UnaskedStep ==
  ASSUME Exclusive, IInv, TurnInv, UnaskedInv, [Next]_vars
  PROVE  UnaskedInv'
<1>1. CASE UNCHANGED vars
  <2>1. UNCHANGED <<pc, kind, calls, asked, result, th, address>>
    BY <1>1 DEF vars, hooks, threads
  <2>2. ImagesNotMapped'
    BY <2>1 DEF UnaskedInv, ImagesNotMapped
  <2> QED
    BY <2>1, <2>2, UnaskedKept
<1>2. ASSUME NEW t \in Task, HookStep(t) PROVE UnaskedInv'
  BY <1>2, HookStepUnasked
<1>3. ASSUME NEW t \in Task, NEW k \in {"mmap", "mprotect", "bpf"}, EnterHook(t, k) PROVE UnaskedInv'
  BY <1>3, EnterHookUnasked
<1>4. ASSUME NEW c \in Call, ThreadStep(c) PROVE UnaskedInv'
  BY <1>4, ThreadStepUnasked
<1>5. ASSUME NEW a \in Analyzer, StartAnalyzer(a) \/ AnalyzerStep(a) \/ Crash(a) PROVE UnaskedInv'
  <2>1. /\ UNCHANGED <<kind, calls, asked, result, th, address>>
        /\ \A t \in Task : pc'[t] = pc[t] \/ (pc[t] = "sleep_ready" /\ pc'[t] = "await_ready")
    BY <1>5, AnalyzerMoves DEF threads
  <2>2. ImagesNotMapped'
    BY <2>1 DEF UnaskedInv, ImagesNotMapped
  <2> QED
    BY <2>1, <2>2, UnaskedKept
<1> QED
  BY <1>1, <1>2, <1>3, <1>4, <1>5 DEF Next

LEMMA InitUnasked == SitesInit => UnaskedInv /\ ClearedInv
<1> SUFFICES ASSUME SitesInit PROVE UnaskedInv /\ ClearedInv
  OBVIOUS
<1>1. /\ \A t \in Task : syscall[t] = "none" /\ outcome[t] = "none" /\ pc[t] = "idle"
      /\ \A c \in Call : result[c] = Pending /\ th[c] = "none"
  BY DEF SitesInit, Init
<1>2. ResultsUnset /\ ImagesNotMapped /\ AskedOrNot
  BY <1>1 DEF ResultsUnset, ImagesNotMapped, AskedOrNot, InMapping, Asking
<1>3. UnaskedExcused
  BY <1>1, UnaskedIsNoOther DEF UnaskedExcused
<1>4. ClearedInv
  BY <1>1 DEF ClearedInv, Progress, ProgressOf, ChangesPassed
<1> QED
  BY <1>2, <1>3, <1>4 DEF UnaskedInv

(***************************************************************************)
(* No protection is changed and no mapping or program handed out but for a *)
(* hook call that the gates let pass, or that asked about it and was told  *)
(* that it is clean: at any place of the loop over the mappings.  The one  *)
(* exception is a call whose thread was not started, whose BPF image was   *)
(* not mapped, or whose pages were not put there: it passes unasked, and   *)
(* the theorem says that nothing else does.                                *)
(***************************************************************************)
THEOREM ChangesAreCleared ==
  ASSUME Exclusive, OneAnalyzer, "pages" \notin Faults
  PROVE  SitesSpec => []ChangedAreCleared
<1>1. SitesInit => UnaskedInv /\ ClearedInv
  BY InitUnasked
<1>2. IInv /\ SitesInv /\ ClearedInv /\ OwnVerdict /\ [SitesNext]_svars => ClearedInv'
  BY ClearedStep
<1>3. IInv /\ TurnInv /\ UnaskedInv /\ [SitesNext]_svars => UnaskedInv'
  BY SitesStep, UnaskedStep
<1>4. IInv /\ SitesInv /\ ClearedInv /\ UnaskedInv => ChangedAreCleared
  <2> SUFFICES ASSUME IInv, SitesInv, ClearedInv, UnaskedInv, NEW t \in Task,
                      syscall[t] = "mprotect" \/ outcome[t] = "ok", NEW v \in 1 .. changed[t]
               PROVE  Cleared(<<t, first[t] + v - 1>>) \/ CouldNotAsk(<<t, first[t] + v - 1>>)
    BY DEF ChangedAreCleared
  <2>1. PICK n : n = first[t] + v - 1
    OBVIOUS
  <2>2. Passed(<<t, n>>)
    BY <2>1 DEF ClearedInv, ChangesPassed
  <2>3. n \in 1 .. calls[t]
    BY <2>1, SiteNumbers DEF ClearedInv, Progress, ProgressOf
  <2>4. <<t, n>> \in Call
    BY <2>3, CallsMade
  <2>5. Cleared(<<t, n>>) \/ CouldNotAsk(<<t, n>>)
    BY <2>2, <2>4 DEF Passed, UnaskedInv, UnaskedExcused
  <2> QED
    BY <2>1, <2>5
<1> QED
  BY <1>1, <1>2, <1>3, <1>4, SitesInvariant, SitesCounted, AnalyzerVerdictIsOwn, RendezvousInvariant, PTL
     DEF SitesSpec
=============================================================================
