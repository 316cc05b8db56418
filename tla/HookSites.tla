----------------------------- MODULE HookSites -----------------------------
(***************************************************************************)
(* The places that call the hooks, composed with the hooks in netlink      *)
(* mode: do_mmap calls its hook when the mapping has been made,            *)
(* do_mprotect_pkey once for each mapping (VMA) of its range, with the     *)
(* whole range, and bpf_prog_load after the program has been compiled.     *)
(* do_mmap and do_mprotect_pkey run with the mmap lock of the process.     *)
(***************************************************************************)
EXTENDS McheckNetlink

CONSTANT MaxVmas       (* mappings in the range of one mprotect            *)

ASSUME HookSitesAssumption == MaxVmas \in Nat \ {0}

VARIABLES
  syscall,    (* syscall[t]: the system call t is in, or "none"            *)
  vmas,       (* vmas[t]: mappings in its range                            *)
  first,      (* first[t]: the hook call of the first of them              *)
  changed,    (* changed[t]: how many of them have the new protection      *)
  outcome     (* outcome[t]: what the last system call returned            *)

sites == <<syscall, vmas, first, changed, outcome>>

SitesInit ==
  /\ Init
  /\ syscall = [t \in Task |-> "none"]
  /\ vmas = [t \in Task |-> 1]
  /\ first = [t \in Task |-> 1]
  /\ changed = [t \in Task |-> 0]
  /\ outcome = [t \in Task |-> "none"]

(* mmap_write_lock of the callers of the page hooks. *)
ProcessUnlocked(t) ==
  \A u \in Task \ {t} : Process[u] = Process[t] => syscall[u] \notin {"mmap", "mprotect"}

(* A system call over n mappings begins and calls its hook. *)
Begin(t, k, n) ==
  /\ syscall[t] = "none"
  /\ k # "bpf" => ProcessUnlocked(t)
  /\ calls[t] + n <= MaxCalls[t]
  /\ EnterHook(t, k)
  /\ syscall' = [syscall EXCEPT ![t] = k]
  /\ vmas' = [vmas EXCEPT ![t] = n]
  /\ first' = [first EXCEPT ![t] = calls[t] + 1]
  /\ outcome' = [outcome EXCEPT ![t] = "none"]

(* The mapping exists before the hook is called. *)
DoMmap(t) ==
  /\ Begin(t, "mmap", 1)
  /\ changed' = [changed EXCEPT ![t] = 1]

DoMprotect(t) ==
  /\ \E n \in 1 .. MaxVmas : Begin(t, "mprotect", n)
  /\ changed' = [changed EXCEPT ![t] = 0]

BpfProgLoad(t) ==
  /\ Begin(t, "bpf", 1)
  /\ changed' = [changed EXCEPT ![t] = 0]

(* The hook has returned zero. *)
HookPassed(t) == pc[t] = "idle" /\ result[ThisCall(t)].clean

Finish(t, how) ==
  /\ syscall' = [syscall EXCEPT ![t] = "none"]
  /\ outcome' = [outcome EXCEPT ![t] = how]
  /\ UNCHANGED <<vars, vmas, first>>

(* if (error) return error; or break; or goto free_prog_sec; *)
Refused(t) ==
  /\ syscall[t] # "none"
  /\ pc[t] = "idle"
  /\ ~HookPassed(t)
  /\ Finish(t, "error")
  /\ UNCHANGED changed

(* mmap and bpf: the mapping is returned, the program gets its number. *)
Succeed(t) ==
  /\ syscall[t] \in {"mmap", "bpf"}
  /\ HookPassed(t)
  /\ Finish(t, "ok")
  /\ changed' = [changed EXCEPT ![t] = 1]

(* Mutant: the loop over the range ends one mapping too late. *)
ChangePastEnd(t) ==
  /\ syscall[t] = "mprotect"
  /\ HookPassed(t)
  /\ changed' = [changed EXCEPT ![t] = @ + 1]
  /\ IF changed'[t] > vmas[t]
     THEN Finish(t, "ok")
     ELSE EnterHook(t, "mprotect") /\ UNCHANGED <<syscall, vmas, first, outcome>>

(***************************************************************************)
(* mprotect: the protection of one mapping is changed, which may fail, and *)
(* the loop goes on with the next one.                                     *)
(***************************************************************************)
ChangeVma(t) ==
  /\ syscall[t] = "mprotect"
  /\ HookPassed(t)
  /\ \/ /\ changed' = [changed EXCEPT ![t] = @ + 1]
        /\ IF changed'[t] = vmas[t]
           THEN Finish(t, "ok")
           ELSE EnterHook(t, "mprotect") /\ UNCHANGED <<syscall, vmas, first, outcome>>
     \/ Finish(t, "error") /\ UNCHANGED changed

SiteStep(t) == Refused(t) \/ Succeed(t) \/ ChangeVma(t)

SitesNext ==
  \/ \E t \in Task : DoMmap(t) \/ DoMprotect(t) \/ BpfProgLoad(t) \/ SiteStep(t)
  \/ /\ \/ \E t \in Task : HookStep(t)
        \/ \E c \in Call : ThreadStep(c)
        \/ \E a \in Analyzer : StartAnalyzer(a) \/ AnalyzerStep(a) \/ Crash(a)
     /\ UNCHANGED sites

svars == <<vars, sites>>

(* The fairness of McheckNetlink; a system call goes on after its hook. *)
SitesFairness ==
  /\ \A t \in Task : WF_svars(HookStep(t) /\ UNCHANGED sites) /\ WF_svars(SiteStep(t))
  /\ \A c \in Call : WF_svars(ThreadStep(c) /\ UNCHANGED sites)
  /\ \A a \in Analyzer : WF_svars(AnalyzerStep(a) /\ UNCHANGED sites)

SitesSpec == SitesInit /\ [][SitesNext]_svars /\ SitesFairness

-----------------------------------------------------------------------------
(* Type invariant of the call sites. *)
SitesTypeOK ==
  /\ syscall \in [Task -> {"none", "mmap", "mprotect", "bpf"}]
  /\ vmas \in [Task -> 1 .. MaxVmas]
  /\ first \in [Task -> Nat \ {0}]
  /\ changed \in [Task -> 0 .. MaxVmas] /\ \A t \in Task : changed[t] <= vmas[t]
  /\ outcome \in [Task -> {"none", "ok", "error"}]

(* The gates let call c pass, or the analyzer found it clean. *)
Cleared(c) == result[c] = Allowed \/ result[c] = [about |-> c, clean |-> TRUE]

(***************************************************************************)
(* The hook of call c returned zero without a verdict, for its thread was  *)
(* not started, or the thread could not map the image of a BPF program, or *)
(* it mapped, and the pages of an mprotect could not be put there.         *)
(***************************************************************************)
CouldNotAsk(c) ==
  /\ result[c] = Unasked
  /\ \/ "kthread" \in Faults /\ th[c] = "none"
     \/ {"vm_mmap", "copy"} \cap Faults # {} /\ kind[c] = "bpf" /\ address[c] = "none"
     \/ "remap" \in Faults /\ kind[c] = "mprotect" /\ address[c] # "none"

(***************************************************************************)
(* No protection is changed, and no mapping or program handed out, but     *)
(* after a hook called for it in the same system call, which the gates let *)
(* pass, or which asked about it, and nothing else, and was told that it   *)
(* is clean; or which could not ask.  The hook fails open there: what      *)
(* nobody was asked about passes when one of these failures has kept this  *)
(* very call from asking, and in no other way.  Without them every change  *)
(* is cleared.  The mapping of mmap counts when it is returned: it exists  *)
(* before.                                                                 *)
(***************************************************************************)
ChangedAreCleared ==
  \A t \in Task :
    syscall[t] = "mprotect" \/ outcome[t] = "ok" =>
      \A v \in 1 .. changed[t] :
        LET c == <<t, first[t] + v - 1>> IN Cleared(c) \/ CouldNotAsk(c)

(***************************************************************************)
(* A system call that enters a hook comes back, through three waits for a  *)
(* thread and an analyzer that wait for the hook in turn.                  *)
(***************************************************************************)
SyscallReturns == \A t \in Task : syscall[t] # "none" ~> syscall[t] = "none"
=============================================================================
