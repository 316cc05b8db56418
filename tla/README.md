# A TLA+ model of the mcheck LSM and its analysis server

The repository patches the Linux kernel with `mcheck`, a security module that
sends the memory behind every `mmap`, `mprotect` and BPF program load of one
program to an analysis server outside the virtual machine, waits for the
server's verdict, and turns it into the result of the hook. In a second mode
(`use_tcp = false`) an analyzer process on the same machine takes the place of the
server. This directory holds a formal model of both: TLA+ modules, TLC configurations that check them on small
instances, and proofs of the results that do not depend on the size of an
instance.

The LSM exists as the series `src/custom_patches/0001 ... 0027`. A definition is
taken from the last patch that touches the function, and `PROJECT.json` names
the lines of that patch. Below, `p/0025:133` stands for line 133 of
`src/custom_patches/0025-*.patch`, and `server:260` for line 260 of
`src/test-app/tcp-server/src/tcp_server.cpp`.

## 1. Inventory

### The page walk (`collect_pages`, `handle_hole`, `grow_page_array`, `flush_accumulated_pages`)

- *State*: a `struct walk_ctx`: an array of pages that doubles when it is full,
  the number of pages in it, a flag for a failed allocation and the header
  (`struct mapping_info`) of the message under construction.
- *Operations*: visit one page-table entry; visit a range without a table; flush
  the accumulated pages as one message; the last flush, which marks the end.
- *Interaction*: called by `send_pages_to_userspace_tcp` through
  `walk_page_range`; calls `lsm_send_to_userspace_tcp` twice for each message.
- *Hard behaviour*: one offset, set by the first page of a batch, locates all of
  them, so that every entry that interrupts a run must flush; three allocations
  may fail, each with its own consequence; every page holds a reference.
- *Correct when*: each present page leaves once, in place and in order, or its
  loss is visible; references balance; the array is never overrun; the end mark
  comes last.

### The LSM hooks in TCP mode (`mcheck_custom_mmap_hook`, `mcheck_custom_mprotect_hook`, `mcheck_bpf_prog_load`)

- *State*: two globals shared by all tasks, `sock` and `analyzer_response`, with no
  lock of their own. The callers of the page hooks hold the mmap lock of their
  process; the BPF hook is called with no lock.
- *Operations*: connect on demand, test the mapping and the task, walk, send,
  receive, copy the answer into `analyzer_response`, return it.
- *Interaction*: the server, over one TCP connection without sequence numbers;
  each other, through the two globals.
- *Hard behaviour*: tasks of different processes interleave between the two
  sends of a message, between the test of `sock` and its assignment, and between
  storing and returning a verdict; a wait may be interrupted; the machine may be
  restarted at any time.
- *Correct when*: a hook returns the verdict on its own mapping, after that
  mapping has been dumped, and returns at all.

### The analysis server (`tcp_server`)

- *State*: for the one client it serves, `root_buf`, `current_mapping_size`, the
  header read last and the part of its payload read so far; the dump files.
- *Operations*: accept, read a header, allocate, read the payload, dump, answer,
  free, drop the client.
- *Hard behaviour*: one client at a time; nothing in the stream tells a header
  from a payload; the buffer is kept by hand from message to message; a client
  may vanish anywhere.
- *Correct when*: a payload stays inside its buffer, a dump holds the pages of one
  mapping only, each end of a mapping is answered once, and the next client is
  served.

### The TCP client of the kernel (`_tcp_connect`, `_tcp_send`, `_tcp_recv`)

- *State*: the `kvec` of the call, that is the rest of its buffer, and counts kept
  in an unsigned `size_t`.
- *Hard behaviour*: short writes, interrupted waits, errors that turn into large
  counts, and a receive loop that asks the receive queue, not its buffer,
  whether it is done.
- *Correct when*: every byte is moved once, four bytes are reported only if they
  arrived, and the call returns.

### The performance ring (`/dev/lsm_perf`)

- *State*: a circular buffer with a head and a tail, under the spinlock `perf_lock`.
- *Operations*: `perfchar_write` from the instrumentation of any hook,
  `perfchar_read` from the collecting process.
- *Hard behaviour*: wrapping of both indices, and a head that runs over the tail.
- *Correct when*: a reader gets the newest bytes, once and in order.

### The netlink mode of the hooks and the analyzer process (`analyzer.c`)

- *State*: `analyzer_task`, registered by the first message of an analyzer; one global
  `analyzer_response`; three global completions, `analyzer_ready`, `analyzer_mmap_done`
  and `analyzer_munmap_ready`; for each call a kernel thread, its `analyzer_data`, and a
  reference of the analyzer's memory; the analyzer's mappings and its mmap lock.
- *Operations*: a hook starts a thread, which maps memory into the analyzer and signals;
  the hook sends the address to the analyzer by netlink multicast, waits for the answer,
  tells the thread to unmap, stops and joins it, and returns the answer.
- *Interaction*: hook, thread and analyzer wait for each other in a ring, through
  completions that are initialised anew by each call.
- *Hard behaviour*: nothing in an answer says which call it belongs to, or that it is no
  registration; every wait is without a timeout; many paths return early.
- *Correct when*: what a thread uses outlives it, the analyzer reads only what is mapped,
  a hook returns its own verdict, and references and locks are given back.

### The call sites of the hooks (`do_mmap`, `do_mprotect_pkey`, `bpf_prog_load`)

- *State*: what the system call has changed so far.
- *Operations*: call the hook after the mapping was made; once for each VMA of an
  mprotect, with the whole range; after a program was compiled.
- *Hard behaviour*: a rejection, or a failure, in the middle of the range.
- *Correct when*: whatever takes effect was cleared by a hook called for it, and the
  system call comes back.

### The rest

| Part | Why it is not modelled |
| --- | --- |
| `filter-wx` | three seccomp rules and an `exec`, no state |
| sample scripts under `src/malware` | the input of the experiments: JavaScript that is run in the virtual machine to make a JIT compiler map memory; no behaviour of the LSM or the server is defined there |
| YARA matching, data set scripts, plots, measurement programs | text, subprocesses and sequential drivers |
| test module, Makefiles, kernel configurations, start of QEMU | build and start-up |

`PROJECT.json` lists all of them under `components`, and under `hazards` the places
where this code can go wrong in a way that a test would hardly reach.

## 2. Modules

| Module | What it models |
| --- | --- |
| `PageWalk` | one call of `send_pages_to_userspace_tcp`, from `walk_page_range` to the last flush |
| `SparseCopy` | what such a walk promises: runs of pages leave in order, then the transfer is closed |
| `PageWalk_proofs` | safety of the walk and its refinement of `SparseCopy`, for every length and every array |
| `TcpServer` | the server and the TCP connections |
| `McheckTcp` | extends `TcpServer` by the tasks in the hooks, `sock`, `analyzer_response` and restarts |
| `McheckTcp_proofs` | types and buffer bounds of both, for any tasks, processes and connections |
| `McheckTcpFraming_proofs` | the stream of one process: one socket, whole messages, dumps of one mapping |
| `McheckTcpVerdict_proofs` | the verdicts of one process: after the dump, on the caller's own mapping, nothing left over |
| `McheckNetlink` | the hooks in netlink mode, their kernel threads, the completions and the analyzers |
| `HookSites` | extends `McheckNetlink` by the system calls that call the hooks |
| `McheckNetlink_proofs` | types, and that no kernel thread outlives its data, for both |
| `McheckNetlinkTurn_proofs` | the netlink mode of one process: own verdicts, the meetings of hook and thread, nothing left behind |
| `TcpSocket` | one call of `_tcp_send` or `_tcp_recv`, in bytes and with the width of `size_t` |
| `TcpSocket_proofs` | safety of the two loops, for every buffer length and width |
| `PerfRing` | the ring |
| `PerfRing_proofs` | safety of the ring, for every size of ring and record |
| `MCPageWalk`, `MCMcheckTcp`, `MCHookSites`, `MCTcpSocket`, `MCPerfRing` | the instances for TLC |

Definitions whose comment begins with "Mutant" are broken variants of the
definition that follows them. They are not part of a specification; replacing the
definition by them makes the property that `PROJECT.json` pairs with it fail.

### How `PageWalk` corresponds to the code

The page table is a function from page numbers to five kinds of entry: those that
`collect_pages`, `collect_pmd` and `handle_hole` tell apart. `pages` is
`ctx.pages[0 .. ctx.count-1]`, so that `ctx.count` is its length; `capacity`,
`memory_error`, `mapped_addr` and `is_end_of_mapping` are the fields of that name.
`CollectPage`, `SkipEntry`, `GrowAndCollect`, `GrowFails` and `AbortWalk` are the
ways through `collect_pages` and `grow_page_array`; `HandleHole` is the callback
for a missing table, which may cover any number of pages; `FinalFlush` is the flush
after the walk. `SendBatch` has the three outcomes of `flush_accumulated_pages`:
nothing to do, sent, or dropped because `vmap` or `kmalloc` failed. `dropped` is a
history of the pages lost in the third way and `page_refs` counts references.

### How `TcpServer` and `McheckTcp` correspond to the code

A connection carries *cells*: a header or one page. The server reads a header in
one step and a payload page by page, since `recv` may return any part of it.
`phase` is the place in the two loops of `main`. Each cell and each answer carries
the hook call it belongs to. The program does not have this information; no guard
reads it, except where the server in phase `garbled` answers. It is what lets a
property say "its own verdict".

If the server meets a page where a header is due, or the reverse (`LoseFraming`), it takes
any bytes for a header from there on. It then allocates what the bytes say, tests
`mapped_addr + len` in unsigned arithmetic, receives, dumps and answers (`server:204-263`).
In phase `garbled` the model follows what of this others can see: messages that are dumped and
answered, several for one cell (`GarbledGoesOn`), a header that is refused
(`GarbledRefused`), and the end of the process by a signal, also because the sum has wrapped
and a payload was received outside the buffer (`SumWraps`, `GarbledKilled`). It does not follow
the buffer, the size and the header of such a server, so that no property claims anything
of them there. `InBounds` is the guard at `server:236` with its wrap-around, modulo `Word`.

An answer to a
client that is gone is swallowed, or fails and ends the connection (`AnswerFails`); a second
one may kill the server, which handles no `SIGPIPE` (`KilledByAnswer`).

`pc[t]` is where a task is in its hook. The places between which other tasks may
come are kept apart: test of `sock` and connecting (`p/0016:85-92`), the header and
the payload (two calls of `_tcp_send`, each reading `sock`), receiving, storing and
returning the verdict. `sk[t]` is the socket a call of `_tcp_send` or `_tcp_recv` was given: it is
taken from `sock` once for each, however long the call then waits. `MmapLockFree` is the mmap lock of a process, taken by the
callers of the page hooks and not by the BPF hook. The messages of a mapping are
drawn from its set of present pages by maximal runs, as `PageWalk` sends them
(`RunsAreMaximal`), with its failure cases `GrowFails`, `FlushAborted` and the lost
flush. Errors of `_tcp_send` that keep its loop running appear as `pc = "spin"`, a
`NULL` socket as `"oops"`.

`Reboot` stops QEMU and starts it again, in the middle of anything, as `run_safe.sh` does:
the host closes the connections of the machine, and any prefix of what it had sent may
still reach the server. A machine that reboots inside a running QEMU, which may keep the
old connection open in front of the new one, is not modelled.

### How `McheckNetlink` and `HookSites` correspond to the code

`pc[t]` is where a task is in `mcheck_custom_mmap_hook`, `mcheck_custom_mprotect_hook` or
`mcheck_bpf_prog_load`, which `kind` tells apart. `th[c]` is where `mmap_analyzer_thread` of
call `c` is, and `address[c]` what it left in `data->address`: nothing, an address, or an
error of `vm_mmap`, which the code takes for an address. A completion is a count with the
queue of those who sleep in it; `complete` wakes the first, who tests the count again, and
`init_completion` forgets the sleepers without waking them, since that is what initialising
the queue head does. `kthread_stop` wakes a thread in the same sleep
(`StopThread`, then `TestMunmapReady`). A thread that is stopped before it has run ends without
running.

`StartAnalyzer` sends the process id of an analyzer, which `lsm_receive_reply` takes for a
registration if there is none yet and for a verdict otherwise. `Analyze` and `Reply` are
`message_handler`. As in the TCP mode, a verdict carries the call it is about, which the
program does not know. `Gates` are the tests at the head of each hook. A hook that passes its gates and then
returns zero without having asked the analyzer returns `Unasked`, which is the same zero to the
caller as `Allowed` and is told apart for the sake of `ChangedAreCleared`: the hooks let a call pass if
`kthread_run` fails (`p/0018:713`), if `remap_pfn_range` fails, or if the thread could not map the image
of a program (`p/0018:728-733`, `p/0018:1038-1041`). Everything that may fail is an element of `Faults`; an early return
that leaves a thread, a reference (`mm_refs`) or the analyzer's lock (`lock_kept`) behind does
so in the model. The BPF hook has no gate for the task and no lock.

`HookSites` puts the system calls around the hooks. `first[t]` is the number of the first
hook call of a system call, `changed[t]` how many VMAs it has changed. `do_mmap` has made
its mapping when it calls its hook, and returns an error over it after a rejection.

### How `TcpSocket` and `PerfRing` correspond to the code

`TcpSocket` is one call, with the loop of `_tcp_send` or `_tcp_recv`. Sums with the
unsigned counts are taken modulo `2^Width`. The network delivers a 4 byte answer at
once, and may break.

In `PerfRing` bytes are numbered by the order in which they were written, so that the
content of the ring says which bytes survived. Both calls hold the spinlock
throughout and are one step each.

## 3. Runs

| Run | Configuration | States | What it asks |
| --- | --- | --- | --- |
| `page_walk` | `MCPageWalk` | 41 thousand | the invariants of the walk and its refinement of `SparseCopy` |
| `target` | `MCTarget` | 193 thousand | two threads of the target, restarts, and failures to connect and to allocate |
| `faults` | `MCFaults` | 26 thousand | failures inside the walk, interrupted waits, page and BPF hooks of one task, and a server without memory |
| `race` | `MCRace` | 889 thousand | tasks of two processes without a lock, a restart, and `popen` failing |
| `netlink` | `MCHookSites` | 62 thousand | two threads of one process in mmap and mprotect, one analyzer, and failures before it is asked |
| `netlink_race` | `MCNetlinkRace` | 1.2 million | two threads, one also loading BPF programs, two analyzers that may die, lost messages and failing mappings |
| `tcp_socket` | `MCTcpSocket` | 8 thousand | both socket loops with short writes, signals, a second answer, a broken link |
| `perf_ring` | `MCPerfRing` | 4 thousand | wrapping and overrunning the ring |
| `sparse`, `race_verdict`, `tcp_socket_error`, `perf_ring_full` | | | the disagreements of section 6 |

What they show:

- **page_walk.** Whatever the page table holds and whichever allocation fails, the
  batch is a run (`BatchIsRun`), every message locates its pages (`PagesInPlace`), no
  page is lost silently or sent twice (`EveryPageAccounted`), references balance
  (`RefsMatchBatch`), the array is large enough (`ArrayHoldsBatch`), and the end mark
  comes last (`WholeMappingAtEnd`).
- **target.** As long as the target is one process, whose mmap lock orders its
  threads, and BPF programs are not loaded, the protocol works although neither side
  numbers its messages: the framing is kept, every verdict belongs to the call that
  returns it and comes after its dump, nothing is left over between calls, the socket is made once, every hook
  returns, and a machine that was restarted in the middle of a message is served
  without inheriting anything from its predecessor.
- **faults.** Failures of one task lose verdicts or delay them to the next call,
  but a dump still holds pages of one mapping only and a verdict on one's own
  mapping still follows its dump. `OwnVerdict` and `QuietBetweenCalls` are
  deliberately not among the properties: after a signal they do not hold, because
  the answer arrives for the next call (`p/0013:151`).
- **race.** With two processes the stream is garbled, and a restart may end the server
  by two answers to the old machine. The types hold throughout. What is read into the buffer and
  dumped from it stays inside it while the stream is framed, and again for the next client
  (`PayloadFits`). Of a stream whose framing is lost nothing of the kind is claimed: its headers are
  arbitrary, and the test of their sum may wrap (section 6).
- **netlink.** While the threads that call are of one process and the analyzer runs, the
  three waits do not lock up (`SyscallReturns`), the analyzer reads only what is mapped for
  the call it answers (`MappedWhenAnalysed`), and a protection is changed, or a mapping
  returned, only if the gates let that very call pass, or the analyzer was asked about it and found
  it clean, or a failure kept the hook from asking (`ChangedAreCleared`, `OwnVerdict`). The third case is
  how the hooks are written, to fail open; `CouldNotAsk` names the failures, requires that one of them
  happened to this very call, and is empty without them. A
  rejection at the second VMA of an mprotect leaves the first one changed, but that one had
  its own clearance. `ReferencesReturned` names the two paths that lack an `mmput` and shows that,
  with the faults of this run, the page hooks have no third one. (Page pinning that fails is
  another: the hook returns without its thread, and without `mmput`.) `AnalyzerUnlocked` shows that the return with the lock
  held (`p/0020:159`) needs a mapping that is not the thread's own.
- **netlink_race.** With a BPF hook, which takes no lock, beside the page hooks, with dying
  analyzers and lost messages, verdicts are mixed up and hooks wait for ever: none of the properties of `netlink` is checked here, since
  most do not hold. What does hold is that no thread meets freed data or memory without a
  reference (`ThreadKeepsItsData`): the paths that do not join their thread free nothing.
- **tcp_socket.** Short writes and interruptions lose and repeat nothing, and a
  return value of 4 means an answer. A call returns as long as the link holds and no
  second answer arrives; with two answers in the queue `_tcp_recv` does not return,
  which is why `QuietBetweenCalls` matters.
- **perf_ring.** What can be read is what was written last, and reads only move
  forward, also after an overrun that hides more than it should (section 6).

## 4. Bounds

- *Page walk*: five entries, all 5^5 tables; an array of two slots. The array grows
  twice, a run may be split by a failed allocation before, at and after the growth,
  and every kind of entry occurs before, between and behind runs.
- *Tasks*: two tasks, one or two processes, one or two calls for each. Two calls
  show what one call leaves to the next; two tasks show every conflict over the two
  globals.
- *Mappings*: up to three pages, in the shapes that the walk tells apart: empty, one
  run that reaches the end, one that does not, two runs. The runs with many
  interleavings use two of them.
- *Connections*: two, and one restart. A third connection would wait behind the
  second as the second does behind the first.
- *Misread streams*: `Word`, the values of an unsigned long, is 7, just more than the largest sum
  of a genuine header, so that only misread ones wrap; `MaxMisread` is 2, messages
  found in one misread cell: two answers at once are what a next call has not asked for.
- *Netlink mode*: two tasks and up to two calls; two VMAs, so that one can be changed
  before the other is rejected; two analyzers in `netlink_race`, so that one registration meets
  another. A completion wakes one waiter at a time, so two tasks are enough for one to take the
  other's wake-up. Both are threads of one process: a BPF hook interleaves with a page hook as a page
  hook of another process would, and the theorems are about any processes. The analyzers are symmetric (`AnalyzerSymmetry`), the tasks are not.
- `SendBuffer` is 2, less than a message with its payload, so that a sender has to
  wait in the middle of one.
- *Socket loops*: a `size_t` of 10 bits. It is larger than every error number and
  buffer used, so the wrap-around is that of the real width.
- *Ring*: 7 bytes, records of up to 3, reads of up to 8, 24 bytes in all: more than
  three times round, at every alignment.

`CHECK_DEADLOCK FALSE` appears in every configuration: a walk ends, tasks use up
their calls, a server with no client waits, and a spinning or crashed task stops.
That a hook or a system call comes back is stated as a property instead, `HookReturns` and
`SyscallReturns`.

## 5. Fairness

- `McheckTcp`: weak fairness for each task that is inside a hook (the scheduler runs
  a task that can go on) and for the server (a process that does nothing else).
  Entering a hook, a restart and a fault are never forced; a fault is an alternative
  to the step that would have succeeded, never the only way on. Weak fairness is
  enough, because a task that can send or receive stays able to do so until it does:
  the threads of one process do not compete for the socket.
- `McheckNetlink` and `HookSites`: weak fairness for each task in a hook, each kernel thread and
  each running analyzer, all of which the scheduler runs when they can go on; and a system call
  goes on after its hook. Calls, starts and deaths of analyzers are never forced, and `netlink`
  has none of the faults after which a hook waits for ever by what the code says: a lost
  message, a failing answer, a dead analyzer.
- `TcpSocket`: weak fairness for the loop and for the first answer, since `CallReturns`
  is about a server that answers. Signals, further answers and failures are not fair.
- `PageWalk` and `PerfRing` claim safety only.

## 6. Where code and comments disagree

| Run | Disagreement |
| --- | --- |
| `sparse` | The server frees its buffer after every message (`server:260`), so that a mapping sent in two runs is dumped with the last one only. Commit 0022 announces the reconstruction of sparse memory. |
| `race_verdict` | Two processes with the target's name share `sock` and `analyzer_response` without a lock, and one returns the verdict on the other's mapping. |
| `tcp_socket_error` | `wb` is unsigned, so `RET(wb < 0, ...)` never returns, and the loop continues with a longer buffer after an error. |
| `perf_ring_full` | A record that carries the head *past* the tail does not move the tail, and the ring then offers only the part between them: new data disappears where the comment promises to overwrite old data (`p/0018:1235`). |

Seen while modelling, without a run of their own: if `vmap` or the `kmalloc` of the header fails
in the last flush, no message leaves, although the comment calls it the mark of the end of
transmission (`p/0023:42`, `p/0024:88`), and server and hook keep waiting; and
`send_bpf_data_tcp` does not test `target_comm` (`p/0025:260`), whose description grants the
socket to that program only (`p/0026:34`). The comment on the test of a payload's bounds says that it
ensures that nothing is written out of bounds (`server:235`); the sum in it is unsigned and can
wrap, though only for a header that no hook has sent, as the server may read one from a stream whose
framing is lost.

## 7. What is proved

TLAPS checks the following for every value of the constants, under the named
assumptions on constants only: `PageWalkAssumption`, `PerfRingAssumption`,
`TcpServerAssumption`, `McheckTcpAssumption`, `McheckNetlinkAssumption`, `HookSitesAssumption`
and `TcpSocketAssumption`. Each is evaluated by the runs of its module.

Some properties only hold for hooks that run one at a time, and `race` and `netlink_race` show
what happens otherwise. Their theorems have this as a hypothesis of their own, `Exclusive`:
any two tasks that may be in a hook are threads of one process, whose mmap lock orders them,
and neither loads BPF programs, since that hook takes no lock; or there is a single task, which
may do both. It restricts constants only. That one hook is at work at a time is then *proved*
(`OneHook`), from the lock that the page hooks test when they are entered. `MCTarget`,
`MCFaults` and `MCHookSites` satisfy it. The further hypotheses are faults that do not occur;
each one below is there because the theorem is false with it.

**The walk** (`PageWalk_proofs`). `TypeCorrect` is inductive by itself. For the rest the
invariants that the runs check are not inductive: that a flushed message is in place
needs to know that the batch was a run, which needs to know where the walk stands;
that pages are not repeated needs the order of messages *and* that the batch lies
behind all of them, and that references balance needs the batch to have no page twice.
They support one another, so `IInv` is their conjunction, with `BatchIsRun` as its
core: the batch is an interval of present pages that ends at `addr`.
`Invariant` proves it; `ArrayNeverOverrun`, `MessagesLocatePages`, `NoPageLostOrRepeated`,
`ReferencesBalanced` and `WalkComplete` follow. The lemmas `SendBatchEffect`, `FlushEffect`
and `AppendEffect` say what the helpers of the code do to these facts, and `StepInvariant`
has one step for each action. `PutRun` shows that the `put_page` loop undoes one
reference for every page of a run, which rests on a run having no page twice.

`WalkImplementsCopy` proves the refinement: a flush is a `HandleRun` of the batch (a
stutter if it is empty), the last flush is `Close`, and all other steps stutter. The
guard of `Close`, all pages handled unless the caller is told, comes from `IInv`.

**The ring** (`PerfRing_proofs`). `UnreadIsNewest` alone is not inductive, because an overrun
changes how much of the ring counts as unread. `IInv` says more: the *whole* buffer, read
backwards from the head, holds the newest bytes (`HoldsNewest`), whatever the tail is; and
what counts as unread was written and is newer than what was delivered. The second part
survives an overrun because a write, wherever it leaves the tail, raises the number of unread
bytes by at most its own length. `ModForward` and `ModBackward` replace `%` by the one case
distinction it stands for. `TypeCorrect`, `UnreadBytesNewest` and `ReadsForward` follow.

**Whole runs** (`RunsLeaveWhole`). That a message holds *all* pages up to the next gap needs to
know that a batch *begins* behind a gap, which no other part of the invariant says:
`RunBegins` does, as long as no allocation has failed. The hooks' model draws its messages by
maximal runs and so rests on this theorem.

**The TCP mode** (`McheckTcp_proofs`). `PayloadFits` depends on a check made when a header
arrived and on two variables kept by hand. Its strengthening says when the buffer exists and
that its length is that of the header in use (`BufferInUse`); connections in the backlog must be
open and different (`BacklogOpen`), or the server would accept one that it had closed. The hooks
contribute the types of what they send: a task in a hook has made a call, and a run
of pages fits the mapping. The latter rests on `MinOf`, that a set of pages has a first
one, for which the initial segments of the set are compared by inclusion. No lock and no
order of messages is used, so that `PayloadStaysInBuffer` is about any tasks and processes. It speaks
of the server as long as the stream is framed. What it says beyond a garbled stream is that the
client which lost the framing leaves nothing behind for the next one.

**The netlink mode** (`McheckNetlink_proofs`). `ThreadKeepsItsData` follows a call through its
whole life: a call to come has no thread, a hook at work has its data and reference, the data is
freed only where the thread has ended or never started. The rest of the invariant
is about wake-ups: who waits in a completion is asleep there, and once, so that a wake-up
meant for another cannot take a task or thread anywhere but to the test of the count.
`SitesInvariant` lifts this to the system calls, which call the hooks as the task itself does.

**The stream of one process** (`McheckTcpFraming_proofs`, all under `Exclusive`). `LinkInvariant` says
that one hook is at work, that all tasks use one socket, and that its connection is accepted,
in the backlog, or closed by the server. `SocketIsKept` follows: nobody stores a socket between
another's test of `sock` and its store. `FramingKept` is about the next cell the server reads, and
its strengthening about all cells under way: what waits in a connection, followed by what the one
hook has not sent yet (`InFlight`), continues the message the server is in (`Framed`), and no
message is cut short on the connection in use (`Whole`). A restart or a failed send cuts a
message, but then the connection carries no more after it, which is why `Framed` allows the last message to be
short and `Whole` does not speak of connections that are given up. `BufferFilled` adds that what has been
read are the pages of the header in use; `StreamStaysFramed` and `DumpsHoldTheirOwnPages`
follow, for every fault of kernel and server.

**The verdicts of one process** (`McheckTcpVerdict_proofs`). `DumpBeforeVerdict` follows each message that
ends a mapping: whoever made the call has all its pages in that message if its mapping is one run, and an
answer to a call is given after the dump. Answers may be late and go to the next hook; the theorem
does not mind, since it is about hooks that return the verdict of their own call. Without `popen` the
server answers and has dumped nothing, so that `"popen"` must not be among the faults. `VerdictIsOwn` and
`NothingLeftOver` rest on `TurnInvariant`, which lists for each place of the hook what of its
messages and of the answer can be under way. Two faults break it, and are excluded: an interrupted wait
leaves the answer for the next hook (`p/0013:151`), and an aborted walk returns its error
without reading the answer. Connections may fail and break, messages may be lost for lack of
memory, and the server may do what it likes within its program.

**The netlink mode of one process** (`McheckNetlinkTurn_proofs`). Two independent invariants. *The question*
(`AnswerInv`, with one analyzer): the message of the hook that waits is lost, or in the inbox, or in
work, or answered by the one count in `analyzer_ready`, and when no hook waits there is no message and no
answer. It holds with every fault, a dying analyzer included, because a hook whose message or answer is
lost waits for ever, and holds the lock that keeps the next one out. `AnalyzerVerdictIsOwn`
follows. A second analyzer is excluded since its registration counts as an answer.

`ChangesAreCleared` needs two more parts. `ClearedInv` counts the progress of the system call: however
often an mprotect calls its hook, each VMA it has changed was passed by the call made for it. `UnaskedInv`
says why a hook returns `Unasked`: only the image of a BPF program is ever not mapped (`ImagesNotMapped`), a
hook on its way out has either asked or could not (`AskedOrNot`, `Unaskable`), and so every `Unasked`
that was returned has its reason, `CouldNotAsk` (`UnaskedExcused`). The
hypotheses are one analyzer, hooks that run one at a time, and pages that can be pinned, since
a thread left behind (see below) can wake the next hook before its own thread has mapped, which then
returns zero without having asked, and without any of the named failures.

*The rendezvous* (`TurnInv`): where the hook and its thread can be at the same time (`NotYetMapped`,
`Signalled`, `AtWork`, `Leaving`), what the completions hold there, and that a thread that has ended its
work leaves both empty. Only one fault breaks it, `"pages"`, after which a hook returns and leaves a thread that
will signal to the next one. From it: `NothingIsLeft`; `AnalysedWhileMapped`, a property of steps, which in
addition needs mappings that succeed, since an error of `vm_mmap` is sent to the analyzer as an address;
`AnalyzerLockReturned`, since the return that keeps the lock needs a `find_vma` that does not
find the thread's mapping; and `HooksReturnReferences`, where a BPF image that is not
mapped would keep a reference too, so that this must not happen or no programs may be loaded (`BpfMaps`).

**The socket loops** (`TcpSocket_proofs`). The vector of a send starts after the last byte sent as
long as the connection holds; after an error the counts wrap, but nothing is sent any more. A
receive either waits, with an untouched vector, or has taken one whole answer; it never ends
with a part of one, since the network brings four bytes at once. `ModSmall` and `ModError`
say what `%` does to a count that fits and to an error.

**Only model-checked**: the liveness properties (`HookReturns`, `NextClientServed`, `SyscallReturns`,
`CallReturns`), since liveness under fairness is beyond the prover. Every invariant and every
action property that a passing run checks is also the conclusion of a theorem; where the
theorem has hypotheses on faults, they hold in the run that checks the property.

## 8. What is left out, and the plan

Left out of the modelled parts: names and arguments in the header, file names of dumps,
debug messages, `-EINVAL` for an empty range, the character device used to test the socket,
the instrumentation functions that produce the ring's records, and a `copy_to_user` that
faults, which changes nothing. Locks of the page table, page faults and the scheduler are
outside the model, so that sleeping under a lock (two entries of `hazards`) is not visible.

Of a server that reads a misaligned stream only the visible effects are modelled, as section 2 says.

In the netlink mode `vm_mmap`, the copy of a BPF image and the reset of `data->address` are one step
(`MapInAnalyzer`). A hook that another thread's signal has woken too early could see the address of an
image between them; no property depends on it, since `ThreadKeepsItsData`, which holds with
several processes, says nothing of addresses, and with one process nobody else signals. The contents of pages and dumps are left out, so that a short
`get_user_pages` makes no difference; a dead analyzer's task structure is kept, where the code
holds no reference of it; `find_vma` fails or finds other memory only as `Remap` says; and a
netlink message without its attribute, which the handlers ignore, is the same as a lost one.

The samples in `src/malware` are the only JavaScript of the repository. They are data to the
system modelled here, and no definition is mapped to them.

Order of work: the walk came first because everything else relies on its messages; then
the server and the hooks, where the interleavings are; then the socket loops that both use;
then the ring, which stands alone; then the netlink mode with the call sites around it. What
could still be added:

1. `HookSites` over the hooks in TCP mode, whose call sites are the same, and with it `ChangedAreCleared`
   for that mode.
2. An abstract specification of an exchange, call and verdict in one step, that both modes implement
   when hooks run one at a time: `TurnInv` of either mode is most of its proof.
3. A predicate for the three rules of `filter-wx`.
