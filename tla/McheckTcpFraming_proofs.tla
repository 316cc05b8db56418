----------------------- MODULE McheckTcpFraming_proofs -----------------------
(***************************************************************************)
(* The byte stream of the TCP mode when hooks run one at a time: it is cut *)
(* into messages where the hooks began them, whatever fails and wherever a *)
(* restart ends it.                                                        *)
(***************************************************************************)
EXTENDS McheckTcp_proofs

HookTask == TargetTask \cup BpfTask

(***************************************************************************)
(* Hooks run one at a time: the tasks that may send are threads of one     *)
(* process, ordered by its mmap lock, or there is only one of them.        *)
(***************************************************************************)
Exclusive ==
  \A t, u \in HookTask :
    t # u => Process[t] = Process[u] /\ t \notin BpfTask /\ u \notin BpfTask

-----------------------------------------------------------------------------
(* One hook is at work, and holds the mmap lock if it is a page hook. *)
OneHook ==
  /\ \A t \in Task : pc[t] # "idle" => t \in HookTask /\ (kind[t] = "bpf" => t \in BpfTask)
  /\ \A t, u \in Task : pc[t] # "idle" /\ pc[u] # "idle" => t = u

(* The socket exists from the connection to the restart; all use this one. *)
SocketInUse ==
  /\ \A t \in Task : pc[t] = "connecting" => sock = NoConn
  /\ \A t \in Task : pc[t] \notin {"idle", "connect", "connecting"} => sock # NoConn
  /\ \A t \in Task : pc[t] # "oops" /\ sk[t] \in {NoConn, sock}
  /\ \A t \in Task : pc[t] \in {"recv", "drain"} => sk[t] = sock
  /\ \A t \in Task : out[t] # <<>> => pc[t] \in {"send", "spin"}

InBacklog(c) == \E k \in 1 .. Len(backlog) : backlog[k] = c

(* A connection that has not been made carries nothing. *)
Untouched(c) ==
  /\ c \notin closed /\ c # sock_client /\ ~InBacklog(c)
  /\ up[c] = <<>> /\ down[c] = <<>>

Connections ==
  /\ sock # NoConn => /\ sock \notin hungup
                      /\ sock \in closed \/ sock = sock_client \/ InBacklog(sock)
  /\ \A c \in Conn \ hungup : c # sock => Untouched(c)
  /\ \A c \in closed : up[c] = <<>>

LinkInv == OneHook /\ SocketInUse /\ Connections

(* No hook is at work before the first call. *)
LEMMA LinkInit == Init => LinkInv
BY TcpServerAssumption
   DEF Init, ServerInit, LinkInv, OneHook, SocketInUse, Connections, Untouched, InBacklog

(* While a task is in its hook all others are outside theirs. *)
LEMMA OthersIdle ==
  ASSUME OneHook, NEW t \in Task, pc[t] # "idle", NEW u \in Task, u # t
  PROVE  pc[u] = "idle"
BY DEF OneHook

(***************************************************************************)
(* A hook begins only when no other is at work: a page hook finds the mmap *)
(* lock free, and a task that loads programs has no other beside it.       *)
(***************************************************************************)
LEMMA EnterAlone ==
  ASSUME Exclusive, IInv, OneHook, NEW t \in Task, t \in HookTask, pc[t] = "idle",
         MmapLockFree(t) \/ t \in BpfTask, NEW u \in Task
  PROVE  pc[u] = "idle"
<1> SUFFICES ASSUME pc[u] # "idle" PROVE FALSE
  OBVIOUS
<1>1. u \in HookTask /\ u # t /\ (kind[u] = "bpf" => u \in BpfTask)
  BY DEF OneHook
<1>2. Process[t] = Process[u] /\ t \notin BpfTask /\ u \notin BpfTask
  BY <1>1 DEF Exclusive
<1> QED
  BY <1>1, <1>2 DEF MmapLockFree

(* A hook that goes on, or returns, is still the only one. *)
LEMMA HookGoesOn ==
  ASSUME IInv, OneHook, NEW t \in Task, pc[t] # "idle", NEW w \in PC,
         pc' = [pc EXCEPT ![t] = w], kind' = kind
  PROVE  OneHook'
BY DEF IInv, HooksOK, OneHook

(* Nothing of the connections changes. *)
LEMMA ConnectionsKept ==
  ASSUME Connections, UNCHANGED <<network, server, sock>>
  PROVE  Connections'
BY DEF Connections, Untouched, InBacklog, network, server

(* Steps of a hook that leave the network alone. *)
LEMMA QuietLink ==
  ASSUME IInv, LinkInv, NEW t \in Task,
         \/ TestSock(t) \/ ConnectFails(t) \/ PassGates(t) \/ StopAtGates(t)
         \/ FlushNextRun(t) \/ GrowFails(t) \/ FlushAborted(t)
         \/ NullSock(t) \/ SendOnClosed(t) \/ MessageSent(t)
         \/ StopReceiving(t) \/ RecvNothing(t) \/ ReturnVerdict(t)
  PROVE  LinkInv'
<1> USE DEF globals
<1>1. /\ OneHook /\ SocketInUse /\ Connections /\ pc \in [Task -> PC]
      /\ out \in [Task -> Seq(Cell)] /\ sk \in [Task -> Conn \cup {NoConn}]
  BY DEF LinkInv, IInv, HooksOK
<1>2. pc[t] # "idle" /\ UNCHANGED <<network, server, kind>> /\ sock' = sock
  <2>1. pc[t] # "idle" /\ UNCHANGED <<network, server, kind>>
    BY DEF TestSock, ConnectFails, PassGates, StopAtGates, FlushNextRun, GrowFails, FlushAborted,
           FlushRun, NullSock, SendOnClosed, MessageSent, StopReceiving, RecvNothing, ReturnVerdict
  <2>2. sock' = sock
    BY <1>1 DEF SocketInUse, TestSock, ConnectFails, PassGates, StopAtGates, FlushNextRun, GrowFails,
           FlushAborted, FlushRun, NullSock, SendOnClosed, MessageSent, StopReceiving, RecvNothing,
           ReturnVerdict
  <2> QED
    BY <2>1, <2>2
<1>3. \E w \in PC : pc' = [pc EXCEPT ![t] = w]
  BY DEF TestSock, ConnectFails, PassGates, StopAtGates, FlushNextRun, GrowFails, FlushAborted,
         FlushRun, NullSock, SendOnClosed, MessageSent, StopReceiving, RecvNothing, ReturnVerdict,
         Goto, Return, PC
<1>4. OneHook' /\ Connections'
  BY <1>1, <1>2, <1>3, HookGoesOn, ConnectionsKept
<1>5. CASE FlushNextRun(t) \/ GrowFails(t) \/ FlushAborted(t)
  <2>1. /\ pc[t] = "walk" /\ pc' = [pc EXCEPT ![t] = "send"]
        /\ sk' = [sk EXCEPT ![t] = NoConn]
        /\ \E m : out' = [out EXCEPT ![t] = m]
    BY <1>5 DEF FlushNextRun, GrowFails, FlushAborted, FlushRun, Goto
  <2>2. SocketInUse'
    BY <1>1, <1>2, <2>1 DEF SocketInUse
  <2> QED
    BY <1>4, <2>2 DEF LinkInv
<1>6. CASE TestSock(t) \/ ConnectFails(t) \/ PassGates(t) \/ StopAtGates(t)
  <2>1. SocketInUse'
    BY <1>1, <1>2, <1>6 DEF SocketInUse, TestSock, ConnectFails, PassGates, StopAtGates, Goto, Return,
                            NoSock
  <2> QED
    BY <1>4, <2>1 DEF LinkInv
<1>7. CASE NullSock(t) \/ SendOnClosed(t) \/ MessageSent(t)
  <2>1. CASE NullSock(t) \/ SendOnClosed(t)
    <3>1. SocketInUse'
      BY <1>1, <1>2, <2>1 DEF SocketInUse, NullSock, SockOf, SendOnClosed, Goto
    <3> QED
      BY <1>4, <3>1 DEF LinkInv
  <2>2. CASE MessageSent(t)
    <3>1. PICK w \in {"walk", "idle", "recv"}, s \in {sock, sk[t]} :
            /\ pc' = [pc EXCEPT ![t] = w] /\ sk' = [sk EXCEPT ![t] = s]
            /\ w = "recv" => s = sock
      BY <2>2 DEF MessageSent, Goto, Return
    <3>2. pc[t] = "send" /\ out' = out /\ out[t] = <<>>
      BY <2>2 DEF MessageSent
    <3>3. SocketInUse'
      BY <1>1, <1>2, <3>1, <3>2 DEF SocketInUse
    <3> QED
      BY <1>4, <3>3 DEF LinkInv
  <2> QED
    BY <1>7, <2>1, <2>2
<1>8. CASE StopReceiving(t) \/ RecvNothing(t) \/ ReturnVerdict(t)
  <2>1. SocketInUse'
    BY <1>1, <1>2, <1>8 DEF SocketInUse, StopReceiving, RecvNothing, ReturnVerdict, Goto, Return
  <2> QED
    BY <1>4, <2>1 DEF LinkInv
<1> QED
  BY <1>5, <1>6, <1>7, <1>8

(* Every send and receive uses the socket of the LSM. *)
LEMMA OneSocket ==
  ASSUME SocketInUse, NEW t \in Task
  PROVE  SockOf(t) = sock
BY DEF SocketInUse, SockOf

(* A cell is sent, or lost, or an answer is taken. *)
LEMMA TransferLink ==
  ASSUME IInv, LinkInv, NEW t \in Task, SendCell(t) \/ SendDiscarded(t) \/ RecvAnswer(t)
  PROVE  LinkInv'
<1>1. /\ OneHook /\ SocketInUse /\ Connections /\ pc \in [Task -> PC]
      /\ out \in [Task -> Seq(Cell)] /\ sk \in [Task -> Conn \cup {NoConn}]
      /\ up \in [Conn -> Seq(Cell)] /\ down \in [Conn -> Seq(Call)]
      /\ closed \subseteq Conn /\ NoConn \notin Conn /\ sock \in Conn \cup {NoConn}
  BY TcpServerAssumption DEF LinkInv, IInv, HooksOK, ServerInv, ServerTypeOK
<1>2. SockOf(t) = sock /\ (RecvAnswer(t) => sk[t] = sock)
  BY <1>1, OneSocket DEF SocketInUse, RecvAnswer
<1>3. /\ pc[t] \in {"send", "recv"} /\ sock' = sock /\ kind' = kind
      /\ pc' \in {pc, [pc EXCEPT ![t] = "drain"]}
      /\ UNCHANGED <<backlog, hungup, closed, sock_client>>
  BY DEF SendCell, SendDiscarded, RecvAnswer, Goto, globals, network, server
<1>4. OneHook'
  <2>1. \E w \in PC : pc' = [pc EXCEPT ![t] = w]
    BY <1>1, <1>3 DEF PC
  <2> QED
    BY <1>1, <1>3, <2>1, HookGoesOn
<1>5. SocketInUse'
  <2>1. CASE SendCell(t)
    <3>1. \E s \in {sock, NoConn} : sk' = [sk EXCEPT ![t] = s]
      BY <1>2, <2>1 DEF SendCell
    <3>2. \E m : out' = [out EXCEPT ![t] = m]
      BY <2>1 DEF SendCell
    <3>3. pc[t] = "send" /\ pc' = pc
      BY <2>1 DEF SendCell
    <3> QED
      BY <1>1, <1>3, <3>1, <3>2, <3>3 DEF SocketInUse
  <2>2. CASE SendDiscarded(t)
    BY <1>1, <1>3, <2>2 DEF SocketInUse, SendDiscarded, globals
  <2>3. CASE RecvAnswer(t)
    BY <1>1, <1>2, <1>3, <2>3 DEF SocketInUse, RecvAnswer, Goto, globals
  <2> QED
    BY <2>1, <2>2, <2>3
<1>6. Connections'
  <2>1. CASE SendCell(t)
    <3>1. /\ sock # NoConn /\ sock \notin closed /\ down' = down
          /\ up' = [up EXCEPT ![sock] = Append(@, Head(out[t]))]
      BY <1>2, <2>1 DEF SendCell
    <3> QED
      BY <1>1, <1>3, <3>1 DEF Connections, Untouched, InBacklog
  <2>2. CASE SendDiscarded(t)
    <3>1. up' = up /\ down' = down
      BY <2>2 DEF SendDiscarded, network
    <3> QED
      BY <1>1, <1>3, <3>1 DEF Connections, Untouched, InBacklog
  <2>3. CASE RecvAnswer(t)
    <3>1. sock # NoConn /\ up' = up /\ down' = [down EXCEPT ![sock] = Tail(@)]
      BY <1>2, <2>3 DEF RecvAnswer
    <3> QED
      BY <1>1, <1>3, <3>1 DEF Connections, Untouched, InBacklog
  <2> QED
    BY <2>1, <2>2, <2>3
<1> QED
  BY <1>4, <1>5, <1>6 DEF LinkInv

(* A connection is made that nobody has used. *)
LEMMA ConnectLink ==
  ASSUME IInv, LinkInv, NEW t \in Task, Connect(t)
  PROVE  LinkInv'
<1> DEFINE c == CHOOSE c \in Unused : TRUE
<1>1. /\ OneHook /\ SocketInUse /\ Connections /\ pc \in [Task -> PC] /\ backlog \in Seq(Conn)
      /\ NoConn \notin Conn
  BY TcpServerAssumption DEF LinkInv, IInv, HooksOK, ServerInv, ServerTypeOK
<1>2. c \in Unused
  BY DEF Connect
<1>3. c \in Conn /\ c \notin hungup /\ c # NoConn
  BY <1>1, <1>2 DEF Unused
<1> HIDE DEF c
<1>4. /\ pc[t] = "connecting" /\ pc' = [pc EXCEPT ![t] = "gates"] /\ kind' = kind
      /\ sock' = c /\ backlog' = Append(backlog, c)
      /\ UNCHANGED <<up, down, hungup, closed, sock_client, out, sk>>
  BY DEF Connect, Goto, c, server
<1>5. sock = NoConn
  BY <1>1, <1>4 DEF SocketInUse
<1>6. OneHook'
  BY <1>1, <1>4, HookGoesOn DEF PC
<1>7. SocketInUse'
  <2>1. \A u \in Task : u # t => pc[u] = "idle"
    BY <1>1, <1>4, OthersIdle
  <2> QED
    BY <1>1, <1>3, <1>4, <1>5, <2>1 DEF SocketInUse
<1>8. Connections'
  <2>1. /\ Len(backlog') = Len(backlog) + 1 /\ Len(backlog) \in Nat
        /\ \A k \in 1 .. Len(backlog) : backlog'[k] = backlog[k]
        /\ backlog'[Len(backlog) + 1] = c
    BY <1>1, <1>3, <1>4
  <2>2. \A d : InBacklog(d)' <=> InBacklog(d) \/ d = c
    BY <2>1 DEF InBacklog
  <2> QED
    BY <1>1, <1>3, <1>4, <1>5, <2>2 DEF Connections, Untouched
<1> QED
  BY <1>6, <1>7, <1>8 DEF LinkInv

(* A task enters its hook, or is skipped. *)
LEMMA EnterLink ==
  ASSUME Exclusive, IInv, LinkInv, NEW t \in Task, EnterPageHook(t) \/ EnterBpfHook(t)
  PROVE  LinkInv'
<1>1. /\ OneHook /\ SocketInUse /\ Connections
      /\ pc \in [Task -> PC] /\ kind \in [Task -> {"page", "bpf"}]
      /\ sk \in [Task -> Conn \cup {NoConn}]
  BY DEF LinkInv, IInv, HooksOK
<1>2. pc[t] = "idle" /\ UNCHANGED <<network, server, sock, out>>
  BY DEF EnterPageHook, EnterBpfHook, globals
<1>3. Connections'
  BY <1>1, <1>2, ConnectionsKept
<1>4. CASE EnterPageHook(t) /\ t \notin TargetTask
  <2>1. /\ pc' = [pc EXCEPT ![t] = "idle"] /\ kind' = [kind EXCEPT ![t] = "page"] /\ sk' = sk
    BY <1>4 DEF EnterPageHook, Return, Goto
  <2>2. OneHook'
    BY <1>1, <1>2, <2>1 DEF OneHook
  <2>3. SocketInUse'
    BY <1>1, <1>2, <2>1 DEF SocketInUse
  <2> QED
    BY <1>3, <2>2, <2>3 DEF LinkInv
<1>5. CASE (EnterPageHook(t) /\ t \in TargetTask) \/ EnterBpfHook(t)
  <2>1. PICK k \in {"page", "bpf"}, w \in {"connect", "gates"} :
          /\ pc' = [pc EXCEPT ![t] = w] /\ kind' = [kind EXCEPT ![t] = k]
          /\ sk' = [sk EXCEPT ![t] = NoConn]
          /\ w = "gates" => sock # NoConn
          /\ k = "bpf" => t \in BpfTask
    BY <1>5 DEF EnterPageHook, EnterBpfHook, StartCall, Goto, NoSock
  <2>2. t \in HookTask /\ (MmapLockFree(t) \/ t \in BpfTask)
    BY <1>5 DEF EnterPageHook, EnterBpfHook, HookTask
  <2>3. \A u \in Task : pc[u] = "idle"
    BY <1>1, <1>2, <2>2, EnterAlone
  <2>4. OneHook'
    BY <1>1, <2>1, <2>2, <2>3 DEF OneHook
  <2>5. SocketInUse'
    BY <1>1, <1>2, <2>1, <2>3 DEF SocketInUse
  <2> QED
    BY <1>3, <2>4, <2>5 DEF LinkInv
<1> QED
  BY <1>4, <1>5

(* After a restart the connections that were in use are gone. *)
LEMMA RebootLink ==
  ASSUME IInv, LinkInv, Reboot
  PROVE  LinkInv'
<1>1. /\ OneHook /\ SocketInUse /\ Connections /\ up \in [Conn -> Seq(Cell)]
      /\ closed \subseteq Conn
  BY DEF LinkInv, IInv, HooksOK, ServerInv, ServerTypeOK
<1>2. /\ pc' = [t \in Task |-> "idle"] /\ out' = [t \in Task |-> <<>>]
      /\ sk' = [t \in Task |-> NoConn] /\ sock' = NoConn
      /\ hungup' = Conn \ Unused /\ down' = [c \in Conn |-> <<>>]
      /\ UNCHANGED <<backlog, closed, sock_client>>
  BY DEF Reboot, server
<1>3. OneHook' /\ SocketInUse'
  BY <1>2 DEF OneHook, SocketInUse
<1>4. ASSUME NEW c \in Conn, up[c] = <<>> PROVE up'[c] = <<>>
  <2>1. PICK cut \in [Conn -> 0 .. SendBuffer] :
          /\ \A d \in Conn : cut[d] <= Len(up[d])
          /\ up' = [d \in Conn |-> SubSeq(up[d], 1, cut[d])]
    BY DEF Reboot
  <2>2. cut[c] = 0
    BY <1>4, <2>1, McheckTcpAssumption
  <2> QED
    BY <1>4, <2>1, <2>2
<1>5. Connections'
  <2>1. \A c \in Conn \ hungup' : c \in Conn \ hungup /\ c # sock
    BY <1>2 DEF Unused
  <2>2. \A c \in Conn \ hungup' : Untouched(c) /\ up'[c] = <<>>
    BY <1>1, <1>4, <2>1 DEF Connections, Untouched
  <2>3. \A c \in Conn \ hungup' : Untouched(c)'
    BY <1>2, <2>2 DEF Untouched, InBacklog
  <2> QED
    BY <1>1, <1>2, <1>4, <2>3 DEF Connections
<1> QED
  BY <1>3, <1>5 DEF LinkInv

-----------------------------------------------------------------------------
(* The connection being served is closed. *)
LEMMA CloseConnections ==
  ASSUME ServerTypeOK, Connections, CloseClient, sock_client # NoConn, sock' = sock
  PROVE  Connections'
<1>1. /\ sock_client \in Conn /\ up \in [Conn -> Seq(Cell)] /\ closed \subseteq Conn
      /\ NoConn \notin Conn
  BY TcpServerAssumption DEF ServerTypeOK
<1> QED
  BY <1>1 DEF CloseClient, Connections, Untouched, InBacklog

(* Only connections that are in use are served. *)
LEMMA ServerLink ==
  ASSUME IInv, LinkInv, ServerStep
  PROVE  LinkInv'
<1>1. /\ OneHook /\ SocketInUse /\ Connections /\ ServerTypeOK /\ BacklogOpen
      /\ up \in [Conn -> Seq(Cell)] /\ down \in [Conn -> Seq(Call)] /\ backlog \in Seq(Conn)
      /\ closed \subseteq Conn /\ NoConn \notin Conn
      /\ sock_client \in Conn \cup {NoConn} /\ sock_client \notin closed
      /\ sock \in Conn \cup {NoConn}
  BY TcpServerAssumption DEF LinkInv, IInv, HooksOK, ServerInv, ServerTypeOK
<1>2. UNCHANGED <<pc, kind, sock, sk, out>>
  BY DEF ServerStep, globals, hooks
<1>3. OneHook' /\ SocketInUse'
  BY <1>1, <1>2 DEF OneHook, SocketInUse
<1>4. ASSUME Accept PROVE Connections'
  <2>1. /\ backlog # <<>> /\ sock_client' = Head(backlog) /\ backlog' = Tail(backlog)
        /\ UNCHANGED <<up, down, hungup, closed>> /\ sock_client = NoConn
    BY <1>1, <1>4 DEF Accept, ServerTypeOK
  <2>2. /\ Head(backlog) = backlog[1] /\ Len(backlog) \in Nat \ {0}
        /\ Len(backlog') = Len(backlog) - 1
        /\ \A k \in 1 .. Len(backlog') : backlog'[k] = backlog[k + 1]
    BY <1>1, <2>1
  <2>3. \A c : InBacklog(c) <=> InBacklog(c)' \/ c = sock_client'
    <3>1. \A k \in 2 .. Len(backlog) : k - 1 \in 1 .. Len(backlog') /\ backlog'[k - 1] = backlog[k]
      BY <2>2
    <3>2. \A k \in 1 .. Len(backlog') : k + 1 \in 1 .. Len(backlog)
      BY <2>2
    <3>3. \A k \in 1 .. Len(backlog) : k = 1 \/ k \in 2 .. Len(backlog)
      BY <2>2
    <3>4. 1 \in 1 .. Len(backlog)
      BY <2>2
    <3> QED
      BY <2>1, <2>2, <3>1, <3>2, <3>3, <3>4 DEF InBacklog
  <2> QED
    BY <1>1, <1>2, <2>1, <2>3 DEF Connections, Untouched
<1>5. ASSUME RecvHeader \/ RecvPayload \/ LoseFraming \/ FinishMessage \/ GarbledGoesOn
      PROVE  Connections'
  <2>1. /\ sock_client \in Conn
        /\ up' \in {up, [up EXCEPT ![sock_client] = Tail(@)]}
        /\ \A c \in Conn : c # sock_client => down'[c] = down[c]
        /\ UNCHANGED <<backlog, hungup, closed, sock_client>>
    BY <1>1, <1>5 DEF RecvHeader, RecvPayload, LoseFraming, FinishMessage, DumpAndAnswer, Serving,
                      GarbledGoesOn, Consume, network
  <2> QED
    BY <1>1, <1>2, <2>1 DEF Connections, Untouched, InBacklog
<1>6. ASSUME RefuseHeader \/ AnswerFails \/ GarbledRefused \/ ClientGone PROVE Connections'
  <2>1. CloseClient /\ sock_client # NoConn
    BY <1>1, <1>6 DEF RefuseHeader, AnswerFails, GarbledRefused, ClientGone, Serving, ServerTypeOK
  <2> QED
    BY <1>1, <1>2, <2>1, CloseConnections
<1>7. ASSUME KilledByAnswer \/ GarbledKilled PROVE Connections'
  <2>1. /\ sock_client \in Conn /\ closed' = closed \cup {sock_client} \cup Range(backlog)
        /\ backlog' = <<>> /\ sock_client' = NoConn /\ up' = [c \in Conn |-> <<>>]
        /\ UNCHANGED <<down, hungup>>
    BY <1>1, <1>7 DEF KilledByAnswer, GarbledKilled, Killed, Serving
  <2>2. \A c : c \in Range(backlog) <=> InBacklog(c)
    BY <1>1 DEF Range, InBacklog
  <2>3. closed' \subseteq Conn /\ Len(backlog') = 0
    BY <1>1, <2>1 DEF Range
  <2> QED
    BY <1>1, <1>2, <2>1, <2>2, <2>3 DEF Connections, Untouched, InBacklog
<1>8. Connections'
  BY <1>4, <1>5, <1>6, <1>7 DEF ServerStep, ServerNext
<1> QED
  BY <1>3, <1>8 DEF LinkInv

(* One hook, one socket, and the connections are where they belong. *)
LEMMA LinkStep ==
  ASSUME Exclusive, IInv, LinkInv, [Next]_vars
  PROVE  LinkInv'
<1>1. CASE UNCHANGED vars
  BY <1>1 DEF vars, network, server, globals, hooks, LinkInv, OneHook, SocketInUse, Connections,
              Untouched, InBacklog
<1>2. ASSUME NEW t \in Task, EnterPageHook(t) \/ EnterBpfHook(t) PROVE LinkInv'
  BY <1>2, EnterLink
<1>3. ASSUME NEW t \in Task, HookStep(t) PROVE LinkInv'
  BY <1>3, QuietLink, TransferLink, ConnectLink DEF HookStep
<1>4. CASE ServerStep
  BY <1>4, ServerLink
<1>5. CASE Reboot
  BY <1>5, RebootLink
<1> QED
  BY <1>1, <1>2, <1>3, <1>4, <1>5 DEF Next

(* The invariant of the link holds in every reachable state. *)
THEOREM LinkInvariant == ASSUME Exclusive PROVE Spec => []LinkInv
<1>1. Init => LinkInv
  BY LinkInit
<1>2. IInv /\ LinkInv /\ [Next]_vars => LinkInv'
  BY LinkStep
<1> QED
  BY <1>1, <1>2, Invariant, PTL DEF Spec

(***************************************************************************)
(* The socket is made once and kept until the machine is restarted, since  *)
(* no other hook can store one between the test of sock and the store.     *)
(***************************************************************************)
THEOREM SocketIsKept == ASSUME Exclusive PROVE Spec => SockKept
<1>1. ASSUME IInv, LinkInv, [Next]_vars
      PROVE  sock = NoConn \/ sock' = sock \/ reboots' = reboots + 1
  <2>1. CASE UNCHANGED vars
    BY <2>1 DEF vars, globals
  <2>2. ASSUME NEW t \in Task, EnterPageHook(t) \/ EnterBpfHook(t) \/ HookStep(t)
        PROVE  sock = NoConn \/ sock' = sock
    <3>1. CASE Connect(t) \/ ConnectFails(t)
      BY <1>1, <3>1 DEF Connect, ConnectFails, LinkInv, SocketInUse
    <3>2. CASE ~Connect(t) /\ ~ConnectFails(t)
      BY <2>2, <3>2 DEF HookStep, EnterPageHook, EnterBpfHook, TestSock, PassGates, StopAtGates,
             FlushNextRun, GrowFails, FlushAborted, FlushRun, SendCell, NullSock, SendDiscarded,
             SendOnClosed, MessageSent, RecvAnswer, StopReceiving, RecvNothing, ReturnVerdict, globals
    <3> QED
      BY <3>1, <3>2
  <2>3. CASE ServerStep
    BY <2>3 DEF ServerStep, globals
  <2>4. CASE Reboot
    BY <2>4 DEF Reboot
  <2> QED
    BY <1>1, <2>1, <2>2, <2>3, <2>4 DEF Next
<1>2. IInv /\ LinkInv /\ [Next]_vars => [sock = NoConn \/ sock' = sock \/ reboots' = reboots + 1]_vars
  BY <1>1
<1> QED
  BY <1>2, Invariant, LinkInvariant, PTL DEF Spec, SockKept

-----------------------------------------------------------------------------
PageOf(header, k) ==
  [kind |-> "page", call |-> header.call, page |-> header.mapped_addr + k - 1]

(***************************************************************************)
(* The cells after place k of s are the pages of header, and a header      *)
(* after them, as far as s goes.  The place of a header that has been read *)
(* is not positive.                                                        *)
(***************************************************************************)
Follows(header, k, s) ==
  \A i \in 1 .. Len(s) :
    /\ k < i /\ i <= k + header.len => s[i] = PageOf(header, i - k)
    /\ i = k + header.len + 1 => s[i].kind = "header"

(* s continues a message of which d pages have been read. *)
Framed(header, d, s) ==
  /\ Follows(header, 0 - d, s)
  /\ \A k \in 1 .. Len(s) : s[k].kind = "header" => Follows(s[k], k, s)

(* No message of s is cut short. *)
Whole(header, d, s) ==
  /\ header.len - d <= Len(s)
  /\ \A k \in 1 .. Len(s) : s[k].kind = "header" => k + s[k].len <= Len(s)

(* What the one task that sends has not sent yet. *)
Unsent(o) ==
  IF \E t \in Task : o[t] # <<>> THEN o[CHOOSE t \in Task : o[t] # <<>>] ELSE <<>>

InFlight(c) == IF c = sock THEN up[c] \o Unsent(out) ELSE up[c]

(* Pages of the last header that have been read from c. *)
PagesRead(c) ==
  IF c = sock_client /\ phase = "payload" THEN total_read ELSE info.len

Framing ==
  \A c \in Conn \ closed :
    /\ Framed(info, PagesRead(c), InFlight(c))
    /\ c = sock => Whole(info, PagesRead(c), InFlight(c))

(* The buffer holds the pages read, each in its place, and zeroes. *)
BufferFilled ==
  phase \in {"payload", "finish"} =>
    /\ \A k \in 1 .. Len(root_buf) :
         root_buf[k] = IF k \in info.mapped_addr + 1 .. info.mapped_addr + total_read
                       THEN [kind |-> "page", call |-> info.call, page |-> k - 1]
                       ELSE Zero
    /\ phase = "finish" => total_read = info.len

FramingInv == FramingKept /\ DumpsPure /\ BufferFilled /\ Framing

-----------------------------------------------------------------------------
(* Reading one cell moves every message one place closer. *)
LEMMA FollowsTail ==
  ASSUME NEW s \in Seq(Cell), s # <<>>, NEW h \in Header, NEW k \in Int, Follows(h, k, s)
  PROVE  Follows(h, k - 1, Tail(s))
<1> SUFFICES ASSUME NEW i \in 1 .. Len(Tail(s))
             PROVE  /\ k - 1 < i /\ i <= k - 1 + h.len => Tail(s)[i] = PageOf(h, i - (k - 1))
                    /\ i = k - 1 + h.len + 1 => Tail(s)[i].kind = "header"
  BY DEF Follows
<1>1. i + 1 \in 1 .. Len(s) /\ Tail(s)[i] = s[i + 1] /\ i \in Int
  OBVIOUS
<1>2. h.len \in Int
  BY TcpServerAssumption DEF Header
<1>3. /\ k < i + 1 /\ i + 1 <= k + h.len => s[i + 1] = PageOf(h, (i + 1) - k)
      /\ i + 1 = k + h.len + 1 => s[i + 1].kind = "header"
  BY <1>1 DEF Follows
<1>4. (i + 1) - k = i - (k - 1)
  BY <1>1
<1> QED
  BY <1>1, <1>2, <1>3, <1>4

(* The messages that begin in s are where they were, one place closer. *)
LEMMA LaterMessages ==
  ASSUME NEW s \in Seq(Cell), s # <<>>,
         \A k \in 1 .. Len(s) : s[k].kind = "header" => Follows(s[k], k, s)
  PROVE  \A k \in 1 .. Len(Tail(s)) : Tail(s)[k].kind = "header" => Follows(Tail(s)[k], k, Tail(s))
<1> SUFFICES ASSUME NEW k \in 1 .. Len(Tail(s)), Tail(s)[k].kind = "header"
             PROVE  Follows(Tail(s)[k], k, Tail(s))
  OBVIOUS
<1>1. k + 1 \in 1 .. Len(s) /\ Tail(s)[k] = s[k + 1] /\ k + 1 \in Int /\ (k + 1) - 1 = k
  OBVIOUS
<1>2. s[k + 1] \in Header /\ Follows(s[k + 1], k + 1, s)
  BY <1>1, CellKinds
<1>3. Follows(s[k + 1], (k + 1) - 1, Tail(s))
  BY <1>1, <1>2, FollowsTail
<1> QED
  BY <1>1, <1>3

(* One more page of the message has been read. *)
LEMMA PageRead ==
  ASSUME NEW s \in Seq(Cell), s # <<>>, NEW h \in Header, NEW d \in Int, Framed(h, d, s)
  PROVE  Framed(h, d + 1, Tail(s))
<1>1. Follows(h, (0 - d) - 1, Tail(s))
  BY FollowsTail DEF Framed
<1>2. (0 - d) - 1 = 0 - (d + 1)
  OBVIOUS
<1> QED
  BY <1>1, <1>2, LaterMessages DEF Framed

(* A header has been read: its pages come next. *)
LEMMA HeaderRead ==
  ASSUME NEW s \in Seq(Cell), s # <<>>, NEW h, NEW d, Framed(h, d, s), Head(s).kind = "header"
  PROVE  Framed(Head(s), 0, Tail(s))
<1>1. 1 \in 1 .. Len(s) /\ Head(s) = s[1] /\ s[1] \in Header
  BY CellKinds
<1>2. Follows(s[1], 1 - 1, Tail(s))
  BY <1>1, FollowsTail DEF Framed
<1>3. 0 - 0 = 1 - 1
  OBVIOUS
<1> QED
  BY <1>1, <1>2, <1>3, LaterMessages DEF Framed

(* The next cell is a page as long as pages are due, and a header then. *)
LEMMA NextCell ==
  ASSUME NEW s \in Seq(Cell), s # <<>>, NEW h \in Header, NEW d \in 0 .. h.len, Framed(h, d, s)
  PROVE  /\ d < h.len => Head(s) = PageOf(h, d + 1)
         /\ d = h.len => Head(s).kind = "header"
<1>1. 1 \in 1 .. Len(s) /\ Head(s) = s[1] /\ h.len \in Int /\ d \in Int
  BY TcpServerAssumption DEF Header
<1>2. /\ 0 - d < 1 /\ 1 <= (0 - d) + h.len => s[1] = PageOf(h, 1 - (0 - d))
      /\ 1 = (0 - d) + h.len + 1 => s[1].kind = "header"
  BY <1>1 DEF Framed, Follows
<1>3. 1 - (0 - d) = d + 1
  BY <1>1
<1> QED
  BY <1>1, <1>2, <1>3

(* What is whole stays so. *)
LEMMA WholeTail ==
  ASSUME NEW s \in Seq(Cell), s # <<>>, NEW h \in Header, NEW d \in Int, Whole(h, d, s)
  PROVE  /\ Whole(h, d + 1, Tail(s))
         /\ Head(s).kind = "header" => Whole(Head(s), 0, Tail(s))
<1>1. 1 \in 1 .. Len(s) /\ Head(s) = s[1] /\ Len(Tail(s)) = Len(s) - 1 /\ Len(s) \in Int
  OBVIOUS
<1>2. ASSUME NEW k \in 1 .. Len(Tail(s)), Tail(s)[k].kind = "header"
      PROVE  k + Tail(s)[k].len <= Len(Tail(s))
  <2>1. k + 1 \in 1 .. Len(s) /\ Tail(s)[k] = s[k + 1] /\ k \in Int
    OBVIOUS
  <2>2. (k + 1) + s[k + 1].len <= Len(s) /\ s[k + 1] \in Header
    BY <1>2, <2>1, CellKinds DEF Whole
  <2>3. s[k + 1].len \in Int
    BY <2>2, TcpServerAssumption DEF Header
  <2> QED
    BY <1>1, <2>1, <2>2, <2>3
<1>3. h.len \in Int
  BY TcpServerAssumption DEF Header
<1>4. h.len - (d + 1) <= Len(Tail(s))
  BY <1>1, <1>3 DEF Whole
<1>5. ASSUME Head(s).kind = "header" PROVE Head(s).len - 0 <= Len(Tail(s))
  <2>1. s[1] \in Header /\ 1 + s[1].len <= Len(s)
    BY <1>1, <1>5, CellKinds DEF Whole
  <2>2. s[1].len \in Int
    BY <2>1, TcpServerAssumption DEF Header
  <2> QED
    BY <1>1, <2>1, <2>2
<1> QED
  BY <1>2, <1>4, <1>5 DEF Whole

(* A beginning of a stream is cut into the same messages. *)
LEMMA FramedPrefix ==
  ASSUME NEW s \in Seq(Cell), NEW p \in Seq(Cell), Len(p) <= Len(s),
         \A i \in 1 .. Len(p) : p[i] = s[i], NEW h, NEW d, Framed(h, d, s)
  PROVE  Framed(h, d, p)
<1>1. \A i \in 1 .. Len(p) : i \in 1 .. Len(s)
  OBVIOUS
<1> QED
  BY <1>1, Zenon DEF Framed, Follows

(* Between messages it does not matter which one was the last. *)
LEMMA Boundary ==
  ASSUME NEW s \in Seq(Cell), NEW h \in Header, NEW g \in Header
  PROVE  /\ Framed(h, h.len, s) => Framed(g, g.len, s)
         /\ Whole(h, h.len, s) => Whole(g, g.len, s)
<1>1. h.len \in Int /\ g.len \in Int
  BY TcpServerAssumption DEF Header
<1>2. Follows(h, 0 - h.len, s) => Follows(g, 0 - g.len, s)
  <2>1. ASSUME NEW e \in Int PROVE \A i \in 1 .. Len(s) : ~(0 - e < i /\ i <= (0 - e) + e) /\ (i = (0 - e) + e + 1 <=> i = 1)
    OBVIOUS
  <2> QED
    BY <1>1, <2>1 DEF Follows
<1> QED
  BY <1>1, <1>2 DEF Framed, Whole

(* An empty stream is framed between messages. *)
LEMMA EmptyFramed ==
  ASSUME NEW h \in Header
  PROVE  Framed(h, h.len, <<>>) /\ Whole(h, h.len, <<>>)
<1>1. h.len \in Int /\ Len(<<>>) = 0
  BY TcpServerAssumption DEF Header
<1> QED
  BY <1>1 DEF Framed, Follows, Whole

(* Messages joined behind whole messages are found where they begin. *)
LEMMA FramedConcat ==
  ASSUME NEW s \in Seq(Cell), NEW m \in Seq(Cell), NEW h \in Header, NEW d \in 0 .. h.len,
         NEW g \in Header, Framed(h, d, s), Whole(h, d, s), Framed(g, g.len, m), Whole(g, g.len, m)
  PROVE  Framed(h, d, s \o m) /\ Whole(h, d, s \o m)
<1> DEFINE r == s \o m
<1>1. /\ r \in Seq(Cell) /\ Len(r) = Len(s) + Len(m) /\ Len(s) \in Nat /\ Len(m) \in Nat
      /\ \A i \in 1 .. Len(s) : r[i] = s[i]
      /\ \A i \in 1 .. Len(r) : i > Len(s) => r[i] = m[i - Len(s)] /\ i - Len(s) \in 1 .. Len(m)
  OBVIOUS
<1> HIDE DEF r
<1>2. 1 \in 1 .. Len(m) => m[1].kind = "header"
  <2>1. g.len \in Int /\ (1 \in 1 .. Len(m) => 1 = (0 - g.len) + g.len + 1)
    BY TcpServerAssumption DEF Header
  <2> QED
    BY <2>1 DEF Framed, Follows
<1>3. ASSUME NEW x \in Header, NEW k \in Int, k <= Len(s), Follows(x, k, s), k + x.len <= Len(s)
      PROVE  Follows(x, k, r)
  <2> SUFFICES ASSUME NEW i \in 1 .. Len(r)
               PROVE  /\ k < i /\ i <= k + x.len => r[i] = PageOf(x, i - k)
                      /\ i = k + x.len + 1 => r[i].kind = "header"
    BY DEF Follows
  <2>1. x.len \in Int /\ i \in Int
    BY TcpServerAssumption DEF Header
  <2>2. CASE i \in 1 .. Len(s)
    BY <1>1, <1>3, <2>2 DEF Follows
  <2>3. CASE i > Len(s)
    <3>1. r[i] = m[i - Len(s)] /\ i - Len(s) \in 1 .. Len(m)
      BY <1>1, <2>3
    <3>2. ~(i <= k + x.len)
      BY <1>1, <1>3, <2>1, <2>3
    <3>3. i = k + x.len + 1 => i - Len(s) = 1
      BY <1>1, <1>3, <2>1, <2>3
    <3> QED
      BY <1>2, <3>1, <3>2, <3>3
  <2> QED
    BY <1>1, <2>1, <2>2, <2>3
<1>4. ASSUME NEW k \in 1 .. Len(m), NEW x \in Header, Follows(x, k, m)
      PROVE  Follows(x, k + Len(s), r)
  <2> SUFFICES ASSUME NEW i \in 1 .. Len(r)
               PROVE  /\ k + Len(s) < i /\ i <= k + Len(s) + x.len => r[i] = PageOf(x, i - (k + Len(s)))
                      /\ i = k + Len(s) + x.len + 1 => r[i].kind = "header"
    BY DEF Follows
  <2>1. x.len \in Nat /\ i \in Int /\ k \in Int
    BY TcpServerAssumption DEF Header
  <2>2. CASE i > Len(s)
    <3> DEFINE j == i - Len(s)
    <3>1. r[i] = m[j] /\ j \in 1 .. Len(m)
      BY <1>1, <2>2
    <3>2. /\ k < j /\ j <= k + x.len => m[j] = PageOf(x, j - k)
          /\ j = k + x.len + 1 => m[j].kind = "header"
      BY <1>4, <3>1 DEF Follows
    <3>3. j - k = i - (k + Len(s))
      BY <1>1, <2>1
    <3> HIDE DEF j
    <3>4. j = i - Len(s) /\ Len(s) \in Int /\ x.len \in Int
      BY <1>1, <2>1 DEF j
    <3>5. k + Len(s) < i => k < j
      BY <2>1, <3>4
    <3>6. i <= k + Len(s) + x.len => j <= k + x.len
      BY <2>1, <3>4
    <3>7. i = k + Len(s) + x.len + 1 => j = k + x.len + 1
      BY <2>1, <3>4
    <3> QED
      BY <3>1, <3>2, <3>3, <3>5, <3>6, <3>7
  <2>3. CASE ~(i > Len(s))
    BY <1>1, <2>1, <2>3
  <2> QED
    BY <2>2, <2>3
<1>5. d \in Int /\ h.len \in Int /\ 0 - d \in Int /\ 0 - d <= Len(s) /\ (0 - d) + h.len <= Len(s)
  BY <1>1, TcpServerAssumption DEF Header, Whole
<1>6. Follows(h, 0 - d, r)
  BY <1>3, <1>5 DEF Framed
<1>7. ASSUME NEW k \in 1 .. Len(r), r[k].kind = "header"
      PROVE  Follows(r[k], k, r) /\ k + r[k].len <= Len(r)
  <2>1. r[k] \in Header /\ k \in Int
    BY <1>1, <1>7, CellKinds
  <2>2. r[k].len \in Int
    BY <2>1, TcpServerAssumption DEF Header
  <2>3. CASE k \in 1 .. Len(s)
    <3>1. r[k] = s[k]
      BY <1>1, <2>3
    <3>2. Follows(s[k], k, s) /\ k + s[k].len <= Len(s)
      BY <1>7, <2>3, <3>1 DEF Framed, Whole
    <3>3. Follows(r[k], k, r)
      BY <1>1, <1>3, <2>1, <2>3, <3>1, <3>2
    <3> QED
      BY <1>1, <2>1, <2>2, <3>1, <3>2, <3>3
  <2>4. CASE k > Len(s)
    <3> DEFINE j == k - Len(s)
    <3>1. r[k] = m[j] /\ j \in 1 .. Len(m) /\ j + Len(s) = k
      BY <1>1, <2>1, <2>4
    <3>2. Follows(m[j], j, m) /\ j + m[j].len <= Len(m)
      BY <1>7, <3>1 DEF Framed, Whole
    <3>3. Follows(r[k], j + Len(s), r)
      BY <1>4, <2>1, <3>1, <3>2
    <3> QED
      BY <1>1, <2>1, <2>2, <3>1, <3>2, <3>3
  <2> QED
    BY <1>1, <2>1, <2>3, <2>4
<1>8. h.len - d <= Len(r)
  BY <1>1, <1>5
<1> QED
  BY <1>6, <1>7, <1>8 DEF Framed, Whole, r

(* A message of the walk is a header with exactly the pages it announces. *)
LEMMA MessageFramed ==
  ASSUME IInv, NEW t \in Task, pc[t] # "idle", NEW run \in SUBSET Offset, NEW end \in BOOLEAN,
         NEW h \in Header
  PROVE  /\ Framed(h, h.len, Message(t, run, end))
         /\ Whole(h, h.len, Message(t, run, end))
<1> DEFINE m == Message(t, run, end)
           first == IF run = {} THEN 0 ELSE Min(run)
           x == [kind |-> "header", call |-> ThisCall(t), mapped_addr |-> first,
                 len |-> DataLen(t, run), mapping_len |-> mapping[t].len,
                 is_end_of_mapping |-> end]
           cells == [k \in 1 .. Cardinality(run) |->
                       [kind |-> "page", call |-> ThisCall(t), page |-> first + k - 1]]
<1>1. m \in Seq(Cell) /\ m = <<x>> \o cells
  BY MessageType DEF IInv, Message
<1>2. Cardinality(run) \in Nat /\ first \in Int
  BY RunSize, TcpServerAssumption DEF Offset
<1> HIDE DEF first
<1>3. x.kind = "header" /\ x.len = Cardinality(run)
  BY DEF DataLen
<1>4. \A k \in 1 .. Cardinality(run) : cells[k] = PageOf(x, k) /\ cells[k].kind = "page"
  BY DEF PageOf
<1>5. /\ Len(m) = Cardinality(run) + 1 /\ m[1] = x
      /\ \A i \in 2 .. Len(m) : m[i] = cells[i - 1] /\ i - 1 \in 1 .. Cardinality(run)
  <2>1. cells \in Seq(Cell) /\ Len(cells) = Cardinality(run)
    <3>1. m \in Seq(Cell) /\ \A k \in 1 .. Cardinality(run) : cells[k] = m[k + 1] /\ k + 1 \in 1 .. Len(m)
      BY <1>1, <1>2
    <3>2. \A k \in 1 .. Cardinality(run) : cells[k] \in Cell
      BY <3>1
    <3> QED
      BY <1>2, <3>2
  <2> HIDE DEF x, cells, m
  <2> QED
    BY <1>1, <1>2, <2>1
<1> HIDE DEF x, cells, m
<1>6. \A i \in 1 .. Len(m) : i = 1 \/ (i \in 2 .. Len(m) /\ i # 1 /\ m[i].kind = "page" /\ m[i] = PageOf(x, i - 1))
  BY <1>2, <1>4, <1>5
<1>7. h.len \in Int
  BY TcpServerAssumption DEF Header
<1>8. Follows(h, 0 - h.len, m)
  BY <1>3, <1>5, <1>6, <1>7 DEF Follows
<1>9. Follows(x, 1, m)
  BY <1>2, <1>3, <1>5, <1>6 DEF Follows
<1>10. \A k \in 1 .. Len(m) : m[k].kind = "header" => k = 1
  BY <1>6
<1> QED
  BY <1>2, <1>3, <1>5, <1>7, <1>8, <1>9, <1>10 DEF Framed, Whole, m

-----------------------------------------------------------------------------
(* One task sends: what is unsent is its message. *)
LEMMA UnsentOf ==
  ASSUME NEW o \in [Task -> Seq(Cell)], NEW t \in Task, \A u \in Task : u # t => o[u] = <<>>
  PROVE  Unsent(o) = o[t]
<1>1. CASE o[t] # <<>>
  <2>1. \E u \in Task : o[u] # <<>>
    BY <1>1
  <2>2. (CHOOSE u \in Task : o[u] # <<>>) = t
    BY <1>1
  <2> QED
    BY <2>1, <2>2 DEF Unsent
<1>2. CASE o[t] = <<>>
  BY <1>2 DEF Unsent
<1> QED
  BY <1>1, <1>2

(* No task sends: nothing is unsent. *)
LEMMA NothingUnsent ==
  ASSUME NEW o, \A t \in Task : o[t] = <<>>
  PROVE  Unsent(o) = <<>>
BY DEF Unsent

(* The types that the lemmas above need. *)
LEMMA FlowTypes ==
  ASSUME IInv
  PROVE  /\ up \in [Conn -> Seq(Cell)] /\ out \in [Task -> Seq(Cell)]
         /\ Unsent(out) \in Seq(Cell) /\ info \in Header /\ info.len \in 0 .. MaxLen
         /\ info.mapped_addr \in Offset
         /\ \A c \in Conn : InFlight(c) \in Seq(Cell)
         /\ closed \subseteq Conn /\ NoConn \notin Conn
         /\ sock \in Conn \cup {NoConn} /\ sock_client \in Conn \cup {NoConn}
         /\ sock_client \notin closed
<1>1. /\ up \in [Conn -> Seq(Cell)] /\ out \in [Task -> Seq(Cell)] /\ info \in Header
      /\ closed \subseteq Conn /\ NoConn \notin Conn
      /\ sock \in Conn \cup {NoConn} /\ sock_client \in Conn \cup {NoConn}
      /\ sock_client \notin closed
  BY TcpServerAssumption DEF IInv, HooksOK, ServerInv, ServerTypeOK
<1>2. Unsent(out) \in Seq(Cell)
  <2>1. ASSUME NEW t \in Task PROVE out[t] \in Seq(Cell)
    BY <1>1
  <2>2. CASE \E t \in Task : out[t] # <<>>
    <3>1. (CHOOSE t \in Task : out[t] # <<>>) \in Task
      BY <2>2
    <3> QED
      BY <2>1, <2>2, <3>1 DEF Unsent
  <2>3. CASE ~\E t \in Task : out[t] # <<>>
    BY <2>3 DEF Unsent
  <2> QED
    BY <2>2, <2>3
<1>3. \A c \in Conn : InFlight(c) \in Seq(Cell)
  <2>1. ASSUME NEW c \in Conn PROVE InFlight(c) \in Seq(Cell)
    <3>1. up[c] \in Seq(Cell)
      BY <1>1
    <3> QED
      BY <1>2, <3>1, ConcatProperties DEF InFlight
  <2> QED
    BY <2>1
<1> QED
  BY <1>1, <1>2, <1>3 DEF Header

(* Nothing that the framing is about changes. *)
LEMMA FramingUnchanged ==
  ASSUME FramingInv, UNCHANGED <<up, closed, server, sock, out>>
  PROVE  FramingInv'
BY DEF FramingInv, FramingKept, DumpsPure, BufferFilled, Framing, InFlight, PagesRead, server, buffer

(* A dump is made of a buffer that is filled. *)
LEMMA DumpIsPure ==
  ASSUME IInv, DumpsPure, BufferFilled, phase = "finish", DumpMapping
  PROVE  DumpsPure'
<1>1. CASE dumps' = dumps
  BY <1>1 DEF DumpsPure
<1>2. CASE dumps' = dumps \cup {Dump}
  <2>1. Dump.call = info.call /\ Dump.content = root_buf
    BY DEF Dump
  <2>2. \A k \in 1 .. Len(root_buf) :
          root_buf[k] \in {Zero, [kind |-> "page", call |-> info.call, page |-> k - 1]}
    BY DEF BufferFilled
  <2> HIDE DEF Dump
  <2> QED
    BY <1>2, <2>1, <2>2 DEF DumpsPure
<1> QED
  BY <1>1, <1>2 DEF DumpMapping

(* The beginning of the stream of a message. *)
LEMMA SentFramed ==
  ASSUME IInv, Framing, NEW c \in Conn \ closed
  PROVE  Framed(info, PagesRead(c), up[c])
<1>1. up[c] \in Seq(Cell) /\ Unsent(out) \in Seq(Cell) /\ InFlight(c) \in Seq(Cell)
  BY FlowTypes
<1>2. Len(up[c]) <= Len(InFlight(c)) /\ \A i \in 1 .. Len(up[c]) : up[c][i] = InFlight(c)[i]
  BY <1>1 DEF InFlight
<1> QED
  BY <1>1, <1>2, FramedPrefix DEF Framing

(* The first cell of what is sent is the first of all. *)
LEMMA TailConcat ==
  ASSUME NEW s \in Seq(Cell), NEW r \in Seq(Cell), s # <<>>
  PROVE  s \o r # <<>> /\ Head(s \o r) = Head(s) /\ Tail(s) \o r = Tail(s \o r)
<1> DEFINE a == Tail(s) \o r
           b == Tail(s \o r)
<1>1. /\ s \o r \in Seq(Cell) /\ Len(s \o r) = Len(s) + Len(r) /\ Len(s) \in Nat \ {0} /\ Len(r) \in Nat
      /\ \A i \in 1 .. Len(s) + Len(r) : (s \o r)[i] = IF i <= Len(s) THEN s[i] ELSE r[i - Len(s)]
  OBVIOUS
<1>2. s \o r # <<>> /\ Head(s \o r) = Head(s)
  BY <1>1
<1>3. /\ Tail(s) \in Seq(Cell) /\ Len(Tail(s)) = Len(s) - 1
      /\ \A i \in 1 .. Len(s) - 1 : Tail(s)[i] = s[i + 1]
  OBVIOUS
<1>4. /\ a \in Seq(Cell) /\ Len(a) = Len(s) - 1 + Len(r)
      /\ \A i \in 1 .. Len(s) - 1 + Len(r) :
           a[i] = IF i <= Len(s) - 1 THEN Tail(s)[i] ELSE r[i - (Len(s) - 1)]
  BY <1>1, <1>3
<1>5. /\ b \in Seq(Cell) /\ Len(b) = Len(s) - 1 + Len(r)
      /\ \A i \in 1 .. Len(s) - 1 + Len(r) : b[i] = (s \o r)[i + 1]
  BY <1>1, <1>2, HeadTailProperties
<1> HIDE DEF a, b
<1>6. ASSUME NEW i \in 1 .. Len(s) - 1 + Len(r) PROVE a[i] = b[i]
  <2>1. i + 1 \in 1 .. Len(s) + Len(r) /\ (i + 1) - Len(s) = i - (Len(s) - 1)
    BY <1>1
  <2> QED
    BY <1>1, <1>3, <1>4, <1>5, <2>1
<1>7. a = b
  BY <1>4, <1>5, <1>6, SeqEqual
<1> QED
  BY <1>2, <1>7 DEF a, b

(* A cell is read from the connection being served, and nothing is sent. *)
LEMMA ConsumeEffect ==
  ASSUME IInv, sock_client \in Conn, up[sock_client] # <<>>, Consume, sock' = sock, out' = out
  PROVE  /\ InFlight(sock_client) # <<>> /\ InFlight(sock_client) \in Seq(Cell)
         /\ Head(InFlight(sock_client)) = Head(up[sock_client])
         /\ \A c \in Conn : InFlight(c)' = IF c = sock_client THEN Tail(InFlight(c)) ELSE InFlight(c)
<1>1. /\ up \in [Conn -> Seq(Cell)] /\ Unsent(out) \in Seq(Cell)
      /\ InFlight(sock_client) \in Seq(Cell)
  BY FlowTypes
<1>2. up' = [up EXCEPT ![sock_client] = Tail(@)]
  BY DEF Consume
<1>4. InFlight(sock_client) # <<>> /\ Head(InFlight(sock_client)) = Head(up[sock_client])
  BY <1>1, TailConcat DEF InFlight
<1>5. ASSUME NEW c \in Conn
      PROVE  InFlight(c)' = IF c = sock_client THEN Tail(InFlight(c)) ELSE InFlight(c)
  <2>1. up'[c] = IF c = sock_client THEN Tail(up[c]) ELSE up[c]
    BY <1>1, <1>2
  <2>2. Unsent(out)' = Unsent(out)
    BY DEF Unsent
  <2>3. c = sock_client => Tail(up[c]) \o Unsent(out) = Tail(up[c] \o Unsent(out))
    BY <1>1, TailConcat
  <2> QED
    BY <2>1, <2>2, <2>3 DEF InFlight
<1> QED
  BY <1>1, <1>4, <1>5

(* A header is read where one was due. *)
LEMMA RecvHeaderFraming ==
  ASSUME IInv, IInv', FramingInv, RecvHeader, sock' = sock, out' = out
  PROVE  FramingInv'
<1> DEFINE s == InFlight(sock_client)
           h == Head(up[sock_client])
<1>1. /\ FramingKept /\ DumpsPure /\ BufferFilled /\ Framing /\ ServerInv
      /\ phase = "header" /\ sock_client \in Conn \ closed /\ up[sock_client] # <<>> /\ h.kind = "header"
  BY FlowTypes DEF FramingInv, RecvHeader, Serving, Incoming, IInv
<1>2. /\ s # <<>> /\ s \in Seq(Cell) /\ Head(s) = h
      /\ \A c \in Conn : InFlight(c)' = IF c = sock_client THEN Tail(InFlight(c)) ELSE InFlight(c)
  BY <1>1, ConsumeEffect DEF RecvHeader
<1>3. /\ info' = h /\ phase' = (IF h.len > 0 THEN "payload" ELSE "finish") /\ total_read' = 0
      /\ UNCHANGED <<closed, sock_client, dumps>> /\ root_buf = <<>>
      /\ root_buf' = FreshBuffer(h.mapping_len)
  BY <1>1 DEF RecvHeader, ServerInv, BufferInUse
<1>4. h \in Header /\ info \in Header
  BY <1>3, FlowTypes DEF IInv, ServerInv, ServerTypeOK
<1>5. h.len \in Nat /\ h.mapped_addr \in Nat /\ h.mapping_len \in Nat
  BY <1>4, TcpServerAssumption DEF Header, Offset
<1> HIDE DEF s, h
<1>6. ASSUME NEW c \in Conn \ closed
      PROVE  /\ Framed(info', PagesRead(c)', InFlight(c)')
             /\ c = sock => Whole(info', PagesRead(c)', InFlight(c)')
  <2>1. Framed(info, PagesRead(c), InFlight(c)) /\ (c = sock => Whole(info, PagesRead(c), InFlight(c)))
    BY <1>1 DEF Framing
  <2>2. PagesRead(c) = info.len
    BY <1>1 DEF PagesRead
  <2>3. CASE c = sock_client
    <3>1. PagesRead(c)' = 0 /\ InFlight(c)' = Tail(s) /\ InFlight(c) = s
      BY <1>2, <1>3, <1>5, <2>3 DEF PagesRead, s
    <3>2. Framed(h, 0, Tail(s))
      BY <1>1, <1>2, <2>1, <3>1, HeaderRead
    <3>3. c = sock => Whole(h, 0, Tail(s))
      <4>1. info.len \in Int
        BY FlowTypes
      <4> QED
        BY <1>1, <1>2, <1>4, <2>1, <2>2, <3>1, <4>1, WholeTail
    <3> QED
      BY <1>3, <3>1, <3>2, <3>3
  <2>4. CASE c # sock_client
    <3>1. PagesRead(c)' = h.len /\ InFlight(c)' = InFlight(c) /\ InFlight(c) \in Seq(Cell)
      BY <1>2, <1>3, <2>4, FlowTypes DEF PagesRead
    <3> QED
      BY <1>3, <1>4, <2>1, <2>2, <3>1, Boundary
  <2> QED
    BY <2>3, <2>4
<1>7. Framing'
  BY <1>3, <1>6 DEF Framing
<1>8. BufferFilled'
  <2>1. \A k \in 1 .. h.mapping_len : FreshBuffer(h.mapping_len)[k] = Zero
    BY DEF FreshBuffer
  <2>2. Len(FreshBuffer(h.mapping_len)) = h.mapping_len
    BY <1>5 DEF FreshBuffer
  <2>3. phase' = "finish" => h.len = 0
    BY <1>3, <1>5
  <2>4. \A k : k \notin h.mapped_addr + 1 .. h.mapped_addr + 0
    BY <1>5
  <2> QED
    BY <1>3, <2>1, <2>2, <2>3, <2>4 DEF BufferFilled
<1>9. FramingKept' /\ DumpsPure'
  BY <1>1, <1>3 DEF FramingKept, DumpsPure
<1> QED
  BY <1>7, <1>8, <1>9 DEF FramingInv

(* A page is read, which is the next one of the message being read. *)
LEMMA RecvPayloadFraming ==
  ASSUME IInv, IInv', FramingInv, RecvPayload, sock' = sock, out' = out
  PROVE  FramingInv'
<1> DEFINE s == InFlight(sock_client)
<1>1. /\ FramingKept /\ DumpsPure /\ BufferFilled /\ Framing /\ PayloadFits
      /\ phase = "payload" /\ sock_client \in Conn \ closed /\ up[sock_client] # <<>>
  BY FlowTypes DEF FramingInv, RecvPayload, Serving, Incoming, IInv, ServerInv
<1>2. /\ s # <<>> /\ s \in Seq(Cell) /\ Head(s) = Head(up[sock_client])
      /\ \A c \in Conn : InFlight(c)' = IF c = sock_client THEN Tail(InFlight(c)) ELSE InFlight(c)
  BY <1>1, ConsumeEffect DEF RecvPayload
<1>3. /\ root_buf' = [root_buf EXCEPT ![Slot] = Head(up[sock_client])]
      /\ total_read' = total_read + 1
      /\ phase' = (IF total_read + 1 < info.len THEN "payload" ELSE "finish")
      /\ UNCHANGED <<closed, sock_client, dumps, info>>
  BY DEF RecvPayload
<1>4. /\ info \in Header /\ total_read \in Nat /\ info.len \in Nat /\ info.mapped_addr \in Nat
      /\ total_read < info.len /\ root_buf \in Seq(Content)
      /\ info.mapped_addr + info.len <= Len(root_buf)
  <2>1. /\ info \in Header /\ total_read \in 0 .. MaxLen /\ root_buf \in Seq(Content)
    BY DEF IInv, ServerInv, ServerTypeOK
  <2>2. info.len \in 0 .. MaxLen /\ info.mapped_addr \in 0 .. MaxLen - 1
    BY <2>1 DEF Header, Offset
  <2>3. total_read < info.len /\ info.mapped_addr + info.len <= Len(root_buf)
    BY <1>1 DEF PayloadFits
  <2> QED
    BY <2>1, <2>2, <2>3
<1> HIDE DEF s
<1>5. PagesRead(sock_client) = total_read /\ PagesRead(sock_client)' = total_read + 1
  BY <1>1, <1>3, <1>4 DEF PagesRead
<1>6. Framed(info, total_read, s) /\ (sock_client = sock => Whole(info, total_read, s))
  BY <1>1, <1>5 DEF Framing, s
<1>7. Head(s) = PageOf(info, total_read + 1)
  BY <1>2, <1>4, <1>6, NextCell
<1>8. ASSUME NEW c \in Conn \ closed
      PROVE  /\ Framed(info', PagesRead(c)', InFlight(c)')
             /\ c = sock => Whole(info', PagesRead(c)', InFlight(c)')
  <2>1. CASE c = sock_client
    <3>1. InFlight(c)' = Tail(s)
      BY <1>2, <2>1 DEF s
    <3>2. Framed(info, total_read + 1, Tail(s)) /\ (c = sock => Whole(info, total_read + 1, Tail(s)))
      BY <1>2, <1>4, <1>6, <2>1, PageRead, WholeTail
    <3> QED
      BY <1>3, <1>5, <2>1, <3>1, <3>2
  <2>2. CASE c # sock_client
    <3>1. PagesRead(c)' = PagesRead(c) /\ InFlight(c)' = InFlight(c)
      BY <1>2, <1>3, <2>2 DEF PagesRead
    <3> QED
      BY <1>1, <1>3, <3>1 DEF Framing
  <2> QED
    BY <2>1, <2>2
<1>9. Framing'
  BY <1>3, <1>8 DEF Framing
<1>10. BufferFilled'
  <2>1. /\ Slot = info.mapped_addr + total_read + 1 /\ Slot \in 1 .. Len(root_buf)
        /\ Len(root_buf') = Len(root_buf)
    BY <1>3, <1>4 DEF Slot
  <2>2. root_buf'[Slot] = [kind |-> "page", call |-> info.call, page |-> Slot - 1]
    <3>1. info.mapped_addr + (total_read + 1) - 1 = Slot - 1
      BY <1>4, <2>1
    <3>2. root_buf'[Slot] = PageOf(info, total_read + 1)
      BY <1>2, <1>3, <1>4, <1>7, <2>1
    <3> QED
      BY <3>1, <3>2 DEF PageOf
  <2>3. ASSUME NEW k \in 1 .. Len(root_buf'), k # Slot
        PROVE  root_buf'[k] = IF k \in info.mapped_addr + 1 .. info.mapped_addr + total_read
                              THEN [kind |-> "page", call |-> info.call, page |-> k - 1]
                              ELSE Zero
    <3>1. root_buf'[k] = root_buf[k]
      BY <1>3, <1>4, <2>1, <2>3
    <3> QED
      BY <1>1, <2>1, <3>1 DEF BufferFilled
  <2>4. \A k \in 1 .. Len(root_buf') :
          k \in info.mapped_addr + 1 .. info.mapped_addr + (total_read + 1)
          <=> k = Slot \/ k \in info.mapped_addr + 1 .. info.mapped_addr + total_read
    BY <1>4, <2>1
  <2>5. phase' = "finish" => total_read + 1 = info.len
    BY <1>3, <1>4
  <2> QED
    BY <1>3, <2>2, <2>3, <2>4, <2>5 DEF BufferFilled
<1>11. FramingKept' /\ DumpsPure'
  BY <1>1, <1>3 DEF FramingKept, DumpsPure
<1> QED
  BY <1>9, <1>10, <1>11 DEF FramingInv

(* A header is not mistaken for a page, nor a page for a header. *)
LEMMA NeverLost ==
  ASSUME IInv, FramingInv
  PROVE  ~LoseFraming /\ ~GarbledGoesOn /\ ~GarbledRefused /\ ~GarbledKilled
<1> DEFINE c == sock_client
<1>1. ~GarbledGoesOn /\ ~GarbledRefused /\ ~GarbledKilled
  BY DEF GarbledGoesOn, GarbledRefused, GarbledKilled, Serving, FramingInv, FramingKept
<1>2. ASSUME LoseFraming PROVE FALSE
  <2>1. /\ phase \in {"header", "payload"} /\ c \in Conn \ closed /\ up[c] # <<>>
        /\ Head(up[c]).kind = (IF phase = "header" THEN "page" ELSE "header")
    BY <1>2, FlowTypes DEF LoseFraming, Serving, Incoming
  <2>2. Framed(info, PagesRead(c), up[c]) /\ up[c] \in Seq(Cell) /\ info \in Header
    BY <2>1, SentFramed, FlowTypes DEF FramingInv
  <2>3. CASE phase = "header"
    <3>1. PagesRead(c) = info.len /\ info.len \in 0 .. info.len
      BY <2>3, FlowTypes, TcpServerAssumption DEF PagesRead
    <3>2. Head(up[c]).kind = "header"
      BY <2>1, <2>2, <3>1, NextCell
    <3> QED
      BY <2>1, <2>3, <3>2
  <2>4. CASE phase = "payload"
    <3>1. PagesRead(c) = total_read /\ total_read < info.len /\ total_read \in 0 .. info.len
      <4>1. total_read \in 0 .. MaxLen /\ total_read < info.len
        BY <2>4 DEF IInv, ServerInv, ServerTypeOK, PayloadFits
      <4>2. info.len \in 0 .. MaxLen
        BY FlowTypes
      <4> QED
        BY <2>4, <4>1, <4>2, TcpServerAssumption DEF PagesRead
    <3>2. Head(up[c]) = PageOf(info, total_read + 1)
      BY <2>1, <2>2, <3>1, NextCell
    <3> QED
      BY <2>1, <2>4, <3>2 DEF PageOf
  <2> QED
    BY <2>1, <2>3, <2>4
<1> QED
  BY <1>1, <1>2

(* The connection being served is closed; the others are between messages. *)
LEMMA CloseFraming ==
  ASSUME IInv, IInv', Framing, sock_client # NoConn, CloseClient, DumpsPure', sock' = sock, out' = out
  PROVE  FramingInv'
<1>1. /\ closed' = closed \cup {sock_client} /\ sock_client' = NoConn /\ phase' = "accept"
      /\ \A c \in Conn : c # sock_client => up'[c] = up[c]
  BY FlowTypes DEF CloseClient
<1>2. info \in Header /\ info' \in Header
  BY DEF IInv, ServerInv, ServerTypeOK
<1>3. ASSUME NEW c \in Conn \ closed'
      PROVE  /\ Framed(info', PagesRead(c)', InFlight(c)')
             /\ c = sock => Whole(info', PagesRead(c)', InFlight(c)')
  <2>1. PagesRead(c) = info.len /\ PagesRead(c)' = info'.len
    BY <1>1 DEF PagesRead
  <2>2. InFlight(c)' = InFlight(c) /\ InFlight(c) \in Seq(Cell)
    <3>1. Unsent(out)' = Unsent(out) /\ up'[c] = up[c]
      BY <1>1 DEF Unsent
    <3> QED
      BY <3>1, FlowTypes DEF InFlight
  <2>3. Framed(info, PagesRead(c), InFlight(c)) /\ (c = sock => Whole(info, PagesRead(c), InFlight(c)))
    BY <1>1 DEF Framing
  <2> QED
    BY <1>2, <2>1, <2>2, <2>3, Boundary
<1>4. FramingKept' /\ BufferFilled'
  BY <1>1 DEF FramingKept, BufferFilled
<1> QED
  BY <1>3, <1>4 DEF FramingInv, Framing

(* The server ends, and with it all connections that it knows. *)
LEMMA KilledFraming ==
  ASSUME IInv, IInv', LinkInv, FramingInv, KilledByAnswer, sock' = sock, out' = out
  PROVE  FramingInv'
<1>1. FramingKept /\ DumpsPure /\ BufferFilled /\ Framing /\ Connections /\ SocketInUse
  BY DEF FramingInv, LinkInv
<1>2. /\ closed' = closed \cup {sock_client} \cup Range(backlog)
      /\ sock_client' = NoConn /\ phase' = "killed" /\ info' = info
      /\ up' = [c \in Conn |-> <<>>] /\ backlog \in Seq(Conn)
  BY DEF KilledByAnswer, Killed, IInv, ServerInv, ServerTypeOK
<1>3. DumpsPure'
  <2>1. CASE phase = "finish" /\ DumpMapping
    BY <1>1, <2>1, DumpIsPure
  <2>2. CASE UNCHANGED dumps
    BY <1>1, <2>2 DEF DumpsPure
  <2> QED
    BY <2>1, <2>2 DEF KilledByAnswer, Serving
<1>4. ASSUME NEW c \in Conn \ closed'
      PROVE  /\ Framed(info', PagesRead(c)', InFlight(c)')
             /\ c = sock => Whole(info', PagesRead(c)', InFlight(c)')
  <2>1. PagesRead(c)' = info.len /\ info \in Header
    BY <1>2, FlowTypes DEF PagesRead
  <2>2. c # sock
    <3>1. c \notin closed /\ c # sock_client /\ ~InBacklog(c)
      BY <1>2 DEF InBacklog, Range
    <3> QED
      BY <1>1, <3>1, FlowTypes DEF Connections
  <2>3. InFlight(c)' = <<>>
    BY <1>2, <2>2 DEF InFlight
  <2> QED
    BY <1>2, <2>1, <2>2, <2>3, EmptyFramed
<1>5. FramingKept' /\ BufferFilled'
  BY <1>2 DEF FramingKept, BufferFilled
<1> QED
  BY <1>3, <1>4, <1>5 DEF FramingInv, Framing

(* Every step of the server keeps the framing. *)
LEMMA ServerFraming ==
  ASSUME IInv, IInv', LinkInv, FramingInv, ServerStep
  PROVE  FramingInv'
<1>1. sock' = sock /\ out' = out /\ ServerNext
  BY DEF ServerStep, globals, hooks
<1>2. FramingKept /\ DumpsPure /\ BufferFilled /\ Framing
  BY DEF FramingInv
<1>3. CASE Accept
  <2>1. sock_client = NoConn /\ phase = "accept" /\ phase' = "header" /\ UNCHANGED <<up, closed, info, dumps>>
    BY <1>3 DEF Accept, IInv, ServerInv, ServerTypeOK
  <2>2. ASSUME NEW c \in Conn PROVE PagesRead(c)' = PagesRead(c) /\ InFlight(c)' = InFlight(c)
    BY <1>1, <2>1 DEF PagesRead, InFlight, Unsent
  <2>3. Framing'
    BY <1>1, <1>2, <2>1, <2>2 DEF Framing
  <2> QED
    BY <1>2, <2>1, <2>3 DEF FramingInv, FramingKept, DumpsPure, BufferFilled
<1>4. CASE RecvHeader \/ RecvPayload
  BY <1>1, <1>4, RecvHeaderFraming, RecvPayloadFraming
<1>5. CASE RefuseHeader \/ ClientGone
  <2>1. CloseClient /\ sock_client # NoConn /\ dumps' = dumps
    BY <1>5 DEF RefuseHeader, ClientGone, Serving, IInv, ServerInv, ServerTypeOK
  <2>2. DumpsPure'
    BY <1>2, <2>1 DEF DumpsPure
  <2> QED
    BY <1>1, <1>2, <2>1, <2>2, CloseFraming
<1>6. CASE AnswerFails
  <2>1. CloseClient /\ sock_client # NoConn /\ phase = "finish" /\ DumpMapping
    BY <1>6 DEF AnswerFails, Serving
  <2>2. DumpsPure'
    BY <1>2, <2>1, DumpIsPure
  <2> QED
    BY <1>1, <1>2, <2>1, <2>2, CloseFraming
<1>7. CASE FinishMessage
  <2>1. /\ phase = "finish" /\ phase' = "header" /\ UNCHANGED <<up, closed, sock_client, info, total_read>>
    BY <1>7 DEF FinishMessage, Serving
  <2>2. DumpsPure'
    <3>1. CASE UNCHANGED <<dumps, down>>
      BY <1>2, <3>1 DEF DumpsPure
    <3>2. CASE DumpAndAnswer
      BY <1>2, <2>1, <3>2, DumpIsPure DEF DumpAndAnswer
    <3> QED
      BY <1>7, <3>1, <3>2 DEF FinishMessage
  <2>3. ASSUME NEW c \in Conn PROVE PagesRead(c)' = PagesRead(c) /\ InFlight(c)' = InFlight(c)
    BY <1>1, <2>1 DEF PagesRead, InFlight, Unsent
  <2>4. Framing'
    BY <1>1, <1>2, <2>1, <2>3 DEF Framing
  <2> QED
    BY <2>1, <2>2, <2>4 DEF FramingInv, FramingKept, BufferFilled
<1>8. CASE LoseFraming \/ GarbledGoesOn \/ GarbledRefused \/ GarbledKilled
  BY <1>8, NeverLost
<1>9. CASE KilledByAnswer
  BY <1>1, <1>9, KilledFraming
<1> QED
  BY <1>1, <1>3, <1>4, <1>5, <1>6, <1>7, <1>8, <1>9 DEF ServerNext

-----------------------------------------------------------------------------
(* All that is unsent is of the hook at work. *)
LEMMA HookUnsent ==
  ASSUME IInv, LinkInv, NEW t \in Task, pc[t] # "idle"
  PROVE  Unsent(out) = out[t] /\ \A u \in Task : u # t => out[u] = <<>>
<1>1. OneHook /\ SocketInUse /\ out \in [Task -> Seq(Cell)]
  BY DEF LinkInv, IInv, HooksOK
<1>2. \A u \in Task : u # t => out[u] = <<>>
  <2>1. ASSUME NEW u \in Task, u # t PROVE out[u] = <<>>
    <3>1. pc[u] = "idle"
      BY <1>1, <2>1, OthersIdle
    <3> QED
      BY <1>1, <3>1 DEF SocketInUse
  <2> QED
    BY <2>1
<1> QED
  BY <1>1, <1>2, UnsentOf

(* The server's part is not touched by the hooks. *)
LEMMA HookFraming ==
  ASSUME FramingInv, UNCHANGED <<closed, server>>, Framing'
  PROVE  FramingInv'
BY DEF FramingInv, FramingKept, DumpsPure, BufferFilled, server, buffer

(* A new connection is empty. *)
LEMMA ConnectFraming ==
  ASSUME IInv, IInv', LinkInv, FramingInv, NEW t \in Task, Connect(t)
  PROVE  FramingInv'
<1> DEFINE c == CHOOSE c \in Unused : TRUE
<1>1. /\ OneHook /\ SocketInUse /\ Connections /\ Framing /\ NoConn \notin Conn
  BY FlowTypes DEF LinkInv, FramingInv
<1>2. c \in Unused
  BY DEF Connect
<1>3. c \in Conn /\ c \notin hungup /\ c \notin closed /\ c # sock_client
  BY <1>2 DEF Unused
<1> HIDE DEF c
<1>4. /\ pc[t] = "connecting" /\ sock' = c /\ UNCHANGED <<up, closed, server, out>>
  BY DEF Connect, c
<1>5. sock = NoConn /\ c # sock /\ up[c] = <<>>
  BY <1>1, <1>3, <1>4 DEF SocketInUse, Connections, Untouched
<1>6. Unsent(out) = <<>>
  <2>1. out[t] = <<>>
    BY <1>1, <1>4 DEF SocketInUse
  <2> QED
    BY <1>4, <2>1, HookUnsent
<1>7. ASSUME NEW d \in Conn \ closed'
      PROVE  /\ Framed(info', PagesRead(d)', InFlight(d)')
             /\ d = sock' => Whole(info', PagesRead(d)', InFlight(d)')
  <2>1. info' = info /\ info \in Header /\ PagesRead(d)' = PagesRead(d) /\ Unsent(out)' = Unsent(out)
    BY <1>4, FlowTypes DEF PagesRead, server, Unsent
  <2>2. CASE d = c
    <3>1. PagesRead(d) = info.len
      BY <1>3, <2>2 DEF PagesRead
    <3>2. InFlight(d)' = <<>>
      BY <1>4, <1>5, <1>6, <2>1, <2>2 DEF InFlight
    <3> QED
      BY <2>1, <3>1, <3>2, EmptyFramed
  <2>3. CASE d # c
    <3>1. InFlight(d)' = InFlight(d)
      BY <1>1, <1>4, <1>5, <2>3 DEF InFlight
    <3> QED
      BY <1>1, <1>4, <2>1, <2>3, <3>1 DEF Framing
  <2> QED
    BY <2>2, <2>3
<1>8. Framing'
  BY <1>7 DEF Framing
<1> QED
  BY <1>4, <1>8, HookFraming

(* A message is put together when all earlier ones have been sent. *)
LEMMA FlushFraming ==
  ASSUME IInv, IInv', LinkInv, FramingInv, NEW t \in Task,
         NEW run \in SUBSET Offset, NEW end \in BOOLEAN, pc[t] = "walk", FlushRun(t, run, end)
  PROVE  FramingInv'
<1> DEFINE m == Message(t, run, end)
<1>1. /\ OneHook /\ SocketInUse /\ Connections /\ Framing /\ out \in [Task -> Seq(Cell)]
  BY FlowTypes DEF LinkInv, FramingInv
<1>2. /\ UNCHANGED <<up, closed, server, sock>>
      /\ out' = [out EXCEPT ![t] = m] \/ out' = [out EXCEPT ![t] = <<>>]
  BY DEF FlushRun, network, globals
<1>3. Unsent(out) = <<>> /\ \A u \in Task : u # t => out[u] = <<>>
  <2>1. out[t] = <<>>
    BY <1>1 DEF SocketInUse
  <2> QED
    BY <2>1, HookUnsent
<1>4. m \in Seq(Cell) /\ info \in Header /\ Framed(info, info.len, m) /\ Whole(info, info.len, m)
  BY FlowTypes, MessageType, MessageFramed DEF IInv
<1> HIDE DEF m
<1>5. Unsent(out') \in {m, <<>>}
  <2>1. PICK x \in {m, <<>>} : out' = [out EXCEPT ![t] = x]
    BY <1>2
  <2>2. x \in Seq(Cell)
    <3>1. m \in Seq(Cell) /\ <<>> \in Seq(Cell)
      BY <1>4
    <3> QED
      BY <2>1, <3>1
  <2>3. out' \in [Task -> Seq(Cell)] /\ out'[t] = x /\ \A u \in Task : u # t => out'[u] = <<>>
    BY <1>1, <1>3, <2>1, <2>2
  <2>4. Unsent(out') = x
    BY <2>3, UnsentOf
  <2> QED
    BY <2>1, <2>4
<1>6. ASSUME NEW c \in Conn \ closed'
      PROVE  /\ Framed(info', PagesRead(c)', InFlight(c)')
             /\ c = sock' => Whole(info', PagesRead(c)', InFlight(c)')
  <2>1. /\ info' = info /\ PagesRead(c)' = PagesRead(c) /\ c \notin closed
        /\ up[c] \in Seq(Cell) /\ sock' = sock /\ up' = up
    BY <1>2, FlowTypes DEF PagesRead, server
  <2>2. Framed(info, PagesRead(c), InFlight(c)) /\ (c = sock => Whole(info, PagesRead(c), InFlight(c)))
    BY <1>1, <2>1 DEF Framing
  <2>3. InFlight(c) = up[c]
    BY <1>3, <2>1 DEF InFlight
  <2>4. CASE InFlight(c)' = up[c]
    BY <2>1, <2>2, <2>3, <2>4
  <2>5. CASE c = sock /\ InFlight(c)' = up[c] \o m
    <3>1. PagesRead(c) \in 0 .. info.len
      <4>1. CASE c = sock_client /\ phase = "payload"
        <5>1. total_read \in 0 .. MaxLen /\ total_read < info.len
          BY <4>1 DEF IInv, ServerInv, ServerTypeOK, PayloadFits
        <5>2. info.len \in 0 .. MaxLen
          BY FlowTypes
        <5> QED
          BY <4>1, <5>1, <5>2, TcpServerAssumption DEF PagesRead
      <4>2. CASE ~(c = sock_client /\ phase = "payload")
        <5>1. info.len \in 0 .. MaxLen /\ PagesRead(c) = info.len
          BY <4>2, FlowTypes DEF PagesRead
        <5> QED
          BY <5>1, TcpServerAssumption
      <4> QED
        BY <4>1, <4>2
    <3> QED
      BY <1>4, <2>1, <2>2, <2>3, <2>5, <3>1, FramedConcat
  <2>6. InFlight(c)' = up[c] \/ (c = sock /\ InFlight(c)' = up[c] \o m)
    <3>1. Unsent(out)' = Unsent(out')
      BY DEF Unsent
    <3>2. up[c] \o <<>> = up[c]
      BY <2>1, ConcatEmptySeq
    <3>3. CASE c = sock
      <4>1. InFlight(c)' = up[c] \o Unsent(out')
        BY <2>1, <3>1, <3>3 DEF InFlight
      <4> QED
        BY <1>5, <3>2, <3>3, <4>1
    <3>4. CASE c # sock
      BY <2>1, <3>4 DEF InFlight
    <3> QED
      BY <3>3, <3>4
  <2> QED
    BY <2>4, <2>5, <2>6
<1>7. Framing'
  BY <1>6 DEF Framing
<1> QED
  BY <1>2, <1>7, HookFraming

(* A cell that is sent stays where it is in the stream. *)
LEMMA SendFraming ==
  ASSUME IInv, LinkInv, FramingInv, NEW t \in Task, SendCell(t)
  PROVE  /\ FramingInv'
         /\ \A c \in Conn : InFlight(c)' = InFlight(c)
<1>1. /\ OneHook /\ SocketInUse /\ Connections /\ Framing
      /\ out \in [Task -> Seq(Cell)] /\ up \in [Conn -> Seq(Cell)]
  BY FlowTypes DEF LinkInv, FramingInv
<1>2. SockOf(t) = sock
  BY <1>1, OneSocket
<1>3. /\ pc[t] = "send" /\ out[t] # <<>> /\ sock # NoConn
      /\ up' = [up EXCEPT ![sock] = Append(@, Head(out[t]))]
      /\ out' = [out EXCEPT ![t] = Tail(@)]
      /\ UNCHANGED <<closed, server, sock>>
  BY <1>2 DEF SendCell, globals
<1>4. sock \in Conn /\ out[t] \in Seq(Cell) /\ up[sock] \in Seq(Cell)
  BY <1>1, <1>3, FlowTypes
<1>5. Unsent(out) = out[t] /\ \A u \in Task : u # t => out[u] = <<>>
  BY <1>3, HookUnsent
<1>6. Unsent(out') = Tail(out[t])
  <2>1. Tail(out[t]) \in Seq(Cell)
    BY <1>3, <1>4, HeadTailProperties
  <2>2. out' \in [Task -> Seq(Cell)] /\ out'[t] = Tail(out[t]) /\ \A u \in Task : u # t => out'[u] = <<>>
    BY <1>1, <1>3, <1>5, <2>1
  <2> QED
    BY <2>2, UnsentOf
<1>7. ASSUME NEW s \in Seq(Cell), NEW o \in Seq(Cell), o # <<>>
      PROVE  Append(s, Head(o)) \o Tail(o) = s \o o
  <2>1. /\ Head(o) = o[1] /\ Head(o) \in Cell /\ Tail(o) \in Seq(Cell) /\ Len(Tail(o)) = Len(o) - 1
        /\ \A i \in 1 .. Len(o) - 1 : Tail(o)[i] = o[i + 1]
        /\ Len(o) \in Nat \ {0} /\ Len(s) \in Nat
    BY <1>7, HeadTailProperties
  <2> DEFINE p == Append(s, Head(o))
             a == p \o Tail(o)
             b == s \o o
  <2>2. /\ p \in Seq(Cell) /\ Len(p) = Len(s) + 1 /\ p[Len(s) + 1] = o[1]
        /\ \A i \in 1 .. Len(s) : p[i] = s[i]
    BY <2>1
  <2> HIDE DEF p
  <2>3. /\ a \in Seq(Cell) /\ Len(a) = Len(s) + Len(o)
        /\ \A i \in 1 .. Len(s) + Len(o) :
             a[i] = IF i <= Len(s) + 1 THEN p[i] ELSE Tail(o)[i - (Len(s) + 1)]
    BY <2>1, <2>2
  <2>4. /\ b \in Seq(Cell) /\ Len(b) = Len(s) + Len(o)
        /\ \A i \in 1 .. Len(s) + Len(o) : b[i] = IF i <= Len(s) THEN s[i] ELSE o[i - Len(s)]
    BY <2>1
  <2> HIDE DEF a, b
  <2>5. ASSUME NEW i \in 1 .. Len(s) + Len(o) PROVE a[i] = b[i]
    <3>1. CASE i <= Len(s)
      BY <2>1, <2>2, <2>3, <2>4, <3>1
    <3>2. CASE i = Len(s) + 1
      BY <2>1, <2>2, <2>3, <2>4, <3>2
    <3>3. CASE i > Len(s) + 1
      <4>1. /\ i - (Len(s) + 1) \in 1 .. Len(o) - 1
            /\ (i - (Len(s) + 1)) + 1 = i - Len(s)
            /\ ~(i <= Len(s) + 1) /\ ~(i <= Len(s))
        BY <2>1, <3>3
      <4>2. a[i] = Tail(o)[i - (Len(s) + 1)] /\ b[i] = o[i - Len(s)]
        BY <2>3, <2>4, <4>1
      <4>3. Tail(o)[i - (Len(s) + 1)] = o[(i - (Len(s) + 1)) + 1]
        BY <2>1, <4>1
      <4> QED
        BY <4>1, <4>2, <4>3
    <3> QED
      BY <2>1, <3>1, <3>2, <3>3
  <2>6. a = b
    BY <2>3, <2>4, <2>5, SeqEqual
  <2> QED
    BY <2>6 DEF a, b, p
<1>8. ASSUME NEW c \in Conn PROVE InFlight(c)' = InFlight(c)
  <2>1. Unsent(out)' = Unsent(out') /\ sock' = sock
    BY <1>3 DEF Unsent
  <2>2. CASE c = sock
    <3>1. up'[c] = Append(up[sock], Head(out[t]))
      BY <1>1, <1>3, <1>4, <2>2
    <3>2. InFlight(c)' = Append(up[sock], Head(out[t])) \o Tail(out[t])
      BY <1>6, <2>1, <2>2, <3>1 DEF InFlight
    <3>3. InFlight(c) = up[sock] \o out[t]
      BY <1>5, <2>2 DEF InFlight
    <3> QED
      BY <1>3, <1>4, <1>7, <3>2, <3>3
  <2>3. CASE c # sock
    BY <1>1, <1>3, <2>1, <2>3 DEF InFlight
  <2> QED
    BY <2>2, <2>3
<1>9. Framing'
  BY <1>1, <1>3, <1>8 DEF Framing, PagesRead, server
<1> QED
  BY <1>3, <1>8, <1>9, HookFraming

(* What is thrown away was meant for a connection that is closed. *)
LEMMA DiscardFraming ==
  ASSUME IInv, LinkInv, FramingInv, NEW t \in Task, SendDiscarded(t)
  PROVE  FramingInv'
<1>1. SockOf(t) = sock /\ Framing
  BY OneSocket DEF LinkInv, FramingInv
<1>2. sock \in closed /\ UNCHANGED <<up, closed, server, sock>>
  BY <1>1 DEF SendDiscarded, network, globals
<1>3. \A c \in Conn \ closed : InFlight(c)' = InFlight(c) /\ c # sock
  BY <1>2 DEF InFlight
<1>4. Framing'
  BY <1>1, <1>2, <1>3 DEF Framing, PagesRead, server
<1> QED
  BY <1>2, <1>4, HookFraming

(* A restart leaves a beginning of what every connection carried. *)
LEMMA RebootFraming ==
  ASSUME IInv, LinkInv, FramingInv, Reboot
  PROVE  FramingInv'
<1>1. Framing /\ up \in [Conn -> Seq(Cell)] /\ NoConn \notin Conn
  BY FlowTypes DEF FramingInv
<1>2. sock' = NoConn /\ UNCHANGED <<closed, server>>
  BY DEF Reboot
<1>3. PICK cut \in [Conn -> 0 .. SendBuffer] :
        /\ \A c \in Conn : cut[c] <= Len(up[c])
        /\ up' = [c \in Conn |-> SubSeq(up[c], 1, cut[c])]
  BY DEF Reboot
<1>4. ASSUME NEW c \in Conn \ closed PROVE Framed(info, PagesRead(c), InFlight(c)')
  <2>1. up[c] \in Seq(Cell) /\ cut[c] \in Nat /\ cut[c] <= Len(up[c])
    BY <1>1, <1>3, McheckTcpAssumption
  <2>2. InFlight(c)' = SubSeq(up[c], 1, cut[c])
    BY <1>1, <1>2, <1>3 DEF InFlight
  <2>3. /\ InFlight(c)' \in Seq(Cell) /\ Len(InFlight(c)') = cut[c]
        /\ \A i \in 1 .. cut[c] : InFlight(c)'[i] = up[c][i]
    BY <2>1, <2>2, SubSeqProperties
  <2>4. Framed(info, PagesRead(c), up[c])
    BY <1>1, SentFramed
  <2> QED
    BY <2>1, <2>3, <2>4, FramedPrefix
<1>5. Framing'
  <2>1. \A c \in Conn : PagesRead(c)' = PagesRead(c) /\ c # sock'
    BY <1>1, <1>2 DEF PagesRead, server
  <2> QED
    BY <1>2, <1>4, <2>1 DEF Framing, server
<1> QED
  BY <1>2, <1>5, HookFraming

(* The framing is kept by every step. *)
LEMMA FramingStep ==
  ASSUME IInv, IInv', LinkInv, FramingInv, [Next]_vars
  PROVE  FramingInv'
<1>1. CASE UNCHANGED vars
  BY <1>1, FramingUnchanged DEF vars, network, globals, hooks
<1>2. ASSUME NEW t \in Task, EnterPageHook(t) \/ EnterBpfHook(t) PROVE FramingInv'
  <2>1. UNCHANGED <<up, closed, server, sock, out>>
    BY <1>2 DEF EnterPageHook, EnterBpfHook, network, globals
  <2> QED
    BY <2>1, FramingUnchanged
<1>3. ASSUME NEW t \in Task, FlushNextRun(t) \/ GrowFails(t) \/ FlushAborted(t) PROVE FramingInv'
  <2>1. pc[t] = "walk" /\ left[t] \in SUBSET Offset
    BY <1>3 DEF FlushNextRun, GrowFails, FlushAborted, IInv, HooksOK
  <2>2. PICK run \in SUBSET Offset, end \in BOOLEAN : FlushRun(t, run, end)
    <3>1. CASE FlushNextRun(t)
      <4> DEFINE run == IF left[t] = {} THEN {} ELSE FirstRun(left[t])
      <4>1. run \in SUBSET Offset /\ IsLastFlush(t, run) \in BOOLEAN
        BY <2>1 DEF FirstRun, IsLastFlush
      <4>2. FlushRun(t, run, IsLastFlush(t, run))
        BY <3>1 DEF FlushNextRun
      <4> HIDE DEF run
      <4> QED
        BY <4>1, <4>2
    <3>2. CASE GrowFails(t)
      <4>1. PICK p \in FirstRun(left[t]) \ {Min(left[t])} : FlushRun(t, Min(left[t]) .. p - 1, FALSE)
        BY <3>2 DEF GrowFails
      <4>2. p \in Offset /\ Min(left[t]) \in Offset
        BY <2>1, <3>2, <4>1, MinOf DEF FirstRun, GrowFails
      <4>3. Min(left[t]) .. p - 1 \in SUBSET Offset
        BY <4>2, TcpServerAssumption DEF Offset
      <4> QED
        BY <4>1, <4>3
    <3>3. CASE FlushAborted(t)
      BY <2>1, <3>3 DEF FlushAborted
    <3> QED
      BY <1>3, <3>1, <3>2, <3>3
  <2> QED
    BY <2>1, <2>2, FlushFraming
<1>4. ASSUME NEW t \in Task, Connect(t) \/ SendCell(t) \/ SendDiscarded(t) PROVE FramingInv'
  BY <1>4, ConnectFraming, SendFraming, DiscardFraming
<1>5. ASSUME NEW t \in Task,
             \/ TestSock(t) \/ ConnectFails(t) \/ PassGates(t) \/ StopAtGates(t) \/ NullSock(t)
             \/ SendOnClosed(t) \/ MessageSent(t) \/ RecvAnswer(t) \/ StopReceiving(t)
             \/ RecvNothing(t) \/ ReturnVerdict(t)
      PROVE  FramingInv'
  <2>1. UNCHANGED <<up, closed, server, out>>
    BY <1>5 DEF TestSock, ConnectFails, PassGates, StopAtGates, NullSock, SendOnClosed, MessageSent,
                RecvAnswer, StopReceiving, RecvNothing, ReturnVerdict, network
  <2>2. sock' = sock
    BY <1>5 DEF TestSock, ConnectFails, PassGates, StopAtGates, NullSock, SendOnClosed, MessageSent,
                RecvAnswer, StopReceiving, RecvNothing, ReturnVerdict, globals, LinkInv, SocketInUse
  <2> QED
    BY <2>1, <2>2, FramingUnchanged
<1>6. CASE ServerStep
  BY <1>6, ServerFraming
<1>7. CASE Reboot
  BY <1>7, RebootFraming
<1> QED
  BY <1>1, <1>2, <1>3, <1>4, <1>5, <1>6, <1>7 DEF Next, HookStep

(* Nothing is on its way before the first call. *)
LEMMA FramingInit == Init => FramingInv
<1> SUFFICES ASSUME Init PROVE FramingInv
  OBVIOUS
<1>1. /\ phase = "accept" /\ dumps = {} /\ sock = NoConn /\ NoConn \notin Conn
      /\ \A c \in Conn : up[c] = <<>>
  BY TcpServerAssumption DEF Init, ServerInit
<1>2. info \in Header
  BY InitInvariant, FlowTypes
<1>3. \A c \in Conn : InFlight(c) = <<>> /\ PagesRead(c) = info.len /\ c # sock
  BY <1>1 DEF InFlight, PagesRead
<1> QED
  BY <1>1, <1>2, <1>3, EmptyFramed DEF FramingInv, FramingKept, DumpsPure, BufferFilled, Framing

(***************************************************************************)
(* When hooks run one at a time, every stream is cut into the messages it  *)
(* was made of, whatever fails and whenever the machine is restarted.      *)
(***************************************************************************)
THEOREM FramingInvariant == ASSUME Exclusive PROVE Spec => []FramingInv
<1>1. Init => FramingInv
  BY FramingInit
<1>2. IInv /\ IInv' /\ LinkInv /\ FramingInv /\ [Next]_vars => FramingInv'
  BY FramingStep
<1> QED
  BY <1>1, <1>2, Invariant, LinkInvariant, PTL DEF Spec

(* The server finds a header wherever it expects one. *)
THEOREM StreamStaysFramed == ASSUME Exclusive PROVE Spec => []FramingKept
<1>1. FramingInv => FramingKept
  BY DEF FramingInv
<1> QED
  BY <1>1, FramingInvariant, PTL

(* No page of another mapping, task or connection gets into a dump. *)
THEOREM DumpsHoldTheirOwnPages == ASSUME Exclusive PROVE Spec => []DumpsPure
<1>1. FramingInv => DumpsPure
  BY DEF FramingInv
<1> QED
  BY <1>1, FramingInvariant, PTL
=============================================================================
