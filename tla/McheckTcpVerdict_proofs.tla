------------------------ MODULE McheckTcpVerdict_proofs ------------------------
(***************************************************************************)
(* The verdicts of the TCP mode when hooks run one at a time: a hook that  *)
(* returns one finds its mapping dumped, and, as long as no wait is        *)
(* interrupted and no walk aborted, the verdict is about its own pages.    *)
(***************************************************************************)
EXTENDS McheckTcpFraming_proofs

(* All cells of the connection in use, the unsent ones included. *)
Wire == InFlight(sock)

Headers(s) == {h \in {s[k] : k \in 1 .. Len(s)} : h.kind = "header"}

(* The server is in the middle of a message of the connection in use. *)
Unfinished == sock_client = sock /\ phase \in {"payload", "finish"}

(* The messages that the server has not dealt with. *)
Pending == Headers(Wire) \cup {h \in {info} : Unfinished}

-----------------------------------------------------------------------------
(* A call that has been made. *)
Past(x) == x[2] <= calls[x[1]]

(* The mapping of t leaves in one message. *)
OneMessage(t) == OneRun(mapping[t]) /\ ~memory_error[t]

(* The message of h has all pages of m. *)
Describes(h, m) ==
  /\ h.mapped_addr = Min(m.present)
  /\ h.len = Cardinality(m.present)
  /\ h.mapping_len = m.len

(* A message that ends the mapping of a call, if it is the only one, has it all. *)
Sound(h) ==
  /\ Past(h.call)
  /\ \A t \in Task :
       h.call = ThisCall(t) /\ h.is_end_of_mapping /\ OneMessage(t) => Describes(h, mapping[t])

(* An answer to a call was given after the dump. *)
Answered(x) ==
  /\ Past(x)
  /\ \A t \in Task : x = ThisCall(t) /\ OneMessage(t) => DumpedWhole(t)

WireSound ==
  sock # NoConn => /\ \A h \in Pending : Sound(h)
                   /\ \A k \in 1 .. Len(down[sock]) : Answered(down[sock][k])

(* How far the hook of t is with its mapping, and what it knows of the dump. *)
HookSound(t) ==
  /\ pc[t] \in {"connect", "connecting", "gates", "walk"} /\ OneMessage(t) =>
       left[t] = mapping[t].present
  /\ pc[t] = "send" /\ OneMessage(t) => ended[t]
  /\ pc[t] \in {"recv", "drain", "ret"} => ~memory_error[t]
  /\ pc[t] = "drain" /\ reply[t] = ThisCall(t) /\ OneRun(mapping[t]) => DumpedWhole(t)
  /\ pc[t] = "ret" /\ analyzer_response = ThisCall(t) /\ OneRun(mapping[t]) => DumpedWhole(t)
  /\ result[t] = ThisCall(t) /\ OneRun(mapping[t]) => DumpedWhole(t)

SoundInv ==
  /\ WireSound
  /\ \A t \in Task : HookSound(t)
  /\ \A t \in Task : calls[t] = 0 => mapping[t].present = {}

-----------------------------------------------------------------------------
Exchange == {"walk", "send", "recv", "spin"}

(* No header comes after the one that ends the mapping. *)
EndLast(s) ==
  \A j, k \in 1 .. Len(s) :
    j < k /\ s[j].kind = "header" /\ s[k].kind = "header" => ~s[j].is_end_of_mapping

(* The server has dealt with everything that was sent. *)
AllRead == Wire = <<>> /\ ~Unfinished

(* Between two hooks the connection is idle. *)
Quiet == AllRead /\ down[sock] = <<>>

(* The connection while the hook of t exchanges messages with the server. *)
Exchanging(t) ==
  /\ \A h \in Pending : h.call = ThisCall(t) /\ (h.is_end_of_mapping => ended[t])
  /\ EndLast(Wire)
  /\ Unfinished /\ info.is_end_of_mapping => Headers(Wire) = {}
  /\ down[sock] # <<>> => ended[t] /\ down[sock] = <<ThisCall(t)>> /\ AllRead

(* The hook of t gets the one answer that is due, and it is about its call. *)
AtTurn(t) ==
  /\ ~memory_error[t]
  /\ pc[t] \in Exchange => Exchanging(t)
  /\ pc[t] \in {"connect", "connecting", "gates", "walk"} => ~ended[t]
  /\ pc[t] = "recv" => ended[t]
  /\ pc[t] = "drain" => reply[t] = ThisCall(t)
  /\ pc[t] = "ret" => analyzer_response = ThisCall(t)
  /\ result[t] \in Verdict => result[t] = ThisCall(t)

TurnInv ==
  /\ sock # NoConn /\ (\A t \in Task : pc[t] \notin Exchange) => Quiet
  /\ \A t \in Task : AtTurn(t)

-----------------------------------------------------------------------------
(* The headers of two parts of a stream are those of the whole. *)
LEMMA HeadersConcat ==
  ASSUME NEW s \in Seq(Cell), NEW m \in Seq(Cell)
  PROVE  Headers(s \o m) = Headers(s) \cup Headers(m)
<1> DEFINE r == s \o m
<1>1. /\ Len(r) = Len(s) + Len(m) /\ Len(s) \in Nat /\ Len(m) \in Nat
      /\ \A i \in 1 .. Len(s) : r[i] = s[i] /\ i \in 1 .. Len(r)
      /\ \A i \in 1 .. Len(m) : r[Len(s) + i] = m[i] /\ Len(s) + i \in 1 .. Len(r)
      /\ \A i \in 1 .. Len(r) : i \in 1 .. Len(s) \/ (i - Len(s) \in 1 .. Len(m) /\ r[i] = m[i - Len(s)])
  OBVIOUS
<1> HIDE DEF r
<1>2. ASSUME NEW h \in Headers(s) \cup Headers(m) PROVE h \in Headers(r)
  BY <1>1 DEF Headers
<1>3. ASSUME NEW h \in Headers(r) PROVE h \in Headers(s) \cup Headers(m)
  BY <1>1 DEF Headers
<1> QED
  BY <1>2, <1>3 DEF r

(* Reading a cell takes one header away, or none. *)
LEMMA HeadersTail ==
  ASSUME NEW s \in Seq(Cell), s # <<>>
  PROVE  /\ Headers(Tail(s)) \subseteq Headers(s)
         /\ Head(s).kind = "header" => Head(s) \in Headers(s)
<1>1. \A i \in 1 .. Len(Tail(s)) : i + 1 \in 1 .. Len(s) /\ Tail(s)[i] = s[i + 1]
  OBVIOUS
<1>2. 1 \in 1 .. Len(s) /\ Head(s) = s[1]
  OBVIOUS
<1> QED
  BY <1>1, <1>2 DEF Headers

(* A message has one header, at its beginning. *)
LEMMA HeadersMessage ==
  ASSUME IInv, NEW t \in Task, pc[t] # "idle", NEW run \in SUBSET Offset, NEW end \in BOOLEAN
  PROVE  /\ \A h \in Headers(Message(t, run, end)) :
              h = [kind |-> "header", call |-> ThisCall(t),
                   mapped_addr |-> IF run = {} THEN 0 ELSE Min(run), len |-> Cardinality(run),
                   mapping_len |-> mapping[t].len, is_end_of_mapping |-> end]
         /\ \A k \in 1 .. Len(Message(t, run, end)) :
              Message(t, run, end)[k].kind = "header" => k = 1
<1> DEFINE m == Message(t, run, end)
           x == [kind |-> "header", call |-> ThisCall(t),
                 mapped_addr |-> IF run = {} THEN 0 ELSE Min(run), len |-> Cardinality(run),
                 mapping_len |-> mapping[t].len, is_end_of_mapping |-> end]
           cells == [k \in 1 .. Cardinality(run) |->
                       [kind |-> "page", call |-> ThisCall(t),
                        page |-> (IF run = {} THEN 0 ELSE Min(run)) + k - 1]]
<1>1. m \in Seq(Cell) /\ m = <<x>> \o cells
  BY MessageType DEF IInv, Message, DataLen
<1>2. Cardinality(run) \in Nat /\ Len(cells) = Cardinality(run)
  BY RunSize, TcpServerAssumption
<1>3. \A k \in 1 .. Cardinality(run) : cells[k].kind = "page"
  OBVIOUS
<1> HIDE DEF x, cells, m
<1>4. m[1] = x /\ \A i \in 1 .. Len(m) : i = 1 \/ m[i].kind = "page"
  <2>1. cells \in Seq(Cell)
    <3>1. \A k \in 1 .. Cardinality(run) : cells[k] = m[k + 1] /\ k + 1 \in 1 .. Len(m)
      BY <1>1, <1>2
    <3>2. \A k \in 1 .. Cardinality(run) : cells[k] \in Cell
      BY <1>1, <3>1
    <3> QED
      BY <1>2, <3>2 DEF cells
  <2>2. /\ Len(m) = Cardinality(run) + 1 /\ m[1] = x
        /\ \A i \in 2 .. Len(m) : m[i] = cells[i - 1] /\ i - 1 \in 1 .. Cardinality(run)
    BY <1>1, <1>2, <2>1
  <2> QED
    BY <1>2, <1>3, <2>2
<1> QED
  BY <1>4 DEF Headers, x, m

(* No header comes after the last one, however much of the stream is gone. *)
LEMMA EndLastTail ==
  ASSUME NEW s \in Seq(Cell), s # <<>>, EndLast(s)
  PROVE  /\ EndLast(Tail(s))
         /\ Head(s).kind = "header" /\ Head(s).is_end_of_mapping => Headers(Tail(s)) = {}
<1>1. \A i \in 1 .. Len(Tail(s)) : i + 1 \in 1 .. Len(s) /\ Tail(s)[i] = s[i + 1] /\ 1 < i + 1
  OBVIOUS
<1>2. \A i, j \in 1 .. Len(Tail(s)) : i < j => i + 1 < j + 1
  OBVIOUS
<1>3. 1 \in 1 .. Len(s) /\ Head(s) = s[1]
  OBVIOUS
<1>4. EndLast(Tail(s))
  BY <1>1, <1>2 DEF EndLast
<1>5. ASSUME Head(s).kind = "header", Head(s).is_end_of_mapping, NEW h \in Headers(Tail(s))
      PROVE  FALSE
  BY <1>1, <1>3, <1>5 DEF EndLast, Headers
<1> QED
  BY <1>4, <1>5

(* The unsent part of a stream has no more in it than the stream. *)
LEMMA EndLastSuffix ==
  ASSUME NEW s \in Seq(Cell), NEW m \in Seq(Cell), EndLast(s \o m)
  PROVE  EndLast(m)
<1>1. \A i \in 1 .. Len(m) : (s \o m)[Len(s) + i] = m[i] /\ Len(s) + i \in 1 .. Len(s \o m)
  OBVIOUS
<1>2. \A i, j \in 1 .. Len(m) : i < j => Len(s) + i < Len(s) + j
  OBVIOUS
<1> QED
  BY <1>1, <1>2 DEF EndLast

(* Parts of an empty stream are empty. *)
LEMMA EmptyParts ==
  ASSUME NEW s \in Seq(Cell), NEW m \in Seq(Cell), s \o m = <<>>
  PROVE  s = <<>> /\ m = <<>>
<1>1. Len(s \o m) = 0 /\ Len(s \o m) = Len(s) + Len(m) /\ Len(s) \in Nat /\ Len(m) \in Nat
  OBVIOUS
<1>2. Len(s) = 0 /\ Len(m) = 0
  BY <1>1
<1> QED
  BY <1>2, EmptySeq

(* A message may follow as long as the mapping has not ended. *)
LEMMA EndLastConcat ==
  ASSUME NEW s \in Seq(Cell), NEW m \in Seq(Cell), \A h \in Headers(s) : ~h.is_end_of_mapping,
         \A k \in 1 .. Len(m) : m[k].kind = "header" => k = 1
  PROVE  EndLast(s \o m)
<1> DEFINE r == s \o m
<1>1. /\ Len(r) = Len(s) + Len(m) /\ Len(s) \in Nat /\ Len(m) \in Nat
      /\ \A i \in 1 .. Len(s) : r[i] = s[i]
      /\ \A i \in 1 .. Len(r) : i > Len(s) => i - Len(s) \in 1 .. Len(m) /\ r[i] = m[i - Len(s)]
  OBVIOUS
<1> HIDE DEF r
<1>2. ASSUME NEW j \in 1 .. Len(r), NEW k \in 1 .. Len(r), j < k,
             r[j].kind = "header", r[k].kind = "header"
      PROVE  ~r[j].is_end_of_mapping
  <2>1. CASE j \in 1 .. Len(s)
    BY <1>1, <1>2, <2>1 DEF Headers
  <2>2. CASE j > Len(s)
    <3>1. j - Len(s) = 1 /\ k - Len(s) = 1
      BY <1>1, <1>2, <2>2
    <3> QED
      BY <1>1, <1>2, <3>1
  <2> QED
    BY <1>1, <2>1, <2>2
<1> QED
  BY <1>2 DEF EndLast, r

-----------------------------------------------------------------------------
(***************************************************************************)
(* Calls are counted upwards; within a call its mapping stays, an aborted  *)
(* walk stays aborted, and dumps stay.                                     *)
(***************************************************************************)
Onward ==
  /\ dumps \subseteq dumps'
  /\ \A t \in Task :
       \/ calls'[t] = calls[t] + 1
       \/ /\ calls'[t] = calls[t] /\ mapping'[t] = mapping[t]
          /\ memory_error[t] => memory_error'[t]

(* Every step goes onward. *)
LEMMA StepOnward ==
  ASSUME IInv, [Next]_vars
  PROVE  Onward
<1>1. calls \in [Task -> 0 .. MaxCalls] /\ memory_error \in [Task -> BOOLEAN]
  BY DEF IInv, HooksOK
<1>2. CASE UNCHANGED vars
  BY <1>2 DEF vars, server, hooks, walk, Onward
<1>3. ASSUME NEW t \in Task, EnterPageHook(t) \/ EnterBpfHook(t) PROVE Onward
  <2>1. calls' = [calls EXCEPT ![t] = @ + 1] /\ UNCHANGED server
    BY <1>3 DEF EnterPageHook, EnterBpfHook, StartCall
  <2>2. \A u \in Task : u # t => mapping'[u] = mapping[u] /\ memory_error'[u] = memory_error[u]
    BY <1>1, <1>3 DEF EnterPageHook, EnterBpfHook, StartCall, walk, IInv, HooksOK
  <2> QED
    BY <1>1, <2>1, <2>2 DEF Onward, server
<1>4. ASSUME NEW t \in Task, HookStep(t) PROVE Onward
  <2>1. UNCHANGED <<calls, mapping, server>>
    BY <1>4 DEF HookStep, TestSock, Connect, ConnectFails, PassGates, StopAtGates,
           FlushNextRun, GrowFails, FlushAborted, FlushRun, SendCell, NullSock, SendDiscarded,
           SendOnClosed, MessageSent, RecvAnswer, StopReceiving, RecvNothing, ReturnVerdict, walk
  <2>2. memory_error' \in {memory_error, [memory_error EXCEPT ![t] = TRUE]}
    BY <1>4 DEF HookStep, TestSock, Connect, ConnectFails, PassGates, StopAtGates,
           FlushNextRun, GrowFails, FlushAborted, FlushRun, SendCell, NullSock, SendDiscarded,
           SendOnClosed, MessageSent, RecvAnswer, StopReceiving, RecvNothing, ReturnVerdict, walk
  <2> QED
    BY <1>1, <2>1, <2>2 DEF Onward, server
<1>5. CASE ServerStep
  <2>1. UNCHANGED <<calls, mapping, memory_error>>
    BY <1>5 DEF ServerStep, hooks, walk
  <2>2. dumps \subseteq dumps'
    BY <1>5 DEF ServerStep, ServerNext, Accept, RecvHeader, RefuseHeader, RecvPayload, LoseFraming,
           GarbledGoesOn, GarbledRefused, GarbledKilled, FinishMessage, DumpAndAnswer, AnswerFails,
           KilledByAnswer, ClientGone, DumpMapping, server
  <2> QED
    BY <2>1, <2>2 DEF Onward
<1>6. CASE Reboot
  BY <1>6 DEF Reboot, server, walk, Onward
<1> QED
  BY <1>2, <1>3, <1>4, <1>5, <1>6 DEF Next

(* A call that was made is still the current one only if no other has been. *)
LEMMA PastStays ==
  ASSUME IInv, Onward, NEW y \in Call, Past(y)
  PROVE  /\ Past(y)'
         /\ \A t \in Task : y = ThisCall(t)' =>
              /\ y = ThisCall(t) /\ calls'[t] = calls[t] /\ mapping'[t] = mapping[t]
              /\ OneMessage(t)' => OneMessage(t)
              /\ DumpedWhole(t) => DumpedWhole(t)'
<1>1. PICK u \in Task, n \in 1 .. MaxCalls : y = <<u, n>>
  BY McheckTcpAssumption
<1>2. n <= calls[u] /\ n \in Nat /\ calls[u] \in Nat /\ calls'[u] \in {calls[u], calls[u] + 1}
  BY <1>1, McheckTcpAssumption DEF Past, Onward, IInv, HooksOK
<1>3. Past(y)'
  <2>1. n <= calls'[u]
    BY <1>2
  <2> QED
    BY <1>1, <2>1 DEF Past
<1>4. ASSUME NEW t \in Task, y = ThisCall(t)'
      PROVE  /\ y = ThisCall(t) /\ calls'[t] = calls[t] /\ mapping'[t] = mapping[t]
             /\ OneMessage(t)' => OneMessage(t)
             /\ DumpedWhole(t) => DumpedWhole(t)'
  <2>1. t = u /\ n = calls'[t]
    BY <1>1, <1>4 DEF ThisCall
  <2>2. calls'[t] = calls[t] /\ calls'[t] # calls[t] + 1
    BY <1>2, <2>1
  <2>3. y = ThisCall(t)
    BY <1>1, <2>1, <2>2 DEF ThisCall
  <2>4. mapping'[t] = mapping[t] /\ (memory_error[t] => memory_error'[t]) /\ dumps \subseteq dumps'
    BY <2>2 DEF Onward
  <2>5. OneMessage(t)' => OneMessage(t)
    BY <2>4 DEF OneMessage, OneRun
  <2>6. DumpedWhole(t) => DumpedWhole(t)'
    BY <2>2, <2>4 DEF DumpedWhole, ThisCall, DumpedPages
  <2> QED
    BY <2>2, <2>3, <2>4, <2>5, <2>6
<1> QED
  BY <1>3, <1>4

(* What is known of a message stays true. *)
LEMMA SoundStays ==
  ASSUME IInv, Onward, NEW h, h.call \in Call, Sound(h)
  PROVE  Sound(h)'
<1>1. Past(h.call)
  BY DEF Sound
<1>2. /\ Past(h.call)'
      /\ \A t \in Task : h.call = ThisCall(t)' =>
           /\ h.call = ThisCall(t) /\ mapping'[t] = mapping[t]
           /\ OneMessage(t)' => OneMessage(t)
  BY <1>1, PastStays
<1>3. ASSUME NEW t \in Task, h.call = ThisCall(t)', h.is_end_of_mapping, OneMessage(t)'
      PROVE  Describes(h, mapping'[t])
  <2>1. Describes(h, mapping[t]) /\ mapping'[t] = mapping[t]
    BY <1>2, <1>3 DEF Sound
  <2> QED
    BY <2>1
<1> QED
  BY <1>2, <1>3 DEF Sound

(* What is known of an answer stays true. *)
LEMMA AnsweredStays ==
  ASSUME IInv, Onward, NEW x \in Call, Answered(x)
  PROVE  Answered(x)'
<1>1. Past(x)
  BY DEF Answered
<1>2. /\ Past(x)'
      /\ \A t \in Task : x = ThisCall(t)' =>
           /\ x = ThisCall(t)
           /\ OneMessage(t)' => OneMessage(t)
           /\ DumpedWhole(t) => DumpedWhole(t)'
  BY <1>1, PastStays
<1> QED
  BY <1>2 DEF Answered

-----------------------------------------------------------------------------
(* The ways in which the server can deal with the connection in use. *)
Aside ==
  /\ Wire' = Wire /\ down'[sock] = down[sock] /\ info' \in Header
  /\ Unfinished' <=> Unfinished
  /\ Unfinished => info' = info

HeaderTaken ==
  /\ Wire # <<>> /\ Wire' = Tail(Wire) /\ down'[sock] = down[sock]
  /\ Head(Wire).kind = "header" /\ info' = Head(Wire)

PageTaken ==
  /\ Wire # <<>> /\ Wire' = Tail(Wire) /\ down'[sock] = down[sock]
  /\ Unfinished /\ info' = info

MessageDone ==
  /\ Wire' = Wire /\ sock_client = sock /\ phase = "finish" /\ ~Unfinished'
  /\ IF info.is_end_of_mapping
     THEN DumpMapping /\ down'[sock] = Append(down[sock], info.call)
     ELSE down'[sock] = down[sock]

Dropped ==
  /\ Wire' = Unsent(out) /\ down'[sock] = down[sock] /\ ~Unfinished'

(* The server serves another connection, or the one in use in one of these ways. *)
LEMMA ServerOnSock ==
  ASSUME IInv, IInv', LinkInv, FramingInv, ServerStep, sock # NoConn
  PROVE  Aside \/ HeaderTaken \/ PageTaken \/ MessageDone \/ Dropped
<1>1. /\ sock' = sock /\ out' = out /\ ServerNext /\ Unsent(out)' = Unsent(out)
      /\ sock \in Conn /\ sock \notin hungup /\ Connections
      /\ up \in [Conn -> Seq(Cell)] /\ down \in [Conn -> Seq(Call)]
      /\ info' \in Header /\ NoConn \notin Conn
  BY FlowTypes DEF ServerStep, globals, hooks, Unsent, LinkInv, Connections, IInv, ServerInv, ServerTypeOK
<1>2. Wire' = up'[sock] \o Unsent(out) /\ Wire = up[sock] \o Unsent(out)
  BY <1>1 DEF Wire, InFlight
<1>3. ~LoseFraming /\ ~GarbledGoesOn /\ ~GarbledRefused /\ ~GarbledKilled
  BY NeverLost
<1>4. CASE sock_client # sock /\ ~Accept /\ ~KilledByAnswer
  <2>1. sock_client' \in {sock_client, NoConn}
    BY <1>1, <1>3, <1>4 DEF ServerNext, RecvHeader, RefuseHeader, RecvPayload, FinishMessage, AnswerFails,
           ClientGone, CloseClient
  <2>2. \/ up' = up \/ up' = [up EXCEPT ![sock_client] = Tail(@)]
        \/ up' = [up EXCEPT ![sock_client] = <<>>]
    BY <1>1, <1>3, <1>4 DEF ServerNext, RecvHeader, RefuseHeader, RecvPayload, FinishMessage, AnswerFails,
           ClientGone, CloseClient, Consume
  <2>3. down' = down \/ down' = [down EXCEPT ![sock_client] = Append(@, info.call)]
    BY <1>1, <1>3, <1>4 DEF ServerNext, RecvHeader, RefuseHeader, RecvPayload, FinishMessage, AnswerFails,
           ClientGone, CloseClient, DumpAndAnswer
  <2>4. up'[sock] = up[sock] /\ down'[sock] = down[sock]
    BY <1>1, <1>4, <2>2, <2>3
  <2>5. ~Unfinished /\ ~Unfinished'
    BY <1>1, <1>4, <2>1 DEF Unfinished
  <2> QED
    BY <1>1, <1>2, <2>4, <2>5 DEF Aside
<1>5. CASE Accept
  <2>1. sock_client = NoConn /\ phase' = "header" /\ UNCHANGED <<up, down>>
    BY <1>5 DEF Accept, IInv, ServerInv, ServerTypeOK
  <2> QED
    BY <1>1, <1>2, <2>1 DEF Aside, Unfinished
<1>6. CASE KilledByAnswer
  <2>1. sock_client' = NoConn /\ up' = [c \in Conn |-> <<>>] /\ down' = down
    BY <1>6 DEF KilledByAnswer, Killed
  <2>2. Wire' = Unsent(out)
    <3>1. Unsent(out) \in Seq(Cell) /\ up'[sock] = <<>>
      BY <1>1, <2>1, FlowTypes
    <3> QED
      BY <1>2, <3>1, ConcatEmptySeq
  <2> QED
    BY <1>1, <2>1, <2>2 DEF Dropped, Unfinished
<1>7. CASE sock_client = sock
  <2>1. CASE RecvHeader
    <3>1. /\ up[sock] # <<>> /\ Head(up[sock]).kind = "header" /\ info' = Head(up[sock])
          /\ Consume /\ down' = down
      BY <1>7, <2>1 DEF RecvHeader, Incoming
    <3>2. Wire # <<>> /\ Head(Wire) = Head(up[sock]) /\ Wire' = Tail(Wire)
      BY <1>1, <1>7, <3>1, ConsumeEffect DEF Wire
    <3> QED
      BY <3>1, <3>2 DEF HeaderTaken
  <2>2. CASE RecvPayload
    <3>1. up[sock] # <<>> /\ info' = info /\ Consume /\ down' = down /\ phase = "payload"
      BY <1>7, <2>2 DEF RecvPayload, Incoming, Serving
    <3>2. Wire # <<>> /\ Wire' = Tail(Wire)
      BY <1>1, <1>7, <3>1, ConsumeEffect DEF Wire
    <3> QED
      BY <1>7, <3>1, <3>2 DEF PageTaken, Unfinished
  <2>3. CASE FinishMessage
    <3>1. phase = "finish" /\ phase' = "header" /\ up' = up
      BY <2>3 DEF FinishMessage, Serving
    <3>2. IF info.is_end_of_mapping
          THEN DumpMapping /\ down'[sock] = Append(down[sock], info.call)
          ELSE down'[sock] = down[sock]
      BY <1>1, <1>7, <2>3 DEF FinishMessage, EndOfMapping, DumpAndAnswer
    <3> QED
      BY <1>2, <1>7, <3>1, <3>2 DEF MessageDone, Unfinished
  <2>4. CASE RefuseHeader
    <3>1. CloseClient
      BY <2>4 DEF RefuseHeader
    <3>2. up'[sock] = <<>> /\ down' = down /\ sock_client' = NoConn
      BY <1>1, <1>7, <3>1 DEF CloseClient
    <3>3. Wire' = Unsent(out)
      BY <1>2, <3>2, FlowTypes, ConcatEmptySeq
    <3> QED
      BY <1>1, <3>2, <3>3 DEF Dropped, Unfinished
  <2>5. ~AnswerFails /\ ~ClientGone /\ ~KilledByAnswer
    BY <1>1, <1>7 DEF AnswerFails, ClientGone, KilledByAnswer
  <2>6. ~Accept
    BY <1>1, <1>7 DEF Accept, IInv, ServerInv, ServerTypeOK
  <2> QED
    BY <1>1, <1>3, <2>1, <2>2, <2>3, <2>4, <2>5, <2>6 DEF ServerNext
<1> QED
  BY <1>4, <1>5, <1>6, <1>7

-----------------------------------------------------------------------------
(* Types of what is on its way. *)
LEMMA WireTypes ==
  ASSUME IInv, sock # NoConn
  PROVE  /\ sock \in Conn /\ Wire \in Seq(Cell) /\ down[sock] \in Seq(Call) /\ info \in Header
         /\ up[sock] \in Seq(Cell) /\ Unsent(out) \in Seq(Cell)
         /\ \A h \in Pending : h \in Header /\ h.call \in Call
<1>1. /\ sock \in Conn /\ Wire \in Seq(Cell) /\ down \in [Conn -> Seq(Call)] /\ info \in Header
      /\ up[sock] \in Seq(Cell) /\ Unsent(out) \in Seq(Cell)
  BY FlowTypes DEF Wire, IInv, ServerInv, ServerTypeOK
<1>2. \A h \in Headers(Wire) : h \in Header
  <2>1. \A k \in 1 .. Len(Wire) : Wire[k] \in Cell
    BY <1>1
  <2> QED
    BY <2>1, CellKinds DEF Headers
<1>3. \A h \in Header : h.call \in Call
  BY DEF Header
<1> QED
  BY <1>1, <1>2, <1>3 DEF Pending

(* What a flush adds to the stream. *)
LEMMA FlushEffect ==
  ASSUME IInv, LinkInv, NEW t \in Task, pc[t] = "walk",
         NEW run \in SUBSET Offset, NEW end \in BOOLEAN, FlushRun(t, run, end)
  PROVE  /\ Wire' = Wire \/ Wire' = Wire \o Message(t, run, end)
         /\ Message(t, run, end) \in Seq(Cell)
<1> DEFINE m == Message(t, run, end)
<1>1. /\ OneHook /\ SocketInUse /\ out \in [Task -> Seq(Cell)]
  BY FlowTypes DEF LinkInv
<1>2. /\ UNCHANGED <<up, sock>> /\ sock \in Conn /\ up[sock] \in Seq(Cell)
      /\ out' = [out EXCEPT ![t] = m] \/ out' = [out EXCEPT ![t] = <<>>]
  BY <1>1, WireTypes DEF FlushRun, network, globals, SocketInUse
<1>3. Unsent(out) = <<>> /\ \A u \in Task : u # t => out[u] = <<>>
  <2>1. out[t] = <<>>
    BY <1>1 DEF SocketInUse
  <2> QED
    BY <2>1, HookUnsent
<1>4. m \in Seq(Cell) /\ <<>> \in Seq(Cell)
  BY MessageType DEF IInv
<1> HIDE DEF m
<1>5. PICK x \in {m, <<>>} : out' = [out EXCEPT ![t] = x]
  BY <1>2
<1>6. x \in Seq(Cell)
  BY <1>4, <1>5
<1>7. Unsent(out') = x
  <2>1. out' \in [Task -> Seq(Cell)] /\ out'[t] = x /\ \A u \in Task : u # t => out'[u] = <<>>
    BY <1>1, <1>3, <1>5, <1>6
  <2> QED
    BY <2>1, UnsentOf
<1>8. Unsent(out)' = Unsent(out')
  BY DEF Unsent
<1>9. Wire = up[sock] /\ Wire' = up[sock] \o x
  <2>1. up[sock] \o <<>> = up[sock]
    BY <1>2, ConcatEmptySeq
  <2> QED
    BY <1>2, <1>3, <1>7, <1>8, <2>1 DEF Wire, InFlight
<1> QED
  BY <1>2, <1>4, <1>5, <1>9, ConcatEmptySeq DEF m

(* A connection that is closed carries only what is still to be sent, and loses its first cell. *)
LEMMA DiscardEffect ==
  ASSUME IInv, LinkInv, NEW t \in Task, SendDiscarded(t)
  PROVE  Wire # <<>> /\ Wire' = Tail(Wire)
<1>1. /\ SocketInUse /\ Connections /\ SockOf(t) = sock /\ out \in [Task -> Seq(Cell)]
      /\ NoConn \notin Conn /\ closed \subseteq Conn
  BY OneSocket, FlowTypes DEF LinkInv
<1>2. /\ sock \in closed /\ pc[t] = "send" /\ out[t] # <<>>
      /\ out' = [out EXCEPT ![t] = Tail(@)] /\ UNCHANGED <<up, sock>>
  BY <1>1 DEF SendDiscarded, network, globals
<1>3. up[sock] = <<>>
  BY <1>1, <1>2 DEF Connections
<1>4. Unsent(out) = out[t] /\ \A u \in Task : u # t => out[u] = <<>>
  BY <1>2, HookUnsent
<1>5. out[t] \in Seq(Cell) /\ Tail(out[t]) \in Seq(Cell)
  BY <1>1, <1>2, HeadTailProperties
<1>6. Unsent(out') = Tail(out[t])
  <2>1. out' \in [Task -> Seq(Cell)] /\ out'[t] = Tail(out[t]) /\ \A u \in Task : u # t => out'[u] = <<>>
    BY <1>1, <1>2, <1>4, <1>5
  <2> QED
    BY <2>1, UnsentOf
<1>7. Unsent(out)' = Unsent(out')
  BY DEF Unsent
<1>8. Wire = <<>> \o out[t] /\ Wire' = <<>> \o Tail(out[t])
  BY <1>2, <1>3, <1>4, <1>6, <1>7 DEF Wire, InFlight
<1> QED
  BY <1>2, <1>5, <1>8, ConcatEmptySeq

(* A new connection has nothing on its way. *)
LEMMA ConnectEffect ==
  ASSUME IInv, LinkInv, NEW t \in Task, Connect(t)
  PROVE  Wire' = <<>> /\ down'[sock'] = <<>> /\ ~Unfinished' /\ UNCHANGED info
<1> DEFINE c == CHOOSE c \in Unused : TRUE
<1>1. SocketInUse /\ Connections
  BY DEF LinkInv
<1>2. c \in Unused
  BY DEF Connect
<1>3. c \in Conn /\ c \notin hungup /\ c # sock_client
  BY <1>2 DEF Unused
<1> HIDE DEF c
<1>4. pc[t] = "connecting" /\ sock' = c /\ UNCHANGED <<up, down, server, out>>
  BY DEF Connect, c
<1>5. sock = NoConn /\ up[c] = <<>> /\ down[c] = <<>>
  <2>1. sock = NoConn
    BY <1>1, <1>4 DEF SocketInUse
  <2>2. c # sock
    BY <1>3, <2>1, FlowTypes
  <2> QED
    BY <1>1, <1>3, <2>1, <2>2 DEF Connections, Untouched
<1>6. Unsent(out)' = <<>>
  <2>1. out[t] = <<>>
    BY <1>1, <1>4 DEF SocketInUse
  <2>2. Unsent(out) = <<>>
    BY <1>4, <2>1, HookUnsent
  <2> QED
    BY <1>4, <2>2 DEF Unsent
<1>7. Wire' = <<>>
  BY <1>4, <1>5, <1>6 DEF Wire, InFlight
<1> QED
  BY <1>3, <1>4, <1>5, <1>7 DEF Unfinished, server

(* Nothing that is on its way changes. *)
LEMMA WireUnchanged ==
  ASSUME UNCHANGED <<up, sock, out, sock_client, phase, info>>
  PROVE  Wire' = Wire /\ Pending' = Pending /\ (Unfinished' <=> Unfinished)
<1>1. Wire' = Wire /\ (Unfinished' <=> Unfinished)
  BY DEF Wire, InFlight, Unsent, Unfinished
<1> QED
  BY <1>1 DEF Pending

-----------------------------------------------------------------------------
(* As long as nothing is added to what is on its way, it stays sound. *)
LEMMA WireSoundKept ==
  ASSUME IInv, Onward, WireSound, sock' = sock, sock # NoConn, Pending' \subseteq Pending,
         \A k \in 1 .. Len(down'[sock]) : \E j \in 1 .. Len(down[sock]) : down'[sock][k] = down[sock][j]
  PROVE  WireSound'
<1>1. \A h \in Pending : h.call \in Call /\ Sound(h)
  BY WireTypes DEF WireSound
<1>2. \A k \in 1 .. Len(down[sock]) : down[sock][k] \in Call /\ Answered(down[sock][k])
  BY WireTypes DEF WireSound
<1>3. ASSUME NEW h \in Pending' PROVE Sound(h)'
  <2>1. h \in Pending /\ h.call \in Call /\ Sound(h)
    BY <1>1
  <2> QED
    BY <2>1, SoundStays
<1>4. ASSUME NEW k \in 1 .. Len(down'[sock]) PROVE Answered(down[sock][k])'
  <2>1. PICK j \in 1 .. Len(down[sock]) : down'[sock][k] = down[sock][j]
    OBVIOUS
  <2>2. PICK x \in Call : x = down[sock][j]
    BY <1>2
  <2>3. Answered(x)
    BY <1>2, <2>2
  <2>4. Answered(x)'
    BY <2>3, AnsweredStays
  <2>5. x = down'[sock'][k]
    BY <2>1, <2>2
  <2> QED
    BY <2>4, <2>5 DEF Answered, Past
<1> QED
  BY <1>3, <1>4 DEF WireSound

(* A mapping of one run is flushed at once, as its end. *)
LEMMA OneRunFlush ==
  ASSUME IInv, NEW t \in Task, OneRun(mapping[t]), left[t] = mapping[t].present
  PROVE  left[t] # {} /\ FirstRun(left[t]) = left[t] /\ IsLastFlush(t, left[t])
<1> DEFINE P == left[t]
           e == mapping[t].len - 1
<1>1. P # {} /\ P = Min(P) .. e
  BY DEF OneRun
<1>2. e \in Int /\ P \in SUBSET Offset
  BY TcpServerAssumption DEF IInv, HooksOK
<1>3. Min(P) \in Int
  BY <1>1, <1>2, MinOf, TcpServerAssumption DEF Offset
<1>4. PICK a \in Int : a = Min(P)
  BY <1>3
<1> HIDE DEF P, e
<1>5. P = a .. e /\ e \in P
  BY <1>1, <1>2, <1>4
<1>6. \A p \in P : a .. p \subseteq P
  BY <1>2, <1>5
<1>7. FirstRun(P) = P
  BY <1>4, <1>6 DEF FirstRun
<1> QED
  BY <1>1, <1>5, <1>7 DEF P, e, IsLastFlush

(* A message that ends a mapping of one run has all of it. *)
LEMMA FlushSound ==
  ASSUME IInv, Onward, LinkInv, SoundInv, NEW t \in Task,
         FlushNextRun(t) \/ GrowFails(t) \/ FlushAborted(t)
  PROVE  WireSound'
<1>1. pc[t] = "walk" /\ left[t] \in SUBSET Offset
  BY DEF FlushNextRun, GrowFails, FlushAborted, IInv, HooksOK
<1>2. PICK run \in SUBSET Offset, end \in BOOLEAN :
        FlushRun(t, run, end) /\ (OneMessage(t)' => run = mapping[t].present)
  <2>1. CASE FlushNextRun(t)
    <3> DEFINE run == IF left[t] = {} THEN {} ELSE FirstRun(left[t])
    <3>1. run \in SUBSET Offset /\ IsLastFlush(t, run) \in BOOLEAN
      BY <1>1 DEF FirstRun, IsLastFlush
    <3>2. FlushRun(t, run, IsLastFlush(t, run)) /\ UNCHANGED <<mapping, memory_error>>
      BY <2>1 DEF FlushNextRun, FlushRun
    <3>3. ASSUME OneMessage(t)' PROVE run = mapping[t].present
      <4>1. OneMessage(t) /\ OneRun(mapping[t])
        BY <3>2, <3>3 DEF OneMessage
      <4>2. left[t] = mapping[t].present
        BY <1>1, <4>1 DEF SoundInv, HookSound
      <4> QED
        BY <4>1, <4>2, OneRunFlush
    <3> HIDE DEF run
    <3> QED
      BY <3>1, <3>2, <3>3
  <2>2. CASE GrowFails(t)
    <3>1. PICK p \in FirstRun(left[t]) \ {Min(left[t])} : FlushRun(t, Min(left[t]) .. p - 1, FALSE)
      BY <2>2 DEF GrowFails
    <3>2. p \in Offset /\ Min(left[t]) \in Offset
      BY <1>1, <2>2, <3>1, MinOf DEF FirstRun, GrowFails
    <3>3. Min(left[t]) .. p - 1 \in SUBSET Offset
      BY <3>2, TcpServerAssumption DEF Offset
    <3>4. ~OneMessage(t)'
      BY <2>2 DEF GrowFails, OneMessage, IInv, HooksOK
    <3> QED
      BY <3>1, <3>3, <3>4
  <2>3. CASE FlushAborted(t)
    <3>1. ~OneMessage(t)'
      BY <2>3 DEF FlushAborted, OneMessage
    <3> QED
      BY <1>1, <2>3, <3>1 DEF FlushAborted
  <2> QED
    BY <2>1, <2>2, <2>3
<1> DEFINE m == Message(t, run, end)
<1>3. m \in Seq(Cell) /\ (Wire' = Wire \/ Wire' = Wire \o m)
  BY <1>1, <1>2, FlushEffect
<1>4. /\ \A h \in Headers(m) :
           h = [kind |-> "header", call |-> ThisCall(t),
                mapped_addr |-> IF run = {} THEN 0 ELSE Min(run), len |-> Cardinality(run),
                mapping_len |-> mapping[t].len, is_end_of_mapping |-> end]
  BY <1>1, HeadersMessage
<1> HIDE DEF m
<1>5. sock # NoConn /\ UNCHANGED <<sock, down, sock_client, phase, info, calls, mapping>>
  BY <1>1, <1>2 DEF LinkInv, SocketInUse, FlushRun, network, server, globals
<1>6. \A h \in Pending : h.call \in Call /\ Sound(h)
  BY <1>5, WireTypes DEF SoundInv, WireSound
<1>7. \A h \in Pending' : h \in Pending \/ h \in Headers(m)
  <2>1. Headers(Wire') \subseteq Headers(Wire) \cup Headers(m)
    BY <1>3, <1>5, HeadersConcat, WireTypes
  <2>2. Headers(Wire)' = Headers(Wire') /\ (Unfinished' <=> Unfinished)
    BY <1>5 DEF Headers, Unfinished
  <2> QED
    BY <1>5, <2>1, <2>2 DEF Pending
<1>8. ASSUME NEW h \in Headers(m) PROVE Sound(h)'
  <2>1. /\ h.call = ThisCall(t) /\ h.mapped_addr = (IF run = {} THEN 0 ELSE Min(run))
        /\ h.len = Cardinality(run) /\ h.mapping_len = mapping[t].len
    BY <1>4, <1>8
  <2>2. Past(h.call)'
    <3>1. calls[t] \in Nat
      BY McheckTcpAssumption DEF IInv, HooksOK
    <3> QED
      BY <1>5, <2>1, <3>1 DEF Past, ThisCall
  <2>3. ASSUME NEW u \in Task, h.call = ThisCall(u)', OneMessage(u)' PROVE Describes(h, mapping'[u])
    <3>1. u = t
      BY <2>1, <2>3 DEF ThisCall
    <3>2. run = mapping[t].present /\ run # {}
      BY <1>2, <1>5, <2>3, <3>1 DEF OneMessage, OneRun
    <3> QED
      BY <1>5, <2>1, <3>1, <3>2 DEF Describes
  <2> QED
    BY <2>2, <2>3 DEF Sound
<1>9. ASSUME NEW h \in Pending' PROVE Sound(h)'
  <2>1. CASE h \in Pending
    <3>1. h.call \in Call /\ Sound(h)
      BY <1>6, <2>1
    <3> QED
      BY <3>1, SoundStays
  <2> QED
    BY <1>7, <1>8, <2>1
<1>10. ASSUME NEW k \in 1 .. Len(down[sock]) PROVE Answered(down[sock][k])'
  <2>1. PICK x \in Call : x = down[sock][k]
    BY <1>5, WireTypes
  <2>2. Answered(x)
    BY <1>5, <2>1 DEF SoundInv, WireSound
  <2>3. Answered(x)'
    BY <2>2, AnsweredStays
  <2> QED
    BY <1>5, <2>1, <2>3 DEF Answered, Past
<1> QED
  BY <1>5, <1>9, <1>10 DEF WireSound

(* The buffer that is dumped has all pages of a mapping that left in one message. *)
LEMMA DumpIsWhole ==
  ASSUME IInv, FramingInv, phase = "finish", NEW t \in Task, info.call = ThisCall(t),
         OneRun(mapping[t]), Describes(info, mapping[t])
  PROVE  /\ Len(Dump.content) = mapping[t].len /\ Dump.call = ThisCall(t)
         /\ DumpedPages(Dump) = mapping[t].present
<1> DEFINE P == mapping[t].present
           n == mapping[t].len
<1>1. P \in SUBSET Offset /\ n \in Nat
  BY TcpServerAssumption DEF IInv, HooksOK
<1>2. P # {} /\ P = Min(P) .. n - 1
  BY DEF OneRun
<1>3. PICK a \in Nat : a = Min(P)
  BY <1>1, <1>2, MinOf, TcpServerAssumption DEF Offset
<1>4. P = a .. n - 1 /\ a <= n - 1
  BY <1>1, <1>2, <1>3
<1>5. info.mapped_addr = a /\ info.len = Cardinality(P) /\ info.mapping_len = n
  BY <1>3 DEF Describes
<1> HIDE DEF P, n
<1>6. info.len = n - a
  <2>1. Cardinality(a .. n - 1) = (n - 1) - a + 1
    BY <1>1, <1>3, <1>4, FS_Interval
  <2> QED
    BY <1>1, <1>3, <1>4, <1>5, <2>1
<1>7. /\ Len(root_buf) = n /\ total_read = info.len
      /\ \A k \in 1 .. n :
           root_buf[k] = IF k \in info.mapped_addr + 1 .. info.mapped_addr + total_read
                         THEN [kind |-> "page", call |-> info.call, page |-> k - 1]
                         ELSE Zero
  BY <1>5 DEF IInv, ServerInv, PayloadFits, FramingInv, BufferFilled
<1>8. info.mapped_addr + 1 = a + 1 /\ info.mapped_addr + total_read = n
  BY <1>1, <1>3, <1>5, <1>6, <1>7
<1>9. \A k \in 1 .. n :
        /\ k \in a + 1 .. n => root_buf[k] # Zero /\ root_buf[k].page = k - 1
        /\ k \notin a + 1 .. n => root_buf[k] = Zero
  <2>1. ASSUME NEW k PROVE /\ [kind |-> "page", call |-> info.call, page |-> k - 1] # Zero
                           /\ [kind |-> "page", call |-> info.call, page |-> k - 1].page = k - 1
    <3>1. Zero.kind = "zero" /\ [kind |-> "page", call |-> info.call, page |-> k - 1].kind = "page"
      BY DEF Zero
    <3> QED
      BY <3>1
  <2> QED
    BY <1>7, <1>8, <2>1
<1>10. Dump.content = root_buf /\ Dump.call = info.call
  BY DEF Dump
<1>11. DumpedPages(Dump) = {root_buf[k].page : k \in {j \in 1 .. n : root_buf[j] # Zero}}
  BY <1>7, <1>10 DEF DumpedPages
<1>12. {j \in 1 .. n : root_buf[j] # Zero} = a + 1 .. n
  <2>1. a + 1 .. n \subseteq 1 .. n
    BY <1>1, <1>3
  <2> QED
    BY <1>9, <2>1
<1>13. DumpedPages(Dump) = P
  <2>1. ASSUME NEW x \in P PROVE x \in DumpedPages(Dump)
    <3>1. x + 1 \in a + 1 .. n /\ x + 1 \in 1 .. n /\ (x + 1) - 1 = x
      <4>1. x \in a .. n - 1 /\ n \in Nat
        BY <1>1, <1>4
      <4> QED
        BY <1>3, <4>1
    <3>2. root_buf[x + 1].page = x
      BY <1>9, <3>1
    <3> QED
      BY <1>11, <1>12, <3>1, <3>2
  <2>2. ASSUME NEW x \in DumpedPages(Dump) PROVE x \in P
    <3>1. PICK k \in a + 1 .. n : x = root_buf[k].page
      BY <1>11, <1>12
    <3>2. k \in 1 .. n /\ k - 1 \in a .. n - 1
      BY <1>1, <1>3
    <3>3. x = k - 1
      BY <1>9, <3>1, <3>2
    <3> QED
      BY <1>4, <3>2, <3>3
  <2> QED
    BY <2>1, <2>2
<1> QED
  BY <1>7, <1>10, <1>13 DEF P, n

(* The server answers what it has dumped. *)
LEMMA ServerSound ==
  ASSUME IInv, IInv', LinkInv, FramingInv, SoundInv, Onward, "popen" \notin ServerFaults, ServerStep
  PROVE  WireSound'
<1> SUFFICES ASSUME sock # NoConn PROVE WireSound'
  BY DEF WireSound, ServerStep, globals
<1>1. WireSound /\ sock' = sock /\ Wire \in Seq(Cell) /\ UNCHANGED <<calls, mapping, memory_error>>
  BY WireTypes DEF SoundInv, ServerStep, globals, hooks, walk
<1>2. Headers(Wire') = Headers(Wire)'
  BY DEF Headers
<1>3. CASE Aside
  <2>1. Pending' \subseteq Pending
    BY <1>2, <1>3 DEF Aside, Pending
  <2>2. \A k \in 1 .. Len(down'[sock]) : \E j \in 1 .. Len(down[sock]) : down'[sock][k] = down[sock][j]
    BY <1>3 DEF Aside
  <2> QED
    BY <1>1, <2>1, <2>2, WireSoundKept
<1>4. CASE HeaderTaken
  <2>1. Pending' \subseteq Pending
    <3>1. Headers(Tail(Wire)) \subseteq Headers(Wire) /\ Head(Wire) \in Headers(Wire)
      BY <1>1, <1>4, HeadersTail DEF HeaderTaken
    <3> QED
      BY <1>2, <1>4, <3>1 DEF HeaderTaken, Pending
  <2>2. \A k \in 1 .. Len(down'[sock]) : \E j \in 1 .. Len(down[sock]) : down'[sock][k] = down[sock][j]
    BY <1>4 DEF HeaderTaken
  <2> QED
    BY <1>1, <2>1, <2>2, WireSoundKept
<1>5. CASE PageTaken
  <2>1. Pending' \subseteq Pending
    <3>1. Headers(Tail(Wire)) \subseteq Headers(Wire)
      BY <1>1, <1>5, HeadersTail DEF PageTaken
    <3> QED
      BY <1>2, <1>5, <3>1 DEF PageTaken, Pending
  <2>2. \A k \in 1 .. Len(down'[sock]) : \E j \in 1 .. Len(down[sock]) : down'[sock][k] = down[sock][j]
    BY <1>5 DEF PageTaken
  <2> QED
    BY <1>1, <2>1, <2>2, WireSoundKept
<1>6. CASE Dropped
  <2>1. Pending' \subseteq Pending
    <3>1. Headers(Unsent(out)) \subseteq Headers(Wire)
      <4>1. Wire = up[sock] \o Unsent(out)
        BY DEF Wire, InFlight
      <4> QED
        BY <4>1, WireTypes, HeadersConcat
    <3> QED
      BY <1>2, <1>6, <3>1 DEF Dropped, Pending
  <2>2. \A k \in 1 .. Len(down'[sock]) : \E j \in 1 .. Len(down[sock]) : down'[sock][k] = down[sock][j]
    BY <1>6 DEF Dropped
  <2> QED
    BY <1>1, <2>1, <2>2, WireSoundKept
<1>7. CASE MessageDone
  <2>1. /\ phase = "finish" /\ Unfinished /\ info \in Pending
    BY <1>7 DEF MessageDone, Unfinished, Pending
  <2>2. Pending' \subseteq Pending
    BY <1>2, <1>7 DEF MessageDone, Pending
  <2>3. CASE ~info.is_end_of_mapping
    <3>1. \A k \in 1 .. Len(down'[sock]) : \E j \in 1 .. Len(down[sock]) : down'[sock][k] = down[sock][j]
      BY <1>7, <2>3 DEF MessageDone
    <3> QED
      BY <1>1, <2>2, <3>1, WireSoundKept
  <2>4. CASE info.is_end_of_mapping
    <3>1. dumps' = dumps \cup {Dump} /\ down'[sock] = Append(down[sock], info.call)
      BY <1>7, <2>4 DEF MessageDone, DumpMapping
    <3>2. Sound(info) /\ info.call \in Call
      BY <1>1, <2>1, WireTypes DEF WireSound
    <3>3. ASSUME NEW t \in Task, info.call = ThisCall(t), OneMessage(t)
          PROVE  /\ Len(Dump.content) = mapping[t].len /\ Dump.call = ThisCall(t)
                 /\ DumpedPages(Dump) = mapping[t].present
      <4>1. Describes(info, mapping[t]) /\ OneRun(mapping[t])
        BY <2>4, <3>2, <3>3 DEF Sound, OneMessage
      <4> QED
        BY <2>1, <3>3, <4>1, DumpIsWhole
    <3>4. PICK x \in Call : x = info.call
      BY <3>2
    <3>5. PICK d : d = Dump
      OBVIOUS
    <3>6. Answered(x)'
      <4>1. Past(x)'
        BY <1>1, <3>2, <3>4 DEF Sound, Past
      <4>2. ASSUME NEW t \in Task, x = ThisCall(t)', OneMessage(t)' PROVE DumpedWhole(t)'
        <5>1. x = ThisCall(t) /\ OneMessage(t)
          BY <1>1, <4>2 DEF ThisCall, OneMessage, OneRun
        <5>2. Len(d.content) = mapping[t].len /\ d.call = ThisCall(t) /\ DumpedPages(d) = mapping[t].present
          BY <3>3, <3>4, <3>5, <5>1
        <5>3. d \in dumps'
          BY <3>1, <3>5
        <5> QED
          BY <1>1, <5>2, <5>3 DEF DumpedWhole, ThisCall, DumpedPages
      <4> QED
        BY <4>1, <4>2 DEF Answered
    <3>7. ASSUME NEW k \in 1 .. Len(down'[sock]) PROVE Answered(down[sock][k])'
      <4>1. down[sock] \in Seq(Call)
        BY WireTypes
      <4>2. (k \in 1 .. Len(down[sock]) /\ down'[sock][k] = down[sock][k]) \/ down'[sock][k] = x
        BY <3>1, <3>4, <4>1
      <4>3. CASE down'[sock][k] = x
        <5>1. down'[sock'][k] = x
          BY <1>1, <4>3
        <5> QED
          BY <3>6, <5>1 DEF Answered, Past
      <4>4. CASE k \in 1 .. Len(down[sock]) /\ down'[sock][k] = down[sock][k]
        <5>1. PICK y \in Call : y = down[sock][k]
          BY <4>1, <4>4
        <5>2. Answered(y)
          BY <1>1, <4>4, <5>1 DEF WireSound
        <5>3. Answered(y)'
          BY <5>2, AnsweredStays
        <5>4. y = down'[sock'][k]
          BY <1>1, <4>4, <5>1
        <5> QED
          BY <5>3, <5>4 DEF Answered, Past
      <4> QED
        BY <4>2, <4>3, <4>4
    <3>8. ASSUME NEW h \in Pending' PROVE Sound(h)'
      <4>1. h \in Pending /\ h.call \in Call /\ Sound(h)
        BY <1>1, <2>2, WireTypes DEF WireSound
      <4> QED
        BY <4>1, SoundStays
    <3> QED
      BY <1>1, <3>7, <3>8 DEF WireSound
  <2> QED
    BY <2>3, <2>4
<1> QED
  BY <1>3, <1>4, <1>5, <1>6, <1>7, ServerOnSock

(* What is on its way stays sound in every step. *)
LEMMA WireSoundStep ==
  ASSUME IInv, IInv', LinkInv, FramingInv, SoundInv, Onward, "popen" \notin ServerFaults, [Next]_vars
  PROVE  WireSound'
<1>1. ASSUME UNCHANGED <<up, down, sock, out, server>> PROVE WireSound'
  <2>1. CASE sock = NoConn
    BY <1>1, <2>1 DEF WireSound
  <2>2. CASE sock # NoConn
    <3>1. Pending' \subseteq Pending
      BY <1>1, WireUnchanged DEF server
    <3>2. \A k \in 1 .. Len(down'[sock]) : \E j \in 1 .. Len(down[sock]) : down'[sock][k] = down[sock][j]
      BY <1>1
    <3> QED
      BY <1>1, <2>2, <3>1, <3>2, WireSoundKept DEF SoundInv
  <2> QED
    BY <2>1, <2>2
<1>2. CASE UNCHANGED vars
  BY <1>1, <1>2 DEF vars, network, globals, hooks
<1>3. ASSUME NEW t \in Task, EnterPageHook(t) \/ EnterBpfHook(t) PROVE WireSound'
  <2>1. UNCHANGED <<up, down, sock, out, server>>
    BY <1>3 DEF EnterPageHook, EnterBpfHook, network, globals
  <2> QED
    BY <1>1, <2>1
<1>4. ASSUME NEW t \in Task,
             \/ TestSock(t) \/ PassGates(t) \/ StopAtGates(t) \/ NullSock(t) \/ SendOnClosed(t)
             \/ MessageSent(t) \/ StopReceiving(t) \/ RecvNothing(t) \/ ReturnVerdict(t)
      PROVE  WireSound'
  <2>1. UNCHANGED <<up, down, sock, out, server>>
    BY <1>4 DEF TestSock, PassGates, StopAtGates, NullSock, SendOnClosed, MessageSent, StopReceiving,
                RecvNothing, ReturnVerdict, network, globals
  <2> QED
    BY <1>1, <2>1
<1>5. ASSUME NEW t \in Task, FlushNextRun(t) \/ GrowFails(t) \/ FlushAborted(t) PROVE WireSound'
  BY <1>5, FlushSound
<1>6. ASSUME NEW t \in Task, ConnectFails(t) PROVE WireSound'
  BY <1>6 DEF ConnectFails, WireSound
<1>7. ASSUME NEW t \in Task, Connect(t) PROVE WireSound'
  <2>1. Wire' = <<>> /\ down'[sock'] = <<>> /\ ~Unfinished'
    BY <1>7, ConnectEffect
  <2>2. Pending' = {} /\ Len(down'[sock']) = 0
    <3>1. Headers(<<>>) = {} /\ Headers(Wire)' = Headers(Wire')
      BY DEF Headers
    <3> QED
      BY <2>1, <3>1 DEF Pending
  <2> QED
    BY <2>2 DEF WireSound
<1>8. ASSUME NEW t \in Task, SendCell(t) PROVE WireSound'
  <2>1. sock # NoConn /\ UNCHANGED <<sock, down, info, sock_client, phase>>
    BY <1>8 DEF SendCell, globals, server, LinkInv, SocketInUse
  <2>2. Wire' = Wire
    BY <1>8, <2>1, SendFraming, WireTypes DEF Wire
  <2>3. Pending' \subseteq Pending
    BY <2>1, <2>2 DEF Pending, Unfinished, Headers
  <2>4. \A k \in 1 .. Len(down'[sock]) : \E j \in 1 .. Len(down[sock]) : down'[sock][k] = down[sock][j]
    BY <2>1
  <2> QED
    BY <2>1, <2>3, <2>4, WireSoundKept DEF SoundInv
<1>9. ASSUME NEW t \in Task, SendDiscarded(t) PROVE WireSound'
  <2>1. sock # NoConn /\ UNCHANGED <<sock, down, info, sock_client, phase>>
    BY <1>9 DEF SendDiscarded, network, globals, server, LinkInv, SocketInUse
  <2>2. Headers(Wire') \subseteq Headers(Wire)
    BY <1>9, <2>1, DiscardEffect, HeadersTail, WireTypes
  <2>3. Pending' \subseteq Pending
    BY <2>1, <2>2 DEF Pending, Unfinished, Headers
  <2>4. \A k \in 1 .. Len(down'[sock]) : \E j \in 1 .. Len(down[sock]) : down'[sock][k] = down[sock][j]
    BY <2>1
  <2> QED
    BY <2>1, <2>3, <2>4, WireSoundKept DEF SoundInv
<1>10. ASSUME NEW t \in Task, RecvAnswer(t) PROVE WireSound'
  <2>1. /\ sock # NoConn /\ UNCHANGED <<sock, up, out, server>>
        /\ down[sock] # <<>> /\ down' = [down EXCEPT ![sock] = Tail(@)]
    BY <1>10 DEF RecvAnswer, globals, LinkInv, SocketInUse
  <2>2. Pending' \subseteq Pending
    BY <2>1, WireUnchanged DEF server
  <2>3. down'[sock] = Tail(down[sock]) /\ down[sock] \in Seq(Call)
    BY <2>1, WireTypes DEF IInv, ServerInv, ServerTypeOK
  <2>4. \A k \in 1 .. Len(down'[sock]) : \E j \in 1 .. Len(down[sock]) : down'[sock][k] = down[sock][j]
    <3>1. ASSUME NEW q \in Seq(Call), q # <<>>, NEW k \in 1 .. Len(Tail(q))
          PROVE  k + 1 \in 1 .. Len(q) /\ Tail(q)[k] = q[k + 1]
      BY <3>1
    <3> QED
      BY <2>1, <2>3, <3>1
  <2> QED
    BY <2>1, <2>2, <2>4, WireSoundKept DEF SoundInv
<1>11. CASE ServerStep
  BY <1>11, ServerSound
<1>12. CASE Reboot
  BY <1>12 DEF Reboot, WireSound
<1> QED
  BY <1>2, <1>3, <1>4, <1>5, <1>6, <1>7, <1>8, <1>9, <1>10, <1>11, <1>12 DEF Next, HookStep

-----------------------------------------------------------------------------
(* What a hook knows stays true as long as it does nothing. *)
LEMMA HookSoundKept ==
  ASSUME NEW t \in Task, HookSound(t), dumps \subseteq dumps',
         pc'[t] = pc[t], left'[t] = left[t], mapping'[t] = mapping[t],
         memory_error'[t] = memory_error[t], ended'[t] = ended[t], reply'[t] = reply[t],
         result'[t] = result[t], calls'[t] = calls[t],
         pc[t] = "ret" => analyzer_response' = analyzer_response
  PROVE  HookSound(t)'
<1>1. ThisCall(t)' = ThisCall(t) /\ (OneMessage(t)' <=> OneMessage(t))
  BY DEF ThisCall, OneMessage, OneRun
<1>2. DumpedWhole(t) => DumpedWhole(t)'
  BY <1>1 DEF DumpedWhole, DumpedPages
<1>3. OneRun(mapping[t])' <=> OneRun(mapping[t])
  BY DEF OneRun
<1> QED
  BY <1>1, <1>2, <1>3 DEF HookSound

(* The step of one task leaves what the hooks of the others know. *)
LEMMA OtherHooks ==
  ASSUME IInv, LinkInv, Onward, NEW t \in Task, EnterPageHook(t) \/ EnterBpfHook(t) \/ HookStep(t),
         NEW u \in Task, u # t, HookSound(u)
  PROVE  HookSound(u)'
<1>1. /\ pc \in [Task -> PC] /\ calls \in [Task -> 0 .. MaxCalls]
      /\ mapping \in [Task -> [len : 1 .. MaxLen, present : SUBSET Offset]]
      /\ left \in [Task -> SUBSET Offset] /\ memory_error \in [Task -> BOOLEAN]
      /\ ended \in [Task -> BOOLEAN] /\ reply \in [Task -> Verdict]
      /\ result \in [Task -> Result]
  BY DEF IInv, HooksOK
<1>2. CASE EnterPageHook(t) \/ EnterBpfHook(t)
  <2>1. /\ pc'[u] = pc[u] /\ calls'[u] = calls[u] /\ mapping'[u] = mapping[u] /\ left'[u] = left[u]
        /\ memory_error'[u] = memory_error[u] /\ ended'[u] = ended[u] /\ reply'[u] = reply[u]
        /\ result'[u] = result[u] /\ analyzer_response' = analyzer_response
    BY <1>1, <1>2 DEF EnterPageHook, EnterBpfHook, StartCall, Return, Goto, walk, globals
  <2> QED
    BY <2>1, HookSoundKept DEF Onward
<1>3. CASE HookStep(t)
  <2>1. pc[t] # "idle"
    BY <1>3 DEF HookStep, TestSock, Connect, ConnectFails, PassGates, StopAtGates, FlushNextRun,
           GrowFails, FlushAborted, SendCell, NullSock, SendDiscarded, SendOnClosed, MessageSent,
           RecvAnswer, StopReceiving, RecvNothing, ReturnVerdict
  <2>2. pc[u] = "idle"
    BY <2>1, OthersIdle DEF LinkInv
  <2>3. /\ calls'[u] = calls[u] /\ mapping'[u] = mapping[u] /\ left'[u] = left[u]
        /\ memory_error'[u] = memory_error[u] /\ ended'[u] = ended[u]
    BY <1>1, <1>3 DEF HookStep, TestSock, Connect, ConnectFails, PassGates, StopAtGates,
           FlushNextRun, GrowFails, FlushAborted, FlushRun, SendCell, NullSock, SendDiscarded,
           SendOnClosed, MessageSent, RecvAnswer, StopReceiving, RecvNothing, ReturnVerdict, walk
  <2>4. pc'[u] = pc[u] /\ reply'[u] = reply[u] /\ result'[u] = result[u]
    BY <1>1, <1>3 DEF HookStep, TestSock, Connect, ConnectFails, PassGates, StopAtGates,
           FlushNextRun, GrowFails, FlushAborted, FlushRun, SendCell, NullSock, SendDiscarded,
           SendOnClosed, MessageSent, RecvAnswer, StopReceiving, RecvNothing, ReturnVerdict, Goto, Return
  <2> QED
    BY <2>2, <2>3, <2>4, HookSoundKept DEF Onward
<1> QED
  BY <1>2, <1>3

(* A call that was made is none of the results that are not about a call. *)
LEMMA CallIsNoError ==
  ASSUME IInv, NEW t \in Task, calls[t] # 0
  PROVE  ThisCall(t) \in Call /\ ThisCall(t) \notin {Junk, None, Skipped, NoMem}
<1>1. calls[t] \in 1 .. MaxCalls
  BY McheckTcpAssumption DEF IInv, HooksOK
<1> QED
  BY <1>1, McheckTcpAssumption DEF ThisCall, Junk, None, Skipped, NoMem

(* The hook of a task knows what it did about its mapping. *)
LEMMA OwnHook ==
  ASSUME IInv, IInv', LinkInv, SoundInv, Onward, NEW t \in Task,
         EnterPageHook(t) \/ EnterBpfHook(t) \/ HookStep(t)
  PROVE  HookSound(t)'
<1>1. /\ pc \in [Task -> PC] /\ calls \in [Task -> Nat]
      /\ mapping \in [Task -> [len : 1 .. MaxLen, present : SUBSET Offset]]
      /\ left \in [Task -> SUBSET Offset] /\ memory_error \in [Task -> BOOLEAN]
      /\ ended \in [Task -> BOOLEAN] /\ reply \in [Task -> Verdict]
      /\ result \in [Task -> Result]
  BY McheckTcpAssumption DEF IInv, HooksOK
<1>2. HookSound(t)
  BY DEF SoundInv
<1>3. CASE EnterPageHook(t) \/ EnterBpfHook(t)
  <2>1. calls'[t] # 0
    <3>1. calls'[t] = calls[t] + 1
      BY <1>1, <1>3 DEF EnterPageHook, EnterBpfHook, StartCall
    <3> QED
      BY <1>1, <3>1
  <2>2. ThisCall(t)' \notin {None, Skipped}
    BY <2>1, CallIsNoError DEF ThisCall, None, Skipped
  <2>3. CASE EnterPageHook(t) /\ t \notin TargetTask
    <3>1. pc'[t] = "idle" /\ result'[t] = Skipped
      BY <1>1, <2>3 DEF EnterPageHook, Return, Goto
    <3> QED
      BY <2>2, <3>1 DEF HookSound
  <2>4. CASE ~(EnterPageHook(t) /\ t \notin TargetTask)
    <3>1. PICK k, m : StartCall(t, k, m)
      BY <1>3, <2>4 DEF EnterPageHook, EnterBpfHook
    <3>2. pc'[t] \in {"connect", "gates"} /\ result'[t] = None /\ left'[t] = mapping'[t].present
      BY <1>1, <3>1 DEF StartCall, Goto
    <3> QED
      BY <2>2, <3>2 DEF HookSound
  <2> QED
    BY <2>3, <2>4
<1>4. ASSUME pc[t] # "idle" PROVE ThisCall(t) \in Call /\ ThisCall(t) \notin {Junk, None, Skipped, NoMem}
  BY <1>4, CallIsNoError DEF IInv, HooksOK
<1>5. ASSUME UNCHANGED <<calls, mapping, memory_error, dumps>>
      PROVE  /\ ThisCall(t)' = ThisCall(t) /\ (OneMessage(t)' <=> OneMessage(t))
             /\ (OneRun(mapping[t])' <=> OneRun(mapping[t])) /\ (DumpedWhole(t)' <=> DumpedWhole(t))
  BY <1>5 DEF ThisCall, OneMessage, OneRun, DumpedWhole, DumpedPages
<1>6. CASE TestSock(t) \/ PassGates(t) \/ Connect(t)
  <2>1. /\ pc[t] \in {"connect", "connecting", "gates"} /\ pc'[t] \in {"connecting", "gates", "walk"}
        /\ UNCHANGED <<calls, mapping, memory_error, dumps, left, result>>
    BY <1>1, <1>6 DEF TestSock, PassGates, Connect, Goto, server, walk
  <2> QED
    BY <1>2, <1>5, <2>1 DEF HookSound
<1>7. CASE ConnectFails(t) \/ StopAtGates(t) \/ RecvNothing(t)
  <2>1. /\ pc[t] # "idle" /\ pc'[t] = "idle" /\ result'[t] \in {Skipped, NoMem}
        /\ UNCHANGED <<calls, mapping, memory_error, dumps>>
    BY <1>1, <1>7 DEF ConnectFails, StopAtGates, RecvNothing, Return, Goto, server, walk
  <2> QED
    BY <1>4, <1>5, <2>1 DEF HookSound
<1>8. CASE FlushNextRun(t) \/ GrowFails(t) \/ FlushAborted(t)
  <2>1. pc[t] = "walk" /\ pc'[t] = "send" /\ UNCHANGED <<calls, mapping, dumps, result>>
    BY <1>1, <1>8 DEF FlushNextRun, GrowFails, FlushAborted, FlushRun, Goto, server
  <2>2. ASSUME OneMessage(t)' PROVE ended'[t]
    <3>1. FlushNextRun(t) /\ memory_error' = memory_error
      BY <1>1, <1>8, <2>2 DEF FlushNextRun, GrowFails, FlushAborted, OneMessage
    <3>2. OneMessage(t) /\ OneRun(mapping[t])
      BY <2>1, <2>2, <3>1 DEF OneMessage
    <3>3. left[t] = mapping[t].present
      BY <1>2, <2>1, <3>2 DEF HookSound
    <3>4. left[t] # {} /\ FirstRun(left[t]) = left[t] /\ IsLastFlush(t, left[t])
      BY <3>2, <3>3, OneRunFlush
    <3>5. FlushRun(t, left[t], IsLastFlush(t, left[t]))
      BY <3>1, <3>4 DEF FlushNextRun
    <3> QED
      BY <1>1, <3>4, <3>5 DEF FlushRun
  <2>3. result'[t] = ThisCall(t)' /\ OneRun(mapping[t])' => DumpedWhole(t)'
    BY <1>2, <2>1 DEF HookSound, ThisCall, OneRun, DumpedWhole, DumpedPages
  <2> QED
    BY <2>1, <2>2, <2>3 DEF HookSound
<1>9. CASE SendCell(t) \/ SendDiscarded(t) \/ SendOnClosed(t) \/ NullSock(t)
  <2>1. /\ pc'[t] \in {"send", "spin", "oops"} /\ (pc'[t] = "send" => pc[t] = "send")
        /\ UNCHANGED <<calls, mapping, memory_error, dumps, ended, result>>
    BY <1>1, <1>9 DEF SendCell, SendDiscarded, SendOnClosed, NullSock, Goto, server, walk
  <2> QED
    BY <1>2, <1>5, <2>1 DEF HookSound
<1>10. CASE MessageSent(t)
  <2>1. /\ pc[t] = "send" /\ UNCHANGED <<calls, mapping, memory_error, dumps, left>>
        /\ \/ pc'[t] = "walk" /\ ~ended[t] /\ result' = result
           \/ pc'[t] = "idle" /\ result'[t] = NoMem
           \/ pc'[t] = "recv" /\ ~memory_error[t] /\ result' = result
    BY <1>1, <1>10 DEF MessageSent, Goto, Return, server, walk
  <2> QED
    BY <1>2, <1>4, <1>5, <2>1 DEF HookSound
<1>11. CASE RecvAnswer(t)
  <2>1. /\ pc[t] = "recv" /\ pc'[t] = "drain" /\ sock # NoConn /\ down[sock] # <<>>
        /\ reply'[t] = Head(down[sock])
        /\ UNCHANGED <<calls, mapping, memory_error, dumps, result>>
    BY <1>1, <1>11 DEF RecvAnswer, Goto, server, walk, LinkInv, SocketInUse
  <2>2. 1 \in 1 .. Len(down[sock]) /\ reply'[t] = down[sock][1]
    BY <2>1, WireTypes
  <2>3. Answered(down[sock][1])
    BY <2>1, <2>2 DEF SoundInv, WireSound
  <2>4. ~memory_error[t]
    BY <1>2, <2>1 DEF HookSound
  <2>5. reply'[t] = ThisCall(t) /\ OneRun(mapping[t]) => DumpedWhole(t)
    BY <2>2, <2>3, <2>4 DEF Answered, OneMessage
  <2> QED
    BY <1>2, <1>5, <2>1, <2>4, <2>5 DEF HookSound
<1>12. CASE StopReceiving(t)
  <2>1. /\ pc[t] = "drain" /\ pc'[t] = "ret" /\ analyzer_response' = reply[t]
        /\ UNCHANGED <<calls, mapping, memory_error, dumps, result>>
    BY <1>1, <1>12 DEF StopReceiving, Goto, server, walk
  <2> QED
    BY <1>2, <1>5, <2>1 DEF HookSound
<1>13. CASE ReturnVerdict(t)
  <2>1. /\ pc[t] = "ret" /\ pc'[t] = "idle" /\ result'[t] = analyzer_response
        /\ UNCHANGED <<calls, mapping, memory_error, dumps>>
    BY <1>1, <1>13 DEF ReturnVerdict, Return, Goto, server, walk
  <2> QED
    BY <1>2, <1>5, <2>1 DEF HookSound
<1> QED
  BY <1>3, <1>6, <1>7, <1>8, <1>9, <1>10, <1>11, <1>12, <1>13 DEF HookStep

(* The invariant of the verdicts is kept by every step. *)
LEMMA SoundStep ==
  ASSUME IInv, IInv', LinkInv, FramingInv, SoundInv, "popen" \notin ServerFaults, [Next]_vars
  PROVE  SoundInv'
<1>1. Onward /\ calls \in [Task -> Nat]
  BY StepOnward, McheckTcpAssumption DEF IInv, HooksOK
<1>2. WireSound'
  BY <1>1, WireSoundStep
<1>3. ASSUME NEW t \in Task, calls'[t] = 0 PROVE mapping'[t].present = {}
  <2>1. calls[t] = 0 /\ mapping'[t] = mapping[t]
    BY <1>1, <1>3 DEF Onward
  <2> QED
    BY <2>1 DEF SoundInv
<1>4. ASSUME NEW u \in Task PROVE HookSound(u)'
  <2>1. HookSound(u)
    BY DEF SoundInv
  <2>2. CASE UNCHANGED vars
    BY <1>1, <2>1, <2>2, HookSoundKept DEF Onward, vars, hooks, walk, globals
  <2>3. ASSUME NEW t \in Task, EnterPageHook(t) \/ EnterBpfHook(t) \/ HookStep(t)
        PROVE  HookSound(u)'
    <3>1. CASE u = t
      BY <1>1, <2>3, <3>1, OwnHook
    <3>2. CASE u # t
      BY <1>1, <2>1, <2>3, <3>2, OtherHooks
    <3> QED
      BY <3>1, <3>2
  <2>4. CASE ServerStep
    <3>1. UNCHANGED <<pc, left, mapping, memory_error, ended, reply, result, calls, analyzer_response>>
      BY <2>4 DEF ServerStep, hooks, walk, globals
    <3> QED
      BY <1>1, <2>1, <3>1, HookSoundKept DEF Onward
  <2>5. CASE Reboot
    <3>1. pc'[u] = "idle" /\ result'[u] = None /\ calls' = calls /\ mapping' = mapping
      BY <2>5 DEF Reboot, walk
    <3>2. calls[u] # 0 => ThisCall(u) # None
      BY CallIsNoError
    <3>3. calls[u] = 0 => ~OneRun(mapping[u])
      BY DEF SoundInv, OneRun
    <3>4. (ThisCall(u)' = ThisCall(u)) /\ (OneRun(mapping[u])' <=> OneRun(mapping[u]))
      BY <3>1 DEF ThisCall, OneRun
    <3> QED
      BY <3>1, <3>2, <3>3, <3>4 DEF HookSound
  <2> QED
    BY <2>2, <2>3, <2>4, <2>5 DEF Next
<1> QED
  BY <1>2, <1>3, <1>4 DEF SoundInv

(* Before the first call there is nothing to be known. *)
LEMMA SoundInit == Init => SoundInv
BY DEF Init, SoundInv, WireSound, HookSound, OneRun, OneMessage

(***************************************************************************)
(* A hook that returns the verdict of its own call finds its mapping in    *)
(* the dumps, whole if it left in one message.  Hooks run one at a time    *)
(* and gzip can be started; sends, receives and walks may fail, answers    *)
(* may come late, and the machine may be restarted.                        *)
(***************************************************************************)
THEOREM DumpBeforeVerdict ==
  ASSUME Exclusive, "popen" \notin ServerFaults PROVE Spec => []VerdictAfterDump
<1>1. Init => SoundInv
  BY SoundInit
<1>2. IInv /\ IInv' /\ LinkInv /\ FramingInv /\ SoundInv /\ [Next]_vars => SoundInv'
  BY SoundStep
<1>3. SoundInv => VerdictAfterDump
  BY DEF SoundInv, HookSound, VerdictAfterDump
<1> QED
  BY <1>1, <1>2, <1>3, Invariant, LinkInvariant, FramingInvariant, PTL DEF Spec

-----------------------------------------------------------------------------
(* Nothing that the exchange is about changes. *)
LEMMA TurnKept ==
  ASSUME Wire' = Wire, Unfinished' <=> Unfinished, UNCHANGED <<info, down, sock>>
  PROVE  /\ Quiet => Quiet'
         /\ \A t \in Task : ended'[t] = ended[t] /\ calls'[t] = calls[t] =>
              (Exchanging(t) => Exchanging(t)')
<1>1. Pending' = Pending /\ Headers(Wire)' = Headers(Wire) /\ (EndLast(Wire)' <=> EndLast(Wire))
  BY DEF Pending, Headers, EndLast
<1>2. AllRead' <=> AllRead
  BY DEF AllRead
<1> QED
  BY <1>1, <1>2 DEF Quiet, Exchanging, ThisCall

(* A result that is not about a call is no verdict. *)
LEMMA ErrorsAreNoVerdicts ==
  None \notin Verdict /\ Skipped \notin Verdict /\ NoMem \notin Verdict
BY McheckTcpAssumption DEF Verdict, None, Skipped, NoMem, Junk

(* When a task enters its hook all hooks stay as they were. *)
LEMMA EnterTurn ==
  ASSUME IInv, TurnInv, NEW t \in Task, EnterPageHook(t) \/ EnterBpfHook(t)
  PROVE  TurnInv'
<1>1. /\ pc \in [Task -> PC] /\ calls \in [Task -> 0 .. MaxCalls]
      /\ memory_error \in [Task -> BOOLEAN] /\ ended \in [Task -> BOOLEAN]
      /\ reply \in [Task -> Verdict] /\ result \in [Task -> Result]
  BY DEF IInv, HooksOK
<1>2. pc[t] = "idle" /\ UNCHANGED <<up, down, server, sock, out, analyzer_response>>
  BY DEF EnterPageHook, EnterBpfHook, network, globals
<1>3. Wire' = Wire /\ (Unfinished' <=> Unfinished) /\ info' = info
  BY <1>2, WireUnchanged DEF server
<1>4. \A u \in Task : u # t =>
        /\ pc'[u] = pc[u] /\ calls'[u] = calls[u] /\ memory_error'[u] = memory_error[u]
        /\ ended'[u] = ended[u] /\ reply'[u] = reply[u] /\ result'[u] = result[u]
  BY <1>1 DEF EnterPageHook, EnterBpfHook, StartCall, Return, Goto, walk
<1>5. /\ pc'[t] \in {"idle", "connect", "gates"} /\ result'[t] \in {None, Skipped}
      /\ memory_error'[t] \in {FALSE, memory_error[t]} /\ (pc'[t] # "idle" => ~ended'[t])
  BY <1>1 DEF EnterPageHook, EnterBpfHook, StartCall, Return, Goto, walk
<1>6. ASSUME NEW u \in Task PROVE AtTurn(u)'
  <2>1. AtTurn(u)
    BY DEF TurnInv
  <2>2. CASE u = t
    BY <1>5, <2>1, <2>2, ErrorsAreNoVerdicts DEF AtTurn, Exchange, Verdict, Junk
  <2>3. CASE u # t
    <3>1. Exchanging(u) => Exchanging(u)'
      BY <1>2, <1>3, <1>4, <2>3, TurnKept
    <3> QED
      BY <1>2, <1>4, <2>1, <2>3, <3>1 DEF AtTurn, ThisCall, Exchange, Verdict, Junk
  <2> QED
    BY <2>2, <2>3
<1>7. ASSUME sock' # NoConn, \A u \in Task : pc'[u] \notin Exchange PROVE Quiet'
  <2>1. \A u \in Task : pc[u] \notin Exchange
    BY <1>2, <1>4, <1>7 DEF Exchange
  <2>2. Quiet
    BY <1>2, <1>7, <2>1 DEF TurnInv
  <2> QED
    BY <1>2, <1>3, <2>2, TurnKept
<1> QED
  BY <1>6, <1>7 DEF TurnInv, Exchange

(* While a hook is at work the others are idle, and stay so. *)
LEMMA TurnOf ==
  ASSUME IInv, LinkInv, TurnInv, NEW t \in Task, HookStep(t),
         AtTurn(t)', pc'[t] \notin Exchange /\ sock' # NoConn => Quiet'
  PROVE  TurnInv'
<1>1. /\ pc \in [Task -> PC] /\ memory_error \in [Task -> BOOLEAN] /\ result \in [Task -> Result]
  BY DEF IInv, HooksOK
<1>2. pc[t] # "idle"
  BY DEF HookStep, TestSock, Connect, ConnectFails, PassGates, StopAtGates, FlushNextRun,
         GrowFails, FlushAborted, SendCell, NullSock, SendDiscarded, SendOnClosed, MessageSent,
         RecvAnswer, StopReceiving, RecvNothing, ReturnVerdict
<1>3. \A u \in Task : u # t => pc[u] = "idle"
  BY <1>2, OthersIdle DEF LinkInv
<1>4. \A u \in Task : u # t => memory_error'[u] = memory_error[u] /\ calls'[u] = calls[u]
  BY <1>1 DEF HookStep, TestSock, Connect, ConnectFails, PassGates, StopAtGates,
         FlushNextRun, GrowFails, FlushAborted, FlushRun, SendCell, NullSock, SendDiscarded,
         SendOnClosed, MessageSent, RecvAnswer, StopReceiving, RecvNothing, ReturnVerdict, walk
<1>5. \A u \in Task : u # t => pc'[u] = pc[u] /\ result'[u] = result[u]
  BY <1>1 DEF HookStep, TestSock, Connect, ConnectFails, PassGates, StopAtGates,
         FlushNextRun, GrowFails, FlushAborted, FlushRun, SendCell, NullSock, SendDiscarded,
         SendOnClosed, MessageSent, RecvAnswer, StopReceiving, RecvNothing, ReturnVerdict, Goto, Return
<1>6. ASSUME NEW u \in Task PROVE AtTurn(u)'
  <2>1. CASE u # t
    BY <1>3, <1>4, <1>5, <2>1 DEF TurnInv, AtTurn, ThisCall, Exchange, Verdict, Junk
  <2> QED
    BY <2>1
<1> QED
  BY <1>6 DEF TurnInv, Exchange

(* The connection is idle until the hook walks its mapping. *)
LEMMA QuietBefore ==
  ASSUME IInv, LinkInv, TurnInv, NEW t \in Task, pc[t] # "idle", pc[t] \notin Exchange, sock # NoConn
  PROVE  Quiet
<1>1. \A u \in Task : u # t => pc[u] = "idle"
  BY OthersIdle DEF LinkInv
<1> QED
  BY <1>1 DEF TurnInv, Exchange

(* The steps before the walk, and those after the answer. *)
LEMMA OutsideTurn ==
  ASSUME IInv, LinkInv, TurnInv, NEW t \in Task,
         \/ TestSock(t) \/ Connect(t) \/ ConnectFails(t) \/ PassGates(t) \/ StopAtGates(t)
         \/ StopReceiving(t) \/ ReturnVerdict(t)
  PROVE  AtTurn(t)' /\ (pc'[t] \notin Exchange /\ sock' # NoConn => Quiet')
<1>1. /\ pc \in [Task -> PC] /\ result \in [Task -> Result] /\ SocketInUse /\ AtTurn(t)
      /\ sock \in Conn \cup {NoConn}
  BY DEF IInv, HooksOK, LinkInv, TurnInv
<1>2. /\ pc[t] # "idle" /\ pc[t] \notin Exchange /\ UNCHANGED <<calls, memory_error, ended, reply>>
  BY DEF TestSock, Connect, ConnectFails, PassGates, StopAtGates, StopReceiving, ReturnVerdict,
         Exchange, walk
<1>3. ThisCall(t)' = ThisCall(t)
  BY <1>2 DEF ThisCall
<1>4. CASE Connect(t)
  <2>1. Quiet'
    BY <1>4, ConnectEffect DEF Quiet, AllRead
  <2>2. pc[t] = "connecting" /\ pc'[t] = "gates" /\ result' = result
    BY <1>1, <1>4 DEF Connect, Goto
  <2> QED
    BY <1>1, <1>2, <1>3, <2>1, <2>2 DEF AtTurn, Exchange, Verdict, Junk
<1>5. CASE ConnectFails(t)
  <2>1. sock' = NoConn /\ pc'[t] = "idle" /\ result'[t] = Skipped
    BY <1>1, <1>5 DEF ConnectFails, Return, Goto
  <2> QED
    BY <1>1, <1>2, <2>1, ErrorsAreNoVerdicts DEF AtTurn, Exchange, Verdict, Junk
<1>6. CASE TestSock(t) \/ PassGates(t) \/ StopAtGates(t) \/ StopReceiving(t) \/ ReturnVerdict(t)
  <2>1. UNCHANGED <<up, down, server, sock, out>>
    BY <1>6 DEF TestSock, PassGates, StopAtGates, StopReceiving, ReturnVerdict, network, globals
  <2>2. Wire' = Wire /\ (Unfinished' <=> Unfinished) /\ info' = info
    BY <2>1, WireUnchanged DEF server
  <2>3. sock # NoConn => Quiet'
    BY <1>2, <2>1, <2>2, QuietBefore, TurnKept
  <2>4. CASE TestSock(t)
    <3>1. pc[t] = "connect" /\ pc'[t] \in {"connecting", "gates"} /\ result' = result
      BY <1>1, <2>4 DEF TestSock, Goto
    <3> QED
      BY <1>1, <1>2, <1>3, <2>1, <2>3, <3>1 DEF AtTurn, Exchange, Verdict, Junk
  <2>5. CASE StopAtGates(t)
    <3>1. pc'[t] = "idle" /\ result'[t] \in {Skipped, NoMem}
      BY <1>1, <2>5 DEF StopAtGates, Return, Goto
    <3> QED
      BY <1>1, <1>2, <2>1, <2>3, <3>1, ErrorsAreNoVerdicts DEF AtTurn, Exchange, Verdict, Junk
  <2>6. CASE PassGates(t)
    <3>1. pc[t] = "gates" /\ pc'[t] = "walk" /\ result' = result /\ sock # NoConn
      BY <1>1, <2>6 DEF PassGates, Goto, SocketInUse
    <3>2. Quiet'
      BY <2>3, <3>1
    <3>3. Exchanging(t)'
      <4>1. Wire' = <<>> /\ ~Unfinished' /\ down'[sock'] = <<>>
        BY <3>2 DEF Quiet, AllRead
      <4>2. Headers(Wire)' = {} /\ Pending' = {}
        BY <4>1 DEF Headers, Pending
      <4>3. EndLast(Wire)'
        BY <4>1 DEF EndLast
      <4> QED
        BY <4>1, <4>2, <4>3 DEF Exchanging
    <3> QED
      BY <1>1, <1>2, <1>3, <3>1, <3>3 DEF AtTurn, Exchange, Verdict, Junk
  <2>7. CASE StopReceiving(t)
    <3>1. pc[t] = "drain" /\ pc'[t] = "ret" /\ analyzer_response' = reply[t] /\ result' = result
      BY <1>1, <2>7 DEF StopReceiving, Goto
    <3> QED
      BY <1>1, <1>2, <1>3, <2>1, <2>3, <3>1 DEF AtTurn, Exchange, Verdict, Junk
  <2>8. CASE ReturnVerdict(t)
    <3>1. pc[t] = "ret" /\ pc'[t] = "idle" /\ result'[t] = analyzer_response
      BY <1>1, <2>8 DEF ReturnVerdict, Return, Goto
    <3> QED
      BY <1>1, <1>2, <1>3, <2>1, <2>3, <3>1 DEF AtTurn, Exchange, Verdict, Junk
  <2> QED
    BY <1>6, <2>4, <2>5, <2>6, <2>7, <2>8
<1> QED
  BY <1>4, <1>5, <1>6

(* A message follows only those that did not end the mapping. *)
LEMMA FlushTurn ==
  ASSUME IInv, LinkInv, TurnInv, KernelFaults \cap {"signal", "kvrealloc"} = {}, NEW t \in Task,
         FlushNextRun(t) \/ GrowFails(t) \/ FlushAborted(t)
  PROVE  AtTurn(t)' /\ pc'[t] \in Exchange
<1>1. AtTurn(t) /\ pc \in [Task -> PC] /\ left[t] \in SUBSET Offset /\ ended \in [Task -> BOOLEAN]
  BY DEF TurnInv, IInv, HooksOK
<1>2. FlushNextRun(t)
  BY <1>1 DEF AtTurn, GrowFails, FlushAborted
<1> DEFINE run == IF left[t] = {} THEN {} ELSE FirstRun(left[t])
           end == IsLastFlush(t, run)
           m == Message(t, run, end)
<1>3. /\ pc[t] = "walk" /\ FlushRun(t, run, end) /\ memory_error' = memory_error
      /\ run \in SUBSET Offset /\ end \in BOOLEAN
  BY <1>1, <1>2 DEF FlushNextRun, FirstRun, IsLastFlush
<1> HIDE DEF run, end
<1>4. m \in Seq(Cell) /\ (Wire' = Wire \/ Wire' = Wire \o m)
  BY <1>3, FlushEffect
<1>5. /\ \A h \in Headers(m) : h.call = ThisCall(t) /\ h.is_end_of_mapping = end
      /\ \A k \in 1 .. Len(m) : m[k].kind = "header" => k = 1
  <2>1. /\ \A h \in Headers(m) :
             h = [kind |-> "header", call |-> ThisCall(t),
                  mapped_addr |-> IF run = {} THEN 0 ELSE Min(run), len |-> Cardinality(run),
                  mapping_len |-> mapping[t].len, is_end_of_mapping |-> end]
        /\ \A k \in 1 .. Len(m) : m[k].kind = "header" => k = 1
    BY <1>3, HeadersMessage
  <2> HIDE DEF m
  <2> QED
    BY <2>1
<1> HIDE DEF m
<1>6. /\ sock # NoConn /\ pc'[t] = "send" /\ ended'[t] = end
      /\ UNCHANGED <<sock, down, sock_client, phase, info, calls, result>>
  BY <1>1, <1>3 DEF FlushRun, LinkInv, SocketInUse, Goto, network, server, globals
<1>7. ~ended[t] /\ Exchanging(t)
  BY <1>1, <1>3 DEF AtTurn, Exchange
<1>8. /\ \A h \in Pending : h.call = ThisCall(t) /\ ~h.is_end_of_mapping
      /\ down[sock] = <<>>
  BY <1>7 DEF Exchanging
<1>9. Wire \in Seq(Cell) /\ Headers(Wire)' = Headers(Wire')
  BY <1>6, WireTypes DEF Headers
<1>10. \A h \in Pending' : h \in Pending \/ h \in Headers(m)
  <2>1. Headers(Wire') \subseteq Headers(Wire) \cup Headers(m)
    BY <1>4, <1>9, HeadersConcat
  <2> QED
    BY <1>6, <1>9, <2>1 DEF Pending, Unfinished
<1>11. EndLast(Wire)'
  <2>1. EndLast(Wire \o m)
    BY <1>4, <1>5, <1>8, <1>9, EndLastConcat DEF Pending
  <2>2. EndLast(Wire')
    BY <1>4, <1>7, <2>1 DEF Exchanging
  <2> QED
    BY <2>2 DEF EndLast
<1>12. ~(Unfinished' /\ info'.is_end_of_mapping)
  <2>1. Unfinished' <=> Unfinished
    BY <1>6 DEF Unfinished
  <2>2. Unfinished => info \in Pending
    BY DEF Pending
  <2> QED
    BY <1>6, <1>8, <2>1, <2>2
<1>13. \A h \in Pending' : h.call = ThisCall(t) /\ (h.is_end_of_mapping => ended'[t])
  BY <1>5, <1>6, <1>8, <1>10
<1>14. Exchanging(t)'
  BY <1>6, <1>8, <1>11, <1>12, <1>13 DEF Exchanging, ThisCall
<1> QED
  BY <1>1, <1>3, <1>6, <1>14 DEF AtTurn, Exchange, ThisCall, Verdict, Junk

(* Sending moves a message on, or throws a cell away. *)
LEMMA SendTurn ==
  ASSUME IInv, LinkInv, FramingInv, TurnInv, NEW t \in Task,
         SendCell(t) \/ SendDiscarded(t) \/ SendOnClosed(t) \/ NullSock(t)
  PROVE  AtTurn(t)' /\ pc'[t] \in Exchange
<1>1. AtTurn(t) /\ pc \in [Task -> PC] /\ SocketInUse
  BY DEF TurnInv, IInv, HooksOK, LinkInv
<1>2. ~NullSock(t)
  BY <1>1, OneSocket DEF NullSock, SocketInUse
<1>3. /\ pc[t] = "send" /\ pc'[t] \in {"send", "spin"} /\ sock # NoConn
      /\ UNCHANGED <<sock, down, sock_client, phase, info, calls, memory_error, ended, result>>
  BY <1>1, <1>2 DEF SendCell, SendDiscarded, SendOnClosed, Goto, SocketInUse, network, server, globals, walk
<1>4. Exchanging(t) /\ (Unfinished' <=> Unfinished)
  BY <1>1, <1>3 DEF AtTurn, Exchange, Unfinished
<1>5. CASE SendCell(t) \/ SendOnClosed(t)
  <2>1. Wire' = Wire
    <3>1. CASE SendCell(t)
      BY <1>3, <3>1, SendFraming, WireTypes DEF Wire
    <3>2. CASE SendOnClosed(t)
      BY <1>3, <3>2, WireUnchanged DEF SendOnClosed, network
    <3> QED
      BY <1>5, <3>1, <3>2
  <2>2. Exchanging(t)'
    BY <1>3, <1>4, <2>1, TurnKept
  <2> QED
    BY <1>1, <1>3, <2>2 DEF AtTurn, Exchange, ThisCall, Verdict, Junk
<1>6. CASE SendDiscarded(t)
  <2>1. Wire # <<>> /\ Wire' = Tail(Wire) /\ Wire \in Seq(Cell)
    BY <1>3, <1>6, DiscardEffect, WireTypes
  <2>2. Headers(Wire') \subseteq Headers(Wire) /\ EndLast(Wire')
    BY <1>4, <2>1, HeadersTail, EndLastTail DEF Exchanging
  <2>3. /\ Headers(Wire)' \subseteq Headers(Wire) /\ EndLast(Wire)'
        /\ Pending' \subseteq Pending /\ down[sock] = <<>>
    <3>1. Headers(Wire)' = Headers(Wire') /\ (EndLast(Wire)' <=> EndLast(Wire'))
      BY DEF Headers, EndLast
    <3>2. down[sock] = <<>>
      BY <1>4, <2>1 DEF Exchanging, AllRead
    <3> QED
      BY <1>3, <1>4, <2>2, <3>1, <3>2 DEF Pending
  <2>4. Exchanging(t)'
    BY <1>3, <1>4, <2>3 DEF Exchanging, ThisCall
  <2> QED
    BY <1>1, <1>3, <2>4 DEF AtTurn, Exchange, ThisCall, Verdict, Junk
<1> QED
  BY <1>2, <1>5, <1>6

(* The hook waits for the answer, gets it, or finds the connection closed. *)
LEMMA AnswerTurn ==
  ASSUME IInv, LinkInv, TurnInv, KernelFaults \cap {"signal", "kvrealloc"} = {}, NEW t \in Task,
         MessageSent(t) \/ RecvAnswer(t) \/ RecvNothing(t)
  PROVE  AtTurn(t)' /\ (pc'[t] \notin Exchange /\ sock' # NoConn => Quiet')
<1>1. /\ AtTurn(t) /\ pc \in [Task -> PC] /\ SocketInUse /\ Connections
      /\ pc[t] = "recv" => sk[t] = sock
      /\ result \in [Task -> Result] /\ reply \in [Task -> Verdict]
      /\ down \in [Conn -> Seq(Call)]
  BY DEF TurnInv, IInv, HooksOK, LinkInv, SocketInUse, ServerInv, ServerTypeOK
<1>2. /\ pc[t] \in {"send", "recv"} /\ sock # NoConn /\ sock \in Conn
      /\ UNCHANGED <<sock, up, out, sock_client, phase, info, calls, memory_error, ended>>
  BY <1>1, WireTypes DEF MessageSent, RecvAnswer, RecvNothing, SocketInUse, network, server, globals, walk
<1>3. /\ Exchanging(t) /\ ThisCall(t)' = ThisCall(t)
      /\ Wire' = Wire /\ (Unfinished' <=> Unfinished)
  BY <1>1, <1>2, WireUnchanged DEF AtTurn, Exchange, ThisCall
<1>4. CASE MessageSent(t)
  <2>1. /\ pc'[t] \in {"walk", "recv"} /\ (pc'[t] = "walk" => ~ended[t])
        /\ (pc'[t] = "recv" => ended[t]) /\ UNCHANGED <<down, result>>
    BY <1>1, <1>4 DEF MessageSent, Goto, AtTurn, network
  <2>2. Exchanging(t)'
    BY <1>2, <1>3, <2>1, TurnKept
  <2> QED
    BY <1>1, <1>2, <1>3, <2>1, <2>2 DEF AtTurn, Exchange, Verdict, Junk
<1>5. CASE RecvAnswer(t)
  <2>1. /\ pc'[t] = "drain" /\ down[sock] # <<>> /\ reply'[t] = Head(down[sock])
        /\ down'[sock] = Tail(down[sock]) /\ result' = result
    BY <1>1, <1>2, <1>5 DEF RecvAnswer, Goto
  <2>2. down[sock] = <<ThisCall(t)>> /\ AllRead
    BY <1>3, <2>1 DEF Exchanging
  <2>3. reply'[t] = ThisCall(t) /\ down'[sock'] = <<>>
    BY <1>2, <2>1, <2>2
  <2>4. Quiet'
    BY <1>3, <2>2, <2>3 DEF Quiet, AllRead
  <2> QED
    BY <1>1, <1>2, <1>3, <2>1, <2>3, <2>4 DEF AtTurn, Exchange, Verdict, Junk
<1>6. CASE RecvNothing(t)
  <2>1. /\ pc[t] = "recv" /\ pc'[t] = "idle" /\ result'[t] = Skipped /\ down' = down
        /\ down[sock] = <<>> /\ sock \in closed
    BY <1>1, <1>6 DEF RecvNothing, Return, Goto, network
  <2>2. up[sock] = <<>> /\ ~Unfinished
    BY <1>1, <2>1, FlowTypes DEF Connections, Unfinished
  <2>3. Unsent(out) = <<>>
    <3>1. out[t] = <<>>
      BY <1>1, <2>1 DEF SocketInUse
    <3> QED
      BY <2>1, <3>1, HookUnsent
  <2>4. Wire = <<>>
    BY <2>2, <2>3 DEF Wire, InFlight
  <2>5. Quiet'
    BY <1>2, <1>3, <2>1, <2>2, <2>4 DEF Quiet, AllRead
  <2> QED
    BY <1>1, <1>2, <2>1, <2>5, ErrorsAreNoVerdicts DEF AtTurn, Exchange, Verdict, Junk
<1> QED
  BY <1>4, <1>5, <1>6

(* The server's side of the exchange of the hook of t. *)
LEMMA ServerExchange ==
  ASSUME IInv, IInv', LinkInv, FramingInv, ServerStep, sock # NoConn, NEW t \in Task, Exchanging(t)
  PROVE  Exchanging(t)'
<1>1. /\ sock' = sock /\ ended' = ended /\ calls' = calls /\ Wire \in Seq(Cell)
      /\ ThisCall(t)' = ThisCall(t) /\ sock \in Conn
  BY WireTypes DEF ServerStep, globals, hooks, walk, ThisCall
<1>2. Headers(Wire)' = Headers(Wire') /\ (EndLast(Wire)' <=> EndLast(Wire'))
  BY DEF Headers, EndLast
<1>3. CASE Aside
  <2>1. CASE Unfinished
    <3>1. info' = info
      BY <1>3, <2>1 DEF Aside
    <3> QED
      BY <1>1, <1>2, <1>3, <3>1 DEF Aside, Exchanging, Pending, AllRead
  <2>2. CASE ~Unfinished
    BY <1>1, <1>2, <1>3, <2>2 DEF Aside, Exchanging, Pending, AllRead
  <2> QED
    BY <2>1, <2>2
<1>4. CASE HeaderTaken
  <2>1. Wire # <<>> /\ Wire' = Tail(Wire) /\ info' = Head(Wire) /\ down'[sock] = down[sock]
    BY <1>4 DEF HeaderTaken
  <2>2. Headers(Wire') \subseteq Headers(Wire) /\ info' \in Headers(Wire)
    BY <1>1, <1>4, HeadersTail DEF HeaderTaken
  <2>3. EndLast(Wire') /\ (info'.is_end_of_mapping => Headers(Wire') = {})
    BY <1>1, <1>4, EndLastTail DEF HeaderTaken, Exchanging
  <2>4. Pending' \subseteq Pending
    BY <1>2, <2>2 DEF Pending
  <2>5. down[sock] = <<>>
    BY <2>1 DEF Exchanging, AllRead
  <2> QED
    BY <1>1, <1>2, <2>1, <2>3, <2>4, <2>5 DEF Exchanging
<1>5. CASE PageTaken
  <2>1. Wire # <<>> /\ Wire' = Tail(Wire) /\ info' = info /\ Unfinished /\ down'[sock] = down[sock]
    BY <1>5 DEF PageTaken
  <2>2. Headers(Wire') \subseteq Headers(Wire) /\ EndLast(Wire')
    BY <1>1, <2>1, HeadersTail, EndLastTail DEF Exchanging
  <2>3. Pending' \subseteq Pending
    BY <1>2, <2>1, <2>2 DEF Pending
  <2>4. down[sock] = <<>>
    BY <2>1 DEF Exchanging, AllRead
  <2> QED
    BY <1>1, <1>2, <2>1, <2>2, <2>3, <2>4 DEF Exchanging
<1>6. CASE MessageDone
  <2>1. Wire' = Wire /\ phase = "finish" /\ Unfinished /\ ~Unfinished'
    BY <1>6 DEF MessageDone, Unfinished
  <2>2. Pending' \subseteq Pending /\ info \in Pending
    BY <1>2, <2>1 DEF Pending
  <2>3. down[sock] = <<>>
    BY <2>1 DEF Exchanging, AllRead
  <2>4. CASE ~info.is_end_of_mapping
    <3>1. down'[sock] = down[sock]
      BY <1>6, <2>4 DEF MessageDone
    <3> QED
      BY <1>1, <1>2, <2>1, <2>2, <2>3, <3>1 DEF Exchanging
  <2>5. CASE info.is_end_of_mapping
    <3>1. down'[sock] = Append(down[sock], info.call) /\ info.call = ThisCall(t) /\ ended[t]
      BY <1>6, <2>2, <2>5 DEF MessageDone, Exchanging
    <3>2. down'[sock] = <<ThisCall(t)>>
      BY <2>3, <3>1
    <3>3. Wire = <<>>
      <4>1. sock_client = sock /\ sock \notin closed
        BY <1>6, FlowTypes DEF MessageDone
      <4>2. Framed(info, info.len, Wire) /\ info \in Header /\ info.len \in 0 .. info.len
        <5>1. PagesRead(sock) = info.len
          BY <2>1 DEF PagesRead
        <5>2. info \in Header /\ info.len \in 0 .. MaxLen
          BY FlowTypes
        <5> QED
          BY <1>1, <4>1, <5>1, <5>2, TcpServerAssumption DEF FramingInv, Framing, Wire
      <4>3. ASSUME Wire # <<>> PROVE FALSE
        <5>1. Head(Wire).kind = "header"
          BY <1>1, <4>2, <4>3, NextCell
        <5>2. Head(Wire) \in Headers(Wire)
          BY <1>1, <4>3, <5>1, HeadersTail
        <5> QED
          BY <2>1, <2>5, <5>2 DEF Exchanging
      <4> QED
        BY <4>3
    <3>4. AllRead'
      BY <2>1, <3>3 DEF AllRead
    <3> QED
      BY <1>1, <1>2, <2>1, <2>2, <3>1, <3>2, <3>4 DEF Exchanging
  <2> QED
    BY <2>4, <2>5
<1>7. CASE Dropped
  <2>1. Wire' = Unsent(out) /\ down'[sock] = down[sock] /\ ~Unfinished' /\ Wire = up[sock] \o Unsent(out)
    BY <1>7 DEF Dropped, Wire, InFlight
  <2>2. Headers(Wire') \subseteq Headers(Wire)
    BY <2>1, WireTypes, HeadersConcat
  <2>3. EndLast(Wire')
    BY <2>1, WireTypes, EndLastSuffix DEF Exchanging
  <2>4. Wire = <<>> => Wire' = <<>>
    BY <2>1, WireTypes, EmptyParts
  <2>5. Pending' \subseteq Pending
    BY <1>2, <2>1, <2>2 DEF Pending
  <2>6. AllRead => AllRead'
    BY <2>1, <2>4 DEF AllRead
  <2> QED
    BY <1>1, <1>2, <2>1, <2>3, <2>5, <2>6 DEF Exchanging
<1> QED
  BY <1>3, <1>4, <1>5, <1>6, <1>7, ServerOnSock

(* The server takes no message of a connection that is idle. *)
LEMMA ServerQuiet ==
  ASSUME IInv, IInv', LinkInv, FramingInv, ServerStep, sock # NoConn, Quiet
  PROVE  Quiet'
<1>1. Wire = <<>> /\ ~Unfinished /\ down[sock] = <<>> /\ sock' = sock
  BY DEF Quiet, AllRead, ServerStep, globals
<1>2. ~HeaderTaken /\ ~PageTaken /\ ~MessageDone
  BY <1>1 DEF HeaderTaken, PageTaken, MessageDone, Unfinished
<1>3. CASE Aside
  BY <1>1, <1>3 DEF Aside, Quiet, AllRead
<1>4. CASE Dropped
  <2>1. Wire' = Unsent(out) /\ Wire = up[sock] \o Unsent(out)
    BY <1>4 DEF Dropped, Wire, InFlight
  <2>2. Wire' = <<>>
    BY <1>1, <2>1, WireTypes, EmptyParts
  <2> QED
    BY <1>1, <1>4, <2>2 DEF Dropped, Quiet, AllRead
<1> QED
  BY <1>2, <1>3, <1>4, ServerOnSock

(* Hook and server take turns in every step. *)
LEMMA TurnStep ==
  ASSUME IInv, IInv', LinkInv, FramingInv, TurnInv, [Next]_vars,
         KernelFaults \cap {"signal", "kvrealloc"} = {}
  PROVE  TurnInv'
<1>1. CASE UNCHANGED vars
  <2>1. Wire' = Wire /\ (Unfinished' <=> Unfinished) /\ UNCHANGED <<info, down, sock, ended, calls>>
    BY <1>1, WireUnchanged DEF vars, network, server, globals, hooks, walk
  <2>2. UNCHANGED <<pc, memory_error, reply, analyzer_response, result>>
    BY <1>1 DEF vars, globals, hooks, walk
  <2>3. ASSUME NEW u \in Task PROVE AtTurn(u)'
    <3>1. AtTurn(u) /\ (Exchanging(u) => Exchanging(u)')
      BY <2>1, TurnKept DEF TurnInv
    <3> QED
      BY <2>1, <2>2, <3>1 DEF AtTurn, ThisCall, Exchange, Verdict, Junk
  <2>4. Quiet => Quiet'
    BY <2>1, TurnKept
  <2> QED
    BY <2>1, <2>2, <2>3, <2>4 DEF TurnInv, Exchange
<1>2. ASSUME NEW t \in Task, EnterPageHook(t) \/ EnterBpfHook(t) PROVE TurnInv'
  BY <1>2, EnterTurn
<1>3. ASSUME NEW t \in Task, HookStep(t) PROVE TurnInv'
  <2>1. AtTurn(t)' /\ (pc'[t] \notin Exchange /\ sock' # NoConn => Quiet')
    BY <1>3, OutsideTurn, FlushTurn, SendTurn, AnswerTurn DEF HookStep
  <2> QED
    BY <1>3, <2>1, TurnOf
<1>4. CASE ServerStep
  <2>1. /\ UNCHANGED <<sock, pc, calls, ended, memory_error, reply, analyzer_response, result>>
    BY <1>4 DEF ServerStep, globals, hooks, walk
  <2>2. ASSUME NEW u \in Task PROVE AtTurn(u)'
    <3>1. AtTurn(u)
      BY DEF TurnInv
    <3>2. pc[u] \in Exchange => sock # NoConn
      BY DEF LinkInv, SocketInUse, Exchange
    <3>3. pc[u] \in Exchange => Exchanging(u)'
      BY <1>4, <3>1, <3>2, ServerExchange DEF AtTurn
    <3> QED
      BY <2>1, <3>1, <3>3 DEF AtTurn, ThisCall, Exchange, Verdict, Junk
  <2>3. sock # NoConn /\ Quiet => Quiet'
    BY <1>4, ServerQuiet
  <2> QED
    BY <2>1, <2>2, <2>3 DEF TurnInv, Exchange
<1>5. CASE Reboot
  <2>1. /\ sock' = NoConn /\ \A u \in Task : pc'[u] = "idle" /\ result'[u] = None
        /\ memory_error' = memory_error
    BY <1>5 DEF Reboot, walk
  <2>2. None \notin Verdict /\ Verdict' = Verdict
    BY ErrorsAreNoVerdicts DEF Verdict, Junk
  <2> QED
    BY <2>1, <2>2 DEF TurnInv, AtTurn, Exchange
<1> QED
  BY <1>1, <1>2, <1>3, <1>4, <1>5 DEF Next

(* Before the first call no message is due. *)
LEMMA TurnInit == Init => TurnInv
BY ErrorsAreNoVerdicts DEF Init, TurnInv, AtTurn, Exchange

(* The invariant of the exchange holds in every reachable state. *)
THEOREM TurnInvariant ==
  ASSUME Exclusive, KernelFaults \cap {"signal", "kvrealloc"} = {} PROVE Spec => []TurnInv
<1>1. Init => TurnInv
  BY TurnInit
<1>2. IInv /\ IInv' /\ LinkInv /\ FramingInv /\ TurnInv /\ [Next]_vars => TurnInv'
  BY TurnStep
<1> QED
  BY <1>1, <1>2, Invariant, LinkInvariant, FramingInvariant, PTL DEF Spec

(***************************************************************************)
(* A hook returns the verdict on its own pages: it takes the first answer  *)
(* it finds, and that is the only one, given to its last message.  Hooks   *)
(* run one at a time, no signal interrupts a wait and no walk is aborted;  *)
(* whatever the server does, connections may fail and break, messages may  *)
(* be lost for lack of memory and the machine may be restarted.            *)
(***************************************************************************)
THEOREM VerdictIsOwn ==
  ASSUME Exclusive, KernelFaults \cap {"signal", "kvrealloc"} = {} PROVE Spec => []OwnVerdict
<1>1. TurnInv => OwnVerdict
  BY DEF TurnInv, AtTurn, OwnVerdict
<1> QED
  BY <1>1, TurnInvariant, PTL

(***************************************************************************)
(* Under the same conditions nothing is left over when all hooks have      *)
(* returned: no cell, no answer and no buffer.                             *)
(***************************************************************************)
THEOREM NothingLeftOver ==
  ASSUME Exclusive, KernelFaults \cap {"signal", "kvrealloc"} = {} PROVE Spec => []QuietBetweenCalls
<1>1. ASSUME IInv, LinkInv, FramingInv, TurnInv, \A t \in Task : pc[t] = "idle", NEW c \in Conn \ hungup
      PROVE  /\ up[c] = <<>> /\ down[c] = <<>>
             /\ sock_client = c => phase = "header" /\ root_buf = <<>>
  <2>1. CASE c = sock
    <3>1. sock # NoConn /\ Quiet
      BY <1>1, <2>1, FlowTypes DEF TurnInv, Exchange
    <3>2. up[sock] \o Unsent(out) = <<>>
      BY <3>1 DEF Quiet, AllRead, Wire, InFlight
    <3>3. up[sock] = <<>>
      BY <1>1, <3>1, <3>2, WireTypes, EmptyParts
    <3>4. ASSUME sock_client = sock PROVE phase = "header" /\ root_buf = <<>>
      <4>1. phase \notin {"payload", "finish", "garbled", "accept", "killed"}
        BY <1>1, <3>1, <3>4
           DEF Quiet, AllRead, Unfinished, FramingInv, FramingKept, IInv, ServerInv, ServerTypeOK
      <4> QED
        BY <1>1, <4>1 DEF IInv, ServerInv, ServerTypeOK, BufferInUse, Phase
    <3> QED
      BY <2>1, <3>1, <3>3, <3>4 DEF Quiet
  <2>2. CASE c # sock
    BY <1>1, <2>2 DEF LinkInv, Connections, Untouched
  <2> QED
    BY <2>1, <2>2
<1>2. IInv /\ LinkInv /\ FramingInv /\ TurnInv => QuietBetweenCalls
  BY <1>1 DEF QuietBetweenCalls
<1> QED
  BY <1>2, Invariant, LinkInvariant, FramingInvariant, TurnInvariant, PTL
=============================================================================
