-------------------------- MODULE McheckTcp_proofs --------------------------
(***************************************************************************)
(* Types of the LSM and the server in TCP mode, and the bounds of the      *)
(* server's buffer, for any number of tasks, processes and connections and *)
(* whatever fails: no lock and no order of messages is assumed.            *)
(***************************************************************************)
EXTENDS McheckTcp, FiniteSetTheorems, SequenceTheorems, WellFoundedInduction, TLAPS

(***************************************************************************)
(* The buffer exists from the header of a message to its end, and is as    *)
(* long as that header says.                                               *)
(***************************************************************************)
BufferInUse ==
  /\ phase \in {"accept", "header", "killed"} => root_buf = <<>>
  /\ phase = "payload" => info.mapping_len = Len(root_buf)

(* Connections that wait to be accepted are open, different, and not served. *)
BacklogOpen ==
  /\ \A k \in 1 .. Len(backlog) : backlog[k] \notin closed /\ backlog[k] # sock_client
  /\ \A j, k \in 1 .. Len(backlog) : backlog[j] = backlog[k] => j = k

ServerInv == ServerTypeOK /\ PayloadFits /\ BufferInUse /\ BacklogOpen

-----------------------------------------------------------------------------
(* Reading from a connection, and adding to one. *)
LEMMA QueueTail ==
  ASSUME NEW S, NEW q \in [Conn -> Seq(S)], NEW c \in Conn, q[c] # <<>>
  PROVE  /\ Head(q[c]) \in S
         /\ [q EXCEPT ![c] = Tail(@)] \in [Conn -> Seq(S)]
<1>1. q[c] \in Seq(S)
  OBVIOUS
<1>2. Head(q[c]) \in S /\ Tail(q[c]) \in Seq(S)
  BY <1>1, HeadTailProperties
<1> QED
  BY <1>2

(* A queue stays a sequence of S when an element of S joins it. *)
LEMMA QueueAppend ==
  ASSUME NEW S, NEW q \in [Conn -> Seq(S)], NEW c \in Conn, NEW e \in S
  PROVE  [q EXCEPT ![c] = Append(@, e)] \in [Conn -> Seq(S)]
OBVIOUS

(* A cell that says it is a header, or a page, is one. *)
LEMMA CellKinds ==
  ASSUME NEW c \in Cell
  PROVE  /\ c.kind = "header" => c \in Header
         /\ c.kind = "page" => c \in PageCell
         /\ c.call \in Call
BY DEF Cell, Header, PageCell

(* A number below the modulus is its own remainder. *)
LEMMA ModSmall ==
  ASSUME NEW m \in Nat \ {0}, NEW a \in 0 .. m - 1
  PROVE  a % m = a
OBVIOUS

(* The sum in the guard does not wrap for a header that the LSM has sent. *)
LEMMA BoundsChecked ==
  ASSUME NEW header \in Header, NEW size \in Nat, InBounds(header, size)
  PROVE  header.mapped_addr + header.len <= size
<1>1. header.mapped_addr + header.len \in 0 .. Word - 1 /\ Word \in Nat \ {0}
  BY TcpServerAssumption DEF Header, Offset
<1>2. (header.mapped_addr + header.len) % Word = header.mapped_addr + header.len
  BY <1>1, ModSmall
<1> QED
  BY <1>2 DEF InBounds

(* The server closes its connection, whatever it was doing. *)
LEMMA CloseEffect ==
  ASSUME ServerInv, sock_client # NoConn, CloseClient, info' \in Header, UNCHANGED dumps
  PROVE  ServerInv'
<1> USE TcpServerAssumption
<1>1. ServerTypeOK /\ PayloadFits /\ BufferInUse /\ BacklogOpen /\ sock_client \in Conn
  BY DEF ServerInv, ServerTypeOK
<1>2. up' \in [Conn -> Seq(Cell)]
  BY <1>1 DEF CloseClient, ServerTypeOK
<1>3. ServerTypeOK'
  BY <1>1, <1>2 DEF CloseClient, ServerTypeOK, Phase
<1>4. BacklogOpen'
  <2>1. NoConn \notin Conn /\ backlog \in Seq(Conn)
    BY <1>1 DEF ServerTypeOK
  <2> QED
    BY <1>1, <2>1 DEF CloseClient, BacklogOpen
<1>5. PayloadFits' /\ BufferInUse'
  BY DEF CloseClient, PayloadFits, BufferInUse
<1> QED
  BY <1>3, <1>4, <1>5 DEF ServerInv

(* What is dumped is typed. *)
LEMMA DumpEffect ==
  ASSUME ServerTypeOK, DumpMapping
  PROVE  \A d \in dumps' : d.call \in Call /\ d.content \in Seq(Content)
BY DEF ServerTypeOK, DumpMapping, Dump, Header

(* The first connection of the backlog is served from here on. *)
LEMMA AcceptInv ==
  ASSUME ServerInv, Accept
  PROVE  ServerInv'
<1>1. ServerTypeOK /\ PayloadFits /\ BufferInUse /\ BacklogOpen /\ backlog \in Seq(Conn) /\ backlog # <<>>
  BY DEF ServerInv, ServerTypeOK, Accept
<1>2. /\ Head(backlog) \in Conn /\ Head(backlog) = backlog[1] /\ Len(backlog) \in Nat \ {0}
      /\ Tail(backlog) \in Seq(Conn) /\ Len(Tail(backlog)) = Len(backlog) - 1
      /\ \A k \in 1 .. Len(Tail(backlog)) : Tail(backlog)[k] = backlog[k + 1]
  BY <1>1
<1>3. sock_client' \in Conn \ closed /\ sock_client' # NoConn
  BY <1>1, <1>2, TcpServerAssumption DEF Accept, BacklogOpen
<1>4. ServerTypeOK'
  BY <1>1, <1>2, <1>3, TcpServerAssumption DEF Accept, ServerTypeOK, Phase
<1>5. BacklogOpen'
  <2>1. \A k \in 1 .. Len(backlog') : k + 1 \in 1 .. Len(backlog) /\ k + 1 # 1 /\ backlog'[k] = backlog[k + 1]
    BY <1>2 DEF Accept
  <2>2. sock_client' = backlog[1] /\ closed' = closed /\ 1 \in 1 .. Len(backlog)
    BY <1>2 DEF Accept
  <2>3. \A k \in 1 .. Len(backlog') : backlog'[k] \notin closed' /\ backlog'[k] # sock_client'
    BY <1>1, <2>1, <2>2 DEF BacklogOpen
  <2>4. \A j, k \in 1 .. Len(backlog') : backlog'[j] = backlog'[k] => j + 1 = k + 1
    BY <1>1, <2>1 DEF BacklogOpen
  <2> QED
    BY <2>3, <2>4 DEF BacklogOpen
<1>6. PayloadFits' /\ BufferInUse'
  BY DEF Accept, PayloadFits, BufferInUse
<1> QED
  BY <1>4, <1>5, <1>6 DEF ServerInv

(* A header allocates the buffer, unless one is in use. *)
LEMMA RecvHeaderInv ==
  ASSUME ServerInv, RecvHeader
  PROVE  ServerInv'
<1> DEFINE header == Head(up[sock_client])
<1>1. /\ ServerTypeOK /\ PayloadFits /\ BufferInUse /\ BacklogOpen
      /\ sock_client \in Conn /\ root_buf = <<>> /\ phase = "header" /\ sock_client # NoConn
  BY DEF ServerInv, ServerTypeOK, RecvHeader, Serving, BufferInUse
<1>2. up[sock_client] # <<>> /\ header.kind = "header" /\ up \in [Conn -> Seq(Cell)]
  BY <1>1 DEF RecvHeader, Incoming, ServerTypeOK
<1>3. header \in Cell /\ up' \in [Conn -> Seq(Cell)]
  BY <1>1, <1>2, QueueTail DEF RecvHeader, Consume
<1>4. header \in Header
  BY <1>2, <1>3, CellKinds
<1>5. /\ header.mapping_len \in 1 .. MaxLen /\ header.len \in 0 .. MaxLen /\ header.mapped_addr \in Offset
  BY <1>4 DEF Header
<1>6. /\ info' = header /\ current_mapping_size' = header.mapping_len
      /\ root_buf' = FreshBuffer(header.mapping_len)
      /\ phase' = IF header.len > 0 THEN "payload" ELSE "finish"
      /\ header.len = 0 \/ InBounds(header, header.mapping_len)
      /\ total_read' = 0
      /\ UNCHANGED <<down, backlog, hungup, closed, sock_client, dumps>>
  BY <1>1 DEF RecvHeader
<1>7. root_buf' \in Seq(Content) /\ Len(root_buf') = header.mapping_len
  BY <1>5, <1>6 DEF FreshBuffer, Content
<1>8. ServerTypeOK'
  BY <1>1, <1>3, <1>4, <1>5, <1>6, <1>7, TcpServerAssumption DEF ServerTypeOK, Phase
<1>9. PayloadFits' /\ BufferInUse'
  <2>1. header.len > 0 => header.mapped_addr + header.len <= header.mapping_len
    BY <1>4, <1>5, <1>6, BoundsChecked, TcpServerAssumption
  <2> HIDE DEF header
  <2> QED
    BY <1>5, <1>6, <1>7, <2>1, TcpServerAssumption DEF PayloadFits, BufferInUse, Offset
<1>10. BacklogOpen'
  BY <1>1, <1>6 DEF BacklogOpen
<1> QED
  BY <1>8, <1>9, <1>10 DEF ServerInv

(* mmap fails: the connection is closed without a buffer. *)
LEMMA RefuseHeaderInv ==
  ASSUME ServerInv, RefuseHeader
  PROVE  ServerInv'
<1>1. /\ ServerTypeOK /\ sock_client \in Conn /\ sock_client # NoConn
      /\ up \in [Conn -> Seq(Cell)] /\ up[sock_client] # <<>>
      /\ Head(up[sock_client]).kind = "header"
  BY DEF ServerInv, ServerTypeOK, RefuseHeader, Serving, Incoming
<1>2. info' \in Header
  BY <1>1, QueueTail, CellKinds DEF RefuseHeader
<1> QED
  BY <1>1, <1>2, CloseEffect DEF RefuseHeader

(* A page is read into the buffer that its header allocated. *)
LEMMA RecvPayloadInv ==
  ASSUME ServerInv, RecvPayload
  PROVE  ServerInv'
<1> DEFINE page == Head(up[sock_client])
<1>1. /\ ServerTypeOK /\ PayloadFits /\ BufferInUse /\ BacklogOpen
      /\ sock_client \in Conn /\ phase = "payload" /\ sock_client # NoConn
  BY DEF ServerInv, ServerTypeOK, RecvPayload, Serving
<1>2. up[sock_client] # <<>> /\ page.kind = "page" /\ up \in [Conn -> Seq(Cell)]
  BY <1>1 DEF RecvPayload, Incoming, ServerTypeOK
<1>3. page \in Cell /\ up' \in [Conn -> Seq(Cell)]
  BY <1>1, <1>2, QueueTail DEF RecvPayload, Consume
<1>4. page \in Content
  BY <1>2, <1>3, CellKinds DEF Content
<1>5. /\ info \in Header /\ root_buf \in Seq(Content) /\ total_read \in 0 .. MaxLen
      /\ info.mapped_addr \in Offset /\ info.len \in 0 .. MaxLen /\ Len(root_buf) \in Nat /\ MaxLen \in Nat
  BY <1>1, TcpServerAssumption DEF ServerTypeOK, Header
<1>6. /\ total_read < info.len /\ info.mapped_addr + info.len <= Len(root_buf)
      /\ info.mapping_len = Len(root_buf) /\ current_mapping_size = Len(root_buf)
  BY <1>1 DEF PayloadFits, BufferInUse
<1>7. Slot \in 1 .. Len(root_buf)
  BY <1>5, <1>6 DEF Slot, Offset
<1>8. /\ root_buf' = [root_buf EXCEPT ![Slot] = page]
      /\ total_read' = total_read + 1
      /\ phase' = IF total_read + 1 < info.len THEN "payload" ELSE "finish"
      /\ UNCHANGED <<down, backlog, hungup, closed, sock_client, info, current_mapping_size, dumps>>
  BY DEF RecvPayload
<1>9. root_buf' \in Seq(Content) /\ Len(root_buf') = Len(root_buf)
  BY <1>4, <1>5, <1>7, <1>8, ExceptSeq
<1>10. total_read' \in 0 .. MaxLen
  BY <1>5, <1>6, <1>8
<1>11. ServerTypeOK'
  BY <1>1, <1>3, <1>8, <1>9, <1>10 DEF ServerTypeOK, Phase
<1>12. PayloadFits' /\ BufferInUse'
  BY <1>5, <1>6, <1>8, <1>9 DEF PayloadFits, BufferInUse
<1>13. BacklogOpen'
  BY <1>1, <1>8 DEF BacklogOpen
<1> QED
  BY <1>11, <1>12, <1>13 DEF ServerInv

(* The server takes a page for a header, or a header for a page. *)
LEMMA LoseFramingInv ==
  ASSUME ServerInv, LoseFraming
  PROVE  ServerInv'
BY DEF ServerInv, ServerTypeOK, PayloadFits, BufferInUse, BacklogOpen, LoseFraming, Serving,
       network, buffer, Phase

(* Bytes out of step with the stream are messages, which may be answered. *)
LEMMA GarbledGoesOnInv ==
  ASSUME ServerInv, GarbledGoesOn
  PROVE  ServerInv'
<1>1. /\ ServerTypeOK /\ BufferInUse /\ BacklogOpen
      /\ sock_client \in Conn /\ phase = "garbled" /\ sock_client # NoConn /\ up[sock_client] # <<>>
      /\ up \in [Conn -> Seq(Cell)] /\ down \in [Conn -> Seq(Call)] /\ info \in Header
  BY DEF ServerInv, ServerTypeOK, GarbledGoesOn, Serving
<1>2. up' \in [Conn -> Seq(Cell)] /\ Head(up[sock_client]).call \in Call /\ info.call \in Call
  BY <1>1, QueueTail, CellKinds DEF GarbledGoesOn, Consume, Header
<1>3. PICK c \in {info.call, Head(up[sock_client]).call}, n \in 0 .. MaxMisread :
        /\ down' = [down EXCEPT ![sock_client] = @ \o [k \in 1 .. n |-> c]]
        /\ \/ dumps' = dumps
           \/ n > 0 /\ dumps' = dumps \cup {[call |-> c, content |-> <<Garbage>>]}
  BY DEF GarbledGoesOn
<1>4. c \in Call /\ n \in Nat
  BY <1>2, <1>3, TcpServerAssumption
<1>5. down' \in [Conn -> Seq(Call)]
  <2>1. [k \in 1 .. n |-> c] \in Seq(Call)
    BY <1>4
  <2>2. down[sock_client] \o [k \in 1 .. n |-> c] \in Seq(Call)
    BY <1>1, <2>1, ConcatProperties
  <2> QED
    BY <1>1, <1>3, <2>2
<1>6. \A d \in dumps' : d.call \in Call /\ d.content \in Seq(Content)
  <2>1. <<Garbage>> \in Seq(Content)
    BY DEF Content
  <2>2. \A d \in dumps : d.call \in Call /\ d.content \in Seq(Content)
    BY <1>1 DEF ServerTypeOK
  <2>3. \A d \in dumps' : d \in dumps \/ (d.call = c /\ d.content = <<Garbage>>)
    BY <1>3
  <2> QED
    BY <1>4, <2>1, <2>2, <2>3
<1>7. UNCHANGED <<backlog, hungup, closed, sock_client, phase, info, buffer, total_read>>
  BY DEF GarbledGoesOn
<1>8. ServerTypeOK'
  BY <1>1, <1>2, <1>5, <1>6, <1>7 DEF ServerTypeOK, buffer
<1> QED
  BY <1>1, <1>7, <1>8 DEF ServerInv, PayloadFits, BufferInUse, BacklogOpen, buffer

(* Bytes out of step with the stream are refused. *)
LEMMA GarbledRefusedInv ==
  ASSUME ServerInv, GarbledRefused
  PROVE  ServerInv'
<1>1. sock_client # NoConn /\ info' \in Header
  BY DEF ServerInv, ServerTypeOK, GarbledRefused, Serving
<1> QED
  BY <1>1, CloseEffect DEF GarbledRefused

(* A message is complete; the last one of a mapping is dumped and answered. *)
LEMMA FinishMessageInv ==
  ASSUME ServerInv, FinishMessage
  PROVE  ServerInv'
<1>1. /\ ServerTypeOK /\ BacklogOpen /\ sock_client \in Conn /\ sock_client # NoConn
      /\ down \in [Conn -> Seq(Call)] /\ info.call \in Call
  BY DEF ServerInv, ServerTypeOK, FinishMessage, Serving, Header
<1>2. /\ down' \in [Conn -> Seq(Call)]
      /\ \A d \in dumps' : d.call \in Call /\ d.content \in Seq(Content)
  <2>1. CASE DumpAndAnswer
    BY <1>1, <2>1, DumpEffect, QueueAppend DEF DumpAndAnswer
  <2>2. CASE UNCHANGED <<dumps, down>>
    BY <1>1, <2>2 DEF ServerTypeOK
  <2> QED
    BY <2>1, <2>2 DEF FinishMessage
<1>3. ServerTypeOK'
  BY <1>1, <1>2, TcpServerAssumption DEF FinishMessage, FreeBuffer, ServerTypeOK, Phase
<1> QED
  BY <1>1, <1>3 DEF FinishMessage, FreeBuffer, ServerInv, PayloadFits, BufferInUse, BacklogOpen

(* popen fails: no verdict is read, and the connection is closed. *)
LEMMA AnswerFailsInv ==
  ASSUME ServerInv, AnswerFails
  PROVE  ServerInv'
<1>1. ServerTypeOK /\ PayloadFits /\ BufferInUse /\ BacklogOpen /\ sock_client # NoConn /\ info' \in Header
  BY DEF ServerInv, ServerTypeOK, AnswerFails, Serving
<1>2. \A d \in dumps' : d.call \in Call /\ d.content \in Seq(Content)
  BY <1>1, DumpEffect DEF AnswerFails
<1>3. up' \in [Conn -> Seq(Cell)]
  BY <1>1 DEF AnswerFails, CloseClient, ServerTypeOK
<1>4. ServerTypeOK'
  BY <1>1, <1>2, <1>3, TcpServerAssumption DEF AnswerFails, CloseClient, ServerTypeOK, Phase
<1>5. BacklogOpen'
  <2>1. NoConn \notin Conn /\ backlog \in Seq(Conn)
    BY <1>1, TcpServerAssumption DEF ServerTypeOK
  <2> QED
    BY <1>1, <2>1 DEF AnswerFails, CloseClient, BacklogOpen
<1> QED
  BY <1>4, <1>5 DEF AnswerFails, CloseClient, ServerInv, PayloadFits, BufferInUse

(* The server ends, and with it every connection. *)
LEMMA KilledEffect ==
  ASSUME ServerInv, sock_client # NoConn, Killed,
         \A d \in dumps' : d.call \in Call /\ d.content \in Seq(Content)
  PROVE  ServerInv'
<1>1. ServerTypeOK /\ sock_client \in Conn /\ backlog \in Seq(Conn)
  BY DEF ServerInv, ServerTypeOK
<1>2. up' \in [Conn -> Seq(Cell)]
  BY DEF Killed
<1>3. closed' \subseteq Conn
  BY <1>1 DEF Killed, Range, ServerTypeOK
<1>4. backlog' = <<>> /\ Len(backlog') = 0
  BY DEF Killed
<1>5. ServerTypeOK'
  BY <1>1, <1>2, <1>3, <1>4, TcpServerAssumption DEF Killed, ServerTypeOK, Phase
<1>6. BacklogOpen'
  BY <1>4 DEF BacklogOpen
<1> QED
  BY <1>5, <1>6 DEF Killed, ServerInv, PayloadFits, BufferInUse

(* The second answer to a connection that is gone ends the server. *)
LEMMA KilledByAnswerInv ==
  ASSUME ServerInv, KilledByAnswer
  PROVE  ServerInv'
<1>1. ServerTypeOK /\ sock_client # NoConn /\ DumpMapping /\ Killed
  BY DEF ServerInv, KilledByAnswer, Serving
<1> QED
  BY <1>1, DumpEffect, KilledEffect

(* A misread stream ends the server. *)
LEMMA GarbledKilledInv ==
  ASSUME ServerInv, GarbledKilled
  PROVE  ServerInv'
<1>1. ServerTypeOK /\ sock_client # NoConn /\ dumps' = dumps /\ Killed
  BY DEF ServerInv, GarbledKilled, Serving
<1> QED
  BY <1>1, KilledEffect DEF ServerTypeOK

(* recv returns 0 or an error: the connection is closed. *)
LEMMA ClientGoneInv ==
  ASSUME ServerInv, ClientGone
  PROVE  ServerInv'
<1>1. sock_client # NoConn /\ info' \in Header
  BY TcpServerAssumption DEF ServerInv, ServerTypeOK, ClientGone
<1> QED
  BY <1>1, CloseEffect DEF ClientGone

(* Every step of the server preserves its invariant. *)
LEMMA ServerStepInv ==
  ASSUME ServerInv, ServerNext
  PROVE  ServerInv'
BY AcceptInv, RecvHeaderInv, RefuseHeaderInv, RecvPayloadInv, LoseFramingInv,
   GarbledGoesOnInv, GarbledRefusedInv, GarbledKilledInv,
   FinishMessageInv, AnswerFailsInv, KilledByAnswerInv, ClientGoneInv DEF ServerNext

-----------------------------------------------------------------------------
(***************************************************************************)
(* A set of pages of a mapping has a first one: the initial segments of    *)
(* the set are finite, and a smallest one among them ends in it.           *)
(***************************************************************************)
LEMMA MinOf ==
  ASSUME NEW S \in SUBSET Offset, S # {}
  PROVE  Min(S) \in S /\ \A y \in S : Min(S) <= y
<1> DEFINE Upto(x) == {y \in S : y <= x}
           Segments == {Upto(x) : x \in S}
<1>1. S \subseteq Int /\ IsFiniteSet(Offset)
  BY TcpServerAssumption, FS_Interval DEF Offset
<1>2. Segments \subseteq FiniteSubsetsOf(Offset) /\ Segments # {}
  <2>1. ASSUME NEW x \in S PROVE Upto(x) \in FiniteSubsetsOf(Offset)
    <3>1. Upto(x) \in SUBSET Offset
      OBVIOUS
    <3> HIDE DEF Upto
    <3> QED
      BY <1>1, <3>1, FS_Subset DEF FiniteSubsetsOf
  <2> HIDE DEF Upto
  <2> QED
    BY <2>1
<1>3. PICK u \in Segments : \A v \in Segments : <<v, u>> \notin StrictSubsetOrdering(Offset)
  <2> HIDE DEF Segments
  <2> QED
    BY <1>2, FS_StrictSubsetOrderingWellFounded, WFMin
<1>4. PICK x \in S : u = Upto(x)
  OBVIOUS
<1>5. ASSUME NEW y \in S PROVE x <= y
  <2>1. SUFFICES ASSUME y < x PROVE FALSE
    BY <1>1
  <2>2. x \in Int /\ y \in Int /\ \A z \in S : z \in Int
    BY <1>1
  <2>3. \A z \in S : z <= y => z <= x
    BY <2>1, <2>2
  <2>4. ~(x <= y) /\ x <= x
    BY <2>1, <2>2
  <2>5. Upto(y) \subseteq Upto(x) /\ x \in Upto(x) /\ x \notin Upto(y)
    BY <2>3, <2>4
  <2>6. <<Upto(y), Upto(x)>> \in StrictSubsetOrdering(Offset)
    BY <2>5 DEF StrictSubsetOrdering
  <2> QED
    BY <1>3, <1>4, <2>6
<1> QED
  <2>1. \E z \in S : \A y \in S : z <= y
    BY <1>5
  <2> QED
    BY <2>1, Zenon DEF Min

(* It is at most as long as the mapping, counted from its first page. *)
LEMMA RunSize ==
  ASSUME NEW S \in SUBSET Offset
  PROVE  /\ Cardinality(S) \in 0 .. MaxLen
         /\ S # {} => Min(S) \in Offset /\ Min(S) + Cardinality(S) <= MaxLen
<1>1. IsFiniteSet(Offset) /\ Cardinality(Offset) = MaxLen /\ MaxLen \in Nat
  BY TcpServerAssumption, FS_Interval DEF Offset
<1>2. IsFiniteSet(S) /\ Cardinality(S) \in Nat /\ Cardinality(S) <= MaxLen
  BY <1>1, FS_Subset, FS_CardinalityType
<1>3. ASSUME S # {} PROVE Min(S) \in Offset /\ Min(S) + Cardinality(S) <= MaxLen
  <2>1. Min(S) \in Offset /\ S \subseteq Min(S) .. MaxLen - 1
    <3>1. Min(S) \in S /\ \A y \in S : Min(S) <= y
      BY <1>3, MinOf
    <3>2. S \subseteq 0 .. MaxLen - 1
      BY DEF Offset
    <3>3. \A m : m \in S /\ (\A y \in S : m <= y) => m \in Offset /\ S \subseteq m .. MaxLen - 1
      BY <1>1, <3>2 DEF Offset
    <3> QED
      BY <3>1, <3>3
  <2>2. /\ IsFiniteSet(Min(S) .. MaxLen - 1)
        /\ Cardinality(Min(S) .. MaxLen - 1) = MaxLen - Min(S)
    BY <1>1, <2>1, FS_Interval DEF Offset
  <2>3. Cardinality(S) <= MaxLen - Min(S)
    BY <2>1, <2>2, FS_Subset
  <2> QED
    BY <1>1, <1>2, <2>1, <2>3 DEF Offset
<1> QED
  BY <1>1, <1>2, <1>3

-----------------------------------------------------------------------------
(***************************************************************************)
(* The types of the hooks.  A task in a hook has made a call, so that its  *)
(* messages belong to one.                                                 *)
(***************************************************************************)
HooksOK ==
  /\ sock \in Conn \cup {NoConn}
  /\ analyzer_response \in Verdict
  /\ pc \in [Task -> PC]
  /\ kind \in [Task -> {"page", "bpf"}]
  /\ calls \in [Task -> 0 .. MaxCalls]
  /\ mapping \in [Task -> [len : 1 .. MaxLen, present : SUBSET Offset]]
  /\ left \in [Task -> SUBSET Offset]
  /\ memory_error \in [Task -> BOOLEAN]
  /\ ended \in [Task -> BOOLEAN]
  /\ out \in [Task -> Seq(Cell)]
  /\ sk \in [Task -> Conn \cup {NoConn}]
  /\ reply \in [Task -> Verdict]
  /\ result \in [Task -> Result]
  /\ reboots \in 0 .. MaxReboots
  /\ \A t \in Task : pc[t] # "idle" => calls[t] # 0

(***************************************************************************)
(* The inductive invariant: the types, the buffer, the backlog and the     *)
(* tasks in hooks.                                                         *)
(***************************************************************************)
IInv == ServerInv /\ HooksOK

(* Nothing of the server's invariant is about the hooks. *)
LEMMA ServerKept ==
  ASSUME ServerInv, UNCHANGED <<network, server>>
  PROVE  ServerInv'
BY DEF ServerInv, ServerTypeOK, PayloadFits, BufferInUse, BacklogOpen, network, server, buffer

(* The cells of a message are a header and pages. *)
LEMMA MessageType ==
  ASSUME HooksOK, NEW t \in Task, pc[t] # "idle", NEW run \in SUBSET Offset, NEW end \in BOOLEAN
  PROVE  Message(t, run, end) \in Seq(Cell)
<1> DEFINE first == IF run = {} THEN 0 ELSE Min(run)
           header == [kind |-> "header", call |-> ThisCall(t), mapped_addr |-> first,
                      len |-> DataLen(t, run), mapping_len |-> mapping[t].len,
                      is_end_of_mapping |-> end]
           cells == [k \in 1 .. Cardinality(run) |->
                       [kind |-> "page", call |-> ThisCall(t), page |-> first + k - 1]]
<1>1. ThisCall(t) \in Call
  <2>1. calls[t] \in 1 .. MaxCalls
    BY McheckTcpAssumption DEF HooksOK
  <2> QED
    BY <2>1, McheckTcpAssumption DEF ThisCall
<1>2. MaxLen \in Nat \ {0} /\ Cardinality(run) \in 0 .. MaxLen
  BY TcpServerAssumption, RunSize
<1>3. first \in Offset /\ (run # {} => first + Cardinality(run) <= MaxLen)
  BY <1>2, RunSize DEF Offset
<1>4. run = {} => Cardinality(run) = 0
  BY FS_EmptySet
<1> HIDE DEF first
<1>5. header \in Header
  BY <1>1, <1>2, <1>3 DEF Header, DataLen, HooksOK
<1>6. cells \in Seq(PageCell)
  <2>1. ASSUME NEW k \in 1 .. Cardinality(run) PROVE first + k - 1 \in Offset
    BY <1>2, <1>3, <1>4 DEF Offset
  <2>2. ASSUME NEW k \in 1 .. Cardinality(run)
        PROVE  [kind |-> "page", call |-> ThisCall(t), page |-> first + k - 1] \in PageCell
    BY <1>1, <2>1 DEF PageCell
  <2>3. cells \in [1 .. Cardinality(run) -> PageCell]
    BY <2>2
  <2> HIDE DEF cells
  <2> QED
    BY <1>2, <2>3, SeqDef
<1>7. <<header>> \in Seq(Cell) /\ cells \in Seq(Cell)
  <2> HIDE DEF header, cells
  <2> QED
    BY <1>5, <1>6, SeqMonotonic DEF Cell
<1> QED
  <2>1. Message(t, run, end) = <<header>> \o cells
    BY DEF Message, first
  <2> HIDE DEF header, cells
  <2> QED
    BY <1>7, <2>1, ConcatProperties

(* A message is put together, or lost for lack of memory. *)
LEMMA FlushRunInv ==
  ASSUME IInv, NEW t \in Task, pc[t] = "walk", NEW run \in SUBSET Offset, NEW end \in BOOLEAN,
         FlushRun(t, run, end), left' \in [Task -> SUBSET Offset], memory_error' \in [Task -> BOOLEAN]
  PROVE  IInv'
<1>1. ServerInv'
  BY ServerKept DEF IInv, FlushRun
<1>2. Message(t, run, end) \in Seq(Cell)
  BY MessageType DEF IInv
<1>3. out' \in [Task -> Seq(Cell)]
  <2>1. out \in [Task -> Seq(Cell)] /\ <<>> \in Seq(Cell)
    BY DEF IInv, HooksOK
  <2>2. out' = [out EXCEPT ![t] = Message(t, run, end)] \/ out' = [out EXCEPT ![t] = <<>>]
    BY DEF FlushRun
  <2> QED
    BY <1>2, <2>1, <2>2
<1> QED
  BY <1>1, <1>3 DEF IInv, HooksOK, FlushRun, Goto, globals, PC

(* Every flush of a walk sends pages of the mapping. *)
LEMMA WalkInv ==
  ASSUME IInv, NEW t \in Task, FlushNextRun(t) \/ GrowFails(t) \/ FlushAborted(t)
  PROVE  IInv'
<1>1. HooksOK /\ left[t] \in SUBSET Offset
  BY DEF IInv, HooksOK
<1>2. CASE FlushNextRun(t)
  <2> DEFINE run == IF left[t] = {} THEN {} ELSE FirstRun(left[t])
  <2>1. run \in SUBSET Offset
    BY <1>1 DEF FirstRun
  <2>2. IsLastFlush(t, run) \in BOOLEAN
    BY DEF IsLastFlush
  <2>3. /\ pc[t] = "walk" /\ FlushRun(t, run, IsLastFlush(t, run))
        /\ left' = [left EXCEPT ![t] = @ \ run] /\ UNCHANGED memory_error
    BY <1>2 DEF FlushNextRun
  <2> HIDE DEF run
  <2>4. left' \in [Task -> SUBSET Offset] /\ memory_error' \in [Task -> BOOLEAN]
    BY <1>1, <2>3 DEF HooksOK
  <2> QED
    BY <2>1, <2>2, <2>3, <2>4, FlushRunInv
<1>3. CASE GrowFails(t)
  <2>1. PICK p \in FirstRun(left[t]) \ {Min(left[t])} :
          /\ FlushRun(t, Min(left[t]) .. p - 1, FALSE)
          /\ left' = [left EXCEPT ![t] = {p}]
    BY <1>3 DEF GrowFails
  <2>2. /\ pc[t] = "walk" /\ left[t] # {} /\ memory_error' = [memory_error EXCEPT ![t] = TRUE]
    BY <1>3 DEF GrowFails
  <2>3. p \in Offset /\ Min(left[t]) \in Offset
    BY <1>1, <2>2, MinOf DEF FirstRun
  <2>4. Min(left[t]) .. p - 1 \in SUBSET Offset
    BY <2>3, TcpServerAssumption DEF Offset
  <2>5. left' \in [Task -> SUBSET Offset] /\ memory_error' \in [Task -> BOOLEAN]
    BY <1>1, <2>1, <2>2, <2>3 DEF HooksOK
  <2> QED
    BY <2>1, <2>2, <2>4, <2>5, FlushRunInv
<1>4. CASE FlushAborted(t)
  <2>1. pc[t] = "walk" /\ left' = [left EXCEPT ![t] = {}] /\ UNCHANGED memory_error
    BY <1>4 DEF FlushAborted
  <2>2. left' \in [Task -> SUBSET Offset] /\ memory_error' \in [Task -> BOOLEAN]
    BY <1>1, <2>1 DEF HooksOK
  <2> QED
    BY <1>1, <1>4, <2>1, <2>2, FlushRunInv DEF FlushAborted
<1> QED
  BY <1>2, <1>3, <1>4

(* A task enters a hook: it has made a call. *)
LEMMA StartCallInv ==
  ASSUME IInv, NEW t \in Task, NEW k \in {"page", "bpf"}, calls[t] < MaxCalls,
         NEW m \in [len : 1 .. MaxLen, present : SUBSET Offset], StartCall(t, k, m),
         UNCHANGED <<network, server, globals, out, reboots>>
  PROVE  IInv'
<1>1. ServerInv'
  BY ServerKept DEF IInv
<1>2. HooksOK /\ calls[t] + 1 \in 1 .. MaxCalls
  BY McheckTcpAssumption DEF IInv, HooksOK
<1>3. /\ pc' \in [Task -> PC]
      /\ calls' \in [Task -> 0 .. MaxCalls]
      /\ \A u \in Task : pc'[u] # "idle" => calls'[u] # 0
  BY <1>2 DEF HooksOK, StartCall, Goto, PC
<1>4. /\ kind' \in [Task -> {"page", "bpf"}]
      /\ mapping' \in [Task -> [len : 1 .. MaxLen, present : SUBSET Offset]]
      /\ left' \in [Task -> SUBSET Offset]
      /\ memory_error' \in [Task -> BOOLEAN]
      /\ ended' \in [Task -> BOOLEAN]
  BY <1>2 DEF HooksOK, StartCall
<1>5. /\ sk' \in [Task -> Conn \cup {NoConn}]
      /\ reply' \in [Task -> Verdict]
      /\ result' \in [Task -> Result]
  BY <1>2 DEF HooksOK, StartCall, Verdict, Result
<1> QED
  BY <1>1, <1>2, <1>3, <1>4, <1>5 DEF IInv, HooksOK, globals

(* A task enters a hook, or is skipped. *)
LEMMA EnterInv ==
  ASSUME IInv, NEW t \in Task, EnterPageHook(t) \/ EnterBpfHook(t)
  PROVE  IInv'
<1>1. CASE EnterBpfHook(t)
  <2>1. BpfImage \in [len : 1 .. MaxLen, present : SUBSET Offset]
    BY TcpServerAssumption DEF BpfImage, Offset
  <2> QED
    BY <1>1, <2>1, StartCallInv DEF EnterBpfHook
<1>2. CASE EnterPageHook(t) /\ t \in TargetTask
  BY <1>2, McheckTcpAssumption, StartCallInv DEF EnterPageHook
<1>3. CASE EnterPageHook(t) /\ t \notin TargetTask
  <2>1. ServerInv'
    BY <1>3, ServerKept DEF IInv, EnterPageHook
  <2>2. calls[t] + 1 \in 0 .. MaxCalls
    BY <1>3, McheckTcpAssumption DEF IInv, HooksOK, EnterPageHook
  <2>3. /\ pc' \in [Task -> PC] /\ calls' \in [Task -> 0 .. MaxCalls]
        /\ \A u \in Task : pc'[u] # "idle" => calls'[u] # 0
        /\ kind' \in [Task -> {"page", "bpf"}] /\ result' \in [Task -> Result]
    <3>1. /\ pc' = [pc EXCEPT ![t] = "idle"] /\ calls' = [calls EXCEPT ![t] = @ + 1]
          /\ kind' = [kind EXCEPT ![t] = "page"] /\ result' = [result EXCEPT ![t] = Skipped]
      BY <1>3 DEF EnterPageHook, Return, Goto
    <3>2. "idle" \in PC /\ Skipped \in Result
      BY DEF PC, Result
    <3>3. HooksOK /\ calls \in [Task -> 0 .. MaxCalls]
      BY DEF IInv, HooksOK
    <3>4. \A u \in Task : pc'[u] # "idle" => calls'[u] # 0
      BY <3>1, <3>3 DEF HooksOK
    <3> QED
      BY <2>2, <3>1, <3>2, <3>3, <3>4 DEF HooksOK
  <2> QED
    BY <1>3, <2>1, <2>3 DEF IInv, HooksOK, EnterPageHook, walk, globals
<1> QED
  BY <1>1, <1>2, <1>3

(***************************************************************************)
(* Steps of a hook that leave the network alone and change, beside where   *)
(* the task is, only what is named.                                        *)
(***************************************************************************)
LEMMA QuietInv ==
  ASSUME IInv, NEW t \in Task, pc[t] # "idle", NEW w \in PC, NEW r \in Result,
         pc' = [pc EXCEPT ![t] = w], result' \in {result, [result EXCEPT ![t] = r]},
         sock' \in Conn \cup {NoConn}, analyzer_response' \in Verdict,
         sk' \in [Task -> Conn \cup {NoConn}],
         UNCHANGED <<network, server, kind, calls, walk, out, reply, reboots>>
  PROVE  IInv'
<1>1. ServerInv'
  BY ServerKept DEF IInv
<1>2. /\ pc' \in [Task -> PC] /\ result' \in [Task -> Result]
      /\ \A u \in Task : pc'[u] # "idle" => calls'[u] # 0
  BY DEF IInv, HooksOK
<1> QED
  BY <1>1, <1>2 DEF IInv, HooksOK, walk

(* The steps of a hook that leave the network alone. *)
LEMMA QuietStepInv ==
  ASSUME IInv, NEW t \in Task,
         \/ TestSock(t) \/ ConnectFails(t) \/ PassGates(t) \/ StopAtGates(t)
         \/ NullSock(t) \/ SendOnClosed(t) \/ MessageSent(t)
         \/ StopReceiving(t) \/ RecvNothing(t) \/ ReturnVerdict(t)
  PROVE  IInv'
<1>1. /\ sock \in Conn \cup {NoConn} /\ analyzer_response \in Verdict
      /\ reply[t] \in Verdict /\ Junk \in Verdict
      /\ Skipped \in Result /\ NoMem \in Result /\ analyzer_response \in Result
      /\ pc \in [Task -> PC] /\ sk \in [Task -> Conn \cup {NoConn}]
  BY DEF IInv, HooksOK, Verdict, Result
<1>2. /\ pc[t] # "idle"
      /\ UNCHANGED <<network, server, kind, calls, walk, out, reply, reboots>>
  BY DEF TestSock, ConnectFails, PassGates, StopAtGates, NullSock, SendOnClosed, MessageSent,
         StopReceiving, RecvNothing, ReturnVerdict, globals
<1>3. sock' \in Conn \cup {NoConn} /\ analyzer_response' \in Verdict
  BY <1>1 DEF TestSock, ConnectFails, PassGates, StopAtGates, NullSock, SendOnClosed, MessageSent,
         StopReceiving, RecvNothing, ReturnVerdict, globals
<1>4. /\ \E w \in PC : pc' = [pc EXCEPT ![t] = w]
      /\ \E r \in Result : result' \in {result, [result EXCEPT ![t] = r]}
  BY <1>1 DEF TestSock, ConnectFails, PassGates, StopAtGates, NullSock, SendOnClosed, MessageSent,
         StopReceiving, RecvNothing, ReturnVerdict, Goto, Return, PC
<1>5. sk' \in [Task -> Conn \cup {NoConn}]
  BY <1>1 DEF TestSock, ConnectFails, PassGates, StopAtGates, NullSock, SendOnClosed, MessageSent,
         StopReceiving, RecvNothing, ReturnVerdict
<1> QED
  BY <1>2, <1>3, <1>4, <1>5, QuietInv

(* A new connection waits to be accepted. *)
LEMMA ConnectInv ==
  ASSUME IInv, NEW t \in Task, Connect(t)
  PROVE  IInv'
<1> DEFINE c == CHOOSE c \in Unused : TRUE
<1>1. c \in Unused
  BY DEF Connect
<1>2. /\ c \in Conn /\ c \notin closed /\ c # sock_client
      /\ \A k \in 1 .. Len(backlog) : backlog[k] # c
  BY <1>1 DEF Unused
<1> HIDE DEF c
<1>3. /\ sock' = c /\ backlog' = Append(backlog, c) /\ Len(backlog) < Backlog
      /\ UNCHANGED <<up, down, hungup, closed, server>>
  BY DEF Connect, c
<1>4. ServerTypeOK /\ PayloadFits /\ BufferInUse /\ BacklogOpen /\ backlog \in Seq(Conn)
  BY DEF IInv, ServerInv, ServerTypeOK
<1>5. /\ backlog' \in Seq(Conn) /\ Len(backlog') = Len(backlog) + 1 /\ Len(backlog) \in Nat
      /\ \A k \in 1 .. Len(backlog) : backlog'[k] = backlog[k]
      /\ backlog'[Len(backlog) + 1] = c
  BY <1>2, <1>3, <1>4
<1>6. ServerTypeOK'
  BY <1>3, <1>4, <1>5, TcpServerAssumption DEF ServerTypeOK, server, buffer
<1>7. BacklogOpen'
  <2>1. \A k \in 1 .. Len(backlog') : k \in 1 .. Len(backlog) \/ k = Len(backlog) + 1
    BY <1>5
  <2>2. sock_client' = sock_client /\ closed' = closed
    BY <1>3 DEF server
  <2>3. \A k \in 1 .. Len(backlog') : backlog'[k] \notin closed' /\ backlog'[k] # sock_client'
    BY <1>2, <1>4, <1>5, <2>1, <2>2 DEF BacklogOpen
  <2>4. \A j, k \in 1 .. Len(backlog') : backlog'[j] = backlog'[k] => j = k
    BY <1>2, <1>4, <1>5, <2>1 DEF BacklogOpen
  <2> QED
    BY <2>3, <2>4 DEF BacklogOpen
<1>8. PayloadFits' /\ BufferInUse'
  BY <1>3, <1>4 DEF PayloadFits, BufferInUse, server, buffer
<1>9. HooksOK'
  BY <1>2, <1>3 DEF Connect, Goto, IInv, HooksOK, PC, walk
<1> QED
  BY <1>6, <1>7, <1>8, <1>9 DEF IInv, ServerInv

(* The socket that a send or a receive uses is a connection or NULL. *)
LEMMA SendCellInv ==
  ASSUME IInv, NEW t \in Task, SendCell(t)
  PROVE  IInv'
<1> DEFINE c == SockOf(t)
<1>1. c \in Conn /\ out[t] # <<>> /\ out[t] \in Seq(Cell) /\ up \in [Conn -> Seq(Cell)]
  BY DEF SendCell, SockOf, IInv, HooksOK, ServerInv, ServerTypeOK
<1>2. Head(out[t]) \in Cell /\ Tail(out[t]) \in Seq(Cell)
  BY <1>1, HeadTailProperties
<1>3. /\ up' = [up EXCEPT ![c] = Append(@, Head(out[t]))]
      /\ out' = [out EXCEPT ![t] = Tail(@)]
      /\ sk' \in {[sk EXCEPT ![t] = NoConn], [sk EXCEPT ![t] = c]}
      /\ UNCHANGED <<down, backlog, hungup, closed, server, globals,
                     pc, kind, calls, walk, reply, result, reboots>>
  BY DEF SendCell
<1> HIDE DEF c
<1>4. up' \in [Conn -> Seq(Cell)]
  <2>1. [up EXCEPT ![c] = Append(@, Head(out[t]))] \in [Conn -> Seq(Cell)]
    BY <1>1, <1>2, QueueAppend
  <2> QED
    BY <1>3, <2>1
<1>5. ServerInv'
  BY <1>3, <1>4 DEF IInv, ServerInv, ServerTypeOK, PayloadFits, BufferInUse, BacklogOpen, server, buffer
<1>6. out' \in [Task -> Seq(Cell)] /\ sk' \in [Task -> Conn \cup {NoConn}]
  BY <1>1, <1>2, <1>3 DEF IInv, HooksOK
<1> QED
  BY <1>3, <1>5, <1>6 DEF IInv, HooksOK, globals, walk

(* A cell is sent to a connection that the server has closed. *)
LEMMA SendDiscardedInv ==
  ASSUME IInv, NEW t \in Task, SendDiscarded(t)
  PROVE  IInv'
<1>1. ServerInv'
  BY ServerKept DEF IInv, SendDiscarded
<1>2. out[t] # <<>> /\ out[t] \in Seq(Cell)
  BY DEF SendDiscarded, IInv, HooksOK
<1>3. out' \in [Task -> Seq(Cell)]
  BY <1>2, HeadTailProperties DEF SendDiscarded, IInv, HooksOK
<1> QED
  BY <1>1, <1>3 DEF SendDiscarded, IInv, HooksOK, globals, walk

(* The answer is read from the connection. *)
LEMMA RecvAnswerInv ==
  ASSUME IInv, NEW t \in Task, RecvAnswer(t)
  PROVE  IInv'
<1> DEFINE c == sk[t]
<1>1. c \in Conn /\ down[c] # <<>> /\ down \in [Conn -> Seq(Call)]
  BY DEF RecvAnswer, IInv, HooksOK, ServerInv, ServerTypeOK
<1>2. /\ reply' = [reply EXCEPT ![t] = Head(down[c])]
      /\ down' = [down EXCEPT ![c] = Tail(@)]
      /\ pc' = [pc EXCEPT ![t] = "drain"] /\ pc[t] = "recv"
      /\ UNCHANGED <<up, backlog, hungup, closed, server, globals, kind, calls, walk, out, sk, result, reboots>>
  BY DEF RecvAnswer, Goto
<1> HIDE DEF c
<1>3. Head(down[c]) \in Verdict /\ down' \in [Conn -> Seq(Call)]
  BY <1>1, <1>2, QueueTail DEF Verdict
<1>4. ServerInv'
  BY <1>2, <1>3 DEF IInv, ServerInv, ServerTypeOK, PayloadFits, BufferInUse, BacklogOpen, server, buffer
<1>5. /\ pc' \in [Task -> PC]
      /\ reply' \in [Task -> Verdict] /\ \A u \in Task : pc'[u] # "idle" => calls'[u] # 0
  BY <1>1, <1>2, <1>3 DEF IInv, HooksOK, PC
<1> QED
  BY <1>2, <1>4, <1>5 DEF IInv, HooksOK, globals, walk

(* A restart cuts the connections short and sends every task home. *)
LEMMA RebootInv ==
  ASSUME IInv, Reboot
  PROVE  IInv'
<1>1. /\ ServerInv /\ up \in [Conn -> Seq(Cell)]
  BY DEF IInv, ServerInv, ServerTypeOK
<1>2. up' \in [Conn -> Seq(Cell)]
  <2>1. PICK cut \in [Conn -> 0 .. SendBuffer] :
          /\ \A c \in Conn : cut[c] <= Len(up[c])
          /\ up' = [c \in Conn |-> SubSeq(up[c], 1, cut[c])]
    BY DEF Reboot
  <2>2. ASSUME NEW c \in Conn PROVE SubSeq(up[c], 1, cut[c]) \in Seq(Cell)
    <3>1. up[c] \in Seq(Cell) /\ cut[c] \in Nat /\ cut[c] <= Len(up[c])
      BY <1>1, <2>1, McheckTcpAssumption
    <3> QED
      BY <3>1, SubSeqProperties
  <2> QED
    BY <2>1, <2>2
<1>3. hungup' \subseteq Conn /\ down' \in [Conn -> Seq(Call)]
  BY DEF Reboot
<1>4. ServerInv'
  BY <1>1, <1>2, <1>3 DEF Reboot, ServerInv, ServerTypeOK, PayloadFits, BufferInUse, BacklogOpen,
                          server, buffer
<1>5. reboots' \in 0 .. MaxReboots
  BY McheckTcpAssumption DEF Reboot, IInv, HooksOK
<1>6. HooksOK'
  BY <1>5 DEF Reboot, IInv, HooksOK, PC, Verdict, Result, walk
<1> QED
  BY <1>4, <1>6 DEF IInv

(* The invariant is inductive: one step for each kind of action. *)
LEMMA StepInvariant == IInv /\ [Next]_vars => IInv'
<1> SUFFICES ASSUME IInv, [Next]_vars PROVE IInv'
  OBVIOUS
<1>1. CASE UNCHANGED vars
  <2>1. ServerInv'
    BY <1>1, ServerKept DEF IInv, vars
  <2> QED
    BY <1>1, <2>1 DEF vars, IInv, HooksOK, globals, hooks, walk
<1>2. ASSUME NEW t \in Task, EnterPageHook(t) \/ EnterBpfHook(t) PROVE IInv'
  BY <1>2, EnterInv
<1>3. ASSUME NEW t \in Task, HookStep(t) PROVE IInv'
  BY <1>3, WalkInv, QuietStepInv, ConnectInv, SendCellInv, SendDiscardedInv, RecvAnswerInv DEF HookStep
<1>4. CASE ServerStep
  <2>1. ServerInv'
    BY <1>4, ServerStepInv DEF IInv, ServerStep
  <2> QED
    BY <1>4, <2>1 DEF ServerStep, IInv, HooksOK, globals, hooks, walk
<1>5. CASE Reboot
  BY <1>5, RebootInv
<1> QED
  BY <1>1, <1>2, <1>3, <1>4, <1>5 DEF Next

(* A machine and a server that have just started. *)
LEMMA InitInvariant == Init => IInv
<1> SUFFICES ASSUME Init PROVE IInv
  OBVIOUS
<1> USE TcpServerAssumption, McheckTcpAssumption
<1>1. ServerTypeOK
  <2>1. info \in Header
    BY DEF Init, ServerInit, Header, Offset
  <2> QED
    BY <2>1 DEF Init, ServerInit, ServerTypeOK, Phase
<1>2. PayloadFits /\ BufferInUse /\ BacklogOpen
  BY DEF Init, ServerInit, PayloadFits, BufferInUse, BacklogOpen
<1>3. HooksOK
  BY DEF Init, HooksOK, PC, Verdict, Result, Offset
<1> QED
  BY <1>1, <1>2, <1>3 DEF IInv, ServerInv

(* The inductive invariant holds in every reachable state. *)
THEOREM Invariant == Spec => []IInv
<1>1. Init => IInv
  BY InitInvariant
<1>2. IInv /\ [Next]_vars => IInv'
  BY StepInvariant
<1> QED
  BY <1>1, <1>2, PTL DEF Spec

(* The LSM and the server keep their types, for any tasks and connections. *)
THEOREM TypeCorrect == Spec => []TypeOK
<1>1. IInv => TypeOK
  BY DEF IInv, ServerInv, HooksOK, TypeOK
<1> QED
  BY <1>1, Invariant, PTL

(***************************************************************************)
(* As long as the server cuts the stream where the LSM did, it reads into  *)
(* pages that it has allocated, and dumps no others, however the tasks     *)
(* interleave on the connection, whatever fails, and also on a connection  *)
(* that follows one whose framing was lost.                                *)
(***************************************************************************)
THEOREM PayloadStaysInBuffer == Spec => []PayloadFits
<1>1. IInv => PayloadFits
  BY DEF IInv, ServerInv
<1> QED
  BY <1>1, Invariant, PTL
=============================================================================
