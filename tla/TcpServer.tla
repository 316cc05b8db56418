----------------------------- MODULE TcpServer -----------------------------
(***************************************************************************)
(* The analysis server, tcp_server.cpp, with the connections it reads.     *)
(*                                                                         *)
(* A connection carries cells: the header (struct mapping_info) of a       *)
(* message, or one page of its payload.  Offsets and lengths are numbers   *)
(* of pages.  Every cell carries, as history, the call of a hook that sent *)
(* it, and an answer the call it answers: the protocol itself has neither. *)
(***************************************************************************)
EXTENDS Integers, Sequences, Functions

CONSTANTS
  Conn,            (* the connections a run may open                       *)
  NoConn,          (* no connection: sock = NULL, no client                *)
  Call,            (* the calls of hooks                                   *)
  MaxLen,          (* longest mapping, in pages                            *)
  Backlog,         (* connections that may wait for accept (10)            *)
  Word,            (* values of an unsigned long, in pages                 *)
  MaxMisread,      (* messages the server may find in one misread cell     *)
  ServerFaults     (* which of "mmap" and "popen" may fail                 *)

ASSUME TcpServerAssumption ==
  /\ NoConn \notin Conn
  /\ Call # {}
  /\ MaxLen \in Nat \ {0}
  /\ Backlog \in Nat \ {0}
  /\ Word \in Nat /\ Word > 2 * MaxLen
  /\ MaxMisread \in Nat
  /\ ServerFaults \subseteq {"mmap", "popen"}

VARIABLES
  up,                    (* up[c]: cells on their way to the server        *)
  down,                  (* down[c]: answers on their way to the client    *)
  backlog,               (* connections not accepted yet, oldest first     *)
  hungup,                (* connections whose client is gone               *)
  closed,                (* connections the server has closed              *)
  sock_client,           (* the connection being served                    *)
  phase,                 (* where the server loop is                       *)
  info,                  (* the header read last                           *)
  root_buf,              (* the buffer of the mapping, <<>> when NULL      *)
  current_mapping_size,
  total_read,            (* pages of the payload read so far               *)
  dumps                  (* dump files, without their numbers              *)

network == <<up, down, backlog, hungup, closed>>
buffer  == <<root_buf, current_mapping_size>>
server  == <<sock_client, phase, info, buffer, total_read, dumps>>

Offset == 0 .. MaxLen - 1

Header ==
  [kind : {"header"}, call : Call, mapped_addr : Offset, len : 0 .. MaxLen,
   mapping_len : 1 .. MaxLen, is_end_of_mapping : BOOLEAN]

PageCell == [kind : {"page"}, call : Call, page : Offset]
Cell     == Header \cup PageCell

(***************************************************************************)
(* A page of the buffer that was never written holds zeroes.  A buffer     *)
(* filled from a misread stream holds pieces of anything.                  *)
(***************************************************************************)
Zero    == [kind |-> "zero"]
Garbage == [kind |-> "garbage"]
Content == PageCell \cup {Zero, Garbage}

Phase == {"accept", "header", "payload", "finish", "garbled", "killed"}

ServerInit ==
  /\ up = [c \in Conn |-> <<>>]
  /\ down = [c \in Conn |-> <<>>]
  /\ backlog = <<>>
  /\ hungup = {}
  /\ closed = {}
  /\ sock_client = NoConn
  /\ phase = "accept"
  /\ info = [kind |-> "header", call |-> CHOOSE c \in Call : TRUE, mapped_addr |-> 0,
             len |-> 0, mapping_len |-> 1, is_end_of_mapping |-> FALSE]
  /\ root_buf = <<>>
  /\ current_mapping_size = 0
  /\ total_read = 0
  /\ dumps = {}

-----------------------------------------------------------------------------
Serving(where) == sock_client # NoConn /\ phase = where

Incoming(kind) == up[sock_client] # <<>> /\ Head(up[sock_client]).kind = kind

Consume == up' = [up EXCEPT ![sock_client] = Tail(@)]

(* accept, and the locals of the outer loop. *)
Accept ==
  /\ phase = "accept"
  /\ backlog # <<>>
  /\ sock_client' = Head(backlog)
  /\ backlog' = Tail(backlog)
  /\ phase' = "header"
  /\ root_buf' = <<>>
  /\ current_mapping_size' = 0
  /\ UNCHANGED <<up, down, hungup, closed, info, total_read, dumps>>

(* Mutant: the connection is closed, but not left. *)
CloseAndStay ==
  /\ closed' = closed \cup {sock_client}
  /\ root_buf' = <<>>
  /\ current_mapping_size' = 0
  /\ up' = [up EXCEPT ![sock_client] = <<>>]
  /\ phase' = "header"
  /\ UNCHANGED <<sock_client, down, backlog, hungup, total_read>>

(* client_disconnected: free the buffer, close the connection. *)
CloseClient ==
  /\ closed' = closed \cup {sock_client}
  /\ sock_client' = NoConn
  /\ phase' = "accept"
  /\ root_buf' = <<>>
  /\ current_mapping_size' = 0
  /\ up' = [up EXCEPT ![sock_client] = <<>>]
  /\ UNCHANGED <<down, backlog, hungup, total_read>>

FreshBuffer(size) == [k \in 1 .. size |-> Zero]

(***************************************************************************)
(* mapped_addr + len <= current_mapping_size, the guard of every payload,  *)
(* in unsigned arithmetic.                                                 *)
(***************************************************************************)
InBounds(header, size) == (header.mapped_addr + header.len) % Word <= size

(***************************************************************************)
(* A header has arrived: the buffer is allocated unless there is one, and  *)
(* the payload is expected next, if the header announces one.              *)
(***************************************************************************)
RecvHeader ==
  /\ Serving("header")
  /\ Incoming("header")
  /\ LET header == Head(up[sock_client])
         size   == IF root_buf = <<>> THEN header.mapping_len ELSE current_mapping_size
     IN  /\ header.len = 0 \/ InBounds(header, size)
         /\ info' = header
         /\ current_mapping_size' = size
         /\ root_buf' = IF root_buf = <<>> THEN FreshBuffer(size) ELSE root_buf
         /\ phase' = IF header.len > 0 THEN "payload" ELSE "finish"
  /\ Consume
  /\ total_read' = 0
  /\ UNCHANGED <<down, backlog, hungup, closed, sock_client, dumps>>

(***************************************************************************)
(* A header the server gives up on: no memory for the mapping, or a        *)
(* payload that does not fit into it.                                      *)
(***************************************************************************)
RefuseHeader ==
  /\ Serving("header")
  /\ Incoming("header")
  /\ LET header == Head(up[sock_client])
         size   == IF root_buf = <<>> THEN header.mapping_len ELSE current_mapping_size
     IN  /\ \/ root_buf = <<>> /\ "mmap" \in ServerFaults
            \/ header.len > 0 /\ ~InBounds(header, size)
         /\ info' = header
  /\ CloseClient
  /\ UNCHANGED dumps

(* Mutant: mapped_addr is ignored. *)
SlotFromStart == total_read + 1

(* buf + total_read, where buf = root_buf + mapped_addr; counted from 1. *)
Slot == info.mapped_addr + total_read + 1

(* One page of the payload goes to its slot. *)
RecvPayload ==
  /\ Serving("payload")
  /\ Incoming("page")
  /\ root_buf' = [root_buf EXCEPT ![Slot] = Head(up[sock_client])]
  /\ total_read' = total_read + 1
  /\ phase' = IF total_read' < info.len THEN "payload" ELSE "finish"
  /\ Consume
  /\ UNCHANGED <<down, backlog, hungup, closed, sock_client, info, current_mapping_size, dumps>>

(***************************************************************************)
(* Header bytes where payload is expected, or the reverse: from here on    *)
(* the server cuts the stream into the wrong pieces and takes any bytes    *)
(* for a header.  What its locals hold then is not followed: in phase      *)
(* "garbled" info and the buffer keep the values of the last good message. *)
(***************************************************************************)
LoseFraming ==
  /\ \/ Serving("header") /\ Incoming("page")
     \/ Serving("payload") /\ Incoming("header")
  /\ phase' = "garbled"
  /\ UNCHANGED <<network, sock_client, info, buffer, total_read, dumps>>

(* Bytes that are taken for a header may hold any numbers. *)
Misread == [mapped_addr : 0 .. Word - 1, len : 0 .. Word - 1, mapping_len : 1 .. Word - 1]

(* The sum in the guard has wrapped: the payload passes, and does not fit. *)
SumWraps ==
  \E header \in Misread : /\ InBounds(header, header.mapping_len)
                          /\ header.mapped_addr + header.len > header.mapping_len

(***************************************************************************)
(* The bytes of a cell pass for messages, none, one or several of which    *)
(* end a mapping: whatever the buffer holds is dumped, and answered.  An   *)
(* answer counts for the call of the last good header or of the cell.      *)
(***************************************************************************)
GarbledGoesOn ==
  /\ Serving("garbled")
  /\ up[sock_client] # <<>>
  /\ Consume
  /\ \E c \in {info.call, Head(up[sock_client]).call}, n \in 0 .. MaxMisread :
       /\ down' = [down EXCEPT ![sock_client] = @ \o [k \in 1 .. n |-> c]]
       /\ \/ dumps' = dumps
          \/ n > 0 /\ dumps' = dumps \cup {[call |-> c, content |-> <<Garbage>>]}
  /\ UNCHANGED <<backlog, hungup, closed, sock_client, phase, info, buffer, total_read>>

(* They do not pass: a mapping of length 0, no memory, or out of bounds. *)
GarbledRefused ==
  /\ Serving("garbled")
  /\ up[sock_client] # <<>>
  /\ CloseClient
  /\ UNCHANGED <<info, dumps>>

(* Mutants: every message is answered; an empty one is not. *)
AnyMessage   == TRUE
EndWithPages == info.is_end_of_mapping /\ info.len > 0

EndOfMapping == info.is_end_of_mapping

(***************************************************************************)
(* After the payload: a mapping that has ended is dumped and answered.     *)
(* dump_mapping may fail to start gzip, the answer is sent all the same.   *)
(* The buffer is freed after every message.                                *)
(***************************************************************************)
Dump == [call |-> info.call, content |-> root_buf]

DumpMapping ==
  \/ dumps' = dumps \cup {Dump}
  \/ "popen" \in ServerFaults /\ dumps' = dumps

DumpAndAnswer ==
  /\ DumpMapping
  /\ down' = [down EXCEPT ![sock_client] = Append(@, info.call)]

(* Mutant: root_buf keeps its value after munmap. *)
FreeBufferOnly == current_mapping_size' = 0 /\ UNCHANGED root_buf

FreeBuffer == root_buf' = <<>> /\ current_mapping_size' = 0

FinishMessage ==
  /\ Serving("finish")
  /\ IF EndOfMapping THEN DumpAndAnswer ELSE UNCHANGED <<dumps, down>>
  /\ FreeBuffer
  /\ phase' = "header"
  /\ UNCHANGED <<up, backlog, hungup, closed, sock_client, info, total_read>>

(* analyze_nop fails because the client is gone. *)
AnswerFails ==
  /\ Serving("finish")
  /\ EndOfMapping
  /\ sock_client \in hungup
  /\ DumpMapping
  /\ CloseClient
  /\ UNCHANGED info

(* The process ends, and with it all connections it has or could accept. *)
Killed ==
  /\ closed' = closed \cup {sock_client} \cup Range(backlog)
  /\ backlog' = <<>>
  /\ sock_client' = NoConn
  /\ phase' = "killed"
  /\ root_buf' = <<>>
  /\ current_mapping_size' = 0
  /\ up' = [c \in Conn |-> <<>>]
  /\ UNCHANGED <<down, hungup, info, total_read>>

(***************************************************************************)
(* A client that is gone answers the first answer with a reset; the send   *)
(* of a second one raises SIGPIPE, which the server does not handle.       *)
(***************************************************************************)
KilledByAnswer ==
  /\ Serving("finish")
  /\ EndOfMapping
  /\ DumpMapping
  /\ sock_client \in hungup
  /\ down[sock_client] # <<>>
  /\ Killed

(***************************************************************************)
(* A misread stream ends the server by the same signal, or by a payload    *)
(* that was received outside the buffer: what that does is undefined, and  *)
(* the alternatives to an end are those of any misread message.            *)
(***************************************************************************)
GarbledKilled ==
  /\ Serving("garbled")
  /\ up[sock_client] # <<>>
  /\ SumWraps \/ sock_client \in hungup
  /\ Killed
  /\ UNCHANGED dumps

(* Mutant: the end of the stream is noticed between messages only. *)
ClientGoneAtHeader ==
  /\ sock_client \in hungup
  /\ phase = "header"
  /\ up[sock_client] = <<>>
  /\ CloseClient
  /\ UNCHANGED <<info, dumps>>

(* recv returns 0: the client is gone and everything it sent is read. *)
ClientGone ==
  /\ sock_client \in hungup
  /\ phase \in {"header", "payload", "garbled"}
  /\ up[sock_client] = <<>>
  /\ CloseClient
  /\ UNCHANGED <<info, dumps>>

ServerNext ==
  \/ Accept
  \/ RecvHeader
  \/ RefuseHeader
  \/ RecvPayload
  \/ LoseFraming
  \/ GarbledGoesOn
  \/ GarbledRefused
  \/ GarbledKilled
  \/ FinishMessage
  \/ AnswerFails
  \/ KilledByAnswer
  \/ ClientGone

-----------------------------------------------------------------------------
(* Type invariant of the server and the network. *)
ServerTypeOK ==
  /\ up \in [Conn -> Seq(Cell)]
  /\ down \in [Conn -> Seq(Call)]
  /\ backlog \in Seq(Conn) /\ Len(backlog) <= Backlog
  /\ hungup \subseteq Conn /\ closed \subseteq Conn
  /\ sock_client \in (Conn \cup {NoConn}) \ closed
  /\ phase \in Phase /\ (phase \in {"accept", "killed"} <=> sock_client = NoConn)
  /\ info \in Header
  /\ root_buf \in Seq(Content)
  /\ current_mapping_size \in 0 .. MaxLen
  /\ total_read \in 0 .. MaxLen
  /\ \A d \in dumps : d.call \in Call /\ d.content \in Seq(Content)

(***************************************************************************)
(* As long as the stream is framed, every recv into the buffer stays       *)
(* inside the pages that were allocated for it, although the size was      *)
(* checked when the header arrived and root_buf and current_mapping_size   *)
(* are kept by hand; and dump_mapping, which goes by mapping_len of the    *)
(* last header, reads just those pages.  It claims nothing of a server     *)
(* that has lost the framing, and holds again for the next client.         *)
(***************************************************************************)
PayloadFits ==
  phase # "garbled" =>
    /\ current_mapping_size = Len(root_buf)
    /\ phase = "payload" => /\ total_read < info.len
                            /\ info.mapped_addr + info.len <= Len(root_buf)
    /\ phase = "finish" => info.mapping_len = Len(root_buf)

(***************************************************************************)
(* The server meets a header exactly where a header is expected, which it  *)
(* cannot check: nothing in the stream marks where a message begins.       *)
(***************************************************************************)
FramingKept == phase # "garbled"

(***************************************************************************)
(* A dump holds pages of the call it is named after only, each at its      *)
(* place in the mapping, and zeroes elsewhere: no page of an earlier       *)
(* mapping, task or connection is left over in it.                         *)
(***************************************************************************)
DumpsPure ==
  \A d \in dumps : \A k \in 1 .. Len(d.content) :
    d.content[k] \in {Zero, [kind |-> "page", call |-> d.call, page |-> k - 1]}
=============================================================================
