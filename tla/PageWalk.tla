------------------------------ MODULE PageWalk ------------------------------
(***************************************************************************)
(* The page-table walk by which the mcheck LSM turns a mapping into        *)
(* messages for the analysis server: send_pages_to_userspace_tcp from its  *)
(* call of walk_page_range to kvfree, with the walk callbacks              *)
(* collect_pages and handle_hole, and the two helpers they call,           *)
(* grow_page_array and flush_accumulated_pages.                            *)
(*                                                                         *)
(* An address is a page number relative to info.init_addr and a length is  *)
(* a number of pages: do_mmap and do_mprotect_pkey hand the hooks page     *)
(* aligned ranges.  The page table cannot change during the walk, because  *)
(* the mmap lock is held.                                                  *)
(***************************************************************************)
EXTENDS Integers, Sequences, FiniteSets

CONSTANTS
  NPages,           (* length of the mapping, in pages                     *)
  InitialCapacity,  (* INITIAL_CAPACITY, slots of the page array (512)     *)
  AllocFails        (* whether vmap, kmalloc and kvrealloc may fail        *)

ASSUME PageWalkAssumption ==
  /\ NPages \in Nat \ {0}
  /\ InitialCapacity \in Nat \ {0}
  /\ AllocFails \in BOOLEAN

Page == 0 .. NPages - 1

(***************************************************************************)
(* What the walk finds at an address: a page that can be sent, an entry    *)
(* that is not present, the shared zero page, a frame that has no struct   *)
(* page, or no page table at all.                                          *)
(***************************************************************************)
Entry == {"present", "none", "zero", "nopfn", "hole"}

VARIABLES
  table,              (* the page table of the walked range                *)
  pc,                 (* "walk", "final" (last flush is due) or "done"     *)
  addr,               (* the next address of the walk                      *)
  pages,              (* ctx.pages[0 .. ctx.count-1]                       *)
  capacity,           (* ctx.capacity                                      *)
  memory_error,       (* ctx.memory_error                                  *)
  mapped_addr,        (* ctx.info->mapped_addr, offset of the batch        *)
  is_end_of_mapping,  (* ctx.info->is_end_of_mapping                       *)
  page_refs,          (* references taken by get_page and not yet put      *)
  stream,             (* messages handed to the socket, oldest first       *)
  dropped             (* history: pages of batches flush could not send    *)

ctx  == <<pages, capacity, memory_error, mapped_addr, is_end_of_mapping>>
vars == <<table, pc, addr, ctx, page_refs, stream, dropped>>

Present == {p \in Page : table[p] = "present"}
Elems(batch) == {batch[i] : i \in 1 .. Len(batch)}

Message ==
  [mapped_addr : Page, pages : Seq(Page), is_end_of_mapping : BOOLEAN]

Init ==
  /\ table \in [Page -> Entry]
  /\ pc = "walk"
  /\ addr = 0
  /\ pages = <<>>
  /\ capacity = InitialCapacity
  /\ memory_error = FALSE
  /\ mapped_addr = 0
  /\ is_end_of_mapping = FALSE
  /\ page_refs = [p \in Page |-> 0]
  /\ stream = <<>>
  /\ dropped = {}

-----------------------------------------------------------------------------
(* Mutant: the put_page loop is forgotten. *)
PutNoPages(refs, batch) == refs

(* One put_page for every slot of the batch. *)
PutPages(refs, batch) ==
  [p \in Page |-> refs[p] - Cardinality({i \in 1 .. Len(batch) : batch[i] = p})]

GetPage(refs, page) == [refs EXCEPT ![page] = @ + 1]

(***************************************************************************)
(* flush_accumulated_pages up to its put_page loop.  Nothing happens for   *)
(* an empty batch inside the mapping; otherwise the header and the pages   *)
(* leave together, unless vmap or the kmalloc of the header fails, in      *)
(* which case the batch is forgotten.                                      *)
(***************************************************************************)
SendBatch(end) ==
  \/ /\ pages = <<>> /\ ~end
     /\ UNCHANGED <<stream, dropped>>
  \/ /\ pages # <<>> \/ end
     /\ stream' = Append(stream, [mapped_addr |-> mapped_addr,
                                 pages |-> pages,
                                 is_end_of_mapping |-> end])
     /\ UNCHANGED dropped
  \/ /\ pages # <<>> \/ end
     /\ AllocFails
     /\ dropped' = dropped \cup Elems(pages)
     /\ UNCHANGED stream

(* Mutant: ctx->count is not reset, the next flush sends the pages again. *)
FlushKeepsCount ==
  /\ SendBatch(FALSE)
  /\ page_refs' = PutPages(page_refs, pages)
  /\ UNCHANGED <<pages, mapped_addr>>

(* flush_accumulated_pages called with is_end_of_mapping still 0. *)
Flush ==
  /\ SendBatch(FALSE)
  /\ pages' = <<>>
  /\ page_refs' = PutPages(page_refs, pages)
  /\ UNCHANGED mapped_addr

(* Mutant: the offset of the batch is the address after its first page. *)
AppendPageLate ==
  /\ pages' = Append(pages, addr)
  /\ mapped_addr' = IF pages = <<>> THEN addr + 1 ELSE mapped_addr
  /\ page_refs' = GetPage(page_refs, addr)
  /\ addr' = addr + 1

(* Mutant: the offset is set for the first batch only. *)
AppendPageOnce ==
  /\ pages' = Append(pages, addr)
  /\ mapped_addr' = IF mapped_addr = 0 THEN addr ELSE mapped_addr
  /\ page_refs' = GetPage(page_refs, addr)
  /\ addr' = addr + 1

(***************************************************************************)
(* collect_pages appending the page at addr; the offset of the batch is    *)
(* set by its first page.                                                  *)
(***************************************************************************)
AppendPage ==
  /\ pages' = Append(pages, addr)
  /\ mapped_addr' = IF pages = <<>> THEN addr ELSE mapped_addr
  /\ page_refs' = GetPage(page_refs, addr)
  /\ addr' = addr + 1

AtEntry(kinds) == pc = "walk" /\ addr < NPages /\ table[addr] \in kinds

(* Mutant: an entry without a page does not flush the batch. *)
SkipWithoutFlush ==
  /\ AtEntry({"none", "zero", "nopfn"})
  /\ ~memory_error
  /\ addr' = addr + 1
  /\ UNCHANGED <<table, pc, ctx, page_refs, stream, dropped>>

(* collect_pages on an entry without a page to send. *)
SkipEntry ==
  /\ AtEntry({"none", "zero", "nopfn"})
  /\ ~memory_error
  /\ Flush
  /\ addr' = addr + 1
  /\ UNCHANGED <<table, pc, capacity, memory_error, is_end_of_mapping>>

(* collect_pages on a page that fits in the array. *)
CollectPage ==
  /\ AtEntry({"present"})
  /\ ~memory_error
  /\ Len(pages) < capacity
  /\ AppendPage
  /\ UNCHANGED <<table, pc, capacity, memory_error, is_end_of_mapping,
                 stream, dropped>>

(* Mutant: a full array is flushed even if it can grow. *)
FlushAndCollect ==
  /\ AtEntry({"present"})
  /\ ~memory_error
  /\ Len(pages) >= capacity
  /\ capacity' = capacity * 2
  /\ SendBatch(FALSE)
  /\ pages' = <<addr>>
  /\ mapped_addr' = addr
  /\ page_refs' = GetPage(PutPages(page_refs, pages), addr)
  /\ addr' = addr + 1
  /\ UNCHANGED <<table, pc, memory_error, is_end_of_mapping>>

(* collect_pages on a page that needs a larger array, which it gets. *)
GrowAndCollect ==
  /\ AtEntry({"present"})
  /\ ~memory_error
  /\ Len(pages) >= capacity
  /\ capacity' = capacity * 2
  /\ AppendPage
  /\ UNCHANGED <<table, pc, memory_error, is_end_of_mapping, stream, dropped>>

(* Mutant: the failed kvrealloc is noted, but the batch is not flushed. *)
GrowFailsUnflushed ==
  /\ AllocFails
  /\ AtEntry({"present"})
  /\ ~memory_error
  /\ Len(pages) >= capacity
  /\ memory_error' = TRUE
  /\ AppendPage
  /\ UNCHANGED <<table, pc, capacity, is_end_of_mapping, stream, dropped>>

(***************************************************************************)
(* collect_pages when kvrealloc fails: the batch is flushed, which makes   *)
(* room for the page in the old array; the walk stops at the next entry.   *)
(***************************************************************************)
GrowFails ==
  /\ AllocFails
  /\ AtEntry({"present"})
  /\ ~memory_error
  /\ Len(pages) >= capacity
  /\ memory_error' = TRUE
  /\ SendBatch(FALSE)
  /\ pages' = <<addr>>
  /\ mapped_addr' = addr
  /\ page_refs' = GetPage(PutPages(page_refs, pages), addr)
  /\ addr' = addr + 1
  /\ UNCHANGED <<table, pc, capacity, is_end_of_mapping>>

(* collect_pages after a failed kvrealloc: -ENOMEM ends walk_page_range. *)
AbortWalk ==
  /\ AtEntry(Entry \ {"hole"})
  /\ memory_error
  /\ pc' = "final"
  /\ UNCHANGED <<table, addr, ctx, page_refs, stream, dropped>>

(* handle_hole: called for a missing table, which may cover many pages. *)
HandleHole ==
  /\ AtEntry({"hole"})
  /\ \E next \in addr + 1 .. NPages :
       /\ \A p \in addr .. next - 1 : table[p] = "hole"
       /\ addr' = next
  /\ Flush
  /\ UNCHANGED <<table, pc, capacity, memory_error, is_end_of_mapping>>

(* Mutant: the last entry of the range is not visited. *)
EndWalkEarly ==
  /\ pc = "walk"
  /\ addr >= NPages - 1
  /\ pc' = "final"
  /\ UNCHANGED <<table, addr, ctx, page_refs, stream, dropped>>

(* walk_page_range has covered the range. *)
EndWalk ==
  /\ pc = "walk"
  /\ addr = NPages
  /\ pc' = "final"
  /\ UNCHANGED <<table, addr, ctx, page_refs, stream, dropped>>

(* The last flush, which is sent even if there is no page left. *)
FinalFlush ==
  /\ pc = "final"
  /\ is_end_of_mapping' = TRUE
  /\ SendBatch(TRUE)
  /\ pages' = <<>>
  /\ page_refs' = PutPages(page_refs, pages)
  /\ pc' = "done"
  /\ UNCHANGED <<table, addr, capacity, memory_error, mapped_addr>>

Next ==
  \/ SkipEntry
  \/ CollectPage
  \/ GrowAndCollect
  \/ GrowFails
  \/ AbortWalk
  \/ HandleHole
  \/ EndWalk
  \/ FinalFlush

Spec == Init /\ [][Next]_vars

-----------------------------------------------------------------------------
(* Pages whose content has been handed to the socket. *)
Delivered == UNION {Elems(stream[i].pages) : i \in 1 .. Len(stream)}

(* Type invariant of the walk. *)
TypeOK ==
  /\ table \in [Page -> Entry]
  /\ pc \in {"walk", "final", "done"}
  /\ addr \in 0 .. NPages
  /\ pages \in Seq(Page)
  /\ capacity \in Nat \ {0}
  /\ memory_error \in BOOLEAN
  /\ mapped_addr \in Page
  /\ is_end_of_mapping \in BOOLEAN
  /\ page_refs \in [Page -> Int]
  /\ stream \in Seq(Message)
  /\ dropped \in SUBSET Page

(***************************************************************************)
(* collect_pages stores into ctx->pages[ctx->count++] without a check of   *)
(* its own: whichever way grow_page_array went, the slot exists.           *)
(***************************************************************************)
ArrayHoldsBatch == Len(pages) <= capacity

(***************************************************************************)
(* The batch is a run of present neighbours that ends where the walk is:   *)
(* only then does one offset, set when the first page was collected,       *)
(* locate all of them.  Every entry that breaks the run must flush.        *)
(***************************************************************************)
BatchIsRun ==
  /\ \A k \in 1 .. Len(pages) : /\ pages[k] = mapped_addr + k - 1
                                /\ table[pages[k]] = "present"
  /\ pages # <<>> => mapped_addr + Len(pages) = addr
  /\ pc = "done" => pages = <<>>

(***************************************************************************)
(* The server stores payload page k of a message at mapped_addr + k, so    *)
(* every message that left must locate all of its pages, across skipped    *)
(* entries, holes and a batch split by a failed kvrealloc.                 *)
(***************************************************************************)
PagesInPlace ==
  \A i \in 1 .. Len(stream) : \A k \in 1 .. Len(stream[i].pages) :
    /\ stream[i].pages[k] = stream[i].mapped_addr + k - 1
    /\ table[stream[i].pages[k]] = "present"

(* Messages carry pages in address order, hence no page twice. *)
StreamOrdered ==
  \A i, j \in 1 .. Len(stream) :
    i < j => \A p \in Elems(stream[i].pages), q \in Elems(stream[j].pages) : p < q

(***************************************************************************)
(* Every present page the walk has passed is in exactly one place: still   *)
(* in the batch, sent in exactly one message, or lost with a batch that    *)
(* could not be mapped.                                                    *)
(***************************************************************************)
EveryPageAccounted ==
  /\ Elems(pages) \cup Delivered \cup dropped = {p \in Present : p < addr}
  /\ Elems(pages) \cap (Delivered \cup dropped) = {}
  /\ Delivered \cap dropped = {}
  /\ StreamOrdered

(***************************************************************************)
(* Every get_page is undone by exactly one put_page on every path, so the  *)
(* hook returns with no reference held.                                    *)
(***************************************************************************)
RefsMatchBatch ==
  \A p \in Page : page_refs[p] = IF p \in Elems(pages) THEN 1 ELSE 0

(***************************************************************************)
(* A walk that ended without running out of memory has covered the whole   *)
(* mapping, and the message that ends the mapping is the last one.         *)
(***************************************************************************)
WholeMappingAtEnd ==
  /\ pc # "walk" /\ ~memory_error =>
       /\ addr = NPages
       /\ Elems(pages) \cup Delivered \cup dropped = Present
  /\ \A i \in 1 .. Len(stream) :
       stream[i].is_end_of_mapping => pc = "done" /\ i = Len(stream)

(***************************************************************************)
(* While the array can grow, a message holds all pages up to the next      *)
(* entry without one, however small the array was: a mapping without gaps  *)
(* leaves in one message.  McheckTcp relies on it.                         *)
(***************************************************************************)
RunsAreMaximal ==
  ~memory_error =>
    \A i \in 1 .. Len(stream) : \A p \in Elems(stream[i].pages), q \in Present :
      q \in {p - 1, p + 1} => q \in Elems(stream[i].pages)

(***************************************************************************)
(* The walk keeps the promise of SparseCopy; the batch that is still being *)
(* collected is not visible there.                                         *)
(***************************************************************************)
Copy == INSTANCE SparseCopy WITH
          present <- Present,
          shipped <- Delivered,
          lost    <- dropped,
          closed  <- pc = "done",
          gaveUp  <- memory_error

CopySpec == Copy!Spec
=============================================================================
