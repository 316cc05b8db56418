--------------------------- MODULE PageWalk_proofs ---------------------------
(* Safety of the page-table walk, for mappings of any length.             *)
EXTENDS PageWalk, FiniteSetTheorems, TLAPS

(***************************************************************************)
(* The put_page loop of flush_accumulated_pages keeps the reference counts *)
(* integers, whatever the batch holds.                                     *)
(***************************************************************************)
LEMMA PutPagesType ==
  ASSUME NEW refs \in [Page -> Int], NEW batch \in Seq(Page)
  PROVE  PutPages(refs, batch) \in [Page -> Int]
<1>1. ASSUME NEW p \in Page
      PROVE  Cardinality({i \in 1 .. Len(batch) : batch[i] = p}) \in Nat
  <2>1. IsFiniteSet(1 .. Len(batch))
    BY FS_Interval
  <2> QED
    BY <2>1, FS_Subset, FS_CardinalityType
<1> QED
  BY <1>1 DEF PutPages

(***************************************************************************)
(* flush_accumulated_pages adds at most one message, and that is a proper  *)
(* one.                                                                    *)
(***************************************************************************)
LEMMA SendBatchType ==
  ASSUME TypeOK, NEW end \in BOOLEAN, SendBatch(end)
  PROVE  stream' \in Seq(Message) /\ dropped' \in SUBSET Page
<1> DEFINE m == [mapped_addr |-> mapped_addr, pages |-> pages, is_end_of_mapping |-> end]
<1>1. stream \in Seq(Message) /\ dropped \in SUBSET Page
  BY DEF TypeOK
<1>2. m \in Message
  BY DEF TypeOK, Message
<1>3. CASE UNCHANGED <<stream, dropped>>
  BY <1>1, <1>3
<1>4. CASE stream' = Append(stream, m) /\ UNCHANGED dropped
  BY <1>1, <1>2, <1>4
<1>5. CASE dropped' = dropped \cup Elems(pages) /\ UNCHANGED stream
  <2>1. Elems(pages) \subseteq Page
    BY DEF TypeOK, Elems
  <2> QED
    BY <1>1, <1>5, <2>1
<1> QED
  BY <1>3, <1>4, <1>5 DEF SendBatch

(***************************************************************************)
(* Storing the page at addr into the array.                                *)
(***************************************************************************)
LEMMA AppendPageType ==
  ASSUME TypeOK, addr \in Page, AppendPage
  PROVE  /\ addr' \in 0 .. NPages
         /\ pages' \in Seq(Page)
         /\ mapped_addr' \in Page
         /\ page_refs' \in [Page -> Int]
<1>1. addr' \in 0 .. NPages
  BY PageWalkAssumption DEF AppendPage, Page
<1>2. pages' \in Seq(Page) /\ mapped_addr' \in Page
  BY DEF AppendPage, TypeOK
<1>3. page_refs' \in [Page -> Int]
  BY DEF AppendPage, GetPage, TypeOK
<1> QED
  BY <1>1, <1>2, <1>3

(* Every action keeps the types. *)
LEMMA TypeStep ==
  ASSUME TypeOK, [Next]_vars
  PROVE  TypeOK'
<1> USE PageWalkAssumption
<1>1. /\ table \in [Page -> Entry] /\ pc \in {"walk", "final", "done"}
      /\ addr \in 0 .. NPages /\ pages \in Seq(Page) /\ capacity \in Nat \ {0}
      /\ memory_error \in BOOLEAN /\ mapped_addr \in Page
      /\ is_end_of_mapping \in BOOLEAN /\ page_refs \in [Page -> Int]
      /\ stream \in Seq(Message) /\ dropped \in SUBSET Page
  BY DEF TypeOK
<1>2. PutPages(page_refs, pages) \in [Page -> Int]
  BY <1>1, PutPagesType
<1>3. ASSUME AtEntry(Entry) PROVE addr \in Page /\ addr + 1 \in 0 .. NPages
  BY <1>1, <1>3 DEF AtEntry, Page
<1>4. <<>> \in Seq(Page)
  OBVIOUS
<1>5. CASE SkipEntry
  <2>1. SendBatch(FALSE) /\ AtEntry(Entry)
    BY <1>5 DEF SkipEntry, Flush, AtEntry, Entry
  <2>2. stream' \in Seq(Message) /\ dropped' \in SUBSET Page
    BY <2>1, SendBatchType
  <2> QED
    BY <1>1, <1>2, <1>3, <1>4, <1>5, <2>1, <2>2 DEF SkipEntry, Flush, TypeOK
<1>6. CASE CollectPage
  <2>1. AppendPage /\ addr \in Page
    BY <1>3, <1>6 DEF CollectPage, AtEntry, Entry
  <2> QED
    BY <1>1, <1>6, <2>1, AppendPageType DEF CollectPage, TypeOK
<1>7. CASE GrowAndCollect
  <2>1. AppendPage /\ addr \in Page
    BY <1>3, <1>7 DEF GrowAndCollect, AtEntry, Entry
  <2>2. capacity' \in Nat \ {0}
    BY <1>1, <1>7 DEF GrowAndCollect
  <2>3. /\ addr' \in 0 .. NPages /\ pages' \in Seq(Page)
        /\ mapped_addr' \in Page /\ page_refs' \in [Page -> Int]
    BY <2>1, AppendPageType
  <2>4. UNCHANGED <<table, pc, memory_error, is_end_of_mapping, stream, dropped>>
    BY <1>7 DEF GrowAndCollect
  <2> QED
    BY <1>1, <2>2, <2>3, <2>4 DEF TypeOK
<1>8. CASE GrowFails
  <2>1. SendBatch(FALSE) /\ addr \in Page /\ addr + 1 \in 0 .. NPages
    BY <1>3, <1>8 DEF GrowFails, AtEntry, Entry
  <2>2. stream' \in Seq(Message) /\ dropped' \in SUBSET Page
    BY <2>1, SendBatchType
  <2>3. page_refs' \in [Page -> Int]
    BY <1>2, <1>8, <2>1 DEF GrowFails, GetPage
  <2>4. pages' \in Seq(Page)
    BY <1>8, <2>1 DEF GrowFails
  <2> QED
    BY <1>1, <1>8, <2>1, <2>2, <2>3, <2>4 DEF GrowFails, TypeOK
<1>9. CASE AbortWalk
  BY <1>1, <1>9 DEF AbortWalk, ctx, TypeOK
<1>10. CASE HandleHole
  <2>1. SendBatch(FALSE)
    BY <1>10 DEF HandleHole, Flush
  <2>2. stream' \in Seq(Message) /\ dropped' \in SUBSET Page
    BY <2>1, SendBatchType
  <2>3. PICK next \in addr + 1 .. NPages : addr' = next
    BY <1>10 DEF HandleHole
  <2>4. addr' \in 0 .. NPages
    BY <1>1, <2>3
  <2> QED
    BY <1>1, <1>2, <1>4, <1>10, <2>2, <2>4 DEF HandleHole, Flush, TypeOK
<1>11. CASE EndWalk
  BY <1>1, <1>11 DEF EndWalk, ctx, TypeOK
<1>12. CASE FinalFlush
  <2>1. stream' \in Seq(Message) /\ dropped' \in SUBSET Page
    BY <1>12, SendBatchType DEF FinalFlush
  <2> QED
    BY <1>1, <1>2, <1>4, <1>12, <2>1 DEF FinalFlush, TypeOK
<1>13. CASE UNCHANGED vars
  BY <1>1, <1>13 DEF vars, ctx, TypeOK
<1> QED
  BY <1>5, <1>6, <1>7, <1>8, <1>9, <1>10, <1>11, <1>12, <1>13 DEF Next

(***************************************************************************)
(* Every variable of the walk keeps its type: in particular the offset put *)
(* into a header is an offset inside the mapping.                          *)
(***************************************************************************)
THEOREM TypeCorrect == Spec => []TypeOK
<1>1. Init => TypeOK
  BY PageWalkAssumption DEF Init, TypeOK, Page, Message
<1>2. TypeOK /\ [Next]_vars => TypeOK'
  BY TypeStep
<1> QED
  BY <1>1, <1>2, PTL DEF Spec

-----------------------------------------------------------------------------
(* Lemmas about the sequences of the walk.                                *)

(* An empty batch has no page. *)
LEMMA ElemsEmpty == Elems(<<>>) = {}
  BY DEF Elems

(* A batch that grew by a page. *)
LEMMA ElemsAppend ==
  ASSUME NEW batch \in Seq(Page), NEW page \in Page
  PROVE  Elems(Append(batch, page)) = Elems(batch) \cup {page}
<1>1. Len(Append(batch, page)) = Len(batch) + 1 /\ Len(batch) \in Nat
  OBVIOUS
<1>2. \A i \in 1 .. Len(batch) : Append(batch, page)[i] = batch[i]
  OBVIOUS
<1>3. Append(batch, page)[Len(batch) + 1] = page
  OBVIOUS
<1>4. 1 .. Len(Append(batch, page)) = 1 .. Len(batch) \cup {Len(batch) + 1}
  BY <1>1
<1> QED
  BY <1>2, <1>3, <1>4 DEF Elems

(* A stream that grew by a message. *)
LEMMA DeliveredAppend ==
  ASSUME stream \in Seq(Message), NEW m \in Message, stream' = Append(stream, m)
  PROVE  /\ Delivered' = Delivered \cup Elems(m.pages)
         /\ Len(stream') = Len(stream) + 1
         /\ \A i \in 1 .. Len(stream) : stream'[i] = stream[i]
         /\ stream'[Len(stream) + 1] = m
<1>1. Len(stream') = Len(stream) + 1 /\ Len(stream) \in Nat
  OBVIOUS
<1>2. \A i \in 1 .. Len(stream) : stream'[i] = stream[i]
  OBVIOUS
<1>3. stream'[Len(stream) + 1] = m
  OBVIOUS
<1>4. 1 .. Len(stream') = 1 .. Len(stream) \cup {Len(stream) + 1}
  BY <1>1
<1>5. Delivered' = UNION {Elems(stream'[i].pages) : i \in 1 .. Len(stream')}
  BY DEF Delivered, Elems
<1>6. Delivered' = Delivered \cup Elems(m.pages)
  BY <1>2, <1>3, <1>4, <1>5 DEF Delivered
<1> QED
  BY <1>1, <1>2, <1>3, <1>6

(* A run of neighbours is an interval. *)
LEMMA RunElems ==
  ASSUME TypeOK, BatchIsRun
  PROVE  Elems(pages) = mapped_addr .. mapped_addr + Len(pages) - 1
<1>1. Len(pages) \in Nat /\ mapped_addr \in Int
  BY DEF TypeOK, Page
<1>2. ASSUME NEW p \in mapped_addr .. mapped_addr + Len(pages) - 1
      PROVE  p \in Elems(pages)
  <2>1. p - mapped_addr + 1 \in 1 .. Len(pages)
    BY <1>1
  <2>2. pages[p - mapped_addr + 1] = p
    BY <1>1, <2>1 DEF BatchIsRun
  <2> QED
    BY <2>1, <2>2 DEF Elems
<1>3. ASSUME NEW k \in 1 .. Len(pages)
      PROVE  pages[k] \in mapped_addr .. mapped_addr + Len(pages) - 1
  BY <1>1 DEF BatchIsRun
<1> QED
  BY <1>2, <1>3 DEF Elems

(* Putting a run drops exactly one reference of each of its pages. *)
LEMMA PutRun ==
  ASSUME TypeOK, BatchIsRun, RefsMatchBatch, NEW p \in Page
  PROVE  PutPages(page_refs, pages)[p] = 0
<1> DEFINE slots == {i \in 1 .. Len(pages) : pages[i] = p}
<1>1. Len(pages) \in Nat /\ mapped_addr \in Int
  BY DEF TypeOK, Page
<1>2. PutPages(page_refs, pages)[p] = page_refs[p] - Cardinality(slots)
  BY DEF PutPages
<1>3. CASE p \in Elems(pages)
  <2>1. PICK i \in 1 .. Len(pages) : pages[i] = p
    BY <1>3 DEF Elems
  <2>2. \A j \in 1 .. Len(pages) : pages[j] = p => j = i
    BY <1>1, <2>1 DEF BatchIsRun
  <2>3. slots = {i}
    BY <2>1, <2>2
  <2> QED
    <3>1. page_refs[p] = 1
      BY <1>3 DEF RefsMatchBatch
    <3>2. Cardinality(slots) = 1
      BY <2>3, FS_Singleton
    <3> QED
      BY <1>2, <3>1, <3>2
<1>4. CASE p \notin Elems(pages)
  <2>1. slots = {}
    BY <1>4 DEF Elems
  <2> QED
    <3>1. page_refs[p] = 0
      BY <1>4 DEF RefsMatchBatch
    <3>2. Cardinality(slots) = 0
      BY <2>1, FS_EmptySet
    <3> QED
      BY <1>2, <3>1, <3>2
<1> QED
  BY <1>3, <1>4

-----------------------------------------------------------------------------
(***************************************************************************)
(* The inductive invariant: the batch is a run that ends at addr, which is *)
(* what makes the offsets of the messages right and keeps the pages of     *)
(* different messages apart.                                               *)
(***************************************************************************)
IInv ==
  /\ TypeOK
  /\ ArrayHoldsBatch
  /\ BatchIsRun
  /\ PagesInPlace
  /\ EveryPageAccounted
  /\ RefsMatchBatch
  /\ WholeMappingAtEnd

(***************************************************************************)
(* What flush_accumulated_pages does to the messages: the batch moves, as  *)
(* a whole, to the stream or to the lost pages.                            *)
(***************************************************************************)
LEMMA SendBatchEffect ==
  ASSUME IInv, NEW end \in BOOLEAN, SendBatch(end), table' = table
  PROVE  /\ Delivered' \cup dropped' = Delivered \cup dropped \cup Elems(pages)
         /\ Delivered' \cap dropped' = {}
         /\ PagesInPlace'
         /\ StreamOrdered'
         /\ \A i \in 1 .. Len(stream') :
              stream'[i].is_end_of_mapping =>
                \/ i \in 1 .. Len(stream) /\ stream[i].is_end_of_mapping
                \/ end /\ i = Len(stream')
<1> DEFINE m == [mapped_addr |-> mapped_addr, pages |-> pages, is_end_of_mapping |-> end]
<1>1. TypeOK /\ BatchIsRun /\ PagesInPlace /\ EveryPageAccounted
  BY DEF IInv
<1>2. stream \in Seq(Message) /\ m \in Message /\ Len(stream) \in Nat
  BY <1>1 DEF TypeOK, Message
<1>3. ASSUME stream' = stream
      PROVE  Delivered' = Delivered /\ PagesInPlace' /\ StreamOrdered'
  <2>1. Delivered' = Delivered
    BY <1>3 DEF Delivered, Elems
  <2>2. PagesInPlace'
    BY <1>1, <1>3 DEF PagesInPlace
  <2>3. StreamOrdered'
    BY <1>1, <1>3 DEF EveryPageAccounted, StreamOrdered, Elems
  <2> QED
    BY <2>1, <2>2, <2>3
<1>4. CASE pages = <<>> /\ UNCHANGED <<stream, dropped>>
  <2>1. Elems(pages) = {}
    BY <1>4, ElemsEmpty
  <2> QED
    BY <1>1, <1>3, <1>4, <2>1 DEF EveryPageAccounted
<1>5. CASE stream' = Append(stream, m) /\ UNCHANGED dropped
  <2>1. /\ Delivered' = Delivered \cup Elems(pages)
        /\ Len(stream') = Len(stream) + 1
        /\ \A i \in 1 .. Len(stream) : stream'[i] = stream[i]
        /\ stream'[Len(stream) + 1] = m
    BY <1>2, <1>5, DeliveredAppend
  <2>2. m.pages = pages /\ m.mapped_addr = mapped_addr /\ m.is_end_of_mapping = end
    OBVIOUS
  <2>3. Delivered' \cap dropped' = {}
    BY <1>1, <1>5, <2>1 DEF EveryPageAccounted
  <2>4. PagesInPlace'
    <3> SUFFICES ASSUME NEW i \in 1 .. Len(stream'),
                        NEW k \in 1 .. Len(stream'[i].pages)
                 PROVE  /\ stream'[i].pages[k] = stream'[i].mapped_addr + k - 1
                        /\ table[stream'[i].pages[k]] = "present"
      BY DEF PagesInPlace
    <3>1. CASE i \in 1 .. Len(stream)
      BY <1>1, <2>1, <3>1 DEF PagesInPlace
    <3>2. CASE i = Len(stream) + 1
      BY <1>1, <2>1, <2>2, <3>2 DEF BatchIsRun
    <3> QED
      BY <1>2, <2>1, <3>1, <3>2
  <2>5. ASSUME NEW p \in Delivered, NEW q \in Elems(pages)
        PROVE  p < q
    <3>1. Elems(pages) = mapped_addr .. mapped_addr + Len(pages) - 1
      BY <1>1, RunElems
    <3>2. p \in Page /\ p < addr /\ p \notin Elems(pages)
      BY <1>1, <2>5 DEF EveryPageAccounted, Present
    <3>3. pages # <<>>
      BY <2>5, ElemsEmpty
    <3>4. mapped_addr + Len(pages) = addr /\ Len(pages) \in Nat /\ mapped_addr \in Int
      BY <1>1, <3>3 DEF BatchIsRun, TypeOK, Page
    <3> QED
      BY <2>5, <3>1, <3>2, <3>4 DEF Page
  <2>6. \A i \in 1 .. Len(stream) : Elems(stream[i].pages) \subseteq Delivered
    BY DEF Delivered
  <2>7. StreamOrdered'
    <3> SUFFICES ASSUME NEW i \in 1 .. Len(stream'), NEW j \in 1 .. Len(stream'), i < j,
                        NEW p \in Elems(stream'[i].pages), NEW q \in Elems(stream'[j].pages)
                 PROVE  p < q
      BY DEF StreamOrdered, Elems
    <3>1. i \in 1 .. Len(stream)
      BY <1>2, <2>1
    <3>2. CASE j \in 1 .. Len(stream)
      BY <1>1, <2>1, <3>1, <3>2 DEF EveryPageAccounted, StreamOrdered
    <3>3. CASE j = Len(stream) + 1
      BY <2>1, <2>2, <2>5, <2>6, <3>1, <3>3
    <3> QED
      BY <1>2, <2>1, <3>2, <3>3
  <2>8. ASSUME NEW i \in 1 .. Len(stream'), stream'[i].is_end_of_mapping
        PROVE  \/ i \in 1 .. Len(stream) /\ stream[i].is_end_of_mapping
               \/ end /\ i = Len(stream')
    <3>1. CASE i \in 1 .. Len(stream)
      BY <2>1, <2>8, <3>1
    <3>2. CASE i = Len(stream) + 1
      BY <2>1, <2>2, <2>8, <3>2
    <3> QED
      BY <1>2, <2>1, <3>1, <3>2
  <2> QED
    BY <1>5, <2>1, <2>3, <2>4, <2>7, <2>8
<1>6. CASE dropped' = dropped \cup Elems(pages) /\ UNCHANGED stream
  BY <1>1, <1>3, <1>6 DEF EveryPageAccounted
<1> QED
  BY <1>4, <1>5, <1>6 DEF SendBatch

(***************************************************************************)
(* What every path through flush_accumulated_pages leaves behind: an empty *)
(* batch, no reference, and the passed pages shared out between the stream *)
(* and the lost ones.                                                      *)
(***************************************************************************)
LEMMA FlushEffect ==
  ASSUME IInv, NEW end \in BOOLEAN, SendBatch(end), pages' = <<>>,
         page_refs' = PutPages(page_refs, pages), table' = table
  PROVE  /\ BatchIsRun'
         /\ PagesInPlace'
         /\ RefsMatchBatch'
         /\ StreamOrdered'
         /\ Elems(pages)' = {}
         /\ Delivered' \cup dropped' = {p \in Present : p < addr}
         /\ Delivered' \cap dropped' = {}
<1>1. PagesInPlace' /\ StreamOrdered' /\ Delivered' \cap dropped' = {}
  BY SendBatchEffect
<1>2. Delivered' \cup dropped' = {p \in Present : p < addr}
  <2>1. Delivered' \cup dropped' = Delivered \cup dropped \cup Elems(pages)
    BY SendBatchEffect
  <2> QED
    BY <2>1 DEF IInv, EveryPageAccounted
<1>3. Elems(pages)' = {}
  BY ElemsEmpty DEF Elems
<1>4. BatchIsRun'
  BY DEF BatchIsRun
<1>5. ASSUME NEW p \in Page PROVE page_refs'[p] = 0
  BY PutRun DEF IInv
<1>6. RefsMatchBatch'
  BY <1>3, <1>5 DEF RefsMatchBatch
<1> QED
  BY <1>1, <1>2, <1>3, <1>4, <1>6

(***************************************************************************)
(* Storing one more page into a batch whose slot exists: the page at addr  *)
(* extends the run.                                                        *)
(***************************************************************************)
LEMMA AppendEffect ==
  ASSUME IInv, AtEntry({"present"}), AppendPage,
         UNCHANGED <<table, pc, stream, dropped>>
  PROVE  /\ BatchIsRun'
         /\ RefsMatchBatch'
         /\ PagesInPlace'
         /\ EveryPageAccounted'
<1>1. TypeOK /\ BatchIsRun /\ PagesInPlace /\ EveryPageAccounted /\ RefsMatchBatch
  BY DEF IInv
<1>2. /\ addr \in Page /\ table[addr] = "present" /\ pc = "walk"
      /\ pages \in Seq(Page) /\ Len(pages) \in Nat /\ mapped_addr \in Int
      /\ addr \in Int /\ page_refs \in [Page -> Int]
  <2>1. addr \in 0 .. NPages /\ addr < NPages /\ table[addr] = "present" /\ pc = "walk"
    BY <1>1 DEF AtEntry, TypeOK
  <2>2. addr \in Page /\ addr \in Int
    BY <2>1, PageWalkAssumption DEF Page
  <2>3. pages \in Seq(Page) /\ page_refs \in [Page -> Int] /\ mapped_addr \in Int
    BY <1>1 DEF TypeOK, Page
  <2> QED
    BY <2>1, <2>2, <2>3
<1>3. pages' = Append(pages, addr) /\ addr' = addr + 1 /\ page_refs' = GetPage(page_refs, addr)
  BY DEF AppendPage
<1>4. mapped_addr' + Len(pages) = addr
  <2>1. CASE pages = <<>>
    BY <1>2, <2>1 DEF AppendPage
  <2>2. CASE pages # <<>>
    BY <1>1, <2>2 DEF AppendPage, BatchIsRun
  <2> QED
    BY <2>1, <2>2
<1>5. Elems(pages)' = Elems(pages) \cup {addr}
  BY <1>2, <1>3, ElemsAppend DEF Elems
<1>6. addr \notin Elems(pages) /\ addr \notin Delivered /\ addr \notin dropped
  BY <1>1, <1>2 DEF EveryPageAccounted
<1>7. BatchIsRun'
  <2>1. Len(pages') = Len(pages) + 1
    BY <1>2, <1>3
  <2>2. mapped_addr' \in Int
    BY <1>2 DEF AppendPage
  <2>3. ASSUME NEW k \in 1 .. Len(pages')
        PROVE  pages'[k] = mapped_addr' + k - 1 /\ table[pages'[k]] = "present"
    <3>1. CASE k = Len(pages) + 1
      BY <1>2, <1>3, <1>4, <2>2, <3>1
    <3>2. CASE k \in 1 .. Len(pages)
      <4>1. pages'[k] = pages[k] /\ mapped_addr' = mapped_addr
        BY <1>2, <1>3, <3>2 DEF AppendPage
      <4> QED
        BY <1>1, <3>2, <4>1 DEF BatchIsRun
    <3> QED
      BY <1>2, <2>1, <3>1, <3>2
  <2> QED
    BY <1>2, <1>3, <1>4, <2>1, <2>2, <2>3 DEF BatchIsRun
<1>8. RefsMatchBatch'
  <2> SUFFICES ASSUME NEW p \in Page
               PROVE  page_refs'[p] = IF p \in Elems(pages)' THEN 1 ELSE 0
    BY DEF RefsMatchBatch
  <2>1. CASE p = addr
    <3>1. page_refs[addr] = 0
      BY <1>1, <1>2, <1>6 DEF RefsMatchBatch
    <3> QED
      BY <1>2, <1>3, <1>5, <2>1, <3>1 DEF GetPage
  <2>2. CASE p # addr
    BY <1>1, <1>2, <1>3, <1>5, <2>2 DEF RefsMatchBatch, GetPage
  <2> QED
    BY <2>1, <2>2
<1>9. PagesInPlace'
  BY <1>1 DEF PagesInPlace
<1>10. EveryPageAccounted'
  <2>1. Delivered' = Delivered /\ Present' = Present
    BY DEF Delivered, Elems, Present
  <2>2. StreamOrdered'
    BY <1>1 DEF EveryPageAccounted, StreamOrdered, Elems
  <2>3. {p \in Present : p < addr + 1} = {p \in Present : p < addr} \cup {addr}
    BY <1>2 DEF Present, Page
  <2> QED
    BY <1>1, <1>3, <1>5, <1>6, <2>1, <2>2, <2>3 DEF EveryPageAccounted
<1> QED
  BY <1>7, <1>8, <1>9, <1>10

(* The walk starts with an empty batch at offset 0. *)
LEMMA InitInvariant == Init => IInv
<1> SUFFICES ASSUME Init PROVE IInv
  OBVIOUS
<1>1. TypeOK
  BY PageWalkAssumption DEF Init, TypeOK, Page, Message
<1>2. pages = <<>> /\ stream = <<>> /\ dropped = {} /\ addr = 0 /\ pc = "walk"
  BY DEF Init
<1>3. Elems(pages) = {} /\ Delivered = {}
  BY <1>2 DEF Elems, Delivered
<1>4. ArrayHoldsBatch /\ BatchIsRun /\ PagesInPlace /\ StreamOrdered
  BY <1>2, PageWalkAssumption DEF Init, ArrayHoldsBatch, BatchIsRun, PagesInPlace, StreamOrdered
<1>5. EveryPageAccounted
  BY <1>2, <1>3, <1>4 DEF EveryPageAccounted, Present, Page
<1>6. RefsMatchBatch
  BY <1>3 DEF Init, RefsMatchBatch
<1>7. WholeMappingAtEnd
  BY <1>2 DEF WholeMappingAtEnd
<1> QED
  BY <1>1, <1>4, <1>5, <1>6, <1>7 DEF IInv

(* Each action of the walk keeps the inductive invariant. *)
LEMMA StepInvariant ==
  ASSUME IInv, [Next]_vars
  PROVE  IInv'
<1> USE PageWalkAssumption
<1>1. /\ TypeOK /\ ArrayHoldsBatch /\ BatchIsRun /\ PagesInPlace
      /\ EveryPageAccounted /\ RefsMatchBatch /\ WholeMappingAtEnd
  BY DEF IInv
<1>2. TypeOK'
  BY <1>1, TypeStep
<1>3. /\ addr \in 0 .. NPages /\ pages \in Seq(Page) /\ capacity \in Nat \ {0}
      /\ Len(pages) \in Nat /\ pc \in {"walk", "final", "done"}
  BY <1>1 DEF TypeOK
<1>4. ASSUME table' = table PROVE Present' = Present
  BY <1>4 DEF Present
<1>5. ASSUME pc = "walk", NEW i \in 1 .. Len(stream) PROVE ~stream[i].is_end_of_mapping
  BY <1>1, <1>5 DEF WholeMappingAtEnd
<1>6. ASSUME Flush, table' = table, capacity' = capacity, pc' = pc, pc = "walk",
             {p \in Present : p < addr'} = {p \in Present : p < addr}
      PROVE  IInv'
  <2>1. /\ SendBatch(FALSE) /\ pages' = <<>> /\ page_refs' = PutPages(page_refs, pages)
    BY <1>6 DEF Flush
  <2>2. /\ BatchIsRun' /\ PagesInPlace' /\ RefsMatchBatch' /\ StreamOrdered'
        /\ Elems(pages)' = {} /\ Delivered' \cap dropped' = {}
        /\ Delivered' \cup dropped' = {p \in Present : p < addr}
    BY <1>6, <2>1, FlushEffect
  <2>3. ArrayHoldsBatch'
    BY <1>3, <1>6, <2>1 DEF ArrayHoldsBatch
  <2>4. EveryPageAccounted'
    BY <1>4, <1>6, <2>2 DEF EveryPageAccounted
  <2>5. WholeMappingAtEnd'
    <3>1. ASSUME NEW i \in 1 .. Len(stream') PROVE ~stream'[i].is_end_of_mapping
      BY <1>5, <1>6, <2>1, SendBatchEffect
    <3> QED
      BY <1>6, <3>1 DEF WholeMappingAtEnd
  <2> QED
    BY <1>2, <2>2, <2>3, <2>4, <2>5 DEF IInv
<1>7. ASSUME AtEntry({"present"}), AppendPage, Len(pages) < capacity',
             UNCHANGED <<table, pc, stream, dropped>>
      PROVE  IInv'
  <2>1. BatchIsRun' /\ RefsMatchBatch' /\ PagesInPlace' /\ EveryPageAccounted'
    BY <1>7, AppendEffect
  <2>2. ArrayHoldsBatch'
    <3>1. Len(pages') = Len(pages) + 1
      BY <1>3, <1>7 DEF AppendPage
    <3>2. capacity' \in Nat
      BY <1>2 DEF TypeOK
    <3> QED
      BY <1>3, <1>7, <3>1, <3>2 DEF ArrayHoldsBatch
  <2>3. WholeMappingAtEnd'
    BY <1>5, <1>7 DEF AtEntry, WholeMappingAtEnd
  <2> QED
    BY <1>2, <2>1, <2>2, <2>3 DEF IInv
<1>8. CASE SkipEntry
  <2>1. table[addr] # "present" /\ pc = "walk" /\ addr' = addr + 1
    BY <1>8 DEF SkipEntry, AtEntry
  <2>2. {p \in Present : p < addr'} = {p \in Present : p < addr}
    BY <1>3, <2>1 DEF Present, Page
  <2> QED
    BY <1>6, <1>8, <2>1, <2>2 DEF SkipEntry
<1>9. CASE HandleHole
  <2>1. pc = "walk" /\ Flush /\ UNCHANGED <<table, pc, capacity>>
    BY <1>9 DEF HandleHole, AtEntry
  <2>2. PICK next \in addr + 1 .. NPages :
          (\A p \in addr .. next - 1 : table[p] = "hole") /\ addr' = next
    BY <1>9 DEF HandleHole
  <2>3. {p \in Present : p < addr'} = {p \in Present : p < addr}
    <3>1. ASSUME NEW p \in Present, p < next PROVE p < addr
      <4>1. p \in Int /\ table[p] # "hole"
        BY DEF Present, Page
      <4>2. p \notin addr .. next - 1
        BY <2>2, <4>1
      <4> QED
        BY <1>3, <2>2, <3>1, <4>1, <4>2
    <3>2. ASSUME NEW p \in Present, p < addr PROVE p < next
      BY <1>3, <2>2, <3>2 DEF Present, Page
    <3> QED
      BY <2>2, <3>1, <3>2
  <2> QED
    BY <1>6, <2>1, <2>3
<1>10. CASE CollectPage
  BY <1>7, <1>10 DEF CollectPage
<1>11. CASE GrowAndCollect
  <2>1. Len(pages) < capacity'
    BY <1>1, <1>3, <1>11 DEF GrowAndCollect, ArrayHoldsBatch
  <2> QED
    BY <1>7, <1>11, <2>1 DEF GrowAndCollect
<1>12. CASE GrowFails
  <2>1. /\ SendBatch(FALSE) /\ pages' = <<addr>> /\ mapped_addr' = addr
        /\ page_refs' = GetPage(PutPages(page_refs, pages), addr)
        /\ addr' = addr + 1 /\ table' = table /\ pc' = pc /\ capacity' = capacity
        /\ pc = "walk" /\ addr < NPages /\ table[addr] = "present"
    BY <1>12 DEF GrowFails, AtEntry
  <2>2. addr \in Page
    BY <1>3, <2>1 DEF Page
  <2>3. /\ Delivered' \cup dropped' = {p \in Present : p < addr}
        /\ Delivered' \cap dropped' = {} /\ PagesInPlace' /\ StreamOrdered'
    <3>1. Delivered' \cup dropped' = Delivered \cup dropped \cup Elems(pages)
      BY <2>1, SendBatchEffect
    <3> QED
      BY <1>1, <2>1, <3>1, SendBatchEffect DEF EveryPageAccounted
  <2>4. Elems(pages)' = {addr}
    BY <2>1 DEF Elems
  <2>5. ArrayHoldsBatch'
    BY <1>3, <2>1 DEF ArrayHoldsBatch
  <2>6. BatchIsRun'
    BY <2>1, <2>2 DEF BatchIsRun, Page
  <2>7. EveryPageAccounted'
    <3>1. {p \in Present : p < addr + 1} = {p \in Present : p < addr} \cup {addr}
      BY <2>1, <2>2 DEF Present, Page
    <3>2. addr \notin {p \in Present : p < addr}
      BY <2>2 DEF Page
    <3> QED
      BY <1>4, <2>1, <2>3, <2>4, <3>1, <3>2 DEF EveryPageAccounted
  <2>8. RefsMatchBatch'
    <3> SUFFICES ASSUME NEW p \in Page
                 PROVE  page_refs'[p] = IF p \in Elems(pages)' THEN 1 ELSE 0
      BY DEF RefsMatchBatch
    <3>1. PutPages(page_refs, pages)[p] = 0
      BY <1>1, PutRun
    <3>2. PutPages(page_refs, pages) \in [Page -> Int]
      BY <1>1, PutPagesType DEF TypeOK
    <3> QED
      BY <2>1, <2>2, <2>4, <3>1, <3>2 DEF GetPage
  <2>9. WholeMappingAtEnd'
    <3>1. ASSUME NEW i \in 1 .. Len(stream') PROVE ~stream'[i].is_end_of_mapping
      BY <1>5, <2>1, SendBatchEffect
    <3> QED
      BY <2>1, <3>1 DEF WholeMappingAtEnd
  <2> QED
    BY <1>2, <2>3, <2>5, <2>6, <2>7, <2>8, <2>9 DEF IInv
<1>13. ASSUME UNCHANGED <<table, addr, ctx, page_refs, stream, dropped>>,
              \/ pc' = pc
              \/ pc = "walk" /\ pc' = "final" /\ (memory_error \/ addr = NPages)
       PROVE  IInv'
  <2>1. ArrayHoldsBatch' /\ PagesInPlace' /\ BatchIsRun'
    BY <1>1, <1>13 DEF ArrayHoldsBatch, PagesInPlace, BatchIsRun, ctx
  <2>2. Elems(pages)' = Elems(pages) /\ Delivered' = Delivered /\ Present' = Present
    BY <1>4, <1>13 DEF Elems, Delivered, ctx
  <2>3. StreamOrdered'
    BY <1>1, <1>13 DEF EveryPageAccounted, StreamOrdered, Elems
  <2>4. EveryPageAccounted' /\ RefsMatchBatch'
    BY <1>1, <1>13, <2>2, <2>3 DEF EveryPageAccounted, RefsMatchBatch
  <2>5. WholeMappingAtEnd'
    <3>1. ASSUME NEW i \in 1 .. Len(stream'), stream'[i].is_end_of_mapping
          PROVE  pc' = "done" /\ i = Len(stream')
      BY <1>1, <1>5, <1>13, <3>1 DEF WholeMappingAtEnd
    <3>2. Elems(pages) \cup Delivered \cup dropped = {p \in Present : p < addr}
      BY <1>1 DEF EveryPageAccounted
    <3>3. addr = NPages => {p \in Present : p < addr} = Present
      BY DEF Present, Page
    <3>4. ASSUME pc' # "walk", ~memory_error'
          PROVE  addr' = NPages /\ (Elems(pages) \cup Delivered \cup dropped)' = Present'
      <4>1. addr = NPages
        BY <1>1, <1>13, <3>4 DEF WholeMappingAtEnd, ctx
      <4> QED
        BY <1>13, <2>2, <3>2, <3>3, <4>1
    <3> QED
      BY <3>1, <3>4 DEF WholeMappingAtEnd
  <2> QED
    BY <1>2, <2>1, <2>4, <2>5 DEF IInv
<1>14. CASE AbortWalk
  BY <1>13, <1>14 DEF AbortWalk, AtEntry
<1>15. CASE EndWalk
  BY <1>13, <1>15 DEF EndWalk
<1>16. CASE UNCHANGED vars
  BY <1>13, <1>16 DEF vars
<1>17. CASE FinalFlush
  <2>1. /\ SendBatch(TRUE) /\ pages' = <<>> /\ page_refs' = PutPages(page_refs, pages)
        /\ UNCHANGED <<table, addr, capacity, memory_error>>
        /\ pc = "final" /\ pc' = "done"
    BY <1>17 DEF FinalFlush
  <2>2. /\ BatchIsRun' /\ PagesInPlace' /\ RefsMatchBatch' /\ StreamOrdered'
        /\ Elems(pages)' = {} /\ Delivered' \cap dropped' = {}
        /\ Delivered' \cup dropped' = {p \in Present : p < addr}
    BY <2>1, FlushEffect
  <2>3. ArrayHoldsBatch'
    BY <1>3, <2>1 DEF ArrayHoldsBatch
  <2>4. EveryPageAccounted'
    BY <1>4, <2>1, <2>2 DEF EveryPageAccounted
  <2>5. WholeMappingAtEnd'
    <3>1. ASSUME NEW i \in 1 .. Len(stream'), stream'[i].is_end_of_mapping
          PROVE  i = Len(stream')
      BY <1>1, <2>1, <3>1, SendBatchEffect DEF WholeMappingAtEnd
    <3>2. ASSUME ~memory_error PROVE addr = NPages
      BY <1>1, <2>1, <3>2 DEF WholeMappingAtEnd
    <3>3. addr = NPages => {p \in Present : p < addr} = Present
      BY DEF Present, Page
    <3> QED
      BY <1>4, <2>1, <2>2, <3>1, <3>2, <3>3 DEF WholeMappingAtEnd
  <2> QED
    BY <1>2, <2>2, <2>3, <2>4, <2>5 DEF IInv
<1> QED
  BY <1>8, <1>9, <1>10, <1>11, <1>12, <1>14, <1>15, <1>16, <1>17 DEF Next

(***************************************************************************)
(* The inductive invariant holds in every reachable state of the walk.     *)
(***************************************************************************)
THEOREM Invariant == Spec => []IInv
  BY InitInvariant, StepInvariant, PTL DEF Spec

(***************************************************************************)
(* The unchecked store into ctx->pages is inside the array, for every      *)
(* capacity the array starts with and however often it could grow.         *)
(***************************************************************************)
THEOREM ArrayNeverOverrun == Spec => []ArrayHoldsBatch
  BY Invariant, PTL DEF IInv

(***************************************************************************)
(* What is collected is always a run of present neighbours that ends where *)
(* the walk is, for mappings of any length and any page table.             *)
(***************************************************************************)
THEOREM BatchStaysRun == Spec => []BatchIsRun
  BY Invariant, PTL DEF IInv

(***************************************************************************)
(* Each page of a message lies where the message's offset says, for        *)
(* mappings of any length and any page table.                              *)
(***************************************************************************)
THEOREM MessagesLocatePages == Spec => []PagesInPlace
  BY Invariant, PTL DEF IInv

(***************************************************************************)
(* No page the walk has passed is forgotten or sent twice.                 *)
(***************************************************************************)
THEOREM NoPageLostOrRepeated == Spec => []EveryPageAccounted
  BY Invariant, PTL DEF IInv

(* The page references are balanced on every path. *)
THEOREM ReferencesBalanced == Spec => []RefsMatchBatch
  BY Invariant, PTL DEF IInv

(***************************************************************************)
(* Unless the array could not grow, the walk ends at the end of the        *)
(* mapping, and nothing follows the message that ends it.                  *)
(***************************************************************************)
THEOREM WalkComplete == Spec => []WholeMappingAtEnd
  BY Invariant, PTL DEF IInv

-----------------------------------------------------------------------------
(***************************************************************************)
(* A batch begins where a run begins, as long as the array could grow:     *)
(* what lies before it is no page to send, and before a walk without a     *)
(* batch neither.                                                          *)
(***************************************************************************)
RunBegins ==
  /\ pages # <<>> => mapped_addr - 1 \notin Present
  /\ pages = <<>> /\ pc = "walk" => addr - 1 \notin Present

WholeRuns == ~memory_error => RunBegins /\ RunsAreMaximal

(* A batch that is flushed where a run ends is a whole run. *)
LEMMA FlushWholeRun ==
  ASSUME IInv, RunBegins, RunsAreMaximal, ~memory_error, NEW end \in BOOLEAN, SendBatch(end),
         table' = table, memory_error' = memory_error, addr \notin Present
  PROVE  RunsAreMaximal'
<1> DEFINE m == [mapped_addr |-> mapped_addr, pages |-> pages, is_end_of_mapping |-> end]
<1>1. TypeOK /\ BatchIsRun
  BY DEF IInv
<1>2. /\ Len(pages) \in Nat /\ mapped_addr \in Int /\ addr \in Int
      /\ stream \in Seq(Message) /\ m \in Message
  BY <1>1 DEF TypeOK, Page, Message
<1>3. Elems(pages) = mapped_addr .. mapped_addr + Len(pages) - 1
  BY <1>1, RunElems
<1>4. Present' = Present
  BY DEF Present
<1>5. ASSUME NEW p \in Elems(pages), NEW q \in Present, q \in {p - 1, p + 1}
      PROVE  q \in Elems(pages)
  <2>1. pages # <<>>
    BY <1>5, ElemsEmpty
  <2>2. mapped_addr + Len(pages) = addr /\ mapped_addr - 1 \notin Present
    BY <1>1, <2>1 DEF BatchIsRun, RunBegins
  <2>3. p \in Int /\ q \in Int /\ q # mapped_addr - 1 /\ q # addr
    BY <1>2, <1>3, <1>5, <2>2 DEF Present, Page
  <2> QED
    BY <1>2, <1>3, <1>5, <2>2, <2>3
<1>6. CASE stream' = stream
  BY <1>4, <1>6 DEF RunsAreMaximal, Elems
<1>7. CASE stream' = Append(stream, m)
  <2>1. SUFFICES ASSUME NEW i \in 1 .. Len(stream'), NEW p \in Elems(stream'[i].pages),
                        NEW q \in Present, q \in {p - 1, p + 1}
                 PROVE  q \in Elems(stream'[i].pages)
    BY <1>4 DEF RunsAreMaximal, Elems
  <2>2. CASE i \in 1 .. Len(stream)
    <3>1. stream'[i] = stream[i]
      BY <1>2, <1>7, <2>2
    <3> QED
      BY <2>1, <2>2, <3>1 DEF RunsAreMaximal
  <2>3. CASE i = Len(stream) + 1
    <3>1. stream'[i].pages = pages
      BY <1>2, <1>7, <2>3
    <3> QED
      BY <1>5, <2>1, <3>1
  <2> QED
    BY <1>2, <1>7, <2>2, <2>3
<1> QED
  BY <1>6, <1>7 DEF SendBatch

(* Runs are cut only where an entry without a page cuts them. *)
LEMMA StepWholeRuns ==
  ASSUME IInv, WholeRuns, [Next]_vars
  PROVE  WholeRuns'
<1>1. SUFFICES ASSUME ~memory_error' PROVE RunBegins' /\ RunsAreMaximal'
  BY DEF WholeRuns
<1>2. ~memory_error /\ RunBegins /\ RunsAreMaximal
  <2>1. memory_error' = memory_error \/ GrowFails
    BY DEF Next, SkipEntry, CollectPage, GrowAndCollect, AbortWalk,
           HandleHole, EndWalk, FinalFlush, vars, ctx
  <2>2. GrowFails => memory_error'
    BY DEF GrowFails
  <2> QED
    <3>1. ~memory_error
      BY <1>1, <2>1, <2>2, Zenon
    <3> QED
      BY <3>1 DEF WholeRuns
<1>3. addr \in Int /\ NPages \in Int /\ TypeOK /\ WholeMappingAtEnd
  BY PageWalkAssumption DEF IInv, TypeOK
<1>4. ASSUME table' = table PROVE Present' = Present
  BY <1>4 DEF Present
<1>5. ASSUME Flush, UNCHANGED <<table, memory_error>>, addr \notin Present, addr' - 1 \notin Present
      PROVE  RunBegins' /\ RunsAreMaximal'
  <2>1. SendBatch(FALSE) /\ pages' = <<>>
    BY <1>5 DEF Flush
  <2>2. RunsAreMaximal'
    BY <1>2, <1>5, <2>1, FlushWholeRun
  <2> QED
    BY <1>4, <1>5, <2>1, <2>2 DEF RunBegins
<1>6. ASSUME AppendPage, pc = "walk", UNCHANGED <<table, memory_error, stream>>
      PROVE  RunBegins' /\ RunsAreMaximal'
  <2>1. pages' # <<>>
    BY <1>3, <1>6 DEF AppendPage, TypeOK
  <2>2. mapped_addr' - 1 \notin Present
    BY <1>2, <1>6 DEF AppendPage, RunBegins
  <2> QED
    BY <1>2, <1>4, <1>6, <2>1, <2>2 DEF RunBegins, RunsAreMaximal, Elems
<1>7. ASSUME UNCHANGED <<table, pages, mapped_addr, memory_error, stream, addr>>,
             pc' = pc \/ pc' # "walk"
      PROVE  RunBegins' /\ RunsAreMaximal'
  BY <1>2, <1>4, <1>7 DEF RunBegins, RunsAreMaximal, Elems
<1>8. CASE SkipEntry
  <2>1. addr \notin Present /\ addr' = addr + 1
    BY <1>8 DEF SkipEntry, AtEntry, Present
  <2> QED
    BY <1>3, <1>5, <1>8, <2>1 DEF SkipEntry
<1>9. CASE CollectPage
  BY <1>6, <1>9 DEF CollectPage, AtEntry
<1>10. CASE GrowAndCollect
  BY <1>6, <1>10 DEF GrowAndCollect, AtEntry
<1>11. CASE GrowFails
  BY <1>1, <1>11 DEF GrowFails
<1>12. CASE AbortWalk
  BY <1>2, <1>12 DEF AbortWalk
<1>13. CASE HandleHole
  <2>1. PICK next \in addr + 1 .. NPages :
          (\A p \in addr .. next - 1 : table[p] = "hole") /\ addr' = next
    BY <1>13 DEF HandleHole
  <2>2. addr \in addr .. next - 1 /\ next - 1 \in addr .. next - 1
    BY <1>3, <2>1
  <2>3. addr \notin Present /\ addr' - 1 \notin Present
    BY <2>1, <2>2 DEF Present
  <2> QED
    BY <1>5, <1>13, <2>3 DEF HandleHole
<1>14. CASE EndWalk
  BY <1>7, <1>14 DEF EndWalk, ctx
<1>15. CASE FinalFlush
  <2>1. addr = NPages
    BY <1>2, <1>3, <1>15 DEF FinalFlush, WholeMappingAtEnd
  <2>2. addr \notin Present
    BY <1>3, <2>1 DEF Present, Page
  <2>3. RunsAreMaximal'
    BY <1>2, <1>15, <2>2, FlushWholeRun DEF FinalFlush
  <2> QED
    BY <1>15, <2>3 DEF FinalFlush, RunBegins
<1>16. CASE UNCHANGED vars
  BY <1>7, <1>16 DEF vars, ctx
<1> QED
  BY <1>8, <1>9, <1>10, <1>11, <1>12, <1>13, <1>14, <1>15, <1>16 DEF Next

(***************************************************************************)
(* A mapping without gaps leaves in one message, for mappings of any       *)
(* length, unless the array could not grow.                                *)
(***************************************************************************)
THEOREM RunsLeaveWhole == Spec => []RunsAreMaximal
<1>1. Init => WholeRuns
  <2>1. SUFFICES ASSUME Init PROVE RunBegins /\ RunsAreMaximal
    BY DEF WholeRuns
  <2>2. addr - 1 \notin Present
    BY <2>1 DEF Init, Present, Page
  <2> QED
    BY <2>1, <2>2 DEF Init, RunBegins, RunsAreMaximal
<1>2. IInv /\ WholeRuns /\ [Next]_vars => WholeRuns'
  BY StepWholeRuns
<1>3. WholeRuns => RunsAreMaximal
  BY DEF WholeRuns, RunsAreMaximal
<1> QED
  BY <1>1, <1>2, <1>3, Invariant, PTL DEF Spec

-----------------------------------------------------------------------------
(* The batch lies above every page that was handled before it. *)
LEMMA BatchIsNextRun ==
  ASSUME IInv
  PROVE  Copy!IsNextRun(Elems(pages))
<1>1. TypeOK /\ BatchIsRun /\ EveryPageAccounted
  BY DEF IInv
<1>2. Len(pages) \in Nat /\ mapped_addr \in Int /\ addr \in Int
  BY <1>1 DEF TypeOK, Page
<1>3. Elems(pages) = mapped_addr .. mapped_addr + Len(pages) - 1
  BY <1>1, RunElems
<1>4. Elems(pages) \subseteq Present
  BY <1>1 DEF BatchIsRun, Elems, Present, TypeOK
<1>5. ASSUME NEW p \in Delivered \cup dropped, NEW q \in Elems(pages)
      PROVE  p < q
  <2>1. p \in Page /\ p < addr /\ p \notin Elems(pages)
    BY <1>1 DEF EveryPageAccounted, Present
  <2>2. pages # <<>>
    BY <1>5, ElemsEmpty
  <2>3. mapped_addr + Len(pages) = addr
    BY <1>1, <2>2 DEF BatchIsRun
  <2> QED
    BY <1>2, <1>3, <1>5, <2>1, <2>3 DEF Page
<1>6. ASSUME NEW p \in Elems(pages), NEW q \in Elems(pages)
      PROVE  p .. q \subseteq Elems(pages)
  BY <1>2, <1>3, <1>6
<1> QED
  BY <1>4, <1>5, <1>6 DEF Copy!IsNextRun

(***************************************************************************)
(* flush_accumulated_pages ships the batch or loses it.                    *)
(***************************************************************************)
LEMMA SendBatchRefines ==
  ASSUME IInv, NEW end \in BOOLEAN, SendBatch(end)
  PROVE  Copy!Ship(Elems(pages)) \/ Copy!Lose(Elems(pages))
<1> DEFINE m == [mapped_addr |-> mapped_addr, pages |-> pages, is_end_of_mapping |-> end]
<1>1. Copy!IsNextRun(Elems(pages))
  BY BatchIsNextRun
<1>2. ASSUME stream' = stream PROVE Delivered' = Delivered
  BY <1>2 DEF Delivered, Elems
<1>3. CASE pages = <<>> /\ UNCHANGED <<stream, dropped>>
  <2>1. Elems(pages) = {}
    BY <1>3, ElemsEmpty
  <2> QED
    BY <1>1, <1>2, <1>3, <2>1 DEF Copy!Ship
<1>4. CASE stream' = Append(stream, m) /\ UNCHANGED dropped
  <2>1. stream \in Seq(Message) /\ m \in Message /\ m.pages = pages
    BY DEF IInv, TypeOK, Message
  <2>2. Delivered' = Delivered \cup Elems(pages)
    BY <1>4, <2>1, DeliveredAppend
  <2> QED
    BY <1>1, <1>4, <2>2 DEF Copy!Ship
<1>5. CASE dropped' = dropped \cup Elems(pages) /\ UNCHANGED stream
  BY <1>1, <1>2, <1>5 DEF Copy!Lose
<1> QED
  BY <1>3, <1>4, <1>5 DEF SendBatch

(* Each action of the walk is a step of SparseCopy or leaves it as it is. *)
LEMMA StepRefines ==
  ASSUME IInv, [Next]_vars
  PROVE  [Copy!Next]_(Copy!vars)
<1>1. TypeOK /\ BatchIsRun /\ EveryPageAccounted /\ WholeMappingAtEnd
  BY DEF IInv
<1>2. Elems(pages) \in SUBSET Present
  BY BatchIsNextRun DEF Copy!IsNextRun
<1>3. ASSUME SendBatch(FALSE), table' = table, pc' = pc, pc = "walk",
             memory_error' \in {memory_error, TRUE}
      PROVE  Copy!Next
  <2>1. Copy!Ship(Elems(pages)) \/ Copy!Lose(Elems(pages))
    BY <1>3, SendBatchRefines
  <2>2. Present' = Present
    BY <1>3 DEF Present
  <2>3. Copy!HandleRun(Elems(pages))
    BY <1>3, <2>1, <2>2 DEF Copy!HandleRun
  <2> QED
    BY <1>2, <2>3 DEF Copy!Next
<1>4. ASSUME UNCHANGED <<table, stream, dropped, memory_error>>,
             (pc' = "done") = (pc = "done")
      PROVE  UNCHANGED Copy!vars
  <2>1. Present' = Present /\ Delivered' = Delivered
    BY <1>4 DEF Present, Delivered, Elems
  <2> QED
    BY <1>4, <2>1 DEF Copy!vars
<1>5. CASE SkipEntry
  BY <1>3, <1>5 DEF SkipEntry, Flush, AtEntry
<1>6. CASE HandleHole
  BY <1>3, <1>6 DEF HandleHole, Flush, AtEntry
<1>7. CASE GrowFails
  BY <1>3, <1>7 DEF GrowFails, AtEntry
<1>8. CASE CollectPage
  BY <1>4, <1>8 DEF CollectPage
<1>9. CASE GrowAndCollect
  BY <1>4, <1>9 DEF GrowAndCollect
<1>10. CASE AbortWalk
  BY <1>4, <1>10 DEF AbortWalk, AtEntry, ctx
<1>11. CASE EndWalk
  BY <1>4, <1>11 DEF EndWalk, ctx
<1>12. CASE UNCHANGED vars
  BY <1>4, <1>12 DEF vars, ctx
<1>13. CASE FinalFlush
  <2>1. /\ SendBatch(TRUE) /\ table' = table /\ memory_error' = memory_error
        /\ pc = "final" /\ pc' = "done"
    BY <1>13 DEF FinalFlush
  <2>2. Copy!Ship(Elems(pages)) \/ Copy!Lose(Elems(pages))
    BY <2>1, SendBatchRefines
  <2>3. Present' = Present
    BY <2>1 DEF Present
  <2>4. ~memory_error => Elems(pages) \cup Delivered \cup dropped = Present
    BY <1>1, <2>1 DEF WholeMappingAtEnd
  <2>5. memory_error \/ Delivered' \cup dropped' = Present
    BY <2>2, <2>4 DEF Copy!Ship, Copy!Lose
  <2>6. Copy!Close(Elems(pages))
    BY <2>1, <2>2, <2>3, <2>5 DEF Copy!Close
  <2> QED
    BY <1>2, <2>6 DEF Copy!Next
<1> QED
  BY <1>5, <1>6, <1>7, <1>8, <1>9, <1>10, <1>11, <1>12, <1>13 DEF Next

(***************************************************************************)
(* The walk implements SparseCopy: whatever the page table and whichever   *)
(* allocations fail, the pages leave in order, in runs, at most once, and  *)
(* none is missing at the end unless the caller is told.                   *)
(***************************************************************************)
THEOREM WalkImplementsCopy == Spec => CopySpec
<1>1. Init => Copy!Init
  BY DEF Init, Copy!Init, Delivered
<1>2. IInv /\ [Next]_vars => [Copy!Next]_(Copy!vars)
  BY StepRefines
<1> QED
  BY <1>1, <1>2, Invariant, PTL DEF Spec, CopySpec, Copy!Spec
=============================================================================
