----------------------------- MODULE UartProofs -----------------------------
(*****************************************************************************)
(* The receive rings of both boards.                                         *)
(*                                                                           *)
(* The MicroBlaze console input, for every ring size, FIFO depth and number  *)
(* of characters: no lost wake-up, key events in line order, and the racy    *)
(* reader implements the FIFO that skips only on overrun.                    *)
(*                                                                           *)
(* The race moves rx0_head back to a slot the handler has already given up,  *)
(* so no invariant about the unread slots alone is inductive.  RingIsHistory *)
(* says what every slot holds, unread or not: the newest XUART_RX_BUFFER     *)
(* characters in ring order.  A stale head is then harmless: the slots after *)
(* it hold characters younger than the one just read (ReadAhead).            *)
(*****************************************************************************)
EXTENDS XUart, AvrUart, TLAPS

(* How many characters the handler has stored since it last wrote slot s. *)
Back(s) == IF rx0_tail > s THEN rx0_tail - s - 1
                           ELSE rx0_tail + XUART_RX_BUFFER - s - 1

(* Every slot holds the character stored when the handler last wrote it. *)
RingIsHistory ==
  \A s \in Slots : rx0_ring[s].num = IF Back(s) < stored THEN stored - Back(s) ELSE 0

(* What the ring still counts as unread is younger than the last one read. *)
ReadAhead == lastRead + Count <= stored

(* The read proceeds only with a character in the ring, as the handler takes *)
(* none away for good; an unfinished test of an empty ring has seen its      *)
(* indices equal.                                                            *)
ReadHasChar ==
  /\ pc = "check" /\ rx0_head = rx0_tail => chk.val = rx0_head
  /\ pc \in {"load", "slot", "store"} => rx0_head # rx0_tail

(* The slot being read, and the character read from it, are new; undisturbed *)
(* they are the oldest unread.                                               *)
ReadIsNew ==
  /\ pc = "slot" => lastRead < rx0_ring[head].num
  /\ pc = "store" => lastRead < c.num /\ c.num <= rx0_ring[head].num
  /\ pc \in {"slot", "store"} /\ ~overran => head = rx0_head
  /\ pc = "store" /\ ~overran => c.num = rx0_ring[head].num

RingInv == RingIsHistory /\ ReadAhead /\ ReadHasChar /\ ReadIsNew

(* The handler runs only while the FIFO has a character for it. *)
IsrHasChar == isr => rxfifo # <<>>

PublishedUpTo == \A i \in DOMAIN published : published[i] <= lastRead

TypeInv == TypeOK /\ FifoHasWakeup /\ IsrHasChar

IInv == TypeInv /\ RingInv /\ PublishedUpTo /\ PublishedInOrder

-----------------------------------------------------------------------------
(* The wrap of an index stays in the ring. *)
LEMMA SuccType == \A i \in Slots : Succ(i) \in Slots
  BY RingAssumption DEF Slots, Succ

(* The count of unread characters: at most one less than the slots, zero for *)
(* equal indices, and one more than the age of the oldest.                   *)
LEMMA CountFacts ==
  ASSUME rx0_head \in Slots, rx0_tail \in Slots
  PROVE  /\ Count \in 0..(XUART_RX_BUFFER - 1)
         /\ (Count = 0) <=> (rx0_head = rx0_tail)
         /\ (Count = XUART_RX_BUFFER - 1) <=> (Succ(rx0_tail) = rx0_head)
         /\ rx0_head # rx0_tail => Count = Back(rx0_head) + 1
         /\ \A s \in Slots : Back(s) \in 0..(XUART_RX_BUFFER - 1)
  BY RingAssumption DEF Slots, Succ, Count, Back

(* A stored character makes every other slot one older. *)
LEMMA IrqCount ==
  ASSUME TypeOK, onxUart0_irq
  PROVE  /\ rx0_head' \in Slots /\ rx0_tail' \in Slots /\ rx0_head' # rx0_tail'
         /\ Count' = IF Count = XUART_RX_BUFFER - 1 THEN Count ELSE Count + 1
         /\ \A s \in Slots : Back(s)' = IF s = rx0_tail THEN 0 ELSE Back(s) + 1
<1>1. rx0_head \in Slots /\ rx0_tail \in Slots /\ rx0_tail' = Succ(rx0_tail)
      /\ rx0_head' = IF Succ(rx0_tail) = rx0_head THEN Succ(rx0_head) ELSE rx0_head
  BY DEF TypeOK, onxUart0_irq
<1>2. rx0_head' \in Slots /\ rx0_tail' \in Slots
  BY <1>1, SuccType
<1>3. rx0_head' # rx0_tail'
  BY <1>1, RingAssumption DEF Slots, Succ
<1>4. Count' = IF Count = XUART_RX_BUFFER - 1 THEN Count ELSE Count + 1
  BY <1>1, RingAssumption DEF Slots, Succ, Count
<1>5. \A s \in Slots : Back(s)' = IF s = rx0_tail THEN 0 ELSE Back(s) + 1
  BY <1>1, RingAssumption DEF Slots, Succ, Back
<1> QED
  BY <1>2, <1>3, <1>4, <1>5

(* The head stored after a read: the unread slots are those after the slot read. *)
LEMMA StoreCount ==
  ASSUME TypeOK, ReadStore
  PROVE  /\ rx0_head' \in Slots
         /\ Count' = Back(head)
         /\ \A s : Back(s)' = Back(s)
<1>1. head \in Slots /\ rx0_tail \in Slots /\ rx0_tail' = rx0_tail
      /\ rx0_head' = Succ(head)
  BY DEF TypeOK, ReadStore
<1>2. Count' = Back(head)
  BY <1>1, RingAssumption DEF Slots, Succ, Count, Back
<1> QED
  BY <1>1, <1>2, SuccType DEF Back

-----------------------------------------------------------------------------
LEMMA InitIInv == Init => IInv
<1> SUFFICES ASSUME Init PROVE IInv
  OBVIOUS
<1>1. TypeOK
  <2>1. rx0_head \in Slots /\ rx0_tail \in Slots /\ head \in Slots
    BY RingAssumption DEF Init, Slots
  <2>2. rx0_ring \in [Slots -> Chars] /\ c \in Chars
    BY DEF Init, Chars, Kinds, NoChar
  <2>3. published \in Seq(Nat) /\ rxfifo \in Seq(Kinds) /\ Len(rxfifo) <= FifoDepth
    BY FifoAssumption DEF Init
  <2>4. pending \in BOOLEAN /\ isr \in BOOLEAN /\ overran \in BOOLEAN
    BY Zenon DEF Init
  <2>5. chk \in [var : {"head", "tail"}, val : Slots]
    BY RingAssumption DEF Init, Slots
  <2> QED
    BY <2>1, <2>2, <2>3, <2>4, <2>5 DEF Init, TypeOK
<1>2. RingIsHistory
  <2>1. \A s \in Slots : Back(s) \in Nat
    BY <1>1, CountFacts, RingAssumption DEF TypeOK
  <2> QED
    BY <2>1 DEF Init, RingIsHistory, NoChar
<1>3. ReadAhead /\ ReadHasChar /\ ReadIsNew
  BY DEF Init, ReadAhead, ReadHasChar, ReadIsNew, Count
<1>4. FifoHasWakeup /\ IsrHasChar /\ PublishedUpTo /\ PublishedInOrder
  BY DEF Init, FifoHasWakeup, IsrHasChar, PublishedUpTo, PublishedInOrder
<1> QED
  BY <1>1, <1>2, <1>3, <1>4 DEF IInv, TypeInv, RingInv

(* Types and the wake-up: the hardware, the controller and the handler. *)
LEMMA InterruptType ==
  ASSUME TypeInv, (\E kind \in Kinds : Receive(kind)) \/ interrupt
  PROVE  TypeInv'
<1> USE DEF TypeInv, TypeOK, FifoHasWakeup, IsrHasChar
<1>1. ASSUME NEW kind \in Kinds, Receive(kind) PROVE TypeInv'
  <2>1. rxfifo' \in Seq(Kinds) /\ Len(rxfifo') <= FifoDepth
    <3>1. CASE Len(rxfifo) = FifoDepth
      BY <1>1, <3>1 DEF Receive
    <3>2. CASE Len(rxfifo) # FifoDepth
      BY <1>1, <3>2, FifoAssumption DEF Receive
    <3> QED
      BY <3>1, <3>2
  <2>2. pending' \in BOOLEAN /\ (pending => pending') /\ (rxfifo = <<>> => pending')
    BY <1>1, Zenon DEF Receive
  <2>3. isr' = isr /\ (isr => rxfifo' # <<>>)
    <3>1. rxfifo' = rxfifo \/ rxfifo' = Append(rxfifo, kind)
      BY <1>1, Zenon DEF Receive
    <3>2. Append(rxfifo, kind) # <<>>
      OBVIOUS
    <3> QED
      BY <1>1, <3>1, <3>2, Zenon DEF Receive
  <2>4. line' \in Nat /\ UNCHANGED <<ring, isr, locals, stored, overran, hist>>
    BY <1>1 DEF Receive
  <2> QED
    BY <2>1, <2>2, <2>3, <2>4 DEF ring, locals, hist
<1>2. CASE TakeIrq
  <2>1. pending' \in BOOLEAN /\ isr' \in BOOLEAN /\ (rxfifo # <<>> => isr') /\ (isr' => rxfifo # <<>>)
    BY <1>2, Zenon DEF TakeIrq
  <2> QED
    BY <1>2, <2>1 DEF TakeIrq, ring, locals, hist
<1>3. CASE onxUart0_irq
  <2>1. rxfifo # <<>>
    BY <1>3 DEF onxUart0_irq
  <2>2. Head(rxfifo) \in Kinds /\ Tail(rxfifo) \in Seq(Kinds) /\ Len(Tail(rxfifo)) <= FifoDepth
    BY <2>1, FifoAssumption
  <2>3. [num |-> stored + 1, kind |-> Head(rxfifo)] \in Chars
    BY <2>2 DEF Chars
  <2>4. rx0_ring' \in [Slots -> Chars]
    BY <1>3, <2>3 DEF onxUart0_irq
  <2>5. rxfifo' \in Seq(Kinds) /\ Len(rxfifo') <= FifoDepth
    BY <1>3, <2>2 DEF onxUart0_irq
  <2>6. isr' \in BOOLEAN /\ overran' \in BOOLEAN /\ (isr' <=> rxfifo' # <<>>)
    BY <1>3, Zenon DEF onxUart0_irq
  <2>7. rx0_head' \in Slots /\ rx0_tail' \in Slots
    BY <1>3, IrqCount
  <2>8. stored' \in Nat /\ UNCHANGED <<pending, locals, line, hist>>
    BY <1>3 DEF onxUart0_irq
  <2> QED
    BY <2>4, <2>5, <2>6, <2>7, <2>8 DEF locals, hist
<1> QED
  BY <1>1, <1>2, <1>3 DEF interrupt

(* Types: the steps of the reader. *)
LEMMA ServiceType ==
  ASSUME TypeInv, service
  PROVE  TypeInv'
<1> USE DEF TypeInv, TypeOK, FifoHasWakeup, IsrHasChar, Main, ring, hist
<1>1. CASE ReadFirst
  <2>1. chk' \in [var : {"head", "tail"}, val : Slots]
    BY <1>1 DEF ReadFirst, Index
  <2> QED
    BY <1>1, <2>1 DEF ReadFirst
<1>2. CASE ReadCompare
  BY <1>2 DEF ReadCompare
<1>3. CASE ReadHead
  BY <1>3 DEF ReadHead
<1>4. CASE ReadSlot
  BY <1>4 DEF ReadSlot
<1>5. CASE ReadStore
  <2>1. lastRead' \in Nat /\ published' \in Seq(Nat)
    BY <1>5 DEF ReadStore, Chars
  <2>2. rx0_head' \in Slots
    BY <1>5, SuccType DEF ReadStore
  <2> QED
    BY <1>5, <2>1, <2>2 DEF ReadStore
<1> QED
  BY <1>1, <1>2, <1>3, <1>4, <1>5 DEF service

-----------------------------------------------------------------------------
(* The handler keeps the ring's history; it disturbs a read only by overran. *)
LEMMA IrqRing ==
  ASSUME TypeInv, RingInv, onxUart0_irq
  PROVE  RingInv'
<1>0. /\ rx0_ring \in [Slots -> Chars] /\ rx0_head \in Slots /\ rx0_tail \in Slots
      /\ head \in Slots /\ stored \in Nat /\ lastRead \in Nat /\ overran \in BOOLEAN
      /\ c \in Chars
  BY DEF TypeInv, TypeOK
<1>1. /\ rx0_ring' = [rx0_ring EXCEPT ![rx0_tail] =
                                    [num |-> stored + 1, kind |-> Head(rxfifo)]]
      /\ stored' = stored + 1
      /\ UNCHANGED <<pc, chk, head, c, lastRead>>
      /\ rx0_head' = IF Succ(rx0_tail) = rx0_head THEN Succ(rx0_head) ELSE rx0_head
  BY DEF onxUart0_irq, locals, hist
<1>2. \A s \in Slots : rx0_ring'[s].num = IF s = rx0_tail THEN stored + 1 ELSE rx0_ring[s].num
  BY <1>0, <1>1
<1>3. /\ rx0_head' # rx0_tail'
      /\ Count' = IF Count = XUART_RX_BUFFER - 1 THEN Count ELSE Count + 1
      /\ \A s \in Slots : Back(s)' = IF s = rx0_tail THEN 0 ELSE Back(s) + 1
  BY IrqCount DEF TypeInv
<1>4. /\ Count \in 0..(XUART_RX_BUFFER - 1)
      /\ (Count = XUART_RX_BUFFER - 1) <=> (Succ(rx0_tail) = rx0_head)
      /\ \A s \in Slots : Back(s) \in 0..(XUART_RX_BUFFER - 1)
  BY <1>0, CountFacts
<1>5. RingIsHistory'
  <2> SUFFICES ASSUME NEW s \in Slots
               PROVE  rx0_ring'[s].num = IF Back(s)' < stored' THEN stored' - Back(s)' ELSE 0
    BY DEF RingIsHistory
  <2>1. rx0_ring[s].num = IF Back(s) < stored THEN stored - Back(s) ELSE 0
    BY DEF RingInv, RingIsHistory
  <2> QED
    BY <1>0, <1>1, <1>2, <1>3, <1>4, <2>1, RingAssumption
<1>6. ReadAhead'
  BY <1>0, <1>1, <1>3, <1>4, RingAssumption DEF RingInv, ReadAhead
<1>7. ReadHasChar'
  BY <1>1, <1>3 DEF RingInv, ReadHasChar
<1>8. ReadIsNew'
  <2>1. lastRead <= stored
    BY <1>0, <1>4 DEF RingInv, ReadAhead
  <2>2. \A s \in Slots : rx0_ring[s].num \in Nat /\ rx0_ring[s].num <= stored
    BY <1>0, <1>4, RingAssumption DEF RingInv, RingIsHistory, Chars
  <2>3. \A s \in Slots : rx0_ring[s].num <= rx0_ring'[s].num
    BY <1>0, <1>2, <2>2
  <2>4. ~overran' => ~overran /\ Succ(rx0_tail) # rx0_head
    BY Zenon DEF onxUart0_irq
  <2>5. pc \in {"slot", "store"} => rx0_head # rx0_tail
    BY DEF RingInv, ReadHasChar
  <2>6. c.num \in Nat
    BY <1>0 DEF Chars
  <2>7. (pc = "slot" => lastRead < rx0_ring'[head].num)
        /\ (pc = "store" => lastRead < c.num /\ c.num <= rx0_ring'[head].num)
    BY <1>0, <1>2, <2>1, <2>2, <2>3, <2>6 DEF RingInv, ReadIsNew
  <2>8. /\ pc \in {"slot", "store"} /\ ~overran' => head = rx0_head'
        /\ pc = "store" /\ ~overran' => c.num = rx0_ring'[head].num
    BY <1>0, <1>1, <1>2, <2>4, <2>5 DEF RingInv, ReadIsNew
  <2> QED
    BY <1>1, <2>7, <2>8 DEF ReadIsNew
<1> QED
  BY <1>5, <1>6, <1>7, <1>8 DEF RingInv

(* The reader's steps before its store, and the hardware, leave the ring alone. *)
LEMMA QuietRing ==
  ASSUME TypeInv, RingInv,
         \/ UNCHANGED <<ring, locals, stored, overran, hist>>
         \/ ReadFirst \/ ReadCompare \/ ReadHead \/ ReadSlot
  PROVE  RingInv'
<1>1. UNCHANGED <<ring, stored, lastRead>>
  BY DEF ReadFirst, ReadCompare, ReadHead, ReadSlot, hist
<1>2. Count' = Count /\ \A s : Back(s)' = Back(s)
  BY <1>1 DEF Count, Back, ring
<1>3. RingIsHistory' /\ ReadAhead'
  BY <1>1, <1>2 DEF RingInv, RingIsHistory, ReadAhead, ring
<1>4. ReadHasChar'
  <2> USE <1>1 DEF RingInv, ReadHasChar, Main, ring, locals
  <2>1. CASE UNCHANGED <<ring, locals, stored, overran, hist>>
    BY <2>1
  <2>2. CASE ReadFirst
    BY <2>2 DEF ReadFirst, Index
  <2>3. CASE ReadCompare
    <3>1. chk \in [var : {"head", "tail"}, val : Slots]
      BY DEF TypeInv, TypeOK
    <3> QED
      BY <2>3, <3>1 DEF ReadCompare, Index
  <2>4. CASE ReadHead \/ ReadSlot
    BY <2>4 DEF ReadHead, ReadSlot
  <2> QED
    BY <2>1, <2>2, <2>3, <2>4
<1>5. ReadIsNew'
  <2> USE <1>1 DEF RingInv, ReadIsNew, Main, ring, locals
  <2>1. CASE UNCHANGED <<ring, locals, stored, overran, hist>>
    BY <2>1
  <2>2. CASE ReadFirst \/ ReadCompare
    BY <2>2 DEF ReadFirst, ReadCompare
  <2>3. CASE ReadHead
    <3>1. rx0_head # rx0_tail /\ rx0_head \in Slots /\ stored \in Nat /\ lastRead \in Nat
      BY <2>3 DEF ReadHead, ReadHasChar, TypeInv, TypeOK
    <3>2. Count = Back(rx0_head) + 1 /\ Back(rx0_head) \in Nat
      BY <3>1, CountFacts, RingAssumption DEF TypeInv, TypeOK
    <3>3. lastRead < rx0_ring[rx0_head].num
      BY <3>1, <3>2 DEF ReadAhead, RingIsHistory
    <3> QED
      BY <2>3, <3>3 DEF ReadHead
  <2>4. CASE ReadSlot
    <3>1. rx0_ring[head].num \in Nat
      BY DEF TypeInv, TypeOK, Chars
    <3> QED
      BY <2>4, <3>1 DEF ReadSlot
  <2> QED
    BY <2>1, <2>2, <2>3, <2>4
<1> QED
  BY <1>3, <1>4, <1>5 DEF RingInv

(* The store publishes a character younger than the last one and older than *)
(* every one the ring then counts as unread.                                *)
LEMMA StoreRing ==
  ASSUME TypeInv, RingInv, ReadStore
  PROVE  /\ RingInv'
         /\ lastRead < c.num /\ lastRead' = c.num
         /\ c.num <= stored - Count'
         /\ ~overran => c.num = stored - Count + 1 /\ Count' = Count - 1 /\ Count > 0
<1>0. /\ rx0_ring \in [Slots -> Chars] /\ rx0_head \in Slots /\ rx0_tail \in Slots
      /\ head \in Slots /\ stored \in Nat /\ lastRead \in Nat /\ c \in Chars
      /\ c.num \in Nat
  BY DEF TypeInv, TypeOK, Chars
<1>1. /\ pc = "store" /\ pc' = "idle" /\ lastRead' = c.num /\ overran' = FALSE
      /\ UNCHANGED <<rx0_tail, rx0_ring, stored>>
  BY DEF ReadStore, Main
<1>2. Count' = Back(head) /\ \A s : Back(s)' = Back(s)
  BY StoreCount DEF TypeInv
<1>3. /\ \A s \in Slots : Back(s) \in Nat
      /\ Count \in Nat /\ (rx0_head # rx0_tail => Count = Back(rx0_head) + 1)
  BY <1>0, CountFacts, RingAssumption
<1>4. lastRead < c.num /\ c.num <= rx0_ring[head].num
  BY <1>1 DEF RingInv, ReadIsNew
<1>5. Back(head) < stored /\ rx0_ring[head].num = stored - Back(head)
  BY <1>0, <1>3, <1>4 DEF RingInv, RingIsHistory
<1>6. c.num <= stored - Count'
  BY <1>0, <1>2, <1>3, <1>4, <1>5
<1>7. ~overran => c.num = stored - Count + 1 /\ Count' = Count - 1 /\ Count > 0
  BY <1>0, <1>1, <1>2, <1>3, <1>5 DEF RingInv, ReadIsNew, ReadHasChar
<1>8. RingInv'
  <2>1. RingIsHistory'
    BY <1>1, <1>2 DEF RingInv, RingIsHistory
  <2>2. ReadAhead'
    BY <1>0, <1>1, <1>2, <1>3, <1>6 DEF ReadAhead
  <2> QED
    BY <1>1, <2>1, <2>2 DEF RingInv, ReadHasChar, ReadIsNew
<1> QED
  BY <1>1, <1>4, <1>6, <1>7, <1>8

(* What is published extends what was by a younger character, if at all. *)
LEMMA StorePublished ==
  ASSUME TypeInv, RingInv, PublishedUpTo, PublishedInOrder, ReadStore
  PROVE  PublishedUpTo' /\ PublishedInOrder'
<1>0. published \in Seq(Nat) /\ lastRead \in Nat /\ c.num \in Nat
  BY DEF TypeInv, TypeOK, Chars
<1>1. lastRead < c.num /\ lastRead' = c.num
  BY StoreRing
<1>2. published' = IF c.kind = "key" THEN Append(published, c.num) ELSE published
  BY DEF ReadStore
<1>3. DOMAIN published = 1..Len(published) /\ Len(published) \in Nat
      /\ \A i \in 1..Len(published) : published[i] \in Nat
  BY <1>0
<1>4. CASE published' = published
  BY <1>0, <1>1, <1>3, <1>4 DEF PublishedUpTo, PublishedInOrder
<1>5. CASE published' = Append(published, c.num)
  <2>1. DOMAIN published' = 1..(Len(published) + 1)
        /\ published'[Len(published) + 1] = c.num
        /\ \A i \in 1..Len(published) : published'[i] = published[i]
    BY <1>0, <1>5
  <2>2. PublishedUpTo'
    BY <1>0, <1>1, <1>3, <2>1 DEF PublishedUpTo
  <2>3. PublishedInOrder'
    <3> SUFFICES ASSUME NEW i \in 1..(Len(published) + 1), NEW j \in 1..(Len(published) + 1),
                        i < j
                 PROVE  published'[i] < published'[j]
      BY <2>1 DEF PublishedInOrder
    <3>1. CASE j = Len(published) + 1
      BY <1>0, <1>1, <1>3, <2>1, <3>1 DEF PublishedUpTo
    <3>2. CASE j # Len(published) + 1
      BY <1>3, <2>1, <3>2 DEF PublishedInOrder
    <3> QED
      BY <3>1, <3>2
  <2> QED
    BY <2>2, <2>3
<1> QED
  BY <1>2, <1>4, <1>5

LEMMA NextIInv == IInv /\ [Next]_vars => IInv'
<1> SUFFICES ASSUME IInv, [Next]_vars PROVE IInv'
  OBVIOUS
<1>1. CASE onxUart0_irq
  <2>1. UNCHANGED <<published, lastRead>>
    BY <1>1 DEF onxUart0_irq, hist
  <2> QED
    BY <1>1, <2>1, InterruptType, IrqRing
    DEF IInv, interrupt, PublishedUpTo, PublishedInOrder
<1>2. CASE ReadStore
  BY <1>2, ServiceType, StoreRing, StorePublished DEF IInv, service
<1>3. CASE (\E kind \in Kinds : Receive(kind)) \/ TakeIrq \/ UNCHANGED vars
  <2>1. UNCHANGED <<ring, locals, stored, overran, hist>>
    BY <1>3 DEF Receive, TakeIrq, vars
  <2>2. TypeInv'
    <3>1. CASE UNCHANGED vars
      BY <3>1 DEF IInv, TypeInv, TypeOK, FifoHasWakeup, IsrHasChar, vars, ring, locals, hist
    <3> QED
      BY <1>3, <3>1, InterruptType DEF IInv, interrupt
  <2> QED
    BY <2>1, <2>2, QuietRing DEF IInv, hist, PublishedUpTo, PublishedInOrder
<1>4. CASE ReadFirst \/ ReadCompare \/ ReadHead \/ ReadSlot
  <2>1. UNCHANGED <<lastRead, published>>
    BY <1>4 DEF ReadFirst, ReadCompare, ReadHead, ReadSlot, hist
  <2> QED
    BY <1>4, <2>1, ServiceType, QuietRing
    DEF IInv, service, PublishedUpTo, PublishedInOrder
<1> QED
  BY <1>1, <1>2, <1>3, <1>4 DEF Next, interrupt, service

(* onxUart0_irq and the edge-triggered UARTLite: indices stay in the ring, and *)
(* a character in the hardware FIFO never waits for the next one.              *)
THEOREM WakeupHolds == Spec => []WakeupInv
<1>1. IInv => WakeupInv
  BY DEF IInv, TypeInv, WakeupInv
<1> QED
  BY InitIInv, NextIInv, <1>1, PTL DEF Spec

(* _xuartlite_read races with onxUart0_irq, which may move rx0_head under it: *)
(* still no key event repeats or overtakes another.                           *)
THEOREM KeysInOrder == Spec => []PublishedInOrder
<1>1. IInv => PublishedInOrder
  BY DEF IInv
<1> QED
  BY InitIInv, NextIInv, <1>1, PTL DEF Spec

-----------------------------------------------------------------------------
(* A step of the handler or the reader is a step of the FIFO or none. *)
LEMMA StepSimulation == IInv /\ [Next]_vars => [Fifo!WeakNext]_(Fifo!vars)
<1> SUFFICES ASSUME IInv, [Next]_vars PROVE [Fifo!WeakNext]_(Fifo!vars)
  OBVIOUS
<1>0. /\ Count \in 0..(XUART_RX_BUFFER - 1)
      /\ (Count = XUART_RX_BUFFER - 1) <=> (Succ(rx0_tail) = rx0_head)
  BY CountFacts DEF IInv, TypeInv, TypeOK
<1>1. CASE onxUart0_irq
  <2>1. Fifo!Arrive
    BY <1>0, <1>1, IrqCount DEF IInv, TypeInv, onxUart0_irq, hist, Fifo!Arrive
  <2> QED
    BY <2>1 DEF Fifo!WeakNext, Fifo!Next
<1>2. CASE ReadStore
  <2>0. /\ stored \in Nat /\ lastRead \in Nat /\ c.num \in Nat /\ Count' \in Nat
        /\ overran \in BOOLEAN /\ overran' = FALSE /\ stored' = stored
    <3>1. Count' = Back(head) /\ head \in Slots
      BY <1>2, StoreCount DEF IInv, TypeInv, TypeOK
    <3>2. Count' \in Nat
      BY <3>1, CountFacts, RingAssumption DEF IInv, TypeInv, TypeOK
    <3> QED
      BY <1>2, <3>2 DEF ReadStore, IInv, TypeInv, TypeOK, Chars
  <2>1. /\ lastRead < c.num /\ lastRead' = c.num
        /\ c.num <= stored - Count'
        /\ ~overran => c.num = stored - Count + 1 /\ Count' = Count - 1 /\ Count > 0
    BY <1>2, StoreRing DEF IInv
  <2>2. CASE overran
    <3>1. lastRead' \in (lastRead + 1)..stored /\ Count' \in 0..(stored - lastRead')
      BY <2>0, <2>1
    <3> QED
      BY <2>0, <2>2, <3>1 DEF Fifo!WeakNext, Fifo!TakeSkipping
  <2>3. CASE ~overran
    BY <2>0, <2>1, <2>3 DEF Fifo!WeakNext, Fifo!Next, Fifo!Take
  <2> QED
    BY <2>0, <2>2, <2>3
<1>3. CASE ReadHead
  BY <1>3 DEF ReadHead, ring, hist, Count, Fifo!WeakNext, Fifo!Next, Fifo!Begin
<1>4. CASE \/ (\E kind \in Kinds : Receive(kind)) \/ TakeIrq \/ UNCHANGED vars
           \/ ReadFirst \/ ReadCompare \/ ReadSlot
  <2>1. UNCHANGED <<ring, stored, overran, hist>>
    BY <1>4 DEF Receive, TakeIrq, vars, ReadFirst, ReadCompare, ReadSlot
  <2> QED
    BY <2>1 DEF ring, hist, Count, Fifo!vars
<1> QED
  BY <1>1, <1>2, <1>3, <1>4 DEF Next, interrupt, service

(* rx0_ring with its racy reader implements the FIFO that never returns an old *)
(* or a repeated character and skips only in a read that was overrun.          *)
THEOREM RefinesWeakFifo == Spec => ImplementsWeakFifo
<1>1. Init => Fifo!Init
  BY DEF Init, Count, Fifo!Init
<1> QED
  BY <1>1, InitIInv, NextIInv, StepSimulation, PTL
  DEF Spec, ImplementsWeakFifo, Fifo!WeakSpec

-----------------------------------------------------------------------------
(*********************************************************************************)
(* The console input of the ATmega328p, whose read is atomic: the ring is a FIFO *)
(* that loses only its oldest character, and key events are published in the     *)
(* order of the line.                                                            *)
(*                                                                               *)
(* The inductive invariant UartInv is TypeOK, RingHoldsNewest (which ties the    *)
(* contents of every unread slot to the history) and KeysUpTo (every             *)
(* published character has been read); RxKeysInOrder needs the last two          *)
(* because the character about to be published is known only from its slot.      *)
(*********************************************************************************)
(* Every published key event has been read. *)
KeysUpTo == \A i \in DOMAIN rxPublished : rxPublished[i] <= rxLast

UartInv == UartTypeOK /\ RingHoldsNewest /\ KeysUpTo /\ RxKeysInOrder

(* The wrap of an index stays in the ring. *)
LEMMA UartSuccType == \A i \in RxSlots : RxSucc(i) \in RxSlots
  BY RxRingAssumption DEF RxSlots, RxSucc

(* An unread character's position is a slot of the ring, the ring keeps one *)
(* slot free, and an empty count means equal indices.                       *)
LEMMA UartCountFacts ==
  ASSUME rx_head \in RxSlots, rx_tail \in RxSlots
  PROVE  /\ RxCount \in 0..(UART_RX_RING_SIZE - 1)
         /\ (RxCount = 0) <=> (rx_head = rx_tail)
         /\ (RxCount = UART_RX_RING_SIZE - 1) <=> (RxSucc(rx_tail) = rx_head)
         /\ SlotOf(0) = rx_head
         /\ \A k \in 0..(RxCount - 1) : SlotOf(k) \in RxSlots /\ SlotOf(k) # rx_tail
         /\ SlotOf(RxCount) = rx_tail
  BY RxRingAssumption DEF RxSlots, RxSucc, RxCount, SlotOf

(* The initial ring is empty and nothing was published. *)
LEMMA InitUartInv == UartInit => UartInv
<1> SUFFICES ASSUME UartInit PROVE UartInv
  OBVIOUS
<1>1. UartTypeOK
  <2>1. rx_head \in RxSlots /\ rx_tail \in RxSlots
    BY RxRingAssumption DEF UartInit, RxSlots
  <2>2. rx_ring \in [RxSlots -> RxChars]
    BY DEF UartInit, RxChars, RxKinds
  <2>3. rxPublished \in Seq(Nat)
    BY DEF UartInit
  <2> QED
    BY <2>1, <2>2, <2>3 DEF UartInit, UartTypeOK
<1>2. RxCount = 0 /\ accepted = 0 /\ rxLast = 0
  BY DEF UartInit, RxCount
<1>3. RingHoldsNewest
  BY <1>2 DEF RingHoldsNewest
<1>4. KeysUpTo /\ RxKeysInOrder
  BY DEF UartInit, KeysUpTo, RxKeysInOrder
<1> QED
  BY <1>1, <1>3, <1>4 DEF UartInv

(* The interrupt on a ring with room: one more unread character, behind the *)
(* others, which keep their positions.                                      *)
LEMMA IsrCount ==
  ASSUME UartTypeOK, NEW kind \in RxKinds, uart_onRxCompleteISR(kind)
  PROVE  /\ rx_head' \in RxSlots /\ rx_tail' \in RxSlots
         /\ RxCount' = IF RxCount = UART_RX_RING_SIZE - 1 THEN RxCount ELSE RxCount + 1
         /\ \A k \in Nat : k + 1 = RxCount' => SlotOf(k)' = rx_tail
         /\ \A k \in 0..(RxCount' - 2) :
              SlotOf(k)' = IF RxCount = UART_RX_RING_SIZE - 1
                             THEN SlotOf(k + 1) ELSE SlotOf(k)
<1>1. rx_head \in RxSlots /\ rx_tail \in RxSlots /\ rx_tail' = RxSucc(rx_tail)
      /\ rx_head' = IF RxSucc(rx_tail) = rx_head THEN RxSucc(rx_head) ELSE rx_head
  BY DEF UartTypeOK, uart_onRxCompleteISR
<1>2. rx_head' \in RxSlots /\ rx_tail' \in RxSlots
  BY <1>1, UartSuccType
<1>3. RxCount' = IF RxCount = UART_RX_RING_SIZE - 1 THEN RxCount ELSE RxCount + 1
  BY <1>1, RxRingAssumption DEF RxSlots, RxSucc, RxCount
<1>4. \A k \in Nat : k + 1 = RxCount' => SlotOf(k)' = rx_tail
  BY <1>1, <1>3, RxRingAssumption DEF RxSlots, RxSucc, RxCount, SlotOf
<1>5. \A k \in 0..(RxCount' - 2) :
        SlotOf(k)' = IF RxCount = UART_RX_RING_SIZE - 1
                       THEN SlotOf(k + 1) ELSE SlotOf(k)
  BY <1>1, <1>3, RxRingAssumption DEF RxSlots, RxSucc, RxCount, SlotOf
<1> QED
  BY <1>2, <1>3, <1>4, <1>5

(* A read: one unread character fewer, the others move up. *)
LEMMA ReadCount ==
  ASSUME UartTypeOK, uart_read
  PROVE  /\ rx_head' \in RxSlots
         /\ RxCount \in Nat \ {0}
         /\ RxCount' = RxCount - 1
         /\ \A k \in 0..(RxCount' - 1) : SlotOf(k)' = SlotOf(k + 1)
<1>1. rx_head \in RxSlots /\ rx_tail \in RxSlots /\ rx_tail' = rx_tail
      /\ rx_head' = RxSucc(rx_head) /\ rx_head # rx_tail
  BY DEF UartTypeOK, uart_read
<1>2. RxCount \in Nat \ {0} /\ RxCount' = RxCount - 1
  BY <1>1, RxRingAssumption DEF RxSlots, RxSucc, RxCount
<1>3. \A k \in 0..(RxCount' - 1) : SlotOf(k)' = SlotOf(k + 1)
  BY <1>1, <1>2, RxRingAssumption DEF RxSlots, RxSucc, RxCount, SlotOf
<1> QED
  BY <1>1, <1>2, <1>3, UartSuccType

(* Every step of the handler and of the service preserves IInv. *)
LEMMA NextUartInv == UartInv /\ [UartNext]_uartvars => UartInv'
<1> SUFFICES ASSUME UartInv, [UartNext]_uartvars PROVE UartInv'
  OBVIOUS
<1> USE DEF UartInv
<1>1. ASSUME NEW kind \in RxKinds, uart_onRxCompleteISR(kind) PROVE UartInv'
  <2>1. UartTypeOK'
    <3>1. [num |-> accepted + 1, kind |-> kind] \in RxChars
      BY DEF UartTypeOK, RxChars
    <3>2. rx_ring' \in [RxSlots -> RxChars]
      BY <1>1, <3>1 DEF UartTypeOK, uart_onRxCompleteISR
    <3>3. rxOverran' \in BOOLEAN
      BY <1>1, Zenon DEF UartTypeOK, uart_onRxCompleteISR
    <3>4. rx_head' \in RxSlots /\ rx_tail' \in RxSlots
      BY <1>1, IsrCount
    <3>5. accepted' \in Nat /\ UNCHANGED <<rxLast, svc, rxPublished>>
      BY <1>1 DEF UartTypeOK, uart_onRxCompleteISR
    <3> QED
      BY <3>2, <3>3, <3>4, <3>5, Zenon DEF UartTypeOK
  <2>2. RingHoldsNewest'
    <3> DEFINE full == RxCount = UART_RX_RING_SIZE - 1
    <3>0. /\ rx_ring \in [RxSlots -> RxChars] /\ rx_tail \in RxSlots
          /\ accepted \in Nat /\ rxLast \in Nat
          /\ accepted' = accepted + 1 /\ rxLast' = rxLast
          /\ rx_ring' = [rx_ring EXCEPT ![rx_tail] =
                                       [num |-> accepted + 1, kind |-> kind]]
      BY <1>1 DEF UartTypeOK, uart_onRxCompleteISR
    <3>1. /\ RxCount \in 0..(UART_RX_RING_SIZE - 1)
          /\ \A k \in 0..(RxCount - 1) : SlotOf(k) \in RxSlots /\ SlotOf(k) # rx_tail
      BY UartCountFacts DEF UartTypeOK
    <3>2. RxCount' = IF full THEN RxCount ELSE RxCount + 1
      BY <1>1, IsrCount
    <3>3. RxCount' <= accepted' /\ rxLast' <= accepted' - RxCount'
      BY <3>0, <3>1, <3>2, RxRingAssumption DEF RingHoldsNewest
    <3>4. ASSUME NEW k \in 0..(RxCount' - 1)
          PROVE  rx_ring'[SlotOf(k)'].num = accepted' - RxCount' + 1 + k
      <4>1. CASE k = RxCount' - 1
        <5>1. SlotOf(k)' = rx_tail
          BY <1>1, <4>1, <3>1, <3>2, IsrCount, RxRingAssumption
        <5> QED
          BY <5>1, <4>1, <3>0, <3>1, <3>2, RxRingAssumption
      <4>2. CASE k # RxCount' - 1
        <5> DEFINE j == IF full THEN k + 1 ELSE k
        <5>1. j \in 0..(RxCount - 1) /\ k \in 0..(RxCount' - 2)
          BY <4>2, <3>1, <3>2, RxRingAssumption
        <5>2. SlotOf(k)' = SlotOf(j)
          BY <5>1, <1>1, IsrCount
        <5>3. rx_ring'[SlotOf(j)] = rx_ring[SlotOf(j)]
          BY <5>1, <3>0, <3>1
        <5>4. rx_ring[SlotOf(j)].num = accepted - RxCount + 1 + j
          BY <5>1 DEF RingHoldsNewest
        <5> QED
          BY <5>1, <5>2, <5>3, <5>4, <3>0, <3>1, <3>2, RxRingAssumption
      <4> QED
        BY <4>1, <4>2
    <3> QED
      BY <3>3, <3>4 DEF RingHoldsNewest
  <2>3. KeysUpTo' /\ RxKeysInOrder'
    BY <1>1 DEF uart_onRxCompleteISR, KeysUpTo, RxKeysInOrder
  <2> QED
    BY <2>1, <2>2, <2>3
<1>2. CASE uart_read
  <2>0. /\ accepted \in Nat /\ rxLast \in Nat /\ rxPublished \in Seq(Nat)
        /\ rx_ring \in [RxSlots -> RxChars] /\ rx_head \in RxSlots
        /\ accepted' = accepted /\ rx_ring' = rx_ring
        /\ rxLast' = rx_ring[rx_head].num
        /\ rxPublished' = IF rx_ring[rx_head].kind = "valid"
                          THEN Append(rxPublished, rx_ring[rx_head].num)
                          ELSE rxPublished
    BY <1>2 DEF UartTypeOK, uart_read
  <2>1. /\ RxCount \in Nat \ {0}
        /\ RxCount' = RxCount - 1
        /\ \A k \in 0..(RxCount' - 1) : SlotOf(k)' = SlotOf(k + 1)
    BY <1>2, ReadCount
  <2>2. rxLast' = accepted - RxCount + 1 /\ RxCount <= accepted
        /\ rxLast < rxLast'
    <3>1. SlotOf(0) = rx_head
      BY UartCountFacts DEF UartTypeOK
    <3> QED
      BY <2>0, <2>1, <3>1 DEF RingHoldsNewest
  <2>3. UartTypeOK'
    <3>1. rx_ring[rx_head].num \in Nat
      BY <2>0 DEF RxChars
    <3>2. rxLast' \in Nat /\ rxPublished' \in Seq(Nat)
      BY <2>0, <3>1
    <3> QED
      BY <1>2, <3>2, ReadCount DEF UartTypeOK, uart_read
  <2>4. RingHoldsNewest'
    <3>1. RxCount' <= accepted' /\ rxLast' <= accepted' - RxCount'
      BY <2>0, <2>1, <2>2
    <3>2. ASSUME NEW k \in 0..(RxCount' - 1)
          PROVE  rx_ring'[SlotOf(k)'].num = accepted' - RxCount' + 1 + k
      <4>1. k + 1 \in 0..(RxCount - 1) /\ SlotOf(k)' = SlotOf(k + 1)
        BY <2>1
      <4>2. rx_ring[SlotOf(k + 1)].num = accepted - RxCount + 1 + (k + 1)
        BY <4>1 DEF RingHoldsNewest
      <4>3. /\ rx_ring' = rx_ring /\ accepted' = accepted /\ accepted \in Nat
            /\ RxCount' = RxCount - 1 /\ RxCount \in Nat /\ k \in Nat
        BY <2>0, <2>1
      <4>4. rx_ring'[SlotOf(k)'].num = accepted - RxCount + 1 + (k + 1)
        BY <4>1, <4>2, <4>3
      <4> QED
        BY <4>3, <4>4
    <3> QED
      BY <3>1, <3>2 DEF RingHoldsNewest
  <2>5. KeysUpTo' /\ RxKeysInOrder'
    <3>1. CASE rxPublished' = rxPublished
      BY <3>1, <2>0, <2>2, <2>3 DEF KeysUpTo, RxKeysInOrder, UartTypeOK
    <3>2. CASE rxPublished' = Append(rxPublished, rxLast')
      <4>1. DOMAIN rxPublished = 1..Len(rxPublished) /\ Len(rxPublished) \in Nat
            /\ DOMAIN rxPublished' = 1..(Len(rxPublished) + 1)
            /\ rxPublished'[Len(rxPublished) + 1] = rxLast'
            /\ \A i \in 1..Len(rxPublished) :
                 rxPublished'[i] = rxPublished[i] /\ rxPublished[i] \in Nat
        BY <2>0, <2>3, <3>2 DEF UartTypeOK
      <4> QED
        BY <4>1, <2>0, <2>2, <2>3 DEF KeysUpTo, RxKeysInOrder, UartTypeOK
    <3> QED
      BY <2>0, <3>1, <3>2
  <2> QED
    BY <2>3, <2>4, <2>5
<1>3. CASE uart_service_enter \/ uart_read_empty \/ UNCHANGED uartvars
  <2>1. UNCHANGED <<rx_head, rx_tail, rx_ring, accepted, rxLast, rxOverran, rxPublished>>
        /\ svc' \in {"idle", "loop"}
    BY <1>3 DEF UartTypeOK, uart_service_enter, uart_read_empty, uartvars
  <2>2. RxCount' = RxCount /\ \A k : SlotOf(k)' = SlotOf(k)
    BY <2>1 DEF RxCount, SlotOf
  <2> QED
    BY <2>1, <2>2 DEF UartTypeOK, RingHoldsNewest, KeysUpTo, RxKeysInOrder
<1> QED
  BY <1>1, <1>2, <1>3 DEF UartNext, uart_service

(* The ring of the handler of uart.c and its atomic reader: indices in     *)
(* range, the unread slots exactly the newest characters, and key events   *)
(* published in line order without repetition.                             *)
THEOREM RingCorrect == UartSpec => [](UartTypeOK /\ RingHoldsNewest /\ RxKeysInOrder)
<1>1. UartInv => UartTypeOK /\ RingHoldsNewest /\ RxKeysInOrder
  BY DEF UartInv
<1> QED
  BY InitUartInv, NextUartInv, <1>1, PTL DEF UartSpec

(* The service publishes key events in the order of the line, each at most *)
(* once, whatever the interrupt overwrote between two reads of the ring.   *)
THEOREM UartKeysInOrder == UartSpec => []RxKeysInOrder
  BY RingCorrect, PTL

-----------------------------------------------------------------------------
(* A step of the interrupt or of the service is, seen through Count, a step *)
(* of the FIFO or none.                                                     *)
LEMMA UartStepSimulation == UartInv /\ [UartNext]_uartvars => [RxFifo!Next]_(RxFifo!vars)
<1> SUFFICES ASSUME UartInv, [UartNext]_uartvars PROVE [RxFifo!Next]_(RxFifo!vars)
  OBVIOUS
<1>0. RxCount \in 0..(UART_RX_RING_SIZE - 1)
      /\ ((RxCount = UART_RX_RING_SIZE - 1) <=> (RxSucc(rx_tail) = rx_head))
  BY UartCountFacts DEF UartInv, UartTypeOK
<1>1. ASSUME NEW kind \in RxKinds, uart_onRxCompleteISR(kind) PROVE RxFifo!Arrive
  BY <1>0, <1>1, IsrCount DEF UartInv, uart_onRxCompleteISR, RxFifo!Arrive
<1>2. CASE uart_read
  <2>1. SlotOf(0) = rx_head
    BY UartCountFacts DEF UartInv, UartTypeOK
  <2>2. RxCount \in Nat \ {0} /\ RxCount' = RxCount - 1
    BY <1>2, ReadCount DEF UartInv
  <2>3. rxLast' = accepted - RxCount + 1
    BY <1>2, <2>1, <2>2 DEF UartInv, UartTypeOK, RingHoldsNewest, uart_read
  <2> QED
    BY <1>2, <2>2, <2>3 DEF uart_read, RxFifo!Next, RxFifo!Take
<1>3. CASE uart_service_enter \/ uart_read_empty \/ UNCHANGED uartvars
  BY <1>3 DEF uart_service_enter, uart_read_empty, uartvars, RxCount, RxFifo!vars
<1> QED
  BY <1>1, <1>2, <1>3 DEF UartNext, uart_service, RxFifo!Next

(* The interrupt handler and the ATOMIC_BLOCK read of uart.c implement the *)
(* FIFO that drops only its oldest character, and only on overrun.         *)
THEOREM RefinesLossyFifo == UartSpec => ImplementsLossyFifo
<1>1. UartInit => RxFifo!Init
  BY DEF UartInit, RxCount, RxFifo!Init
<1> QED
  BY <1>1, InitUartInv, NextUartInv, UartStepSimulation, PTL
  DEF UartSpec, ImplementsLossyFifo, RxFifo!Spec

=============================================================================
