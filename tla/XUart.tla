-------------------------------- MODULE XUart --------------------------------
(***************************************************************************)
(* The MicroBlaze console input: onxUart0_irq of arch/mb_le/sys/xuart.c    *)
(* moves the UARTLite receive FIFO into rx0_ring, uart_service of          *)
(* arch/mb_le/services/uart_service.c reads it with _xuartlite_read.       *)
(*                                                                         *)
(* Unlike the AVR driver the read is not atomic: every volatile access of  *)
(* rx0_head, rx0_tail and rx0_ring is a step, and the handler may run      *)
(* between two of them and move rx0_head itself when the ring is full.     *)
(* The handler runs to its end before the main context continues.          *)
(***************************************************************************)
EXTENDS Naturals, Sequences

CONSTANTS
  XUART_RX_BUFFER,   \* slots of rx0_ring (8 in the code)
  FifoDepth,         \* characters the UARTLite holds (16 in hardware)
  MaxChars           \* bound: characters on the line in a behaviour

ASSUME RingAssumption == XUART_RX_BUFFER \in Nat /\ XUART_RX_BUFFER > 1
ASSUME FifoAssumption == FifoDepth \in Nat \ {0}
ASSUME MaxCharsAssumption == MaxChars \in Nat

(* A received '\0' is not told apart from "nothing to read". *)
Kinds == {"key", "nul"}
Slots == 0..(XUART_RX_BUFFER - 1)
Chars == [num : Nat, kind : Kinds]
NoChar == [num |-> 0, kind |-> "nul"]

VARIABLES
  rx0_head, rx0_tail, rx0_ring,
  rxfifo,     \* the UARTLite receive FIFO
  pending,    \* the UART's latched, not yet taken, interrupt
  isr,        \* onxUart0_irq is running
  pc,         \* where uart_service is inside _xuartlite_read
  chk,        \* line 91: which index was loaded first, and its value
  head, c,    \* locals of _xuartlite_read: rx_head and c
  line,       \* history: characters that came on the line
  stored,     \* history: characters the handler has put into the ring
  lastRead,   \* history: number of the last character read
  overran,    \* history: the ring was overrun since the reader loaded the head
  published   \* history: characters published as EVT_USERCON_KEY

ring == <<rx0_head, rx0_tail, rx0_ring>>
locals == <<pc, chk, head, c>>
hist == <<lastRead, published>>
vars == <<ring, rxfifo, pending, isr, locals, line, stored, overran, hist>>

(* _xuartlite_start: FIFOs reset, interrupt enabled, indices still zero *)
Init ==
  /\ rx0_head = 0 /\ rx0_tail = 0
  /\ rx0_ring = [s \in Slots |-> NoChar]
  /\ rxfifo = <<>> /\ pending = FALSE /\ isr = FALSE
  /\ pc = "idle" /\ chk = [var |-> "head", val |-> 0]
  /\ head = 0 /\ c = NoChar
  /\ line = 0 /\ stored = 0 /\ lastRead = 0
  /\ overran = FALSE /\ published = <<>>

Succ(i) == IF i + 1 = XUART_RX_BUFFER THEN 0 ELSE i + 1

Count == IF rx0_tail >= rx0_head THEN rx0_tail - rx0_head
                                 ELSE rx0_tail + XUART_RX_BUFFER - rx0_head

-----------------------------------------------------------------------------
(* Hardware: a character arrives; a full FIFO loses it.  The interrupt is  *)
(* raised when the FIFO stops being empty.                                 *)
Receive(kind) ==
  /\ line < MaxChars
  /\ line' = line + 1
  /\ rxfifo' = IF Len(rxfifo) = FifoDepth THEN rxfifo ELSE Append(rxfifo, kind)
  /\ pending' = (pending \/ rxfifo = <<>>)
  /\ UNCHANGED <<ring, isr, locals, stored, overran, hist>>

(* The controller takes the interrupt; taking it acknowledges the latch.   *)
(* With no valid character the handler returns at once (line 116).         *)
TakeIrq ==
  /\ pending /\ ~isr
  /\ pending' = FALSE
  /\ isr' = (rxfifo # <<>>)
  /\ UNCHANGED <<ring, rxfifo, locals, line, stored, overran, hist>>

(* Slip: a full ring drops nothing and the indices meet. *)
onxUart0_irq_keepHead ==
  /\ isr
  /\ rx0_head' = rx0_head
  /\ rx0_ring' = [rx0_ring EXCEPT ![rx0_tail] = [num |-> stored + 1, kind |-> Head(rxfifo)]]
  /\ rx0_tail' = Succ(rx0_tail)
  /\ rxfifo' = Tail(rxfifo)
  /\ isr' = (rxfifo' # <<>>)
  /\ stored' = stored + 1
  /\ overran' = (overran \/ Succ(rx0_tail) = rx0_head)
  /\ UNCHANGED <<pending, locals, line, hist>>

(* Slip: one character per interrupt, the while (rxfifo_valid) is missing. *)
onxUart0_irq_single ==
  LET full == Succ(rx0_tail) = rx0_head IN
  /\ isr
  /\ rx0_head' = IF full THEN Succ(rx0_head) ELSE rx0_head
  /\ rx0_ring' = [rx0_ring EXCEPT ![rx0_tail] = [num |-> stored + 1, kind |-> Head(rxfifo)]]
  /\ rx0_tail' = Succ(rx0_tail)
  /\ rxfifo' = Tail(rxfifo)
  /\ isr' = FALSE
  /\ stored' = stored + 1
  /\ overran' = (overran \/ full)
  /\ UNCHANGED <<pending, locals, line, hist>>

(* One round of the handler's do-while: store a character, pushing the     *)
(* oldest out of a full ring, and go on while the FIFO has another.        *)
onxUart0_irq ==
  LET next_tail == Succ(rx0_tail)
      full == next_tail = rx0_head
  IN
  /\ isr
  /\ rx0_head' = IF full THEN Succ(rx0_head) ELSE rx0_head
  /\ rx0_ring' = [rx0_ring EXCEPT ![rx0_tail] = [num |-> stored + 1, kind |-> Head(rxfifo)]]
  /\ rx0_tail' = next_tail
  /\ rxfifo' = Tail(rxfifo)
  /\ isr' = (rxfifo' # <<>>)
  /\ stored' = stored + 1
  /\ overran' = (overran \/ full)
  /\ UNCHANGED <<pending, locals, line, hist>>

-----------------------------------------------------------------------------
(* Steps of the main context; none is taken while the handler runs. *)
Main(from, to) == ~isr /\ pc = from /\ pc' = to

Index(var) == IF var = "head" THEN rx0_head ELSE rx0_tail

(* Line 91, first operand: C leaves open which index is loaded first. *)
ReadFirst ==
  /\ Main("idle", "check")
  /\ \E var \in {"head", "tail"} : chk' = [var |-> var, val |-> Index(var)]
  /\ UNCHANGED <<ring, rxfifo, pending, isr, head, c, line, stored, overran, hist>>

(* Line 91, second operand: equal indices end the service's pass. *)
ReadCompare ==
  LET other == IF chk.var = "head" THEN "tail" ELSE "head" IN
  /\ Main("check", IF chk.val = Index(other) THEN "idle" ELSE "load")
  /\ UNCHANGED <<ring, rxfifo, pending, isr, chk, head, c, line, stored, overran, hist>>

(* Line 95 *)
ReadHead ==
  /\ Main("load", "slot")
  /\ head' = rx0_head
  /\ overran' = FALSE
  /\ UNCHANGED <<ring, rxfifo, pending, isr, chk, c, line, stored, hist>>

(* Line 96 *)
ReadSlot ==
  /\ Main("slot", "store")
  /\ c' = rx0_ring[head]
  /\ UNCHANGED <<ring, rxfifo, pending, isr, chk, head, line, stored, overran, hist>>

(* Slip: the read forgets to advance the head. *)
ReadStore_peek ==
  /\ Main("store", "idle")
  /\ lastRead' = c.num
  /\ published' = IF c.kind = "key" THEN Append(published, c.num) ELSE published
  /\ overran' = FALSE
  /\ UNCHANGED <<ring, rxfifo, pending, isr, chk, head, c, line, stored>>

(* Lines 98-105: the head becomes the successor of the value loaded before, *)
(* whatever the handler did to it since; the service publishes the          *)
(* character, or ends its pass on '\0'.                                     *)
ReadStore ==
  /\ Main("store", "idle")
  /\ rx0_head' = Succ(head)
  /\ lastRead' = c.num
  /\ published' = IF c.kind = "key" THEN Append(published, c.num) ELSE published
  /\ overran' = FALSE
  /\ UNCHANGED <<rx0_tail, rx0_ring, rxfifo, pending, isr, chk, head, c, line, stored>>

service == ReadFirst \/ ReadCompare \/ ReadHead \/ ReadSlot \/ ReadStore

interrupt == TakeIrq \/ onxUart0_irq

Next == (\E kind \in Kinds : Receive(kind)) \/ interrupt \/ service

Spec == Init /\ [][Next]_vars

(* An enabled interrupt is taken and its handler runs on; the kernel's main *)
(* loop calls the service for ever.                                         *)
FairSpec == Spec /\ WF_vars(interrupt) /\ WF_vars(service)

-----------------------------------------------------------------------------
TypeOK ==
  /\ rx0_head \in Slots /\ rx0_tail \in Slots
  /\ rx0_ring \in [Slots -> Chars]
  /\ rxfifo \in Seq(Kinds) /\ Len(rxfifo) <= FifoDepth
  /\ pending \in BOOLEAN /\ isr \in BOOLEAN
  /\ pc \in {"idle", "check", "load", "slot", "store"}
  /\ chk \in [var : {"head", "tail"}, val : Slots]
  /\ head \in Slots /\ c \in Chars
  /\ line \in Nat /\ stored \in Nat /\ lastRead \in Nat
  /\ overran \in BOOLEAN /\ published \in Seq(Nat)

(* Key events come in the order of the line and no character is published  *)
(* twice, whatever the handler does between two accesses of the unlocked   *)
(* read.                                                                   *)
PublishedInOrder ==
  \A i, j \in DOMAIN published : i < j => published[i] < published[j]

(* The ring and its racy reader are a FIFO that never returns an old or a  *)
(* repeated character, and that skips characters only in a read between    *)
(* whose load and store of the head a character came to a full ring.       *)
Fifo == INSTANCE LossyFifo WITH
          Capacity <- XUART_RX_BUFFER - 1,
          arrived <- stored, fill <- Count, last <- lastRead

ImplementsWeakFifo == Fifo!WeakSpec

(* No lost wake-up: a character in the hardware FIFO has an interrupt      *)
(* latched or a handler running, so it does not wait for the next key.     *)
FifoHasWakeup == rxfifo # <<>> => pending \/ isr

(* Once the line is quiet the service empties FIFO and ring, even when its *)
(* store moved the head back into characters already overwritten.          *)
QuietLineDrains == <>[](rxfifo = <<>> /\ rx0_head = rx0_tail)

(* The handler of xuart.c drains the hardware FIFO with the indices of its ring in range, and *)
(* FifoHasWakeup.                                                                             *)
WakeupInv == TypeOK /\ FifoHasWakeup

=============================================================================
