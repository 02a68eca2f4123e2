------------------------------- MODULE AvrUart -------------------------------
(***************************************************************************)
(* The ATmega328p console input: the receive interrupt of                  *)
(* arch/mc_avr/sys/uart.c fills a ring, uart_service of                    *)
(* arch/mc_avr/services/uart_service.c empties it from the kernel's main   *)
(* loop.  _uart_read runs inside ATOMIC_BLOCK, so it is one step; the      *)
(* interrupt may run between any two steps of the service.                 *)
(***************************************************************************)
EXTENDS Naturals, Sequences

CONSTANTS
  UART_RX_RING_SIZE,   \* slots of rx_ring (8 in the code)
  MaxRxChars           \* bound: characters on the line in a behaviour

ASSUME MaxRxCharsAssumption == MaxRxChars \in Nat
ASSUME RxRingAssumption == UART_RX_RING_SIZE \in Nat /\ UART_RX_RING_SIZE > 1

(* What the service tells apart: a character is_charValid accepts, one it  *)
(* rejects, and the '\0' that also means "nothing to read".                *)
RxKinds == {"valid", "junk", "nul"}

RxSlots == 0..(UART_RX_RING_SIZE - 1)

RxChars == [num : Nat, kind : RxKinds]

VARIABLES
  rx_head, rx_tail, rx_ring,
  accepted,     \* history: characters the handler stored so far
  svc,          \* uart_service: "idle" between passes, "loop" in its while
  rxLast,       \* history: number of the last character read
  rxOverran,    \* history: the ring was overrun since the last read
  rxPublished   \* history: characters published as EVT_USERCON_KEY

uartvars == <<rx_head, rx_tail, rx_ring, accepted, rxLast, rxOverran, svc, rxPublished>>

(* static initialisers and _uart_start: interrupts are enabled last *)
UartInit ==
  /\ rx_head = 0
  /\ rx_tail = 0
  /\ rx_ring = [s \in RxSlots |-> [num |-> 0, kind |-> "nul"]]
  /\ accepted = 0
  /\ rxLast = 0
  /\ rxOverran = FALSE
  /\ svc = "idle"
  /\ rxPublished = <<>>

RxSucc(i) == IF i + 1 = UART_RX_RING_SIZE THEN 0 ELSE i + 1

(* Unread characters, and the slot of the k-th of them (k = 0 is the head). *)
RxCount == IF rx_tail >= rx_head THEN rx_tail - rx_head
                                 ELSE rx_tail + UART_RX_RING_SIZE - rx_head

SlotOf(k) == IF rx_head + k < UART_RX_RING_SIZE
               THEN rx_head + k ELSE rx_head + k - UART_RX_RING_SIZE

-----------------------------------------------------------------------------
(* Slip: the handler forgets to push the oldest character out. *)
uart_onRxCompleteISR_keepHead(kind) ==
  /\ accepted < MaxRxChars
  /\ rx_head' = rx_head
  /\ rx_ring' = [rx_ring EXCEPT ![rx_tail] = [num |-> accepted + 1, kind |-> kind]]
  /\ rx_tail' = RxSucc(rx_tail)
  /\ accepted' = accepted + 1
  /\ rxOverran' = (rxOverran \/ RxSucc(rx_tail) = rx_head)
  /\ UNCHANGED <<rxLast, svc, rxPublished>>

(* uart_onRxCompleteISR, no FE0/DOR0 error: store, pushing out the oldest  *)
(* character when the ring is full.                                        *)
uart_onRxCompleteISR(kind) ==
  LET next_tail == RxSucc(rx_tail)
      full == next_tail = rx_head
  IN
  /\ accepted < MaxRxChars
  /\ rx_head' = IF full THEN RxSucc(rx_head) ELSE rx_head
  /\ rx_ring' = [rx_ring EXCEPT ![rx_tail] = [num |-> accepted + 1, kind |-> kind]]
  /\ rx_tail' = next_tail
  /\ accepted' = accepted + 1
  /\ rxOverran' = (rxOverran \/ full)
  /\ UNCHANGED <<rxLast, svc, rxPublished>>

(* The kernel's main loop starts a pass of the service. *)
uart_service_enter ==
  /\ svc = "idle"
  /\ svc' = "loop"
  /\ UNCHANGED <<rx_head, rx_tail, rx_ring, accepted, rxLast, rxOverran, rxPublished>>

(* _uart_read finds the ring empty: it returns '\0' and the pass ends. *)
uart_read_empty ==
  /\ svc = "loop"
  /\ rx_head = rx_tail
  /\ svc' = "idle"
  /\ UNCHANGED <<rx_head, rx_tail, rx_ring, accepted, rxLast, rxOverran, rxPublished>>

(* Slip: the read peeks at the head and leaves it in the ring. *)
uart_read_peek ==
  /\ svc = "loop"
  /\ rx_head # rx_tail
  /\ LET c == rx_ring[rx_head] IN
       /\ rxLast' = c.num
       /\ rxPublished' = IF c.kind = "valid"
                           THEN Append(rxPublished, c.num) ELSE rxPublished
       /\ svc' = IF c.kind = "nul" THEN "idle" ELSE "loop"
  /\ rxOverran' = FALSE
  /\ UNCHANGED <<rx_head, rx_tail, rx_ring, accepted>>

(* _uart_read takes the head; the loop publishes a valid character, skips a *)
(* rejected one, and ends the pass on a received '\0'.                      *)
uart_read ==
  /\ svc = "loop"
  /\ rx_head # rx_tail
  /\ LET c == rx_ring[rx_head] IN
       /\ rxLast' = c.num
       /\ rxPublished' = IF c.kind = "valid"
                           THEN Append(rxPublished, c.num) ELSE rxPublished
       /\ svc' = IF c.kind = "nul" THEN "idle" ELSE "loop"
  /\ rx_head' = RxSucc(rx_head)
  /\ rxOverran' = FALSE
  /\ UNCHANGED <<rx_tail, rx_ring, accepted>>

uart_service == uart_service_enter \/ uart_read_empty \/ uart_read

UartNext == (\E kind \in RxKinds : uart_onRxCompleteISR(kind)) \/ uart_service

UartSpec == UartInit /\ [][UartNext]_uartvars

(* The main loop polls its services for ever; characters need not come. *)
UartFairSpec == UartSpec /\ WF_uartvars(uart_service)

-----------------------------------------------------------------------------
UartTypeOK ==
  /\ rx_head \in RxSlots
  /\ rx_tail \in RxSlots
  /\ rx_ring \in [RxSlots -> RxChars]
  /\ accepted \in Nat
  /\ rxLast \in Nat
  /\ rxOverran \in BOOLEAN
  /\ svc \in {"idle", "loop"}
  /\ rxPublished \in Seq(Nat)

(* The unread part of the ring is, slot by slot, the newest RxCount        *)
(* accepted characters in order, and the reader has had none of them.      *)
RingHoldsNewest ==
  /\ RxCount <= accepted
  /\ \A k \in 0..(RxCount - 1) : rx_ring[SlotOf(k)].num = accepted - RxCount + 1 + k
  /\ rxLast <= accepted - RxCount

(* Key events come in the order of the line and no character is published  *)
(* twice, whatever the interrupt overwrites between two reads.             *)
RxKeysInOrder ==
  \A i, j \in DOMAIN rxPublished : i < j => rxPublished[i] < rxPublished[j]

(* The handler and the atomic read together are a bounded FIFO that loses  *)
(* only its oldest character and only on overrun.                          *)
RxFifo == INSTANCE LossyFifo WITH
          Capacity <- UART_RX_RING_SIZE - 1,
          arrived <- accepted, fill <- RxCount, last <- rxLast, overran <- rxOverran

ImplementsLossyFifo == RxFifo!Spec

(* No accepted character is left behind in the ring: once the line is quiet the  *)
(* service empties it, a pass that a received '\0' ended early being followed by *)
(* one that reads on.                                                            *)
EveryCharLeavesRing == <>[](rx_head = rx_tail)

=============================================================================
