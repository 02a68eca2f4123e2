-------------------------------- MODULE EthTx --------------------------------
(*****************************************************************************)
(* The transmit queue of arch/mb_le/sys/xdma.c (XDMA2, MM2S channel), with   *)
(* the code that uses it: lwip_ethOutput of netdev.c, eth_service of         *)
(* eth_service.c and the recovery of sys/xtemac.c.                           *)
(*                                                                           *)
(* One byte, eth_txtail, is the queue: 0 empty, n the buffer descriptors     *)
(* (BDs) 0..n-1 filled, 0xFF locked while the engine sends.  The main        *)
(* context fills and flushes it, onethdma_txirq reopens it; the handler may  *)
(* run between any two accesses the main context makes to the shared bytes.  *)
(*                                                                           *)
(* The driver leaves the interrupt threshold at one ("Interrupt threshold    *)
(* (min = 1, SG only)") and makes every BD a packet of its own: the engine   *)
(* raises its completion interrupt after each of them, not once per flush.   *)
(*****************************************************************************)
EXTENDS Naturals

CONSTANTS
  Depth,       \* eth_txdepth: BDs xsgdma_ring lays out (10 in the code)
  MaxChain,    \* bound: pbufs of one lwIP packet
  MaxFrames,   \* bound: frames accepted in a behaviour
  MaxErrors    \* bound: bus errors in a behaviour

ASSUME DepthAssumption == Depth \in 2..254
ASSUME BoundsAssumption == MaxChain \in Nat /\ MaxFrames \in Nat /\ MaxErrors \in Nat

LOCKED == 255          \* 0xFF
BDs == 0..(Depth - 1)

VARIABLES
  eth_txtail, eth_txpkts, txcount,
  txbuserr,          \* sgdma_sgls.ethdma_txbuserr
  rxbuserr,          \* the receive channel's flag, which has the same signal
  sigbus,            \* SIGBUS is pending in the kernel
  bd, cmplt,         \* the number of the frame each BD points at; the BDs whose
                     \* status.cmplt is set
  cur, left,         \* the engine: the next BD, and how many it has to send
  halted,            \* the engine stopped on an error
  ioc, err,          \* status bits ioc_irq and err_irq
  pc, tail, chain,   \* the main context: step, local tail, pbufs left
  accepted, sent, errors,   \* history: frames accepted, BDs sent, bus errors
  disturbed,         \* history: since the queue was last begun with the engine
                     \* at rest it was reopened under the engine, or a channel
                     \* failed
  upto, due          \* history: the frame sent last (or, where frames were lost,
                     \* the last of those), and what txcount should come to

queue == <<eth_txtail, eth_txpkts>>
ring == <<bd, cmplt>>
engine == <<cur, left, halted, ioc, err>>
signals == <<txbuserr, rxbuserr, sigbus>>
main == <<pc, tail, chain>>
history == <<accepted, sent, errors, disturbed, upto, due>>
vars == <<queue, txcount, signals, ring, engine, main, history>>

(* _xdma_start and _xtemac_start *)
Init ==
  /\ eth_txtail = 0 /\ eth_txpkts = 0 /\ txcount = 0
  /\ txbuserr = FALSE /\ rxbuserr = FALSE /\ sigbus = FALSE
  /\ bd = [i \in BDs |-> 0] /\ cmplt = {}
  /\ cur = 0 /\ left = 0 /\ halted = FALSE
  /\ ioc = FALSE /\ err = FALSE
  /\ pc = "idle" /\ tail = 0 /\ chain = 0
  /\ accepted = 0 /\ sent = 0 /\ errors = 0
  /\ disturbed = FALSE /\ upto = 0 /\ due = 0

-----------------------------------------------------------------------------
Outstanding == left > 0

(* The engine (external hardware) sends the frame of a BD, marks it complete and raises *)
(* the completion bit.                                                                  *)
Transmit ==
  /\ Outstanding /\ ~halted /\ cur \notin cmplt
  /\ cur' = (cur + 1) % Depth
  /\ left' = left - 1
  /\ cmplt' = cmplt \cup {cur}
  /\ ioc' = TRUE
  /\ sent' = sent + 1
  /\ upto' = bd[cur]
  /\ UNCHANGED <<queue, txcount, signals, bd, halted, err, main, accepted, errors, disturbed, due>>

(* It halts on a BD that is complete already (external hardware). *)
StaleBd ==
  /\ Outstanding /\ ~halted /\ cur \in cmplt
  /\ halted' = TRUE
  /\ err' = TRUE
  /\ disturbed' = TRUE
  /\ UNCHANGED <<queue, txcount, signals, ring, cur, left, ioc, main>>
  /\ UNCHANGED <<accepted, sent, errors, upto, due>>

BusError ==
  /\ Outstanding /\ ~halted /\ errors < MaxErrors
  /\ halted' = TRUE
  /\ err' = TRUE
  /\ errors' = errors + 1
  /\ disturbed' = TRUE
  /\ UNCHANGED <<queue, txcount, signals, ring, cur, left, ioc, main, accepted, sent, upto, due>>

(* The receive channel fails: onethdma_rxirq sets its flag and raises SIGBUS. *)
RxBusError ==
  /\ ~rxbuserr /\ errors < MaxErrors
  /\ rxbuserr' = TRUE /\ sigbus' = TRUE
  /\ errors' = errors + 1
  /\ UNCHANGED <<queue, txcount, txbuserr, ring, engine, main, accepted, sent, disturbed, upto, due>>

(* Slip: the packets of the flush are not counted off. *)
onethdma_txirq_keepPkts ==
  /\ ioc \/ err
  /\ ioc' = FALSE /\ err' = FALSE
  /\ txcount' = IF ioc THEN txcount + eth_txtail ELSE txcount
  /\ eth_txtail' = IF ioc THEN 0 ELSE eth_txtail
  /\ eth_txpkts' = IF ioc THEN 0 ELSE eth_txpkts
  /\ left' \in (IF ioc THEN 0 ELSE left)..left
  /\ sigbus' = (sigbus \/ err)
  /\ txbuserr' = err
  /\ disturbed' = (disturbed \/ (ioc /\ Outstanding))
  /\ UNCHANGED <<rxbuserr, ring, cur, halted, main, accepted, sent, errors, upto, due>>

(* onethdma_txirq.  Both bits are acknowledged at once.  Clearing cr.rs makes the *)
(* engine finish some of the BDs it still holds and drop the others.              *)
onethdma_txirq ==
  /\ ioc \/ err
  /\ ioc' = FALSE /\ err' = FALSE
  /\ txcount' = IF ioc THEN txcount + eth_txpkts ELSE txcount
  /\ eth_txtail' = IF ioc THEN 0 ELSE eth_txtail
  /\ eth_txpkts' = IF ioc THEN 0 ELSE eth_txpkts
  /\ left' \in (IF ioc THEN 0 ELSE left)..left
  /\ sigbus' = (sigbus \/ err)
  /\ txbuserr' = err
  /\ disturbed' = (disturbed \/ (ioc /\ Outstanding))
  /\ UNCHANGED <<rxbuserr, ring, cur, halted, main, accepted, sent, errors, upto, due>>

-----------------------------------------------------------------------------
(* Main context: every access to a byte the handler also writes is a step. *)
Step(from, to) == pc = from /\ pc' = to

(* lwIP hands a chain of pbufs to lwip_ethOutput: from ethernet_input, from *)
(* sys_check_timeouts or from a shell command.                              *)
lwip_ethOutput(pbufs) ==
  /\ Step("idle", "enque")
  /\ accepted + pbufs <= MaxFrames
  /\ chain' = pbufs
  /\ UNCHANGED <<queue, txcount, signals, ring, engine, tail, history>>

(* _ethdma_txsgenque, lines 456-474: a locked queue, a full one, or the last *)
(* BD, whose successor's buffer lies below its own, is refused, and so is a  *)
(* frame longer than a buffer; lwip_ethOutput gives up (ERR_IF) with the     *)
(* earlier pbufs still queued.                                               *)
Refused(t) == t = Depth \/ t = LOCKED \/ t = Depth - 1

txsgenque_test ==
  /\ \/ Step("enque", "idle")
     \/ ~Refused(eth_txtail) /\ Step("enque", "fill")
  /\ tail' = eth_txtail
  /\ UNCHANGED <<queue, txcount, signals, ring, engine, chain, history>>

(* The queue is begun while the engine is at rest. *)
Begun == tail = 0 /\ eth_txtail = 0 /\ ~Outstanding /\ ~ioc /\ ~err /\ ~halted

(* Lines 476-489: payload and descriptor are written. *)
txsgenque_fill ==
  /\ Step("fill", "load")
  /\ bd' = [bd EXCEPT ![tail] = accepted + 1]
  /\ cmplt' = cmplt \ {tail}
  /\ accepted' = accepted + 1
  /\ IF disturbed /\ Begun
       THEN disturbed' = FALSE /\ upto' = accepted /\ due' = txcount + 1
       ELSE due' = due + 1 /\ UNCHANGED <<disturbed, upto>>
  /\ UNCHANGED <<queue, txcount, signals, engine, tail, chain, sent, errors>>

(* Line 491, eth_txtail++: a load and a store. *)
txsgenque_load ==
  /\ Step("load", "inc")
  /\ tail' = eth_txtail
  /\ UNCHANGED <<queue, txcount, signals, ring, engine, chain, history>>

(* Slip: the increment happens twice. *)
txsgenque_inc_twice ==
  /\ Step("inc", IF chain = 1 THEN "idle" ELSE "enque")
  /\ eth_txtail' = (tail + 2) % 256
  /\ chain' = chain - 1
  /\ UNCHANGED <<eth_txpkts, txcount, signals, ring, engine, tail, history>>

txsgenque_inc ==
  /\ Step("inc", IF chain = 1 THEN "idle" ELSE "enque")
  /\ eth_txtail' = (tail + 1) % 256
  /\ chain' = chain - 1
  /\ UNCHANGED <<eth_txpkts, txcount, signals, ring, engine, tail, history>>

(* eth_service reaches _ethdma_txsgflush (lines 437-441). *)
txsgflush_test ==
  /\ Step("idle", IF eth_txtail \in {0, LOCKED} THEN "poll" ELSE "count")
  /\ tail' = eth_txtail
  /\ UNCHANGED <<queue, txcount, signals, ring, engine, chain, history>>

(* Line 443 *)
txsgflush_count ==
  /\ Step("count", "lock")
  /\ eth_txpkts' = eth_txtail
  /\ UNCHANGED <<eth_txtail, txcount, signals, ring, engine, tail, chain, history>>

(* Line 446 *)
txsgflush_lock ==
  /\ Step("lock", "start")
  /\ eth_txtail' = LOCKED
  /\ UNCHANGED <<eth_txpkts, txcount, signals, ring, engine, tail, chain, history>>

(* Lines 448-451, xsgdma_seqTrans: an idle engine starts at BD 0; one that still *)
(* holds BDs ignores currdesc and goes on round the ring to the new tail.        *)
xsgdma_seqTrans ==
  /\ Step("start", "poll")
  /\ cur' = IF Outstanding THEN cur ELSE 0
  /\ left' = IF Outstanding THEN ((tail + Depth - 1 - cur) % Depth) + 1 ELSE tail
  /\ UNCHANGED <<queue, txcount, signals, ring, halted, ioc, err, tail, chain, history>>

(* eth_service, lines 69-87: SIGBUS is pending and a channel has its flag set. *)
eth_service_poll ==
  /\ Step("poll", IF sigbus /\ (txbuserr \/ rxbuserr) THEN "recover" ELSE "idle")
  /\ UNCHANGED <<queue, txcount, signals, ring, engine, tail, chain, history>>

(* Slip: the recovery restarts the engine but does not reopen the queue. *)
xtemac_recover_locked ==
  /\ Step("recover", "unblock")
  /\ txbuserr' = FALSE /\ rxbuserr' = FALSE
  /\ cmplt' = {}
  /\ cur' = 0 /\ left' = 0 /\ halted' = FALSE
  /\ ioc' = FALSE /\ err' = FALSE
  /\ disturbed' = TRUE
  /\ UNCHANGED <<queue, sigbus, txcount, bd, tail, chain, accepted, sent, errors, upto, due>>

(* _xtemac_recover resets both channels, whichever failed, and             *)
(* _ethdma_txsgnormal lays the ring out anew: this reopens the queue and   *)
(* leaves eth_txpkts alone.                                                *)
xtemac_recover ==
  /\ Step("recover", "unblock")
  /\ txbuserr' = FALSE /\ rxbuserr' = FALSE
  /\ cmplt' = {}
  /\ cur' = 0 /\ left' = 0 /\ halted' = FALSE
  /\ ioc' = FALSE /\ err' = FALSE
  /\ eth_txtail' = 0
  /\ disturbed' = TRUE
  /\ UNCHANGED <<eth_txpkts, sigbus, txcount, bd, tail, chain, accepted, sent, errors, upto, due>>

(* Lines 109-111: unblocking takes a pending SIGBUS, even one raised since. *)
eth_service_unblock ==
  /\ Step("unblock", "idle")
  /\ sigbus' = FALSE
  /\ UNCHANGED <<queue, txcount, txbuserr, rxbuserr, ring, engine, tail, chain, history>>

enque == txsgenque_test \/ txsgenque_fill \/ txsgenque_load \/ txsgenque_inc

flush == txsgflush_test \/ txsgflush_count \/ txsgflush_lock \/ xsgdma_seqTrans

signal == eth_service_poll \/ xtemac_recover \/ eth_service_unblock

service == enque \/ flush \/ signal

Next ==
  \/ \E pbufs \in 1..MaxChain : lwip_ethOutput(pbufs)
  \/ service
  \/ Transmit \/ StaleBd \/ BusError \/ RxBusError \/ onethdma_txirq

Spec == Init /\ [][Next]_vars

(* The main loop runs eth_service for ever and lwIP sends finitely many    *)
(* packets between two of its flushes (the strong fairness), the engine    *)
(* works on what it has, and a raised interrupt is taken.  Packets and bus *)
(* errors need not come.                                                   *)
FairSpec ==
  /\ Spec
  /\ WF_vars(service) /\ SF_vars(txsgflush_test)
  /\ WF_vars(Transmit \/ StaleBd) /\ WF_vars(onethdma_txirq)

-----------------------------------------------------------------------------
TypeOK ==
  /\ eth_txtail \in 0..(Depth - 1) \cup {LOCKED} /\ eth_txpkts \in 0..(Depth - 1)
  /\ txcount \in Nat
  /\ txbuserr \in BOOLEAN /\ rxbuserr \in BOOLEAN /\ sigbus \in BOOLEAN
  /\ bd \in [BDs -> Nat] /\ cmplt \subseteq BDs
  /\ cur \in BDs /\ left \in 0..Depth
  /\ halted \in BOOLEAN /\ ioc \in BOOLEAN /\ err \in BOOLEAN
  /\ pc \in {"idle", "enque", "fill", "load", "inc", "count", "lock", "start", "poll",
             "recover", "unblock"}
  /\ tail \in 0..(Depth - 1) \cup {LOCKED} /\ chain \in Nat
  /\ accepted \in Nat /\ sent \in Nat /\ errors \in Nat
  /\ disturbed \in BOOLEAN /\ upto \in Nat /\ due \in Nat

(* xdma.c:445 "the tx queue will be locked till transfer completion": while *)
(* the engine still holds BDs of a flush the queue takes no frame.          *)
LockedTillCompletion == Outstanding => eth_txtail = LOCKED

(* The frames leave in the order in which they were accepted, one by one, none     *)
(* twice, skipped, or from a BD that was not refilled: as long as the handler does *)
(* not reopen the queue under the engine, and again from the first frame queued    *)
(* with the engine at rest after it did, or after an error.                        *)
SentInOrder == [][~disturbed' /\ sent' # sent => upto' = upto + 1]_vars

(* In the same stretches an empty queue means that every accepted frame has been *)
(* sent, and counted by txcount.                                                 *)
EmptyMeansSent ==
  (~disturbed /\ eth_txtail = 0 /\ pc \in {"idle", "enque"}) =>
     upto = accepted /\ txcount = due

(* A queue that holds frames or is locked is reopened in the end, whenever the     *)
(* interrupts of its packets come and after errors of the engine too: neither the  *)
(* lock nor an update of eth_txtail lost to the handler leaves it closed for ever. *)
QueueReopens == eth_txtail # 0 ~> eth_txtail = 0

=============================================================================
