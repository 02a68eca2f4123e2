-------------------------------- MODULE EthRx --------------------------------
(***************************************************************************)
(* The receive side of arch/mb_le/sys/xdma.c (XDMA2, S2MM channel): the    *)
(* engine fills a cyclic ring of buffer descriptors (BDs) without ever     *)
(* waiting, onethdma_rxirq advances eth_rxhead by one per interrupt, and   *)
(* lwip_ethInput of services/eth_service.c reads from eth_rxtail.          *)
(*                                                                         *)
(* The handler moves eth_rxtail too when the ring is full, and may run     *)
(* between any two accesses of the reader; the engine works all the time.  *)
(***************************************************************************)
EXTENDS Naturals

CONSTANTS
  XDMA2_MAX_BDS,   \* BDs in the ring (10 in the code)
  MaxFrames,       \* bound: frames received in a behaviour
  MaxErrors        \* bound: bus errors in a behaviour

ASSUME RingAssumption == XDMA2_MAX_BDS \in Nat /\ XDMA2_MAX_BDS > 1
ASSUME BoundsAssumption == MaxFrames \in Nat /\ MaxErrors \in Nat

BDs == 0..(XDMA2_MAX_BDS - 1)

VARIABLES
  eth_rxhead, eth_rxtail, rxcount, lostcount,
  rxbuserr, txbuserr,     \* sgdma_sgls, the flags of both channels
  sigbus,                 \* SIGBUS is pending in the kernel
  cmplt,                  \* status.cmplt of every BD
  data,                   \* number of the frame in every buffer, 0 for none
  hw, filling, running,   \* engine: BD in use, a frame being written, not halted
  ioc, err,               \* status bits
  pc, head, tail,         \* main context: step, local head and tail
  budget,                 \* rx_qcount of lwip_ethInput
  frame,                  \* what the memcpy copied out
  frames, seen, errors,   \* history: frames completed, seen by the handler
  delivered,              \* history: number of the last frame given to lwIP
  behind,                 \* history: BDs by which interrupts that stood for
                          \* several frames have left the head behind
  disturbed               \* history: frames have shared an interrupt, or the
                          \* engine has overtaken a read, since the queue was
                          \* last found empty, with no interrupt pending

queue == <<eth_rxhead, eth_rxtail>>
counters == <<rxcount, lostcount>>
signals == <<rxbuserr, txbuserr, sigbus>>
engine == <<hw, filling, running, ioc, err>>
main == <<pc, head, tail, budget, frame>>
history == <<frames, seen, errors, delivered, behind, disturbed>>
vars == <<queue, counters, signals, cmplt, data, engine, main, history>>

NoCmplt == [b \in BDs |-> FALSE]

(* _xdma_start, then _ethdma_rxsgcyclic from _xtemac_start *)
Init ==
  /\ eth_rxhead = 0 /\ eth_rxtail = 0 /\ rxcount = 0 /\ lostcount = 0
  /\ rxbuserr = FALSE /\ txbuserr = FALSE /\ sigbus = FALSE
  /\ cmplt = NoCmplt /\ data = [b \in BDs |-> 0]
  /\ hw = 0 /\ filling = FALSE /\ running = TRUE
  /\ ioc = FALSE /\ err = FALSE
  /\ pc = "idle" /\ head = 0 /\ tail = 0 /\ budget = 0 /\ frame = 0
  /\ frames = 0 /\ seen = 0 /\ errors = 0 /\ delivered = 0
  /\ behind = 0 /\ disturbed = FALSE

Succ(b) == IF b + 1 = XDMA2_MAX_BDS THEN 0 ELSE b + 1

(* eth_rxqcount for given head and tail *)
QCount(h, t) == (h + XDMA2_MAX_BDS - t) % XDMA2_MAX_BDS

(* _ethdma_rxsgcmplt has found a packet and has not yet stored the tail. *)
Reading == pc \in {"status", "clear", "copy", "store"}

-----------------------------------------------------------------------------
(* The engine (external hardware): it writes a frame into the BD's buffer, *)
(* then the status, and goes on to the next BD whatever that one holds.    *)
Fill ==
  /\ running /\ ~filling /\ frames < MaxFrames
  /\ filling' = TRUE
  /\ data' = [data EXCEPT ![hw] = frames + 1]
  /\ disturbed' = (disturbed \/ (Reading /\ hw = tail))
  /\ UNCHANGED <<queue, counters, signals, cmplt, hw, running, ioc, err, main, frames, seen, errors, delivered, behind>>

(* A frame that completes before the handler has acknowledged the one before *)
(* it shares its interrupt.                                                  *)
Complete ==
  /\ running /\ filling
  /\ filling' = FALSE
  /\ cmplt' = [cmplt EXCEPT ![hw] = TRUE]
  /\ hw' = Succ(hw)
  /\ ioc' = TRUE
  /\ frames' = frames + 1
  /\ behind' = IF ioc THEN Succ(behind) ELSE behind
  /\ disturbed' = (disturbed \/ ioc)
  /\ UNCHANGED <<queue, counters, signals, data, running, err, main, seen, errors, delivered>>

BusError ==
  /\ running /\ filling /\ errors < MaxErrors
  /\ running' = FALSE
  /\ err' = TRUE
  /\ errors' = errors + 1
  /\ UNCHANGED <<queue, counters, signals, cmplt, data, hw, filling, ioc, main, frames, seen, delivered, behind, disturbed>>

(* The transmit channel fails: onethdma_txirq sets its flag and raises SIGBUS. *)
TxBusError ==
  /\ ~txbuserr /\ errors < MaxErrors
  /\ txbuserr' = TRUE /\ sigbus' = TRUE
  /\ errors' = errors + 1
  /\ UNCHANGED <<queue, counters, rxbuserr, cmplt, data, engine, main, frames, seen, delivered, behind, disturbed>>

(* Slip: a full queue overwrites silently, head runs into tail. *)
onethdma_rxirq_noDrop ==
  LET next_q == Succ(eth_rxhead) IN
  /\ ioc \/ err
  /\ ioc' = FALSE /\ err' = FALSE
  /\ rxcount' = rxcount + (IF ioc THEN 1 ELSE 0)
  /\ eth_rxhead' = IF ioc THEN next_q ELSE eth_rxhead
  /\ disturbed' = (disturbed \/ (Reading /\ ioc /\ next_q = eth_rxtail))
  /\ seen' = IF ioc THEN frames ELSE seen
  /\ sigbus' = (sigbus \/ err)
  /\ rxbuserr' = err
  /\ UNCHANGED <<txbuserr, eth_rxtail, lostcount, cmplt, data, hw, filling, running, main, frames, errors, delivered, behind>>

(* Slip: an error interrupt raises no signal. *)
onethdma_rxirq_quiet ==
  LET next_q == Succ(eth_rxhead)
      p_lost == ioc /\ next_q = eth_rxtail
  IN
  /\ ioc \/ err
  /\ ioc' = FALSE /\ err' = FALSE
  /\ rxcount' = rxcount + (IF ioc THEN 1 ELSE 0)
  /\ eth_rxhead' = IF ioc THEN next_q ELSE eth_rxhead
  /\ eth_rxtail' = IF p_lost THEN Succ(eth_rxtail) ELSE eth_rxtail
  /\ lostcount' = lostcount + (IF p_lost THEN 1 ELSE 0)
  /\ disturbed' = (disturbed \/ (p_lost /\ Reading))
  /\ seen' = IF ioc THEN frames ELSE seen
  /\ rxbuserr' = err
  /\ UNCHANGED <<txbuserr, sigbus, cmplt, data, hw, filling, running, main, frames, errors, delivered, behind>>

(* onethdma_rxirq with ethdma_queue: one packet is queued per completion   *)
(* interrupt; a full queue gives up its oldest packet, counted as lost.    *)
onethdma_rxirq ==
  LET next_q == Succ(eth_rxhead)
      p_lost == ioc /\ next_q = eth_rxtail
  IN
  /\ ioc \/ err
  /\ ioc' = FALSE /\ err' = FALSE
  /\ rxcount' = rxcount + (IF ioc THEN 1 ELSE 0)
  /\ eth_rxhead' = IF ioc THEN next_q ELSE eth_rxhead
  /\ eth_rxtail' = IF p_lost THEN Succ(eth_rxtail) ELSE eth_rxtail
  /\ lostcount' = lostcount + (IF p_lost THEN 1 ELSE 0)
  /\ disturbed' = (disturbed \/ (p_lost /\ Reading))
  /\ seen' = IF ioc THEN frames ELSE seen
  /\ sigbus' = (sigbus \/ err)
  /\ rxbuserr' = err
  /\ UNCHANGED <<txbuserr, cmplt, data, hw, filling, running, main, frames, errors, delivered, behind>>

-----------------------------------------------------------------------------
(* The main context. *)
Step(from, to) == pc = from /\ pc' = to

(* lwip_ethInput starts; eth_rxqcount loads the head, *)
rxqcount_head ==
  /\ Step("idle", "qtail")
  /\ head' = eth_rxhead
  /\ UNCHANGED <<queue, counters, signals, cmplt, data, engine, tail, budget, frame, history>>

(* then the tail: the pass reads no more than the queue held then. *)
rxqcount_tail ==
  /\ Step("qtail", "loop")
  /\ budget' = QCount(head, eth_rxtail)
  /\ disturbed' = (disturbed /\ ~(eth_rxhead = eth_rxtail /\ behind = 0 /\ ~ioc))
  /\ UNCHANGED <<queue, counters, signals, cmplt, data, engine, head, tail, frame, frames, seen, errors, delivered, behind>>

(* The while test; with budget left _ethdma_rxsgcmplt loads the head (523). *)
rxsgcmplt_head ==
  /\ Step("loop", IF budget = 0 THEN "poll" ELSE "tail")
  /\ budget' = IF budget = 0 THEN 0 ELSE budget - 1
  /\ head' = eth_rxhead
  /\ UNCHANGED <<queue, counters, signals, cmplt, data, engine, tail, frame, history>>

(* Lines 524-528: load the tail; an empty queue ends the pass. *)
rxsgcmplt_tail ==
  /\ Step("tail", IF head = eth_rxtail THEN "poll" ELSE "status")
  /\ tail' = eth_rxtail
  /\ disturbed' = (disturbed \/ (filling /\ hw = eth_rxtail /\ head # eth_rxtail))
  /\ UNCHANGED <<queue, counters, signals, cmplt, data, engine, head, budget, frame, frames, seen, errors, delivered, behind>>

(* Lines 530-542: a BD that is not complete ends the pass. *)
rxsgcmplt_status ==
  /\ Step("status", IF cmplt[tail] THEN "clear" ELSE "poll")
  /\ UNCHANGED <<queue, counters, signals, cmplt, data, engine, head, tail, budget, frame, history>>

(* Lines 544-551: the status is cleared, even one the engine wrote again. *)
rxsgcmplt_clear ==
  /\ Step("clear", "copy")
  /\ cmplt' = [cmplt EXCEPT ![tail] = FALSE]
  /\ UNCHANGED <<queue, counters, signals, data, engine, head, tail, budget, frame, history>>

(* Lines 552-555 *)
rxsgcmplt_copy ==
  /\ Step("copy", "store")
  /\ frame' = data[tail]
  /\ UNCHANGED <<queue, counters, signals, cmplt, data, engine, head, tail, budget, history>>

(* Slip: the tail stays where it was. *)
rxsgcmplt_store_stay ==
  /\ Step("store", "loop")
  /\ delivered' = frame
  /\ UNCHANGED <<queue, counters, signals, cmplt, data, engine, head, tail, budget, frame, frames, seen, errors, behind, disturbed>>

(* Lines 557-564 and the loop body: the tail becomes the successor of the  *)
(* value loaded before, and the frame goes to lwIP (or is dropped there).  *)
rxsgcmplt_store ==
  /\ Step("store", "loop")
  /\ eth_rxtail' = Succ(tail)
  /\ delivered' = frame
  /\ UNCHANGED <<eth_rxhead, counters, signals, cmplt, data, engine, head, tail, budget, frame, frames, seen, errors, behind, disturbed>>

(* eth_service, lines 69-87: SIGBUS is pending and a channel has its flag set. *)
eth_service_poll ==
  /\ Step("poll", IF sigbus /\ (rxbuserr \/ txbuserr) THEN "recover" ELSE "idle")
  /\ UNCHANGED <<queue, counters, signals, cmplt, data, engine, head, tail, budget, frame, history>>

(* Slip: the recovery restarts the engine but keeps the queue indices. *)
xtemac_recover_keep ==
  /\ Step("recover", "unblock")
  /\ rxbuserr' = FALSE /\ txbuserr' = FALSE
  /\ cmplt' = NoCmplt
  /\ hw' = 0 /\ filling' = FALSE /\ running' = TRUE
  /\ ioc' = FALSE /\ err' = FALSE
  /\ seen' = frames /\ behind' = 0 /\ disturbed' = FALSE
  /\ UNCHANGED <<queue, sigbus, counters, data, head, tail, budget, frame, frames, errors, delivered>>

(* _xtemac_recover stops and resets both channels, whichever failed, and     *)
(* _ethdma_rxsgcyclic empties the queue, lays out a fresh ring and starts at *)
(* its head.                                                                 *)
xtemac_recover ==
  /\ Step("recover", "unblock")
  /\ rxbuserr' = FALSE /\ txbuserr' = FALSE
  /\ eth_rxhead' = 0 /\ eth_rxtail' = 0
  /\ cmplt' = NoCmplt
  /\ hw' = 0 /\ filling' = FALSE /\ running' = TRUE
  /\ ioc' = FALSE /\ err' = FALSE
  /\ seen' = frames /\ behind' = 0 /\ disturbed' = FALSE
  /\ UNCHANGED <<sigbus, counters, data, head, tail, budget, frame, frames, errors, delivered>>

(* Lines 109-111: unblocking takes a pending SIGBUS, even one raised since. *)
eth_service_unblock ==
  /\ Step("unblock", "idle")
  /\ sigbus' = FALSE
  /\ UNCHANGED <<queue, counters, rxbuserr, txbuserr, cmplt, data, engine, head, tail, budget, frame, history>>

service ==
  \/ rxqcount_head \/ rxqcount_tail
  \/ rxsgcmplt_head \/ rxsgcmplt_tail \/ rxsgcmplt_status
  \/ rxsgcmplt_clear \/ rxsgcmplt_copy \/ rxsgcmplt_store
  \/ eth_service_poll \/ xtemac_recover \/ eth_service_unblock

Next == Fill \/ Complete \/ BusError \/ TxBusError \/ onethdma_rxirq \/ service

Spec == Init /\ [][Next]_vars

(* The main loop runs eth_service for ever and a raised interrupt is taken. *)
FairSpec == Spec /\ WF_vars(service) /\ WF_vars(onethdma_rxirq)

-----------------------------------------------------------------------------
TypeOK ==
  /\ eth_rxhead \in BDs /\ eth_rxtail \in BDs
  /\ rxcount \in Nat /\ lostcount \in Nat
  /\ rxbuserr \in BOOLEAN /\ txbuserr \in BOOLEAN /\ sigbus \in BOOLEAN
  /\ cmplt \in [BDs -> BOOLEAN] /\ data \in [BDs -> Nat]
  /\ hw \in BDs /\ filling \in BOOLEAN /\ running \in BOOLEAN
  /\ ioc \in BOOLEAN /\ err \in BOOLEAN
  /\ pc \in {"idle", "qtail", "loop", "tail", "status", "clear", "copy", "store", "poll",
             "recover", "unblock"}
  /\ head \in BDs /\ tail \in BDs /\ budget \in BDs /\ frame \in Nat
  /\ frames \in Nat /\ seen \in Nat /\ errors \in Nat /\ delivered \in Nat
  /\ behind \in BDs /\ disturbed \in BOOLEAN

(* Addition round the ring. *)
Plus(b, n) == IF b + n >= XDMA2_MAX_BDS THEN b + n - XDMA2_MAX_BDS ELSE b + n

(* Head counts interrupts and the engine counts frames: through any errors and *)
(* recoveries the head is behind the engine by the frames that have shared an  *)
(* interrupt since the ring was laid out, and by nothing else.                 *)
HeadFollowsEngine ==
  running => hw = Plus(Plus(eth_rxhead, behind), IF ioc THEN 1 ELSE 0)

(* _ethdma_rxsgcmplt gives lwIP the oldest frame of the queue, each in its turn, *)
(* whatever handler and engine do between its loads and its store, as long as    *)
(* every frame has had an interrupt of its own and the engine has not overtaken  *)
(* the read.                                                                     *)
ReadsOldest ==
  [][rxsgcmplt_store /\ ~disturbed =>
       delivered' = seen - QCount(eth_rxhead, eth_rxtail) + 1]_vars

(* eth_service.c:60 "lookup for inbound traffic - it shall empty rx queue". *)
QueueEmptied == eth_rxhead # eth_rxtail ~> eth_rxhead = eth_rxtail

(* The same while frames have interrupts of their own and no read is overtaken: *)
(* then no BD of the queue is ever without its status.                          *)
QueueDrains == eth_rxhead # eth_rxtail ~> (eth_rxhead = eth_rxtail \/ disturbed)

(* eth_service.c:106 "recover ethernet transceiver": a bus error stops the engine *)
(* only until eth_service has recovered it; the signal of a single error is never *)
(* lost.                                                                          *)
RecoversFromBusError == ~running ~> (running \/ errors > 1)

(* The handler of the S2MM channel and _ethdma_rxsgcyclic keep the indices in *)
(* the ring, and HeadFollowsEngine.                                            *)
HeadInv == TypeOK /\ HeadFollowsEngine

=============================================================================
