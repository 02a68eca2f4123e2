----------------------------- MODULE EthRxProofs -----------------------------
(******************************************************************************)
(* The Ethernet receive ring, for every ring size and any number of frames,   *)
(* shared interrupts and bus errors: eth_rxhead is behind the engine by the   *)
(* frames that shared an interrupt and by nothing else, and a read that       *)
(* nothing has disturbed gives lwIP the oldest frame of the queue.            *)
(*                                                                            *)
(* HeadFollowsEngine speaks of a running engine; the proofs need it of a      *)
(* halted one too (HeadOnEngine).  ReadsOldest needs what the buffers hold    *)
(* (QueueHolds) and that the reader's tail is still the queue's               *)
(* (ReadIsOldest).  Both are claimed only while nothing has disturbed the     *)
(* queue; they are true again when it is found empty, and after a recovery.   *)
(******************************************************************************)
EXTENDS EthRx, TLAPS

Queued == QCount(eth_rxhead, eth_rxtail)

(* The engine is where HeadFollowsEngine says, running or not. *)
HeadOnEngine == hw = Plus(Plus(eth_rxhead, behind), IF ioc THEN 1 ELSE 0)

(* The handler has seen every frame but those whose interrupt is pending: one, *)
(* unless frames have shared an interrupt.                                     *)
SeenFrames ==
  /\ ~ioc => frames = seen
  /\ ~disturbed => behind = 0 /\ (ioc => frames = seen + 1)

HeadIInv == TypeOK /\ HeadOnEngine /\ SeenFrames

(* How many frames the handler has queued since it queued BD b. *)
Back(b) == IF eth_rxhead > b THEN eth_rxhead - b - 1
                             ELSE eth_rxhead + XDMA2_MAX_BDS - b - 1

(* The buffers hold the newest frames in ring order, but for the one the engine *)
(* is writing.                                                                  *)
QueueHolds ==
  /\ \A b \in BDs : Back(b) < Queued /\ ~(filling /\ b = hw) => data[b] = seen - Back(b)
  /\ ioc => data[eth_rxhead] = seen + 1

(* The frame being written is the next one. *)
WritesNext == filling => data[hw] = frames + 1

(* The read goes on with a frame in the queue, as the handler never empties it. *)
ReadHasFrame ==
  /\ pc = "tail" /\ eth_rxhead = eth_rxtail => head = eth_rxhead
  /\ Reading => eth_rxhead # eth_rxtail

(* An undisturbed read has the oldest frame, and the engine is not writing it. *)
ReadIsOldest ==
  Reading =>
    /\ tail = eth_rxtail
    /\ ~(filling /\ hw = eth_rxtail)
    /\ pc = "store" => frame = seen - Queued + 1

FifoIInv ==
  /\ HeadIInv /\ WritesNext /\ ReadHasFrame
  /\ ~disturbed => QueueHolds /\ ReadIsOldest

-----------------------------------------------------------------------------
(* The remainder of eth_rxqcount is the distance round the ring. *)
LEMMA QCountIs ==
  ASSUME NEW h \in BDs, NEW t \in BDs
  PROVE  /\ QCount(h, t) = IF h >= t THEN h - t ELSE h + XDMA2_MAX_BDS - t
         /\ QCount(h, t) \in BDs
<1>1. CASE h >= t
  <2>1. h + XDMA2_MAX_BDS - t = (h - t) + XDMA2_MAX_BDS
    BY RingAssumption DEF BDs
  <2>2. (h - t) % XDMA2_MAX_BDS = h - t
    BY <1>1, RingAssumption DEF BDs
  <2>3. ((h - t) + XDMA2_MAX_BDS) % XDMA2_MAX_BDS = h - t
    BY <1>1, <2>2, RingAssumption DEF BDs
  <2> QED
    BY <1>1, <2>1, <2>3, RingAssumption DEF QCount, BDs
<1>2. CASE ~(h >= t)
  <2>1. h + XDMA2_MAX_BDS - t \in 0..(XDMA2_MAX_BDS - 1)
    BY <1>2, RingAssumption DEF BDs
  <2>2. \A x \in 0..(XDMA2_MAX_BDS - 1) : x % XDMA2_MAX_BDS = x
    BY RingAssumption
  <2> QED
    BY <1>2, <2>1, <2>2 DEF QCount, BDs
<1> QED
  BY <1>1, <1>2

(* The wrap of an index stays in the ring and is another BD. *)
LEMMA SuccType == \A b \in BDs : Succ(b) \in BDs /\ Succ(b) # b
  BY RingAssumption DEF BDs, Succ

(* Going one further round the ring, from the head or from the distance. *)
LEMMA PlusFacts ==
  ASSUME NEW b \in BDs, NEW n \in BDs
  PROVE  /\ Plus(b, n) \in BDs
         /\ Plus(b, 0) = b /\ Plus(b, 1) = Succ(b)
         /\ Plus(Succ(b), n) = Succ(Plus(b, n))
         /\ Plus(b, Succ(n)) = Succ(Plus(b, n))
  BY RingAssumption DEF BDs, Plus, Succ

(* The queue: empty for equal indices, full when the head is about to reach the *)
(* tail, its oldest frame the one at the tail; the head is never in it.         *)
LEMMA QueuedFacts ==
  ASSUME eth_rxhead \in BDs, eth_rxtail \in BDs
  PROVE  /\ Queued \in 0..(XDMA2_MAX_BDS - 1)
         /\ (Queued = 0) <=> (eth_rxhead = eth_rxtail)
         /\ (Queued = XDMA2_MAX_BDS - 1) <=> (Succ(eth_rxhead) = eth_rxtail)
         /\ eth_rxhead # eth_rxtail => Queued = Back(eth_rxtail) + 1
         /\ \A b \in BDs : Back(b) \in 0..(XDMA2_MAX_BDS - 1)
         /\ Back(eth_rxhead) = XDMA2_MAX_BDS - 1
<1>1. Queued = IF eth_rxhead >= eth_rxtail THEN eth_rxhead - eth_rxtail
                                           ELSE eth_rxhead + XDMA2_MAX_BDS - eth_rxtail
  BY QCountIs DEF Queued
<1> QED
  BY <1>1, RingAssumption DEF BDs, Succ, Back

(* A completion interrupt: one more frame queued, the others one older. *)
LEMMA IrqQueued ==
  ASSUME TypeOK, onethdma_rxirq, ioc
  PROVE  /\ eth_rxhead' \in BDs /\ eth_rxtail' \in BDs /\ eth_rxhead' # eth_rxtail'
         /\ Queued' = IF Queued = XDMA2_MAX_BDS - 1 THEN Queued ELSE Queued + 1
         /\ \A b \in BDs : Back(b)' = IF b = eth_rxhead THEN 0 ELSE Back(b) + 1
<1>1. eth_rxhead \in BDs /\ eth_rxtail \in BDs /\ eth_rxhead' = Succ(eth_rxhead)
      /\ eth_rxtail' = IF Succ(eth_rxhead) = eth_rxtail THEN Succ(eth_rxtail) ELSE eth_rxtail
  BY DEF TypeOK, onethdma_rxirq
<1>2. eth_rxhead' \in BDs /\ eth_rxtail' \in BDs
  BY <1>1, SuccType
<1>3. eth_rxhead' # eth_rxtail'
  BY <1>1, RingAssumption DEF BDs, Succ
<1>4. Queued' = IF eth_rxhead' >= eth_rxtail' THEN eth_rxhead' - eth_rxtail'
                                              ELSE eth_rxhead' + XDMA2_MAX_BDS - eth_rxtail'
  BY <1>2, QCountIs DEF Queued
<1>5. Queued = IF eth_rxhead >= eth_rxtail THEN eth_rxhead - eth_rxtail
                                           ELSE eth_rxhead + XDMA2_MAX_BDS - eth_rxtail
  BY <1>1, QCountIs DEF Queued
<1>6. Queued' = IF Queued = XDMA2_MAX_BDS - 1 THEN Queued ELSE Queued + 1
  BY <1>1, <1>4, <1>5, RingAssumption DEF BDs, Succ
<1>7. \A b \in BDs : Back(b)' = IF b = eth_rxhead THEN 0 ELSE Back(b) + 1
  BY <1>1, RingAssumption DEF BDs, Succ, Back
<1> QED
  BY <1>2, <1>3, <1>6, <1>7

-----------------------------------------------------------------------------
LEMMA InitHead == Init => HeadIInv
<1> SUFFICES ASSUME Init PROVE HeadIInv
  OBVIOUS
<1>1. cmplt \in [BDs -> BOOLEAN]
  BY Zenon DEF Init, NoCmplt
<1>2. data \in [BDs -> Nat] /\ 0 \in BDs
  BY RingAssumption DEF Init, BDs
<1>3. /\ rxbuserr \in BOOLEAN /\ txbuserr \in BOOLEAN /\ sigbus \in BOOLEAN
      /\ filling \in BOOLEAN /\ running \in BOOLEAN /\ ioc \in BOOLEAN /\ err \in BOOLEAN
      /\ disturbed \in BOOLEAN
  BY Zenon DEF Init
<1>4. TypeOK
  BY <1>1, <1>2, <1>3 DEF Init, TypeOK
<1>5. HeadOnEngine
  BY <1>2, PlusFacts DEF Init, HeadOnEngine
<1> QED
  BY <1>4, <1>5 DEF Init, HeadIInv, SeenFrames

(* The steps of the engine. *)
LEMMA EngineHead ==
  ASSUME HeadIInv, Fill \/ Complete \/ BusError \/ TxBusError
  PROVE  HeadIInv'
<1> USE DEF HeadIInv, TypeOK
<1>1. CASE Fill
  <2>1. disturbed' \in BOOLEAN /\ filling' \in BOOLEAN /\ (~disturbed' => ~disturbed)
    BY <1>1, Zenon DEF Fill
  <2>2. frames + 1 \in Nat
    OBVIOUS
  <2>3. data' \in [BDs -> Nat]
    BY <1>1, <2>2 DEF Fill
  <2> QED
    BY <1>1, <2>1, <2>3 DEF Fill, HeadOnEngine, SeenFrames, queue, counters, signals, main
<1>2. CASE Complete
  <2>1. cmplt' \in [BDs -> BOOLEAN]
    BY <1>2, Zenon DEF Complete
  <2>2. /\ hw' \in BDs /\ hw' = Succ(hw) /\ behind' \in BDs /\ frames' = frames + 1
        /\ behind' = IF ioc THEN Succ(behind) ELSE behind
    BY <1>2, SuccType DEF Complete
  <2>3. /\ ioc' /\ ioc' \in BOOLEAN /\ filling' \in BOOLEAN /\ disturbed' \in BOOLEAN
        /\ (~disturbed' => ~disturbed /\ ~ioc)
    BY <1>2, Zenon DEF Complete
  <2>4. TypeOK'
    BY <1>2, <2>1, <2>2, <2>3 DEF Complete, queue, counters, signals, main
  <2>5. HeadOnEngine'
    <3>1. eth_rxhead' = eth_rxhead
      BY <1>2 DEF Complete, queue
    <3>2. HeadOnEngine' <=> Succ(hw) = Plus(Plus(eth_rxhead, behind'), 1)
      BY <2>2, <2>3, <3>1 DEF HeadOnEngine, Plus
    <3>3. CASE ioc
      <4>1. Plus(eth_rxhead, behind) \in BDs /\ hw = Plus(Plus(eth_rxhead, behind), 1)
            /\ Plus(eth_rxhead, behind') = Succ(Plus(eth_rxhead, behind))
        BY <2>2, <3>3, PlusFacts DEF HeadOnEngine
      <4>2. hw = Succ(Plus(eth_rxhead, behind)) /\ hw \in BDs
        BY <4>1, PlusFacts
      <4> QED
        BY <3>2, <4>1, <4>2, PlusFacts
    <3>4. CASE ~ioc
      <4>1. Plus(eth_rxhead, behind) \in BDs /\ hw = Plus(Plus(eth_rxhead, behind), 0)
        BY <3>4, PlusFacts DEF HeadOnEngine
      <4>2. hw = Plus(eth_rxhead, behind)
        BY <4>1, PlusFacts
      <4> QED
        BY <2>2, <3>2, <3>4, <4>1, <4>2, PlusFacts
    <3> QED
      BY <3>3, <3>4
  <2>6. SeenFrames'
    <3>1. seen' = seen /\ seen \in Nat
      BY <1>2 DEF Complete
    <3> QED
      BY <2>2, <2>3, <3>1 DEF SeenFrames
  <2> QED
    BY <2>4, <2>5, <2>6
<1>3. CASE BusError
  <2>1. running' \in BOOLEAN /\ err' \in BOOLEAN
    BY <1>3, Zenon DEF BusError
  <2>2. TypeOK'
    BY <1>3, <2>1 DEF BusError, queue, counters, signals, main
  <2> QED
    BY <1>3, <2>2 DEF BusError, HeadOnEngine, SeenFrames, queue
<1>4. CASE TxBusError
  <2>1. txbuserr' \in BOOLEAN /\ sigbus' \in BOOLEAN
    BY <1>4, Zenon DEF TxBusError
  <2>2. TypeOK'
    BY <1>4, <2>1 DEF TxBusError, queue, counters, engine, main
  <2> QED
    BY <1>4, <2>2 DEF TxBusError, HeadOnEngine, SeenFrames, queue, engine
<1> QED
  BY <1>1, <1>2, <1>3, <1>4

(* onethdma_rxirq *)
LEMMA IrqHead ==
  ASSUME HeadIInv, onethdma_rxirq
  PROVE  HeadIInv'
<1> USE DEF HeadIInv, TypeOK
<1>1. /\ ioc' \in BOOLEAN /\ err' \in BOOLEAN /\ sigbus' \in BOOLEAN /\ rxbuserr' \in BOOLEAN
      /\ disturbed' \in BOOLEAN /\ (~disturbed' => ~disturbed) /\ ~ioc'
  BY Zenon DEF onethdma_rxirq
<1>2. rxcount' \in Nat /\ lostcount' \in Nat /\ seen' \in Nat
  BY DEF onethdma_rxirq
<1>3. eth_rxhead' \in BDs /\ eth_rxtail' \in BDs
  <2>1. CASE ioc
    BY <2>1, IrqQueued
  <2>2. CASE ~ioc
    BY <2>2 DEF onethdma_rxirq
  <2> QED
    BY <2>1, <2>2
<1>4. TypeOK'
  BY <1>1, <1>2, <1>3 DEF onethdma_rxirq, main
<1>5. HeadOnEngine'
  <2>1. HeadOnEngine' <=> hw = Plus(Plus(eth_rxhead', behind), 0)
    BY <1>1 DEF onethdma_rxirq, HeadOnEngine, Plus
  <2>2. Plus(eth_rxhead, behind) \in BDs /\ Plus(eth_rxhead', behind) \in BDs
    BY <1>3, PlusFacts
  <2>3. CASE ioc
    <3>1. eth_rxhead' = Succ(eth_rxhead) /\ hw = Plus(Plus(eth_rxhead, behind), 1)
      BY <2>3 DEF onethdma_rxirq, HeadOnEngine
    <3> QED
      BY <2>1, <2>2, <3>1, PlusFacts
  <2>4. CASE ~ioc
    BY <2>1, <2>4 DEF onethdma_rxirq, HeadOnEngine
  <2> QED
    BY <2>3, <2>4
<1>6. SeenFrames'
  BY <1>1 DEF onethdma_rxirq, SeenFrames
<1> QED
  BY <1>4, <1>5, <1>6

(* The steps of lwip_ethInput and of the recovery. *)
LEMMA ServiceHead ==
  ASSUME HeadIInv, service
  PROVE  HeadIInv'
<1> USE DEF HeadIInv, TypeOK, Step, HeadOnEngine, SeenFrames
<1>1. CASE rxqcount_head
  BY <1>1 DEF rxqcount_head, queue, counters, signals, engine, history
<1>2. CASE rxqcount_tail
  <2>1. disturbed' \in BOOLEAN /\ (~disturbed' => ~disturbed \/ (behind = 0 /\ ~ioc))
    BY <1>2, Zenon DEF rxqcount_tail
  <2> QED
    BY <1>2, <2>1, QCountIs DEF rxqcount_tail, queue, counters, signals, engine
<1>3. CASE rxsgcmplt_head
  <2>1. budget' \in BDs
    BY <1>3, RingAssumption DEF rxsgcmplt_head, BDs
  <2> QED
    BY <1>3, <2>1 DEF rxsgcmplt_head, queue, counters, signals, engine, history
<1>4. CASE rxsgcmplt_tail
  <2>1. disturbed' \in BOOLEAN /\ (~disturbed' => ~disturbed)
    BY <1>4, Zenon DEF rxsgcmplt_tail
  <2> QED
    BY <1>4, <2>1 DEF rxsgcmplt_tail, queue, counters, signals, engine
<1>5. CASE rxsgcmplt_status
  BY <1>5 DEF rxsgcmplt_status, queue, counters, signals, engine, history
<1>6. CASE rxsgcmplt_clear
  <2>1. cmplt' \in [BDs -> BOOLEAN]
    BY <1>6, Zenon DEF rxsgcmplt_clear
  <2> QED
    BY <1>6, <2>1 DEF rxsgcmplt_clear, queue, counters, signals, engine, history
<1>7. CASE rxsgcmplt_copy
  BY <1>7 DEF rxsgcmplt_copy, queue, counters, signals, engine, history
<1>8. CASE rxsgcmplt_store
  <2>1. eth_rxtail' \in BDs
    BY <1>8, SuccType DEF rxsgcmplt_store
  <2> QED
    BY <1>8, <2>1 DEF rxsgcmplt_store, counters, signals, engine
<1>9. CASE eth_service_poll
  BY <1>9 DEF eth_service_poll, queue, counters, signals, engine, history
<1>10. CASE xtemac_recover
  <2>1. cmplt' \in [BDs -> BOOLEAN]
    BY <1>10, Zenon DEF xtemac_recover, NoCmplt
  <2>2. 0 \in BDs
    BY RingAssumption DEF BDs
  <2>3. /\ rxbuserr' \in BOOLEAN /\ txbuserr' \in BOOLEAN
        /\ filling' \in BOOLEAN /\ running' \in BOOLEAN /\ ioc' \in BOOLEAN /\ err' \in BOOLEAN
        /\ disturbed' \in BOOLEAN /\ ~ioc'
    BY <1>10, Zenon DEF xtemac_recover
  <2>4. TypeOK'
    BY <1>10, <2>1, <2>2, <2>3 DEF xtemac_recover, counters
  <2>5. HeadOnEngine'
    <3>1. Plus(Plus(0, 0), 0) = 0
      BY <2>2, PlusFacts
    <3> QED
      BY <1>10, <2>3, <3>1 DEF xtemac_recover, Plus
  <2>6. SeenFrames'
    BY <1>10, <2>3 DEF xtemac_recover
  <2> QED
    BY <2>4, <2>5, <2>6
<1>11. CASE eth_service_unblock
  BY <1>11 DEF eth_service_unblock, queue, counters, engine, history
<1> QED
  BY <1>1, <1>2, <1>3, <1>4, <1>5, <1>6, <1>7, <1>8, <1>9, <1>10, <1>11 DEF service

LEMMA NextHead == HeadIInv /\ [Next]_vars => HeadIInv'
<1> SUFFICES ASSUME HeadIInv, [Next]_vars PROVE HeadIInv'
  OBVIOUS
<1>1. CASE UNCHANGED vars
  BY <1>1 DEF HeadIInv, TypeOK, HeadOnEngine, SeenFrames, vars, queue, counters, signals,
              engine, main, history
<1> QED
  BY <1>1, EngineHead, IrqHead, ServiceHead DEF Next

(* onethdma_rxirq counts interrupts, the engine counts BDs: for every ring size, *)
(* and through shared interrupts, bus errors and recoveries, the head is behind  *)
(* the engine by the frames that had no interrupt of their own, and no more.     *)
THEOREM HeadHolds == Spec => []HeadInv
<1>1. HeadIInv => HeadInv
  BY DEF HeadIInv, HeadOnEngine, HeadInv, HeadFollowsEngine
<1>2. HeadIInv /\ [Next]_vars => HeadIInv'
  BY NextHead
<1> QED
  BY InitHead, <1>1, <1>2, PTL DEF Spec

-----------------------------------------------------------------------------
(* What the proofs about the queue use of the types. *)
LEMMA QueueTypes ==
  ASSUME HeadIInv
  PROVE  /\ eth_rxhead \in BDs /\ eth_rxtail \in BDs /\ hw \in BDs /\ tail \in BDs
         /\ data \in [BDs -> Nat] /\ seen \in Nat /\ frames \in Nat /\ frame \in Nat
         /\ ioc \in BOOLEAN /\ filling \in BOOLEAN /\ disturbed \in BOOLEAN
  BY DEF HeadIInv, TypeOK

(* While nothing is disturbed the engine is on the head's BD, or one further when *)
(* its interrupt is not taken yet.                                                *)
LEMMA InStep ==
  ASSUME HeadIInv, ~disturbed
  PROVE  /\ hw = IF ioc THEN Succ(eth_rxhead) ELSE eth_rxhead
         /\ frames = IF ioc THEN seen + 1 ELSE seen
<1>1. behind = 0 /\ eth_rxhead \in BDs
  BY QueueTypes DEF HeadIInv, SeenFrames
<1>2. Plus(eth_rxhead, behind) = eth_rxhead
  BY <1>1, PlusFacts DEF BDs
<1>3. hw = IF ioc THEN Succ(eth_rxhead) ELSE eth_rxhead
  BY <1>1, <1>2, PlusFacts DEF HeadIInv, HeadOnEngine
<1> QED
  BY <1>3 DEF HeadIInv, SeenFrames

LEMMA InitFifo == Init => FifoIInv
<1> SUFFICES ASSUME Init PROVE FifoIInv
  OBVIOUS
<1>1. HeadIInv
  BY InitHead
<1>2. Queued = 0 /\ \A b \in BDs : Back(b) \in 0..(XDMA2_MAX_BDS - 1)
  BY <1>1, QueueTypes, QueuedFacts DEF Init
<1>3. QueueHolds
  BY <1>2, RingAssumption DEF Init, QueueHolds
<1> QED
  BY <1>1, <1>3 DEF Init, FifoIInv, WritesNext, ReadHasFrame, ReadIsOldest, Reading

(* The parts that hold whatever has happened. *)
LEMMA EverNext ==
  ASSUME HeadIInv, WritesNext, ReadHasFrame, Next
  PROVE  WritesNext' /\ ReadHasFrame'
<1> USE QueueTypes DEF WritesNext, ReadHasFrame, Reading
<1>1. CASE Fill
  BY <1>1 DEF Fill, queue, main
<1>2. CASE Complete
  BY <1>2 DEF Complete, queue, main
<1>3. CASE BusError \/ TxBusError
  BY <1>3 DEF BusError, TxBusError, queue, main, engine
<1>4. CASE onethdma_rxirq
  <2>1. CASE ioc
    <3>1. eth_rxhead' # eth_rxtail'
      BY <1>4, <2>1, IrqQueued DEF HeadIInv
    <3> QED
      BY <1>4, <3>1 DEF onethdma_rxirq, main
  <2>2. CASE ~ioc
    BY <1>4, <2>2 DEF onethdma_rxirq, main
  <2> QED
    BY <2>1, <2>2
<1>5. CASE rxsgcmplt_tail
  BY <1>5 DEF rxsgcmplt_tail, Step, queue, engine
<1>6. CASE rxsgcmplt_store \/ xtemac_recover
  BY <1>6 DEF rxsgcmplt_store, xtemac_recover, Step, engine
<1>7. CASE rxqcount_head \/ rxqcount_tail \/ rxsgcmplt_head
  BY <1>7 DEF rxqcount_head, rxqcount_tail, rxsgcmplt_head, Step, queue, engine, history
<1>8. CASE \/ rxsgcmplt_status \/ rxsgcmplt_clear \/ rxsgcmplt_copy
           \/ eth_service_poll \/ eth_service_unblock
  BY <1>8 DEF rxsgcmplt_status, rxsgcmplt_clear, rxsgcmplt_copy, eth_service_poll,
              eth_service_unblock, Step, queue, engine, history
<1> QED
  BY <1>1, <1>2, <1>3, <1>4, <1>5, <1>6, <1>7, <1>8 DEF Next, service

(* An empty queue outside a read holds what it should. *)
LEMMA EmptyHolds ==
  ASSUME HeadIInv', eth_rxhead' = eth_rxtail', ~ioc', ~Reading'
  PROVE  QueueHolds' /\ ReadIsOldest'
<1>1. eth_rxhead' \in BDs
  BY DEF HeadIInv, TypeOK
<1>2. QCount(eth_rxhead', eth_rxhead') = 0
  BY <1>1, QCountIs DEF BDs
<1>3. Queued' = 0
  BY <1>2 DEF Queued, QCount
<1>4. \A b \in BDs : Back(b)' \in Nat
  <2>1. \A h, b \in BDs : (IF h > b THEN h - b - 1 ELSE h + XDMA2_MAX_BDS - b - 1) \in Nat
    BY RingAssumption DEF BDs
  <2> QED
    BY <1>1, <2>1 DEF Back
<1> QED
  BY <1>3, <1>4 DEF QueueHolds, ReadIsOldest

(* The engine starts to write a frame: into the head's buffer, or, with an *)
(* interrupt pending, into the next, which is the oldest of a full queue.  *)
LEMMA FillFifo ==
  ASSUME HeadIInv, ~disturbed, ReadHasFrame, QueueHolds, ReadIsOldest, Fill, ~disturbed'
  PROVE  QueueHolds' /\ ReadIsOldest'
<1>1. /\ UNCHANGED <<queue, hw, ioc, frames, seen, pc, head, tail, frame>>
      /\ filling' = TRUE /\ ~filling
      /\ data' = [data EXCEPT ![hw] = frames + 1]
  BY DEF Fill, main
<1>2. Queued' = Queued /\ (Reading' <=> Reading) /\ \A b : Back(b)' = Back(b)
  BY <1>1 DEF queue, Queued, Reading, Back, QCount
<1>3. QueueHolds'
  <2>1. ioc => hw # eth_rxhead /\ data[eth_rxhead] = seen + 1
    BY InStep, QueueTypes, SuccType DEF QueueHolds
  <2> QED
    BY <1>1, <1>2, <2>1, QueueTypes DEF QueueHolds, queue
<1>4. ReadIsOldest'
  <2>1. ~(Reading /\ hw = tail)
    BY Zenon DEF Fill
  <2> QED
    BY <1>1, <1>2, <2>1 DEF ReadIsOldest, queue
<1> QED
  BY <1>3, <1>4

(* The engine completes a frame: it is the one after those seen. *)
LEMMA CompleteFifo ==
  ASSUME HeadIInv, ~disturbed, WritesNext, QueueHolds, ReadIsOldest, Complete, ~disturbed'
  PROVE  QueueHolds' /\ ReadIsOldest'
<1>1. /\ UNCHANGED <<queue, data, seen, pc, head, tail, frame>>
      /\ filling /\ filling' = FALSE /\ ~ioc
  BY Zenon DEF Complete, main
<1>2. Queued' = Queued /\ (Reading' <=> Reading) /\ \A b : Back(b)' = Back(b)
  BY <1>1 DEF queue, Queued, Reading, Back, QCount
<1>3. hw = eth_rxhead /\ frames = seen
  BY <1>1, InStep
<1>4. Queued \in 0..(XDMA2_MAX_BDS - 1) /\ Back(eth_rxhead) = XDMA2_MAX_BDS - 1
  BY QueueTypes, QueuedFacts, RingAssumption
<1>5. QueueHolds'
  <2>1. \A b \in BDs : Back(b) < Queued => data[b] = seen - Back(b)
    BY <1>3, <1>4, RingAssumption DEF QueueHolds
  <2>2. data[eth_rxhead] = seen + 1
    BY <1>1, <1>3 DEF WritesNext
  <2> QED
    BY <1>1, <1>2, <2>1, <2>2 DEF QueueHolds, queue
<1>6. ReadIsOldest'
  BY <1>1, <1>2 DEF ReadIsOldest, queue
<1> QED
  BY <1>5, <1>6

(* The handler: a completion queues the frame at the head; an error alone moves *)
(* nothing.                                                                     *)
LEMMA IrqFifo ==
  ASSUME HeadIInv, ~disturbed, QueueHolds, ReadIsOldest, onethdma_rxirq, ~disturbed'
  PROVE  QueueHolds' /\ ReadIsOldest'
<1>1. /\ UNCHANGED <<data, hw, filling, frames, pc, head, tail, frame>>
      /\ ioc' = FALSE
      /\ seen' = IF ioc THEN frames ELSE seen
  BY DEF onethdma_rxirq, main
<1>2. Reading' <=> Reading
  BY <1>1 DEF Reading
<1>3. CASE ioc
  <2>1. /\ seen' = seen + 1 /\ hw = Succ(eth_rxhead) /\ hw # eth_rxhead
        /\ data[eth_rxhead] = seen + 1
    BY <1>1, <1>3, InStep, QueueTypes, SuccType DEF QueueHolds
  <2>2. /\ Queued' = IF Queued = XDMA2_MAX_BDS - 1 THEN Queued ELSE Queued + 1
        /\ \A b \in BDs : Back(b)' = IF b = eth_rxhead THEN 0 ELSE Back(b) + 1
    BY <1>3, IrqQueued DEF HeadIInv
  <2>3. /\ Queued \in 0..(XDMA2_MAX_BDS - 1)
        /\ (Queued = XDMA2_MAX_BDS - 1) <=> (Succ(eth_rxhead) = eth_rxtail)
        /\ \A b \in BDs : Back(b) \in 0..(XDMA2_MAX_BDS - 1)
    BY QueueTypes, QueuedFacts
  <2>4. Reading => Queued # XDMA2_MAX_BDS - 1
    <3>1. ~(Succ(eth_rxhead) = eth_rxtail /\ Reading)
      BY <1>3, Zenon DEF onethdma_rxirq
    <3> QED
      BY <2>3, <3>1
  <2>5. Queued # XDMA2_MAX_BDS - 1 => eth_rxtail' = eth_rxtail
    BY <1>3, <2>3 DEF onethdma_rxirq
  <2>6. QueueHolds'
    <3>1. ASSUME NEW b \in BDs, Back(b)' < Queued', ~(filling /\ b = hw)
          PROVE  data[b] = seen' - Back(b)'
      <4>1. CASE b = eth_rxhead
        BY <2>1, <2>2, <4>1, QueueTypes
      <4>2. CASE b # eth_rxhead
        <5>1. Back(b) \in Nat /\ Back(b)' = Back(b) + 1 /\ Back(b) < Queued
          BY <2>2, <2>3, <3>1, <4>2, RingAssumption
        <5>2. data[b] = seen - Back(b)
          BY <3>1, <5>1 DEF QueueHolds
        <5> QED
          BY <2>1, <5>1, <5>2, QueueTypes
      <4> QED
        BY <4>1, <4>2
    <3> QED
      BY <1>1, <3>1 DEF QueueHolds
  <2>7. ReadIsOldest'
    <3>1. seen \in Nat
      BY QueueTypes
    <3> QED
      BY <1>1, <1>2, <2>1, <2>2, <2>3, <2>4, <2>5, <3>1 DEF ReadIsOldest
  <2> QED
    BY <2>6, <2>7
<1>4. CASE ~ioc
  <2>1. UNCHANGED <<eth_rxhead, eth_rxtail, seen>>
    BY <1>4 DEF onethdma_rxirq
  <2>2. Queued' = Queued /\ \A b : Back(b)' = Back(b)
    BY <2>1 DEF Queued, Back, QCount
  <2> QED
    BY <1>1, <1>2, <1>4, <2>1, <2>2 DEF QueueHolds, ReadIsOldest
<1> QED
  BY <1>3, <1>4

(* Steps that leave ring and engine alone keep the claim about the buffers. *)
LEMMA QuietQueue ==
  ASSUME QueueHolds, UNCHANGED <<queue, data, hw, filling, ioc, frames, seen>>
  PROVE  Queued' = Queued /\ QueueHolds'
<1>1. Queued' = Queued /\ \A b : Back(b)' = Back(b)
  BY DEF Queued, Back, QCount, queue
<1> QED
  BY <1>1 DEF QueueHolds, queue

(* The store takes the oldest frame out of the queue. *)
LEMMA StoreFifo ==
  ASSUME HeadIInv, ReadHasFrame, QueueHolds, ReadIsOldest, rxsgcmplt_store
  PROVE  /\ QueueHolds' /\ ReadIsOldest'
         /\ delivered' = seen - Queued + 1
<1>1. /\ UNCHANGED <<eth_rxhead, data, hw, filling, ioc, frames, seen, tail, frame>>
      /\ pc = "store" /\ pc' = "loop" /\ eth_rxtail' = Succ(tail) /\ delivered' = frame
  BY DEF rxsgcmplt_store, Step, engine
<1>2. eth_rxhead # eth_rxtail /\ Reading /\ ~Reading'
  BY <1>1 DEF ReadHasFrame, Reading
<1>3. tail = eth_rxtail /\ frame = seen - Queued + 1
  BY <1>1, <1>2 DEF ReadIsOldest
<1>4. /\ eth_rxhead \in BDs /\ eth_rxtail \in BDs
      /\ eth_rxhead' = eth_rxhead /\ eth_rxtail' = Succ(eth_rxtail) /\ Succ(eth_rxtail) \in BDs
  BY <1>1, <1>3, QueueTypes, SuccType
<1>5. Queued = IF eth_rxhead >= eth_rxtail THEN eth_rxhead - eth_rxtail
                                           ELSE eth_rxhead + XDMA2_MAX_BDS - eth_rxtail
  BY <1>4, QCountIs DEF Queued
<1>6. Queued' = QCount(eth_rxhead, Succ(eth_rxtail))
  BY <1>4 DEF Queued, QCount
<1>7. Queued' = IF eth_rxhead >= Succ(eth_rxtail)
                  THEN eth_rxhead - Succ(eth_rxtail)
                  ELSE eth_rxhead + XDMA2_MAX_BDS - Succ(eth_rxtail)
  BY <1>4, <1>6, QCountIs
<1>8. Queued' < Queued /\ Queued \in Nat /\ Queued' \in Nat
  BY <1>2, <1>4, <1>5, <1>7, RingAssumption DEF BDs, Succ
<1>9. \A b \in BDs : Back(b) \in Nat /\ Back(b)' = Back(b)
  BY <1>1, QueueTypes, QueuedFacts DEF Back
<1>10. \A b \in BDs : Back(b)' < Queued' => Back(b) < Queued
  BY <1>8, <1>9
<1>11. QueueHolds'
  BY <1>1, <1>9, <1>10 DEF QueueHolds
<1> QED
  BY <1>1, <1>2, <1>3, <1>11 DEF ReadIsOldest

(* The other steps of lwip_ethInput and eth_service change neither queue nor engine, *)
(* but for the recovery, which empties both.                                         *)
LEMMA ServiceFifo ==
  ASSUME HeadIInv, ~disturbed, ReadHasFrame, QueueHolds, ReadIsOldest, HeadIInv', service,
         ~disturbed'
  PROVE  QueueHolds' /\ ReadIsOldest'
<1>0. Queued \in Nat
  BY QueueTypes, QueuedFacts, RingAssumption
<1>1. CASE rxqcount_head \/ rxqcount_tail \/ rxsgcmplt_head \/ eth_service_poll
           \/ eth_service_unblock
  <2>1. UNCHANGED <<queue, data, hw, filling, ioc, frames, seen>> /\ ~Reading'
    BY <1>1 DEF rxqcount_head, rxqcount_tail, rxsgcmplt_head, eth_service_poll,
                eth_service_unblock, Step, Reading, engine, history
  <2> QED
    BY <2>1, QuietQueue DEF ReadIsOldest
<1>2. CASE rxsgcmplt_tail
  <2>1. /\ UNCHANGED <<queue, data, hw, filling, ioc, frames, seen, head>>
        /\ pc' = IF head = eth_rxtail THEN "poll" ELSE "status"
        /\ tail' = eth_rxtail
    BY <1>2 DEF rxsgcmplt_tail, Step, engine
  <2>2. ~(filling /\ hw = eth_rxtail /\ head # eth_rxtail)
    BY <1>2, Zenon DEF rxsgcmplt_tail
  <2> QED
    BY <2>1, <2>2, QuietQueue DEF ReadIsOldest, Reading, queue
<1>3. CASE rxsgcmplt_status \/ rxsgcmplt_clear
  <2>1. /\ UNCHANGED <<queue, data, hw, filling, ioc, frames, seen, tail>>
        /\ Reading /\ pc' \in {"clear", "copy", "poll"}
    BY <1>3 DEF rxsgcmplt_status, rxsgcmplt_clear, Step, Reading, engine, history
  <2> QED
    BY <2>1, QuietQueue DEF ReadIsOldest, Reading, queue
<1>4. CASE rxsgcmplt_copy
  <2>1. /\ UNCHANGED <<queue, data, hw, filling, ioc, frames, seen, tail>>
        /\ Reading /\ Reading' /\ pc' = "store" /\ frame' = data[tail]
    BY <1>4 DEF rxsgcmplt_copy, Step, Reading, engine, history
  <2>2. Queued' = Queued /\ QueueHolds'
    BY <2>1, QuietQueue
  <2>3. eth_rxhead # eth_rxtail
    BY <2>1 DEF ReadHasFrame
  <2>4. Queued = Back(eth_rxtail) + 1 /\ Back(eth_rxtail) \in Nat
    BY <2>3, QueueTypes, QueuedFacts, RingAssumption
  <2>5. tail = eth_rxtail /\ ~(filling /\ hw = eth_rxtail)
    BY <2>1 DEF ReadIsOldest
  <2>6. data[eth_rxtail] = seen - Back(eth_rxtail)
    BY <1>0, <2>4, <2>5, QueueTypes DEF QueueHolds
  <2>7. frame' = seen - Queued + 1
    BY <1>0, <2>1, <2>4, <2>5, <2>6, QueueTypes
  <2> QED
    BY <2>1, <2>2, <2>5, <2>7 DEF ReadIsOldest, queue
<1>5. CASE rxsgcmplt_store
  BY <1>5, StoreFifo
<1>6. CASE xtemac_recover
  <2>1. eth_rxhead' = eth_rxtail' /\ ~ioc' /\ ~Reading'
    BY <1>6 DEF xtemac_recover, Step, Reading
  <2> QED
    BY <2>1, EmptyHolds
<1> QED
  BY <1>1, <1>2, <1>3, <1>4, <1>5, <1>6 DEF service

(* What has been disturbed is in order again only when the queue is found empty or *)
(* thrown away.                                                                    *)
LEMMA SettlesEmpty ==
  ASSUME HeadIInv, disturbed, HeadIInv', Next, ~disturbed'
  PROVE  QueueHolds' /\ ReadIsOldest'
<1>1. CASE rxqcount_tail
  <2>1. eth_rxhead = eth_rxtail /\ ~ioc
    BY <1>1, Zenon DEF rxqcount_tail
  <2>2. eth_rxhead' = eth_rxtail' /\ ~ioc' /\ ~Reading'
    BY <1>1, <2>1 DEF rxqcount_tail, Step, Reading, queue, engine
  <2> QED
    BY <2>2, EmptyHolds
<1>2. CASE xtemac_recover
  <2>1. eth_rxhead' = eth_rxtail' /\ ~ioc' /\ ~Reading'
    BY <1>2 DEF xtemac_recover, Step, Reading
  <2> QED
    BY <2>1, EmptyHolds
<1>3. CASE Fill \/ Complete \/ onethdma_rxirq \/ rxsgcmplt_tail
  BY <1>3, Zenon DEF Fill, Complete, onethdma_rxirq, rxsgcmplt_tail
<1>4. CASE \/ BusError \/ TxBusError
           \/ rxqcount_head \/ rxsgcmplt_head \/ rxsgcmplt_status \/ rxsgcmplt_clear
           \/ rxsgcmplt_copy \/ rxsgcmplt_store \/ eth_service_poll \/ eth_service_unblock
  BY <1>4 DEF BusError, TxBusError, rxqcount_head, rxsgcmplt_head, rxsgcmplt_status,
              rxsgcmplt_clear, rxsgcmplt_copy, rxsgcmplt_store, eth_service_poll,
              eth_service_unblock, history
<1> QED
  BY <1>1, <1>2, <1>3, <1>4 DEF Next, service

LEMMA NextFifo == FifoIInv /\ [Next]_vars => FifoIInv'
<1> SUFFICES ASSUME FifoIInv, [Next]_vars PROVE FifoIInv'
  OBVIOUS
<1>1. HeadIInv /\ HeadIInv' /\ WritesNext /\ ReadHasFrame
  BY NextHead DEF FifoIInv
<1>2. CASE UNCHANGED vars
  <2>1. /\ UNCHANGED <<queue, data, hw, filling, ioc, frames, seen, disturbed, pc, head, tail, frame>>
        /\ (Reading' <=> Reading)
    BY <1>2 DEF vars, main, engine, history, Reading
  <2>2. Queued' = Queued
    BY <2>1 DEF Queued, QCount, queue
  <2>3. ~disturbed' => QueueHolds' /\ ReadIsOldest'
    BY <2>1, <2>2, QuietQueue DEF FifoIInv, ReadIsOldest, queue
  <2> QED
    BY <1>1, <2>1, <2>3 DEF FifoIInv, WritesNext, ReadHasFrame, queue
<1>3. CASE Next
  <2>1. WritesNext' /\ ReadHasFrame'
    BY <1>1, <1>3, EverNext
  <2>2. ASSUME ~disturbed' PROVE QueueHolds' /\ ReadIsOldest'
    <3>1. CASE disturbed
      BY <1>1, <1>3, <2>2, <3>1, SettlesEmpty
    <3>2. CASE ~disturbed
      <4>1. QueueHolds /\ ReadIsOldest
        BY <3>2 DEF FifoIInv
      <4>2. CASE BusError \/ TxBusError
        <5>1. /\ UNCHANGED <<queue, data, hw, filling, ioc, frames, seen, pc, tail, frame>>
              /\ (Reading' <=> Reading)
          BY <4>2 DEF BusError, TxBusError, main, engine, Reading
        <5> QED
          BY <4>1, <5>1, QuietQueue DEF ReadIsOldest, queue
      <4> QED
        BY <1>1, <1>3, <2>2, <3>2, <4>1, <4>2, FillFifo, CompleteFifo, IrqFifo, ServiceFifo
        DEF Next
    <3> QED
      BY <3>1, <3>2
  <2> QED
    BY <1>1, <2>1, <2>2 DEF FifoIInv
<1> QED
  BY <1>2, <1>3

(* The cyclic ring of xdma.c and its racing reader, for every ring size: a read    *)
(* that the engine has not overtaken gives lwIP the oldest frame in the queue, for *)
(* any interleaving of handler, engine, reader and recovery.                       *)
THEOREM FramesInOrder == Spec => ReadsOldest
<1>1. FifoIInv /\ [Next]_vars => FifoIInv'
  BY NextFifo
<1>2. FifoIInv /\ [Next]_vars =>
        [rxsgcmplt_store /\ ~disturbed =>
           delivered' = seen - QCount(eth_rxhead, eth_rxtail) + 1]_vars
  BY StoreFifo DEF FifoIInv, Queued
<1> QED
  BY <1>1, <1>2, InitFifo, PTL DEF Spec, ReadsOldest

=============================================================================
