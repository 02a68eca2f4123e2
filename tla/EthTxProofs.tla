----------------------------- MODULE EthTxProofs -----------------------------
(********************************************************************************)
(* The transmit queue, for every ring depth, packet and number of errors, with  *)
(* the interrupts of the packets taken at any time.                             *)
(*                                                                              *)
(* RangeInv is the argument that eth_txtail stays a fill level or the lock,     *)
(* and so the BDs filled and handed over are those of the ring: the handler may *)
(* take an update of eth_txtail back, and the main context may store one made   *)
(* of an old value, but never above the last fill level it tested.              *)
(*                                                                              *)
(* CleanInv holds while the queue is not disturbed.  The BDs from Lo to Hi - 1  *)
(* hold the frames that are not sent yet (Window): those the engine holds,      *)
(* those a flush is about to hand over, or those queued since.  The queue is    *)
(* locked while the engine holds a frame or its interrupt is outstanding, and   *)
(* the main context is then outside every stretch in which it has seen the      *)
(* queue open (Guarded); txcount lags by the flush in progress (Counted).  A    *)
(* frame queued with the engine at rest establishes all of it, whatever the     *)
(* queue has been through.                                                      *)
(********************************************************************************)
EXTENDS EthTx, TLAPS

(* The locals of the main context: where it writes and how much it hands over. *)
RangeInv ==
  /\ TypeOK
  /\ pc \in {"fill", "inc"} => tail < Depth - 1
  /\ pc \in {"fill", "load", "inc"} => eth_txtail < Depth - 1
  /\ pc \in {"count", "lock", "start"} => tail \in 1..(Depth - 1)
  /\ pc = "count" => eth_txtail # LOCKED
  /\ pc \in {"enque", "fill", "load", "inc"} => chain # 0

LEMMA InitRange == Init => RangeInv
<1> SUFFICES ASSUME Init PROVE RangeInv
  OBVIOUS
<1>1. bd \in [BDs -> Nat]
  BY DEF Init
<1>2. /\ txbuserr \in BOOLEAN /\ rxbuserr \in BOOLEAN /\ sigbus \in BOOLEAN /\ halted \in BOOLEAN
      /\ ioc \in BOOLEAN /\ err \in BOOLEAN /\ disturbed \in BOOLEAN
  BY Zenon DEF Init
<1>3. 0 \in BDs
  BY DepthAssumption DEF BDs
<1> QED
  BY <1>1, <1>2, <1>3, DepthAssumption DEF Init, RangeInv, TypeOK

(* The steps of the engine and of the handler. *)
LEMMA InterruptRange ==
  ASSUME RangeInv, Transmit \/ StaleBd \/ BusError \/ RxBusError \/ onethdma_txirq
  PROVE  RangeInv'
<1> USE DepthAssumption DEF RangeInv, TypeOK, LOCKED
<1>1. CASE Transmit
  <2>1. bd[cur] \in Nat /\ cmplt' \subseteq BDs
    BY <1>1 DEF Transmit
  <2>2. (cur + 1) % Depth \in BDs
    BY DEF BDs
  <2>3. left - 1 \in 0..Depth
    BY <1>1 DEF Transmit, Outstanding
  <2> QED
    BY <1>1, <2>1, <2>2, <2>3 DEF Transmit, queue, signals, main
<1>2. CASE StaleBd
  BY <1>2 DEF StaleBd, queue, signals, ring, main
<1>3. CASE BusError
  BY <1>3 DEF BusError, queue, signals, ring, main
<1>4. CASE RxBusError
  BY <1>4 DEF RxBusError, queue, engine, ring, main
<1>5. CASE onethdma_txirq
  <2>1. /\ sigbus' \in BOOLEAN /\ txbuserr' \in BOOLEAN /\ disturbed' \in BOOLEAN
        /\ ioc' \in BOOLEAN /\ err' \in BOOLEAN
    BY <1>5, Zenon DEF onethdma_txirq
  <2>2. /\ eth_txtail' \in {eth_txtail, 0} /\ eth_txpkts' \in 0..(Depth - 1) /\ txcount' \in Nat
    BY <1>5 DEF onethdma_txirq
  <2>3. left' \in 0..Depth
    <3>1. CASE ioc
      BY <1>5, <3>1 DEF onethdma_txirq
    <3>2. CASE ~ioc
      BY <1>5, <3>2 DEF onethdma_txirq
    <3> QED
      BY <3>1, <3>2
  <2>4. UNCHANGED <<rxbuserr, ring, cur, halted, main, accepted, sent, errors, upto, due>>
    BY <1>5 DEF onethdma_txirq
  <2>5. TypeOK'
    <3>1. eth_txtail' \in 0..(Depth - 1) \cup {LOCKED}
      BY <2>2
    <3>2. /\ rxbuserr' \in BOOLEAN /\ halted' \in BOOLEAN
      BY <2>4
    <3>3. /\ bd' \in [BDs -> Nat] /\ cmplt' \subseteq BDs /\ cur' \in BDs
          /\ tail' \in 0..(Depth - 1) \cup {LOCKED} /\ chain' \in Nat
          /\ pc' = pc
          /\ accepted' \in Nat /\ sent' \in Nat /\ errors' \in Nat /\ upto' \in Nat /\ due' \in Nat
      BY <2>4 DEF ring, main
    <3> QED
      BY <2>1, <2>2, <2>3, <3>1, <3>2, <3>3
  <2> QED
    BY <2>2, <2>4, <2>5 DEF main
<1> QED
  BY <1>1, <1>2, <1>3, <1>4, <1>5

(* The steps of enqueueing. *)
LEMMA EnqueRange ==
  ASSUME RangeInv, enque \/ \E pbufs \in 1..MaxChain : lwip_ethOutput(pbufs)
  PROVE  RangeInv'
<1> USE DepthAssumption DEF RangeInv, TypeOK, LOCKED, Step
<1>1. ASSUME NEW pbufs \in 1..MaxChain, lwip_ethOutput(pbufs) PROVE RangeInv'
  BY <1>1, BoundsAssumption DEF lwip_ethOutput, queue, signals, ring, engine, history
<1>2. CASE txsgenque_test
  BY <1>2 DEF txsgenque_test, Refused, queue, signals, ring, engine, history
<1>3. CASE txsgenque_fill
  <2>1. accepted + 1 \in Nat /\ due' \in Nat /\ upto' \in Nat
    BY <1>3 DEF txsgenque_fill
  <2>2. bd' \in [BDs -> Nat] /\ cmplt' \subseteq BDs
    BY <1>3, <2>1 DEF txsgenque_fill
  <2>3. disturbed' \in BOOLEAN
    BY <1>3 DEF txsgenque_fill
  <2> QED
    BY <1>3, <2>1, <2>2, <2>3 DEF txsgenque_fill, queue, signals, engine
<1>4. CASE txsgenque_load
  BY <1>4 DEF txsgenque_load, queue, signals, ring, engine, history
<1>5. CASE txsgenque_inc
  <2>1. eth_txtail' = tail + 1 /\ tail + 1 < Depth
    BY <1>5 DEF txsgenque_inc
  <2> QED
    BY <1>5, <2>1 DEF txsgenque_inc, signals, ring, engine, history
<1> QED
  BY <1>1, <1>2, <1>3, <1>4, <1>5 DEF enque

(* The steps of flushing and of the recovery. *)
LEMMA FlushRange ==
  ASSUME RangeInv, flush \/ signal
  PROVE  RangeInv'
<1> USE DepthAssumption DEF RangeInv, TypeOK, LOCKED, Step
<1>1. CASE txsgflush_test
  BY <1>1 DEF txsgflush_test, queue, signals, ring, engine, history
<1>2. CASE txsgflush_count
  BY <1>2 DEF txsgflush_count, signals, ring, engine, history
<1>3. CASE txsgflush_lock
  BY <1>3 DEF txsgflush_lock, signals, ring, engine, history
<1>4. CASE xsgdma_seqTrans
  <2>1. cur' \in BDs
    BY <1>4 DEF xsgdma_seqTrans, BDs
  <2>2. left' \in 0..Depth
    <3>1. CASE Outstanding
      <4>1. tail + Depth - 1 - cur \in Nat
        BY <1>4 DEF xsgdma_seqTrans, BDs
      <4>2. (tail + Depth - 1 - cur) % Depth \in 0..(Depth - 1)
        BY <4>1
      <4> QED
        BY <4>2, <3>1, <1>4 DEF xsgdma_seqTrans
    <3>2. CASE ~Outstanding
      BY <3>2, <1>4 DEF xsgdma_seqTrans
    <3> QED
      BY <3>1, <3>2
  <2> QED
    BY <1>4, <2>1, <2>2 DEF xsgdma_seqTrans, queue, signals, ring, history
<1>5. CASE eth_service_poll
  BY <1>5 DEF eth_service_poll, queue, signals, ring, engine, history
<1>6. CASE xtemac_recover
  <2>1. /\ txbuserr' \in BOOLEAN /\ rxbuserr' \in BOOLEAN /\ halted' \in BOOLEAN
        /\ ioc' \in BOOLEAN /\ err' \in BOOLEAN /\ disturbed' \in BOOLEAN
    BY <1>6, Zenon DEF xtemac_recover
  <2>2. eth_txtail' \in 0..(Depth - 1) /\ cur' \in BDs /\ left' \in 0..Depth /\ cmplt' \subseteq BDs
    BY <1>6 DEF xtemac_recover, BDs
  <2>3. UNCHANGED <<eth_txpkts, sigbus, txcount, bd, tail, chain, accepted, sent, errors, upto, due>>
        /\ pc' = "unblock"
    BY <1>6 DEF xtemac_recover
  <2> QED
    BY <2>1, <2>2, <2>3
<1>7. CASE eth_service_unblock
  <2>1. sigbus' \in BOOLEAN
    BY <1>7, Zenon DEF eth_service_unblock
  <2> QED
    BY <1>7, <2>1 DEF eth_service_unblock, queue, ring, engine, history
<1> QED
  BY <1>1, <1>2, <1>3, <1>4, <1>5, <1>6, <1>7 DEF flush, signal

LEMMA NextRange == RangeInv /\ [Next]_vars => RangeInv'
<1> SUFFICES ASSUME RangeInv, [Next]_vars PROVE RangeInv'
  OBVIOUS
<1>1. CASE UNCHANGED vars
  BY <1>1 DEF vars, queue, signals, ring, engine, main, history, RangeInv, TypeOK
<1> QED
  BY <1>1, InterruptRange, EnqueRange, FlushRange DEF Next, service

(* xdma.c:448-449 and 461, for every depth and every interleaving of the handler with eth_txtail++: *)
(* the BDs filled and handed to the engine are those of the ring, and what is                       *)
(* counted is at most what the ring holds.                                                          *)
THEOREM TailInRing == Spec => []TypeOK
<1>1. RangeInv => TypeOK
  BY DEF RangeInv
<1>2. RangeInv /\ [Next]_vars => RangeInv'
  BY NextRange
<1> QED
  BY InitRange, <1>1, <1>2, PTL DEF Spec

-----------------------------------------------------------------------------
(* A stretch in which the main context has seen the queue open. *)
Open == pc \in {"fill", "load", "inc", "count", "lock"}

(* While frames or their interrupts are outstanding the queue is locked. *)
Guarded ==
  /\ ~halted /\ ~err
  /\ Outstanding \/ ioc => /\ eth_txtail = LOCKED
                           /\ pc \in {"idle", "enque", "poll", "recover", "unblock"}
  /\ Open => eth_txtail # LOCKED
  /\ pc = "start" => eth_txtail = LOCKED
  /\ Outstanding => cur + left < Depth

(* The locals of the main context are up to date. *)
Locals ==
  /\ pc \in {"fill", "load", "inc", "count", "lock"} => tail = eth_txtail
  /\ pc = "lock" => eth_txpkts = eth_txtail

(* The BDs that hold frames still to be sent are Lo..Hi-1, the BD being filled included. *)
Lo == IF Outstanding THEN cur ELSE 0

Hi ==
  IF Outstanding THEN cur + left
  ELSE IF pc = "start" THEN tail
  ELSE IF eth_txtail = LOCKED THEN 0
  ELSE IF pc \in {"load", "inc"} THEN eth_txtail + 1
  ELSE eth_txtail

(* What was accepted was sent or waits in the window. *)
Window ==
  /\ accepted = upto + (Hi - Lo)
  /\ \A i \in BDs : Lo <= i /\ i < Hi => bd[i] = upto + 1 + (i - Lo)

(* The counter lags by the flush in progress, or by what is queued. *)
Counted == due = txcount + (IF eth_txtail = LOCKED THEN eth_txpkts ELSE Hi)

CleanInv == Guarded /\ Locals /\ Window /\ Counted

TxInv == RangeInv /\ (~disturbed => CleanInv)

LEMMA InitClean == Init => TxInv
<1> SUFFICES ASSUME Init PROVE TxInv
  OBVIOUS
<1>1. Hi = 0 /\ Lo = 0
  BY DEF Init, Hi, Lo, Outstanding, LOCKED
<1>2. Guarded
  <2>1. ~halted /\ ~err /\ ~ioc
    BY Zenon DEF Init
  <2> QED
    BY <2>1 DEF Init, Guarded, Open, Outstanding
<1> QED
  BY <1>1, <1>2, InitRange DEF Init, TxInv, CleanInv, Locals, Window, Counted, BDs, LOCKED

(* The bounds of the window are indices or the depth. *)
LEMMA WindowType == RangeInv /\ CleanInv => Lo \in 0..(Depth - 1) /\ Hi \in 0..(Depth - 1)
  BY DepthAssumption
  DEF RangeInv, TypeOK, CleanInv, Guarded, Locals, Lo, Hi, Outstanding, LOCKED, BDs

(* What a step does to the window: nothing; *)
WindowKept ==
  /\ UNCHANGED <<bd, accepted, sent, upto>>
  /\ Lo' = Lo /\ Hi' = Hi

(* its first frame is sent, which may close it; *)
FrameSent ==
  /\ Lo < Hi
  /\ upto' = bd[Lo] /\ sent' = sent + 1
  /\ UNCHANGED <<bd, accepted>>
  /\ \/ Lo' = Lo + 1 /\ Hi' = Hi
     \/ Hi = Lo + 1 /\ Lo' = 0 /\ Hi' = 0

(* or a frame is added at its end. *)
FrameQueued ==
  /\ Hi < Depth - 1 /\ Lo = 0
  /\ bd' = [bd EXCEPT ![Hi] = accepted + 1]
  /\ accepted' = accepted + 1
  /\ UNCHANGED <<sent, upto>>
  /\ Lo' = Lo /\ Hi' = Hi + 1

LEMMA WindowStep ==
  ASSUME RangeInv, CleanInv, WindowKept \/ FrameSent \/ FrameQueued
  PROVE  Window'
<1>0. /\ Lo \in 0..(Depth - 1) /\ Hi \in 0..(Depth - 1) /\ bd \in [BDs -> Nat]
      /\ accepted \in Nat /\ upto \in Nat
  BY WindowType DEF RangeInv, TypeOK
<1> USE <1>0, DepthAssumption DEF CleanInv, Window, BDs
<1>1. CASE WindowKept
  BY <1>1 DEF WindowKept
<1>2. CASE FrameSent
  <2>1. bd[Lo] = upto + 1
    BY <1>2 DEF FrameSent
  <2>2. CASE Lo' = Lo + 1 /\ Hi' = Hi
    BY <1>2, <2>1, <2>2 DEF FrameSent
  <2>3. CASE Hi = Lo + 1 /\ Lo' = 0 /\ Hi' = 0
    BY <1>2, <2>1, <2>3 DEF FrameSent
  <2> QED
    BY <1>2, <2>2, <2>3 DEF FrameSent
<1>3. CASE FrameQueued
  BY <1>3 DEF FrameQueued
<1> QED
  BY <1>1, <1>2, <1>3

(* The engine and the handler: only a transmission moves the window. *)
LEMMA InterruptClean ==
  ASSUME RangeInv, CleanInv, ~disturbed',
         Transmit \/ StaleBd \/ BusError \/ RxBusError \/ onethdma_txirq
  PROVE  /\ Guarded' /\ Locals' /\ Counted'
         /\ WindowKept \/ FrameSent
<1> USE DepthAssumption DEF RangeInv, TypeOK, CleanInv, LOCKED, Outstanding, Lo, Hi
<1>1. CASE Transmit
  <2>1. cur \in 0..(Depth - 1) /\ left \in 1..Depth /\ cur + left < Depth /\ left' = left - 1
    BY <1>1 DEF Transmit, Guarded, BDs
  <2>2. cur' = cur + 1
    BY <1>1, <2>1 DEF Transmit
  <2>3. eth_txtail = LOCKED /\ pc \in {"idle", "enque", "poll", "recover", "unblock"}
    BY <1>1 DEF Transmit, Guarded
  <2>4. UNCHANGED <<queue, main, txcount, due, halted, err, bd, accepted>>
    BY <1>1 DEF Transmit
  <2>5. Guarded' /\ Locals'
    BY <2>1, <2>2, <2>3, <2>4 DEF Guarded, Open, Locals, queue, main
  <2>6. Counted'
    BY <2>3, <2>4 DEF Counted, queue
  <2>7. FrameSent
    <3>1. Lo = cur /\ Hi = cur + left /\ upto' = bd[cur] /\ sent' = sent + 1
      BY <1>1 DEF Transmit
    <3>2. CASE left = 1
      BY <2>1, <2>3, <2>4, <3>1, <3>2 DEF FrameSent, queue, main
    <3>3. CASE left # 1
      BY <2>1, <2>2, <2>4, <3>1, <3>3 DEF FrameSent
    <3> QED
      BY <3>2, <3>3
  <2> QED
    BY <2>5, <2>6, <2>7
<1>2. CASE StaleBd \/ BusError
  BY <1>2 DEF StaleBd, BusError
<1>3. CASE RxBusError
  BY <1>3 DEF RxBusError, queue, ring, engine, main, Guarded, Open, Locals, Counted, WindowKept
<1>4. CASE onethdma_txirq
  <2>1. ioc /\ ~Outstanding
    BY <1>4 DEF onethdma_txirq, Guarded
  <2>2. /\ eth_txtail = LOCKED /\ pc \in {"idle", "enque", "poll", "recover", "unblock"}
        /\ left = 0 /\ left' = 0 /\ eth_txtail' = 0 /\ eth_txpkts' = 0
        /\ txcount' = txcount + eth_txpkts
        /\ ioc' = FALSE /\ err' = FALSE
        /\ UNCHANGED <<ring, cur, halted, main, accepted, sent, upto, due>>
    BY <1>4, <2>1 DEF onethdma_txirq, Guarded
  <2>3. Guarded' /\ Locals'
    BY <2>2 DEF Guarded, Open, Locals, main
  <2>4. Counted'
    BY <2>2 DEF Counted, main
  <2>5. WindowKept
    BY <2>2 DEF WindowKept, ring, main
  <2> QED
    BY <2>3, <2>4, <2>5
<1> QED
  BY <1>1, <1>2, <1>3, <1>4

(* The main context: only a filled BD extends the window; locking and starting a *)
(* flush keep it.                                                                *)
LEMMA ServiceClean ==
  ASSUME RangeInv, CleanInv, ~disturbed, ~disturbed',
         service \/ \E pbufs \in 1..MaxChain : lwip_ethOutput(pbufs)
  PROVE  /\ Guarded' /\ Locals' /\ Counted'
         /\ WindowKept \/ FrameQueued
<1> DEFINE Goal == Guarded' /\ Locals' /\ Counted' /\ (WindowKept \/ FrameQueued)
<1> USE DepthAssumption DEF RangeInv, TypeOK, CleanInv, LOCKED, Outstanding, Lo, Hi, Step, Open
<1>1. ASSUME NEW pbufs \in 1..MaxChain, lwip_ethOutput(pbufs)
      PROVE  Goal
  BY <1>1 DEF lwip_ethOutput, queue, ring, engine, history, Guarded, Locals, Counted, WindowKept
<1>2. CASE txsgenque_test
  BY <1>2 DEF txsgenque_test, Refused, queue, ring, engine, history, Guarded, Locals, Counted, WindowKept
<1>3. CASE txsgenque_fill
  <2>1. /\ pc = "fill" /\ pc' = "load" /\ tail = eth_txtail /\ tail < Depth - 1 /\ eth_txtail # LOCKED
        /\ ~Outstanding /\ ~ioc
    BY <1>3 DEF txsgenque_fill, Guarded, Locals
  <2>2. /\ bd' = [bd EXCEPT ![tail] = accepted + 1] /\ accepted' = accepted + 1
        /\ due' = due + 1 /\ UNCHANGED <<queue, txcount, engine, tail, chain, sent, upto>>
    BY <1>3 DEF txsgenque_fill
  <2>3. Lo = 0 /\ Hi = tail /\ Lo' = 0 /\ Hi' = tail + 1
    BY <2>1, <2>2 DEF queue, engine
  <2>4. Guarded' /\ Locals'
    BY <2>1, <2>2 DEF Guarded, Locals, queue, engine
  <2>5. Counted'
    BY <2>1, <2>2, <2>3 DEF Counted, queue
  <2>6. FrameQueued
    BY <2>1, <2>2, <2>3, Zenon DEF FrameQueued
  <2> QED
    BY <2>4, <2>5, <2>6
<1>4. CASE txsgenque_load
  BY <1>4 DEF txsgenque_load, queue, ring, engine, history, Guarded, Locals, Counted, WindowKept
<1>5. CASE txsgenque_inc
  <2>1. eth_txtail' = eth_txtail + 1 /\ eth_txtail' # LOCKED /\ eth_txtail # LOCKED
    BY <1>5 DEF txsgenque_inc, Guarded, Locals
  <2> QED
    BY <1>5, <2>1 DEF txsgenque_inc, ring, engine, history, Guarded, Locals, Counted, WindowKept
<1>6. CASE txsgflush_test
  BY <1>6 DEF txsgflush_test, queue, ring, engine, history, Guarded, Locals, Counted, WindowKept
<1>7. CASE txsgflush_count
  BY <1>7 DEF txsgflush_count, ring, engine, history, Guarded, Locals, Counted, WindowKept
<1>8. CASE txsgflush_lock
  BY <1>8 DEF txsgflush_lock, ring, engine, history, Guarded, Locals, Counted, WindowKept
<1>9. CASE xsgdma_seqTrans
  <2>1. ~Outstanding /\ ~ioc /\ eth_txtail = LOCKED /\ tail \in 1..(Depth - 1)
    BY <1>9 DEF xsgdma_seqTrans, Guarded
  <2>2. cur' = 0 /\ left' = tail /\ pc' = "poll" /\ pc = "start"
        /\ UNCHANGED <<queue, txcount, ring, halted, ioc, err, tail, chain, history>>
    BY <1>9, <2>1 DEF xsgdma_seqTrans
  <2> QED
    BY <2>1, <2>2 DEF queue, ring, history, Guarded, Locals, Counted, WindowKept
<1>10. CASE eth_service_poll
  BY <1>10 DEF eth_service_poll, queue, ring, engine, history, Guarded, Locals, Counted, WindowKept
<1>11. CASE xtemac_recover
  BY <1>11 DEF xtemac_recover
<1>12. CASE eth_service_unblock
  BY <1>12 DEF eth_service_unblock, queue, ring, engine, history, Guarded, Locals, Counted, WindowKept
<1> QED
  BY <1>1, <1>2, <1>3, <1>4, <1>5, <1>6, <1>7, <1>8, <1>9, <1>10, <1>11, <1>12
  DEF service, enque, flush, signal

(* A queue begun with the engine at rest *)
LEMMA BeginClean ==
  ASSUME RangeInv, txsgenque_fill, disturbed, Begun
  PROVE  CleanInv'
<1> USE DepthAssumption DEF RangeInv, TypeOK, LOCKED, Outstanding, Lo, Hi, Step, Open, Begun
<1>1. /\ pc = "fill" /\ pc' = "load" /\ tail = 0 /\ eth_txtail = 0 /\ left = 0
      /\ bd' = [bd EXCEPT ![tail] = accepted + 1] /\ accepted' = accepted + 1
      /\ upto' = accepted /\ due' = txcount + 1
      /\ UNCHANGED <<queue, txcount, engine, tail>>
  BY DEF txsgenque_fill
<1>2. ~ioc /\ ~err /\ ~halted
  OBVIOUS
<1>3. Lo' = 0 /\ Hi' = 1
  BY <1>1 DEF queue, engine
<1>4. Guarded' /\ Locals'
  BY <1>1, <1>2 DEF Guarded, Locals, queue, engine
<1>5. Window'
  <2>1. bd'[0] = accepted + 1
    BY <1>1 DEF BDs
  <2> QED
    BY <1>1, <1>3, <2>1 DEF Window, BDs
<1>6. Counted'
  BY <1>1, <1>3 DEF Counted, queue
<1> QED
  BY <1>4, <1>5, <1>6 DEF CleanInv

(* Only such a queue ends a disturbance. *)
LEMMA Disturbance ==
  ASSUME RangeInv, [Next]_vars, disturbed, ~disturbed'
  PROVE  txsgenque_fill /\ Begun
<1>1. ~(Transmit \/ StaleBd \/ BusError \/ RxBusError \/ onethdma_txirq)
  BY DEF Transmit, StaleBd, BusError, RxBusError, onethdma_txirq
<1>2. \A pbufs : ~lwip_ethOutput(pbufs)
  BY DEF lwip_ethOutput, history
<1>3. ~(flush \/ signal)
  BY DEF flush, signal, txsgflush_test, txsgflush_count, txsgflush_lock, xsgdma_seqTrans,
         eth_service_poll, xtemac_recover, eth_service_unblock, history
<1>4. ~(txsgenque_test \/ txsgenque_load \/ txsgenque_inc)
  BY DEF txsgenque_test, txsgenque_load, txsgenque_inc, history
<1>5. ~UNCHANGED vars
  BY DEF vars, history
<1>6. txsgenque_fill
  BY <1>1, <1>2, <1>3, <1>4, <1>5 DEF Next, service, enque
<1> QED
  BY <1>6 DEF txsgenque_fill

(* A step of a queue that is not disturbed *)
LEMMA CleanStep ==
  ASSUME RangeInv, CleanInv, ~disturbed, ~disturbed', [Next]_vars
  PROVE  CleanInv' /\ (WindowKept \/ FrameSent \/ FrameQueued)
<1>1. CASE UNCHANGED vars
  BY <1>1 DEF vars, queue, ring, engine, main, history, CleanInv, Guarded, Locals, Window, Counted,
              WindowKept, Lo, Hi, Outstanding, Open
<1>2. CASE Next
  <2>1. Guarded' /\ Locals' /\ Counted' /\ (WindowKept \/ FrameSent \/ FrameQueued)
    BY <1>2, InterruptClean, ServiceClean DEF Next
  <2> QED
    BY <2>1, WindowStep DEF CleanInv
<1> QED
  BY <1>1, <1>2

LEMMA NextClean == TxInv /\ [Next]_vars => TxInv'
<1> SUFFICES ASSUME TxInv, [Next]_vars PROVE TxInv'
  OBVIOUS
<1>1. RangeInv'
  BY NextRange DEF TxInv
<1>2. ASSUME ~disturbed' PROVE CleanInv'
  <2>1. CASE disturbed
    BY <1>2, <2>1, Disturbance, BeginClean DEF TxInv
  <2>2. CASE ~disturbed
    BY <1>2, <2>2, CleanStep DEF TxInv
  <2> QED
    BY <2>1, <2>2
<1> QED
  BY <1>1, <1>2 DEF TxInv

(* _ethdma_txsgflush and the engine, for every depth, packet and error, with one interrupt *)
(* per packet: unless the handler has reopened the queue under the engine since            *)
(* the queue was last begun, the frame put on the line is the one after the frame before.  *)
THEOREM SendsInOrder == Spec => SentInOrder
<1>1. TxInv /\ [Next]_vars => [~disturbed' /\ sent' # sent => upto' = upto + 1]_vars
  <2> SUFFICES ASSUME TxInv, [Next]_vars, ~disturbed', sent' # sent PROVE upto' = upto + 1
    OBVIOUS
  <2>1. ~disturbed
    BY Disturbance DEF TxInv, txsgenque_fill
  <2>2. FrameSent /\ RangeInv /\ CleanInv
    BY <2>1, CleanStep DEF TxInv, WindowKept, FrameQueued
  <2>3. Lo \in BDs /\ Lo < Hi
    BY <2>2, WindowType DEF FrameSent, BDs
  <2>4. bd[Lo] = upto + 1 + (Lo - Lo) /\ upto \in Nat /\ Lo \in Nat
    BY <2>2, <2>3, DepthAssumption DEF CleanInv, Window, RangeInv, TypeOK, BDs
  <2> QED
    BY <2>2, <2>4 DEF FrameSent
<1>2. TxInv /\ [Next]_vars => TxInv'
  BY NextClean
<1> QED
  BY InitClean, <1>1, <1>2, PTL DEF Spec, SentInOrder

(* onethdma_txirq and _ethdma_txsgflush, for every depth: in the same stretches an empty *)
(* queue means that every frame lwIP handed over is on the line and in the               *)
(* statistics.                                                                           *)
THEOREM EmptyQueueIsSent == Spec => []EmptyMeansSent
<1>1. TxInv => EmptyMeansSent
  <2> SUFFICES ASSUME TxInv, ~disturbed, eth_txtail = 0, pc \in {"idle", "enque"}
               PROVE  upto = accepted /\ txcount = due
    BY DEF EmptyMeansSent
  <2>1. RangeInv /\ CleanInv /\ Hi = 0 /\ Lo = 0
    BY DEF TxInv, CleanInv, Guarded, Hi, Lo, Outstanding, LOCKED
  <2> QED
    BY <2>1 DEF CleanInv, Window, Counted, RangeInv, TypeOK, LOCKED
<1>2. TxInv /\ [Next]_vars => TxInv'
  BY NextClean
<1> QED
  BY InitClean, <1>1, <1>2, PTL DEF Spec

=============================================================================
