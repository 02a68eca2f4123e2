--------------------------- MODULE MbSignalsProofs ---------------------------
(**********************************************************************************)
(* What MbSignals keeps, for every width of the time register, every set of       *)
(* link modes and every number of changes, errors and measurements.               *)
(*                                                                                *)
(* The recursive functions of RtMsure come first: that their equations have a     *)
(* solution (Recursion), what range they have, and that decoding undoes           *)
(* encoding.  Then the two services, each of which the other one touches only     *)
(* through the signals.  For the link IInv adds to ServicesInv who uses the MDIO  *)
(* unit, as long as no interrupt has spoilt a read, and that then either a change *)
(* can still be seen (Pending) or everything read and set so far in the pass is   *)
(* true of the PHY now (Settled); for the time, where it waits.                   *)
(**********************************************************************************)
EXTENDS MbSignals, WellFoundedInduction, TLAPS

(* The steps of a read of a PHY register *)
ReadSteps == {"ready", "icr", "cleared", "cr", "ioc", "rdata", "got"}

(* A transfer is in progress only while the main context waits for it. *)
MdioInv ==
  /\ ~ready => pc = "ioc" /\ addr = reg
  /\ ~ready \/ pc = "cr" => ~ioc
  /\ pc = "ioc" /\ ready => ioc /\ rdata.of = reg

(* What register reg holds now, as far as the driver looks *)
Current(v) ==
  /\ v.of = reg
  /\ reg = "BMSR" => (v.up <=> link)
  /\ reg = "SCSR" => v.mode = mode

(* A value read is still true when it is used. *)
ValInv ==
  /\ low => ~link
  /\ pc = "ioc" /\ ready => Current(rdata)
  /\ pc = "rdata" => Current(rdata)
  /\ pc = "got" => Current(val)

(* What agrees with the PHY at each step: everything, or what a call under way *)
(* has set already.                                                            *)
AgreeInv ==
  /\ pc \in ReadSteps /\ reg = "SCSR" => link
  /\ pc \in {"idle", "test", "errs", "unblock"} => Agree
  /\ pc \in ReadSteps /\ caller = "phyid" => Agree
  /\ pc \in ReadSteps \cup {"sig"} /\ caller = "linkup" =>
       link /\ link_reg = "ETH_LINKUP" /\ phylink = mode
  /\ pc \in ReadSteps \cup {"sig"} /\ caller = "recover" =>
       /\ trx = "off" /\ netif_link = link
       /\ link_reg = IF link THEN "ETH_LINKUP" ELSE "ETH_LINKDOWN"
       /\ link => phylink = mode

Settled == ValInv /\ AgreeInv

(* A time waits in bcd_time until it is published. *)
TimeInv ==
  /\ last \in Times \cup {-1}
  /\ bcd_time # -1 => last # -1 /\ bcd_time = Rt!Signed(Rt!Bcd[last])
  /\ TimeKept

(* The parts of TypeOK: the flags, the values and the other service; and which *)
(* register is read for whom                                                   *)
FlagTypes ==
  /\ link \in BOOLEAN /\ low \in BOOLEAN /\ ready \in BOOLEAN /\ ioc \in BOOLEAN
  /\ link_sig \in BOOLEAN /\ buserr \in BOOLEAN /\ sigint \in BOOLEAN /\ sigbus \in BOOLEAN
  /\ netif_link \in BOOLEAN /\ raced \in BOOLEAN

ValueTypes ==
  /\ mode \in Modes /\ phylink \in Modes /\ trx \in Modes \cup {"off"}
  /\ isr \subseteq {"linkdown", "autoneg_cmplt"}
  /\ addr \in {"BMSR", "SCSR", "ISR", "ID1", "ID2"}
  /\ link_reg \in {"ETH_LINKUP", "ETH_LINKDOWN"}
  /\ pc \in {"idle", "test", "sig", "ready", "icr", "cleared", "cr", "ioc", "rdata", "got",
             "errs", "unblock"}
  /\ caller \in {"service", "linkup", "recover", "phyid"}
  /\ sgls \subseteq {"SIGINT", "SIGBUS"}

RegInv ==
  /\ reg \in {"BMSR", "SCSR", "ID1", "ID2"}
  /\ pc \in ReadSteps => (caller = "phyid" <=> reg \in {"ID1", "ID2"})
  /\ pc = "sig" => caller # "phyid"
  /\ pc \in {"idle", "test"} => caller = "service"
  /\ val.of = "SCSR" => val.mode \in Modes
  /\ rdata.of = "SCSR" => rdata.mode \in Modes

TimeTypes ==
  /\ lost \in BOOLEAN
  /\ taken \subseteq {"link", "time", "bus"} /\ set \subseteq {"SIGINT", "SIGBUS"}
  /\ bcd_time \in Rt!Ints /\ time \in Rt!Ints /\ rt_msuretime \in Rt!Ints
  /\ rpc \in {"idle", "load", "reset", "unblock"}

LinkPart ==
  /\ FlagTypes /\ ValueTypes /\ RegInv
  /\ ~raced => MdioInv /\ (Settled \/ Pending)

IInv == LinkPart /\ TimeTypes /\ TimeInv

-----------------------------------------------------------------------------
(* A nonempty set of numbers has a least one. *)
LEMMA LeastNumber ==
  ASSUME NEW T, T \subseteq Nat, T # {}
  PROVE  \E x \in T : \A y \in T : x <= y
<1> DEFINE R == OpToRel(<, Nat)
<1>1. PICK x \in T : \A y \in T : ~(<<y, x>> \in R)
  BY NatLessThanWellFounded, WFMin
<1>2. ASSUME NEW y \in T PROVE x <= y
  <2>1. ~(y < x)
    BY <1>1 DEF OpToRel
  <2> QED
    BY <2>1
<1> QED
  BY <1>2

(* A function on 0..N given by its value at 0 and, elsewhere, by the value at a *)
(* smaller number                                                               *)
Recursive(z, f, p, N) ==
  \E g \in [0..N -> Nat] : \A k \in 0..N : g[k] = IF k = 0 THEN z ELSE f[k][g[p[k]]]

(* A recursion that goes down defines a function: what the powers and the two *)
(* conversions have in common.                                                *)
LEMMA Recursion ==
  ASSUME NEW z \in Nat, NEW f \in [Nat -> [Nat -> Nat]], NEW p \in [Nat -> Nat],
         \A k \in Nat \ {0} : p[k] < k,
         NEW N \in Nat
  PROVE  Recursive(z, f, p, N)
<1> DEFINE Def(g, n) == \A k \in 0..n : g[k] = IF k = 0 THEN z ELSE f[k][g[p[k]]]
           Has(n) == \E g \in [0..n -> Nat] : Def(g, n)
           T == {n \in Nat : ~Has(n)}
<1>1. Has(0)
  <2> DEFINE g == [k \in 0..0 |-> z]
  <2>1. g \in [0..0 -> Nat] /\ Def(g, 0)
    OBVIOUS
  <2> QED
    BY <2>1
<1>2. ASSUME NEW n \in Nat, Has(n) PROVE Has(n + 1)
  <2>1. PICK g \in [0..n -> Nat] : Def(g, n)
    BY <1>2
  <2>2. p[n + 1] \in 0..n /\ g[p[n + 1]] \in Nat /\ f[n + 1] \in [Nat -> Nat]
    <3> HIDE DEF Def, Has, T
    <3>1. n + 1 \in Nat \ {0}
      OBVIOUS
    <3>2. p[n + 1] \in Nat /\ p[n + 1] < n + 1 /\ f[n + 1] \in [Nat -> Nat]
      BY <3>1
    <3>3. p[n + 1] \in 0..n
      BY <3>2
    <3> QED
      BY <3>2, <3>3
  <2> DEFINE m == f[n + 1][g[p[n + 1]]]
  <2>3. m \in Nat
    BY <2>2
  <2> HIDE DEF m
  <2> DEFINE h == [k \in 0..(n + 1) |-> IF k <= n THEN g[k] ELSE m]
  <2>4. h \in [0..(n + 1) -> Nat]
    <3> HIDE DEF Def, Has, T
    <3>1. ASSUME NEW k \in 0..(n + 1) PROVE (IF k <= n THEN g[k] ELSE m) \in Nat
      <4>1. k <= n => k \in 0..n
        OBVIOUS
      <4> QED
        BY <2>3, <4>1
    <3> QED
      BY <3>1
  <2>5. ASSUME NEW k \in 0..(n + 1)
        PROVE  h[k] = IF k = 0 THEN z ELSE f[k][h[p[k]]]
    <3>1. CASE k <= n
      <4> HIDE DEF Has, T
      <4>1. k # 0 => p[k] \in 0..n
        <5>1. k # 0 => p[k] \in Nat /\ p[k] < k
          <6>1. k # 0 => k \in Nat \ {0}
            OBVIOUS
          <6> QED
            BY <6>1
        <5> QED
          BY <3>1, <5>1
      <4>2. h[k] = g[k] /\ (k # 0 => h[p[k]] = g[p[k]])
        BY <3>1, <4>1
      <4>3. g[k] = IF k = 0 THEN z ELSE f[k][g[p[k]]]
        BY <3>1, <2>1
      <4> QED
        BY <4>2, <4>3
    <3>2. CASE k = n + 1
      <4>1. h[k] = m /\ h[p[k]] = g[p[n + 1]] /\ k # 0
        BY <3>2, <2>2
      <4> QED
        BY <4>1, <3>2 DEF m
    <3> QED
      BY <3>1, <3>2
  <2>6. Def(h, n + 1)
    BY <2>5
  <2> HIDE DEF h, Def
  <2> QED
    BY <2>4, <2>6
<1> HIDE DEF Has
<1>3. T = {}
  <2> SUFFICES ASSUME T # {} PROVE FALSE
    OBVIOUS
  <2>1. PICK x \in T : \A y \in T : x <= y
    BY LeastNumber
  <2>2. x # 0 /\ x - 1 \in Nat
    <3>1. x \in Nat /\ ~Has(x)
      OBVIOUS
    <3>2. x # 0
      BY <1>1, <3>1
    <3> QED
      BY <3>1, <3>2
  <2>3. Has(x - 1)
    BY <2>1, <2>2
  <2>4. Has((x - 1) + 1)
    BY <1>2, <2>2, <2>3
  <2> QED
    BY <2>4
<1>4. Has(N)
  BY <1>3
<1> QED
  BY <1>4 DEF Has, Recursive

(* Powers of a base, as Tens and Sixteens are defined *)
LEMMA Powers ==
  ASSUME NEW b \in Nat, NEW N \in Nat
  PROVE  \E g : g = [k \in 0..N |-> IF k = 0 THEN 1 ELSE b * g[k - 1]]
<1> DEFINE f == [k \in Nat |-> [x \in Nat |-> b * x]]
           p == [k \in Nat |-> IF k = 0 THEN 0 ELSE k - 1]
<1>1. f \in [Nat -> [Nat -> Nat]]
  <2>1. \A x \in Nat : b * x \in Nat
    OBVIOUS
  <2> QED
    BY <2>1
<1>2. p \in [Nat -> Nat] /\ \A k \in Nat \ {0} : p[k] < k
  OBVIOUS
<1>3. \A k \in Nat : \A x \in Nat : f[k][x] = b * x
  OBVIOUS
<1>4. \A k \in Nat \ {0} : p[k] = k - 1
  OBVIOUS
<1> HIDE DEF f, p
<1>5. PICK g \in [0..N -> Nat] : \A k \in 0..N : g[k] = IF k = 0 THEN 1 ELSE f[k][g[p[k]]]
  <2>1. 1 \in Nat
    OBVIOUS
  <2>2. Recursive(1, f, p, N)
    BY <1>1, <1>2, <2>1, Recursion
  <2> QED
    BY <2>2 DEF Recursive
<1>6. ASSUME NEW k \in 0..N PROVE g[k] = IF k = 0 THEN 1 ELSE b * g[k - 1]
  <2>1. CASE k = 0
    BY <2>1, <1>5
  <2>2. CASE k # 0
    <3>1. k \in Nat \ {0} /\ k - 1 \in 0..N
      BY <2>2
    <3>2. g[k] = f[k][g[k - 1]] /\ g[k - 1] \in Nat
      BY <3>1, <1>4, <1>5
    <3> QED
      BY <2>2, <3>1, <3>2, <1>3
  <2> QED
    BY <2>1, <2>2
<1>7. g = [k \in 0..N |-> IF k = 0 THEN 1 ELSE b * g[k - 1]]
  BY <1>6
<1> QED
  BY <1>7

(* Digits of base r written in base q, as Bcd and Dec are defined *)
LEMMA Radix ==
  ASSUME NEW r \in {10, 16}, NEW q \in {10, 16}, NEW N \in Nat
  PROVE  \E g : g = [k \in 0..N |-> IF k = 0 THEN 0 ELSE (k % r) + q * g[k \div r]]
<1> DEFINE f == [k \in Nat |-> [x \in Nat |-> (k % r) + q * x]]
           p == [k \in Nat |-> k \div r]
<1>1. f \in [Nat -> [Nat -> Nat]]
  <2>1. \A k \in Nat : \A x \in Nat : (k % r) + q * x \in Nat
    OBVIOUS
  <2> QED
    BY <2>1
<1>2. \A k \in Nat : k \div r \in Nat /\ k % r \in Nat
  OBVIOUS
<1>3. \A k \in Nat \ {0} : k \div r < k
  OBVIOUS
<1>4. \A k \in Nat : \A x \in Nat : f[k][x] = (k % r) + q * x
  OBVIOUS
<1>5. \A k \in Nat : p[k] = k \div r
  OBVIOUS
<1>6. p \in [Nat -> Nat]
  BY <1>2
<1> HIDE DEF f, p
<1>7. \A k \in Nat \ {0} : p[k] < k
  BY <1>3, <1>5
<1>8. PICK g \in [0..N -> Nat] : \A k \in 0..N : g[k] = IF k = 0 THEN 0 ELSE f[k][g[p[k]]]
  <2>1. 0 \in Nat
    OBVIOUS
  <2>2. Recursive(0, f, p, N)
    BY <1>1, <1>6, <1>7, <2>1, Recursion
  <2> QED
    BY <2>2 DEF Recursive
<1>9. ASSUME NEW k \in 0..N PROVE g[k] = IF k = 0 THEN 0 ELSE (k % r) + q * g[k \div r]
  <2>1. CASE k = 0
    BY <2>1, <1>8
  <2>2. CASE k # 0
    <3>1. k \in Nat \ {0} /\ k \div r \in Nat /\ k \div r < k
      BY <2>2, <1>2, <1>3
    <3>2. k \div r \in 0..N
      BY <3>1
    <3>3. g[k] = f[k][g[k \div r]] /\ g[k \div r] \in Nat
      BY <3>1, <3>2, <2>2, <1>5, <1>8
    <3> QED
      BY <2>2, <3>1, <3>3, <1>4
  <2> QED
    BY <2>1, <2>2
<1>10. g = [k \in 0..N |-> IF k = 0 THEN 0 ELSE (k % r) + q * g[k \div r]]
  BY <1>9
<1> QED
  BY <1>10

(* The powers are what their definitions say. *)
LEMMA PowersDef ==
  /\ \A k \in 0..Digits : Rt!Tens[k] = IF k = 0 THEN 1 ELSE 10 * Rt!Tens[k - 1]
  /\ \A k \in 0..Digits : Rt!Sixteens[k] = IF k = 0 THEN 1 ELSE 16 * Rt!Sixteens[k - 1]
<1>1. Digits \in Nat
  BY MeasureAssumption
<1>2. 10 \in Nat /\ 16 \in Nat
  OBVIOUS
<1>3. \E g : g = [k \in 0..Digits |-> IF k = 0 THEN 1 ELSE 10 * g[k - 1]]
  BY <1>1, <1>2, Powers
<1>4. Rt!Tens = [k \in 0..Digits |-> IF k = 0 THEN 1 ELSE 10 * Rt!Tens[k - 1]]
  BY <1>3 DEF Rt!Tens
<1>5. \E g : g = [k \in 0..Digits |-> IF k = 0 THEN 1 ELSE 16 * g[k - 1]]
  BY <1>1, <1>2, Powers
<1>6. Rt!Sixteens = [k \in 0..Digits |-> IF k = 0 THEN 1 ELSE 16 * Rt!Sixteens[k - 1]]
  BY <1>5 DEF Rt!Sixteens
<1> QED
  BY <1>4, <1>6

(* The powers are positive. *)
LEMMA PowersType ==
  \A k \in 0..Digits : Rt!Tens[k] \in Nat \ {0} /\ Rt!Sixteens[k] \in Nat \ {0}
<1> DEFINE Ok(k) == Rt!Tens[k] \in Nat \ {0} /\ Rt!Sixteens[k] \in Nat \ {0}
           T == {k \in 0..Digits : ~Ok(k)}
<1> SUFFICES ASSUME T # {} PROVE FALSE
  OBVIOUS
<1>1. Digits \in Nat
  BY MeasureAssumption
<1>2. T \subseteq Nat
  OBVIOUS
<1>3. PICK x \in T : \A y \in T : x <= y
  BY <1>2, LeastNumber
<1> HIDE DEF Ok
<1>4. x \in 0..Digits /\ ~Ok(x)
  OBVIOUS
<1>5. x # 0
  BY <1>1, <1>4, PowersDef DEF Ok
<1>6. x - 1 \in 0..Digits /\ x - 1 < x
  BY <1>1, <1>4, <1>5
<1>7. Ok(x - 1)
  BY <1>3, <1>6
<1>8. Rt!Tens[x] = 10 * Rt!Tens[x - 1] /\ Rt!Sixteens[x] = 16 * Rt!Sixteens[x - 1]
  BY <1>4, <1>5, PowersDef
<1>9. Ok(x)
  BY <1>7, <1>8 DEF Ok
<1> QED
  BY <1>4, <1>9

(* Half of Span is a number, and Span twice that. *)
LEMMA SpanHalf ==
  Rt!Span \in Nat \ {0} /\ Rt!Span \div 2 \in Nat /\ Rt!Span = 2 * (Rt!Span \div 2)
<1>1. Digits \in 0..Digits /\ Digits # 0 /\ Digits - 1 \in 0..Digits
  BY MeasureAssumption
<1>2. PICK h \in Nat \ {0} : Rt!Sixteens[Digits] = 16 * h
  BY <1>1, PowersDef, PowersType
<1> QED
  BY <1>2 DEF Rt!Span

(* So are the two conversions. *)
LEMMA CodeDef ==
  /\ \A d \in 0..(Rt!Tens[Digits] - 1) :
        Rt!Bcd[d] = IF d = 0 THEN 0 ELSE (d % 10) + 16 * Rt!Bcd[d \div 10]
  /\ \A v \in 0..(Rt!Span - 1) :
        Rt!Dec[v] = IF v = 0 THEN 0 ELSE (v % 16) + 10 * Rt!Dec[v \div 16]
<1>1. Rt!Tens[Digits] - 1 \in Nat
  BY PowersType, MeasureAssumption
<1>2. Rt!Span - 1 \in Nat
  BY SpanHalf
<1>3. \E g : g = [k \in 0..(Rt!Tens[Digits] - 1) |->
                    IF k = 0 THEN 0 ELSE (k % 10) + 16 * g[k \div 10]]
  BY <1>1, Radix
<1>4. Rt!Bcd = [k \in 0..(Rt!Tens[Digits] - 1) |->
                  IF k = 0 THEN 0 ELSE (k % 10) + 16 * Rt!Bcd[k \div 10]]
  BY <1>3 DEF Rt!Bcd, Rt!Encodable
<1>5. \E g : g = [k \in 0..(Rt!Span - 1) |->
                    IF k = 0 THEN 0 ELSE (k % 16) + 10 * g[k \div 16]]
  BY <1>2, Radix
<1>6. Rt!Dec = [k \in 0..(Rt!Span - 1) |->
                  IF k = 0 THEN 0 ELSE (k % 16) + 10 * Rt!Dec[k \div 16]]
  BY <1>5 DEF Rt!Dec
<1> QED
  BY <1>4, <1>6

(* The encoding of a time of k digits has k nibbles, and is never smaller than *)
(* the time.                                                                   *)
LEMMA BcdRange ==
  \A d \in 0..(Rt!Tens[Digits] - 1) :
     /\ Rt!Bcd[d] \in Nat /\ d <= Rt!Bcd[d]
     /\ \A k \in 0..Digits : d < Rt!Tens[k] => Rt!Bcd[d] < Rt!Sixteens[k]
<1> DEFINE Top == Rt!Tens[Digits] - 1
           Ok(d) == /\ Rt!Bcd[d] \in Nat /\ d <= Rt!Bcd[d]
                    /\ \A k \in 0..Digits : d < Rt!Tens[k] => Rt!Bcd[d] < Rt!Sixteens[k]
           T == {d \in 0..Top : ~Ok(d)}
<1> SUFFICES ASSUME T # {} PROVE FALSE
  OBVIOUS
<1>1. Top \in Nat
  BY PowersType, MeasureAssumption
<1> HIDE DEF Top
<1>2. PICK x \in T : \A y \in T : x <= y
  <2> HIDE DEF Ok
  <2>1. T \subseteq Nat
    OBVIOUS
  <2> HIDE DEF T
  <2> QED
    BY <2>1, LeastNumber
<1> HIDE DEF Ok
<1>3. x \in 0..Top /\ ~Ok(x)
  OBVIOUS
<1>4. CASE x = 0
  <2>1. Rt!Bcd[x] = 0
    BY <1>3, <1>4, CodeDef DEF Top
  <2> QED
    BY <1>3, <1>4, <2>1, PowersType DEF Ok
<1>5. CASE x # 0
  <2> DEFINE y == x \div 10
  <2>1. y \in Nat /\ y < x /\ x = 10 * y + (x % 10) /\ x % 10 \in 0..9
    BY <1>1, <1>3, <1>5
  <2>2. Rt!Bcd[x] = (x % 10) + 16 * Rt!Bcd[y]
    BY <1>3, <1>5, CodeDef DEF Top
  <2> HIDE DEF y
  <2>3. Ok(y)
    BY <1>1, <1>2, <1>3, <2>1
  <2> DEFINE m == x % 10
             b == Rt!Bcd[y]
  <2>4. b \in Nat /\ y <= b /\ m \in 0..9 /\ x = 10 * y + m /\ Rt!Bcd[x] = m + 16 * b
    BY <2>1, <2>2, <2>3 DEF Ok
  <2> HIDE DEF m
  <2>5. ASSUME NEW k \in 0..Digits, x < Rt!Tens[k] PROVE Rt!Bcd[x] < Rt!Sixteens[k]
    <3>1. k # 0
      BY <2>5, <1>1, <1>3, <1>5, PowersDef
    <3>2. k - 1 \in 0..Digits
      BY <3>1, MeasureAssumption
    <3>3. Rt!Tens[k] = 10 * Rt!Tens[k - 1] /\ Rt!Sixteens[k] = 16 * Rt!Sixteens[k - 1]
      BY <3>1, PowersDef
    <3>4. Rt!Tens[k - 1] \in Nat /\ Rt!Sixteens[k - 1] \in Nat
      BY <3>2, PowersType
    <3>5. y < Rt!Tens[k - 1]
      BY <2>1, <2>4, <2>5, <3>3, <3>4
    <3>6. b < Rt!Sixteens[k - 1]
      BY <2>3, <3>2, <3>5 DEF Ok
    <3> HIDE DEF b
    <3> QED
      BY <2>4, <3>3, <3>4, <3>6
  <2>6. Rt!Bcd[x] \in Nat /\ x <= Rt!Bcd[x]
    <3> HIDE DEF b
    <3> QED
      BY <2>1, <2>4
  <2> QED
    BY <1>3, <2>5, <2>6 DEF Ok
<1> QED
  BY <1>4, <1>5

(* bcd_toDec never gives more than the register held. *)
LEMMA DecRange ==
  \A v \in 0..(Rt!Span - 1) : Rt!Dec[v] \in 0..v
<1> DEFINE Top == Rt!Span - 1
           Ok(v) == Rt!Dec[v] \in 0..v
           T == {v \in 0..Top : ~Ok(v)}
<1> SUFFICES ASSUME T # {} PROVE FALSE
  OBVIOUS
<1>1. Top \in Nat
  BY SpanHalf
<1> HIDE DEF Top
<1>2. PICK x \in T : \A y \in T : x <= y
  <2> HIDE DEF Ok
  <2>1. T \subseteq Nat
    OBVIOUS
  <2> HIDE DEF T
  <2> QED
    BY <2>1, LeastNumber
<1> HIDE DEF Ok
<1>3. x \in 0..Top /\ ~Ok(x)
  OBVIOUS
<1>4. CASE x = 0
  BY <1>3, <1>4, CodeDef DEF Top, Ok
<1>5. CASE x # 0
  <2> DEFINE y == x \div 16
             m == x % 16
  <2>1. y \in Nat /\ y < x /\ x = 16 * y + m /\ m \in 0..15
    BY <1>1, <1>3, <1>5
  <2>2. Rt!Dec[x] = m + 10 * Rt!Dec[y]
    BY <1>3, <1>5, CodeDef DEF Top
  <2> HIDE DEF y, m
  <2>3. Rt!Dec[y] \in 0..y
    BY <1>1, <1>2, <1>3, <2>1 DEF Ok
  <2> QED
    BY <1>3, <2>1, <2>2, <2>3 DEF Ok
<1> QED
  BY <1>4, <1>5

(* rtmsure.c:57 bcd_toDec gives back the time that the device encoded, for every *)
(* time and every width of the register.                                         *)
THEOREM BcdRoundTrip ==
  \A d \in 0..(Rt!Tens[Digits] - 1) : Rt!bcd_toDec(Rt!Bcd[d]) = d
<1> DEFINE Top == Rt!Tens[Digits] - 1
           Ok(d) == Rt!Dec[Rt!Bcd[d]] = d
           T == {d \in 0..Top : ~Ok(d)}
<1> SUFFICES ASSUME T # {} PROVE FALSE
  BY DEF Rt!bcd_toDec
<1>1. Top \in Nat
  BY PowersType, MeasureAssumption
<1> HIDE DEF Top
<1>2. PICK x \in T : \A y \in T : x <= y
  <2> HIDE DEF Ok
  <2>1. T \subseteq Nat
    OBVIOUS
  <2> HIDE DEF T
  <2> QED
    BY <2>1, LeastNumber
<1> HIDE DEF Ok
<1>3. x \in 0..Top /\ ~Ok(x)
  OBVIOUS
<1>4. ASSUME NEW d \in 0..Top PROVE Rt!Bcd[d] \in 0..(Rt!Span - 1) /\ d <= Rt!Bcd[d]
  <2>1. Digits \in 0..Digits /\ Rt!Tens[Digits] \in Nat /\ d < Rt!Tens[Digits]
    BY PowersType, MeasureAssumption DEF Top
  <2> QED
    BY <2>1, BcdRange, SpanHalf DEF Rt!Span, Top
<1>5. CASE x = 0
  BY <1>3, <1>5, CodeDef, SpanHalf DEF Top, Ok
<1>6. CASE x # 0
  <2> DEFINE y == x \div 10
             m == x % 10
             v == Rt!Bcd[x]
             b == Rt!Bcd[y]
  <2>1. y \in Nat /\ y < x /\ x = 10 * y + m /\ m \in 0..9
    BY <1>1, <1>3, <1>6
  <2>2. v = m + 16 * b
    BY <1>3, <1>6, CodeDef DEF Top
  <2> HIDE DEF y, m
  <2>3. y \in 0..Top /\ Ok(y)
    BY <1>1, <1>2, <1>3, <2>1
  <2>4. v \in 0..(Rt!Span - 1) /\ b \in 0..(Rt!Span - 1) /\ x <= v
    BY <1>3, <1>4, <2>3
  <2> HIDE DEF v, b
  <2>5. v # 0 /\ v % 16 = m /\ v \div 16 = b
    BY <1>3, <1>6, <2>1, <2>2, <2>4, SpanHalf
  <2>6. Rt!Dec[v] = m + 10 * Rt!Dec[b]
    BY <2>4, <2>5, CodeDef
  <2>7. Rt!Dec[b] = y
    BY <2>3 DEF Ok, b
  <2> QED
    BY <1>3, <2>1, <2>6, <2>7 DEF Ok, v
<1> QED
  BY <1>5, <1>6

(* The top nibble decides the sign: the register is negative for the times from *)
(* 8 * Tens[Digits - 1] on.                                                     *)
LEMMA BcdSign ==
  \A d \in 0..(Rt!Tens[Digits] - 1) : \A k \in 0..Digits :
     d < 8 * Rt!Tens[k] <=> Rt!Bcd[d] < 8 * Rt!Sixteens[k]
<1> DEFINE Top == Rt!Tens[Digits] - 1
           Ok(d) == \A k \in 0..Digits : d < 8 * Rt!Tens[k] <=> Rt!Bcd[d] < 8 * Rt!Sixteens[k]
           T == {d \in 0..Top : ~Ok(d)}
<1> SUFFICES ASSUME T # {} PROVE FALSE
  OBVIOUS
<1>1. Top \in Nat
  BY PowersType, MeasureAssumption
<1> HIDE DEF Top
<1>2. PICK x \in T : \A y \in T : x <= y
  <2> HIDE DEF Ok
  <2>1. T \subseteq Nat
    OBVIOUS
  <2> HIDE DEF T
  <2> QED
    BY <2>1, LeastNumber
<1> HIDE DEF Ok
<1>3. x \in 0..Top /\ ~Ok(x)
  OBVIOUS
<1>4. CASE x = 0
  <2>1. Rt!Bcd[x] = 0
    BY <1>3, <1>4, CodeDef DEF Top
  <2> QED
    BY <1>3, <1>4, <2>1, PowersType DEF Ok
<1>5. CASE x # 0
  <2> DEFINE y == x \div 10
             m == x % 10
             b == Rt!Bcd[y]
  <2>1. y \in Nat /\ y < x /\ x = 10 * y + m /\ m \in 0..9
    BY <1>1, <1>3, <1>5
  <2>2. Rt!Bcd[x] = m + 16 * b
    BY <1>3, <1>5, CodeDef DEF Top
  <2> HIDE DEF y, m
  <2>3. y \in 0..Top /\ Ok(y)
    BY <1>1, <1>2, <1>3, <2>1
  <2>4. b \in Nat /\ y <= b /\ (y = 0 => b = 0)
    BY <2>3, BcdRange, CodeDef DEF Top
  <2>5. ASSUME NEW k \in 0..Digits
        PROVE  x < 8 * Rt!Tens[k] <=> Rt!Bcd[x] < 8 * Rt!Sixteens[k]
    <3>1. CASE k = 0
      <4>1. Rt!Tens[k] = 1 /\ Rt!Sixteens[k] = 1
        BY <3>1, PowersDef
      <4> HIDE DEF b
      <4> QED
        BY <2>1, <2>2, <2>4, <4>1
    <3>2. CASE k # 0
      <4>1. k - 1 \in 0..Digits
        BY <3>2, MeasureAssumption
      <4>2. Rt!Tens[k] = 10 * Rt!Tens[k - 1] /\ Rt!Sixteens[k] = 16 * Rt!Sixteens[k - 1]
        BY <3>2, PowersDef
      <4>3. Rt!Tens[k - 1] \in Nat /\ Rt!Sixteens[k - 1] \in Nat
        BY <4>1, PowersType
      <4>4. y < 8 * Rt!Tens[k - 1] <=> b < 8 * Rt!Sixteens[k - 1]
        BY <2>3, <4>1 DEF Ok
      <4> HIDE DEF b
      <4> QED
        BY <2>1, <2>2, <2>4, <4>2, <4>3, <4>4
    <3> QED
      BY <3>1, <3>2
  <2> QED
    BY <1>3, <2>5 DEF Ok
<1> QED
  BY <1>4, <1>5

(* What the cast leaves of an encoded time: an int that is not the mark for no time, *)
(* negative exactly for the times that are not shown, and else the encoding.         *)
LEMMA SignedTime ==
  ASSUME NEW d \in 0..(Rt!Tens[Digits] - 1)
  PROVE  LET s == Rt!Signed(Rt!Bcd[d]) IN
           /\ s \in Rt!Ints /\ s # -1
           /\ IF d < 8 * Rt!Tens[Digits - 1] THEN s >= 0 /\ s = Rt!Bcd[d] ELSE s < 0
<1> DEFINE b == Rt!Bcd[d]
           sp == Rt!Span
           hf == Rt!Span \div 2
<1>1. Digits \in 0..Digits /\ Digits - 1 \in 0..Digits /\ Digits # 0
  BY MeasureAssumption
<1>2. PICK h \in Nat \ {0} : sp = 16 * h /\ h = Rt!Sixteens[Digits - 1]
  BY <1>1, PowersDef, PowersType DEF Rt!Span
<1>3. hf \in Nat /\ sp = 2 * hf
  BY SpanHalf
<1>4. b \in Nat /\ b < sp
  <2>1. Rt!Tens[Digits] \in Nat /\ d < Rt!Tens[Digits]
    BY <1>1, PowersType
  <2> QED
    BY <1>1, <2>1, BcdRange DEF Rt!Span
<1>5. b # sp - 1
  <2>1. CASE d = 0
    <3>1. b = 0
      BY <2>1, CodeDef
    <3> HIDE DEF b, sp, hf
    <3> QED
      BY <3>1, <1>2
  <2>2. CASE d # 0
    <3> DEFINE m == d % 10
               q == d \div 10
    <3>1. m \in 0..9 /\ q \in 0..(Rt!Tens[Digits] - 1)
      BY <1>1, PowersType
    <3>2. b = m + 16 * Rt!Bcd[q] /\ Rt!Bcd[q] \in Nat
      BY <2>2, <3>1, CodeDef, BcdRange
    <3> HIDE DEF b, sp, hf, m, q
    <3> QED
      BY <3>1, <3>2, <1>2
  <2> QED
    BY <2>1, <2>2
<1>6. d < 8 * Rt!Tens[Digits - 1] <=> b < hf
  <2>1. d < 8 * Rt!Tens[Digits - 1] <=> b < 8 * h
    BY <1>1, <1>2, BcdSign
  <2> HIDE DEF b, sp, hf
  <2>2. hf = 8 * h
    BY <1>2, <1>3
  <2> QED
    BY <2>1, <2>2
<1>7. Rt!Signed(b) = IF b >= hf THEN b - sp ELSE b
  BY DEF Rt!Signed
<1>8. Rt!Ints = (-hf)..(hf - 1)
  BY DEF Rt!Ints
<1> HIDE DEF b, sp, hf
<1>9. Rt!Signed(b) \in Rt!Ints /\ Rt!Signed(b) # -1
  BY <1>3, <1>4, <1>5, <1>7, <1>8
<1>10. b < hf => Rt!Signed(b) >= 0 /\ Rt!Signed(b) = b
  BY <1>3, <1>4, <1>7
<1>11. ~(b < hf) => Rt!Signed(b) < 0
  BY <1>3, <1>4, <1>7
<1> QED
  BY <1>6, <1>9, <1>10, <1>11 DEF b

-----------------------------------------------------------------------------
(* A time of the constant Times can be encoded. *)
LEMMA TimesRange == \A d \in Times : d \in 0..(Rt!Tens[Digits] - 1) /\ d # -1
<1>1. Rt!Tens[Digits] \in Nat
  BY PowersType, MeasureAssumption
<1> QED
  BY <1>1, MeasureAssumption DEF Rt!Encodable

(* A measurement leaves a time for the service. *)
LEMMA MeasureTime ==
  ASSUME TimeTypes, TimeInv, NEW d \in Times, Rt!onRtmsure_irq(d), taken' = taken
  PROVE  TimeTypes' /\ TimeInv'
<1>1. d \in 0..(Rt!Tens[Digits] - 1) /\ d # -1
  BY TimesRange
<1>2. Rt!Signed(Rt!Bcd[d]) \in Rt!Ints /\ Rt!Signed(Rt!Bcd[d]) # -1
  BY <1>1, SignedTime
<1>3. /\ bcd_time' = Rt!Signed(Rt!Bcd[d]) /\ last' = d /\ lost' = FALSE
      /\ rt_msuretime' = rt_msuretime /\ rpc' = rpc /\ time' = time /\ set' = set
  BY DEF Rt!onRtmsure_irq
<1> HIDE DEF Rt!onRtmsure_irq
<1>4. TimeTypes'
  BY <1>2, <1>3 DEF TimeTypes
<1>5. TimeKept'
  BY <1>2, <1>3 DEF TimeKept
<1> QED
  BY <1>1, <1>2, <1>3, <1>4, <1>5 DEF TimeInv

(* The service publishes the time and nothing else. *)
LEMMA PublishTime ==
  ASSUME TimeTypes, TimeInv, Rt!rtmsure_publish
  PROVE  /\ bcd_time' \in Rt!Ints /\ rt_msuretime' \in Rt!Ints
         /\ TimeInv'
<1>1. /\ bcd_time' = -1 /\ last' = last /\ lost' = (lost \/ bcd_time # time)
      /\ rt_msuretime' = IF time = -1 THEN rt_msuretime
                         ELSE IF time < 0 THEN time ELSE Rt!Dec[time]
  BY DEF Rt!rtmsure_publish, Rt!bcd_toDec
<1> HIDE DEF Rt!rtmsure_publish
<1>2. -1 \in Rt!Ints
  BY SpanHalf DEF Rt!Ints
<1>3. rt_msuretime' \in Rt!Ints
  <2>1. CASE time < 0 \/ time = -1
    BY <1>1, <2>1 DEF TimeTypes
  <2>2. CASE ~(time < 0)
    <3>1. time \in 0..(Rt!Span - 1) /\ time < Rt!Span \div 2
      BY <2>2, SpanHalf DEF TimeTypes, Rt!Ints
    <3>2. Rt!Dec[time] \in 0..time
      BY <3>1, DecRange
    <3>3. rt_msuretime' = Rt!Dec[time]
      BY <1>1, <2>2, <3>1, SpanHalf
    <3>4. Rt!Dec[time] \in Rt!Ints
      BY <3>1, <3>2, SpanHalf DEF Rt!Ints
    <3> QED
      BY <3>3, <3>4
  <2> QED
    BY <2>1, <2>2
<1>4. ASSUME last # -1, ~lost, bcd_time = time PROVE Rt!Shown' = Rt!Expected(last)
  <2>1. CASE time = -1
    <3>1. rt_msuretime' = rt_msuretime /\ bcd_time = -1
      BY <1>1, <1>4, <2>1
    <3> QED
      BY <1>4, <3>1 DEF TimeInv, TimeKept, Rt!Shown
  <2>2. CASE time # -1
    <3>1. last \in Times /\ time = Rt!Signed(Rt!Bcd[last])
      BY <1>4, <2>2 DEF TimeInv
    <3>2. last \in 0..(Rt!Tens[Digits] - 1)
      BY <3>1, TimesRange
    <3>3. IF last < 8 * Rt!Tens[Digits - 1] THEN time >= 0 /\ time = Rt!Bcd[last] ELSE time < 0
      BY <3>1, <3>2, SignedTime
    <3>4. Rt!Dec[Rt!Bcd[last]] = last
      BY <3>2, BcdRoundTrip DEF Rt!bcd_toDec
    <3>5. CASE last < 8 * Rt!Tens[Digits - 1]
      <4>1. time >= 0 /\ time \in Int /\ Rt!Dec[time] = last
        BY <3>3, <3>4, <3>5, SpanHalf DEF TimeTypes, Rt!Ints
      <4>2. rt_msuretime' = last /\ last \in Nat
        BY <1>1, <2>2, <4>1, <3>2
      <4> QED
        BY <3>5, <4>2 DEF Rt!Shown, Rt!Expected
    <3>6. CASE ~(last < 8 * Rt!Tens[Digits - 1])
      <4>1. rt_msuretime' = time /\ time < 0
        BY <1>1, <2>2, <3>3, <3>6
      <4> QED
        BY <3>6, <4>1 DEF Rt!Shown, Rt!Expected
    <3> QED
      BY <3>5, <3>6
  <2> QED
    BY <2>1, <2>2
<1>5. TimeKept'
  <2> SUFFICES ASSUME last # -1, ~lost' PROVE Rt!Shown' = Rt!Expected(last)
    BY <1>1 DEF TimeKept, Rt!Expected
  <2>1. ~lost /\ bcd_time = time
    BY <1>1
  <2> QED
    BY <1>4, <2>1
<1> QED
  BY <1>1, <1>2, <1>3, <1>5 DEF TimeInv

(* A step of the system keeps the time service's part of IInv. *)
LEMMA TimeStep ==
  ASSUME TimeTypes, TimeInv, [SysNext]_vars
  PROVE  TimeTypes' /\ TimeInv'
<1>1. CASE Measure
  BY <1>1, MeasureTime DEF Measure
<1>2. ASSUME rtvars' = rtvars, taken' \subseteq {"link", "time", "bus"} PROVE TimeTypes' /\ TimeInv'
  BY <1>2 DEF TimeTypes, TimeInv, TimeKept, rtvars, Rt!Shown
<1>3. CASE Hardware
  <2>1. rtvars' = rtvars /\ taken' = taken
    BY <1>3 DEF Hardware
  <2> QED
    BY <1>2, <2>1 DEF TimeTypes
<1>4. CASE EthStep
  <2>1. rtvars' = rtvars /\ taken' \subseteq {"link", "time", "bus"}
    BY <1>4 DEF EthStep, TimeTypes, Flags
  <2> QED
    BY <1>2, <2>1
<1>5. CASE RtStep
  <2>1. taken' \subseteq {"link", "time", "bus"}
    BY <1>5 DEF RtStep, TimeTypes, Flags
  <2>2. CASE Rt!rtmsure_poll
    BY <2>1, <2>2 DEF Rt!rtmsure_poll, TimeTypes, TimeInv, TimeKept, Rt!Shown
  <2>3. CASE Rt!rtmsure_load
    BY <2>1, <2>3 DEF Rt!rtmsure_load, TimeTypes, TimeInv, TimeKept, Rt!Shown
  <2>4. CASE Rt!rtmsure_publish
    <3>1. time' = -1 /\ rpc' \in {"idle", "unblock"} /\ set' \subseteq {"SIGINT", "SIGBUS"}
      BY <2>4 DEF Rt!rtmsure_publish, TimeTypes
    <3>2. lost' \in BOOLEAN
      BY <2>4, Zenon DEF Rt!rtmsure_publish, TimeTypes
    <3>3. -1 \in Rt!Ints
      BY SpanHalf DEF Rt!Ints
    <3> QED
      BY <2>1, <2>4, <3>1, <3>2, <3>3, PublishTime DEF TimeTypes
  <2>5. CASE Rt!rtmsure_unblock
    BY <2>1, <2>5 DEF Rt!rtmsure_unblock, TimeTypes, TimeInv, TimeKept, Rt!Shown
  <2> QED
    BY <1>5, <2>2, <2>3, <2>4, <2>5 DEF RtStep, Rt!rtmsure_pass
<1>6. CASE UNCHANGED vars
  <2>1. rtvars' = rtvars /\ taken' = taken
    BY <1>6 DEF vars
  <2> QED
    BY <1>2, <2>1 DEF TimeTypes
<1> QED
  BY <1>1, <1>3, <1>4, <1>5, <1>6 DEF SysNext

(* One lemma for each action of EthLink: the link service's part of IInv.  A change of *)
(* the link is there to be seen.                                                       *)
LEMMA Link_Plug ==
  ASSUME LinkPart, NEW m \in Modes, Plug(m)
  PROVE  LinkPart'
<1>1. FlagTypes'
  BY Zenon DEF LinkPart, FlagTypes, mdio, signals, state, main, Plug
<1>2. ValueTypes'
  BY DEF LinkPart, ValueTypes, mdio, signals, state, main, Plug
<1>3. RegInv'
  BY DEF LinkPart, ValueTypes, RegInv, ReadSteps, mdio, signals, state, main, Plug
<1>4. Pending'
  BY DEF Pending, mdio, signals, state, main, Plug
<1>5. ASSUME ~raced' PROVE ~raced /\ (MdioInv => MdioInv')
  BY <1>5 DEF MdioInv, mdio, signals, state, main, Plug
<1> QED
  BY <1>1, <1>2, <1>3, <1>4, <1>5 DEF LinkPart

(* The same for Unplug *)
LEMMA Link_Unplug ==
  ASSUME LinkPart, Unplug
  PROVE  LinkPart'
<1>1. FlagTypes'
  BY Zenon DEF LinkPart, FlagTypes, mdio, signals, state, main, Unplug
<1>2. ValueTypes'
  BY DEF LinkPart, ValueTypes, mdio, signals, state, main, Unplug
<1>3. RegInv'
  BY DEF LinkPart, ValueTypes, RegInv, ReadSteps, mdio, signals, state, main, Unplug
<1>4. Pending'
  BY DEF Pending, mdio, signals, state, main, Unplug
<1>5. ASSUME ~raced' PROVE ~raced /\ (MdioInv => MdioInv')
  BY <1>5 DEF MdioInv, mdio, signals, state, main, Unplug
<1> QED
  BY <1>1, <1>2, <1>3, <1>4, <1>5 DEF LinkPart

(* The same for on_phyIRQ *)
LEMMA Link_on_phyIRQ ==
  ASSUME LinkPart, on_phyIRQ
  PROVE  LinkPart'
<1>1. FlagTypes'
  BY Zenon DEF LinkPart, FlagTypes, state, main, on_phyIRQ, Reg, ReadEffect
<1>2. ValueTypes'
  BY DEF LinkPart, ValueTypes, state, main, on_phyIRQ, Reg, ReadEffect
<1>3. RegInv'
  BY DEF LinkPart, ValueTypes, RegInv, ReadSteps, state, main, on_phyIRQ, Reg,
     ReadEffect
<1>4. Pending'
  BY DEF Pending, state, main, on_phyIRQ, Reg, ReadEffect
<1>5. ASSUME ~raced' PROVE ~raced /\ (MdioInv => MdioInv')
  BY <1>5 DEF MdioInv, state, main, on_phyIRQ, Reg, ReadEffect, LinkPart, ValueTypes,
     InMdio
<1> QED
  BY <1>1, <1>2, <1>3, <1>4, <1>5 DEF LinkPart

(* phylink_sig: the service starts afresh; a second read has nothing to throw away, *)
(* or is noted.                                                                     *)
LEMMA Link_phylink_sig ==
  ASSUME LinkPart, phylink_sig
  PROVE  LinkPart'
<1>1. FlagTypes'
  BY Zenon DEF LinkPart, FlagTypes, phy, mdio, state, Step, phylink_sig, Zero
<1>2. ValueTypes'
  BY DEF LinkPart, ValueTypes, phy, mdio, state, Step, phylink_sig, Zero
<1>3. RegInv'
  BY DEF LinkPart, ValueTypes, RegInv, ReadSteps, phy, mdio, state, Step, phylink_sig,
     Zero
<1>4. CASE caller = "service"
  <2>1. pc' = "ready" /\ caller' = "service" /\ reg' = "BMSR" /\ raced' = (~ready \/ (low /\ link))
        /\ ready' = ready /\ low' = low /\ link' = link
    BY <1>4 DEF phylink_sig, Step, phy, mdio
  <2>2. ASSUME ~raced' PROVE MdioInv' /\ Settled'
    BY <2>1, <2>2 DEF MdioInv, Settled, ValInv, AgreeInv, ReadSteps
  <2> QED
    BY <1>1, <1>2, <1>3, <2>2 DEF LinkPart
<1>5. CASE caller # "service"
  <2>1. raced' = (raced \/ link_sig) /\ isr = {}
    BY <1>5 DEF phylink_sig, Step
  <2>2. ASSUME ~raced' PROVE MdioInv /\ Settled
    BY <2>1, <2>2 DEF LinkPart, Pending
  <2>3. ASSUME ~raced' PROVE MdioInv'
    BY <2>2, <2>3 DEF MdioInv, phylink_sig, Step, mdio
  <2>4. ASSUME ~raced' PROVE ValInv'
    BY <2>2, <2>4 DEF Settled, ValInv, phylink_sig, Step, phy, mdio
  <2>5. ASSUME ~raced' PROVE AgreeInv'
    BY <2>2, <2>5, <1>5 DEF LinkPart, RegInv, Settled, AgreeInv, ReadSteps, phylink_sig, Step, phy, state
  <2> QED
    BY <1>1, <1>2, <1>3, <2>3, <2>4, <2>5 DEF LinkPart, Settled
<1> QED
  BY <1>4, <1>5

(* The same for eth_poll *)
LEMMA Link_eth_poll ==
  ASSUME LinkPart, eth_poll
  PROVE  LinkPart'
<1>1. FlagTypes'
  BY Zenon DEF LinkPart, FlagTypes, phy, mdio, signals, state, history, Step, eth_poll
<1>2. ValueTypes'
  BY DEF LinkPart, ValueTypes, phy, mdio, signals, state, history, Step, eth_poll
<1>3. RegInv'
  BY DEF LinkPart, ValueTypes, RegInv, ReadSteps, phy, mdio, signals, state, history,
     Step, eth_poll
<1>4. raced' = raced /\ (Pending => Pending')
  BY DEF Pending, phy, mdio, signals, state, history, Step, eth_poll
<1>5. ASSUME MdioInv PROVE MdioInv'
  BY <1>5 DEF MdioInv, phy, mdio, signals, state, history, Step, eth_poll
<1>6. ASSUME MdioInv, Settled PROVE ValInv'
  BY <1>6 DEF MdioInv, Settled, ValInv, Current, phy, mdio, signals, state, history,
     Step, eth_poll
<1>7. ASSUME MdioInv, Settled PROVE AgreeInv'
  BY <1>7 DEF LinkPart, RegInv, Settled, AgreeInv, Agree, ReadSteps, phy, mdio, signals,
     state, history, Step, eth_poll
<1> QED
  BY <1>1, <1>2, <1>3, <1>4, <1>5, <1>6, <1>7 DEF LinkPart, Settled

(* The same for eth_test *)
LEMMA Link_eth_test ==
  ASSUME LinkPart, eth_test
  PROVE  LinkPart'
<1>1. FlagTypes'
  BY Zenon DEF LinkPart, FlagTypes, phy, mdio, signals, state, history, Step, eth_test
<1>2. ValueTypes'
  BY DEF LinkPart, ValueTypes, phy, mdio, signals, state, history, Step, eth_test
<1>3. RegInv'
  BY DEF LinkPart, ValueTypes, RegInv, ReadSteps, phy, mdio, signals, state, history,
     Step, eth_test
<1>4. raced' = raced /\ (Pending => Pending')
  BY DEF Pending, phy, mdio, signals, state, history, Step, eth_test
<1>5. ASSUME MdioInv PROVE MdioInv'
  BY <1>5 DEF MdioInv, phy, mdio, signals, state, history, Step, eth_test
<1>6. ASSUME MdioInv, Settled PROVE ValInv'
  BY <1>6 DEF MdioInv, Settled, ValInv, Current, phy, mdio, signals, state, history,
     Step, eth_test
<1>7. ASSUME MdioInv, Settled PROVE AgreeInv'
  BY <1>7 DEF LinkPart, RegInv, Settled, AgreeInv, Agree, ReadSteps, phy, mdio, signals,
     state, history, Step, eth_test
<1> QED
  BY <1>1, <1>2, <1>3, <1>4, <1>5, <1>6, <1>7 DEF LinkPart, Settled

(* The same for phylink_mode *)
LEMMA Link_phylink_mode ==
  ASSUME LinkPart, phylink_mode
  PROVE  LinkPart'
<1>1. FlagTypes'
  BY Zenon DEF LinkPart, FlagTypes, phy, mdio, signals, state, history, Step,
     phylink_mode, IsUp
<1>2. ValueTypes'
  BY DEF LinkPart, ValueTypes, RegInv, phy, mdio, signals, state, history, Step,
     phylink_mode, IsUp
<1>3. RegInv'
  BY DEF LinkPart, ValueTypes, RegInv, ReadSteps, phy, mdio, signals, state, history,
     Step, phylink_mode, IsUp
<1>4. raced' = raced /\ (Pending => Pending')
  BY DEF Pending, phy, mdio, signals, state, history, Step, phylink_mode, IsUp
<1>5. ASSUME MdioInv PROVE MdioInv'
  BY <1>5 DEF MdioInv, phy, mdio, signals, state, history, Step, phylink_mode, IsUp
<1>6. ASSUME MdioInv, Settled PROVE ValInv'
  BY <1>6 DEF LinkPart, RegInv, MdioInv, Settled, ValInv, Current, ReadSteps, phy, mdio,
     signals, state, history, Step, phylink_mode, IsUp
<1>7. ASSUME MdioInv, Settled PROVE AgreeInv'
  BY <1>7 DEF LinkPart, FlagTypes, ValueTypes, RegInv, Settled, ValInv, AgreeInv, Agree,
     Current, ReadSteps, phy, mdio, signals, state, history, Step, phylink_mode, IsUp
<1> QED
  BY <1>1, <1>2, <1>3, <1>4, <1>5, <1>6, <1>7 DEF LinkPart, Settled

(* The same for read_ready *)
LEMMA Link_read_ready ==
  ASSUME LinkPart, read_ready
  PROVE  LinkPart'
<1>1. FlagTypes'
  BY Zenon DEF LinkPart, FlagTypes, phy, mdio, signals, state, history, Step, read_ready
<1>2. ValueTypes'
  BY DEF LinkPart, ValueTypes, phy, mdio, signals, state, history, Step, read_ready
<1>3. RegInv'
  BY DEF LinkPart, ValueTypes, RegInv, ReadSteps, phy, mdio, signals, state, history,
     Step, read_ready
<1>4. raced' = raced /\ (Pending => Pending')
  BY DEF Pending, phy, mdio, signals, state, history, Step, read_ready
<1>5. ASSUME MdioInv PROVE MdioInv'
  BY <1>5 DEF MdioInv, phy, mdio, signals, state, history, Step, read_ready
<1>6. ASSUME MdioInv, Settled PROVE ValInv'
  BY <1>6 DEF MdioInv, Settled, ValInv, Current, phy, mdio, signals, state, history,
     Step, read_ready
<1>7. ASSUME MdioInv, Settled PROVE AgreeInv'
  BY <1>7 DEF LinkPart, RegInv, Settled, AgreeInv, Agree, ReadSteps, phy, mdio, signals,
     state, history, Step, read_ready
<1> QED
  BY <1>1, <1>2, <1>3, <1>4, <1>5, <1>6, <1>7 DEF LinkPart, Settled

(* The same for read_clear *)
LEMMA Link_read_clear ==
  ASSUME LinkPart, read_clear
  PROVE  LinkPart'
<1>1. FlagTypes'
  BY Zenon DEF LinkPart, FlagTypes, phy, signals, state, history, Step, read_clear
<1>2. ValueTypes'
  BY DEF LinkPart, ValueTypes, phy, signals, state, history, Step, read_clear
<1>3. RegInv'
  BY DEF LinkPart, ValueTypes, RegInv, ReadSteps, phy, signals, state, history, Step,
     read_clear
<1>4. raced' = raced /\ (Pending => Pending')
  BY DEF Pending, phy, signals, state, history, Step, read_clear
<1>5. ASSUME MdioInv PROVE MdioInv'
  BY <1>5 DEF MdioInv, phy, signals, state, history, Step, read_clear
<1>6. ASSUME MdioInv, Settled PROVE ValInv'
  BY <1>6 DEF MdioInv, Settled, ValInv, Current, phy, signals, state, history, Step,
     read_clear
<1>7. ASSUME MdioInv, Settled PROVE AgreeInv'
  BY <1>7 DEF LinkPart, RegInv, Settled, AgreeInv, Agree, ReadSteps, phy, signals,
     state, history, Step, read_clear
<1> QED
  BY <1>1, <1>2, <1>3, <1>4, <1>5, <1>6, <1>7 DEF LinkPart, Settled

(* The same for read_cleared *)
LEMMA Link_read_cleared ==
  ASSUME LinkPart, read_cleared
  PROVE  LinkPart'
<1>1. FlagTypes'
  BY Zenon DEF LinkPart, FlagTypes, phy, mdio, signals, state, history, Step,
     read_cleared
<1>2. ValueTypes'
  BY DEF LinkPart, ValueTypes, phy, mdio, signals, state, history, Step, read_cleared
<1>3. RegInv'
  BY DEF LinkPart, ValueTypes, RegInv, ReadSteps, phy, mdio, signals, state, history,
     Step, read_cleared
<1>4. raced' = raced /\ (Pending => Pending')
  BY DEF Pending, phy, mdio, signals, state, history, Step, read_cleared
<1>5. ASSUME MdioInv PROVE MdioInv'
  BY <1>5 DEF MdioInv, phy, mdio, signals, state, history, Step, read_cleared
<1>6. ASSUME MdioInv, Settled PROVE ValInv'
  BY <1>6 DEF MdioInv, Settled, ValInv, Current, phy, mdio, signals, state, history,
     Step, read_cleared
<1>7. ASSUME MdioInv, Settled PROVE AgreeInv'
  BY <1>7 DEF LinkPart, RegInv, Settled, AgreeInv, Agree, ReadSteps, phy, mdio, signals,
     state, history, Step, read_cleared
<1> QED
  BY <1>1, <1>2, <1>3, <1>4, <1>5, <1>6, <1>7 DEF LinkPart, Settled

(* The same for read_start *)
LEMMA Link_read_start ==
  ASSUME LinkPart, read_start
  PROVE  LinkPart'
<1>1. FlagTypes'
  BY Zenon DEF LinkPart, FlagTypes, phy, signals, state, history, Step, read_start
<1>2. ValueTypes'
  BY DEF LinkPart, ValueTypes, RegInv, phy, signals, state, history, Step, read_start
<1>3. RegInv'
  BY DEF LinkPart, ValueTypes, RegInv, ReadSteps, phy, signals, state, history, Step,
     read_start
<1>4. raced' = raced /\ (Pending => Pending')
  BY DEF Pending, phy, signals, state, history, Step, read_start
<1>5. ASSUME MdioInv PROVE MdioInv'
  BY <1>5 DEF LinkPart, MdioInv, RegInv, phy, signals, state, history, Step, read_start
<1>6. ASSUME MdioInv, Settled PROVE ValInv'
  BY <1>6 DEF MdioInv, Settled, ValInv, Current, phy, signals, state, history, Step,
     read_start
<1>7. ASSUME MdioInv, Settled PROVE AgreeInv'
  BY <1>7 DEF LinkPart, RegInv, Settled, AgreeInv, Agree, ReadSteps, phy, signals,
     state, history, Step, read_start
<1> QED
  BY <1>1, <1>2, <1>3, <1>4, <1>5, <1>6, <1>7 DEF LinkPart, Settled

(* The same for read_await *)
LEMMA Link_read_await ==
  ASSUME LinkPart, read_await
  PROVE  LinkPart'
<1>1. FlagTypes'
  BY Zenon DEF LinkPart, FlagTypes, phy, mdio, signals, state, history, Step, read_await
<1>2. ValueTypes'
  BY DEF LinkPart, ValueTypes, phy, mdio, signals, state, history, Step, read_await
<1>3. RegInv'
  BY DEF LinkPart, ValueTypes, RegInv, ReadSteps, phy, mdio, signals, state, history,
     Step, read_await
<1>4. raced' = raced /\ (Pending => Pending')
  BY DEF Pending, phy, mdio, signals, state, history, Step, read_await
<1>5. ASSUME MdioInv PROVE MdioInv'
  BY <1>5 DEF MdioInv, phy, mdio, signals, state, history, Step, read_await
<1>6. ASSUME MdioInv, Settled PROVE ValInv'
  BY <1>6 DEF MdioInv, Settled, ValInv, Current, phy, mdio, signals, state, history,
     Step, read_await
<1>7. ASSUME MdioInv, Settled PROVE AgreeInv'
  BY <1>7 DEF LinkPart, RegInv, Settled, AgreeInv, Agree, ReadSteps, phy, mdio, signals,
     state, history, Step, read_await
<1> QED
  BY <1>1, <1>2, <1>3, <1>4, <1>5, <1>6, <1>7 DEF LinkPart, Settled

(* The same for read_data *)
LEMMA Link_read_data ==
  ASSUME LinkPart, read_data
  PROVE  LinkPart'
<1>1. FlagTypes'
  BY Zenon DEF LinkPart, FlagTypes, phy, mdio, signals, state, history, Step, read_data
<1>2. ValueTypes'
  BY DEF LinkPart, ValueTypes, phy, mdio, signals, state, history, Step, read_data
<1>3. RegInv'
  BY DEF LinkPart, ValueTypes, RegInv, ReadSteps, phy, mdio, signals, state, history,
     Step, read_data
<1>4. raced' = raced /\ (Pending => Pending')
  BY DEF Pending, phy, mdio, signals, state, history, Step, read_data
<1>5. ASSUME MdioInv PROVE MdioInv'
  BY <1>5 DEF MdioInv, phy, mdio, signals, state, history, Step, read_data
<1>6. ASSUME MdioInv, Settled PROVE ValInv'
  BY <1>6 DEF MdioInv, Settled, ValInv, Current, phy, mdio, signals, state, history,
     Step, read_data
<1>7. ASSUME MdioInv, Settled PROVE AgreeInv'
  BY <1>7 DEF LinkPart, RegInv, Settled, AgreeInv, Agree, ReadSteps, phy, mdio, signals,
     state, history, Step, read_data
<1> QED
  BY <1>1, <1>2, <1>3, <1>4, <1>5, <1>6, <1>7 DEF LinkPart, Settled

(* The same for eth_linkdown *)
LEMMA Link_eth_linkdown ==
  ASSUME LinkPart, eth_linkdown
  PROVE  LinkPart'
<1>1. FlagTypes'
  BY Zenon DEF LinkPart, FlagTypes, phy, mdio, signals, history, Step, eth_linkdown,
     Returns, NoLink, IsUp, ModeOf
<1>2. ValueTypes'
  BY DEF LinkPart, ValueTypes, RegInv, phy, mdio, signals, history, Step, eth_linkdown,
     Returns, NoLink, IsUp, ModeOf
<1>3. RegInv'
  BY DEF LinkPart, ValueTypes, RegInv, ReadSteps, phy, mdio, signals, history, Step,
     eth_linkdown, Returns, NoLink, IsUp, ModeOf
<1>4. raced' = raced /\ (Pending => Pending')
  BY DEF Pending, phy, mdio, signals, history, Step, eth_linkdown, Returns, NoLink,
     IsUp, ModeOf
<1>5. ASSUME MdioInv PROVE MdioInv'
  BY <1>5 DEF MdioInv, phy, mdio, signals, history, Step, eth_linkdown, Returns, NoLink,
     IsUp, ModeOf
<1>6. ASSUME MdioInv, Settled PROVE ValInv'
  BY <1>6 DEF LinkPart, RegInv, MdioInv, Settled, ValInv, Current, ReadSteps, phy, mdio,
     signals, history, Step, eth_linkdown, Returns, NoLink, IsUp, ModeOf
<1>7. ASSUME MdioInv, Settled PROVE AgreeInv'
  BY <1>7 DEF LinkPart, FlagTypes, ValueTypes, RegInv, Settled, ValInv, AgreeInv, Agree,
     Current, ReadSteps, phy, mdio, signals, history, Step, eth_linkdown, Returns,
     NoLink, IsUp, ModeOf
<1> QED
  BY <1>1, <1>2, <1>3, <1>4, <1>5, <1>6, <1>7 DEF LinkPart, Settled

(* The same for eth_linkup *)
LEMMA Link_eth_linkup ==
  ASSUME LinkPart, eth_linkup
  PROVE  LinkPart'
<1>1. FlagTypes'
  BY Zenon DEF LinkPart, FlagTypes, phy, mdio, signals, history, Step, eth_linkup,
     Returns, NoLink, IsUp, ModeOf
<1>2. ValueTypes'
  BY DEF LinkPart, ValueTypes, RegInv, phy, mdio, signals, history, Step, eth_linkup,
     Returns, NoLink, IsUp, ModeOf
<1>3. RegInv'
  BY DEF LinkPart, ValueTypes, RegInv, ReadSteps, phy, mdio, signals, history, Step,
     eth_linkup, Returns, NoLink, IsUp, ModeOf
<1>4. raced' = raced /\ (Pending => Pending')
  BY DEF Pending, phy, mdio, signals, history, Step, eth_linkup, Returns, NoLink, IsUp,
     ModeOf
<1>5. ASSUME MdioInv PROVE MdioInv'
  BY <1>5 DEF MdioInv, phy, mdio, signals, history, Step, eth_linkup, Returns, NoLink,
     IsUp, ModeOf
<1>6. ASSUME MdioInv, Settled PROVE ValInv'
  BY <1>6 DEF LinkPart, RegInv, MdioInv, Settled, ValInv, Current, ReadSteps, phy, mdio,
     signals, history, Step, eth_linkup, Returns, NoLink, IsUp, ModeOf
<1>7. ASSUME MdioInv, Settled PROVE AgreeInv'
  BY <1>7 DEF LinkPart, FlagTypes, ValueTypes, RegInv, Settled, ValInv, AgreeInv, Agree,
     Current, ReadSteps, phy, mdio, signals, history, Step, eth_linkup, Returns, NoLink,
     IsUp, ModeOf
<1> QED
  BY <1>1, <1>2, <1>3, <1>4, <1>5, <1>6, <1>7 DEF LinkPart, Settled

(* The same for eth_linkup_end *)
LEMMA Link_eth_linkup_end ==
  ASSUME LinkPart, eth_linkup_end
  PROVE  LinkPart'
<1>1. FlagTypes'
  BY Zenon DEF LinkPart, FlagTypes, phy, mdio, signals, history, Step, eth_linkup_end,
     Returns, NoLink, IsUp, ModeOf, xtemac_trxenable
<1>2. ValueTypes'
  BY DEF LinkPart, ValueTypes, RegInv, phy, mdio, signals, history, Step,
     eth_linkup_end, Returns, NoLink, IsUp, ModeOf, xtemac_trxenable
<1>3. RegInv'
  BY DEF LinkPart, ValueTypes, RegInv, ReadSteps, phy, mdio, signals, history, Step,
     eth_linkup_end, Returns, NoLink, IsUp, ModeOf, xtemac_trxenable
<1>4. raced' = raced /\ (Pending => Pending')
  BY DEF Pending, phy, mdio, signals, history, Step, eth_linkup_end, Returns, NoLink,
     IsUp, ModeOf, xtemac_trxenable
<1>5. ASSUME MdioInv PROVE MdioInv'
  BY <1>5 DEF MdioInv, phy, mdio, signals, history, Step, eth_linkup_end, Returns,
     NoLink, IsUp, ModeOf, xtemac_trxenable
<1>6. ASSUME MdioInv, Settled PROVE ValInv'
  BY <1>6 DEF LinkPart, RegInv, MdioInv, Settled, ValInv, Current, ReadSteps, phy, mdio,
     signals, history, Step, eth_linkup_end, Returns, NoLink, IsUp, ModeOf,
     xtemac_trxenable
<1>7. ASSUME MdioInv, Settled PROVE AgreeInv'
  BY <1>7 DEF LinkPart, FlagTypes, ValueTypes, RegInv, Settled, ValInv, AgreeInv, Agree,
     Current, ReadSteps, phy, mdio, signals, history, Step, eth_linkup_end, Returns,
     NoLink, IsUp, ModeOf, xtemac_trxenable
<1> QED
  BY <1>1, <1>2, <1>3, <1>4, <1>5, <1>6, <1>7 DEF LinkPart, Settled

(* The same for eth_errs *)
LEMMA Link_eth_errs ==
  ASSUME LinkPart, eth_errs
  PROVE  LinkPart'
<1>1. FlagTypes'
  BY Zenon DEF LinkPart, FlagTypes, phy, mdio, history, Step, eth_errs
<1>2. ValueTypes'
  BY DEF LinkPart, ValueTypes, phy, mdio, history, Step, eth_errs
<1>3. RegInv'
  BY DEF LinkPart, ValueTypes, RegInv, ReadSteps, phy, mdio, history, Step, eth_errs
<1>4. raced' = raced /\ (Pending => Pending')
  BY DEF Pending, phy, mdio, history, Step, eth_errs
<1>5. ASSUME MdioInv PROVE MdioInv'
  BY <1>5 DEF MdioInv, phy, mdio, history, Step, eth_errs
<1>6. ASSUME MdioInv, Settled PROVE ValInv'
  BY <1>6 DEF MdioInv, Settled, ValInv, Current, phy, mdio, history, Step, eth_errs
<1>7. ASSUME MdioInv, Settled PROVE AgreeInv'
  BY <1>7 DEF LinkPart, RegInv, Settled, AgreeInv, Agree, ReadSteps, phy, mdio, history,
     Step, eth_errs
<1> QED
  BY <1>1, <1>2, <1>3, <1>4, <1>5, <1>6, <1>7 DEF LinkPart, Settled

(* The same for xtemac_recover_end *)
LEMMA Link_xtemac_recover_end ==
  ASSUME LinkPart, xtemac_recover_end
  PROVE  LinkPart'
<1>1. FlagTypes'
  BY Zenon DEF LinkPart, FlagTypes, phy, mdio, signals, history, Step,
     xtemac_recover_end, Returns, NoLink, IsUp, ModeOf, xtemac_trxenable
<1>2. ValueTypes'
  BY DEF LinkPart, ValueTypes, RegInv, phy, mdio, signals, history, Step,
     xtemac_recover_end, Returns, NoLink, IsUp, ModeOf, xtemac_trxenable
<1>3. RegInv'
  BY DEF LinkPart, ValueTypes, RegInv, ReadSteps, phy, mdio, signals, history, Step,
     xtemac_recover_end, Returns, NoLink, IsUp, ModeOf, xtemac_trxenable
<1>4. raced' = raced /\ (Pending => Pending')
  BY DEF Pending, phy, mdio, signals, history, Step, xtemac_recover_end, Returns,
     NoLink, IsUp, ModeOf, xtemac_trxenable
<1>5. ASSUME MdioInv PROVE MdioInv'
  BY <1>5 DEF MdioInv, phy, mdio, signals, history, Step, xtemac_recover_end, Returns,
     NoLink, IsUp, ModeOf, xtemac_trxenable
<1>6. ASSUME MdioInv, Settled PROVE ValInv'
  BY <1>6 DEF LinkPart, RegInv, MdioInv, Settled, ValInv, Current, ReadSteps, phy, mdio,
     signals, history, Step, xtemac_recover_end, Returns, NoLink, IsUp, ModeOf,
     xtemac_trxenable
<1>7. ASSUME MdioInv, Settled PROVE AgreeInv'
  BY <1>7 DEF LinkPart, FlagTypes, ValueTypes, RegInv, Settled, ValInv, AgreeInv, Agree,
     Current, ReadSteps, phy, mdio, signals, history, Step, xtemac_recover_end, Returns,
     NoLink, IsUp, ModeOf, xtemac_trxenable
<1> QED
  BY <1>1, <1>2, <1>3, <1>4, <1>5, <1>6, <1>7 DEF LinkPart, Settled

(* The same for eth_unblock *)
LEMMA Link_eth_unblock ==
  ASSUME LinkPart, eth_unblock
  PROVE  LinkPart'
<1>1. FlagTypes'
  BY Zenon DEF LinkPart, FlagTypes, phy, mdio, state, history, Step, eth_unblock,
     Return, Zero
<1>2. ValueTypes'
  BY DEF LinkPart, ValueTypes, phy, mdio, state, history, Step, eth_unblock, Return,
     Zero
<1>3. RegInv'
  BY DEF LinkPart, ValueTypes, RegInv, ReadSteps, phy, mdio, state, history, Step,
     eth_unblock, Return, Zero
<1>4. raced' = raced /\ (Pending => Pending')
  BY DEF Pending, phy, mdio, state, history, Step, eth_unblock, Return, Zero
<1>5. ASSUME MdioInv PROVE MdioInv'
  BY <1>5 DEF MdioInv, phy, mdio, state, history, Step, eth_unblock, Return, Zero
<1>6. ASSUME MdioInv, Settled PROVE ValInv'
  BY <1>6 DEF MdioInv, Settled, ValInv, Current, phy, mdio, state, history, Step,
     eth_unblock, Return, Zero
<1>7. ASSUME MdioInv, Settled PROVE AgreeInv'
  BY <1>7 DEF LinkPart, RegInv, Settled, AgreeInv, Agree, ReadSteps, phy, mdio, state,
     history, Step, eth_unblock, Return, Zero
<1> QED
  BY <1>1, <1>2, <1>3, <1>4, <1>5, <1>6, <1>7 DEF LinkPart, Settled

(* The same for ethphy_m *)
LEMMA Link_ethphy_m ==
  ASSUME LinkPart, ethphy_m
  PROVE  LinkPart'
<1>1. FlagTypes'
  BY Zenon DEF LinkPart, FlagTypes, phy, mdio, signals, state, history, Step, ethphy_m,
     Zero
<1>2. ValueTypes'
  BY DEF LinkPart, ValueTypes, phy, mdio, signals, state, history, Step, ethphy_m, Zero
<1>3. RegInv'
  BY DEF LinkPart, ValueTypes, RegInv, ReadSteps, phy, mdio, signals, state, history,
     Step, ethphy_m, Zero
<1>4. raced' = raced /\ (Pending => Pending')
  BY DEF Pending, phy, mdio, signals, state, history, Step, ethphy_m, Zero
<1>5. ASSUME MdioInv PROVE MdioInv'
  BY <1>5 DEF MdioInv, phy, mdio, signals, state, history, Step, ethphy_m, Zero
<1>6. ASSUME MdioInv, Settled PROVE ValInv'
  BY <1>6 DEF MdioInv, Settled, ValInv, Current, phy, mdio, signals, state, history,
     Step, ethphy_m, Zero
<1>7. ASSUME MdioInv, Settled PROVE AgreeInv'
  BY <1>7 DEF LinkPart, RegInv, Settled, AgreeInv, Agree, ReadSteps, phy, mdio, signals,
     state, history, Step, ethphy_m, Zero
<1> QED
  BY <1>1, <1>2, <1>3, <1>4, <1>5, <1>6, <1>7 DEF LinkPart, Settled

(* The same for phyid_next *)
LEMMA Link_phyid_next ==
  ASSUME LinkPart, phyid_next
  PROVE  LinkPart'
<1>1. FlagTypes'
  BY Zenon DEF LinkPart, FlagTypes, phy, mdio, signals, state, history, Step, phyid_next
<1>2. ValueTypes'
  BY DEF LinkPart, ValueTypes, phy, mdio, signals, state, history, Step, phyid_next
<1>3. RegInv'
  BY DEF LinkPart, ValueTypes, RegInv, ReadSteps, phy, mdio, signals, state, history,
     Step, phyid_next
<1>4. raced' = raced /\ (Pending => Pending')
  BY DEF Pending, phy, mdio, signals, state, history, Step, phyid_next
<1>5. ASSUME MdioInv PROVE MdioInv'
  BY <1>5 DEF MdioInv, phy, mdio, signals, state, history, Step, phyid_next
<1>6. ASSUME MdioInv, Settled PROVE ValInv'
  BY <1>6 DEF MdioInv, Settled, ValInv, Current, phy, mdio, signals, state, history,
     Step, phyid_next
<1>7. ASSUME MdioInv, Settled PROVE AgreeInv'
  BY <1>7 DEF LinkPart, RegInv, Settled, AgreeInv, Agree, ReadSteps, phy, mdio, signals,
     state, history, Step, phyid_next
<1> QED
  BY <1>1, <1>2, <1>3, <1>4, <1>5, <1>6, <1>7 DEF LinkPart, Settled

(* The same for phyid_end *)
LEMMA Link_phyid_end ==
  ASSUME LinkPart, phyid_end
  PROVE  LinkPart'
<1>1. FlagTypes'
  BY Zenon DEF LinkPart, FlagTypes, phy, mdio, signals, state, history, Step, phyid_end,
     Return, Zero
<1>2. ValueTypes'
  BY DEF LinkPart, ValueTypes, phy, mdio, signals, state, history, Step, phyid_end,
     Return, Zero
<1>3. RegInv'
  BY DEF LinkPart, ValueTypes, RegInv, ReadSteps, phy, mdio, signals, state, history,
     Step, phyid_end, Return, Zero
<1>4. raced' = raced /\ (Pending => Pending')
  BY DEF Pending, phy, mdio, signals, state, history, Step, phyid_end, Return, Zero
<1>5. ASSUME MdioInv PROVE MdioInv'
  BY <1>5 DEF MdioInv, phy, mdio, signals, state, history, Step, phyid_end, Return, Zero
<1>6. ASSUME MdioInv, Settled PROVE ValInv'
  BY <1>6 DEF MdioInv, Settled, ValInv, Current, phy, mdio, signals, state, history,
     Step, phyid_end, Return, Zero
<1>7. ASSUME MdioInv, Settled PROVE AgreeInv'
  BY <1>7 DEF LinkPart, RegInv, Settled, AgreeInv, Agree, ReadSteps, phy, mdio, signals,
     state, history, Step, phyid_end, Return, Zero
<1> QED
  BY <1>1, <1>2, <1>3, <1>4, <1>5, <1>6, <1>7 DEF LinkPart, Settled

(* The same for EthBusError *)
LEMMA Link_EthBusError ==
  ASSUME LinkPart, EthBusError
  PROVE  LinkPart'
<1>1. FlagTypes'
  BY Zenon DEF LinkPart, FlagTypes, phy, mdio, state, main, EthBusError
<1>2. ValueTypes'
  BY DEF LinkPart, ValueTypes, phy, mdio, state, main, EthBusError
<1>3. RegInv'
  BY DEF LinkPart, ValueTypes, RegInv, ReadSteps, phy, mdio, state, main, EthBusError
<1>4. raced' = raced /\ (Pending => Pending')
  BY DEF Pending, phy, mdio, state, main, EthBusError
<1>5. ASSUME MdioInv PROVE MdioInv'
  BY <1>5 DEF MdioInv, phy, mdio, state, main, EthBusError
<1>6. ASSUME MdioInv, Settled PROVE ValInv'
  BY <1>6 DEF MdioInv, Settled, ValInv, Current, phy, mdio, state, main, EthBusError
<1>7. ASSUME MdioInv, Settled PROVE AgreeInv'
  BY <1>7 DEF LinkPart, RegInv, Settled, AgreeInv, Agree, ReadSteps, phy, mdio, state,
     main, EthBusError
<1> QED
  BY <1>1, <1>2, <1>3, <1>4, <1>5, <1>6, <1>7 DEF LinkPart, Settled

(* The same for MdioDone *)
LEMMA Link_MdioDone ==
  ASSUME LinkPart, MdioDone
  PROVE  LinkPart'
<1>1. FlagTypes'
  BY Zenon DEF LinkPart, FlagTypes, signals, state, main, history, MdioDone, Reg,
     ReadEffect
<1>2. ValueTypes'
  BY DEF LinkPart, ValueTypes, RegInv, signals, state, main, history, MdioDone, Reg,
     ReadEffect
<1>3. RegInv'
  BY DEF LinkPart, ValueTypes, RegInv, ReadSteps, signals, state, main, history,
     MdioDone, Reg, ReadEffect
<1>4. raced' = raced /\ (MdioInv /\ Pending => Pending')
  BY DEF Pending, MdioInv, LinkPart, RegInv, signals, history, MdioDone, ReadEffect
<1>5. ASSUME MdioInv PROVE MdioInv'
  BY <1>5 DEF LinkPart, MdioInv, RegInv, signals, state, main, history, MdioDone, Reg,
     ReadEffect
<1>6. ASSUME MdioInv, Settled PROVE ValInv'
  BY <1>6 DEF LinkPart, RegInv, MdioInv, Settled, ValInv, Current, ReadSteps, signals,
     state, main, history, MdioDone, Reg, ReadEffect
<1>7. ASSUME MdioInv, Settled PROVE AgreeInv'
  BY <1>7 DEF LinkPart, FlagTypes, ValueTypes, RegInv, Settled, ValInv, AgreeInv, Agree,
     Current, ReadSteps, signals, state, main, history, MdioDone, Reg, ReadEffect
<1> QED
  BY <1>1, <1>2, <1>3, <1>4, <1>5, <1>6, <1>7 DEF LinkPart, Settled

(* Only the signals, of what the link service looks at, are touched by the other *)
(* service.                                                                      *)
LEMMA LinkFrame ==
  ASSUME LinkPart, ethvars' = ethvars, sigint' \in BOOLEAN, sigbus' \in BOOLEAN
  PROVE  LinkPart'
<1>1. FlagTypes'
  BY Zenon DEF LinkPart, FlagTypes, ethvars, phy, mdio, state, main, history
<1>2. ValueTypes' /\ RegInv'
  <2>1. mode' = mode /\ isr' = isr /\ addr' = addr /\ rdata' = rdata /\ link_reg' = link_reg
    BY DEF ethvars, phy, mdio, state
  <2>2. phylink' = phylink /\ trx' = trx /\ pc' = pc /\ caller' = caller
    BY DEF ethvars, state, main
  <2>3. reg' = reg /\ val' = val /\ sgls' = sgls
    BY DEF ethvars, main
  <2>4. ValueTypes'
    BY <2>1, <2>2, <2>3 DEF LinkPart, ValueTypes
  <2>5. RegInv'
    BY <2>1, <2>2, <2>3 DEF LinkPart, RegInv, ReadSteps
  <2> QED
    BY <2>4, <2>5
<1>3. MdioInv => MdioInv'
  BY DEF MdioInv, ethvars, phy, mdio, main
<1>4. ValInv => ValInv'
  BY DEF ValInv, Current, ethvars, phy, mdio, main
<1>5. AgreeInv => AgreeInv'
  BY DEF AgreeInv, Agree, ReadSteps, ethvars, phy, state, main
<1>6. raced' = raced /\ (Pending => Pending')
  BY DEF Pending, ethvars, phy, history
<1> QED
  BY <1>1, <1>2, <1>3, <1>4, <1>5, <1>6 DEF LinkPart, Settled

(* A step of the system keeps the link service's part of IInv. *)
LEMMA LinkStep ==
  ASSUME LinkPart, [SysNext]_vars
  PROVE  LinkPart'
<1>1. CASE Hardware
  BY <1>1, Link_Plug, Link_Unplug, Link_MdioDone, Link_on_phyIRQ, Link_EthBusError
  DEF Hardware, Outside
<1>2. CASE Measure
  <2>1. ethvars' = ethvars /\ sigint' = TRUE /\ sigbus' = sigbus
    BY <1>2 DEF Measure, Rt!onRtmsure_irq
  <2> QED
    BY <2>1, LinkFrame, Zenon DEF LinkPart, FlagTypes
<1>3. CASE EthStep
  <2>1. CASE phylink_read
    BY <2>1, Link_phylink_sig, Link_phylink_mode, Link_read_ready, Link_read_clear,
       Link_read_cleared, Link_read_start, Link_read_await, Link_read_data
    DEF phylink_read
  <2>2. CASE eth_service /\ ~phylink_read
    BY <2>2, Link_eth_poll, Link_eth_test, Link_eth_linkdown, Link_eth_linkup,
       Link_eth_linkup_end, Link_eth_errs, Link_xtemac_recover_end, Link_eth_unblock,
       Link_phyid_next, Link_phyid_end
    DEF eth_service
  <2>3. CASE ethphy_m
    BY <2>3, Link_ethphy_m
  <2> QED
    BY <1>3, <2>1, <2>2, <2>3 DEF EthStep
<1>4. CASE RtStep
  <2>1. ethvars' = ethvars
    BY <1>4 DEF RtStep
  <2>2. /\ sigint' = sigint \/ sigint' = FALSE
        /\ sigbus' = sigbus \/ sigbus' = (sigbus /\ "SIGBUS" \notin set)
    BY <1>4 DEF RtStep, Rt!rtmsure_poll, Rt!rtmsure_pass, Rt!rtmsure_load,
                Rt!rtmsure_publish, Rt!rtmsure_unblock
  <2>3. sigint' \in BOOLEAN /\ sigbus' \in BOOLEAN
    BY <2>2, Zenon DEF LinkPart, FlagTypes
  <2> QED
    BY <2>1, <2>3, LinkFrame
<1>5. CASE UNCHANGED vars
  <2>1. ethvars' = ethvars /\ sigint' = sigint /\ sigbus' = sigbus
    BY <1>5 DEF vars, linkvars, ethvars, signals
  <2> QED
    BY <2>1, LinkFrame, Zenon DEF LinkPart, FlagTypes
<1> QED
  BY <1>1, <1>2, <1>3, <1>4, <1>5 DEF SysNext

(* IInv holds initially. *)
LEMMA SysInitInv == SysInit => IInv
<1> SUFFICES ASSUME SysInit PROVE IInv
  OBVIOUS
<1>1. FlagTypes
  BY Zenon DEF SysInit, Init, Rt!Init, FlagTypes
<1>2. ValueTypes /\ RegInv /\ MdioInv /\ ValInv
  BY DEF SysInit, Init, ValueTypes, MdioInv, RegInv, ValInv, ReadSteps, Zero
<1>3. AgreeInv
  BY DEF SysInit, Init, AgreeInv, Agree, ReadSteps
<1>4. -1 \in Rt!Ints
  BY SpanHalf DEF Rt!Ints
<1>5. TimeTypes /\ TimeInv
  BY <1>4 DEF SysInit, Rt!Init, TimeTypes, TimeInv, TimeKept
<1> QED
  BY <1>1, <1>2, <1>3, <1>5 DEF IInv, LinkPart, Settled

(* LinkKeptUnraced and TimeKept hold in every reachable state, for every number of *)
(* link changes, bus errors and measurements at any step, every width of the time  *)
(* register and set of link modes.                                                 *)
THEOREM ServicesHold == Spec => []ServicesInv
<1>1. SysInit => IInv
  BY SysInitInv
<1>2. IInv /\ [SysNext]_vars => IInv'
  BY LinkStep, TimeStep DEF IInv
<1>3. IInv => ServicesInv
  <2> SUFFICES ASSUME IInv PROVE ServicesInv
    OBVIOUS
  <2>1. TypeOK
    BY DEF IInv, LinkPart, FlagTypes, ValueTypes, TimeTypes, TypeOK
  <2>2. LinkKeptUnraced
    BY DEF IInv, LinkPart, Settled, AgreeInv, LinkKept, LinkKeptUnraced
  <2> QED
    BY <2>1, <2>2 DEF IInv, TimeInv, ServicesInv
<1> QED
  BY <1>1, <1>2, <1>3, PTL DEF Spec

=============================================================================
