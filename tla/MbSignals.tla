------------------------------ MODULE MbSignals ------------------------------
(*****************************************************************************)
(* Two services of the MicroBlaze that share SIGINT and SIGBUS: the Ethernet *)
(* link (EthLink) and the reaction time (RtMsure).  The kernel's main loop   *)
(* calls one service after the other, so a service runs only while the other *)
(* one is not in a pass; whoever unblocks takes the signals, whoever they    *)
(* were for.                                                                 *)
(*****************************************************************************)
EXTENDS EthLink, Integers

CONSTANTS Digits, Times, MaxMeasures

VARIABLES
  bcd_time, rt_msuretime, rpc, time, set, last, measures, lost,
  taken          \* history: flags whose signal an unblock has taken

Rt == INSTANCE RtMsure

ASSUME MeasureAssumption ==
  Digits \in Nat \ {0} /\ Times \subseteq Rt!Encodable /\ MaxMeasures \in Nat

rtvars == <<bcd_time, rt_msuretime, rpc, time, set, last, measures, lost>>
vars == <<linkvars, rtvars, taken>>
ethvars == <<phy, mdio, link_sig, buserr, state, main, history>>

SysInit == Init /\ Rt!Init /\ taken = {}

Hardware ==
  /\ Outside \/ MdioDone \/ on_phyIRQ
  /\ UNCHANGED <<rtvars, taken>>

Measure ==
  /\ \E d \in Times : Rt!onRtmsure_irq(d)
  /\ UNCHANGED <<ethvars, taken>>

(* The flags that are set when their signal is unblocked *)
Flags(sgs) ==
  (IF "SIGINT" \in sgs /\ link_sig THEN {"link"} ELSE {})
  \cup (IF "SIGINT" \in sgs /\ bcd_time # -1 THEN {"time"} ELSE {})
  \cup (IF "SIGBUS" \in sgs /\ buserr THEN {"bus"} ELSE {})

(* A pass of eth_service, or the ethphy command *)
EthStep ==
  /\ rpc = "idle"
  /\ eth_service \/ ethphy_m
  /\ taken' = CASE pc = "unblock" -> taken \cup Flags(sgls)
                [] pc = "sig" -> taken \ {"link"}
                [] pc = "errs" -> taken \ {"bus"}
                [] OTHER -> taken
  /\ UNCHANGED rtvars

RtStep ==
  /\ pc = "idle" /\ isr = {}
  /\ Rt!rtmsure_poll \/ Rt!rtmsure_pass
  /\ taken' = CASE rpc = "unblock" -> taken \cup Flags(set)
                [] rpc = "load" -> taken \ {"time"}
                [] OTHER -> taken
  /\ UNCHANGED ethvars

SysNext == Hardware \/ Measure \/ EthStep \/ RtStep

Spec == SysInit /\ [][SysNext]_vars

(* The main loop calls both services in every round, and users give finitely many *)
(* commands in between (the strong fairness); passes, transfers and raised        *)
(* interrupts end.  The outside world need not do anything.                       *)
FairSpec ==
  /\ Spec
  /\ WF_vars(EthStep /\ pc # "idle") /\ SF_vars(EthStep /\ eth_poll)
  /\ WF_vars(RtStep /\ rpc # "idle") /\ SF_vars(RtStep /\ rpc = "idle")
  /\ WF_vars(Hardware /\ MdioDone) /\ WF_vars(Hardware /\ on_phyIRQ)

-----------------------------------------------------------------------------
TypeOK ==
  /\ {link, low, ready, ioc, link_sig, buserr, sigint, sigbus, netif_link, raced, lost}
       \subseteq BOOLEAN
  /\ mode \in Modes /\ phylink \in Modes /\ trx \in Modes \cup {"off"}
  /\ isr \subseteq {"linkdown", "autoneg_cmplt"}
  /\ addr \in {"BMSR", "SCSR", "ISR", "ID1", "ID2"}
  /\ link_reg \in {"ETH_LINKUP", "ETH_LINKDOWN"}
  /\ pc \in {"idle", "test", "sig", "ready", "icr", "cleared", "cr", "ioc", "rdata", "got",
             "errs", "unblock"}
  /\ caller \in {"service", "linkup", "recover", "phyid"}
  /\ sgls \subseteq {"SIGINT", "SIGBUS"} /\ set \subseteq {"SIGINT", "SIGBUS"}
  /\ taken \subseteq {"link", "time", "bus"}
  /\ {bcd_time, time, rt_msuretime} \subseteq Rt!Ints
  /\ rpc \in {"idle", "load", "reset", "unblock"}

(* The transceiver, the interface of lwIP and what ethlink prints agree with the *)
(* PHY, mode included.                                                           *)
Agree ==
  /\ trx = IF link THEN mode ELSE "off"
  /\ netif_link = link
  /\ link_reg = IF link THEN "ETH_LINKUP" ELSE "ETH_LINKDOWN"
  /\ link => phylink = mode

(* A change of the link that the services have not dealt with can still be seen *)
Pending == link_sig \/ isr # {}

(* eth_service.c:284 "cable not plugged or link down", and "link up" otherwise: at *)
(* the end of a pass either everything agrees with the PHY, or link_sig or an      *)
(* interrupt is there to say that it does not.                                     *)
LinkKept == pc = "idle" => Agree \/ Pending

(* LinkKept with the cable changing at any step and other services taking the      *)
(* signal, unless the handler has met an MDIO access of the driver, a second read  *)
(* has cleared the flag, or a loss was over before it was read; and again from the *)
(* next read that nothing disturbs.                                                *)
LinkKeptUnraced == ~raced => LinkKept

(* Once the cable is left alone the link settles in its state, through bus errors, *)
(* recoveries and other services' signals; only a spoilt read, or an unblock that  *)
(* took the signal of a change, keeps it waiting.                                  *)
LinkSettles == <>[](Agree \/ raced \/ "link" \in taken)

(* xtemac_phy.c:455 waits for a flag to be cleared that the handler's own read has *)
(* set again: the main context never gets on.                                      *)
Caught == pc = "cleared" /\ ioc

(* rtmsure_service.c:61 "short: %d ms": the last time measured is shown in the end, *)
(* unless rtmsure.c:48 threw it away, an unblock took its signal or the main        *)
(* context is caught.                                                               *)
TimeShown ==
  <>[](last = -1 \/ Rt!Shown = Rt!Expected(last) \/ lost \/ "time" \in taken \/ Caught)

(* The time published is the last one measured: once nothing is left in bcd_time *)
(* rtmsure shows that time, whatever signals other services took, unless it came *)
(* between lines 46 and 48 of rtmsure.c.                                         *)
TimeKept == bcd_time = -1 /\ last # -1 /\ ~lost => Rt!Shown = Rt!Expected(last)

(* eth_service.c:106: a bus error is recovered, through link changes and the other *)
(* service's use of SIGBUS, unless an unblock took its signal or the main context  *)
(* is caught.                                                                      *)
BusErrorServed == buserr ~> (~buserr \/ "bus" \in taken \/ Caught)

(* The services keep their registers and times in range (the BCD time is an int), *)
(* LinkKeptUnraced and TimeKept.                                                  *)
ServicesInv == TypeOK /\ LinkKeptUnraced /\ TimeKept

=============================================================================
