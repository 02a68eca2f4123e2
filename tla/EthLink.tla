------------------------------- MODULE EthLink -------------------------------
(*****************************************************************************)
(* The Ethernet link of the MicroBlaze: the link part of                     *)
(* services/eth_service.c, the transceiver of sys/xtemac.c and the PHY of    *)
(* sys/xtemac_phy.c, which is read over a serial MDIO unit.                  *)
(*                                                                           *)
(* The PHY interrupt handler uses the MDIO unit too and may run between any  *)
(* two accesses the main context makes to it.  A raised interrupt is taken   *)
(* before the next step of the main context.  MbSignals composes this module *)
(* with another service that shares its signal.                              *)
(*****************************************************************************)
EXTENDS Naturals

CONSTANTS
  Modes,         \* speed and duplex of a link
  MaxChanges,    \* bound: link changes in a behaviour
  MaxErrors      \* bound: DMA bus errors in a behaviour

ASSUME LinkAssumption ==
  Modes # {} /\ MaxChanges \in Nat /\ MaxErrors \in Nat

VARIABLES
  link, mode,          \* PHY: link established, negotiated mode
  low,                 \* PHY: the link was lost since BMSR was read (latch low)
  isr,                 \* PHY: unmasked interrupt sources that are set
  ready, ioc, addr, rdata,   \* MDIO unit: idle, completion flag, register, data
  link_sig, buserr,    \* flags of the handlers; buserr is either DMA channel's
  sigint, sigbus,      \* pending in the kernel
  link_reg, phylink, netif_link,
  trx,                 \* transmitter and receiver: "off", or the mode they run in
  pc, caller, reg,     \* main context: step, caller of _xtemac_phylink, register
  val, sgls,           \* main context: register value read, signals noted
  raced,               \* history: the PHY's interrupt has spoilt the last read of
                       \* the link, or its flag was thrown away
  changes, errors      \* history

phy == <<link, mode, low, isr>>
mdio == <<ready, ioc, addr, rdata>>
signals == <<link_sig, buserr, sigint, sigbus>>
state == <<link_reg, phylink, netif_link, trx>>
main == <<pc, caller, reg, val, sgls>>
history == <<raced, changes, errors>>
linkvars == <<phy, mdio, signals, state, main, history>>

(* What a register holds: BMSR says whether the link is up (and has been since *)
(* it was last read) and negotiated, SCSR the mode, the ISR some sources.      *)
Reg(r) == CASE r = "BMSR" -> [of |-> r, up |-> link /\ ~low]
            [] r = "SCSR" -> [of |-> r, mode |-> mode]
            [] r = "ISR" -> [of |-> r, sources |-> isr]
            [] OTHER -> [of |-> r]
Zero == [of |-> "none"]

(* The tests the driver makes on a value, whichever register it is from: bits 2     *)
(* and 5 of an ISR value or of zero are clear, and bits 2-4 of one that is not SCSR *)
(* are no mode, in which case the mode is what it was.                              *)
IsUp(v) == v.of = "BMSR" /\ v.up
ModeOf(v, old) == IF v.of = "SCSR" THEN v.mode ELSE old

(* _xtemac_start with _xtemac_phy: PHY reset, link down, interrupts unmasked; and *)
(* the static values of eth_service.                                              *)
Init ==
  /\ link = FALSE /\ mode \in Modes /\ low = FALSE /\ isr = {}
  /\ ready = TRUE /\ ioc = TRUE /\ addr = "ISR" /\ rdata = Zero
  /\ link_sig = FALSE /\ buserr = FALSE /\ sigint = FALSE /\ sigbus = FALSE
  /\ link_reg = "ETH_LINKDOWN" /\ phylink = mode /\ netif_link = FALSE /\ trx = "off"
  /\ pc = "idle" /\ caller = "service" /\ reg = "BMSR" /\ val = Zero /\ sgls = {}
  /\ raced = FALSE /\ changes = 0 /\ errors = 0

-----------------------------------------------------------------------------
(* The PHY (external hardware) loses the link, *)
Unplug ==
  /\ link /\ changes < MaxChanges
  /\ link' = FALSE /\ low' = TRUE
  /\ isr' = isr \cup {"linkdown"}
  /\ changes' = changes + 1
  /\ UNCHANGED <<mode, mdio, signals, state, main, raced, errors>>

(* or completes auto-negotiation, at any step of the main context. *)
Plug(m) ==
  /\ ~link /\ changes < MaxChanges
  /\ link' = TRUE /\ mode' = m
  /\ isr' = isr \cup {"autoneg_cmplt"}
  /\ changes' = changes + 1
  /\ UNCHANGED <<low, mdio, signals, state, main, raced, errors>>

(* The side effects of reading register r: BMSR loses its latch, ISR its sources. *)
ReadEffect(r) ==
  /\ low' = (low /\ r # "BMSR")
  /\ isr' = IF r = "ISR" THEN {} ELSE isr

(* The MDIO unit (external hardware) completes a read. *)
MdioDone ==
  /\ ~ready
  /\ ready' = TRUE /\ ioc' = TRUE
  /\ rdata' = Reg(addr)
  /\ ReadEffect(addr)
  /\ UNCHANGED <<link, mode, addr, signals, state, main, history>>

(* The main context is between clearing the completion flag and taking the data. *)
InMdio == pc \in {"cleared", "cr", "ioc", "rdata"}

(* Slip: the handler sets the flag and raises no signal. *)
on_phyIRQ_quiet ==
  /\ isr # {}
  /\ ready
  /\ ioc' = TRUE /\ addr' = "ISR" /\ rdata' = Reg("ISR") /\ ReadEffect("ISR")
  /\ link_sig' = TRUE
  /\ raced' = (raced \/ InMdio)
  /\ UNCHANGED <<ready, link, mode, buserr, sigint, sigbus, state, main, changes, errors>>

(* on_phyIRQ.  With the MDIO unit busy read_phyReg gives up: the sources stay, and *)
(* link_sig is computed from an uninitialized variable.                            *)
on_phyIRQ ==
  /\ isr # {}
  /\ IF ready
       THEN /\ ioc' = TRUE /\ addr' = "ISR" /\ rdata' = Reg("ISR") /\ ReadEffect("ISR")
            /\ link_sig' = TRUE
       ELSE /\ link_sig' \in BOOLEAN
            /\ UNCHANGED <<ioc, addr, rdata, low, isr>>
  /\ sigint' = TRUE
  /\ raced' = (raced \/ InMdio)
  /\ UNCHANGED <<ready, link, mode, buserr, sigbus, state, main, changes, errors>>

(* A channel of the Ethernet DMA fails: its handler sets the flag and raises SIGBUS. *)
EthBusError ==
  /\ errors < MaxErrors
  /\ buserr' = TRUE /\ sigbus' = TRUE
  /\ errors' = errors + 1
  /\ UNCHANGED <<phy, mdio, link_sig, sigint, state, main, raced, changes>>

-----------------------------------------------------------------------------
(* The main context, which an interrupt of the PHY preempts. *)
Step(from, to) == isr = {} /\ pc = from /\ pc' = to

(* The call ends, and its variables with it. *)
Return == caller' = "service" /\ reg' = "BMSR" /\ val' = Zero /\ sgls' = {}

(* eth_service, lines 69-83: the pending signals are noted in sgls. *)
eth_poll ==
  /\ sigint \/ sigbus
  /\ Step("idle", "test")
  /\ sgls' = (IF sigint THEN {"SIGINT"} ELSE {}) \cup (IF sigbus THEN {"SIGBUS"} ELSE {})
  /\ UNCHANGED <<phy, mdio, signals, state, caller, reg, val, history>>

(* Slip: the flag of a bus error is not looked at. *)
eth_test_link ==
  /\ Step("test", IF link_sig THEN "sig" ELSE "idle")
  /\ sgls' = IF link_sig THEN sgls ELSE {}
  /\ UNCHANGED <<phy, mdio, signals, state, caller, reg, val, history>>

(* Lines 86-92: without a flag the signal is another service's and stays pending. *)
eth_test ==
  /\ Step("test", IF link_sig THEN "sig" ELSE IF buserr THEN "errs" ELSE "idle")
  /\ sgls' = IF link_sig \/ buserr THEN sgls ELSE {}
  /\ UNCHANGED <<phy, mdio, signals, state, caller, reg, val, history>>

(* _xtemac_phylink, lines 393-400: the flag is cleared and BMSR read into a zeroed *)
(* variable.  The service makes a fresh start, unless a read is still under way or *)
(* BMSR has latched a loss that is over; the reads of _xtemac_trxenable throw away *)
(* the flag of a change since.                                                     *)
phylink_sig ==
  /\ Step("sig", "ready")
  /\ link_sig' = FALSE
  /\ val' = Zero /\ reg' = "BMSR"
  /\ raced' = IF caller = "service" THEN ~ready \/ (low /\ link) ELSE raced \/ link_sig
  /\ UNCHANGED <<phy, mdio, buserr, sigint, sigbus, state, caller, sgls, changes, errors>>

(* read_phyReg: a busy unit is left alone; else the completion flag is cleared and *)
(* seen cleared, the read started, its completion awaited and the data taken.      *)
read_ready ==
  /\ Step("ready", IF ready THEN "icr" ELSE "got")
  /\ UNCHANGED <<phy, mdio, signals, state, caller, reg, val, sgls, history>>

read_clear ==
  /\ Step("icr", "cleared")
  /\ ioc' = FALSE
  /\ UNCHANGED <<phy, ready, addr, rdata, signals, state, caller, reg, val, sgls, history>>

read_cleared ==
  /\ Step("cleared", "cr")
  /\ ~ioc
  /\ UNCHANGED <<phy, mdio, signals, state, caller, reg, val, sgls, history>>

read_start ==
  /\ Step("cr", "ioc")
  /\ ready' = FALSE /\ addr' = reg
  /\ UNCHANGED <<phy, ioc, rdata, signals, state, caller, reg, val, sgls, history>>

read_await ==
  /\ Step("ioc", "rdata")
  /\ ioc
  /\ UNCHANGED <<phy, mdio, signals, state, caller, reg, val, sgls, history>>

read_data ==
  /\ Step("rdata", "got")
  /\ val' = rdata
  /\ UNCHANGED <<phy, mdio, signals, state, caller, reg, sgls, history>>

(* _xtemac_phylink, lines 402-409: with the link up SCSR is read too. *)
phylink_mode ==
  /\ Step("got", "ready")
  /\ reg = "BMSR" /\ IsUp(val)
  /\ reg' = "SCSR"
  /\ UNCHANGED <<phy, mdio, signals, state, caller, val, sgls, history>>

(* _xtemac_phylink returns: no link, or a link and its mode. *)
NoLink == reg = "BMSR" /\ ~IsUp(val)
Returns(who) == caller = who /\ (NoLink \/ reg = "SCSR")

(* Slip: the link goes down and the transceiver stays on. *)
eth_linkdown_on ==
  /\ Step("got", "errs")
  /\ Returns("service") /\ NoLink
  /\ link_reg' = "ETH_LINKDOWN"
  /\ netif_link' = FALSE
  /\ UNCHANGED <<phy, mdio, signals, phylink, trx, caller, reg, val, sgls, history>>

(* eth_service, lines 91-92 and 97 *)
eth_linkdown ==
  /\ Step("got", "errs")
  /\ Returns("service") /\ NoLink
  /\ link_reg' = "ETH_LINKDOWN"
  /\ trx' = "off"
  /\ netif_link' = FALSE
  /\ UNCHANGED <<phy, mdio, signals, phylink, caller, reg, val, sgls, history>>

(* Lines 91-92 and 96: eth_linkup calls _xtemac_trxenable, which reads the link again. *)
eth_linkup ==
  /\ Step("got", "sig")
  /\ Returns("service") /\ ~NoLink
  /\ link_reg' = "ETH_LINKUP"
  /\ phylink' = ModeOf(val, phylink)
  /\ caller' = "linkup"
  /\ UNCHANGED <<phy, mdio, signals, netif_link, trx, reg, val, sgls, history>>

(* _xtemac_trxenable after its read: nothing without a link; a mode that was not *)
(* read is an uninitialized one.                                                 *)
xtemac_trxenable ==
  trx' \in IF NoLink THEN {trx} ELSE {ModeOf(val, m) : m \in Modes}

(* eth_linkup, the rest: the interface is up whatever _xtemac_trxenable found. *)
eth_linkup_end ==
  /\ Step("got", "errs")
  /\ Returns("linkup")
  /\ xtemac_trxenable
  /\ netif_link' = TRUE
  /\ UNCHANGED <<phy, mdio, signals, link_reg, phylink, caller, reg, val, sgls, history>>

(* eth_service, line 103, and _xtemac_recover up to its _xtemac_trxenable *)
eth_errs ==
  /\ Step("errs", IF buserr THEN "sig" ELSE "unblock")
  /\ buserr' = FALSE
  /\ trx' = IF buserr THEN "off" ELSE trx
  /\ caller' = IF buserr THEN "recover" ELSE caller
  /\ UNCHANGED <<phy, mdio, link_sig, sigint, sigbus, link_reg, phylink, netif_link, reg, val, sgls, history>>

xtemac_recover_end ==
  /\ Step("got", "unblock")
  /\ Returns("recover")
  /\ xtemac_trxenable
  /\ UNCHANGED <<phy, mdio, signals, link_reg, phylink, netif_link, caller, reg, val, sgls, history>>

(* Lines 109-111: unblocking takes the signals noted, also if raised again since. *)
eth_unblock ==
  /\ Step("unblock", "idle")
  /\ sigint' = (sigint /\ "SIGINT" \notin sgls)
  /\ sigbus' = (sigbus /\ "SIGBUS" \notin sgls)
  /\ Return
  /\ UNCHANGED <<phy, mdio, link_sig, buserr, state, history>>

(* The ethphy command: with the unit idle _xtemac_phyid reads ID1 and then ID2. *)
ethphy_m ==
  /\ ready
  /\ Step("idle", "ready")
  /\ caller' = "phyid" /\ reg' = "ID1" /\ val' = Zero
  /\ UNCHANGED <<phy, mdio, signals, state, sgls, history>>

phyid_next ==
  /\ Step("got", "ready")
  /\ caller = "phyid" /\ reg = "ID1"
  /\ reg' = "ID2"
  /\ UNCHANGED <<phy, mdio, signals, state, caller, val, sgls, history>>

phyid_end ==
  /\ Step("got", "idle")
  /\ caller = "phyid" /\ reg = "ID2"
  /\ Return
  /\ UNCHANGED <<phy, mdio, signals, state, history>>

phylink_read ==
  \/ phylink_sig \/ phylink_mode
  \/ read_ready \/ read_clear \/ read_cleared \/ read_start \/ read_await \/ read_data

eth_service ==
  \/ eth_poll \/ eth_test \/ phylink_read
  \/ eth_linkdown \/ eth_linkup \/ eth_linkup_end
  \/ eth_errs \/ xtemac_recover_end \/ eth_unblock
  \/ phyid_next \/ phyid_end

Outside == Unplug \/ (\E m \in Modes : Plug(m)) \/ EthBusError

=============================================================================
