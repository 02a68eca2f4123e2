-------------------------------- MODULE Keyb --------------------------------
(*******************************************************************************)
(* The PS/2 keyboard of the x86_64 target: _isr_keyboard of sys/isrs.asm hands *)
(* every byte of scan code set 2 to _kernel_onKeybScan of keyb.c, which keeps  *)
(* the shift, control and break state between bytes in KeybState.              *)
(*                                                                             *)
(* A key goes down with its make code and comes up with 0xf0 and its make      *)
(* code; the right control key puts 0xe0 before either.  The user's keys run   *)
(* ahead of the handler by the bytes on the wire.                              *)
(*******************************************************************************)
EXTENDS Naturals, Sequences

CONSTANTS
  WireDepth,   \* bound: bytes the keyboard holds for the controller
  MaxEvents    \* bound: key events of the user in a behaviour

ASSUME BoundsAssumption == WireDepth \in Nat /\ MaxEvents \in Nat

(* The keys the handler tells apart; "a" stands for every key in Make. *)
Keys == {"LShift", "RShift", "LCtrl", "RCtrl", "a"}

(* Bytes: 0xf0, 0xe0 (in no table), a protocol byte the interrupt filters  *)
(* (0xaa, 0xfa), and the make codes; both control keys have code 0x14.     *)
Code(k) == IF k \in {"LCtrl", "RCtrl"} THEN "Ctrl" ELSE k
Bytes == {"f0", "e0", "fa"} \cup {Code(k) : k \in Keys}

VARIABLES
  held,        \* keys the user holds down
  wire,        \* what is on its way: the byte, and for a make of "a" whether
               \* a shift key was down when it was typed
  KeybState,   \* the flags that are set
  events,      \* history: key events so far
  both,        \* history: both control keys have been down at once
  typed        \* history: the half of the table Keys the last key came from,
               \* and the one it was typed for

keybvars == <<held, wire, KeybState, events, both, typed>>

Flags == {"KB_LSHIFT_HOLDS", "KB_RSHIFT_HOLDS", "KB_CTRL_HOLDS", "KB_KEY_BREAK"}

(* The table Keys of keyb.c has the plain keys in one half and the shifted ones in *)
(* the other, 85 entries on.                                                       *)
Halves == 0..1

KeybInit ==
  /\ held = {} /\ wire = <<>> /\ KeybState = {} /\ events = 0
  /\ both = FALSE
  /\ typed = [got |-> 0, meant |-> 0]

ShiftDown == held \cap {"LShift", "RShift"} # {}

Send(bytes) ==
  LET meant == IF ShiftDown THEN 1 ELSE 0 IN
  /\ Len(wire) + Len(bytes) <= WireDepth
  /\ events < MaxEvents
  /\ events' = events + 1
  /\ wire' = wire \o [i \in 1..Len(bytes) |-> [byte |-> bytes[i], meant |-> meant]]

Prefix(k) == IF k = "RCtrl" THEN <<"e0">> ELSE <<>>

(* The user (external): a key goes down or repeats, or comes up. *)
Press(k) ==
  /\ Send(Prefix(k) \o <<Code(k)>>)
  /\ held' = held \cup {k}
  /\ both' = (both \/ {"LCtrl", "RCtrl"} \subseteq held')
  /\ UNCHANGED <<KeybState, typed>>

Release(k) ==
  /\ k \in held
  /\ Send(Prefix(k) \o <<"f0", Code(k)>>)
  /\ held' = held \ {k}
  /\ UNCHANGED <<KeybState, both, typed>>

(* The keyboard acknowledges a command between two keys. *)
Ack ==
  /\ Send(<<"fa">>)
  /\ UNCHANGED <<held, KeybState, both, typed>>

-----------------------------------------------------------------------------
FlagOf(code) == CASE code = "LShift" -> {"KB_LSHIFT_HOLDS"}
                  [] code = "RShift" -> {"KB_RSHIFT_HOLDS"}
                  [] code = "Ctrl"   -> {"KB_CTRL_HOLDS"}
                  [] OTHER           -> {}

(* KeybState ^= flags, the break flag included *)
Flip(flags) == (KeybState \ flags) \cup (flags \ KeybState)

(* Slip: the break flag stays set until the next release. *)
KeyReleased_keep(code) == KeybState' = Flip(FlagOf(code))

(* Slip: the release of a control key is not handled. *)
KeyReleased_shifts(code) ==
  KeybState' = Flip((FlagOf(code) \ {"KB_CTRL_HOLDS"}) \cup {"KB_KEY_BREAK"})

(* The byte after 0xf0 *)
KeyReleased(code) == KeybState' = Flip(FlagOf(code) \cup {"KB_KEY_BREAK"})

(* Slip: only the left shift key counts. *)
Half_left == IF "KB_LSHIFT_HOLDS" \in KeybState THEN 1 ELSE 0

(* Line 90: the factor of 85 *)
Half == IF KeybState \cap {"KB_LSHIFT_HOLDS", "KB_RSHIFT_HOLDS"} # {} THEN 1 ELSE 0

(* _isr_keyboard and _kernel_onKeybScan for the next byte *)
onKeybScan ==
  LET b == Head(wire).byte IN
  /\ wire # <<>>
  /\ wire' = Tail(wire)
  /\ \/ /\ b = "fa"
        /\ UNCHANGED <<KeybState, typed>>
     \/ /\ b = "f0"
        /\ KeybState' = KeybState \cup {"KB_KEY_BREAK"}
        /\ UNCHANGED typed
     \/ /\ b \notin {"fa", "f0"} /\ "KB_KEY_BREAK" \in KeybState
        /\ KeyReleased(b)
        /\ UNCHANGED typed
     \/ /\ b \notin {"fa", "f0", "a"} /\ "KB_KEY_BREAK" \notin KeybState
        /\ KeybState' = KeybState \cup FlagOf(b)
        /\ UNCHANGED typed
     \/ /\ b = "a" /\ "KB_KEY_BREAK" \notin KeybState
        /\ typed' = [got |-> Half, meant |-> Head(wire).meant]
        /\ UNCHANGED KeybState
  /\ UNCHANGED <<held, events, both>>

KeybNext ==
  \/ \E k \in Keys : Press(k) \/ Release(k)
  \/ Ack
  \/ onKeybScan

KeybSpec == KeybInit /\ [][KeybNext]_keybvars

-----------------------------------------------------------------------------
KeybTypeOK ==
  /\ held \subseteq Keys
  /\ wire \in Seq([byte : Bytes, meant : Halves]) /\ Len(wire) <= WireDepth
  /\ KeybState \subseteq Flags
  /\ events \in Nat /\ both \in BOOLEAN
  /\ typed \in [got : Halves, meant : Halves]

(* The releases toggle the flags, so one byte out of step would invert them for *)
(* good: with the wire empty each shift flag says whether its key is down,      *)
(* and no break is outstanding.                                                 *)
ShiftFollowsKeys ==
  wire = <<>> =>
    /\ "KB_LSHIFT_HOLDS" \in KeybState <=> "LShift" \in held
    /\ "KB_RSHIFT_HOLDS" \in KeybState <=> "RShift" \in held
    /\ "KB_KEY_BREAK" \notin KeybState

(* A key is published in the case in which it was typed, however far the user is *)
(* ahead of the handler and in whatever order both shift keys come and go.       *)
CaseAsTyped == typed.got = typed.meant

(* Both control keys share KB_CTRL_HOLDS, which a release toggles.  As long as they *)
(* have not been down at once, with the wire empty the flag says whether one of     *)
(* them is down; the prefix of the right one disturbs nothing.                      *)
CtrlFollowsKeys ==
  wire = <<>> /\ ~both =>
    ("KB_CTRL_HOLDS" \in KeybState <=> held \cap {"LCtrl", "RCtrl"} # {})

(* _kernel_onKeybScan: the state is well typed, and the shift flags follow the keys. *)
ShiftInv == KeybTypeOK /\ ShiftFollowsKeys

=============================================================================
