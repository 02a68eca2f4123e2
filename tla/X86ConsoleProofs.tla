-------------------------- MODULE X86ConsoleProofs --------------------------
(**********************************************************************************************)
(* The user's side of the x86_64 target: the keyboard (Keyb) and the screen (TextConsole).    *)
(*                                                                                            *)
(* The keyboard, for any number of bytes on the wire and of key events: the flags of keyb.c   *)
(* follow the keys.  While bytes are on their way the flags lag behind the keys, so the       *)
(* properties are not inductive.  RunsTo says what the flags will have been before and        *)
(* after each byte on the wire: from KeybState on each byte takes them as the handler does,   *)
(* every key finds the shift flags it was typed with, and at the end they are those of the    *)
(* keys held.  The handler takes the first byte off such a run; the user adds the bytes of    *)
(* a key at its end.                                                                          *)
(*                                                                                            *)
(* The screen, for every size of at least two rows, all strings and any number of operations: *)
(* it is a window of the reference tape.  Match says so of a screen and a tape; each case     *)
(* of print_char keeps it, a string does by induction over its characters, and the cursor     *)
(* moves along with the tape's position.  EnteredInv is what deletions need: the typed cells  *)
(* that are still in the window are the last ones before the position.                        *)
(**********************************************************************************************)
EXTENDS Keyb, TextConsole, SequenceTheorems, WellFoundedInduction, TLAPS

-----------------------------------------------------------------------------
(* The keyboard *)

Shifts == {"KB_LSHIFT_HOLDS", "KB_RSHIFT_HOLDS"}

(* The flags after byte b, which finds them to be s *)
Scan(s, b) ==
  IF b = "fa" THEN s
  ELSE IF b = "f0" THEN s \cup {"KB_KEY_BREAK"}
  ELSE IF "KB_KEY_BREAK" \in s
    THEN LET flags == FlagOf(b) \cup {"KB_KEY_BREAK"} IN (s \ flags) \cup (flags \ s)
  ELSE s \cup FlagOf(b)

HalfOf(s) == IF s \cap Shifts # {} THEN 1 ELSE 0

(* The flags s are those of the keys in h. *)
Follows(s, h, overlap) ==
  /\ "KB_KEY_BREAK" \notin s
  /\ "KB_LSHIFT_HOLDS" \in s <=> "LShift" \in h
  /\ "KB_RSHIFT_HOLDS" \in s <=> "RShift" \in h
  /\ ~overlap => /\ "KB_CTRL_HOLDS" \in s <=> h \cap {"LCtrl", "RCtrl"} # {}
                 /\ ~({"LCtrl", "RCtrl"} \subseteq h)

(* A run of the handler over the bytes of w *)
Run(S, w) ==
  /\ S \in [0..Len(w) -> SUBSET Flags]
  /\ \A i \in 1..Len(w) :
       /\ S[i] = Scan(S[i - 1], w[i].byte)
       /\ w[i].byte = "a" /\ "KB_KEY_BREAK" \notin S[i - 1] => w[i].meant = HalfOf(S[i - 1])

Reach(w, s, t) == \E S : Run(S, w) /\ S[0] = s /\ S[Len(w)] = t

RunsTo ==
  \E t \in SUBSET Flags : Reach(wire, KeybState, t) /\ Follows(t, held, both)

IInv == KeybTypeOK /\ CaseAsTyped /\ RunsTo

-----------------------------------------------------------------------------
LEMMA FlagType == \A b : FlagOf(b) \subseteq Flags
  BY DEF FlagOf, Flags

LEMMA ScanType == \A s \in SUBSET Flags, b \in Bytes : Scan(s, b) \in SUBSET Flags
<1> SUFFICES ASSUME NEW s \in SUBSET Flags, NEW b \in Bytes PROVE Scan(s, b) \in SUBSET Flags
  OBVIOUS
<1>1. FlagOf(b) \subseteq Flags
  BY FlagType
<1>2. {"KB_KEY_BREAK"} \subseteq Flags
  BY DEF Flags
<1> QED
  BY <1>1, <1>2, Zenon DEF Scan

LEMMA HeadType == \A E : \A w \in Seq(E) : w # <<>> => Head(w) \in E
  OBVIOUS

(* A byte put at the end of a run is read last. *)
LEMMA AddByte ==
  ASSUME NEW w \in Seq([byte : Bytes, meant : Halves]), NEW r \in [byte : Bytes, meant : Halves],
         NEW s, NEW t \in SUBSET Flags, Reach(w, s, t),
         r.byte = "a" /\ "KB_KEY_BREAK" \notin t => r.meant = HalfOf(t)
  PROVE  Reach(Append(w, r), s, Scan(t, r.byte))
<1> DEFINE n == Len(w)
           v == Append(w, r)
<1>1. PICK S : Run(S, w) /\ S[0] = s /\ S[n] = t
  BY DEF Reach
<1> DEFINE U == [j \in 0..(n + 1) |-> IF j <= n THEN S[j] ELSE Scan(t, r.byte)]
<1>2. n \in Nat /\ Len(v) = n + 1 /\ v[n + 1] = r /\ \A i \in 1..n : v[i] = w[i]
  OBVIOUS
<1>3. U \in [0..(n + 1) -> SUBSET Flags]
  <2>1. Scan(t, r.byte) \in SUBSET Flags
    BY ScanType
  <2> QED
    BY <1>1, <1>2, <2>1 DEF Run
<1>4. ASSUME NEW i \in 1..(n + 1)
      PROVE  /\ U[i] = Scan(U[i - 1], v[i].byte)
             /\ v[i].byte = "a" /\ "KB_KEY_BREAK" \notin U[i - 1] => v[i].meant = HalfOf(U[i - 1])
  <2>1. CASE i <= n
    <3>1. U[i] = S[i] /\ U[i - 1] = S[i - 1] /\ v[i] = w[i] /\ i \in 1..n
      BY <1>2, <2>1
    <3> QED
      BY <1>1, <3>1 DEF Run
  <2>2. CASE i = n + 1
    <3>1. U[i] = Scan(t, r.byte) /\ U[i - 1] = t /\ v[i] = r
      BY <1>1, <1>2, <2>2
    <3> QED
      BY <3>1
  <2> QED
    BY <1>2, <2>1, <2>2
<1>5. U[0] = s /\ U[n + 1] = Scan(t, r.byte)
  BY <1>1, <1>2
<1>6. Run(U, v)
  BY <1>2, <1>3, <1>4 DEF Run
<1> QED
  BY <1>2, <1>5, <1>6 DEF Reach

(* The first byte taken off a run leaves one. *)
LEMMA TakeByte ==
  ASSUME NEW w \in Seq([byte : Bytes, meant : Halves]), w # <<>>, NEW s, NEW t, Reach(w, s, t)
  PROVE  /\ Reach(Tail(w), Scan(s, Head(w).byte), t)
         /\ Head(w).byte = "a" /\ "KB_KEY_BREAK" \notin s => Head(w).meant = HalfOf(s)
<1> DEFINE n == Len(w)
<1>1. PICK S : Run(S, w) /\ S[0] = s /\ S[n] = t
  BY DEF Reach
<1> DEFINE U == [j \in 0..(n - 1) |-> S[j + 1]]
<1>2. n \in Nat \ {0} /\ Len(Tail(w)) = n - 1 /\ Head(w) = w[1]
      /\ \A i \in 1..(n - 1) : Tail(w)[i] = w[i + 1]
  OBVIOUS
<1>3. U \in [0..(n - 1) -> SUBSET Flags]
  BY <1>1, <1>2 DEF Run
<1>4. ASSUME NEW i \in 1..(n - 1)
      PROVE  /\ U[i] = Scan(U[i - 1], Tail(w)[i].byte)
             /\ Tail(w)[i].byte = "a" /\ "KB_KEY_BREAK" \notin U[i - 1]
                  => Tail(w)[i].meant = HalfOf(U[i - 1])
  <2>1. U[i] = S[i + 1] /\ U[i - 1] = S[(i + 1) - 1] /\ i + 1 \in 1..n /\ Tail(w)[i] = w[i + 1]
    BY <1>2
  <2> QED
    BY <1>1, <2>1 DEF Run
<1>5. /\ S[1] = Scan(s, Head(w).byte)
      /\ Head(w).byte = "a" /\ "KB_KEY_BREAK" \notin s => Head(w).meant = HalfOf(s)
  <2>1. 1 \in 1..n /\ S[1 - 1] = s
    BY <1>1, <1>2
  <2> QED
    BY <1>1, <1>2, <2>1 DEF Run
<1>6. U[0] = S[1] /\ U[n - 1] = S[n]
  BY <1>2
<1>7. Run(U, Tail(w))
  BY <1>2, <1>3, <1>4 DEF Run
<1> QED
  BY <1>1, <1>2, <1>5, <1>6, <1>7 DEF Reach

-----------------------------------------------------------------------------
LEMMA InitIInv == KeybInit => IInv
<1> SUFFICES ASSUME KeybInit PROVE IInv
  OBVIOUS
<1>1. /\ held = {} /\ wire = <<>> /\ KeybState = {} /\ events = 0 /\ both = FALSE
      /\ typed = [got |-> 0, meant |-> 0]
  BY DEF KeybInit
<1>2. KeybTypeOK
  <2>1. wire \in Seq([byte : Bytes, meant : Halves]) /\ Len(wire) <= WireDepth
    BY <1>1, BoundsAssumption
  <2>2. held \subseteq Keys /\ KeybState \subseteq Flags /\ events \in Nat
        /\ typed \in [got : Halves, meant : Halves]
    BY <1>1 DEF Halves
  <2>3. both \in BOOLEAN
    BY <1>1, Zenon
  <2> QED
    BY <2>1, <2>2, <2>3 DEF KeybTypeOK
<1>3. CaseAsTyped
  BY <1>1 DEF CaseAsTyped
<1>4. RunsTo
  <2> DEFINE S == [i \in 0..0 |-> {}]
  <2>1. Run(S, wire) /\ S[0] = KeybState /\ S[Len(wire)] = {}
    BY <1>1 DEF Run
  <2>2. Follows({}, held, both)
    BY <1>1 DEF Follows
  <2> QED
    BY <2>1, <2>2 DEF RunsTo, Reach
<1> QED
  BY <1>2, <1>3, <1>4 DEF IInv

(* The handler: what it does with a byte is Scan. *)
LEMMA ScanStep ==
  ASSUME IInv, onKeybScan
  PROVE  IInv'
<1> DEFINE b == Head(wire).byte
<1>1. /\ wire # <<>> /\ wire' = Tail(wire) /\ UNCHANGED <<held, events, both>>
      /\ wire \in Seq([byte : Bytes, meant : Halves]) /\ Len(wire) <= WireDepth
      /\ KeybState \in SUBSET Flags
  BY DEF onKeybScan, IInv, KeybTypeOK
<1>2. PICK t \in SUBSET Flags : Reach(wire, KeybState, t) /\ Follows(t, held, both)
  BY DEF IInv, RunsTo
<1>3. /\ Reach(Tail(wire), Scan(KeybState, b), t)
      /\ b = "a" /\ "KB_KEY_BREAK" \notin KeybState => Head(wire).meant = HalfOf(KeybState)
  BY <1>1, <1>2, TakeByte
<1>4. b \in Bytes /\ Head(wire).meant \in Halves
  <2>1. Head(wire) \in [byte : Bytes, meant : Halves]
    BY <1>1, HeadType
  <2> QED
    BY <2>1
<1>5. KeybState' = Scan(KeybState, b)
  <2>1. FlagOf("a") = {}
    BY DEF FlagOf
  <2> QED
    BY <2>1 DEF onKeybScan, Scan, KeyReleased, Flip
<1>6. typed' = typed \/ (typed'.got = typed'.meant /\ typed' \in [got : Halves, meant : Halves])
  <2>1. Half = HalfOf(KeybState)
    BY DEF Half, HalfOf, Shifts
  <2>2. Half \in Halves
    BY DEF Half, Halves
  <2>3. \/ typed' = typed
        \/ /\ b = "a" /\ "KB_KEY_BREAK" \notin KeybState
           /\ typed' = [got |-> Half, meant |-> Head(wire).meant]
    BY DEF onKeybScan
  <2> QED
    BY <1>3, <1>4, <2>1, <2>2, <2>3
<1>7. KeybTypeOK'
  <2>1. Scan(KeybState, b) \in SUBSET Flags
    BY <1>1, <1>4, ScanType
  <2>2. Tail(wire) \in Seq([byte : Bytes, meant : Halves]) /\ Len(Tail(wire)) <= WireDepth
    BY <1>1, BoundsAssumption
  <2>3. both' \in BOOLEAN
    BY <1>1, Zenon DEF IInv, KeybTypeOK
  <2> QED
    BY <1>1, <1>5, <1>6, <2>1, <2>2, <2>3 DEF IInv, KeybTypeOK
<1>8. CaseAsTyped'
  BY <1>6 DEF IInv, CaseAsTyped
<1>9. RunsTo'
  BY <1>1, <1>2, <1>3, <1>5 DEF RunsTo
<1> QED
  BY <1>7, <1>8, <1>9 DEF IInv


(* The record of a byte on the wire *)
Sent(b, m) == [byte |-> b, meant |-> m]

LEMMA SentType == \A b \in Bytes, m \in Halves : Sent(b, m) \in [byte : Bytes, meant : Halves]
  BY DEF Sent

(* The user: the bytes of a key are put on the wire. *)
LEMMA SendStep ==
  ASSUME IInv, NEW bytes \in Seq(Bytes), Send(bytes), NEW m \in Halves,
         m = IF ShiftDown THEN 1 ELSE 0
  PROVE  /\ wire' \in Seq([byte : Bytes, meant : Halves]) /\ Len(wire') <= WireDepth
         /\ events' \in Nat
         /\ wire' = wire \o [i \in 1..Len(bytes) |-> Sent(bytes[i], m)]
<1> DEFINE v == [i \in 1..Len(bytes) |-> Sent(bytes[i], m)]
<1>1. wire' = wire \o v /\ Len(wire) + Len(bytes) <= WireDepth /\ events' = events + 1
  BY DEF Send, Sent
<1>2. v \in Seq([byte : Bytes, meant : Halves]) /\ Len(v) = Len(bytes)
  <2>1. \A i \in 1..Len(bytes) : Sent(bytes[i], m) \in [byte : Bytes, meant : Halves]
    BY SentType
  <2> QED
    BY <2>1
<1>3. wire \in Seq([byte : Bytes, meant : Halves]) /\ events \in Nat
  BY DEF IInv, KeybTypeOK
<1> HIDE DEF v
<1>4. wire \o v \in Seq([byte : Bytes, meant : Halves]) /\ Len(wire \o v) = Len(wire) + Len(v)
  BY <1>2, <1>3
<1> QED
  BY <1>1, <1>2, <1>3, <1>4 DEF v

(* What a key does to the flags when it goes down, *)
LEMMA PressFlags ==
  ASSUME NEW t \in SUBSET Flags, NEW h, NEW overlap, Follows(t, h, overlap), NEW k \in Keys
  PROVE  Follows(Scan(t, Code(k)), h \cup {k}, overlap \/ {"LCtrl", "RCtrl"} \subseteq h \cup {k})
<1>1. "KB_KEY_BREAK" \notin t
  BY DEF Follows
<1>2. CASE k = "LShift"
  <2>1. Scan(t, Code(k)) = t \cup {"KB_LSHIFT_HOLDS"}
    BY <1>1, <1>2 DEF Scan, Code, FlagOf
  <2> QED
    BY <1>2, <2>1 DEF Follows
<1>3. CASE k = "RShift"
  <2>1. Scan(t, Code(k)) = t \cup {"KB_RSHIFT_HOLDS"}
    BY <1>1, <1>3 DEF Scan, Code, FlagOf
  <2> QED
    BY <1>3, <2>1 DEF Follows
<1>4. CASE k \in {"LCtrl", "RCtrl"}
  <2>1. Scan(t, Code(k)) = t \cup {"KB_CTRL_HOLDS"}
    BY <1>1, <1>4 DEF Scan, Code, FlagOf
  <2> QED
    BY <1>4, <2>1 DEF Follows
<1>5. CASE k = "a"
  <2>1. Scan(t, Code(k)) = t
    BY <1>1, <1>5 DEF Scan, Code, FlagOf
  <2> QED
    BY <1>5, <2>1 DEF Follows
<1> QED
  BY <1>2, <1>3, <1>4, <1>5 DEF Keys

(* and when it comes up. *)
LEMMA ReleaseFlags ==
  ASSUME NEW t \in SUBSET Flags, NEW h, NEW overlap, Follows(t, h, overlap),
         NEW k \in Keys, k \in h
  PROVE  Follows(Scan(Scan(t, "f0"), Code(k)), h \ {k}, overlap)
<1> DEFINE u == t \cup {"KB_KEY_BREAK"}
<1>1. "KB_KEY_BREAK" \notin t /\ Scan(t, "f0") = u
  BY DEF Follows, Scan
<1>2. CASE k = "LShift"
  <2>1. Scan(u, Code(k)) = t \ {"KB_LSHIFT_HOLDS"}
    BY <1>1, <1>2 DEF Scan, Code, FlagOf, Follows
  <2> QED
    BY <1>1, <1>2, <2>1 DEF Follows
<1>3. CASE k = "RShift"
  <2>1. Scan(u, Code(k)) = t \ {"KB_RSHIFT_HOLDS"}
    BY <1>1, <1>3 DEF Scan, Code, FlagOf, Follows
  <2> QED
    BY <1>1, <1>3, <2>1 DEF Follows
<1>4. CASE k \in {"LCtrl", "RCtrl"}
  <2>1. /\ \A f \in Flags \ {"KB_CTRL_HOLDS"} : f \in Scan(u, Code(k)) <=> f \in t
        /\ "KB_CTRL_HOLDS" \in Scan(u, Code(k)) <=> "KB_CTRL_HOLDS" \notin t
    BY <1>1, <1>4 DEF Scan, Code, FlagOf, Flags
  <2>2. /\ "KB_KEY_BREAK" \notin Scan(u, Code(k))
        /\ "KB_LSHIFT_HOLDS" \in Scan(u, Code(k)) <=> "LShift" \in h \ {k}
        /\ "KB_RSHIFT_HOLDS" \in Scan(u, Code(k)) <=> "RShift" \in h \ {k}
    BY <1>1, <1>4, <2>1 DEF Follows, Flags
  <2>3. ~overlap => /\ "KB_CTRL_HOLDS" \notin Scan(u, Code(k))
                    /\ (h \ {k}) \cap {"LCtrl", "RCtrl"} = {}
    BY <1>4, <2>1 DEF Follows
  <2> QED
    BY <1>1, <2>2, <2>3 DEF Follows
<1>5. CASE k = "a"
  <2>1. Scan(u, Code(k)) = t
    BY <1>1, <1>5 DEF Scan, Code, FlagOf
  <2> QED
    BY <1>1, <1>5, <2>1 DEF Follows
<1> QED
  BY <1>2, <1>3, <1>4, <1>5 DEF Keys

(* Short sequences *)
LEMMA Pair ==
  ASSUME NEW E, NEW a \in E, NEW b \in E
  PROVE  <<a>> \o <<b>> = <<a, b>>
<1> DEFINE x == <<a>> \o <<b>>
<1>1. x \in Seq(E) /\ Len(x) = 2 /\ x[1] = a /\ x[2] = b
  OBVIOUS
<1>2. <<a, b>> \in Seq(E) /\ Len(<<a, b>>) = 2
  OBVIOUS
<1> HIDE DEF x
<1>3. \A i \in 1..Len(x) : x[i] = <<a, b>>[i]
  BY <1>1
<1>4. x = <<a, b>>
  BY <1>1, <1>2, <1>3, SeqEqual
<1> QED
  BY <1>4 DEF x

LEMMA Triple ==
  ASSUME NEW E, NEW a \in E, NEW b \in E, NEW c \in E
  PROVE  <<a>> \o <<b, c>> = <<a, b, c>>
<1> DEFINE x == <<a>> \o <<b, c>>
<1>1. x \in Seq(E) /\ Len(x) = 3 /\ x[1] = a /\ x[2] = b /\ x[3] = c
  OBVIOUS
<1>2. <<a, b, c>> \in Seq(E) /\ Len(<<a, b, c>>) = 3
  OBVIOUS
<1> HIDE DEF x
<1>3. \A i \in 1..Len(x) : x[i] = <<a, b, c>>[i]
  BY <1>1
<1>4. x = <<a, b, c>>
  BY <1>1, <1>2, <1>3, SeqEqual
<1> QED
  BY <1>4 DEF x

(* They are put on the wire byte by byte. *)
LEMMA WireBytes ==
  ASSUME NEW w \in Seq([byte : Bytes, meant : Halves]), NEW m \in Halves,
         NEW b1 \in Bytes, NEW b2 \in Bytes, NEW b3 \in Bytes
  PROVE  /\ w \o [i \in 1..Len(<<b1>>) |-> Sent(<<b1>>[i], m)] = Append(w, Sent(b1, m))
         /\ w \o [i \in 1..Len(<<b1, b2>>) |-> Sent(<<b1, b2>>[i], m)]
              = Append(Append(w, Sent(b1, m)), Sent(b2, m))
         /\ w \o [i \in 1..Len(<<b1, b2, b3>>) |-> Sent(<<b1, b2, b3>>[i], m)]
              = Append(Append(Append(w, Sent(b1, m)), Sent(b2, m)), Sent(b3, m))
  BY SentType

(* A key goes down, comes up, or the keyboard acknowledges a command: when the bytes are read the *)
(* flags are those of the keys held by then.                                                      *)
LEMMA UserStep ==
  ASSUME IInv, NEW t \in SUBSET Flags, Reach(wire, KeybState, t), Follows(t, held, both),
         NEW bytes \in Seq(Bytes), Send(bytes), UNCHANGED <<KeybState, typed>>,
         held' \subseteq Keys, both' \in BOOLEAN,
         NEW u \in SUBSET Flags, Reach(wire', KeybState, u), Follows(u, held', both')
  PROVE  IInv'
<1>1. (IF ShiftDown THEN 1 ELSE 0) \in Halves
  BY DEF Halves
<1>2. wire' \in Seq([byte : Bytes, meant : Halves]) /\ Len(wire') <= WireDepth /\ events' \in Nat
  BY <1>1, SendStep
<1>3. KeybTypeOK'
  BY <1>2 DEF IInv, KeybTypeOK
<1>4. CaseAsTyped'
  BY DEF IInv, CaseAsTyped
<1>5. RunsTo'
  BY DEF RunsTo
<1> QED
  BY <1>3, <1>4, <1>5 DEF IInv

(* The shift keys are down exactly when the flags at the end of the wire say so. *)
LEMMA MeantIsHalf ==
  ASSUME NEW t \in SUBSET Flags, Follows(t, held, both)
  PROVE  (IF ShiftDown THEN 1 ELSE 0) = HalfOf(t)
  BY DEF Follows, ShiftDown, HalfOf, Shifts

LEMMA ByteTypes ==
  /\ \A k \in Keys : Code(k) \in Bytes
  /\ "f0" \in Bytes /\ "e0" \in Bytes /\ "fa" \in Bytes /\ Code("RCtrl") = "Ctrl"
  BY DEF Bytes, Code

LEMMA PressStep ==
  ASSUME IInv, NEW k \in Keys, Press(k)
  PROVE  IInv'
<1>1. PICK t \in SUBSET Flags : Reach(wire, KeybState, t) /\ Follows(t, held, both)
  BY DEF IInv, RunsTo
<1> DEFINE m == HalfOf(t)
           bytes == Prefix(k) \o <<Code(k)>>
           u == Scan(t, Code(k))
<1>2. m \in Halves /\ m = (IF ShiftDown THEN 1 ELSE 0) /\ "KB_KEY_BREAK" \notin t
  BY <1>1, MeantIsHalf DEF HalfOf, Halves, Follows
<1>3. Code(k) \in Bytes /\ "e0" \in Bytes
  BY ByteTypes
<1>4. /\ Send(bytes) /\ UNCHANGED <<KeybState, typed>> /\ held' = held \cup {k}
      /\ both' = (both \/ {"LCtrl", "RCtrl"} \subseteq held \cup {k})
  BY DEF Press
<1>5. held' \subseteq Keys
  BY <1>4 DEF IInv, KeybTypeOK
<1>6. both' \in BOOLEAN
  BY <1>4, Zenon DEF IInv, KeybTypeOK
<1>7. u \in SUBSET Flags /\ Follows(u, held', both')
  <2>1. Follows(u, held \cup {k}, both \/ {"LCtrl", "RCtrl"} \subseteq held \cup {k})
    BY <1>1, PressFlags
  <2> QED
    BY <1>3, <1>4, <2>1, ScanType
<1>8. wire \in Seq([byte : Bytes, meant : Halves])
  BY DEF IInv, KeybTypeOK
<1>9. CASE k = "RCtrl"
  <2>1. bytes = <<"e0", "Ctrl">> /\ Code(k) = "Ctrl" /\ bytes \in Seq(Bytes)
    <3>1. Code(k) = "Ctrl" /\ Prefix(k) = <<"e0">>
      BY <1>9, ByteTypes DEF Prefix
    <3> QED
      BY <1>3, <3>1, Pair
  <2>2. wire' = Append(Append(wire, Sent("e0", m)), Sent("Ctrl", m))
    <3> HIDE DEF bytes, m
    <3>1. wire' = wire \o [i \in 1..Len(bytes) |-> Sent(bytes[i], m)]
      BY <1>2, <1>4, <2>1, SendStep
    <3> QED
      BY <1>2, <1>3, <1>8, <2>1, <3>1, WireBytes
  <2>3. Scan(t, "e0") = t
    BY <1>2 DEF Scan, FlagOf
  <2>4. Reach(Append(wire, Sent("e0", m)), KeybState, t)
    <3>1. Sent("e0", m) \in [byte : Bytes, meant : Halves] /\ Sent("e0", m).byte = "e0"
      BY <1>2, <1>3, SentType DEF Sent
    <3> QED
      BY <1>1, <1>8, <2>3, <3>1, AddByte
  <2>5. Reach(wire', KeybState, u)
    <3>1. Sent("Ctrl", m) \in [byte : Bytes, meant : Halves] /\ Sent("Ctrl", m).byte = "Ctrl"
          /\ Sent("e0", m) \in [byte : Bytes, meant : Halves]
      BY <1>2, <1>3, <2>1, SentType DEF Sent
    <3>2. Append(wire, Sent("e0", m)) \in Seq([byte : Bytes, meant : Halves])
      BY <1>8, <3>1
    <3> QED
      BY <2>1, <2>2, <2>4, <3>1, <3>2, AddByte
  <2> QED
    BY <1>1, <1>4, <1>5, <1>6, <1>7, <2>1, <2>5, UserStep
<1>10. CASE k # "RCtrl"
  <2>1. bytes = <<Code(k)>> /\ bytes \in Seq(Bytes)
    BY <1>3, <1>10 DEF Prefix
  <2>2. wire' = Append(wire, Sent(Code(k), m))
    <3> HIDE DEF bytes, m
    <3>1. wire' = wire \o [i \in 1..Len(bytes) |-> Sent(bytes[i], m)]
      BY <1>2, <1>4, <2>1, SendStep
    <3> QED
      BY <1>2, <1>3, <1>8, <2>1, <3>1, WireBytes
  <2>3. Reach(wire', KeybState, u)
    <3>1. /\ Sent(Code(k), m) \in [byte : Bytes, meant : Halves]
          /\ Sent(Code(k), m).byte = Code(k) /\ Sent(Code(k), m).meant = m
      BY <1>2, <1>3, SentType DEF Sent
    <3> QED
      BY <1>1, <1>8, <2>2, <3>1, AddByte
  <2> QED
    BY <1>1, <1>4, <1>5, <1>6, <1>7, <2>1, <2>3, UserStep
<1> QED
  BY <1>9, <1>10

LEMMA ReleaseStep ==
  ASSUME IInv, NEW k \in Keys, Release(k)
  PROVE  IInv'
<1>1. PICK t \in SUBSET Flags : Reach(wire, KeybState, t) /\ Follows(t, held, both)
  BY DEF IInv, RunsTo
<1> DEFINE m == HalfOf(t)
           bytes == Prefix(k) \o <<"f0", Code(k)>>
           s == Scan(t, "f0")
           u == Scan(s, Code(k))
<1>2. m \in Halves /\ m = (IF ShiftDown THEN 1 ELSE 0) /\ "KB_KEY_BREAK" \notin t
  BY <1>1, MeantIsHalf DEF HalfOf, Halves, Follows
<1>3. Code(k) \in Bytes /\ "e0" \in Bytes /\ "f0" \in Bytes
  BY ByteTypes
<1>4. /\ Send(bytes) /\ UNCHANGED <<KeybState, typed, both>> /\ held' = held \ {k} /\ k \in held
  BY DEF Release
<1>5. held' \subseteq Keys
  BY <1>4 DEF IInv, KeybTypeOK
<1>6. both' \in BOOLEAN
  BY <1>4, Zenon DEF IInv, KeybTypeOK
<1>7. s \in SUBSET Flags /\ "KB_KEY_BREAK" \in s
  BY <1>3, ScanType DEF Scan
<1>8. u \in SUBSET Flags /\ Follows(u, held', both')
  <2>1. Follows(u, held \ {k}, both)
    BY <1>1, <1>4, ReleaseFlags
  <2> QED
    BY <1>3, <1>4, <1>7, <2>1, ScanType
<1>9. wire \in Seq([byte : Bytes, meant : Halves])
  BY DEF IInv, KeybTypeOK
<1>10. /\ Sent("e0", m) \in [byte : Bytes, meant : Halves] /\ Sent("e0", m).byte = "e0"
       /\ Sent("f0", m) \in [byte : Bytes, meant : Halves] /\ Sent("f0", m).byte = "f0"
       /\ Sent(Code(k), m) \in [byte : Bytes, meant : Halves] /\ Sent(Code(k), m).byte = Code(k)
  BY <1>2, <1>3, SentType DEF Sent
<1>11. \A w \in Seq([byte : Bytes, meant : Halves]) : Reach(w, KeybState, t) =>
         Reach(Append(Append(w, Sent("f0", m)), Sent(Code(k), m)), KeybState, u)
  <2> SUFFICES ASSUME NEW w \in Seq([byte : Bytes, meant : Halves]), Reach(w, KeybState, t)
               PROVE  Reach(Append(Append(w, Sent("f0", m)), Sent(Code(k), m)), KeybState, u)
    OBVIOUS
  <2>1. Reach(Append(w, Sent("f0", m)), KeybState, s)
    BY <1>10, AddByte
  <2>2. Append(w, Sent("f0", m)) \in Seq([byte : Bytes, meant : Halves])
    BY <1>10
  <2> QED
    BY <1>7, <1>10, <2>1, <2>2, AddByte
<1>12. CASE k = "RCtrl"
  <2>1. bytes = <<"e0", "f0", Code(k)>> /\ bytes \in Seq(Bytes)
    <3>1. Prefix(k) = <<"e0">>
      BY <1>12 DEF Prefix
    <3> QED
      BY <1>3, <3>1, Triple
  <2>2. wire' = Append(Append(Append(wire, Sent("e0", m)), Sent("f0", m)), Sent(Code(k), m))
    <3> HIDE DEF bytes, m
    <3>1. wire' = wire \o [i \in 1..Len(bytes) |-> Sent(bytes[i], m)]
      BY <1>2, <1>4, <2>1, SendStep
    <3> QED
      BY <1>2, <1>3, <1>9, <2>1, <3>1, WireBytes
  <2>3. Scan(t, "e0") = t
    BY <1>2 DEF Scan, FlagOf
  <2>4. /\ Reach(Append(wire, Sent("e0", m)), KeybState, t)
        /\ Append(wire, Sent("e0", m)) \in Seq([byte : Bytes, meant : Halves])
    <3>1. Append(wire, Sent("e0", m)) \in Seq([byte : Bytes, meant : Halves])
      BY <1>9, <1>10
    <3>2. Reach(Append(wire, Sent("e0", m)), KeybState, Scan(t, Sent("e0", m).byte))
      BY <1>1, <1>9, <1>10, AddByte
    <3> QED
      BY <1>10, <2>3, <3>1, <3>2
  <2>5. Reach(wire', KeybState, u)
    BY <1>11, <2>2, <2>4
  <2> QED
    BY <1>1, <1>4, <1>5, <1>6, <1>8, <2>1, <2>5, UserStep
<1>13. CASE k # "RCtrl"
  <2>1. bytes = <<"f0", Code(k)>> /\ bytes \in Seq(Bytes)
    BY <1>3, <1>13 DEF Prefix
  <2>2. wire' = Append(Append(wire, Sent("f0", m)), Sent(Code(k), m))
    <3> HIDE DEF bytes, m
    <3>1. wire' = wire \o [i \in 1..Len(bytes) |-> Sent(bytes[i], m)]
      BY <1>2, <1>4, <2>1, SendStep
    <3> QED
      BY <1>2, <1>3, <1>9, <2>1, <3>1, WireBytes
  <2>3. Reach(wire', KeybState, u)
    BY <1>1, <1>9, <1>11, <2>2
  <2> QED
    BY <1>1, <1>4, <1>5, <1>6, <1>8, <2>1, <2>3, UserStep
<1> QED
  BY <1>12, <1>13

LEMMA AckStep ==
  ASSUME IInv, Ack
  PROVE  IInv'
<1>1. PICK t \in SUBSET Flags : Reach(wire, KeybState, t) /\ Follows(t, held, both)
  BY DEF IInv, RunsTo
<1> DEFINE m == HalfOf(t)
           bytes == <<"fa">>
<1>2. m \in Halves /\ m = (IF ShiftDown THEN 1 ELSE 0)
  BY <1>1, MeantIsHalf DEF HalfOf, Halves
<1>3. "fa" \in Bytes /\ bytes \in Seq(Bytes)
  BY ByteTypes
<1>4. Send(bytes) /\ UNCHANGED <<KeybState, typed, both, held>>
  BY DEF Ack
<1>5. held' \subseteq Keys /\ wire \in Seq([byte : Bytes, meant : Halves])
  BY <1>4 DEF IInv, KeybTypeOK
<1>6. both' \in BOOLEAN
  BY <1>4, Zenon DEF IInv, KeybTypeOK
<1>7. wire' = Append(wire, Sent("fa", m))
  <2>1. wire' = wire \o [i \in 1..Len(<<"fa">>) |-> Sent(<<"fa">>[i], m)]
    <3> HIDE DEF m
    <3> QED
      BY <1>2, <1>3, <1>4, SendStep
  <2> HIDE DEF m
  <2> QED
    BY <1>2, <1>3, <1>5, <2>1, WireBytes
<1>8. Scan(t, "fa") = t
  BY DEF Scan
<1>9. Reach(wire', KeybState, t)
  <2>1. Sent("fa", m) \in [byte : Bytes, meant : Halves] /\ Sent("fa", m).byte = "fa"
    BY <1>2, <1>3, SentType DEF Sent
  <2> QED
    BY <1>1, <1>5, <1>7, <1>8, <2>1, AddByte
<1> QED
  BY <1>1, <1>3, <1>4, <1>5, <1>6, <1>9, UserStep

LEMMA NextIInv == IInv /\ [KeybNext]_keybvars => IInv'
<1> SUFFICES ASSUME IInv, [KeybNext]_keybvars PROVE IInv'
  OBVIOUS
<1>1. CASE UNCHANGED keybvars
  <2>1. UNCHANGED <<held, wire, KeybState, events, both, typed>>
    BY <1>1 DEF keybvars
  <2>2. KeybTypeOK'
    <3>1. both' \in BOOLEAN
      BY <2>1, Zenon DEF IInv, KeybTypeOK
    <3> QED
      BY <2>1, <3>1 DEF IInv, KeybTypeOK
  <2> QED
    BY <2>1, <2>2 DEF IInv, CaseAsTyped, RunsTo
<1> QED
  BY <1>1, PressStep, ReleaseStep, AckStep, ScanStep DEF KeybNext

(* On an empty wire the run has no steps. *)
LEMMA SettledFlags == IInv => ShiftInv /\ CaseAsTyped /\ CtrlFollowsKeys
<1> SUFFICES ASSUME IInv PROVE ShiftInv /\ CaseAsTyped /\ CtrlFollowsKeys
  OBVIOUS
<1>1. PICK t \in SUBSET Flags : Reach(wire, KeybState, t) /\ Follows(t, held, both)
  BY DEF IInv, RunsTo
<1>2. wire = <<>> => t = KeybState
  BY <1>1 DEF Reach
<1> QED
  BY <1>1, <1>2 DEF IInv, ShiftInv, ShiftFollowsKeys, CtrlFollowsKeys, Follows

(* The shift flags of keyb.c are those of the keys whenever all bytes are read, however they come *)
(* and go: the toggle of a release never inverts them.                                            *)
THEOREM ShiftHolds == KeybSpec => []ShiftInv
  BY InitIInv, NextIInv, SettledFlags, PTL DEF KeybSpec

(* Every key is looked up in the half of the table for which it was typed. *)
THEOREM CaseHolds == KeybSpec => []CaseAsTyped
  BY InitIInv, NextIInv, SettledFlags, PTL DEF KeybSpec

(* While the two control keys have not been down at once, KB_CTRL_HOLDS is one of them. *)
THEOREM CtrlHolds == KeybSpec => []CtrlFollowsKeys
  BY InitIInv, NextIInv, SettledFlags, PTL DEF KeybSpec

-----------------------------------------------------------------------------
(* The screen: rows and cells *)

(* The size of the screen *)
LEMMA ScreenSize == CGA_NUM_COLS \in Nat \ {0} /\ CGA_NUM_ROWS \in Nat /\ CGA_NUM_ROWS > 1
BY ScreenAssumption

(* The first cells of rows are one row apart. *)
LEMMA RowSum ==
  ASSUME NEW a \in Nat, NEW b \in Nat
  PROVE  RowAt(a + b) = RowAt(a) + RowAt(b) /\ RowAt(a) \in Nat
BY ScreenSize DEF RowAt

(* Rows start at cells. *)
LEMMA RowType ==
  ASSUME NEW a \in Nat
  PROVE  RowAt(a) \in Nat
BY ScreenSize DEF RowAt

(* The first two rows *)
LEMMA RowOne == RowAt(0) = 0 /\ RowAt(1) = CGA_NUM_COLS
BY ScreenSize DEF RowAt

(* A row is CGA_NUM_COLS cells long. *)
LEMMA RowNext ==
  ASSUME NEW a \in Nat
  PROVE  RowAt(a + 1) = RowAt(a) + CGA_NUM_COLS
BY RowSum, RowOne

(* Rows follow one another. *)
LEMMA RowBelow ==
  ASSUME NEW a \in Nat, NEW b \in Nat, a < b
  PROVE  RowAt(a) + CGA_NUM_COLS <= RowAt(b)
<1>1. b - (a + 1) \in Nat /\ a + 1 \in Nat
  OBVIOUS
<1>2. b = (a + 1) + (b - (a + 1))
  OBVIOUS
<1>3. RowAt(b) = RowAt(a + 1) + RowAt(b - (a + 1)) /\ RowAt(b - (a + 1)) \in Nat
  BY <1>1, <1>2, RowSum
<1>4. RowAt(a + 1) = RowAt(a) + CGA_NUM_COLS /\ RowAt(a) \in Nat
  BY RowNext, RowSum
<1> QED
  BY <1>3, <1>4, ScreenSize

(* The row of a cell *)
LEMMA RowOfCell ==
  ASSUME NEW r \in Nat, NEW x \in 0..(CGA_NUM_COLS - 1)
  PROVE  RowOf(RowAt(r) + x) = r
<1> DEFINE n == RowAt(r) + x
           q == n \div CGA_NUM_COLS
           m == n % CGA_NUM_COLS
<1>1. CGA_NUM_COLS \in Nat \ {0} /\ n \in Nat
  BY ScreenSize, RowType
<1> HIDE DEF n
<1>2. q \in Nat /\ m \in 0..(CGA_NUM_COLS - 1) /\ n = CGA_NUM_COLS * q + m
  BY <1>1
<1>3. n = RowAt(q) + m
  BY <1>1, <1>2 DEF RowAt
<1> HIDE DEF q, m
<1>4. ~(q < r) /\ ~(r < q)
  <2>1. q < r => RowAt(q) + CGA_NUM_COLS <= RowAt(r)
    BY <1>2, RowBelow
  <2>2. r < q => RowAt(r) + CGA_NUM_COLS <= RowAt(q)
    BY <1>2, RowBelow
  <2>3. RowAt(q) \in Nat /\ RowAt(r) \in Nat
    BY <1>2, RowSum
  <2> QED
    BY <1>1, <1>2, <1>3, <2>1, <2>2, <2>3 DEF n
<1> QED
  BY <1>2, <1>4 DEF RowOf, q, n

(* The first cell of a cell's row *)
LEMMA RowStartCell ==
  ASSUME NEW r \in Nat, NEW x \in 0..(CGA_NUM_COLS - 1)
  PROVE  RowStart(RowAt(r) + x) = RowAt(r)
BY RowOfCell DEF RowStart

-----------------------------------------------------------------------------
IsScreen(s) ==
  /\ s = [x |-> s.x, y |-> s.y, buf |-> s.buf]
  /\ s.x \in 0..CGA_NUM_COLS /\ s.y \in 0..(CGA_NUM_ROWS - 1)
  /\ s.buf = [i \in Cells |-> s.buf[i]]

IsTape(t) ==
  /\ t = [cell |-> t.cell, pos |-> t.pos, full |-> t.full, top |-> t.top]
  /\ t.pos \in Nat /\ t.top \in Nat

(* The screen s is the window of the tape t, and nothing is written below it. *)
Window(s, t) ==
  /\ \A i \in Cells : /\ s.buf[i].code = CellAt(t, i + RowAt(t.top))
                      /\ s.buf[i].code # "0" => s.buf[i].color = char_color
  /\ \A p \in Nat : p >= RowAt(t.top + CGA_NUM_ROWS) => CellAt(t, p) = "0"

(* The cursor of s is at the position of t. *)
Aligned(s, t) ==
  /\ t.pos = RowAt(t.top + s.y) + s.x
  /\ t.full <=> s.x = CGA_NUM_COLS

Match(s, t) == IsScreen(s) /\ IsTape(t) /\ Window(s, t) /\ Aligned(s, t)

(* A write changes one cell of the tape and nothing else. *)
LEMMA WriteTape ==
  ASSUME NEW t, IsTape(t), NEW p, NEW c
  PROVE  LET w == Write(t, p, c) IN
           /\ IsTape(w) /\ w.pos = t.pos /\ w.top = t.top /\ w.full = t.full
           /\ \A q : CellAt(w, q) = IF q = p THEN c ELSE CellAt(t, q)
<1> DEFINE f == [i \in DOMAIN t.cell \cup {p} |-> IF i = p THEN c ELSE t.cell[i]]
           w == Write(t, p, c)
<1>1. w = [cell |-> f, pos |-> t.pos, full |-> t.full, top |-> t.top]
  BY DEF IsTape, Write
<1>2. DOMAIN f = DOMAIN t.cell \cup {p}
  OBVIOUS
<1>3. \A q \in DOMAIN f : f[q] = IF q = p THEN c ELSE t.cell[q]
  OBVIOUS
<1> HIDE DEF f
<1>4. w.cell = f /\ w.pos = t.pos /\ w.full = t.full /\ w.top = t.top
  BY <1>1
<1>5. IsTape(w)
  BY <1>1, <1>4 DEF IsTape
<1> HIDE DEF w
<1>6. ASSUME NEW q PROVE CellAt(w, q) = IF q = p THEN c ELSE CellAt(t, q)
  BY <1>2, <1>3, <1>4 DEF CellAt
<1> QED
  BY <1>4, <1>5, <1>6 DEF w

(* A move of the position leaves the text alone. *)
LEMMA GoTape ==
  ASSUME NEW t, IsTape(t), NEW p \in Nat
  PROVE  LET w == Go(t, p) IN
           /\ IsTape(w) /\ w.pos = p /\ w.top = t.top /\ w.full = FALSE /\ w.cell = t.cell
<1> DEFINE w == Go(t, p)
<1>1. w = [cell |-> t.cell, pos |-> p, full |-> FALSE, top |-> t.top]
  BY DEF IsTape, Go
<1>2. w.cell = t.cell /\ w.pos = p /\ w.full = FALSE /\ w.top = t.top
  BY <1>1
<1> HIDE DEF w
<1>3. IsTape(w)
  BY <1>1, <1>2 DEF IsTape
<1> QED
  BY <1>2, <1>3 DEF w

(* The window moves just as far as a cell in row r requires. *)
LEMMA ShowsTape ==
  ASSUME NEW t, IsTape(t), NEW r \in Nat, NEW x \in 0..(CGA_NUM_COLS - 1)
  PROVE  LET w == Shows(t, RowAt(r) + x) IN
           /\ IsTape(w) /\ w.pos = t.pos /\ w.full = t.full /\ w.cell = t.cell
           /\ w.top = IF r >= t.top + CGA_NUM_ROWS THEN r - CGA_NUM_ROWS + 1 ELSE t.top
<1>1. RowOf(RowAt(r) + x) = r
  BY RowOfCell
<1> DEFINE top == IF r >= t.top + CGA_NUM_ROWS THEN r - CGA_NUM_ROWS + 1 ELSE t.top
           w == Shows(t, RowAt(r) + x)
<1>2. w = [t EXCEPT !.top = top]
  BY <1>1 DEF Shows
<1>3. top \in Nat
  BY ScreenSize DEF IsTape
<1> HIDE DEF top, w
<1>4. w = [cell |-> t.cell, pos |-> t.pos, full |-> t.full, top |-> top]
  BY <1>2 DEF IsTape
<1>5. w.cell = t.cell /\ w.pos = t.pos /\ w.full = t.full /\ w.top = top
  BY <1>4
<1>6. IsTape(w)
  BY <1>3, <1>4, <1>5 DEF IsTape
<1> QED
  BY <1>5, <1>6 DEF w, top

(* The cells of the screen, by row *)
LEMMA CellOnScreen ==
  ASSUME NEW x \in 0..(CGA_NUM_COLS - 1), NEW y \in 0..(CGA_NUM_ROWS - 1)
  PROVE  x + RowAt(y) \in Cells
<1>1. CGA_NUM_ROWS \in Nat /\ CGA_NUM_COLS \in Nat /\ y \in Nat /\ y < CGA_NUM_ROWS
  BY ScreenSize
<1>2. RowAt(y) + CGA_NUM_COLS <= RowAt(CGA_NUM_ROWS)
  BY <1>1, RowBelow
<1>3. RowAt(y) \in Nat /\ RowAt(CGA_NUM_ROWS) \in Nat
  BY <1>1, RowType
<1> QED
  BY <1>1, <1>2, <1>3 DEF Cells

(* Scrolling: the last row is empty, the others have what was below them. *)
LEMMA ScrolledCell ==
  ASSUME NEW buf, NEW i \in Cells
  PROVE  \/ /\ i < RowAt(CGA_NUM_ROWS - 1) /\ i + CGA_NUM_COLS \in Cells
            /\ Scrolled(buf)[i] = buf[i + CGA_NUM_COLS]
         \/ /\ i >= RowAt(CGA_NUM_ROWS - 1)
            /\ Scrolled(buf)[i] = Empty
<1> DEFINE last == CGA_NUM_ROWS - 1
           W == CGA_NUM_COLS
<1>1. last \in Nat /\ W \in Nat \ {0} /\ CGA_NUM_ROWS = last + 1
  BY ScreenSize
<1>2. RowAt(CGA_NUM_ROWS) = RowAt(last) + W /\ RowAt(last) \in Nat
  BY <1>1, RowNext, RowType
<1>3. i \in Nat /\ i < RowAt(last) + W
  BY <1>1, <1>2 DEF Cells
<1>4. Scrolled(buf)[i] = IF RowOf(i) = last THEN Empty ELSE buf[i + W]
  BY DEF Scrolled
<1> HIDE DEF last
<1>5. CASE i >= RowAt(last)
  <2>1. i - RowAt(last) \in 0..(W - 1) /\ i = RowAt(last) + (i - RowAt(last))
    BY <1>1, <1>2, <1>3, <1>5
  <2>2. RowOf(RowAt(last) + (i - RowAt(last))) = last
    BY <1>1, <2>1, RowOfCell
  <2>3. RowOf(i) = last
    BY <2>1, <2>2
  <2> QED
    BY <1>4, <1>5, <2>3 DEF last
<1>6. CASE i < RowAt(last)
  <2>1. RowOf(i) # last
    <3>1. i = W * (i \div W) + (i % W) /\ i \div W \in Nat /\ i % W \in Nat
      BY <1>1, <1>3
    <3>2. i = RowAt(RowOf(i)) + (i % W)
      BY <1>1, <3>1 DEF RowOf, RowAt
    <3> DEFINE m == i % W
    <3>3. m \in Nat
      BY <3>1
    <3> HIDE DEF m
    <3>4. RowAt(RowOf(i)) <= i
      <4>1. RowAt(RowOf(i)) \in Nat
        BY <3>1, RowType DEF RowOf
      <4> QED
        BY <3>2, <3>3, <4>1 DEF m
    <3> QED
      BY <1>2, <1>3, <1>6, <3>4
  <2>2. i + W \in Cells
    BY <1>1, <1>2, <1>3, <1>6 DEF Cells
  <2> QED
    BY <1>4, <1>6, <2>1, <2>2 DEF last
<1> QED
  BY <1>2, <1>3, <1>5, <1>6

(* print_newLine follows the window of the tape to the next row. *)
LEMMA NewLine ==
  ASSUME NEW s, IsScreen(s), NEW t, IsTape(t), Window(s, t)
  PROVE  LET n == print_newLine(s)
             r == t.top + s.y + 1
             u == Shows(t, RowAt(r))
         IN  /\ IsScreen(n) /\ n.x = 0
             /\ IsTape(u) /\ u.pos = t.pos /\ u.full = t.full
             /\ u.top + n.y = r
             /\ Window(n, u)
<1> DEFINE n == print_newLine(s)
           r == t.top + s.y + 1
           u == Shows(t, RowAt(r))
           W == CGA_NUM_COLS
           H == CGA_NUM_ROWS
<1>1. /\ W \in Nat \ {0} /\ H \in Nat /\ H > 1 /\ t.top \in Nat /\ s.y \in Nat /\ s.y < H
      /\ r \in Nat
  BY ScreenSize DEF IsScreen, IsTape
<1>2. /\ IsTape(u) /\ u.pos = t.pos /\ u.full = t.full /\ u.cell = t.cell
      /\ u.top = IF r >= t.top + H THEN r - H + 1 ELSE t.top
  <2>1. 0 \in 0..(W - 1)
    BY <1>1
  <2>2. RowAt(r) + 0 = RowAt(r)
    BY <1>1, RowType
  <2> DEFINE v == Shows(t, RowAt(r) + 0)
  <2> HIDE DEF r
  <2>3. /\ IsTape(v) /\ v.pos = t.pos /\ v.full = t.full /\ v.cell = t.cell
        /\ v.top = IF r >= t.top + H THEN r - H + 1 ELSE t.top
    BY <1>1, <2>1, ShowsTape
  <2> QED
    BY <2>2, <2>3
<1>3. \A p : CellAt(u, p) = CellAt(t, p)
  BY <1>2 DEF CellAt
<1>4. CASE s.y < H - 1
  <2>1. n = [x |-> 0, y |-> s.y + 1, buf |-> s.buf]
    BY <1>4 DEF print_newLine, IsScreen
  <2>2. u.top = t.top
    BY <1>1, <1>2, <1>4
  <2> HIDE DEF n, u
  <2>3. n.x = 0 /\ n.y = s.y + 1 /\ n.buf = s.buf
    BY <2>1
  <2>4. IsScreen(n)
    BY <1>1, <1>4, <2>1, <2>3 DEF IsScreen
  <2>5. Window(n, u)
    BY <1>3, <2>2, <2>3 DEF Window
  <2>6. u.top + n.y = r
    BY <1>1, <2>2, <2>3
  <2> QED
    BY <1>2, <2>3, <2>4, <2>5, <2>6 DEF n, u
<1>5. CASE s.y = H - 1
  <2>1. n = [x |-> 0, y |-> s.y, buf |-> Scrolled(s.buf)]
    BY <1>5 DEF print_newLine, IsScreen
  <2>2. u.top = t.top + 1
    BY <1>1, <1>2, <1>5
  <2> HIDE DEF n, u
  <2>3. n.x = 0 /\ n.y = s.y /\ n.buf = Scrolled(s.buf)
    BY <2>1
  <2>4. IsScreen(n)
    <3>1. Scrolled(s.buf) = [i \in Cells |-> Scrolled(s.buf)[i]]
      BY DEF Scrolled
    <3> QED
      BY <1>1, <2>1, <2>3, <3>1 DEF IsScreen
  <2>5. RowAt(u.top) = RowAt(t.top) + W /\ RowAt(t.top) \in Nat
    BY <1>1, <2>2, RowNext, RowType
  <2>6. RowAt(u.top + H) = RowAt(t.top + H) + W /\ RowAt(t.top + H) \in Nat
    <3>1. u.top + H = (t.top + H) + 1 /\ t.top + H \in Nat
      BY <1>1, <2>2
    <3> QED
      BY <3>1, RowNext, RowType
  <2>7. RowAt(t.top + H) = RowAt(u.top) + RowAt(H - 1)
    <3>1. t.top + H = u.top + (H - 1) /\ H - 1 \in Nat /\ u.top \in Nat
      BY <1>1, <2>2
    <3> QED
      BY <3>1, RowSum
  <2>8. ASSUME NEW i \in Cells
        PROVE  /\ n.buf[i].code = CellAt(u, i + RowAt(u.top))
               /\ n.buf[i].code # "0" => n.buf[i].color = char_color
    <3>1. i \in Nat /\ RowAt(H - 1) \in Nat
      BY <1>1, RowType DEF Cells
    <3>2. CASE i < RowAt(H - 1) /\ i + W \in Cells /\ Scrolled(s.buf)[i] = s.buf[i + W]
      <4>1. (i + W) + RowAt(t.top) = i + RowAt(u.top)
        BY <1>1, <2>5, <3>1
      <4>2. n.buf[i] = s.buf[i + W]
        BY <2>3, <3>2
      <4>3. /\ s.buf[i + W].code = CellAt(t, (i + W) + RowAt(t.top))
            /\ s.buf[i + W].code # "0" => s.buf[i + W].color = char_color
        BY <3>2 DEF Window
      <4> QED
        BY <1>3, <4>1, <4>2, <4>3
    <3>3. CASE i >= RowAt(H - 1) /\ Scrolled(s.buf)[i] = Empty
      <4>1. i + RowAt(u.top) \in Nat /\ i + RowAt(u.top) >= RowAt(t.top + H)
        BY <1>1, <2>5, <2>7, <3>1, <3>3
      <4>2. CellAt(t, i + RowAt(u.top)) = "0"
        BY <4>1 DEF Window
      <4>3. n.buf[i].code = "0"
        BY <2>3, <3>3 DEF Empty
      <4> QED
        BY <1>3, <4>2, <4>3
    <3> QED
      BY <3>2, <3>3, ScrolledCell
  <2>9. ASSUME NEW p \in Nat, p >= RowAt(u.top + H) PROVE CellAt(u, p) = "0"
    <3>1. p >= RowAt(t.top + H)
      BY <1>1, <2>6, <2>9
    <3> QED
      BY <1>3, <3>1 DEF Window
  <2>10. Window(n, u)
    BY <2>8, <2>9 DEF Window
  <2>11. u.top + n.y = r
    BY <1>1, <2>2, <2>3
  <2> QED
    BY <1>2, <2>3, <2>4, <2>10, <2>11 DEF n, u
<1> QED
  BY <1>1, <1>4, <1>5

(* A store at the cursor changes one cell. *)
LEMMA StoreScreen ==
  ASSUME NEW s, IsScreen(s), s.x < CGA_NUM_COLS, NEW c
  PROVE  LET n == Store(s, c) IN
           /\ IsScreen(n) /\ n.x = s.x /\ n.y = s.y
           /\ At(s) \in Cells
           /\ \A i \in Cells : n.buf[i] = IF i = At(s) THEN c ELSE s.buf[i]
<1> DEFINE b == [i \in DOMAIN s.buf \cup {At(s)} |-> IF i = At(s) THEN c ELSE s.buf[i]]
           n == Store(s, c)
<1>1. n = [x |-> s.x, y |-> s.y, buf |-> b]
  BY DEF Store, IsScreen
<1>2. At(s) \in Cells
  <2>1. s.x \in 0..(CGA_NUM_COLS - 1) /\ s.y \in 0..(CGA_NUM_ROWS - 1)
    BY ScreenSize DEF IsScreen
  <2> QED
    BY <2>1, CellOnScreen DEF At
<1>3. b = [i \in Cells |-> b[i]] /\ \A i \in Cells : b[i] = IF i = At(s) THEN c ELSE s.buf[i]
  <2>1. DOMAIN s.buf \cup {At(s)} = Cells
    BY <1>2 DEF IsScreen
  <2> QED
    BY <2>1
<1> HIDE DEF b, n
<1>4. n.x = s.x /\ n.y = s.y /\ n.buf = b
  BY <1>1
<1>5. IsScreen(n)
  BY <1>1, <1>3, <1>4 DEF IsScreen
<1> QED
  BY <1>2, <1>3, <1>4, <1>5 DEF n

(* Where a store on the screen is on the tape *)
LEMMA StoreCell ==
  ASSUME NEW s, IsScreen(s), s.x < CGA_NUM_COLS, NEW t, IsTape(t), Window(s, t),
         t.pos = RowAt(t.top + s.y) + s.x,
         NEW c, c.code # "0" => c.color = char_color
  PROVE  Window(Store(s, c), Write(t, t.pos, c.code))
<1> DEFINE n == Store(s, c)
           w == Write(t, t.pos, c.code)
           W == CGA_NUM_COLS
           H == CGA_NUM_ROWS
<1>1. /\ At(s) \in Cells
      /\ \A i \in Cells : n.buf[i] = IF i = At(s) THEN c ELSE s.buf[i]
  BY StoreScreen
<1>2. /\ w.top = t.top
      /\ \A q : CellAt(w, q) = IF q = t.pos THEN c.code ELSE CellAt(t, q)
  BY WriteTape
<1>3. /\ W \in Nat \ {0} /\ H \in Nat /\ t.top \in Nat /\ t.pos \in Nat
      /\ s.x \in Nat /\ s.x < W /\ s.y \in Nat /\ s.y < H
  BY ScreenSize DEF IsScreen, IsTape
<1>4. /\ RowAt(t.top + s.y) = RowAt(t.top) + RowAt(s.y)
      /\ RowAt(t.top) \in Nat /\ RowAt(s.y) \in Nat
  BY <1>3, RowSum, RowType
<1>5. t.pos = At(s) + RowAt(t.top)
  BY <1>3, <1>4 DEF At
<1>6. t.pos < RowAt(t.top + H)
  <2>1. t.top + s.y \in Nat /\ t.top + H \in Nat /\ t.top + s.y < t.top + H
    BY <1>3
  <2>2. RowAt(t.top + s.y) + W <= RowAt(t.top + H)
    BY <2>1, RowBelow
  <2>3. RowAt(t.top + s.y) \in Nat /\ RowAt(t.top + H) \in Nat
    BY <2>1, RowType
  <2> QED
    BY <1>3, <2>2, <2>3
<1> HIDE DEF n, w
<1>7. ASSUME NEW i \in Cells
      PROVE  /\ n.buf[i].code = CellAt(w, i + RowAt(w.top))
             /\ n.buf[i].code # "0" => n.buf[i].color = char_color
  <2>1. CASE i = At(s)
    <3>1. i + RowAt(w.top) = t.pos
      BY <1>2, <1>5, <2>1
    <3>2. n.buf[i] = c
      BY <1>1, <2>1
    <3> QED
      BY <1>2, <3>1, <3>2
  <2>2. CASE i # At(s)
    <3>1. i \in Int /\ At(s) \in Int
      BY <1>1 DEF Cells
    <3>2. i + RowAt(w.top) # t.pos
      BY <1>2, <1>4, <1>5, <2>2, <3>1
    <3>3. n.buf[i] = s.buf[i]
      BY <1>1, <2>2
    <3> QED
      BY <1>2, <3>2, <3>3 DEF Window
  <2> QED
    BY <2>1, <2>2
<1>8. ASSUME NEW p \in Nat, p >= RowAt(w.top + H) PROVE CellAt(w, p) = "0"
  <2>1. p >= RowAt(t.top + H) /\ RowAt(t.top + H) \in Nat
    BY <1>2, <1>3, <1>8, RowType
  <2>2. p # t.pos
    BY <1>3, <1>6, <2>1
  <2> QED
    BY <1>2, <2>1, <2>2 DEF Window
<1> QED
  BY <1>7, <1>8 DEF Window, n, w

(* The tape's row mark tells a full row from the others. *)
LEMMA FullRow ==
  ASSUME NEW r \in Nat, NEW x \in 0..(CGA_NUM_COLS - 1), NEW p, p = RowAt(r) + x
  PROVE  RowStart(p + 1) = p + 1 <=> x + 1 = CGA_NUM_COLS
<1> DEFINE W == CGA_NUM_COLS
<1>1. W \in Nat \ {0} /\ RowAt(r) \in Nat /\ p \in Nat /\ x \in Nat
  <2>1. W \in Nat \ {0}
    BY ScreenSize
  <2>2. RowAt(r) \in Nat
    BY RowType
  <2>3. x \in Nat
    BY <2>1
  <2> QED
    BY <2>1, <2>2, <2>3
<1>2. CASE x + 1 = W
  <2>1. p + 1 = RowAt(r + 1) + 0 /\ r + 1 \in Nat /\ 0 \in 0..(W - 1)
    BY <1>1, <1>2, RowNext
  <2>2. RowStart(RowAt(r + 1) + 0) = RowAt(r + 1)
    BY <2>1, RowStartCell
  <2>3. RowAt(r + 1) \in Nat
    BY <2>1, RowType
  <2>4. RowStart(p + 1) = RowAt(r + 1) /\ p + 1 = RowAt(r + 1)
    BY <2>1, <2>2, <2>3
  <2> QED
    BY <1>2, <2>4
<1>3. CASE x + 1 # W
  <2>1. p + 1 = RowAt(r) + (x + 1) /\ x + 1 \in 0..(W - 1)
    BY <1>1, <1>3
  <2>2. RowStart(RowAt(r) + (x + 1)) = RowAt(r)
    BY <2>1, RowStartCell
  <2>3. RowStart(p + 1) = RowAt(r)
    BY <2>1, <2>2
  <2> QED
    BY <1>1, <1>3, <2>3
<1> QED
  BY <1>2, <1>3

(* print_char for a glyph, on a row that is not full *)
LEMMA PutCell ==
  ASSUME NEW n, IsScreen(n), n.x < CGA_NUM_COLS, NEW u, IsTape(u), Window(n, u),
         u.pos = RowAt(u.top + n.y) + n.x, NEW c
  PROVE  LET w == Write(u, u.pos, c) IN
         Match([Store(n, [code |-> c, color |-> char_color]) EXCEPT !.x = n.x + 1],
               [cell |-> w.cell, pos |-> u.pos + 1,
                full |-> (RowStart(u.pos + 1) = u.pos + 1), top |-> w.top])
<1> DEFINE d == [code |-> c, color |-> char_color]
           w == Write(u, u.pos, c)
           m == Store(n, d)
           z == [m EXCEPT !.x = n.x + 1]
           full == (RowStart(u.pos + 1) = u.pos + 1)
           v == [cell |-> w.cell, pos |-> u.pos + 1, full |-> full, top |-> w.top]
<1>1. d.code = c /\ d.color = char_color
  OBVIOUS
<1>2. Window(m, w)
  <2> HIDE DEF d
  <2>1. Window(Store(n, d), Write(u, u.pos, d.code))
    BY <1>1, StoreCell
  <2> QED
    BY <1>1, <2>1
<1>3. IsScreen(m) /\ m.x = n.x /\ m.y = n.y
  BY StoreScreen
<1>4. w.pos = u.pos /\ w.top = u.top
  BY WriteTape
<1>5. /\ CGA_NUM_COLS \in Nat \ {0} /\ n.x \in 0..(CGA_NUM_COLS - 1) /\ n.y \in Nat
      /\ u.top \in Nat /\ u.pos \in Nat /\ u.top + n.y \in Nat /\ RowAt(u.top + n.y) \in Nat
  BY ScreenSize, RowType DEF IsScreen, IsTape
<1>6. full <=> n.x + 1 = CGA_NUM_COLS
  BY <1>5, FullRow
<1> HIDE DEF m, w, full, d
<1>7. z = [x |-> n.x + 1, y |-> n.y, buf |-> m.buf]
  BY <1>3 DEF IsScreen
<1> HIDE DEF z
<1>8. z.x = n.x + 1 /\ z.y = n.y /\ z.buf = m.buf
  BY <1>7
<1>9. IsScreen(z)
  BY <1>3, <1>5, <1>7, <1>8 DEF IsScreen
<1>10. v.pos = u.pos + 1 /\ v.top = w.top /\ v.cell = w.cell /\ (v.full <=> full)
  BY Zenon
<1>11. v = [cell |-> v.cell, pos |-> v.pos, full |-> v.full, top |-> v.top]
  OBVIOUS
<1> HIDE DEF v
<1>12. IsTape(v)
  BY <1>4, <1>5, <1>10, <1>11 DEF IsTape
<1>13. Window(z, v)
  BY <1>2, <1>8, <1>10 DEF Window, CellAt
<1>14. v.pos = RowAt(v.top + z.y) + z.x
  BY <1>4, <1>5, <1>8, <1>10
<1>15. v.full <=> z.x = CGA_NUM_COLS
  BY <1>6, <1>8, <1>10
<1>16. Match(z, v)
  BY <1>9, <1>12, <1>13, <1>14, <1>15 DEF Match, Aligned
<1> QED
  BY <1>16 DEF z, v, m, d, w, full

(* The facts about numbers that a screen and its tape give *)
LEMMA MatchTypes ==
  ASSUME NEW s, NEW t, Match(s, t)
  PROVE  /\ CGA_NUM_COLS \in Nat \ {0} /\ CGA_NUM_ROWS \in Nat /\ CGA_NUM_ROWS > 1
         /\ s.x \in 0..CGA_NUM_COLS /\ s.y \in 0..(CGA_NUM_ROWS - 1)
         /\ t.top \in Nat /\ t.pos \in Nat /\ t.top + s.y \in Nat
         /\ RowAt(t.top + s.y) \in Nat /\ RowAt(t.top) \in Nat /\ RowAt(s.y) \in Nat
         /\ RowAt(t.top + s.y) = RowAt(t.top) + RowAt(s.y)
         /\ t.pos = RowAt(t.top + s.y) + s.x
         /\ t.full <=> s.x = CGA_NUM_COLS
<1>1. /\ CGA_NUM_COLS \in Nat \ {0} /\ CGA_NUM_ROWS \in Nat /\ CGA_NUM_ROWS > 1
      /\ s.x \in 0..CGA_NUM_COLS /\ s.y \in 0..(CGA_NUM_ROWS - 1)
      /\ t.top \in Nat /\ t.pos \in Nat
      /\ t.pos = RowAt(t.top + s.y) + s.x
      /\ t.full <=> s.x = CGA_NUM_COLS
  BY ScreenSize DEF Match, IsScreen, IsTape, Aligned
<1>2. t.top + s.y \in Nat /\ s.y \in Nat
  BY <1>1
<1> QED
  BY <1>1, <1>2, RowType, RowSum

(* After a full row the next row starts where the tape is. *)
LEMMA FullPos ==
  ASSUME NEW s, NEW t, Match(s, t), s.x = CGA_NUM_COLS
  PROVE  t.pos = RowAt(t.top + s.y + 1)
BY MatchTypes, RowNext

(* print_char for a glyph is Put. *)
LEMMA GlyphMatch ==
  ASSUME NEW s, NEW t, Match(s, t), NEW c
  PROVE  Match(print_glyph(s, c), Put(t, c))
<1> DEFINE n == IF s.x >= CGA_NUM_COLS THEN print_newLine(s) ELSE s
           u == Shows(t, t.pos)
<1>1. /\ IsScreen(n) /\ n.x < CGA_NUM_COLS /\ IsTape(u) /\ Window(n, u)
      /\ u.pos = t.pos /\ u.pos = RowAt(u.top + n.y) + n.x
  <2>1. CASE s.x >= CGA_NUM_COLS
    <3>1. s.x = CGA_NUM_COLS
      BY <2>1, MatchTypes
    <3>2. t.pos = RowAt(t.top + s.y + 1)
      BY <3>1, FullPos
    <3>3. n = print_newLine(s)
      BY <2>1
    <3>4. IsScreen(s) /\ IsTape(t) /\ Window(s, t)
      BY DEF Match
    <3> DEFINE q == Shows(t, RowAt(t.top + s.y + 1))
    <3>5. /\ IsScreen(n) /\ n.x = 0
          /\ IsTape(q) /\ q.pos = t.pos /\ q.full = t.full
          /\ q.top + n.y = t.top + s.y + 1
          /\ Window(n, q)
      BY <3>3, <3>4, NewLine
    <3>6. u = q
      BY <3>2
    <3> HIDE DEF q, n, u
    <3> QED
      BY <3>2, <3>5, <3>6, MatchTypes
  <2>2. CASE s.x < CGA_NUM_COLS
    <3>1. n = s
      BY <2>2, MatchTypes
    <3>2. s.x \in 0..(CGA_NUM_COLS - 1) /\ t.top + s.y < t.top + CGA_NUM_ROWS
      BY <2>2, MatchTypes
    <3>3. IsScreen(s) /\ IsTape(t) /\ Window(s, t)
      BY DEF Match
    <3> DEFINE q == Shows(t, RowAt(t.top + s.y) + s.x)
    <3>4. u = q
      BY MatchTypes
    <3>5. t.top + s.y \in Nat /\ t.top \in Nat /\ CGA_NUM_ROWS \in Nat
      BY MatchTypes
    <3>6. /\ IsTape(q) /\ q.pos = t.pos /\ q.cell = t.cell
          /\ q.top = IF t.top + s.y >= t.top + CGA_NUM_ROWS
                       THEN (t.top + s.y) - CGA_NUM_ROWS + 1 ELSE t.top
      BY <3>2, <3>3, <3>5, ShowsTape
    <3>7. q.top = t.top
      BY <3>2, <3>5, <3>6, MatchTypes
    <3> HIDE DEF q, n, u
    <3>8. Window(n, u)
      BY <3>1, <3>3, <3>4, <3>6, <3>7 DEF Window, CellAt
    <3> QED
      BY <2>2, <3>1, <3>3, <3>4, <3>6, <3>7, <3>8, MatchTypes
  <2> QED
    BY <2>1, <2>2, MatchTypes
<1> DEFINE d == [code |-> c, color |-> char_color]
           w == Write(u, t.pos, c)
           v == [cell |-> w.cell, pos |-> t.pos + 1,
                 full |-> (RowStart(t.pos + 1) = t.pos + 1), top |-> w.top]
<1>2. print_glyph(s, c) = [Store(n, d) EXCEPT !.x = n.x + 1]
  BY DEF print_glyph
<1>3. Put(t, c) = v
  BY DEF Put
<1> HIDE DEF n, u
<1>4. Match([Store(n, d) EXCEPT !.x = n.x + 1], v)
  BY <1>1, PutCell
<1> HIDE DEF v, d
<1> QED
  BY <1>2, <1>3, <1>4

(* print_char for a carriage return *)
LEMMA ReturnMatch ==
  ASSUME NEW s, NEW t, Match(s, t)
  PROVE  Match([s EXCEPT !.x = 0],
               Go(t, IF t.full THEN t.pos - CGA_NUM_COLS ELSE RowStart(t.pos)))
<1> DEFINE z == [s EXCEPT !.x = 0]
           p == IF t.full THEN t.pos - CGA_NUM_COLS ELSE RowStart(t.pos)
           v == Go(t, p)
<1>1. p = RowAt(t.top + s.y)
  <2>1. CASE s.x = CGA_NUM_COLS
    BY <2>1, MatchTypes
  <2>2. CASE s.x # CGA_NUM_COLS
    <3>1. s.x \in 0..(CGA_NUM_COLS - 1) /\ t.top + s.y \in Nat
      BY <2>2, MatchTypes
    <3>2. RowStart(RowAt(t.top + s.y) + s.x) = RowAt(t.top + s.y)
      BY <3>1, RowStartCell
    <3> QED
      BY <2>2, <3>2, MatchTypes
  <2> QED
    BY <2>1, <2>2
<1> HIDE DEF p
<1>2. p \in Nat
  BY <1>1, MatchTypes
<1>3. IsScreen(s) /\ IsTape(t) /\ Window(s, t)
  BY DEF Match
<1>4. IsTape(v) /\ v.pos = p /\ v.top = t.top /\ v.full = FALSE /\ v.cell = t.cell
  BY <1>2, <1>3, GoTape
<1>5. z = [x |-> 0, y |-> s.y, buf |-> s.buf]
  BY <1>3 DEF IsScreen
<1> HIDE DEF z, v
<1>6. z.x = 0 /\ z.y = s.y /\ z.buf = s.buf
  BY <1>5
<1>7. IsScreen(z)
  BY <1>3, <1>5, <1>6, MatchTypes DEF IsScreen
<1>8. Window(z, v)
  BY <1>3, <1>4, <1>6 DEF Window, CellAt
<1>9. Aligned(z, v)
  BY <1>1, <1>4, <1>6, MatchTypes DEF Aligned
<1>10. Match(z, v)
  BY <1>4, <1>7, <1>8, <1>9 DEF Match
<1> QED
  BY <1>10 DEF z, v, p

(* print_char for a new line *)
LEMMA NewLineMatch ==
  ASSUME NEW s, NEW t, Match(s, t),
         NEW p, p = IF t.full THEN t.pos ELSE RowStart(t.pos) + CGA_NUM_COLS
  PROVE  Match(print_newLine(s), Go(Shows(t, p), p))
<1> DEFINE n == print_newLine(s)
           r == t.top + s.y + 1
           u == Shows(t, RowAt(r))
           v == Go(u, RowAt(r))
<1>1. p = RowAt(r)
  <2>1. CASE s.x = CGA_NUM_COLS
    BY <2>1, MatchTypes, FullPos
  <2>2. CASE s.x # CGA_NUM_COLS
    <3>1. s.x \in 0..(CGA_NUM_COLS - 1) /\ t.top + s.y \in Nat
      BY <2>2, MatchTypes
    <3>2. RowStart(RowAt(t.top + s.y) + s.x) = RowAt(t.top + s.y)
      BY <3>1, RowStartCell
    <3>3. RowAt(r) = RowAt(t.top + s.y) + CGA_NUM_COLS
      BY <3>1, RowNext
    <3> QED
      BY <2>2, <3>2, <3>3, MatchTypes
  <2> QED
    BY <2>1, <2>2
<1>2. RowAt(r) \in Nat
  <2>1. r \in Nat
    BY MatchTypes
  <2> QED
    BY <2>1, RowType
<1>3. IsScreen(s) /\ IsTape(t) /\ Window(s, t)
  BY DEF Match
<1>4. IsScreen(n) /\ n.x = 0 /\ IsTape(u) /\ u.top + n.y = r /\ Window(n, u)
  BY <1>3, NewLine
<1> HIDE DEF n, u, r
<1>5. IsTape(v) /\ v.pos = RowAt(r) /\ v.top = u.top /\ v.full = FALSE /\ v.cell = u.cell
  BY <1>2, <1>4, GoTape
<1> HIDE DEF v
<1>6. Window(n, v)
  BY <1>4, <1>5 DEF Window, CellAt
<1>7. Aligned(n, v)
  BY <1>2, <1>4, <1>5, MatchTypes DEF Aligned
<1>8. Match(n, v)
  BY <1>4, <1>5, <1>6, <1>7 DEF Match
<1> QED
  BY <1>1, <1>8 DEF n, v, u

(* A deletion has nothing to delete exactly at the top of the window. *)
LEMMA AtTop ==
  ASSUME NEW s, NEW t, Match(s, t)
  PROVE  s.x = 0 /\ s.y = 0 <=> t.pos = RowAt(t.top)
<1>1. s.y = 0 => RowAt(s.y) = 0
  BY RowOne
<1>2. s.y # 0 => RowAt(s.y) > 0
  <2> SUFFICES ASSUME s.y # 0 PROVE RowAt(s.y) > 0
    OBVIOUS
  <2>1. 0 \in Nat /\ s.y \in Nat /\ 0 < s.y
    BY MatchTypes
  <2>2. RowAt(0) + CGA_NUM_COLS <= RowAt(s.y)
    BY <2>1, RowBelow
  <2> QED
    BY <2>2, RowOne, MatchTypes
<1> QED
  BY <1>1, <1>2, MatchTypes

(* print_del *)
LEMMA DelMatch ==
  ASSUME NEW s, NEW t, Match(s, t)
  PROVE  Match(print_del(s), IF t.pos = RowAt(t.top) THEN t
                             ELSE Write(Go(t, t.pos - 1), t.pos - 1, "0"))
<1>1. CASE s.x = 0 /\ s.y = 0
  <2>1. print_del(s) = s
    BY <1>1 DEF print_del
  <2> QED
    BY <1>1, <2>1, AtTop
<1>2. CASE ~(s.x = 0 /\ s.y = 0)
  <2> DEFINE b == IF s.x > 0 THEN [s EXCEPT !.x = s.x - 1]
                  ELSE [x |-> CGA_NUM_COLS - 1, y |-> s.y - 1, buf |-> s.buf]
             u == Go(t, t.pos - 1)
             w == Write(u, t.pos - 1, "0")
             z == Store(b, Empty)
  <2>1. print_del(s) = z
    BY <1>2 DEF print_del
  <2>2. IsScreen(s) /\ IsTape(t) /\ Window(s, t)
    BY DEF Match
  <2>3. /\ IsScreen(b) /\ b.x < CGA_NUM_COLS /\ b.buf = s.buf
        /\ t.pos - 1 \in Nat /\ t.pos - 1 = RowAt(t.top + b.y) + b.x
    <3>1. CASE s.x > 0
      <4>1. b = [x |-> s.x - 1, y |-> s.y, buf |-> s.buf]
        BY <3>1, <2>2 DEF IsScreen
      <4> HIDE DEF b
      <4>2. b.x = s.x - 1 /\ b.y = s.y /\ b.buf = s.buf
        BY <4>1
      <4>3. IsScreen(b)
        BY <3>1, <4>1, <4>2, <2>2, MatchTypes DEF IsScreen
      <4> QED
        BY <3>1, <4>2, <4>3, MatchTypes
    <3>2. CASE ~(s.x > 0)
      <4>1. b = [x |-> CGA_NUM_COLS - 1, y |-> s.y - 1, buf |-> s.buf]
        BY <3>2
      <4> HIDE DEF b
      <4>2. b.x = CGA_NUM_COLS - 1 /\ b.y = s.y - 1 /\ b.buf = s.buf
        BY <4>1
      <4>3. s.x = 0 /\ s.y > 0
        BY <1>2, <3>2, MatchTypes
      <4>4. IsScreen(b)
        BY <4>1, <4>2, <4>3, <2>2, MatchTypes DEF IsScreen
      <4>5. t.top + b.y \in Nat /\ t.top + s.y = (t.top + b.y) + 1
        BY <4>2, <4>3, MatchTypes
      <4>6. RowAt(t.top + s.y) = RowAt(t.top + b.y) + CGA_NUM_COLS /\ RowAt(t.top + b.y) \in Nat
        BY <4>5, RowNext, RowType
      <4> QED
        BY <4>2, <4>3, <4>4, <4>6, MatchTypes
    <3> QED
      BY <3>1, <3>2
  <2> HIDE DEF b
  <2>4. /\ IsTape(u) /\ u.pos = t.pos - 1 /\ u.top = t.top /\ u.full = FALSE
        /\ u.cell = t.cell
    BY <2>2, <2>3, GoTape
  <2> HIDE DEF u
  <2>5. Window(b, u)
    BY <2>2, <2>3, <2>4 DEF Window, CellAt
  <2>6. Empty.code = "0"
    BY DEF Empty
  <2>7. Window(z, w)
    <3>1. u.pos = RowAt(u.top + b.y) + b.x
      BY <2>3, <2>4
    <3>2. Window(Store(b, Empty), Write(u, u.pos, Empty.code))
      BY <2>3, <2>4, <2>5, <2>6, <3>1, StoreCell
    <3> QED
      BY <2>4, <2>6, <3>2
  <2>8. IsScreen(z) /\ z.x = b.x /\ z.y = b.y
    BY <2>3, StoreScreen
  <2>9. IsTape(w) /\ w.pos = u.pos /\ w.top = u.top /\ w.full = u.full
    BY <2>4, WriteTape
  <2> HIDE DEF z, w
  <2>10. Aligned(z, w)
    <3>1. ~w.full /\ z.x # CGA_NUM_COLS
      BY <2>3, <2>4, <2>8, <2>9, MatchTypes DEF IsScreen
    <3> QED
      BY <2>3, <2>4, <2>8, <2>9, <3>1 DEF Aligned
  <2>11. Match(z, w)
    BY <2>7, <2>8, <2>9, <2>10 DEF Match
  <2>12. t.pos # RowAt(t.top)
    BY <1>2, AtTop
  <2> QED
    BY <2>1, <2>11, <2>12 DEF u, w
<1> QED
  BY <1>1, <1>2

(* print_char does on the screen what the reference does on the tape. *)
LEMMA CharMatch ==
  ASSUME NEW s, NEW t, Match(s, t), NEW c
  PROVE  Match(print_char(s, c), TapeChar(t, c))
<1>1. CASE c = "TAB"
  <2>1. Match(print_glyph(s, " "), Put(t, " "))
    BY GlyphMatch
  <2>2. Match(print_glyph(print_glyph(s, " "), " "), Put(Put(t, " "), " "))
    BY <2>1, GlyphMatch
  <2>3. Match(print_glyph(print_glyph(print_glyph(s, " "), " "), " "),
              Put(Put(Put(t, " "), " "), " "))
    BY <2>2, GlyphMatch
  <2>4. Match(print_glyph(print_glyph(print_glyph(print_glyph(s, " "), " "), " "), " "),
              Put(Put(Put(Put(t, " "), " "), " "), " "))
    BY <2>3, GlyphMatch
  <2> QED
    BY <1>1, <2>4 DEF print_char, print_tab, TapeChar
<1>2. CASE c = "CR"
  BY <1>2, ReturnMatch DEF print_char, TapeChar
<1>3. CASE c = "LF"
  BY <1>3, NewLineMatch DEF print_char, TapeChar
<1>4. CASE c = "DEL"
  BY <1>4, DelMatch DEF print_char, TapeChar
<1>5. CASE c \notin {"TAB", "CR", "LF", "DEL"}
  BY <1>5, GlyphMatch DEF print_char, TapeChar
<1> QED
  BY <1>1, <1>2, <1>3, <1>4, <1>5

-----------------------------------------------------------------------------
(* Induction over the numbers up to N, for a set of them *)
LEMMA UpTo ==
  ASSUME NEW N \in Nat, NEW S, 0 \in S, \A n \in 0..(N - 1) : n \in S => n + 1 \in S
  PROVE  0..N \subseteq S
<1> DEFINE T == (0..N) \ S
           R == OpToRel(<, Nat)
<1> SUFFICES ASSUME T # {} PROVE FALSE
  OBVIOUS
<1>1. T \subseteq Nat
  OBVIOUS
<1>2. PICK x \in T : \A y \in T : ~(<<y, x>> \in R)
  BY <1>1, NatLessThanWellFounded, WFMin
<1>3. x # 0 /\ x \in Nat /\ x - 1 \in 0..(N - 1)
  OBVIOUS
<1>4. x - 1 \in S
  <2>1. x - 1 < x /\ x - 1 \in Nat
    BY <1>3
  <2>2. <<x - 1, x>> \in R
    BY <1>3, <2>1 DEF OpToRel
  <2>3. x - 1 \notin T
    BY <1>2, <2>2
  <2> QED
    BY <1>3, <2>3
<1>5. (x - 1) + 1 \in S
  BY <1>3, <1>4
<1> QED
  BY <1>3, <1>5

(* print_string, character by character *)
LEMMA PrintedString ==
  ASSUME NEW s, NEW str, Len(str) \in Nat
  PROVE  \E g : /\ g[0] = s
                /\ \A n \in 1..Len(str) : g[n] = print_char(g[n - 1], str[n])
                /\ print_string(s, str) = g[Len(str)]
<1> DEFINE L == Len(str)
           Def(g, m) == g = [n \in 0..m |-> IF n = 0 THEN s ELSE print_char(g[n - 1], str[n])]
           S == {m \in 0..L : \E g : Def(g, m)}
<1>1. 0 \in S
  <2> DEFINE g == [n \in 0..0 |-> s]
  <2>1. Def(g, 0)
    OBVIOUS
  <2> HIDE DEF g, Def
  <2> QED
    BY <2>1
<1>2. ASSUME NEW m \in 0..(L - 1), m \in S PROVE m + 1 \in S
  <2>1. PICK g : Def(g, m)
    BY <1>2
  <2> DEFINE h == [n \in 0..(m + 1) |-> IF n <= m THEN g[n] ELSE print_char(g[m], str[m + 1])]
  <2>2. ASSUME NEW n \in 0..(m + 1)
        PROVE  h[n] = IF n = 0 THEN s ELSE print_char(h[n - 1], str[n])
    <3>1. CASE n <= m
      <4>1. h[n] = g[n] /\ (n # 0 => h[n - 1] = g[n - 1])
        BY <3>1
      <4>2. g[n] = IF n = 0 THEN s ELSE print_char(g[n - 1], str[n])
        BY <3>1, <2>1
      <4> QED
        BY <4>1, <4>2
    <3>2. CASE n = m + 1
      <4>1. h[n] = print_char(g[m], str[m + 1]) /\ h[n - 1] = g[m] /\ n # 0
        BY <3>2
      <4> QED
        BY <3>2, <4>1
    <3> QED
      BY <3>1, <3>2
  <2>3. h = [n \in 0..(m + 1) |-> IF n = 0 THEN s ELSE print_char(h[n - 1], str[n])]
    BY <2>2
  <2>4. Def(h, m + 1)
    BY <2>3
  <2> HIDE DEF h, Def
  <2>5. m + 1 \in 0..L
    OBVIOUS
  <2> QED
    BY <2>4, <2>5
<1>3. \E g : Def(g, L)
  <2> HIDE DEF S
  <2>1. 0..L \subseteq S
    BY <1>1, <1>2, UpTo
  <2> HIDE DEF Def
  <2> QED
    BY <2>1 DEF S
<1> DEFINE printed == CHOOSE printed : Def(printed, L)
<1>4. Def(printed, L)
  <2> HIDE DEF Def
  <2> QED
    BY <1>3
<1>5. print_string(s, str) = printed[L]
  BY DEF print_string
<1> HIDE DEF printed
<1>6. printed[0] = s /\ \A n \in 1..L : printed[n] = print_char(printed[n - 1], str[n])
  BY <1>4
<1> QED
  BY <1>5, <1>6

(* The reference, character by character *)
LEMMA AlongTape ==
  ASSUME NEW t, NEW str, Len(str) \in Nat
  PROVE  \E g : /\ g[0] = t
                /\ \A n \in 1..Len(str) : g[n] = TapeChar(g[n - 1], str[n])
                /\ TapeString(t, str) = g[Len(str)]
<1> DEFINE L == Len(str)
           Def(g, m) == g = [n \in 0..m |-> IF n = 0 THEN t ELSE TapeChar(g[n - 1], str[n])]
           S == {m \in 0..L : \E g : Def(g, m)}
<1>1. 0 \in S
  <2> DEFINE g == [n \in 0..0 |-> t]
  <2>1. Def(g, 0)
    OBVIOUS
  <2> HIDE DEF g, Def
  <2> QED
    BY <2>1
<1>2. ASSUME NEW m \in 0..(L - 1), m \in S PROVE m + 1 \in S
  <2>1. PICK g : Def(g, m)
    BY <1>2
  <2> DEFINE h == [n \in 0..(m + 1) |-> IF n <= m THEN g[n] ELSE TapeChar(g[m], str[m + 1])]
  <2>2. ASSUME NEW n \in 0..(m + 1)
        PROVE  h[n] = IF n = 0 THEN t ELSE TapeChar(h[n - 1], str[n])
    <3>1. CASE n <= m
      <4>1. h[n] = g[n] /\ (n # 0 => h[n - 1] = g[n - 1])
        BY <3>1
      <4>2. g[n] = IF n = 0 THEN t ELSE TapeChar(g[n - 1], str[n])
        BY <3>1, <2>1
      <4> QED
        BY <4>1, <4>2
    <3>2. CASE n = m + 1
      <4>1. h[n] = TapeChar(g[m], str[m + 1]) /\ h[n - 1] = g[m] /\ n # 0
        BY <3>2
      <4> QED
        BY <3>2, <4>1
    <3> QED
      BY <3>1, <3>2
  <2>3. h = [n \in 0..(m + 1) |-> IF n = 0 THEN t ELSE TapeChar(h[n - 1], str[n])]
    BY <2>2
  <2>4. Def(h, m + 1)
    BY <2>3
  <2> HIDE DEF h, Def
  <2>5. m + 1 \in 0..L
    OBVIOUS
  <2> QED
    BY <2>4, <2>5
<1>3. \E g : Def(g, L)
  <2> HIDE DEF S
  <2>1. 0..L \subseteq S
    BY <1>1, <1>2, UpTo
  <2> HIDE DEF Def
  <2> QED
    BY <2>1 DEF S
<1> DEFINE along == CHOOSE along : Def(along, L)
<1>4. Def(along, L)
  <2> HIDE DEF Def
  <2> QED
    BY <1>3
<1>5. TapeString(t, str) = along[L]
  BY DEF TapeString
<1> HIDE DEF along
<1>6. along[0] = t /\ \A n \in 1..L : along[n] = TapeChar(along[n - 1], str[n])
  BY <1>4
<1> QED
  BY <1>5, <1>6

(* print_string does on the screen what the reference does on the tape. *)
LEMMA StringMatch ==
  ASSUME NEW s, NEW t, Match(s, t), NEW str, Len(str) \in Nat
  PROVE  Match(print_string(s, str), TapeString(t, str))
<1> DEFINE L == Len(str)
<1>1. PICK g : /\ g[0] = s /\ \A n \in 1..L : g[n] = print_char(g[n - 1], str[n])
               /\ print_string(s, str) = g[L]
  BY PrintedString
<1>2. PICK h : /\ h[0] = t /\ \A n \in 1..L : h[n] = TapeChar(h[n - 1], str[n])
               /\ TapeString(t, str) = h[L]
  BY AlongTape
<1> DEFINE S == {n \in 0..L : Match(g[n], h[n])}
<1>3. 0 \in S
  BY <1>1, <1>2
<1>4. ASSUME NEW n \in 0..(L - 1), n \in S PROVE n + 1 \in S
  <2>1. n + 1 \in 1..L /\ n + 1 \in 0..L /\ (n + 1) - 1 = n
    OBVIOUS
  <2>2. g[n + 1] = print_char(g[n], str[n + 1]) /\ h[n + 1] = TapeChar(h[n], str[n + 1])
    BY <1>1, <1>2, <2>1
  <2>3. Match(g[n + 1], h[n + 1])
    BY <1>4, <2>2, CharMatch
  <2> QED
    BY <2>1, <2>3
<1>5. L \in S
  <2> HIDE DEF S
  <2>1. 0..L \subseteq S
    BY <1>3, <1>4, UpTo
  <2> QED
    BY <2>1
<1> QED
  BY <1>1, <1>2, <1>5

-----------------------------------------------------------------------------
(* The cells typed since another operation that are still in the window are the last *)
(* ones before the position.                                                         *)
EnteredInv ==
  /\ entered \in Seq(Nat)
  /\ \A k \in 1..Len(entered) :
       entered[k] >= RowAt(tape.top) => tape.pos - entered[k] = Len(entered) - k + 1

(* The screen is the window of the tape, its cursor at the tape's position; before set_con *)
(* there is nothing on the tape.                                                           *)
ScreenInv ==
  /\ IsScreen(screen) /\ IsTape(tape) /\ Aligned(screen, tape)
  /\ ops > 0 => Window(screen, tape)
  /\ ops = 0 => tape = BlankTape /\ entered = <<>>
  /\ hwcursor = At(screen)
  /\ cursor = [x |-> cursor.x, y |-> cursor.y]

ConInv == ops \in Nat /\ char_color \in {"white", "yellow"} /\ ScreenInv /\ EnteredInv

(* An operation that ends with the screen z and the tape v *)
LEMMA MoveCursor ==
  ASSUME NEW z, NEW v, Match(z, v), move_cursor(z), tape' = v, char_color' = char_color,
         ops' \in Nat, ops' # 0
  PROVE  ScreenInv' /\ screen' = z
<1>1. screen' = [x |-> z.x, y |-> z.y, buf |-> z.buf]
  BY DEF move_cursor, screen
<1>2. screen' = z
  BY <1>1 DEF Match, IsScreen
<1>3. hwcursor' = At(screen')
  BY <1>2 DEF move_cursor
<1>6. cursor' = [x |-> cursor'.x, y |-> cursor'.y]
  BY DEF move_cursor
<1> HIDE DEF move_cursor
<1>4. IsScreen(screen)' /\ IsTape(tape)' /\ Aligned(screen, tape)'
  BY <1>2 DEF Match, IsScreen, IsTape, Aligned
<1>5. Window(screen, tape)'
  BY <1>2 DEF Match, Window
<1> QED
  BY <1>2, <1>3, <1>4, <1>5, <1>6 DEF ScreenInv, At

(* Once set_con has run the screen shows the tape. *)
LEMMA MatchNow ==
  ASSUME ConInv, ops # 0
  PROVE  Match(screen, tape)
BY DEF ConInv, ScreenInv, Match

(* The screen after a clearing is the window of a blank tape. *)
LEMMA ClearedMatch ==
  /\ IsScreen(Cleared) /\ IsTape(BlankTape) /\ Aligned(Cleared, BlankTape)
  /\ \A i \in Cells : Cleared.buf[i].code = "0"
  /\ \A p : CellAt(BlankTape, p) = "0"
<1>1. CGA_NUM_COLS \in Nat \ {0} /\ CGA_NUM_ROWS \in Nat /\ CGA_NUM_ROWS > 1
  BY ScreenSize
<1>2. Cleared.x = 0 /\ Cleared.y = 0 /\ Cleared.buf = [i \in Cells |-> Empty]
  BY DEF Cleared
<1>3. IsScreen(Cleared)
  BY <1>1 DEF Cleared, IsScreen
<1>4. IsTape(BlankTape)
  BY DEF BlankTape, IsTape
<1>5. BlankTape.pos = 0 /\ BlankTape.top = 0 /\ ~BlankTape.full /\ BlankTape.cell = <<>>
  BY DEF BlankTape
<1>6. Aligned(Cleared, BlankTape)
  BY <1>1, <1>2, <1>5, RowOne DEF Aligned
<1>7. \A i \in Cells : Cleared.buf[i].code = "0"
  BY <1>2 DEF Empty
<1>8. \A p : CellAt(BlankTape, p) = "0"
  BY <1>5 DEF CellAt
<1> QED
  BY <1>3, <1>4, <1>6, <1>7, <1>8

(* Nothing typed is left to delete after any other operation. *)
LEMMA EnteredEmpty ==
  ASSUME entered' = <<>>
  PROVE  EnteredInv'
BY DEF EnteredInv

(* Every operation but set_con comes after it and keeps the color. *)
LEMMA OpFacts ==
  ASSUME ConInv, Op
  PROVE  ops # 0 /\ ops' \in Nat /\ ops' # 0 /\ char_color' = char_color
BY DEF ConInv, Op

(* The invariant at the start *)
LEMMA ConInitInv == ConInit => ConInv
<1> SUFFICES ASSUME ConInit PROVE ConInv
  OBVIOUS
<1>1. CGA_NUM_COLS \in Nat \ {0} /\ CGA_NUM_ROWS \in Nat /\ CGA_NUM_ROWS > 1
  BY ScreenSize
<1>2. screen = [x |-> 0, y |-> 0, buf |-> cga_buffer]
  BY DEF screen, ConInit
<1>3. screen.x = 0 /\ screen.y = 0 /\ screen.buf = cga_buffer
  BY <1>2
<1>4. cga_buffer = [i \in Cells |-> cga_buffer[i]]
  BY DEF ConInit
<1>5. IsScreen(screen)
  BY <1>1, <1>2, <1>3, <1>4 DEF IsScreen
<1>6. tape = BlankTape /\ IsTape(tape)
  BY ClearedMatch DEF ConInit
<1>7. BlankTape.pos = 0 /\ BlankTape.top = 0 /\ ~BlankTape.full
  BY DEF BlankTape
<1>8. Aligned(screen, tape)
  BY <1>1, <1>3, <1>6, <1>7, RowOne DEF Aligned
<1>9. hwcursor = At(screen)
  BY <1>3, RowOne DEF ConInit, At
<1>10. cursor = [x |-> cursor.x, y |-> cursor.y]
  BY DEF ConInit
<1> QED
  BY <1>5, <1>6, <1>8, <1>9, <1>10 DEF ConInit, ConInv, ScreenInv, EnteredInv

(* con_string *)
LEMMA StringStep ==
  ASSUME ConInv, NEW str \in Strings, con_string(str)
  PROVE  ConInv'
<1>1. Op /\ move_cursor(print_string(screen, str)) /\ tape' = TapeString(tape, str)
      /\ entered' = <<>>
  BY DEF con_string
<1>2. ops # 0 /\ ops' \in Nat /\ ops' # 0 /\ char_color' = char_color
  BY <1>1, OpFacts
<1>3. Match(print_string(screen, str), TapeString(tape, str))
  BY <1>2, MatchNow, StringMatch, ScreenAssumption
<1>4. ScreenInv'
  BY <1>1, <1>2, <1>3, MoveCursor
<1> QED
  BY <1>1, <1>2, <1>4, EnteredEmpty DEF ConInv

(* con_xy: a place on the screen is that place of the window. *)
LEMMA PlaceStep ==
  ASSUME ConInv, NEW cx \in Nat, NEW cy \in Nat, con_xy(cx, cy)
  PROVE  ConInv'
<1> DEFINE out == cx >= CGA_NUM_COLS \/ cy >= CGA_NUM_ROWS
           q == [x |-> cx, y |-> cy, buf |-> cga_buffer]
           p == RowAt(tape.top + cy) + cx
           v == Go(tape, p)
<1>1. /\ Op /\ entered' = <<>>
      /\ move_cursor(IF out THEN screen ELSE q)
      /\ tape' = IF out THEN tape ELSE v
  BY DEF con_xy
<1>2. ops # 0 /\ ops' \in Nat /\ ops' # 0 /\ char_color' = char_color
  BY <1>1, OpFacts
<1>3. Match(screen, tape)
  BY <1>2, MatchNow
<1>4. CASE out
  <2>1. move_cursor(screen) /\ tape' = tape
    BY <1>1, <1>4
  <2>2. ScreenInv'
    BY <1>2, <1>3, <2>1, MoveCursor
  <2> QED
    BY <1>1, <1>2, <2>2, EnteredEmpty DEF ConInv
<1>5. CASE ~out
  <2>1. move_cursor(q) /\ tape' = v
    BY <1>1, <1>5
  <2>2. IsScreen(screen) /\ IsTape(tape) /\ Window(screen, tape)
    BY <1>3 DEF Match
  <2>3. q = [x |-> cx, y |-> cy, buf |-> screen.buf]
    BY DEF screen
  <2>4. /\ CGA_NUM_COLS \in Nat /\ CGA_NUM_ROWS \in Nat /\ tape.top + cy \in Nat
        /\ RowAt(tape.top + cy) \in Nat /\ p \in Nat
    <3>1. tape.top + cy \in Nat /\ CGA_NUM_COLS \in Nat /\ CGA_NUM_ROWS \in Nat
      BY <2>2, ScreenSize DEF IsTape
    <3> QED
      BY <3>1, RowType
  <2> HIDE DEF p
  <2>5. IsTape(v) /\ v.pos = p /\ v.top = tape.top /\ v.full = FALSE /\ v.cell = tape.cell
    BY <2>2, <2>4, GoTape
  <2> HIDE DEF q, v
  <2>6. q.x = cx /\ q.y = cy /\ q.buf = screen.buf
    BY <2>3
  <2>7. IsScreen(q)
    BY <1>5, <2>2, <2>3, <2>4, <2>6 DEF IsScreen
  <2>8. Window(q, v)
    BY <2>2, <2>5, <2>6 DEF Window, CellAt
  <2>9. Aligned(q, v)
    <3>1. ~v.full /\ q.x # CGA_NUM_COLS
      BY <1>5, <2>4, <2>5, <2>6
    <3> QED
      BY <2>5, <2>6, <3>1 DEF Aligned, p
  <2>10. Match(q, v)
    BY <2>5, <2>7, <2>8, <2>9 DEF Match
  <2>11. ScreenInv'
    BY <1>2, <2>1, <2>10, MoveCursor
  <2> QED
    BY <1>1, <1>2, <2>11, EnteredEmpty DEF ConInv
<1> QED
  BY <1>4, <1>5

(* con_clear *)
LEMMA ClearStep ==
  ASSUME ConInv, con_clear
  PROVE  ConInv'
<1>1. Op /\ move_cursor(Cleared) /\ tape' = BlankTape /\ entered' = <<>>
  BY DEF con_clear
<1>2. ops # 0 /\ ops' \in Nat /\ ops' # 0 /\ char_color' = char_color
  BY <1>1, OpFacts
<1>3. Match(Cleared, BlankTape)
  BY ClearedMatch DEF Match, Window
<1>4. ScreenInv'
  BY <1>1, <1>2, <1>3, MoveCursor
<1> QED
  BY <1>1, <1>2, <1>4, EnteredEmpty DEF ConInv

(* set_con: whatever the firmware left is gone, in the old color. *)
LEMMA SetStep ==
  ASSUME ConInv, set_con
  PROVE  ConInv'
<1>1. /\ ops = 0 /\ ops' = 1 /\ move_cursor(Cleared) /\ char_color' = "yellow"
      /\ tape' = tape /\ entered' = entered
  BY DEF set_con
<1>2. tape' = BlankTape /\ entered' = <<>>
  BY <1>1 DEF ConInv, ScreenInv
<1>3. screen' = [x |-> Cleared.x, y |-> Cleared.y, buf |-> Cleared.buf]
  BY <1>1 DEF move_cursor, screen
<1>4. screen' = Cleared
  BY <1>3, ClearedMatch DEF IsScreen
<1>5. hwcursor' = At(screen')
  BY <1>1, <1>4 DEF move_cursor
<1>6. IsScreen(screen)' /\ IsTape(tape)' /\ Aligned(screen, tape)'
  BY <1>2, <1>4, ClearedMatch DEF IsScreen, IsTape, Aligned
<1>7. Window(screen, tape)'
  BY <1>2, <1>4, ClearedMatch DEF Window
<1>8. cursor' = [x |-> cursor'.x, y |-> cursor'.y]
  BY <1>1 DEF move_cursor
<1>9. ScreenInv'
  BY <1>1, <1>5, <1>6, <1>7, <1>8 DEF ScreenInv, At
<1> QED
  BY <1>1, <1>2, <1>9, EnteredEmpty DEF ConInv

(* Where typing a glyph takes the tape *)
LEMMA PutMoves ==
  ASSUME NEW s, NEW t, Match(s, t), NEW c
  PROVE  Put(t, c).pos = t.pos + 1 /\ Put(t, c).top >= t.top /\ Put(t, c).top \in Nat
<1> DEFINE u == Shows(t, t.pos)
           top == IF RowOf(t.pos) >= t.top + CGA_NUM_ROWS THEN RowOf(t.pos) - CGA_NUM_ROWS + 1
                  ELSE t.top
<1>1. RowOf(t.pos) \in Nat
  BY MatchTypes DEF RowOf
<1>2. IsTape(t)
  BY DEF Match
<1>3. u = [cell |-> t.cell, pos |-> t.pos, full |-> t.full, top |-> top]
  BY <1>2 DEF Shows, IsTape
<1>4. top \in Nat /\ top >= t.top
  BY <1>1, MatchTypes
<1> HIDE DEF top, u
<1>5. IsTape(u) /\ u.top = top
  BY <1>3, <1>4, MatchTypes DEF IsTape
<1>6. Write(u, t.pos, c).top = top
  BY <1>5, WriteTape
<1>7. Put(t, c).pos = t.pos + 1 /\ Put(t, c).top = Write(u, t.pos, c).top
  BY DEF Put, u
<1> QED
  BY <1>4, <1>6, <1>7

(* con_char for a glyph: the cell typed is the last one before the position. *)
LEMMA GlyphStep ==
  ASSUME ConInv, NEW c, c \notin {"TAB", "CR", "LF", "DEL"}, con_char(c)
  PROVE  ConInv'
<1>1. /\ Op /\ move_cursor(print_char(screen, c)) /\ tape' = TapeChar(tape, c)
      /\ entered' = Append(entered, tape.pos)
  BY DEF con_char
<1>2. ops # 0 /\ ops' \in Nat /\ ops' # 0 /\ char_color' = char_color
  BY <1>1, OpFacts
<1>3. Match(screen, tape)
  BY <1>2, MatchNow
<1>4. Match(print_char(screen, c), TapeChar(tape, c))
  BY <1>3, CharMatch
<1>5. ScreenInv'
  BY <1>1, <1>2, <1>4, MoveCursor
<1>6. tape' = Put(tape, c)
  BY <1>1 DEF TapeChar
<1>7. /\ tape'.pos = tape.pos + 1 /\ tape'.top >= tape.top /\ tape'.top \in Nat
      /\ tape.pos \in Nat /\ tape.top \in Nat
  BY <1>3, <1>6, PutMoves, MatchTypes
<1>8. RowAt(tape.top) \in Nat /\ RowAt(tape'.top) \in Nat /\ RowAt(tape'.top) >= RowAt(tape.top)
  <2>1. RowAt(tape.top) \in Nat /\ RowAt(tape'.top) \in Nat
    BY <1>7, RowType
  <2>2. tape.top < tape'.top => RowAt(tape.top) + CGA_NUM_COLS <= RowAt(tape'.top)
    BY <1>7, RowBelow
  <2> QED
    BY <1>7, <2>1, <2>2, ScreenSize
<1>9. entered \in Seq(Nat) /\ entered' \in Seq(Nat) /\ Len(entered') = Len(entered) + 1
  BY <1>1, <1>7 DEF ConInv, EnteredInv
<1>10. ASSUME NEW k \in 1..Len(entered'), entered'[k] >= RowAt(tape'.top)
       PROVE  tape'.pos - entered'[k] = Len(entered') - k + 1
  <2>1. CASE k = Len(entered) + 1
    <3>1. entered'[k] = tape.pos
      <4>1. Append(entered, tape.pos)[Len(entered) + 1] = tape.pos
        BY <1>7, <1>9, AppendProperties
      <4> QED
        BY <1>1, <2>1, <4>1
    <3> QED
      BY <1>7, <1>9, <2>1, <3>1
  <2>2. CASE k # Len(entered) + 1
    <3>1. k \in 1..Len(entered)
      BY <1>9, <2>2
    <3>2. entered'[k] = entered[k] /\ entered[k] \in Nat
      <4>1. Append(entered, tape.pos)[k] = entered[k]
        BY <1>7, <1>9, <3>1, AppendProperties
      <4> QED
        BY <1>1, <1>9, <3>1, <4>1
    <3>3. entered[k] >= RowAt(tape.top)
      BY <1>8, <1>10, <3>2
    <3>4. tape.pos - entered[k] = Len(entered) - k + 1
      BY <3>1, <3>3 DEF ConInv, EnteredInv
    <3>5. Len(entered) \in Nat /\ k \in Nat
      BY <1>9, <3>1
    <3>6. (tape.pos + 1) - entered[k] = (Len(entered) + 1) - k + 1
      BY <1>7, <3>2, <3>4, <3>5
    <3> QED
      BY <1>7, <1>9, <3>2, <3>6
  <2> QED
    BY <2>1, <2>2
<1>11. EnteredInv'
  BY <1>9, <1>10 DEF EnteredInv
<1> QED
  BY <1>2, <1>5, <1>11 DEF ConInv

(* Where a deletion takes the tape *)
LEMMA DelMoves ==
  ASSUME NEW s, NEW t, Match(s, t)
  PROVE  LET v == TapeChar(t, "DEL") IN
           /\ v.top = t.top
           /\ t.pos = RowAt(t.top) => v = t
           /\ t.pos # RowAt(t.top) =>
                /\ t.pos > RowAt(t.top) /\ v.pos = t.pos - 1
                /\ CellAt(v, t.pos - 1) = "0"
<1> DEFINE v == TapeChar(t, "DEL")
<1>1. v = IF t.pos = RowAt(t.top) THEN t ELSE Write(Go(t, t.pos - 1), t.pos - 1, "0")
  BY DEF TapeChar
<1>2. CASE t.pos = RowAt(t.top)
  BY <1>1, <1>2
<1>3. CASE t.pos # RowAt(t.top)
  <2>1. t.pos > RowAt(t.top) /\ t.pos - 1 \in Nat
    <3>1. /\ t.pos = (RowAt(t.top) + RowAt(s.y)) + s.x /\ s.x \in Nat
          /\ RowAt(t.top) \in Nat /\ RowAt(s.y) \in Nat
      BY MatchTypes
    <3> QED
      BY <1>3, <3>1
  <2> DEFINE u == Go(t, t.pos - 1)
             w == Write(u, t.pos - 1, "0")
  <2>2. IsTape(t)
    BY DEF Match
  <2>3. IsTape(u) /\ u.pos = t.pos - 1 /\ u.top = t.top
    BY <2>1, <2>2, GoTape
  <2> HIDE DEF u
  <2>4. w.pos = u.pos /\ w.top = u.top /\ CellAt(w, t.pos - 1) = "0"
    BY <2>3, WriteTape
  <2>5. v = w
    BY <1>1, <1>3 DEF u
  <2> HIDE DEF v, w
  <2> QED
    BY <1>3, <2>1, <2>3, <2>4, <2>5 DEF v
<1> QED
  BY <1>2, <1>3

(* A deletion takes away the cell typed last. *)
LEMMA FrontCells ==
  ASSUME NEW e \in Seq(Nat), e # <<>>
  PROVE  LET f == SubSeq(e, 1, Len(e) - 1) IN
           /\ f \in Seq(Nat) /\ Len(f) = Len(e) - 1 /\ Len(e) \in Nat \ {0}
           /\ \A k \in 1..Len(f) : f[k] = e[k] /\ e[k] \in Nat
<1>1. Len(e) \in Nat \ {0} /\ \A k \in 1..(Len(e) - 1) : e[k] \in Nat
  BY EmptySeq
<1>2. 1 \in Int /\ Len(e) - 1 \in Int
  BY <1>1
<1> DEFINE n == Len(e) - 1
           f == SubSeq(e, 1, n)
<1> HIDE DEF n
<1>3. /\ f \in Seq(Nat) /\ Len(f) = IF 1 <= n THEN n - 1 + 1 ELSE 0
      /\ \A k \in 1..(n - 1 + 1) : f[k] = e[1 + k - 1]
  BY <1>1, <1>2, SubSeqProperties DEF n
<1>4. n \in Nat
  BY <1>1 DEF n
<1> HIDE DEF f
<1>5. Len(f) = n
  BY <1>3, <1>4
<1>6. ASSUME NEW k \in 1..Len(f) PROVE f[k] = e[k] /\ e[k] \in Nat
  <2>1. k \in 1..(n - 1 + 1) /\ 1 + k - 1 = k
    BY <1>4, <1>5
  <2> QED
    BY <1>1, <1>3, <1>4, <2>1 DEF n
<1> QED
  BY <1>1, <1>3, <1>5, <1>6 DEF f, n

(* A deletion, and what it erases *)
LEMMA DelStep ==
  ASSUME ConInv, con_char("DEL")
  PROVE  /\ ConInv'
         /\ entered # <<>> /\ entered[Len(entered)] >= RowAt(tape.top)
              => LET i == entered[Len(entered)] - RowAt(tape.top)
                 IN  hwcursor' = i /\ cga_buffer'[i].code = "0"
<1>1. /\ Op /\ move_cursor(print_char(screen, "DEL")) /\ tape' = TapeChar(tape, "DEL")
      /\ entered' = IF entered = <<>> THEN entered ELSE SubSeq(entered, 1, Len(entered) - 1)
  BY DEF con_char
<1>2. ops # 0 /\ ops' \in Nat /\ ops' # 0 /\ char_color' = char_color
  BY <1>1, OpFacts
<1>3. Match(screen, tape)
  BY <1>2, MatchNow
<1>4. Match(print_char(screen, "DEL"), TapeChar(tape, "DEL"))
  BY <1>3, CharMatch
<1>5. ScreenInv' /\ screen' = print_char(screen, "DEL")
  BY <1>1, <1>2, <1>4, MoveCursor
<1>6. /\ tape'.top = tape.top
      /\ tape.pos = RowAt(tape.top) => tape' = tape
      /\ tape.pos # RowAt(tape.top) =>
           /\ tape.pos > RowAt(tape.top) /\ tape'.pos = tape.pos - 1
           /\ CellAt(tape', tape.pos - 1) = "0"
  BY <1>1, <1>3, DelMoves
<1>7. tape.pos \in Nat /\ RowAt(tape.top) \in Nat
  BY <1>3, MatchTypes
<1>8. /\ entered \in Seq(Nat)
      /\ \A k \in 1..Len(entered) :
           entered[k] >= RowAt(tape.top) => tape.pos - entered[k] = Len(entered) - k + 1
  BY DEF ConInv, EnteredInv
<1>9. CASE entered = <<>>
  <2>1. entered' = <<>>
    BY <1>1, <1>9
  <2> QED
    BY <1>2, <1>5, <1>9, <2>1, EnteredEmpty DEF ConInv
<1>10. CASE entered # <<>>
  <2> DEFINE L == Len(entered)
  <2>1. entered' = SubSeq(entered, 1, L - 1)
    BY <1>1, <1>10
  <2>2. /\ entered' \in Seq(Nat) /\ Len(entered') = L - 1 /\ L \in Nat \ {0}
        /\ \A k \in 1..Len(entered') : entered'[k] = entered[k] /\ entered[k] \in Nat
    BY <1>8, <1>10, <2>1, FrontCells
  <2>3. ASSUME NEW k \in 1..Len(entered'), entered'[k] >= RowAt(tape'.top)
        PROVE  tape'.pos - entered'[k] = Len(entered') - k + 1
    <3>1. k \in 1..L /\ entered'[k] = entered[k] /\ entered[k] \in Nat
      BY <2>2
    <3>2. tape.pos - entered[k] = L - k + 1
      BY <1>6, <1>8, <2>3, <3>1
    <3>3. tape.pos # RowAt(tape.top)
      <4>1. entered[k] >= RowAt(tape.top)
        BY <1>6, <2>3, <3>1
      <4>2. L - k + 1 > 0
        BY <2>2, <3>1
      <4> QED
        BY <1>7, <3>1, <3>2, <4>1, <4>2
    <3>4. tape'.pos = tape.pos - 1
      BY <1>6, <3>3
    <3>5. tape'.pos - entered'[k] = (L - k + 1) - 1
      BY <1>7, <3>1, <3>2, <3>4
    <3>6. L \in Nat /\ k \in Nat /\ Len(entered') = L - 1
      BY <2>2, <3>1
    <3> HIDE DEF L
    <3> QED
      BY <3>5, <3>6
  <2>4. EnteredInv'
    BY <2>2, <2>3 DEF EnteredInv
  <2>5. ASSUME entered[L] >= RowAt(tape.top)
        PROVE  LET i == entered[L] - RowAt(tape.top)
               IN  hwcursor' = i /\ cga_buffer'[i].code = "0"
    <3>1. entered[L] \in Nat /\ L \in 1..L
      <4>1. L \in 1..L
        BY <2>2
      <4> QED
        BY <1>8, <4>1
    <3>2. tape.pos - entered[L] = 1
      <4>1. tape.pos - entered[L] = L - L + 1
        BY <1>8, <2>5, <3>1
      <4> HIDE DEF L
      <4> QED
        BY <2>2, <4>1
    <3>3. entered[L] = tape.pos - 1 /\ tape.pos # RowAt(tape.top)
      BY <1>7, <2>5, <3>1, <3>2
    <3>4. tape'.pos = entered[L] /\ CellAt(tape', entered[L]) = "0"
      BY <1>6, <3>3
    <3> DEFINE z == screen'
               i == entered[L] - RowAt(tape.top)
    <3>5. /\ hwcursor' = At(z) /\ z.x \in Nat /\ z.y \in Nat
          /\ tape'.pos = RowAt(tape'.top + z.y) + z.x
      BY <1>5, ScreenSize DEF ScreenInv, At, IsScreen, Aligned
    <3> HIDE DEF z
    <3>6. tape.top \in Nat
      BY <1>3, MatchTypes
    <3>7. /\ RowAt(tape.top + z.y) = RowAt(tape.top) + RowAt(z.y)
          /\ RowAt(z.y) \in Nat
      BY <3>5, <3>6, RowSum, RowType
    <3>8. hwcursor' = i
      BY <1>6, <1>7, <3>1, <3>4, <3>5, <3>7 DEF At
    <3>9. i \in Cells /\ i + RowAt(tape'.top) = entered[L]
      <4>1. i \in Nat /\ i + RowAt(tape'.top) = entered[L]
        BY <1>6, <1>7, <2>5, <3>1
      <4>2. tape.pos <= RowAt(tape.top) + RowAt(CGA_NUM_ROWS) /\ RowAt(CGA_NUM_ROWS) \in Nat
        <5>1. /\ screen.y \in Nat /\ screen.y < CGA_NUM_ROWS /\ CGA_NUM_ROWS \in Nat
              /\ screen.x \in Nat /\ screen.x <= CGA_NUM_COLS
          BY <1>3, MatchTypes
        <5>2. RowAt(screen.y) + CGA_NUM_COLS <= RowAt(CGA_NUM_ROWS)
          BY <5>1, RowBelow
        <5>3. /\ tape.pos = RowAt(tape.top) + RowAt(screen.y) + screen.x
              /\ RowAt(screen.y) \in Nat /\ CGA_NUM_COLS \in Nat
          BY <1>3, MatchTypes
        <5>4. RowAt(CGA_NUM_ROWS) \in Nat
          BY <5>1, RowType
        <5> QED
          BY <1>7, <5>1, <5>2, <5>3, <5>4
      <4> QED
        BY <1>7, <3>1, <3>3, <4>1, <4>2 DEF Cells
    <3>10. screen'.buf = cga_buffer'
      BY DEF screen
    <3>11. cga_buffer'[i].code = CellAt(tape', i + RowAt(tape'.top))
      <4>1. ops' > 0
        BY <1>2
      <4>2. Window(screen, tape)'
        BY <1>5, <4>1 DEF ScreenInv
      <4> HIDE DEF i
      <4> QED
        BY <3>9, <3>10, <4>2 DEF Window
    <3> HIDE DEF i
    <3>12. cga_buffer'[i].code = "0"
      BY <3>4, <3>9, <3>11
    <3> QED
      BY <3>8, <3>12 DEF i
  <2> QED
    BY <1>2, <1>5, <2>4, <2>5 DEF ConInv
<1> QED
  BY <1>9, <1>10

(* Every console operation keeps the invariant. *)
LEMMA ConNextInv == ConInv /\ [ConNext]_convars => ConInv'
<1> SUFFICES ASSUME ConInv, [ConNext]_convars PROVE ConInv'
  OBVIOUS
<1>1. CASE set_con
  BY <1>1, SetStep
<1>2. CASE con_clear
  BY <1>2, ClearStep
<1>3. ASSUME NEW str \in Strings, con_string(str) PROVE ConInv'
  BY <1>3, StringStep
<1>4. ASSUME NEW c \in {"a", "DEL"}, con_char(c) PROVE ConInv'
  BY <1>4, GlyphStep, DelStep
<1>5. ASSUME NEW p \in Places, con_xy(p[1], p[2]) PROVE ConInv'
  <2>1. p[1] \in Nat /\ p[2] \in Nat
    BY ScreenAssumption
  <2> QED
    BY <1>5, <2>1, PlaceStep
<1>6. CASE UNCHANGED convars
  <2>1. /\ cursor' = cursor /\ cga_buffer' = cga_buffer /\ char_color' = char_color
        /\ hwcursor' = hwcursor /\ tape' = tape /\ entered' = entered /\ ops' = ops
    BY <1>6 DEF convars
  <2>2. screen' = screen
    BY <2>1 DEF screen
  <2>3. ScreenInv'
    BY <2>1, <2>2 DEF ConInv, ScreenInv, IsScreen, IsTape, Aligned, Window, At
  <2>4. EnteredInv'
    BY <2>1 DEF ConInv, EnteredInv
  <2> QED
    BY <2>1, <2>3, <2>4 DEF ConInv
<1> QED
  BY <1>1, <1>2, <1>3, <1>4, <1>5, <1>6 DEF ConNext

(* The invariant of the console *)
LEMMA ConSpecInv == ConSpec => []ConInv
BY ConInitInv, ConNextInv, PTL DEF ConSpec

(* For every size of the screen and all strings and places the cursor stays on the screen, or *)
(* just after a full row, and nothing is stored outside the buffer.                           *)
THEOREM ConTypeCorrect == ConSpec => []ConTypeOK
<1>1. ConInv => ConTypeOK
  <2> SUFFICES ASSUME ConInv PROVE ConTypeOK
    OBVIOUS
  <2>1. screen.x = cursor.x /\ screen.y = cursor.y /\ screen.buf = cga_buffer
    BY DEF screen
  <2>2. screen.x \in 0..CGA_NUM_COLS /\ screen.y \in 0..(CGA_NUM_ROWS - 1)
        /\ cga_buffer = [i \in Cells |-> cga_buffer[i]]
    BY <2>1 DEF ConInv, ScreenInv, IsScreen
  <2>3. hwcursor = screen.x + RowAt(screen.y)
    BY DEF ConInv, ScreenInv, At
  <2>4. hwcursor \in Nat
    <3>1. screen.x \in Nat /\ screen.y \in Nat
      BY <2>2, ScreenSize
    <3> QED
      BY <2>3, <3>1, RowType
  <2>5. cursor \in [x : 0..CGA_NUM_COLS, y : 0..(CGA_NUM_ROWS - 1)]
    BY <2>1, <2>2 DEF ConInv, ScreenInv
  <2>6. DOMAIN cga_buffer = Cells
    BY <2>2
  <2> QED
    BY <2>4, <2>5, <2>6 DEF ConTypeOK, ConInv
<1> QED
  BY <1>1, ConSpecInv, PTL

(* In the same generality the screen shows the last rows of the text. *)
THEOREM ScreenHolds == ConSpec => []ScreenShowsTape
<1>1. ConInv => ScreenShowsTape
  <2> SUFFICES ASSUME ConInv, ops > 0 PROVE ScreenShowsTape
    BY DEF ScreenShowsTape
  <2>1. Window(screen, tape)
    BY DEF ConInv, ScreenInv
  <2>2. screen.buf = cga_buffer
    BY DEF screen
  <2> QED
    BY <2>1, <2>2 DEF ScreenShowsTape, Window
<1> QED
  BY <1>1, ConSpecInv, PTL

(* In the same generality the hardware cursor is where the next character appears. *)
THEOREM CursorHolds == ConSpec => []CursorAtNextCell
<1>1. ConInv => CursorAtNextCell
  <2> SUFFICES ASSUME ConInv PROVE CursorAtNextCell
    OBVIOUS
  <2> DEFINE s == screen
             W == CGA_NUM_COLS
             H == CGA_NUM_ROWS
  <2>1. s.x = cursor.x /\ s.y = cursor.y
    BY DEF screen
  <2>2. /\ s.x \in 0..W /\ s.y \in 0..(H - 1) /\ hwcursor = s.x + RowAt(s.y)
        /\ tape.top \in Nat /\ tape.pos \in Nat
        /\ tape.pos = RowAt(tape.top + s.y) + s.x /\ (tape.full <=> s.x = W)
    BY DEF ConInv, ScreenInv, At, IsScreen, IsTape, Aligned
  <2>3. W \in Nat \ {0} /\ H \in Nat /\ s.x \in Nat /\ s.y \in Nat
    BY <2>2, ScreenSize
  <2>4. /\ RowAt(tape.top + s.y) = RowAt(tape.top) + RowAt(s.y)
        /\ RowAt(tape.top) \in Nat /\ RowAt(s.y) \in Nat /\ RowAt(H) \in Nat
    BY <2>2, <2>3, RowSum, RowType
  <2> HIDE DEF s
  <2>5. hwcursor = tape.pos - RowAt(tape.top)
    BY <2>2, <2>3, <2>4
  <2>6. ASSUME hwcursor \notin Cells PROVE tape.full /\ s.y = H - 1
    <3>1. ~(s.x < W)
      <4> SUFFICES ASSUME s.x < W PROVE FALSE
        OBVIOUS
      <4>1. s.x \in 0..(W - 1) /\ s.y \in 0..(H - 1)
        BY <2>2, <2>3
      <4> QED
        BY <2>2, <2>6, <4>1, CellOnScreen
    <3>2. s.x = W
      BY <2>2, <2>3, <3>1
    <3>3. ~(s.y + 1 < H)
      <4> SUFFICES ASSUME s.y + 1 < H PROVE FALSE
        OBVIOUS
      <4>1. s.y + 1 \in Nat /\ RowAt(s.y + 1) = RowAt(s.y) + W
        BY <2>3, RowNext
      <4>2. RowAt(s.y + 1) + W <= RowAt(H)
        BY <2>3, <4>1, RowBelow
      <4> QED
        BY <2>2, <2>3, <2>4, <2>6, <3>2, <4>1, <4>2 DEF Cells
    <3> QED
      BY <2>2, <2>3, <3>2, <3>3
  <2> QED
    BY <2>1, <2>5, <2>6 DEF CursorAtNextCell
<1> QED
  BY <1>1, ConSpecInv, PTL

(* In the same generality deletions erase what was typed, last character first. *)
THEOREM DeletionsErase == ConSpec => DelErasesLast
<1> DEFINE Erases ==
      con_char("DEL") /\ entered # <<>> /\ entered[Len(entered)] >= RowAt(tape.top)
        => LET i == entered[Len(entered)] - RowAt(tape.top)
           IN  hwcursor' = i /\ cga_buffer'[i].code = "0"
<1>1. ConInv /\ [ConNext]_convars => [Erases]_convars
  BY DelStep
<1> HIDE DEF Erases
<1>2. ConSpec => [][Erases]_convars
  BY <1>1, ConSpecInv, PTL DEF ConSpec
<1> QED
  BY <1>2, PTL DEF Erases, DelErasesLast

=============================================================================
