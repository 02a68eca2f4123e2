--------------------------- MODULE SbPlayerProofs ---------------------------
(********************************************************************************)
(* The sound player, for every number of buffers, files, headers and plays and  *)
(* any number of bus errors.                                                    *)
(*                                                                              *)
(* PlayInv is the argument that sb_playcount never wraps and that the file is   *)
(* given back.  CountInv compares the count with what is still to be read: as   *)
(* long as a completion can be counted down the count covers the rest and one   *)
(* chunk more, and when it reaches 0 nothing is left and the service closes.    *)
(*                                                                              *)
(* OrderInv is the argument for the order of the chunks.  Its witness rf is     *)
(* the number of buffers the engine has finished and the service refilled since *)
(* the start; it tells which chunk each buffer holds (Holds) and how many have  *)
(* been played (PlayedUpTo).  Slack is the reserve of the count: two buffers    *)
(* of silence at the end, which is what stops the player not too early.         *)
(*                                                                              *)
(* HeardInv adds up units: what was heard, what is still in the ring and what   *)
(* is left of the file make the whole.                                          *)
(********************************************************************************)
EXTENDS SbPlayer, Integers, FiniteSetTheorems, WellFoundedInduction, TLAPS

N == SB_BUFF_CHUNKS

(* Units still to be read: what the header announces, as far as the file has it. *)
Rest == Least(sb_playsize, left)

(* The conjuncts of TypeOK one by one. *)
Bools ==
  /\ sbdma_cmplt \in BOOLEAN /\ sbdma_buserr \in BOOLEAN /\ sigint \in BOOLEAN
  /\ sigbus \in BOOLEAN /\ running \in BOOLEAN /\ ioc \in BOOLEAN /\ err \in BOOLEAN
  /\ disturbed \in BOOLEAN

Nats ==
  /\ plays \in Nat /\ errors \in Nat /\ buserrs \in Nat /\ asked \in Nat
  /\ reads \in Nat /\ heard \in Nat /\ played \in Nat

(* Only the descriptor of the player is in use, if any is, and those it has lost. *)
TableInv ==
  /\ \A d \in Fat!FDs : d # fd => open_files[d] \in lost \cup {NULL}
  /\ files = Cardinality(Fat!InUse)
  /\ Fat!FileOf(fd) = NULL => left = 0

(* The state machine and the step of its pass agree; an idle one leaves the *)
(* engine stopped.                                                          *)
Phase ==
  /\ sb_reg # "SB_IDLE" => Playing
  /\ pc \in {"flags", "cmplt", "clear", "read"} => sb_reg = "SB_WAIT"
  /\ sb_reg = "SB_WRITE" <=> pc = "take"
  /\ sb_reg = "SB_IDLE" => ~running /\ ~ioc /\ ~err

(* sb_playcount is enough for what is left to be read. *)
CountInv ==
  /\ sb_reg = "SB_IDLE" /\ Playing =>
       sb_playcount \in 1..(MaxSize + 2) /\ (sb_playcount - 1) * Chunk >= Rest
  /\ sb_reg = "SB_WAIT" /\ pc \notin {"clear", "read"} =>
       sb_playcount > 0 /\ (sb_playcount - 1) * Chunk >= Rest
  /\ pc \in {"take", "clear", "read"} => sb_playcount * Chunk >= Rest

PlayInv == TypeOK /\ TableInv /\ Phase /\ CountInv

LEMMA Consts ==
  /\ N \in Nat /\ N > 0 /\ Chunk \in Nat /\ Chunk > 0 /\ MaxSize \in Nat
  /\ SizeMod \in Nat /\ SizeMod > MaxSize + 3
  /\ MAX_OPEN_FILES \in Nat /\ MAX_OPEN_FILES > 0 /\ MaxPlays \in Nat
  BY SizesAssumption, BoundsAssumption DEF N

(* Counting a completion down, when there is one to count. *)
LEMMA CountDown ==
  ASSUME NEW x \in 1..(SizeMod - 1)
  PROVE  (x + SizeMod - 1) % SizeMod = x - 1
<1>1. x - 1 \in 0..(SizeMod - 1) /\ SizeMod \in Nat /\ SizeMod > 0
  BY Consts
<1>2. x + SizeMod - 1 = 1 * SizeMod + (x - 1)
  BY Consts
<1> QED
  BY <1>1, <1>2, Consts

(* The chunks counted by sb_m are enough for the file. *)
LEMMA PacketsEnough ==
  ASSUME NEW size \in Nat
  PROVE  Packets(size) \in 1..(size + 2) /\ (Packets(size) - 1) * Chunk >= size
<1> DEFINE q == size \div Chunk
           r == size % Chunk
<1>1. q \in Nat /\ r \in 0..(Chunk - 1) /\ size = Chunk * q + r
  BY Consts
<1>2. q <= Chunk * q /\ (q + 1) * Chunk = Chunk * q + Chunk /\ q * Chunk = Chunk * q
  BY <1>1, Consts
<1>3. CASE r > 0
  <2>1. Packets(size) = q + 2
    BY <1>1, <1>3 DEF Packets
  <2> HIDE DEF q, r
  <2> QED
    BY <2>1, <1>1, <1>2, <1>3, Consts
<1>4. CASE ~(r > 0)
  <2>1. Packets(size) = q + 1
    BY <1>1, <1>4 DEF Packets
  <2> HIDE DEF q, r
  <2> QED
    BY <2>1, <1>1, <1>2, <1>4, Consts
<1> QED
  BY <1>3, <1>4


Types ==
  /\ open_files \in [0..(MAX_OPEN_FILES - 1) -> (1..MaxPlays) \cup {NULL}]
  /\ files \in 0..MAX_OPEN_FILES
  /\ fd \in 0..(MAX_OPEN_FILES - 1) \cup {NoFd}
  /\ sb_reg \in {"SB_IDLE", "SB_WAIT", "SB_WRITE", "SB_CLOSE"}
  /\ sb_playsize \in 0..MaxSize /\ sb_playcount \in 0..(SizeMod - 1) /\ left \in 0..MaxSize
  /\ cur \in BDs /\ bd \in BDs
  /\ cmplt \in [BDs -> BOOLEAN]
  /\ buf \in [BDs -> [chunk : Nat, units : 0..Chunk]]
  /\ pc \in {"idle", "flags", "cmplt", "take", "clear", "read", "unblock"}
  /\ sgls \subseteq {"SIGINT", "SIGBUS"} /\ lost \subseteq 1..MaxPlays

LEMMA TypeParts == TypeOK <=> Types /\ Bools /\ Nats
<1>1. {sbdma_cmplt, sbdma_buserr, sigint, sigbus, running, ioc, err, disturbed} \subseteq BOOLEAN <=> Bools
  BY Zenon DEF Bools
<1>2. {plays, errors, buserrs, asked, reads, heard, played} \subseteq Nat <=> Nats
  BY Zenon DEF Nats
<1> QED
  BY <1>1, <1>2, Zenon DEF TypeOK, Types

LEMMA TypePartsPrime == (TypeOK <=> Types /\ Bools /\ Nats)'
  BY TypeParts, PTL

(* A set of entries of the table is finite. *)
LEMMA Entries ==
  ASSUME NEW T, T \subseteq Fat!FDs
  PROVE  /\ IsFiniteSet(T) /\ Cardinality(T) \in 0..MAX_OPEN_FILES
         /\ Cardinality(T) = MAX_OPEN_FILES => T = Fat!FDs
<1>1. IsFiniteSet(Fat!FDs) /\ Cardinality(Fat!FDs) = MAX_OPEN_FILES
  BY FS_Interval, Consts DEF Fat!FDs
<1>2. /\ IsFiniteSet(T) /\ Cardinality(T) <= Cardinality(Fat!FDs)
      /\ Cardinality(T) = Cardinality(Fat!FDs) => T = Fat!FDs
  BY <1>1, FS_Subset
<1>3. Cardinality(T) \in Nat
  BY <1>2, FS_CardinalityType
<1> QED
  BY <1>1, <1>2, <1>3, Consts

(* When the counter is below the limit fat_fopen finds a free entry. *)
LEMMA ScanFindsFree ==
  ASSUME TableInv, files # MAX_OPEN_FILES
  PROVE  /\ Fat!FirstFree \in Fat!FDs /\ open_files[Fat!FirstFree] = NULL
         /\ Fat!FirstFree \in 0..(MAX_OPEN_FILES - 1)
<1> DEFINE Free == {d \in Fat!FDs : open_files[d] = NULL}
           R == OpToRel(<, Nat)
<1>1. Fat!FDs = 0..(MAX_OPEN_FILES - 1) /\ Free \subseteq Nat
  BY Consts DEF Fat!FDs
<1>2. Free # {}
  <2>1. Fat!InUse \subseteq Fat!FDs
    BY DEF Fat!InUse
  <2>2. Fat!InUse # Fat!FDs
    <3>1. Cardinality(Fat!FDs) = MAX_OPEN_FILES
      BY FS_Interval, Consts DEF Fat!FDs
    <3> QED
      BY <3>1 DEF TableInv
  <2> QED
    BY <2>1, <2>2 DEF Fat!InUse
<1>3. PICK x \in Free : \A y \in Free : ~(<<y, x>> \in R)
  BY <1>1, <1>2, NatLessThanWellFounded, WFMin
<1>4. \A y \in Free : x <= y
  <2>1. \A y \in Nat : y < x => <<y, x>> \in R
    BY <1>1 DEF OpToRel
  <2>2. \A y \in Free : ~(y < x)
    BY <2>1, <1>1, <1>3
  <2>3. x \in Nat /\ \A y \in Free : y \in Nat
    BY <1>1
  <2> HIDE DEF R, Free
  <2> QED
    BY <2>2, <2>3
<1>5. x \in Fat!FDs /\ open_files[x] = NULL
      /\ \A j \in Fat!FDs : open_files[j] = NULL => x <= j
  BY <1>4
<1> HIDE DEF R, Free
<1> QED
  BY <1>1, <1>5 DEF Fat!FirstFree

(* Closing the player's file, open or not, leaves the lost ones. *)
LEMMA CloseTable ==
  ASSUME Types, TableInv, Fat!fat_fclose(fd)
  PROVE  /\ open_files' \in [0..(MAX_OPEN_FILES - 1) -> (1..MaxPlays) \cup {NULL}]
         /\ \A d \in Fat!FDs : open_files'[d] \in lost \cup {NULL}
         /\ files' = Cardinality(Fat!InUse') /\ files' \in 0..MAX_OPEN_FILES
<1>1. CASE Fat!FileOf(fd) = NULL
  <2>1. UNCHANGED <<open_files, files>>
    BY <1>1 DEF Fat!fat_fclose
  <2>2. Fat!InUse' = Fat!InUse
    BY <2>1 DEF Fat!InUse
  <2> QED
    BY <1>1, <2>1, <2>2 DEF TableInv, Types, Fat!FileOf, Fat!FDs
<1>2. CASE Fat!FileOf(fd) # NULL
  <2>1. fd \in Fat!FDs /\ open_files[fd] # NULL
    BY <1>2 DEF Fat!FileOf
  <2>2. open_files' = [open_files EXCEPT ![fd] = NULL] /\ files' = files - 1
    BY <1>2 DEF Fat!fat_fclose
  <2>3. Fat!InUse' = Fat!InUse \ {fd} /\ fd \in Fat!InUse
    BY <2>1, <2>2 DEF Fat!InUse, Types, Fat!FDs
  <2>4. Fat!InUse \subseteq Fat!FDs /\ Fat!InUse \ {fd} \subseteq Fat!FDs
    BY DEF Fat!InUse
  <2>5. IsFiniteSet(Fat!InUse) /\ Cardinality(Fat!InUse) \in 0..MAX_OPEN_FILES
        /\ Cardinality(Fat!InUse \ {fd}) \in 0..MAX_OPEN_FILES
    BY <2>4, Entries
  <2>6. Cardinality(Fat!InUse \ {fd}) = Cardinality(Fat!InUse) - 1
    BY <2>3, <2>5, FS_RemoveElement
  <2> QED
    BY <2>1, <2>2, <2>3, <2>5, <2>6 DEF TableInv, Types, Fat!FDs
<1> QED
  BY <1>1, <1>2

LEMMA InitPlayInv == Init => PlayInv
<1> SUFFICES ASSUME Init PROVE PlayInv
  OBVIOUS
<1>1. Types
  <2>1. 0 \in BDs /\ Silence \in [chunk : Nat, units : 0..Chunk]
    BY Consts DEF BDs, N, Silence
  <2> QED
    BY <2>1, Consts DEF Init, Types, NoFd
<1>2. Bools /\ Nats
  BY DEF Init, Bools, Nats
<1>3. TableInv
  <2>1. Fat!InUse = {}
    BY DEF Init, Fat!InUse, Fat!FDs
  <2> QED
    BY <2>1, FS_EmptySet, Consts DEF Init, TableInv, Fat!FDs, Fat!FileOf, NoFd
<1>4. Phase
  BY DEF Init, Phase
<1>5. CountInv
  BY DEF Init, CountInv, Playing, NoFd
<1> QED
  BY <1>1, <1>2, <1>3, <1>4, <1>5, TypeParts DEF PlayInv

-----------------------------------------------------------------------------
(* The end of a playback, from whichever step of the service. *)
LEMMA CloseStep ==
  ASSUME PlayInv, CloseAndInit,
         UNCHANGED <<ring, bd, flags, lost, disturbed>>,
         pc' \in {"idle", "unblock"}, Nats'
  PROVE  PlayInv'
<1>1. Types /\ Bools /\ Nats /\ TableInv
  BY TypeParts DEF PlayInv
<1>2. /\ open_files' \in [0..(MAX_OPEN_FILES - 1) -> (1..MaxPlays) \cup {NULL}]
      /\ \A d \in Fat!FDs : open_files'[d] \in lost \cup {NULL}
      /\ files' = Cardinality(Fat!InUse') /\ files' \in 0..MAX_OPEN_FILES
  BY <1>1, CloseTable DEF CloseAndInit
<1>3. /\ running' = FALSE /\ ioc' = FALSE /\ err' = FALSE
      /\ fd' = NoFd /\ sb_playsize' = 0 /\ sb_playcount' = 0
      /\ sb_reg' = "SB_IDLE" /\ left' = 0 /\ cur' = cur
  BY DEF CloseAndInit
<1>4. Types'
  BY <1>1, <1>2, <1>3, Consts DEF Types, flags, ring
<1>5. Bools'
  BY <1>1, <1>3 DEF Bools, flags
<1>6. TableInv'
  BY <1>2, <1>3, Consts DEF TableInv, Fat!FDs, Fat!FileOf, NoFd
<1>7. Phase'
  BY <1>3 DEF Phase
<1>8. CountInv'
  BY <1>3 DEF CountInv, Playing
<1> QED
  BY <1>4, <1>5, <1>6, <1>7, <1>8, TypePartsPrime DEF PlayInv

(* A play command, during another play or not: what it leaves but for the table *)
LEMMA NewPlayStep ==
  ASSUME PlayInv, NEW size \in 0..MaxSize, NEW length \in 0..MaxSize,
         NewPlay(size, length), fd' \in 0..(MAX_OPEN_FILES - 1),
         open_files' \in [0..(MAX_OPEN_FILES - 1) -> (1..MaxPlays) \cup {NULL}],
         files' \in 0..MAX_OPEN_FILES, TableInv'
  PROVE  PlayInv'
<1>1. Types /\ Bools /\ Nats /\ TableInv
  BY TypeParts DEF PlayInv
<1>2. /\ left' = length /\ sb_playcount' = Packets(size) /\ sb_playsize' = size
      /\ pc = "idle" /\ plays' = plays + 1 /\ lost' = lost \cup ({Fat!FileOf(fd)} \ {NULL})
      /\ asked' = Least(size, length) /\ reads' = 0 /\ heard' = 0 /\ played' = 0
      /\ UNCHANGED <<sb_reg, flags, engine, ring, pc, bd, errors, buserrs>>
  BY DEF NewPlay
<1>3. Packets(size) \in 1..(size + 2) /\ (Packets(size) - 1) * Chunk >= size
  BY PacketsEnough
<1>4. Playing'
  BY Consts DEF Playing, NoFd
<1>5. Types'
  <2>1. sb_playcount' \in 0..(SizeMod - 1)
    BY <1>2, <1>3, Consts
  <2>2. UNCHANGED <<sb_reg, sgls, cur, cmplt, buf, pc, bd>>
    BY <1>2 DEF flags, engine, ring
  <2>3. lost' \subseteq 1..MaxPlays
    <3>1. Fat!FileOf(fd) \in (1..MaxPlays) \cup {NULL}
      BY <1>1 DEF Types, Fat!FileOf, Fat!FDs
    <3> QED
      BY <1>1, <1>2, <3>1 DEF Types
  <2> QED
    BY <2>1, <2>2, <2>3, <1>1, <1>2 DEF Types
<1>6. Bools'
  <2>1. disturbed' \in BOOLEAN
    BY DEF NewPlay, Playing
  <2> QED
    BY <2>1, <1>1, <1>2 DEF Bools, flags, engine
<1>7. Nats'
  BY <1>1, <1>2 DEF Nats, Least
<1>8. Phase'
  BY <1>2, <1>4 DEF PlayInv, Phase, flags, engine
<1>9. CountInv'
  <2>1. Rest' \in Nat /\ Rest' <= size
    BY <1>2 DEF Rest, Least
  <2>2. pc' = "idle"
    BY <1>2
  <2>3. (Packets(size) - 1) * Chunk \in Nat
    BY <1>3, Consts
  <2> QED
    BY <2>1, <2>2, <2>3, <1>2, <1>3, Consts DEF CountInv
<1> QED
  BY <1>5, <1>6, <1>7, <1>8, <1>9, TypePartsPrime DEF PlayInv

(* sb_m: the file gets a free entry, the one before is lost. *)
LEMMA MStep ==
  ASSUME PlayInv, NEW size \in 0..MaxSize, NEW length \in 0..MaxSize,
         sb_m(size, length)
  PROVE  PlayInv'
<1>1. Types /\ Nats /\ TableInv
  BY TypeParts DEF PlayInv
<1> DEFINE d == Fat!FirstFree
<1>2. /\ NewPlay(size, length) /\ files # MAX_OPEN_FILES
      /\ fd' = d /\ files' = files + 1
      /\ open_files' = [open_files EXCEPT ![d] = plays + 1]
  BY DEF sb_m, Fat!fat_fopen
<1>3. d \in Fat!FDs /\ open_files[d] = NULL /\ d \in 0..(MAX_OPEN_FILES - 1)
  BY <1>1, <1>2, ScanFindsFree
<1> HIDE DEF d
<1>4. plays + 1 \in 1..MaxPlays /\ plays + 1 # NULL
  BY <1>1, <1>2, Consts, NullAssumption DEF NewPlay, Nats
<1>5. open_files' \in [0..(MAX_OPEN_FILES - 1) -> (1..MaxPlays) \cup {NULL}]
  BY <1>1, <1>2, <1>4 DEF Types
<1>6. files' = Cardinality(Fat!InUse') /\ files' \in 0..MAX_OPEN_FILES
  <2>1. Fat!InUse' = Fat!InUse \cup {d} /\ d \notin Fat!InUse
    BY <1>1, <1>2, <1>3, <1>4 DEF Fat!InUse, Types, Fat!FDs
  <2>2. Fat!InUse \subseteq Fat!FDs /\ Fat!InUse \cup {d} \subseteq Fat!FDs
    BY <1>3 DEF Fat!InUse
  <2>3. IsFiniteSet(Fat!InUse) /\ Cardinality(Fat!InUse \cup {d}) \in 0..MAX_OPEN_FILES
    BY <2>2, Entries
  <2>4. Cardinality(Fat!InUse \cup {d}) = Cardinality(Fat!InUse) + 1
    BY <2>1, <2>3, FS_AddElement
  <2> QED
    BY <1>1, <1>2, <2>1, <2>3, <2>4 DEF TableInv
<1>7. lost' = lost \cup ({Fat!FileOf(fd)} \ {NULL})
  BY <1>2 DEF NewPlay
<1>8. TableInv'
  <2>1. ASSUME NEW e \in Fat!FDs, e # fd' PROVE open_files'[e] \in lost' \cup {NULL}
    <3>1. open_files'[e] = open_files[e]
      BY <1>1, <1>2, <1>3, <2>1 DEF Types, Fat!FDs
    <3>2. CASE e = fd
      BY <1>7, <3>1, <3>2 DEF Fat!FileOf
    <3>3. CASE e # fd
      BY <1>1, <1>7, <3>1, <3>3 DEF TableInv
    <3> QED
      BY <3>2, <3>3
  <2>2. Fat!FileOf(fd)' # NULL
    BY <1>1, <1>2, <1>3, <1>4 DEF Fat!FileOf, Types, Fat!FDs
  <2> QED
    BY <1>6, <2>1, <2>2 DEF TableInv
<1> QED
  BY <1>2, <1>3, <1>5, <1>6, <1>8, NewPlayStep

(* sb_m with the header unread: the descriptor of a closed file. *)
LEMMA UnreadStep ==
  ASSUME PlayInv, NEW size \in 0..MaxSize, sb_m_unread(size)
  PROVE  PlayInv'
<1>1. Types /\ TableInv
  BY TypeParts DEF PlayInv
<1>2. /\ NewPlay(size, 0) /\ files # MAX_OPEN_FILES /\ fd' = Fat!FirstFree
      /\ UNCHANGED <<open_files, files>>
  BY DEF sb_m_unread, table
<1>3. /\ Fat!FirstFree \in Fat!FDs /\ open_files[Fat!FirstFree] = NULL
      /\ Fat!FirstFree \in 0..(MAX_OPEN_FILES - 1)
  BY <1>1, <1>2, ScanFindsFree
<1>4. lost' = lost \cup ({Fat!FileOf(fd)} \ {NULL}) /\ left' = 0
  BY <1>2 DEF NewPlay
<1>5. TableInv'
  <2>1. ASSUME NEW e \in Fat!FDs PROVE open_files'[e] \in lost' \cup {NULL}
    <3>1. CASE e = fd
      BY <1>2, <1>4, <2>1, <3>1 DEF Fat!FileOf
    <3>2. CASE e # fd
      BY <1>1, <1>2, <1>4, <2>1, <3>2 DEF TableInv
    <3> QED
      BY <3>1, <3>2
  <2>2. Fat!InUse' = Fat!InUse
    BY <1>2 DEF Fat!InUse
  <2> QED
    BY <1>1, <1>2, <1>4, <2>1, <2>2 DEF TableInv
<1>6. 0 \in 0..MaxSize
  BY Consts
<1> QED
  BY <1>1, <1>2, <1>3, <1>5, <1>6, NewPlayStep DEF Types

(* The engine and its interrupt touch neither the file nor the count. *)
LEMMA EngineStep ==
  ASSUME PlayInv, PlayBuffer \/ BusError \/ onsbdma_irq
  PROVE  PlayInv'
<1>1. Types /\ Bools /\ Nats /\ TableInv
  BY TypeParts DEF PlayInv
<1>2. UNCHANGED <<table, play, sgls, pc, bd, buf, plays, asked, reads, lost>>
  BY DEF PlayBuffer, BusError, onsbdma_irq, flags, ring, history
<1>3. Types'
  <2>1. cur' \in BDs
    <3>1. cur \in Nat /\ SB_BUFF_CHUNKS \in Nat /\ SB_BUFF_CHUNKS > 0 /\ cur \in BDs
      BY <1>1, SizesAssumption DEF Types, BDs
    <3>2. cur' = (cur + 1) % SB_BUFF_CHUNKS \/ cur' = cur
      BY DEF PlayBuffer, BusError, onsbdma_irq
    <3>3. (cur + 1) % SB_BUFF_CHUNKS \in BDs
      BY <3>1 DEF BDs
    <3> QED
      BY <3>1, <3>2, <3>3
  <2>2. cmplt' \in [BDs -> BOOLEAN]
    BY <1>1 DEF PlayBuffer, BusError, onsbdma_irq, Types, ring
  <2> QED
    BY <2>1, <2>2, <1>1, <1>2 DEF Types, table, play
<1>4. Bools'
  BY <1>1, Zenon DEF PlayBuffer, BusError, onsbdma_irq, Bools, flags, history
<1>5. Nats'
  <2>1. buf[cur] \in [chunk : Nat, units : 0..Chunk]
    BY <1>1 DEF Types
  <2>2. buf[cur].chunk \in Nat /\ buf[cur].units \in Nat
    BY <2>1, Consts
  <2> QED
    BY <2>2, <1>1, <1>2 DEF PlayBuffer, BusError, onsbdma_irq, Nats, history
<1>6. TableInv'
  BY <1>1, <1>2 DEF TableInv, table, play, Fat!FileOf, Fat!InUse
<1>7. Phase'
  <2>1. sb_reg = "SB_IDLE" => ~running /\ ~ioc /\ ~err
    BY DEF PlayInv, Phase
  <2>2. sb_reg # "SB_IDLE"
    BY <2>1, Zenon DEF PlayBuffer, BusError, onsbdma_irq
  <2> QED
    BY <2>2, <1>2 DEF PlayInv, Phase, Playing, play
<1>8. CountInv'
  BY <1>2 DEF PlayInv, CountInv, Playing, Rest, Least, play
<1> QED
  BY <1>3, <1>4, <1>5, <1>6, <1>7, <1>8, TypePartsPrime DEF PlayInv

(* SB_IDLE starts the ring and counts its silence. *)
LEMMA IdleStep ==
  ASSUME PlayInv, sb_idle
  PROVE  PlayInv'
<1>1. Types /\ Bools /\ Nats /\ TableInv
  BY TypeParts DEF PlayInv
<1>0. ~running
  BY DEF PlayInv, Phase, sb_idle
<1>2. /\ sb_playcount \in 1..(MaxSize + 2) /\ (sb_playcount - 1) * Chunk >= Rest
      /\ sb_playcount' = sb_playcount + 1
      /\ sb_reg' = "SB_WAIT" /\ pc = "idle" /\ Playing
      /\ UNCHANGED <<table, fd, sb_playsize, left, sigint, sigbus, sgls, pc, bd, history>>
  BY <1>0 DEF PlayInv, CountInv, sb_idle, StartRing
<1>3. Types'
  <2>1. 0 \in BDs /\ Silence \in [chunk : Nat, units : 0..Chunk]
    BY Consts DEF BDs, N, Silence
  <2>2. cur' = 0 /\ cmplt' = [b \in BDs |-> FALSE] /\ buf' = [b \in BDs |-> Silence]
    BY <1>0 DEF sb_idle, StartRing
  <2> QED
    BY <2>1, <2>2, <1>1, <1>2, Consts DEF Types, table, history
<1>4. Bools'
  BY <1>0, <1>1 DEF sb_idle, StartRing, Bools, history
<1>5. Nats'
  BY <1>1, <1>2 DEF Nats, history
<1>6. TableInv'
  BY <1>1, <1>2 DEF TableInv, table, Fat!FileOf, Fat!InUse, history
<1>7. Phase'
  BY <1>2 DEF Phase, Playing
<1>8. CountInv'
  <2>1. Rest' = Rest /\ Rest \in Nat
    BY <1>1, <1>2, Consts DEF Rest, Least, Types
  <2>2. sb_playcount * Chunk = (sb_playcount - 1) * Chunk + Chunk
    BY <1>2, Consts
  <2>3. (sb_playcount' - 1) * Chunk = sb_playcount * Chunk
    BY <1>2, Consts
  <2>4. (sb_playcount - 1) * Chunk \in Nat
    BY <1>2, Consts
  <2> QED
    BY <2>1, <2>2, <2>3, <2>4, <1>2, Consts DEF CountInv
<1> QED
  BY <1>3, <1>4, <1>5, <1>6, <1>7, <1>8, TypePartsPrime DEF PlayInv

(* The tests of a pass, up to the decision to refill, and its end. *)
LEMMA PassStep ==
  ASSUME PlayInv, sb_poll \/ sb_buserr \/ sb_unblock
  PROVE  PlayInv'
<1>1. Types /\ Bools /\ Nats /\ TableInv
  BY TypeParts DEF PlayInv
<1>2. UNCHANGED <<table, fd, sb_playsize, sb_playcount, left, sbdma_cmplt, sbdma_buserr,
                  engine, ring, bd, history>>
  BY DEF sb_poll, sb_buserr, sb_unblock, play, flags
<1>3. Types'
  BY <1>1, <1>2 DEF sb_poll, sb_buserr, sb_unblock, play, flags, Types, table, engine, ring, history
<1>4. Bools'
  <2>1. sigint' \in BOOLEAN /\ sigbus' \in BOOLEAN
    BY <1>1 DEF sb_poll, sb_buserr, sb_unblock, flags, Bools
  <2> QED
    BY <2>1, <1>1, <1>2 DEF Bools, engine, history
<1>5. Nats'
  BY <1>1, <1>2 DEF Nats, history
<1>6. TableInv'
  BY <1>1, <1>2 DEF TableInv, table, Fat!FileOf, Fat!InUse, history
<1>7. Phase' /\ CountInv'
  <2>1. UNCHANGED <<running, ioc, err, Rest, Playing>>
    BY <1>2 DEF engine, Rest, Playing
  <2>2. CASE sb_poll
    BY <2>1, <2>2, <1>2 DEF PlayInv, Phase, CountInv, sb_poll, play
  <2>3. CASE sb_buserr
    BY <2>1, <2>3, <1>2 DEF PlayInv, Phase, CountInv, sb_buserr
  <2>4. CASE sb_unblock
    BY <2>1, <2>4, <1>2 DEF PlayInv, Phase, CountInv, sb_unblock, play
  <2> QED
    BY <2>2, <2>3, <2>4
<1> QED
  BY <1>3, <1>4, <1>5, <1>6, <1>7, TypePartsPrime DEF PlayInv

(* _sbdma_sgcmplt hands out a BD of the ring that is complete. *)
LEMMA FirstCompleted ==
  ASSUME Completed # {}
  PROVE  FirstOf(Completed) \in Completed /\ Completed \subseteq BDs
<1> DEFINE R == OpToRel(<, Nat)
<1>1. Completed \subseteq BDs /\ BDs \subseteq Nat
  BY Consts DEF Completed, BDs, N
<1>2. PICK x \in Completed : \A y \in Completed : ~(<<y, x>> \in R)
  BY <1>1, NatLessThanWellFounded, WFMin
<1>3. \A y \in Completed : x <= y
  <2>1. \A y \in Nat : y < x => <<y, x>> \in R
    BY <1>1 DEF OpToRel
  <2>2. \A y \in Completed : ~(y < x)
    BY <2>1, <1>1, <1>2
  <2>3. x \in Nat /\ \A y \in Completed : y \in Nat
    BY <1>1
  <2> HIDE DEF R
  <2> QED
    BY <2>2, <2>3
<1> HIDE DEF R
<1> QED
  BY <1>1, <1>3 DEF FirstOf

(* A completion is counted down: there is one to count. *)
LEMMA CmpltStep ==
  ASSUME PlayInv, sb_cmplt
  PROVE  PlayInv'
<1>1. Types /\ Bools /\ Nats /\ TableInv
  BY TypeParts DEF PlayInv
<1>2. /\ pc = "cmplt" /\ sb_reg = "SB_WAIT" /\ Playing
      /\ UNCHANGED <<table, fd, sb_playsize, left, flags, engine, ring, bd, history>>
      /\ sb_playcount > 0 /\ (sb_playcount - 1) * Chunk >= Rest
  BY DEF PlayInv, Phase, CountInv, sb_cmplt
<1>3. (sb_playcount + SizeMod - 1) % SizeMod = sb_playcount - 1
  BY <1>1, <1>2, CountDown DEF Types
<1>4. \/ sbdma_cmplt /\ sb_playcount' = sb_playcount - 1 /\ sb_reg' = "SB_WRITE" /\ pc' = "take"
      \/ ~sbdma_cmplt /\ UNCHANGED <<sb_playcount, sb_reg>> /\ pc' = "unblock"
  BY <1>3 DEF sb_cmplt
<1>5. Types'
  BY <1>1, <1>2, <1>4, Consts DEF Types, table, flags, engine, ring, history
<1>6. Bools' /\ Nats'
  BY <1>1, <1>2 DEF Bools, Nats, flags, engine, history
<1>7. TableInv'
  BY <1>1, <1>2 DEF TableInv, table, Fat!FileOf, Fat!InUse, history
<1>8. UNCHANGED <<running, ioc, err, Rest, Playing>>
  BY <1>2 DEF engine, Rest, Playing
<1>9. Phase'
  BY <1>2, <1>4, <1>8 DEF Phase
<1>10. CountInv'
  BY <1>2, <1>4, <1>8 DEF CountInv
<1> QED
  BY <1>5, <1>6, <1>7, <1>9, <1>10, TypePartsPrime DEF PlayInv

(* SB_WRITE takes a BD, or gives the playback up. *)
LEMMA TakeStep ==
  ASSUME PlayInv, sb_take
  PROVE  PlayInv'
<1>1. Types /\ Bools /\ Nats /\ TableInv
  BY TypeParts DEF PlayInv
<1>2. CASE Completed = {}
  <2>1. CloseAndInit /\ pc' = "unblock" /\ UNCHANGED <<ring, bd, flags, history>>
    BY <1>2 DEF sb_take
  <2>2. Nats' /\ UNCHANGED <<lost, disturbed>>
    BY <2>1, <1>1 DEF Nats, history
  <2> QED
    BY <2>1, <2>2, CloseStep
<1>3. CASE Completed # {}
  <2>1. /\ pc = "take" /\ bd' \in BDs /\ sb_reg' = "SB_WAIT" /\ pc' = "clear"
        /\ UNCHANGED <<table, fd, sb_playsize, sb_playcount, left, engine, flags, ring, history>>
    BY <1>3, FirstCompleted DEF sb_take
  <2>2. Types'
    BY <2>1, <1>1 DEF Types, table, engine, flags, ring, history
  <2>3. Bools' /\ Nats'
    BY <2>1, <1>1 DEF Bools, Nats, engine, flags, history
  <2>4. TableInv'
    BY <2>1, <1>1 DEF TableInv, table, Fat!FileOf, Fat!InUse, history
  <2>5. UNCHANGED <<running, ioc, err, Rest, Playing>>
    BY <2>1 DEF engine, Rest, Playing
  <2>6. Phase' /\ CountInv'
    BY <2>1, <2>5 DEF PlayInv, Phase, CountInv
  <2> QED
    BY <2>2, <2>3, <2>4, <2>6, TypePartsPrime DEF PlayInv
<1> QED
  BY <1>2, <1>3

LEMMA ClearStep ==
  ASSUME PlayInv, sb_clear
  PROVE  PlayInv'
<1>1. Types /\ Bools /\ Nats /\ TableInv
  BY TypeParts DEF PlayInv
<1>2. /\ pc = "clear" /\ pc' = "read"
      /\ cmplt' = [cmplt EXCEPT ![bd] = FALSE] /\ sbdma_cmplt' = FALSE
      /\ UNCHANGED <<table, play, engine, bd, history, sbdma_buserr, sigint, sigbus, sgls, buf>>
  BY DEF sb_clear
<1>3. Types'
  BY <1>1, <1>2 DEF Types, table, play, engine, history
<1>4. Bools' /\ Nats'
  BY <1>1, <1>2 DEF Bools, Nats, engine, history
<1>5. TableInv'
  BY <1>1, <1>2 DEF TableInv, table, play, Fat!FileOf, Fat!InUse, history
<1>6. UNCHANGED <<running, ioc, err, Rest, Playing, sb_reg, sb_playcount>>
  BY <1>2 DEF engine, play, Rest, Playing
<1>7. Phase' /\ CountInv'
  BY <1>2, <1>6 DEF PlayInv, Phase, CountInv
<1> QED
  BY <1>3, <1>4, <1>5, <1>7, TypePartsPrime DEF PlayInv

(* What a read can bring. *)
LEMMA ReadFacts ==
  ASSUME PlayInv
  PROVE  /\ ReadSize \in 0..Chunk /\ ReadSize <= sb_playsize /\ ReadSize <= left
         /\ Rest \in Nat /\ ReadSize <= Rest
         /\ ReadSize # Chunk => ReadSize = Rest
<1>1. Types /\ TableInv
  BY TypeParts DEF PlayInv
<1>2. CASE Fat!FileOf(fd) = NULL
  BY <1>1, <1>2, Consts DEF Types, TableInv, ReadSize, Rest, Least
<1>3. CASE Fat!FileOf(fd) # NULL
  BY <1>1, <1>3, Consts DEF Types, ReadSize, Rest, Least
<1> QED
  BY <1>2, <1>3

(* What is left after a read that is not the last. *)
LEMMA WriteRest ==
  ASSUME PlayInv, NEW n \in 0..Chunk, NEW failed \in BOOLEAN, sb_write(n, failed),
         ~(n = 0 /\ sb_playcount = 0)
  PROVE  /\ sb_playcount > 0 /\ n <= ReadSize
         /\ Rest' \in Nat
         /\ \/ Rest' = 0
            \/ n = Chunk /\ Rest' = Rest - Chunk
<1>1. Types /\ TableInv
  BY TypeParts DEF PlayInv
<1>2. n <= ReadSize /\ (~failed => n = ReadSize)
  BY ReadFacts, Consts DEF sb_write
<1>3. sb_playsize' = sb_playsize - n /\ left' = IF failed THEN 0 ELSE left - n
  BY DEF sb_write, Refill
<1>4. sb_playcount > 0
  <2>1. sb_playcount * Chunk >= Rest
    BY DEF PlayInv, CountInv, sb_write
  <2>2. sb_playcount = 0 => Rest = 0 /\ n = 0
    BY <2>1, <1>2, ReadFacts, Consts
  <2> QED
    BY <2>2, <1>1 DEF Types
<1>5. CASE failed
  BY <1>1, <1>2, <1>3, <1>4, <1>5, ReadFacts DEF Rest, Least, Types
<1>6. CASE ~failed
  <2>1. sb_playsize \in Nat /\ left \in Nat /\ n \in Nat /\ n = ReadSize
        /\ sb_playsize' = sb_playsize - n /\ left' = left - n /\ n <= sb_playsize /\ n <= left
    BY <1>1, <1>2, <1>3, <1>6, ReadFacts, Consts DEF Types
  <2>2. Rest' = Rest - n /\ Rest' \in Nat
    BY <2>1 DEF Rest, Least
  <2> QED
    BY <2>1, <2>2, <1>2, <1>4, ReadFacts
<1> QED
  BY <1>5, <1>6

(* SB_WRITE refills the BD or ends the playback. *)
LEMMA WriteStep ==
  ASSUME PlayInv, NEW n \in 0..Chunk, NEW failed \in BOOLEAN, sb_write(n, failed)
  PROVE  PlayInv'
<1>1. Types /\ Bools /\ Nats /\ TableInv
  BY TypeParts DEF PlayInv
<1>2. Nats'
  BY <1>1 DEF sb_write, Nats, Refill
<1>3. CASE n = 0 /\ sb_playcount = 0
  <2>1. CloseAndInit /\ pc' = "unblock" /\ UNCHANGED <<ring, bd, flags, lost, disturbed>>
    BY <1>3 DEF sb_write, ring
  <2> QED
    BY <2>1, <1>2, CloseStep
<1>4. CASE ~(n = 0 /\ sb_playcount = 0)
  <2>1. /\ pc = "read" /\ pc' = "unblock" /\ sb_reg = "SB_WAIT"
        /\ sb_playsize' = sb_playsize - n
        /\ left' = IF failed THEN 0 ELSE left - n
        /\ buf' = [buf EXCEPT ![bd] = IF n = 0 THEN Silence
                                      ELSE [chunk |-> reads + 1, units |-> n]]
        /\ UNCHANGED <<table, fd, sb_reg, sb_playcount, engine, flags, cmplt, bd,
                       lost, disturbed>>
    BY <1>4 DEF sb_write, Refill, PlayInv, Phase
  <2>2. /\ sb_playcount > 0 /\ n <= ReadSize
        /\ Rest' \in Nat /\ (Rest' = 0 \/ (n = Chunk /\ Rest' = Rest - Chunk))
    BY <1>4, WriteRest, Zenon
  <2>3. Types'
    <3>1. buf' \in [BDs -> [chunk : Nat, units : 0..Chunk]]
      BY <2>1, <1>1, Consts DEF Types, Nats, Silence
    <3>2. sb_playsize' \in 0..MaxSize /\ left' \in 0..MaxSize
      BY <2>1, <2>2, <1>1, ReadFacts, Consts DEF Types
    <3> QED
      BY <3>1, <3>2, <2>1, <1>1 DEF Types, table, engine, flags
  <2>4. Bools'
    BY <2>1, <1>1 DEF Bools, engine, flags
  <2>5. TableInv'
    BY <2>1, <2>2, <1>1, ReadFacts DEF TableInv, table, Fat!FileOf, Fat!InUse, Types
  <2>6. UNCHANGED <<running, ioc, err, Playing>>
    BY <2>1 DEF engine, Playing
  <2>7. Phase'
    BY <2>1, <2>6 DEF PlayInv, Phase
  <2>8. CountInv'
    <3>1. sb_playcount * Chunk >= Rest /\ sb_playcount \in Nat
      BY <2>1, <1>1 DEF PlayInv, CountInv, Types
    <3>2. sb_playcount * Chunk = (sb_playcount - 1) * Chunk + Chunk
          /\ (sb_playcount - 1) * Chunk \in Nat
      BY <3>1, <2>2, Consts
    <3>3. (sb_playcount' - 1) * Chunk >= Rest'
      BY <3>1, <3>2, <2>1, <2>2, ReadFacts, Consts
    <3> QED
      BY <3>3, <2>1, <2>2, <2>6 DEF CountInv
  <2> QED
    BY <1>2, <2>3, <2>4, <2>5, <2>7, <2>8, TypePartsPrime DEF PlayInv
<1> QED
  BY <1>3, <1>4

LEMMA NextPlayInv == PlayInv /\ [Next]_vars => PlayInv'
<1> SUFFICES ASSUME PlayInv, [Next]_vars PROVE PlayInv'
  OBVIOUS
<1>1. CASE sb_close
  <2>1. CloseAndInit /\ UNCHANGED <<ring, bd, flags, history>> /\ pc' = "idle"
    BY <1>1 DEF sb_close
  <2>2. Nats' /\ UNCHANGED <<lost, disturbed>>
    BY <2>1, TypeParts DEF PlayInv, Nats, history
  <2> QED
    BY <2>1, <2>2, CloseStep
<1>2. CASE UNCHANGED vars
  BY <1>2 DEF vars, table, play, flags, engine, ring, history,
     PlayInv, TypeOK, TableInv, Phase, CountInv, Playing, Rest, Fat!FileOf, Fat!InUse
<1>3. ASSUME NEW size \in Sizes, sb_m_unread(size) \/ \E length \in Sizes : sb_m(size, length)
      PROVE  PlayInv'
  BY <1>3, MStep, UnreadStep, SizesAssumption
<1> QED
  BY <1>1, <1>2, <1>3, EngineStep, IdleStep, PassStep, CmpltStep, TakeStep, ClearStep,
     WriteStep DEF Next, service

(* sb_service.c, for every number of buffers, every chunk and file size, any number of   *)
(* plays, one during another too, bus errors and disk errors, whether or not the service *)
(* keeps up with the engine: no completion finds sb_playcount at zero.                   *)
THEOREM PlaycountHolds == Spec => []PlaycountInv
<1>1. PlayInv => PlaycountInv
  BY DEF PlayInv, PlaycountInv, PlaycountNeverWraps, CountInv
<1> QED
  BY <1>1, NextPlayInv, InitPlayInv, PTL DEF Spec

(* Line 210 of sb_service.c, in the same generality: an idle player has the engine stopped *)
(* and no file open but those whose descriptor another play has overwritten.               *)
THEOREM FilesGivenBack == Spec => []NoFileLeak
<1>1. PlayInv => NoFileLeak
  <2> SUFFICES ASSUME PlayInv, ~Playing
               PROVE  ~running /\ \A d \in Fat!FDs : open_files[d] \in lost \cup {NULL}
    BY DEF NoFileLeak
  <2>1. sb_reg = "SB_IDLE" /\ fd = NoFd
    BY DEF PlayInv, Phase, Playing
  <2>2. fd \notin Fat!FDs
    BY <2>1, Consts DEF Fat!FDs, NoFd
  <2> QED
    BY <2>1, <2>2 DEF PlayInv, Phase, TableInv
<1> QED
  BY <1>1, NextPlayInv, InitPlayInv, PTL DEF Spec

-----------------------------------------------------------------------------
(* The order of what is heard, as long as the play is not disturbed: the service deals *)
(* with each chunk before the next one is complete, and no other play interferes.      *)

(* The BD played last, and how many are played before b is. *)
Last == IF cur = 0 THEN N - 1 ELSE cur - 1
Dist(b) == IF b >= cur THEN b - cur ELSE b + N - cur

(* The buffer played last waits to be refilled. *)
Pending == ioc \/ sbdma_cmplt \/ pc \in {"take", "clear", "read"}

(* Its completion is not counted down yet. *)
Owed == IF pc \notin {"take", "clear", "read"} /\ (ioc \/ sbdma_cmplt) THEN 1 ELSE 0

(* A running engine has met no error, one completion is outstanding at a time, *)
(* and it is that of the buffer played last.                                   *)
Turn ==
  /\ pc \in {"take", "clear", "read"} => ~ioc
  /\ pc = "read" => ~sbdma_cmplt
  /\ ioc => ~sbdma_cmplt
  /\ running => ~err /\ ~sbdma_buserr /\ sb_reg # "SB_CLOSE"
  /\ running /\ pc \in {"clear", "read"} => bd = Last
  /\ running => \A b \in BDs : cmplt[b] <=> Pending /\ pc # "read" /\ b = Last

Fresh == sb_reg = "SB_IDLE" /\ Playing => reads = 0 /\ played = 0

(* rf buffers have been played since the ring was started.  As many have been *)
(* refilled, except for one that waits; from some refill on with nothing.     *)
Refilled(rf) ==
  /\ reads <= rf
  /\ Pending => reads < rf
  /\ Rest > 0 => rf = reads + (IF Pending THEN 1 ELSE 0)

(* The n-th refill, counted from 1: a chunk of the file or silence. *)
ChunkAt(k) == IF 0 < k /\ k <= reads THEN k ELSE 0

(* The buffer b was refilled after Nth(b, rf) others, or not at all. *)
Nth(b, rf) == rf + 1 + Dist(b) - N

Holds(rf) ==
  \A b \in BDs :
    \/ b = Last /\ Pending
    \/ /\ buf[b].chunk = ChunkAt(Nth(b, rf))
       /\ buf[b].chunk = 0 => buf[b] = Silence

PlayedUpTo(rf) == played = IF rf < N THEN 0 ELSE Least(reads, rf - N)

(* sb_playcount allows for what is to be read and two buffers of silence. *)
Slack(rf) == (sb_playcount + rf - reads - 2 - Owed) * Chunk >= Rest

RingInv(rf) == Refilled(rf) /\ Holds(rf) /\ PlayedUpTo(rf) /\ Slack(rf)

OrderInv == PlayInv /\ Turn /\ Fresh /\ (running => \E rf \in Nat : RingInv(rf))

(* The cyclic order of the ring. *)
LEMMA RingOrder ==
  ASSUME cur \in BDs
  PROVE  /\ Last \in BDs
         /\ \A b \in BDs : Dist(b) \in 0..(N - 1) /\ (Dist(b) = N - 1 <=> b = Last)
  BY Consts DEF BDs, N, Last, Dist

LEMMA RingTurn ==
  ASSUME cur \in BDs, cur' = (cur + 1) % SB_BUFF_CHUNKS
  PROVE  /\ Last' = cur /\ Dist(cur) = 0
         /\ \A b \in BDs : b # cur => Dist(b)' = Dist(b) - 1
<1>1. cur' = IF cur = N - 1 THEN 0 ELSE cur + 1
  <2>1. CASE cur = N - 1
    BY <2>1, Consts DEF BDs, N
  <2>2. CASE cur # N - 1
    BY <2>2, Consts DEF BDs, N
  <2> QED
    BY <2>1, <2>2
<1> QED
  BY <1>1, Consts DEF BDs, N, Last, Dist

LEMMA InitOrderInv == Init => OrderInv
  BY InitPlayInv DEF Init, OrderInv, Turn, Fresh, Playing

(* A new ring is silent. *)
LEMMA OrderIdle ==
  ASSUME OrderInv, sb_idle
  PROVE  OrderInv'
<1>1. Types /\ Nats
  BY TypeParts DEF OrderInv, PlayInv
<1>2. /\ ioc' = FALSE /\ sbdma_cmplt' = FALSE /\ pc' = "idle" /\ err' = FALSE /\ sbdma_buserr' = FALSE
      /\ sb_reg' = "SB_WAIT" /\ cmplt' = [b \in BDs |-> FALSE]
      /\ cur' = 0 /\ buf' = [b \in BDs |-> Silence]
      /\ sb_playcount' = sb_playcount + 1
      /\ UNCHANGED <<sb_playsize, left, reads, played>>
      /\ reads = 0 /\ played = 0
  BY DEF OrderInv, PlayInv, Phase, Fresh, sb_idle, StartRing, history
<1>3. Turn' /\ Fresh'
  BY <1>2 DEF Turn, Fresh, Pending
<1>4. RingInv(0)'
  <2>1. Refilled(0)'
    <3>1. Rest' = Rest /\ Rest \in Nat
      BY <1>1, <1>2, Consts DEF Rest, Least, Types
    <3> QED
      BY <3>1, <1>2 DEF Refilled, Pending
  <2>2. Holds(0)'
    <3>1. \A b \in BDs : buf'[b] = Silence
      BY <1>2
    <3>2. Silence.chunk = 0
      BY DEF Silence
    <3>3. ASSUME NEW b \in BDs PROVE ChunkAt(Nth(b, 0))' = 0
      <4>1. Dist(b)' = b /\ b \in Nat
        BY <1>2, Consts DEF Dist, BDs, N
      <4>2. Nth(b, 0)' = b + 1 - N
        BY <4>1, Consts DEF Nth, N
      <4>3. (b + 1 - N) \in Int
        BY <4>1, Consts
      <4> QED
        BY <4>2, <4>3, <1>2 DEF ChunkAt
    <3> QED
      BY <3>1, <3>2, <3>3 DEF Holds
  <2>3. PlayedUpTo(0)'
    BY <1>2, Consts DEF PlayedUpTo
  <2>4. Slack(0)'
    <3>1. (sb_playcount - 1) * Chunk >= Rest /\ sb_playcount \in Nat
      BY <1>1 DEF OrderInv, PlayInv, CountInv, sb_idle, Types
    <3>2. Owed' = 0 /\ Rest' = Rest
      BY <1>2 DEF Owed, Rest
    <3>3. sb_playcount' + 0 - reads' - 2 - Owed' = sb_playcount - 1
      BY <3>1, <3>2, <1>2
    <3> QED
      BY <3>1, <3>2, <3>3 DEF Slack
  <2> QED
    BY <2>1, <2>2, <2>3, <2>4 DEF RingInv
<1> QED
  BY <1>3, <1>4, IdleStep DEF OrderInv

(* A buffer is played: of the chunks it is the next one, or silence. *)
LEMMA PlayedNext ==
  ASSUME OrderInv, PlayBuffer, ~disturbed', NEW rf \in Nat, RingInv(rf)
  PROVE  /\ played' = IF rf + 1 < N THEN 0 ELSE Least(reads, rf + 1 - N)
         /\ played' \in {played, played + 1}
<1>1. Types /\ Nats
  BY TypeParts DEF OrderInv, PlayInv
<1>2. ~Pending
  BY DEF PlayBuffer, InTime, Pending
<1>3. cur \in BDs /\ Nth(cur, rf) = rf + 1 - N
  BY <1>1, RingTurn, Consts DEF Types, PlayBuffer, Nth
<1>4. buf[cur].chunk = ChunkAt(rf + 1 - N) /\ (buf[cur].chunk = 0 => buf[cur] = Silence)
  BY <1>2, <1>3 DEF RingInv, Holds
<1>5. played' = IF buf[cur] = Silence THEN played ELSE buf[cur].chunk
  BY DEF PlayBuffer
<1>6. buf[cur] = Silence => buf[cur].chunk = 0
  BY DEF Silence
<1>7. played = IF rf < N THEN 0 ELSE Least(reads, rf - N)
  BY DEF RingInv, PlayedUpTo
<1>8. played' = IF ChunkAt(rf + 1 - N) = 0 THEN played ELSE ChunkAt(rf + 1 - N)
  BY <1>4, <1>5, <1>6
<1>9. reads \in Nat
  BY <1>1 DEF Nats
<1> QED
  BY <1>7, <1>8, <1>9, Consts DEF ChunkAt, Least

LEMMA OrderPlay ==
  ASSUME OrderInv, PlayBuffer, ~disturbed'
  PROVE  OrderInv'
<1>1. Types /\ Nats /\ Bools
  BY TypeParts DEF OrderInv, PlayInv
<1>2. /\ running /\ ~ioc /\ ~sbdma_cmplt /\ pc \in {"idle", "flags"}
      /\ cmplt' = [cmplt EXCEPT ![cur] = TRUE] /\ ioc' = TRUE
      /\ cur' = (cur + 1) % SB_BUFF_CHUNKS
      /\ UNCHANGED <<sbdma_cmplt, sbdma_buserr, sb_playcount, sb_playsize, left, sb_reg, fd,
                     running, err, buf, pc, bd, reads>>
  BY DEF PlayBuffer, InTime, play, flags
<1>3. Last' = cur /\ cur \in BDs
  BY <1>1, <1>2, RingTurn DEF Types
<1>4. ~Pending /\ Pending' /\ Owed = 0 /\ Owed' = 1
  BY <1>2 DEF Pending, Owed
<1>5. Turn'
  <2>1. \A b \in BDs : ~cmplt[b]
    BY <1>2, <1>4 DEF OrderInv, Turn
  <2>2. \A b \in BDs : cmplt'[b] <=> b = cur
    BY <2>1, <1>1, <1>2 DEF Types
  <2> QED
    BY <2>2, <1>2, <1>3, <1>4 DEF OrderInv, Turn
<1>6. Fresh'
  BY <1>2 DEF OrderInv, PlayInv, Phase, Fresh
<1>7. PICK rf \in Nat : RingInv(rf)
  BY <1>2 DEF OrderInv
<1>8. RingInv(rf + 1)'
  <2>1. Rest' = Rest /\ reads \in Nat
    BY <1>1, <1>2 DEF Rest, Nats
  <2>2. Refilled(rf + 1)'
    BY <2>1, <1>2, <1>4, <1>7 DEF RingInv, Refilled
  <2>3. Holds(rf + 1)'
    <3> SUFFICES ASSUME NEW b \in BDs, b # cur
                 PROVE  /\ buf[b].chunk = ChunkAt(Nth(b, rf + 1))'
                        /\ buf[b].chunk = 0 => buf[b] = Silence
      BY <1>2, <1>3, <1>4 DEF Holds, Nth, ChunkAt
    <3>1. Nth(b, rf + 1)' = Nth(b, rf)
      <4>1. Dist(b)' = Dist(b) - 1 /\ Dist(b) \in 0..(N - 1)
        BY <1>2, <1>3, RingTurn, RingOrder
      <4> QED
        BY <4>1, Consts DEF Nth, N
    <3>2. buf[b].chunk = ChunkAt(Nth(b, rf)) /\ (buf[b].chunk = 0 => buf[b] = Silence)
      BY <1>4, <1>7 DEF RingInv, Holds
    <3> QED
      BY <3>1, <3>2, <1>2 DEF ChunkAt
  <2>4. PlayedUpTo(rf + 1)'
    <3>1. played' = IF rf + 1 < N THEN 0 ELSE Least(reads, rf + 1 - N)
      BY <1>7, PlayedNext
    <3>2. PlayedUpTo(rf + 1)' <=> played' = IF rf + 1 < N THEN 0 ELSE Least(reads', rf + 1 - N)
      <4>1. reads' \in Nat
        BY <1>1, <1>2 DEF Nats
      <4> QED
        BY <4>1, Consts DEF PlayedUpTo, N, Least
    <3> QED
      BY <3>1, <3>2, <1>2
  <2>5. Slack(rf + 1)'
    <3>1. sb_playcount' + (rf + 1) - reads' - 2 - Owed' = sb_playcount + rf - reads - 2 - Owed
      BY <1>1, <1>2, <1>4 DEF Types, Nats
    <3> QED
      BY <3>1, <2>1, <1>7 DEF RingInv, Slack
  <2> QED
    BY <2>2, <2>3, <2>4, <2>5 DEF RingInv
<1> QED
  BY <1>5, <1>6, <1>7, <1>8, EngineStep DEF OrderInv

(* The steps that leave the ring, what was read and what is left as they are, and a *)
(* completion counted or outstanding as before.                                     *)
LEMMA OrderKept ==
  ASSUME OrderInv, PlayInv',
         UNCHANGED <<running, cur, buf, reads, played, sb_playsize, left>>,
         running => /\ Pending' <=> Pending
                    /\ \/ sb_playcount' = sb_playcount /\ Owed' = Owed
                       \/ sb_playcount' = sb_playcount - 1 /\ Owed = 1 /\ Owed' = 0,
         Turn', Fresh'
  PROVE  OrderInv'
<1>1. ASSUME running PROVE \E rf \in Nat : RingInv(rf)'
  <2>1. PICK rf \in Nat : RingInv(rf)
    BY <1>1 DEF OrderInv
  <2>2. Types /\ Nats /\ Types'
    BY TypeParts, TypePartsPrime DEF OrderInv, PlayInv
  <2>3. Rest' = Rest /\ (Pending' <=> Pending) /\ Last' = Last
    BY <1>1 DEF Rest, Last
  <2>4. Refilled(rf)'
    BY <2>1, <2>3 DEF RingInv, Refilled
  <2>5. Holds(rf)'
    BY <2>1, <2>3 DEF RingInv, Holds, ChunkAt, Nth, Dist
  <2>6. PlayedUpTo(rf)'
    BY <2>1 DEF RingInv, PlayedUpTo
  <2>7. Slack(rf)'
    <3>2. sb_playcount' + rf - reads' - 2 - Owed' = sb_playcount + rf - reads - 2 - Owed
      <4>1. sb_playcount \in Nat /\ reads \in Nat /\ reads' = reads
        BY <2>2 DEF Types, Nats
      <4>2. CASE sb_playcount' = sb_playcount /\ Owed' = Owed
        BY <4>1, <4>2
      <4>3. CASE sb_playcount' = sb_playcount - 1 /\ Owed = 1 /\ Owed' = 0
        BY <4>1, <4>3
      <4> QED
        BY <1>1, <4>2, <4>3
    <3> QED
      BY <3>2, <2>1, <2>3 DEF RingInv, Slack
  <2> QED
    BY <2>4, <2>5, <2>6, <2>7 DEF RingInv
<1> QED
  BY <1>1 DEF OrderInv

(* The engine stops, or its interrupt is taken. *)
LEMMA OrderIrq ==
  ASSUME OrderInv, BusError \/ onsbdma_irq
  PROVE  OrderInv'
<1>1. PlayInv'
  BY EngineStep DEF OrderInv
<1>2. UNCHANGED <<cur, buf, reads, played, sb_playsize, left, sb_playcount, sb_reg, fd, pc, bd, cmplt>>
  BY DEF BusError, onsbdma_irq, play, ring, history
<1>3. Fresh'
  BY <1>2 DEF OrderInv, Fresh, Playing
<1>4. CASE BusError
  <2>1. running' = FALSE /\ UNCHANGED <<ioc, sbdma_cmplt>>
    BY <1>4 DEF BusError, flags
  <2> QED
    BY <2>1, <1>1, <1>2, <1>3 DEF OrderInv, Turn
<1>5. CASE onsbdma_irq
  <2>1. /\ ioc' = FALSE /\ (sbdma_cmplt' <=> ioc) /\ (sbdma_buserr' <=> err) /\ err' = FALSE
        /\ running' = running /\ (ioc \/ err)
    BY <1>5 DEF onsbdma_irq
  <2>2. CASE ~running
    BY <2>1, <2>2, <1>1, <1>2, <1>3 DEF OrderInv, Turn
  <2>3. CASE running
    <3>1. ioc /\ ~sbdma_cmplt /\ pc \notin {"take", "clear", "read"} /\ ~err
      BY <2>1, <2>3 DEF OrderInv, Turn
    <3>2. Pending /\ Pending' /\ Owed = 1 /\ Owed' = 1
      BY <2>1, <3>1, <1>2 DEF Pending, Owed
    <3>3. Last' = Last
      BY <1>2 DEF Last
    <3>4. Turn'
      BY <2>1, <2>3, <3>1, <3>2, <3>3, <1>2 DEF OrderInv, Turn
    <3> QED
      BY <2>1, <3>2, <3>4, <1>1, <1>2, <1>3, OrderKept
  <2> QED
    BY <2>2, <2>3
<1> QED
  BY <1>4, <1>5

(* The tests of a pass. *)
LEMMA OrderPass ==
  ASSUME OrderInv, sb_poll \/ sb_buserr \/ sb_unblock
  PROVE  OrderInv'
<1>1. PlayInv'
  BY PassStep DEF OrderInv
<1>2. /\ UNCHANGED <<running, cur, buf, reads, played, sb_playsize, left, sb_playcount, fd, bd, cmplt,
                     ioc, err, sbdma_cmplt, sbdma_buserr>>
      /\ pc \notin {"take", "clear", "read"} /\ pc' \notin {"take", "clear", "read"}
      /\ sb_reg' = sb_reg \/ (sbdma_buserr /\ sb_reg' = "SB_CLOSE")
  BY DEF sb_poll, sb_buserr, sb_unblock, play, flags, engine, ring, history
<1>3. Fresh'
  BY <1>2 DEF OrderInv, Fresh, Playing
<1>4. (Pending' <=> Pending) /\ Owed' = Owed /\ Last' = Last
  BY <1>2 DEF Pending, Owed, Last
<1>5. Turn'
  BY <1>2, <1>4 DEF OrderInv, Turn
<1> QED
  BY <1>1, <1>2, <1>3, <1>4, <1>5, OrderKept

LEMMA OrderCmplt ==
  ASSUME OrderInv, sb_cmplt
  PROVE  OrderInv'
<1>1. PlayInv'
  BY CmpltStep DEF OrderInv
<1>2. /\ UNCHANGED <<running, cur, buf, reads, played, sb_playsize, left, fd, bd, cmplt,
                     ioc, err, sbdma_cmplt, sbdma_buserr>>
      /\ pc = "cmplt" /\ sb_reg' \in {"SB_WAIT", "SB_WRITE"}
  BY DEF sb_cmplt, flags, engine, ring, history, OrderInv, PlayInv, Phase
<1>3. Fresh'
  BY <1>2 DEF Fresh
<1>4. \/ sbdma_cmplt /\ sb_playcount' = sb_playcount - 1 /\ pc' = "take"
      \/ ~sbdma_cmplt /\ sb_playcount' = sb_playcount /\ pc' = "unblock"
  <2>1. sb_playcount \in 1..(SizeMod - 1)
    BY TypeParts, Consts DEF OrderInv, PlayInv, Types, Phase, CountInv, sb_cmplt
  <2>2. (sb_playcount + SizeMod - 1) % SizeMod = sb_playcount - 1
    BY <2>1, CountDown
  <2> QED
    BY <2>2 DEF sb_cmplt
<1>5. Last' = Last
  BY <1>2 DEF Last
<1>6. CASE sbdma_cmplt
  <2>1. Pending /\ Pending' /\ Owed = 1 /\ Owed' = 0 /\ pc' = "take" /\ sb_playcount' = sb_playcount - 1
    BY <1>2, <1>4, <1>6 DEF Pending, Owed
  <2>2. Turn'
    BY <2>1, <1>2, <1>5, <1>6 DEF OrderInv, Turn
  <2> QED
    BY <2>1, <2>2, <1>1, <1>2, <1>3, OrderKept
<1>7. CASE ~sbdma_cmplt
  <2>1. (Pending' <=> Pending) /\ Owed = Owed' /\ pc' = "unblock" /\ sb_playcount' = sb_playcount
    BY <1>2, <1>4, <1>7 DEF Pending, Owed
  <2>2. Turn'
    BY <2>1, <1>2, <1>5, <1>7 DEF OrderInv, Turn
  <2> QED
    BY <2>1, <2>2, <1>1, <1>2, <1>3, OrderKept
<1> QED
  BY <1>6, <1>7

(* The scan finds the buffer played last. *)
LEMMA OrderTake ==
  ASSUME OrderInv, sb_take
  PROVE  OrderInv'
<1>1. PlayInv'
  BY TakeStep DEF OrderInv
<1>2. pc = "take" /\ ~ioc
  BY DEF sb_take, OrderInv, Turn
<1>3. CASE Completed = {}
  <2>1. running' = FALSE /\ ioc' = FALSE /\ pc' = "unblock" /\ fd' = NoFd
    BY <1>3 DEF sb_take, CloseAndInit
  <2> QED
    BY <2>1, <1>1 DEF OrderInv, Turn, Fresh, Playing
<1>4. CASE Completed # {}
  <2>1. /\ bd' = FirstOf(Completed)
        /\ sb_reg' = "SB_WAIT" /\ pc' = "clear"
        /\ UNCHANGED <<fd, sb_playsize, sb_playcount, left, running, cur, ioc, err, cmplt,
                       sbdma_cmplt, sbdma_buserr, buf, reads, played>>
    BY <1>4 DEF sb_take, engine, flags, ring, history
  <2>2. Fresh'
    BY <2>1 DEF Fresh
  <2>3. Pending /\ Pending' /\ Owed' = Owed /\ Last' = Last
    BY <2>1, <1>2 DEF Pending, Owed, Last
  <2>4. running => bd' = Last
    BY <2>1, <1>4, FirstCompleted DEF OrderInv, Turn, Completed
  <2>5. Turn'
    BY <2>1, <2>3, <2>4, <1>2 DEF OrderInv, Turn
  <2> QED
    BY <2>1, <2>2, <2>3, <2>5, <1>1, OrderKept
<1> QED
  BY <1>3, <1>4

(* It is handed out. *)
LEMMA OrderClear ==
  ASSUME OrderInv, sb_clear
  PROVE  OrderInv'
<1>1. PlayInv'
  BY ClearStep DEF OrderInv
<1>2. /\ pc = "clear" /\ ~ioc /\ pc' = "read"
      /\ cmplt' = [cmplt EXCEPT ![bd] = FALSE] /\ sbdma_cmplt' = FALSE
      /\ UNCHANGED <<fd, sb_reg, sb_playsize, sb_playcount, left, running, cur, ioc, err, bd,
                     sbdma_buserr, buf, reads, played>>
  BY DEF sb_clear, OrderInv, Turn, play, engine, history
<1>3. Fresh'
  BY <1>2 DEF OrderInv, PlayInv, Phase, Fresh
<1>4. Pending /\ Pending' /\ Owed' = Owed /\ Last' = Last
  BY <1>2 DEF Pending, Owed, Last
<1>5. running => bd = Last
  BY <1>2 DEF OrderInv, Turn
<1>6. ASSUME running, NEW b \in BDs PROVE ~cmplt'[b]
  <2>1. cmplt \in [BDs -> BOOLEAN]
    BY TypeParts DEF OrderInv, PlayInv, Types
  <2>2. CASE b = Last
    BY <2>1, <2>2, <1>2, <1>5, <1>6
  <2>3. CASE b # Last
    <3>1. ~cmplt[b]
      BY <2>3, <1>6 DEF OrderInv, Turn
    <3> QED
      BY <3>1, <2>1, <2>3, <1>2, <1>5, <1>6
  <2> QED
    BY <2>2, <2>3
<1>7. Turn'
  BY <1>2, <1>4, <1>5, <1>6 DEF OrderInv, Turn
<1> QED
  BY <1>1, <1>2, <1>3, <1>4, <1>7, OrderKept

(* The buffer played last is refilled with the next chunk, or with silence when nothing is *)
(* left.                                                                                   *)
LEMMA RefillRing ==
  ASSUME OrderInv, NEW n \in 0..Chunk, NEW failed \in BOOLEAN, sb_write(n, failed),
         ~(n = 0 /\ sb_playcount = 0), running, NEW rf \in Nat, RingInv(rf)
  PROVE  RingInv(rf)'
<1>1. Types /\ Nats /\ PlayInv
  BY TypeParts DEF OrderInv, PlayInv
<1>2. /\ pc = "read" /\ pc' = "unblock" /\ bd = Last /\ ~ioc /\ ~sbdma_cmplt
      /\ sb_playsize' = sb_playsize - n
      /\ reads' = reads + (IF n > 0 THEN 1 ELSE 0)
      /\ buf' = [buf EXCEPT ![bd] = IF n = 0 THEN Silence
                                    ELSE [chunk |-> reads + 1, units |-> n]]
      /\ UNCHANGED <<cur, ioc, sbdma_cmplt, played, sb_playcount>>
  BY DEF sb_write, Refill, OrderInv, Turn, flags, engine
<1>3. /\ sb_playcount > 0 /\ n <= ReadSize /\ Rest' \in Nat
      /\ Rest' = 0 \/ (n = Chunk /\ Rest' = Rest - Chunk)
  BY <1>1, WriteRest, Zenon
<1>4. Pending /\ ~Pending' /\ Owed = 0 /\ Owed' = 0 /\ Last' = Last
  BY <1>2 DEF Pending, Owed, Last
<1>5. reads \in Nat /\ rf > reads /\ rf \in Nat /\ Rest \in Nat /\ n <= Rest /\ n \in Nat
      /\ (Rest > 0 => rf = reads + 1)
  <2>1. Rest \in Nat /\ ReadSize <= Rest /\ ReadSize \in 0..Chunk
    BY <1>1, ReadFacts
  <2>2. reads \in Nat
    BY <1>1 DEF Nats
  <2>3. reads < rf /\ (Rest > 0 => rf = reads + 1)
    BY <1>4 DEF RingInv, Refilled
  <2> QED
    BY <2>1, <2>2, <2>3, <1>3, Consts
<1>6. Last \in BDs /\ \A b \in BDs : Dist(b) \in 0..(N - 1) /\ (Dist(b) = N - 1 <=> b = Last)
  BY <1>1, RingOrder DEF Types
<1>7. \A b \in BDs : Nth(b, rf)' = Nth(b, rf) /\ Nth(b, rf) = rf + 1 + Dist(b) - N
  BY <1>2 DEF Nth, Dist, N
<1>8. /\ Nth(Last, rf) = rf
      /\ \A b \in BDs : b # Last => Nth(b, rf) \in Int /\ Nth(b, rf) < rf
  BY <1>6, <1>7, Consts
<1>9. buf'[Last] = (IF n = 0 THEN Silence ELSE [chunk |-> reads + 1, units |-> n])
      /\ \A b \in BDs : b # Last => buf'[b] = buf[b]
  BY <1>1, <1>2, <1>6 DEF Types
<1>10. Refilled(rf)'
  BY <1>2, <1>3, <1>4, <1>5, Consts DEF Refilled
<1>11. Holds(rf)'
  <2>1. ASSUME NEW b \in BDs, b # Last
        PROVE  buf'[b].chunk = ChunkAt(Nth(b, rf))' /\ (buf'[b].chunk = 0 => buf'[b] = Silence)
    <3>1. buf[b].chunk = ChunkAt(Nth(b, rf)) /\ (buf[b].chunk = 0 => buf[b] = Silence)
      BY <2>1, <1>4 DEF RingInv, Holds
    <3>2. ChunkAt(Nth(b, rf))' = ChunkAt(Nth(b, rf))
      <4>1. Nth(b, rf)' = Nth(b, rf) /\ Nth(b, rf) \in Int /\ Nth(b, rf) < rf
        BY <2>1, <1>7, <1>8
      <4>2. CASE n = 0
        BY <4>1, <4>2, <1>2, <1>5 DEF ChunkAt
      <4>3. CASE n # 0
        <5>1. rf = reads + 1 /\ reads' = reads + 1
          BY <4>3, <1>2, <1>5
        <5> QED
          BY <4>1, <5>1, <1>5 DEF ChunkAt
      <4> QED
        BY <4>2, <4>3
    <3> QED
      BY <2>1, <3>1, <3>2, <1>9
  <2>2. buf'[Last].chunk = ChunkAt(Nth(Last, rf))' /\ (buf'[Last].chunk = 0 => buf'[Last] = Silence)
    <3>1. Nth(Last, rf)' = rf
      BY <1>4, <1>6, <1>7, <1>8
    <3>2. CASE n = 0
      <4>1. reads' = reads /\ buf'[Last] = Silence /\ Silence.chunk = 0
        BY <3>2, <1>2, <1>5, <1>9 DEF Silence
      <4> QED
        BY <3>1, <4>1, <1>5 DEF ChunkAt
    <3>3. CASE n # 0
      <4>1. rf = reads + 1 /\ reads' = reads + 1
        BY <3>3, <1>2, <1>5
      <4>2. buf'[Last].chunk = reads + 1
        BY <3>3, <1>9
      <4> QED
        BY <3>1, <4>1, <4>2, <1>5 DEF ChunkAt
    <3> QED
      BY <3>2, <3>3
  <2> QED
    BY <2>1, <2>2, <1>4 DEF Holds
<1>12. PlayedUpTo(rf)'
  <2>1. played = IF rf < N THEN 0 ELSE Least(reads, rf - N)
    BY DEF RingInv, PlayedUpTo
  <2>2. CASE n = 0
    <3>1. reads' = reads
      BY <2>2, <1>2, <1>5
    <3> QED
      BY <2>1, <3>1, <1>2, <1>5, Consts DEF PlayedUpTo, Least, N
  <2>3. CASE n # 0
    <3>1. rf = reads + 1 /\ reads' = reads + 1
      BY <2>3, <1>2, <1>5
    <3> QED
      BY <2>1, <3>1, <1>2, <1>5, Consts DEF PlayedUpTo, Least, N
  <2> QED
    BY <2>2, <2>3
<1>13. Slack(rf)'
  <2> DEFINE x == sb_playcount + rf - reads - 2
  <2>1. sb_playcount \in Nat /\ x \in Int
    BY <1>1, <1>5 DEF Types
  <2>2. x * Chunk >= Rest
    <3>1. sb_playcount + rf - reads - 2 - Owed = x
      BY <2>1, <1>4, <1>5
    <3> QED
      BY <3>1 DEF RingInv, Slack
  <2>3. CASE n = 0
    <3>1. Rest' = 0 /\ reads' = reads
      BY <2>3, <1>2, <1>3, <1>5, Consts
    <3>2. sb_playcount' + rf - reads' - 2 - Owed' = x
      BY <3>1, <2>1, <1>2, <1>4, <1>5
    <3> HIDE DEF x
    <3>3. x * Chunk \in Int
      BY <2>1, Consts
    <3>4. x * Chunk >= Rest'
      BY <3>1, <3>3, <2>2, <1>5
    <3> QED
      BY <3>2, <3>4 DEF Slack
  <2>4. CASE n # 0
    <3>1. reads' = reads + 1 /\ n > 0
      BY <2>4, <1>2, <1>5
    <3>2. sb_playcount' + rf - reads' - 2 - Owed' = x - 1
      BY <3>1, <2>1, <1>2, <1>4, <1>5
    <3> HIDE DEF x
    <3>3. x * Chunk > 0 /\ x * Chunk \in Int
      BY <3>1, <2>1, <2>2, <1>5, Consts
    <3>4. x >= 1
      BY <3>3, <2>1, Consts
    <3>5. (x - 1) * Chunk = x * Chunk - Chunk /\ (x - 1) * Chunk >= 0
      BY <3>4, <2>1, Consts
    <3>6. (x - 1) * Chunk >= Rest'
      BY <3>3, <3>5, <2>2, <1>3, <1>5, Consts
    <3> QED
      BY <3>2, <3>6 DEF Slack
  <2> QED
    BY <2>3, <2>4
<1> QED
  BY <1>10, <1>11, <1>12, <1>13 DEF RingInv

LEMMA OrderWrite ==
  ASSUME OrderInv, NEW n \in 0..Chunk, NEW failed \in BOOLEAN, sb_write(n, failed)
  PROVE  OrderInv'
<1>1. PlayInv'
  BY WriteStep, Zenon DEF OrderInv
<1>2. pc = "read" /\ ~ioc /\ ~sbdma_cmplt /\ pc' = "unblock" /\ UNCHANGED <<sbdma_cmplt, sbdma_buserr, cmplt, bd>>
  BY DEF sb_write, OrderInv, Turn, flags
<1>3. CASE n = 0 /\ sb_playcount = 0
  <2>1. running' = FALSE /\ ioc' = FALSE /\ fd' = NoFd
    BY <1>3 DEF sb_write, CloseAndInit
  <2> QED
    BY <2>1, <1>1, <1>2 DEF OrderInv, Turn, Fresh, Playing
<1>4. CASE ~(n = 0 /\ sb_playcount = 0)
  <2>1. UNCHANGED <<running, ioc, err, cur, sb_reg, fd>>
    BY <1>4 DEF sb_write, engine
  <2>2. sb_reg = "SB_WAIT"
    BY <1>2 DEF OrderInv, PlayInv, Phase
  <2>3. ~Pending'
    BY <2>1, <1>2 DEF Pending
  <2>4. Turn'
    BY <2>1, <2>2, <2>3, <1>2 DEF OrderInv, Turn
  <2>5. Fresh'
    BY <2>1, <2>2 DEF Fresh
  <2>6. running => \E rf \in Nat : RingInv(rf)'
    <3> SUFFICES ASSUME running PROVE \E rf \in Nat : RingInv(rf)'
      OBVIOUS
    <3>1. PICK rf \in Nat : RingInv(rf)
      BY DEF OrderInv
    <3>2. RingInv(rf)'
      BY <3>1, <1>4, RefillRing, Zenon
    <3> QED
      BY <3>2
  <2> QED
    BY <1>1, <2>1, <2>4, <2>5, <2>6 DEF OrderInv
<1> QED
  BY <1>3, <1>4

(* A command that finds the player idle starts a play that nothing disturbs yet, whatever *)
(* happened to those before it.                                                          *)
LEMMA OrderCommand ==
  ASSUME PlayInv, ~Playing, NEW size \in Sizes, NEW length \in Sizes,
         sb_m(size, length) \/ sb_m_unread(size), PlayInv'
  PROVE  OrderInv'
<1>1. /\ reads' = 0 /\ played' = 0 /\ pc' = "idle"
      /\ UNCHANGED <<sb_reg, running, ioc, err, pc>>
  BY DEF sb_m, sb_m_unread, NewPlay, engine
<1>2. ~running /\ ~ioc
  BY DEF PlayInv, Phase
<1> QED
  BY <1>1, <1>2 DEF OrderInv, Turn, Fresh

(* The steps of a play that is not disturbed *)
LEMMA NextOrderInv ==
  ASSUME OrderInv, [Next]_vars, plays' = plays, ~disturbed'
  PROVE  OrderInv'
<1>1. PlayInv'
  BY NextPlayInv DEF OrderInv
<1>2. CASE sb_close
  <2>1. running' = FALSE /\ ioc' = FALSE /\ fd' = NoFd /\ UNCHANGED pc /\ pc = "idle"
    BY <1>2 DEF sb_close, CloseAndInit
  <2> QED
    BY <2>1, <1>1 DEF OrderInv, Turn, Fresh, Playing
<1>3. CASE UNCHANGED vars
  <2>1. UNCHANGED <<running, cur, buf, reads, played, sb_playsize, left, sb_playcount, fd, bd, cmplt,
                    ioc, err, sbdma_cmplt, sbdma_buserr, pc, sb_reg>>
    BY <1>3 DEF vars, table, play, flags, engine, ring, history
  <2>2. (Pending' <=> Pending) /\ Owed' = Owed /\ Last' = Last
    BY <2>1 DEF Pending, Owed, Last
  <2>3. Turn' /\ Fresh'
    BY <2>1, <2>2 DEF OrderInv, Turn, Fresh, Playing
  <2> QED
    BY <1>1, <2>1, <2>2, <2>3, OrderKept
<1>4. ASSUME NEW size \in Sizes, NEW length \in Sizes, sb_m(size, length) \/ sb_m_unread(size)
      PROVE  FALSE
  BY <1>4, TypeParts DEF sb_m, sb_m_unread, NewPlay, OrderInv, PlayInv, Nats
<1>5. ASSUME NEW n \in 0..Chunk, NEW failed \in BOOLEAN, sb_write(n, failed) PROVE OrderInv'
  BY <1>5, OrderWrite, Zenon
<1> QED
  BY <1>2, <1>3, <1>4, <1>5, OrderIdle, OrderPlay, OrderIrq, OrderPass, OrderCmplt,
     OrderTake, OrderClear DEF Next, service

(* What begins or ends the undisturbed part of a play *)
LEMMA Disturbance ==
  ASSUME PlayInv, [Next]_vars, ~disturbed'
  PROVE  \/ plays' = plays /\ ~disturbed
         \/ /\ ~Playing
            /\ \E size, length \in Sizes : sb_m(size, length) \/ sb_m_unread(size)
<1>1. CASE service \/ BusError \/ onsbdma_irq \/ UNCHANGED vars
  <2>1. disturbed' = disturbed /\ plays' = plays
    BY <1>1 DEF service, sb_idle, sb_poll, sb_buserr, sb_cmplt, sb_take, sb_clear, sb_unblock,
                sb_close, sb_write, BusError, onsbdma_irq, vars, history
  <2> QED
    BY <2>1
<1>2. CASE PlayBuffer
  BY <1>2 DEF PlayBuffer
<1>3. ASSUME NEW size \in Sizes, NEW length \in Sizes, sb_m(size, length) \/ sb_m_unread(size)
      PROVE  ~Playing
  BY <1>3 DEF sb_m, sb_m_unread, NewPlay
<1>4. ASSUME NEW size \in Sizes, sb_m_unread(size)
      PROVE  ~Playing /\ \E s, l \in Sizes : sb_m(s, l) \/ sb_m_unread(s)
  BY <1>4, <1>3
<1> QED
  BY <1>1, <1>2, <1>3, <1>4 DEF Next

Undisturbed == PlayInv /\ (~disturbed => OrderInv)

LEMMA NextUndisturbed == Undisturbed /\ [Next]_vars => Undisturbed'
<1> SUFFICES ASSUME Undisturbed, [Next]_vars PROVE Undisturbed'
  OBVIOUS
<1>1. PlayInv /\ PlayInv'
  BY NextPlayInv DEF Undisturbed
<1>2. ASSUME ~disturbed' PROVE OrderInv'
  <2>1. CASE plays' = plays /\ ~disturbed
    BY <2>1, <1>2, NextOrderInv DEF Undisturbed
  <2>2. CASE /\ ~Playing
             /\ \E size, length \in Sizes : sb_m(size, length) \/ sb_m_unread(size)
    BY <2>2, <1>1, OrderCommand
  <2> QED
    BY <2>1, <2>2, <1>1, <1>2, Disturbance
<1> QED
  BY <1>1, <1>2 DEF Undisturbed

LEMMA InitUndisturbed == Init => Undisturbed
  BY InitOrderInv DEF Undisturbed, OrderInv

(* The DMA plays the chunks of the file in order, each once, for every number of buffers and *)
(* every file, with bus errors and disk errors, as long as the service refills each          *)
(* buffer before the next one is played and no second play is started; plays disturbed       *)
(* before do not matter.                                                                     *)
THEOREM ChunksInOrder == Spec => PlayedInOrder
<1>1. Undisturbed /\ [Next]_vars
      => [plays' = plays /\ ~disturbed' /\ played' # played => played' = played + 1]_vars
  <2> SUFFICES ASSUME Undisturbed, Next, plays' = plays, ~disturbed', played' # played
               PROVE  played' = played + 1
    BY DEF vars, history
  <2>1. Nats /\ PlayInv
    BY TypeParts DEF Undisturbed, PlayInv
  <2>2. PlayBuffer
    <3>1. ASSUME NEW size, NEW length, sb_m(size, length) \/ sb_m_unread(size) PROVE FALSE
      BY <3>1, <2>1 DEF sb_m, sb_m_unread, NewPlay, Nats
    <3>2. CASE service
      BY <3>2 DEF service, sb_idle, sb_poll, sb_buserr, sb_cmplt, sb_take, sb_clear, sb_unblock,
                  sb_close, sb_write, history
    <3>3. CASE BusError \/ onsbdma_irq
      BY <3>3 DEF BusError, onsbdma_irq, history
    <3> QED
      BY <3>1, <3>2, <3>3 DEF Next
  <2>3. OrderInv
    BY <2>2 DEF PlayBuffer, Undisturbed
  <2>4. PICK rf \in Nat : RingInv(rf)
    BY <2>2, <2>3 DEF PlayBuffer, OrderInv
  <2> QED
    BY <2>2, <2>3, <2>4, PlayedNext
<1>2. Undisturbed /\ [Next]_vars => Undisturbed'
  BY NextUndisturbed
<1> QED
  BY <1>1, <1>2, InitUndisturbed, PTL DEF Spec, PlayedInOrder

-----------------------------------------------------------------------------
(* Every unit is heard before the playback is said to be done.  sb_playcount allows *)
(* for two buffers of silence (Slack), so this needs a ring of two, as the code     *)
(* has it, or of one.                                                               *)

Unheard(b) == IF b = Last /\ Pending THEN 0 ELSE buf[b].units

(* Units read and not yet heard, in a ring of at most two buffers *)
InRing == Unheard(0) + (IF N = 2 THEN Unheard(1) ELSE 0)

(* Unless there was an error, a playback in progress has the engine running, and every unit *)
(* asked for is heard, in the ring, or still to be read.                                    *)
HeardInv ==
  /\ errors = 0 /\ sb_reg # "SB_IDLE" => running
  /\ sb_reg = "SB_IDLE" /\ Playing => heard = 0 /\ asked = Rest
  /\ errors = 0 /\ running => heard + InRing + Rest = asked

LEMMA UnheardType ==
  ASSUME OrderInv, NEW b \in BDs
  PROVE  Unheard(b) \in Nat /\ buf[b].units \in Nat
<1>1. buf[b] \in [chunk : Nat, units : 0..Chunk]
  BY TypeParts DEF OrderInv, PlayInv, Types
<1> QED
  BY <1>1, Consts DEF Unheard

LEMMA SmallRing ==
  ASSUME N <= 2
  PROVE  (N = 1 /\ BDs = {0}) \/ (N = 2 /\ BDs = {0, 1})
<1>1. N = 1 \/ N = 2
  BY Consts
<1> QED
  BY <1>1 DEF BDs, N

(* The steps that neither play nor refill *)
LEMMA HeardKept ==
  ASSUME HeardInv,
         UNCHANGED <<running, cur, buf, heard, asked, errors, sb_playsize, left, fd>>,
         running => (Pending' <=> Pending),
         sb_reg' = "SB_IDLE" <=> sb_reg = "SB_IDLE"
  PROVE  HeardInv'
<1>1. Rest' = Rest /\ (Playing' <=> Playing) /\ Last' = Last
  BY DEF Rest, Playing, Last
<1>2. ASSUME running PROVE InRing' = InRing
  <2>1. Pending' <=> Pending
    BY <1>2
  <2>2. Unheard(0)' = Unheard(0) /\ Unheard(1)' = Unheard(1)
    BY <2>1, <1>1 DEF Unheard
  <2> QED
    BY <2>2 DEF InRing, N
<1> QED
  BY <1>1, <1>2 DEF HeardInv

LEMMA HeardPlay ==
  ASSUME N <= 2, OrderInv, HeardInv, PlayBuffer, ~disturbed'
  PROVE  HeardInv'
<1>1. /\ running /\ ~ioc /\ ~sbdma_cmplt /\ pc \in {"idle", "flags"} /\ ioc' = TRUE
      /\ cur' = (cur + 1) % SB_BUFF_CHUNKS
      /\ heard' = heard + buf[cur].units
      /\ UNCHANGED <<running, buf, asked, errors, sb_playsize, left, sb_reg, fd>>
  BY DEF PlayBuffer, InTime, play
<1>2. cur \in BDs /\ Last' = cur /\ heard \in Nat
  BY <1>1, TypeParts, RingTurn DEF OrderInv, PlayInv, Types, Nats
<1>3. ~Pending /\ Pending' /\ Rest' = Rest /\ sb_reg # "SB_IDLE"
  BY <1>1 DEF Pending, Rest, OrderInv, PlayInv, Phase
<1>4. Unheard(cur) = buf[cur].units /\ Unheard(cur) \in Nat
  BY <1>2, <1>3, UnheardType DEF Unheard
<1>5. \A b \in BDs : Unheard(b)' = IF b = cur THEN 0 ELSE Unheard(b)
  BY <1>1, <1>2, <1>3 DEF Unheard
<1>6. heard' + InRing' = heard + InRing
  <2>1. CASE N = 1 /\ BDs = {0}
    <3>1. cur = 0 /\ InRing = Unheard(0) /\ InRing' = Unheard(0)' /\ Unheard(0)' = 0
      <4>1. cur = 0 /\ Unheard(0)' = 0 /\ Unheard(0) \in Nat
        BY <2>1, <1>2, <1>4, <1>5
      <4> QED
        BY <2>1, <4>1 DEF InRing, N
    <3> QED
      BY <3>1, <1>1, <1>2, <1>4
  <2>2. CASE N = 2 /\ BDs = {0, 1}
    <3>1. InRing = Unheard(0) + Unheard(1) /\ InRing' = Unheard(0)' + Unheard(1)'
      BY <2>2 DEF InRing, N
    <3>2. Unheard(0) \in Nat /\ Unheard(1) \in Nat
      BY <2>2, UnheardType
    <3>3. CASE cur = 0
      <4>1. Unheard(0)' = 0 /\ Unheard(1)' = Unheard(1)
        BY <2>2, <3>3, <1>5
      <4> QED
        BY <3>1, <3>2, <3>3, <4>1, <1>1, <1>2, <1>4
    <3>4. CASE cur = 1
      <4>1. Unheard(1)' = 0 /\ Unheard(0)' = Unheard(0)
        BY <2>2, <3>4, <1>5
      <4> QED
        BY <3>1, <3>2, <3>4, <4>1, <1>1, <1>2, <1>4
    <3> QED
      BY <2>2, <3>3, <3>4, <1>2
  <2> QED
    BY <2>1, <2>2, SmallRing
<1> QED
  BY <1>1, <1>3, <1>6 DEF HeardInv

(* What is read is put into the buffer played last. *)
LEMMA HeardRefill ==
  ASSUME N <= 2, OrderInv, HeardInv, NEW n \in 0..Chunk, NEW failed \in BOOLEAN,
         sb_write(n, failed), ~(n = 0 /\ sb_playcount = 0), running, errors' = 0
  PROVE  heard' + InRing' + Rest' = asked' /\ errors = 0
<1>1. /\ pc = "read" /\ pc' = "unblock" /\ bd = Last /\ ~ioc /\ ~sbdma_cmplt
      /\ sb_playsize' = sb_playsize - n
      /\ buf' = [buf EXCEPT ![bd] = IF n = 0 THEN Silence
                                    ELSE [chunk |-> reads + 1, units |-> n]]
      /\ UNCHANGED <<cur, ioc, sbdma_cmplt, heard, asked>>
  BY DEF sb_write, Refill, OrderInv, Turn, flags, engine
<1>2. Types /\ Nats /\ PlayInv
  BY TypeParts DEF OrderInv, PlayInv
<1>3. ~failed /\ errors = 0
  BY <1>2 DEF sb_write, Nats
<1>4. n = ReadSize /\ left' = left - n
  BY <1>3 DEF sb_write
<1>5. Rest' = Rest - n /\ Rest \in Nat /\ n \in Nat
  <2>1. /\ ReadSize \in 0..Chunk /\ ReadSize <= sb_playsize /\ ReadSize <= left /\ Rest \in Nat
    BY <1>2, ReadFacts
  <2>2. sb_playsize \in Nat /\ left \in Nat /\ n \in Nat /\ n <= sb_playsize /\ n <= left
    BY <2>1, <1>2, <1>4, Consts DEF Types
  <2> QED
    BY <2>1, <2>2, <1>1, <1>4 DEF Rest, Least
<1>6. Pending /\ ~Pending' /\ Last' = Last /\ Last \in BDs
  BY <1>1, <1>2, RingOrder DEF Pending, Last, Types
<1>7. \A b \in BDs : Unheard(b)' = IF b = Last THEN n ELSE Unheard(b)
  <2>1. buf'[Last].units = n
    BY <1>1, <1>2, <1>6 DEF Types, Silence
  <2>2. \A b \in BDs : b # Last => buf'[b] = buf[b]
    BY <1>1, <1>2, <1>6 DEF Types
  <2> QED
    BY <2>1, <2>2, <1>6 DEF Unheard
<1>8. Unheard(Last) = 0
  BY <1>6 DEF Unheard
<1>9. InRing' = InRing + n /\ InRing \in Nat
  <2>1. CASE N = 1 /\ BDs = {0}
    <3>1. Last = 0 /\ Unheard(0) = 0 /\ Unheard(0)' = n
      BY <2>1, <1>6, <1>7, <1>8
    <3> QED
      BY <2>1, <3>1, <1>5 DEF InRing, N
  <2>2. CASE N = 2 /\ BDs = {0, 1}
    <3>1. InRing = Unheard(0) + Unheard(1) /\ InRing' = Unheard(0)' + Unheard(1)'
      BY <2>2 DEF InRing, N
    <3>2. Unheard(0) \in Nat /\ Unheard(1) \in Nat
      BY <2>2, UnheardType
    <3>3. CASE Last = 0
      <4>1. Unheard(0)' = n /\ Unheard(1)' = Unheard(1) /\ Unheard(0) = 0
        BY <2>2, <3>3, <1>7, <1>8
      <4> QED
        BY <3>1, <3>2, <4>1, <1>5
    <3>4. CASE Last = 1
      <4>1. Unheard(1)' = n /\ Unheard(0)' = Unheard(0) /\ Unheard(1) = 0
        BY <2>2, <3>4, <1>7, <1>8
      <4> QED
        BY <3>1, <3>2, <4>1, <1>5
    <3> QED
      BY <2>2, <3>3, <3>4, <1>6
  <2> QED
    BY <2>1, <2>2, SmallRing
<1>10. heard + InRing + Rest = asked /\ heard \in Nat
  BY <1>2, <1>3 DEF HeardInv, Nats
<1> QED
  BY <1>1, <1>3, <1>5, <1>9, <1>10

LEMMA HeardWrite ==
  ASSUME N <= 2, OrderInv, HeardInv, NEW n \in 0..Chunk, NEW failed \in BOOLEAN,
         sb_write(n, failed)
  PROVE  HeardInv'
<1>1. sb_reg = "SB_WAIT" /\ errors \in Nat
  BY TypeParts DEF sb_write, OrderInv, PlayInv, Phase, Nats
<1>2. CASE n = 0 /\ sb_playcount = 0
  <2>1. running' = FALSE /\ sb_reg' = "SB_IDLE" /\ fd' = NoFd
    BY <1>2 DEF sb_write, CloseAndInit
  <2> QED
    BY <2>1 DEF HeardInv, Playing
<1>3. CASE ~(n = 0 /\ sb_playcount = 0)
  <2>1. UNCHANGED <<running, sb_reg>>
    BY <1>3 DEF sb_write, engine
  <2>2. errors' = 0 => errors = 0
    BY <1>1 DEF sb_write
  <2>3. running /\ errors' = 0 => heard' + InRing' + Rest' = asked'
    BY <1>3, HeardRefill, Zenon
  <2> QED
    BY <2>1, <2>2, <2>3, <1>1 DEF HeardInv
<1> QED
  BY <1>2, <1>3

LEMMA InitHeardInv == Init => HeardInv
  BY DEF Init, HeardInv, Playing

LEMMA HeardIdle ==
  ASSUME N <= 2, OrderInv, HeardInv, sb_idle
  PROVE  HeardInv'
<1>1. /\ heard = 0 /\ asked = Rest
      /\ running' = TRUE /\ sb_reg' = "SB_WAIT" /\ buf' = [b \in BDs |-> Silence]
      /\ UNCHANGED <<heard, asked, sb_playsize, left>>
  BY DEF HeardInv, OrderInv, PlayInv, Phase, sb_idle, StartRing, history
<1>2. Rest' = Rest /\ Rest \in Nat
  BY <1>1, ReadFacts DEF Rest, OrderInv
<1>3. \A b \in BDs : Unheard(b)' = 0
  BY <1>1 DEF Unheard, Silence
<1>4. InRing' = 0
  <2>1. CASE N = 1 /\ BDs = {0}
    <3>1. Unheard(0)' = 0
      BY <2>1, <1>3
    <3> QED
      BY <2>1, <3>1 DEF InRing, N
  <2>2. CASE N = 2 /\ BDs = {0, 1}
    <3>1. Unheard(0)' = 0 /\ Unheard(1)' = 0
      BY <2>2, <1>3
    <3> QED
      BY <2>2, <3>1 DEF InRing, N
  <2> QED
    BY <2>1, <2>2, SmallRing
<1> QED
  BY <1>1, <1>2, <1>4 DEF HeardInv

(* A stopped engine: the bus error is counted, the end of a playback leaves it idle. *)
LEMMA HeardStopped ==
  ASSUME HeardInv, running' = FALSE, errors' # 0 \/ sb_reg' = "SB_IDLE",
         \/ fd' = NoFd
         \/ sb_reg' # "SB_IDLE"
  PROVE  HeardInv'
  BY DEF HeardInv, Playing

LEMMA HeardNext ==
  ASSUME N <= 2, OrderInv, HeardInv, [Next]_vars, plays' = plays, ~disturbed'
  PROVE  HeardInv'
<1>0. Types /\ Nats /\ Phase /\ Turn
  BY TypeParts DEF OrderInv, PlayInv
<1>1. CASE BusError
  <2>1. running' = FALSE /\ errors' = errors + 1 /\ sb_reg' = sb_reg /\ running
    BY <1>1 DEF BusError, play
  <2>2. errors' # 0 /\ sb_reg' # "SB_IDLE"
    BY <2>1, <1>0 DEF Nats, Phase
  <2> QED
    BY <2>1, <2>2, HeardStopped
<1>2. CASE sb_close
  BY <1>2, HeardStopped DEF sb_close, CloseAndInit
<1>3. CASE sb_take
  <2>1. CASE Completed = {}
    BY <1>3, <2>1, HeardStopped DEF sb_take, CloseAndInit
  <2>2. CASE Completed # {}
    <3>1. /\ UNCHANGED <<running, cur, buf, heard, asked, errors, sb_playsize, left, fd>>
          /\ sb_reg' = "SB_WAIT" /\ pc = "take" /\ pc' = "clear"
      BY <1>3, <2>2 DEF sb_take, engine, ring, history
    <3>2. Pending /\ Pending' /\ sb_reg # "SB_IDLE"
      BY <3>1, <1>0 DEF Pending, Phase
    <3> QED
      BY <3>1, <3>2, HeardKept
  <2> QED
    BY <2>1, <2>2
<1>4. CASE onsbdma_irq
  <2>1. /\ UNCHANGED <<running, cur, buf, heard, asked, errors, sb_playsize, left, fd, sb_reg, pc>>
        /\ ioc' = FALSE /\ (sbdma_cmplt' <=> ioc) /\ (ioc \/ err)
    BY <1>4 DEF onsbdma_irq, play, ring, history
  <2>2. running => ~err
    BY <1>0 DEF Turn
  <2>3. running => (Pending' <=> Pending)
    BY <2>1, <2>2 DEF Pending
  <2> QED
    BY <2>1, <2>3, HeardKept
<1>5. CASE sb_poll \/ sb_buserr \/ sb_unblock \/ sb_cmplt
  <2>1. /\ UNCHANGED <<running, cur, buf, heard, asked, errors, sb_playsize, left, fd, ioc, sbdma_cmplt>>
        /\ pc \notin {"take", "clear", "read"} /\ (pc' = "take" => sbdma_cmplt)
        /\ pc' \notin {"clear", "read"}
        /\ sb_reg' = sb_reg \/ sb_reg' # "SB_IDLE"
    BY <1>5 DEF sb_poll, sb_buserr, sb_unblock, sb_cmplt, play, flags, engine, ring, history
  <2>2. Pending' <=> Pending
    BY <2>1 DEF Pending
  <2>3. sb_reg = "SB_IDLE" => sb_reg' = sb_reg
    BY <1>5, <1>0 DEF sb_poll, sb_buserr, sb_unblock, sb_cmplt, play, Phase
  <2>4. sb_reg' = "SB_IDLE" <=> sb_reg = "SB_IDLE"
    BY <2>1, <2>3
  <2> QED
    BY <2>1, <2>2, <2>4, HeardKept
<1>6. ASSUME NEW size \in Sizes, NEW length \in Sizes, sb_m(size, length) \/ sb_m_unread(size)
      PROVE  FALSE
  BY <1>6, <1>0 DEF sb_m, sb_m_unread, NewPlay, Nats
<1>7. CASE sb_clear
  <2>1. /\ UNCHANGED <<running, cur, buf, heard, asked, errors, sb_playsize, left, fd, sb_reg>>
        /\ pc = "clear" /\ pc' = "read"
    BY <1>7 DEF sb_clear, engine, play, history
  <2>2. Pending /\ Pending'
    BY <2>1 DEF Pending
  <2> QED
    BY <2>1, <2>2, HeardKept
<1>8. CASE UNCHANGED vars
  <2>1. UNCHANGED <<running, cur, buf, heard, asked, errors, sb_playsize, left, fd, ioc, sbdma_cmplt,
                    pc, sb_reg>>
    BY <1>8 DEF vars, table, play, flags, engine, ring, history
  <2>2. Pending' <=> Pending
    BY <2>1 DEF Pending
  <2> QED
    BY <2>1, <2>2, HeardKept
<1>9. ASSUME NEW n \in 0..Chunk, NEW failed \in BOOLEAN, sb_write(n, failed) PROVE HeardInv'
  BY <1>9, HeardWrite, Zenon
<1> QED
  BY <1>1, <1>2, <1>3, <1>4, <1>5, <1>6, <1>7, <1>8, <1>9, HeardIdle, HeardPlay DEF Next, service

(* The last refill brings nothing, the count is at zero, and the whole ring is silent by then. *)
LEMMA HeardAll ==
  ASSUME N <= 2, OrderInv, HeardInv, NEW n \in 0..Chunk, NEW failed \in BOOLEAN,
         sb_write(n, failed), n = 0 /\ sb_playcount = 0, errors' = 0
  PROVE  heard = asked
<1>1. Types /\ Nats /\ PlayInv
  BY TypeParts DEF OrderInv, PlayInv
<1>2. ~failed /\ errors = 0 /\ n = ReadSize /\ pc = "read"
  BY <1>1 DEF sb_write, Nats
<1>3. Rest = 0
  BY <1>1, <1>2, ReadFacts, Consts
<1>4. running
  BY <1>1, <1>2 DEF HeardInv, PlayInv, Phase
<1>5. PICK rf \in Nat : RingInv(rf)
  BY <1>4 DEF OrderInv
<1>6. rf >= reads + 2 /\ reads \in Nat
  <2>1. Owed = 0 /\ reads \in Nat
    BY <1>1, <1>2 DEF Owed, Nats
  <2>2. (sb_playcount + rf - reads - 2 - Owed) * Chunk >= 0
    BY <1>3, <1>5 DEF RingInv, Slack
  <2> DEFINE x == rf - reads - 2
  <2>3. sb_playcount + rf - reads - 2 - Owed = x /\ x \in Int
    BY <2>1
  <2>4. x * Chunk >= 0
    BY <2>2, <2>3
  <2>5. x >= 0
    <3> HIDE DEF x
    <3> QED
      BY <2>3, <2>4, Consts
  <2> QED
    BY <2>1, <2>5
<1>7. ASSUME NEW b \in BDs PROVE Unheard(b) = 0
  <2>1. CASE b = Last
    BY <2>1, <1>2 DEF Unheard, Pending
  <2>2. CASE b # Last
    <3>1. buf[b].chunk = ChunkAt(Nth(b, rf)) /\ (buf[b].chunk = 0 => buf[b] = Silence)
      BY <2>2, <1>5 DEF RingInv, Holds
    <3>2. Dist(b) \in 0..(N - 1)
      BY <1>1, RingOrder DEF Types
    <3>3. Nth(b, rf) \in Int /\ Nth(b, rf) > reads
      BY <3>2, <1>6, Consts DEF Nth
    <3>4. ChunkAt(Nth(b, rf)) = 0
      BY <3>3, <1>6 DEF ChunkAt
    <3> QED
      BY <2>2, <3>1, <3>4 DEF Unheard, Silence
  <2> QED
    BY <2>1, <2>2
<1>8. InRing = 0
  <2>1. CASE N = 1 /\ BDs = {0}
    <3>1. Unheard(0) = 0
      BY <2>1, <1>7
    <3> QED
      BY <2>1, <3>1 DEF InRing
  <2>2. CASE N = 2 /\ BDs = {0, 1}
    <3>1. Unheard(0) = 0 /\ Unheard(1) = 0
      BY <2>2, <1>7
    <3> QED
      BY <2>2, <3>1 DEF InRing
  <2> QED
    BY <2>1, <2>2, SmallRing
<1> QED
  BY <1>1, <1>2, <1>3, <1>4, <1>8 DEF HeardInv, Nats

LEMMA HeardCommand ==
  ASSUME PlayInv, ~Playing, NEW size \in Sizes, NEW length \in Sizes,
         sb_m(size, length) \/ sb_m_unread(size)
  PROVE  HeardInv'
<1>1. /\ size \in Nat /\ length \in Nat
      /\ ~running /\ sb_reg = "SB_IDLE" /\ UNCHANGED <<running, sb_reg>>
      /\ heard' = 0 /\ sb_playsize' = size
  BY SizesAssumption DEF sb_m, sb_m_unread, NewPlay, engine, PlayInv, Phase
<1>2. asked' = Least(size, left')
  BY DEF sb_m, sb_m_unread, NewPlay
<1> QED
  BY <1>1, <1>2 DEF HeardInv, Rest

Reported == Undisturbed /\ (~disturbed => HeardInv)

LEMMA NextReported == N <= 2 /\ Reported /\ [Next]_vars => Reported'
<1> SUFFICES ASSUME N <= 2, Reported, [Next]_vars PROVE Reported'
  OBVIOUS
<1>1. PlayInv /\ Undisturbed'
  BY NextUndisturbed DEF Reported, Undisturbed
<1>2. ASSUME ~disturbed' PROVE HeardInv'
  <2>1. CASE plays' = plays /\ ~disturbed
    BY <2>1, <1>2, HeardNext DEF Reported, Undisturbed
  <2>2. CASE /\ ~Playing
             /\ \E size, length \in Sizes : sb_m(size, length) \/ sb_m_unread(size)
    BY <2>2, <1>1, HeardCommand
  <2> QED
    BY <2>1, <2>2, <1>1, <1>2, Disturbance
<1> QED
  BY <1>1, <1>2 DEF Reported

LEMMA InitReported == Init => Reported
  BY InitUndisturbed, InitHeardInv DEF Reported

(* sb_service.c:184 "sb_svc: playback OK", for every chunk and file size: unless there was a bus or *)
(* disk error, a second play or a late pass, every unit the file and its header allow has been      *)
(* heard.  With more than two buffers it would not hold.                                            *)
THEOREM HeardBeforeOk == SB_BUFF_CHUNKS <= 2 => (Spec => PlayedBeforeOk)
<1> SUFFICES ASSUME N <= 2 PROVE Spec => PlayedBeforeOk
  BY DEF N
<1>1. Reported /\ [Next]_vars => [Ok /\ errors' = 0 /\ ~disturbed => heard = asked]_vars
  <2> SUFFICES ASSUME Reported, Next, Ok, errors' = 0, ~disturbed PROVE heard = asked
    BY DEF vars
  <2>1. PICK n \in 0..Chunk, failed \in BOOLEAN : sb_write(n, failed)
    <3>1. pc = "read" /\ pc' = "unblock"
      BY DEF Ok
    <3> QED
      BY <3>1 DEF Next, service, sb_m, sb_m_unread, NewPlay, PlayBuffer, BusError, onsbdma_irq, sb_idle,
                  sb_poll, sb_buserr, sb_cmplt, sb_take, sb_clear, sb_unblock, sb_close
  <2>2. n = 0 /\ sb_playcount = 0
    BY <2>1 DEF Ok, sb_write
  <2>3. OrderInv /\ HeardInv
    BY DEF Reported, Undisturbed
  <2> QED
    BY <2>1, <2>2, <2>3, HeardAll, Zenon
<1>2. Reported /\ [Next]_vars => Reported'
  BY NextReported
<1> QED
  BY <1>1, <1>2, InitReported, PTL DEF Spec, PlayedBeforeOk

=============================================================================
