----------------------------- MODULE DiskProofs -----------------------------
(*********************************************************************************)
(* Files over disks, for every size of the table, of the disks and of a request, *)
(* with any number of writes, hardware errors at any sector, and power failures. *)
(*                                                                               *)
(* IInv is about the file table alone, for any set of clients.  It is the        *)
(* conjunction of three properties: OwnFile needs the free entry that            *)
(* CountMatches promises.  CountMatches does not need OwnFile: fat_fclose counts *)
(* down only for an entry in use.  Every step of the composition is a step of    *)
(* the table, leaves it alone or, at a power failure, empties it.                *)
(*                                                                               *)
(* DataInv is the argument that a result of RES_OK is true.  ReqInv ties the     *)
(* request to the driver's step.  CardInv and DeviceInv say that the hardware    *)
(* works for this request only and that both sides count the same sectors.       *)
(* SdData and IdeData say of each sector counted where its contents are: a       *)
(* sector given to a PATA device is in its cache only when BSY is 0 again,       *)
(* which is why the last wait of write is needed.  With it each step of a        *)
(* driver is a step of the block device or none at all.                          *)
(*                                                                               *)
(* CauseInv is the argument that an error is not made up: an error flag is that  *)
(* of the device's last command; a channel of the DMA engine that is busy when a *)
(* request begins comes from an error of the same kind of request since boot;    *)
(* and a device that check_diskReady has passed is there.                        *)
(*********************************************************************************)
EXTENDS Disk, FiniteSetTheorems, WellFoundedInduction, TLAPS

IInv == TypeOK /\ CountMatches /\ OwnFile

(* The table is finite and has MAX_OPEN_FILES entries. *)
LEMMA TableSize == IsFiniteSet(FDs) /\ Cardinality(FDs) = MAX_OPEN_FILES
  BY FS_Interval, TableAssumption DEF FDs

(* The entries in use are a finite set, no more than the table has. *)
LEMMA InUseFinite ==
  /\ IsFiniteSet(InUse)
  /\ Cardinality(InUse) \in 0..MAX_OPEN_FILES
  /\ Cardinality(InUse) = MAX_OPEN_FILES => InUse = FDs
<1>1. InUse \subseteq FDs
  BY DEF InUse
<1>2. IsFiniteSet(InUse) /\ Cardinality(InUse) <= Cardinality(FDs)
      /\ (Cardinality(InUse) = Cardinality(FDs) => InUse = FDs)
  BY <1>1, TableSize, FS_Subset
<1>3. Cardinality(InUse) \in Nat
  BY <1>2, FS_CardinalityType
<1> QED
  BY <1>2, <1>3, TableSize, TableAssumption

(* A set of numbers that is not empty has a least element. *)
LEMMA LeastElement ==
  ASSUME NEW T, T \subseteq Nat, T # {}
  PROVE  \E x \in T : \A y \in T : x <= y
<1> DEFINE R == OpToRel(<, Nat)
<1>1. \E x \in T : \A y \in T : ~(<<y, x>> \in R)
  BY NatLessThanWellFounded, WFMin
<1>2. \A x, y \in Nat : y < x => <<y, x>> \in R
  BY DEF OpToRel
<1>3. PICK x \in T : \A y \in T : ~(<<y, x>> \in R)
  BY <1>1
<1>4. \A y \in T : ~(y < x)
  BY <1>2, <1>3
<1>5. \A y \in T : x <= y
  BY <1>4
<1> QED
  BY <1>5

(* When the counter is below the limit the scan of fat_fopen stops at a free *)
(* entry of the table.                                                       *)
LEMMA ScanFindsFree ==
  ASSUME IInv, files # MAX_OPEN_FILES
  PROVE  FirstFree \in FDs /\ open_files[FirstFree] = NULL
<1>1. InUse # FDs
  BY TableSize DEF IInv, CountMatches
<1>2. PICK e \in FDs : open_files[e] = NULL
  BY <1>1 DEF InUse
<1> DEFINE Free == {d \in FDs : open_files[d] = NULL}
<1>3. PICK m \in Free : \A n \in Free : m <= n
  <2>1. Free \subseteq Nat /\ Free # {}
    BY <1>2, TableAssumption DEF FDs
  <2> QED
    BY <2>1, LeastElement
<1>4. \E i \in FDs : /\ open_files[i] = NULL
                     /\ \A j \in FDs : open_files[j] = NULL => i <= j
  BY <1>3
<1> QED
  BY <1>2, <1>4 DEF FirstFree

(* Opening: the entry found becomes the client's, and the count grows by one. *)
LEMMA OpenStep ==
  ASSUME IInv, NEW c \in Clients, Open(c)
  PROVE  IInv'
<1>1. PICK d : /\ d = FirstFree /\ files # MAX_OPEN_FILES
               /\ open_files' = [open_files EXCEPT ![d] = c]
               /\ files' = files + 1
               /\ fd' = [fd EXCEPT ![c] = d]
               /\ stale' = stale \ {c}
  BY DEF Open, fat_fopen
<1>2. d \in FDs /\ open_files[d] = NULL
  BY <1>1, ScanFindsFree
<1>3. c # NULL /\ NoFd \notin FDs
  BY ClientsAssumption, TableAssumption DEF NoFd, FDs
<1>4. InUse' = InUse \cup {d} /\ d \notin InUse
  BY <1>1, <1>2, <1>3 DEF InUse, IInv, TypeOK
<1>5. CountMatches'
  <2>1. Cardinality(InUse \cup {d}) = Cardinality(InUse) + 1
    BY <1>4, InUseFinite, FS_AddElement
  <2> QED
    BY <1>1, <1>4, <2>1 DEF IInv, CountMatches
<1>6. TypeOK'
  BY <1>1, <1>2, TableAssumption DEF IInv, TypeOK
<1>7. OwnFile'
  <2> SUFFICES ASSUME NEW x \in Clients, x \notin stale', fd'[x] \in FDs
               PROVE  open_files'[fd'[x]] = x
    BY DEF OwnFile
  <2>1. CASE x = c
    BY <1>1, <1>2, <2>1 DEF IInv, TypeOK
  <2>2. CASE x # c
    <3>1. fd'[x] = fd[x] /\ x \notin stale
      BY <1>1, <2>2 DEF IInv, TypeOK
    <3>2. open_files[fd[x]] = x /\ x # NULL
      BY <3>1, ClientsAssumption DEF IInv, OwnFile
    <3>3. fd[x] # d
      BY <1>2, <3>2
    <3> QED
      BY <1>1, <3>1, <3>2, <3>3 DEF IInv, TypeOK
  <2> QED
    BY <2>1, <2>2
<1> QED
  BY <1>5, <1>6, <1>7 DEF IInv

(* Closing any descriptor, whoever's it is: an entry in use is given up, or none. *)
LEMMA CloseCounts ==
  ASSUME IInv, NEW d, fat_fclose(d)
  PROVE  /\ CountMatches'
         /\ open_files' \in [FDs -> Clients \cup {NULL}] /\ files' \in 0..MAX_OPEN_FILES
         /\ \A e \in FDs : e # d => open_files'[e] = open_files[e]
<1>1. CASE FileOf(d) = NULL
  <2>1. UNCHANGED <<open_files, files>>
    BY <1>1 DEF fat_fclose
  <2>2. InUse' = InUse
    BY <2>1 DEF InUse
  <2> QED
    BY <2>1, <2>2 DEF IInv, TypeOK, CountMatches
<1>2. CASE FileOf(d) # NULL
  <2>1. d \in FDs /\ open_files[d] # NULL
    BY <1>2 DEF FileOf
  <2>2. open_files' = [open_files EXCEPT ![d] = NULL] /\ files' = files - 1
    BY <1>2 DEF fat_fclose
  <2>3. InUse' = InUse \ {d} /\ d \in InUse
    BY <2>1, <2>2 DEF InUse, IInv, TypeOK
  <2>4. Cardinality(InUse \ {d}) = Cardinality(InUse) - 1
    BY <2>3, InUseFinite, FS_RemoveElement
  <2>5. CountMatches'
    BY <2>2, <2>3, <2>4 DEF IInv, CountMatches
  <2>6. files # 0
    BY <2>3, InUseFinite, FS_EmptySet DEF IInv, CountMatches
  <2>7. files' \in 0..MAX_OPEN_FILES
    BY <2>2, <2>6, TableAssumption DEF IInv, TypeOK
  <2> QED
    BY <2>1, <2>2, <2>5, <2>7 DEF IInv, TypeOK
<1> QED
  BY <1>1, <1>2

(* The files of those who are not robbed by c's close are still theirs. *)
LEMMA OthersKeep ==
  ASSUME IInv, NEW c \in Clients, fat_fclose(fd[c]),
         NEW x \in Clients \ {c}, x \notin stale, x \notin Robbed(c), fd[x] \in FDs
  PROVE  open_files'[fd[x]] = x
<1>1. open_files[fd[x]] = x
  BY DEF IInv, OwnFile
<1>2. fd[x] # fd[c]
  <2>1. CASE c \in stale
    BY <2>1 DEF Robbed
  <2>2. CASE c \notin stale
    <3>1. fd[c] \in FDs => open_files[fd[c]] = c
      BY <2>2 DEF IInv, OwnFile
    <3> QED
      BY <1>1, <3>1
  <2> QED
    BY <2>1, <2>2
<1> QED
  BY <1>1, <1>2, CloseCounts

LEMMA CloseStep ==
  ASSUME IInv, NEW c \in Clients, Close(c) \/ CloseKeep(c)
  PROVE  IInv'
<1>1. /\ fat_fclose(fd[c])
      /\ \/ fd' = [fd EXCEPT ![c] = NoFd] /\ stale' = (stale \ {c}) \cup Robbed(c)
         \/ fd' = fd /\ stale' = stale \cup {c} \cup Robbed(c)
  BY DEF Close, CloseKeep
<1>2. Robbed(c) \subseteq Clients /\ NoFd \notin FDs
  BY TableAssumption DEF Robbed, NoFd, FDs
<1>3. TypeOK'
  BY <1>1, <1>2, CloseCounts DEF IInv, TypeOK
<1>4. OwnFile'
  <2> SUFFICES ASSUME NEW x \in Clients, x \notin stale', fd'[x] \in FDs
               PROVE  open_files'[fd'[x]] = x
    BY DEF OwnFile
  <2>1. x # c
    BY <1>1, <1>2 DEF IInv, TypeOK
  <2>2. fd'[x] = fd[x] /\ x \notin stale /\ x \notin Robbed(c)
    BY <1>1, <2>1 DEF IInv, TypeOK
  <2> QED
    BY <1>1, <2>1, <2>2, OthersKeep
<1>5. CountMatches'
  BY <1>1, CloseCounts
<1> QED
  BY <1>3, <1>4, <1>5 DEF IInv

(* Mounting, a power failure, and the initial state: an empty table and a counter at zero, *)
(* and no descriptor that is not stale.                                                    *)
LEMMA EmptyTable ==
  ASSUME open_files = Empty, files = 0, fd \in [Clients -> FDs \cup {NoFd}],
         stale = {c \in Clients : fd[c] # NoFd}
  PROVE  IInv
<1>1. InUse = {}
  BY DEF InUse, Empty
<1>2. CountMatches
  BY <1>1, FS_EmptySet DEF CountMatches
<1>3. NoFd \notin FDs
  BY TableAssumption DEF NoFd, FDs
<1>4. TypeOK
  BY TableAssumption DEF TypeOK, Empty
<1>5. OwnFile
  BY <1>3 DEF OwnFile
<1> QED
  BY <1>2, <1>4, <1>5 DEF IInv

LEMMA InitTable == Init => IInv
<1> SUFFICES ASSUME Init PROVE IInv
  OBVIOUS
<1>1. /\ open_files = Empty /\ files = 0 /\ fd \in [Clients -> FDs \cup {NoFd}]
      /\ stale = {c \in Clients : fd[c] # NoFd}
  BY DEF Init
<1> QED
  BY <1>1, EmptyTable

LEMMA NextTable == IInv /\ [Next]_vars => IInv'
<1> SUFFICES ASSUME IInv, [Next]_vars PROVE IInv'
  OBVIOUS
<1>1. CASE Mount
  <2>1. /\ (open_files = Empty)' /\ (files = 0)' /\ (fd \in [Clients -> FDs \cup {NoFd}])'
        /\ (stale = {c \in Clients : fd[c] # NoFd})'
    BY <1>1 DEF Mount, fat_mount, Empty, IInv, TypeOK
  <2> QED
    BY <2>1, EmptyTable, PTL
<1>2. CASE UNCHANGED vars
  <2>1. UNCHANGED <<open_files, files, fd, stale>>
    BY <1>2 DEF vars
  <2>2. InUse' = InUse
    BY <2>1 DEF InUse
  <2> QED
    BY <2>1, <2>2 DEF IInv, TypeOK, CountMatches, OwnFile
<1> QED
  BY <1>1, <1>2, OpenStep, CloseStep DEF Next

(* fat.c, for every table and every set of clients: files is the number of open *)
(* entries whatever they close, and a descriptor that is not stale names the    *)
(* file its client opened.                                                      *)
THEOREM TableCorrect == Spec => [](TypeOK /\ CountMatches /\ OwnFile)
  BY InitTable, NextTable, PTL DEF Spec, IInv

-----------------------------------------------------------------------------
(* The table in the composition, and the way to the medium. *)

Boards == {"mb_le", "x86_64"}

(* The steps between a request and its result; "wild" is the lost return of an *)
(* interrupted transfer.                                                       *)
SdSteps == {"start", "ioc"}
IdeSteps == {"drq", "sector", "final"}

(* A request is in progress exactly while the driver is at work on it; it lies inside the *)
(* disk, and the caller's memory has room for it.                                         *)
ReqInv ==
  /\ board \in Boards /\ io \in Requests \cup {Idle} /\ k \in Nat
  /\ DOMAIN media = Drives \X Blocks /\ DOMAIN durable = Drives \X Blocks
  /\ pc \in {"boot", "idle", "check", "driver", "wild"} \cup SdSteps \cup IdeSteps
  /\ io = Idle <=> pc \in {"boot", "idle"}
  /\ io # Idle => DOMAIN mem = Sectors /\ io.blk + io.n <= NBlocks
  /\ io # Idle /\ board = "x86_64" => io.n <= CountRange
  /\ pc \in {"boot", "idle", "check", "driver"} => k = 0
  /\ pc \in SdSteps => board = "mb_le"
  /\ pc \in IdeSteps \cup {"wild"} => board = "x86_64"
  /\ pc = "check" /\ io.op = "read" => \A i \in Sectors : mem[i] = Junk
  /\ pc = "driver" /\ io.op = "read" => \A i \in Sectors : mem[i] = Junk

(* The card works only for a request, and its completion is that of this request. *)
CardInv ==
  /\ DOMAIN iobuf = 0..(MaxCount - 1)
  /\ ~idle => pc \in SdSteps /\ ~command /\ ~ioc
  /\ command => pc = "start" /\ idle /\ k = 0
  /\ pc = "ioc" => ~command
  /\ pc \in SdSteps => io.op # "sync" /\ k <= io.n
  /\ pc \in SdSteps /\ ~command /\ ioc /\ ~ioe => k = io.n

(* Sectors the DMA has moved are on the other side. *)
SdData ==
  /\ board = "mb_le" => durable = media
  /\ pc \in SdSteps /\ io.op = "read" =>
       \A i \in Sectors : i < k => iobuf[i] = media[At(i)]
  /\ pc \in SdSteps /\ io.op = "write" =>
       \A i \in Sectors : iobuf[i] = mem[i] /\ (i < k => media[At(i)] = mem[i])

(* The device works only for a request, and counts the same sectors as the driver. *)
DeviceInv ==
  /\ left \in Nat
  /\ bsy => pc \in IdeSteps /\ ~err
  /\ pc = "drq" => io.op # "sync" /\ k = 0 /\ left = io.n
  /\ pc = "sector" => io.op # "sync" /\ k < io.n /\ left = io.n - k
  /\ pc \in {"drq", "sector"} /\ ~bsy /\ ~err => drq
  /\ pc = "final" => io.op # "read" /\ k = io.n /\ left = 0

(* Sectors counted off are in memory, or, but for one the device may still be busy with, *)
(* in its cache; a flush that is over has emptied the cache.                             *)
IdeData ==
  /\ pc \in IdeSteps /\ io.op = "read" =>
       \A i \in Sectors : mem[i] = IF i < k THEN media[At(i)] ELSE Junk
  /\ pc \in IdeSteps /\ io.op = "write" =>
       \A i \in Sectors : i + 1 < k \/ (i < k /\ ~bsy /\ ~err) => media[At(i)] = mem[i]
  /\ pc = "final" /\ io.op = "sync" /\ ~bsy /\ ~err =>
       hasty \/ \A b \in DOMAIN media : b[1] = io.did => durable[b] = media[b]

(* The status registers. *)
FlagInv ==
  /\ idle \in BOOLEAN /\ ioc \in BOOLEAN /\ ioe \in BOOLEAN /\ command \in BOOLEAN
  /\ bsy \in BOOLEAN /\ drq \in BOOLEAN /\ err \in BOOLEAN

DataInv == FlagInv /\ ReqInv /\ CardInv /\ SdData /\ DeviceInv /\ IdeData

(* The letters are those of the drives found, and check_diskReady has looked at them. *)
LetterInv ==
  /\ pc # "boot" => IF board = "mb_le" THEN letter = SdLetter
                                       ELSE letter = IdeLetter /\ ata_detect = bays
  /\ pc = "driver" /\ board = "x86_64" => letter[io.did] # NoLetter

(* An error flag is that of the device's last command. *)
IdeCause == pc \in IdeSteps /\ err => io.did \in failed

(* So is the card's; and a channel is busy for the transfer in progress, or for one that failed. *)
SdCause ==
  /\ channel \in [{"read", "write"} -> {"halted", "busy", "idle"}]
  /\ \A o \in {"read", "write"} : channel[o] = "busy" =>
       o \in errors \/ (pc \in SdSteps /\ o = io.op /\ k < io.n)
  /\ pc \in SdSteps /\ ~command /\ ioc /\ ioe => io.op \in errors

(* Why a request may fail. *)
CauseInv == LetterInv /\ IdeCause /\ SdCause

-----------------------------------------------------------------------------
(* Requests and the sectors they ask for. *)
LEMMA RequestFields ==
  ASSUME NEW q \in Requests
  PROVE  /\ q # Idle /\ q.op \in {"read", "write", "sync"} /\ q.did \in Drives
         /\ q.blk \in Nat /\ q.n \in 0..MaxCount
         /\ q.n = 0 <=> q.op = "sync"
  BY DiskAssumption DEF Requests, Blocks, Idle, Device!Idle

LEMMA SectorFacts ==
  ASSUME io \in Requests, io.blk + io.n <= NBlocks
  PROVE  /\ Sectors = 0..(io.n - 1)
         /\ \A i \in Sectors : At(i) \in Drives \X Blocks
         /\ \A i, j \in Sectors : At(i) = At(j) => i = j
<1>1. Sectors = 0..(io.n - 1)
  BY DEF Sectors, Device!Sectors
<1>2. io.did \in Drives /\ io.blk \in Nat /\ io.n \in Nat
  BY RequestFields, DiskAssumption
<1>3. \A i : At(i) = <<io.did, io.blk + i>>
  BY DEF At, Device!At
<1>4. ASSUME NEW i \in Sectors PROVE At(i) \in Drives \X Blocks
  <2>1. io.blk + i \in Blocks
    BY <1>1, <1>2, DiskAssumption DEF Blocks
  <2> QED
    BY <1>2, <1>3, <2>1
<1>5. ASSUME NEW i \in Sectors, NEW j \in Sectors, At(i) = At(j) PROVE i = j
  <2>1. io.blk + i = io.blk + j
    BY <1>3, <1>5
  <2> QED
    BY <1>1, <1>2, <2>1
<1> QED
  BY <1>1, <1>4, <1>5

-----------------------------------------------------------------------------
LEMMA InitData == DiskInit => DataInv
<1> SUFFICES ASSUME DiskInit PROVE DataInv
  OBVIOUS
<1>1. /\ pc = "boot" /\ io = Idle /\ k = 0 /\ board \in Boards
      /\ media = [b \in Drives \X Blocks |-> Device!Origin(b)] /\ durable = media
  BY DEF DiskInit, IoInit, Device!Init, Boards, Idle
<1>2. /\ command = FALSE /\ idle = TRUE /\ ioc = FALSE /\ ioe = FALSE /\ iobuf = EmptyBuffer
      /\ bsy = FALSE /\ drq = FALSE /\ err = FALSE /\ left = 0
  BY DEF DiskInit, SdReset, IdeReset
<1>3. FlagInv
  BY <1>2, Zenon DEF FlagInv
<1>4. ReqInv
  BY <1>1 DEF ReqInv, SdSteps, IdeSteps
<1>5. CardInv /\ DeviceInv
  BY <1>1, <1>2 DEF CardInv, DeviceInv, SdSteps, IdeSteps, EmptyBuffer
<1>6. SdData /\ IdeData
  BY <1>1 DEF SdData, IdeData, SdSteps, IdeSteps
<1> QED
  BY <1>3, <1>4, <1>5, <1>6 DEF DataInv

(* Between requests nothing that the invariant speaks of moves. *)
LEMMA IdleSteps ==
  ASSUME DataInv, pc \in {"boot", "idle"}, pc' \in {"boot", "idle"},
         UNCHANGED <<board, media, durable, io, k, sdvars, bsy, drq, err, left>>
  PROVE  DataInv'
<1>1. FlagInv'
  BY Zenon DEF DataInv, FlagInv, sdvars
<1>2. ReqInv'
  BY DEF DataInv, ReqInv, SdSteps, IdeSteps
<1>3. CardInv' /\ DeviceInv'
  BY DEF DataInv, CardInv, DeviceInv, SdSteps, IdeSteps, sdvars
<1>4. SdData' /\ IdeData'
  BY DEF DataInv, SdData, IdeData, SdSteps, IdeSteps
<1> QED
  BY <1>1, <1>2, <1>3, <1>4 DEF DataInv

(* disk_io, and the file operations outside their requests: at most the result is taken. *)
LEMMA FileData ==
  ASSUME DataInv,
         \/ disk_io \/ FatCall \/ FatDone
  PROVE  DataInv' /\ [Device!Next]_(Device!vars)
<1>1. CASE disk_io
  <2>1. /\ pc \in {"boot", "idle"} /\ pc' \in {"boot", "idle"}
        /\ UNCHANGED <<board, media, durable, io, mem, res, hasty, k, sdvars, bsy, drq, err, left>>
    BY <1>1 DEF disk_io
  <2> QED
    BY <2>1, IdleSteps DEF Device!vars
<1>2. CASE FatDone
  <2>1. /\ pc \in {"boot", "idle"} /\ pc' \in {"boot", "idle"} /\ pc = "idle"
        /\ UNCHANGED <<board, media, durable, io, hasty, k, sdvars, bsy, drq, err, left>>
        /\ mem' = NoData /\ res' = "RES_OK"
    BY <1>2 DEF FatDone, drivers, idevars
  <2>2. io = Idle
    BY <2>1 DEF DataInv, ReqInv
  <2>3. Device!Taken
    BY <2>1, <2>2 DEF Device!Taken, Idle, NoData
  <2> QED
    BY <2>1, <2>3, IdleSteps DEF Device!Next
<1>3. CASE FatCall
  <2>1. /\ pc \in {"boot", "idle"} /\ pc' \in {"boot", "idle"}
        /\ UNCHANGED <<board, media, durable, io, mem, res, hasty, k, sdvars, bsy, drq, err, left>>
    BY <1>3 DEF FatCall, iovars, drivers, idevars
  <2> QED
    BY <2>1, IdleSteps DEF Device!vars
<1> QED
  BY <1>1, <1>2, <1>3

(* FatFs makes a request. *)
LEMMA RequestData ==
  ASSUME DataInv, NEW q \in Requests, FatRequest(q)
  PROVE  DataInv' /\ Device!Request(io')
<1>1. /\ pc = "idle" /\ pc' = "check" /\ io' = q /\ q.blk + q.n <= NBlocks
      /\ board = "x86_64" => q.n <= CountRange
      /\ UNCHANGED <<board, media, durable, res, hasty, k, sdvars, bsy, drq, err, left>>
  BY DEF FatRequest, disk_request, drivers, idevars
<1>2. /\ DOMAIN mem' = 0..(q.n - 1)
      /\ q.op = "read" => \A i \in 0..(q.n - 1) : mem'[i] = Junk
  BY DEF FatRequest, disk_request
<1>3. io = Idle /\ k = 0 /\ q # Idle
  BY <1>1, RequestFields DEF DataInv, ReqInv
<1>4. Sectors' = 0..(q.n - 1)
  BY <1>1 DEF Sectors, Device!Sectors
<1>5. FlagInv'
  BY <1>1, Zenon DEF DataInv, FlagInv, sdvars
<1>6. ReqInv'
  BY <1>1, <1>2, <1>3, <1>4 DEF DataInv, ReqInv, SdSteps, IdeSteps
<1>7. CardInv' /\ DeviceInv'
  BY <1>1 DEF DataInv, CardInv, DeviceInv, SdSteps, IdeSteps, sdvars
<1>8. SdData' /\ IdeData'
  BY <1>1 DEF DataInv, SdData, IdeData, SdSteps, IdeSteps
<1>9. Device!Request(io')
  BY <1>1, <1>2, <1>3 DEF Device!Request, Idle
<1> QED
  BY <1>5, <1>6, <1>7, <1>8, <1>9 DEF DataInv

(* A request ends with an error: the caller's memory is left as it is. *)
LEMMA ErrorReturn ==
  ASSUME DataInv, pc \notin {"boot", "idle"}, NEW r \in Results \ {"RES_OK"}, Return(r),
         UNCHANGED <<board, media, durable, mem>>
  PROVE  [Device!Next]_(Device!vars)
<1>1. io # Idle /\ DOMAIN mem = Sectors
  BY DEF DataInv, ReqInv
<1>2. Device!Return(r)
  BY <1>1 DEF Return, Device!Return, Idle, Sectors
<1> QED
  BY <1>2 DEF Device!Next


(* What holds when a request has ended and the hardware is at rest. *)
LEMMA Returned ==
  ASSUME DataInv, pc' = "idle", io' = Idle, k' = 0, UNCHANGED <<board, media, durable>>,
         FlagInv', idle', ~command', ~bsy', left' \in Nat, DOMAIN iobuf' = 0..(MaxCount - 1)
  PROVE  DataInv'
<1>1. ReqInv'
  BY DEF DataInv, ReqInv, SdSteps, IdeSteps
<1>2. CardInv' /\ DeviceInv'
  BY DEF CardInv, DeviceInv, SdSteps, IdeSteps
<1>3. SdData' /\ IdeData'
  BY DEF DataInv, SdData, IdeData, SdSteps, IdeSteps
<1> QED
  BY <1>1, <1>2, <1>3 DEF DataInv

(* Before the driver has begun, the hardware is at rest. *)
LEMMA AtRest ==
  ASSUME DataInv, pc \in {"check", "driver"}
  PROVE  /\ idle /\ ~command /\ ~bsy /\ io \in Requests /\ k = 0 /\ io # Idle
         /\ DOMAIN iobuf = 0..(MaxCount - 1) /\ left \in Nat /\ FlagInv
  BY DEF DataInv, ReqInv, CardInv, DeviceInv, SdSteps, IdeSteps

(* check_diskReady *)
LEMMA CheckData ==
  ASSUME DataInv, NEW range, check_diskReady(range), UNCHANGED drivers
  PROVE  DataInv' /\ [Device!Next]_(Device!vars)
<1>1. /\ pc = "check" /\ UNCHANGED <<board, media, durable, mem>>
      /\ UNCHANGED <<idle, ioc, ioe, command, channel, iobuf, bsy, drq, err, left>>
      /\ (pc' = "driver" /\ UNCHANGED <<io, res, hasty, k>>) \/ Return("RES_NOTRDY")
  BY DEF check_diskReady, drivers, sdvars, idevars
<1>2. /\ idle /\ ~command /\ ~bsy /\ io \in Requests /\ k = 0
      /\ DOMAIN iobuf = 0..(MaxCount - 1) /\ left \in Nat /\ FlagInv
  BY <1>1, AtRest
<1>3. FlagInv'
  BY <1>1, <1>2, Zenon DEF FlagInv
<1>4. CASE pc' = "driver" /\ UNCHANGED <<io, res, hasty, k>>
  <2>1. Sectors' = Sectors
    BY <1>4 DEF Sectors, Device!Sectors
  <2>2. ReqInv'
    BY <1>1, <1>4, <2>1 DEF DataInv, ReqInv, SdSteps, IdeSteps
  <2>3. CardInv' /\ DeviceInv'
    BY <1>1, <1>2, <1>4 DEF CardInv, DeviceInv, SdSteps, IdeSteps
  <2>4. SdData' /\ IdeData'
    BY <1>1, <1>4 DEF DataInv, SdData, IdeData, SdSteps, IdeSteps
  <2> QED
    BY <1>1, <1>3, <1>4, <2>2, <2>3, <2>4 DEF DataInv, Device!vars
<1>5. CASE Return("RES_NOTRDY")
  <2>1. pc' = "idle" /\ io' = Idle /\ k' = 0
    BY <1>5 DEF Return
  <2>2. DataInv'
    BY <1>1, <1>2, <1>3, <2>1, Returned
  <2>3. [Device!Next]_(Device!vars)
    BY <1>1, <1>5, ErrorReturn DEF Results
  <2> QED
    BY <2>2, <2>3
<1> QED
  BY <1>1, <1>4, <1>5

-----------------------------------------------------------------------------
(* The driver of the SD card: the transfer is begun, or the request fails at once. *)
LEMMA SdBeginData ==
  ASSUME DataInv, board = "mb_le", rsdcard_begin, UNCHANGED idevars
  PROVE  DataInv' /\ [Device!Next]_(Device!vars)
<1>1. /\ pc = "driver" /\ io.op # "sync" /\ UNCHANGED <<board, media, durable, mem>>
      /\ UNCHANGED <<bsy, drq, err, left>>
      /\ \/ Status("DISK_IO_ERR") /\ UNCHANGED sdvars
         \/ /\ Transfer /\ pc' = "start" /\ command' = TRUE
            /\ UNCHANGED <<io, res, hasty, k, idle, ioc, ioe>>
  BY DEF rsdcard_begin, idevars
<1>2. /\ idle /\ ~command /\ ~bsy /\ io \in Requests /\ k = 0 /\ io # Idle
      /\ DOMAIN iobuf = 0..(MaxCount - 1) /\ left \in Nat /\ FlagInv
  BY <1>1, AtRest
<1>3. CASE Status("DISK_IO_ERR") /\ UNCHANGED sdvars
  <2>1. Return("RES_ERROR") /\ UNCHANGED <<command, idle, ioc, ioe, iobuf>>
    BY <1>1, <1>3 DEF Status, from_diskioStatus, sdvars
  <2>2. pc' = "idle" /\ io' = Idle /\ k' = 0
    BY <2>1 DEF Return
  <2>3. FlagInv'
    BY <1>1, <1>2, <2>1, Zenon DEF FlagInv
  <2>4. DataInv'
    BY <1>1, <1>2, <2>1, <2>2, <2>3, Returned
  <2>5. [Device!Next]_(Device!vars)
    BY <1>1, <2>1, ErrorReturn DEF Results
  <2> QED
    BY <2>4, <2>5
<1>4. CASE /\ Transfer /\ pc' = "start" /\ command' = TRUE
           /\ UNCHANGED <<io, res, hasty, k, idle, ioc, ioe>>
  <2>1. Sectors' = Sectors /\ \A i : At(i)' = At(i)
    BY <1>4 DEF Sectors, Device!Sectors, At, Device!At
  <2>2. /\ DOMAIN iobuf' = DOMAIN iobuf
        /\ \A i \in DOMAIN iobuf : io.op = "write" /\ i \in Sectors => iobuf'[i] = mem[i]
    BY <1>4 DEF Transfer, BufferFor
  <2>3. io.n \in 0..MaxCount /\ MaxCount \in Nat /\ Sectors = 0..(io.n - 1)
    BY <1>1, <1>2, RequestFields, DiskAssumption DEF Sectors, Device!Sectors
  <2>4. \A i \in Sectors : i \in DOMAIN iobuf
    BY <1>2, <2>3
  <2>5. FlagInv'
    BY <1>1, <1>2, <1>4, Zenon DEF FlagInv
  <2>6. ReqInv'
    BY <1>1, <1>2, <1>4, <2>1 DEF DataInv, ReqInv, SdSteps, IdeSteps
  <2>7. CardInv' /\ DeviceInv'
    BY <1>1, <1>2, <1>4, <2>2, <2>3 DEF CardInv, DeviceInv, SdSteps, IdeSteps
  <2>8. SdData'
    BY <1>1, <1>2, <1>4, <2>1, <2>2, <2>3, <2>4 DEF DataInv, SdData
  <2>9. IdeData'
    BY <1>4 DEF IdeData, IdeSteps
  <2> QED
    BY <1>1, <1>4, <2>5, <2>6, <2>7, <2>8, <2>9 DEF DataInv, Device!vars
<1> QED
  BY <1>1, <1>3, <1>4

(* A flush has nothing to do: what is on the card is durable. *)
LEMMA SdFlushData ==
  ASSUME DataInv, board = "mb_le", flush_disk, UNCHANGED idevars
  PROVE  DataInv' /\ [Device!Next]_(Device!vars)
<1>1. /\ pc = "driver" /\ (io.did \notin SdDrives \/ io.op = "sync")
      /\ UNCHANGED <<board, media, durable, mem, bsy, drq, err, left>>
      /\ UNCHANGED <<command, idle, ioc, ioe, iobuf>>
      /\ (io.op = "sync" /\ Status("DISK_IO_OK")) \/ Status("DISK_INVALID")
  BY DEF flush_disk, idevars, sdvars
<1>2. /\ idle /\ ~command /\ ~bsy /\ io \in Requests /\ k = 0 /\ io # Idle
      /\ DOMAIN iobuf = 0..(MaxCount - 1) /\ left \in Nat /\ FlagInv
  BY <1>1, AtRest
<1>3. pc' = "idle" /\ io' = Idle /\ k' = 0
  BY <1>1 DEF Status, Return
<1>4. FlagInv'
  BY <1>1, <1>2, Zenon DEF FlagInv
<1>5. DataInv'
  BY <1>1, <1>2, <1>3, <1>4, Returned
<1>6. CASE io.op = "sync" /\ Status("DISK_IO_OK")
  <2>1. Return("RES_OK") /\ io.op = "sync"
    BY <1>6 DEF Status, from_flushStatus
  <2>2. DOMAIN mem = Sectors /\ durable = media
    BY <1>1, <1>2 DEF DataInv, ReqInv, SdData
  <2>3. Device!Done
    BY <1>1, <2>1, <2>2 DEF Device!Done
  <2>4. Device!Return("RES_OK")
    BY <1>1, <1>2, <2>1, <2>2, <2>3 DEF Return, Device!Return, Idle, Sectors
  <2> QED
    BY <1>5, <2>4 DEF Device!Next, Results
<1>7. CASE Status("DISK_INVALID")
  <2>1. \E r \in Results \ {"RES_OK"} : Return(r)
    BY <1>7 DEF Status, from_flushStatus, from_diskioStatus, Results
  <2> QED
    BY <1>1, <1>5, <2>1, ErrorReturn
<1> QED
  BY <1>1, <1>6, <1>7

(* "Wait for I/O start" and "Wait for I/O completed" *)
LEMMA SdWaitData ==
  ASSUME DataInv, board = "mb_le", rsdcard_started, UNCHANGED idevars
  PROVE  DataInv' /\ [Device!Next]_(Device!vars)
<1>1. /\ pc = "start" /\ ~idle /\ pc' = "ioc"
      /\ UNCHANGED <<board, media, durable, io, mem, res, hasty, k, bsy, drq, err, left>>
      /\ UNCHANGED <<command, idle, ioc, ioe, iobuf>>
  BY DEF rsdcard_started, sdvars, idevars
<1>2. Sectors' = Sectors /\ \A i : At(i)' = At(i)
  BY <1>1 DEF Sectors, Device!Sectors, At, Device!At
<1>3. FlagInv'
  BY <1>1, Zenon DEF DataInv, FlagInv
<1>4. ReqInv'
  BY <1>1, <1>2 DEF DataInv, ReqInv, SdSteps, IdeSteps
<1>5. CardInv' /\ DeviceInv'
  BY <1>1 DEF DataInv, CardInv, DeviceInv, SdSteps, IdeSteps
<1>6. SdData' /\ IdeData'
  BY <1>1, <1>2 DEF DataInv, SdData, IdeData, SdSteps, IdeSteps
<1> QED
  BY <1>1, <1>3, <1>4, <1>5, <1>6 DEF DataInv, Device!vars

LEMMA SdDoneData ==
  ASSUME DataInv, board = "mb_le", rsdcard_done, UNCHANGED idevars
  PROVE  DataInv' /\ [Device!Next]_(Device!vars)
<1>1. /\ pc = "ioc" /\ ioc /\ iobuf' = EmptyBuffer
      /\ mem' = IF io.op = "read" /\ ~ioe THEN [i \in Sectors |-> iobuf[i]] ELSE mem
      /\ UNCHANGED <<board, media, durable, command, idle, ioc, ioe, bsy, drq, err, left>>
      /\ Status(IF ioe THEN "DISK_IO_ERR" ELSE "DISK_IO_OK")
  BY DEF rsdcard_done, idevars
<1>2. /\ io \in Requests /\ io # Idle /\ DOMAIN mem = Sectors /\ io.op # "sync"
      /\ idle /\ ~command /\ ~bsy /\ left \in Nat
  BY <1>1 DEF DataInv, ReqInv, CardInv, DeviceInv, SdSteps, IdeSteps
<1>3. DataInv'
  <2>1. pc' = "idle" /\ io' = Idle /\ k' = 0
    BY <1>1 DEF Status, Return
  <2>2. FlagInv'
    BY <1>1, Zenon DEF DataInv, FlagInv
  <2>3. DOMAIN iobuf' = 0..(MaxCount - 1)
    BY <1>1 DEF EmptyBuffer
  <2> QED
    BY <1>1, <1>2, <2>1, <2>2, <2>3, Returned
<1>4. CASE ioe
  <2>1. Return("RES_ERROR") /\ mem' = mem
    BY <1>1, <1>2, <1>4 DEF Status, from_diskioStatus
  <2> QED
    BY <1>1, <1>3, <2>1, ErrorReturn DEF Results
<1>5. CASE ~ioe
  <2>1. Return("RES_OK")
    BY <1>1, <1>2, <1>5 DEF Status, from_diskioStatus
  <2>2. k = io.n /\ Sectors = 0..(io.n - 1) /\ io.n \in Nat
    BY <1>1, <1>2, <1>5, RequestFields, DiskAssumption
       DEF DataInv, CardInv, SdSteps, Sectors, Device!Sectors
  <2>3. \A i \in Sectors : i < k
    BY <2>2
  <2>4. io.op \in {"read", "write"}
    BY <1>2, RequestFields
  <2>5. DOMAIN mem' = Sectors
    BY <1>1, <1>2
  <2>6. io.op = "read" => \A i \in Sectors : mem'[i] = media[At(i)]
    BY <1>1, <1>5, <2>3 DEF DataInv, SdData, SdSteps
  <2>7. io.op = "write" => mem' = mem /\ \A i \in Sectors : media[At(i)] = mem[i]
    BY <1>1, <2>3 DEF DataInv, SdData, SdSteps
  <2>8. Device!Done
    BY <2>4, <2>6, <2>7 DEF Device!Done, At, Sectors
  <2>9. Device!Return("RES_OK")
    BY <1>1, <1>2, <2>1, <2>4, <2>5, <2>7, <2>8 DEF Return, Device!Return, Idle, Sectors
  <2> QED
    BY <1>3, <2>9 DEF Device!Next, Results
<1> QED
  BY <1>4, <1>5

(* The card begins, and is done. *)
LEMMA CardStepData ==
  ASSUME DataInv, board = "mb_le", CardStart \/ CardDone(FALSE) \/ CardDone(TRUE),
         UNCHANGED idevars
  PROVE  DataInv' /\ [Device!Next]_(Device!vars)
<1>1. /\ UNCHANGED <<board, media, durable, io, mem, res, hasty, pc, k, iobuf, bsy, drq, err, left>>
      /\ ~command'
      /\ \/ command /\ ~idle' /\ ~ioc' /\ ~ioe'
         \/ ~idle /\ idle' /\ ioc' /\ command' = command /\ (ioe' \/ k = io.n)
  <2>1. CASE CardStart
    BY <2>1 DEF CardStart, iovars, idevars
  <2>2. CASE CardDone(FALSE)
    BY <2>2 DEF CardDone, idevars, DataInv, CardInv
  <2>3. CASE CardDone(TRUE)
    BY <2>3 DEF CardDone, idevars, DataInv, CardInv
  <2> QED
    BY <2>1, <2>2, <2>3
<1>2. Sectors' = Sectors /\ \A i : At(i)' = At(i)
  BY <1>1 DEF Sectors, Device!Sectors, At, Device!At
<1>3. FlagInv'
  <2>1. /\ command' \in BOOLEAN /\ idle' \in BOOLEAN /\ ioc' \in BOOLEAN /\ ioe' \in BOOLEAN
    BY Zenon DEF CardStart, CardDone, DataInv, FlagInv
  <2> QED
    BY <1>1, <2>1, Zenon DEF DataInv, FlagInv
<1>4. ReqInv'
  BY <1>1, <1>2 DEF DataInv, ReqInv
<1>5. CardInv' /\ DeviceInv'
  BY <1>1 DEF DataInv, CardInv, DeviceInv, SdSteps, IdeSteps
<1>6. SdData' /\ IdeData'
  BY <1>1, <1>2 DEF DataInv, SdData, IdeData
<1> QED
  BY <1>1, <1>3, <1>4, <1>5, <1>6 DEF DataInv, Device!vars

(* The DMA engine moves a sector. *)
LEMMA CardSectorData ==
  ASSUME DataInv, board = "mb_le", CardSector, UNCHANGED idevars
  PROVE  DataInv' /\ [Device!Next]_(Device!vars)
<1>1. /\ ~idle /\ k < io.n /\ k' = k + 1
      /\ UNCHANGED <<board, io, mem, res, hasty, pc, command, idle, ioc, ioe, bsy, drq, err, left>>
      /\ IF io.op = "read"
           THEN iobuf' = [iobuf EXCEPT ![k] = media[At(k)]] /\ UNCHANGED <<media, durable>>
           ELSE /\ media' = [media EXCEPT ![At(k)] = iobuf[k]]
                /\ durable' = [durable EXCEPT ![At(k)] = iobuf[k]]
                /\ UNCHANGED iobuf
  BY DEF CardSector, idevars
<1>2. /\ pc \in SdSteps /\ ~command /\ ~ioc /\ io.op # "sync" /\ k \in Nat
      /\ io \in Requests /\ io # Idle /\ io.blk + io.n <= NBlocks /\ durable = media
      /\ DOMAIN media = Drives \X Blocks /\ DOMAIN mem = Sectors
      /\ DOMAIN iobuf = 0..(MaxCount - 1)
  BY <1>1 DEF DataInv, ReqInv, CardInv, SdData, SdSteps, IdeSteps
<1>3. io.op \in {"read", "write"} /\ io.n \in 0..MaxCount /\ MaxCount \in Nat
  BY <1>2, RequestFields, DiskAssumption
<1>4. /\ Sectors = 0..(io.n - 1) /\ \A i \in Sectors : At(i) \in Drives \X Blocks
      /\ \A i, j \in Sectors : At(i) = At(j) => i = j
  BY <1>2, SectorFacts
<1>5. k \in Sectors /\ k \in 0..(MaxCount - 1)
  BY <1>1, <1>2, <1>3, <1>4
<1>6. Sectors' = Sectors /\ \A i : At(i)' = At(i)
  BY <1>1 DEF Sectors, Device!Sectors, At, Device!At
<1>7. DOMAIN media' = DOMAIN media /\ DOMAIN durable' = DOMAIN durable /\ durable' = media'
  BY <1>1, <1>2
<1>8. FlagInv'
  BY <1>1, Zenon DEF DataInv, FlagInv
<1>9. ReqInv'
  BY <1>1, <1>2, <1>6, <1>7 DEF DataInv, ReqInv, SdSteps, IdeSteps
<1>10. CardInv'
  BY <1>1, <1>2, <1>3 DEF DataInv, CardInv, SdSteps
<1>11. DeviceInv' /\ IdeData'
  BY <1>1, <1>2 DEF DataInv, DeviceInv, IdeData, SdSteps, IdeSteps
<1>12. CASE io.op = "read"
  <2>1. ASSUME NEW i \in Sectors, i < k + 1 PROVE iobuf'[i] = media[At(i)]
    <3>1. CASE i = k
      BY <1>1, <1>2, <1>5, <1>12, <3>1
    <3>2. CASE i # k
      <4>1. i < k /\ i \in 0..(MaxCount - 1)
        BY <1>2, <1>3, <1>4, <2>1, <3>2
      <4>2. iobuf[i] = media[At(i)]
        BY <1>2, <1>12, <4>1 DEF DataInv, SdData
      <4> QED
        BY <1>1, <1>2, <1>12, <3>2, <4>1, <4>2
    <3> QED
      BY <3>1, <3>2
  <2>2. SdData'
    BY <1>1, <1>2, <1>6, <1>12, <2>1 DEF SdData
  <2> QED
    BY <1>1, <1>8, <1>9, <1>10, <1>11, <1>12, <2>2 DEF DataInv, Device!vars
<1>13. CASE io.op = "write"
  <2>1. iobuf[k] = mem[k]
    BY <1>2, <1>5, <1>13 DEF DataInv, SdData
  <2>2. /\ media' = [media EXCEPT ![At(k)] = mem[k]]
        /\ durable' = [durable EXCEPT ![At(k)] = mem[k]] /\ iobuf' = iobuf
    BY <1>1, <1>13, <2>1
  <2>3. ASSUME NEW i \in Sectors, i < k + 1 PROVE media'[At(i)] = mem[i]
    <3>1. CASE i = k
      BY <1>2, <1>4, <1>5, <2>2, <3>1
    <3>2. CASE i # k
      <4>1. i < k /\ At(i) # At(k)
        BY <1>2, <1>3, <1>4, <1>5, <2>3, <3>2
      <4> QED
        BY <1>2, <1>4, <1>13, <2>2, <4>1 DEF DataInv, SdData
    <3> QED
      BY <3>1, <3>2
  <2>4. SdData'
    BY <1>1, <1>2, <1>6, <1>7, <1>13, <2>2, <2>3 DEF DataInv, SdData
  <2>5. Device!Write
    BY <1>1, <1>5, <1>13, <2>2 DEF Device!Write, At, Sectors
  <2> QED
    BY <1>8, <1>9, <1>10, <1>11, <2>4, <2>5 DEF DataInv, Device!Next
<1> QED
  BY <1>3, <1>12, <1>13

-----------------------------------------------------------------------------
(* The driver of the PATA disks: the request is refused, or the command is sent. *)
LEMMA IdeRefusedData ==
  ASSUME DataInv, board = "x86_64", ide_refused, UNCHANGED sdvars
  PROVE  DataInv' /\ [Device!Next]_(Device!vars)
<1>1. /\ pc = "driver" /\ UNCHANGED <<board, media, durable, mem, bsy, drq, err, left>>
      /\ UNCHANGED <<command, idle, ioc, ioe, iobuf>>
      /\ Status(IF io.did \in IdeDrives THEN "DISK_NOT_READY" ELSE "DISK_INVALID")
  BY DEF ide_refused, idevars, sdvars
<1>2. /\ idle /\ ~command /\ ~bsy /\ io \in Requests /\ k = 0 /\ io # Idle
      /\ DOMAIN iobuf = 0..(MaxCount - 1) /\ left \in Nat /\ FlagInv
  BY <1>1, AtRest
<1>3. pc' = "idle" /\ io' = Idle /\ k' = 0
  BY <1>1 DEF Status, Return
<1>4. FlagInv'
  BY <1>1, <1>2, Zenon DEF FlagInv
<1>5. \E r \in Results \ {"RES_OK"} : Return(r)
  BY <1>1 DEF Status, from_flushStatus, from_diskioStatus, Results
<1>6. DataInv'
  BY <1>1, <1>2, <1>3, <1>4, Returned
<1>7. [Device!Next]_(Device!vars)
  BY <1>1, <1>5, ErrorReturn
<1> QED
  BY <1>6, <1>7

(* The count register holds what is asked for. *)
LEMMA CountFits ==
  ASSUME NEW n \in Nat \ {0}, n <= CountRange
  PROVE  SectorCount(n) = n
<1>1. CountRange \in Nat \ {0}
  BY DiskAssumption
<1>2. CASE n = CountRange
  BY <1>1, <1>2 DEF SectorCount
<1>3. CASE n < CountRange
  <2>1. n % CountRange = n
    BY <1>1, <1>3
  <2> QED
    BY <2>1 DEF SectorCount
<1> QED
  BY <1>1, <1>2, <1>3

LEMMA IdeBeginData ==
  ASSUME DataInv, board = "x86_64", ide_begin, UNCHANGED sdvars
  PROVE  DataInv' /\ [Device!Next]_(Device!vars)
<1>1. /\ pc = "driver" /\ pc' = "drq" /\ io.op # "sync"
      /\ UNCHANGED <<board, media, durable, io, mem, res, hasty, k, command, idle, ioc, ioe, iobuf>>
      /\ bsy' = TRUE /\ drq' = FALSE /\ err' = FALSE /\ left' = SectorCount(io.n)
  BY DEF ide_begin, sdvars
<1>2. /\ idle /\ ~command /\ ~bsy /\ io \in Requests /\ k = 0 /\ io # Idle
      /\ DOMAIN iobuf = 0..(MaxCount - 1) /\ left \in Nat /\ FlagInv
  BY <1>1, AtRest
<1>3. /\ io.op \in {"read", "write"} /\ io.n \in Nat /\ io.n # 0 /\ io.n <= CountRange
  BY <1>1, <1>2, RequestFields, DiskAssumption DEF DataInv, ReqInv
<1>4. left' = io.n
  BY <1>1, <1>3, CountFits
<1>5. Sectors' = Sectors /\ Sectors = 0..(io.n - 1) /\ \A i : At(i)' = At(i)
  BY <1>1 DEF Sectors, Device!Sectors, At, Device!At
<1>6. FlagInv'
  BY <1>1, <1>2, Zenon DEF FlagInv
<1>7. ReqInv'
  BY <1>1, <1>2, <1>5 DEF DataInv, ReqInv, SdSteps, IdeSteps
<1>8. CardInv' /\ DeviceInv'
  BY <1>1, <1>2, <1>3, <1>4 DEF CardInv, DeviceInv, SdSteps, IdeSteps
<1>9. SdData' /\ IdeData'
  BY <1>1, <1>2, <1>3, <1>5 DEF DataInv, ReqInv, SdData, IdeData, SdSteps, IdeSteps
<1> QED
  BY <1>1, <1>6, <1>7, <1>8, <1>9 DEF DataInv, Device!vars

(* A flush is refused, is sent, or is sent and looked at before it has begun. *)
LEMMA IdeFlushData ==
  ASSUME DataInv, board = "x86_64", ide_flush, UNCHANGED sdvars
  PROVE  DataInv' /\ [Device!Next]_(Device!vars)
<1>1. /\ pc = "driver" /\ io.op = "sync" /\ UNCHANGED <<board, media, durable, mem>>
      /\ UNCHANGED <<command, idle, ioc, ioe, iobuf>>
  BY DEF ide_flush, sdvars
<1>2. /\ idle /\ ~command /\ ~bsy /\ io \in Requests /\ k = 0 /\ io # Idle
      /\ DOMAIN iobuf = 0..(MaxCount - 1) /\ left \in Nat /\ FlagInv
  BY <1>1, AtRest
<1>3. CASE Status("DISK_IO_ERR") /\ UNCHANGED <<bsy, drq, err, left, failed>>
  <2>1. Return("RES_ERROR")
    BY <1>1, <1>3 DEF Status, from_flushStatus
  <2>2. pc' = "idle" /\ io' = Idle /\ k' = 0
    BY <2>1 DEF Return
  <2>3. FlagInv'
    BY <1>1, <1>2, <1>3, Zenon DEF FlagInv
  <2>4. DataInv'
    BY <1>1, <1>2, <1>3, <2>2, <2>3, Returned
  <2>5. [Device!Next]_(Device!vars)
    BY <1>1, <2>1, ErrorReturn DEF Results
  <2> QED
    BY <2>4, <2>5
<1>4. CASE /\ pc' = "final" /\ drq' = FALSE /\ left' = 0 /\ UNCHANGED <<io, res, k>>
           /\ \/ bsy' = TRUE /\ err' = FALSE /\ UNCHANGED hasty
              \/ bsy' = FALSE /\ err' = (io.did \in failed) /\ hasty' = TRUE
  <2>1. Sectors' = Sectors /\ \A i : At(i)' = At(i)
    BY <1>4 DEF Sectors, Device!Sectors, At, Device!At
  <2>2. io.n = 0
    BY <1>1, <1>2, RequestFields
  <2>3. bsy' \in BOOLEAN /\ drq' \in BOOLEAN /\ err' \in BOOLEAN
    <3>1. (io.did \in failed) \in BOOLEAN
      OBVIOUS
    <3>2. bsy' \in {TRUE, FALSE} /\ drq' = FALSE /\ err' \in {FALSE, io.did \in failed}
      BY <1>4, Zenon
    <3> QED
      BY <3>1, <3>2
  <2>4. FlagInv'
    BY <1>1, <1>2, <2>3, Zenon DEF FlagInv
  <2>5. ReqInv'
    BY <1>1, <1>2, <1>4, <2>1 DEF DataInv, ReqInv, SdSteps, IdeSteps
  <2>6. bsy' => ~err'
    BY <1>4
  <2>7. CardInv' /\ DeviceInv'
    BY <1>1, <1>2, <1>4, <2>2, <2>6 DEF CardInv, DeviceInv, SdSteps, IdeSteps
  <2>8. bsy' \/ hasty'
    BY <1>4
  <2>9. SdData' /\ IdeData'
    BY <1>1, <1>2, <1>4, <2>1, <2>8 DEF DataInv, ReqInv, SdData, IdeData, SdSteps, IdeSteps
  <2>10. [Device!Next]_(Device!vars)
    BY <1>1, <1>4 DEF Device!Hasten, Device!Next, Device!vars
  <2> QED
    BY <2>4, <2>5, <2>7, <2>9, <2>10 DEF DataInv
<1> QED
  BY <1>3, <1>4 DEF ide_flush

(* What the driver of the PATA disks knows at its waits. *)
LEMMA IdeFacts ==
  ASSUME DataInv, pc \in IdeSteps
  PROVE  /\ idle /\ ~command /\ io \in Requests /\ io # Idle /\ board = "x86_64"
         /\ DOMAIN iobuf = 0..(MaxCount - 1) /\ FlagInv
         /\ DOMAIN media = Drives \X Blocks /\ DOMAIN durable = Drives \X Blocks
         /\ DOMAIN mem = Sectors /\ io.blk + io.n <= NBlocks
         /\ io.op \in {"read", "write", "sync"} /\ io.n \in Nat /\ k \in Nat /\ left \in Nat
         /\ io.n = 0 <=> io.op = "sync"
         /\ Sectors = 0..(io.n - 1) /\ \A i \in Sectors : At(i) \in Drives \X Blocks
         /\ \A i, j \in Sectors : At(i) = At(j) => i = j
<1>1. /\ idle /\ ~command /\ io \in Requests /\ io # Idle /\ board = "x86_64"
      /\ DOMAIN iobuf = 0..(MaxCount - 1) /\ FlagInv
      /\ DOMAIN media = Drives \X Blocks /\ DOMAIN durable = Drives \X Blocks
      /\ DOMAIN mem = Sectors /\ io.blk + io.n <= NBlocks /\ k \in Nat /\ left \in Nat
  BY DEF DataInv, ReqInv, CardInv, DeviceInv, SdSteps, IdeSteps
<1>2. io.op \in {"read", "write", "sync"} /\ io.n \in Nat /\ (io.n = 0 <=> io.op = "sync")
  BY <1>1, RequestFields, DiskAssumption
<1> QED
  BY <1>1, <1>2, SectorFacts

(* The transfer has been cut short by an error, and the return is lost. *)
LEMMA WildData ==
  ASSUME DataInv, pc \in IdeSteps, ~bsy, pc' = "wild",
         UNCHANGED <<board, media, durable, io, mem, res, hasty, k, bsy, drq, err, left, sdvars>>
  PROVE  DataInv' /\ [Device!Next]_(Device!vars)
<1>1. Sectors' = Sectors
  BY DEF Sectors, Device!Sectors
<1>2. FlagInv'
  BY Zenon DEF DataInv, FlagInv, sdvars
<1>3. ReqInv'
  BY <1>1 DEF DataInv, ReqInv, SdSteps, IdeSteps
<1>4. CardInv' /\ DeviceInv'
  BY DEF DataInv, CardInv, DeviceInv, SdSteps, IdeSteps, sdvars
<1>5. SdData' /\ IdeData'
  BY DEF DataInv, SdData, IdeData, SdSteps, IdeSteps
<1> QED
  BY <1>2, <1>3, <1>4, <1>5 DEF DataInv, Device!vars

LEMMA IdeDrqData ==
  ASSUME DataInv, board = "x86_64", ide_drq, UNCHANGED sdvars
  PROVE  DataInv' /\ [Device!Next]_(Device!vars)
<1>1. /\ pc = "drq" /\ ~bsy /\ UNCHANGED <<board, media, durable, mem, bsy, drq, err, left>>
      /\ UNCHANGED <<command, idle, ioc, ioe, iobuf>>
      /\ IF err THEN Status("DISK_IO_ERR") ELSE pc' = "sector" /\ UNCHANGED <<io, res, hasty, k>>
  BY DEF ide_drq, idevars, sdvars
<1>2. pc \in IdeSteps /\ io.op # "sync" /\ k = 0 /\ left = io.n
  BY <1>1 DEF DataInv, DeviceInv, IdeSteps
<1>3. FlagInv'
  BY <1>1, Zenon DEF DataInv, FlagInv
<1>4. CASE err
  <2>1. Return("RES_ERROR")
    BY <1>1, <1>2, <1>4 DEF Status, from_diskioStatus
  <2>2. pc' = "idle" /\ io' = Idle /\ k' = 0
    BY <2>1 DEF Return
  <2>3. DataInv'
    BY <1>1, <1>2, <1>3, <2>2, IdeFacts, Returned
  <2>4. [Device!Next]_(Device!vars)
    BY <1>1, <2>1, ErrorReturn DEF Results
  <2> QED
    BY <2>3, <2>4
<1>5. CASE ~err
  <2>1. pc' = "sector" /\ UNCHANGED <<io, res, hasty, k>>
    BY <1>1, <1>5
  <2>2. Sectors' = Sectors /\ \A i : At(i)' = At(i)
    BY <2>1 DEF Sectors, Device!Sectors, At, Device!At
  <2>3. ReqInv'
    BY <1>1, <2>1, <2>2 DEF DataInv, ReqInv, SdSteps, IdeSteps
  <2>4. CardInv' /\ DeviceInv'
    BY <1>1, <1>2, <1>5, <2>1, IdeFacts DEF DataInv, CardInv, DeviceInv, SdSteps, IdeSteps
  <2>5. SdData' /\ IdeData'
    BY <1>1, <1>2, <2>1, <2>2 DEF DataInv, SdData, IdeData, SdSteps, IdeSteps
  <2> QED
    BY <1>1, <1>3, <2>1, <2>3, <2>4, <2>5 DEF DataInv, Device!vars
<1> QED
  BY <1>4, <1>5

(* A sector is read, *)
LEMMA IdeReadData ==
  ASSUME DataInv, board = "x86_64", ide_read, UNCHANGED sdvars
  PROVE  DataInv' /\ [Device!Next]_(Device!vars)
<1>1. /\ pc = "sector" /\ ~bsy /\ io.op = "read"
      /\ UNCHANGED <<board, media, durable, err, sdvars>>
      /\ UNCHANGED <<command, idle, ioc, ioe, iobuf>>
  BY DEF ide_read, sdvars
<1>2. pc \in IdeSteps /\ k < io.n /\ left = io.n - k
  BY <1>1 DEF DataInv, DeviceInv, IdeSteps
<1>3. CASE err
  <2>1. pc' = "wild" /\ UNCHANGED <<io, mem, res, hasty, k, bsy, drq, left>>
    BY <1>3 DEF ide_read
  <2> QED
    BY <1>1, <1>2, <2>1, WildData
<1>4. CASE ~err
  <2>1. /\ left' = left - 1 /\ bsy' = (left > 1) /\ drq' = FALSE
        /\ mem' = [mem EXCEPT ![k] = media[At(k)]]
        /\ IF k + 1 = io.n THEN Status("DISK_IO_OK")
                           ELSE k' = k + 1 /\ UNCHANGED <<pc, io, res, hasty>>
    BY <1>1, <1>4 DEF ide_read, DataInv, DeviceInv
  <2>2. /\ io.n \in Nat /\ k \in Nat /\ k \in Sectors /\ left' \in Nat
        /\ DOMAIN mem' = Sectors
    <3>1. io.n \in Nat /\ k \in Nat /\ DOMAIN mem = Sectors /\ Sectors = 0..(io.n - 1)
      BY <1>2, IdeFacts
    <3> QED
      BY <1>2, <2>1, <3>1
  <2>3. \A i \in Sectors : mem'[i] = IF i < k + 1 THEN media[At(i)] ELSE Junk
    <3>1. \A i \in Sectors : mem[i] = IF i < k THEN media[At(i)] ELSE Junk
      BY <1>1, <1>2 DEF DataInv, IdeData
    <3> QED
      BY <1>2, <2>1, <2>2, <3>1, IdeFacts
  <2>4. FlagInv'
    <3>1. bsy' \in BOOLEAN
      BY <2>1
    <3> QED
      BY <1>1, <2>1, <3>1, Zenon DEF DataInv, FlagInv
  <2>5. CASE k + 1 = io.n
    <3>1. Return("RES_OK")
      BY <1>1, <2>1, <2>5 DEF Status, from_diskioStatus
    <3>2. pc' = "idle" /\ io' = Idle /\ k' = 0
      BY <3>1 DEF Return
    <3>3. ~bsy'
      <4>1. ~(left > 1)
        BY <1>2, <2>2, <2>5
      <4> QED
        BY <2>1, <4>1, Zenon
    <3>4. DataInv'
      BY <1>1, <1>2, <2>2, <2>4, <3>2, <3>3, IdeFacts, Returned
    <3>5. \A i \in Sectors : mem'[i] = media[At(i)]
      BY <1>2, <2>3, <2>5, IdeFacts
    <3>6. Device!Done
      BY <1>1, <3>5 DEF Device!Done, At, Sectors
    <3>7. Device!Return("RES_OK")
      BY <1>1, <1>2, <2>2, <3>1, <3>6, IdeFacts DEF Return, Device!Return, Idle, Sectors
    <3> QED
      BY <3>4, <3>7 DEF Device!Next, Results
  <2>6. CASE k + 1 # io.n
    <3>1. k' = k + 1 /\ UNCHANGED <<pc, io, res, hasty>>
      BY <2>1, <2>6
    <3>2. Sectors' = Sectors /\ \A i : At(i)' = At(i)
      BY <3>1 DEF Sectors, Device!Sectors, At, Device!At
    <3>3. bsy' /\ k + 1 < io.n
      <4>1. left > 1 /\ k + 1 < io.n
        BY <1>2, <2>2, <2>6
      <4> QED
        BY <2>1, <4>1, Zenon
    <3>4. ReqInv'
      BY <1>1, <1>2, <2>2, <3>1, <3>2 DEF DataInv, ReqInv, SdSteps, IdeSteps
    <3>5. CardInv'
      BY <1>1, <1>2, <3>1, IdeFacts DEF CardInv, SdSteps, IdeSteps
    <3>6. DeviceInv'
      BY <1>1, <1>2, <1>4, <2>1, <2>2, <3>1, <3>3, IdeFacts DEF DeviceInv, IdeSteps
    <3>7. SdData' /\ IdeData'
      BY <1>1, <2>3, <3>1, <3>2 DEF DataInv, SdData, IdeData, SdSteps, IdeSteps
    <3>8. Device!Read
      <4>1. \A i \in Sectors : mem'[i] \in {mem[i], media[At(i)]}
        BY <1>2, <2>1, IdeFacts
      <4> QED
        BY <1>1, <2>2, <3>1, <4>1 DEF Device!Read, At, Sectors
    <3> QED
      BY <2>4, <3>4, <3>5, <3>6, <3>7, <3>8 DEF DataInv, Device!Next
  <2> QED
    BY <2>5, <2>6
<1> QED
  BY <1>3, <1>4

(* or given to the device. *)
LEMMA IdeWriteData ==
  ASSUME DataInv, board = "x86_64", ide_write, UNCHANGED sdvars
  PROVE  DataInv' /\ [Device!Next]_(Device!vars)
<1>1. /\ pc = "sector" /\ ~bsy /\ io.op = "write"
      /\ UNCHANGED <<board, media, durable, io, mem, res, hasty, err, sdvars>>
      /\ UNCHANGED <<command, idle, ioc, ioe, iobuf>>
  BY DEF ide_write, sdvars
<1>2. pc \in IdeSteps /\ k < io.n /\ left = io.n - k
  BY <1>1 DEF DataInv, DeviceInv, IdeSteps
<1>3. CASE err
  <2>1. pc' = "wild" /\ UNCHANGED <<k, bsy, drq, left>>
    BY <1>3 DEF ide_write
  <2> QED
    BY <1>1, <1>2, <2>1, WildData
<1>4. CASE ~err
  <2>1. /\ left' = left - 1 /\ bsy' /\ drq' = FALSE /\ k' = k + 1
        /\ pc' = IF k + 1 = io.n THEN "final" ELSE "sector"
    BY <1>1, <1>4 DEF ide_write, DataInv, DeviceInv
  <2>2. FlagInv'
    <3>1. bsy' \in BOOLEAN
      BY <1>1, <1>4, Zenon DEF ide_write, DataInv, FlagInv
    <3> QED
      BY <1>1, <2>1, <3>1, Zenon DEF DataInv, FlagInv
  <2>3. Sectors' = Sectors /\ \A i : At(i)' = At(i)
    BY <1>1 DEF Sectors, Device!Sectors, At, Device!At
  <2>4. ReqInv'
    BY <1>1, <1>2, <2>1, <2>3 DEF DataInv, ReqInv, SdSteps, IdeSteps
  <2>5. CardInv'
    BY <1>1, <1>2, <2>1, IdeFacts DEF CardInv, SdSteps
  <2>6. DeviceInv'
    <3>1. io.n \in Nat /\ k \in Nat
      BY <1>2, IdeFacts
    <3> QED
      BY <1>1, <1>2, <1>4, <2>1, <3>1 DEF DeviceInv, IdeSteps
  <2>7. SdData'
    BY <1>1, <2>1 DEF DataInv, SdData, SdSteps
  <2>8. IdeData'
    <3>1. \A i \in Sectors : i + 1 < k + 1 => media[At(i)] = mem[i]
      BY <1>1, <1>2, <1>4, IdeFacts DEF DataInv, IdeData
    <3> QED
      BY <1>1, <2>1, <2>3, <3>1 DEF IdeData
  <2> QED
    BY <1>1, <2>2, <2>4, <2>5, <2>6, <2>7, <2>8 DEF DataInv, Device!vars
<1> QED
  BY <1>3, <1>4

(* A write or a flush ends. *)
LEMMA IdeFinalData ==
  ASSUME DataInv, board = "x86_64", ide_final, UNCHANGED sdvars
  PROVE  DataInv' /\ [Device!Next]_(Device!vars)
<1>1. /\ pc = "final" /\ ~bsy /\ UNCHANGED <<board, media, durable, mem, bsy, drq, err, left>>
      /\ UNCHANGED <<command, idle, ioc, ioe, iobuf>>
      /\ Status(IF err THEN "DISK_IO_ERR" ELSE "DISK_IO_OK")
  BY DEF ide_final, idevars, sdvars
<1>2. pc \in IdeSteps /\ io.op # "read" /\ k = io.n
  BY <1>1 DEF DataInv, DeviceInv, IdeSteps
<1>3. FlagInv'
  BY <1>1, Zenon DEF DataInv, FlagInv
<1>4. DataInv'
  <2>1. pc' = "idle" /\ io' = Idle /\ k' = 0
    BY <1>1 DEF Status, Return
  <2> QED
    BY <1>1, <1>2, <1>3, <2>1, IdeFacts, Returned
<1>5. CASE err
  <2>1. Return("RES_ERROR")
    BY <1>1, <1>5 DEF Status, from_diskioStatus, from_flushStatus
  <2> QED
    BY <1>1, <1>4, <2>1, ErrorReturn DEF Results
<1>6. CASE ~err
  <2>1. Return("RES_OK")
    BY <1>1, <1>6 DEF Status, from_diskioStatus, from_flushStatus
  <2>2. io.op = "write" => \A i \in Sectors : media[At(i)] = mem[i]
    <3>1. \A i \in Sectors : i < k
      BY <1>2, IdeFacts
    <3> QED
      BY <1>1, <1>2, <1>6, <3>1 DEF DataInv, IdeData
  <2>3. io.op = "sync" => hasty \/ \A b \in DOMAIN media : b[1] = io.did => durable[b] = media[b]
    BY <1>1, <1>6 DEF DataInv, IdeData
  <2>4. Device!Done
    <3>1. CASE io.op = "write"
      BY <1>1, <2>2, <3>1 DEF Device!Done, At, Sectors
    <3>2. CASE io.op = "sync"
      BY <1>1, <2>3, <3>2 DEF Device!Done
    <3> QED
      BY <1>2, <3>1, <3>2, IdeFacts
  <2>5. Device!Return("RES_OK")
    BY <1>1, <1>2, <2>1, <2>4, IdeFacts DEF Return, Device!Return, Idle, Sectors
  <2> QED
    BY <1>4, <2>5 DEF Device!Next, Results
<1> QED
  BY <1>5, <1>6

-----------------------------------------------------------------------------
(* The device is ready for more: it has taken over the last sector, or has flushed its cache. *)
LEMMA DeviceReadyData ==
  ASSUME DataInv, board = "x86_64", DeviceReady, UNCHANGED sdvars
  PROVE  DataInv' /\ [Device!Next]_(Device!vars)
<1>1. /\ bsy /\ bsy' = FALSE /\ drq' = (left > 0)
      /\ UNCHANGED <<board, io, mem, res, hasty, pc, k, err, left, sdvars>>
      /\ UNCHANGED <<command, idle, ioc, ioe, iobuf>>
      /\ media' = IF io.op = "write" /\ k > 0 THEN [media EXCEPT ![At(k - 1)] = mem[k - 1]]
                  ELSE media
      /\ durable' = IF io.op = "sync"
                      THEN [b \in DOMAIN media |-> IF b[1] = io.did THEN media[b] ELSE durable[b]]
                      ELSE durable
  BY DEF DeviceReady, sdvars
<1>2. pc \in IdeSteps /\ ~err
  BY <1>1 DEF DataInv, DeviceInv
<1>3. Sectors' = Sectors /\ \A i : At(i)' = At(i)
  BY <1>1 DEF Sectors, Device!Sectors, At, Device!At
<1>4. DOMAIN media' = DOMAIN media /\ DOMAIN durable' = DOMAIN durable
  BY <1>1, <1>2, IdeFacts
<1>5. FlagInv'
  <2>1. drq' \in BOOLEAN
    BY <1>1
  <2> QED
    BY <1>1, <2>1, Zenon DEF DataInv, FlagInv
<1>6. ReqInv'
  BY <1>1, <1>2, <1>3, <1>4 DEF DataInv, ReqInv, SdSteps, IdeSteps
<1>7. CardInv'
  BY <1>1 DEF DataInv, CardInv
<1>8. DeviceInv'
  <2>1. pc \in {"drq", "sector"} => left > 0
    <3>1. io.n \in Nat /\ k \in Nat /\ (io.n = 0 <=> io.op = "sync")
      BY <1>2, IdeFacts
    <3> QED
      BY <3>1 DEF DataInv, DeviceInv
  <2>2. pc \in {"drq", "sector"} => drq'
    BY <1>1, <2>1, Zenon
  <2> QED
    BY <1>1, <1>2, <2>2 DEF DataInv, DeviceInv
<1>9. SdData'
  BY <1>1, <1>2 DEF DataInv, SdData, SdSteps, IdeSteps
<1>10. CASE io.op = "read"
  <2>1. media' = media /\ durable' = durable
    BY <1>1, <1>10
  <2>2. IdeData'
    BY <1>1, <1>2, <1>3, <1>10, <2>1 DEF DataInv, IdeData
  <2> QED
    BY <1>1, <1>5, <1>6, <1>7, <1>8, <1>9, <2>1, <2>2 DEF DataInv, Device!vars
<1>11. CASE io.op = "write" /\ k = 0
  <2>1. media' = media /\ durable' = durable
    BY <1>1, <1>11
  <2>2. \A i \in Sectors : ~(i + 1 < k \/ i < k)
    BY <1>2, <1>11, IdeFacts
  <2>3. IdeData'
    BY <1>1, <1>3, <1>11, <2>2 DEF IdeData
  <2> QED
    BY <1>1, <1>5, <1>6, <1>7, <1>8, <1>9, <2>1, <2>3 DEF DataInv, Device!vars
<1>12. CASE io.op = "write" /\ k # 0
  <2>1. /\ media' = [media EXCEPT ![At(k - 1)] = mem[k - 1]] /\ durable' = durable
    BY <1>1, <1>2, <1>12, IdeFacts
  <2>2. k - 1 \in Sectors
    <3>1. k <= io.n
      BY <1>2, <1>12, IdeFacts DEF DataInv, DeviceInv, IdeSteps
    <3> QED
      BY <1>2, <1>12, <3>1, IdeFacts
  <2>3. ASSUME NEW i \in Sectors, i + 1 < k \/ i < k PROVE media'[At(i)] = mem[i]
    <3>1. CASE i = k - 1
      BY <1>2, <2>1, <2>2, <3>1, IdeFacts
    <3>2. CASE i # k - 1
      <4>1. i + 1 < k /\ At(i) # At(k - 1)
        BY <1>2, <2>2, <2>3, <3>2, IdeFacts
      <4>2. media[At(i)] = mem[i]
        BY <1>2, <1>12, <4>1 DEF DataInv, IdeData
      <4> QED
        BY <1>2, <2>1, <4>1, <4>2, IdeFacts
    <3> QED
      BY <3>1, <3>2
  <2>4. IdeData'
    BY <1>1, <1>3, <1>12, <2>3 DEF IdeData
  <2>5. Device!Write
    BY <1>1, <1>12, <2>1, <2>2 DEF Device!Write, At, Sectors
  <2> QED
    BY <1>5, <1>6, <1>7, <1>8, <1>9, <2>4, <2>5 DEF DataInv, Device!Next
<1>13. CASE io.op = "sync"
  <2>1. /\ media' = media
        /\ durable' = [b \in DOMAIN media |-> IF b[1] = io.did THEN media[b] ELSE durable[b]]
    BY <1>1, <1>13
  <2>2. IdeData'
    BY <1>1, <1>13, <2>1 DEF IdeData
  <2>3. Device!WriteBack
    BY <1>1, <2>1 DEF Device!WriteBack
  <2> QED
    BY <1>5, <1>6, <1>7, <1>8, <1>9, <2>2, <2>3 DEF DataInv, Device!Next
<1> QED
  BY <1>2, <1>10, <1>11, <1>12, <1>13, IdeFacts

(* The device gives up. *)
LEMMA DeviceErrorData ==
  ASSUME DataInv, board = "x86_64", DeviceError, UNCHANGED sdvars
  PROVE  DataInv' /\ [Device!Next]_(Device!vars)
<1>1. /\ bsy /\ bsy' = FALSE /\ drq' = FALSE /\ err' = TRUE
      /\ UNCHANGED <<board, media, durable, io, mem, res, hasty, pc, k, left>>
      /\ UNCHANGED <<command, idle, ioc, ioe, iobuf>>
  BY DEF DeviceError, iovars, sdvars
<1>2. Sectors' = Sectors /\ \A i : At(i)' = At(i)
  BY <1>1 DEF Sectors, Device!Sectors, At, Device!At
<1>3. FlagInv'
  BY <1>1, Zenon DEF DataInv, FlagInv
<1>4. ReqInv'
  BY <1>1, <1>2 DEF DataInv, ReqInv
<1>5. CardInv' /\ DeviceInv'
  BY <1>1 DEF DataInv, CardInv, DeviceInv
<1>6. SdData' /\ IdeData'
  BY <1>1, <1>2 DEF DataInv, SdData, IdeData
<1> QED
  BY <1>1, <1>3, <1>4, <1>5, <1>6 DEF DataInv, Device!vars

(* A block of the cache is written back. *)
LEMMA WriteBackData ==
  ASSUME DataInv, WriteBack
  PROVE  DataInv' /\ [Device!Next]_(Device!vars)
<1>1. PICK b \in DOMAIN media : durable' = [durable EXCEPT ![b] = media[b]]
  BY DEF WriteBack, DeviceWriteBack
<1>2. /\ board = "x86_64" /\ UNCHANGED <<board, media, io, mem, res, hasty, pc, k>>
      /\ UNCHANGED <<bsy, drq, err, left, command, idle, ioc, ioe, iobuf>>
  BY DEF WriteBack, DeviceWriteBack, idevars, sdvars
<1>3. Sectors' = Sectors /\ \A i : At(i)' = At(i)
  BY <1>2 DEF Sectors, Device!Sectors, At, Device!At
<1>4. DOMAIN durable = DOMAIN media /\ DOMAIN durable' = DOMAIN durable
  BY <1>1 DEF DataInv, ReqInv
<1>5. FlagInv'
  BY <1>2, Zenon DEF DataInv, FlagInv
<1>6. ReqInv'
  BY <1>2, <1>3, <1>4 DEF DataInv, ReqInv
<1>7. CardInv' /\ DeviceInv'
  BY <1>2 DEF DataInv, CardInv, DeviceInv
<1>8. SdData' /\ IdeData'
  BY <1>1, <1>2, <1>3, <1>4 DEF DataInv, SdData, IdeData
<1>9. Device!WriteBack
  BY <1>1, <1>2, <1>4 DEF Device!WriteBack
<1> QED
  BY <1>5, <1>6, <1>7, <1>8, <1>9 DEF DataInv, Device!Next

(* The board starts anew. *)
LEMMA PowerFailData ==
  ASSUME DataInv, PowerFail
  PROVE  DataInv' /\ [Device!Next]_(Device!vars)
<1>1. /\ media' = durable /\ io' = Idle /\ mem' = NoData /\ res' = "RES_OK" /\ hasty' = FALSE
      /\ pc' = "boot" /\ k' = 0 /\ UNCHANGED <<board, durable>>
      /\ command' = FALSE /\ idle' = TRUE /\ ioc' = FALSE /\ ioe' = FALSE
      /\ iobuf' = EmptyBuffer /\ bsy' = FALSE /\ drq' = FALSE /\ err' = FALSE /\ left' = 0
  BY DEF PowerFail
<1>2. FlagInv'
  BY <1>1, Zenon DEF FlagInv
<1>3. ReqInv'
  BY <1>1 DEF DataInv, ReqInv, SdSteps, IdeSteps
<1>4. CardInv' /\ DeviceInv'
  BY <1>1 DEF CardInv, DeviceInv, SdSteps, IdeSteps, EmptyBuffer
<1>5. SdData' /\ IdeData'
  BY <1>1 DEF SdData, IdeData, SdSteps, IdeSteps
<1>6. Device!PowerFail
  BY <1>1 DEF Device!PowerFail, Idle, NoData
<1> QED
  BY <1>2, <1>3, <1>4, <1>5, <1>6 DEF DataInv, Device!Next

LEMMA StutterData ==
  ASSUME DataInv, UNCHANGED diskvars
  PROVE  DataInv' /\ [Device!Next]_(Device!vars)
<1>1. /\ UNCHANGED <<board, media, durable, io, mem, res, hasty, pc, k, bsy, drq, err, left>>
      /\ UNCHANGED <<command, idle, ioc, ioe, iobuf>>
  BY DEF diskvars, iovars, drivers, sdvars, idevars
<1>2. Sectors' = Sectors /\ \A i : At(i)' = At(i)
  BY <1>1 DEF Sectors, Device!Sectors, At, Device!At
<1>3. FlagInv'
  BY <1>1, Zenon DEF DataInv, FlagInv
<1>4. ReqInv' /\ CardInv' /\ DeviceInv'
  BY <1>1, <1>2 DEF DataInv, ReqInv, CardInv, DeviceInv
<1>5. SdData' /\ IdeData'
  BY <1>1, <1>2 DEF DataInv, SdData, IdeData
<1> QED
  BY <1>1, <1>3, <1>4, <1>5 DEF DataInv, Device!vars

(* Every step keeps the invariant and is a step, or a stutter, of the block device. *)
LEMMA NextData == DataInv /\ [DiskNext]_diskvars => DataInv' /\ [Device!Next]_(Device!vars)
<1> SUFFICES ASSUME DataInv, [DiskNext]_diskvars
             PROVE  DataInv' /\ [Device!Next]_(Device!vars)
  OBVIOUS
<1>1. CASE \/ disk_io \/ FatCall \/ FatDone
  BY <1>1, FileData
<1>2. ASSUME NEW q \in Requests, FatRequest(q)
      PROVE  DataInv' /\ [Device!Next]_(Device!vars)
  BY <1>2, RequestData DEF Device!Next
<1>3. CASE Driver
  <2>1. CASE board = "mb_le" /\ check_diskReady(SdDrives) /\ UNCHANGED drivers
    BY <2>1, CheckData
  <2>2. CASE board = "x86_64" /\ check_diskReady(IdeDrives) /\ UNCHANGED drivers
    BY <2>2, CheckData
  <2>3. CASE board = "mb_le" /\ rsdcard /\ UNCHANGED idevars
    BY <2>3, SdFlushData, SdBeginData, SdWaitData, SdDoneData DEF rsdcard
  <2>4. CASE board = "x86_64" /\ ide /\ UNCHANGED sdvars
    BY <2>4, IdeRefusedData, IdeBeginData, IdeFlushData, IdeDrqData, IdeReadData, IdeWriteData, IdeFinalData
       DEF ide
  <2> QED
    BY <1>3, <2>1, <2>2, <2>3, <2>4 DEF Driver
<1>4. CASE Hardware
  <2>1. CASE board = "mb_le" /\ Card /\ UNCHANGED idevars
    BY <2>1, CardStepData, CardSectorData DEF Card
  <2>2. CASE board = "x86_64" /\ DeviceReady /\ UNCHANGED sdvars
    BY <2>2, DeviceReadyData
  <2> QED
    BY <1>4, <2>1, <2>2 DEF Hardware
<1>5. CASE Failure
  <2>1. \/ board = "mb_le" /\ CardDone(TRUE) /\ UNCHANGED idevars
        \/ board = "x86_64" /\ DeviceError /\ UNCHANGED sdvars
    BY <1>5 DEF Failure
  <2> QED
    BY <2>1, CardStepData, DeviceErrorData
<1>6. CASE WriteBack \/ PowerFail
  BY <1>6, WriteBackData, PowerFailData
<1>7. CASE UNCHANGED diskvars
  BY <1>7, StutterData
<1> QED
  BY <1>1, <1>2, <1>3, <1>4, <1>5, <1>6, <1>7 DEF DiskNext

(* disk_read, disk_write and CTRL_SYNC of either board keep the promise of a block device, *)
(* whatever its size, with any number of hardware errors and power failures.               *)
THEOREM RefinesBlockDevice == DiskSpec => ImplementsBlockDevice
<1>1. DiskInit => Device!Init
  BY DEF DiskInit, IoInit
<1> QED
  BY <1>1, InitData, NextData, PTL DEF DiskSpec, ImplementsBlockDevice, Device!Spec

-----------------------------------------------------------------------------
(* The table of open files in the whole: file operations that fail at any of their *)
(* requests take only the steps that fat.c alone takes, and a power failure begins *)
(* with an empty table.                                                            *)
LEMMA TableSteps == IInv /\ [DiskNext]_diskvars => IInv'
<1> SUFFICES ASSUME IInv, [DiskNext]_diskvars PROVE IInv'
  OBVIOUS
<1>1. CASE FatDone
  <2>1. UNCHANGED table \/ FatOpened \/ FatMounted \/ FatClosed
    BY <1>1 DEF FatDone
  <2>2. [Next]_vars
    BY <2>1 DEF table, vars, Next, FatOpened, FatMounted, FatClosed
  <2> QED
    BY <2>2, NextTable
<1>2. CASE PowerFail
  <2>1. /\ (open_files = Empty)' /\ (files = 0)' /\ (fd \in [Clients -> FDs \cup {NoFd}])'
        /\ (stale = {c \in Clients : fd[c] # NoFd})'
    BY <1>2 DEF PowerFail, Empty
  <2> QED
    BY <2>1, EmptyTable, PTL
<1>3. CASE disk_io \/ FatCall \/ \E q \in Requests : FatRequest(q)
  <2>1. UNCHANGED table
    BY <1>3 DEF disk_io, FatCall, FatRequest
  <2> QED
    BY <2>1, NextTable DEF table, vars
<1>4. CASE Driver \/ Hardware \/ Failure \/ WriteBack \/ UNCHANGED diskvars
  <2>1. UNCHANGED table
    BY <1>4 DEF Driver, Hardware, Failure, WriteBack, diskvars
  <2> QED
    BY <2>1, NextTable DEF table, vars
<1> QED
  BY <1>1, <1>2, <1>3, <1>4 DEF DiskNext

(* fat.c over either driver: the counter agrees with the table, and a client's file is taken  *)
(* only by a mount, a close of its own, or the close of a stale descriptor, whatever requests *)
(* fail and wherever the power is lost.                                                       *)
THEOREM TableOverDisks == DiskSpec => [](CountMatches /\ OwnFile)
<1>1. DiskInit => IInv
  BY InitTable DEF DiskInit
<1> QED
  BY <1>1, TableSteps, PTL DEF DiskSpec, IInv

-----------------------------------------------------------------------------
(* What the steps other than disk_io, a request and a power failure leave alone. *)
LEMMA Unmoved ==
  ASSUME DataInv, [DiskNext]_diskvars, ~disk_io, ~PowerFail, ~(\E q \in Requests : FatRequest(q))
  PROVE  /\ UNCHANGED <<board, letter, bays, ata_detect>>
         /\ errors \subseteq errors'
         /\ pc = "boot" => pc' = "boot"
         /\ io' = io \/ io' = Idle
<1>1. CASE FatCall \/ FatDone
  BY <1>1 DEF FatCall, FatDone, iovars,
              drivers, idevars
<1>2. CASE Driver
  <2>1. CASE check_diskReady(SdDrives) /\ UNCHANGED drivers
    BY <2>1 DEF check_diskReady, Return, drivers, idevars
  <2>2. CASE check_diskReady(IdeDrives) /\ UNCHANGED drivers
    BY <2>2 DEF check_diskReady, Return, drivers, idevars
  <2>3. CASE rsdcard /\ UNCHANGED idevars
    BY <2>3 DEF rsdcard, flush_disk, rsdcard_begin, rsdcard_started, rsdcard_done, Status,
                Return, idevars
  <2>4. CASE ide_refused \/ ide_begin \/ ide_flush \/ ide_drq \/ ide_final
    BY <2>4 DEF ide_refused, ide_begin, ide_flush, ide_drq, ide_final, Status, Return, idevars
  <2>5. CASE ide_read \/ ide_write
    BY <2>5 DEF ide_read, ide_write, Status, Return
  <2> QED
    BY <1>2, <2>1, <2>2, <2>3, <2>4, <2>5 DEF Driver, ide
<1>3. CASE Hardware
  BY <1>3 DEF Hardware, Card, CardStart, CardSector, CardDone, DeviceReady, iovars, idevars
<1>4. CASE Failure
  BY <1>4 DEF Failure, CardDone, DeviceError, iovars, idevars
<1>5. CASE WriteBack
  BY <1>5 DEF WriteBack, DeviceWriteBack, idevars
<1>6. CASE UNCHANGED diskvars
  BY <1>6 DEF diskvars, iovars, drivers, idevars
<1> QED
  BY <1>1, <1>2, <1>3, <1>4, <1>5, <1>6 DEF DiskNext

(* Only check_diskReady leads to the driver. *)
LEMMA ToDriver ==
  ASSUME DataInv, [DiskNext]_diskvars, pc' = "driver"
  PROVE  io' = io /\ (pc = "driver" \/ (board = "x86_64" => letter[io.did] # NoLetter))
<1>1. CASE disk_io \/ PowerFail \/ \E q \in Requests : FatRequest(q)
  BY <1>1 DEF disk_io, PowerFail, FatRequest, disk_request
<1>2. CASE FatCall \/ FatDone
  BY <1>2 DEF FatCall, FatDone, iovars
<1>3. CASE Driver
  <2>1. CASE board = "mb_le" /\ check_diskReady(SdDrives)
    BY <2>1 DEF check_diskReady, Return
  <2>2. CASE check_diskReady(IdeDrives)
    <3>1. io.did \in IdeDrives
      BY <2>2, RequestFields, DiskAssumption DEF check_diskReady, DataInv, ReqInv, Drives, IdeDrives
    <3> QED
      BY <2>2, <3>1 DEF check_diskReady, Return
  <2>3. CASE rsdcard
    BY <2>3 DEF rsdcard, flush_disk, rsdcard_begin, rsdcard_started, rsdcard_done, Status, Return
  <2>4. CASE ide_refused \/ ide_begin \/ ide_flush \/ ide_drq \/ ide_final
    BY <2>4 DEF ide_refused, ide_begin, ide_flush, ide_drq, ide_final, Status, Return
  <2>5. CASE ide_read \/ ide_write
    BY <2>5 DEF ide_read, ide_write, Status, Return
  <2> QED
    BY <1>3, <2>1, <2>2, <2>3, <2>4, <2>5 DEF Driver, ide
<1>4. CASE Hardware
  BY <1>4 DEF Hardware, Card, CardStart, CardSector, CardDone, DeviceReady, iovars
<1>5. CASE Failure
  BY <1>5 DEF Failure, CardDone, DeviceError, iovars
<1>6. CASE WriteBack \/ UNCHANGED diskvars
  BY <1>6 DEF WriteBack, DeviceWriteBack, diskvars, iovars
<1> QED
  BY <1>1, <1>2, <1>3, <1>4, <1>5, <1>6 DEF DiskNext

LEMMA NextLetters == DataInv /\ LetterInv /\ [DiskNext]_diskvars => LetterInv'
<1> SUFFICES ASSUME DataInv, LetterInv, [DiskNext]_diskvars PROVE LetterInv'
  OBVIOUS
<1>1. CASE disk_io
  <2>1. /\ pc = "boot" /\ pc' = "idle" /\ UNCHANGED <<board, io, bays>>
        /\ IF board = "mb_le" THEN letter' = SdLetter
                              ELSE letter' = IdeLetter /\ ata_detect' = bays
    BY <1>1 DEF disk_io
  <2>2. io = Idle /\ IdeLetter' = IdeLetter /\ SdLetter' = SdLetter
    BY <2>1 DEF DataInv, ReqInv, IdeLetter, NextLetter, SdLetter
  <2> QED
    BY <2>1, <2>2 DEF LetterInv
<1>2. CASE PowerFail
  BY <1>2 DEF PowerFail, LetterInv
<1>3. ASSUME NEW q \in Requests, FatRequest(q) PROVE LetterInv'
  <2>1. /\ pc = "idle" /\ pc' = "check" /\ UNCHANGED <<board, letter, bays, ata_detect>>
    BY <1>3 DEF FatRequest, disk_request, drivers, idevars
  <2>2. IdeLetter' = IdeLetter /\ SdLetter' = SdLetter
    BY <2>1 DEF IdeLetter, NextLetter, SdLetter
  <2> QED
    BY <2>1, <2>2 DEF LetterInv
<1>4. CASE ~disk_io /\ ~PowerFail /\ ~(\E q \in Requests : FatRequest(q))
  <2>1. /\ UNCHANGED <<board, letter, bays, ata_detect>>
        /\ pc = "boot" => pc' = "boot"
        /\ pc' # "driver" \/ (pc = "driver" /\ io' = io)
           \/ (pc' = "driver" /\ io' = io /\ (board = "x86_64" => letter[io.did] # NoLetter))
    BY <1>4, Unmoved, ToDriver
  <2>2. IdeLetter' = IdeLetter /\ SdLetter' = SdLetter
    BY <2>1 DEF IdeLetter, NextLetter, SdLetter
  <2>3. ASSUME pc' # "boot"
        PROVE  IF board' = "mb_le" THEN letter' = SdLetter'
               ELSE letter' = IdeLetter' /\ ata_detect' = bays'
    <3>1. pc # "boot"
      BY <2>1, <2>3
    <3>2. IF board = "mb_le" THEN letter = SdLetter ELSE letter = IdeLetter /\ ata_detect = bays
      BY <3>1 DEF LetterInv
    <3> QED
      BY <2>1, <2>2, <3>2
  <2>4. pc' = "driver" /\ board' = "x86_64" => letter'[io'.did] # NoLetter
    BY <2>1 DEF LetterInv
  <2> QED
    BY <2>3, <2>4 DEF LetterInv
<1> QED
  BY <1>1, <1>2, <1>3, <1>4

(* A drive with a letter is one of the board's. *)
LEMMA LetterFacts ==
  ASSUME LetterInv, pc # "boot", io \in Requests, letter[io.did] # NoLetter, board \in Boards
  PROVE  /\ board = "mb_le" => io.did \in SdDrives
         /\ board = "x86_64" => io.did \in IdeDrives /\ ata_detect[io.did] # "none"
<1>1. io.did \in Drives
  BY RequestFields
<1>2. CASE board = "mb_le"
  BY <1>1, <1>2 DEF LetterInv, SdLetter
<1>3. CASE board = "x86_64"
  BY <1>1, <1>3 DEF LetterInv, IdeLetter
<1> QED
  BY <1>2, <1>3 DEF Boards

LEMMA NextIdeCause ==
  DataInv /\ IdeCause /\ [DiskNext]_diskvars => IdeCause'
<1> SUFFICES ASSUME DataInv, IdeCause, [DiskNext]_diskvars, pc' \in IdeSteps, err'
             PROVE  io'.did \in failed'
  BY DEF IdeCause
<1>1. CASE disk_io \/ PowerFail \/ \E q \in Requests : FatRequest(q)
  BY <1>1 DEF disk_io, PowerFail, FatRequest, disk_request, IdeSteps
<1>2. CASE FatCall \/ FatDone
  <2>1. UNCHANGED <<io, pc, err, failed>>
    BY <1>2 DEF FatCall, FatDone, iovars, drivers, idevars
  <2> QED
    BY <2>1 DEF IdeCause
<1>3. CASE Driver
  <2>1. CASE check_diskReady(SdDrives) \/ check_diskReady(IdeDrives)
    BY <2>1 DEF check_diskReady, Return, IdeSteps
  <2>2. CASE rsdcard
    BY <2>2 DEF rsdcard, flush_disk, rsdcard_begin, rsdcard_started, rsdcard_done, Status,
                Return, IdeSteps
  <2>3. CASE ide_begin
    BY <2>3 DEF ide_begin
  <2>4. CASE ide_flush
    BY <2>4 DEF ide_flush, Status, Return, IdeSteps
  <2>5. CASE ide_refused \/ ide_final
    BY <2>5 DEF ide_refused, ide_final, Status, Return, IdeSteps
  <2>6. CASE ide_drq \/ ide_read \/ ide_write
    <3>1. pc \in IdeSteps /\ UNCHANGED <<io, err, failed>>
      BY <2>6 DEF ide_drq, ide_read, ide_write, Status, Return, IdeSteps, idevars
    <3> QED
      BY <3>1 DEF IdeCause
  <2> QED
    BY <1>3, <2>1, <2>2, <2>3, <2>4, <2>5, <2>6 DEF Driver, ide
<1>4. CASE Hardware
  <2>1. UNCHANGED <<io, pc, err, failed>>
    BY <1>4 DEF Hardware, Card, CardStart, CardSector, CardDone, DeviceReady, iovars, idevars
  <2> QED
    BY <2>1 DEF IdeCause
<1>5. CASE Failure
  <2>1. CASE board = "mb_le" /\ CardDone(TRUE)
    BY <2>1 DEF CardDone, DataInv, ReqInv, IdeSteps
  <2>2. CASE DeviceError
    BY <2>2 DEF DeviceError, iovars
  <2> QED
    BY <1>5, <2>1, <2>2 DEF Failure
<1>6. CASE WriteBack \/ UNCHANGED diskvars
  <2>1. UNCHANGED <<io, pc, err, failed>>
    BY <1>6 DEF WriteBack, DeviceWriteBack, diskvars, drivers, iovars, idevars
  <2> QED
    BY <2>1 DEF IdeCause
<1> QED
  BY <1>1, <1>2, <1>3, <1>4, <1>5, <1>6 DEF DiskNext

LEMMA NextSdCause ==
  DataInv /\ SdCause /\ [DiskNext]_diskvars /\ DataInv' => SdCause'
<1> SUFFICES ASSUME DataInv, SdCause, [DiskNext]_diskvars, DataInv' PROVE SdCause'
  OBVIOUS
<1>1. CASE disk_io
  BY <1>1 DEF disk_io, SdCause, SdSteps, sdvars
<1>2. CASE PowerFail
  BY <1>2 DEF PowerFail, SdCause, SdSteps, Halted
<1>3. CASE \E q \in Requests : FatRequest(q)
  BY <1>3 DEF FatRequest, disk_request, SdCause, SdSteps, sdvars, drivers
<1>4. CASE FatCall \/ FatDone
  <2>1. UNCHANGED <<pc, io, k, errors, sdvars>>
    BY <1>4 DEF FatCall, FatDone, iovars, drivers
  <2> QED
    BY <2>1 DEF SdCause, sdvars
<1>5. CASE board = "x86_64" /\ ~disk_io /\ ~PowerFail /\ ~(\E q \in Requests : FatRequest(q))
           /\ (Driver \/ Hardware \/ Failure \/ WriteBack \/ UNCHANGED diskvars)
  <2>1. errors \subseteq errors' /\ board' = board
    BY <1>5, Unmoved
  <2>2. pc \notin SdSteps /\ pc' \notin SdSteps
    BY <1>5, <2>1 DEF DataInv, ReqInv
  <2>3. channel' = channel
    BY <1>5 DEF Driver, Hardware, Failure, WriteBack, diskvars, drivers, sdvars
  <2> QED
    BY <2>1, <2>2, <2>3 DEF SdCause
<1>6. CASE Driver /\ board = "mb_le"
  <2>1. CASE check_diskReady(SdDrives) /\ UNCHANGED drivers
    BY <2>1 DEF check_diskReady, Return, drivers, sdvars, SdCause, SdSteps
  <2>2. CASE flush_disk
    BY <2>2 DEF flush_disk, Status, Return, sdvars, SdCause, SdSteps
  <2>3. CASE rsdcard_begin
    <3>1. CASE Status("DISK_IO_ERR") /\ UNCHANGED sdvars
      BY <2>3, <3>1 DEF rsdcard_begin, Status, Return, sdvars, SdCause, SdSteps
    <3>2. CASE Transfer /\ pc' = "start" /\ command' = TRUE /\ UNCHANGED <<io, res, hasty, k, idle, ioc, ioe>>
      <4>1. channel' = [channel EXCEPT ![io.op] = "busy"] /\ errors' = errors
            /\ pc = "driver" /\ io.op # "sync"
        BY <2>3, <3>2 DEF rsdcard_begin, Transfer
      <4>2. io \in Requests /\ k = 0
        BY <4>1, AtRest
      <4>3. io.op \in {"read", "write"} /\ 0 < io.n
        BY <4>1, <4>2, RequestFields, DiskAssumption
      <4> QED
        BY <3>2, <4>1, <4>2, <4>3 DEF SdCause, SdSteps
    <3> QED
      BY <2>3, <3>1, <3>2 DEF rsdcard_begin
  <2>4. CASE rsdcard_started
    BY <2>4 DEF rsdcard_started, SdCause, SdSteps, sdvars
  <2>5. CASE rsdcard_done
    <3>1. /\ pc = "ioc" /\ ioc /\ pc' = "idle" /\ UNCHANGED <<channel, errors>>
      BY <2>5 DEF rsdcard_done, Status, Return
    <3>2. ~command /\ io \in Requests /\ io.n \in Nat /\ (~ioe => k = io.n)
      BY <3>1, RequestFields, DiskAssumption DEF DataInv, ReqInv, CardInv, SdSteps
    <3> QED
      BY <3>1, <3>2 DEF SdCause, SdSteps
  <2> QED
    BY <1>6, <2>1, <2>2, <2>3, <2>4, <2>5 DEF Driver, rsdcard
<1>7. CASE board = "mb_le" /\ (Hardware \/ Failure)
  <2>1. CASE CardStart
    BY <2>1 DEF CardStart, iovars, SdCause
  <2>2. CASE CardSector
    <3>1. /\ ~idle /\ k < io.n /\ k' = k + 1 /\ UNCHANGED <<io, pc, errors, command, ioc, ioe>>
          /\ channel' = [channel EXCEPT ![io.op] = IF k + 1 = io.n THEN "idle" ELSE "busy"]
      BY <2>2 DEF CardSector
    <3>2. pc \in SdSteps /\ io \in Requests /\ k \in Nat /\ io.op # "sync"
      BY <3>1 DEF DataInv, ReqInv, CardInv, SdSteps
    <3>3. io.op \in {"read", "write"} /\ io.n \in Nat
      BY <3>2, RequestFields, DiskAssumption
    <3> QED
      BY <3>1, <3>2, <3>3 DEF SdCause
  <2>3. CASE CardDone(FALSE) \/ CardDone(TRUE)
    <3>1. /\ UNCHANGED <<io, pc, k, channel, command>> /\ errors \subseteq errors'
          /\ ioe' => io.op \in errors'
      BY <2>3 DEF CardDone
    <3> QED
      BY <3>1 DEF SdCause
  <2> QED
    BY <1>7, <2>1, <2>2, <2>3 DEF Hardware, Failure, Card
<1>8. CASE UNCHANGED diskvars
  BY <1>8 DEF diskvars, drivers, iovars, sdvars, SdCause
<1>9. board \in Boards
  BY DEF DataInv, ReqInv
<1> QED
  BY <1>1, <1>2, <1>3, <1>4, <1>5, <1>6, <1>7, <1>8, <1>9 DEF DiskNext, Boards, WriteBack

LEMMA InitCause == DiskInit => CauseInv
<1> SUFFICES ASSUME DiskInit PROVE CauseInv
  OBVIOUS
<1>1. pc = "boot" /\ channel = Halted
  BY DEF DiskInit, IoInit, Device!Init, Idle, SdReset
<1> QED
  BY <1>1 DEF CauseInv, LetterInv, IdeCause, SdCause, SdSteps, IdeSteps, Halted

LEMMA NextCause == DataInv /\ CauseInv /\ [DiskNext]_diskvars => CauseInv'
  BY NextData, NextLetters, NextIdeCause, NextSdCause DEF CauseInv

(* A step that ends a request with RES_ERROR has its cause. *)
LEMMA Caused ==
  ASSUME DataInv, CauseInv, [DiskNext]_diskvars, res' = "RES_ERROR", io # Idle, io' = Idle
  PROVE  Cause
<1>1. io \in Requests /\ board \in Boards /\ pc \notin {"boot", "idle"}
  BY DEF DataInv, ReqInv
<1>2. io.op \in {"read", "write", "sync"} /\ io.n \in Nat /\ (io.n = 0 <=> io.op = "sync")
      /\ BTT_SECTORS \in Nat
  BY <1>1, RequestFields, DiskAssumption
<1>4. pc \in IdeSteps /\ err => Cause
  <2>1. pc \in IdeSteps => board = "x86_64"
    BY DEF DataInv, ReqInv
  <2> QED
    BY <2>1 DEF CauseInv, IdeCause, Cause
<1>5. CASE disk_io \/ PowerFail \/ \E q \in Requests : FatRequest(q)
  BY <1>1, <1>5 DEF disk_io, PowerFail, FatRequest, disk_request
<1>6. CASE FatCall \/ FatDone
  BY <1>1, <1>6 DEF FatCall, FatDone
<1>7. CASE Driver
  <2>1. CASE check_diskReady(SdDrives) \/ check_diskReady(IdeDrives)
    BY <2>1 DEF check_diskReady, Return
  <2>2. CASE flush_disk /\ board = "mb_le"
    <3>1. io.did \notin SdDrives
      BY <2>2 DEF flush_disk, Status, Return, from_flushStatus
    <3> QED
      BY <2>2, <3>1 DEF Cause
  <2>3. CASE rsdcard_begin /\ board = "mb_le"
    <3>1. pc = "driver" /\ io.op # "sync" /\ (~idle \/ Ongoing \/ ~FitsLength)
      BY <2>3 DEF rsdcard_begin
    <3>2. idle
      BY <3>1, AtRest
    <3>3. Ongoing => io.op \in errors
      BY <1>2, <3>1 DEF Ongoing, CauseInv, SdCause, SdSteps
    <3> QED
      BY <1>2, <2>3, <3>1, <3>2, <3>3 DEF FitsLength, Cause
  <2>4. CASE rsdcard_started
    BY <2>4 DEF rsdcard_started
  <2>5. CASE rsdcard_done /\ board = "mb_le"
    <3>1. pc = "ioc" /\ ioc /\ ~command /\ io.op # "sync"
      BY <2>5 DEF rsdcard_done, DataInv, CardInv, SdSteps
    <3>2. ioe
      BY <2>5, <3>1 DEF rsdcard_done, Status, Return, from_diskioStatus
    <3> QED
      BY <2>5, <3>1, <3>2 DEF CauseInv, SdCause, SdSteps, Cause
  <2>6. CASE ide_refused /\ board = "x86_64"
    <3>1. /\ io.did \notin IdeDrives \/ ata_detect[io.did] = "none"
          /\ Status(IF io.did \in IdeDrives THEN "DISK_NOT_READY" ELSE "DISK_INVALID")
      BY <2>6 DEF ide_refused
    <3>2. pc = "driver" /\ letter[io.did] # NoLetter
      BY <2>6 DEF ide_refused, CauseInv, LetterInv
    <3> QED
      BY <1>1, <2>6, <3>1, <3>2, LetterFacts DEF CauseInv
  <2>7. CASE (ide_begin \/ ide_flush) /\ board = "x86_64"
    <3>1. io.did \in failed
      BY <2>7 DEF ide_begin, ide_flush
    <3> QED
      BY <2>7, <3>1 DEF Cause
  <2>8. CASE ide_drq
    <3>1. pc \in IdeSteps /\ err
      BY <2>8 DEF ide_drq, IdeSteps
    <3> QED
      BY <1>4, <3>1
  <2>9. CASE ide_read \/ ide_write
    BY <2>9 DEF ide_read, ide_write, Status, Return, from_diskioStatus
  <2>10. CASE ide_final
    <3>1. pc \in IdeSteps /\ err
      BY <2>10 DEF ide_final, IdeSteps, Status, Return, from_diskioStatus, from_flushStatus
    <3> QED
      BY <1>4, <3>1
  <2> QED
    BY <1>7, <2>1, <2>2, <2>3, <2>4, <2>5, <2>6, <2>7, <2>8, <2>9, <2>10
       DEF Driver, rsdcard, ide
<1>8. CASE Hardware \/ Failure \/ WriteBack \/ UNCHANGED diskvars
  <2>1. io' = io
    BY <1>8 DEF Hardware, Failure, WriteBack, Card, CardStart, CardSector, CardDone, DeviceReady,
                DeviceError, DeviceWriteBack, diskvars, iovars
  <2> QED
    BY <2>1
<1> QED
  BY <1>5, <1>6, <1>7, <1>8 DEF DiskNext

(* A request fails with RES_ERROR only for a device whose last command ended in an error, or, *)
(* with the SD card, after an error of its kind since boot, for a transfer longer than the    *)
(* DMA's length register, or for a drive that does not exist.                                 *)
THEOREM ErrorsHaveCauses == DiskSpec => ErrorHasCause
<1>1. DataInv /\ CauseInv /\ [DiskNext]_diskvars
      => [res' = "RES_ERROR" /\ io # Idle /\ io' = Idle => Cause]_diskvars
  BY Caused
<1> QED
  BY <1>1, InitData, InitCause, NextData, NextCause, PTL DEF DiskSpec, ErrorHasCause

-----------------------------------------------------------------------------
(* What DiskTypeOK says beyond the invariants above. *)
LetterType == letter \in [Drives -> {Letters[i] : i \in 1..4} \cup {NoLetter}]

RangeInv ==
  /\ LetterType
  /\ res \in Results
  /\ k <= MaxCount /\ left <= CountRange

(* There are as many letters as drives. *)
LEMMA EnoughLetters ==
  ASSUME NEW d \in IdeDrives
  PROVE  NextLetter(d) \in {Letters[i] : i \in 1..4}
<1> DEFINE Before == {e \in IdeDrives : e < d /\ bays[e] # "none"}
<1>1. d \in 0..3
  BY DiskAssumption DEF IdeDrives
<1>2. Before \subseteq 0..(d - 1)
  BY DiskAssumption DEF IdeDrives
<1>3. IsFiniteSet(0..(d - 1)) /\ Cardinality(0..(d - 1)) = d
  <2>1. d - 1 \in Int /\ 0 \in Int
    BY <1>1
  <2>2. /\ IsFiniteSet(0..(d - 1))
        /\ Cardinality(0..(d - 1)) = IF 0 > d - 1 THEN 0 ELSE (d - 1) - 0 + 1
    BY <2>1, FS_Interval
  <2> QED
    BY <1>1, <2>2
<1>4. IsFiniteSet(Before) /\ Cardinality(Before) <= d
  BY <1>2, <1>3, FS_Subset
<1>5. Cardinality(Before) \in Nat
  BY <1>4, FS_CardinalityType
<1>6. 1 + Cardinality(Before) \in 1..4
  BY <1>1, <1>4, <1>5
<1> QED
  BY <1>6 DEF NextLetter

LEMMA NextLetterType == DataInv /\ LetterType /\ [DiskNext]_diskvars => LetterType'
<1> SUFFICES ASSUME DataInv, LetterType, [DiskNext]_diskvars PROVE LetterType'
  OBVIOUS
<1>1. CASE disk_io
  <2>1. SdLetter \in [Drives -> {Letters[i] : i \in 1..4} \cup {NoLetter}]
    BY DEF SdLetter
  <2>2. IdeLetter \in [Drives -> {Letters[i] : i \in 1..4} \cup {NoLetter}]
    <3>1. \A d \in IdeDrives : NextLetter(d) \in {Letters[i] : i \in 1..4}
      BY EnoughLetters
    <3> QED
      BY <3>1 DEF IdeLetter
  <2>3. letter' = SdLetter \/ letter' = IdeLetter
    BY <1>1 DEF disk_io
  <2> QED
    BY <2>1, <2>2, <2>3 DEF LetterType
<1>2. CASE PowerFail
  BY <1>2 DEF PowerFail, LetterType
<1>3. CASE \E q \in Requests : FatRequest(q)
  BY <1>3 DEF FatRequest, disk_request, LetterType
<1>4. CASE ~disk_io /\ ~PowerFail /\ ~(\E q \in Requests : FatRequest(q))
  <2>1. letter' = letter
    BY <1>4, Unmoved
  <2> QED
    BY <2>1 DEF LetterType
<1> QED
  BY <1>1, <1>2, <1>3, <1>4

HistoryType == hasty \in BOOLEAN /\ failed \subseteq Drives

(* Only drives of the board end up among those that failed. *)
LEMMA NextHistory == DataInv /\ HistoryType /\ [DiskNext]_diskvars => HistoryType'
<1> SUFFICES ASSUME DataInv, HistoryType, [DiskNext]_diskvars
             PROVE  hasty' \in BOOLEAN /\ failed' \subseteq Drives
  BY DEF HistoryType
<1>1. \A s : Status(s) => hasty' = FALSE
  BY DEF Status, Return
<1>2. CASE disk_io \/ PowerFail \/ FatCall \/ FatDone \/ \E q \in Requests : FatRequest(q)
  <2>1. hasty' \in {hasty, FALSE} /\ failed' \in {failed, {}}
    BY <1>2 DEF disk_io, PowerFail, FatCall, FatDone, FatRequest, disk_request, iovars, drivers,
                idevars
  <2> QED
    BY <2>1 DEF HistoryType
<1>3. CASE Driver
  <2>1. CASE (check_diskReady(SdDrives) \/ check_diskReady(IdeDrives)) /\ UNCHANGED drivers
    <3>1. hasty' \in {hasty, FALSE} /\ failed' = failed
      BY <2>1 DEF check_diskReady, Return, drivers, idevars
    <3> QED
      BY <3>1 DEF HistoryType
  <2>2. CASE rsdcard /\ UNCHANGED idevars
    <3>1. failed' = failed /\ (hasty' = hasty \/ \E s : Status(s))
      BY <2>2 DEF rsdcard, flush_disk, rsdcard_begin, rsdcard_started, rsdcard_done, idevars
    <3> QED
      BY <1>1, <3>1 DEF HistoryType
  <2>3. CASE ide_refused \/ ide_begin \/ ide_drq \/ ide_final
    <3>1. failed' \subseteq failed /\ (hasty' = hasty \/ \E s : Status(s))
      BY <2>3 DEF ide_refused, ide_begin, ide_drq, ide_final, idevars
    <3> QED
      BY <1>1, <3>1 DEF HistoryType
  <2>4. CASE ide_flush
    <3>1. failed' \subseteq failed /\ (hasty' = hasty \/ hasty' = TRUE \/ \E s : Status(s))
      BY <2>4 DEF ide_flush
    <3> QED
      BY <1>1, <3>1 DEF HistoryType
  <2>5. CASE ide_read \/ ide_write
    <3>1. failed' = failed /\ (hasty' = hasty \/ \E s : Status(s))
      BY <2>5 DEF ide_read, ide_write
    <3> QED
      BY <1>1, <3>1 DEF HistoryType
  <2> QED
    BY <1>3, <2>1, <2>2, <2>3, <2>4, <2>5 DEF Driver, ide
<1>4. CASE Hardware \/ WriteBack \/ UNCHANGED diskvars
  <2>1. hasty' = hasty /\ failed' = failed
    BY <1>4 DEF Hardware, Card, CardStart, CardSector, CardDone, DeviceReady, WriteBack,
                DeviceWriteBack, diskvars, iovars, drivers, idevars
  <2> QED
    BY <2>1 DEF HistoryType
<1>5. CASE Failure
  <2>1. CASE CardDone(TRUE) /\ UNCHANGED idevars
    BY <2>1 DEF CardDone, idevars, HistoryType
  <2>2. CASE DeviceError /\ board = "x86_64"
    <3>1. io \in Requests /\ hasty' = hasty /\ failed' = failed \cup {io.did}
      BY <2>2 DEF DeviceError, iovars, DataInv, ReqInv, DeviceInv, IdeSteps
    <3> QED
      BY <3>1, RequestFields DEF HistoryType
  <2> QED
    BY <1>5, <2>1, <2>2 DEF Failure
<1> QED
  BY <1>2, <1>3, <1>4, <1>5 DEF DiskNext

LEMMA NextRange == DataInv /\ DataInv' /\ RangeInv /\ [DiskNext]_diskvars => RangeInv'
<1> SUFFICES ASSUME DataInv, DataInv', RangeInv, [DiskNext]_diskvars
             PROVE  res' \in Results /\ k' <= MaxCount /\ left' <= CountRange
  BY NextLetterType DEF RangeInv
<1>1. MaxCount \in Nat /\ CountRange \in Nat \ {0} /\ k \in Nat /\ left \in Nat
      /\ (io \in Requests => io.n \in Nat /\ io.n <= MaxCount)
  BY RequestFields, DiskAssumption DEF DataInv, ReqInv, DeviceInv
<1>2. \A s : from_diskioStatus(s) \in Results /\ from_flushStatus(s) \in Results
  BY DEF from_diskioStatus, from_flushStatus, Results
<1>3. \A s : Status(s) => res' \in Results /\ k' = 0
  BY <1>2 DEF Status, Return
<1>4. CASE disk_io \/ PowerFail \/ (\E q \in Requests : FatRequest(q))
           \/ FatCall \/ FatDone
  <2>1. k' \in {k, 0} /\ left' \in {left, 0} /\ res' \in {res, "RES_OK"}
    BY <1>4 DEF disk_io, PowerFail, FatRequest, disk_request, FatCall, FatDone, iovars, drivers, idevars
  <2> QED
    BY <1>1, <2>1 DEF RangeInv, Results
<1>5. CASE Driver
  <2>1. CASE (check_diskReady(SdDrives) \/ check_diskReady(IdeDrives)) /\ UNCHANGED drivers
    <3>1. k' \in {k, 0} /\ left' = left /\ res' \in {res, "RES_NOTRDY"}
      BY <2>1 DEF check_diskReady, Return, drivers, idevars
    <3> QED
      BY <1>1, <3>1 DEF RangeInv, Results
  <2>2. CASE rsdcard /\ UNCHANGED idevars
    <3>1. left' = left /\ ((k' = k /\ res' = res) \/ \E s : Status(s))
      BY <2>2 DEF rsdcard, flush_disk, rsdcard_begin, rsdcard_started, rsdcard_done, idevars
    <3> QED
      BY <1>1, <1>3, <3>1 DEF RangeInv
  <2>3. CASE ide_refused \/ ide_flush \/ ide_drq \/ ide_final
    <3>1. (left' = left \/ left' = 0) /\ ((k' = k /\ res' = res) \/ \E s : Status(s))
      BY <2>3 DEF ide_refused, ide_flush, ide_drq, ide_final, idevars
    <3> QED
      BY <1>1, <1>3, <3>1 DEF RangeInv
  <2>4. CASE ide_begin /\ board = "x86_64"
    <3>1. k' = k /\ res' = res /\ pc = "driver" /\ left' = SectorCount(io.n)
      BY <2>4 DEF ide_begin
    <3>2. io \in Requests
      BY <3>1, AtRest
    <3>3. SectorCount(io.n) <= CountRange
      BY <1>1, <3>2 DEF SectorCount
    <3> QED
      BY <1>1, <3>1, <3>3 DEF RangeInv
  <2>5. CASE ide_read \/ ide_write
    <3>1. /\ left' = left \/ left' = left - 1
          /\ (k' = k /\ res' = res) \/ (k' = k + 1 /\ res' = res) \/ \E s : Status(s)
      BY <2>5 DEF ide_read, ide_write
    <3>2. k + 1 <= MaxCount
      <4>1. pc = "sector"
        BY <2>5 DEF ide_read, ide_write
      <4> QED
        BY <1>1, <4>1 DEF DataInv, ReqInv, DeviceInv
    <3> QED
      BY <1>1, <1>3, <3>1, <3>2 DEF RangeInv
  <2> QED
    BY <1>5, <2>1, <2>2, <2>3, <2>4, <2>5 DEF Driver, ide
<1>6. CASE Hardware
  <2>1. CASE CardSector /\ UNCHANGED idevars
    <3>1. ~idle /\ k < io.n /\ k' = k + 1 /\ left' = left /\ res' = res
      BY <2>1 DEF CardSector, idevars
    <3>2. io \in Requests
      BY <3>1 DEF DataInv, ReqInv, CardInv, SdSteps
    <3> QED
      BY <1>1, <3>1, <3>2 DEF RangeInv
  <2>2. CASE (CardStart \/ CardDone(FALSE)) /\ UNCHANGED idevars
    BY <2>2 DEF CardStart, CardDone, iovars, idevars, RangeInv
  <2>3. CASE DeviceReady
    BY <2>3 DEF DeviceReady, RangeInv
  <2> QED
    BY <1>6, <2>1, <2>2, <2>3 DEF Hardware, Card
<1>7. CASE Failure \/ WriteBack \/ UNCHANGED diskvars
  <2>1. k' = k /\ left' = left /\ res' = res
    BY <1>7 DEF Failure, CardDone, DeviceError, WriteBack, DeviceWriteBack, diskvars, drivers,
                iovars, idevars
  <2> QED
    BY <2>1 DEF RangeInv
<1> QED
  BY <1>4, <1>5, <1>6, <1>7 DEF DiskNext

(* Driver, hardware and request stay what they can be: no sector beyond the request is counted, *)
(* and no drive has a letter outside the list.                                                  *)
THEOREM DiskTypeCorrect == DiskSpec => []DiskTypeOK
<1>1. DiskInit => RangeInv
  <2> SUFFICES ASSUME DiskInit PROVE RangeInv
    OBVIOUS
  <2>1. /\ letter = [d \in Drives |-> NoLetter] /\ res = "RES_OK" /\ k = 0 /\ left = 0
    BY DEF DiskInit, IoInit, Device!Init, IdeReset
  <2> QED
    BY <2>1, DiskAssumption DEF RangeInv, LetterType, Results
<1>2. DataInv /\ CauseInv /\ RangeInv /\ HistoryType => DiskTypeOK
  <2> SUFFICES ASSUME DataInv, CauseInv, RangeInv, HistoryType PROVE DiskTypeOK
    OBVIOUS
  <2>1. {idle, ioc, ioe, bsy, drq, err, command, hasty} \subseteq BOOLEAN
    BY Zenon DEF DataInv, FlagInv, HistoryType
  <2>2. k \in 0..MaxCount /\ left \in 0..CountRange
    BY DiskAssumption DEF DataInv, ReqInv, DeviceInv, RangeInv
  <2>3. pc \in {"boot", "idle", "check", "driver", "start", "ioc", "drq", "sector", "final", "wild"}
    BY DEF DataInv, ReqInv, SdSteps, IdeSteps
  <2>4. io \in Requests \cup {Idle} /\ res \in Results /\ DOMAIN iobuf = 0..(MaxCount - 1)
    BY DEF DataInv, ReqInv, CardInv, RangeInv
  <2> QED
    BY <2>1, <2>2, <2>3, <2>4 DEF DiskTypeOK, CauseInv, SdCause, RangeInv, LetterType, HistoryType
<1>3. DiskInit => HistoryType
  BY DEF DiskInit, IoInit, Device!Init, IdeReset, HistoryType
<1> QED
  BY <1>1, <1>2, <1>3, InitData, InitCause, NextData, NextCause, NextRange, NextHistory, PTL
     DEF DiskSpec

=============================================================================
