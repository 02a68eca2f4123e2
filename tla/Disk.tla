-------------------------------- MODULE Disk --------------------------------
(*******************************************************************************)
(* Files over disks: the file table of fat.c (FatFiles) over diskio.c (DiskIo) *)
(* and the driver of either board (SdCard, Pata).  FatFs between the two is    *)
(* external: a file operation makes some requests, stops at the first that     *)
(* fails and fails with it.                                                    *)
(*******************************************************************************)
EXTENDS FatFiles, SdCard, Pata

CONSTANTS
  MaxWrites,     \* bound: write requests in a behaviour
  MaxErrors,     \* bound: hardware errors in a behaviour
  MaxRestarts    \* bound: power failures in a behaviour

ASSUME DiskAssumption ==
  /\ FF_VOLUMES \in 1..4 /\ IDE_DEV_LETTERS = FF_VOLUMES /\ MAX_DISKS \in 1..FF_VOLUMES
  /\ NBlocks \in Nat \ {0} /\ Starts \subseteq Blocks /\ MaxCount \in 1..NBlocks
  /\ BTT_SECTORS \in Nat \ {0} /\ CountRange \in Nat \ {0}

VARIABLES
  call,                       \* function of fat.c: "none", "called", has "asked" the disk
  writes, failures, restarts  \* history

table == <<open_files, files, fd, stale>>
drivers == <<sdvars, idevars>>
diskvars == <<iovars, drivers, table, call, writes, failures, restarts>>

DiskInit ==
  /\ board \in {"mb_le", "x86_64"}
  /\ letter = [d \in Drives |-> NoLetter]
  /\ IoInit /\ SdReset /\ IdeReset
  /\ bays \in [IdeDrives -> {"none", "ata", "atapi"}]
  /\ board = "mb_le" => \A d \in IdeDrives : bays[d] = "none"
  /\ ata_detect = [d \in IdeDrives |-> "none"]
  /\ Init
  /\ call = "none" /\ writes = 0 /\ failures = 0 /\ restarts = 0

(* disk_io: on x86_64 the devices are looked for, on mb_le there is nothing to do. *)
disk_io ==
  /\ pc = "boot" /\ pc' = "idle"
  /\ IF board = "mb_le"
       THEN letter' = SdLetter /\ UNCHANGED ata_detect
       ELSE letter' = IdeLetter /\ ata_detect' = bays
  /\ UNCHANGED <<board, media, durable, io, mem, res, hasty, k, errors, sdvars>>
  /\ UNCHANGED <<bays, bsy, drq, err, left, failed>>
  /\ UNCHANGED <<table, call, writes, failures, restarts>>

-----------------------------------------------------------------------------
(* A function of fat.c is called.  Which one it is, and for whom, matters when it ends. *)
FatCall ==
  /\ pc = "idle" /\ call = "none" /\ call' = "called"
  /\ UNCHANGED <<iovars, drivers, table, writes, failures, restarts>>

CallOk == call = "asked" => res = "RES_OK"

(* FatFs makes a request on its behalf; for a cluster at most, which is half of the count *)
(* register of x86_64.                                                                    *)
FatRequest(q) ==
  /\ call # "none" /\ CallOk
  /\ board = "x86_64" => q.n <= CountRange
  /\ q.op = "write" => writes < MaxWrites
  /\ disk_request(q, [i \in 0..(q.n - 1) |-> <<"write", writes, i>>])
  /\ writes' = IF q.op = "write" THEN writes + 1 ELSE writes
  /\ call' = "asked"
  /\ UNCHANGED <<drivers, table, failures, restarts>>

(* The end of fat_fopen, fat_mount and fat_fclose: the first two change the table only if *)
(* all went well; fat_fclose gives the entry up anyway, and makes no request for a        *)
(* descriptor without a file.  The other functions, and failed ones, leave the table      *)
(* alone.  Files are opened on mb_le, whose sb_service is the one caller of fat_fopen.    *)
FatOpened == board = "mb_le" /\ CallOk /\ \E c \in Clients : Open(c)
FatMounted == CallOk /\ Mount
FatClosed ==
  \E c \in Clients :
    /\ call = "asked" => FileOf(fd[c]) # NULL
    /\ fd[c] # NoFd /\ (Close(c) \/ CloseKeep(c))

FatDone ==
  /\ pc = "idle" /\ call # "none"
  /\ FatOpened \/ FatMounted \/ FatClosed \/ UNCHANGED table
  /\ call' = "none" /\ mem' = NoData /\ res' = "RES_OK"
  /\ UNCHANGED <<board, letter, media, durable, io, hasty, pc, k, errors, drivers>>
  /\ UNCHANGED <<writes, failures, restarts>>

-----------------------------------------------------------------------------
Driver ==
  /\ \/ board = "mb_le" /\ check_diskReady(SdDrives) /\ UNCHANGED drivers
     \/ board = "mb_le" /\ rsdcard /\ UNCHANGED idevars
     \/ board = "x86_64" /\ check_diskReady(IdeDrives) /\ UNCHANGED drivers
     \/ board = "x86_64" /\ ide /\ UNCHANGED sdvars
  /\ UNCHANGED <<table, call, writes, failures, restarts>>

Hardware ==
  /\ \/ board = "mb_le" /\ Card /\ UNCHANGED idevars
     \/ board = "x86_64" /\ DeviceReady /\ UNCHANGED sdvars
  /\ UNCHANGED <<table, call, writes, failures, restarts>>

Atapi == board = "x86_64" /\ io # Idle /\ io.did \in IdeDrives /\ bays[io.did] = "atapi"

Failure ==
  /\ failures < MaxErrors \/ Atapi
  /\ \/ board = "mb_le" /\ CardDone(TRUE) /\ UNCHANGED idevars
     \/ board = "x86_64" /\ DeviceError /\ UNCHANGED sdvars
  /\ failures' = IF Atapi THEN failures ELSE failures + 1
  /\ UNCHANGED <<table, call, writes, restarts>>

WriteBack ==
  /\ board = "x86_64"
  /\ \E b \in DOMAIN media : durable[b] # media[b] /\ DeviceWriteBack(b)
  /\ UNCHANGED <<sdvars, table, call, writes, failures, restarts>>

(* The power fails: the board starts anew, with what is durable on the disks. *)
PowerFail ==
  /\ restarts < MaxRestarts
  /\ restarts' = restarts + 1
  /\ media' = durable
  /\ letter' = [d \in Drives |-> NoLetter]
  /\ io' = Idle /\ mem' = NoData /\ res' = "RES_OK" /\ hasty' = FALSE
  /\ pc' = "boot" /\ k' = 0 /\ errors' = {}
  /\ command' = FALSE /\ idle' = TRUE /\ ioc' = FALSE /\ ioe' = FALSE
  /\ channel' = Halted /\ iobuf' = EmptyBuffer
  /\ bsy' = FALSE /\ drq' = FALSE /\ err' = FALSE /\ left' = 0 /\ failed' = {}
  /\ ata_detect' = [d \in IdeDrives |-> "none"]
  /\ open_files' = Empty /\ files' = 0 /\ fd' = [c \in Clients |-> NoFd] /\ stale' = {}
  /\ call' = "none"
  /\ UNCHANGED <<board, durable, bays, writes, failures>>

DiskNext ==
  \/ disk_io
  \/ FatCall
  \/ \E q \in Requests : FatRequest(q)
  \/ FatDone
  \/ Driver \/ Hardware \/ Failure \/ WriteBack
  \/ PowerFail

DiskSpec == DiskInit /\ [][DiskNext]_diskvars

(* The driver runs and the hardware answers, with success or an error. *)
DiskFairSpec == DiskSpec /\ WF_diskvars(Driver) /\ WF_diskvars(Hardware \/ Failure)

-----------------------------------------------------------------------------
DiskTypeOK ==
  /\ letter \in [Drives -> {Letters[i] : i \in 1..4} \cup {NoLetter}]
  /\ io \in Requests \cup {Idle} /\ res \in Results
  /\ pc \in {"boot", "idle", "check", "driver", "start", "ioc", "drq", "sector", "final", "wild"}
  /\ k \in 0..MaxCount /\ left \in 0..CountRange
  /\ {idle, ioc, ioe, bsy, drq, err, command, hasty} \subseteq BOOLEAN
  /\ failed \subseteq Drives
  /\ channel \in [{"read", "write"} -> {"halted", "busy", "idle"}]
  /\ DOMAIN iobuf = 0..(MaxCount - 1)

(* disk_read and disk_write of diskio.c, over either driver: what is reported as *)
(* RES_OK has been read or written, to the sectors asked for and no others; an   *)
(* error leaves the rest of the disk alone; and what CTRL_SYNC has confirmed     *)
(* survives a power failure, but for one whose status was read before the device *)
(* had begun it.                                                                 *)
ImplementsBlockDevice == Device!Spec

(* Why a request may fail with RES_ERROR: the PATA device's last command ended in an error; *)
(* the SD card failed in a request of this kind since boot, which is what leaves the DMA    *)
(* channel busy; the request exceeds the DMA's length register; or there is no such drive.  *)
Cause ==
  \/ board = "x86_64" /\ io.did \in failed
  \/ board = "mb_le" /\ (io.op \in errors \/ io.n > BTT_SECTORS \/ io.did \notin SdDrives)

(* RES_ERROR of disk_read, disk_write and disk_ioctl has a cause. *)
ErrorHasCause ==
  [][res' = "RES_ERROR" /\ io # Idle /\ io' = Idle => Cause]_diskvars

(* The two ways in which a driver is caught: rsdcard.c has missed the card's work between two *)
(* looks at its status, and pata.asm has met an error in the middle of a transfer.            *)
Missed == pc = "start" /\ ~command /\ idle
Caught == Missed \/ pc = "wild"

(* The waits of rsdcard.c and pata.asm, none of which has a bound: every request returns *)
(* unless its driver is caught.                                                          *)
RequestReturns == io # Idle ~> (io = Idle \/ Caught)

(* "rax -> i/o status: 0 (error), 1 (success)" (pata.asm): a device's error is reported to *)
(* the caller.                                                                             *)
ErrorReported == err /\ io # Idle ~> io = Idle

=============================================================================
