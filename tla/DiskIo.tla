------------------------------- MODULE DiskIo -------------------------------
(*****************************************************************************)
(* fatfs/diskio.c: FatFs's requests on their way to the driver of the board, *)
(* storage.c of mb_le (SdCard) or pata.c of x86_64 (Pata).  Only the main    *)
(* context makes requests, one at a time.                                    *)
(*****************************************************************************)
EXTENDS Naturals, FiniteSets

CONSTANTS
  FF_VOLUMES,        \* FatFs's physical drives
  NBlocks,           \* blocks of a disk
  Starts,            \* first blocks of requests
  MaxCount           \* bound: sectors of a request

VARIABLES
  board,             \* "mb_le" or "x86_64"; never changes
  letter,            \* drive -> its letter, or NoLetter
  media, durable,    \* <<drive, block>> -> contents, as read and as on the medium
  io, mem, res,      \* request, the caller's memory, result of the last request
  hasty,             \* history: the flush in progress was looked at before it began
  pc, k,             \* driver: step, sectors transferred
  errors             \* history: operations in which the SD card failed since boot

Drives == 0..(FF_VOLUMES - 1)
Blocks == 0..(NBlocks - 1)
Results == {"RES_OK", "RES_ERROR", "RES_WRPRT", "RES_NOTRDY", "RES_PARERR"}

Device == INSTANCE BlockDevice WITH Disks <- Drives

Letters == <<"C", "D", "E", "F">>    \* FF_VOLUME_STRS too
NoLetter == "none"

Idle == Device!Idle
Junk == Device!Junk
NoData == Device!NoData
At(i) == Device!At(i)
Sectors == Device!Sectors
iovars == <<board, letter, media, durable, io, mem, res, hasty, pc, k, errors>>

(* Requests of FatFs: reads and writes inside a disk, and CTRL_SYNC *)
Requests ==
  {[op |-> o, did |-> d, blk |-> b, n |-> c] :
     o \in {"read", "write"}, d \in Drives, b \in Starts, c \in 1..MaxCount}
  \cup {[op |-> "sync", did |-> d, blk |-> 0, n |-> 0] : d \in Drives}

IoInit ==
  /\ Device!Init
  /\ pc = "boot" /\ k = 0 /\ errors = {}

(* disk_read, disk_write and disk_ioctl are called; data is what a write holds. *)
disk_request(q, data) ==
  /\ pc = "idle"
  /\ q.blk + q.n <= NBlocks
  /\ io' = q
  /\ mem' = [i \in 0..(q.n - 1) |-> IF q.op = "write" THEN data[i] ELSE Junk]
  /\ pc' = "check"
  /\ UNCHANGED <<board, letter, media, durable, res, hasty, k, errors>>

(* A driver returns a status to FatFs. *)
from_diskioStatus(s) ==
  CASE s = "DISK_IO_OK"         -> "RES_OK"
    [] s = "DISK_INVALID"       -> "RES_PARERR"
    [] s = "DISK_NOT_READY"     -> "RES_NOTRDY"
    [] s = "DISK_WRITE_PROTECT" -> "RES_WRPRT"
    [] OTHER                    -> "RES_ERROR"

(* CTRL_SYNC of disk_ioctl knows only one error. *)
from_flushStatus(s) == IF s = "DISK_IO_OK" THEN "RES_OK" ELSE "RES_ERROR"

Return(r) == pc' = "idle" /\ io' = Idle /\ res' = r /\ hasty' = FALSE /\ k' = 0

Status(s) == Return(IF io.op = "sync" THEN from_flushStatus(s) ELSE from_diskioStatus(s))

(* check_diskReady: get_disk leaves the letter of a drive out of range uninitialized. *)
check_diskReady(range) ==
  /\ pc = "check"
  /\ \E ready \in IF io.did \in range THEN {letter[io.did] # NoLetter} ELSE BOOLEAN :
       IF ready THEN pc' = "driver" /\ UNCHANGED <<io, res, hasty, k>> ELSE Return("RES_NOTRDY")
  /\ UNCHANGED <<board, letter, media, durable, mem, errors>>

=============================================================================
