-------------------------------- MODULE Pata --------------------------------
(*****************************************************************************)
(* The disks of x86_64: pata.c and, as it uses it, sys/pata.asm, which moves *)
(* sectors word by word and polls the status register of the device.         *)
(*****************************************************************************)
EXTENDS DiskIo

CONSTANTS
  IDE_DEV_LETTERS,   \* devices: two on each of two buses in the code
  CountRange         \* values of the sector count register (256 in the code)

VARIABLES
  bays,              \* what is connected: drive -> "none", "ata" or "atapi"
  ata_detect,        \* what disk_io has found
  bsy, drq, err,     \* status register of the device that is selected
  left,              \* sectors the device has yet to transfer
  failed             \* devices whose last command ended in an error: ERR is still set

idevars == <<bays, ata_detect, bsy, drq, err, left, failed>>

IdeDrives == 0..(IDE_DEV_LETTERS - 1)

IdeReset == bsy = FALSE /\ drq = FALSE /\ err = FALSE /\ left = 0 /\ failed = {}

(* disk_io: disks have letters in the order of their detection. *)
NextLetter(d) == Letters[1 + Cardinality({e \in IdeDrives : e < d /\ bays[e] # "none"})]

IdeLetter ==
  [d \in Drives |-> IF d \in IdeDrives /\ bays[d] # "none" THEN NextLetter(d) ELSE NoLetter]

(* flush_disk, read_disk and write_disk: no such drive, or no device *)
ide_refused ==
  /\ pc = "driver"
  /\ io.did \notin IdeDrives \/ ata_detect[io.did] = "none"
  /\ Status(IF io.did \in IdeDrives THEN "DISK_NOT_READY" ELSE "DISK_INVALID")
  /\ UNCHANGED <<board, letter, media, durable, mem, errors, idevars>>

(* Slip: the sector count register has the number of the last sector. *)
SectorCount_last(n) == n - 1

(* ide_device_sectors_io: the count register takes the lower bits, and 0 is its range. *)
SectorCount(n) == IF n % CountRange = 0 THEN CountRange ELSE n % CountRange

Selected(d) == d \in IdeDrives /\ ata_detect[d] # "none"

(* The read or write command is sent. *)
ide_begin ==
  /\ pc = "driver" /\ Selected(io.did) /\ io.op # "sync"
  /\ pc' = "drq"
  /\ bsy' = TRUE /\ drq' = FALSE /\ err' = FALSE /\ left' = SectorCount(io.n)
  /\ failed' = failed \ {io.did}
  /\ UNCHANGED <<board, letter, media, durable, io, mem, res, hasty, k, errors>>
  /\ UNCHANGED <<bays, ata_detect>>

(* _arch_ide_device_flush: a device that is not ready and shows an error is refused; *)
(* or the command is sent.  The status is read at once, so the driver may see it as  *)
(* it was before the command.                                                        *)
ide_flush ==
  /\ pc = "driver" /\ Selected(io.did) /\ io.op = "sync"
  /\ \/ /\ io.did \in failed /\ Status("DISK_IO_ERR")
        /\ UNCHANGED <<bsy, drq, err, left, failed>>
     \/ /\ pc' = "final" /\ drq' = FALSE /\ left' = 0
        /\ \/ /\ bsy' = TRUE /\ err' = FALSE /\ failed' = failed \ {io.did}
              /\ UNCHANGED hasty
           \/ /\ bsy' = FALSE /\ err' = (io.did \in failed) /\ hasty' = TRUE
              /\ UNCHANGED failed
        /\ UNCHANGED <<io, res, k>>
  /\ UNCHANGED <<board, letter, media, durable, mem, errors, bays, ata_detect>>

(* wait_ide_device_drq: when its time is up it goes on waiting for BSY = 0, and *)
(* only an error makes it fail.                                                 *)
ide_drq ==
  /\ pc = "drq" /\ ~bsy
  /\ IF err THEN Status("DISK_IO_ERR") ELSE pc' = "sector" /\ UNCHANGED <<io, res, hasty, k>>
  /\ UNCHANGED <<board, letter, media, durable, mem, errors, idevars>>

(* The sector loop of read.  An error leaves it with a word too many on the stack, *)
(* so that ret goes to whatever the caller had in r12: nothing is known of what    *)
(* the program does then, and the model stops.                                     *)
ide_read ==
  /\ pc = "sector" /\ ~bsy /\ io.op = "read"
  /\ IF err THEN pc' = "wild" /\ UNCHANGED <<io, mem, res, hasty, k, bsy, drq, left>>
     ELSE /\ mem' = [mem EXCEPT ![k] = IF drq THEN media[At(k)] ELSE Junk]
          /\ left' = left - 1 /\ bsy' = (left > 1) /\ drq' = FALSE
          /\ IF k + 1 = io.n THEN Status("DISK_IO_OK")
             ELSE k' = k + 1 /\ UNCHANGED <<pc, io, res, hasty>>
  /\ UNCHANGED <<board, letter, media, durable, errors, bays, ata_detect, err, failed>>

(* and of write *)
ide_write ==
  /\ pc = "sector" /\ ~bsy /\ io.op = "write"
  /\ IF err THEN pc' = "wild" /\ UNCHANGED <<k, bsy, drq, left>>
     ELSE /\ left' = left - 1 /\ bsy' = drq /\ drq' = FALSE
          /\ k' = k + 1
          /\ pc' = IF k + 1 = io.n THEN "final" ELSE "sector"
  /\ UNCHANGED <<board, letter, media, durable, io, mem, res, hasty, errors>>
  /\ UNCHANGED <<bays, ata_detect, err, failed>>

(* Slip: the last wait is for DRQ. *)
ide_final_drq ==
  /\ pc = "final" /\ ~bsy /\ drq
  /\ Status(IF err THEN "DISK_IO_ERR" ELSE "DISK_IO_OK")
  /\ UNCHANGED <<board, letter, media, durable, mem, errors, idevars>>

(* The end of write and of flush *)
ide_final ==
  /\ pc = "final" /\ ~bsy
  /\ Status(IF err THEN "DISK_IO_ERR" ELSE "DISK_IO_OK")
  /\ UNCHANGED <<board, letter, media, durable, mem, errors, idevars>>

-----------------------------------------------------------------------------
(* The device (external hardware): it takes a sector over into its cache, which is *)
(* written back by a flush or at any time, and asks for the next one.              *)
DeviceReady ==
  /\ bsy /\ ata_detect[io.did] = "ata"
  /\ bsy' = FALSE /\ drq' = (left > 0)
  /\ media' = IF io.op = "write" /\ k > 0 THEN [media EXCEPT ![At(k - 1)] = mem[k - 1]]
              ELSE media
  /\ durable' = IF io.op = "sync"
                  THEN [b \in DOMAIN media |-> IF b[1] = io.did THEN media[b] ELSE durable[b]]
                  ELSE durable
  /\ UNCHANGED <<board, letter, io, mem, res, hasty, pc, k, errors>>
  /\ UNCHANGED <<bays, ata_detect, err, left, failed>>

(* An error, at any sector, as an ATAPI device answers to any of these commands *)
DeviceError ==
  /\ bsy
  /\ bsy' = FALSE /\ drq' = FALSE /\ err' = TRUE
  /\ failed' = failed \cup {io.did}
  /\ UNCHANGED <<iovars, bays, ata_detect, left>>

DeviceWriteBack(b) ==
  /\ durable' = [durable EXCEPT ![b] = media[b]]
  /\ UNCHANGED <<board, letter, media, io, mem, res, hasty, pc, k, errors, idevars>>

ide == ide_refused \/ ide_begin \/ ide_flush \/ ide_drq \/ ide_read \/ ide_write \/ ide_final

=============================================================================
