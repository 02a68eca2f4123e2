------------------------------- MODULE SdCard -------------------------------
(***************************************************************************)
(* The disk of mb_le: storage.c, sys/rsdcard.c and the SD card part of     *)
(* sys/xdma.c.  Data passes through the I/O buffer of a DMA engine with a  *)
(* channel for each direction.                                             *)
(***************************************************************************)
EXTENDS DiskIo

CONSTANTS
  MAX_DISKS,         \* drives of the board (1 in the code)
  BTT_SECTORS        \* sectors that fit into XDMA_BTT_MAX bytes (31 in the code)

VARIABLES
  command, idle, ioc, ioe,   \* card: command written, status register
  channel,                   \* "read" (S2MM), "write" (MM2S) -> status
  iobuf                      \* the DMA engine's I/O buffer

sdvars == <<command, idle, ioc, ioe, channel, iobuf>>

SdDrives == 0..(MAX_DISKS - 1)

(* get_disk *)
SdLetter == [d \in Drives |-> IF d \in SdDrives THEN Letters[1] ELSE NoLetter]

(* _xdma_start: both channels are reset. *)
Halted == [o \in {"read", "write"} |-> "halted"]
EmptyBuffer == [i \in 0..(MaxCount - 1) |-> Junk]

SdReset ==
  /\ command = FALSE /\ idle = TRUE /\ ioc = FALSE /\ ioe = FALSE
  /\ channel = Halted /\ iobuf = EmptyBuffer

(* storage.c, read_disk, write_disk and flush_disk: a drive out of range, and a *)
(* flush, which has nothing to do.  Of a drive out of range disk_ioctl passes   *)
(* on an uninitialized number, so that its flush may succeed.                   *)
flush_disk ==
  /\ pc = "driver" /\ (io.did \notin SdDrives \/ io.op = "sync")
  /\ \/ io.op = "sync" /\ Status("DISK_IO_OK")
     \/ io.did \notin SdDrives /\ Status("DISK_INVALID")
  /\ UNCHANGED <<board, letter, media, durable, mem, errors, sdvars>>

(* Slip: a channel that is idle is taken for a busy one. *)
Ongoing_halted == channel[io.op] # "halted"

(* _sdcdma_rdt and _sdcdma_wrt: is a transfer ongoing? *)
Ongoing == channel[io.op] \notin {"halted", "idle"}

(* Does the transfer fit into the length register? *)
FitsLength == io.n # 0 /\ io.n <= BTT_SECTORS

(* A write's data is copied to the I/O buffer, *)
BufferFor ==
  [i \in DOMAIN iobuf |-> IF io.op = "write" /\ i \in Sectors THEN mem[i] ELSE Junk]

(* and xdirectdma_trans starts the channel; the buffer is aligned. *)
Transfer ==
  /\ channel' = [channel EXCEPT ![io.op] = "busy"]
  /\ iobuf' = BufferFor

(* _rsdcard_read and _rsdcard_write up to the command *)
rsdcard_begin ==
  /\ pc = "driver" /\ io.did \in SdDrives /\ io.op # "sync"
  /\ IF ~idle \/ Ongoing \/ ~FitsLength
       THEN Status("DISK_IO_ERR") /\ UNCHANGED sdvars
       ELSE /\ Transfer
            /\ pc' = "start" /\ command' = TRUE
            /\ UNCHANGED <<io, res, hasty, k, idle, ioc, ioe>>
  /\ UNCHANGED <<board, letter, media, durable, mem, errors>>

(* "Wait for I/O start": the driver may look only when the card is idle again. *)
rsdcard_started ==
  /\ pc = "start" /\ ~idle
  /\ pc' = "ioc"
  /\ UNCHANGED <<board, letter, media, durable, io, mem, res, hasty, k, errors, sdvars>>

(* Slip: the error flag is not looked at. *)
rsdcard_done_unchecked ==
  /\ pc = "ioc" /\ ioc
  /\ mem' = IF io.op = "read" THEN [i \in Sectors |-> iobuf[i]] ELSE mem
  /\ iobuf' = EmptyBuffer
  /\ Status("DISK_IO_OK")
  /\ UNCHANGED <<board, letter, media, durable, errors, command, idle, ioc, ioe, channel>>

(* "Wait for I/O completed", and the data is copied.  What is left in the buffer is *)
(* of no further use.                                                               *)
rsdcard_done ==
  /\ pc = "ioc" /\ ioc
  /\ mem' = IF io.op = "read" /\ ~ioe THEN [i \in Sectors |-> iobuf[i]] ELSE mem
  /\ iobuf' = EmptyBuffer
  /\ Status(IF ioe THEN "DISK_IO_ERR" ELSE "DISK_IO_OK")
  /\ UNCHANGED <<board, letter, media, durable, errors, command, idle, ioc, ioe, channel>>

-----------------------------------------------------------------------------
(* The card and the DMA engine (external hardware).  A channel is idle again when *)
(* it has moved all sectors; if the card gives up before that it stays busy.      *)
CardStart ==
  /\ command
  /\ command' = FALSE /\ idle' = FALSE /\ ioc' = FALSE /\ ioe' = FALSE
  /\ UNCHANGED <<iovars, channel, iobuf>>

CardSector ==
  /\ ~idle /\ k < io.n
  /\ k' = k + 1
  /\ channel' = [channel EXCEPT ![io.op] = IF k + 1 = io.n THEN "idle" ELSE "busy"]
  /\ IF io.op = "read"
       THEN iobuf' = [iobuf EXCEPT ![k] = media[At(k)]] /\ UNCHANGED <<media, durable>>
       ELSE /\ media' = [media EXCEPT ![At(k)] = iobuf[k]]
            /\ durable' = [durable EXCEPT ![At(k)] = iobuf[k]]
            /\ UNCHANGED iobuf
  /\ UNCHANGED <<board, letter, io, mem, res, hasty, pc, errors, command, idle, ioc, ioe>>

CardDone(error) ==
  /\ ~idle
  /\ error \/ k = io.n
  /\ idle' = TRUE /\ ioc' = TRUE /\ ioe' = error
  /\ errors' = IF error THEN errors \cup {io.op} ELSE errors
  /\ UNCHANGED <<board, letter, media, durable, io, mem, res, hasty, pc, k>>
  /\ UNCHANGED <<command, channel, iobuf>>

rsdcard == flush_disk \/ rsdcard_begin \/ rsdcard_started \/ rsdcard_done
Card == CardStart \/ CardSector \/ CardDone(FALSE)

=============================================================================
