------------------------------ MODULE SbPlayer ------------------------------
(***************************************************************************)
(* Sound playback on the MicroBlaze: the play command and the sb_svc state *)
(* machine of services/sb_service.c, the cyclic sound DMA of sys/xdma.c    *)
(* (XDMA1) with its interrupt, and the file table of fatfs/fat.c.          *)
(*                                                                         *)
(* The DMA plays its buffers round and round.  Each completed buffer is to *)
(* be refilled from the file while the others play, and playback ends when *)
(* sb_playcount completions have been seen.  Sizes are in units of which a *)
(* chunk has Chunk (8192 bytes in the code).                               *)
(*                                                                         *)
(* The service and the command share the main context; onsbdma_irq may run *)
(* between any two steps of the service, the DMA works all the time and    *)
(* does not wait for the service.  The user may play a file while another  *)
(* one plays.                                                              *)
(***************************************************************************)
EXTENDS Naturals, FiniteSets

CONSTANTS
  SB_BUFF_CHUNKS,    \* buffers in the ring, XDMA1_MAX_BDS (2 in the code)
  Chunk,             \* units of a chunk
  Sizes,             \* units of a file, and what its header may say
  MaxSize,           \* bound of Sizes
  SizeMod,           \* the range of size_t
  MAX_OPEN_FILES,
  MaxPlays,          \* bound: play commands in a behaviour
  MaxErrors,         \* bound: DMA bus errors and disk errors in a behaviour
  NULL

ASSUME SizesAssumption ==
  /\ SB_BUFF_CHUNKS \in Nat \ {0} /\ Chunk \in Nat \ {0} /\ MaxSize \in Nat
  /\ Sizes \subseteq 0..MaxSize
  /\ SizeMod \in Nat /\ SizeMod > MaxSize + 3
ASSUME BoundsAssumption ==
  /\ MAX_OPEN_FILES \in Nat \ {0} /\ MaxPlays \in Nat /\ MaxErrors \in Nat
ASSUME NullAssumption == NULL \notin 1..MaxPlays

BDs == 0..(SB_BUFF_CHUNKS - 1)
NoFd == MAX_OPEN_FILES + 1

(* What a buffer holds: units of the file and the number of the chunk, or  *)
(* silence.                                                                *)
Silence == [chunk |-> 0, units |-> 0]

VARIABLES
  open_files, files,            \* the file table; an entry is the play's number
  fd, sb_reg, sb_playsize, sb_playcount,
  left,                         \* units unread in the play's file
  sbdma_cmplt, sbdma_buserr,    \* sgdma_sgls
  sigint, sigbus,               \* pending in the kernel
  sgls,                         \* what was pending when the service looked
  running, cur, ioc, err,       \* the engine: BD being played, status bits
  cmplt, buf,                   \* status.cmplt and the contents of every buffer
  pc, bd,                       \* where the service is; the BD it refills
  plays, errors, buserrs,       \* history: play commands, errors, bus errors
  lost,                         \* history: plays whose open file's descriptor
                                \* a later play has overwritten
  disturbed,                    \* history: during the play another one was
                                \* under way, or the service has been late
  asked,                        \* history: units the play should bring
  reads, heard, played          \* history: chunks read; units and chunks played
                                \* while the play is not disturbed

table == <<open_files, files>>
play == <<fd, sb_reg, sb_playsize, sb_playcount, left>>
flags == <<sbdma_cmplt, sbdma_buserr, sigint, sigbus, sgls>>
engine == <<running, cur, ioc, err>>
ring == <<cmplt, buf>>
history == <<plays, errors, buserrs, lost, disturbed, asked, reads, heard, played>>
vars == <<table, play, flags, engine, ring, pc, bd, history>>

Fat == INSTANCE FatFiles WITH Clients <- 1..MaxPlays, stale <- {}

(* The state after the first pass of the service (SB_INIT), which comes before *)
(* the shell takes commands.                                                   *)
Init ==
  /\ open_files = [i \in 0..(MAX_OPEN_FILES - 1) |-> NULL] /\ files = 0
  /\ fd = NoFd /\ sb_reg = "SB_IDLE" /\ sb_playsize = 0 /\ sb_playcount = 0
  /\ left = 0
  /\ sbdma_cmplt = FALSE /\ sbdma_buserr = FALSE /\ sigint = FALSE /\ sigbus = FALSE
  /\ sgls = {}
  /\ running = FALSE /\ cur = 0 /\ ioc = FALSE /\ err = FALSE
  /\ cmplt = [b \in BDs |-> FALSE] /\ buf = [b \in BDs |-> Silence]
  /\ pc = "idle" /\ bd = 0
  /\ plays = 0 /\ errors = 0 /\ buserrs = 0 /\ lost = {} /\ disturbed = FALSE
  /\ asked = 0 /\ reads = 0 /\ heard = 0 /\ played = 0

Least(a, b) == IF a < b THEN a ELSE b
Playing == fd # NoFd

-----------------------------------------------------------------------------
(* The service has dealt with the buffer that was played last. *)
InTime == ~ioc /\ ~sbdma_cmplt /\ pc \in {"idle", "flags"}

(* The engine (external hardware): the current buffer has been played. *)
PlayBuffer ==
  /\ running
  /\ disturbed' = (disturbed \/ ~InTime)
  /\ cmplt' = [cmplt EXCEPT ![cur] = TRUE]
  /\ ioc' = TRUE
  /\ heard' = IF disturbed' THEN 0 ELSE heard + buf[cur].units
  /\ played' = IF disturbed' THEN 0 ELSE IF buf[cur] = Silence THEN played ELSE buf[cur].chunk
  /\ cur' = (cur + 1) % SB_BUFF_CHUNKS
  /\ UNCHANGED <<table, play, flags, running, err, buf, pc, bd>>
  /\ UNCHANGED <<plays, errors, buserrs, lost, asked, reads>>

BusError ==
  /\ running /\ errors < MaxErrors
  /\ running' = FALSE
  /\ err' = TRUE
  /\ errors' = errors + 1 /\ buserrs' = buserrs + 1
  /\ UNCHANGED <<table, play, flags, cur, ioc, ring, pc, bd>>
  /\ UNCHANGED <<plays, lost, disturbed, asked, reads, heard, played>>

(* onsbdma_irq: both bits are acknowledged, both flags assigned, one signal is *)
(* raised.                                                                     *)
onsbdma_irq ==
  /\ ioc \/ err
  /\ ioc' = FALSE /\ err' = FALSE
  /\ sbdma_cmplt' = ioc
  /\ sbdma_buserr' = err
  /\ sigbus' = (sigbus \/ err)
  /\ sigint' = (sigint \/ ~err)
  /\ UNCHANGED <<sgls, table, play, running, cur, ring, pc, bd, history>>

-----------------------------------------------------------------------------
(* Slip: only the whole chunks are counted. *)
Packets_whole(size) == size \div Chunk

(* sb_m, lines 260-268: whole chunks, one for a tail, one for silence. *)
Packets(size) == (size \div Chunk) + (IF size % Chunk > 0 THEN 1 ELSE 0) + 1

(* The end of sb_m: what was being played is replaced, its file stays open. *)
NewPlay(size, length) ==
  /\ pc = "idle" /\ plays < MaxPlays
  /\ plays' = plays + 1
  /\ left' = length
  /\ asked' = Least(size, length)
  /\ sb_playcount' = Packets(size)
  /\ sb_playsize' = size
  /\ lost' = lost \cup ({Fat!FileOf(fd)} \ {NULL})
  /\ disturbed' = Playing
  /\ reads' = 0 /\ heard' = 0 /\ played' = 0
  /\ UNCHANGED <<sb_reg, flags, engine, ring, pc, bd, errors, buserrs>>

(* sb_m: the play command opens a file of which `length` units follow the   *)
(* header, and whose header says `size`.  (A file that is not opened, or is *)
(* rejected for its format and closed again, changes nothing.)              *)
sb_m(size, length) ==
  /\ NewPlay(size, length)
  /\ \E d \in 0..MAX_OPEN_FILES : Fat!fat_fopen(plays + 1, d) /\ fd' = d

(* sb_m when reading the header fails: the file is closed, the message     *)
(* printed, and the command goes on (line 245 has no return) with whatever *)
(* w holds; here w passes the format test.                                 *)
sb_m_unread(size) ==
  /\ NewPlay(size, 0)
  /\ files # MAX_OPEN_FILES
  /\ fd' = Fat!FirstFree
  /\ UNCHANGED table

-----------------------------------------------------------------------------
(* sb_service, case SB_CLOSE followed at once by SB_INIT: the file is closed, the *)
(* engine reset with its status bits, the play forgotten.                         *)
CloseAndInit ==
  /\ Fat!fat_fclose(fd)
  /\ running' = FALSE /\ ioc' = FALSE /\ err' = FALSE
  /\ fd' = NoFd /\ sb_playsize' = 0 /\ sb_playcount' = 0
  /\ sb_reg' = "SB_IDLE"
  /\ left' = 0
  /\ UNCHANGED cur

(* _sbdma_sgcyclic, of an engine at rest: a ring of silence is laid out and started. *)
StartRing ==
  /\ running' = TRUE /\ cur' = 0 /\ ioc' = FALSE /\ err' = FALSE
  /\ cmplt' = [b \in BDs |-> FALSE] /\ buf' = [b \in BDs |-> Silence]
  /\ sbdma_cmplt' = FALSE /\ sbdma_buserr' = FALSE
  /\ UNCHANGED <<sigint, sigbus, sgls>>

(* Slip: the prerecorded silence of the ring is not counted. *)
sb_idle_noPrerecord ==
  /\ pc = "idle" /\ sb_reg = "SB_IDLE" /\ Playing /\ ~running
  /\ StartRing
  /\ sb_reg' = "SB_WAIT"
  /\ UNCHANGED <<table, fd, sb_playsize, sb_playcount, left, pc, bd, history>>

(* case SB_IDLE with a file to play.  An engine that runs is refused (xsgdma_sgallowed) *)
(* and the play given up.                                                               *)
sb_idle ==
  /\ pc = "idle" /\ sb_reg = "SB_IDLE" /\ Playing
  /\ IF running
       THEN CloseAndInit /\ UNCHANGED <<flags, ring>>
       ELSE /\ StartRing
            /\ sb_playcount' = sb_playcount + 1
            /\ sb_reg' = "SB_WAIT"
            /\ UNCHANGED <<table, fd, sb_playsize, left>>
  /\ UNCHANGED <<pc, bd, history>>

(* case SB_WAIT, lines 117-130: the pending signals are noted in sgls; without *)
(* any the pass ends.                                                          *)
sb_poll ==
  /\ pc = "idle" /\ sb_reg = "SB_WAIT"
  /\ sigint \/ sigbus
  /\ sgls' = (IF sigint THEN {"SIGINT"} ELSE {}) \cup (IF sigbus THEN {"SIGBUS"} ELSE {})
  /\ pc' = "flags"
  /\ UNCHANGED <<table, play, sbdma_cmplt, sbdma_buserr, sigint, sigbus, engine, ring, bd, history>>

(* Lines 132-137: a signal without a flag is another service's and stays pending. *)
sb_buserr ==
  /\ pc = "flags"
  /\ sb_reg' = IF sbdma_buserr THEN "SB_CLOSE" ELSE sb_reg
  /\ pc' = IF sbdma_buserr THEN "unblock" ELSE IF sbdma_cmplt THEN "cmplt" ELSE "idle"
  /\ UNCHANGED <<table, fd, sb_playsize, sb_playcount, left, flags, engine, ring, bd, history>>

(* Lines 139-145: the flag is read again; the interrupt of a bus error in  *)
(* between has taken it back.                                              *)
sb_cmplt ==
  /\ pc = "cmplt"
  /\ sb_playcount' = IF sbdma_cmplt THEN (sb_playcount + SizeMod - 1) % SizeMod ELSE sb_playcount
  /\ sb_reg' = IF sbdma_cmplt THEN "SB_WRITE" ELSE sb_reg
  /\ pc' = IF sbdma_cmplt THEN "take" ELSE "unblock"
  /\ UNCHANGED <<table, fd, sb_playsize, left, flags, engine, ring, bd, history>>

(* Slip: the status is not looked at, the head of the ring is taken. *)
Completed_any == BDs

Completed == {b \in BDs : cmplt[b]}
FirstOf(S) == CHOOSE b \in S : \A x \in S : b <= x

(* case SB_WRITE, the scan of _sbdma_sgcmplt: the first complete BD from the head of *)
(* the ring is taken; with none the playback is given up.                            *)
sb_take ==
  /\ pc = "take"
  /\ IF Completed = {}
       THEN /\ CloseAndInit
            /\ pc' = "unblock"
            /\ UNCHANGED bd
       ELSE /\ bd' = FirstOf(Completed)
            /\ sb_reg' = "SB_WAIT" /\ pc' = "clear"
            /\ UNCHANGED <<table, fd, sb_playsize, sb_playcount, left, engine>>
  /\ UNCHANGED <<flags, ring, history>>

(* The rest of _sbdma_sgcmplt: the BD is handed out, the flag cleared, which an interrupt *)
(* since the scan may have set again.                                                     *)
sb_clear ==
  /\ pc = "clear"
  /\ cmplt' = [cmplt EXCEPT ![bd] = FALSE]
  /\ sbdma_cmplt' = FALSE
  /\ pc' = "read"
  /\ UNCHANGED <<table, play, engine, bd, history>>
  /\ UNCHANGED <<sbdma_buserr, sigint, sigbus, sgls, buf>>

ReadSize == IF Fat!FileOf(fd) = NULL THEN 0
            ELSE Least(Least(sb_playsize, Chunk), left)

(* The buffer is refilled with n units and silence after them. *)
Refill(n) ==
  /\ sb_playsize' = sb_playsize - n
  /\ reads' = reads + (IF n > 0 THEN 1 ELSE 0)
  /\ buf' = [buf EXCEPT ![bd] = IF n = 0 THEN Silence
                                ELSE [chunk |-> reads + 1, units |-> n]]

(* case SB_WRITE, the rest: n units are read (all there are, or fewer after a disk *)
(* error, which FatFs repeats on every later read).  Nothing read and no           *)
(* completion outstanding is the end of the playback.                              *)
sb_write(n, failed) ==
  /\ pc = "read"
  /\ IF failed THEN errors < MaxErrors /\ n <= ReadSize ELSE n = ReadSize
  /\ errors' = IF failed THEN errors + 1 ELSE errors
  /\ pc' = "unblock"
  /\ IF n = 0 /\ sb_playcount = 0
       THEN /\ CloseAndInit
            /\ UNCHANGED <<buf, reads>>
       ELSE /\ Refill(n)
            /\ left' = IF failed THEN 0 ELSE left - n
            /\ UNCHANGED <<table, fd, sb_reg, sb_playcount, engine>>
  /\ UNCHANGED <<flags, cmplt, bd, plays, buserrs, lost, disturbed, asked, heard, played>>

(* Slip: unblocking takes every signal that is pending by now. *)
sb_unblock_all ==
  /\ pc = "unblock"
  /\ sigint' = FALSE /\ sigbus' = FALSE
  /\ pc' = "idle"
  /\ UNCHANGED <<table, play, sbdma_cmplt, sbdma_buserr, sgls, engine, ring, bd, history>>

(* Lines 147-149: unblocking takes the signals noted, and one of them raised *)
(* again since then too.                                                     *)
sb_unblock ==
  /\ pc = "unblock"
  /\ sigint' = (sigint /\ "SIGINT" \notin sgls)
  /\ sigbus' = (sigbus /\ "SIGBUS" \notin sgls)
  /\ pc' = "idle"
  /\ UNCHANGED <<table, play, sbdma_cmplt, sbdma_buserr, sgls, engine, ring, bd, history>>

(* Slip: the state machine is reset and the file stays open. *)
sb_close_keep ==
  /\ pc = "idle" /\ sb_reg = "SB_CLOSE"
  /\ running' = FALSE /\ ioc' = FALSE /\ err' = FALSE
  /\ fd' = NoFd /\ sb_playsize' = 0 /\ sb_playcount' = 0
  /\ sb_reg' = "SB_IDLE" /\ left' = 0
  /\ UNCHANGED <<table, cur, flags, ring, pc, bd, history>>

(* case SB_CLOSE, the pass after a bus error *)
sb_close ==
  /\ pc = "idle" /\ sb_reg = "SB_CLOSE"
  /\ CloseAndInit
  /\ UNCHANGED <<flags, ring, pc, bd, history>>

service ==
  \/ sb_idle \/ sb_poll \/ sb_buserr \/ sb_cmplt \/ sb_take \/ sb_clear \/ sb_unblock
  \/ sb_close
  \/ \E n \in 0..Chunk, failed \in BOOLEAN : sb_write(n, failed)

Next ==
  \/ \E size \in Sizes : sb_m_unread(size) \/ \E length \in Sizes : sb_m(size, length)
  \/ service
  \/ PlayBuffer \/ BusError \/ onsbdma_irq

Spec == Init /\ [][Next]_vars

(* The main loop calls the service for ever, the engine plays on, a raised *)
(* interrupt is taken.  Commands and errors need not come.                 *)
FairSpec == Spec /\ WF_vars(service) /\ WF_vars(PlayBuffer) /\ WF_vars(onsbdma_irq)

-----------------------------------------------------------------------------
TypeOK ==
  /\ open_files \in [0..(MAX_OPEN_FILES - 1) -> (1..MaxPlays) \cup {NULL}]
  /\ files \in 0..MAX_OPEN_FILES
  /\ fd \in 0..(MAX_OPEN_FILES - 1) \cup {NoFd}
  /\ sb_reg \in {"SB_IDLE", "SB_WAIT", "SB_WRITE", "SB_CLOSE"}
  /\ sb_playsize \in 0..MaxSize /\ sb_playcount \in 0..(SizeMod - 1) /\ left \in 0..MaxSize
  /\ {sbdma_cmplt, sbdma_buserr, sigint, sigbus, running, ioc, err, disturbed} \subseteq BOOLEAN
  /\ cur \in BDs /\ bd \in BDs
  /\ cmplt \in [BDs -> BOOLEAN]
  /\ buf \in [BDs -> [chunk : Nat, units : 0..Chunk]]
  /\ pc \in {"idle", "flags", "cmplt", "take", "clear", "read", "unblock"}
  /\ sgls \subseteq {"SIGINT", "SIGBUS"} /\ lost \subseteq 1..MaxPlays
  /\ {plays, errors, buserrs, asked, reads, heard, played} \subseteq Nat

(* sb_playcount is a size_t that counts completions down: no completion may find *)
(* it at zero, or playback goes on for 2^32 chunks of silence.                   *)
PlaycountNeverWraps == sb_reg = "SB_WAIT" /\ pc = "idle" => sb_playcount > 0

(* sb_service.c:184 "sb_svc: playback OK" *)
Ok == pc = "read" /\ pc' = "unblock" /\ fd # NoFd /\ fd' = NoFd

(* The chunks of the file are heard in order, each once, as long as the service deals *)
(* with every buffer before the next one is played and no other play interferes; a    *)
(* play disturbed in one of these ways does not carry over to the next.               *)
PlayedInOrder ==
  [][plays' = plays /\ ~disturbed' /\ played' # played => played' = played + 1]_vars

(* When such a playback is reported to be OK every unit of the file has left the DMA: it *)
(* is not cut off with refilled buffers unplayed.                                        *)
PlayedBeforeOk == [][Ok /\ errors' = 0 /\ ~disturbed => heard = asked]_vars

(* Every playback comes to its end and the player is free again, however late the     *)
(* service is and whatever else is played, with a bus error in any step of the        *)
(* service or a disk error in any read too: the wake-up of a bus error is never taken *)
(* with that of a completion.  (A second bus error in the life of the system may find *)
(* the signal of the first still pending, and its own is then taken unseen.)          *)
PlayEnds == Playing ~> ~Playing \/ buserrs > 1

(* When the player is idle the engine is stopped and no file it opened is still open, *)
(* except those whose descriptor another play has overwritten.                        *)
NoFileLeak ==
  ~Playing => ~running /\ \A d \in Fat!FDs : open_files[d] \in lost \cup {NULL}

(* What sb_service.c:210 reports at the end of every playback, "play file closed and DMA *)
(* stopped", for all the files played.                                                   *)
AllFilesClosed == ~Playing => files = 0

(* sb_service keeps its counters in their ranges, and PlaycountNeverWraps. *)
PlaycountInv == TypeOK /\ PlaycountNeverWraps

=============================================================================
