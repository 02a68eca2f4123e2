---------------------------- MODULE BlockDevice ----------------------------
(*******************************************************************************)
(* What disk_read, disk_write and CTRL_SYNC promise to FatFs, whatever the     *)
(* driver behind them: one request at a time; a result of RES_OK means that it *)
(* is done; a failed one may be done in part but touches nothing else.  A      *)
(* power failure leaves of each block what has reached the medium.  The one    *)
(* exception is a hasty CTRL_SYNC, which was confirmed before it began.        *)
(*******************************************************************************)
EXTENDS Naturals

CONSTANTS Disks, Blocks, Results

VARIABLES
  media,     \* <<disk, block>> -> contents as read
  durable,   \* <<disk, block>> -> contents that survive a power failure
  io,        \* the request [op, did, blk, n], or Idle
  mem,       \* the caller's memory: sector of the request -> contents
  res,       \* result of the last request
  hasty      \* is the CTRL_SYNC in progress a hasty one?

vars == <<media, durable, io, mem, res, hasty>>

Idle == [op |-> "none"]
Junk == <<"junk", 0>>
NoData == [i \in {} |-> Junk]
Origin(b) == <<"block", b[2]>>

Sectors == 0..(io.n - 1)
At(i) == <<io.did, io.blk + i>>

Init ==
  /\ media = [b \in Disks \X Blocks |-> Origin(b)] /\ durable = media
  /\ io = Idle /\ mem = NoData /\ res = "RES_OK" /\ hasty = FALSE

Request(q) ==
  /\ io = Idle /\ q # Idle
  /\ io' = q
  /\ DOMAIN mem' = 0..(q.n - 1)
  /\ UNCHANGED <<media, durable, res, hasty>>

(* Sectors of the request arrive in memory, *)
Read ==
  /\ io.op = "read"
  /\ DOMAIN mem' = Sectors
  /\ \A i \in Sectors : mem'[i] \in {mem[i], media[At(i)]}
  /\ UNCHANGED <<media, durable, io, res, hasty>>

(* or on the medium, perhaps by way of a cache *)
Write ==
  /\ io.op = "write"
  /\ \E i \in Sectors :
       /\ media' = [media EXCEPT ![At(i)] = mem[i]]
       /\ durable' \in {durable, [durable EXCEPT ![At(i)] = mem[i]]}
  /\ UNCHANGED <<io, mem, res, hasty>>

(* that is written back at any time. *)
WriteBack ==
  /\ DOMAIN durable' = DOMAIN media
  /\ \A b \in DOMAIN media : durable'[b] \in {durable[b], media[b]}
  /\ UNCHANGED <<media, io, mem, res, hasty>>

(* The driver looks for the end of a flush before the device has begun it. *)
Hasten ==
  /\ io.op = "sync" /\ hasty' = TRUE
  /\ UNCHANGED <<media, durable, io, mem, res>>

Done ==
  CASE io.op = "read"  -> \A i \in Sectors : mem'[i] = media[At(i)]
    [] io.op = "write" -> \A i \in Sectors : media[At(i)] = mem'[i]
    [] io.op = "sync"  ->
         hasty \/ \A b \in DOMAIN media : b[1] = io.did => durable'[b] = media[b]

Return(r) ==
  /\ io # Idle
  /\ DOMAIN mem' = Sectors
  /\ r = "RES_OK" => Done
  /\ io' = Idle /\ res' = r /\ hasty' = FALSE
  /\ mem' = mem \/ (io.op = "read" /\ r = "RES_OK")
  /\ UNCHANGED <<media, durable>>

(* The caller has taken the result and the data. *)
Taken ==
  /\ io = Idle
  /\ mem' = NoData /\ res' = "RES_OK"
  /\ UNCHANGED <<media, durable, io, hasty>>

PowerFail ==
  /\ media' = durable
  /\ io' = Idle /\ mem' = NoData /\ res' = "RES_OK" /\ hasty' = FALSE
  /\ UNCHANGED durable

Next ==
  \/ Request(io')
  \/ Read \/ Write \/ WriteBack \/ Hasten
  \/ \E r \in Results : Return(r)
  \/ Taken \/ PowerFail

Spec == Init /\ [][Next]_vars

=============================================================================
