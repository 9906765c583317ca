------------------------------- MODULE RamDisk -------------------------------
(***************************************************************************)
(* The block driver of src/day_13/ex30.c: a disk in vmalloc'ed memory.     *)
(* Processes submit transfers; the block layer (the kernel's) accepts      *)
(* those that consist of whole logical blocks within the capacity the      *)
(* driver announced, merges adjacent ones into one request and runs the    *)
(* queue: it calls sbd_request with Device.lock, the queue's lock, held.   *)
(* sbd_request fetches requests, in an order the block layer chooses,      *)
(* until none is left.                                                     *)
(*                                                                         *)
(* KERNEL_SECTOR_SIZE is the unit in which the block layer counts sectors, *)
(* hardsect_size the driver's own; memory is counted in bytes.             *)
(***************************************************************************)
EXTENDS Integers, Sequences

CONSTANTS
  Proc,                \* processes doing transfers
  Val,                 \* values of a byte
  Zero,                \* the byte 0
  nsectors,            \* module parameter: "How big the drive is"
  hardsect_size,       \* module parameter
  KERNEL_SECTOR_SIZE,  \* 512
  MaxLen,              \* bound on the sectors of one transfer
  CmdTypes             \* kinds of request that reach the queue; "FS" is a transfer

ASSUME RamDiskAssumption ==
  /\ nsectors \in Nat /\ hardsect_size \in Nat
  /\ KERNEL_SECTOR_SIZE \in Nat \ {0}
  /\ MaxLen \in Nat
  /\ Zero \in Val

(* sbd_init multiplies ints and checks nothing: a disk whose size overflows, with *)
(* less memory than its limit test and its capacity allow, is not considered.     *)
ASSUME SizeFits == nsectors * hardsect_size <= 2147483647

(* Mutant: Device.size is left in sectors. *)
DeviceSize_Sectors == nsectors

(* Device.size and set_capacity() of sbd_init *)
DeviceSize == nsectors * hardsect_size
Capacity   == nsectors * (hardsect_size \div KERNEL_SECTOR_SIZE)

Addr == 0 .. DeviceSize - 1
Disk == [Addr -> Val]

VARIABLES
  data,    \* Device.data
  io,      \* per process: its transfer, in sectors, and the kind of request
  mem,     \* per process: the pages it transfers from or to, addressed like the disk
  queue,   \* the request queue; a request is the sequence of its merged transfers
  lock,    \* Device.lock is held: sbd_request runs
  req,     \* the request do_actual_req works on, or <<>>
  seg,     \* the transfer of req it copies next
  addr,    \* do_actual_req's addr, relative to Device.data
  stuck    \* processes whose transfer was fetched and never ended

vars == <<data, io, mem, queue, lock, req, seg, addr, stuck>>

Idle == [cmd |-> "FS", dir |-> "none", pos |-> 0, n |-> 0]

(* sbd_init: memset(Device.data, 0, Device.size) *)
Init ==
  /\ data = [a \in Addr |-> Zero]
  /\ io = [p \in Proc |-> Idle]
  /\ mem = [p \in Proc |-> [a \in Addr |-> Zero]]
  /\ queue = {} /\ lock = FALSE
  /\ req = <<>> /\ seg = 1 /\ addr = 0
  /\ stuck = {}

First(r) == io[r[1]]
Last(r)  == io[r[Len(r)]]

(* blk_rq_pos and blk_rq_sectors *)
RqPos(r)     == First(r).pos
RqSectors(r) == Last(r).pos + Last(r).n - First(r).pos

(* blk_queue_logical_block_size and set_capacity: the transfers that are let in.  *)
(* A disk of size 0 (hardsect_size < KERNEL_SECTOR_SIZE) takes none: the kernel's *)
(* readers and writers of a block device stop at its size before they submit.     *)
WholeBlocks(k) == (k * KERNEL_SECTOR_SIZE) % hardsect_size = 0
Accepted(pos, n) == pos + n <= Capacity /\ WholeBlocks(pos) /\ WholeBlocks(n)

(* The pages of a write hold what the process wants written, those of a read anything. *)
Pages(p, d, pos, n) ==
  IF d = "read" THEN {mem[p]}
  ELSE {m \in Disk : \A a \in Addr :
          ~ (pos * KERNEL_SECTOR_SIZE <= a /\ a < (pos + n) * KERNEL_SECTOR_SIZE) => m[a] = mem[p][a]}

(* A transfer reaches the queue, as a new request or merged into one. *)
submit_bio(p, c, d, pos, n) ==
  /\ ~ lock
  /\ io[p] = Idle
  /\ Accepted(pos, n)
  /\ io' = [io EXCEPT ![p] = [cmd |-> c, dir |-> d, pos |-> pos, n |-> n]]
  /\ \E m \in Pages(p, d, pos, n) : mem' = [mem EXCEPT ![p] = m]
  /\ \/ queue' = queue \cup {<<p>>}
     \/ \E r \in queue :
          /\ c = "FS" /\ First(r).cmd = "FS" /\ First(r).dir = d
          /\ \/ /\ pos = RqPos(r) + RqSectors(r)
                /\ queue' = (queue \ {r}) \cup {Append(r, p)}
             \/ /\ pos + n = RqPos(r)
                /\ queue' = (queue \ {r}) \cup {<<p>> \o r}
  /\ UNCHANGED <<data, lock, req, seg, addr, stuck>>

(* The block layer takes Device.lock and calls sbd_request. *)
run_queue ==
  /\ ~ lock /\ queue # {}
  /\ lock' = TRUE
  /\ UNCHANGED <<data, io, mem, queue, req, seg, addr, stuck>>

Procs(r) == {r[i] : i \in DOMAIN r}

(* __blk_end_request(req, 0, 0): no byte of r is done and r, off the queue, stays as it is. *)
EndNothing(r) ==
  /\ stuck' = stuck \cup Procs(r)
  /\ UNCHANGED <<req, seg, addr>>

(* do_actual_req's "this should not cross our device limit" *)
BeyondLimit(r) ==
  \/ RqPos(r) > nsectors
  \/ RqPos(r) + RqSectors(r) > nsectors

(* do_actual_req up to its loops *)
do_actual_req(r) ==
  IF BeyondLimit(r) THEN EndNothing(r)
  ELSE /\ req' = r /\ seg' = 1
       /\ addr' = RqPos(r) * KERNEL_SECTOR_SIZE
       /\ UNCHANGED stuck

(* sbd_request's loop: the next request, or out with the lock released. *)
sbd_request ==
  /\ lock /\ req = <<>>
  /\ \/ /\ queue = {}
        /\ lock' = FALSE
        /\ UNCHANGED <<queue, req, seg, addr, stuck>>
     \/ \E r \in queue :
          /\ queue' = queue \ {r}
          /\ IF First(r).cmd # "FS" THEN EndNothing(r) ELSE do_actual_req(r)
          /\ UNCHANGED lock
  /\ UNCHANGED <<data, io, mem>>

(* The bytes of one transfer: its pages hold byte o of the disk at o. *)
Bytes(p) == io[p].n * KERNEL_SECTOR_SIZE
Base(p) == io[p].pos * KERNEL_SECTOR_SIZE

(* Mutant: addr += size is forgotten. *)
memcpy_SameAddr(p) ==
  /\ IF io[p].dir = "write"
     THEN /\ data' = [a \in Addr |-> IF addr <= a /\ a < addr + Bytes(p)
                                     THEN mem[p][a - addr + Base(p)] ELSE data[a]]
          /\ UNCHANGED mem
     ELSE /\ mem' = [mem EXCEPT ![p] = [o \in Addr |->
                       IF Base(p) <= o /\ o < Base(p) + Bytes(p)
                       THEN data[o - Base(p) + addr] ELSE mem[p][o]]]
          /\ UNCHANGED data
  /\ addr' = addr

(* memcpy(addr, buffer, size) or memcpy(buffer, addr, size); addr += size *)
memcpy(p) ==
  /\ IF io[p].dir = "write"
     THEN /\ data' = [a \in Addr |-> IF addr <= a /\ a < addr + Bytes(p)
                                     THEN mem[p][a - addr + Base(p)] ELSE data[a]]
          /\ UNCHANGED mem
     ELSE /\ mem' = [mem EXCEPT ![p] = [o \in Addr |->
                       IF Base(p) <= o /\ o < Base(p) + Bytes(p)
                       THEN data[o - Base(p) + addr] ELSE mem[p][o]]]
          /\ UNCHANGED data
  /\ addr' = addr + Bytes(p)

(* One turn of do_actual_req's loops over bios and segments. *)
copy_segment ==
  /\ req # <<>> /\ seg <= Len(req)
  /\ memcpy(req[seg])
  /\ seg' = seg + 1
  /\ UNCHANGED <<io, queue, lock, req, stuck>>

(* Mutant: the request is left without __blk_end_request. *)
end_request_Forgotten ==
  /\ req # <<>> /\ seg > Len(req)
  /\ req' = <<>> /\ seg' = 1 /\ addr' = 0
  /\ UNCHANGED <<io, data, mem, queue, lock, stuck>>

(* __blk_end_request with a length of at least the whole request: all its transfers *)
(* are over.  What they are told (-EIO if req->errors is set) is left out.          *)
end_request ==
  /\ req # <<>> /\ seg > Len(req)
  /\ io' = [p \in Proc |-> IF p \in Procs(req) THEN Idle ELSE io[p]]
  /\ req' = <<>> /\ seg' = 1 /\ addr' = 0
  /\ UNCHANGED <<data, mem, queue, lock, stuck>>

Next ==
  \/ \E p \in Proc, c \in CmdTypes, d \in {"read", "write"}, pos \in 0 .. Capacity, n \in 1 .. MaxLen :
       submit_bio(p, c, d, pos, n)
  \/ run_queue
  \/ sbd_request
  \/ copy_segment
  \/ end_request

Spec == Init /\ [][Next]_vars

(* The block layer runs a queue that is not empty; sbd_request runs under a spinlock. *)
FairSpec == Spec /\ WF_vars(run_queue) /\ WF_vars(sbd_request \/ copy_segment \/ end_request)
------------------------------------------------------------------------------
TypeOK ==
  /\ data \in Disk
  /\ io \in [Proc -> [cmd : CmdTypes \cup {"FS"}, dir : {"read", "write", "none"},
                      pos : 0 .. Capacity, n : 0 .. MaxLen]]
  /\ mem \in [Proc -> Disk]
  /\ queue \subseteq Seq(Proc) /\ lock \in BOOLEAN
  /\ req \in Seq(Proc) /\ seg \in Nat \ {0} /\ addr \in Nat
  /\ stuck \subseteq Proc

(* A request is made of adjacent transfers of the same direction, in order. *)
Request(r) ==
  /\ r # <<>>
  /\ \A i \in DOMAIN r : io[r[i]].dir = io[r[1]].dir /\ io[r[i]].dir # "none" /\ io[r[i]].n > 0
                         /\ io[r[i]].pos + io[r[i]].n <= Capacity
  /\ \A i, j \in DOMAIN r : i < j => r[i] # r[j] /\ io[r[i]].pos + io[r[i]].n <= io[r[j]].pos
  /\ \A i \in DOMAIN r : i > 1 => io[r[i]].pos = io[r[i - 1]].pos + io[r[i - 1]].n

(* Requests are well formed and no transfer is in two of them or in one that was given up. *)
Requests == IF req = <<>> THEN queue ELSE queue \cup {req}
QueueInv ==
  /\ \A r \in Requests : Request(r) /\ Procs(r) \cap stuck = {}
  /\ \A r1, r2 \in Requests : r1 # r2 => Procs(r1) \cap Procs(r2) = {}
  /\ req # <<>> => req \notin queue
  /\ \A p \in stuck : io[p] # Idle

(* do_actual_req's addr has kept step with the transfers it has copied. *)
AddrInv ==
  req # <<>> =>
    /\ lock /\ ~ BeyondLimit(req)
    /\ seg <= Len(req) + 1
    /\ seg <= Len(req) => addr = io[req[seg]].pos * KERNEL_SECTOR_SIZE

IInv == TypeOK /\ QueueInv /\ AddrInv

(* No memcpy of do_actual_req leaves Device.data, for every nsectors and     *)
(* hardsect_size whose product fits an int (SizeFits) and however the block  *)
(* layer merged the transfers: the test of the limit counts kernel sectors   *)
(* while the memory is nsectors * hardsect_size bytes.                       *)
CopiesInsideDevice ==
  req # <<>> /\ seg <= Len(req) => addr >= 0 /\ addr + Bytes(req[seg]) <= DeviceSize

AD == INSTANCE AtomicDisk WITH
  Size <- DeviceSize,
  disk <- data,
  io <- [p \in Proc |-> [dir |-> io[p].dir, pos |-> Base(p), n |-> Bytes(p)]],
  done <- {req[i] : i \in {j \in DOMAIN req : j < seg}}

(* The driver implements a disk: a write reaches exactly its own sectors, a  *)
(* read returns what the disk holds there, also when transfers are merged    *)
(* and requests are fetched out of order.                                    *)
ImplementsDisk == AD!Init /\ [][AD!Next]_(AD!advars)

(* "take requests one by one from the request queue and process it": every   *)
(* transfer the block layer let in comes to an end.                          *)
EveryTransferEnds == \A p \in Proc : io[p] # Idle ~> io[p] = Idle

(* A transfer that __blk_end_request(req, 0, 0) gave up never ends, whatever *)
(* is submitted, merged and served after it.                                 *)
StuckForever == [][\A p \in stuck : p \in stuck' /\ io[p] # Idle /\ io'[p] = io[p]]_vars

(* The limit test gives up no file system request unless the capacity is     *)
(* larger than nsectors, as it is when a hardware sector has more than one   *)
(* kernel sector.                                                            *)
NothingRefused == Capacity <= nsectors => \A p \in stuck : io[p].cmd # "FS"

(* Only file system requests are merged: the transfers of a request are of   *)
(* one kind.                                                                 *)
OneKind(r) == \A k \in DOMAIN r : io[r[k]].cmd = First(r).cmd
CmdInv == \A r \in Requests : OneKind(r)
==============================================================================
