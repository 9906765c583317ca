---------------------------- MODULE RamDiskProofs ----------------------------
(***************************************************************************)
(* Theorems about RamDisk: its inductive invariant, that no copy of        *)
(* do_actual_req leaves the memory sbd_init allocated, and that the driver *)
(* implements AtomicDisk, for every size of the disk and both sector sizes.*)
(***************************************************************************)
EXTENDS RamDisk, SequenceTheorems, TLAPS

(* The announced capacity and the size of the memory are natural numbers. *)
LEMMA Sizes == Capacity \in Nat /\ DeviceSize \in Nat
<1>1. hardsect_size \div KERNEL_SECTOR_SIZE \in Nat
  BY RamDiskAssumption
<1>2. \A a, b \in Nat : a * b \in Nat
  OBVIOUS
<1> QED
  BY <1>1, <1>2, RamDiskAssumption DEF Capacity, DeviceSize

(* Positions and lengths of transfers are natural numbers. *)
LEMMA IoType ==
  ASSUME TypeOK
  PROVE  \A p \in Proc : io[p].pos \in Nat /\ io[p].n \in Nat
BY Sizes, RamDiskAssumption DEF TypeOK

(* A process that waits for nothing is in no request. *)
LEMMA IdleInNoRequest ==
  ASSUME TypeOK, NEW p \in Proc, io[p] = Idle, NEW r \in Seq(Proc), Request(r)
  PROVE  p \notin Procs(r)
BY DEF Request, Procs, Idle

(* A request does not notice what happens to transfers that are not its own. *)
LEMMA RequestFrame ==
  ASSUME NEW r \in Seq(Proc), Request(r), \A i \in DOMAIN r : io'[r[i]] = io[r[i]]
  PROVE  Request(r)'
<1>1. r # <<>> /\ 1 \in DOMAIN r
  BY DEF Request
<1>2. ASSUME NEW i \in DOMAIN r, i > 1 PROVE i - 1 \in DOMAIN r
  BY <1>2
<1> QED
  BY <1>1, <1>2 DEF Request

(* What the block layer builds when it puts a transfer behind a request. *)
LEMMA BackMerge ==
  ASSUME TypeOK, TypeOK', NEW r \in Seq(Proc), Request(r), NEW p \in Proc, p \notin Procs(r),
         \A i \in DOMAIN r : io'[r[i]] = io[r[i]],
         io'[p].dir = First(r).dir, io'[p].n > 0, io'[p].pos + io'[p].n <= Capacity,
         io'[p].pos = RqPos(r) + RqSectors(r)
  PROVE  Request(Append(r, p))'
<1> DEFINE s == Append(r, p)
<1>1. s \in Seq(Proc) /\ Len(s) = Len(r) + 1 /\ s[Len(r) + 1] = p
      /\ \A i \in 1 .. Len(r) : s[i] = r[i]
  OBVIOUS
<1>2. r # <<>> /\ Len(r) \in Nat \ {0} /\ DOMAIN r = 1 .. Len(r) /\ DOMAIN s = 1 .. Len(r) + 1
  BY <1>1 DEF Request
<1>3. \A i \in 1 .. Len(r) : /\ r[i] \in Proc /\ r[i] # p /\ io'[s[i]] = io[r[i]]
                             /\ io[r[i]].pos \in Nat /\ io[r[i]].n \in Nat
  <2> SUFFICES ASSUME NEW i \in 1 .. Len(r)
               PROVE  /\ r[i] \in Proc /\ r[i] # p /\ io'[s[i]] = io[r[i]]
                      /\ io[r[i]].pos \in Nat /\ io[r[i]].n \in Nat
    OBVIOUS
  <2>1. r[i] \in Proc /\ r[i] # p
    BY <1>2 DEF Procs
  <2>2. io'[s[i]] = io[r[i]]
    BY <1>1, <1>2
  <2> QED
    BY <2>1, <2>2, IoType
<1>4. io'[p].pos = io[r[Len(r)]].pos + io[r[Len(r)]].n
  <2>1. 1 \in 1 .. Len(r) /\ Len(r) \in 1 .. Len(r)
    BY <1>2
  <2>2. io[r[1]].pos \in Nat /\ io[r[Len(r)]].pos \in Nat /\ io[r[Len(r)]].n \in Nat
    BY <2>1, <1>3
  <2> QED
    BY <2>2 DEF RqPos, RqSectors, First, Last
<1>5. io'[p].pos \in Nat /\ io'[p].n \in Nat
  BY Sizes, RamDiskAssumption DEF TypeOK
<1> HIDE DEF s
<1>6. \A i \in DOMAIN s : /\ io'[s[i]].dir = io'[s[1]].dir /\ io'[s[i]].dir # "none"
                          /\ io'[s[i]].n > 0 /\ io'[s[i]].pos + io'[s[i]].n <= Capacity
  BY <1>1, <1>2, <1>3 DEF Request, First
<1>7. \A i, j \in DOMAIN s : i < j => s[i] # s[j] /\ io'[s[i]].pos + io'[s[i]].n <= io'[s[j]].pos
  <2> SUFFICES ASSUME NEW i \in DOMAIN s, NEW j \in DOMAIN s, i < j
               PROVE  s[i] # s[j] /\ io'[s[i]].pos + io'[s[i]].n <= io'[s[j]].pos
    OBVIOUS
  <2>1. i \in 1 .. Len(r)
    BY <1>2
  <2>2. CASE j \in 1 .. Len(r)
    BY <2>1, <2>2, <1>1, <1>2, <1>3 DEF Request
  <2>3. CASE j = Len(r) + 1
    <3>1. io[r[i]].pos + io[r[i]].n <= io[r[Len(r)]].pos + io[r[Len(r)]].n
      <4>1. CASE i = Len(r)
        <5>1. io[r[i]].pos + io[r[i]].n \in Nat
          BY <2>1, <1>3
        <5> QED
          BY <4>1, <5>1
      <4>2. CASE i < Len(r)
        <5>1. io[r[i]].pos + io[r[i]].n <= io[r[Len(r)]].pos
          BY <4>2, <2>1, <1>2 DEF Request
        <5>2. /\ io[r[i]].pos + io[r[i]].n \in Nat
              /\ io[r[Len(r)]].pos \in Nat /\ io[r[Len(r)]].n \in Nat
          BY <2>1, <1>2, <1>3
        <5> QED
          BY <5>1, <5>2
      <4> QED
        BY <4>1, <4>2, <2>1, <1>2
    <3> QED
      BY <3>1, <2>3, <2>1, <1>1, <1>2, <1>3, <1>4, <1>5
  <2> QED
    BY <2>2, <2>3, <1>2
<1>8. \A i \in DOMAIN s : i > 1 => io'[s[i]].pos = io'[s[i - 1]].pos + io'[s[i - 1]].n
  <2> SUFFICES ASSUME NEW i \in DOMAIN s, i > 1
               PROVE  io'[s[i]].pos = io'[s[i - 1]].pos + io'[s[i - 1]].n
    OBVIOUS
  <2>1. i - 1 \in 1 .. Len(r)
    BY <1>2
  <2>2. CASE i \in 1 .. Len(r)
    BY <2>1, <2>2, <1>1, <1>2, <1>3 DEF Request
  <2>3. CASE i = Len(r) + 1
    BY <2>1, <2>3, <1>1, <1>2, <1>3, <1>4
  <2> QED
    BY <2>2, <2>3, <1>2
<1> QED
  BY <1>1, <1>2, <1>6, <1>7, <1>8 DEF Request, s

(* What the block layer builds when it puts a transfer before a request. *)
LEMMA FrontMerge ==
  ASSUME TypeOK, TypeOK', NEW r \in Seq(Proc), Request(r), NEW p \in Proc, p \notin Procs(r),
         \A i \in DOMAIN r : io'[r[i]] = io[r[i]],
         io'[p].dir = First(r).dir, io'[p].n > 0, io'[p].pos + io'[p].n <= Capacity,
         io'[p].pos + io'[p].n = RqPos(r)
  PROVE  Request(<<p>> \o r)'
<1> DEFINE s == <<p>> \o r
<1>1. s \in Seq(Proc) /\ Len(s) = Len(r) + 1 /\ s[1] = p
      /\ \A i \in 1 .. Len(r) : s[i + 1] = r[i]
  <2>1. <<p>> \in Seq(Proc) /\ Len(<<p>>) = 1 /\ <<p>>[1] = p
    OBVIOUS
  <2> QED
    BY <2>1, ConcatProperties
<1>2. r # <<>> /\ Len(r) \in Nat \ {0} /\ DOMAIN r = 1 .. Len(r) /\ DOMAIN s = 1 .. Len(r) + 1
  BY <1>1 DEF Request
<1>3. \A i \in 1 .. Len(r) : /\ r[i] \in Proc /\ r[i] # p /\ io'[s[i + 1]] = io[r[i]]
                             /\ io[r[i]].pos \in Nat /\ io[r[i]].n \in Nat
  <2> SUFFICES ASSUME NEW i \in 1 .. Len(r)
               PROVE  /\ r[i] \in Proc /\ r[i] # p /\ io'[s[i + 1]] = io[r[i]]
                      /\ io[r[i]].pos \in Nat /\ io[r[i]].n \in Nat
    OBVIOUS
  <2>1. r[i] \in Proc /\ r[i] # p
    BY <1>2 DEF Procs
  <2>2. io'[s[i + 1]] = io[r[i]]
    BY <1>1, <1>2
  <2> QED
    BY <2>1, <2>2, IoType
<1>4. io'[p].pos + io'[p].n = io[r[1]].pos
  BY DEF RqPos, First
<1>5. io'[p].pos \in Nat /\ io'[p].n \in Nat
  BY Sizes, RamDiskAssumption DEF TypeOK
<1> HIDE DEF s
(* Position i of the new request is p or position i - 1 of the old one. *)
<1>6. \A i \in DOMAIN s : i = 1 \/ (i - 1 \in 1 .. Len(r) /\ s[i] = r[i - 1])
  <2> SUFFICES ASSUME NEW i \in DOMAIN s, i # 1 PROVE i - 1 \in 1 .. Len(r) /\ s[i] = r[i - 1]
    OBVIOUS
  <2>1. i - 1 \in 1 .. Len(r) /\ (i - 1) + 1 = i
    BY <1>2
  <2> QED
    BY <2>1, <1>1
<1>7. \A i \in DOMAIN s : /\ io'[s[i]].dir = io'[s[1]].dir /\ io'[s[i]].dir # "none"
                          /\ io'[s[i]].n > 0 /\ io'[s[i]].pos + io'[s[i]].n <= Capacity
  <2>1. First(r).dir # "none" /\ First(r).dir = io'[s[1]].dir
    BY <1>1, <1>2 DEF Request, First
  <2> SUFFICES ASSUME NEW i \in DOMAIN s
               PROVE  /\ io'[s[i]].dir = First(r).dir
                      /\ io'[s[i]].n > 0 /\ io'[s[i]].pos + io'[s[i]].n <= Capacity
    BY <2>1
  <2>2. CASE i = 1
    BY <2>2, <1>1
  <2>3. CASE i - 1 \in 1 .. Len(r) /\ s[i] = r[i - 1]
    <3>1. io'[s[i]] = io[r[i - 1]]
      BY <2>3, <1>2
    <3> QED
      BY <2>3, <3>1, <1>2 DEF Request, First
  <2> QED
    BY <2>2, <2>3, <1>6
<1>8. \A j \in 1 .. Len(r) : io'[p].pos + io'[p].n <= io[r[j]].pos
  <2> SUFFICES ASSUME NEW j \in 1 .. Len(r), j # 1 PROVE io[r[1]].pos <= io[r[j]].pos
    BY <1>4, <1>5, <1>2, <1>3
  <2>1. io[r[1]].pos + io[r[1]].n <= io[r[j]].pos
    BY <1>2 DEF Request
  <2> QED
    BY <2>1, <1>2, <1>3
<1>9. \A i, j \in DOMAIN s : i < j => s[i] # s[j] /\ io'[s[i]].pos + io'[s[i]].n <= io'[s[j]].pos
  <2> SUFFICES ASSUME NEW i \in DOMAIN s, NEW j \in DOMAIN s, i < j
               PROVE  s[i] # s[j] /\ io'[s[i]].pos + io'[s[i]].n <= io'[s[j]].pos
    OBVIOUS
  <2>1. j - 1 \in 1 .. Len(r) /\ s[j] = r[j - 1] /\ io'[s[j]] = io[r[j - 1]]
    BY <1>2, <1>6
  <2>2. CASE i = 1
    BY <2>1, <2>2, <1>1, <1>3, <1>8
  <2>3. CASE i - 1 \in 1 .. Len(r) /\ s[i] = r[i - 1]
    <3>1. io'[s[i]] = io[r[i - 1]] /\ i - 1 < j - 1
      BY <2>3, <1>2
    <3> QED
      BY <2>1, <2>3, <3>1, <1>2 DEF Request
  <2> QED
    BY <2>2, <2>3, <1>6
<1>10. \A i \in DOMAIN s : i > 1 => io'[s[i]].pos = io'[s[i - 1]].pos + io'[s[i - 1]].n
  <2> SUFFICES ASSUME NEW i \in DOMAIN s, i > 1
               PROVE  io'[s[i]].pos = io'[s[i - 1]].pos + io'[s[i - 1]].n
    OBVIOUS
  <2>1. i - 1 \in 1 .. Len(r) /\ s[i] = r[i - 1] /\ io'[s[i]] = io[r[i - 1]] /\ i - 1 \in DOMAIN s
    BY <1>2, <1>6
  <2>2. CASE i - 1 = 1
    BY <2>1, <2>2, <1>1, <1>4
  <2>3. CASE i - 1 # 1
    <3>1. PICK k \in DOMAIN s : k = i - 1
      BY <2>1
    <3>2. k - 1 \in 1 .. Len(r) /\ s[k] = r[k - 1]
      BY <3>1, <2>3, <1>6
    <3>3. io'[s[k]] = io[r[k - 1]] /\ k > 1
      BY <3>2, <1>2
    <3>4. io[r[k]].pos = io[r[k - 1]].pos + io[r[k - 1]].n
      BY <2>1, <3>1, <3>3, <1>2 DEF Request
    <3> QED
      BY <2>1, <3>1, <3>3, <3>4
  <2> QED
    BY <2>2, <2>3
<1> QED
  BY <1>1, <1>2, <1>7, <1>9, <1>10 DEF Request, s

(* Multiplying by a size keeps the order and distributes over lengths. *)
LEMMA Products ==
  /\ \A a, b, k \in Nat : a <= b => a * k <= b * k
  /\ \A a, b, k \in Nat : a * k \in Nat /\ (a + b) * k = a * k + b * k
<1>1. \A a, b, k \in Nat : a * k \in Nat /\ (a + b) * k = a * k + b * k
  OBVIOUS
<1>2. ASSUME NEW a \in Nat, NEW b \in Nat, NEW k \in Nat, a <= b PROVE a * k <= b * k
  <2>1. PICK d \in Nat : b = a + d
    <3>1. b - a \in Nat /\ b = a + (b - a)
      BY <1>2
    <3> QED
      BY <3>1
  <2>2. b * k = a * k + d * k /\ a * k \in Nat /\ d * k \in Nat
    BY <2>1, <1>1
  <2> QED
    BY <2>2
<1> QED
  BY <1>1, <1>2

(* A transfer that was let in is only possible when a kernel sector fits into a driver's. *)
LEMMA SectorFits ==
  ASSUME NEW pos \in Nat, NEW n \in Nat, n > 0, pos + n <= Capacity
  PROVE  KERNEL_SECTOR_SIZE <= hardsect_size
<1> SUFFICES ASSUME hardsect_size < KERNEL_SECTOR_SIZE PROVE FALSE
  BY RamDiskAssumption
<1>1. hardsect_size \div KERNEL_SECTOR_SIZE = 0
  BY RamDiskAssumption
<1>2. Capacity = 0
  BY <1>1, RamDiskAssumption DEF Capacity
<1> QED
  BY <1>2

(* A transfer within the limit and the capacity lies within the memory. *)
LEMMA TransferFits ==
  ASSUME NEW pos \in Nat, NEW n \in Nat, n > 0, pos + n <= Capacity, pos + n <= nsectors
  PROVE  /\ pos * KERNEL_SECTOR_SIZE \in Nat /\ n * KERNEL_SECTOR_SIZE \in Nat
         /\ pos * KERNEL_SECTOR_SIZE + n * KERNEL_SECTOR_SIZE <= DeviceSize
<1>1. KERNEL_SECTOR_SIZE <= hardsect_size
  BY SectorFits
<1>2. (pos + n) * KERNEL_SECTOR_SIZE <= nsectors * KERNEL_SECTOR_SIZE
  BY Products, RamDiskAssumption
<1>3. KERNEL_SECTOR_SIZE * nsectors <= hardsect_size * nsectors
  BY <1>1, Products, RamDiskAssumption
<1>4. /\ KERNEL_SECTOR_SIZE * nsectors = nsectors * KERNEL_SECTOR_SIZE
      /\ hardsect_size * nsectors = nsectors * hardsect_size
  BY RamDiskAssumption
<1>5. /\ pos * KERNEL_SECTOR_SIZE \in Nat /\ n * KERNEL_SECTOR_SIZE \in Nat
      /\ nsectors * KERNEL_SECTOR_SIZE \in Nat /\ nsectors * hardsect_size \in Nat
      /\ (pos + n) * KERNEL_SECTOR_SIZE = pos * KERNEL_SECTOR_SIZE + n * KERNEL_SECTOR_SIZE
  BY Products, RamDiskAssumption
<1> QED
  BY <1>2, <1>3, <1>4, <1>5 DEF DeviceSize

(* Every transfer of a request ends where the request ends, or before. *)
LEMMA EndsBefore ==
  ASSUME TypeOK, NEW r \in Seq(Proc), Request(r), NEW i \in DOMAIN r
  PROVE  io[r[i]].pos + io[r[i]].n <= RqPos(r) + RqSectors(r)
<1>1. DOMAIN r = 1 .. Len(r) /\ Len(r) \in DOMAIN r /\ 1 \in DOMAIN r
  BY DEF Request
<1>2. \A j \in DOMAIN r : io[r[j]].pos \in Nat /\ io[r[j]].n \in Nat
  BY IoType
<1>3. RqPos(r) + RqSectors(r) = io[r[Len(r)]].pos + io[r[Len(r)]].n
  BY <1>1, <1>2 DEF RqPos, RqSectors, First, Last
<1>4. CASE i = Len(r)
  BY <1>2, <1>3, <1>4
<1>5. CASE i # Len(r)
  <2>1. io[r[i]].pos + io[r[i]].n <= io[r[Len(r)]].pos
    BY <1>1, <1>5 DEF Request
  <2> QED
    BY <2>1, <1>1, <1>2, <1>3
<1> QED
  BY <1>4, <1>5

(* Where the copy under way reads or writes: do_actual_req's addr is the     *)
(* transfer's own first byte, and its last byte is on the device.            *)
LEMMA CurrentCopy ==
  ASSUME IInv, req # <<>>, seg <= Len(req)
  PROVE  /\ req[seg] \in Proc
         /\ addr = Base(req[seg])
         /\ Base(req[seg]) \in Nat /\ Bytes(req[seg]) \in Nat
         /\ Base(req[seg]) + Bytes(req[seg]) <= DeviceSize
<1>1. req \in Seq(Proc) /\ seg \in DOMAIN req
  BY DEF IInv, TypeOK
<1>2. PICK p \in Proc : p = req[seg]
  BY <1>1
<1>3. Request(req)
  BY DEF IInv, QueueInv, Requests
<1>4. io[p].pos \in Nat /\ io[p].n \in Nat
  BY IoType DEF IInv
<1>5. io[p].n > 0 /\ io[p].pos + io[p].n <= Capacity
  BY <1>1, <1>2, <1>3 DEF Request
<1>6. io[p].pos + io[p].n <= nsectors
  <2>1. io[p].pos + io[p].n <= RqPos(req) + RqSectors(req)
    BY <1>1, <1>2, <1>3, EndsBefore DEF IInv
  <2>2. RqPos(req) + RqSectors(req) \in Int /\ ~ (RqPos(req) + RqSectors(req) > nsectors)
    <3>1. 1 \in DOMAIN req /\ Len(req) \in DOMAIN req
      BY <1>1, <1>3 DEF Request
    <3>2. RqPos(req) \in Int /\ RqSectors(req) \in Int
      BY <3>1, <1>1, IoType DEF IInv, RqPos, RqSectors, First, Last
    <3> QED
      BY <3>2 DEF IInv, AddrInv, BeyondLimit
  <2> QED
    BY <2>1, <2>2, <1>4, RamDiskAssumption
<1>7. /\ Base(p) \in Nat /\ Bytes(p) \in Nat
      /\ Base(p) + Bytes(p) <= DeviceSize
  BY <1>4, <1>5, <1>6, TransferFits DEF Base, Bytes
<1>8. addr = Base(p)
  BY <1>2 DEF IInv, AddrInv, Base
<1> QED
  BY <1>2, <1>7, <1>8

(* Initially nothing is queued. *)
LEMMA InitIInv == Init => IInv
<1> SUFFICES ASSUME Init PROVE IInv
  OBVIOUS
<1>1. data \in Disk /\ mem \in [Proc -> Disk]
  BY RamDiskAssumption DEF Init, Disk
<1>2. Idle \in [cmd : CmdTypes \cup {"FS"}, dir : {"read", "write", "none"},
                pos : 0 .. Capacity, n : 0 .. MaxLen]
  BY Sizes, RamDiskAssumption DEF Idle
<1>3. io \in [Proc -> [cmd : CmdTypes \cup {"FS"}, dir : {"read", "write", "none"},
                       pos : 0 .. Capacity, n : 0 .. MaxLen]]
  BY <1>2 DEF Init
<1>4. TypeOK
  <2>0. queue = {} /\ lock = FALSE /\ req = <<>> /\ seg = 1 /\ addr = 0 /\ stuck = {}
    BY DEF Init
  <2>1. queue \subseteq Seq(Proc) /\ lock \in BOOLEAN /\ req \in Seq(Proc)
        /\ seg \in Nat \ {0} /\ addr \in Nat /\ stuck \subseteq Proc
    <3>1. <<>> \in Seq(Proc) /\ {} \subseteq Seq(Proc) /\ {} \subseteq Proc
      OBVIOUS
    <3>2. 1 \in Nat \ {0} /\ 0 \in Nat
      OBVIOUS
    <3> QED
      BY <2>0, <3>1, <3>2, Zenon
  <2> QED
    BY <1>1, <1>3, <2>1 DEF TypeOK
<1> QED
  BY <1>4 DEF IInv, QueueInv, AddrInv, Requests, Init

(* submit_bio keeps the types: the pages it fills are those of a disk. *)
LEMMA SubmitType ==
  ASSUME IInv, NEW p \in Proc, NEW c \in CmdTypes, NEW d \in {"read", "write"},
         NEW pos \in 0 .. Capacity, NEW n \in 1 .. MaxLen, submit_bio(p, c, d, pos, n)
  PROVE  TypeOK'
<1> USE DEF IInv
<1>1. io' \in [Proc -> [cmd : CmdTypes \cup {"FS"}, dir : {"read", "write", "none"},
                        pos : 0 .. Capacity, n : 0 .. MaxLen]]
  <2>1. [cmd |-> c, dir |-> d, pos |-> pos, n |-> n]
          \in [cmd : CmdTypes \cup {"FS"}, dir : {"read", "write", "none"},
               pos : 0 .. Capacity, n : 0 .. MaxLen]
    BY Sizes, RamDiskAssumption
  <2> QED
    BY <2>1 DEF submit_bio, TypeOK
<1>2. mem' \in [Proc -> Disk]
  <2>1. PICK m \in Pages(p, d, pos, n) : mem' = [mem EXCEPT ![p] = m]
    BY DEF submit_bio
  <2>2. m \in Disk
    BY DEF Pages, TypeOK
  <2> QED
    BY <2>1, <2>2 DEF TypeOK
<1>3. queue' \subseteq Seq(Proc)
  <2>1. <<p>> \in Seq(Proc)
    OBVIOUS
  <2>2. \A r \in queue : Append(r, p) \in Seq(Proc) /\ <<p>> \o r \in Seq(Proc)
    BY <2>1, ConcatProperties DEF TypeOK
  <2>3. \/ queue' = queue \cup {<<p>>}
        \/ \E r \in queue : \/ queue' = (queue \ {r}) \cup {Append(r, p)}
                            \/ queue' = (queue \ {r}) \cup {<<p>> \o r}
    BY DEF submit_bio
  <2>4. queue \subseteq Seq(Proc)
    BY DEF TypeOK
  <2>5. ASSUME NEW r, NEW s \in Seq(Proc), queue' = (queue \ {r}) \cup {s}
        PROVE  queue' \subseteq Seq(Proc)
    BY <2>4, <2>5
  <2>6. CASE queue' = queue \cup {<<p>>}
    BY <2>1, <2>4, <2>6
  <2>7. CASE \E r \in queue : \/ queue' = (queue \ {r}) \cup {Append(r, p)}
                              \/ queue' = (queue \ {r}) \cup {<<p>> \o r}
    <3>1. PICK r \in queue : \/ queue' = (queue \ {r}) \cup {Append(r, p)}
                             \/ queue' = (queue \ {r}) \cup {<<p>> \o r}
      BY <2>7
    <3>2. PICK s \in Seq(Proc) : queue' = (queue \ {r}) \cup {s}
      BY <3>1, <2>2, Zenon
    <3> QED
      BY <3>2, <2>5
  <2> QED
    BY <2>3, <2>6, <2>7
<1> QED
  BY <1>1, <1>2, <1>3 DEF submit_bio, TypeOK

(* A copy keeps the types: byte a of the disk goes with byte a of the pages. *)
LEMMA CopyType ==
  ASSUME IInv, copy_segment
  PROVE  TypeOK'
<1> DEFINE p == req[seg]
<1>1. /\ p \in Proc /\ addr = Base(p)
      /\ Base(p) \in Nat /\ Bytes(p) \in Nat
      /\ Base(p) + Bytes(p) <= DeviceSize
  BY CurrentCopy DEF copy_segment
<1>2. memcpy(p) /\ seg' = seg + 1 /\ UNCHANGED <<io, queue, lock, req, stuck>>
  BY DEF copy_segment
<1>3. data \in Disk /\ mem \in [Proc -> Disk]
  BY DEF IInv, TypeOK
<1> HIDE DEF p
<1>4. addr' = addr + Bytes(p) /\ addr' \in Nat
  BY <1>1, <1>2 DEF memcpy
<1>5. \A a \in Addr : a - Base(p) + Base(p) = a
  BY <1>1, Sizes DEF Addr
<1>6. data' \in Disk /\ mem' \in [Proc -> Disk]
  <2>1. CASE io[p].dir = "write"
    <3>1. data' = [a \in Addr |-> IF addr <= a /\ a < addr + Bytes(p)
                                  THEN mem[p][a - addr + Base(p)] ELSE data[a]]
          /\ mem' = mem
      BY <2>1, <1>2 DEF memcpy
    <3>2. \A a \in Addr : mem[p][a - addr + Base(p)] \in Val /\ data[a] \in Val
      BY <1>1, <1>3, <1>5 DEF Disk
    <3> QED
      BY <3>1, <3>2, <1>3 DEF Disk
  <2>2. CASE io[p].dir # "write"
    <3> DEFINE m == [o \in Addr |-> IF Base(p) <= o /\ o < Base(p) + Bytes(p)
                                    THEN data[o - Base(p) + addr] ELSE mem[p][o]]
    <3>1. mem' = [mem EXCEPT ![p] = m] /\ data' = data
      BY <2>2, <1>2 DEF memcpy
    <3>2. \A o \in Addr : data[o - Base(p) + addr] \in Val /\ mem[p][o] \in Val
      BY <1>1, <1>3, <1>5 DEF Disk
    <3>3. m \in Disk
      BY <3>2 DEF Disk
    <3> HIDE DEF m
    <3> QED
      BY <3>1, <3>3, <1>3
  <2> QED
    BY <2>1, <2>2
<1>7. seg' \in Nat \ {0}
  BY <1>2 DEF IInv, TypeOK
<1> QED
  BY <1>2, <1>4, <1>6, <1>7 DEF IInv, TypeOK

(* The other operations keep the types. *)
LEMMA OtherType ==
  ASSUME IInv, run_queue \/ sbd_request \/ end_request \/ UNCHANGED vars
  PROVE  TypeOK'
<1> USE DEF IInv
<1>1. CASE run_queue
  BY <1>1 DEF run_queue, TypeOK
<1>2. CASE sbd_request
  <2>1. CASE queue = {} /\ lock' = FALSE /\ UNCHANGED <<queue, req, seg, addr, stuck>>
    BY <1>2, <2>1 DEF sbd_request, TypeOK
  <2>2. ASSUME NEW r \in queue, queue' = queue \ {r},
               IF First(r).cmd # "FS" THEN EndNothing(r) ELSE do_actual_req(r),
               UNCHANGED lock
        PROVE  TypeOK'
    <3>1. r \in Seq(Proc) /\ Request(r)
      BY DEF TypeOK, QueueInv, Requests
    <3>2. CASE EndNothing(r)
      <4>1. Procs(r) \subseteq Proc
        BY <3>1 DEF Procs
      <4> QED
        BY <4>1, <3>2, <2>2, <1>2 DEF EndNothing, sbd_request, TypeOK
    <3>3. CASE ~ EndNothing(r)
      <4>1. req' = r /\ seg' = 1 /\ addr' = RqPos(r) * KERNEL_SECTOR_SIZE /\ UNCHANGED stuck
        BY <2>2, <3>3 DEF do_actual_req
      <4>2. RqPos(r) \in Nat
        BY <3>1, IoType DEF RqPos, First, Request
      <4>3. addr' \in Nat
        BY <4>1, <4>2, Products, RamDiskAssumption
      <4> QED
        BY <4>1, <4>3, <3>1, <2>2, <1>2 DEF sbd_request, TypeOK
    <3> QED
      BY <3>2, <3>3
  <2> QED
    BY <1>2, <2>1, <2>2 DEF sbd_request
<1>3. CASE end_request
  <2>1. Idle \in [cmd : CmdTypes \cup {"FS"}, dir : {"read", "write", "none"},
                  pos : 0 .. Capacity, n : 0 .. MaxLen]
    BY Sizes, RamDiskAssumption DEF Idle
  <2>2. io' \in [Proc -> [cmd : CmdTypes \cup {"FS"}, dir : {"read", "write", "none"},
                          pos : 0 .. Capacity, n : 0 .. MaxLen]]
    BY <1>3, <2>1 DEF end_request, TypeOK
  <2> QED
    BY <1>3, <2>2 DEF end_request, TypeOK
<1>4. CASE UNCHANGED vars
  BY <1>4 DEF vars, TypeOK
<1> QED
  BY <1>1, <1>2, <1>3, <1>4

(* Whose transfers the requests are that submit_bio builds. *)
LEMMA ProcsMerge ==
  ASSUME NEW r \in Seq(Proc), NEW p \in Proc
  PROVE  /\ Procs(<<p>>) = {p}
         /\ Procs(Append(r, p)) \subseteq Procs(r) \cup {p}
         /\ Procs(<<p>> \o r) \subseteq Procs(r) \cup {p}
<1>1. Procs(<<p>>) = {p}
  BY DEF Procs
<1>2. Procs(Append(r, p)) \subseteq Procs(r) \cup {p}
  <2> DEFINE s == Append(r, p)
  <2>1. DOMAIN s = 1 .. Len(r) + 1 /\ s[Len(r) + 1] = p /\ DOMAIN r = 1 .. Len(r)
        /\ Len(r) \in Nat /\ \A i \in 1 .. Len(r) : s[i] = r[i]
    OBVIOUS
  <2> HIDE DEF s
  <2>2. \A i \in DOMAIN s : i = Len(r) + 1 \/ i \in 1 .. Len(r)
    BY <2>1
  <2>3. \A i \in DOMAIN s : s[i] \in Procs(r) \cup {p}
    BY <2>1, <2>2 DEF Procs
  <2> QED
    BY <2>3 DEF Procs, s
<1>3. Procs(<<p>> \o r) \subseteq Procs(r) \cup {p}
  <2> DEFINE s == <<p>> \o r
  <2>1. <<p>> \in Seq(Proc) /\ Len(<<p>>) = 1 /\ <<p>>[1] = p
    OBVIOUS
  <2>2. s \in Seq(Proc) /\ Len(s) = Len(r) + 1 /\ s[1] = p
        /\ \A i \in 1 .. Len(r) : s[i + 1] = r[i]
    BY <2>1, ConcatProperties
  <2>3. DOMAIN s = 1 .. Len(r) + 1 /\ DOMAIN r = 1 .. Len(r) /\ Len(r) \in Nat
    BY <2>2
  <2> HIDE DEF s
  <2>4. ASSUME NEW i \in DOMAIN s PROVE s[i] \in Procs(r) \cup {p}
    <3>1. CASE i = 1
      BY <3>1, <2>2
    <3>2. CASE i # 1
      <4>1. PICK k \in 1 .. Len(r) : i = k + 1
        <5>1. i - 1 \in 1 .. Len(r) /\ i = (i - 1) + 1
          BY <3>2, <2>3
        <5> QED
          BY <5>1
      <4> QED
        BY <4>1, <2>2, <2>3 DEF Procs
    <3> QED
      BY <3>1, <3>2
  <2> QED
    BY <2>4 DEF Procs, s
<1> QED
  BY <1>1, <1>2, <1>3

(* A request that takes the place of some queued ones, with a new process in it. *)
LEMMA NewRequest ==
  ASSUME IInv, req = <<>>, NEW p \in Proc, io[p] = Idle,
         \A x \in Proc \ {p} : io'[x] = io[x], UNCHANGED <<req, stuck>>,
         NEW old, old \subseteq queue, NEW s \in Seq(Proc), queue' = old \cup {s},
         Request(s)', Procs(s) \cap stuck = {}, \A q \in old : Procs(q) \cap Procs(s) = {}
  PROVE  QueueInv'
<1>1. /\ Requests = queue /\ Requests' = queue' /\ queue \subseteq Seq(Proc)
      /\ stuck' = stuck /\ req' = <<>> /\ stuck \subseteq Proc
  BY DEF Requests, IInv, TypeOK
<1>2. ASSUME NEW q \in old PROVE Request(q)' /\ Procs(q) \cap stuck = {}
  <2>1. q \in Seq(Proc) /\ Request(q) /\ Procs(q) \cap stuck = {}
    BY <1>1 DEF IInv, QueueInv
  <2>2. p \notin Procs(q)
    BY <2>1, IdleInNoRequest DEF IInv
  <2>3. \A i \in DOMAIN q : io'[q[i]] = io[q[i]]
    BY <2>1, <2>2 DEF Procs
  <2> QED
    BY <2>1, <2>3, RequestFrame
<1>3. \A r \in queue' : Request(r)' /\ Procs(r) \cap stuck = {}
  BY <1>2
<1>4. \A r1, r2 \in queue' : r1 # r2 => Procs(r1) \cap Procs(r2) = {}
  <2>1. \A r1, r2 \in queue : r1 # r2 => Procs(r1) \cap Procs(r2) = {}
    BY <1>1 DEF IInv, QueueInv
  <2> QED
    BY <2>1
<1>5. \A x \in stuck : io'[x] # Idle
  BY <1>1 DEF IInv, QueueInv
<1> QED
  BY <1>1, <1>3, <1>4, <1>5 DEF QueueInv

(* submit_bio keeps the requests well formed and apart from each other. *)
LEMMA SubmitQueue ==
  ASSUME IInv, NEW p \in Proc, NEW c \in CmdTypes, NEW d \in {"read", "write"},
         NEW pos \in 0 .. Capacity, NEW n \in 1 .. MaxLen, submit_bio(p, c, d, pos, n)
  PROVE  QueueInv'
<1>1. /\ req = <<>> /\ io[p] = Idle /\ UNCHANGED <<req, stuck>>
      /\ \A x \in Proc \ {p} : io'[x] = io[x]
  BY DEF submit_bio, IInv, AddrInv, TypeOK
<1>2. /\ io'[p].dir = d /\ io'[p].pos = pos /\ io'[p].n = n
      /\ pos + n <= Capacity /\ n > 0
  BY RamDiskAssumption DEF submit_bio, Accepted, IInv, TypeOK
<1>3. p \notin stuck /\ Requests = queue
  BY <1>1 DEF IInv, QueueInv, Requests
<1>4. TypeOK'
  BY SubmitType
<1>5. ASSUME NEW r \in queue
      PROVE  /\ r \in Seq(Proc) /\ Request(r) /\ p \notin Procs(r) /\ Procs(r) \cap stuck = {}
             /\ \A i \in DOMAIN r : io'[r[i]] = io[r[i]]
             /\ \A q \in queue \ {r} : Procs(q) \cap Procs(r) = {}
  <2>1. r \in Seq(Proc) /\ Request(r) /\ Procs(r) \cap stuck = {}
        /\ \A q \in queue \ {r} : Procs(q) \cap Procs(r) = {}
    BY <1>3 DEF IInv, TypeOK, QueueInv
  <2>2. p \notin Procs(r)
    BY <2>1, <1>1, IdleInNoRequest DEF IInv
  <2>3. \A i \in DOMAIN r : io'[r[i]] = io[r[i]]
    BY <2>1, <2>2, <1>1 DEF Procs
  <2> QED
    BY <2>1, <2>2, <2>3
<1>6. CASE queue' = queue \cup {<<p>>}
  <2>1. Request(<<p>>)'
    BY <1>2 DEF Request
  <2>2. <<p>> \in Seq(Proc) /\ Procs(<<p>>) = {p}
    BY DEF Procs
  <2> DEFINE s == <<p>>
  <2>3. s \in Seq(Proc) /\ Request(s)' /\ queue' = queue \cup {s} /\ Procs(s) = {p}
    BY <1>6, <2>1, <2>2
  <2> HIDE DEF s
  <2>4. Procs(s) \cap stuck = {} /\ \A q \in queue : Procs(q) \cap Procs(s) = {}
    BY <2>3, <1>3, <1>5
  <2> QED
    BY <1>1, <2>3, <2>4, NewRequest
<1>7. ASSUME NEW r \in queue, First(r).dir = d, pos = RqPos(r) + RqSectors(r),
             queue' = (queue \ {r}) \cup {Append(r, p)}
      PROVE  QueueInv'
  <2> DEFINE s == Append(r, p)
  <2>1. Request(s)'
    BY <1>2, <1>4, <1>5, <1>7, BackMerge DEF IInv
  <2>2. s \in Seq(Proc) /\ Procs(s) \subseteq Procs(r) \cup {p}
    <3>1. r \in Seq(Proc)
      BY <1>5
    <3>2. Append(r, p) \in Seq(Proc)
      BY <3>1
    <3>3. Procs(Append(r, p)) \subseteq Procs(r) \cup {p}
      BY <3>1, ProcsMerge
    <3> QED
      BY <3>2, <3>3
  <2> HIDE DEF s
  <2>3. Procs(s) \cap stuck = {} /\ \A q \in queue \ {r} : Procs(q) \cap Procs(s) = {}
    BY <2>2, <1>3, <1>5
  <2>4. queue' = (queue \ {r}) \cup {s}
    BY <1>7 DEF s
  <2> QED
    BY <1>1, <2>1, <2>2, <2>3, <2>4, NewRequest
<1>8. ASSUME NEW r \in queue, First(r).dir = d, pos + n = RqPos(r),
             queue' = (queue \ {r}) \cup {<<p>> \o r}
      PROVE  QueueInv'
  <2> DEFINE s == <<p>> \o r
  <2>1. Request(s)'
    BY <1>2, <1>4, <1>5, <1>8, FrontMerge DEF IInv
  <2>2. s \in Seq(Proc) /\ Procs(s) \subseteq Procs(r) \cup {p}
    <3>1. <<p>> \in Seq(Proc)
      OBVIOUS
    <3> QED
      BY <3>1, <1>5, ProcsMerge, ConcatProperties
  <2> HIDE DEF s
  <2>3. Procs(s) \cap stuck = {} /\ \A q \in queue \ {r} : Procs(q) \cap Procs(s) = {}
    BY <2>2, <1>3, <1>5
  <2>4. queue' = (queue \ {r}) \cup {s}
    BY <1>8 DEF s
  <2> QED
    BY <1>1, <2>1, <2>2, <2>3, <2>4, NewRequest
<1> QED
  BY <1>6, <1>7, <1>8 DEF submit_bio

(* Fetching, copying and ending requests keeps the others as they are. *)
LEMMA OtherQueue ==
  ASSUME IInv, run_queue \/ sbd_request \/ copy_segment \/ end_request \/ UNCHANGED vars
  PROVE  QueueInv'
<1>1. CASE UNCHANGED <<io, queue, req, stuck>>
  BY <1>1 DEF IInv, QueueInv, Requests, Request
<1>2. CASE sbd_request
  <2>1. ASSUME NEW r \in queue, queue' = queue \ {r},
               IF First(r).cmd # "FS" THEN EndNothing(r) ELSE do_actual_req(r),
               UNCHANGED <<lock, io>>
        PROVE  QueueInv'
    <3>1. req = <<>> /\ Requests = queue /\ r # <<>> /\ r \in Seq(Proc)
      BY <1>2 DEF sbd_request, IInv, QueueInv, Requests, Request, TypeOK
    <3>2. \A q \in queue : Request(q)' /\ Procs(q) \cap stuck = {}
      BY <3>1, <2>1 DEF IInv, QueueInv, Request
    <3>3. \A r1, r2 \in queue : r1 # r2 => Procs(r1) \cap Procs(r2) = {}
      BY <3>1 DEF IInv, QueueInv
    <3>4. CASE EndNothing(r)
      <4>1. req' = <<>> /\ Requests' = queue \ {r} /\ stuck' = stuck \cup Procs(r)
        BY <3>1, <3>4, <2>1 DEF EndNothing, Requests
      <4>2. \A x \in Procs(r) : io[x] # Idle
        BY <3>1 DEF IInv, QueueInv, Request, Procs, Idle
      <4>3. \A x \in stuck' : io'[x] # Idle
        BY <4>1, <4>2, <2>1 DEF IInv, QueueInv
      <4> QED
        BY <3>2, <3>3, <4>1, <4>3 DEF QueueInv
    <3>5. CASE ~ EndNothing(r)
      <4>1. req' = r /\ stuck' = stuck
        BY <2>1, <3>5 DEF do_actual_req
      <4>2. Requests' = queue
        BY <4>1, <3>1, <2>1 DEF Requests
      <4>3. \A x \in stuck' : io'[x] # Idle
        BY <4>1, <2>1 DEF IInv, QueueInv
      <4> QED
        BY <3>2, <3>3, <4>1, <4>2, <4>3, <2>1 DEF QueueInv
    <3> QED
      BY <3>4, <3>5
  <2> QED
    BY <1>1, <1>2, <2>1 DEF sbd_request
<1>3. CASE end_request
  <2>1. /\ req # <<>> /\ req' = <<>> /\ UNCHANGED <<queue, stuck>>
        /\ io' = [p \in Proc |-> IF p \in Procs(req) THEN Idle ELSE io[p]]
    BY <1>3 DEF end_request
  <2>2. Requests = queue \cup {req} /\ Requests' = queue /\ req \notin queue
        /\ queue \subseteq Seq(Proc) /\ stuck \subseteq Proc
    BY <2>1 DEF Requests, IInv, QueueInv, TypeOK
  <2>3. \A q \in queue : Request(q) /\ Procs(q) \cap stuck = {} /\ Procs(q) \cap Procs(req) = {}
    BY <2>2 DEF IInv, QueueInv
  <2>4. ASSUME NEW q \in queue PROVE Request(q)'
    <3>1. \A i \in DOMAIN q : io'[q[i]] = io[q[i]]
      BY <2>1, <2>2, <2>3 DEF Procs
    <3> QED
      BY <3>1, <2>2, <2>3, RequestFrame
  <2>5. \A x \in stuck' : io'[x] # Idle
    BY <2>1, <2>2 DEF IInv, QueueInv
  <2>6. \A r1, r2 \in queue : r1 # r2 => Procs(r1) \cap Procs(r2) = {}
    BY <2>2 DEF IInv, QueueInv
  <2> QED
    BY <2>1, <2>2, <2>3, <2>4, <2>5, <2>6 DEF QueueInv
<1> QED
  BY <1>1, <1>2, <1>3 DEF run_queue, copy_segment, vars

(* do_actual_req's addr starts at the first transfer and follows the others. *)
LEMMA StepAddr ==
  ASSUME IInv, [Next]_vars
  PROVE  AddrInv'
<1>1. CASE req' = <<>>
  BY <1>1 DEF AddrInv
<1>2. CASE req' # <<>> /\ UNCHANGED <<io, lock, req, seg, addr>>
  BY <1>2 DEF IInv, AddrInv, BeyondLimit, RqPos, RqSectors, First, Last
<1>3. ASSUME NEW p \in Proc, NEW c \in CmdTypes, NEW d \in {"read", "write"},
             NEW pos \in 0 .. Capacity, NEW n \in 1 .. MaxLen, submit_bio(p, c, d, pos, n)
      PROVE  req' = <<>>
  BY <1>3 DEF submit_bio, IInv, AddrInv
<1>4. CASE run_queue
  <2>1. req' = <<>>
    BY <1>4 DEF run_queue, IInv, AddrInv
  <2> QED
    BY <1>1, <2>1
<1>5. CASE sbd_request
  <2>1. ASSUME NEW r \in queue, IF First(r).cmd # "FS" THEN EndNothing(r) ELSE do_actual_req(r),
               UNCHANGED <<lock, io>>
        PROVE  AddrInv'
    <3>1. req = <<>> /\ lock /\ lock' = lock /\ io' = io
      BY <1>5, <2>1 DEF sbd_request
    <3>2. CASE EndNothing(r)
      BY <3>1, <3>2, <1>1 DEF EndNothing
    <3>3. CASE ~ EndNothing(r)
      <4>1. /\ ~ BeyondLimit(r) /\ req' = r /\ seg' = 1
            /\ addr' = RqPos(r) * KERNEL_SECTOR_SIZE
        BY <2>1, <3>3 DEF do_actual_req
      <4>2. ~ BeyondLimit(req)'
        BY <4>1, <3>1 DEF BeyondLimit, RqPos, RqSectors, First, Last
      <4>3. addr' = io'[req'[seg']].pos * KERNEL_SECTOR_SIZE
        BY <4>1, <3>1 DEF RqPos, First
      <4>4. Len(r) \in Nat /\ seg' <= Len(r) + 1
        BY <4>1 DEF IInv, TypeOK
      <4> QED
        BY <4>1, <4>2, <4>3, <4>4, <3>1 DEF AddrInv
    <3> QED
      BY <3>2, <3>3
  <2> QED
    BY <1>1, <1>2, <1>5, <2>1 DEF sbd_request
<1>6. CASE copy_segment
  <2>1. /\ req # <<>> /\ seg <= Len(req) /\ memcpy(req[seg]) /\ seg' = seg + 1
        /\ io' = io /\ lock' = lock /\ req' = req
    BY <1>6 DEF copy_segment
  <2>2. req \in Seq(Proc) /\ seg \in DOMAIN req /\ Len(req) \in Nat /\ DOMAIN req = 1 .. Len(req)
    BY <2>1 DEF IInv, TypeOK
  <2>3. lock' /\ ~ BeyondLimit(req)'
    BY <2>1 DEF IInv, AddrInv, BeyondLimit, RqPos, RqSectors, First, Last
  <2>4. seg' <= Len(req') + 1
    BY <2>1, <2>2
  <2>5. ASSUME seg' <= Len(req') PROVE addr' = io'[req'[seg']].pos * KERNEL_SECTOR_SIZE
    <3>1. PICK p \in Proc, q \in Proc : p = req[seg] /\ q = req[seg + 1]
      BY <2>1, <2>2, <2>5
    <3>2. Request(req)
      BY <2>1 DEF IInv, QueueInv, Requests
    <3>3. io[q].pos = io[p].pos + io[p].n
      <4>1. PICK k \in DOMAIN req : k = seg + 1
        BY <2>1, <2>2, <2>5
      <4>2. k > 1 /\ k - 1 = seg
        BY <4>1, <2>2
      <4> QED
        BY <4>1, <4>2, <3>1, <3>2 DEF Request
    <3>4. addr = io[p].pos * KERNEL_SECTOR_SIZE
      BY <2>1, <3>1 DEF IInv, AddrInv
    <3>5. addr' = addr + io[p].n * KERNEL_SECTOR_SIZE
      BY <2>1, <3>1 DEF memcpy, Bytes
    <3>6. (io[p].pos + io[p].n) * KERNEL_SECTOR_SIZE
            = io[p].pos * KERNEL_SECTOR_SIZE + io[p].n * KERNEL_SECTOR_SIZE
      BY IoType, Products, RamDiskAssumption DEF IInv
    <3>7. addr' = io[q].pos * KERNEL_SECTOR_SIZE
      BY <3>3, <3>4, <3>5, <3>6
    <3> QED
      BY <3>7, <3>1, <2>1
  <2> QED
    BY <2>3, <2>4, <2>5 DEF AddrInv
<1>7. CASE end_request
  BY <1>1, <1>7 DEF end_request
<1>8. CASE UNCHANGED vars
  BY <1>1, <1>2, <1>8 DEF vars
<1> QED
  BY <1>1, <1>3, <1>4, <1>5, <1>6, <1>7, <1>8 DEF Next

(* Every step of the driver and the block layer keeps the invariant. *)
LEMMA StepIInv == IInv /\ [Next]_vars => IInv'
<1> SUFFICES ASSUME IInv, [Next]_vars PROVE IInv'
  OBVIOUS
<1>1. AddrInv'
  BY StepAddr
<1>2. ASSUME NEW p \in Proc, NEW c \in CmdTypes, NEW d \in {"read", "write"},
             NEW pos \in 0 .. Capacity, NEW n \in 1 .. MaxLen, submit_bio(p, c, d, pos, n)
      PROVE  TypeOK' /\ QueueInv'
  BY <1>2, SubmitType, SubmitQueue
<1>3. CASE copy_segment
  BY <1>1, <1>3, CopyType, OtherQueue DEF IInv
<1>4. CASE run_queue \/ sbd_request \/ end_request \/ UNCHANGED vars
  BY <1>1, <1>4, OtherType, OtherQueue DEF IInv
<1> QED
  BY <1>1, <1>2, <1>3, <1>4 DEF Next, IInv

(* Requests stay sequences of adjacent transfers, no transfer is in two      *)
(* places, and do_actual_req's addr keeps step with the transfers it copies, *)
(* for any number of processes and any geometry.                             *)
THEOREM DiskInvariance == Spec => []IInv
<1>1. Init => IInv
  BY InitIInv
<1>2. IInv /\ [Next]_vars => IInv'
  BY StepIInv
<1> QED
  BY <1>1, <1>2, PTL DEF Spec

(* No memcpy of do_actual_req leaves Device.data, for all nsectors and       *)
(* hardsect_size whose product fits an int.                                  *)
THEOREM DiskCopiesInside == Spec => []CopiesInsideDevice
<1>1. IInv => CopiesInsideDevice
  <2> SUFFICES ASSUME IInv, req # <<>>, seg <= Len(req)
               PROVE  addr >= 0 /\ addr + Bytes(req[seg]) <= DeviceSize
    BY DEF CopiesInsideDevice
  <2>1. /\ addr = Base(req[seg]) /\ addr \in Nat
        /\ Base(req[seg]) + Bytes(req[seg]) <= DeviceSize
    BY CurrentCopy
  <2>2. addr + Bytes(req[seg]) <= DeviceSize
    BY <2>1, Zenon
  <2>3. addr >= 0
    BY <2>1
  <2> QED
    BY <2>2, <2>3
<1> QED
  BY <1>1, DiskInvariance, PTL


------------------------------------------------------------------------------
(* The refinement mapping: transfers in bytes, and those that took effect. *)
Transfer(p) == [dir |-> io[p].dir, pos |-> Base(p), n |-> Bytes(p)]
Mapped == [p \in Proc |-> Transfer(p)]
Copied == {req[i] : i \in {j \in DOMAIN req : j < seg}}

(* A transfer within the capacity lies within the memory, in bytes. *)
LEMMA CapacityFits ==
  ASSUME NEW pos \in Nat, NEW n \in Nat, pos + n <= Capacity
  PROVE  pos * KERNEL_SECTOR_SIZE \in 0 .. DeviceSize /\ n * KERNEL_SECTOR_SIZE \in 0 .. DeviceSize
<1> DEFINE k == KERNEL_SECTOR_SIZE
           q == hardsect_size \div KERNEL_SECTOR_SIZE
<1>1. k \in Nat /\ q \in Nat /\ nsectors \in Nat /\ hardsect_size \in Nat
  BY RamDiskAssumption
<1>2. q * k <= hardsect_size
  BY RamDiskAssumption
<1>3. Capacity = nsectors * q /\ Capacity \in Nat
  BY Sizes DEF Capacity
<1>4. (q * k) * nsectors <= hardsect_size * nsectors
  <2>1. q * k \in Nat
    BY <1>1, Products
  <2> HIDE DEF q, k
  <2> QED
    BY <1>1, <1>2, <2>1, Products
<1> HIDE DEF q, k
<1>5. (q * k) * nsectors = (nsectors * q) * k /\ hardsect_size * nsectors = nsectors * hardsect_size
  BY <1>1
<1>6. Capacity * k <= DeviceSize
  BY <1>3, <1>4, <1>5 DEF DeviceSize
<1>7. /\ pos * k <= Capacity * k /\ n * k <= Capacity * k
      /\ pos * k \in Nat /\ n * k \in Nat /\ Capacity * k \in Nat
  BY <1>1, <1>3, Products
<1>8. pos * k \in 0 .. DeviceSize /\ n * k \in 0 .. DeviceSize
  BY <1>6, <1>7, Sizes
<1> QED
  BY <1>8 DEF k

(* submit_bio is the abstract disk's Submit. *)
LEMMA SubmitRefines ==
  ASSUME IInv, NEW p \in Proc, NEW c \in CmdTypes, NEW d \in {"read", "write"},
         NEW pos \in 0 .. Capacity, NEW n \in 1 .. MaxLen, submit_bio(p, c, d, pos, n)
  PROVE  AD!Next
<1> DEFINE b == pos * KERNEL_SECTOR_SIZE
           l == n * KERNEL_SECTOR_SIZE
<1>1. pos \in Nat /\ n \in Nat /\ pos + n <= Capacity
  BY Sizes, RamDiskAssumption DEF submit_bio, Accepted
<1>2. b \in 0 .. DeviceSize /\ l \in 0 .. DeviceSize
  BY <1>1, CapacityFits
<1>3. Transfer(p) = AD!Idle
  <2>1. io[p].dir = "none" /\ io[p].pos = 0 /\ io[p].n = 0
    BY DEF submit_bio, Idle
  <2>2. Base(p) = 0 /\ Bytes(p) = 0
    BY <2>1, RamDiskAssumption DEF Base, Bytes
  <2> QED
    BY <2>1, <2>2 DEF Transfer, AD!Idle
<1>4. Mapped' = [Mapped EXCEPT ![p] = [dir |-> d, pos |-> b, n |-> l]]
  <2>1. io \in [Proc -> [cmd : CmdTypes \cup {"FS"}, dir : {"read", "write", "none"},
                         pos : 0 .. Capacity, n : 0 .. MaxLen]]
    BY DEF IInv, TypeOK
  <2>2. io' = [io EXCEPT ![p] = [cmd |-> c, dir |-> d, pos |-> pos, n |-> n]]
    BY DEF submit_bio
  <2>3. Transfer(p)' = [dir |-> d, pos |-> b, n |-> l]
    BY <2>1, <2>2 DEF Transfer, Base, Bytes
  <2>4. ASSUME NEW x \in Proc, x # p PROVE Transfer(x)' = Transfer(x)
    BY <2>1, <2>2, <2>4 DEF Transfer, Base, Bytes
  <2> HIDE DEF b, l
  <2> QED
    BY <2>3, <2>4 DEF Mapped
<1>5. \E m \in AD!Disk : mem' = [mem EXCEPT ![p] = m]
  <2>1. PICK m \in Pages(p, d, pos, n) : mem' = [mem EXCEPT ![p] = m]
    BY DEF submit_bio
  <2>2. mem[p] \in Disk
    BY DEF IInv, TypeOK
  <2>3. m \in Disk
    BY <2>2 DEF Pages
  <2> QED
    BY <2>1, <2>3 DEF AD!Disk, AD!Addr, Disk, Addr
<1>6. data' = data /\ Copied' = Copied
  BY DEF submit_bio, Copied
<1>7. Mapped[p] = AD!Idle
  BY <1>3 DEF Mapped
<1> HIDE DEF b, l
<1>8. AD!Submit(p, d, b, l)
  BY <1>4, <1>5, <1>6, <1>7 DEF AD!Submit, Mapped, Copied, Transfer
<1> QED
  BY <1>2, <1>8 DEF AD!Next

(* A turn of do_actual_req's loops is one transfer of the abstract disk. *)
LEMMA CopyRefines ==
  ASSUME IInv, copy_segment
  PROVE  AD!Next
<1>1. /\ req # <<>> /\ seg <= Len(req) /\ memcpy(req[seg]) /\ seg' = seg + 1
      /\ io' = io /\ req' = req
  BY DEF copy_segment
<1>2. req \in Seq(Proc) /\ seg \in DOMAIN req /\ DOMAIN req = 1 .. Len(req) /\ Len(req) \in Nat /\ seg \in Nat
  BY <1>1 DEF IInv, TypeOK
<1>3. PICK p \in Proc : p = req[seg]
  BY <1>2
<1>4. addr = Base(p) /\ Base(p) \in Nat /\ Bytes(p) \in Nat
  BY <1>1, <1>3, CurrentCopy
<1>5. Request(req)
  BY <1>1 DEF IInv, QueueInv, Requests
<1>6. p \notin Copied
  BY <1>2, <1>3, <1>5 DEF Request, Copied
<1>7. Copied' = Copied \cup {p}
  BY <1>1, <1>2, <1>3 DEF Copied
<1>8. Mapped' = Mapped
  BY <1>1 DEF Mapped, Transfer, Base, Bytes
<1>9. Mapped[p].dir = io[p].dir /\ Mapped[p].pos = Base(p) /\ Mapped[p].n = Bytes(p)
  BY DEF Mapped, Transfer
<1>10. \A a \in Addr : a \in Int /\ a - addr + Base(p) = a /\ a - Base(p) + addr = a
  <2>1. \A a \in Addr : a \in Int
    BY Sizes DEF Addr
  <2> QED
    BY <2>1, <1>4
<1>11. AD!Addr = Addr
  BY DEF AD!Addr, Addr
<1>12. CASE io[p].dir = "write"
  <2>1. /\ data' = [a \in Addr |-> IF addr <= a /\ a < addr + Bytes(p)
                                   THEN mem[p][a - addr + Base(p)] ELSE data[a]]
        /\ mem' = mem
    BY <1>1, <1>3, <1>12 DEF memcpy
  <2>2. data' = [a \in Addr |-> IF Base(p) <= a /\ a < Base(p) + Bytes(p) THEN mem[p][a] ELSE data[a]]
    BY <2>1, <1>4, <1>10
  <2>3. AD!Write(p)
    BY <2>1, <2>2, <1>6, <1>7, <1>8, <1>9, <1>11, <1>12 DEF AD!Write, AD!InRange, Mapped, Copied, Transfer
  <2> QED
    BY <2>3 DEF AD!Next
<1>13. CASE io[p].dir = "read"
  <2>1. /\ mem' = [mem EXCEPT ![p] = [o \in Addr |->
                     IF Base(p) <= o /\ o < Base(p) + Bytes(p)
                     THEN data[o - Base(p) + addr] ELSE mem[p][o]]]
        /\ data' = data
    BY <1>1, <1>3, <1>13 DEF memcpy
  <2>2. mem' = [mem EXCEPT ![p] = [o \in Addr |->
                  IF Base(p) <= o /\ o < Base(p) + Bytes(p) THEN data[o] ELSE mem[p][o]]]
    BY <2>1, <1>4, <1>10
  <2>3. AD!Read(p)
    BY <2>1, <2>2, <1>6, <1>7, <1>8, <1>9, <1>11, <1>13 DEF AD!Read, AD!InRange, Mapped, Copied, Transfer
  <2> QED
    BY <2>3 DEF AD!Next
<1>14. io[p].dir \in {"read", "write"}
  <2>1. io[p].dir \in {"read", "write", "none"}
    BY DEF IInv, TypeOK
  <2>2. io[p].dir # "none"
    BY <1>2, <1>3, <1>5 DEF Request
  <2> QED
    BY <2>1, <2>2
<1> QED
  BY <1>12, <1>13, <1>14

(* __blk_end_request completes the transfers of the request, all of which took effect. *)
LEMMA EndRefines ==
  ASSUME IInv, end_request
  PROVE  AD!Next
<1>1. /\ req # <<>> /\ seg > Len(req) /\ req' = <<>>
      /\ io' = [p \in Proc |-> IF p \in Procs(req) THEN Idle ELSE io[p]]
      /\ data' = data /\ mem' = mem
  BY DEF end_request
<1>2. req \in Seq(Proc) /\ DOMAIN req = 1 .. Len(req) /\ Len(req) \in Nat /\ seg \in Nat
  BY DEF IInv, TypeOK
<1>3. Copied = Procs(req)
  BY <1>1, <1>2 DEF Copied, Procs
<1>4. Copied' = {}
  <2>1. DOMAIN req' = {}
    BY <1>1
  <2> QED
    BY <2>1 DEF Copied
<1>5. Copied \in SUBSET Proc
  BY <1>2, <1>3 DEF Procs
<1>6. ASSUME NEW p \in Proc PROVE Transfer(p)' = IF p \in Copied THEN AD!Idle ELSE Transfer(p)
  <2>1. CASE p \in Copied
    <3>1. io'[p] = Idle
      BY <1>1, <1>3, <2>1
    <3>2. io'[p].dir = "none" /\ io'[p].pos = 0 /\ io'[p].n = 0
      BY <3>1 DEF Idle
    <3>3. Base(p)' = 0 /\ Bytes(p)' = 0
      BY <3>2, RamDiskAssumption DEF Base, Bytes
    <3> QED
      BY <2>1, <3>2, <3>3 DEF Transfer, AD!Idle
  <2>2. CASE p \notin Copied
    BY <1>1, <1>3, <2>2 DEF Transfer, Base, Bytes
  <2> QED
    BY <2>1, <2>2
<1>7. Mapped' = [p \in Proc |-> IF p \in Copied THEN AD!Idle ELSE Mapped[p]]
  BY <1>6 DEF Mapped
<1>8. PICK S \in SUBSET Proc : S = Copied
  BY <1>5
<1>9. /\ Mapped' = [p \in Proc |-> IF p \in S THEN AD!Idle ELSE Mapped[p]]
      /\ Copied' = Copied \ S /\ S \subseteq Copied
  BY <1>4, <1>7, <1>8
<1>10. AD!Complete(S)
  BY <1>1, <1>9 DEF AD!Complete, Mapped, Copied, Transfer
<1> QED
  BY <1>10 DEF AD!Next

(* Running the queue and fetching a request are invisible: nothing of it is copied yet. *)
LEMMA FetchRefines ==
  ASSUME IInv, run_queue \/ sbd_request \/ UNCHANGED vars
  PROVE  UNCHANGED AD!advars
<1>1. data' = data /\ io' = io /\ mem' = mem
  BY DEF run_queue, sbd_request, vars
<1>2. Mapped' = Mapped
  BY <1>1 DEF Mapped, Transfer, Base, Bytes
<1>3. Copied' = Copied
  <2>1. CASE UNCHANGED <<req, seg>>
    BY <2>1 DEF Copied
  <2>2. CASE req = <<>> /\ req' \in queue /\ seg' = 1
    <3>1. req' \in Seq(Proc)
      BY <2>2 DEF IInv, TypeOK
    <3>2. \A j \in DOMAIN req' : ~ (j < seg')
      BY <3>1, <2>2
    <3>3. Copied' = {}
      BY <3>2 DEF Copied
    <3>4. DOMAIN req = {}
      BY <2>2
    <3>5. Copied = {}
      BY <3>4 DEF Copied
    <3> QED
      BY <3>3, <3>5
  <2>3. sbd_request => UNCHANGED <<req, seg>> \/ (req = <<>> /\ req' \in queue /\ seg' = 1)
    BY DEF sbd_request, do_actual_req, EndNothing
  <2> QED
    BY <2>1, <2>2, <2>3 DEF run_queue, vars
<1> QED
  BY <1>1, <1>2, <1>3 DEF AD!advars, Mapped, Copied, Transfer

(* The driver implements the abstract disk: each transfer takes effect at    *)
(* one instant between its submission and its end, on exactly its own bytes, *)
(* however the block layer merged and ordered the requests, for any number   *)
(* of processes, any geometry and any contents.                              *)
THEOREM DiskRefinement == Spec => ImplementsDisk
<1>1. Init => AD!Init
  <2> SUFFICES ASSUME Init PROVE AD!Init
    OBVIOUS
  <2>1. data \in AD!Disk /\ mem \in [Proc -> AD!Disk]
    BY RamDiskAssumption DEF Init, AD!Disk, AD!Addr, Addr
  <2>2. ASSUME NEW p \in Proc PROVE Transfer(p) = AD!Idle
    <3>1. io[p].dir = "none" /\ io[p].pos = 0 /\ io[p].n = 0
      BY DEF Init, Idle
    <3>2. Base(p) = 0 /\ Bytes(p) = 0
      BY <3>1, RamDiskAssumption DEF Base, Bytes
    <3> QED
      BY <3>1, <3>2 DEF Transfer, AD!Idle
  <2>3. Mapped = [p \in Proc |-> AD!Idle]
    BY <2>2 DEF Mapped
  <2>4. DOMAIN req = {}
    BY DEF Init
  <2>5. Copied = {}
    BY <2>4 DEF Copied
  <2> QED
    BY <2>1, <2>3, <2>5 DEF AD!Init, Mapped, Copied, Transfer
<1>2. IInv /\ [Next]_vars => [AD!Next]_(AD!advars)
  BY SubmitRefines, CopyRefines, EndRefines, FetchRefines DEF Next
<1> QED
  BY <1>1, <1>2, DiskInvariance, PTL DEF Spec, ImplementsDisk


-------------------------------------------------------------------------------
(* Transfers that are given up. *)

(* A step leaves the transfers that were given up as they are: their process *)
(* submits nothing and they are in no request that can end.                  *)
LEMMA StuckStay ==
  ASSUME IInv, [Next]_vars
  PROVE  \A p \in stuck : p \in stuck' /\ io[p] # Idle /\ io'[p] = io[p]
<1>1. \A p \in stuck : p \in Proc /\ io[p] # Idle
  BY DEF IInv, TypeOK, QueueInv
<1>2. ASSUME NEW p \in Proc, NEW c \in CmdTypes, NEW d \in {"read", "write"},
             NEW pos \in 0 .. Capacity, NEW n \in 1 .. MaxLen, submit_bio(p, c, d, pos, n)
      PROVE  \A x \in stuck : x \in stuck' /\ io'[x] = io[x]
  <2>1. p \notin stuck /\ stuck' = stuck
    BY <1>1, <1>2 DEF submit_bio
  <2> QED
    BY <1>1, <1>2, <2>1 DEF submit_bio, IInv, TypeOK
<1>3. CASE sbd_request
  BY <1>1, <1>3 DEF sbd_request, EndNothing, do_actual_req
<1>4. CASE end_request
  <2>1. req \in Requests /\ Procs(req) \cap stuck = {}
    BY <1>4 DEF end_request, IInv, QueueInv, Requests
  <2> QED
    BY <1>1, <1>4, <2>1 DEF end_request
<1>5. CASE run_queue \/ copy_segment \/ UNCHANGED vars
  BY <1>1, <1>5 DEF run_queue, copy_segment, vars
<1> QED
  BY <1>1, <1>2, <1>3, <1>4, <1>5 DEF Next

(* A transfer joins a request only of its own kind. *)
LEMMA SubmitCmd ==
  ASSUME IInv, CmdInv, NEW p \in Proc, NEW c \in CmdTypes, NEW d \in {"read", "write"},
         NEW pos \in 0 .. Capacity, NEW n \in 1 .. MaxLen, submit_bio(p, c, d, pos, n)
  PROVE  CmdInv'
<1>1. /\ req = <<>> /\ req' = <<>> /\ io[p] = Idle /\ io'[p].cmd = c
      /\ \A x \in Proc \ {p} : io'[x] = io[x]
  BY DEF submit_bio, IInv, AddrInv, TypeOK
<1>2. Requests = queue /\ Requests' = queue'
  BY <1>1 DEF Requests
<1>3. ASSUME NEW r \in queue
      PROVE  /\ r \in Seq(Proc) /\ 1 \in DOMAIN r /\ OneKind(r) /\ OneKind(r)'
             /\ \A k \in DOMAIN r : r[k] # p /\ io'[r[k]] = io[r[k]]
  <2>1. r \in Seq(Proc) /\ Request(r) /\ OneKind(r)
    BY <1>2 DEF IInv, TypeOK, QueueInv, CmdInv
  <2>2. 1 \in DOMAIN r
    BY <2>1 DEF Request
  <2>3. p \notin Procs(r)
    BY <1>1, <2>1, IdleInNoRequest DEF IInv
  <2>4. \A k \in DOMAIN r : r[k] # p /\ io'[r[k]] = io[r[k]]
    BY <1>1, <2>1, <2>3 DEF Procs
  <2> QED
    BY <2>1, <2>2, <2>4 DEF OneKind, First
<1>4. CASE queue' = queue \cup {<<p>>}
  <2>1. OneKind(<<p>>)'
    BY DEF OneKind, First
  <2> QED
    BY <1>2, <1>3, <1>4, <2>1 DEF CmdInv
<1>5. ASSUME NEW r \in queue, c = "FS", First(r).cmd = "FS",
             queue' = (queue \ {r}) \cup {Append(r, p)}
      PROVE  CmdInv'
  <2>1. \A k \in DOMAIN r : io'[r[k]].cmd = "FS"
    BY <1>3, <1>5 DEF OneKind
  <2>2. r \in Seq(Proc) /\ 1 \in DOMAIN r
    BY <1>3
  <2>3. \A k \in DOMAIN Append(r, p) : io'[Append(r, p)[k]].cmd = "FS"
    BY <1>1, <1>5, <2>1, <2>2
  <2>4. 1 \in DOMAIN Append(r, p)
    BY <2>2
  <2>5. OneKind(Append(r, p))'
    BY <2>3, <2>4 DEF OneKind, First
  <2> QED
    BY <1>2, <1>3, <1>5, <2>5 DEF CmdInv
<1>6. ASSUME NEW r \in queue, c = "FS", First(r).cmd = "FS",
             queue' = (queue \ {r}) \cup {<<p>> \o r}
      PROVE  CmdInv'
  <2>1. \A k \in DOMAIN r : io'[r[k]].cmd = "FS"
    BY <1>3, <1>6 DEF OneKind
  <2>2. r \in Seq(Proc) /\ <<p>> \in Seq(Proc)
    BY <1>3
  <2> DEFINE s == <<p>> \o r
  <2>3. Len(s) = Len(r) + 1 /\ s[1] = p /\ \A k \in 1 .. Len(r) : s[k + 1] = r[k]
    BY <2>2
  <2>4. s \in Seq(Proc)
    BY <2>2, ConcatProperties
  <2> HIDE DEF s
  <2>5. ASSUME NEW k \in DOMAIN s PROVE io'[s[k]].cmd = "FS"
    <3>1. CASE k = 1
      BY <1>1, <1>6, <2>3, <3>1
    <3>2. CASE k # 1
      <4>1. k - 1 \in 1 .. Len(r) /\ k = (k - 1) + 1 /\ 1 .. Len(r) = DOMAIN r
        BY <2>2, <2>3, <2>4, <3>2
      <4>2. s[k] = r[k - 1]
        BY <2>3, <4>1
      <4> QED
        BY <2>1, <4>1, <4>2
    <3> QED
      BY <3>1, <3>2
  <2>6. 1 \in DOMAIN s
    BY <2>2, <2>3, <2>4
  <2>7. OneKind(s)'
    BY <2>5, <2>6 DEF OneKind, First
  <2>8. queue' = (queue \ {r}) \cup {s}
    BY <1>6 DEF s
  <2> QED
    BY <1>2, <1>3, <2>7, <2>8 DEF CmdInv
<1> QED
  BY <1>4, <1>5, <1>6 DEF submit_bio

(* Serving requests does not change the transfers of the others. *)
LEMMA OtherCmd ==
  ASSUME IInv, CmdInv, run_queue \/ sbd_request \/ copy_segment \/ end_request \/ UNCHANGED vars
  PROVE  CmdInv'
<1>1. CASE UNCHANGED io /\ Requests' \subseteq Requests
  BY <1>1 DEF CmdInv, OneKind, First
<1>2. CASE run_queue \/ copy_segment \/ UNCHANGED vars
  BY <1>1, <1>2 DEF run_queue, copy_segment, vars, Requests
<1>3. CASE sbd_request
  <2>1. UNCHANGED io /\ req = <<>> /\ queue' \subseteq queue /\ (req' = <<>> \/ req' \in queue)
    BY <1>3 DEF sbd_request, EndNothing, do_actual_req
  <2> QED
    BY <1>1, <2>1 DEF Requests
<1>4. CASE end_request
  <2>1. Requests = queue \cup {req} /\ Requests' = queue /\ req \notin queue
    BY <1>4 DEF end_request, Requests, IInv, QueueInv
  <2>2. ASSUME NEW r \in queue PROVE OneKind(r)'
    <3>1. r \in Seq(Proc) /\ Request(r) /\ OneKind(r) /\ Procs(r) \cap Procs(req) = {}
      BY <2>1 DEF IInv, TypeOK, QueueInv, CmdInv
    <3>2. \A k \in DOMAIN r : io'[r[k]] = io[r[k]]
      BY <1>4, <3>1 DEF end_request, Procs
    <3>3. 1 \in DOMAIN r
      BY <3>1 DEF Request
    <3> QED
      BY <3>1, <3>2, <3>3 DEF OneKind, First
  <2> QED
    BY <2>1, <2>2 DEF CmdInv
<1> QED
  BY <1>2, <1>3, <1>4

(* What was let in lies within the capacity, and the limit test asks for no more. *)
LEMMA WithinLimit ==
  ASSUME IInv, Capacity <= nsectors, NEW r \in Requests
  PROVE  ~ BeyondLimit(r)
<1>1. r \in Seq(Proc) /\ Request(r)
  BY DEF IInv, TypeOK, QueueInv, Requests
<1>2. 1 \in DOMAIN r /\ Len(r) \in DOMAIN r
  BY <1>1 DEF Request
<1>3. /\ io[r[1]].pos \in Nat /\ io[r[1]].n \in Nat
      /\ io[r[Len(r)]].pos \in Nat /\ io[r[Len(r)]].n \in Nat
  BY <1>1, <1>2, IoType DEF IInv
<1>4. /\ io[r[1]].pos + io[r[1]].n <= Capacity
      /\ io[r[Len(r)]].pos + io[r[Len(r)]].n <= Capacity
  BY <1>1, <1>2 DEF Request
<1>5. nsectors \in Nat /\ Capacity \in Nat
  BY Sizes, RamDiskAssumption
<1>6. RqPos(r) = io[r[1]].pos
  BY DEF RqPos, First
<1>7. RqPos(r) + RqSectors(r) = io[r[Len(r)]].pos + io[r[Len(r)]].n
  BY <1>3 DEF RqPos, RqSectors, First, Last
<1>8. RqPos(r) <= nsectors
  BY <1>3, <1>4, <1>5, <1>6
<1>9. RqPos(r) + RqSectors(r) <= nsectors
  BY <1>3, <1>4, <1>5, <1>7
<1> QED
  BY <1>3, <1>5, <1>6, <1>7, <1>8, <1>9 DEF BeyondLimit

(* So only what is not a file system request is given up. *)
LEMMA StepRefused ==
  ASSUME IInv, CmdInv, NothingRefused, [Next]_vars
  PROVE  NothingRefused'
<1> SUFFICES ASSUME Capacity <= nsectors, NEW p \in stuck', p \notin stuck
             PROVE  io'[p].cmd # "FS"
  BY StuckStay DEF NothingRefused
<1>1. sbd_request
  BY DEF Next, submit_bio, run_queue, copy_segment, end_request, vars
<1>2. PICK r \in queue : /\ IF First(r).cmd # "FS" THEN EndNothing(r) ELSE do_actual_req(r)
                         /\ p \in Procs(r) /\ io' = io
  BY <1>1 DEF sbd_request, EndNothing, do_actual_req
<1>3. r \in Requests
  BY DEF Requests
<1>4. First(r).cmd # "FS"
  BY <1>2, <1>3, WithinLimit DEF do_actual_req
<1>5. OneKind(r)
  BY <1>3 DEF CmdInv
<1> QED
  BY <1>2, <1>4, <1>5 DEF OneKind, Procs

(* With any geometry and any number of processes, a transfer that            *)
(* __blk_end_request(req, 0, 0) has given up never ends.                     *)
THEOREM StuckTheorem == Spec => StuckForever
<1>1. IInv /\ [Next]_vars =>
        [\A p \in stuck : p \in stuck' /\ io[p] # Idle /\ io'[p] = io[p]]_vars
  BY StuckStay
<1> QED
  BY <1>1, DiskInvariance, PTL DEF Spec, StuckForever

(* With a capacity of at most nsectors, as with the default hardsect_size,   *)
(* the limit test of do_actual_req gives up no file system request.          *)
THEOREM RefusalTheorem == Spec => []NothingRefused
<1>1. Init => CmdInv /\ NothingRefused
  BY DEF Init, CmdInv, NothingRefused, Requests
<1>2. IInv /\ CmdInv /\ NothingRefused /\ [Next]_vars => CmdInv' /\ NothingRefused'
  <2> SUFFICES ASSUME IInv, CmdInv, NothingRefused, [Next]_vars
               PROVE  CmdInv' /\ NothingRefused'
    OBVIOUS
  <2>1. NothingRefused'
    BY StepRefused
  <2>2. CmdInv'
    BY SubmitCmd, OtherCmd DEF Next
  <2> QED
    BY <2>1, <2>2
<1> QED
  BY <1>1, <1>2, DiskInvariance, PTL DEF Spec
===============================================================================
