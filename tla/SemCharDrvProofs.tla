--------------------------- MODULE SemCharDrvProofs ---------------------------
(***************************************************************************)
(* Proofs about ex7 for every set of processes, every pair of buffer sizes *)
(* and every set of request lengths: the semaphore admits one process, and *)
(* the driver implements AtomicBuffer.                                     *)
(***************************************************************************)
EXTENDS SemCharDrv, TLAPS

(* Clamping a request never exceeds the request nor buffer_len. *)
LEMMA LenType ==
  ASSUME count \in [Proc -> Nat], NEW p \in Proc
  PROVE  len(p) \in Nat /\ len(p) <= buffer_len
BY CharDrvAssumption DEF len

(* The zero fill of a faulting copy yields a buffer image. *)
LEMMA PaddedType ==
  ASSUME buffer \in Image, NEW p \in Proc
  PROVE  Padded(p) \in Image
BY CharDrvAssumption DEF Padded, Image

(* The memory a read starts from is a buffer image. *)
LEMMA BlankType == Blank \in Image
BY CharDrvAssumption DEF Blank, Image, Off

(* What down() and up() do to a binary semaphore. *)
LEMMA SemTaken ==
  ASSUME NEW s \in BinarySem, s.count = 1
  PROVE  /\ Taken(s) \in BinarySem
         /\ Taken(s).count = 0 /\ Taken(s).wait_list = s.wait_list
BY DEF Taken, BinarySem

(* down() on a semaphore that is taken: the caller joins the sleepers. *)
LEMMA SemQueued ==
  ASSUME NEW s \in BinarySem, NEW p \in Proc
  PROVE  /\ Queued(s, p) \in BinarySem
         /\ Queued(s, p).count = s.count /\ Queued(s, p).wait_list = Append(s.wait_list, p)
BY DEF Queued, BinarySem

(* up(): the unit goes to the first sleeper, or back to the count. *)
LEMMA SemReleased ==
  ASSUME NEW s \in BinarySem, s.count = 0
  PROVE  /\ Released(s) \in BinarySem
         /\ s.wait_list = <<>> => Released(s).count = 1 /\ Released(s).wait_list = <<>>
         /\ s.wait_list # <<>> => /\ Released(s).count = 0
                                 /\ Released(s).wait_list = Tail(s.wait_list)
<1>1. CASE s.wait_list = <<>>
  BY <1>1 DEF Released, BinarySem
<1>2. CASE s.wait_list # <<>>
  <2>1. Tail(s.wait_list) \in Seq(Proc)
    BY <1>2 DEF BinarySem
  <2> QED
    BY <1>2, <2>1 DEF Released, BinarySem
<1> QED
  BY <1>1, <1>2

(* The driver's initial state satisfies the inductive invariant. *)
LEMMA InitIInv == Init => IInv
<1> SUFFICES ASSUME Init PROVE IInv
  OBVIOUS
<1>1. TypeOK
  BY BlankType, CharDrvAssumption DEF Init, CallInit, TypeOK, BinarySem, sema_init
<1>2. LockInv
  BY DEF Init, CallInit, LockInv, sema_init, Holding
<1>3. CopyInv
  BY DEF Init, CallInit, CopyInv, Holding
<1> QED
  BY <1>1, <1>2, <1>3 DEF IInv

-------------------------------------------------------------------------------
(* Every step of every handler keeps the variables in their types. *)
LEMMA NextTypeOK == TypeOK /\ LockInv /\ [Next]_vars => TypeOK'
<1> SUFFICES ASSUME TypeOK, LockInv, [Next]_vars PROVE TypeOK'
  OBVIOUS
<1> USE CharDrvAssumption
<1>1. CASE UNCHANGED vars
  BY <1>1 DEF TypeOK, vars, callvars
<1>2. ASSUME NEW p \in Proc, Enter(p) PROVE TypeOK'
  BY <1>2, BlankType DEF Enter, Call, TypeOK
<1>3. ASSUME NEW p \in Proc, down(p) PROVE TypeOK'
  <2>0. sem \in BinarySem /\ (Available(sem) <=> sem.count = 1)
    BY DEF TypeOK, BinarySem, Available
  <2>1. sem' \in BinarySem
    BY <1>3, <2>0, SemTaken, SemQueued DEF down
  <2> QED
    BY <1>3, <2>1 DEF down, TypeOK
<1>4. ASSUME NEW p \in Proc, up(p) PROVE TypeOK'
  <2>1. sem' \in BinarySem
    <3>1. sem.count = 0
      BY <1>4 DEF up, TypeOK, BinarySem, LockInv, Holding
    <3> QED
      BY <1>4, <3>1, SemReleased DEF up, TypeOK
  <2> QED
    BY <1>4, <2>1 DEF up, TypeOK
<1>5. ASSUME NEW p \in Proc, copy_to_user(p, "up"), UNCHANGED <<sem, stable>> PROVE TypeOK'
  <2>1. CASE idx[p] < len(p) /\ idx[p] < kmalloc_size /\ idx' = [idx EXCEPT ![p] = @ + 1]
             /\ ubuf' = [ubuf EXCEPT ![p] = [@ EXCEPT ![idx[p]] = buffer[idx[p]]]]
             /\ UNCHANGED pc
    <3>1. idx[p] \in Off
      BY <2>1 DEF TypeOK, Off
    <3>2. [ubuf[p] EXCEPT ![idx[p]] = buffer[idx[p]]] \in Image
      BY <3>1 DEF TypeOK, Image
    <3>3. ubuf' \in [Proc -> Image]
      BY <2>1, <3>2 DEF TypeOK
    <3> QED
      BY <1>5, <2>1, <3>3 DEF copy_to_user, TypeOK
  <2>2. CASE UNCHANGED <<ubuf, idx>>
    BY <1>5, <2>2 DEF copy_to_user, TypeOK
  <2> QED
    BY <1>5, <2>1, <2>2 DEF copy_to_user
<1>6. ASSUME NEW p \in Proc, copy_from_user(p, "up"), UNCHANGED <<sem, stable>> PROVE TypeOK'
  <2>1. CASE /\ idx[p] < kmalloc_size /\ idx' = [idx EXCEPT ![p] = @ + 1]
             /\ buffer' = [buffer EXCEPT ![idx[p]] = ubuf[p][idx[p]]] /\ UNCHANGED pc
    <3>1. idx[p] \in Off /\ ubuf[p] \in Image
      BY <2>1 DEF TypeOK, Off
    <3>2. buffer' \in Image
      BY <2>1, <3>1 DEF TypeOK, Image
    <3>3. idx' \in [Proc -> 0 .. kmalloc_size]
      BY <2>1 DEF TypeOK
    <3> QED
      BY <1>6, <2>1, <3>2, <3>3 DEF copy_from_user, TypeOK
  <2>2. CASE UNCHANGED idx
    BY <1>6, <2>2, PaddedType DEF copy_from_user, TypeOK
  <2> QED
    BY <1>6, <2>1, <2>2 DEF copy_from_user
<1> QED
  BY <1>1, <1>2, <1>3, <1>4, <1>5, <1>6 DEF Next, sample_char_drv_read, sample_char_drv_write
-------------------------------------------------------------------------------
(* At most one process is between down and up, and only sleepers are queued. *)
LEMMA NextLockInv == TypeOK /\ LockInv /\ [Next]_vars => LockInv'
<1> SUFFICES ASSUME TypeOK, LockInv, [Next]_vars PROVE LockInv'
  OBVIOUS
<1> DEFINE wl == sem.wait_list
<1>0. wl \in Seq(Proc) /\ DOMAIN wl = 1 .. Len(wl) /\ Len(wl) \in Nat
  BY DEF TypeOK, BinarySem
<1>1. CASE UNCHANGED <<pc, sem>>
  BY <1>1 DEF LockInv, vars, callvars
<1>2. ASSUME NEW p \in Proc, Enter(p) PROVE LockInv'
  BY <1>2, <1>0 DEF Enter, Call, TypeOK, LockInv, Holding
<1>3. ASSUME NEW p \in Proc, down(p) PROVE LockInv'
  <2>1. CASE Available(sem)
    <3>1. sem'.count = 0 /\ sem'.wait_list = wl /\ sem.count = 1
      BY <1>3, <2>1, SemTaken DEF down, TypeOK, BinarySem, Available
    <3> QED
      BY <1>3, <2>1, <3>1, <1>0 DEF down, TypeOK, LockInv, Holding
  <2>2. CASE ~ Available(sem)
    <3>0. sem \in BinarySem /\ sem.count = 0 /\ sem' = Queued(sem, p)
      BY <1>3, <2>2 DEF down, TypeOK, BinarySem, Available
    <3>1. sem'.count = 0 /\ sem'.wait_list = Append(wl, p)
      BY <3>0, SemQueued
    <3>2. pc' = [pc EXCEPT ![p] = "asleep"] /\ pc[p] = "down"
      BY <1>3, <2>2 DEF down
    <3>3. \A i \in DOMAIN sem'.wait_list : pc'[sem'.wait_list[i]] = "asleep"
      BY <3>1, <3>2, <1>0 DEF TypeOK, LockInv
    <3>4. \A i, j \in DOMAIN sem'.wait_list : i # j => sem'.wait_list[i] # sem'.wait_list[j]
      BY <3>1, <3>2, <1>0 DEF TypeOK, LockInv
    <3>5. \A q, r \in Proc : pc'[q] \in Holding /\ pc'[r] \in Holding => q = r
      BY <3>2 DEF TypeOK, LockInv, Holding
    <3> QED
      BY <3>1, <3>3, <3>4, <3>5 DEF LockInv
  <2> QED
    BY <2>1, <2>2
<1>4. ASSUME NEW p \in Proc, up(p) PROVE LockInv'
  <2>1. sem.count = 0 /\ pc[p] = "up"
    BY <1>4 DEF up, TypeOK, BinarySem, LockInv, Holding
  <2>2. pc' = [q \in Proc |-> IF q = p THEN "user" ELSE IF IsNext(sem, q) THEN "copy" ELSE pc[q]]
    BY <1>4 DEF up
  <2>3. CASE wl = <<>>
    <3>1. sem'.count = 1 /\ sem'.wait_list = <<>>
      BY <1>4, <2>1, <2>3, SemReleased DEF up, TypeOK
    <3>2. \A q \in Proc : pc'[q] \notin Holding
      BY <2>1, <2>2, <2>3 DEF IsNext, LockInv, Holding
    <3> QED
      BY <3>1, <3>2 DEF LockInv
  <2>4. CASE wl # <<>>
    <3>1. sem'.count = 0 /\ sem'.wait_list = Tail(wl)
      BY <1>4, <2>1, <2>4, SemReleased DEF up, TypeOK
    <3>2. Head(wl) = wl[1] /\ 1 \in DOMAIN wl /\ Head(wl) \in Proc /\ pc[Head(wl)] = "asleep"
      BY <2>4, <1>0 DEF LockInv
    <3>3. \A q \in Proc : pc'[q] \in Holding => q = Head(wl)
      BY <2>1, <2>2 DEF IsNext, LockInv, Holding
    <3>4. /\ DOMAIN Tail(wl) = 1 .. Len(wl) - 1
          /\ \A i \in DOMAIN Tail(wl) : Tail(wl)[i] = wl[i + 1] /\ i + 1 \in DOMAIN wl /\ i + 1 # 1
      BY <2>4, <1>0
    <3>5. \A i \in DOMAIN Tail(wl) : pc'[Tail(wl)[i]] = "asleep"
      <4> TAKE i \in DOMAIN Tail(wl)
      <4>1. Tail(wl)[i] \in Proc /\ pc[Tail(wl)[i]] = "asleep" /\ Tail(wl)[i] # Head(wl)
        BY <3>4, <3>2, <1>0 DEF LockInv
      <4> QED
        BY <4>1, <2>1, <2>2 DEF IsNext
    <3>6. \A i, j \in DOMAIN Tail(wl) : i # j => Tail(wl)[i] # Tail(wl)[j]
      BY <3>4, <1>0 DEF LockInv
    <3> QED
      BY <3>1, <3>3, <3>5, <3>6 DEF LockInv
  <2> QED
    BY <2>3, <2>4
<1>5. ASSUME NEW p \in Proc, copy_to_user(p, "up") \/ copy_from_user(p, "up"),
             UNCHANGED <<sem, stable>>
      PROVE  LockInv'
  <2>1. pc[p] = "copy" /\ (UNCHANGED pc \/ pc' = [pc EXCEPT ![p] = "up"]
                                       \/ pc' = [pc EXCEPT ![p] = "oob"])
    BY <1>5 DEF copy_to_user, copy_from_user
  <2> QED
    BY <1>5, <2>1, <1>0 DEF TypeOK, LockInv, Holding
<1> QED
  BY <1>1, <1>2, <1>3, <1>4, <1>5
  DEF Next, vars, callvars, sample_char_drv_read, sample_char_drv_write
-------------------------------------------------------------------------------
(* How one step of a copy moves the image that CopyInv describes. *)
LEMMA OverlayNothing ==
  ASSUME NEW base \in Image, NEW img
  PROVE  AB!Overlay(base, img, 0, 0) = base
BY CharDrvAssumption DEF AB!Overlay, Image, Off, AB!Off

(* Copying byte k extends the prefix of k bytes by one. *)
LEMMA OverlayByte ==
  ASSUME NEW base, NEW img, NEW k \in Off
  PROVE  AB!Overlay(base, img, k + 1, 0) = [AB!Overlay(base, img, k, 0) EXCEPT ![k] = img[k]]
<1>1. \A o \in AB!Off : (o < k + 1 <=> o < k \/ o = k) /\ ~ (o < 0)
  BY CharDrvAssumption DEF Off, AB!Off
<1> QED
  BY <1>1 DEF AB!Overlay

(* The zero fill of a copy_from_user that faults after k bytes. *)
LEMMA OverlayPadded ==
  ASSUME NEW p \in Proc, NEW base, NEW img, TypeOK, idx[p] <= len(p),
         buffer = AB!Overlay(base, img, idx[p], 0)
  PROVE  Padded(p) = AB!Overlay(base, img, idx[p], len(p))
<1>1. len(p) \in Nat /\ idx[p] \in Nat
  BY LenType, CharDrvAssumption DEF TypeOK
<1> QED
  BY <1>1, CharDrvAssumption DEF Padded, AB!Overlay, Off, AB!Off

(* The process that runs between down and up finds the buffer as CopyInv says. *)
LEMMA NextCopyInv == IInv /\ [Next]_vars => CopyInv'
<1> SUFFICES ASSUME TypeOK, LockInv, CopyInv, [Next]_vars PROVE CopyInv'
  BY DEF IInv
<1> USE CharDrvAssumption
<1>1. CASE UNCHANGED vars
  BY <1>1 DEF CopyInv, vars, callvars, len, AB!Overlay
<1>2. ASSUME NEW p \in Proc, Enter(p) PROVE CopyInv'
  <2>1. UNCHANGED <<buffer, stable>> /\ pc[p] = "user"
    BY <1>2 DEF Enter, Call
  <2>2. /\ pc'[p] = "down" /\ idx'[p] = 0 /\ (op'[p] = "read" => ubuf'[p] = Blank)
        /\ \A q \in Proc : q # p => /\ pc'[q] = pc[q] /\ op'[q] = op[q] /\ count'[q] = count[q]
                                   /\ ubuf'[q] = ubuf[q] /\ idx'[q] = idx[q]
    BY <1>2 DEF Enter, Call, TypeOK
  <2>3. \A q \in Proc : q # p => len(q)' = len(q)
    BY <2>2 DEF len
  <2> QED
    BY <2>1, <2>2, <2>3 DEF CopyInv, Holding, AB!Overlay
<1>3. ASSUME NEW p \in Proc, down(p) PROVE CopyInv'
  <2>1. UNCHANGED <<buffer, op, count, ubuf, idx, stable>> /\ pc[p] = "down"
    BY <1>3 DEF down
  <2>2. \A q \in Proc : len(q)' = len(q)
    BY <2>1 DEF len
  <2>3. CASE pc' = [pc EXCEPT ![p] = "copy"] /\ sem.count = 1
    <3>1. buffer = stable
      BY <2>3 DEF LockInv, CopyInv
    <3>2. \A q \in Proc : pc'[q] \in Holding => q = p
      BY <2>3 DEF LockInv, TypeOK
    <3>3. idx[p] = 0 /\ 0 <= len(p) /\ (op[p] = "read" => ubuf[p] = Blank)
      BY <2>1, LenType DEF CopyInv, TypeOK
    <3>4. AB!Overlay(Blank, stable, 0, 0) = Blank /\ AB!Overlay(stable, ubuf[p], 0, 0) = stable
      BY OverlayNothing, BlankType DEF TypeOK
    <3> QED
      BY <2>1, <2>2, <2>3, <3>1, <3>2, <3>3, <3>4 DEF CopyInv, TypeOK, AB!Overlay
  <2>4. CASE pc' = [pc EXCEPT ![p] = "asleep"]
    BY <2>1, <2>2, <2>4 DEF CopyInv, Holding, TypeOK, AB!Overlay
  <2> QED
    BY <1>3, <2>3, <2>4 DEF down, Available, TypeOK, BinarySem
<1>4. ASSUME NEW p \in Proc, up(p) PROVE CopyInv'
  <2>1. UNCHANGED <<buffer, op, count, ubuf, idx>> /\ stable' = buffer /\ pc[p] = "up"
    BY <1>4 DEF up
  <2>2. \A q \in Proc : len(q)' = len(q) /\ len(q) \in Nat
    BY <2>1, LenType DEF len, TypeOK
  <2>3. ASSUME NEW q \in Proc
        PROVE  /\ pc'[q] \in Holding => pc'[q] = "copy" /\ pc[q] = "asleep"
               /\ pc'[q] \in {"down", "asleep"} => pc[q] \in {"down", "asleep"}
    <3>1. IsNext(sem, q) => pc[q] = "asleep"
      BY DEF IsNext, LockInv, TypeOK, BinarySem
    <3>2. q # p => pc[q] \notin Holding
      BY <2>1 DEF LockInv, Holding
    <3> QED
      BY <1>4, <3>1, <3>2 DEF up, Holding, TypeOK
  <2>4. \A q \in Proc : pc[q] \in {"down", "asleep"} =>
          idx[q] = 0 /\ (op[q] = "read" => ubuf[q] = Blank)
    BY DEF CopyInv
  <2>5. ASSUME NEW q \in Proc, pc'[q] \in Holding
        PROVE  /\ idx[q] = 0 /\ (op[q] = "read" => ubuf[q] = Blank)
               /\ AB!Overlay(Blank, buffer, idx[q], 0) = Blank
               /\ AB!Overlay(buffer, ubuf[q], idx[q], 0) = buffer
    <3>1. idx[q] = 0 /\ (op[q] = "read" => ubuf[q] = Blank)
      BY <2>3, <2>4, <2>5
    <3>2. AB!Overlay(Blank, buffer, 0, 0) = Blank /\ AB!Overlay(buffer, ubuf[q], 0, 0) = buffer
      BY OverlayNothing, BlankType DEF TypeOK
    <3> QED
      BY <3>1, <3>2
  <2>6. \A q \in Proc : pc'[q] \in {"down", "asleep"} =>
          idx[q] = 0 /\ (op[q] = "read" => ubuf[q] = Blank)
    BY <2>3, <2>4
  <2>7. \A q \in Proc : pc'[q] # "up"
    BY <2>3 DEF Holding
  <2> QED
    <3>1. \A q \in Proc : pc'[q] \in Holding /\ op'[q] = "read" =>
            ubuf'[q] = AB!Overlay(Blank, stable, idx[q], 0)'
      BY <2>1, <2>5 DEF AB!Overlay
    <3>2. \A q \in Proc : pc'[q] = "copy" /\ op'[q] = "write" =>
            buffer' = AB!Overlay(stable, ubuf[q], idx[q], 0)'
      BY <2>1, <2>5 DEF AB!Overlay, Holding
    <3>3. \A q \in Proc : pc'[q] \in Holding => idx'[q] <= len(q)'
      BY <2>1, <2>2, <2>5
    <3> QED
      BY <2>1, <2>6, <2>7, <3>1, <3>2, <3>3 DEF CopyInv
<1>5. ASSUME NEW p \in Proc, op[p] = "read", copy_to_user(p, "up"), UNCHANGED <<sem, stable>>
      PROVE  CopyInv'
  <2>1. UNCHANGED <<buffer, op, count, stable>> /\ pc[p] = "copy"
    BY <1>5 DEF copy_to_user
  <2>2. \A q \in Proc : len(q)' = len(q)
    BY <2>1 DEF len
  <2>3. \A q \in Proc : q # p => pc[q] \notin Holding
    BY <2>1 DEF LockInv, Holding
  <2>4. buffer = stable /\ ubuf[p] = AB!Overlay(Blank, stable, idx[p], 0) /\ idx[p] <= len(p)
    BY <2>1, <2>3, <1>5 DEF CopyInv, Holding
  <2>5. CASE /\ UNCHANGED pc /\ idx[p] < len(p) /\ idx[p] < kmalloc_size
             /\ ubuf' = [ubuf EXCEPT ![p] = [@ EXCEPT ![idx[p]] = buffer[idx[p]]]]
             /\ idx' = [idx EXCEPT ![p] = @ + 1]
    <3>1. idx[p] \in Off
      BY <2>5 DEF TypeOK, Off
    <3>2. ubuf'[p] = AB!Overlay(Blank, stable, idx[p] + 1, 0)
      BY <2>4, <2>5, <3>1, OverlayByte DEF TypeOK
    <3>3. idx'[p] = idx[p] + 1 /\ idx'[p] <= len(p)
      BY <2>5, <3>1, LenType DEF TypeOK, Off
    <3>4. \A q \in Proc : q # p => idx'[q] = idx[q] /\ ubuf'[q] = ubuf[q]
      BY <2>5 DEF TypeOK
    <3> QED
      BY <1>5, <2>1, <2>2, <2>3, <2>4, <2>5, <3>2, <3>3, <3>4 DEF CopyInv, AB!Overlay, Holding
  <2>6. CASE UNCHANGED <<ubuf, idx>> /\ (pc' = [pc EXCEPT ![p] = "up"] \/ pc' = [pc EXCEPT ![p] = "oob"])
    BY <1>5, <2>1, <2>2, <2>3, <2>4, <2>6 DEF CopyInv, AB!Overlay, Holding, TypeOK
  <2> QED
    BY <1>5, <2>5, <2>6 DEF copy_to_user
<1>6. ASSUME NEW p \in Proc, op[p] = "write", copy_from_user(p, "up"), UNCHANGED <<sem, stable>>
      PROVE  CopyInv'
  <2>1. UNCHANGED <<op, count, ubuf, stable>> /\ pc[p] = "copy"
    BY <1>6 DEF copy_from_user
  <2>2. \A q \in Proc : len(q)' = len(q)
    BY <2>1 DEF len
  <2>3. \A q \in Proc : q # p => pc[q] \notin Holding
    BY <2>1 DEF LockInv, Holding
  <2>4. buffer = AB!Overlay(stable, ubuf[p], idx[p], 0) /\ idx[p] <= len(p)
    BY <2>1, <1>6 DEF CopyInv, Holding
  <2>5. CASE /\ UNCHANGED pc /\ idx[p] < len(p) /\ idx[p] < kmalloc_size
             /\ buffer' = [buffer EXCEPT ![idx[p]] = ubuf[p][idx[p]]]
             /\ idx' = [idx EXCEPT ![p] = @ + 1]
    <3>1. idx[p] \in Off
      BY <2>5 DEF TypeOK, Off
    <3>2. buffer' = AB!Overlay(stable, ubuf[p], idx[p] + 1, 0)
      BY <2>4, <2>5, <3>1, OverlayByte
    <3>3. idx'[p] = idx[p] + 1 /\ idx'[p] <= len(p)
      BY <2>5, <3>1, LenType DEF TypeOK, Off
    <3>4. \A q \in Proc : q # p => idx'[q] = idx[q]
      BY <2>5 DEF TypeOK
    <3> QED
      <4>1. buffer' = AB!Overlay(stable, ubuf[p], idx[p], 0)'
        BY <2>1, <3>2, <3>3 DEF AB!Overlay
      <4>2. \A q \in Proc : pc'[q] \in Holding => q = p /\ pc'[q] = "copy" /\ op'[q] = "write"
        BY <1>6, <2>1, <2>3, <2>5
      <4>3. \A q \in Proc : pc'[q] \in {"down", "asleep"} => q # p /\ pc[q] \in {"down", "asleep"}
        BY <2>1, <2>5
      <4>4. pc'[p] \in Holding
        BY <2>1, <2>5 DEF Holding
      <4>5. \A q \in Proc : pc'[q] \in {"down", "asleep"} =>
              idx'[q] = 0 /\ (op'[q] = "read" => ubuf'[q] = Blank)
        BY <2>1, <3>4, <4>3 DEF CopyInv
      <4> QED
        BY <2>2, <3>3, <4>1, <4>2, <4>4, <4>5 DEF CopyInv, Holding
  <2>6. CASE /\ UNCHANGED idx /\ pc' = [pc EXCEPT ![p] = "up"]
             /\ len(p) <= kmalloc_size /\ buffer' = Padded(p)
    <3>1. buffer' = AB!Overlay(stable, ubuf[p], idx[p], len(p))
      BY <2>4, <2>6, OverlayPadded
    <3> QED
      BY <1>6, <2>1, <2>2, <2>3, <2>4, <2>6, <3>1 DEF CopyInv, AB!Overlay, Holding, TypeOK
  <2>7. CASE UNCHANGED <<buffer, idx>> /\ pc' = [pc EXCEPT ![p] = "oob"]
    BY <1>6, <2>1, <2>2, <2>3, <2>4, <2>7 DEF CopyInv, AB!Overlay, Holding, TypeOK
  <2> QED
    BY <1>6, <2>5, <2>6, <2>7 DEF copy_from_user
<1> QED
  BY <1>1, <1>2, <1>3, <1>4, <1>5, <1>6 DEF Next, sample_char_drv_read, sample_char_drv_write

(* IInv is inductive, so every reachable state of ex7 satisfies it: one      *)
(* process at a time is between down and up, and it alone touches buffer.    *)
THEOREM Invariance == Spec => []IInv
<1>1. IInv /\ [Next]_vars => IInv'
  BY NextTypeOK, NextLockInv, NextCopyInv DEF IInv
<1> QED
  BY InitIInv, <1>1, PTL DEF Spec

(* While one process is between down and up no other process is. *)
COROLLARY Exclusion == Spec => []LockInv
BY Invariance, PTL DEF IInv
-------------------------------------------------------------------------------
(* AtomicBuffer and the driver have the same images. *)
LEMMA SameDefs == AB!Off = Off /\ AB!Image = Image /\ AB!Blank = Blank
BY DEF AB!Off, AB!Image, AB!Blank, Off, Image, Blank

(* The initial states of ex7 are initial states of AtomicBuffer. *)
LEMMA RefineInit == Init => AB!Init
BY SameDefs, BlankType DEF Init, CallInit, AB!Init, AB!NoResult

(* Entering a handler is AtomicBuffer's Invoke; everything up to the up() is *)
(* a stutter; the up() is the instant at which the call takes effect.        *)
LEMMA RefineNext == IInv /\ [Next]_vars => [AB!Next]_(AB!abvars)
<1> SUFFICES ASSUME TypeOK, LockInv, CopyInv, [Next]_vars PROVE [AB!Next]_(AB!abvars)
  BY DEF IInv
<1> USE CharDrvAssumption
<1>1. CASE UNCHANGED vars
  BY <1>1 DEF vars, callvars, AB!abvars
<1>2. ASSUME NEW p \in Proc, Enter(p) PROVE AB!Next
  <2>1. PICK o \in {"read", "write"}, n \in Counts, d \in Image : Call(p, o, n, d, "down")
    BY <1>2 DEF Enter
  <2>2. AB!Invoke(p, o, n, d)
    BY <1>2, <2>1, SameDefs DEF Enter, Call, TypeOK, AB!Invoke, AB!NoResult
  <2> QED
    BY <2>1, <2>2, SameDefs DEF AB!Next
<1>3. ASSUME NEW p \in Proc, down(p) PROVE UNCHANGED AB!abvars
  BY <1>3 DEF down, TypeOK, AB!abvars
<1>4. ASSUME NEW p \in Proc, op[p] = "read", copy_to_user(p, "up"), UNCHANGED <<sem, stable>>
      PROVE  UNCHANGED AB!abvars
  BY <1>4 DEF copy_to_user, TypeOK, AB!abvars
<1>5. ASSUME NEW p \in Proc, op[p] = "write", copy_from_user(p, "up"), UNCHANGED <<sem, stable>>
      PROVE  UNCHANGED AB!abvars
  BY <1>5 DEF copy_from_user, TypeOK, AB!abvars
<1>6. ASSUME NEW p \in Proc, up(p) PROVE AB!Next
  <2>1. UNCHANGED <<buffer, op, count, ubuf, idx>> /\ stable' = buffer /\ pc[p] = "up"
    BY <1>6 DEF up
  <2>2. pc'[p] = "user" /\ \A q \in Proc : q # p => (pc'[q] = "user" <=> pc[q] = "user")
    <3>1. \A q \in Proc : IsNext(sem, q) => pc[q] = "asleep"
      BY DEF IsNext, LockInv, TypeOK, BinarySem
    <3> QED
      BY <1>6, <3>1 DEF up, TypeOK
  <2>3. \A q \in Proc : q # p => pc[q] \notin Holding
    BY <2>1 DEF LockInv, Holding
  <2>4. idx[p] \in 0 .. kmalloc_size /\ idx[p] <= len(p) /\ AB!Limit(p) = len(p)
    BY <2>1 DEF TypeOK, CopyInv, Holding, AB!Limit, len
  <2>5. AB!Finish(p, idx[p], ubuf[p])
    BY <2>1, <2>2, SameDefs DEF AB!Finish, TypeOK
  <2>6. CASE op[p] = "read"
    <3>1. buffer = stable /\ ubuf[p] = AB!Overlay(AB!Blank, stable, idx[p], 0)
      BY <2>1, <2>3, <2>6, SameDefs DEF CopyInv, Holding
    <3>0. AB!Finish(p, idx[p], AB!Overlay(AB!Blank, stable, idx[p], 0))
      BY <2>5, <3>1 DEF AB!Finish
    <3>2. \E k \in 0 .. kmalloc_size :
            /\ k <= AB!Limit(p)
            /\ AB!Finish(p, k, AB!Overlay(AB!Blank, stable, k, 0))
      BY <2>4, <3>0 DEF AB!Finish
    <3>3. AB!Read(p)
      BY <2>1, <2>6, <3>1, <3>2 DEF AB!Read, AB!Finish
    <3> QED
      BY <3>3 DEF AB!Next
  <2>7. CASE op[p] = "write"
    <3>1. len(p) <= kmalloc_size /\ buffer = AB!Overlay(stable, ubuf[p], idx[p], len(p))
      BY <2>1, <2>7 DEF CopyInv
    <3> DEFINE arg == [q \in Proc |-> IF pc[q] # "user" /\ op[q] = "write" THEN ubuf[q] ELSE Blank]
    <3>2. arg[p] = ubuf[p]
      BY <2>1, <2>7
    <3>3. AB!Finish(p, idx[p], arg[p]) /\ stable' = AB!Overlay(stable, arg[p], idx[p], AB!Limit(p))
      BY <2>1, <2>4, <2>5, <3>1, <3>2 DEF AB!Finish
    <3>4. \E k \in 0 .. kmalloc_size :
            /\ k <= AB!Limit(p)
            /\ stable' = AB!Overlay(stable, arg[p], k, AB!Limit(p))
            /\ AB!Finish(p, k, arg[p])
      <4> HIDE DEF arg
      <4>1. PICK k \in 0 .. kmalloc_size : k = idx[p]
        BY <2>4
      <4>2. /\ k <= AB!Limit(p)
            /\ stable' = AB!Overlay(stable, arg[p], k, AB!Limit(p))
        BY <2>4, <3>3, <4>1
      <4>3. AB!Finish(p, k, arg[p])
        BY <3>3, <4>1 DEF AB!Finish
      <4> QED
        BY <4>2, <4>3, Zenon
    <3>5. AB!Write(p)
      BY <2>1, <2>4, <2>7, <3>1, <3>4 DEF AB!Write, AB!Finish
    <3> QED
      BY <3>5 DEF AB!Next
  <2> QED
    BY <2>6, <2>7 DEF TypeOK
<1> QED
  BY <1>1, <1>2, <1>3, <1>4, <1>5, <1>6 DEF Next, sample_char_drv_read, sample_char_drv_write

(* ex7 implements AtomicBuffer: each read and each write, however the calls  *)
(* of however many processes interleave, takes effect at one instant.        *)
THEOREM Refinement == Spec => Linearizable
BY RefineInit, RefineNext, Invariance, PTL DEF Spec, Linearizable, AB!Spec
-------------------------------------------------------------------------------
(* No request is longer than the object the buffer points to. *)
CountsFit == \A n \in Counts : n <= kmalloc_size

InBounds == \A p \in Proc : pc[p] # "oob" /\ count[p] <= kmalloc_size

(* As long as user programs ask for at most kmalloc_size bytes (test.c asks  *)
(* for 60 of 208) no copy of ex7 leaves the object, although the handlers    *)
(* clamp to buffer_len.                                                      *)
THEOREM NoOverrun == ASSUME CountsFit PROVE Spec => []InBounds
<1>1. Init => InBounds
  <2> SUFFICES ASSUME CallInit, NEW p \in Proc PROVE pc[p] # "oob" /\ count[p] <= kmalloc_size
    BY DEF Init, InBounds
  <2> QED
    BY CharDrvAssumption DEF CallInit
<1>2. IInv /\ InBounds /\ [Next]_vars => InBounds'
  <2> SUFFICES ASSUME TypeOK, InBounds, [Next]_vars PROVE InBounds'
    BY DEF IInv
  <2>1. CASE UNCHANGED vars
    BY <2>1 DEF InBounds, vars, callvars
  <2>2. ASSUME NEW p \in Proc, Enter(p) PROVE InBounds'
    BY <2>2 DEF Enter, Call, CountsFit, InBounds, TypeOK
  <2>3. ASSUME NEW p \in Proc, down(p) \/ up(p) PROVE InBounds'
    BY <2>3 DEF down, up, InBounds, TypeOK
  <2>4. ASSUME NEW p \in Proc, copy_to_user(p, "up") \/ copy_from_user(p, "up") PROVE InBounds'
    <3>1. len(p) \in Nat /\ len(p) <= kmalloc_size
      BY CharDrvAssumption DEF len, InBounds, TypeOK
    <3>2. ~ (idx[p] < len(p) /\ idx[p] = kmalloc_size) /\ ~ (len(p) > kmalloc_size)
      BY <3>1, CharDrvAssumption DEF TypeOK
    <3> QED
      BY <2>4, <3>2 DEF copy_to_user, copy_from_user, InBounds, TypeOK
  <2> QED
    BY <2>1, <2>2, <2>3, <2>4 DEF Next, sample_char_drv_read, sample_char_drv_write
<1> QED
  BY <1>1, <1>2, Invariance, PTL DEF Spec
===============================================================================
