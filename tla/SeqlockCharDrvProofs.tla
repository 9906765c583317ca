------------------------- MODULE SeqlockCharDrvProofs -------------------------
(***************************************************************************)
(* Proofs about ex10 for every set of processes and every length of the    *)
(* buffer: what its reads return although no write moves the seqlock.      *)
(***************************************************************************)
EXTENDS SeqlockCharDrv, TLAPS

(* The bytes of one image: what a store or the zero fill makes of it. *)
LEMMA ImageType ==
  /\ Blank \in Image
  /\ \A img \in Image, o \in Off, b \in Byte : [img EXCEPT ![o] = b] \in Image
  /\ \A p \in Proc : buffer \in Image => Padded(p) \in Image
  BY CharDrvAssumption DEF Blank, Image, Off, Padded

(* down() of a free semaphore takes it. *)
LEMMA SemTaken ==
  ASSUME NEW s \in BinarySem, s.count = 1
  PROVE  Taken(s) \in BinarySem /\ Taken(s).count = 0 /\ Taken(s).wait_list = s.wait_list
  BY DEF Taken, BinarySem

(* down() of a taken semaphore queues the process. *)
LEMMA SemQueued ==
  ASSUME NEW s \in BinarySem, NEW p \in Proc
  PROVE  /\ Queued(s, p) \in BinarySem
         /\ Queued(s, p).count = s.count /\ Queued(s, p).wait_list = Append(s.wait_list, p)
  BY DEF Queued, BinarySem

(* up() hands the semaphore to the first sleeper, or frees it. *)
LEMMA SemReleased ==
  ASSUME NEW s \in BinarySem, s.count = 0
  PROVE  /\ Released(s) \in BinarySem
         /\ s.wait_list = <<>> => Released(s).count = 1 /\ Released(s).wait_list = <<>>
         /\ s.wait_list # <<>> => Released(s).count = 0 /\ Released(s).wait_list = Tail(s.wait_list)
<1>1. CASE s.wait_list = <<>>
  BY <1>1 DEF Released, BinarySem
<1>2. CASE s.wait_list # <<>>
  <2>1. Tail(s.wait_list) \in Seq(Proc)
    BY <1>2 DEF BinarySem
  <2> QED
    BY <1>2, <2>1 DEF Released, BinarySem
<1> QED
  BY <1>1, <1>2

-------------------------------------------------------------------------------
(* Nobody holds the semaphore and the buffer is stable at first. *)
LEMMA InitIInv == Init => IInv
<1> SUFFICES ASSUME Init PROVE IInv
  OBVIOUS
<1>1. TypeOK
  BY ImageType, CharDrvAssumption DEF Init, CallInit, TypeOK, BinarySem, sema_init
<1>2. SemInv
  BY DEF Init, CallInit, SemInv, Holder, sema_init
<1>3. WriteInv /\ ReadInv
  BY DEF Init, CallInit, WriteInv, ReadInv, Holder
<1> QED
  BY <1>1, <1>2, <1>3 DEF IInv

(* A call enters a handler: nobody else's state changes.                     *)
LEMMA EnterKeeps ==
  ASSUME IInv, NEW p \in Proc, Enter(p)
  PROVE  IInv'
<1>1. PICK o \in {"read", "write"}, n \in Counts, d \in Image :
        Call(p, o, n, d, IF o = "read" THEN "begin" ELSE "down")
  <2>1. CASE \E n \in Counts : Call(p, "read", n, Blank, "begin")
    BY <2>1, ImageType
  <2>2. CASE \E n \in Counts, d \in Image : Call(p, "write", n, d, "down")
    BY <2>2
  <2> QED
    BY <2>1, <2>2 DEF Enter
<1>2. pc[p] = "user" /\ UNCHANGED <<buffer, sem, stable, seen>>
  BY <1>1 DEF Enter, Call, seqvars
<1>3. /\ pc'[p] \in {"begin", "down"} /\ idx'[p] = 0 /\ (pc'[p] = "down" => op'[p] = "write")
      /\ \A q \in Proc : q # p => /\ pc'[q] = pc[q] /\ op'[q] = op[q]
                                  /\ ubuf'[q] = ubuf[q] /\ idx'[q] = idx[q]
  BY <1>1, CharDrvAssumption DEF Call, IInv, TypeOK
<1>4. TypeOK'
  BY <1>1, <1>2, ImageType, CharDrvAssumption DEF Call, IInv, TypeOK
<1>5. \A q \in Proc : Holder(q)' <=> Holder(q)
  BY <1>2, <1>3 DEF Holder
<1>6. SemInv'
  <2>1. \A i \in DOMAIN sem.wait_list : sem.wait_list[i] \in Proc
    BY DEF IInv, TypeOK, BinarySem
  <2> QED
    BY <1>2, <1>3, <1>5, <2>1 DEF IInv, SemInv
<1>7. WriteInv'
  BY <1>2, <1>3, <1>5 DEF IInv, WriteInv
<1>8. ReadInv'
  BY <1>2, <1>3 DEF IInv, ReadInv
<1> QED
  BY <1>4, <1>6, <1>7, <1>8 DEF IInv

(* A step of a read changes nothing that a write looks at.                   *)
LEMMA ReaderAside ==
  ASSUME IInv, NEW p \in Proc, op[p] = "read",
         UNCHANGED <<buffer, op, count, sem, stable>>,
         pc[p] \notin {"user", "down", "asleep", "up"},
         \E l \in {"user", "begin", "copy", "retry", "return", "oob"} : pc' = [pc EXCEPT ![p] = l],
         \A q \in Proc : q # p => idx'[q] = idx[q]
  PROVE  SemInv' /\ WriteInv'
<1>1. /\ pc'[p] \in {"user", "begin", "copy", "retry", "return", "oob"}
      /\ \A q \in Proc : q # p => pc'[q] = pc[q]
  BY DEF IInv, TypeOK
<1>2. \A q \in Proc : Holder(q)' <=> Holder(q)
  BY <1>1 DEF Holder
<1>3. \A i \in DOMAIN sem.wait_list : sem.wait_list[i] \in Proc
  BY DEF IInv, TypeOK, BinarySem
<1>4. SemInv'
  BY <1>1, <1>2, <1>3 DEF IInv, SemInv
<1>5. \A q \in Proc : Holder(q) => q # p
  BY DEF Holder
<1>6. WriteInv'
  BY <1>1, <1>2, <1>5 DEF IInv, WriteInv
<1> QED
  BY <1>4, <1>6

(* One step of the read handler.                                             *)
LEMMA ReadKeeps ==
  ASSUME IInv, NEW p \in Proc, sample_char_drv_read(p)
  PROVE  IInv'
<1>0. op[p] = "read"
  BY DEF sample_char_drv_read
<1>1. CASE read_seqbegin(p)
  <2>1. /\ pc[p] = "begin" /\ pc' = [pc EXCEPT ![p] = "copy"] /\ idx' = [idx EXCEPT ![p] = 0]
        /\ seen' = [seen EXCEPT ![p] = {stable}]
        /\ UNCHANGED <<buffer, op, count, ubuf, sem, stable>>
    BY <1>1 DEF read_seqbegin, Goto, Keep
  <2>2. TypeOK'
    BY <2>1, CharDrvAssumption DEF IInv, TypeOK
  <2>3. idx'[p] = 0 /\ \A q \in Proc : q # p => idx'[q] = idx[q] /\ pc'[q] = pc[q] /\ seen'[q] = seen[q]
    BY <2>1, CharDrvAssumption DEF IInv, TypeOK
  <2>4. SemInv' /\ WriteInv'
    BY <1>0, <2>1, <2>3, ReaderAside
  <2>5. stable \in seen'[p] /\ \A o \in Off : ~ (o < idx'[p])
    BY <2>1, <2>3, CharDrvAssumption DEF IInv, TypeOK, Off
  <2>6. ReadInv'
    BY <2>1, <2>3, <2>5 DEF IInv, ReadInv
  <2> QED
    BY <2>2, <2>4, <2>6 DEF IInv
<1>2. CASE /\ copy_to_user(p, "retry") /\ UNCHANGED seqvars
           /\ UNCHANGED <<ubuf, idx>>
  <2>1. /\ pc[p] = "copy" /\ UNCHANGED <<buffer, op, count, ubuf, idx, sem, stable, seen>>
        /\ \E l \in {"retry", "oob"} : pc' = [pc EXCEPT ![p] = l]
    <3>1. pc[p] = "copy" /\ UNCHANGED <<buffer, op, count, ubuf, idx, sem, stable, seen>>
      BY <1>2 DEF copy_to_user, seqvars
    <3>2. idx'[p] # idx[p] \/ \E l \in {"retry", "oob"} : pc' = [pc EXCEPT ![p] = l]
      BY <1>2, CharDrvAssumption DEF copy_to_user, IInv, TypeOK
    <3> QED
      BY <3>1, <3>2
  <2>2. TypeOK'
    BY <2>1 DEF IInv, TypeOK
  <2>3. SemInv' /\ WriteInv'
    BY <1>0, <2>1, ReaderAside
  <2>4. \A q \in Proc : pc'[q] \in {"copy", "retry", "return"} => pc[q] \in {"copy", "retry", "return"}
    BY <2>1 DEF IInv, TypeOK
  <2>5. ReadInv'
    BY <2>1, <2>4 DEF IInv, ReadInv
  <2> QED
    BY <2>2, <2>3, <2>5 DEF IInv
<1>3. CASE /\ pc[p] = "copy" /\ UNCHANGED <<buffer, op, count, pc>> /\ UNCHANGED seqvars
           /\ idx[p] < kmalloc_size
           /\ ubuf' = [ubuf EXCEPT ![p] = [@ EXCEPT ![idx[p]] = buffer[idx[p]]]]
           /\ idx' = [idx EXCEPT ![p] = @ + 1]
  <2> DEFINE k == idx[p]
  <2>1. k \in Off /\ k \in Nat /\ k + 1 \in 0 .. kmalloc_size /\ buffer[k] \in Byte /\ ubuf[p] \in Image
    BY <1>3, CharDrvAssumption DEF IInv, TypeOK, Off, Image
  <2>2. [ubuf[p] EXCEPT ![k] = buffer[k]] \in Image
    BY <2>1, ImageType
  <2>3. ubuf' \in [Proc -> Image] /\ idx' \in [Proc -> 0 .. kmalloc_size]
    BY <1>3, <2>1, <2>2 DEF IInv, TypeOK
  <2>4. TypeOK'
    BY <1>3, <2>3 DEF IInv, TypeOK, seqvars
  <2>5. /\ idx'[p] = k + 1 /\ \A o \in Off : ubuf'[p][o] = IF o = k THEN buffer[k] ELSE ubuf[p][o]
        /\ \A q \in Proc : q # p => idx'[q] = idx[q] /\ ubuf'[q] = ubuf[q]
    BY <1>3, <2>1 DEF IInv, TypeOK, Image
  <2>6. pc' = [pc EXCEPT ![p] = "copy"] /\ UNCHANGED <<buffer, op, count, sem, stable, seen>>
    BY <1>3 DEF IInv, TypeOK, seqvars
  <2>7. SemInv' /\ WriteInv'
    BY <1>0, <1>3, <2>5, <2>6, ReaderAside
  <2>8. \A o \in Off : o < k + 1 => o = k \/ o < k
    BY <2>1, CharDrvAssumption DEF Off
  <2> HIDE DEF k
  <2>9. ASSUME NEW o \in Off, o < idx'[p]
        PROVE  ubuf'[p][o] = buffer[o] \/ \E img \in seen[p] : img[o] = ubuf'[p][o]
    <3>1. CASE o = k
      BY <2>5, <3>1
    <3>2. CASE o # k
      <4>1. o < idx[p]
        BY <2>5, <2>8, <2>9, <3>2 DEF k
      <4> QED
        BY <1>0, <1>3, <2>5, <3>2, <4>1 DEF IInv, ReadInv
    <3> QED
      BY <3>1, <3>2
  <2>10. ReadInv'
    BY <1>3, <2>5, <2>6, <2>9 DEF IInv, ReadInv
  <2> QED
    BY <2>4, <2>7, <2>10 DEF IInv
<1>4. CASE read_seqretry(p) \/ (pc[p] = "return" /\ Goto(p, "user") /\ Keep /\ UNCHANGED <<idx, seqvars>>)
  <2>1. /\ pc[p] \in {"retry", "return"} /\ UNCHANGED <<buffer, op, count, ubuf, idx, sem, stable, seen>>
        /\ \E l \in {"return", "begin", "user"} : pc' = [pc EXCEPT ![p] = l]
    BY <1>4 DEF read_seqretry, Goto, Keep, seqvars
  <2>2. TypeOK'
    BY <2>1 DEF IInv, TypeOK
  <2>3. SemInv' /\ WriteInv'
    BY <1>0, <2>1, ReaderAside
  <2>4. \A q \in Proc : pc'[q] \in {"copy", "retry", "return"} => pc[q] \in {"copy", "retry", "return"}
    BY <2>1 DEF IInv, TypeOK
  <2>5. ReadInv'
    BY <2>1, <2>4 DEF IInv, ReadInv
  <2> QED
    BY <2>2, <2>3, <2>5 DEF IInv
<1> QED
  BY <1>1, <1>2, <1>3, <1>4 DEF sample_char_drv_read, copy_to_user

-------------------------------------------------------------------------------
(* down: the semaphore, or a place at the end of its queue.                  *)
LEMMA DownKeeps ==
  ASSUME IInv, NEW p \in Proc, op[p] = "write", down(p)
  PROVE  IInv'
<1> DEFINE wl == sem.wait_list
<1>0. wl \in Seq(Proc) /\ DOMAIN wl = 1 .. Len(wl) /\ Len(wl) \in Nat /\ sem \in BinarySem
  BY DEF IInv, TypeOK, BinarySem
<1>1. pc[p] = "down" /\ idx[p] = 0 /\ UNCHANGED <<buffer, op, count, ubuf, idx, stable, seen>>
  BY DEF down, Keep, IInv, SemInv
<1>2. Available(sem) <=> sem.count = 1
  BY <1>0 DEF BinarySem, Available
<1>3. CASE sem.count = 1
  <2>1. sem' \in BinarySem /\ sem'.count = 0 /\ sem'.wait_list = wl
    BY <1>0, <1>2, <1>3, SemTaken DEF down
  <2>2. pc' = [pc EXCEPT ![p] = "copy"]
    BY <1>2, <1>3 DEF down, Goto
  <2>3. \A q \in Proc : pc'[q] = IF q = p THEN "copy" ELSE pc[q]
    BY <2>2 DEF IInv, TypeOK
  <2>4. wl = <<>> /\ buffer = stable /\ \A q \in Proc : ~ Holder(q)
    BY <1>3 DEF IInv, SemInv, WriteInv
  <2>5. \A q \in Proc : Holder(q)' => q = p
    BY <1>1, <2>3, <2>4 DEF Holder
  <2>6. TypeOK'
    BY <1>1, <2>1, <2>2 DEF IInv, TypeOK
  <2>7. SemInv'
    BY <1>1, <2>1, <2>3, <2>4, <2>5 DEF IInv, SemInv
  <2>8. WriteInv'
    BY <1>1, <2>4 DEF WriteInv
  <2>9. ReadInv'
    BY <1>1, <2>3 DEF IInv, ReadInv
  <2> QED
    BY <2>6, <2>7, <2>8, <2>9 DEF IInv
<1>4. CASE sem.count # 1
  <2>1. sem' \in BinarySem /\ sem'.count = sem.count /\ sem'.wait_list = Append(wl, p)
    BY <1>0, <1>2, <1>4, SemQueued DEF down
  <2>2. pc' = [pc EXCEPT ![p] = "asleep"]
    BY <1>2, <1>4 DEF down, Goto
  <2>3. \A q \in Proc : pc'[q] = IF q = p THEN "asleep" ELSE pc[q]
    BY <2>2 DEF IInv, TypeOK
  <2>4. \A q \in Proc : Holder(q)' <=> Holder(q)
    BY <1>1, <2>3 DEF Holder
  <2>5. TypeOK'
    BY <1>1, <2>1, <2>2 DEF IInv, TypeOK
  <2>6. \A i \in DOMAIN wl : wl[i] \in Proc /\ pc[wl[i]] = "asleep" /\ wl[i] # p
    BY <1>0, <1>1 DEF IInv, SemInv
  <2>7. \A i \in DOMAIN sem'.wait_list : pc'[sem'.wait_list[i]] = "asleep"
    BY <1>0, <2>1, <2>3, <2>6
  <2>8. \A i, j \in DOMAIN sem'.wait_list : i # j => sem'.wait_list[i] # sem'.wait_list[j]
    BY <1>0, <2>1, <2>6 DEF IInv, SemInv
  <2>9. SemInv'
    BY <1>1, <1>4, <2>1, <2>3, <2>4, <2>7, <2>8 DEF IInv, SemInv
  <2>10. WriteInv'
    BY <1>1, <2>3, <2>4 DEF IInv, WriteInv
  <2>11. ReadInv'
    BY <1>1, <2>3 DEF IInv, ReadInv
  <2> QED
    BY <2>5, <2>9, <2>10, <2>11 DEF IInv
<1> QED
  BY <1>3, <1>4

(* up: the buffer is stable, until the next write in the queue changes it.   *)
LEMMA UpKeeps ==
  ASSUME IInv, NEW p \in Proc, op[p] = "write", up(p)
  PROVE  IInv'
<1> DEFINE wl == sem.wait_list
<1>0. wl \in Seq(Proc) /\ DOMAIN wl = 1 .. Len(wl) /\ Len(wl) \in Nat /\ sem \in BinarySem
  BY DEF IInv, TypeOK, BinarySem
<1>1. /\ pc[p] = "up" /\ UNCHANGED <<buffer, op, count, ubuf, idx>> /\ stable' = buffer
      /\ sem' = Released(sem) /\ seen' = [q \in Proc |-> seen[q] \cup {buffer}]
  BY DEF up, Keep
<1>2. \A q \in Proc : pc'[q] = IF q = p THEN "user" ELSE IF IsNext(sem, q) THEN "copy" ELSE pc[q]
  BY DEF up
<1>3. Holder(p) /\ \A q \in Proc : Holder(q) => q = p
  BY <1>1 DEF Holder, IInv, SemInv
<1>4. sem.count = 0
  BY <1>0, <1>3 DEF IInv, SemInv, BinarySem
<1>5. \A q \in Proc : IsNext(sem, q) => /\ wl # <<>> /\ q = wl[1] /\ 1 \in DOMAIN wl
                                       /\ pc[q] = "asleep" /\ op[q] = "write" /\ idx[q] = 0
  BY <1>0 DEF IsNext, IInv, SemInv
<1>6. \A q \in Proc : Holder(q)' => IsNext(sem, q) /\ pc'[q] = "copy" /\ idx'[q] = 0
  BY <1>1, <1>2, <1>3, <1>5 DEF Holder
<1>7. TypeOK'
  <2>1. sem' \in BinarySem
    BY <1>0, <1>1, <1>4, SemReleased
  <2>2. pc' \in [Proc -> {"user", "begin", "copy", "retry", "return", "down", "asleep", "up", "oob"}]
    BY DEF up, IInv, TypeOK
  <2>3. seen' \in [Proc -> SUBSET Image]
    BY <1>1 DEF IInv, TypeOK
  <2> QED
    BY <1>1, <2>1, <2>2, <2>3 DEF IInv, TypeOK
<1>8. \A q \in Proc : /\ pc'[q] \in {"down", "asleep", "up"} => op'[q] = "write"
                      /\ pc'[q] \in {"down", "asleep"} => idx'[q] = 0
  BY <1>1, <1>2 DEF IInv, SemInv
<1>9. SemInv'
  <2>1. CASE wl = <<>>
    <3>1. sem'.count = 1 /\ sem'.wait_list = <<>>
      BY <1>0, <1>1, <1>4, <2>1, SemReleased
    <3>2. \A q \in Proc : ~ Holder(q)'
      BY <1>5, <1>6, <2>1
    <3> QED
      BY <1>8, <3>1, <3>2 DEF SemInv
  <2>2. CASE wl # <<>>
    <3>1. sem'.count = 0 /\ sem'.wait_list = Tail(wl)
      BY <1>0, <1>1, <1>4, <2>2, SemReleased
    <3>2. /\ DOMAIN Tail(wl) = 1 .. Len(wl) - 1 /\ 1 \in DOMAIN wl
          /\ \A i \in DOMAIN Tail(wl) : Tail(wl)[i] = wl[i + 1] /\ i + 1 \in DOMAIN wl /\ i + 1 # 1
      BY <1>0, <2>2
    <3>3. \A i \in DOMAIN Tail(wl) : pc'[Tail(wl)[i]] = "asleep"
      <4> TAKE i \in DOMAIN Tail(wl)
      <4>1. Tail(wl)[i] \in Proc /\ pc[Tail(wl)[i]] = "asleep" /\ Tail(wl)[i] # wl[1]
        BY <1>0, <3>2 DEF IInv, SemInv
      <4> QED
        BY <1>1, <1>2, <1>5, <4>1
    <3>4. \A i, j \in DOMAIN Tail(wl) : i # j => Tail(wl)[i] # Tail(wl)[j]
      BY <1>0, <3>2 DEF IInv, SemInv
    <3>5. \A q, r \in Proc : Holder(q)' /\ Holder(r)' => q = r
      BY <1>5, <1>6
    <3> QED
      BY <1>8, <3>1, <3>3, <3>4, <3>5 DEF SemInv
  <2> QED
    BY <2>1, <2>2
<1>10. WriteInv'
  BY <1>1 DEF WriteInv
<1>11. ReadInv'
  <2>1. \A q \in Proc : op[q] = "read" /\ pc'[q] \in {"copy", "retry", "return"} => pc'[q] = pc[q]
    BY <1>2, <1>5
  <2>2. \A q \in Proc : seen'[q] = seen[q] \cup {buffer}
    BY <1>1
  <2> QED
    BY <1>1, <2>1, <2>2 DEF IInv, ReadInv
<1> QED
  BY <1>7, <1>9, <1>10, <1>11 DEF IInv

(* A store: the old byte was the stable one, which every read has seen.      *)
LEMMA StoreKeepsReads ==
  ASSUME IInv, NEW p \in Proc, Holder(p), pc[p] = "copy",
         buffer' \in Image, UNCHANGED <<op, ubuf, stable, seen>>,
         \A o \in Off : o < idx[p] => buffer'[o] = buffer[o],
         \A q \in Proc : q # p => pc'[q] = pc[q] /\ idx'[q] = idx[q]
  PROVE  ReadInv'
<1> SUFFICES ASSUME NEW q \in Proc, op[q] = "read", pc'[q] \in {"copy", "retry", "return"}
             PROVE  /\ stable \in seen[q]
                    /\ \A o \in Off : o < idx'[q] =>
                         ubuf[q][o] = buffer'[o] \/ \E img \in seen[q] : img[o] = ubuf[q][o]
  BY DEF ReadInv
<1>1. q # p /\ pc[q] \in {"copy", "retry", "return"} /\ idx'[q] = idx[q]
  BY DEF Holder
<1>2. /\ stable \in seen[q]
      /\ \A o \in Off : o < idx[q] =>
           ubuf[q][o] = buffer[o] \/ \E img \in seen[q] : img[o] = ubuf[q][o]
  BY <1>1 DEF IInv, ReadInv
<1>3. \A o \in Off : buffer'[o] = buffer[o] \/ buffer[o] = stable[o]
  BY CharDrvAssumption DEF IInv, TypeOK, WriteInv, Off
<1> QED
  BY <1>1, <1>2, <1>3

(* A byte that a write stores replaces a stable byte. *)
LEMMA StoreKeeps ==
  ASSUME IInv, NEW p \in Proc, op[p] = "write", copy_from_user(p, "up"), UNCHANGED seqvars
  PROVE  IInv'
<1>0. pc[p] = "copy" /\ UNCHANGED <<op, count, ubuf, sem, stable, seen>>
  BY DEF copy_from_user, seqvars
<1>1. Holder(p) /\ \A q \in Proc : Holder(q) => q = p
  BY <1>0 DEF Holder, IInv, SemInv
<1>2. \A i \in DOMAIN sem.wait_list : sem.wait_list[i] \in Proc
  BY DEF IInv, TypeOK, BinarySem
<1>3. CASE /\ idx[p] < kmalloc_size /\ UNCHANGED pc
           /\ buffer' = [buffer EXCEPT ![idx[p]] = ubuf[p][idx[p]]]
           /\ idx' = [idx EXCEPT ![p] = @ + 1]
  <2>1. idx[p] \in Off /\ idx[p] + 1 \in 0 .. kmalloc_size /\ ubuf[p][idx[p]] \in Byte
    BY <1>3, CharDrvAssumption DEF IInv, TypeOK, Off, Image
  <2>2. buffer' \in Image
    BY <1>3, <2>1, ImageType DEF IInv, TypeOK
  <2>3. TypeOK'
    BY <1>0, <1>3, <2>1, <2>2 DEF IInv, TypeOK
  <2>4. idx'[p] = idx[p] + 1 /\ \A q \in Proc : q # p => idx'[q] = idx[q]
    BY <1>3 DEF IInv, TypeOK
  <2>5. SemInv'
    BY <1>0, <1>3, <2>4 DEF IInv, SemInv, Holder
  <2>6. \A o \in Off : o # idx[p] => buffer'[o] = buffer[o]
    BY <1>3 DEF IInv, TypeOK, Image
  <2>7. \A o \in Off : o >= idx[p] + 1 => o # idx[p] /\ o >= idx[p]
    BY <2>1, CharDrvAssumption DEF Off
  <2>8. WriteInv'
    <3>1. \A q \in Proc : Holder(q)' <=> Holder(q)
      BY <1>0, <1>3 DEF Holder
    <3>2. \A o \in Off : o >= idx'[p] => buffer'[o] = stable[o]
      BY <1>0, <1>1, <2>4, <2>6, <2>7 DEF IInv, WriteInv
    <3> QED
      BY <1>0, <1>1, <3>1, <3>2 DEF WriteInv
  <2>9. \A o \in Off : o < idx[p] => buffer'[o] = buffer[o]
    BY <2>1, <2>6, CharDrvAssumption DEF Off
  <2>10. ReadInv'
    BY <1>0, <1>1, <1>3, <2>2, <2>4, <2>9, StoreKeepsReads
  <2> QED
    BY <2>3, <2>5, <2>8, <2>10 DEF IInv
<1>4. CASE UNCHANGED idx /\ \/ buffer' = Padded(p) /\ pc' = [pc EXCEPT ![p] = "up"]
                            \/ UNCHANGED buffer /\ pc' = [pc EXCEPT ![p] = "oob"]
  <2>1. buffer' \in Image
    BY <1>4, ImageType DEF IInv, TypeOK
  <2>2. TypeOK'
    BY <1>0, <1>4, <2>1 DEF IInv, TypeOK
  <2>3. pc'[p] \in {"up", "oob"} /\ \A q \in Proc : q # p => pc'[q] = pc[q]
    BY <1>4 DEF IInv, TypeOK
  <2>4. \A q \in Proc : Holder(q)' <=> Holder(q)
    BY <1>0, <1>1, <2>3 DEF Holder
  <2>5. SemInv'
    BY <1>0, <1>2, <1>4, <2>3, <2>4 DEF IInv, SemInv
  <2>6. WriteInv'
    BY <1>1, <2>3, <2>4 DEF WriteInv
  <2>7. \A o \in Off : o < idx[p] => buffer'[o] = buffer[o]
    BY <1>4, CharDrvAssumption DEF Padded, IInv, TypeOK, Off
  <2>8. ReadInv'
    BY <1>0, <1>1, <1>4, <2>1, <2>3, <2>7, StoreKeepsReads
  <2> QED
    BY <2>2, <2>5, <2>6, <2>8 DEF IInv
<1> QED
  BY <1>3, <1>4 DEF copy_from_user

(* Every step of the handlers keeps the invariant. *)
LEMMA NextIInv == IInv /\ [Next]_vars => IInv'
<1> SUFFICES ASSUME IInv, [Next]_vars PROVE IInv'
  OBVIOUS
<1>1. CASE UNCHANGED vars
  <2> USE <1>1 DEF vars, callvars, seqvars
  <2>1. TypeOK'
    BY DEF IInv, TypeOK
  <2>2. SemInv'
    BY DEF IInv, SemInv, Holder
  <2>3. WriteInv' /\ ReadInv'
    BY DEF IInv, WriteInv, ReadInv, Holder
  <2> QED
    BY <2>1, <2>2, <2>3 DEF IInv
<1>2. ASSUME NEW p \in Proc, sample_char_drv_write(p)
      PROVE  IInv'
  BY <1>2, DownKeeps, UpKeeps, StoreKeeps DEF sample_char_drv_write
<1> QED
  BY <1>1, <1>2, EnterKeeps, ReadKeeps DEF Next

(* Who holds the semaphore of ex10, what its write has changed so far and    *)
(* what each read may have copied is an invariant.                           *)
THEOREM Invariance == Spec => []IInv
  BY InitIInv, NextIInv, PTL DEF Spec

(* However many writes run beside it, a read of ex10 returns every byte that *)
(* no write changed since its copy began as it was.                          *)
THEOREM UnchangedTheorem == Spec => []UnchangedBytesAreRead
<1>1. IInv => UnchangedBytesAreRead
  <2> SUFFICES ASSUME IInv, NEW p \in Proc, op[p] = "read", pc[p] = "return",
                      NEW o \in Off, o < idx[p], \A img \in seen[p] : img[o] = buffer[o]
               PROVE  ubuf[p][o] = buffer[o]
    BY DEF UnchangedBytesAreRead
  <2> QED
    BY DEF IInv, ReadInv
<1> QED
  BY Invariance, <1>1, PTL
===============================================================================
