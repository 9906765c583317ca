---------------------------- MODULE SeqlockCharDrv ----------------------------
(***************************************************************************)
(* The sample char driver with a seqlock (src/day_04/ex10.c).  read copies *)
(* inside read_seqbegin / read_seqretry on the_lock; write takes only the  *)
(* semaphore and never write_seqlock, so the_lock's sequence number never  *)
(* moves and no read is ever repeated.                                     *)
(***************************************************************************)
EXTENDS CharDrvOps, Semaphore

VARIABLES
  sem,        \* static struct semaphore sem
  the_lock,   \* sequence number of seqlock_t the_lock
  seq,        \* the number a read saw in read_seqbegin
  stable,     \* history: the buffer when no write was inside the semaphore
  seen        \* history: the stable buffers since a read last began its copy

seqvars == <<sem, the_lock, seq, stable, seen>>
vars == <<callvars, seqvars>>

Goto(p, l) == pc' = [pc EXCEPT ![p] = l]
Keep == UNCHANGED <<buffer, op, count, ubuf>>

Init ==
  /\ CallInit
  /\ sem = sema_init(1)
  /\ the_lock = 0
  /\ seq = [p \in Proc |-> 0]
  /\ stable = buffer
  /\ seen = [p \in Proc |-> {}]

(* The spin while a writer holds the_lock never happens: the number is even. *)
read_seqbegin(p) ==
  /\ pc[p] = "begin" /\ the_lock % 2 = 0
  /\ seq' = [seq EXCEPT ![p] = the_lock]
  /\ seen' = [seen EXCEPT ![p] = {stable}]
  /\ idx' = [idx EXCEPT ![p] = 0]
  /\ Goto(p, "copy")
  /\ Keep /\ UNCHANGED <<sem, the_lock, stable>>

read_seqretry(p) ==
  /\ pc[p] = "retry"
  /\ Goto(p, IF the_lock = seq[p] THEN "return" ELSE "begin")
  /\ Keep /\ UNCHANGED <<idx, seqvars>>

sample_char_drv_read(p) ==
  /\ op[p] = "read"
  /\ \/ read_seqbegin(p)
     \/ copy_to_user(p, "retry") /\ UNCHANGED seqvars
     \/ read_seqretry(p)
     \/ /\ pc[p] = "return"
        /\ Goto(p, "user")
        /\ Keep /\ UNCHANGED <<idx, seqvars>>

down(p) ==
  /\ pc[p] = "down"
  /\ IF Available(sem) THEN sem' = Taken(sem) /\ Goto(p, "copy")
                       ELSE sem' = Queued(sem, p) /\ Goto(p, "asleep")
  /\ Keep /\ UNCHANGED <<idx, the_lock, seq, stable, seen>>

up(p) ==
  /\ pc[p] = "up"
  /\ sem' = Released(sem)
  /\ pc' = [q \in Proc |-> IF q = p THEN "user" ELSE IF IsNext(sem, q) THEN "copy" ELSE pc[q]]
  /\ stable' = buffer
  /\ seen' = [q \in Proc |-> seen[q] \cup {buffer}]
  /\ Keep /\ UNCHANGED <<idx, the_lock, seq>>

(* Mutant: write releases a semaphore it did not take. *)
sample_char_drv_write_NoDown(p) ==
  /\ op[p] = "write"
  /\ \/ pc[p] = "down" /\ Goto(p, "copy") /\ Keep /\ UNCHANGED <<idx, seqvars>>
     \/ copy_from_user(p, "up") /\ UNCHANGED seqvars
     \/ up(p)

sample_char_drv_write(p) ==
  /\ op[p] = "write"
  /\ \/ down(p)
     \/ copy_from_user(p, "up") /\ UNCHANGED seqvars
     \/ up(p)

Enter(p) ==
  /\ \/ \E n \in Counts : Call(p, "read", n, Blank, "begin")
     \/ \E n \in Counts, d \in Image : Call(p, "write", n, d, "down")
  /\ UNCHANGED seqvars

Next == \E p \in Proc : Enter(p) \/ sample_char_drv_read(p) \/ sample_char_drv_write(p)

Spec == Init /\ [][Next]_vars
-------------------------------------------------------------------------------
(* A read with a seqlock returns the buffer as it was at one instant of the  *)
(* call, never the bytes of a write that was under way.                      *)
ReadIsSnapshot ==
  \A p \in Proc : op[p] = "read" /\ pc[p] = "return" =>
    \E img \in seen[p] : \A o \in Off : o < idx[p] => ubuf[p][o] = img[o]

(* What is left of it: a byte that no write changed while the read ran is    *)
(* returned as it was, because writes still exclude each other.              *)
UnchangedBytesAreRead ==
  \A p \in Proc : op[p] = "read" /\ pc[p] = "return" =>
    \A o \in Off : o < idx[p] /\ (\A img \in seen[p] : img[o] = buffer[o])
                     => ubuf[p][o] = buffer[o]
-------------------------------------------------------------------------------
BinarySem == [count : {0, 1}, wait_list : Seq(Proc)]

TypeOK ==
  /\ buffer \in Image /\ stable \in Image /\ sem \in BinarySem
  /\ pc \in [Proc -> {"user", "begin", "copy", "retry", "return", "down", "asleep", "up", "oob"}]
  /\ op \in [Proc -> {"read", "write"}] /\ count \in [Proc -> Nat]
  /\ ubuf \in [Proc -> Image] /\ idx \in [Proc -> 0 .. kmalloc_size]
  /\ seen \in [Proc -> SUBSET Image]

(* Only writes take the semaphore. *)
Holder(p) == op[p] = "write" /\ pc[p] \in {"copy", "up", "oob"}

SemInv ==
  /\ \A p \in Proc : /\ pc[p] \in {"down", "asleep", "up"} => op[p] = "write"
                     /\ pc[p] \in {"down", "asleep"} => idx[p] = 0
  /\ \A p, q \in Proc : Holder(p) /\ Holder(q) => p = q
  /\ sem.count = 1 => sem.wait_list = <<>> /\ \A p \in Proc : ~ Holder(p)
  /\ \A i \in DOMAIN sem.wait_list : pc[sem.wait_list[i]] = "asleep"
  /\ \A i, j \in DOMAIN sem.wait_list : i # j => sem.wait_list[i] # sem.wait_list[j]

(* A write changes each byte once, so a byte that it has not reached is the  *)
(* stable one.                                                               *)
WriteInv ==
  /\ (\A p \in Proc : ~ Holder(p)) => buffer = stable
  /\ \A p \in Proc : Holder(p) /\ pc[p] = "copy" =>
       \A o \in Off : o >= idx[p] => buffer[o] = stable[o]

(* A byte that a read has copied is still there or was in a stable buffer    *)
(* since the copy began.                                                     *)
ReadInv ==
  \A p \in Proc : op[p] = "read" /\ pc[p] \in {"copy", "retry", "return"} =>
    /\ stable \in seen[p]
    /\ \A o \in Off : o < idx[p] =>
         ubuf[p][o] = buffer[o] \/ \E img \in seen[p] : img[o] = ubuf[p][o]

(* The inductive invariant of reads beside writes. *)
IInv == TypeOK /\ SemInv /\ WriteInv /\ ReadInv
===============================================================================
