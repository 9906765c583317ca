------------------------------ MODULE SemCharDrv ------------------------------
(***************************************************************************)
(* The sample char driver with a semaphore around its handlers             *)
(* (src/day_03/ex7.c).  Processes call read and write concurrently; both   *)
(* handlers copy between down(&sem) and up(&sem).                          *)
(***************************************************************************)
EXTENDS CharDrvOps, Semaphore

VARIABLES
  sem,      \* static struct semaphore sem
  stable    \* history: the buffer when the semaphore was last released

vars == <<callvars, sem, stable>>

Holding == {"copy", "up", "oob"}

(* What char_drv_module_init leaves behind when it returns 0. *)
Init ==
  /\ CallInit
  /\ sem = sema_init(1)
  /\ stable = buffer

down(p) ==
  /\ pc[p] = "down"
  /\ IF Available(sem)
     THEN /\ sem' = Taken(sem)
          /\ pc' = [pc EXCEPT ![p] = "copy"]
     ELSE /\ sem' = Queued(sem, p)
          /\ pc' = [pc EXCEPT ![p] = "asleep"]
  /\ UNCHANGED <<buffer, op, count, ubuf, idx, stable>>

(* Mutant: the handler returns without up(&sem). *)
up_Forgotten(p) ==
  /\ pc[p] = "up"
  /\ pc' = [pc EXCEPT ![p] = "user"]
  /\ stable' = buffer
  /\ UNCHANGED <<buffer, op, count, ubuf, idx, sem>>

(* up(&sem); return len - ret_len;  the first sleeper continues after its down. *)
up(p) ==
  /\ pc[p] = "up"
  /\ sem' = Released(sem)
  /\ pc' = [q \in Proc |-> IF q = p THEN "user"
                           ELSE IF IsNext(sem, q) THEN "copy" ELSE pc[q]]
  /\ stable' = buffer
  /\ UNCHANGED <<buffer, op, count, ubuf, idx>>

(* Mutant: the read handler copies without taking the semaphore. *)
sample_char_drv_read_Unlocked(p) ==
  /\ op[p] = "read"
  /\ UNCHANGED <<sem, stable>>
  /\ \/ /\ pc[p] = "down"
        /\ pc' = [pc EXCEPT ![p] = "copy"]
        /\ UNCHANGED <<buffer, op, count, ubuf, idx>>
     \/ copy_to_user(p, "user")

sample_char_drv_read(p) ==
  /\ op[p] = "read"
  /\ \/ down(p)
     \/ copy_to_user(p, "up") /\ UNCHANGED <<sem, stable>>
     \/ up(p)

(* Mutant: the write handler releases a semaphore it never took. *)
sample_char_drv_write_NoDown(p) ==
  /\ op[p] = "write"
  /\ \/ /\ pc[p] = "down"
        /\ pc' = [pc EXCEPT ![p] = "copy"]
        /\ UNCHANGED <<buffer, op, count, ubuf, idx, sem, stable>>
     \/ copy_from_user(p, "up") /\ UNCHANGED <<sem, stable>>
     \/ up(p)

sample_char_drv_write(p) ==
  /\ op[p] = "write"
  /\ \/ down(p)
     \/ copy_from_user(p, "up") /\ UNCHANGED <<sem, stable>>
     \/ up(p)

Enter(p) ==
  /\ \E o \in {"read", "write"}, n \in Counts, d \in Image : Call(p, o, n, d, "down")
  /\ UNCHANGED <<sem, stable>>

Next == \E p \in Proc :
  \/ Enter(p)
  \/ sample_char_drv_read(p)
  \/ sample_char_drv_write(p)

Spec == Init /\ [][Next]_vars

(* The scheduler runs every process that is not asleep. *)
Fairness == \A p \in Proc :
  WF_vars(sample_char_drv_read(p)) /\ WF_vars(sample_char_drv_write(p))

FairSpec == Spec /\ Fairness
-------------------------------------------------------------------------------
BinarySem == [count : {0, 1}, wait_list : Seq(Proc)]

TypeOK ==
  /\ buffer \in Image
  /\ pc \in [Proc -> {"user", "down", "asleep", "copy", "up", "oob"}]
  /\ op \in [Proc -> {"read", "write"}]
  /\ count \in [Proc -> Nat]
  /\ ubuf \in [Proc -> Image]
  /\ idx \in [Proc -> 0 .. kmalloc_size]
  /\ sem \in BinarySem
  /\ stable \in Image

AB == INSTANCE AtomicBuffer WITH
  content <- stable,
  pend <- [p \in Proc |-> IF pc[p] = "user" THEN "none" ELSE op[p]],
  cnt  <- [p \in Proc |-> IF pc[p] = "user" THEN 0 ELSE count[p]],
  arg  <- [p \in Proc |-> IF pc[p] # "user" /\ op[p] = "write" THEN ubuf[p] ELSE Blank],
  res  <- [p \in Proc |-> IF pc[p] = "user" THEN [n |-> idx[p], data |-> ubuf[p]]
                          ELSE [n |-> 0, data |-> Blank]]

(* The semaphore admits one process, and the sleepers are those queued on it. *)
LockInv ==
  /\ \A p, q \in Proc : pc[p] \in Holding /\ pc[q] \in Holding => p = q
  /\ sem.count = 1 => /\ sem.wait_list = <<>>
                      /\ \A p \in Proc : pc[p] \notin Holding
  /\ \A i \in DOMAIN sem.wait_list : pc[sem.wait_list[i]] = "asleep"
  /\ \A i, j \in DOMAIN sem.wait_list : i # j => sem.wait_list[i] # sem.wait_list[j]

(* What the holder has done so far, relative to the contents it found. *)
CopyInv ==
  /\ \A p \in Proc : pc[p] \in {"down", "asleep"} => idx[p] = 0
  /\ \A p \in Proc : pc[p] \in {"down", "asleep"} /\ op[p] = "read" => ubuf[p] = Blank
  /\ (\A p \in Proc : pc[p] \in Holding => op[p] = "read") => buffer = stable
  /\ \A p \in Proc : pc[p] \in Holding => idx[p] <= len(p)
  /\ \A p \in Proc : pc[p] \in Holding /\ op[p] = "read" =>
       ubuf[p] = AB!Overlay(Blank, stable, idx[p], 0)
  /\ \A p \in Proc : pc[p] = "copy" /\ op[p] = "write" =>
       buffer = AB!Overlay(stable, ubuf[p], idx[p], 0)
  /\ \A p \in Proc : pc[p] = "up" /\ op[p] = "write" =>
       /\ len(p) <= kmalloc_size
       /\ buffer = AB!Overlay(stable, ubuf[p], idx[p], len(p))

(* The inductive invariant behind Linearizable: every process inside a       *)
(* handler has the semaphore to itself, and what it has copied so far is a   *)
(* prefix of one atomic read or write.                                       *)
IInv == TypeOK /\ LockInv /\ CopyInv

(* Every read and write of ex7 takes effect atomically (at its up): a read   *)
(* never returns a mixture of two concurrent writes.                         *)
Linearizable == AB!Spec

(* A call that enters the driver returns, unless some copy has left the      *)
(* allocation: the semaphore is always released and handed on in FIFO order. *)
EveryCallReturns == \A p \in Proc : pc[p] # "user" ~> (pc[p] = "user" \/ \E q \in Proc : pc[q] = "oob")
===============================================================================
