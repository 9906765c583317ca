----------------------------- MODULE CharDrvLocks -----------------------------
(***************************************************************************)
(* The sample char drivers that differ in their locking: ex3 and ex4 (no   *)
(* lock), ex8 (a spinlock held over the copy) and ex11 (a semaphore, which *)
(* the ioctl does not take).  Calls run on CPUs: a process in the kernel   *)
(* keeps its CPU until it sleeps or returns, and one that spins never      *)
(* sleeps.                                                                 *)
(*                                                                         *)
(* From the kernel (outside this repository): copy_to_user and             *)
(* copy_from_user may meet a page that is not in memory.  They then sleep  *)
(* until it is; with a spinlock held, a kernel that counts preemption      *)
(* stops the copy short instead.  Ticket spinlocks and semaphores are      *)
(* first come, first served.                                               *)
(***************************************************************************)
EXTENDS Naturals, FiniteSets

CONSTANTS
  Task,      \* processes that have the device open
  NCpu,      \* bound on the number of CPUs
  NCell,     \* cells of the buffer that are copied one by one
  NoTask     \* nobody

ASSUME CharDrvLocksAssumption ==
  NoTask \notin Task /\ NCpu \in Nat \ {0} /\ NCell \in Nat \ {0}

VARIABLES
  driver,    \* "ex3" (and ex4), "ex8" or "ex11"
  mem,       \* buffer: whose data each cell holds; NoTask for zeroes
  lock,      \* the holder of spin_key or of sem
  job,       \* where each process is
  call,      \* its handler: "read", "write" or "ioctl"
  fill,      \* what it stores: its own data or zeroes
  done,      \* cells copied so far
  got,       \* what its read has copied
  snap,      \* history: the buffer when its copy began
  cpus,      \* processes that occupy a CPU
  ncpu,      \* number of CPUs of this machine
  raced      \* history: a call without the lock overlapped another one

lockvars == <<driver, mem, lock, job, call, fill, done, got, snap, cpus, ncpu, raced>>

Cell == 1 .. NCell
Zeroes == [c \in Cell |-> NoTask]

LockInit ==
  /\ driver \in {"ex3", "ex8", "ex11"}
  /\ mem = Zeroes /\ lock = NoTask
  /\ job = [p \in Task |-> "user"] /\ call = [p \in Task |-> "read"]
  /\ fill = [p \in Task |-> NoTask] /\ done = [p \in Task |-> 0]
  /\ got = [p \in Task |-> Zeroes] /\ snap = [p \in Task |-> Zeroes]
  /\ cpus = {} /\ ncpu \in 1 .. NCpu /\ raced = FALSE

Locks(p) == driver = "ex8" \/ (driver = "ex11" /\ call[p] # "ioctl")
Inside == {p \in Task : job[p] \in {"copy", "asleep"}}
FreeCpu == Cardinality(cpus) < ncpu
Go(p, l) == job' = [job EXCEPT ![p] = l]

(* A program calls read, write or ioctl.  CLEAR_BUFFER fills with 0, FILL_BUFFFER with a char. *)
LockEnter(p, o) ==
  /\ job[p] = "user" /\ FreeCpu
  /\ o = "ioctl" => driver = "ex11"
  /\ call' = [call EXCEPT ![p] = o]
  /\ \E f \in IF o = "ioctl" THEN {p, NoTask} ELSE {p} : fill' = [fill EXCEPT ![p] = f]
  /\ cpus' = cpus \cup {p}
  /\ Go(p, "lock")
  /\ UNCHANGED <<driver, mem, lock, done, got, snap, ncpu, raced>>

(* down() gives the CPU away while it waits; spin_lock() keeps it. *)
Block(p) ==
  /\ job[p] = "lock" /\ p \in cpus
  /\ driver = "ex11" /\ Locks(p) /\ lock # NoTask
  /\ cpus' = cpus \ {p}
  /\ UNCHANGED <<driver, mem, lock, job, call, fill, done, got, snap, ncpu, raced>>

(* Two calls overlap of which one stores and one holds no lock. *)
Clash(p) == \E q \in Inside \ {p} : /\ call[p] # "read" \/ call[q] # "read"
                                    /\ ~ Locks(p) \/ ~ Locks(q)

(* down or spin_lock returns, or there is nothing to wait for. *)
Begin(p) ==
  /\ job[p] = "lock" /\ (p \in cpus \/ FreeCpu)
  /\ IF Locks(p) THEN lock = NoTask /\ lock' = p ELSE UNCHANGED lock
  /\ cpus' = cpus \cup {p}
  /\ snap' = [snap EXCEPT ![p] = mem]
  /\ raced' = (raced \/ Clash(p))
  /\ Go(p, "copy")
  /\ UNCHANGED <<driver, mem, call, fill, done, got, ncpu>>

(* One cell of copy_to_user, copy_from_user or memset. *)
OneCell(p) ==
  LET c == done[p] + 1 IN
  /\ c \in Cell
  /\ IF call[p] = "read"
       THEN got' = [got EXCEPT ![p][c] = mem[c]] /\ UNCHANGED mem
       ELSE mem' = [mem EXCEPT ![c] = fill[p]] /\ UNCHANGED got
  /\ done' = [done EXCEPT ![p] = c]
  /\ UNCHANGED <<driver, lock, call, fill, snap, ncpu, raced>>

CopyCell(p) == job[p] = "copy" /\ OneCell(p) /\ UNCHANGED <<job, cpus>>

(* The user's page is not there: the copy sleeps, and goes on when it is. *)
Fault(p) ==
  /\ job[p] = "copy" /\ call[p] # "ioctl" /\ done[p] + 1 \in Cell
  /\ cpus' = cpus \ {p}
  /\ Go(p, "asleep")
  /\ UNCHANGED <<driver, mem, lock, call, fill, done, got, snap, ncpu, raced>>

PageIn(p) ==
  /\ job[p] = "asleep" /\ FreeCpu
  /\ OneCell(p)
  /\ cpus' = cpus \cup {p}
  /\ Go(p, "copy")

Back(p) ==
  /\ cpus' = cpus \ {p}
  /\ done' = [done EXCEPT ![p] = 0] /\ fill' = [fill EXCEPT ![p] = NoTask]
  /\ got' = [got EXCEPT ![p] = Zeroes] /\ snap' = [snap EXCEPT ![p] = Zeroes]
  /\ Go(p, "user")

(* Mutant: the lock is given back before the copy. *)
unlock_Early(p) ==
  /\ job[p] = "copy"
  /\ IF lock = p
       THEN lock' = NoTask /\ UNCHANGED <<job, cpus, done, fill, got, snap>>
       ELSE done[p] = NCell /\ Back(p) /\ UNCHANGED lock
  /\ UNCHANGED <<driver, mem, call, ncpu, raced>>

(* Mutant: a copy that stops short returns without unlocking. *)
unlock_NotOnFault(p) ==
  /\ job[p] = "copy" /\ (done[p] = NCell \/ call[p] # "ioctl")
  /\ lock' = IF lock = p /\ done[p] = NCell THEN NoTask ELSE lock
  /\ Back(p)
  /\ UNCHANGED <<driver, mem, call, ncpu, raced>>

(* The copy is complete: of the buffer, of a shorter request, or up to a page that
   cannot be had; unlock, return. *)
unlock(p) ==
  /\ job[p] = "copy" /\ (done[p] = NCell \/ call[p] # "ioctl")
  /\ lock' = IF lock = p THEN NoTask ELSE lock
  /\ Back(p)
  /\ UNCHANGED <<driver, mem, call, ncpu, raced>>

LockNext ==
  \E p \in Task : \/ \E o \in {"read", "write", "ioctl"} : LockEnter(p, o)
                  \/ Block(p) \/ Begin(p) \/ CopyCell(p) \/ Fault(p) \/ PageIn(p) \/ unlock(p)

LockSpec == LockInit /\ [][LockNext]_lockvars
-------------------------------------------------------------------------------
(* A read that nothing overlaps without the lock returns the buffer as it    *)
(* was when its copy began.  Under ex8's spinlock and among the reads and    *)
(* writes of ex11 that is every read; a mixture needs an ioctl of ex11, or   *)
(* the drivers ex3 and ex4, which take no lock.                              *)
MixtureNeedsRace ==
  /\ raced => driver # "ex8"
  /\ \A p \in Task : call[p] = "read" /\ ~ raced =>
       \A c \in 1 .. done[p] : got[p][c] = snap[p][c]

(* A process sleeps with ex8's spinlock held, and every CPU spins on it. *)
SpinDeadlock == lock # NoTask /\ job[lock] = "asleep" /\ driver = "ex8" /\ ~ FreeCpu

(* Every call that waits gets the lock and returns, although holders sleep   *)
(* in their copies.  The exception is the spinlock of ex8: as many spinning  *)
(* processes as there are CPUs leave none for a holder that has slept.       *)
WaitersReturn ==
  \A p \in Task : (job[p] = "lock") ~> (job[p] = "user" \/ SpinDeadlock)

(* The exception is for good: nobody takes another step. *)
SpinDeadlockIsFinal == [][~ SpinDeadlock]_lockvars
-------------------------------------------------------------------------------
Source == Task \cup {NoTask}

LockTypeOK ==
  /\ driver \in {"ex3", "ex8", "ex11"} /\ lock \in Source
  /\ mem \in [Cell -> Source]
  /\ job \in [Task -> {"user", "lock", "copy", "asleep"}]
  /\ call \in [Task -> {"read", "write", "ioctl"}] /\ fill \in [Task -> Source]
  /\ done \in [Task -> 0 .. NCell]
  /\ got \in [Task -> [Cell -> Source]] /\ snap \in [Task -> [Cell -> Source]]

(* A call that locks holds the lock while it is inside. *)
HoldInv == \A p \in Inside : Locks(p) => lock = p

(* Without a race, nobody is inside beside a call that stores, and a read    *)
(* still finds the buffer as it was when its copy began.                     *)
CopyInv ==
  /\ \A p \in Task \ Inside : done[p] = 0
  /\ ~ raced => /\ \A p, q \in Inside : p # q => call[p] = "read"
                /\ \A p \in Inside : call[p] = "read" => mem = snap[p]

(* The inductive invariant of the locks and the copies. *)
LockIInv == LockTypeOK /\ HoldInv /\ CopyInv /\ MixtureNeedsRace
===============================================================================
