--------------------------- MODULE WaitQueueCharDrv ---------------------------
(***************************************************************************)
(* The sample char driver whose read waits for data (src/day_04/ex12.c;    *)
(* ex13 and ex14 have the same two handlers).  write copies under sem,     *)
(* sets condition and wakes wt_queue; read waits for condition == 1,       *)
(* copies without the semaphore and clears condition.                      *)
(*                                                                         *)
(* wait_event_interruptible (the kernel's) checks the condition, then      *)
(* repeats: put the task on the queue, check again, leave if a signal is   *)
(* pending, else call schedule(), which returns at once if the task was    *)
(* woken since it queued itself.  The drivers ignore its result, so a      *)
(* signal lets read go on to the copy without data.                        *)
(***************************************************************************)
EXTENDS CharDrvOps, Semaphore

CONSTANTS
  Readers, Writers,   \* the processes that call read, and those that call write
  Signals             \* may signals interrupt a waiting read?

VARIABLES
  sem,         \* static struct semaphore sem
  condition,   \* static int condition
  wt_queue,    \* tasks on the wait queue that have not been woken
  signalled,   \* tasks with a pending signal
  written      \* history: some write has copied its data and left the semaphore

wqvars == <<sem, condition, wt_queue, signalled, written>>
vars == <<callvars, wqvars>>

Init ==
  /\ CallInit
  /\ sem = sema_init(1)
  /\ condition = 0
  /\ wt_queue = {}
  /\ signalled = {}
  /\ written = FALSE

Goto(p, l) == pc' = [pc EXCEPT ![p] = l]
Keep == UNCHANGED <<buffer, op, count, ubuf, idx>>

(* Mutant: the task checks the condition before it is on the queue. *)
wait_event_interruptible_LateQueue(p) ==
  /\ Keep /\ UNCHANGED <<sem, condition, signalled, written>>
  /\ \/ /\ pc[p] \in {"enter", "wait", "check"}
        /\ Goto(p, IF condition = 1 \/ p \in signalled THEN "copy" ELSE "schedule")
        /\ UNCHANGED wt_queue
     \/ /\ pc[p] = "schedule"
        /\ wt_queue' = wt_queue \cup {p}
        /\ Goto(p, "asleep")

wait_event_interruptible(p) ==
  /\ Keep /\ UNCHANGED <<sem, condition, signalled, written>>
  /\ \/ /\ pc[p] = "enter"                        \* if (condition) done
        /\ Goto(p, IF condition = 1 THEN "copy" ELSE "wait")
        /\ UNCHANGED wt_queue
     \/ /\ pc[p] = "wait"                         \* prepare_to_wait
        /\ wt_queue' = wt_queue \cup {p}
        /\ Goto(p, "check")
     \/ /\ pc[p] = "check"
        /\ condition = 1 \/ p \in signalled       \* break; finish_wait
        /\ wt_queue' = wt_queue \ {p}
        /\ Goto(p, "copy")
     \/ /\ pc[p] = "check"
        /\ condition # 1 /\ p \notin signalled
        /\ Goto(p, "schedule")
        /\ UNCHANGED wt_queue
     \/ /\ pc[p] = "schedule"                     \* sleeps unless woken meanwhile
        /\ Goto(p, IF p \in wt_queue THEN "asleep" ELSE "wait")
        /\ UNCHANGED wt_queue

sample_char_drv_read(p) ==
  /\ op[p] = "read"
  /\ \/ wait_event_interruptible(p)
     \/ copy_to_user(p, "clear") /\ UNCHANGED wqvars
     \/ /\ pc[p] = "clear"                        \* condition=0; return
        /\ condition' = 0
        /\ Goto(p, "user")
        /\ signalled' = signalled \ {p}
        /\ Keep /\ UNCHANGED <<sem, wt_queue, written>>

(* Mutant: write does not wait for the semaphore it releases later. *)
down_Skipped(p) ==
  /\ pc[p] = "down"
  /\ Goto(p, "copy")
  /\ Keep /\ UNCHANGED <<sem, condition, wt_queue, signalled, written>>

down(p) ==
  /\ pc[p] = "down"
  /\ IF Available(sem) THEN sem' = Taken(sem) /\ Goto(p, "copy")
                       ELSE sem' = Queued(sem, p) /\ Goto(p, "sem_asleep")
  /\ Keep /\ UNCHANGED <<condition, wt_queue, signalled, written>>

up(p) ==
  /\ pc[p] = "up"
  /\ sem' = Released(sem)
  /\ pc' = [q \in Proc |-> IF q = p THEN "set" ELSE IF IsNext(sem, q) THEN "copy" ELSE pc[q]]
  /\ written' = TRUE
  /\ Keep /\ UNCHANGED <<condition, wt_queue, signalled>>

(* Where a task that sleeps on wt_queue continues (poll is ex13's). *)
Awake(l) == CASE l = "asleep" -> "wait" [] l = "poll_asleep" -> "poll" [] OTHER -> l

(* Every task on the queue becomes runnable and leaves it. *)
wake_up_interruptible(p, next) ==
  /\ wt_queue' = {}
  /\ pc' = [q \in Proc |-> IF q = p THEN next
                           ELSE IF q \in wt_queue THEN Awake(pc[q]) ELSE pc[q]]

(* Mutant: write wakes the readers before it sets the condition. *)
sample_char_drv_write_WakeFirst(p) ==
  /\ op[p] = "write"
  /\ \/ down(p)
     \/ copy_from_user(p, "up") /\ UNCHANGED wqvars
     \/ up(p)
     \/ /\ pc[p] = "set"
        /\ wake_up_interruptible(p, "wake")
        /\ Keep /\ UNCHANGED <<sem, condition, signalled, written>>
     \/ /\ pc[p] = "wake"
        /\ condition' = 1
        /\ Goto(p, "user")
        /\ Keep /\ UNCHANGED <<sem, wt_queue, signalled, written>>

(* Mutant: write sets the condition before its data is in the buffer. *)
sample_char_drv_write_SetFirst(p) ==
  /\ op[p] = "write"
  /\ \/ /\ pc[p] = "down" /\ condition = 0
        /\ condition' = 1
        /\ Keep /\ UNCHANGED <<pc, sem, wt_queue, signalled, written>>
     \/ down(p)
     \/ copy_from_user(p, "up") /\ UNCHANGED wqvars
     \/ up(p)
     \/ /\ pc[p] = "set"
        /\ wake_up_interruptible(p, "user")
        /\ Keep /\ UNCHANGED <<sem, condition, signalled, written>>

sample_char_drv_write(p) ==
  /\ op[p] = "write"
  /\ \/ down(p)
     \/ copy_from_user(p, "up") /\ UNCHANGED wqvars
     \/ up(p)
     \/ /\ pc[p] = "set"                          \* condition=1
        /\ condition' = 1
        /\ Goto(p, "wake")
        /\ Keep /\ UNCHANGED <<sem, wt_queue, signalled, written>>
     \/ /\ pc[p] = "wake"
        /\ wake_up_interruptible(p, "user")
        /\ Keep /\ UNCHANGED <<sem, condition, signalled, written>>

Enter(p) ==
  /\ \/ p \in Readers /\ \E n \in Counts : Call(p, "read", n, Blank, "enter")
     \/ p \in Writers /\ \E n \in Counts, d \in Image : Call(p, "write", n, d, "down")
  /\ UNCHANGED wqvars

(* A signal makes a sleeping task run; it finds the signal pending. *)
Signal(p) ==
  /\ Signals
  /\ pc[p] \in {"enter", "wait", "check", "schedule", "asleep"} /\ p \notin signalled
  /\ signalled' = signalled \cup {p}
  /\ wt_queue' = wt_queue \ {p}
  /\ IF pc[p] = "asleep" THEN Goto(p, "wait") ELSE UNCHANGED pc
  /\ Keep /\ UNCHANGED <<sem, condition, written>>

Handlers(p) == sample_char_drv_read(p) \/ sample_char_drv_write(p)

Next == \E p \in Proc : Enter(p) \/ Signal(p) \/ sample_char_drv_read(p) \/ sample_char_drv_write(p)

Spec == Init /\ [][Next]_vars

(* The scheduler runs every process that is not asleep. *)
FairSpec == Spec /\ \A p \in Proc : WF_vars(Handlers(p))
-------------------------------------------------------------------------------
Waiting == {"enter", "wait", "check", "schedule", "asleep"}
Sleeping == {"asleep", "poll_asleep"}

(* The control points of poll are used in ex13 only. *)
Polling == {"poll", "poll_check", "poll_schedule", "poll_asleep"}

TypeOK ==
  /\ buffer \in Image
  /\ pc \in [Proc -> Waiting \cup Polling \cup {"user", "copy", "clear", "down", "sem_asleep", "up", "set",
                                  "wake", "oob"}]
  /\ op \in [Proc -> {"read", "write", "poll"}]
  /\ count \in [Proc -> Nat]
  /\ ubuf \in [Proc -> Image]
  /\ idx \in [Proc -> 0 .. kmalloc_size]
  /\ sem \in [count : {0, 1}, wait_list : Seq(Proc)]
  /\ condition \in {0, 1}
  /\ wt_queue \subseteq Proc
  /\ signalled \subseteq Proc
  /\ written \in BOOLEAN

(* A process only sleeps, in read or in poll, beside data that is there      *)
(* while some write is still about to call wake_up_interruptible: no wake-up *)
(* is ever lost between its check of condition and its schedule().           *)
NoLostWakeup ==
  \A p \in Proc : pc[p] \in Sleeping /\ condition = 1 => \E q \in Proc : pc[q] = "wake"

(* A read that was not interrupted by a signal never returns the contents    *)
(* kmalloc left in the buffer: some write finished its copy before it.       *)
NoReadBeforeWrite ==
  \A p \in Proc : op[p] = "read" /\ pc[p] \in {"copy", "clear"} /\ p \notin signalled => written

(* Data that a write has announced does not stay there while a read waits:   *)
(* the read gets through, or another read has taken the announcement.        *)
AnnouncedDataIsRead ==
  \A p \in Proc : (pc[p] \in Waiting /\ condition = 1) ~> (pc[p] \notin Waiting \/ condition = 0)
-------------------------------------------------------------------------------
(* The semaphore admits one writer, and its sleepers are those queued on it. *)
Holder(p) == op[p] = "write" /\ pc[p] \in {"copy", "up"}

SemInv ==
  /\ \A p \in Proc : pc[p] = "up" => op[p] = "write"
  /\ \A p, q \in Proc : Holder(p) /\ Holder(q) => p = q
  /\ sem.count = 1 => sem.wait_list = <<>> /\ \A p \in Proc : ~ Holder(p)
  /\ \A i \in DOMAIN sem.wait_list : pc[sem.wait_list[i]] = "sem_asleep"
  /\ \A i, j \in DOMAIN sem.wait_list : i # j => sem.wait_list[i] # sem.wait_list[j]

(* A task that is about to sleep on wt_queue, or sleeps, is on the queue     *)
(* until it is woken, and while it is there and condition holds a write has  *)
(* its wake_up_interruptible still before it.                                *)
WakeInv ==
  /\ \A p \in Proc : pc[p] \in Sleeping => p \in wt_queue
  /\ \A p \in wt_queue :
       pc[p] \in {"schedule", "poll_schedule"} \cup Sleeping /\ condition = 1 =>
         \E q \in Proc : pc[q] = "wake"

(* Data is announced only after a write has copied it. *)
DataInv ==
  /\ condition = 1 \/ (\E p \in Proc : pc[p] \in {"set", "wake"}) => written
  /\ NoReadBeforeWrite
===============================================================================
