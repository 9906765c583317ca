----------------------------- MODULE PollCharDrv -----------------------------
(***************************************************************************)
(* ex12's driver with poll (src/day_05/ex13.c), used the way               *)
(* src/day_05/polltest.c does: poll for POLLIN with a timeout, and call    *)
(* read only when poll reports it.                                         *)
(*                                                                         *)
(* The kernel's poll loop calls the driver's poll, which registers the     *)
(* task on wt_queue and looks at condition; when nothing is reported it    *)
(* sleeps, unless it was woken since it registered, until a wake-up or the *)
(* timeout, and after a wake-up it polls again.                            *)
(***************************************************************************)
EXTENDS WaitQueueCharDrv

CONSTANT Pollers    \* the processes that run polltest

VARIABLES
  pollin,   \* the processes whose poll reported POLLIN and that have not read since
  fresh     \* history: those of them that no completed read has come before

pollvars == <<vars, pollin, fresh>>

PollInit == Init /\ pollin = {} /\ fresh = {}

(* poll returns to the program with POLLIN set. *)
Report(p) ==
  /\ Goto(p, "user")
  /\ pollin' = pollin \cup {p}
  /\ fresh' = fresh \cup {p}

(* Mutant: POLLIN whether or not there is data. *)
sample_char_drv_poll_Always(p) ==
  /\ \/ /\ pc[p] = "poll"
        /\ wt_queue' = wt_queue \cup {p}
        /\ Goto(p, "poll_check")
        /\ UNCHANGED <<pollin, fresh>>
     \/ /\ pc[p] = "poll_check"
        /\ wt_queue' = wt_queue \ {p}
        /\ Report(p)
  /\ Keep /\ UNCHANGED <<sem, condition, signalled, written>>

(* Mutant: the condition is looked at before poll_wait. *)
sample_char_drv_poll_CheckFirst(p) ==
  /\ \/ /\ pc[p] = "poll" /\ condition = 1
        /\ Report(p)
        /\ UNCHANGED wt_queue
     \/ /\ pc[p] = "poll" /\ condition # 1
        /\ Goto(p, "poll_check")
        /\ UNCHANGED <<wt_queue, pollin, fresh>>
     \/ /\ pc[p] = "poll_check"
        /\ wt_queue' = wt_queue \cup {p}
        /\ Goto(p, "poll_schedule")
        /\ UNCHANGED <<pollin, fresh>>
  /\ Keep /\ UNCHANGED <<sem, condition, signalled, written>>

sample_char_drv_poll(p) ==
  /\ \/ /\ pc[p] = "poll"                        \* poll_wait
        /\ wt_queue' = wt_queue \cup {p}
        /\ Goto(p, "poll_check")
        /\ UNCHANGED <<pollin, fresh>>
     \/ /\ pc[p] = "poll_check" /\ condition = 1 \* POLLIN | POLLRDNORM
        /\ wt_queue' = wt_queue \ {p}
        /\ Report(p)
     \/ /\ pc[p] = "poll_check" /\ condition # 1
        /\ Goto(p, "poll_schedule")
        /\ UNCHANGED <<wt_queue, pollin, fresh>>
  /\ Keep /\ UNCHANGED <<sem, condition, signalled, written>>

(* The process sleeps unless it was woken meanwhile; when its time is up, do_poll *)
(* asks the driver a last time.                                                   *)
poll_schedule_timeout(p) ==
  /\ \/ /\ pc[p] = "poll_schedule"
        /\ Goto(p, IF p \in wt_queue THEN "poll_asleep" ELSE "poll")
        /\ UNCHANGED <<wt_queue, pollin, fresh>>
     \/ /\ pc[p] = "poll_asleep"
        /\ wt_queue' = wt_queue \ {p}
        /\ \/ condition = 1 /\ Report(p)
           \/ /\ condition # 1 /\ Goto(p, "user")   \* "poll timed out"
              /\ UNCHANGED <<pollin, fresh>>
  /\ Keep /\ UNCHANGED <<sem, condition, signalled, written>>

(* polltest.c: for (;;) poll, then read if POLLIN *)
polltest(p) ==
  /\ p \in Pollers
  /\ IF p \in pollin THEN \E n \in Counts : Call(p, "read", n, Blank, "enter")
                     ELSE Call(p, "poll", 0, Blank, "poll")
  /\ UNCHANGED <<wqvars, pollin, fresh>>

(* The handlers shared with ex12; returning from read ends a round of polltest. *)
ReadWrite(p) ==
  /\ Handlers(p)
  /\ pollin' = IF pc[p] = "clear" THEN pollin \ {p} ELSE pollin
  /\ fresh' = IF pc[p] = "clear" THEN {} ELSE fresh

PollNext == \E p \in Proc :
  \/ polltest(p)
  \/ sample_char_drv_poll(p)
  \/ poll_schedule_timeout(p)
  \/ ReadWrite(p)
  \/ Enter(p) /\ UNCHANGED <<pollin, fresh>>
  \/ Signal(p) /\ UNCHANGED <<pollin, fresh>>

PollSpec == PollInit /\ [][PollNext]_pollvars

(* The scheduler runs every process that is not asleep. *)
PollFairSpec == PollSpec /\ \A p \in Proc :
  WF_pollvars(ReadWrite(p)) /\ WF_pollvars(sample_char_drv_poll(p))
------------------------------------------------------------------------------
(* A read that follows a POLLIN never waits, unless another read has come    *)
(* between the two: what polltest.c relies on.                               *)
ReadAfterPollNeverWaits ==
  \A p \in fresh : pc[p] \notin {"wait", "check", "schedule", "asleep"}
------------------------------------------------------------------------------
(* A POLLIN that no completed read has come after still holds. *)
FreshInv == (fresh # {} => condition = 1) /\ ReadAfterPollNeverWaits

PollTypeOK == TypeOK /\ pollin \subseteq Proc /\ fresh \subseteq Proc

(* The inductive invariant of the driver, its waiting readers and polltest. *)
IInv == PollTypeOK /\ SemInv /\ WakeInv /\ DataInv /\ FreshInv
==============================================================================
