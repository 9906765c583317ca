-------------------------- MODULE CompletionCharDrv --------------------------
(***************************************************************************)
(* The sample char driver whose read waits for a completion that write     *)
(* signals (src/day_03/ex9.c).  Neither handler takes a lock.              *)
(*                                                                         *)
(* The kernel's completion is a count of events and a FIFO of sleepers:    *)
(* complete() counts one event and wakes the first task that sleeps;       *)
(* wait_for_completion() takes an event, and a woken task that finds the   *)
(* event already taken by a newcomer sleeps again where it was.            *)
(***************************************************************************)
EXTENDS CharDrvOps, Sequences, FiniteSets

CONSTANTS MaxWrites    \* bound on the writes of a behaviour

ASSUME CompletionAssumption == IsFiniteSet(Proc)

VARIABLES
  setup_done,  \* setup_done.done: events that no read has taken yet
  wait,        \* setup_done.wait: tasks in wait_for_completion that queued
  wrote,       \* history: writes whose copy has ended
  started      \* history: reads that got past wait_for_completion

cvars == <<setup_done, wait, wrote, started>>
vars == <<callvars, cvars>>

Goto(p, l) == pc' = [pc EXCEPT ![p] = l]
Keep == UNCHANGED <<buffer, op, count, ubuf, idx>>

Init ==
  /\ CallInit
  /\ setup_done = 0 /\ wait = <<>>
  /\ wrote = 0 /\ started = 0

TakeEvent(p) ==
  /\ setup_done > 0
  /\ setup_done' = setup_done - 1
  /\ started' = started + 1
  /\ Goto(p, "copy")

(* The queue without its entry i. *)
Unlinked(i) == [j \in 1 .. Len(wait) - 1 |-> IF j < i THEN wait[j] ELSE wait[j + 1]]

wait_for_completion(p) ==
  /\ \/ pc[p] = "wait" /\ TakeEvent(p) /\ UNCHANGED wait
     \/ /\ pc[p] = "wait" /\ setup_done = 0
        /\ wait' = Append(wait, p)
        /\ Goto(p, "asleep")
        /\ UNCHANGED <<setup_done, started>>
     \/ /\ pc[p] = "woken" /\ TakeEvent(p)
        /\ \E i \in DOMAIN wait : wait[i] = p /\ wait' = Unlinked(i)
     \/ /\ pc[p] = "woken" /\ setup_done = 0
        /\ Goto(p, "asleep")
        /\ UNCHANGED <<setup_done, wait, started>>
  /\ Keep /\ UNCHANGED wrote

sample_char_drv_read(p) ==
  /\ op[p] = "read"
  /\ \/ wait_for_completion(p)
     \/ copy_to_user(p, "user") /\ UNCHANGED cvars

(* q is the task that complete() wakes. *)
FirstSleeper(q) ==
  \E i \in DOMAIN wait : /\ wait[i] = q /\ pc[q] = "asleep"
                         /\ \A j \in 1 .. i - 1 : pc[wait[j]] # "asleep"

(* Mutant: complete() counts the event and wakes nobody. *)
complete_NoWake(p) ==
  /\ pc[p] = "complete"
  /\ setup_done' = setup_done + 1
  /\ Goto(p, "user")
  /\ Keep /\ UNCHANGED <<wait, wrote, started>>

(* Mutant: complete_all() in place of complete(). *)
complete_All(p) ==
  /\ pc[p] = "complete"
  /\ setup_done' = setup_done + Cardinality(Proc)
  /\ pc' = [q \in Proc |-> IF q = p THEN "user" ELSE IF pc[q] = "asleep" THEN "woken" ELSE pc[q]]
  /\ Keep /\ UNCHANGED <<wait, wrote, started>>

complete(p) ==
  /\ pc[p] = "complete"
  /\ setup_done' = setup_done + 1
  /\ pc' = [q \in Proc |-> IF q = p THEN "user" ELSE IF FirstSleeper(q) THEN "woken" ELSE pc[q]]
  /\ Keep /\ UNCHANGED <<wait, wrote, started>>

sample_char_drv_write(p) ==
  /\ op[p] = "write"
  /\ \/ /\ copy_from_user(p, "complete")
        /\ wrote' = IF pc'[p] = "complete" THEN wrote + 1 ELSE wrote
        /\ UNCHANGED <<setup_done, wait, started>>
     \/ complete(p)

Writing == {p \in Proc : op[p] = "write" /\ pc[p] = "copy"}

Enter(p) ==
  /\ \/ \E n \in Counts : Call(p, "read", n, Blank, "wait")
     \/ /\ wrote + Cardinality(Writing) < MaxWrites
        /\ \E n \in Counts, d \in Image : Call(p, "write", n, d, "copy")
  /\ UNCHANGED cvars

Next == \E p \in Proc : Enter(p) \/ sample_char_drv_read(p) \/ sample_char_drv_write(p)

Spec == Init /\ [][Next]_vars

(* The scheduler runs every process that is not asleep. *)
FairSpec == Spec /\ \A p \in Proc :
  WF_vars(sample_char_drv_read(p)) /\ WF_vars(sample_char_drv_write(p))
------------------------------------------------------------------------------
Asleep == {p \in Proc : pc[p] = "asleep"}
Woken  == {p \in Proc : pc[p] = "woken"}

(* "we are waiting at read, write will give us data": each read that got     *)
(* past its wait has a write of its own that has copied its data before,     *)
(* whichever reader was woken and whichever got the event.  So no read       *)
(* copies while the data is still on its way, and no two for one write.      *)
ReadHasItsWrite == started <= wrote

(* No reader sleeps on an event that nobody is going to take: for every      *)
(* event not yet taken a woken reader is on its way, even though newcomers   *)
(* may take events before the readers woken for them.                        *)
NoStrandedReader == Asleep # {} => setup_done <= Cardinality(Woken)

(* A reader is either served or there is nothing to be had: an untaken event *)
(* does not stay while the same reader waits.                                *)
EventsAreTaken ==
  \A p \in Proc : (setup_done > 0 /\ pc[p] \in {"wait", "asleep", "woken"}) ~>
                  (setup_done = 0 \/ pc[p] \notin {"wait", "asleep", "woken"})
------------------------------------------------------------------------------
CountTypes ==
  /\ pc \in [Proc -> {"user", "wait", "asleep", "woken", "copy", "complete", "oob"}]
  /\ setup_done \in Nat /\ wrote \in Nat /\ started \in Nat
  /\ wait \in Seq(Proc)

Linked(p) == \E i \in DOMAIN wait : wait[i] = p

(* Every write that has copied its data has signalled or is about to, and    *)
(* every event it signalled was taken or is still there.                     *)
Completing == {p \in Proc : pc[p] = "complete"}
EventInv == setup_done + started + Cardinality(Completing) = wrote

(* The inductive invariant: besides the balance of the events, every reader  *)
(* that sleeps or was woken is still linked into the completion's queue, so  *)
(* complete() finds a sleeper whenever there is one.                         *)
IInv ==
  /\ CountTypes
  /\ EventInv
  /\ \A p \in Proc : pc[p] \in {"asleep", "woken"} => Linked(p)
  /\ NoStrandedReader
==============================================================================
