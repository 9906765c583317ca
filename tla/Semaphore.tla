------------------------------ MODULE Semaphore ------------------------------
(***************************************************************************)
(* The kernel's counting semaphore (<linux/semaphore.h>, outside this      *)
(* repository), as the drivers use it.  down() takes a unit or joins the   *)
(* end of wait_list and sleeps; up() hands its unit to the first sleeper,  *)
(* which then owns the semaphore, and only counts up when nobody sleeps.   *)
(***************************************************************************)
EXTENDS Naturals, Sequences

sema_init(n) == [count |-> n, wait_list |-> <<>>]

Available(s) == s.count > 0

Taken(s) == [s EXCEPT !.count = @ - 1]

Queued(s, p) == [s EXCEPT !.wait_list = Append(@, p)]

Released(s) ==
  IF s.wait_list = <<>> THEN [s EXCEPT !.count = @ + 1]
                        ELSE [s EXCEPT !.wait_list = Tail(@)]

(* p is the sleeper that up() hands the semaphore to. *)
IsNext(s, p) == s.wait_list # <<>> /\ p = Head(s.wait_list)
===============================================================================
