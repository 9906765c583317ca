------------------------------- MODULE TinyTty -------------------------------
(***************************************************************************)
(* The tiny tty driver (src/day_12/ex29.c), one of its ports: the ports    *)
(* share nothing.  Opening a port for the first time allocates its         *)
(* tiny_serial and its timer; the timer's function sends a character and   *)
(* starts the timer again; closing it for the last time stops the timer;   *)
(* unloading frees both.                                                   *)
(*                                                                         *)
(* From the tty core (outside this repository): open and close of a port   *)
(* run under its tty_lock and everything else does not; a failing open is  *)
(* followed by a close; the tty_struct lives from the first open to the    *)
(* last close; an open file pins the module.  A timer's function never     *)
(* runs twice at once.  del_timer removes a pending timer and does not     *)
(* wait for a running function; add_timer on a pending timer is a BUG.     *)
(*                                                                         *)
(* A step that kills the machine records why in oops and ends the          *)
(* behaviour.                                                              *)
(***************************************************************************)
EXTENDS Naturals, FiniteSets

CONSTANTS
  Proc,     \* processes that use the port
  None      \* nobody

ASSUME TinyTtyAssumption == None \notin Proc /\ IsFiniteSet(Proc)

VARIABLES
  module,       \* "live", "exit", "free" (steps of tiny_exit), "gone"
  tty_lock,     \* the holder of the port's tty_lock, or None
  refs,         \* processes that keep the tty_struct alive
  driver_data,  \* is tty->driver_data set?
  tiny,         \* tiny_table[index]: "null", "there" or "freed"
  open_count,   \* tiny->open_count
  sem,          \* tiny->sem is held
  tty,          \* does tiny->tty point to a tty_struct that exists?
  timer,        \* tiny->timer: "null", "fresh" (not yet added), "idle" or "pending"
  func,         \* tiny_timer: "none", or the step it is at
  func_tty,     \* does its local tty point to a tty_struct that exists?
  mcr,          \* tiny->mcr: the bits that are set
  files,        \* processes that have the port open
  pc,           \* where each process is
  reg,          \* tiny_tiocmset's local mcr
  nomem,        \* history: the allocations that have failed ("tiny", "timer")
  overtaken,    \* history: tiny_timer was running at the latest del_timer
  oops          \* "none", or what the machine died of

portvars  == <<driver_data, tiny, open_count, sem, tty, timer, mcr>>
funcvars  == <<func, func_tty>>
corevars  == <<module, tty_lock, refs, files>>
histvars  == <<nomem, overtaken>>
vars == <<portvars, funcvars, corevars, histvars, pc, reg, oops>>

Bits == {"RTS", "DTR"}

Init ==
  /\ module = "live" /\ tty_lock = None /\ refs = {} /\ files = {}
  /\ driver_data = FALSE /\ tiny = "null" /\ open_count = 0 /\ sem = FALSE
  /\ tty = FALSE /\ timer = "null" /\ mcr = {}
  /\ func = "none" /\ func_tty = FALSE
  /\ pc = [p \in Proc |-> "user"] /\ reg = [p \in Proc |-> {}]
  /\ nomem = {} /\ overtaken = FALSE
  /\ oops = "none"

Goto(p, l) == pc' = [pc EXCEPT ![p] = l]
(* Every step of the system is one or the other. *)
Oops(why) == oops = "none" /\ oops' = why
Fine == oops = "none" /\ oops' = "none"
-----------------------------------------------------------------------------
(* The tty core starts an open: it finds or makes the tty_struct. *)
tty_open(p) ==
  /\ pc[p] = "user" /\ p \notin files
  /\ module = "live" /\ tty_lock = None
  /\ tty_lock' = p /\ refs' = refs \cup {p}
  /\ Goto(p, "open")
  /\ Fine /\ UNCHANGED <<portvars, funcvars, histvars, module, files, reg>>

(* Back in the core with 0 or an error; an error is followed by a close. *)
Opened(p) ==
  /\ tty_lock' = None /\ files' = files \cup {p}
  /\ Goto(p, "user")
  /\ UNCHANGED <<module, refs>>
OpenFailed(p) ==
  /\ tty_lock' = None
  /\ Goto(p, "release")
  /\ UNCHANGED <<module, refs, files>>

(* tiny_open up to down(): driver_data is cleared, a first user allocates. *)
LookUp(p) ==
  /\ pc[p] = "open"
  /\ driver_data' = FALSE
  /\ \/ /\ tiny = "null"                            \* -ENOMEM
        /\ nomem' = nomem \cup {"tiny"}
        /\ OpenFailed(p)
        /\ UNCHANGED <<tiny, open_count, timer, mcr>>
     \/ /\ tiny = "null"
        /\ tiny' = "there" /\ open_count' = 0 /\ timer' = "null"
        /\ mcr' \in SUBSET Bits                     \* kmalloc does not clear it
        /\ Goto(p, "down") /\ UNCHANGED <<corevars, nomem>>
     \/ /\ tiny # "null"
        /\ Goto(p, "down")
        /\ UNCHANGED <<tiny, open_count, timer, mcr, corevars, nomem>>
  /\ Fine /\ UNCHANGED <<sem, tty, funcvars, overtaken, reg>>

(* Mutant: a failing allocation of the timer does not count the open. *)
Count_NotOnFailure(p) ==
  /\ pc[p] = "down" /\ ~ sem
  /\ driver_data' = TRUE /\ tty' = TRUE
  /\ \/ /\ open_count = 0 /\ timer = "null"
        /\ nomem' = nomem \cup {"timer"}
        /\ OpenFailed(p)
        /\ UNCHANGED <<sem, timer, open_count>>
     \/ /\ open_count = 0
        /\ timer' = IF timer = "null" THEN "fresh" ELSE timer
        /\ sem' = TRUE /\ open_count' = open_count + 1
        /\ Goto(p, "add") /\ UNCHANGED <<corevars, nomem>>
     \/ /\ open_count # 0 /\ open_count' = open_count + 1
        /\ Opened(p)
        /\ UNCHANGED <<sem, timer, nomem>>
  /\ Fine /\ UNCHANGED <<tiny, mcr, funcvars, overtaken, reg>>

(* The rest of it under the semaphore, up to add_timer. *)
Count(p) ==
  /\ pc[p] = "down" /\ ~ sem
  /\ driver_data' = TRUE /\ tty' = TRUE
  /\ open_count' = open_count + 1
  /\ \/ /\ open_count = 0 /\ timer = "null"         \* -ENOMEM
        /\ nomem' = nomem \cup {"timer"}
        /\ OpenFailed(p)
        /\ UNCHANGED <<sem, timer>>
     \/ /\ open_count = 0
        /\ timer' = IF timer = "null" THEN "fresh" ELSE timer
        /\ sem' = TRUE
        /\ Goto(p, "add") /\ UNCHANGED <<corevars, nomem>>
     \/ /\ open_count # 0
        /\ Opened(p)
        /\ UNCHANGED <<sem, timer, nomem>>
  /\ Fine /\ UNCHANGED <<tiny, mcr, funcvars, overtaken, reg>>

(* add_timer: what a timer that init_timer never saw does is undefined. *)
add_timer ==
  \/ timer # "pending" /\ timer' = "pending" /\ Fine
  \/ timer = "fresh" /\ Oops("uninitialised timer") /\ UNCHANGED timer
  \/ timer = "pending" /\ Oops("timer added twice") /\ UNCHANGED timer

Start(p) ==
  /\ pc[p] = "add"
  /\ add_timer
  /\ sem' = FALSE
  /\ Opened(p)
  /\ UNCHANGED <<driver_data, tiny, open_count, tty, mcr, funcvars, histvars, reg>>

tiny_open(p) == LookUp(p) \/ Count(p) \/ Start(p)
-----------------------------------------------------------------------------
(* A program closes the port. *)
tty_release(p) ==
  /\ pc[p] = "user" /\ p \in files
  /\ files' = files \ {p}
  /\ Goto(p, "release")
  /\ Fine /\ UNCHANGED <<portvars, funcvars, histvars, module, tty_lock, refs, reg>>

(* del_timer(tiny->timer) *)
del_timer ==
  \/ timer = "null" /\ Oops("no timer") /\ UNCHANGED <<timer, overtaken>>
  \/ /\ timer # "null" /\ Fine
     /\ timer' = IF timer = "pending" THEN "idle" ELSE timer
     /\ overtaken' = (func # "none")

(* Mutant: the last close leaves the timer alone. *)
do_close_NoDel ==
  /\ open_count' = IF open_count = 0 THEN 0 ELSE open_count - 1
  /\ Fine /\ UNCHANGED <<timer, overtaken>>

(* Mutant: the test for a port that was never opened is missing. *)
do_close_NoTest ==
  /\ open_count' = open_count - 1
  /\ IF open_count <= 1 THEN del_timer ELSE Fine /\ UNCHANGED <<timer, overtaken>>

(* Between down and up nothing but del_timer is seen from outside. *)
do_close ==
  IF open_count = 0 THEN Fine /\ UNCHANGED <<open_count, timer, overtaken>>
  ELSE /\ open_count' = open_count - 1
       /\ IF open_count = 1 THEN del_timer ELSE Fine /\ UNCHANGED <<timer, overtaken>>

tiny_close(p) ==
  /\ pc[p] = "release" /\ tty_lock = None
  /\ IF driver_data THEN ~ sem /\ do_close
                    ELSE Fine /\ UNCHANGED <<open_count, timer, overtaken>>
  /\ tty_lock' = p
  /\ Goto(p, "drop")
  /\ UNCHANGED <<driver_data, tiny, sem, tty, mcr, funcvars, module, refs, files, nomem, reg>>

(* The core drops its reference; the last one frees the tty_struct. *)
release_tty(p) ==
  /\ pc[p] = "drop"
  /\ refs' = refs \ {p} /\ tty_lock' = None
  /\ IF refs' = {} THEN driver_data' = FALSE /\ tty' = FALSE /\ func_tty' = FALSE
                   ELSE UNCHANGED <<driver_data, tty, func_tty>>
  /\ Goto(p, "user")
  /\ Fine /\ UNCHANGED <<tiny, open_count, sem, timer, mcr, func, module, files, histvars, reg>>
-----------------------------------------------------------------------------
(* The timer expires. *)
Expire ==
  /\ timer = "pending" /\ func = "none"
  /\ IF tiny = "freed" THEN Oops("freed memory") ELSE Fine
  /\ timer' = "idle" /\ func' = "load"
  /\ UNCHANGED <<driver_data, tiny, open_count, sem, tty, mcr, func_tty, corevars, histvars, pc, reg>>

(* Mutant: tiny_timer does not start the timer again. *)
tiny_timer_Once ==
  /\ \/ /\ func = "load" /\ func' = "push" /\ func_tty' = tty
        /\ Fine /\ UNCHANGED timer
     \/ /\ func = "push"
        /\ IF func_tty THEN Fine ELSE Oops("freed memory")
        /\ func' = "none" /\ UNCHANGED <<timer, func_tty>>
  /\ UNCHANGED <<driver_data, tiny, open_count, sem, tty, mcr, corevars, histvars, pc, reg>>

(* tiny_timer: tty = tiny->tty, a character into it, add_timer. *)
tiny_timer ==
  /\ \/ /\ func = "load"
        /\ IF tiny = "freed" THEN Oops("freed memory") ELSE Fine
        /\ func' = "push" /\ func_tty' = tty
        /\ UNCHANGED timer
     \/ /\ func = "push"
        /\ IF func_tty THEN Fine ELSE Oops("freed memory")
        /\ func' = "add" /\ UNCHANGED <<timer, func_tty>>
     \/ /\ func = "add"
        /\ IF tiny = "freed" THEN Oops("freed memory") /\ UNCHANGED timer ELSE add_timer
        /\ func' = "none" /\ UNCHANGED func_tty
  /\ UNCHANGED <<driver_data, tiny, open_count, sem, tty, mcr, corevars, histvars, pc, reg>>
-----------------------------------------------------------------------------
(* tiny_write and tiny_write_room: -ENODEV without driver_data, else under the semaphore. *)
tiny_write(p) ==
  /\ pc[p] = "user" /\ p \in files
  /\ driver_data => ~ sem
  /\ Fine /\ UNCHANGED <<portvars, funcvars, corevars, histvars, pc, reg>>

(* A handler that only looks at tiny: through a NULL driver_data it crashes. *)
Look(p) ==
  /\ pc[p] = "user" /\ p \in files
  /\ IF driver_data THEN Fine ELSE Oops("driver_data")
  /\ UNCHANGED <<portvars, funcvars, corevars, histvars, pc, reg>>

tiny_tiocmget(p) == Look(p)
tiny_ioctl_tiocgicount(p) == Look(p)

(* TIOCGSERIAL: a NULL argument is refused before tiny is looked at. *)
tiny_ioctl_tiocgserial(p) ==
  \/ Look(p)
  \/ /\ pc[p] = "user" /\ p \in files
     /\ Fine /\ UNCHANGED <<portvars, funcvars, corevars, histvars, pc, reg>>

(* TIOCMIWAIT: wait was never initialised, icount never changes; a signal ends it. *)
tiny_ioctl_tiocmiwait(p) ==
  /\ \/ /\ pc[p] = "user" /\ p \in files
        /\ \/ driver_data /\ Fine /\ Goto(p, "miwait")
           \/ driver_data /\ Oops("wait queue") /\ UNCHANGED pc
           \/ ~ driver_data /\ Oops("driver_data") /\ UNCHANGED pc
     \/ pc[p] = "miwait" /\ Fine /\ Goto(p, "user")
  /\ UNCHANGED <<portvars, funcvars, corevars, histvars, reg>>

tiny_ioctl(p) ==
  tiny_ioctl_tiocgserial(p) \/ tiny_ioctl_tiocmiwait(p) \/ tiny_ioctl_tiocgicount(p)

(* tiny_tiocmset moves DTR and RTS alike into MCR_RTS. *)
Line(b) == "RTS"
Lines(S) == {Line(b) : b \in S}

tiny_tiocmset(p) ==
  /\ \/ /\ pc[p] = "user" /\ p \in files
        /\ IF driver_data THEN Fine ELSE Oops("driver_data")
        /\ \E set, clear \in SUBSET Bits :
             reg' = [reg EXCEPT ![p] = (mcr \cup Lines(set)) \ Lines(clear)]
        /\ Goto(p, "mset") /\ UNCHANGED mcr
     \/ /\ pc[p] = "mset"
        /\ mcr' = reg[p]
        /\ reg' = [reg EXCEPT ![p] = {}]
        /\ Goto(p, "user") /\ Fine
  /\ UNCHANGED <<driver_data, tiny, open_count, sem, tty, timer, funcvars, corevars, histvars>>
-----------------------------------------------------------------------------
(* tiny_exit: nobody has the port open; unregistered it cannot be opened. *)
tiny_exit ==
  /\ \/ /\ module = "live" /\ refs = {}
        /\ module' = "exit"
        /\ Fine /\ UNCHANGED <<tiny, open_count, timer, overtaken>>
     \/ /\ module = "exit"
        /\ tiny = "null" /\ module' = "gone"
        /\ Fine /\ UNCHANGED <<tiny, open_count, timer, overtaken>>
     \/ /\ module = "exit" /\ tiny = "there" /\ open_count # 0   \* while (open_count) do_close
        /\ do_close
        /\ UNCHANGED <<module, tiny>>
     \/ /\ module = "exit" /\ tiny = "there" /\ open_count = 0
        /\ del_timer
        /\ module' = "free" /\ UNCHANGED <<tiny, open_count>>
     \/ /\ module = "free"                                       \* kfree(timer), kfree(tiny)
        /\ tiny' = "freed" /\ module' = "gone"
        /\ Fine /\ UNCHANGED <<open_count, timer, overtaken>>
  /\ UNCHANGED <<driver_data, sem, tty, mcr, funcvars, tty_lock, refs, files, nomem, pc, reg>>

Handlers(p) == tiny_open(p) \/ tiny_close(p) \/ release_tty(p)

Next ==
  \/ \E p \in Proc : \/ tty_open(p) \/ tiny_open(p) \/ tty_release(p) \/ tiny_close(p)
                     \/ release_tty(p) \/ tiny_write(p) \/ tiny_tiocmget(p)
                     \/ tiny_tiocmset(p) \/ tiny_ioctl(p)
  \/ Expire \/ tiny_timer
  \/ tiny_exit

Spec == Init /\ [][Next]_vars

(* Timers expire, their functions run to the end and open and close are scheduled. *)
FairSpec == Spec /\ WF_vars(Expire \/ tiny_timer)
                 /\ \A p \in Proc : WF_vars(Handlers(p))
-----------------------------------------------------------------------------
TypeOK ==
  /\ module \in {"live", "exit", "free", "gone"}
  /\ tty_lock \in Proc \cup {None} /\ refs \subseteq Proc /\ files \subseteq refs
  /\ driver_data \in BOOLEAN /\ tiny \in {"null", "there", "freed"}
  /\ open_count \in Nat /\ sem \in BOOLEAN /\ tty \in BOOLEAN
  /\ timer \in {"null", "fresh", "idle", "pending"}
  /\ func \in {"none", "load", "push", "add"} /\ func_tty \in BOOLEAN
  /\ mcr \subseteq Bits
  /\ pc \in [Proc -> {"user", "open", "down", "add", "release", "drop", "miwait", "mset"}]
  /\ reg \in [Proc -> SUBSET Bits]
  /\ nomem \subseteq {"tiny", "timer"} /\ overtaken \in BOOLEAN
  /\ oops \in {"none", "uninitialised timer", "timer added twice", "no timer", "freed memory",
               "driver_data", "wait queue"}

(* Opens that tiny_open has counted and no close has taken back. *)
Counted == files \cup {p \in Proc : pc[p] \in {"add", "release"}}

(* "number of times this port has been opened" (ex29.c:49): open_count is    *)
(* the number of open files and of failed opens whose close is still to      *)
(* come, whatever order opens, failures and closes come in.  Only an open    *)
(* that found no memory for the tiny_serial is closed without having been    *)
(* counted.                                                                  *)
OpenCountMatches ==
  "tiny" \notin nomem /\ module = "live" => open_count = Cardinality(Counted)

(* tiny_timer and its timer rest while the port is closed: after the last    *)
(* close, a later failing open, an unload.  The exception is a function that *)
(* the close overtook: do_close uses del_timer, which does not wait for it.  *)
QuietAfterClose ==
  timer = "pending" \/ func # "none" => overtaken \/ (open_count > 0 /\ tiny = "there")

(* Each way to kill the machine needs what makes it possible: a timer added  *)
(* twice, or run on memory that was freed, a tiny_timer overtaken by the     *)
(* last close; del_timer(NULL) a failed allocation of the timer; a handler   *)
(* that finds no driver_data another open between its two assignments of     *)
(* tty->driver_data (ex29.c:97 and 118).  (A timer or a wait queue that was  *)
(* never initialised may do anything at any time.)                           *)
CrashHasCause ==
  /\ oops \in {"timer added twice", "freed memory"} => overtaken
  /\ oops = "no timer" => "timer" \in nomem
  /\ oops = "driver_data" => \E p \in Proc : pc[p] = "down"

(* While the port is open its readers keep getting characters: if it has a   *)
(* timer at all, tiny_timer runs again and again until the last close.       *)
DataArrives ==
  (open_count > 0 /\ timer # "null") ~> (func # "none" \/ open_count = 0 \/ oops # "none")

(* "shut down our timer" (ex29.c:159): after the last close no timer is      *)
(* left.                                                                     *)
TimerStopsWithLastClose == open_count = 0 /\ func = "none" => timer # "pending"
-----------------------------------------------------------------------------
(* Control points under tty_lock, and all those at which a process that has  *)
(* not (or no longer) the port open keeps the tty_struct alive.              *)
Locked == {"open", "down", "add", "drop"}
At(l) == \E p \in Proc : pc[p] = l

RefInv ==
  /\ \A p \in Proc : pc[p] \in Locked <=> tty_lock = p
  /\ \A p \in Proc : p \in refs <=> p \in files \/ pc[p] \in Locked \cup {"release"}
  /\ \A p \in files : pc[p] \in {"user", "miwait", "mset"}
  /\ module # "live" => refs = {}

PortInv ==
  /\ tiny = "null" => /\ open_count = 0 /\ timer = "null" /\ files = {}
                      /\ ~ At("down") /\ ~ At("add")
  /\ tiny = "freed" => module = "gone"
  /\ open_count > 0 => tiny = "there" /\ tty
  /\ At("add") => open_count > 0
  /\ driver_data \/ At("down") \/ (open_count = 0 /\ files = {})
  /\ timer = "null" => func = "none"
  /\ timer = "null" /\ tiny = "there" => "timer" \in nomem \/ (At("down") /\ open_count = 0)

TimerInv ==
  /\ QuietAfterClose
  /\ At("add") /\ (timer = "pending" \/ func # "none") => overtaken
  /\ timer = "pending" /\ func # "none" => overtaken
  /\ func = "push" /\ ~ func_tty => overtaken

CountInv ==
  /\ open_count <= Cardinality(Counted)
  /\ "tiny" \notin nomem => open_count = Cardinality(Counted)

(* The inductive invariant: who holds the tty_lock and the tty_struct        *)
(* (RefInv), what the port looks like between the steps of tiny_open         *)
(* (PortInv), when a running tiny_timer is one that del_timer overtook       *)
(* (TimerInv), and that no close takes back more than the opens counted      *)
(* (CountInv).                                                               *)
IInv == TypeOK /\ RefInv /\ PortInv /\ TimerInv /\ CountInv /\ CrashHasCause
=============================================================================
