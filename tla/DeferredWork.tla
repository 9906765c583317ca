----------------------------- MODULE DeferredWork -----------------------------
(***************************************************************************)
(* Functions of a module that run on their own: the timer of ex15, the     *)
(* works of ex16 and ex17, the tasklet of ex18, the interrupt handler of   *)
(* ex20.  A step of init (ModuleLoad) queues the function, the kernel runs *)
(* it, and exit has to see to it that it never runs once the module is     *)
(* freed.                                                                  *)
(*                                                                         *)
(* From the kernel (outside this repository): del_timer takes a queued     *)
(* timer away and does not wait for a running one; flush_workqueue and     *)
(* destroy_workqueue, tasklet_kill and free_irq wait; on a multiprocessor  *)
(* tasklet_disable waits until the tasklet is not running, on a            *)
(* uniprocessor it does not wait.                                          *)
(***************************************************************************)
EXTENDS ModuleLoad

VARIABLES
  act,        \* the module's function: "off", "queued" or "running"
  stray,      \* a function of a module that was freed is queued or running
  overtaken,  \* history: exit has called del_timer while the function was running
  crashed,    \* the machine is dead
  smp         \* does the machine have several CPUs?

actvars == <<act, stray, overtaken, crashed, smp>>
allvars == <<vars, actvars>>

InitAll ==
  /\ Init
  /\ act = "off" /\ stray = FALSE /\ overtaken = FALSE /\ crashed = FALSE
  /\ smp \in BOOLEAN

Quiet == UNCHANGED actvars

(* add_timer, schedule_work, queue_work, tasklet_schedule *)
Queues == {"my_timer", "workq", "my_tasklet"}

(* A step of init; queue_work on the workqueue that create_workqueue did not return. *)
InitStep ==
  /\ ~ crashed /\ Acquire
  /\ act' = IF init[at].res \in Queues THEN "queued" ELSE act
  /\ crashed' = (drv = "ex17" /\ init[at].res = "workq" /\ "wq" \notin held)
  /\ UNCHANGED <<stray, overtaken, smp>>

(* A step of exit or of an error path: the calls that wait, and del_timer. *)
Waits == {"workq", "wq", "my_tasklet"}

ExitStep ==
  /\ ~ crashed /\ Release
  /\ Head(todo) \in Waits => act = "off"
  /\ Head(todo) = "irq" => act # "running"
  /\ act' = IF Head(todo) = "my_timer" /\ act = "queued" THEN "off" ELSE act
  /\ overtaken' = (overtaken \/ (Head(todo) = "my_timer" /\ act = "running"))
  /\ UNCHANGED <<stray, crashed, smp>>

Freed ==
  /\ ~ crashed /\ Gone
  /\ stray' = (stray \/ act # "off") /\ act' = "off"
  /\ UNCHANGED <<overtaken, crashed, smp>>

Other == ~ crashed /\ Quiet /\ (insmod \/ Fail \/ FailUnnoticed \/ Loaded \/ rmmod \/ open \/ close)

(* The kernel calls the function: once for each time it was queued, or at any interrupt. *)
Run ==
  /\ ~ crashed
  /\ act = "queued" \/ (act = "off" /\ "irq" \in held)
  /\ act' = "running"
  /\ UNCHANGED <<vars, stray, overtaken, crashed, smp>>

(* Mutant: tasklet_disable waits on every machine. *)
tasklet_disable_Always == drv # "ex18"

(* my_tasklet_handler's tasklet_disable: does it come back? *)
tasklet_disable == drv = "ex18" => ~ smp

Return ==
  /\ ~ crashed
  /\ act = "running" /\ tasklet_disable
  /\ act' = "off"
  /\ UNCHANGED <<vars, stray, overtaken, crashed, smp>>

(* The function's code is no longer there. *)
Crash ==
  /\ ~ crashed /\ stray
  /\ crashed' = TRUE
  /\ UNCHANGED <<vars, act, stray, overtaken, smp>>

NextAll == InitStep \/ ExitStep \/ Freed \/ Other \/ Run \/ Return \/ Crash

LoadSpec == InitAll /\ [][NextAll]_allvars

(* rmmod runs on, a queued function is run and a running one goes on; the    *)
(* calls that wait for it see it end although it may run again.              *)
SpecAll ==
  /\ LoadSpec
  /\ SF_allvars(ExitStep) /\ WF_allvars(Freed)
  /\ WF_allvars(Run /\ "irq" \notin held) /\ WF_allvars(Return)
-------------------------------------------------------------------------------
(* No function outlives its module, however loading, unloading and its runs  *)
(* interleave, but the work of ex16, for which exit does not wait, and the   *)
(* timer function of ex15 that was running at del_timer.                     *)
HandlerHasModule ==
  /\ stray => drv = "ex16" \/ (drv = "ex15" /\ overtaken)
  /\ crashed /\ ~ stray => drv = "ex17"

(* Every unload comes to its end, except that of the tasklet on a            *)
(* multiprocessor: its handler's tasklet_disable waits for the handler       *)
(* itself, and tasklet_kill for both.                                        *)
UnloadEnds ==
  (phase = "going" /\ ~ (drv = "ex18" /\ smp)) ~> (phase = "absent" \/ crashed)

(* The exception is real: the handler that has begun there never ends and    *)
(* the module never goes.                                                    *)
Hung == drv = "ex18" /\ smp /\ act = "running"
TaskletHangs == [][Hung => Hung' /\ phase' # "absent"]_allvars
-------------------------------------------------------------------------------
(* The resources that make the kernel call a function of the module. *)
Functions == Queues \cup {"irq"}

(* A function is queued or runs only while the module holds what it was      *)
(* started with, but for the timer function that del_timer did not wait for. *)
ActInv ==
  /\ act \in {"off", "queued", "running"} /\ stray \in BOOLEAN
  /\ overtaken \in BOOLEAN /\ crashed \in BOOLEAN
  /\ act = "queued" => held \cap Queues # {}
  /\ act = "running" => held \cap Functions # {} \/ (drv = "ex15" /\ overtaken)

(* ex17 looks at no result, but queue_work without a workqueue is the end of *)
(* it: whoever gets to exit has one to destroy.                              *)
WorkqueueInv ==
  drv = "ex17" =>
    /\ crashed => phase = "coming"
    /\ ~ crashed /\ phase # "absent" /\ at > 2 /\ "wq" \notin Released => "wq" \in held

(* The inductive invariant of loading, unloading and the deferred functions. *)
LoadIInv ==
  /\ TypeOK /\ HeldInv /\ FilesInv /\ LeaksKnown
  /\ ActInv /\ WorkqueueInv /\ HandlerHasModule
===============================================================================
