------------------------------ MODULE ModuleLoad ------------------------------
(***************************************************************************)
(* Loading and unloading the example modules.  Each init function acquires *)
(* resources in an order of its own, undoes some of them when a step fails *)
(* and publishes an entry point at some step; each exit function releases  *)
(* resources in an order of its own.  A driver is described by its script: *)
(* the steps of init, the releases of exit, the resource that lets user    *)
(* programs open the device, and what its file operations use.             *)
(*                                                                         *)
(* From the kernel (outside this repository): open succeeds on a published *)
(* entry point unless the module is going away, an open file pins the      *)
(* module, and rmmod needs a module that nobody pins.                      *)
(***************************************************************************)
EXTENDS Integers, Sequences

CONSTANTS
  Drivers,     \* names of the examples loaded
  MaxFiles,    \* bound on open files
  EarlyOpen    \* the examples that a program may open before insmod returns

(* A step whose failure makes init release undo, in order, and return an error. *)
Check(r, undo) == [res |-> r, fail |-> "unwind", undo |-> undo, left |-> {}]
(* A step that may leave something of itself when init takes it for failed. *)
CheckLeaving(r, undo, left) == [res |-> r, fail |-> "unwind", undo |-> undo, left |-> left]
(* A step that may fail without init looking at the result. *)
Ignore(r) == [res |-> r, fail |-> "ignore", undo |-> <<>>, left |-> {}]
(* A step that cannot fail. *)
Sure(r) == [res |-> r, fail |-> "never", undo |-> <<>>, left |-> {}]

(* Objects in the module's own data, which go away with it. *)
Static == {"sem", "setup_done", "the_lock", "wt_queue", "lock", "my_timer", "workq", "my_tasklet"}

(* Mutant: the failure labels of the char drivers skip cdev_del. *)
CharInit_NoDel(more) ==
  << Check("region", <<>>),
     Check("cdev_struct", <<"region">>),
     Check("cdev", <<"region">>),
     Check("buffer", <<"region">>) >> \o more

(***************************************************************************)
(* The sample char drivers.  cdev_alloc's structure is re-initialised by   *)
(* cdev_init, after which cdev_del no longer frees it: cdev_struct is only *)
(* ever acquired.  cdev_del in fail2 undoes a cdev_add that failed.        *)
(***************************************************************************)
CharInit(more) ==
  << Check("region", <<>>),
     Check("cdev_struct", <<"region">>),
     Check("cdev", <<"cdev", "region">>),
     Check("buffer", <<"cdev", "region">>) >> \o more

CharDrv(more, uses) ==
  [init |-> CharInit(more), exit |-> <<"cdev", "region", "buffer">>,
   public |-> "cdev", needs |-> {"buffer"} \cup uses]

ex3  == CharDrv(<<>>, {})
ex4  == CharDrv(<<>>, {})
ex7  == CharDrv(<<Sure("sem")>>, {"sem"})
ex8  == CharDrv(<<>>, {})
ex9  == CharDrv(<<Sure("setup_done")>>, {"setup_done"})
ex10 == CharDrv(<<Sure("sem"), Sure("the_lock")>>, {"sem", "the_lock"})
ex11 == CharDrv(<<Sure("sem")>>, {"sem"})
ex12 == CharDrv(<<Sure("sem"), Sure("wt_queue")>>, {"sem", "wt_queue"})
ex13 == CharDrv(<<Sure("sem"), Sure("wt_queue")>>, {"sem", "wt_queue"})
ex14 == CharDrv(<<Sure("sem"), Sure("wt_queue")>>, {"sem", "wt_queue"})

(* /proc/mydev: the result of proc_create is not looked at. *)
ProcEntry == [init |-> <<Ignore("ent")>>, exit |-> <<"ent">>, public |-> "ent", needs |-> {}]
ex5 == ProcEntry
ex6 == ProcEntry

(* Examples that start a function which runs later: see DeferredWork. *)
ex15 == [init |-> <<Sure("my_timer")>>, exit |-> <<"my_timer">>, public |-> "none", needs |-> {}]
ex16 == [init |-> <<Sure("workq")>>, exit |-> <<>>, public |-> "none", needs |-> {}]

(* Mutant: exit leaves the queue alone. *)
ex17_NoFlush ==
        [init |-> <<Ignore("wq"), Sure("workq")>>, exit |-> <<>>,
         public |-> "none", needs |-> {}]

ex17 == [init |-> <<Ignore("wq"), Sure("workq")>>, exit |-> <<"workq", "wq">>,
         public |-> "none", needs |-> {}]
ex18 == [init |-> <<Sure("my_tasklet")>>, exit |-> <<"my_tasklet">>,
         public |-> "none", needs |-> {}]

ex19 == [init |-> <<Check("vptr", <<>>), Check("kptr", <<>>)>>,
         exit |-> <<"vptr", "kptr">>, public |-> "none", needs |-> {}]

ex20 == [init |-> <<Check("irq", <<>>)>>, exit |-> <<"irq">>, public |-> "none", needs |-> {}]

(* Drivers whose devices come and go through probe and remove. *)
ex22 == [init |-> <<Check("pci_driver", <<>>)>>, exit |-> <<"pci_driver">>,
         public |-> "none", needs |-> {}]
ex23 == [init |-> <<Check("usb_driver", <<>>)>>, exit |-> <<"usb_driver">>,
         public |-> "usb_driver", needs |-> {}]

(* A device_register that fails wants a put_device, which nobody calls: the  *)
(* name of the device stays.                                                 *)
ex24 == [init |-> << Check("bus", <<>>),
                     Ignore("bus_attr"),
                     CheckLeaving("ldd_bus", <<>>, {"ldd_bus_name"}) >>,
         exit |-> <<"ldd_bus", "bus_attr", "bus">>, public |-> "none", needs |-> {}]

(* ldd_register_device and ldd_register_driver are in ex24. *)
ex25 == [init |-> <<CheckLeaving("ldd_device", <<>>, {"ldd_device_name"})>>,
         exit |-> <<"ldd_device">>, public |-> "none", needs |-> {}]
ex26 == [init |-> <<Check("ldd_driver", <<>>), Check("version_attr", <<>>)>>,
         exit |-> <<"version_attr", "ldd_driver">>, public |-> "none", needs |-> {}]

ex27 == [init |-> << Check("region", <<>>),
                     Check("cdev_struct", <<"region">>),
                     Check("cdev", <<"cdev", "region">>),
                     Ignore("class"), Ignore("device"), Ignore("buffer") >>,
         exit |-> <<"device", "class", "cdev", "region", "buffer">>,
         public |-> "cdev", needs |-> {"buffer"}]

(* Mutant: tiny_init gives up when tty_register_device fails, although the   *)
(* driver has been registered.                                               *)
ex29_CheckDevice ==
        [init |-> << Check("tty_driver_struct", <<>>),
                     Check("tty_driver", <<"tty_driver_struct">>),
                     Check("tty_device", <<"tty_driver", "tty_driver_struct">>) >>,
         exit |-> <<"tty_device", "tty_driver">>,
         public |-> "tty_driver", needs |-> {"tty_driver_struct"}]

(* tiny_exit has no put_tty_driver: unregistering does not free the structure. *)
ex29 == [init |-> << Check("tty_driver_struct", <<>>),
                     Check("tty_driver", <<"tty_driver_struct">>),
                     Ignore("tty_device") >>,
         exit |-> <<"tty_device", "tty_driver">>,
         public |-> "tty_driver", needs |-> {"tty_driver_struct"}]

(* Mutant: a failing register_blkdev jumps to out_unregister. *)
ex30_WrongLabel ==
        [init |-> << Sure("lock"),
                     Check("data", <<>>),
                     Check("Queue", <<"data">>),
                     Check("blkdev", <<"blkdev", "data">>),
                     Check("gd", <<"blkdev", "data">>),
                     Sure("disk") >>,
         exit |-> <<"disk", "gd", "blkdev", "Queue", "data">>,
         public |-> "disk", needs |-> {"lock", "data", "Queue", "gd"}]

(* Mutant: the disk is added before its queue exists. *)
ex30_AddDiskEarly ==
        [init |-> << Sure("lock"),
                     Check("data", <<>>),
                     Check("blkdev", <<"data">>),
                     Check("gd", <<"blkdev", "data">>),
                     Sure("disk"),
                     Check("Queue", <<"blkdev", "data">>) >>,
         exit |-> <<"disk", "gd", "blkdev", "Queue", "data">>,
         public |-> "disk", needs |-> {"lock", "data", "Queue", "gd"}]

(* Loaded with a major_num of its own, register_blkdev returns 0 on success, *)
(* which sbd_init takes for a failure: the major number stays registered.    *)
ex30 == [init |-> << Sure("lock"),
                     Check("data", <<>>),
                     Check("Queue", <<"data">>),
                     CheckLeaving("blkdev", <<"data">>, {"blkdev"}),
                     Check("gd", <<"blkdev", "data">>),
                     Sure("disk") >>,
         exit |-> <<"disk", "gd", "blkdev", "Queue", "data">>,
         public |-> "disk", needs |-> {"lock", "data", "Queue", "gd"}]

ex31 == [init |-> CharInit(<< Sure("sem"),
                              Check("adc_virtual_address", <<"cdev", "region">>) >>),
         exit |-> <<"adc_virtual_address", "cdev", "region", "buffer">>,
         public |-> "cdev", needs |-> {"buffer", "sem", "adc_virtual_address"}]

Script ==
  [ex3 |-> ex3, ex4 |-> ex4, ex5 |-> ex5, ex6 |-> ex6, ex7 |-> ex7, ex8 |-> ex8,
   ex9 |-> ex9, ex10 |-> ex10, ex11 |-> ex11, ex12 |-> ex12, ex13 |-> ex13,
   ex14 |-> ex14, ex15 |-> ex15, ex16 |-> ex16, ex17 |-> ex17, ex18 |-> ex18,
   ex19 |-> ex19, ex20 |-> ex20, ex22 |-> ex22, ex23 |-> ex23,
   ex24 |-> ex24, ex25 |-> ex25, ex26 |-> ex26, ex27 |-> ex27, ex29 |-> ex29,
   ex30 |-> ex30, ex31 |-> ex31]

ASSUME ModuleLoadAssumption == Drivers \subseteq DOMAIN Script /\ MaxFiles \in Nat
-------------------------------------------------------------------------------
VARIABLES
  drv,      \* the example that is loaded and unloaded
  phase,    \* "absent", "coming" (in init), "unwind", "live", "going" (in exit)
  at,       \* the step of init reached
  todo,     \* releases that unwind or exit still has to do
  held,     \* resources the module holds
  leaked,   \* resources that outlived an instance of the module
  files     \* open files

vars == <<drv, phase, at, todo, held, leaked, files>>

init == Script[drv].init
exit == Script[drv].exit

Init ==
  /\ drv \in Drivers
  /\ phase = "absent" /\ at = 1 /\ todo = <<>>
  /\ held = {} /\ leaked = {} /\ files = 0

insmod ==
  /\ phase = "absent" /\ files = 0
  /\ phase' = "coming" /\ at' = 1
  /\ UNCHANGED <<drv, todo, held, leaked, files>>

Acquire ==
  /\ phase = "coming" /\ at <= Len(init)
  /\ held' = held \cup {init[at].res}
  /\ at' = at + 1
  /\ UNCHANGED <<drv, phase, todo, leaked, files>>

(* goto failN, or an early return, with or without what the step may leave *)
Fail ==
  /\ phase = "coming" /\ at <= Len(init) /\ init[at].fail = "unwind"
  /\ phase' = "unwind" /\ todo' = init[at].undo
  /\ held' \in {held, held \cup init[at].left}
  /\ UNCHANGED <<drv, at, leaked, files>>

FailUnnoticed ==
  /\ phase = "coming" /\ at <= Len(init) /\ init[at].fail = "ignore"
  /\ at' = at + 1
  /\ UNCHANGED <<drv, phase, todo, held, leaked, files>>

Loaded ==
  /\ phase = "coming" /\ at > Len(init)
  /\ phase' = "live"
  /\ UNCHANGED <<drv, at, todo, held, leaked, files>>

rmmod ==
  /\ phase = "live" /\ files = 0
  /\ phase' = "going" /\ todo' = exit
  /\ UNCHANGED <<drv, at, held, leaked, files>>

Release ==
  /\ phase \in {"unwind", "going"} /\ todo # <<>>
  /\ held' = held \ {Head(todo)}
  /\ todo' = Tail(todo)
  /\ UNCHANGED <<drv, phase, at, leaked, files>>

(* The kernel frees the module: what it still holds can no longer be released. *)
Gone ==
  /\ phase \in {"unwind", "going"} /\ todo = <<>>
  /\ phase' = "absent"
  /\ leaked' = leaked \cup (held \ Static)
  /\ held' = {}
  /\ UNCHANGED <<drv, at, todo, files>>

(* try_module_get refuses only a module that is going away. *)
open ==
  /\ Script[drv].public \in held
  /\ phase \in IF drv \in EarlyOpen THEN {"coming", "unwind", "live"} ELSE {"live"}
  /\ files < MaxFiles
  /\ files' = files + 1
  /\ UNCHANGED <<drv, phase, at, todo, held, leaked>>

close ==
  /\ files > 0
  /\ files' = files - 1
  /\ UNCHANGED <<drv, phase, at, todo, held, leaked>>

Next == insmod \/ Acquire \/ Fail \/ FailUnnoticed \/ Loaded \/ rmmod \/ Release \/ Gone
        \/ open \/ close

Spec == Init /\ [][Next]_vars
-------------------------------------------------------------------------------
(* What the first steps of init acquire, before step k, and what they acquire for certain. *)
Tried(s, k) == {s.init[j].res : j \in 1 .. k - 1}
Secured(s, k) == {s.init[j].res : j \in {h \in 1 .. k - 1 : s.init[h].fail # "ignore"}}

(* What a step that init takes for failed may leave. *)
Left(s) == UNION {s.init[j].left : j \in 1 .. Len(s.init)}

Resource(s) == Tried(s, Len(s.init) + 1) \cup Left(s)

TypeOK ==
  /\ drv \in Drivers
  /\ phase \in {"absent", "coming", "unwind", "live", "going"}
  /\ at \in 1 .. Len(init) + 1
  /\ todo \in Seq(Resource(Script[drv]))
  /\ held \subseteq Resource(Script[drv]) /\ leaked \subseteq Resource(Script[drv])
  /\ files \in 0 .. MaxFiles

(* ex27 does not check kmalloc and class_create. *)
Unchecked == {"ex27"}

(* The examples that publish their entry point last; the others publish it   *)
(* before what their handlers use is there.                                  *)
PublishLast == {"ex5", "ex6", "ex23", "ex29", "ex30"}
Hasty == EarlyOpen \ PublishLast

(* A file operation never runs without the objects it uses: whenever a file  *)
(* is open, init has set them up and neither exit nor a failing init has     *)
(* released them, unless a program opens an example that does not publish    *)
(* last before insmod has returned.                                          *)
OpenSafe == files > 0 /\ drv \notin Unchecked \cup Hasty => Script[drv].needs \subseteq held

(* Release calls that tolerate that the resource was never acquired. *)
Tolerant == {"cdev", "buffer", "ent", "vptr", "kptr", "bus_attr", "tty_device"}

(* Neither unwinding nor exit ever releases twice, or releases what a failed *)
(* step did not acquire.                                                     *)
ReleaseHeld ==
  todo # <<>> /\ drv \notin Unchecked => Head(todo) \in held \cup Tolerant

(* What the error paths of ex19, ex24, ex25, ex26, ex30 and ex31, every      *)
(* unload of ex29, and every unload of a driver that calls cdev_init on the  *)
(* structure cdev_alloc returned, leave behind.                              *)
KnownLeak(d) ==
  CASE d \in {"ex3", "ex4", "ex7", "ex8", "ex9", "ex10", "ex11", "ex12", "ex13",
                "ex14", "ex27"} -> {"cdev_struct"}
    [] d = "ex19" -> {"vptr"}
    [] d = "ex24" -> {"bus", "bus_attr", "ldd_bus_name"}
    [] d = "ex25" -> {"ldd_device_name"}
    [] d = "ex26" -> {"ldd_driver"}
    [] d = "ex29" -> {"tty_driver_struct"}
    [] d = "ex30" -> {"Queue", "blkdev"}
    [] d = "ex31" -> {"cdev_struct", "buffer"}
    [] OTHER -> {}

(* However often a module is loaded, fails to load or is unloaded, nothing   *)
(* outlives it but the known leaks: nothing is left registered (but by ex24, *)
(* ex26 and ex30) and no memory is lost on any other path.                   *)
LeaksKnown == leaked \subseteq KnownLeak(drv)
-------------------------------------------------------------------------------
(* The releases of the way out the module is on, and those it has done. *)
Path == CASE phase = "unwind" -> init[at].undo
          [] phase = "going"  -> exit
          [] OTHER            -> <<>>
Released == {Path[j] : j \in 1 .. Len(Path) - Len(todo)}

(* What the step that init unwinds from may have left. *)
Leavings == IF phase = "unwind" THEN init[at].left ELSE {}

(* Between its steps the module holds what init has acquired so far and has  *)
(* not released since; only steps whose failure init ignores may be missing, *)
(* and only what the failed step left may be there besides.                  *)
HeldInv ==
  /\ phase \in {"live", "going"} => at = Len(init) + 1
  /\ phase = "unwind" => at <= Len(init) /\ init[at].fail = "unwind"
  /\ Len(todo) <= Len(Path)
  /\ \A j \in DOMAIN todo : todo[j] = Path[Len(Path) - Len(todo) + j]
  /\ held \subseteq (Tried(Script[drv], at) \cup Leavings) \ Released
  /\ IF phase = "absent" THEN held = {} ELSE Secured(Script[drv], at) \ Released \subseteq held

(* A file is open only while the module stays, or its entry point is there   *)
(* already and init can no longer fail.                                      *)
FilesInv ==
  files > 0 /\ drv \notin Hasty =>
    \/ phase = "live"
    \/ /\ drv \in EarlyOpen /\ phase = "coming"
       /\ Script[drv].public \in Tried(Script[drv], at)
===============================================================================
