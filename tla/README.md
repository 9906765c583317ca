# TLA+ models of the LDD3 example drivers

The repository is a course on Linux device drivers: thirty-one small kernel
modules (`ex1` to `ex31`, kernel 3.10), one directory per day, and a few user
programs that exercise them. The modules share no code, but most of them are
variations of one driver, the *sample char driver*: a kernel buffer behind
`read` and `write`, to which each example adds one mechanism (a semaphore, a
completion, a seqlock, a wait queue, `poll`, ...). This project models those
mechanisms where concurrency, failure and order matter, checks them with TLC on
small instances and proves the central results with TLAPS.

## 1. Inventory

| part | state | operations | hard behaviour |
|---|---|---|---|
| ex1, ex2, ex21 | none | print at load and unload | none |
| ex3, ex4 plain char driver | `buffer` | init, exit, read, write | concurrent calls without a lock; failing init |
| ex5 proc entry | `irq`, `mode`, `ent` | init, exit, read, write | pair updated by two assignments; unterminated input |
| ex6 seq_file entry | a static `counter` | init, exit, iterator | counter shared by all readers |
| ex7 semaphore | `buffer`, `sem` | init, exit, read, write | mutual exclusion, short copies, sleepers in FIFO order |
| ex8 spinlock | `buffer`, `spin_key` | same | a copy that may sleep under a spinlock |
| ex9 completion | `buffer`, `setup_done` | same | sleeping readers, newcomers that overtake them |
| ex10 seqlock | `buffer`, `the_lock`, `sem` | same | reads that overlap writes |
| ex11 ioctl | `buffer`, `sem` | same, and ioctl | fills the buffer outside the semaphore |
| ex12 wait queue | `buffer`, `sem`, `wt_queue`, `condition` | same | lost wake-ups, signals, condition cleared too late |
| ex13 poll, `polltest.c` | as ex12 | same, and poll | poll against wake-up and timeout |
| ex14 llseek | as ex12, file position | same, and llseek | position arithmetic |
| ex15 to ex18 timer, work queues, tasklet | the pending work | init, exit, the deferred function | work that outlives the module |
| ex19 memory | `vptr`, `kptr` | init, exit | second allocation fails |
| ex20 interrupt | `irq_counter` | init, exit, handler | handler against unload |
| ex22 PCI | regions, mappings | probe, remove | regions that could not be reserved |
| ex23 USB | `device`, `bulk_buf` | probe, disconnect, read, write | disconnect during a transfer, shared buffer |
| ex24 to ex26 bus, device, driver | registrations | register, unregister, match | failure after the first registration |
| ex27 mmap | buffer, class, device, position | init, exit, read, write, mmap | unchecked results, position arithmetic |
| ex28 DMA | none after init | init | unchecked results |
| ex29 tiny tty | table of ports, each with `open_count`, `sem`, `timer`, modem bits | open, close, write, ioctls, timer | timer against close and unload |
| ex30 RAM disk | `Device`, `Queue`, requests | init, exit, request function | merged requests, units of size, requests never ended |
| ex31 ADC | registers, `adc_lock`, `buffer` | init, exit, read | busy-wait on a status bit |

How the parts interact: user processes enter a driver through the VFS and run
in it concurrently; inside a driver they meet through its globals (`buffer`,
`condition`, ...) and through the kernel's synchronisation objects. ex24 offers
the functions with which ex25 and ex26 register. The block layer calls ex30's
request function with the driver's lock held. Module loading and unloading is
the same protocol for all of them: `insmod` runs init, a successful init makes
the module live, open files pin it, `rmmod` runs exit.

What makes them correct: calls under a lock take effect atomically and return
(ex7); a sleeper is never left beside the event it waits for (ex9, ex12, ex13);
a read that claims a consistent copy has one (ex10); a disk returns what was
written and ends what it accepts (ex30); init leaves nothing behind when it
fails, exit releases exactly what init acquired, and a handler never runs
without its objects (all); nothing of a module runs once it is unloaded (ex15 to
ex18, ex20, ex24 to ex26, ex29); a device that is unplugged gives back what its
driver took and is not used any more (ex22, ex23); a shared position or pair is
only mixed up by calls that overlap (ex5, ex14, ex27).

## 2. The modules

Handlers are modelled with a program counter per process (`pc`); names of
actions and variables are those of the C code. Byte copies are not atomic: every
byte is a step of its own, other processes run in between, a user page may fault
at any byte (the copy then ends early, and a copy *into* the kernel zero-fills
the rest of the request, as `copy_from_user` does; `CharDrvLocks`, which knows
whose data a cell holds and not how long a request is, leaves the fill out).

| module | models | abstraction |
|---|---|---|
| `CharDrvOps` | what the handlers of the sample char drivers share: entering a handler, the clamp `len`, `copy_to_user`, `copy_from_user`, the state init leaves | a byte is a member of `Byte`; the object has `kmalloc_size` bytes, the clamp uses `buffer_len` |
| `Semaphore` | `down`/`up` of the kernel as pure functions on `[count, wait_list]` | external |
| `AtomicBuffer` | abstract: one buffer on which each call acts at one instant | |
| `SemCharDrv` | ex7: `down`, copy, `up` in both handlers | history variable `stable`: the buffer at the last release |
| `SemCharDrvProofs` | theorems about `SemCharDrv` | |
| `CompletionCharDrv` | ex9: `wait_for_completion` before the copy, `complete` after it | histories `wrote` (writes that have copied), `started` (reads past their wait) |
| `CompletionCharDrvProofs` | theorems about `CompletionCharDrv` | |
| `SeqlockCharDrv` | ex10: `read_seqbegin`/`read_seqretry` around the copy, semaphore only in write | histories `stable`, `seen` |
| `SeqlockCharDrvProofs` | theorems about `SeqlockCharDrv` | |
| `WaitQueueCharDrv` | ex12: the steps of `wait_event_interruptible`, `condition`, the wake-up, signals | history `written` |
| `PollCharDrv` | ex13 and `polltest.c` on top of `WaitQueueCharDrv`: the poll handler, the kernel's poll loop with its timeout | history `fresh` |
| `PollCharDrvProofs` | theorems about `WaitQueueCharDrv` and `PollCharDrv` together | |
| `AtomicDisk` | abstract: a disk on which each transfer acts at one instant | |
| `RamDisk` | ex30: submission and merging (block layer), the queue run under `Device.lock`, the limit test, the copy of one segment per step, the end of a request | memory in bytes, the two sector sizes as parameters, a transfer is one segment |
| `RamDiskProofs` | theorems about `RamDisk` | |
| `ModuleLoad` | init and exit of every example that holds a resource, as *scripts*: what each step acquires, what its failure undoes, what exit releases, when the device becomes public and what its handlers use | the order and the error labels are those of the code |
| `DeferredWork` | ex15 to ex18 and ex20 on top of `ModuleLoad`: the step of init that queues a function, its run, and what each release in exit waits for | a function is `off`, `queued` or `running`; `smp` says whether `tasklet_disable` waits |
| `LddBus` | ex24, ex25, ex26 as three modules that come and go: registration, matching, the version attribute | `freed`: registered by a module that is gone |
| `PciDriver` | ex22: probe and remove BAR by BAR, for several devices, beside a driver that wants the same regions | an address is the device whose BAR it is |
| `UsbDriver` | ex23: probe, disconnect, the file operations over the globals `device` and `bulk_buf` | data is the process it belongs to |
| `LoadProofs` | theorems about `ModuleLoad` with `DeferredWork`, `LddBus`, `PciDriver` and `UsbDriver` | |
| `TinyTty` | ex29, one port: open, close and unload against the timer's function; write, modem lines, ioctls | the port is open for `files`; `oops` names what the machine died of |
| `TinyTtyProofs` | theorems about `TinyTty` | |
| `CharDrvLocks` | ex3 and ex4 (no lock), ex8 (spinlock), ex11 (semaphore and an ioctl without it), on `ncpu` CPUs | a buffer of cells, each with the process whose data it holds |
| `FilePosition` | ex27's read and write at a position, ex14's seek, threads that share a file | lengths and positions, no contents |
| `ProcEntries` | ex5's pair (`irq`, `mode`), ex6's iterator under the kernel's `seq_read` | a number is the program that wrote it; a record has `RecordLen` bytes |
| `AdcDriver` | ex31's read: `adc_lock`, the conversion, the poll loop | the control register as a number |
| `HandlerProofs` | theorems about `CharDrvLocks`, `FilePosition`, `ProcEntries` and `AdcDriver` | |
| `MCModuleLoad`, `MCDrivers` | put modules that share nothing into one run: the variable `example`, chosen in Init, says which of them moves | |

Several properties are of the form *a failure needs its cause*: the code breaks
in a case that nobody handles (a timer function overtaken by `del_timer`, a
second PCI device), and the property says that it breaks in no other. The cause
is kept in a history variable (`overtaken`, `nomem`, `disturbed`, `refused`,
`misled`, `overlapped`, `raced`, `shared`, `jumbled`, `mishap`), which no guard
reads. A step that kills the machine is part of the model; nothing follows it.

`kmalloc(GFP_KERNEL, buffer_len)` has its arguments swapped in all sample
drivers, so the object has `GFP_KERNEL` (208) bytes and the clamp lets 4000
through. A copy that leaves the object is undefined behaviour; the model stops
that call at the control point `oob`, with whatever it holds. (`CharDrvLocks`
is about locking and leaves the sizes out.)

Outside the repository, modelled from how the drivers use it: the semaphore, the
completion, wait queues, the poll loop, signals, the block layer's checks and
merges, and the module loader (`try_module_get` refuses only a module that is
going away, `rmmod` needs one that nobody pins). For the newer modules also:
the tty core (open and close under the port's `tty_lock`, a failing open is
closed), timers, work queues and tasklets, the driver core (matching at either
registration, modules pinned by the symbols they use), PCI regions (a release
takes the region from whoever holds it), USB devices freed when unplugged,
`seq_read`, and the VFS's unlocked update of `f_pos`. Each module's header says
what it assumes.

## 3. The runs

| run | instance | shows |
|---|---|---|
| `sem` | two processes, object of two bytes, `buffer_len` 3, requests of 1, 2 and 4 bytes | `IInv`, `Linearizable` (ex7 implements `AtomicBuffer`), `EveryCallReturns` |
| `load` | every scripted example, two open files; the three ldd modules; two PCI devices with two BARs, of which one lacks the first; two USB devices and two processes | `LoadIInv`; `OpenSafe`, `ReleaseHeld`, `LeaksKnown` at every failure point of every init; `HandlerHasModule`, `UnloadEnds` (deferred functions against unload); `BoundWhileBothRegistered`, `UnloadedIsUnused` (ldd bus); `RemoveReleasesAll`, `TakenWasRefused` (PCI); `LoneTransferIsOwn`, `PluggedIsSafe` (USB) |
| `tty` | one port, three processes | `IInv`, `OpenCountMatches`, `QuietAfterClose`, `CrashHasCause`, `DataArrives` |
| `tty_timer` | one port, two processes | **violated**: `TimerStopsWithLastClose` |
| `drivers` | two processes on one or two CPUs, two cells; three processes and three writes on the completion; two threads on a buffer of three bytes, requests up to four; two programs on the proc entries; two readers of the ADC | `MixtureNeedsRace`, `WaitersReturn` (locks); `ReadHasItsWrite`, `NoStrandedReader`, `EventsAreTaken` (completion); `CopyInsideBuffer`, `PositionIsProgress` (positions); `PairNeedsOverlap`, `ReadingEnds` (proc); `OneConversion` (ADC) |
| `adc_read` | two readers of the ADC | **violated**: `ReadReturns` |
| `waitqueue` | `polltest.c`, a reader, two writers, signals | `IInv`, `NoLostWakeup` (read and poll), `NoReadBeforeWrite`, `ReadAfterPollNeverWaits`, `AnnouncedDataIsRead` |
| `seqlock` | three processes, one byte | `UnchangedBytesAreRead` |
| `seqlock_torn` | two processes, two bytes | **violated**: `ReadIsSnapshot` |
| `ramdisk` | two processes, three sectors, transfers of one and two sectors, two byte values | `ImplementsDisk`, `EveryTransferEnds` |
| `ramdisk_geometry` | three processes, four hardware sectors of two kernel sectors of two bytes | `IInv`, `CopiesInsideDevice` |
| `ramdisk_refused` | hardware sectors of two kernel sectors | **violated**: `EveryTransferEnds` |

Bounds and why they suffice. A torn or unlocked copy shows with two bytes and
two processes; a third process matters where somebody can overtake (completion,
two writers that meet in the buffer beside a read). The sizes in `sem` are
ordered like the real ones (request below, at and above the object and above the
clamp). `MaxWrites` bounds the history of the completion in `drivers`: three events
cover a count above the number of sleepers; requests have one byte there, because
events and not contents are in question. Two open files distinguish the first from
the last close. Three sectors are the least on which two transfers can be
merged, overlap or stay apart; transfers of two sectors make segments of
different length. In `ramdisk_geometry` only one byte value is used, because
addresses and not contents are in question. Three processes on a tty port make
an open meet a close while a third keeps the port open. Two PCI devices with
different BARs are the least on which one probe changes what the remove of the
other sees; two USB devices likewise for `device`. Two processes on one CPU are
enough for a spinner to keep the CPU from a sleeping holder, on two CPUs they
are not, and both machines are checked. `MaxRequest` is one more than the buffer
so that positions lie inside, at and beyond its end; `Sizes` has buffers below,
at and above a record; `Wrap` bounds ex6's counter.

Fairness. The char drivers assume that a process which is not asleep is
scheduled (weak fairness of each process's handlers); nothing is assumed about
programs calling again, signals or timeouts. `RamDisk` assumes that the block
layer runs a queue that is not empty and that the request function, which holds
a spinlock, goes on. `TinyTty` assumes that timers expire, that their functions
run on and that open and close are scheduled. In `MCModuleLoad` a queued
function is run and a running one goes on (weak fairness), and rmmod gets on if
the calls that wait can return again and again (strong: an interrupt handler may
always be running at the wrong moment, `free_irq` still returns). In `MCDrivers`
a lock is handed over in the order of arrival and a CPU is given to everybody
who wants one again and again (strong fairness of `Begin` and `PageIn`), which
the ticket spinlock, the semaphore's queue and the scheduler do; programs that
read ex6 to the end do so, and the processes in ex9 that do not sleep are
scheduled. `FairAdcSpec` assumes that the hardware ends a conversion and that a
reader inside ex31 runs on, which is the most a driver can hope for; the read
does not return even so. Deadlock is not checked where the system may really stop:
when every process waits for a write that nobody makes, after a copy has left
the object, after a crash, when all CPUs spin on ex8's lock, and when ex29 is
unloaded.

What the violated runs say:

* **ex10.** The header announces a seqlock, and read uses one, but write takes
  only the semaphore. The sequence number never changes, no read is repeated,
  and a read beside a write returns a mixture. What is left is
  `UnchangedBytesAreRead`.
* **ex29.** `do_close` "shuts down our timer" with `del_timer`, which does not
  wait. A `tiny_timer` that has begun on another CPU sends its character and
  adds the timer again after the last close; from then on it runs on a tty that
  is gone, and `tiny_exit` frees it while it is pending or running. Nothing else
  does this: `QuietAfterClose` and `CrashHasCause` hold in the same model, and
  they also isolate two other ways to crash, a close after a failed allocation of
  the timer (`del_timer(NULL)`) and a handler between the two assignments of
  `tty->driver_data` in a second open.
* **ex30.** `do_actual_req` compares kernel sectors with `nsectors`, which counts
  hardware sectors. With the default `hardsect_size` of 512 the two agree. With
  1024 the upper half of the announced capacity is refused, and the refusal,
  `__blk_end_request(req, 0, 0)`, completes nothing: the transfer never ends. The
  same mistake with the opposite sign would be a copy outside the memory;
  `CopiesInsideDevice` shows that this does not happen.
* **ex31.** The loop that should "check for adc done" compares bit 15 of the
  control register with 1; the bit is 0 or 2^15. `test.c`, which reads once and
  prints the count and the text, never prints anything. `PollNeverEnds` says what
  happens instead: the first read that starts a conversion polls for ever and
  keeps `adc_lock`, whatever the hardware does. (The step that leaves the loop is
  the one step of all models that is never taken.) What is left is
  `OneConversion`: a reader whose wait for the lock is ended by a signal goes home.

`LeaksKnown` records what init and exit leave behind in the code as it is: the
`struct cdev` of every char driver (`cdev_init` on what `cdev_alloc` returned
makes `cdev_del` forget to free it), ex19's first allocation, ex24's bus and
ex26's driver after a failing registration, the names of the devices that ex24
and ex25 could not register (`device_register` without `put_device`), ex29's
driver structure after every unload, ex30's queue and ex31's buffer on a failing
init. Loaded with a `major_num`, ex30 takes the 0 of a successful
`register_blkdev` for a failure and leaves the major registered. A step that
fails is therefore one that may leave something behind (`left` in the scripts).
`LeaksKnown` says that there is no other leak. The char drivers publish the device with `cdev_add` before `buffer`
and `sem` exist, so an open before init has returned is unsafe in all of them;
`OpenSafe` excepts the examples that are opened that early (`EarlyOpen`) and do
not publish last (`PublishLast`), and no other property does. The run opens the
examples that publish last as early as the kernel allows, and `ex4`, whose
script is that of `ex3`, too; all others after init has returned.

What the passing runs record about the newer parts, besides what holds:

* ex15's timer function may run in freed memory if it was running at
  `del_timer`; ex16's work may always. ex17 and ex20 are safe; ex17 crashes at
  once if `create_workqueue` fails. ex18 cannot be unloaded on a multiprocessor,
  because its handler waits for itself (`UnloadEnds` names the exception).
* ex24 and ex26 leave a registration behind when the second of two fails, and
  the next registration or a reader of the attribute then uses freed memory.
* ex22's `iobase` is shared by all devices: after a second probe, remove leaves
  regions requested. It also releases regions whose request was refused.
* ex23's `device` is that of the last probe, and is not cleared: a program may
  talk to another device than it opened, or use a freed one.
* ex8 stops for good when as many processes spin as there are CPUs while the
  holder sleeps in its copy (`SpinDeadlock`); ex11's ioctl tears reads and
  writes.

## 4. The proofs

`SemCharDrvProofs` proves, for every set of processes, every byte set, every
object size, clamp and set of request lengths (`CharDrvAssumption`: sizes are
natural numbers, zero is a byte):

* `Invariance`: `Spec => []IInv`. Atomicity is not inductive by itself. `IInv`
  adds, to the types, `LockInv` (at most one process between `down` and `up`; a
  free semaphore has neither holder nor sleepers; the wait list holds distinct
  sleeping processes) and `CopyInv` (what the holder has done so far is a prefix
  of one atomic call on `stable`: a read's memory is the first `idx` bytes of
  `stable`, the buffer under a write is `stable` overlaid with the first `idx`
  bytes of the data). The lemmas `SemTaken`, `SemQueued` and `SemReleased` say
  what `down` and `up` do to a semaphore, `OverlayByte` and `OverlayPadded` how
  one byte and the zero fill move the overlay. One lemma per part of `IInv`, one
  step per action in each.
* `Exclusion`: mutual exclusion of the handlers, from `Invariance`.
* `Refinement`: `Spec => Linearizable`. Entering a handler is `Invoke`, `up` is
  `Read` or `Write`, everything else leaves the abstract state as it is; at `up`
  the invariant says that the call has done exactly the abstract operation.
* `NoOverrun`: if no request exceeds the object, no copy leaves it, although the
  clamp would let it. This is the precondition under which ex7 is memory safe.

`RamDiskProofs` proves, for every set of processes, byte set, `nsectors`,
`hardsect_size` and positive `KERNEL_SECTOR_SIZE` (`RamDiskAssumption`; that
the product of the two parameters fits an `int` is the separate assumption
`SizeFits`, which the proofs do not use but the model is only faithful under:
nothing in `sbd_init` checks it, and a size that overflows would allocate less
than the capacity announces):

* `DiskInvariance`: `Spec => []IInv`. That a copy stays inside the memory is not
  inductive: it depends on where the previous segment ended. `IInv` adds
  `QueueInv` (a request is a sequence of adjacent transfers of one direction, no
  transfer is in two requests or in a request and given up) and `AddrInv` (a
  request being copied has passed the limit test and `addr` is the first byte of
  the transfer copied next). `BackMerge` and `FrontMerge` show that both ways of
  merging build such a request, `NewRequest` that the others do not notice.
* `DiskCopiesInside`: `Spec => []CopiesInsideDevice`. The limit test bounds the
  end of the request by `nsectors` *kernel* sectors (`EndsBefore`); the memory is
  `nsectors` *driver* sectors. A transfer is only let in when the capacity is not
  zero, hence a driver sector is at least a kernel sector (`SectorFits`), and the
  copy fits (`TransferFits`).

* `DiskRefinement`: `Spec => ImplementsDisk`. Transfers are mapped from sectors
  to bytes, and a transfer has taken effect once `do_actual_req` is past its
  segment. Submission is `Submit` (what lies within the capacity lies within the
  memory, `CapacityFits`), a segment's copy is `Write` or `Read` (`CurrentCopy`:
  `addr` is where the transfer begins), the end of a request is `Complete` of all
  its transfers; running the queue, fetching and giving up are invisible.
* `StuckTheorem`: `Spec => StuckForever`, what the run `ramdisk_refused` shows on
  one instance. A transfer that was given up keeps its process from submitting
  and is in no request that can end (`QueueInv`), so it never ends.
* `RefusalTheorem`: `Spec => []NothingRefused`, the other side. With a capacity
  of at most `nsectors`, which the default `hardsect_size` gives, the limit test
  refuses no file system request. That needs `CmdInv`: only file system requests
  are merged, so what is given up for its first transfer's kind is of that kind
  as a whole.

`TinyTtyProofs`, for every finite set of processes on the port:

* `Invariance`: `Spec => []IInv`. None of the three properties below is inductive:
  what the timer may do depends on who is between which steps of `tiny_open`.
  `IInv` adds `RefInv` (`tty_lock` has one holder; who keeps the `tty_struct`
  alive; nobody once the module goes), `PortInv` (`driver_data`, `tiny`, `timer`
  and `open_count` between the steps of an open), `TimerInv` (a timer that is
  pending beside its running function, or either beside a first open, was
  overtaken by a close) and `CountInv` (a close never takes back more than the
  opens counted, although one that follows a failed allocation was not counted).
* `OpenCountTheorem`, `QuietTheorem`, `CrashTheorem`: `OpenCountMatches`,
  `QuietAfterClose` and `CrashHasCause` are invariants.

`PollCharDrvProofs`, for every set of processes and every buffer, of ex12's
handlers and ex13's poll in one specification:

* `Invariance`: `PollSpec => []IInv`. That no wake-up is lost is not inductive: a
  task decides to sleep (`schedule`) before it does. `WakeInv` says it from the
  moment the task has found `condition` 0: it is on `wt_queue` until it is woken,
  and while it is there beside `condition = 1` a write has its wake-up before it.
  `SemInv` gives one writer, `DataInv` that `condition` is set after a copy,
  `FreshInv` that a POLLIN which no completed read followed still holds.
* `WakeupTheorem`, `FirstReadTheorem`, `PollTheorem`: `NoLostWakeup`,
  `NoReadBeforeWrite`, `ReadAfterPollNeverWaits`.

`CompletionCharDrvProofs`, for every finite set of processes
(`CompletionAssumption`: woken readers are counted):

* `Invariance`, `EventTheorem` (`ReadHasItsWrite`), `StrandedTheorem`
  (`NoStrandedReader`). That a read past its wait has a write of its own needs
  where the events are: `EventInv` says that each write which has copied its data
  is about to signal, or its event is there, or was taken by one read. For the
  sleepers the strengthening is that every reader which sleeps or
  was woken is still linked into the queue: only then does `complete` find a
  sleeper whenever there is one, and only then does a wake-up raise the number of
  woken readers with the number of events.

`SeqlockCharDrvProofs`, for every set of processes and all sizes:

* `Invariance` and `UnchangedTheorem` (`UnchangedBytesAreRead`). A read of ex10
  copies bytes of a write that is under way, so the images it may have seen do
  not bound what it copied. `WriteInv` says that the bytes which a write has not
  reached are still the stable ones; a store therefore replaces a stable byte,
  and `ReadInv` is kept: a byte that was copied is still
  there or was in some stable buffer since the copy began.

`LoadProofs`, first about loading and unloading together with the deferred
functions (`LoadSpec`), for any choice of the examples, any number of open files
and any set of examples that are opened early (`ModuleLoadAssumption`):

* `ScriptsSound`, the static part: each of the 27 scripts is `Sound`. Every error
  label and every exit is a `Way` out: it releases only what the steps before it
  acquired for certain (or what its release call tolerates), nothing twice, and
  leaves, of what they and the failed step itself put there, nothing but the known
  leaks; after init the handlers have what they
  need, and an example that publishes last has it, and can no longer fail, from
  that step on (`Ready`). The ten sample char drivers are one lemma (`CharSound`)
  over the objects they set up last; the others are one step each.
* `LoadInvariance`: `LoadSpec => []LoadIInv`, the dynamic part. That a release
  finds its resource is not inductive: it depends on which steps of init ran and
  on which releases came before. `HeldInv` says that a module holds what `Tried`
  says init has attempted, at least what it has `Secured`, without what the way
  out has `Released`; `FilesInv` that nobody has a file open on the way out;
  `ActInv` that a function is pending only while the module holds what it was
  started with (or was overtaken by `del_timer`); `WorkqueueInv` that ex17, which
  checks nothing, reaches its exit only with a workqueue, because `queue_work`
  without one kills the machine.
* `OpenTheorem`, `ReleaseTheorem`, `LeakTheorem`, `HandlerTheorem`: `OpenSafe`,
  `ReleaseHeld`, `LeaksKnown` and `HandlerHasModule`. Each follows from
  `LoadIInv` and what `Sound` says of the script that is loaded (`LeftBehind`:
  what a module still holds at its end; `NextRelease`: what the next release is).
* `HangTheorem`: `LoadSpec => TaskletHangs`. The exception of `UnloadEnds` is
  real: a tasklet handler of ex18 that has begun on a multiprocessor never ends
  and its module is never freed.

Then about the device model:

* `LddInvariance`, `BoundTheorem`, `UnloadedTheorem`, over every order in which
  ex24, ex25 and ex26 come, fail and go. `OwnerInv` says which module registered
  what, and that what outlived its module did so after a registration failed
  half-way.
* `PciInvariance`, `RemoveTheorem`, `TakenTheorem`, for every set of devices,
  number of BARs and choice of the BARs each device has (`PciAssumption`).
  `RequestInv` follows probe and remove BAR by BAR, `AloneInv` says that a device
  which nobody disturbs has `iobase` to itself.
* `UsbInvariance`, `LoneTransferTheorem`, `PluggedTheorem`, for every set of
  devices and processes. `OwnInv` relates each step of a call to `device` and
  `bulk_buf`.

`HandlerProofs`:

* `LockInvariance`, `MixtureTheorem`, for every number of tasks, CPUs and cells.
  `HoldInv`: a call that locks holds the lock while it copies; `CopyInv`: without
  a race, nobody is inside beside a call that stores and the buffer is as it was
  when a read's copy began.
* `SpinTheorem`: `LockSpec => SpinDeadlockIsFinal`. The exception of
  `WaitersReturn` is final: whoever is inside ex8 holds the lock, the holder
  sleeps, and no CPU is free for anybody.
* `PosInvariance`, `CopyTheorem`, `ProgressTheorem`, for every set of threads,
  `MAX_LENGTH` and bound on requests. `PassedInv` and `SoleInv` carry the position
  from the call to the VFS's update of `f_pos`.
* `ProcInvariance`, `PairTheorem`, for every set of programs.
* `AdcInvariance`, `ConversionTheorem` (`OneConversion`) and `PollTheorem`
  (`AdcSpec => PollNeverEnds`), for every set of readers. The last needs the three
  values that the control register can take; it is what the run `adc_read` shows
  on one instance, for all.

The inductive invariants that no run lists (`LddIInv`, `PciIInv`, `UsbIInv`, `LockIInv`,
`PosIInv`, `ProcIInv`, `AdcIInv` and `IInv` of `CompletionCharDrv` and
`SeqlockCharDrv`) hold in the instances of the runs `load`, `drivers` and
`seqlock` too. The runs `load` and `drivers` put several
specifications into one; the theorems are about each of them by itself.

Only model-checked:

* Liveness: `EveryCallReturns`, `UnloadEnds`, `DataArrives`, `WaitersReturn`,
  `ReadingEnds`, `AnnouncedDataIsRead`, `EventsAreTaken`, `EveryTransferEnds`. They
  need fairness and ENABLED, which the prover does not handle.

Every invariant and every action property that a passing run checks is also a
theorem; of `UnloadEnds`, `WaitersReturn` and the violated `EveryTransferEnds` the
exceptions are (`HangTheorem`, `SpinTheorem`, `StuckTheorem`), and of the violated
`ReadReturns` that it cannot hold (`PollTheorem`). `TaskletHangs`,
`SpinDeadlockIsFinal`, `PollNeverEnds`, `StuckForever` and `NothingRefused` are listed by no run;
TLC confirms them on the instances of `load`, `drivers` and, with two processes,
`ramdisk_geometry` (that one also with a hardware sector of one kernel sector).
The bounds of the models (`MaxFiles`, `MaxWrites`, `MaxLen`, ...) are arbitrary in
the theorems.

## 5. Not modelled, and the plan

* ex1, ex2 and ex21 print and keep nothing. ex28 is one straight line of calls
  in init without a branch, and holds nothing afterwards.
* mmap of ex27: it maps the pages of the buffer into a program, which then
  stores to them without the driver. The driver keeps no state about it but the
  scratch global `addr`.
* ex29: `set_termios` only prints. `tiny_write` returns `-EINVAL` whatever it
  does, and changes nothing. The driver never gives its ttys a `tty_port`;
  `tiny_timer` needs one, and the model takes it for granted. The four ports
  share nothing and one is modelled; a process is one thread with one file.
* ex5: what `strlen` makes of a request that fills the buffer without a final
  zero. ex6: two readers that increment the counter at the same instant, which
  changes a printed number. ex11: the `memset` of `buffer_len` bytes over an
  object of 208, which is the swapped `kmalloc` again.
* ex22: unmapping (nothing is ever unmapped).
* ex27: a write that finds no room (`-ENOSPC`) is one that moves nothing. ex14's
  read and write do not look at the position and are those of ex12.
* ex30: the error that ends a request (`-EIO` if `req->errors` is set), and a
  `nsectors * hardsect_size` that overflows an `int`. With a `hardsect_size` below
  512 the capacity is 0; such a disk is taken to get no transfers, because readers
  and writers of a block device stop at its size. (The kernel's own check at
  submission, `bio_check_eod`, passes a disk of size 0.)
* `polltest.c` gives up when `poll` fails; the model's goes on.
* User programs other than `polltest.c` are any sequence of calls.

What is left to do:

1. Liveness, if a prover with fairness and ENABLED becomes available. The safety
   facts it rests on (`HeldInv`, `WakeInv`, `QueueInv`, `TimerInv`) are proved.
2. The composition of ex24 to ex26 with their scripts: `LddBus` and `ModuleLoad`
   model the same three modules from two sides.
