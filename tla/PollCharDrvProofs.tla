-------------------------- MODULE PollCharDrvProofs --------------------------
(***************************************************************************)
(* Proofs about ex12 and ex13 for every set of readers, writers and        *)
(* polltest processes, every pair of buffer sizes and with or without      *)
(* signals: no wake-up is lost, no uninterrupted read comes before the     *)
(* first write, and a read that follows POLLIN does not wait.              *)
(***************************************************************************)
EXTENDS PollCharDrv, TLAPS

(* The steps of the two handlers one by one, with what they do to polltest. *)
Still == UNCHANGED <<pollin, fresh>>

WaitStep(p)  == op[p] = "read" /\ wait_event_interruptible(p) /\ Still
CopyOut(p)   == op[p] = "read" /\ copy_to_user(p, "clear") /\ UNCHANGED wqvars /\ Still
ClearStep(p) ==
  /\ pc[p] = "clear" /\ condition' = 0 /\ Goto(p, "user") /\ signalled' = signalled \ {p}
  /\ Keep /\ UNCHANGED <<sem, wt_queue, written>>
  /\ pollin' = pollin \ {p} /\ fresh' = {}
DownStep(p)  == op[p] = "write" /\ down(p) /\ Still
CopyIn(p)    == op[p] = "write" /\ copy_from_user(p, "up") /\ UNCHANGED wqvars /\ Still
UpStep(p)    == up(p) /\ Still
SetStep(p)   ==
  /\ pc[p] = "set" /\ condition' = 1 /\ Goto(p, "wake")
  /\ Keep /\ UNCHANGED <<sem, wt_queue, signalled, written>> /\ Still
WakeStep(p)  ==
  /\ pc[p] = "wake" /\ wake_up_interruptible(p, "user")
  /\ Keep /\ UNCHANGED <<sem, condition, signalled, written>> /\ Still
EnterStep(p) == Enter(p) /\ Still
SignalStep(p) == Signal(p) /\ Still

(* ReadWrite takes exactly these steps: only the return from read has         *)
(* control point "clear".                                                     *)
LEMMA ReadWriteSteps ==
  ASSUME NEW p \in Proc, ReadWrite(p)
  PROVE  \/ WaitStep(p) \/ CopyOut(p) \/ ClearStep(p)
         \/ DownStep(p) \/ CopyIn(p) \/ UpStep(p) \/ SetStep(p) \/ WakeStep(p)
<1>1. CASE op[p] = "read" /\ wait_event_interruptible(p)
  <2>1. pc[p] # "clear"
    BY <1>1 DEF wait_event_interruptible
  <2> QED
    BY <1>1, <2>1 DEF ReadWrite, WaitStep, Still
<1>2. CASE op[p] = "read" /\ copy_to_user(p, "clear") /\ UNCHANGED wqvars
  BY <1>2 DEF ReadWrite, CopyOut, Still, copy_to_user
<1>3. CASE pc[p] = "clear" /\ condition' = 0 /\ Goto(p, "user") /\ signalled' = signalled \ {p}
           /\ Keep /\ UNCHANGED <<sem, wt_queue, written>>
  BY <1>3 DEF ReadWrite, ClearStep
<1>4. CASE op[p] = "write" /\ down(p)
  BY <1>4 DEF ReadWrite, DownStep, Still, down
<1>5. CASE op[p] = "write" /\ copy_from_user(p, "up") /\ UNCHANGED wqvars
  BY <1>5 DEF ReadWrite, CopyIn, Still, copy_from_user
<1>6. CASE up(p)
  BY <1>6 DEF ReadWrite, UpStep, Still, up
<1>7. CASE pc[p] = "set" /\ condition' = 1 /\ Goto(p, "wake")
           /\ Keep /\ UNCHANGED <<sem, wt_queue, signalled, written>>
  BY <1>7 DEF ReadWrite, SetStep, Still
<1>8. CASE pc[p] = "wake" /\ wake_up_interruptible(p, "user")
           /\ Keep /\ UNCHANGED <<sem, condition, signalled, written>>
  BY <1>8 DEF ReadWrite, WakeStep, Still
<1> QED
  BY <1>1, <1>2, <1>3, <1>4, <1>5, <1>6, <1>7, <1>8
  DEF ReadWrite, Handlers, sample_char_drv_read, sample_char_drv_write

(* Clamping a request never exceeds the request nor buffer_len. *)
LEMMA LenType ==
  ASSUME count \in [Proc -> Nat], NEW p \in Proc
  PROVE  len(p) \in Nat
BY CharDrvAssumption DEF len

(* The zero fill of a faulting copy, and the memory of a read, are images. *)
LEMMA ImageType ==
  ASSUME buffer \in Image, NEW p \in Proc
  PROVE  Padded(p) \in Image /\ Blank \in Image
BY CharDrvAssumption DEF Padded, Image, Blank, Off

(* The semaphore's operations keep its type. *)
BinarySem == [count : {0, 1}, wait_list : Seq(Proc)]

(* down() of a free semaphore takes it. *)
LEMMA SemTaken ==
  ASSUME NEW s \in BinarySem, s.count = 1
  PROVE  /\ Taken(s) \in BinarySem
         /\ Taken(s).count = 0 /\ Taken(s).wait_list = s.wait_list
BY DEF Taken, BinarySem

(* down() of a taken semaphore queues the process. *)
LEMMA SemQueued ==
  ASSUME NEW s \in BinarySem, NEW p \in Proc
  PROVE  /\ Queued(s, p) \in BinarySem
         /\ Queued(s, p).count = s.count /\ Queued(s, p).wait_list = Append(s.wait_list, p)
BY DEF Queued, BinarySem

(* up() hands the semaphore to the first sleeper, or frees it. *)
LEMMA SemReleased ==
  ASSUME NEW s \in BinarySem, s.count = 0
  PROVE  /\ Released(s) \in BinarySem
         /\ s.wait_list = <<>> => Released(s).count = 1 /\ Released(s).wait_list = <<>>
         /\ s.wait_list # <<>> => /\ Released(s).count = 0
                                 /\ Released(s).wait_list = Tail(s.wait_list)
<1>1. CASE s.wait_list = <<>>
  BY <1>1 DEF Released, BinarySem
<1>2. CASE s.wait_list # <<>>
  <2>1. Tail(s.wait_list) \in Seq(Proc)
    BY <1>2 DEF BinarySem
  <2> QED
    BY <1>2, <2>1 DEF Released, BinarySem
<1> QED
  BY <1>1, <1>2

(* A program that enters a handler. *)
LEMMA CallFrame ==
  ASSUME buffer \in Image, NEW p \in Proc, polltest(p) \/ EnterStep(p)
  PROVE  /\ pc[p] = "user" /\ UNCHANGED <<wqvars, pollin, fresh>>
         /\ \E o \in {"read", "write", "poll"}, n \in Nat, d \in Image, l \in {"enter", "poll", "down"} :
              Call(p, o, n, d, l)
<1>1. UNCHANGED <<wqvars, pollin, fresh>>
  BY DEF polltest, EnterStep, Enter, Still
<1>2. \E o \in {"read", "write", "poll"}, n \in Nat, d \in Image, l \in {"enter", "poll", "down"} :
        Call(p, o, n, d, l)
  BY ImageType, CharDrvAssumption DEF polltest, EnterStep, Enter
<1> QED
  BY <1>1, <1>2 DEF Call

(* The control points. *)
Points == Waiting \cup Polling \cup {"user", "copy", "clear", "down", "sem_asleep", "up", "set",
                                     "wake", "oob"}

(* The writer at up holds the semaphore. *)
LEMMA UpHolds ==
  ASSUME TypeOK, SemInv, NEW p \in Proc, pc[p] = "up"
  PROVE  sem \in BinarySem /\ sem.count = 0 /\ Holder(p)
BY DEF TypeOK, SemInv, Holder, BinarySem

-----------------------------------------------------------------------------
(* Every step keeps the variables in their types. *)
LEMMA NextTypeOK == PollTypeOK /\ SemInv /\ [PollNext]_pollvars => PollTypeOK'
<1> SUFFICES ASSUME PollTypeOK, SemInv, [PollNext]_pollvars PROVE PollTypeOK'
  OBVIOUS
<1> USE CharDrvAssumption
<1>0. /\ buffer \in Image /\ op \in [Proc -> {"read", "write", "poll"}] /\ count \in [Proc -> Nat]
      /\ ubuf \in [Proc -> Image] /\ idx \in [Proc -> 0 .. kmalloc_size] /\ sem \in BinarySem
      /\ pc \in [Proc -> Points]
  BY DEF PollTypeOK, TypeOK, BinarySem, Points
<1>a. ASSUME Keep, pc' \in [Proc -> Points], sem' \in BinarySem, condition' \in {0, 1},
             wt_queue' \subseteq Proc, signalled' \subseteq Proc, written' \in BOOLEAN,
             pollin' \subseteq Proc, fresh' \subseteq Proc
      PROVE  PollTypeOK'
  BY <1>a DEF Keep, PollTypeOK, TypeOK, BinarySem, Points
<1>1. CASE UNCHANGED pollvars
  BY <1>1 DEF PollTypeOK, TypeOK, pollvars, vars, callvars, wqvars
<1>2. ASSUME NEW p \in Proc, polltest(p) \/ EnterStep(p) PROVE PollTypeOK'
  <2>1. PICK o \in {"read", "write", "poll"}, n \in Nat, d \in Image, l \in {"enter", "poll", "down"} :
          Call(p, o, n, d, l)
    BY <1>2, <1>0, CallFrame
  <2>2. /\ pc' \in [Proc -> Points] /\ op' \in [Proc -> {"read", "write", "poll"}]
        /\ count' \in [Proc -> Nat] /\ idx' \in [Proc -> 0 .. kmalloc_size] /\ buffer' \in Image
    BY <2>1, <1>0 DEF Call, Points, Waiting, Polling
  <2>3. ubuf' \in [Proc -> Image]
    BY <2>1, <1>0, ImageType DEF Call
  <2>4. UNCHANGED <<wqvars, pollin, fresh>>
    BY <1>2, <1>0, CallFrame
  <2> QED
    BY <2>2, <2>3, <2>4 DEF PollTypeOK, TypeOK, wqvars, Points
<1>3. ASSUME NEW p \in Proc, sample_char_drv_poll(p) PROVE PollTypeOK'
  BY <1>3, <1>0, <1>a DEF sample_char_drv_poll, Report, Goto, PollTypeOK, TypeOK, Points, Polling
<1>4. ASSUME NEW p \in Proc, poll_schedule_timeout(p) PROVE PollTypeOK'
  BY <1>4, <1>0, <1>a DEF poll_schedule_timeout, Report, Goto, PollTypeOK, TypeOK, Points, Polling
<1>5. ASSUME NEW p \in Proc, SignalStep(p) PROVE PollTypeOK'
  BY <1>5, <1>0, <1>a DEF SignalStep, Still, Signal, Goto, PollTypeOK, TypeOK, Points, Waiting
<1>6. ASSUME NEW p \in Proc, WaitStep(p) PROVE PollTypeOK'
  BY <1>6, <1>0, <1>a
  DEF WaitStep, Still, wait_event_interruptible, Goto, PollTypeOK, TypeOK, Points, Waiting
<1>7. ASSUME NEW p \in Proc, CopyOut(p) PROVE PollTypeOK'
  <2>1. ubuf' \in [Proc -> Image] /\ idx' \in [Proc -> 0 .. kmalloc_size]
    <3>1. CASE /\ idx[p] < kmalloc_size
               /\ ubuf' = [ubuf EXCEPT ![p] = [@ EXCEPT ![idx[p]] = buffer[idx[p]]]]
               /\ idx' = [idx EXCEPT ![p] = @ + 1]
      <4>1. idx[p] \in Off
        BY <3>1, <1>0 DEF Off
      <4>2. [ubuf[p] EXCEPT ![idx[p]] = buffer[idx[p]]] \in Image
        BY <4>1, <1>0 DEF Image
      <4> QED
        BY <3>1, <4>2, <1>0
    <3>2. CASE UNCHANGED <<ubuf, idx>>
      BY <3>2, <1>0
    <3> QED
      BY <1>7, <3>1, <3>2 DEF CopyOut, copy_to_user
  <2>2. pc' \in [Proc -> Points]
    BY <1>7, <1>0 DEF CopyOut, copy_to_user, Points
  <2>3. UNCHANGED <<buffer, op, count, wqvars, pollin, fresh>>
    BY <1>7 DEF CopyOut, copy_to_user, Still
  <2> QED
    BY <2>1, <2>2, <2>3 DEF PollTypeOK, TypeOK, wqvars, Points
<1>8. ASSUME NEW p \in Proc, ClearStep(p) PROVE PollTypeOK'
  BY <1>8, <1>0, <1>a DEF ClearStep, Goto, PollTypeOK, TypeOK, Points
<1>9. ASSUME NEW p \in Proc, DownStep(p) PROVE PollTypeOK'
  <2>0. Available(sem) <=> sem.count = 1
    BY <1>0 DEF BinarySem, Available
  <2>1. sem' \in BinarySem
    BY <1>9, <2>0, <1>0, SemTaken, SemQueued DEF DownStep, down
  <2> QED
    BY <1>9, <2>1, <1>0, <1>a DEF DownStep, Still, down, Goto, PollTypeOK, TypeOK, Points
<1>10. ASSUME NEW p \in Proc, CopyIn(p) PROVE PollTypeOK'
  <2>1. buffer' \in Image /\ idx' \in [Proc -> 0 .. kmalloc_size]
    <3>1. CASE /\ idx[p] < kmalloc_size
               /\ buffer' = [buffer EXCEPT ![idx[p]] = ubuf[p][idx[p]]]
               /\ idx' = [idx EXCEPT ![p] = @ + 1]
      <4>1. idx[p] \in Off
        BY <3>1, <1>0 DEF Off
      <4>2. buffer' \in Image
        BY <3>1, <4>1, <1>0 DEF Image
      <4> QED
        BY <3>1, <4>2, <1>0
    <3>2. CASE UNCHANGED idx
      BY <1>10, <3>2, <1>0, ImageType DEF CopyIn, copy_from_user
    <3> QED
      BY <1>10, <3>1, <3>2 DEF CopyIn, copy_from_user
  <2>2. pc' \in [Proc -> Points]
    BY <1>10, <1>0 DEF CopyIn, copy_from_user, Points
  <2>3. UNCHANGED <<ubuf, op, count, wqvars, pollin, fresh>>
    BY <1>10 DEF CopyIn, copy_from_user, Still
  <2> QED
    BY <2>1, <2>2, <2>3 DEF PollTypeOK, TypeOK, wqvars, Points
<1>11. ASSUME NEW p \in Proc, UpStep(p) PROVE PollTypeOK'
  <2>1. sem' \in BinarySem
    BY <1>11, <1>0, UpHolds, SemReleased DEF UpStep, up, PollTypeOK
  <2>2. pc' \in [Proc -> Points]
    BY <1>11, <1>0 DEF UpStep, up, Points
  <2> QED
    BY <1>11, <2>1, <2>2, <1>a DEF UpStep, Still, up, PollTypeOK, TypeOK
<1>12. ASSUME NEW p \in Proc, SetStep(p) PROVE PollTypeOK'
  BY <1>12, <1>0, <1>a DEF SetStep, Still, Goto, PollTypeOK, TypeOK, Points
<1>13. ASSUME NEW p \in Proc, WakeStep(p) PROVE PollTypeOK'
  <2>1. pc' \in [Proc -> Points]
    BY <1>13, <1>0 DEF WakeStep, wake_up_interruptible, Awake, Points, Waiting, Polling
  <2> QED
    BY <1>13, <2>1, <1>0, <1>a DEF WakeStep, Still, wake_up_interruptible, PollTypeOK, TypeOK
<1> QED
  BY <1>1, <1>2, <1>3, <1>4, <1>5, <1>6, <1>7, <1>8, <1>9, <1>10, <1>11, <1>12, <1>13, ReadWriteSteps
  DEF PollNext, EnterStep, SignalStep, Still

-----------------------------------------------------------------------------
(* At most one writer is between down and up, and only sleepers are queued. *)
LEMMA NextSemInv == PollTypeOK /\ SemInv /\ [PollNext]_pollvars => SemInv'
<1> SUFFICES ASSUME PollTypeOK, SemInv, [PollNext]_pollvars PROVE SemInv'
  OBVIOUS
<1> DEFINE wl == sem.wait_list
<1>0. /\ pc \in [Proc -> Points] /\ op \in [Proc -> {"read", "write", "poll"}] /\ sem \in BinarySem
      /\ buffer \in Image /\ wl \in Seq(Proc) /\ DOMAIN wl = 1 .. Len(wl) /\ Len(wl) \in Nat
      /\ \A i \in DOMAIN wl : wl[i] \in Proc
  BY DEF PollTypeOK, TypeOK, BinarySem, Points
<1>a. ASSUME NEW p \in Proc, NEW l \in Points \ {"up"}, UNCHANGED sem, op' = op,
             pc[p] # "sem_asleep", l = "copy" => op[p] # "write",
             pc' = pc \/ pc' = [pc EXCEPT ![p] = l]
      PROVE  SemInv'
  BY <1>a, <1>0 DEF SemInv, Holder
<1>1. CASE UNCHANGED pollvars
  BY <1>1 DEF SemInv, Holder, pollvars, vars, callvars, wqvars
<1>2. ASSUME NEW p \in Proc, polltest(p) \/ EnterStep(p) PROVE SemInv'
  <2>1. PICK o \in {"read", "write", "poll"}, l \in {"enter", "poll", "down"} :
          pc[p] = "user" /\ pc' = [pc EXCEPT ![p] = l] /\ op' = [op EXCEPT ![p] = o]
    BY <1>2, <1>0, CallFrame DEF Call
  <2>2. UNCHANGED sem
    BY <1>2, <1>0, CallFrame DEF wqvars
  <2> QED
    BY <2>1, <2>2, <1>0 DEF SemInv, Holder
<1>3. ASSUME NEW p \in Proc, sample_char_drv_poll(p) PROVE SemInv'
  BY <1>3, <1>a DEF sample_char_drv_poll, Report, Goto, Keep, Points, Polling
<1>4. ASSUME NEW p \in Proc, poll_schedule_timeout(p) PROVE SemInv'
  BY <1>4, <1>a DEF poll_schedule_timeout, Report, Goto, Keep, Points, Polling
<1>5. ASSUME NEW p \in Proc, SignalStep(p) PROVE SemInv'
  BY <1>5, <1>a DEF SignalStep, Signal, Goto, Keep, Points, Waiting
<1>6. ASSUME NEW p \in Proc, WaitStep(p) PROVE SemInv'
  BY <1>6, <1>a DEF WaitStep, wait_event_interruptible, Goto, Keep, Points, Waiting
<1>7. ASSUME NEW p \in Proc, CopyOut(p) PROVE SemInv'
  BY <1>7, <1>a DEF CopyOut, copy_to_user, wqvars, Points
<1>8. ASSUME NEW p \in Proc, ClearStep(p) PROVE SemInv'
  BY <1>8, <1>a DEF ClearStep, Goto, Keep, Points
<1>9. ASSUME NEW p \in Proc, DownStep(p) PROVE SemInv'
  <2>0. UNCHANGED op /\ pc[p] = "down"
    BY <1>9 DEF DownStep, down, Keep
  <2>1. CASE Available(sem)
    <3>1. sem'.count = 0 /\ sem'.wait_list = wl /\ sem.count = 1
      BY <1>9, <2>1, <1>0, SemTaken DEF DownStep, down, BinarySem, Available
    <3>2. pc' = [pc EXCEPT ![p] = "copy"]
      BY <1>9, <2>1 DEF DownStep, down, Goto
    <3> QED
      BY <2>0, <3>1, <3>2, <1>0 DEF SemInv, Holder
  <2>2. CASE ~ Available(sem)
    <3>0. sem.count = 0 /\ sem' = Queued(sem, p)
      BY <1>9, <2>2, <1>0 DEF DownStep, down, BinarySem, Available
    <3>1. sem'.count = 0 /\ sem'.wait_list = Append(wl, p)
      BY <3>0, <1>0, SemQueued
    <3>2. pc' = [pc EXCEPT ![p] = "sem_asleep"]
      BY <1>9, <2>2 DEF DownStep, down, Goto
    <3>3. \A i \in DOMAIN sem'.wait_list : pc'[sem'.wait_list[i]] = "sem_asleep"
      BY <2>0, <3>1, <3>2, <1>0 DEF SemInv
    <3>4. \A i, j \in DOMAIN sem'.wait_list : i # j => sem'.wait_list[i] # sem'.wait_list[j]
      BY <2>0, <3>1, <1>0 DEF SemInv
    <3>5. \A q \in Proc : pc'[q] = "up" => op'[q] = "write"
      BY <2>0, <3>2, <1>0 DEF SemInv
    <3>6. \A q \in Proc : Holder(q)' => Holder(q)
      BY <2>0, <3>2, <1>0 DEF Holder
    <3> QED
      BY <3>1, <3>3, <3>4, <3>5, <3>6 DEF SemInv
  <2> QED
    BY <2>1, <2>2
<1>10. ASSUME NEW p \in Proc, CopyIn(p) PROVE SemInv'
  <2>1. /\ UNCHANGED <<sem, op>> /\ op[p] = "write" /\ pc[p] = "copy"
        /\ \/ UNCHANGED pc \/ pc' = [pc EXCEPT ![p] = "up"] \/ pc' = [pc EXCEPT ![p] = "oob"]
    BY <1>10 DEF CopyIn, copy_from_user, wqvars
  <2> QED
    BY <2>1, <1>0 DEF SemInv, Holder
<1>11. ASSUME NEW p \in Proc, UpStep(p) PROVE SemInv'
  <2>1. sem.count = 0 /\ pc[p] = "up" /\ UNCHANGED op /\ sem' = Released(sem)
    BY <1>11, UpHolds DEF UpStep, up, PollTypeOK, Keep
  <2>2. pc' = [q \in Proc |-> IF q = p THEN "set" ELSE IF IsNext(sem, q) THEN "copy" ELSE pc[q]]
    BY <1>11 DEF UpStep, up
  <2>3. \A q \in Proc : Holder(q) => q = p
    BY <2>1 DEF SemInv, Holder
  <2>4. \A q \in Proc : pc'[q] = "up" => op'[q] = "write"
    BY <2>1, <2>2 DEF SemInv
  <2>5. CASE wl = <<>>
    <3>1. sem'.count = 1 /\ sem'.wait_list = <<>>
      BY <2>1, <2>5, <1>0, SemReleased
    <3>2. \A q \in Proc : ~ Holder(q)'
      BY <2>1, <2>2, <2>3, <2>5 DEF IsNext, Holder
    <3> QED
      BY <3>1, <3>2, <2>4 DEF SemInv
  <2>6. CASE wl # <<>>
    <3>1. sem'.count = 0 /\ sem'.wait_list = Tail(wl)
      BY <2>1, <2>6, <1>0, SemReleased
    <3>2. Head(wl) = wl[1] /\ 1 \in DOMAIN wl /\ Head(wl) \in Proc /\ pc[Head(wl)] = "sem_asleep"
      BY <2>6, <1>0 DEF SemInv
    <3>3. \A q \in Proc : Holder(q)' => q = Head(wl)
      BY <2>1, <2>2, <2>3 DEF IsNext, Holder
    <3>4. /\ DOMAIN Tail(wl) = 1 .. Len(wl) - 1
          /\ \A i \in DOMAIN Tail(wl) : Tail(wl)[i] = wl[i + 1] /\ i + 1 \in DOMAIN wl /\ i + 1 # 1
      BY <2>6, <1>0
    <3>5. \A i \in DOMAIN Tail(wl) : pc'[Tail(wl)[i]] = "sem_asleep"
      <4> TAKE i \in DOMAIN Tail(wl)
      <4>1. Tail(wl)[i] \in Proc /\ pc[Tail(wl)[i]] = "sem_asleep" /\ Tail(wl)[i] # Head(wl)
        BY <3>4, <3>2, <1>0 DEF SemInv
      <4> QED
        BY <4>1, <2>1, <2>2 DEF IsNext
    <3>6. \A i, j \in DOMAIN Tail(wl) : i # j => Tail(wl)[i] # Tail(wl)[j]
      BY <3>4, <1>0 DEF SemInv
    <3> QED
      BY <3>1, <3>3, <3>5, <3>6, <2>4 DEF SemInv
  <2> QED
    BY <2>5, <2>6
<1>12. ASSUME NEW p \in Proc, SetStep(p) PROVE SemInv'
  BY <1>12, <1>a DEF SetStep, Goto, Keep, Points
<1>13. ASSUME NEW p \in Proc, WakeStep(p) PROVE SemInv'
  <2>1. /\ UNCHANGED <<sem, op>> /\ pc[p] = "wake"
        /\ pc' = [q \in Proc |-> IF q = p THEN "user"
                                  ELSE IF q \in wt_queue THEN Awake(pc[q]) ELSE pc[q]]
    BY <1>13 DEF WakeStep, wake_up_interruptible, Keep
  <2>2. \A q \in Proc : /\ pc'[q] = "up" <=> pc[q] = "up"
                        /\ pc'[q] = "copy" <=> pc[q] = "copy"
                        /\ pc[q] = "sem_asleep" => pc'[q] = "sem_asleep"
    <3>1. \A l : l \notin Sleeping => Awake(l) = l
      BY DEF Awake, Sleeping
    <3>2. \A l : Awake(l) \in {l, "wait", "poll"}
      BY DEF Awake
    <3> TAKE q \in Proc
    <3>3. CASE q = p
      BY <2>1, <3>3
    <3>4. CASE q # p
      <4>1. pc'[q] = pc[q] \/ pc'[q] = Awake(pc[q])
        BY <2>1, <3>4
      <4> QED
        BY <4>1, <3>1, <3>2 DEF Sleeping
    <3> QED
      BY <3>3, <3>4
  <2>3. \A q \in Proc : (Holder(q)' => Holder(q)) /\ (pc'[q] = "up" => op'[q] = "write")
    BY <2>1, <2>2 DEF Holder, SemInv
  <2>4. \A i \in DOMAIN wl : pc'[wl[i]] = "sem_asleep"
    BY <2>2, <1>0 DEF SemInv
  <2> QED
    BY <2>1, <2>3, <2>4 DEF SemInv
<1> QED
  BY <1>1, <1>2, <1>3, <1>4, <1>5, <1>6, <1>7, <1>8, <1>9, <1>10, <1>11, <1>12, <1>13, ReadWriteSteps
  DEF PollNext, EnterStep, SignalStep, Still

(* A task on wt_queue cannot miss a wake-up. *)
LEMMA NextWakeInv == PollTypeOK /\ SemInv /\ WakeInv /\ [PollNext]_pollvars => WakeInv'
<1> SUFFICES ASSUME PollTypeOK, SemInv, WakeInv, [PollNext]_pollvars PROVE WakeInv'
  OBVIOUS
<1> DEFINE Restless == {"schedule", "poll_schedule"} \cup Sleeping
<1>0. pc \in [Proc -> Points] /\ wt_queue \subseteq Proc /\ buffer \in Image
  BY DEF PollTypeOK, TypeOK, Points
(* A step of p that neither wakes anybody nor puts p to sleep. *)
<1>a. ASSUME NEW p \in Proc, UNCHANGED condition, wt_queue' = wt_queue \/ wt_queue' = wt_queue \cup {p}
                                                   \/ wt_queue' = wt_queue \ {p},
             pc[p] # "wake", NEW l \in Points \ Restless,
             pc' = [pc EXCEPT ![p] = l]
      PROVE  WakeInv'
  BY <1>a, <1>0 DEF WakeInv, Sleeping
<1>1. CASE UNCHANGED <<pc, wt_queue, condition>>
  BY <1>1 DEF WakeInv
<1>2. ASSUME NEW p \in Proc, polltest(p) \/ EnterStep(p) PROVE WakeInv'
  <2>1. PICK o \in {"read", "write", "poll"}, l \in {"enter", "poll", "down"} :
          pc[p] = "user" /\ pc' = [pc EXCEPT ![p] = l] /\ op' = [op EXCEPT ![p] = o]
    BY <1>2, <1>0, CallFrame DEF Call
  <2>2. UNCHANGED <<wt_queue, condition>>
    BY <1>2, <1>0, CallFrame DEF wqvars
  <2>3. l \in Points \ Restless
    BY DEF Points, Waiting, Polling, Sleeping
  <2> QED
    BY <2>1, <2>2, <2>3, <1>a
<1>3. ASSUME NEW p \in Proc, sample_char_drv_poll(p) PROVE WakeInv'
  <2>1. CASE pc[p] = "poll_check" /\ condition # 1
    BY <1>3, <2>1, <1>0 DEF sample_char_drv_poll, Goto, WakeInv, Sleeping
  <2>2. CASE ~ (pc[p] = "poll_check" /\ condition # 1)
    BY <1>3, <2>2, <1>a DEF sample_char_drv_poll, Report, Goto, Points, Polling, Sleeping
  <2> QED
    BY <2>1, <2>2
<1>4. ASSUME NEW p \in Proc, poll_schedule_timeout(p) PROVE WakeInv'
  <2>1. CASE pc[p] = "poll_schedule" /\ p \in wt_queue
    BY <1>4, <2>1, <1>0 DEF poll_schedule_timeout, Report, Goto, WakeInv, Sleeping
  <2>2. CASE ~ (pc[p] = "poll_schedule" /\ p \in wt_queue)
    BY <1>4, <2>2, <1>a DEF poll_schedule_timeout, Report, Goto, Points, Polling, Sleeping
  <2> QED
    BY <2>1, <2>2
<1>5. ASSUME NEW p \in Proc, SignalStep(p) PROVE WakeInv'
  BY <1>5, <1>0 DEF SignalStep, Signal, Goto, WakeInv, Sleeping
<1>6. ASSUME NEW p \in Proc, WaitStep(p) PROVE WakeInv'
  <2>1. CASE (pc[p] = "check" /\ condition # 1 /\ p \notin signalled)
             \/ (pc[p] = "schedule" /\ p \in wt_queue)
    BY <1>6, <2>1, <1>0 DEF WaitStep, wait_event_interruptible, Goto, WakeInv, Sleeping
  <2>2. CASE ~ ((pc[p] = "check" /\ condition # 1 /\ p \notin signalled)
                \/ (pc[p] = "schedule" /\ p \in wt_queue))
    <3>1. PICK l \in {"copy", "wait", "check"} : Goto(p, l)
      BY <1>6, <2>2 DEF WaitStep, wait_event_interruptible
    <3>2. l \in Points \ Restless
      BY DEF Points, Waiting, Sleeping
    <3> QED
      BY <1>6, <3>1, <3>2, <1>a DEF WaitStep, wait_event_interruptible, Goto
  <2> QED
    BY <2>1, <2>2
<1>7. ASSUME NEW p \in Proc, CopyOut(p) PROVE WakeInv'
  BY <1>7, <1>1, <1>a DEF CopyOut, copy_to_user, wqvars, Points, Sleeping
<1>8. ASSUME NEW p \in Proc, ClearStep(p) PROVE WakeInv'
  BY <1>8, <1>0 DEF ClearStep, Goto, WakeInv, Sleeping
<1>9. ASSUME NEW p \in Proc, DownStep(p) PROVE WakeInv'
  BY <1>9, <1>a DEF DownStep, down, Goto, Points, Sleeping
<1>10. ASSUME NEW p \in Proc, CopyIn(p) PROVE WakeInv'
  BY <1>10, <1>1, <1>a DEF CopyIn, copy_from_user, wqvars, Points, Sleeping
<1>11. ASSUME NEW p \in Proc, UpStep(p) PROVE WakeInv'
  <2>1. \A q \in Proc : IsNext(sem, q) => pc[q] = "sem_asleep"
    BY DEF IsNext, SemInv, PollTypeOK, TypeOK
  <2>2. \A q \in Proc : /\ pc[q] = "wake" => pc'[q] = "wake"
                        /\ pc'[q] \in Restless => pc'[q] = pc[q]
    BY <1>11, <2>1, <1>0 DEF UpStep, up, Sleeping
  <2>3. UNCHANGED <<wt_queue, condition>>
    BY <1>11 DEF UpStep, up
  <2> QED
    <3>1. \A q \in Proc : pc'[q] \in Sleeping => q \in wt_queue'
      BY <2>2, <2>3 DEF WakeInv
    <3>2. (\E q \in Proc : pc[q] = "wake") => \E q \in Proc : pc'[q] = "wake"
      BY <2>2
    <3> QED
      BY <2>2, <2>3, <3>1, <3>2, <1>0 DEF WakeInv
<1>12. ASSUME NEW p \in Proc, SetStep(p) PROVE WakeInv'
  BY <1>12, <1>0 DEF SetStep, Goto, WakeInv, Sleeping
<1>13. ASSUME NEW p \in Proc, WakeStep(p) PROVE WakeInv'
  <2>1. wt_queue' = {}
    BY <1>13 DEF WakeStep, wake_up_interruptible
  <2>2. \A q \in Proc : pc'[q] \notin Sleeping
    BY <1>13, <1>0 DEF WakeStep, wake_up_interruptible, Awake, Sleeping, WakeInv
  <2> QED
    BY <2>1, <2>2 DEF WakeInv
<1>14. CASE UNCHANGED pollvars
  BY <1>14, <1>1 DEF pollvars, vars, callvars, wqvars
<1> QED
  BY <1>1, <1>2, <1>3, <1>4, <1>5, <1>6, <1>7, <1>8, <1>9, <1>10, <1>11, <1>12, <1>13, <1>14, ReadWriteSteps
  DEF PollNext, EnterStep, SignalStep, Still

(* What is announced has been written. *)
LEMMA NextDataInv == PollTypeOK /\ SemInv /\ DataInv /\ [PollNext]_pollvars => DataInv'
<1> SUFFICES ASSUME PollTypeOK, SemInv, DataInv, [PollNext]_pollvars PROVE DataInv'
  OBVIOUS
<1> USE DEF DataInv, NoReadBeforeWrite
<1>0. /\ pc \in [Proc -> Points] /\ op \in [Proc -> {"read", "write", "poll"}]
      /\ buffer \in Image
  BY DEF PollTypeOK, TypeOK, Points
(* A step of p that announces nothing and does not start to copy. *)
<1>a. ASSUME NEW p \in Proc, UNCHANGED <<condition, written, op>>,
             NEW l \in Points \ {"set", "wake", "copy", "clear"},
             \A q \in Proc : q # p /\ q \in signalled => q \in signalled',
             pc' = [pc EXCEPT ![p] = l]
      PROVE  DataInv'
  BY <1>a, <1>0
<1>1. CASE UNCHANGED pollvars
  BY <1>1 DEF pollvars, vars, callvars, wqvars
<1>2. ASSUME NEW p \in Proc, polltest(p) \/ EnterStep(p) PROVE DataInv'
  <2>1. PICK o \in {"read", "write", "poll"}, l \in {"enter", "poll", "down"} :
          pc[p] = "user" /\ pc' = [pc EXCEPT ![p] = l] /\ op' = [op EXCEPT ![p] = o]
    BY <1>2, <1>0, CallFrame DEF Call
  <2>2. UNCHANGED <<condition, written, signalled>>
    BY <1>2, <1>0, CallFrame DEF wqvars
  <2> QED
    BY <2>1, <2>2, <1>0
<1>3. ASSUME NEW p \in Proc, sample_char_drv_poll(p) PROVE DataInv'
  BY <1>3, <1>a DEF sample_char_drv_poll, Report, Goto, Keep, Points, Polling
<1>4. ASSUME NEW p \in Proc, poll_schedule_timeout(p) PROVE DataInv'
  BY <1>4, <1>a DEF poll_schedule_timeout, Report, Goto, Keep, Points, Polling
<1>5. ASSUME NEW p \in Proc, SignalStep(p) PROVE DataInv'
  BY <1>5, <1>0 DEF SignalStep, Signal, Goto, Keep
<1>6. ASSUME NEW p \in Proc, WaitStep(p) PROVE DataInv'
  BY <1>6, <1>0 DEF WaitStep, wait_event_interruptible, Goto, Keep
<1>7. ASSUME NEW p \in Proc, CopyOut(p) PROVE DataInv'
  <2>1. /\ UNCHANGED <<condition, written, signalled, op>> /\ pc[p] = "copy"
        /\ \/ UNCHANGED pc \/ pc' = [pc EXCEPT ![p] = "clear"] \/ pc' = [pc EXCEPT ![p] = "oob"]
    BY <1>7 DEF CopyOut, copy_to_user, wqvars
  <2> QED
    BY <2>1, <1>0
<1>8. ASSUME NEW p \in Proc, ClearStep(p) PROVE DataInv'
  BY <1>8, <1>0 DEF ClearStep, Goto, Keep
<1>9. ASSUME NEW p \in Proc, DownStep(p) PROVE DataInv'
  BY <1>9, <1>0 DEF DownStep, down, Goto, Keep
<1>10. ASSUME NEW p \in Proc, CopyIn(p) PROVE DataInv'
  <2>1. /\ UNCHANGED <<condition, written, signalled, op>> /\ pc[p] = "copy"
        /\ \/ UNCHANGED pc \/ pc' = [pc EXCEPT ![p] = "up"] \/ pc' = [pc EXCEPT ![p] = "oob"]
    BY <1>10 DEF CopyIn, copy_from_user, wqvars
  <2> QED
    BY <2>1, <1>0
<1>11. ASSUME NEW p \in Proc, UpStep(p) PROVE DataInv'
  BY <1>11 DEF UpStep, up
<1>12. ASSUME NEW p \in Proc, SetStep(p) PROVE DataInv'
  BY <1>12, <1>0 DEF SetStep, Goto, Keep
<1>13. ASSUME NEW p \in Proc, WakeStep(p) PROVE DataInv'
  <2>1. written
    BY <1>13 DEF WakeStep
  <2> QED
    BY <1>13, <2>1 DEF WakeStep
<1> QED
  BY <1>1, <1>2, <1>3, <1>4, <1>5, <1>6, <1>7, <1>8, <1>9, <1>10, <1>11, <1>12, <1>13, ReadWriteSteps
  DEF PollNext, EnterStep, SignalStep, Still

(* A POLLIN holds until a read completes. *)
LEMMA NextFreshInv == PollTypeOK /\ SemInv /\ FreshInv /\ [PollNext]_pollvars => FreshInv'
<1> SUFFICES ASSUME PollTypeOK, SemInv, FreshInv, [PollNext]_pollvars PROVE FreshInv'
  OBVIOUS
<1> USE DEF FreshInv, ReadAfterPollNeverWaits
<1>0. pc \in [Proc -> Points] /\ fresh \subseteq Proc /\ buffer \in Image
  BY DEF PollTypeOK, TypeOK, Points
<1>1. CASE UNCHANGED pollvars
  BY <1>1 DEF pollvars, vars, callvars, wqvars
<1>2. ASSUME NEW p \in Proc, polltest(p) \/ EnterStep(p) PROVE FreshInv'
  <2>1. PICK o \in {"read", "write", "poll"}, l \in {"enter", "poll", "down"} :
          pc[p] = "user" /\ pc' = [pc EXCEPT ![p] = l] /\ op' = [op EXCEPT ![p] = o]
    BY <1>2, <1>0, CallFrame DEF Call
  <2>2. UNCHANGED <<condition, fresh>>
    BY <1>2, <1>0, CallFrame DEF wqvars
  <2> QED
    BY <2>1, <2>2, <1>0
<1>3. ASSUME NEW p \in Proc, sample_char_drv_poll(p) PROVE FreshInv'
  BY <1>3, <1>0 DEF sample_char_drv_poll, Report, Goto
<1>4. ASSUME NEW p \in Proc, poll_schedule_timeout(p) PROVE FreshInv'
  BY <1>4, <1>0 DEF poll_schedule_timeout, Report, Goto
<1>5. ASSUME NEW p \in Proc, SignalStep(p) PROVE FreshInv'
  BY <1>5, <1>0 DEF SignalStep, Signal, Goto, Still
<1>6. ASSUME NEW p \in Proc, WaitStep(p) PROVE FreshInv'
  BY <1>6, <1>0 DEF WaitStep, wait_event_interruptible, Goto, Still
<1>7. ASSUME NEW p \in Proc, CopyOut(p) PROVE FreshInv'
  BY <1>7, <1>0 DEF CopyOut, copy_to_user, wqvars, Still
<1>8. ASSUME NEW p \in Proc, ClearStep(p) PROVE FreshInv'
  BY <1>8 DEF ClearStep
<1>9. ASSUME NEW p \in Proc, DownStep(p) PROVE FreshInv'
  BY <1>9, <1>0 DEF DownStep, down, Goto, Still
<1>10. ASSUME NEW p \in Proc, CopyIn(p) PROVE FreshInv'
  BY <1>10, <1>0 DEF CopyIn, copy_from_user, wqvars, Still
<1>11. ASSUME NEW p \in Proc, UpStep(p) PROVE FreshInv'
  BY <1>11, <1>0 DEF UpStep, up, Still
<1>12. ASSUME NEW p \in Proc, SetStep(p) PROVE FreshInv'
  BY <1>12, <1>0 DEF SetStep, Goto, Still
<1>13. ASSUME NEW p \in Proc, WakeStep(p) PROVE FreshInv'
  BY <1>13, <1>0 DEF WakeStep, wake_up_interruptible, Awake, Still
<1> QED
  BY <1>1, <1>2, <1>3, <1>4, <1>5, <1>6, <1>7, <1>8, <1>9, <1>10, <1>11, <1>12, <1>13, ReadWriteSteps
  DEF PollNext, EnterStep, SignalStep, Still

-----------------------------------------------------------------------------
(* The driver's initial state satisfies the inductive invariant. *)
LEMMA InitIInv == PollInit => IInv
<1> SUFFICES ASSUME PollInit PROVE IInv
  OBVIOUS
<1>1. PollTypeOK
  <2>1. sem \in BinarySem
    BY DEF PollInit, Init, sema_init, BinarySem
  <2>2. ubuf \in [Proc -> Image]
    BY CharDrvAssumption DEF PollInit, Init, CallInit, Image, Blank, Off
  <2> QED
    <3>1. pc \in [Proc -> Points] /\ op \in [Proc -> {"read", "write", "poll"}]
      BY DEF PollInit, Init, CallInit, Points
    <3>2. count \in [Proc -> Nat] /\ idx \in [Proc -> 0 .. kmalloc_size] /\ buffer \in Image
      BY CharDrvAssumption DEF PollInit, Init, CallInit
    <3> QED
      BY <2>1, <2>2, <3>1, <3>2 DEF PollInit, Init, PollTypeOK, TypeOK, BinarySem, Points
<1>2. SemInv
  BY DEF PollInit, Init, CallInit, SemInv, Holder, sema_init
<1>3. WakeInv /\ DataInv /\ FreshInv
  BY DEF PollInit, Init, CallInit, WakeInv, Sleeping, DataInv, NoReadBeforeWrite, FreshInv,
         ReadAfterPollNeverWaits
<1> QED
  BY <1>1, <1>2, <1>3 DEF IInv

(* Every state of every behaviour of the driver and of polltest satisfies    *)
(* the inductive invariant.                                                  *)
THEOREM Invariance == PollSpec => []IInv
<1>1. IInv /\ [PollNext]_pollvars => IInv'
  BY NextTypeOK, NextSemInv, NextWakeInv, NextDataInv, NextFreshInv DEF IInv
<1> QED
  BY <1>1, InitIInv, PTL DEF PollSpec

(* However reads, polls, writes and signals interleave, no process sleeps    *)
(* beside data without a wake-up on its way.                                 *)
THEOREM WakeupTheorem == PollSpec => []NoLostWakeup
<1>1. IInv => NoLostWakeup
  BY DEF IInv, WakeInv, NoLostWakeup
<1> QED
  BY <1>1, Invariance, PTL

(* A read that no signal interrupted copies only after some write has.       *)
THEOREM FirstReadTheorem == PollSpec => []NoReadBeforeWrite
<1>1. IInv => NoReadBeforeWrite
  BY DEF IInv, DataInv
<1> QED
  BY <1>1, Invariance, PTL

(* polltest.c's read after POLLIN does not wait, unless another read         *)
(* completed in between.                                                     *)
THEOREM PollTheorem == PollSpec => []ReadAfterPollNeverWaits
<1>1. IInv => ReadAfterPollNeverWaits
  BY DEF IInv, FreshInv
<1> QED
  BY <1>1, Invariance, PTL
=============================================================================
