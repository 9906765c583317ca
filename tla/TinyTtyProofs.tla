---------------------------- MODULE TinyTtyProofs ----------------------------
(***************************************************************************)
(* Proofs about the tiny tty driver for every finite set of processes:     *)
(* what open_count counts, when the timer rests, and what each way to kill *)
(* the machine needs.                                                      *)
(***************************************************************************)
EXTENDS TinyTty, FiniteSetTheorems, TLAPS

(* The handlers that run without the tty_lock. *)
Unlocked(p) ==
  tiny_write(p) \/ tiny_tiocmget(p) \/ tiny_tiocmset(p) \/ tiny_ioctl(p)

(* What a handler without the tty_lock leaves alone, and where it may go. *)
LEMMA UnlockedFrame ==
  ASSUME TypeOK, NEW p \in Proc, Unlocked(p)
  PROVE  /\ UNCHANGED <<driver_data, tiny, open_count, sem, tty, timer, funcvars, corevars, histvars>>
         /\ pc[p] \in {"user", "miwait", "mset"}
         /\ \/ UNCHANGED pc
            \/ \E l \in {"user", "miwait", "mset"} : pc' = [pc EXCEPT ![p] = l]
BY DEF Unlocked, tiny_write, tiny_tiocmget, tiny_tiocmset, tiny_ioctl, tiny_ioctl_tiocgserial,
       tiny_ioctl_tiocmiwait, tiny_ioctl_tiocgicount, Look, portvars, funcvars, corevars,
       histvars, Goto, TypeOK

-----------------------------------------------------------------------------
(* TypeOK in two parts: the flags, and all the rest. *)
FlagTypes ==
  driver_data \in BOOLEAN /\ sem \in BOOLEAN /\ tty \in BOOLEAN /\ func_tty \in BOOLEAN
  /\ overtaken \in BOOLEAN
DataTypes ==
  /\ module \in {"live", "exit", "free", "gone"}
  /\ tty_lock \in Proc \cup {None} /\ refs \subseteq Proc /\ files \subseteq refs
  /\ tiny \in {"null", "there", "freed"} /\ open_count \in Nat
  /\ timer \in {"null", "fresh", "idle", "pending"}
  /\ func \in {"none", "load", "push", "add"}
  /\ mcr \subseteq Bits
  /\ pc \in [Proc -> {"user", "open", "down", "add", "release", "drop", "miwait", "mset"}]
  /\ reg \in [Proc -> SUBSET Bits]
  /\ nomem \subseteq {"tiny", "timer"}
  /\ oops \in {"none", "uninitialised timer", "timer added twice", "no timer", "freed memory",
               "driver_data", "wait queue"}

(* What del_timer leaves behind; overtaken says whether tiny_timer was running. *)
LEMMA DelTimerType ==
  ASSUME TypeOK, del_timer
  PROVE  /\ timer' \in {"null", "fresh", "idle", "pending"} /\ oops' \in {"none", "no timer"}
         /\ overtaken' \in BOOLEAN
<1>1. timer' \in {"null", "fresh", "idle", "pending"}
  BY DEF del_timer, TypeOK
<1>2. oops' \in {"none", "no timer"}
  BY DEF del_timer, Oops, Fine
<1>3. overtaken' \in BOOLEAN
  BY Zenon DEF del_timer, TypeOK
<1> QED
  BY <1>1, <1>2, <1>3

(* What do_close leaves behind: open_count never goes below zero. *)
LEMMA DoCloseType ==
  ASSUME TypeOK, do_close
  PROVE  /\ timer' \in {"null", "fresh", "idle", "pending"} /\ oops' \in {"none", "no timer"}
         /\ open_count' \in Nat /\ overtaken' \in BOOLEAN
<1>1. open_count' \in Nat
  <2>1. open_count' = open_count \/ (open_count # 0 /\ open_count' = open_count - 1)
    BY Zenon DEF do_close
  <2>2. open_count \in Nat
    BY DEF TypeOK
  <2> QED
    BY <2>1, <2>2
<1>2. CASE del_timer
  BY <1>1, <1>2, DelTimerType
<1>3. CASE Fine /\ UNCHANGED <<timer, overtaken>>
  BY <1>1, <1>3 DEF Fine, TypeOK
<1> QED
  BY <1>2, <1>3 DEF do_close

(* Every step keeps the data in their types. *)
LEMMA NextDataTypes == TypeOK /\ RefInv /\ [Next]_vars => DataTypes'
<1> SUFFICES ASSUME TypeOK, RefInv, [Next]_vars PROVE DataTypes'
  OBVIOUS
<1>1. CASE UNCHANGED vars
  BY <1>1 DEF TypeOK, DataTypes, vars, portvars, funcvars, corevars, histvars
<1>2. ASSUME NEW p \in Proc, tty_open(p) PROVE DataTypes'
  BY <1>2 DEF TypeOK, DataTypes, tty_open, Goto, Fine, portvars, funcvars, histvars
<1>3. ASSUME NEW p \in Proc, LookUp(p) PROVE DataTypes'
  <2>1. module' \in {"live", "exit", "free", "gone"} /\ tty_lock' \in Proc \cup {None}
        /\ refs' \subseteq Proc /\ files' \subseteq refs'
    BY <1>3 DEF TypeOK, LookUp, Goto, Fine, OpenFailed, portvars, funcvars, histvars,
      corevars
  <2>2. /\ tiny' \in {"null", "there", "freed"} /\ open_count' \in Nat
        /\ timer' \in {"null", "fresh", "idle", "pending"}
        /\ func' \in {"none", "load", "push", "add"} /\ mcr' \subseteq Bits
    BY <1>3 DEF TypeOK, LookUp, Goto, Fine, OpenFailed, portvars, funcvars, histvars,
      corevars
  <2>3. /\ pc' \in [Proc -> {"user", "open", "down", "add", "release", "drop", "miwait", "mset"}]
        /\ reg' \in [Proc -> SUBSET Bits]
    BY <1>3 DEF TypeOK, LookUp, Goto, Fine, OpenFailed, portvars, funcvars, histvars,
      corevars
  <2>4. nomem' \subseteq {"tiny", "timer"}
    BY <1>3 DEF TypeOK, LookUp, Goto, Fine, OpenFailed, portvars, funcvars, histvars,
      corevars
  <2>5. oops' \in {"none", "no timer", "driver_data", "wait queue"}
    BY <1>3 DEF TypeOK, LookUp, Goto, Fine, OpenFailed, portvars, funcvars, histvars,
      corevars
  <2> QED
    BY <2>1, <2>2, <2>3, <2>4, <2>5 DEF DataTypes
<1>4. ASSUME NEW p \in Proc, Count(p) PROVE DataTypes'
  <2>1. module' \in {"live", "exit", "free", "gone"} /\ tty_lock' \in Proc \cup {None}
        /\ refs' \subseteq Proc /\ files' \subseteq refs'
    BY <1>4 DEF TypeOK, Count, RefInv, Locked, Goto, Fine, Opened, OpenFailed, portvars,
      funcvars, histvars, corevars
  <2>2. /\ tiny' \in {"null", "there", "freed"} /\ open_count' \in Nat
        /\ timer' \in {"null", "fresh", "idle", "pending"}
        /\ func' \in {"none", "load", "push", "add"} /\ mcr' \subseteq Bits
    BY <1>4 DEF TypeOK, Count, RefInv, Locked, Goto, Fine, Opened, OpenFailed, portvars,
      funcvars, histvars, corevars
  <2>3. /\ pc' \in [Proc -> {"user", "open", "down", "add", "release", "drop", "miwait", "mset"}]
        /\ reg' \in [Proc -> SUBSET Bits]
    BY <1>4 DEF TypeOK, Count, RefInv, Locked, Goto, Fine, Opened, OpenFailed, portvars,
      funcvars, histvars, corevars
  <2>4. nomem' \subseteq {"tiny", "timer"}
    BY <1>4 DEF TypeOK, Count, RefInv, Locked, Goto, Fine, Opened, OpenFailed, portvars,
      funcvars, histvars, corevars
  <2>5. oops' \in {"none", "no timer", "driver_data", "wait queue"}
    BY <1>4 DEF TypeOK, Count, RefInv, Locked, Goto, Fine, Opened, OpenFailed, portvars,
      funcvars, histvars, corevars
  <2> QED
    BY <2>1, <2>2, <2>3, <2>4, <2>5 DEF DataTypes
<1>5. ASSUME NEW p \in Proc, Start(p) PROVE DataTypes'
  BY <1>5 DEF TypeOK, DataTypes, Start, add_timer, RefInv, Locked, Goto, Fine, Oops, Opened, portvars, funcvars, histvars, corevars
<1>6. ASSUME NEW p \in Proc, tty_release(p) PROVE DataTypes'
  BY <1>6 DEF TypeOK, DataTypes, tty_release, Goto, Fine, portvars, funcvars, histvars
<1>7. ASSUME NEW p \in Proc, tiny_close(p) PROVE DataTypes'
  <2>1. CASE do_close
    BY <1>7, <2>1, DoCloseType DEF TypeOK, DataTypes, tiny_close, Goto, funcvars
  <2>2. CASE Fine /\ UNCHANGED <<open_count, timer, overtaken>>
    BY <1>7, <2>2 DEF TypeOK, DataTypes, tiny_close, Fine, Goto, funcvars
  <2> QED
    BY <1>7, <2>1, <2>2 DEF tiny_close
<1>8. ASSUME NEW p \in Proc, release_tty(p) PROVE DataTypes'
  BY <1>8 DEF TypeOK, DataTypes, release_tty, RefInv, Locked, Goto, Fine, histvars
<1>9. ASSUME NEW p \in Proc, Unlocked(p) PROVE DataTypes'
  <2>1. CASE tiny_write(p) \/ Look(p)
    BY <2>1 DEF tiny_write, Look, TypeOK, DataTypes, portvars, funcvars, corevars, histvars, Fine, Oops
  <2>2. CASE tiny_tiocmset(p)
    <3>1. /\ mcr' \subseteq Bits /\ reg' \in [Proc -> SUBSET Bits]
      <4>1. CASE \E set, clear \in SUBSET Bits :
                   reg' = [reg EXCEPT ![p] = (mcr \cup Lines(set)) \ Lines(clear)] /\ UNCHANGED mcr
        <5>1. PICK set, clear \in SUBSET Bits :
                reg' = [reg EXCEPT ![p] = (mcr \cup Lines(set)) \ Lines(clear)] /\ UNCHANGED mcr
          BY <4>1
        <5>2. (mcr \cup Lines(set)) \ Lines(clear) \in SUBSET Bits
          BY DEF Lines, Line, Bits, TypeOK
        <5> QED
          BY <5>1, <5>2 DEF TypeOK
      <4>2. CASE mcr' = reg[p] /\ reg' = [reg EXCEPT ![p] = {}]
        BY <4>2 DEF TypeOK
      <4> QED
        BY <2>2, <4>1, <4>2 DEF tiny_tiocmset
    <3> QED
      <4>1. oops' \in {"none", "driver_data"}
        BY <2>2 DEF tiny_tiocmset, Fine, Oops
      <4>2. pc' \in [Proc -> {"user", "open", "down", "add", "release", "drop", "miwait", "mset"}]
        BY <2>2 DEF tiny_tiocmset, TypeOK, Goto
      <4> QED
        BY <2>2, <3>1, <4>1, <4>2 DEF tiny_tiocmset, TypeOK, DataTypes, funcvars, corevars, histvars
  <2>3. CASE tiny_ioctl_tiocgserial(p)
    BY <2>3 DEF tiny_ioctl_tiocgserial, Look, TypeOK, DataTypes, portvars, funcvars, corevars,
         histvars, Fine, Oops
  <2>4. CASE tiny_ioctl_tiocmiwait(p)
    BY <2>4 DEF tiny_ioctl_tiocmiwait, TypeOK, DataTypes, portvars, funcvars, corevars, histvars,
         Fine, Oops, Goto
  <2> QED
    BY <1>9, <2>1, <2>2, <2>3, <2>4
    DEF Unlocked, tiny_tiocmget, tiny_ioctl, tiny_ioctl_tiocgicount
<1>10. CASE Expire
  BY <1>10 DEF TypeOK, DataTypes, Expire, Fine, Oops, corevars, histvars
<1>11. CASE tiny_timer
  BY <1>11 DEF TypeOK, DataTypes, tiny_timer, add_timer, Fine, Oops, corevars, histvars
<1>12. CASE tiny_exit
  <2>1. CASE do_close
    BY <1>12, <2>1, DoCloseType DEF TypeOK, DataTypes, tiny_exit, funcvars
  <2>2. CASE del_timer /\ UNCHANGED open_count
    BY <1>12, <2>2, DelTimerType DEF TypeOK, DataTypes, tiny_exit, funcvars
  <2>3. CASE Fine /\ UNCHANGED <<open_count, timer, overtaken>>
    BY <1>12, <2>3 DEF TypeOK, DataTypes, tiny_exit, Fine, funcvars
  <2> QED
    BY <1>12, <2>1, <2>2, <2>3 DEF tiny_exit
<1> QED
  BY <1>1, <1>2, <1>3, <1>4, <1>5, <1>6, <1>7, <1>8, <1>9, <1>10, <1>11, <1>12
  DEF Next, tiny_open, Unlocked

(* Every step keeps the flags Boolean. *)
LEMMA NextFlagTypes == TypeOK /\ RefInv /\ [Next]_vars => FlagTypes'
<1> SUFFICES ASSUME TypeOK, RefInv, [Next]_vars PROVE FlagTypes'
  OBVIOUS
<1>1. CASE UNCHANGED vars
  BY <1>1 DEF TypeOK, FlagTypes, vars, portvars, funcvars, corevars, histvars
<1>2. ASSUME NEW p \in Proc, tty_open(p) PROVE FlagTypes'
  BY <1>2 DEF TypeOK, FlagTypes, tty_open, Goto, Fine, portvars, funcvars, histvars
<1>3. ASSUME NEW p \in Proc, LookUp(p) PROVE FlagTypes'
  BY <1>3 DEF TypeOK, FlagTypes, LookUp, Goto, Fine, OpenFailed, portvars, funcvars, histvars, corevars
<1>4. ASSUME NEW p \in Proc, Count(p) PROVE FlagTypes'
  BY <1>4 DEF TypeOK, FlagTypes, Count, RefInv, Locked, Goto, Fine, Opened, OpenFailed, portvars, funcvars, histvars, corevars
<1>5. ASSUME NEW p \in Proc, Start(p) PROVE FlagTypes'
  BY <1>5 DEF TypeOK, FlagTypes, Start, add_timer, RefInv, Locked, Goto, Fine, Oops, Opened, portvars, funcvars, histvars, corevars
<1>6. ASSUME NEW p \in Proc, tty_release(p) PROVE FlagTypes'
  BY <1>6 DEF TypeOK, FlagTypes, tty_release, Goto, Fine, portvars, funcvars, histvars
<1>7. ASSUME NEW p \in Proc, tiny_close(p) PROVE FlagTypes'
  <2>1. CASE do_close
    BY <1>7, <2>1, DoCloseType DEF TypeOK, FlagTypes, tiny_close, Goto, funcvars
  <2>2. CASE Fine /\ UNCHANGED <<open_count, timer, overtaken>>
    BY <1>7, <2>2 DEF TypeOK, FlagTypes, tiny_close, Fine, Goto, funcvars
  <2> QED
    BY <1>7, <2>1, <2>2 DEF tiny_close
<1>8. ASSUME NEW p \in Proc, release_tty(p) PROVE FlagTypes'
  BY <1>8 DEF TypeOK, FlagTypes, release_tty, RefInv, Locked, Goto, Fine, histvars
<1>9. ASSUME NEW p \in Proc, Unlocked(p) PROVE FlagTypes'
  BY <1>9, UnlockedFrame DEF TypeOK, FlagTypes, funcvars, histvars
<1>10. CASE Expire
  BY <1>10 DEF TypeOK, FlagTypes, Expire, Fine, Oops, corevars, histvars
<1>11. CASE tiny_timer
  BY <1>11 DEF TypeOK, FlagTypes, tiny_timer, add_timer, Fine, Oops, corevars, histvars
<1>12. CASE tiny_exit
  <2>1. CASE do_close
    BY <1>12, <2>1, DoCloseType DEF TypeOK, FlagTypes, tiny_exit, funcvars
  <2>2. CASE del_timer /\ UNCHANGED open_count
    BY <1>12, <2>2, DelTimerType DEF TypeOK, FlagTypes, tiny_exit, funcvars
  <2>3. CASE Fine /\ UNCHANGED <<open_count, timer, overtaken>>
    BY <1>12, <2>3 DEF TypeOK, FlagTypes, tiny_exit, Fine, funcvars
  <2> QED
    BY <1>12, <2>1, <2>2, <2>3 DEF tiny_exit
<1> QED
  BY <1>1, <1>2, <1>3, <1>4, <1>5, <1>6, <1>7, <1>8, <1>9, <1>10, <1>11, <1>12
  DEF Next, tiny_open, Unlocked

(* Every step keeps the variables in their types. *)
LEMMA NextTypeOK == TypeOK /\ RefInv /\ [Next]_vars => TypeOK'
BY NextDataTypes, NextFlagTypes DEF TypeOK, DataTypes, FlagTypes

-----------------------------------------------------------------------------
(* Who holds the tty_lock and the tty_struct stays in step with the control  *)
(* points.                                                                   *)
LEMMA NextRefInv == TypeOK /\ RefInv /\ [Next]_vars => RefInv'
<1> SUFFICES ASSUME TypeOK, RefInv, [Next]_vars PROVE RefInv'
  OBVIOUS
<1> USE TinyTtyAssumption
<1>1. CASE UNCHANGED vars
  BY <1>1 DEF RefInv, vars, corevars
<1>2. ASSUME NEW p \in Proc, tty_open(p) PROVE RefInv'
  BY <1>2 DEF tty_open, TypeOK, RefInv, Locked, Goto
<1>3. ASSUME NEW p \in Proc, LookUp(p) PROVE RefInv'
  BY <1>3 DEF LookUp, TypeOK, RefInv, Locked, Goto, OpenFailed, corevars
<1>4. ASSUME NEW p \in Proc, Count(p) PROVE RefInv'
  BY <1>4 DEF Count, TypeOK, RefInv, Locked, Goto, Opened, OpenFailed, corevars
<1>5. ASSUME NEW p \in Proc, Start(p) PROVE RefInv'
  BY <1>5 DEF Start, TypeOK, RefInv, Locked, Goto, Opened
<1>6. ASSUME NEW p \in Proc, tty_release(p) PROVE RefInv'
  BY <1>6 DEF tty_release, TypeOK, RefInv, Locked, Goto
<1>7. ASSUME NEW p \in Proc, tiny_close(p) PROVE RefInv'
  BY <1>7 DEF tiny_close, TypeOK, RefInv, Locked, Goto
<1>8. ASSUME NEW p \in Proc, release_tty(p) PROVE RefInv'
  BY <1>8 DEF release_tty, TypeOK, RefInv, Locked, Goto
<1>9. ASSUME NEW p \in Proc, Unlocked(p) PROVE RefInv'
  BY <1>9, UnlockedFrame DEF TypeOK, RefInv, Locked, corevars
<1>10. CASE Expire
  BY <1>10 DEF Expire, RefInv, corevars
<1>11. CASE tiny_timer
  BY <1>11 DEF tiny_timer, RefInv, corevars
<1>12. CASE tiny_exit
  BY <1>12 DEF tiny_exit, RefInv
<1> QED
  BY <1>1, <1>2, <1>3, <1>4, <1>5, <1>6, <1>7, <1>8, <1>9, <1>10, <1>11, <1>12
  DEF Next, tiny_open, Unlocked

-----------------------------------------------------------------------------
(* The tty_lock excludes: while nobody holds it nobody is inside an open,    *)
(* and its holder is alone there.                                            *)
LEMMA LockFree ==
  ASSUME RefInv, tty_lock = None
  PROVE  ~ At("open") /\ ~ At("down") /\ ~ At("add") /\ ~ At("drop")
BY TinyTtyAssumption DEF RefInv, At, Locked

(* One process at a time is at a control point under tty_lock. *)
LEMMA LockAlone ==
  ASSUME RefInv, NEW p \in Proc, pc[p] \in Locked, NEW q \in Proc, pc[q] \in Locked
  PROVE  q = p
BY DEF RefInv

(* Counted is a finite set. *)
LEMMA CountedFinite ==
  ASSUME TypeOK
  PROVE  IsFiniteSet(Counted) /\ Cardinality(Counted) \in Nat
<1>1. Counted \subseteq Proc
  BY DEF TypeOK, Counted
<1>2. IsFiniteSet(Counted)
  BY <1>1, TinyTtyAssumption, FS_Subset
<1> QED
  BY <1>2, FS_CardinalityType

(* An open that is counted. *)
LEMMA CountedAdd ==
  ASSUME TypeOK, NEW p \in Proc, p \notin Counted, Counted' = Counted \cup {p}
  PROVE  Cardinality(Counted') = Cardinality(Counted) + 1
BY CountedFinite, FS_AddElement

(* A close that is taken back. *)
LEMMA CountedDrop ==
  ASSUME TypeOK, NEW p \in Proc, p \in Counted, Counted' = Counted \ {p}
  PROVE  Cardinality(Counted') = Cardinality(Counted) - 1 /\ Cardinality(Counted) > 0
<1>1. Cardinality(Counted') = Cardinality(Counted) - 1
  BY CountedFinite, FS_RemoveElement
<1>2. Cardinality(Counted) # 0
  BY CountedFinite, FS_EmptySet
<1> QED
  BY <1>1, <1>2, CountedFinite

(* While no process keeps the tty_struct alive no open is counted. *)
LEMMA NoRefsNoCount ==
  ASSUME TypeOK, RefInv, CountInv, refs = {}
  PROVE  open_count = 0 /\ Counted = {}
<1>1. Counted = {}
  BY DEF TypeOK, RefInv, Counted, Locked
<1>2. Cardinality(Counted) = 0
  BY <1>1, FS_EmptySet
<1>3. open_count \in Nat
  BY DEF TypeOK
<1> QED
  BY <1>1, <1>2, <1>3 DEF CountInv

(* No close takes back more than the opens counted. *)
LEMMA NextCountInv == TypeOK /\ RefInv /\ PortInv /\ CountInv /\ [Next]_vars => CountInv'
<1> SUFFICES ASSUME TypeOK, RefInv, PortInv, CountInv, [Next]_vars PROVE CountInv'
  OBVIOUS
<1>0. open_count \in Nat /\ Cardinality(Counted) \in Nat
  BY CountedFinite DEF TypeOK
<1>a. ASSUME Counted' = Counted, open_count' = open_count, nomem' = nomem PROVE CountInv'
  BY <1>a DEF CountInv
<1>1. CASE UNCHANGED vars
  <2>1. Counted' = Counted
    BY <1>1 DEF vars, corevars, Counted
  <2> QED
    BY <1>1, <1>a, <2>1 DEF vars, portvars, histvars
<1>2. ASSUME NEW p \in Proc, tty_open(p) PROVE CountInv'
  <2>1. Counted' = Counted
    BY <1>2 DEF tty_open, Counted, Goto, TypeOK
  <2> QED
    BY <1>2, <1>a, <2>1 DEF tty_open, portvars, histvars
<1>3. ASSUME NEW p \in Proc, LookUp(p) PROVE CountInv'
  <2>1. CASE tiny = "null" /\ nomem' = nomem \cup {"tiny"} /\ OpenFailed(p) /\ UNCHANGED open_count
    <3>1. p \notin Counted
      BY <1>3 DEF LookUp, Counted, RefInv, TypeOK
    <3>2. Counted' = Counted \cup {p}
      BY <1>3, <2>1 DEF LookUp, OpenFailed, Goto, Counted, TypeOK
    <3>3. Cardinality(Counted') = Cardinality(Counted) + 1
      BY <3>1, <3>2, CountedAdd
    <3> QED
      BY <2>1, <3>3, <1>0 DEF CountInv
  <2>2. CASE open_count' = open_count /\ nomem' = nomem /\ Goto(p, "down") /\ files' = files
    <3>1. Counted' = Counted
      BY <1>3, <2>2 DEF LookUp, Goto, Counted, TypeOK
    <3> QED
      BY <2>2, <3>1, <1>a
  <2> QED
    BY <1>3, <2>1, <2>2 DEF LookUp, corevars, PortInv
<1>4. ASSUME NEW p \in Proc, Count(p) PROVE CountInv'
  <2>1. p \notin Counted
    BY <1>4 DEF Count, Counted, RefInv, TypeOK
  <2>2. Counted' = Counted \cup {p}
    BY <1>4 DEF Count, Opened, OpenFailed, Goto, Counted, TypeOK, corevars
  <2>3. Cardinality(Counted') = Cardinality(Counted) + 1
    BY <2>1, <2>2, CountedAdd
  <2>4. open_count' = open_count + 1 /\ ("tiny" \in nomem' <=> "tiny" \in nomem)
    BY <1>4 DEF Count
  <2> QED
    BY <2>3, <2>4, <1>0 DEF CountInv
<1>5. ASSUME NEW p \in Proc, Start(p) PROVE CountInv'
  <2>1. Counted' = Counted
    BY <1>5 DEF Start, Opened, Counted, Goto, TypeOK
  <2> QED
    BY <1>5, <1>a, <2>1 DEF Start, histvars
<1>6. ASSUME NEW p \in Proc, tty_release(p) PROVE CountInv'
  <2>1. Counted' = Counted
    BY <1>6 DEF tty_release, Counted, Goto, TypeOK
  <2> QED
    BY <1>6, <1>a, <2>1 DEF tty_release, portvars, histvars
<1>7. ASSUME NEW p \in Proc, tiny_close(p) PROVE CountInv'
  <2>1. p \in Counted
    BY <1>7 DEF tiny_close, Counted
  <2>2. Counted' = Counted \ {p}
    BY <1>7 DEF tiny_close, Goto, Counted, RefInv, TypeOK
  <2>3. Cardinality(Counted') = Cardinality(Counted) - 1 /\ Cardinality(Counted) > 0
    BY <2>1, <2>2, CountedDrop
  <2>4. open_count' = open_count - 1 \/ (open_count = 0 /\ open_count' = 0)
    <3>1. CASE driver_data
      BY <1>7, <3>1, Zenon DEF tiny_close, do_close
    <3>2. CASE ~ driver_data
      BY <1>7, <3>2, LockFree DEF tiny_close, PortInv
    <3> QED
      BY <3>1, <3>2
  <2>5. nomem' = nomem
    BY <1>7 DEF tiny_close
  <2> QED
    BY <2>3, <2>4, <2>5, <1>0 DEF CountInv
<1>8. ASSUME NEW p \in Proc, release_tty(p) PROVE CountInv'
  <2>1. Counted' = Counted
    BY <1>8 DEF release_tty, Counted, Goto, TypeOK
  <2> QED
    BY <1>8, <1>a, <2>1 DEF release_tty, histvars
<1>9. ASSUME NEW p \in Proc, Unlocked(p) PROVE CountInv'
  <2>1. Counted' = Counted
    BY <1>9, UnlockedFrame DEF Counted, TypeOK, corevars
  <2> QED
    BY <1>9, <1>a, <2>1, UnlockedFrame DEF histvars
<1>10. CASE Expire
  BY <1>10, <1>a DEF Expire, Counted, corevars, histvars
<1>11. CASE tiny_timer
  BY <1>11, <1>a DEF tiny_timer, Counted, corevars, histvars
<1>12. CASE tiny_exit
  <2>1. open_count' = open_count
    <3>1. CASE module = "live"
      BY <1>12, <3>1 DEF tiny_exit
    <3>2. CASE module # "live"
      BY <1>12, <3>2, NoRefsNoCount DEF tiny_exit, RefInv
    <3> QED
      BY <3>1, <3>2
  <2> QED
    BY <1>12, <1>a, <2>1 DEF tiny_exit, Counted
<1> QED
  BY <1>1, <1>2, <1>3, <1>4, <1>5, <1>6, <1>7, <1>8, <1>9, <1>10, <1>11, <1>12
  DEF Next, tiny_open, Unlocked

-----------------------------------------------------------------------------
(* What the port looks like between the steps of tiny_open. *)
LEMMA NextPortInv == TypeOK /\ RefInv /\ PortInv /\ CountInv /\ TimerInv /\ [Next]_vars => PortInv'
<1> SUFFICES ASSUME TypeOK, RefInv, PortInv, CountInv, TimerInv, [Next]_vars PROVE PortInv'
  OBVIOUS
<1>0. open_count \in Nat /\ driver_data \in BOOLEAN
  BY DEF TypeOK
<1>1. CASE UNCHANGED vars
  BY <1>1 DEF PortInv, At, vars, portvars, funcvars, corevars, histvars
<1>2. ASSUME NEW p \in Proc, tty_open(p) PROVE PortInv'
  BY <1>2 DEF tty_open, PortInv, At, Goto, TypeOK, portvars, funcvars, histvars
<1>3. ASSUME NEW p \in Proc, LookUp(p) PROVE PortInv'
  BY <1>3, LockAlone DEF LookUp, OpenFailed, PortInv, At, Locked, Goto, TypeOK, funcvars, corevars
<1>4. ASSUME NEW p \in Proc, Count(p) PROVE PortInv'
  <2>1. tiny = "there"
    BY <1>4 DEF Count, PortInv, RefInv, Locked, At, TypeOK
  <2>2. tiny' = "there" /\ open_count' > 0 /\ UNCHANGED func
    BY <1>0, <1>4, <2>1 DEF Count, funcvars
  <2>3. driver_data' = TRUE /\ tty' = TRUE
    BY <1>4 DEF Count
  <2>4. timer' = "null" => timer = "null" /\ "timer" \in nomem'
    BY <1>4, <2>1 DEF Count, PortInv
  <2> QED
    BY <2>2, <2>3, <2>4 DEF PortInv
<1>5. ASSUME NEW p \in Proc, Start(p) PROVE PortInv'
  <2>1. /\ open_count > 0 /\ tiny = "there" /\ tty
        /\ UNCHANGED <<open_count, tiny, tty, driver_data, func, nomem>>
    BY <1>5 DEF Start, PortInv, At, funcvars, histvars
  <2>2. ~ At("down")
    BY <1>5, LockAlone DEF Start, At, Locked
  <2>3. driver_data
    BY <1>0, <2>1, <2>2 DEF PortInv
  <2>4. timer' = "null" => timer = "null"
    BY <1>5 DEF Start, add_timer
  <2> QED
    BY <1>0, <2>1, <2>2, <2>3, <2>4 DEF PortInv
<1>6. ASSUME NEW p \in Proc, tty_release(p) PROVE PortInv'
  BY <1>6 DEF tty_release, PortInv, At, Goto, TypeOK, portvars, funcvars, histvars
<1>7. ASSUME NEW p \in Proc, tiny_close(p) PROVE PortInv'
  <2>1. ~ At("down") /\ ~ At("add")
    BY <1>7, LockFree DEF tiny_close
  <2>2. ~ At("down")' /\ ~ At("add")'
    BY <1>7, <2>1 DEF tiny_close, Goto, At, TypeOK
  <2>3. UNCHANGED <<tiny, module, tty, driver_data, files, func, nomem>>
    BY <1>7 DEF tiny_close, funcvars
  <2>4. open_count' \in Nat /\ open_count' <= open_count
    <3>1. open_count' = open_count \/ (open_count # 0 /\ open_count' = open_count - 1)
      BY <1>7, Zenon DEF tiny_close, do_close
    <3> QED
      BY <1>0, <3>1
  <2>5. timer' = "null" <=> timer = "null"
    BY <1>7 DEF tiny_close, do_close, del_timer
  <2> QED
    BY <1>0, <2>1, <2>2, <2>3, <2>4, <2>5 DEF PortInv
<1>8. ASSUME NEW p \in Proc, release_tty(p) PROVE PortInv'
  <2>1. ~ At("down") /\ ~ At("add")
    BY <1>8, LockAlone DEF release_tty, At, Locked
  <2>2. ~ At("down")' /\ ~ At("add")'
    BY <1>8, <2>1 DEF release_tty, Goto, At, TypeOK
  <2>3. UNCHANGED <<tiny, module, open_count, files, timer, func, nomem>>
    BY <1>8 DEF release_tty, histvars
  <2>4. CASE refs' = {}
    <3>1. open_count' = 0 /\ files' = {}
      <4>1. Counted = {}
        BY <1>8, <2>4 DEF release_tty, Counted, RefInv, Locked, TypeOK
      <4>2. open_count <= 0
        BY <4>1, FS_EmptySet DEF CountInv
      <4> QED
        BY <1>0, <2>3, <4>1, <4>2 DEF Counted
    <3> QED
      BY <2>1, <2>2, <2>3, <3>1 DEF PortInv
  <2>5. CASE refs' # {}
    <3>1. UNCHANGED <<driver_data, tty>>
      BY <1>8, <2>5 DEF release_tty
    <3> QED
      BY <2>1, <2>2, <2>3, <3>1 DEF PortInv
  <2> QED
    BY <2>4, <2>5
<1>9. ASSUME NEW p \in Proc, Unlocked(p) PROVE PortInv'
  BY <1>9, UnlockedFrame DEF PortInv, At, TypeOK, corevars, funcvars, histvars
<1>10. CASE Expire
  BY <1>10 DEF Expire, PortInv, At, corevars, histvars
<1>11. CASE tiny_timer
  BY <1>11 DEF tiny_timer, add_timer, PortInv, At, corevars, histvars
<1>12. CASE tiny_exit
  <2>1. UNCHANGED <<driver_data, tty, func, files, pc, nomem>>
    BY <1>12 DEF tiny_exit, funcvars
  <2>2. open_count = 0 /\ files = {}
    BY <1>12, NoRefsNoCount DEF tiny_exit, RefInv, TypeOK
  <2>3. open_count' = 0
    BY <1>12, <2>2 DEF tiny_exit
  <2>4. timer' = "null" <=> timer = "null"
    BY <1>12, <2>2 DEF tiny_exit, del_timer
  <2>5. (tiny' = "null" => tiny = "null") /\ (tiny' = "freed" => module' = "gone")
        /\ (tiny' = "there" => tiny = "there")
    BY <1>12, <2>2 DEF tiny_exit, PortInv
  <2> QED
    BY <2>1, <2>2, <2>3, <2>4, <2>5 DEF PortInv, At
<1> QED
  BY <1>1, <1>2, <1>3, <1>4, <1>5, <1>6, <1>7, <1>8, <1>9, <1>10, <1>11, <1>12
  DEF Next, tiny_open, Unlocked

-----------------------------------------------------------------------------
(* After del_timer the timer is not pending, and a tiny_timer that still     *)
(* runs is overtaken.                                                        *)
LEMMA DelTimerStops ==
  ASSUME TypeOK, del_timer
  PROVE  /\ timer' # "pending" /\ (timer = "null" => timer' = "null")
         /\ timer = "null" \/ func = "none" \/ overtaken'
<1>1. timer' # "pending" /\ (timer = "null" => timer' = "null")
  BY DEF del_timer
<1>2. timer = "null" \/ func = "none" \/ overtaken'
  BY Zenon DEF del_timer
<1> QED
  BY <1>1, <1>2

(* A running tiny_timer is one of the port that is open or one that          *)
(* del_timer overtook.                                                       *)
LEMMA NextTimerInv == TypeOK /\ RefInv /\ PortInv /\ CountInv /\ TimerInv /\ [Next]_vars => TimerInv'
<1> SUFFICES ASSUME TypeOK, RefInv, PortInv, CountInv, TimerInv, [Next]_vars PROVE TimerInv'
  OBVIOUS
<1>0. open_count \in Nat /\ overtaken \in BOOLEAN /\ tty \in BOOLEAN /\ func_tty \in BOOLEAN
  BY DEF TypeOK
<1>1. CASE UNCHANGED vars
  BY <1>1 DEF TimerInv, QuietAfterClose, At, vars, portvars, funcvars, histvars
<1>2. ASSUME NEW p \in Proc, tty_open(p) PROVE TimerInv'
  <2>1. At("add")' => At("add")
    BY <1>2 DEF tty_open, At, Goto, TypeOK
  <2> QED
    BY <1>2, <2>1 DEF tty_open, TimerInv, QuietAfterClose, portvars, funcvars, histvars
<1>3. ASSUME NEW p \in Proc, LookUp(p) PROVE TimerInv'
  <2>1. ~ At("add")'
    BY <1>3, LockAlone DEF LookUp, OpenFailed, At, Locked, Goto, TypeOK
  <2>2. CASE tiny = "null"
    <3>1. timer' = "null" /\ func' = "none"
      BY <1>3, <2>2 DEF LookUp, PortInv, funcvars
    <3> QED
      BY <2>1, <3>1 DEF TimerInv, QuietAfterClose
  <2>3. CASE tiny # "null"
    BY <1>3, <2>1, <2>3 DEF LookUp, TimerInv, QuietAfterClose, funcvars
  <2> QED
    BY <2>2, <2>3
<1>4. ASSUME NEW p \in Proc, Count(p) PROVE TimerInv'
  <2>1. ~ At("add")
    BY <1>4, LockAlone DEF Count, At, Locked
  <2>2. tiny' = "there"
    BY <1>4 DEF Count, PortInv, RefInv, Locked, At, TypeOK
  <2>3. open_count' > 0 /\ UNCHANGED <<func, func_tty, overtaken>>
    BY <1>0, <1>4 DEF Count, funcvars
  <2>4. timer' = "pending" => timer = "pending"
    BY <1>4 DEF Count
  <2>5. At("add")' => open_count = 0
    BY <1>4, <2>1 DEF Count, Opened, OpenFailed, At, Goto, TypeOK
  <2> QED
    BY <2>2, <2>3, <2>4, <2>5 DEF TimerInv, QuietAfterClose
<1>5. ASSUME NEW p \in Proc, Start(p) PROVE TimerInv'
  <2>1. ~ At("add")'
    BY <1>5, LockAlone DEF Start, Opened, At, Locked, Goto, TypeOK
  <2>2. At("add")
    BY <1>5 DEF Start, At
  <2>3. open_count > 0 /\ tiny = "there"
    BY <2>2 DEF PortInv
  <2>4. UNCHANGED <<open_count, tiny, func, func_tty, overtaken>>
    BY <1>5 DEF Start, funcvars, histvars
  <2> QED
    BY <2>1, <2>2, <2>3, <2>4 DEF TimerInv, QuietAfterClose
<1>6. ASSUME NEW p \in Proc, tty_release(p) PROVE TimerInv'
  <2>1. At("add")' => At("add")
    BY <1>6 DEF tty_release, At, Goto, TypeOK
  <2> QED
    BY <1>6, <2>1 DEF tty_release, TimerInv, QuietAfterClose, portvars, funcvars, histvars
<1>7. ASSUME NEW p \in Proc, tiny_close(p) PROVE TimerInv'
  <2>1. ~ At("add")'
    BY <1>7, LockFree DEF tiny_close, At, Goto, TypeOK
  <2>2. UNCHANGED <<tiny, func, func_tty>>
    BY <1>7 DEF tiny_close, funcvars
  <2>3. CASE del_timer
    BY <2>1, <2>2, <2>3, DelTimerStops DEF TimerInv, QuietAfterClose, PortInv
  <2>4. CASE UNCHANGED <<timer, overtaken>> /\ open_count > 1 /\ open_count' = open_count - 1
    BY <1>0, <2>1, <2>2, <2>4 DEF TimerInv, QuietAfterClose
  <2>5. CASE UNCHANGED <<open_count, timer, overtaken>>
    BY <2>1, <2>2, <2>5 DEF TimerInv, QuietAfterClose
  <2> QED
    <3>1. CASE driver_data /\ open_count # 0
      BY <1>0, <1>7, <2>3, <2>4, <3>1 DEF tiny_close, do_close
    <3>2. CASE ~ driver_data \/ open_count = 0
      BY <1>7, <2>5, <3>2, Zenon DEF tiny_close, do_close
    <3> QED
      BY <3>1, <3>2
<1>8. ASSUME NEW p \in Proc, release_tty(p) PROVE TimerInv'
  <2>1. ~ At("add")'
    BY <1>8, LockAlone DEF release_tty, At, Locked, Goto, TypeOK
  <2>2. UNCHANGED <<tiny, open_count, timer, func, overtaken>>
    BY <1>8 DEF release_tty, histvars
  <2>3. CASE refs' = {}
    <3>1. Counted = {}
      BY <1>8, <2>3 DEF release_tty, Counted, RefInv, Locked, TypeOK
    <3>2. open_count <= 0
      BY <3>1, FS_EmptySet DEF CountInv
    <3> QED
      BY <1>0, <2>1, <2>2, <3>2 DEF TimerInv, QuietAfterClose
  <2>4. CASE refs' # {}
    <3>1. UNCHANGED func_tty
      BY <1>8, <2>4 DEF release_tty
    <3> QED
      BY <2>1, <2>2, <3>1 DEF TimerInv, QuietAfterClose
  <2> QED
    BY <2>3, <2>4
<1>9. ASSUME NEW p \in Proc, Unlocked(p) PROVE TimerInv'
  <2>1. At("add")' => At("add")
    BY <1>9, UnlockedFrame DEF At, TypeOK
  <2> QED
    BY <1>9, <2>1, UnlockedFrame DEF TimerInv, QuietAfterClose, funcvars, histvars
<1>10. CASE Expire
  <2>1. UNCHANGED <<open_count, tiny, overtaken>> /\ (At("add")' => At("add"))
    BY <1>10 DEF Expire, At, histvars
  <2>2. timer = "pending" /\ timer' = "idle" /\ func' = "load"
    BY <1>10 DEF Expire
  <2> QED
    BY <2>1, <2>2 DEF TimerInv, QuietAfterClose
<1>11. CASE tiny_timer
  <2>1. UNCHANGED <<open_count, tiny, overtaken>> /\ (At("add")' => At("add")) /\ func # "none"
    BY <1>11 DEF tiny_timer, At, histvars
  <2>2. func' # "none" => UNCHANGED timer
    BY <1>11 DEF tiny_timer
  <2>3. (func' = "push" /\ ~ func_tty') => ~ tty
    BY <1>11 DEF tiny_timer
  <2>4. ~ tty => overtaken
    BY <1>0, <2>1 DEF TimerInv, QuietAfterClose, PortInv
  <2> QED
    BY <2>1, <2>2, <2>3, <2>4 DEF TimerInv, QuietAfterClose
<1>12. CASE tiny_exit
  <2>1. open_count = 0 /\ refs = {}
    BY <1>12, NoRefsNoCount DEF tiny_exit, RefInv
  <2>2. ~ At("add")' /\ UNCHANGED <<func, func_tty>>
    BY <1>12, <2>1 DEF tiny_exit, RefInv, At, Locked, funcvars
  <2>3. CASE del_timer
    BY <2>2, <2>3, DelTimerStops DEF TimerInv, QuietAfterClose, PortInv
  <2>4. CASE UNCHANGED <<timer, overtaken>>
    BY <2>1, <2>2, <2>4 DEF TimerInv, QuietAfterClose
  <2> QED
    BY <1>12, <2>1, <2>3, <2>4 DEF tiny_exit
<1> QED
  BY <1>1, <1>2, <1>3, <1>4, <1>5, <1>6, <1>7, <1>8, <1>9, <1>10, <1>11, <1>12
  DEF Next, tiny_open, Unlocked

-----------------------------------------------------------------------------
(* A step that kills the machine finds its cause. *)
LEMMA NextCrashHasCause ==
  TypeOK /\ RefInv /\ PortInv /\ CountInv /\ TimerInv /\ CrashHasCause /\ [Next]_vars
    => CrashHasCause'
<1> SUFFICES ASSUME TypeOK, RefInv, PortInv, CountInv, TimerInv, CrashHasCause, [Next]_vars
             PROVE  CrashHasCause'
  OBVIOUS
<1>0. open_count \in Nat /\ overtaken \in BOOLEAN
  BY DEF TypeOK
<1>a. ASSUME oops' \in {"none", "uninitialised timer", "wait queue"} PROVE CrashHasCause'
  BY <1>a DEF CrashHasCause
<1>1. CASE UNCHANGED vars
  BY <1>1 DEF CrashHasCause, vars, histvars
<1>2. ASSUME NEW p \in Proc, tty_open(p) PROVE CrashHasCause'
  BY <1>2, <1>a DEF tty_open, Fine
<1>3. ASSUME NEW p \in Proc, LookUp(p) PROVE CrashHasCause'
  BY <1>3, <1>a DEF LookUp, Fine
<1>4. ASSUME NEW p \in Proc, Count(p) PROVE CrashHasCause'
  BY <1>4, <1>a DEF Count, Fine
<1>5. ASSUME NEW p \in Proc, Start(p) PROVE CrashHasCause'
  <2>1. oops' = "timer added twice" => timer = "pending"
    BY <1>5 DEF Start, add_timer, Fine, Oops
  <2>2. oops' \in {"none", "uninitialised timer", "timer added twice"} /\ UNCHANGED overtaken
    BY <1>5 DEF Start, add_timer, Fine, Oops, histvars
  <2>3. At("add")
    BY <1>5 DEF Start, At
  <2> QED
    BY <2>1, <2>2, <2>3 DEF TimerInv, CrashHasCause
<1>6. ASSUME NEW p \in Proc, tty_release(p) PROVE CrashHasCause'
  BY <1>6, <1>a DEF tty_release, Fine
<1>7. ASSUME NEW p \in Proc, tiny_close(p) PROVE CrashHasCause'
  <2>1. oops' \in {"none", "no timer"} /\ UNCHANGED nomem
    BY <1>7 DEF tiny_close, do_close, del_timer, Fine, Oops
  <2>2. oops' = "no timer" => timer = "null" /\ open_count > 0
    <3>1. oops' = "no timer" => timer = "null" /\ open_count # 0
      BY <1>7 DEF tiny_close, do_close, del_timer, Fine, Oops
    <3>2. open_count # 0 => open_count > 0
      BY <1>0
    <3> QED
      BY <3>1, <3>2
  <2>3. ~ At("down")
    BY <1>7, LockFree DEF tiny_close
  <2> QED
    BY <2>1, <2>2, <2>3 DEF PortInv, CrashHasCause
<1>8. ASSUME NEW p \in Proc, release_tty(p) PROVE CrashHasCause'
  BY <1>8, <1>a DEF release_tty, Fine
<1>9. ASSUME NEW p \in Proc, Unlocked(p) PROVE CrashHasCause'
  <2>1. oops' \in {"none", "wait queue", "driver_data"}
    BY <1>9 DEF Unlocked, tiny_write, tiny_tiocmget, tiny_tiocmset, tiny_ioctl, tiny_ioctl_tiocgserial,
         tiny_ioctl_tiocmiwait, tiny_ioctl_tiocgicount, Look, Fine, Oops
  <2>2. oops' = "driver_data" => ~ driver_data /\ p \in files
    BY <1>9 DEF Unlocked, tiny_write, tiny_tiocmget, tiny_tiocmset, tiny_ioctl, tiny_ioctl_tiocgserial,
         tiny_ioctl_tiocmiwait, tiny_ioctl_tiocgicount, Look, Fine, Oops
  <2>3. oops' = "driver_data" => At("down")
    BY <2>2 DEF PortInv
  <2>4. At("down") => At("down")'
    BY <1>9, UnlockedFrame DEF At, TypeOK
  <2> QED
    BY <2>1, <2>3, <2>4 DEF CrashHasCause, At
<1>10. CASE Expire
  <2>1. oops' \in {"none", "freed memory"} /\ (oops' = "freed memory" => tiny = "freed")
        /\ UNCHANGED overtaken /\ timer = "pending"
    BY <1>10 DEF Expire, Fine, Oops, histvars
  <2> QED
    BY <2>1 DEF CrashHasCause, TimerInv, QuietAfterClose
<1>11. CASE tiny_timer
  <2>1. oops' \in {"none", "freed memory", "timer added twice", "uninitialised timer"}
        /\ UNCHANGED overtaken
    BY <1>11 DEF tiny_timer, add_timer, Fine, Oops, histvars
  <2>2. oops' = "timer added twice" => timer = "pending" /\ func # "none"
    BY <1>11 DEF tiny_timer, add_timer, Fine, Oops
  <2>3. oops' = "freed memory" => func # "none" /\ (tiny = "freed" \/ (func = "push" /\ ~ func_tty))
    BY <1>11 DEF tiny_timer, add_timer, Fine, Oops
  <2> QED
    BY <2>1, <2>2, <2>3 DEF CrashHasCause, TimerInv, QuietAfterClose
<1>12. CASE tiny_exit
  <2>1. open_count = 0 /\ refs = {}
    BY <1>12, NoRefsNoCount DEF tiny_exit, RefInv
  <2>2. oops' \in {"none", "no timer"} /\ UNCHANGED nomem
    BY <1>12, <2>1 DEF tiny_exit, del_timer, Fine, Oops
  <2>3. oops' = "no timer" => timer = "null" /\ tiny = "there"
    BY <1>12, <2>1 DEF tiny_exit, del_timer, Fine, Oops
  <2>4. ~ At("down")
    BY <2>1 DEF RefInv, At, Locked
  <2> QED
    BY <2>2, <2>3, <2>4 DEF PortInv, CrashHasCause
<1> QED
  BY <1>1, <1>2, <1>3, <1>4, <1>5, <1>6, <1>7, <1>8, <1>9, <1>10, <1>11, <1>12
  DEF Next, tiny_open, Unlocked

-----------------------------------------------------------------------------
(* The freshly loaded module satisfies the inductive invariant. *)
LEMMA InitIInv == Init => IInv
<1> SUFFICES ASSUME Init PROVE IInv
  OBVIOUS
<1>1. TypeOK
  <2>1. DataTypes
    BY DEF Init, DataTypes
  <2>2. FlagTypes
    BY DEF Init, FlagTypes
  <2> QED
    BY <2>1, <2>2 DEF TypeOK, DataTypes, FlagTypes
<1>2. RefInv
  BY TinyTtyAssumption DEF Init, RefInv, Locked
<1>3. PortInv
  BY DEF Init, PortInv, At
<1>4. TimerInv
  BY DEF Init, TimerInv, QuietAfterClose
<1>5. CountInv
  <2>1. Counted = {}
    BY DEF Init, Counted
  <2> QED
    BY <2>1, FS_EmptySet DEF Init, CountInv
<1>6. CrashHasCause
  BY DEF Init, CrashHasCause
<1> QED
  BY <1>1, <1>2, <1>3, <1>4, <1>5, <1>6 DEF IInv

(* Every state of every behaviour of the port satisfies the inductive        *)
(* invariant.                                                                *)
THEOREM Invariance == Spec => []IInv
<1>1. IInv /\ [Next]_vars => IInv'
  BY NextTypeOK, NextRefInv, NextPortInv, NextTimerInv, NextCountInv, NextCrashHasCause DEF IInv
<1> QED
  BY <1>1, InitIInv, PTL DEF Spec

(* open_count (ex29.c:49) is the number of open files and of failed opens    *)
(* still to be closed, however many processes open and close the port.       *)
THEOREM OpenCountTheorem == Spec => []OpenCountMatches
<1>1. IInv => OpenCountMatches
  BY DEF IInv, CountInv, OpenCountMatches
<1> QED
  BY <1>1, Invariance, PTL

(* The timer rests while the port is closed, but for a tiny_timer that the   *)
(* close overtook.                                                           *)
THEOREM QuietTheorem == Spec => []QuietAfterClose
<1>1. IInv => QuietAfterClose
  BY DEF IInv, TimerInv
<1> QED
  BY <1>1, Invariance, PTL

(* A machine killed by this driver was killed by one of the causes listed.   *)
THEOREM CrashTheorem == Spec => []CrashHasCause
<1>1. IInv => CrashHasCause
  BY DEF IInv
<1> QED
  BY <1>1, Invariance, PTL
=============================================================================
