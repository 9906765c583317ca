----------------------- MODULE CompletionCharDrvProofs -----------------------
(***************************************************************************)
(* Proofs about ex9 for every finite set of processes, every pair of       *)
(* buffer sizes and any number of writes: each read that copies has a      *)
(* write of its own whose data is in the buffer, and no reader is left     *)
(* asleep beside an event that nobody is about to take.                    *)
(***************************************************************************)
EXTENDS CompletionCharDrv, FiniteSetTheorems, WellFoundedInduction, TLAPS

(* The first entry of the queue that sleeps: if any process sleeps, complete *)
(* has somebody to wake.                                                     *)
LEMMA SleeperFound ==
  ASSUME CountTypes, NEW p \in Proc, pc[p] = "asleep", Linked(p)
  PROVE  \E q \in Proc : FirstSleeper(q)
<1> DEFINE T == {i \in DOMAIN wait : pc[wait[i]] = "asleep"}
<1>1. DOMAIN wait = 1 .. Len(wait) /\ Len(wait) \in Nat /\ \A i \in DOMAIN wait : wait[i] \in Proc
  BY DEF CountTypes
<1>2. T \subseteq Nat /\ T # {}
  BY <1>1 DEF Linked
<1>3. PICK i \in T : \A j \in T : ~ (<<j, i>> \in OpToRel(<, Nat))
  BY <1>2, NatLessThanWellFounded, WFMin
<1>4. \A j \in T : ~ (j < i)
  BY <1>2, <1>3 DEF OpToRel
<1>5. \A j \in 1 .. i - 1 : pc[wait[j]] # "asleep"
  BY <1>1, <1>4
<1> QED
  BY <1>1, <1>5 DEF FirstSleeper

(* The task complete() wakes sleeps, and there is only one. *)
LEMMA OneSleeper ==
  ASSUME CountTypes, NEW q \in Proc, FirstSleeper(q)
  PROVE  pc[q] = "asleep" /\ \A r \in Proc : FirstSleeper(r) => r = q
<1>1. DOMAIN wait = 1 .. Len(wait) /\ Len(wait) \in Nat
  BY DEF CountTypes
<1> QED
  BY <1>1 DEF FirstSleeper

(* Taking one entry out of the queue leaves the others linked. *)
LEMMA UnlinkedKeeps ==
  ASSUME CountTypes, NEW i \in DOMAIN wait
  PROVE  /\ Unlinked(i) \in Seq(Proc)
         /\ \A q \in Proc : Linked(q) /\ q # wait[i] =>
              \E j \in DOMAIN Unlinked(i) : Unlinked(i)[j] = q
<1>1. /\ DOMAIN wait = 1 .. Len(wait) /\ Len(wait) \in Nat /\ i \in 1 .. Len(wait)
      /\ \A j \in DOMAIN wait : wait[j] \in Proc
  BY DEF CountTypes
<1>2. Len(wait) - 1 \in Nat /\ \A j \in 1 .. Len(wait) - 1 : Unlinked(i)[j] \in Proc
  BY <1>1 DEF Unlinked
<1>3. Unlinked(i) \in Seq(Proc)
  BY <1>2 DEF Unlinked
<1>4. ASSUME NEW q \in Proc, Linked(q), q # wait[i]
      PROVE  \E j \in DOMAIN Unlinked(i) : Unlinked(i)[j] = q
  <2>1. PICK k \in DOMAIN wait : wait[k] = q
    BY <1>4 DEF Linked
  <2>2. CASE k < i
    <3>1. k \in 1 .. Len(wait) - 1 /\ Unlinked(i)[k] = q
      BY <1>1, <2>1, <2>2 DEF Unlinked
    <3> QED
      BY <3>1 DEF Unlinked
  <2>3. CASE k > i
    <3>1. k - 1 \in 1 .. Len(wait) - 1 /\ Unlinked(i)[k - 1] = q
      BY <1>1, <2>1, <2>3 DEF Unlinked
    <3> QED
      BY <3>1 DEF Unlinked
  <2> QED
    BY <1>1, <1>4, <2>1, <2>2, <2>3
<1> QED
  BY <1>3, <1>4

(* Woken and Completing are finite sets. *)
LEMMA WokenFinite == IsFiniteSet(Woken) /\ Cardinality(Woken) \in Nat
<1>1. IsFiniteSet(Woken)
  BY CompletionAssumption, FS_Subset DEF Woken
<1> QED
  BY <1>1, FS_CardinalityType

LEMMA CompletingFinite == IsFiniteSet(Completing) /\ Cardinality(Completing) \in Nat
<1>1. IsFiniteSet(Completing)
  BY CompletionAssumption, FS_Subset DEF Completing
<1> QED
  BY <1>1, FS_CardinalityType

-----------------------------------------------------------------------------
(* The steps of the handlers that touch neither the completion nor a waiter. *)
LEMMA OtherSteps ==
  ASSUME IInv, NEW p \in Proc, UNCHANGED cvars, pc[p] \notin {"asleep", "woken", "complete"},
         \/ UNCHANGED pc
         \/ \E l \in {"user", "wait", "copy", "oob"} : pc' = [pc EXCEPT ![p] = l]
  PROVE  IInv'
<1>1. CountTypes'
  BY DEF IInv, CountTypes, cvars
<1>2. \A q \in Proc : /\ pc'[q] = "asleep" <=> pc[q] = "asleep"
                      /\ pc'[q] = "woken" <=> pc[q] = "woken"
                      /\ pc'[q] = "complete" <=> pc[q] = "complete"
  BY DEF IInv, CountTypes
<1>3. Woken' = Woken /\ Asleep' = Asleep /\ Completing' = Completing
  BY <1>2 DEF Woken, Asleep, Completing
<1> QED
  BY <1>1, <1>2, <1>3 DEF IInv, EventInv, NoStrandedReader, Linked, cvars

(* A write whose copy ends is about to signal. *)
LEMMA CopyEnds ==
  ASSUME IInv, NEW p \in Proc, pc[p] = "copy", pc' = [pc EXCEPT ![p] = "complete"],
         wrote' = wrote + 1, UNCHANGED <<setup_done, wait, started>>
  PROVE  IInv'
<1>1. CountTypes'
  BY DEF IInv, CountTypes
<1>2. \A q \in Proc : /\ pc'[q] = "asleep" <=> pc[q] = "asleep"
                      /\ pc'[q] = "woken" <=> pc[q] = "woken"
                      /\ pc'[q] = "complete" <=> pc[q] = "complete" \/ q = p
  BY DEF IInv, CountTypes
<1>3. Woken' = Woken /\ Asleep' = Asleep /\ Completing' = Completing \cup {p} /\ p \notin Completing
  BY <1>2 DEF Woken, Asleep, Completing
<1>4. Cardinality(Completing') = Cardinality(Completing) + 1
  BY <1>3, CompletingFinite, FS_AddElement
<1>5. EventInv'
  BY <1>4, CompletingFinite DEF IInv, CountTypes, EventInv
<1> QED
  BY <1>1, <1>2, <1>3, <1>5 DEF IInv, NoStrandedReader, Linked

(* wait_for_completion keeps the invariant. *)
LEMMA WaitSteps ==
  ASSUME IInv, NEW p \in Proc, wait_for_completion(p)
  PROVE  IInv'
<1>0. /\ pc \in [Proc -> {"user", "wait", "asleep", "woken", "copy", "complete", "oob"}]
      /\ setup_done \in Nat /\ wrote \in Nat /\ started \in Nat /\ wait \in Seq(Proc)
      /\ DOMAIN wait = 1 .. Len(wait) /\ Len(wait) \in Nat
      /\ setup_done + started + Cardinality(Completing) = wrote /\ wrote' = wrote
  BY DEF IInv, CountTypes, EventInv, wait_for_completion
<1>a. ASSUME NEW l \in {"copy", "asleep"}, pc[p] # "complete", pc' = [pc EXCEPT ![p] = l]
      PROVE  Completing' = Completing
  BY <1>0, <1>a DEF Completing
<1>1. CASE pc[p] = "wait" /\ TakeEvent(p) /\ UNCHANGED wait
  <2>1. setup_done > 0 /\ setup_done' = setup_done - 1 /\ started' = started + 1 /\ pc' = [pc EXCEPT ![p] = "copy"]
    BY <1>1 DEF TakeEvent, Goto
  <2>2. CountTypes' /\ EventInv'
    BY <1>0, <1>a, <1>1, <2>1, CompletingFinite DEF CountTypes, EventInv
  <2>3. \A q \in Proc : pc'[q] \in {"asleep", "woken"} => Linked(q)'
    BY <1>0, <1>1, <2>1 DEF IInv, Linked
  <2>4. Woken' = Woken /\ Asleep' = Asleep
    BY <1>0, <1>1, <2>1 DEF Woken, Asleep
  <2>5. NoStrandedReader'
    BY <1>0, <2>1, <2>4, WokenFinite DEF IInv, NoStrandedReader
  <2> QED
    BY <2>2, <2>3, <2>5 DEF IInv
<1>2. CASE pc[p] = "wait" /\ setup_done = 0 /\ wait' = Append(wait, p) /\ Goto(p, "asleep")
           /\ UNCHANGED <<setup_done, started>>
  <2>1. pc' = [pc EXCEPT ![p] = "asleep"]
    BY <1>2 DEF Goto
  <2>2. CountTypes' /\ EventInv'
    BY <1>0, <1>a, <1>2, <2>1, CompletingFinite DEF CountTypes, EventInv
  <2>3. ASSUME NEW q \in Proc, pc'[q] \in {"asleep", "woken"} PROVE Linked(q)'
    <3>1. CASE q = p
      <4>1. Len(wait) + 1 \in DOMAIN wait' /\ wait'[Len(wait) + 1] = p
        BY <1>0, <1>2
      <4> QED
        BY <3>1, <4>1 DEF Linked
    <3>2. CASE q # p
      <4>1. Linked(q)
        BY <1>0, <2>1, <2>3, <3>2 DEF IInv
      <4> QED
        BY <1>0, <1>2, <4>1 DEF Linked
    <3> QED
      BY <3>1, <3>2
  <2>4. NoStrandedReader'
    <3>1. Woken' = Woken
      BY <1>0, <1>2, <2>1 DEF Woken
    <3> QED
      BY <1>2, <3>1, WokenFinite DEF NoStrandedReader
  <2> QED
    BY <2>2, <2>3, <2>4 DEF IInv
<1>3. CASE pc[p] = "woken" /\ TakeEvent(p) /\ \E i \in DOMAIN wait : wait[i] = p /\ wait' = Unlinked(i)
  <2>1. setup_done > 0 /\ setup_done' = setup_done - 1 /\ started' = started + 1 /\ pc' = [pc EXCEPT ![p] = "copy"]
    BY <1>3 DEF TakeEvent, Goto
  <2>2. PICK i \in DOMAIN wait : wait[i] = p /\ wait' = Unlinked(i)
    BY <1>3
  <2>3. wait' \in Seq(Proc) /\ \A q \in Proc : Linked(q) /\ q # p => Linked(q)'
    BY <2>2, UnlinkedKeeps DEF IInv, Linked
  <2>4. CountTypes' /\ EventInv'
    BY <1>0, <1>a, <1>3, <2>1, <2>3, CompletingFinite DEF CountTypes, EventInv
  <2>5. \A q \in Proc : pc'[q] \in {"asleep", "woken"} => Linked(q)'
    BY <1>0, <2>1, <2>3 DEF IInv
  <2>6. Woken' = Woken \ {p} /\ p \in Woken /\ Asleep' = Asleep
    BY <1>0, <1>3, <2>1 DEF Woken, Asleep
  <2>7. Cardinality(Woken') = Cardinality(Woken) - 1
    BY <2>6, WokenFinite, FS_RemoveElement
  <2>8. NoStrandedReader'
    BY <1>0, <2>1, <2>6, <2>7, WokenFinite DEF IInv, NoStrandedReader
  <2> QED
    BY <2>4, <2>5, <2>8 DEF IInv
<1>4. CASE pc[p] = "woken" /\ setup_done = 0 /\ Goto(p, "asleep") /\ UNCHANGED <<setup_done, wait, started>>
  <2>1. pc' = [pc EXCEPT ![p] = "asleep"]
    BY <1>4 DEF Goto
  <2>2. CountTypes' /\ EventInv'
    BY <1>0, <1>a, <1>4, <2>1, CompletingFinite DEF CountTypes, EventInv
  <2>3. \A q \in Proc : pc'[q] \in {"asleep", "woken"} => Linked(q)'
    BY <1>0, <1>4, <2>1 DEF IInv, Linked
  <2>4. NoStrandedReader'
    <3>1. Woken' = Woken \ {p} /\ p \in Woken
      BY <1>0, <1>4, <2>1 DEF Woken
    <3>2. IsFiniteSet(Woken') /\ Cardinality(Woken') \in Nat
      BY <3>1, WokenFinite, FS_RemoveElement, FS_CardinalityType
    <3> QED
      BY <1>4, <3>2 DEF NoStrandedReader
  <2> QED
    BY <2>2, <2>3, <2>4 DEF IInv
<1> QED
  BY <1>1, <1>2, <1>3, <1>4 DEF wait_for_completion

(* complete() keeps the invariant: the event it counts has a woken reader,   *)
(* if anybody is left asleep.                                                *)
LEMMA CompleteStep ==
  ASSUME IInv, NEW p \in Proc, complete(p)
  PROVE  IInv'
<1>0. /\ pc \in [Proc -> {"user", "wait", "asleep", "woken", "copy", "complete", "oob"}]
      /\ setup_done \in Nat /\ wrote \in Nat /\ started \in Nat /\ wait \in Seq(Proc)
      /\ setup_done + started + Cardinality(Completing) = wrote /\ CountTypes
  BY DEF IInv, CountTypes, EventInv
<1>1. /\ pc[p] = "complete" /\ setup_done' = setup_done + 1
      /\ UNCHANGED <<wait, wrote, started>>
      /\ pc' = [q \in Proc |-> IF q = p THEN "user" ELSE IF FirstSleeper(q) THEN "woken" ELSE pc[q]]
  BY DEF complete
<1>2. \A q \in Proc : FirstSleeper(q) => pc[q] = "asleep"
  BY DEF FirstSleeper
<1>3. CountTypes' /\ EventInv'
  <2>1. pc' \in [Proc -> {"user", "wait", "asleep", "woken", "copy", "complete", "oob"}]
    BY <1>0, <1>1
  <2>2. Completing' = Completing \ {p} /\ p \in Completing
    BY <1>0, <1>1, <1>2 DEF Completing
  <2>3. Cardinality(Completing') = Cardinality(Completing) - 1
    BY <2>2, CompletingFinite, FS_RemoveElement
  <2> QED
    BY <1>0, <1>1, <2>1, <2>3, CompletingFinite DEF CountTypes, EventInv
<1>4. \A q \in Proc : pc'[q] \in {"asleep", "woken"} => Linked(q)'
  BY <1>0, <1>1, <1>2 DEF IInv, Linked
<1>5. NoStrandedReader'
  <2>1. SUFFICES ASSUME Asleep' # {} PROVE setup_done' <= Cardinality(Woken')
    BY DEF NoStrandedReader
  <2>2. PICK r \in Proc : pc'[r] = "asleep"
    BY <2>1 DEF Asleep
  <2>3. pc[r] = "asleep" /\ Linked(r)
    BY <1>0, <1>1, <2>2 DEF IInv
  <2>4. PICK q \in Proc : FirstSleeper(q)
    BY <1>0, <2>3, SleeperFound
  <2>5. pc[q] = "asleep" /\ \A s \in Proc : FirstSleeper(s) => s = q
    BY <1>0, <2>4, OneSleeper
  <2>6. Woken' = Woken \cup {q} /\ q \notin Woken
    BY <1>0, <1>1, <2>4, <2>5 DEF Woken
  <2>7. Cardinality(Woken') = Cardinality(Woken) + 1
    BY <2>6, WokenFinite, FS_AddElement
  <2>8. setup_done <= Cardinality(Woken)
    BY <2>3 DEF IInv, NoStrandedReader, Asleep
  <2> QED
    BY <1>0, <1>1, <2>7, <2>8, WokenFinite
<1> QED
  BY <1>3, <1>4, <1>5 DEF IInv

-----------------------------------------------------------------------------
(* Every state of every behaviour satisfies the inductive invariant. *)
THEOREM Invariance == Spec => []IInv
<1>1. Init => IInv
  <2> SUFFICES ASSUME Init PROVE IInv
    OBVIOUS
  <2>1. CountTypes
    BY DEF Init, CallInit, CountTypes
  <2>2. \A p \in Proc : pc[p] = "user"
    BY DEF Init, CallInit
  <2>3. Completing = {} /\ Asleep = {}
    BY <2>2 DEF Completing, Asleep
  <2>4. EventInv
    BY <2>3, FS_EmptySet DEF Init, EventInv
  <2> QED
    BY <2>1, <2>2, <2>3, <2>4 DEF IInv, NoStrandedReader
<1>2. IInv /\ [Next]_vars => IInv'
  <2> SUFFICES ASSUME IInv, [Next]_vars PROVE IInv'
    OBVIOUS
  <2>1. CASE UNCHANGED vars
    <3>1. UNCHANGED <<pc, setup_done, wait, wrote, started>>
      BY <2>1 DEF vars, callvars, cvars
    <3>2. Woken' = Woken /\ Asleep' = Asleep /\ Completing' = Completing
      BY <3>1 DEF Woken, Asleep, Completing
    <3> QED
      BY <3>1, <3>2 DEF IInv, CountTypes, EventInv, NoStrandedReader, Linked
  <2>2. ASSUME NEW p \in Proc, Enter(p) PROVE IInv'
    BY <2>2, OtherSteps DEF Enter, Call
  <2>3. ASSUME NEW p \in Proc, copy_to_user(p, "user"), UNCHANGED cvars PROVE IInv'
    BY <2>3, OtherSteps DEF copy_to_user
  <2>4. ASSUME NEW p \in Proc, copy_from_user(p, "complete"),
               wrote' = IF pc'[p] = "complete" THEN wrote + 1 ELSE wrote,
               UNCHANGED <<setup_done, wait, started>>
        PROVE  IInv'
    <3>1. pc[p] = "copy" /\ pc \in [Proc -> {"user", "wait", "asleep", "woken", "copy", "complete", "oob"}]
      BY <2>4 DEF copy_from_user, IInv, CountTypes
    <3>2. CASE pc' = [pc EXCEPT ![p] = "complete"]
      <4>1. pc'[p] = "complete"
        BY <3>1, <3>2
      <4> QED
        BY <2>4, <3>1, <3>2, <4>1, CopyEnds
    <3>3. CASE UNCHANGED pc \/ pc' = [pc EXCEPT ![p] = "oob"]
      <4>1. pc'[p] # "complete"
        BY <3>1, <3>3
      <4>2. UNCHANGED cvars
        BY <2>4, <4>1 DEF cvars
      <4> QED
        BY <3>1, <3>3, <4>2, OtherSteps
    <3> QED
      BY <2>4, <3>2, <3>3 DEF copy_from_user
  <2> QED
    BY <2>1, <2>2, <2>3, <2>4, WaitSteps, CompleteStep
    DEF Next, sample_char_drv_read, sample_char_drv_write
<1> QED
  BY <1>1, <1>2, PTL DEF Spec

(* With any number of readers and writers on ex9, however they overtake each *)
(* other, a read that is past its wait has a write of its own that has       *)
(* copied its data.                                                          *)
THEOREM EventTheorem == Spec => []ReadHasItsWrite
<1>1. IInv => ReadHasItsWrite
  BY CompletingFinite DEF IInv, CountTypes, EventInv, ReadHasItsWrite
<1> QED
  BY <1>1, Invariance, PTL

(* While a reader of ex9 sleeps, every event not yet taken has a woken       *)
(* reader on its way to take it.                                             *)
THEOREM StrandedTheorem == Spec => []NoStrandedReader
<1>1. IInv => NoStrandedReader
  BY DEF IInv
<1> QED
  BY <1>1, Invariance, PTL
=============================================================================
