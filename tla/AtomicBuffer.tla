----------------------------- MODULE AtomicBuffer -----------------------------
(***************************************************************************)
(* What a correctly locked sample driver promises its users: one shared    *)
(* buffer on which every read() and every write() takes effect at one      *)
(* instant between the call and its return.  A read returns the bytes the  *)
(* buffer holds at that instant, never a mixture of two writes.            *)
(***************************************************************************)
EXTENDS Naturals

CONSTANTS Proc, Byte, Zero, buffer_len, kmalloc_size, Counts

Off   == 0 .. kmalloc_size - 1
Image == [Off -> Byte]
Blank == [o \in Off |-> Zero]

VARIABLES
  content,   \* the buffer
  pend,      \* the call a process is waiting for, or "none"
  cnt,       \* the length it asked for
  arg,       \* the data of a pending write
  res        \* what the last call returned

abvars == <<content, pend, cnt, arg, res>>

Result   == [n : 0 .. kmalloc_size, data : Image]
NoResult == [n |-> 0, data |-> Blank]

Limit(p) == IF cnt[p] > buffer_len THEN buffer_len ELSE cnt[p]

(* The first k bytes of img over those of base, zeros up to m. *)
Overlay(base, img, k, m) ==
  [o \in Off |-> IF o < k THEN img[o] ELSE IF o < m THEN Zero ELSE base[o]]

Finish(p, n, d) ==
  /\ res' = [res EXCEPT ![p] = [n |-> n, data |-> d]]
  /\ pend' = [pend EXCEPT ![p] = "none"]
  /\ cnt' = [cnt EXCEPT ![p] = 0]
  /\ arg' = [arg EXCEPT ![p] = Blank]

Invoke(p, o, n, d) ==
  /\ pend[p] = "none"
  /\ pend' = [pend EXCEPT ![p] = o]
  /\ cnt' = [cnt EXCEPT ![p] = n]
  /\ arg' = [arg EXCEPT ![p] = IF o = "write" THEN d ELSE Blank]
  /\ res' = [res EXCEPT ![p] = NoResult]
  /\ UNCHANGED content

(* A user page may fault, so a call may transfer fewer bytes than asked. *)
Read(p) ==
  /\ pend[p] = "read"
  /\ \E k \in 0 .. kmalloc_size :
       /\ k <= Limit(p)
       /\ Finish(p, k, Overlay(Blank, content, k, 0))
  /\ UNCHANGED content

Write(p) ==
  /\ pend[p] = "write"
  /\ Limit(p) <= kmalloc_size
  /\ \E k \in 0 .. kmalloc_size :
       /\ k <= Limit(p)
       /\ content' = Overlay(content, arg[p], k, Limit(p))
       /\ Finish(p, k, arg[p])

Init ==
  /\ content \in Image
  /\ pend = [p \in Proc |-> "none"]
  /\ cnt = [p \in Proc |-> 0]
  /\ arg = [p \in Proc |-> Blank]
  /\ res = [p \in Proc |-> NoResult]

Next == \E p \in Proc :
  \/ \E o \in {"read", "write"}, n \in Counts, d \in Image : Invoke(p, o, n, d)
  \/ Read(p)
  \/ Write(p)

Spec == Init /\ [][Next]_abvars
===============================================================================
