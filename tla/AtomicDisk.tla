------------------------------ MODULE AtomicDisk ------------------------------
(***************************************************************************)
(* What a disk promises: every transfer reads or writes exactly its own    *)
(* range of bytes, at one instant between its submission and its end.      *)
(***************************************************************************)
EXTENDS Integers

CONSTANTS Proc, Val, Size

Addr == 0 .. Size - 1
Disk == [Addr -> Val]

VARIABLES
  disk,    \* the contents
  io,      \* the transfer each process has submitted: direction, first byte, length
  mem,     \* the memory each process transfers from or to, addressed as the disk
  done     \* the processes whose transfer has taken effect

advars == <<disk, io, mem, done>>

Idle == [dir |-> "none", pos |-> 0, n |-> 0]
InRange(p, a) == io[p].pos <= a /\ a < io[p].pos + io[p].n

Init ==
  /\ disk \in Disk
  /\ io = [p \in Proc |-> Idle]
  /\ mem \in [Proc -> Disk]
  /\ done = {}

Submit(p, d, pos, n) ==
  /\ io[p] = Idle
  /\ io' = [io EXCEPT ![p] = [dir |-> d, pos |-> pos, n |-> n]]
  /\ \E m \in Disk : mem' = [mem EXCEPT ![p] = m]
  /\ UNCHANGED <<disk, done>>

Write(p) ==
  /\ io[p].dir = "write" /\ p \notin done
  /\ disk' = [a \in Addr |-> IF InRange(p, a) THEN mem[p][a] ELSE disk[a]]
  /\ done' = done \cup {p}
  /\ UNCHANGED <<io, mem>>

Read(p) ==
  /\ io[p].dir = "read" /\ p \notin done
  /\ mem' = [mem EXCEPT ![p] = [a \in Addr |-> IF InRange(p, a) THEN disk[a] ELSE mem[p][a]]]
  /\ done' = done \cup {p}
  /\ UNCHANGED <<disk, io>>

(* A driver ends the transfers of one request together. *)
Complete(S) ==
  /\ S \subseteq done
  /\ io' = [p \in Proc |-> IF p \in S THEN Idle ELSE io[p]]
  /\ done' = done \ S
  /\ UNCHANGED <<disk, mem>>

Next ==
  \/ \E p \in Proc : Write(p) \/ Read(p)
  \/ \E p \in Proc, d \in {"read", "write"}, pos \in 0 .. Size, n \in 0 .. Size : Submit(p, d, pos, n)
  \/ \E S \in SUBSET Proc : Complete(S)

Spec == Init /\ [][Next]_advars
===============================================================================
