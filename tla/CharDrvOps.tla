------------------------------ MODULE CharDrvOps ------------------------------
(***************************************************************************)
(* What the read and write handlers of the sample char drivers (ex3, ex4   *)
(* and ex7 to ex14) have in common: one kernel buffer shared by every      *)
(* process that has the device open, a request length clamped to           *)
(* buffer_len, and a copy between the user's memory and that buffer.  The  *)
(* copy is not atomic: other processes run between two bytes of it.        *)
(*                                                                         *)
(* The drivers allocate the buffer with kmalloc(GFP_KERNEL, buffer_len),   *)
(* whose first argument is the SIZE: the object has kmalloc_size =         *)
(* GFP_KERNEL (208) bytes while the handlers clamp to buffer_len (4000).   *)
(* Both sizes are parameters.  A copy that leaves the object is undefined  *)
(* behaviour; the call stops there, at control point "oob".                *)
(***************************************************************************)
EXTENDS Naturals

CONSTANTS
  Proc,          \* processes that have the device open
  Byte,          \* values of one byte of the buffer
  Zero,          \* the byte 0
  buffer_len,    \* the length the handlers believe the buffer has
  kmalloc_size,  \* the length it was allocated with
  Counts         \* the lengths user programs pass to read() and write()

ASSUME CharDrvAssumption ==
  /\ Zero \in Byte
  /\ buffer_len \in Nat
  /\ kmalloc_size \in Nat
  /\ Counts \subseteq Nat

Off   == 0 .. kmalloc_size - 1
Image == [Off -> Byte]
Blank == [o \in Off |-> Zero]

VARIABLES
  buffer,   \* the object that the global char *buffer points to
  pc,       \* where each process is: "user", or inside a handler
  op,       \* the handler of its current or last call
  count,    \* the count argument of that call
  ubuf,     \* the user memory behind user_ptr
  idx       \* bytes copied so far: what the call will return

callvars == <<buffer, pc, op, count, ubuf, idx>>

(* size_t len: the request clamped to what the handler takes the buffer for. *)
len(p) == IF count[p] > buffer_len THEN buffer_len ELSE count[p]

(***************************************************************************)
(* A user program enters a handler whose first control point is first.     *)
(* For write the user memory holds the data d; for read its old contents   *)
(* do not matter.                                                          *)
(***************************************************************************)
Call(p, o, n, d, first) ==
  /\ pc[p] = "user"
  /\ pc' = [pc EXCEPT ![p] = first]
  /\ op' = [op EXCEPT ![p] = o]
  /\ count' = [count EXCEPT ![p] = n]
  /\ ubuf' = [ubuf EXCEPT ![p] = IF o = "write" THEN d ELSE Blank]
  /\ idx' = [idx EXCEPT ![p] = 0]
  /\ UNCHANGED buffer

(***************************************************************************)
(* copy_to_user(user_ptr, buffer, len): one byte per step.  It ends when   *)
(* len bytes are copied, or earlier when the user page faults; the bytes   *)
(* not copied are reported, so the handler returns idx.                    *)
(***************************************************************************)
copy_to_user(p, next) ==
  /\ pc[p] = "copy"
  /\ UNCHANGED <<buffer, op, count>>
  /\ \/ /\ idx[p] < len(p) /\ idx[p] < kmalloc_size
        /\ ubuf' = [ubuf EXCEPT ![p] = [@ EXCEPT ![idx[p]] = buffer[idx[p]]]]
        /\ idx' = [idx EXCEPT ![p] = @ + 1]
        /\ UNCHANGED pc
     \/ /\ pc' = [pc EXCEPT ![p] = next]
        /\ UNCHANGED <<ubuf, idx>>
     \/ /\ idx[p] < len(p) /\ idx[p] = kmalloc_size
        /\ pc' = [pc EXCEPT ![p] = "oob"]
        /\ UNCHANGED <<ubuf, idx>>

(* A copy into the kernel that faults fills the rest of the request with 0. *)
Padded(p) ==
  [o \in Off |-> IF idx[p] <= o /\ o < len(p) THEN Zero ELSE buffer[o]]

(***************************************************************************)
(* copy_from_user(buffer, user_ptr, len).  When the request is longer than *)
(* the object, either the data or the zero fill runs past its end.         *)
(***************************************************************************)
copy_from_user(p, next) ==
  /\ pc[p] = "copy"
  /\ UNCHANGED <<op, count, ubuf>>
  /\ \/ /\ idx[p] < len(p) /\ idx[p] < kmalloc_size
        /\ buffer' = [buffer EXCEPT ![idx[p]] = ubuf[p][idx[p]]]
        /\ idx' = [idx EXCEPT ![p] = @ + 1]
        /\ UNCHANGED pc
     \/ /\ len(p) <= kmalloc_size
        /\ buffer' = Padded(p)
        /\ pc' = [pc EXCEPT ![p] = next]
        /\ UNCHANGED idx
     \/ /\ len(p) > kmalloc_size
        /\ pc' = [pc EXCEPT ![p] = "oob"]
        /\ UNCHANGED <<buffer, idx>>

(* kmalloc does not clear the object; no process is in a handler yet. *)
CallInit ==
  /\ buffer \in Image
  /\ pc = [p \in Proc |-> "user"]
  /\ op = [p \in Proc |-> "read"]
  /\ count = [p \in Proc |-> 0]
  /\ ubuf = [p \in Proc |-> Blank]
  /\ idx = [p \in Proc |-> 0]
===============================================================================
