----------------------------- MODULE FilePosition -----------------------------
(***************************************************************************)
(* File positions: the read and write of ex27, which move through the      *)
(* buffer, and the seek of ex14, whose read and write do not look at the   *)
(* position.  Several threads share one open file.                         *)
(*                                                                         *)
(* From the kernel (outside this repository): read and write take a copy   *)
(* of f_pos, call the driver and store the copy back, without a lock for a *)
(* char device; pread and pwrite pass a position of the caller's.          *)
(***************************************************************************)
EXTENDS Integers

CONSTANTS
  Thread,      \* threads that share the file
  MAX_LENGTH,  \* length of the buffer (buffer_len in ex14)
  MaxRequest   \* bound on the lengths and positions that programs pass

ASSUME FilePositionAssumption == MAX_LENGTH \in Nat /\ MaxRequest \in Nat

VARIABLES
  which,    \* "ex14" or "ex27"
  f_pos,    \* the position of the open file
  fstep,    \* where each thread is: "user", "call" or "ret"
  ppos,     \* the position it passed to the driver; *ppos afterwards
  own,      \* is it a position of the caller's (pread, pwrite)?
  lo,       \* the first byte its copy touches
  nbytes,   \* the bytes it has copied
  total,    \* history: bytes moved by the calls that returned
  shared    \* history: two calls on f_pos have overlapped

posvars == <<which, f_pos, fstep, ppos, own, lo, nbytes, total, shared>>

PosInit ==
  /\ which \in {"ex14", "ex27"}
  /\ f_pos = 0 /\ fstep = [t \in Thread |-> "user"] /\ ppos = [t \in Thread |-> 0]
  /\ own = [t \in Thread |-> FALSE] /\ lo = [t \in Thread |-> 0]
  /\ nbytes = [t \in Thread |-> 0] /\ total = 0 /\ shared = FALSE

(* read or write on f_pos, or pread or pwrite *)
vfs_call(t) ==
  /\ which = "ex27" /\ fstep[t] = "user"
  /\ fstep' = [fstep EXCEPT ![t] = "call"]
  /\ \/ /\ ppos' = [ppos EXCEPT ![t] = f_pos] /\ own' = [own EXCEPT ![t] = FALSE]
        /\ shared' = (shared \/ \E u \in Thread : fstep[u] # "user" /\ ~ own[u])
     \/ /\ \E n \in 0 .. MaxRequest : ppos' = [ppos EXCEPT ![t] = n]
        /\ own' = [own EXCEPT ![t] = TRUE] /\ UNCHANGED shared
  /\ UNCHANGED <<which, f_pos, lo, nbytes, total>>

(* Mutant: the position is left out of maxbytes. *)
bytes_to_do_Whole(pos, lbuf) == IF MAX_LENGTH > lbuf THEN lbuf ELSE MAX_LENGTH

(* maxbytes is an int and lbuf a size_t: a negative maxbytes compares as a huge one. *)
bytes_to_do(pos, lbuf) ==
  LET maxbytes == MAX_LENGTH - pos IN
  IF maxbytes < 0 \/ maxbytes > lbuf THEN lbuf ELSE maxbytes

(* Mutant: ppos is only advanced by a complete copy. *)
char_dev_copy_Complete(t) ==
  /\ fstep[t] = "call"
  /\ fstep' = [fstep EXCEPT ![t] = "ret"]
  /\ \E lbuf \in 0 .. MaxRequest : \E n \in 0 .. bytes_to_do(ppos[t], lbuf) :
       /\ lo' = [lo EXCEPT ![t] = ppos[t]] /\ nbytes' = [nbytes EXCEPT ![t] = n]
       /\ ppos' = [ppos EXCEPT ![t] = IF n = lbuf THEN @ + n ELSE @]
  /\ UNCHANGED <<which, f_pos, own, total, shared>>

(* char_dev_read and char_dev_write: the copy may stop at a page that is not there.  *)
(* A write that finds no room (-ENOSPC) is one that moves 0 bytes: neither touches   *)
(* the position.                                                                     *)
char_dev_copy(t) ==
  /\ fstep[t] = "call"
  /\ fstep' = [fstep EXCEPT ![t] = "ret"]
  /\ \E lbuf \in 0 .. MaxRequest : \E n \in 0 .. bytes_to_do(ppos[t], lbuf) :
       /\ lo' = [lo EXCEPT ![t] = ppos[t]] /\ nbytes' = [nbytes EXCEPT ![t] = n]
       /\ ppos' = [ppos EXCEPT ![t] = @ + n]
  /\ UNCHANGED <<which, f_pos, own, total, shared>>

vfs_return(t) ==
  /\ fstep[t] = "ret"
  /\ fstep' = [fstep EXCEPT ![t] = "user"]
  /\ IF own[t] THEN UNCHANGED <<f_pos, total>>
     ELSE f_pos' = ppos[t] /\ total' = IF shared THEN 0 ELSE total + nbytes[t]
  /\ ppos' = [ppos EXCEPT ![t] = 0] /\ lo' = [lo EXCEPT ![t] = 0]
  /\ nbytes' = [nbytes EXCEPT ![t] = 0] /\ own' = [own EXCEPT ![t] = FALSE]
  /\ UNCHANGED <<which, shared>>

(* The "if" that should limit new_pos ends in a semicolon: the assignment is always made. *)
Limited(new_pos) == MAX_LENGTH

(* What an uninitialised position may hold *)
Garbage == -MaxRequest .. MaxRequest

(* whence 0, 1, 2; another one leaves new_pos uninitialised: any value *)
sample_char_drv_seek ==
  /\ which = "ex14"
  /\ \E off \in -MaxRequest .. MaxRequest : \E new_pos \in {off, f_pos + off, MAX_LENGTH + off} \cup Garbage :
       f_pos' = IF Limited(new_pos) < 0 THEN 0 ELSE Limited(new_pos)
  /\ UNCHANGED <<which, fstep, ppos, own, lo, nbytes, total, shared>>

PosNext == sample_char_drv_seek \/ \E t \in Thread : vfs_call(t) \/ char_dev_copy(t) \/ vfs_return(t)

PosSpec == PosInit /\ [][PosNext]_posvars
-------------------------------------------------------------------------------
(* Whatever threads do to the position of a shared file, it stays in the     *)
(* buffer, and so does every copy but that of a pread or pwrite whose own    *)
(* position is beyond the end.                                               *)
CopyInsideBuffer ==
  /\ f_pos \in 0 .. MAX_LENGTH
  /\ \A t \in Thread : fstep[t] = "ret" /\ nbytes[t] > 0 =>
       lo[t] + nbytes[t] <= MAX_LENGTH \/ (own[t] /\ lo[t] > MAX_LENGTH)

(* As long as no two calls on the file overlap, its position is the number   *)
(* of bytes that its reads and writes have moved, those cut short by a fault *)
(* or by the end of the buffer included: no byte is skipped or moved twice.  *)
PositionIsProgress == which = "ex27" /\ ~ shared => f_pos = total
-------------------------------------------------------------------------------
PosTypeOK ==
  /\ f_pos \in 0 .. MAX_LENGTH /\ total \in Nat /\ shared \in BOOLEAN
  /\ fstep \in [Thread -> {"user", "call", "ret"}] /\ own \in [Thread -> BOOLEAN]
  /\ ppos \in [Thread -> Nat] /\ lo \in [Thread -> Nat] /\ nbytes \in [Thread -> Nat]

(* A call that works on f_pos. *)
OnFile(t) == fstep[t] # "user" /\ ~ own[t]

(* The position a call was given, and what its copy made of it. *)
PassedInv ==
  /\ \A t \in Thread : OnFile(t) => ppos[t] <= MAX_LENGTH
  /\ \A t \in Thread : fstep[t] = "ret" => ppos[t] = lo[t] + nbytes[t]

(* A call that has the file to itself was given the position that is still   *)
(* there.                                                                    *)
SoleInv ==
  which = "ex27" /\ ~ shared =>
    /\ \A t, u \in Thread : OnFile(t) /\ OnFile(u) => t = u
    /\ \A t \in Thread : OnFile(t) => f_pos = IF fstep[t] = "call" THEN ppos[t] ELSE lo[t]

(* The inductive invariant of the positions. *)
PosIInv == PosTypeOK /\ PassedInv /\ SoleInv /\ CopyInsideBuffer /\ PositionIsProgress
===============================================================================
