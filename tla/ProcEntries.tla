------------------------------ MODULE ProcEntries ------------------------------
(***************************************************************************)
(* The two /proc/mydev entries.  ex5 keeps a pair (irq, mode) that a write *)
(* sets and a read returns, two variables that are accessed one after the  *)
(* other without a lock; they are also module parameters.  ex6 is a        *)
(* seq_file of one record, a counter that every reading increments.        *)
(*                                                                         *)
(* From the kernel (outside this repository): seq_read keeps an index and  *)
(* the rest of a record for each open file, calls start, show, next and    *)
(* stop, and returns 0, the end of the file, when start returns NULL.      *)
(***************************************************************************)
EXTENDS Integers

CONSTANTS
  Client,     \* programs that use the entry
  RecordLen,  \* length of a record of ex6
  Sizes,      \* sizes of the buffers that programs read with
  Wrap        \* the counter of ex6 wraps round here

ASSUME ProcEntriesAssumption ==
  RecordLen \in Nat \ {0} /\ Sizes \subseteq Nat \ {0} /\ Wrap \in Nat \ {0}

VARIABLES
  entry,     \* "ex5" or "ex6"
  opened,    \* programs that have the entry open
  irq, mode, \* ex5: who set each of them, or "param"
  estep,     \* ex5: where each program is
  off,       \* ex5: is *ppos beyond the start?
  pair,      \* ex5: the pair it has read
  jumbled,   \* ex5, history: irq and mode have been set apart, or under another call
  counter,   \* ex6: the static counter
  index,     \* ex6: m->index of each program's file
  left,      \* ex6: how much of the record is still to be returned
  eof        \* ex6: programs that have seen the end of the file

procvars == <<entry, opened, irq, mode, estep, off, pair, jumbled, counter, index, left, eof>>

NoPair == <<"param", "param">>

ProcInit ==
  /\ entry \in {"ex5", "ex6"} /\ opened = {}
  /\ irq = "param" /\ mode = "param"
  /\ estep = [c \in Client |-> "user"] /\ off = [c \in Client |-> FALSE]
  /\ pair = [c \in Client |-> NoPair] /\ jumbled = FALSE
  /\ counter = 0 /\ index = [c \in Client |-> 0] /\ left = [c \in Client |-> 0] /\ eof = {}

proc_open(c) ==
  /\ c \notin opened /\ opened' = opened \cup {c}
  /\ off' = [off EXCEPT ![c] = FALSE] /\ index' = [index EXCEPT ![c] = 0]
  /\ left' = [left EXCEPT ![c] = 0] /\ eof' = eof \ {c}
  /\ UNCHANGED <<entry, irq, mode, estep, pair, jumbled, counter>>

proc_close(c) ==
  /\ c \in opened /\ estep[c] = "user" /\ opened' = opened \ {c}
  /\ pair' = [pair EXCEPT ![c] = NoPair]
  /\ UNCHANGED <<entry, irq, mode, estep, off, jumbled, counter, index, left, eof>>
-------------------------------------------------------------------------------
EStep(c, l) == estep' = [estep EXCEPT ![c] = l]
AtIt == {c \in Client : estep[c] # "user"}

(* Mutant: sscanf stores into irq itself, also when no second number follows. *)
mywrite_EarlyIrq(c) ==
  /\ entry = "ex5" /\ c \in opened
  /\ \/ /\ estep[c] = "user" /\ ~ off[c]
        /\ irq' = c /\ EStep(c, "set")
        /\ jumbled' = (jumbled \/ AtIt # {}) /\ UNCHANGED <<mode, off>>
     \/ /\ estep[c] = "set"
        /\ mode' \in {mode, c} /\ off' = [off EXCEPT ![c] = TRUE] /\ EStep(c, "user")
        /\ UNCHANGED <<irq, jumbled>>
  /\ UNCHANGED <<entry, opened, pair, counter, index, left, eof>>

(* Refused are a second transfer on the same file, a long request, a bad page and text
   that is not two numbers; then irq, mode and *ppos. *)
mywrite(c) ==
  /\ entry = "ex5" /\ c \in opened
  /\ \/ estep[c] = "user" /\ UNCHANGED <<irq, mode, estep, off, jumbled>>
     \/ /\ estep[c] = "user" /\ ~ off[c]
        /\ irq' = c /\ EStep(c, "set")
        /\ jumbled' = (jumbled \/ AtIt # {}) /\ UNCHANGED <<mode, off>>
     \/ /\ estep[c] = "set"
        /\ mode' = c /\ off' = [off EXCEPT ![c] = TRUE] /\ EStep(c, "user")
        /\ UNCHANGED <<irq, jumbled>>
  /\ UNCHANGED <<entry, opened, pair, counter, index, left, eof>>

(* 0 on the second read, and for a buffer shorter than BUFSIZE *)
myread(c) ==
  /\ entry = "ex5" /\ c \in opened
  /\ \/ /\ estep[c] = "user" /\ ~ off[c]
        /\ pair' = [pair EXCEPT ![c] = <<irq, "param">>] /\ EStep(c, "get")
        /\ jumbled' = (jumbled \/ \E d \in AtIt : estep[d] = "set") /\ UNCHANGED off
     \/ /\ estep[c] = "get"
        /\ \/ pair' = [pair EXCEPT ![c] = <<@[1], mode>>] /\ off' = [off EXCEPT ![c] = TRUE]
           \/ pair' = [pair EXCEPT ![c] = NoPair] /\ UNCHANGED off     \* -EFAULT
        /\ EStep(c, "user") /\ UNCHANGED jumbled
  /\ UNCHANGED <<entry, opened, irq, mode, counter, index, left, eof>>

(* A write to /sys/module/ex5/parameters/irq or mode *)
param_set_int ==
  /\ entry = "ex5"
  /\ \/ irq' = "param" /\ UNCHANGED mode
     \/ mode' = "param" /\ UNCHANGED irq
  /\ jumbled' = TRUE
  /\ UNCHANGED <<entry, opened, estep, off, pair, counter, index, left, eof>>
-------------------------------------------------------------------------------
(* Mutant: start looks at nothing. *)
my_seq_start_Always(pos) == TRUE

(* Does start return &counter? *)
my_seq_start(pos) == pos = 0

my_seq_next == counter' = (counter + 1) % Wrap

(* seq_read with a buffer of n bytes *)
seq_read(c, n) ==
  /\ entry = "ex6" /\ c \in opened /\ c \notin eof
  /\ \/ /\ left[c] > 0                                    \* the rest of the record
        /\ left' = [left EXCEPT ![c] = IF n < @ THEN @ - n ELSE 0]
        /\ index' = [index EXCEPT ![c] = IF left'[c] = 0 THEN @ + 1 ELSE @]
        /\ UNCHANGED <<counter, eof>>
     \/ /\ left[c] = 0 /\ my_seq_start(index[c])          \* start, show, next if there is room
        /\ IF n > RecordLen THEN my_seq_next ELSE UNCHANGED counter
        /\ left' = [left EXCEPT ![c] = IF n < RecordLen THEN RecordLen - n ELSE 0]
        /\ index' = [index EXCEPT ![c] = IF left'[c] = 0 THEN 1 ELSE @]
        /\ UNCHANGED eof
     \/ /\ left[c] = 0 /\ ~ my_seq_start(index[c])        \* start, stop
        /\ eof' = eof \cup {c}
        /\ UNCHANGED <<counter, index, left>>
  /\ UNCHANGED <<entry, opened, irq, mode, estep, off, pair, jumbled>>

ReadOn(c) == \E n \in Sizes : seq_read(c, n)

ProcNext ==
  \/ \E c \in Client : proc_open(c) \/ proc_close(c) \/ mywrite(c) \/ myread(c) \/ ReadOn(c)
  \/ param_set_int

ProcSpec == ProcInit /\ [][ProcNext]_procvars
-------------------------------------------------------------------------------
(* A read of ex5 returns the irq and the mode of the same write, unless      *)
(* calls overlap or a parameter is set by itself: a write that is refused    *)
(* leaves no trace.                                                          *)
PairNeedsOverlap ==
  \A c \in Client : estep[c] = "user" /\ pair[c][1] # pair[c][2] => jumbled

(* A program that reads ex6 until the end gets there, whatever the sizes of  *)
(* its buffers and however many others read: the record is returned once and *)
(* start then ends the sequence.                                             *)
ReadingEnds == \A c \in Client : (entry = "ex6" /\ c \in opened) ~> (c \in eof \/ c \notin opened)
-------------------------------------------------------------------------------
(* The inductive invariant of ex5: until something is jumbled, a write works *)
(* alone, irq and mode agree whenever no write is between the two, and a     *)
(* read has got the irq that is still there.                                 *)
ProcIInv ==
  /\ estep \in [Client -> {"user", "set", "get"}] /\ jumbled \in BOOLEAN
  /\ LET Setter == Client \cup {"param"} IN
     irq \in Setter /\ mode \in Setter /\ pair \in [Client -> Setter \X Setter]
  /\ ~ jumbled =>
       /\ \A c \in Client : estep[c] = "set" => irq = c /\ AtIt = {c}
       /\ (\A c \in Client : estep[c] # "set") => irq = mode
       /\ \A c \in Client : IF estep[c] = "get" THEN pair[c][1] = irq
                                                 ELSE pair[c][1] = pair[c][2]
===============================================================================
