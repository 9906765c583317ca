------------------------------- MODULE MCDrivers -------------------------------
(***************************************************************************)
(* The handlers of five drivers that share nothing, one at a time: Init    *)
(* picks the module whose actions run, the others stay in an initial state.*)
(***************************************************************************)
EXTENDS CharDrvLocks, FilePosition, ProcEntries, AdcDriver, CompletionCharDrv

VARIABLE example   \* the module that runs

drivervars == <<lockvars, posvars, procvars, adcvars, vars, example>>   \* vars: CompletionCharDrv

Locking    == example = "locks" /\ UNCHANGED <<posvars, procvars, adcvars, vars, example>>
Position   == example = "position" /\ UNCHANGED <<lockvars, procvars, adcvars, vars, example>>
ProcFs     == example = "proc" /\ UNCHANGED <<lockvars, posvars, adcvars, vars, example>>
Adc        == example = "adc" /\ UNCHANGED <<lockvars, posvars, procvars, vars, example>>
Completion == example = "completion" /\ UNCHANGED <<lockvars, posvars, procvars, adcvars, example>>

MCInit ==
  /\ LockInit /\ PosInit /\ ProcInit /\ AdcInit /\ Init
  /\ example \in {"locks", "position", "proc", "adc", "completion"}
  /\ example # "locks" => driver = "ex3" /\ ncpu = 1
  /\ example # "position" => which = "ex14"
  /\ example # "proc" => entry = "ex5"

LockStep ==
  \E p \in Task : \/ \E o \in {"read", "write", "ioctl"} : Locking /\ LockEnter(p, o)
                  \/ Locking /\ Block(p)
                  \/ Locking /\ Begin(p)
                  \/ Locking /\ CopyCell(p)
                  \/ Locking /\ Fault(p)
                  \/ Locking /\ PageIn(p)
                  \/ Locking /\ unlock(p)

PosStep ==
  \/ Position /\ sample_char_drv_seek
  \/ \E t \in Thread : \/ Position /\ vfs_call(t)
                       \/ Position /\ char_dev_copy(t)
                       \/ Position /\ vfs_return(t)

ProcStep ==
  \/ \E c \in Client : \/ ProcFs /\ proc_open(c)
                       \/ ProcFs /\ proc_close(c)
                       \/ ProcFs /\ mywrite(c)
                       \/ ProcFs /\ myread(c)
                       \/ ProcFs /\ ReadOn(c)
  \/ ProcFs /\ param_set_int

AdcStep ==
  \/ Adc /\ Convert
  \/ \E r \in Reader : \/ Adc /\ Signal(r)
                       \/ Adc /\ adc_char_drv_read(r)

CompletionStep ==
  \E p \in Proc : \/ Completion /\ Enter(p)
                  \/ Completion /\ sample_char_drv_read(p)
                  \/ Completion /\ sample_char_drv_write(p)

MCNext == LockStep \/ PosStep \/ ProcStep \/ AdcStep \/ CompletionStep

(* A process that has its lock or its page and a CPU runs on; locks are      *)
(* handed over in the order of arrival; programs that read to the end do so. *)
MCSpec ==
  /\ MCInit /\ [][MCNext]_drivervars
  /\ \A p \in Task :
       /\ SF_drivervars(Locking /\ Begin(p))
       /\ SF_drivervars(Locking /\ PageIn(p))
       /\ WF_drivervars(Locking /\ Block(p))
       /\ WF_drivervars(Locking /\ (CopyCell(p) \/ unlock(p)))
  /\ \A c \in Client : WF_drivervars(ProcFs /\ ReadOn(c))
  /\ \A p \in Proc :
       WF_drivervars(Completion /\ (sample_char_drv_read(p) \/ sample_char_drv_write(p)))
===============================================================================
