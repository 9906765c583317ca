----------------------------- MODULE HandlerProofs -----------------------------
(***************************************************************************)
(* Proofs about the handlers of the char drivers that differ in their      *)
(* locking (ex3, ex4, ex8, ex11), of the file positions (ex14, ex27), of   *)
(* the /proc entry (ex5) and of the ADC driver (ex31), for any number of   *)
(* processes and CPUs and any length of the buffers.                       *)
(***************************************************************************)
EXTENDS CharDrvLocks, FilePosition, ProcEntries, AdcDriver, TLAPS

-------------------------------------------------------------------------------
(* The ADC driver. *)

(* No value of the register ends the loop: bit 15 is 0 or 2^15, never 1.     *)
LEMMA NeverDone == AdcIInv => ~ Done
  BY DEF AdcIInv, Done, ADC_CON_SELMUX, ADC_CON_EN_START, EndOfConversion

(* No read of the ADC runs at first. *)
LEMMA AdcInitial == AdcInit => AdcIInv
  BY DEF AdcInit, AdcIInv

(* A step leaves a reader that polls where it is, with the lock.             *)
LEMMA PollStep ==
  ASSUME AdcIInv, [AdcNext]_adcvars
  PROVE  AdcIInv' /\ \A r \in Reader : astep[r] = "poll" => astep'[r] = "poll" /\ adc_lock' = r
<1>1. CASE Convert
  BY <1>1 DEF Convert, AdcIInv
<1>2. ASSUME NEW r \in Reader, Signal(r)
      PROVE  AdcIInv' /\ UNCHANGED <<astep, adc_lock>>
  BY <1>2 DEF Signal, AdcIInv
<1>3. ASSUME NEW r \in Reader, adc_char_drv_read(r)
      PROVE  AdcIInv' /\ \A q \in Reader : astep[q] = "poll" => astep'[q] = "poll" /\ adc_lock' = q
  <2>1. CASE astep[r] = "user" /\ AStep(r, "down") /\ UNCHANGED <<adc_lock, ADCCON>>
    BY <2>1 DEF AStep, AdcIInv
  <2>2. CASE down_interruptible(r) /\ UNCHANGED ADCCON
    BY <2>2, AdcAssumption DEF down_interruptible, AStep, AdcIInv
  <2>3. CASE /\ astep[r] = "start" /\ AStep(r, "poll")
             /\ ADCCON' = ADC_CON_SELMUX(1) + ADC_CON_EN_START /\ UNCHANGED adc_lock
    BY <2>3 DEF AStep, AdcIInv
  <2>4. CASE UNCHANGED adcvars
    BY <2>4 DEF adcvars, AdcIInv
  <2>5. ~ Done
    BY NeverDone
  <2> QED
    BY <1>3, <2>1, <2>2, <2>3, <2>4, <2>5 DEF adc_char_drv_read
<1>4. CASE UNCHANGED adcvars
  BY <1>4 DEF adcvars, AdcIInv
<1>5. ASSUME UNCHANGED <<astep, adc_lock>>
      PROVE  \A r \in Reader : astep[r] = "poll" => astep'[r] = "poll" /\ adc_lock' = r
  BY <1>5 DEF AdcIInv
<1>6. CASE \E r \in Reader : Signal(r)
  BY <1>2, <1>5, <1>6
<1>7. CASE Convert \/ UNCHANGED adcvars
  BY <1>1, <1>4, <1>5, <1>7 DEF Convert, adcvars
<1>8. CASE \E r \in Reader : adc_char_drv_read(r)
  BY <1>3, <1>8
<1> QED
  BY <1>6, <1>7, <1>8 DEF AdcNext

(* The control register takes three values only, and whoever converts or     *)
(* polls in ex31's read holds adc_lock.                                      *)
THEOREM AdcInvariance == AdcSpec => []AdcIInv
<1>1. AdcIInv /\ [AdcNext]_adcvars => AdcIInv'
  BY PollStep
<1> QED
  BY AdcInitial, <1>1, PTL DEF AdcSpec

(* At most one of any number of readers of ex31 is between the start of its  *)
(* conversion and the end, whichever waits for adc_lock a signal ends.       *)
THEOREM ConversionTheorem == AdcSpec => []OneConversion
<1>1. AdcIInv => OneConversion
  BY DEF AdcIInv, OneConversion
<1> QED
  BY AdcInvariance, <1>1, PTL

(* With any number of readers, a read of the ADC that has started a          *)
(* conversion polls for ever and keeps adc_lock (ex31.c:71).                 *)
THEOREM PollTheorem == AdcSpec => PollNeverEnds
<1>1. AdcIInv /\ [AdcNext]_adcvars =>
        [\A r \in Reader : astep[r] = "poll" => astep'[r] = "poll" /\ adc_lock' = r]_adcvars
  BY PollStep
<1> QED
  BY AdcInvariance, <1>1, PTL DEF AdcSpec, PollNeverEnds

-------------------------------------------------------------------------------
(* The /proc entry of ex5. *)

(* irq and mode come from the module's parameters at first. *)
LEMMA ProcInitial == ProcInit => ProcIInv
<1> SUFFICES ASSUME ProcInit
             PROVE  ProcIInv
  OBVIOUS
<1> DEFINE Setter == Client \cup {"param"}
<1>1. NoPair \in Setter \X Setter
  BY DEF NoPair
<1>2. pair \in [Client -> Setter \X Setter] /\ \A c \in Client : pair[c] = NoPair
  BY <1>1 DEF ProcInit
<1>3. estep \in [Client -> {"user", "set", "get"}] /\ \A c \in Client : estep[c] = "user"
  BY DEF ProcInit
<1>4. irq = "param" /\ mode = "param" /\ jumbled = FALSE
  BY DEF ProcInit
<1>5. \A c \in Client : estep[c] # "set" /\ estep[c] # "get" /\ pair[c][1] = pair[c][2]
  BY <1>2, <1>3 DEF NoPair
<1>6. jumbled \in BOOLEAN /\ irq \in Setter /\ mode \in Setter /\ irq = mode
  BY <1>4
<1> QED
  BY <1>2, <1>3, <1>5, <1>6 DEF ProcIInv

(* What a step does to the variables of the pair. *)
LEMMA ProcInductive == ProcIInv /\ [ProcNext]_procvars => ProcIInv'
<1> SUFFICES ASSUME ProcIInv, [ProcNext]_procvars
             PROVE  ProcIInv'
  OBVIOUS
<1> DEFINE Setter == Client \cup {"param"}
<1>0. /\ estep \in [Client -> {"user", "set", "get"}] /\ irq \in Setter /\ mode \in Setter
      /\ pair \in [Client -> Setter \X Setter]
  BY DEF ProcIInv
<1>1. ASSUME UNCHANGED <<irq, mode, estep, pair, jumbled>>
      PROVE  ProcIInv'
  BY <1>1 DEF ProcIInv, AtIt
<1>2. ASSUME NEW c \in Client, proc_close(c)
      PROVE  ProcIInv'
  BY <1>2 DEF proc_close, ProcIInv, NoPair, AtIt
<1>3. ASSUME NEW c \in Client, mywrite(c)
      PROVE  ProcIInv'
  <2>1. CASE estep[c] = "user" /\ irq' = c /\ EStep(c, "set")
             /\ jumbled' = (jumbled \/ AtIt # {}) /\ UNCHANGED <<mode, pair>>
    <3>1. \A d \in Client : estep'[d] = IF d = c THEN "set" ELSE estep[d]
      BY <2>1, <1>0 DEF EStep
    <3>2. ~ jumbled' => ~ jumbled /\ AtIt = {} /\ AtIt' = {c}
      BY <2>1, <3>1 DEF AtIt
    <3>3. ~ jumbled' => \A d \in Client : estep'[d] # "get" /\ pair'[d][1] = pair'[d][2]
      BY <2>1, <3>1, <3>2 DEF ProcIInv, AtIt
    <3>4. estep' \in [Client -> {"user", "set", "get"}] /\ jumbled' \in BOOLEAN
      BY <2>1, <1>0 DEF EStep
    <3>5. ~ jumbled' => \A d \in Client : estep'[d] = "set" => d = c
      BY <3>1, <3>2 DEF AtIt
    <3> QED
      BY <2>1, <1>0, <3>1, <3>2, <3>3, <3>4, <3>5 DEF ProcIInv
  <2>2. CASE estep[c] = "set" /\ mode' = c /\ EStep(c, "user") /\ UNCHANGED <<irq, jumbled, pair>>
    <3>1. \A d \in Client : estep'[d] = IF d = c THEN "user" ELSE estep[d]
      BY <2>2, <1>0 DEF EStep
    <3>2. ~ jumbled => irq = c /\ \A d \in Client : d # c => estep[d] = "user"
      BY <2>2 DEF ProcIInv, AtIt
    <3>3. ~ jumbled => \A d \in Client : pair[d][1] = pair[d][2]
      BY <2>2, <3>2 DEF ProcIInv
    <3>4. estep' \in [Client -> {"user", "set", "get"}] /\ jumbled' \in BOOLEAN
      BY <2>2, <1>0 DEF EStep, ProcIInv
    <3> QED
      BY <2>2, <1>0, <3>1, <3>2, <3>3, <3>4 DEF ProcIInv
  <2> QED
    BY <1>1, <1>3, <2>1, <2>2 DEF mywrite
<1>4. ASSUME NEW c \in Client, myread(c)
      PROVE  ProcIInv'
  <2>0. UNCHANGED <<irq, mode>>
    BY <1>4 DEF myread
  <2>1. CASE /\ estep[c] = "user" /\ pair' = [pair EXCEPT ![c] = <<irq, "param">>] /\ EStep(c, "get")
             /\ jumbled' = (jumbled \/ \E d \in AtIt : estep[d] = "set")
    <3>1. \A d \in Client : estep'[d] = IF d = c THEN "get" ELSE estep[d]
      BY <2>1, <1>0 DEF EStep
    <3>2. ~ jumbled' => ~ jumbled /\ \A d \in Client : estep[d] # "set"
      BY <2>1 DEF AtIt
    <3>3. \A d \in Client : IF d = c THEN pair'[d] = <<irq, "param">> ELSE pair'[d] = pair[d]
      BY <2>1, <1>0
    <3>4. estep' \in [Client -> {"user", "set", "get"}] /\ jumbled' \in BOOLEAN
      BY <2>1, <1>0 DEF EStep
    <3>5. pair' \in [Client -> Setter \X Setter]
      BY <2>1, <1>0
    <3>6. ~ jumbled' => irq = mode /\ \A d \in Client : estep'[d] # "set"
      BY <3>1, <3>2 DEF ProcIInv
    <3>7. ~ jumbled' => \A d \in Client : IF estep'[d] = "get" THEN pair'[d][1] = irq
                                                              ELSE pair'[d][1] = pair'[d][2]
      BY <3>1, <3>2, <3>3 DEF ProcIInv
    <3> QED
      BY <2>0, <1>0, <3>4, <3>5, <3>6, <3>7 DEF ProcIInv
  <2>2. CASE /\ estep[c] = "get" /\ EStep(c, "user") /\ UNCHANGED jumbled
             /\ pair' = [pair EXCEPT ![c] = <<@[1], mode>>] \/ pair' = [pair EXCEPT ![c] = NoPair]
    <3>1. \A d \in Client : estep'[d] = IF d = c THEN "user" ELSE estep[d]
      BY <2>2, <1>0 DEF EStep
    <3>2. ~ jumbled => \A d \in Client : estep[d] # "set"
      BY <2>2 DEF ProcIInv, AtIt
    <3>3. ~ jumbled => irq = mode /\ pair[c][1] = irq
      BY <2>2, <3>2 DEF ProcIInv
    <3>4. \A d \in Client : IF d = c THEN pair'[d] \in {<<pair[c][1], mode>>, NoPair} ELSE pair'[d] = pair[d]
      BY <2>2, <1>0
    <3>5. pair[c][1] \in Setter
      BY <1>0
    <3>6. pair' \in [Client -> Setter \X Setter]
      BY <2>2, <1>0, <3>5 DEF NoPair
    <3>7. estep' \in [Client -> {"user", "set", "get"}]
      BY <2>2, <1>0 DEF EStep
    <3>8. ~ jumbled => \A d \in Client : IF estep'[d] = "get" THEN pair'[d][1] = irq
                                                             ELSE pair'[d][1] = pair'[d][2]
      BY <3>1, <3>3, <3>4 DEF ProcIInv, NoPair
    <3>9. ~ jumbled => \A d \in Client : estep'[d] # "set"
      BY <3>1, <3>2
    <3>10. jumbled' \in BOOLEAN /\ jumbled' = jumbled
      BY <2>2 DEF ProcIInv
    <3> QED
      BY <2>0, <1>0, <3>3, <3>6, <3>7, <3>8, <3>9, <3>10 DEF ProcIInv
  <2> QED
    BY <1>4, <2>1, <2>2 DEF myread
<1>5. CASE param_set_int
  BY <1>5, <1>0 DEF param_set_int, ProcIInv
<1>6. ASSUME NEW c \in Client, proc_open(c) \/ ReadOn(c)
      PROVE  ProcIInv'
  BY <1>1, <1>6 DEF proc_open, ReadOn, seq_read
<1>7. CASE UNCHANGED procvars
  BY <1>1, <1>7 DEF procvars
<1> QED
  BY <1>2, <1>3, <1>4, <1>5, <1>6, <1>7 DEF ProcNext

(* Until calls of ex5 overlap or one parameter is set by itself, irq and     *)
(* mode differ only inside a write.                                          *)
THEOREM ProcInvariance == ProcSpec => []ProcIInv
  BY ProcInitial, ProcInductive, PTL DEF ProcSpec

(* However many programs use /proc/mydev, a read returns the irq and the     *)
(* mode of one write unless calls overlap or a parameter is set by itself.   *)
THEOREM PairTheorem == ProcSpec => []PairNeedsOverlap
<1>1. ProcIInv => PairNeedsOverlap
  BY DEF ProcIInv, PairNeedsOverlap
<1> QED
  BY ProcInvariance, <1>1, PTL

-------------------------------------------------------------------------------
(* File positions. *)

(* What the handlers of ex27 make of a position: inside the buffer, the copy *)
(* ends at its end at the latest; beyond it, a request is not clamped.       *)
LEMMA BytesToDo ==
  ASSUME NEW pos \in Nat, NEW lbuf \in Nat, NEW n \in 0 .. bytes_to_do(pos, lbuf)
  PROVE  n \in Nat /\ (pos <= MAX_LENGTH => pos + n <= MAX_LENGTH)
  BY FilePositionAssumption DEF bytes_to_do

(* The position starts at 0, and so does the count of bytes. *)
LEMMA PosInitial == PosInit => PosIInv
<1> SUFFICES ASSUME PosInit
             PROVE  PosIInv
  OBVIOUS
<1>1. PosTypeOK
  <2>1. shared \in BOOLEAN /\ own \in [Thread -> BOOLEAN]
    BY DEF PosInit
  <2>2. f_pos \in 0 .. MAX_LENGTH /\ total \in Nat
    BY FilePositionAssumption DEF PosInit
  <2>3. /\ fstep \in [Thread -> {"user", "call", "ret"}]
        /\ ppos \in [Thread -> Nat] /\ lo \in [Thread -> Nat] /\ nbytes \in [Thread -> Nat]
    BY DEF PosInit
  <2> QED
    BY <2>1, <2>2, <2>3 DEF PosTypeOK
<1>2. PassedInv /\ SoleInv
  BY DEF PosInit, PassedInv, SoleInv, OnFile
<1>3. CopyInsideBuffer /\ PositionIsProgress
  BY FilePositionAssumption DEF PosInit, CopyInsideBuffer, PositionIsProgress
<1> QED
  BY <1>1, <1>2, <1>3 DEF PosIInv

(* The seek of ex14 always arrives at the end of the buffer.                 *)
LEMMA SeekKeeps ==
  ASSUME PosIInv, sample_char_drv_seek
  PROVE  PosIInv'
<1>1. f_pos' = MAX_LENGTH /\ which = "ex14"
  BY FilePositionAssumption DEF sample_char_drv_seek, Limited
<1>2. UNCHANGED <<which, fstep, ppos, own, lo, nbytes, total, shared>>
  BY DEF sample_char_drv_seek
<1>3. PosTypeOK'
  BY <1>1, <1>2, FilePositionAssumption DEF PosIInv, PosTypeOK
<1>4. PassedInv' /\ SoleInv'
  BY <1>1, <1>2 DEF PosIInv, PassedInv, SoleInv, OnFile
<1>5. CopyInsideBuffer' /\ PositionIsProgress'
  BY <1>1, <1>2, FilePositionAssumption DEF PosIInv, CopyInsideBuffer, PositionIsProgress
<1> QED
  BY <1>3, <1>4, <1>5 DEF PosIInv

(* A call begins: on f_pos, or with a position of the caller's.              *)
LEMMA CallKeeps ==
  ASSUME PosIInv, NEW t \in Thread, vfs_call(t)
  PROVE  PosIInv'
<1>0. /\ f_pos \in Nat /\ f_pos <= MAX_LENGTH
      /\ fstep[t] = "user" /\ UNCHANGED <<which, f_pos, lo, nbytes, total>>
      /\ fstep' \in [Thread -> {"user", "call", "ret"}]
      /\ \A u \in Thread : fstep'[u] = IF u = t THEN "call" ELSE fstep[u]
  BY FilePositionAssumption DEF vfs_call, PosIInv, PosTypeOK
<1>1. CASE /\ ppos' = [ppos EXCEPT ![t] = f_pos] /\ own' = [own EXCEPT ![t] = FALSE]
           /\ shared' = (shared \/ \E u \in Thread : fstep[u] # "user" /\ ~ own[u])
  <2>1. \A u \in Thread : ppos'[u] = IF u = t THEN f_pos ELSE ppos[u]
    BY <1>1 DEF PosIInv, PosTypeOK
  <2>2. ~ own'[t] /\ \A u \in Thread : u # t => own'[u] = own[u]
    BY <1>1 DEF PosIInv, PosTypeOK
  <2>3. OnFile(t)' /\ \A u \in Thread : u # t => (OnFile(u)' <=> OnFile(u))
    BY <1>0, <2>2 DEF OnFile
  <2>4. ~ shared' => ~ shared /\ \A u \in Thread : ~ OnFile(u)
    BY <1>1, Zenon DEF OnFile
  <2>5. shared' \in BOOLEAN /\ own' \in [Thread -> BOOLEAN]
    BY <1>1 DEF PosIInv, PosTypeOK
  <2>6. ppos' \in [Thread -> Nat]
    BY <1>1, <1>0 DEF PosIInv, PosTypeOK
  <2>7. PosTypeOK'
    BY <1>0, <2>5, <2>6 DEF PosIInv, PosTypeOK
  <2>8. PassedInv'
    BY <1>0, <2>1, <2>3 DEF PosIInv, PassedInv
  <2>9. SoleInv'
    BY <1>0, <2>1, <2>3, <2>4 DEF PosIInv, SoleInv
  <2>10. CopyInsideBuffer'
    BY <1>0, <2>2 DEF PosIInv, CopyInsideBuffer
  <2>11. PositionIsProgress'
    BY <1>0, <2>4 DEF PosIInv, PositionIsProgress
  <2> QED
    BY <2>7, <2>8, <2>9, <2>10, <2>11 DEF PosIInv
<1>2. CASE /\ \E n \in 0 .. MaxRequest : ppos' = [ppos EXCEPT ![t] = n]
           /\ own' = [own EXCEPT ![t] = TRUE] /\ UNCHANGED shared
  <2>1. PICK n \in 0 .. MaxRequest : ppos' = [ppos EXCEPT ![t] = n]
    BY <1>2
  <2>2. \A u \in Thread : u # t => ppos'[u] = ppos[u] /\ own'[u] = own[u]
    BY <1>2, <2>1 DEF PosIInv, PosTypeOK
  <2>3. own'[t]
    BY <1>2 DEF PosIInv, PosTypeOK
  <2>4. ~ OnFile(t)' /\ \A u \in Thread : u # t => (OnFile(u)' <=> OnFile(u))
    BY <1>0, <2>2, <2>3 DEF OnFile
  <2>5. own' \in [Thread -> BOOLEAN] /\ shared' \in BOOLEAN
    BY <1>2 DEF PosIInv, PosTypeOK
  <2>6. ppos' \in [Thread -> Nat]
    BY <2>1, FilePositionAssumption DEF PosIInv, PosTypeOK
  <2>7. PosTypeOK'
    BY <1>0, <2>5, <2>6 DEF PosIInv, PosTypeOK
  <2>8. PassedInv'
    BY <1>0, <2>2, <2>4 DEF PosIInv, PassedInv
  <2>9. SoleInv'
    BY <1>0, <1>2, <2>2, <2>4 DEF PosIInv, SoleInv
  <2>10. CopyInsideBuffer'
    BY <1>0, <2>2 DEF PosIInv, CopyInsideBuffer
  <2>11. PositionIsProgress'
    BY <1>0, <1>2 DEF PosIInv, PositionIsProgress
  <2> QED
    BY <2>7, <2>8, <2>9, <2>10, <2>11 DEF PosIInv
<1> QED
  BY <1>1, <1>2 DEF vfs_call

(* The handler copies from the position it was given.                        *)
LEMMA CopyKeeps ==
  ASSUME PosIInv, NEW t \in Thread, char_dev_copy(t)
  PROVE  PosIInv'
<1>0. PICK lbuf \in 0 .. MaxRequest : \E n \in 0 .. bytes_to_do(ppos[t], lbuf) :
        /\ lo' = [lo EXCEPT ![t] = ppos[t]] /\ nbytes' = [nbytes EXCEPT ![t] = n]
        /\ ppos' = [ppos EXCEPT ![t] = @ + n]
  BY DEF char_dev_copy
<1>1. PICK n \in 0 .. bytes_to_do(ppos[t], lbuf) :
        /\ lo' = [lo EXCEPT ![t] = ppos[t]] /\ nbytes' = [nbytes EXCEPT ![t] = n]
        /\ ppos' = [ppos EXCEPT ![t] = @ + n]
  BY <1>0
<1>2. ppos[t] \in Nat /\ lbuf \in Nat
  BY FilePositionAssumption DEF PosIInv, PosTypeOK
<1>3. n \in Nat /\ (ppos[t] <= MAX_LENGTH => ppos[t] + n <= MAX_LENGTH)
  BY <1>2, BytesToDo
<1>4. fstep[t] = "call" /\ UNCHANGED <<which, f_pos, own, total, shared>>
  BY DEF char_dev_copy
<1>5. \A u \in Thread : /\ fstep'[u] = IF u = t THEN "ret" ELSE fstep[u]
                        /\ lo'[u] = IF u = t THEN ppos[t] ELSE lo[u]
                        /\ nbytes'[u] = IF u = t THEN n ELSE nbytes[u]
                        /\ ppos'[u] = IF u = t THEN ppos[t] + n ELSE ppos[u]
  BY <1>1 DEF char_dev_copy, PosIInv, PosTypeOK
<1>6. \A u \in Thread : OnFile(u)' <=> OnFile(u)
  BY <1>4, <1>5 DEF OnFile
<1>7. ppos[t] + n \in Nat
  BY <1>2, <1>3
<1>8. PosTypeOK'
  <2>1. lo' \in [Thread -> Nat] /\ nbytes' \in [Thread -> Nat] /\ ppos' \in [Thread -> Nat]
    BY <1>1, <1>2, <1>3, <1>7 DEF PosIInv, PosTypeOK
  <2>2. fstep' \in [Thread -> {"user", "call", "ret"}]
    BY DEF char_dev_copy, PosIInv, PosTypeOK
  <2> QED
    BY <1>4, <2>1, <2>2 DEF PosIInv, PosTypeOK
<1>9. PassedInv'
  BY <1>3, <1>5, <1>6 DEF PosIInv, PassedInv
<1>10. SoleInv'
  BY <1>4, <1>5, <1>6 DEF PosIInv, SoleInv
<1>11. CopyInsideBuffer'
  <2>1. OnFile(t) => ppos[t] <= MAX_LENGTH
    BY DEF PosIInv, PassedInv
  <2>2. ~ OnFile(t) => own[t]
    BY <1>4 DEF OnFile
  <2>3. ppos[t] <= MAX_LENGTH \/ ppos[t] > MAX_LENGTH
    BY <1>2, FilePositionAssumption
  <2> QED
    BY <1>3, <1>4, <1>5, <2>1, <2>2, <2>3 DEF PosIInv, CopyInsideBuffer
<1>12. PositionIsProgress'
  BY <1>4 DEF PosIInv, PositionIsProgress
<1> QED
  BY <1>8, <1>9, <1>10, <1>11, <1>12 DEF PosIInv

(* The call returns, and f_pos becomes what it made of its copy of it.       *)
LEMMA ReturnKeeps ==
  ASSUME PosIInv, NEW t \in Thread, vfs_return(t)
  PROVE  PosIInv'
<1>0. /\ fstep[t] = "ret" /\ UNCHANGED <<which, shared>>
      /\ fstep' = [fstep EXCEPT ![t] = "user"]
      /\ ppos' = [ppos EXCEPT ![t] = 0] /\ lo' = [lo EXCEPT ![t] = 0]
      /\ nbytes' = [nbytes EXCEPT ![t] = 0] /\ own' = [own EXCEPT ![t] = FALSE]
  BY DEF vfs_return
<1>1. \A u \in Thread : u # t => /\ fstep'[u] = fstep[u] /\ ppos'[u] = ppos[u]
                                 /\ lo'[u] = lo[u] /\ nbytes'[u] = nbytes[u] /\ own'[u] = own[u]
  BY <1>0 DEF PosIInv, PosTypeOK
<1>2. fstep'[t] = "user" /\ ~ OnFile(t)' /\ \A u \in Thread : u # t => (OnFile(u)' <=> OnFile(u))
  BY <1>0, <1>1 DEF PosIInv, PosTypeOK, OnFile
<1>3. PassedInv'
  BY <1>1, <1>2 DEF PosIInv, PassedInv
<1>4. /\ ppos[t] \in Nat /\ nbytes[t] \in Nat /\ lo[t] \in Nat /\ total \in Nat
      /\ f_pos \in 0 .. MAX_LENGTH
  BY DEF PosIInv, PosTypeOK
<1>5. CASE own[t]
  <2>1. UNCHANGED <<f_pos, total>>
    BY <1>5 DEF vfs_return
  <2>2. PosTypeOK'
    BY <1>0, <2>1 DEF PosIInv, PosTypeOK
  <2>3. SoleInv'
    BY <1>0, <1>1, <1>2, <2>1 DEF PosIInv, SoleInv
  <2>4. CopyInsideBuffer'
    BY <1>1, <1>2, <2>1 DEF PosIInv, CopyInsideBuffer
  <2>5. PositionIsProgress'
    BY <1>0, <2>1 DEF PosIInv, PositionIsProgress
  <2> QED
    BY <1>3, <2>2, <2>3, <2>4, <2>5 DEF PosIInv
<1>6. CASE ~ own[t]
  <2>1. f_pos' = ppos[t] /\ total' = IF shared THEN 0 ELSE total + nbytes[t]
    BY <1>6 DEF vfs_return
  <2>2. OnFile(t)
    BY <1>0, <1>6 DEF OnFile
  <2>3. ppos[t] <= MAX_LENGTH /\ ppos[t] = lo[t] + nbytes[t]
    BY <1>0, <2>2 DEF PosIInv, PassedInv
  <2>4. f_pos' \in 0 .. MAX_LENGTH
    BY <1>4, <2>1, <2>3, FilePositionAssumption
  <2>5. total' \in Nat
    BY <1>4, <2>1
  <2>6. PosTypeOK'
    BY <1>0, <2>4, <2>5 DEF PosIInv, PosTypeOK
  <2>7. which = "ex27" /\ ~ shared => f_pos = lo[t] /\ f_pos = total
    BY <1>0, <2>2 DEF PosIInv, SoleInv, PositionIsProgress
  <2>8. which = "ex27" /\ ~ shared => \A u \in Thread : ~ OnFile(u)'
    BY <1>2, <2>2 DEF PosIInv, SoleInv
  <2>9. SoleInv'
    BY <1>0, <2>8 DEF SoleInv
  <2>10. CopyInsideBuffer'
    BY <1>1, <1>2, <2>4 DEF PosIInv, CopyInsideBuffer
  <2>11. which = "ex27" /\ ~ shared => f_pos' = total'
    BY <1>4, <2>1, <2>3, <2>7
  <2>12. PositionIsProgress'
    BY <1>0, <2>11 DEF PositionIsProgress
  <2> QED
    BY <1>3, <2>6, <2>9, <2>10, <2>12 DEF PosIInv
<1> QED
  BY <1>5, <1>6

(* Every step of a seek, a read or a write keeps the invariant. *)
LEMMA PosInductive == PosIInv /\ [PosNext]_posvars => PosIInv'
<1> SUFFICES ASSUME PosIInv, [PosNext]_posvars
             PROVE  PosIInv'
  OBVIOUS
<1>1. CASE UNCHANGED posvars
  <2> USE <1>1 DEF posvars
  <2>1. PosTypeOK'
    BY DEF PosIInv, PosTypeOK
  <2>2. PassedInv' /\ SoleInv'
    BY DEF PosIInv, PassedInv, SoleInv, OnFile
  <2>3. CopyInsideBuffer' /\ PositionIsProgress'
    BY DEF PosIInv, CopyInsideBuffer, PositionIsProgress
  <2> QED
    BY <2>1, <2>2, <2>3 DEF PosIInv
<1> QED
  BY <1>1, SeekKeeps, CallKeeps, CopyKeeps, ReturnKeeps DEF PosNext

(* The position that a call of ex27 or ex14 works on lies in the buffer, and *)
(* a call that has the file to itself was given the position that is there.  *)
THEOREM PosInvariance == PosSpec => []PosIInv
  BY PosInitial, PosInductive, PTL DEF PosSpec

(* For any number of threads on one file and any buffer length, f_pos stays  *)
(* in the buffer and every copy but that of a pread or pwrite from beyond    *)
(* the end stays in it too.                                                  *)
THEOREM CopyTheorem == PosSpec => []CopyInsideBuffer
<1>1. PosIInv => CopyInsideBuffer
  BY DEF PosIInv
<1> QED
  BY PosInvariance, <1>1, PTL

(* As long as no two calls on the file overlap, f_pos counts the bytes that  *)
(* were moved.                                                               *)
THEOREM ProgressTheorem == PosSpec => []PositionIsProgress
<1>1. PosIInv => PositionIsProgress
  BY DEF PosIInv
<1> QED
  BY PosInvariance, <1>1, PTL

-------------------------------------------------------------------------------
(* The locks of ex3, ex8 and ex11. *)

(* Nobody holds the lock and every cell is blank at first. *)
LEMMA LockInitial == LockInit => LockIInv
<1> SUFFICES ASSUME LockInit
             PROVE  LockIInv
  OBVIOUS
<1>1. LockTypeOK
  BY CharDrvLocksAssumption DEF LockInit, LockTypeOK, Zeroes, Source
<1>2. Inside = {} /\ ~ raced /\ \A p \in Task : done[p] = 0
  BY DEF LockInit, Inside
<1>3. HoldInv /\ CopyInv
  BY <1>2 DEF HoldInv, CopyInv
<1>4. MixtureNeedsRace
  BY <1>2 DEF MixtureNeedsRace
<1> QED
  BY <1>1, <1>3, <1>4 DEF LockIInv

(* A step that leaves the buffer, the lock and the calls inside alone.       *)
LEMMA AsideKeeps ==
  ASSUME LockIInv, LockTypeOK', Inside' = Inside,
         UNCHANGED <<driver, mem, lock, done, got, snap, raced>>,
         \A p \in Task : p \in Inside => call'[p] = call[p]
  PROVE  LockIInv'
<1>1. \A p \in Inside : Locks(p)' <=> Locks(p)
  BY DEF Locks, Inside
<1>2. HoldInv'
  BY <1>1 DEF LockIInv, HoldInv
<1>3. CopyInv'
  BY DEF LockIInv, CopyInv, Inside
<1>4. MixtureNeedsRace'
  <2> SUFFICES ASSUME NEW p \in Task, call'[p] = "read", ~ raced, NEW c \in 1 .. done[p]
               PROVE  got[p][c] = snap[p][c]
    BY DEF LockIInv, MixtureNeedsRace
  <2>1. p \in Inside
    BY DEF LockIInv, CopyInv
  <2> QED
    BY <2>1 DEF LockIInv, MixtureNeedsRace
<1> QED
  BY <1>2, <1>3, <1>4 DEF LockIInv

(* A call that begins beside one that stores, or stores beside another one,  *)
(* is a race or would wait for the lock.                                     *)
LEMMA BeginKeeps ==
  ASSUME LockIInv, NEW p \in Task, Begin(p)
  PROVE  LockIInv'
<1>0. job[p] = "lock" /\ UNCHANGED <<driver, mem, call, fill, done, got>>
  BY DEF Begin
<1>1. p \notin Inside /\ done[p] = 0
  BY <1>0 DEF LockIInv, CopyInv, Inside
<1>2. Inside' = Inside \cup {p}
  BY DEF Begin, Go, LockIInv, LockTypeOK, Inside
<1>3. \A q \in Task : snap'[q] = IF q = p THEN mem ELSE snap[q]
  BY DEF Begin, LockIInv, LockTypeOK
<1>4. ~ raced' => ~ raced /\ ~ Clash(p)
  BY Zenon DEF Begin
<1>5. raced' => raced \/ Clash(p)
  BY Zenon DEF Begin
<1>6. IF Locks(p) THEN lock = NoTask /\ lock' = p ELSE UNCHANGED lock
  BY DEF Begin
<1>7. LockTypeOK'
  <2>1. job' \in [Task -> {"user", "lock", "copy", "asleep"}]
    BY DEF Begin, Go, LockIInv, LockTypeOK
  <2>2. snap' \in [Task -> [Cell -> Source]]
    BY DEF Begin, LockIInv, LockTypeOK
  <2>3. lock' \in Source
    BY <1>6 DEF LockIInv, LockTypeOK, Source
  <2> QED
    BY <1>0, <2>1, <2>2, <2>3 DEF LockIInv, LockTypeOK
<1>8. Locks(p) => \A q \in Inside : ~ Locks(q)
  BY <1>6, CharDrvLocksAssumption DEF LockIInv, HoldInv, Inside
<1>9. \A q \in Task : Locks(q)' <=> Locks(q)
  BY <1>0 DEF Locks
<1>10. HoldInv'
  <2>1. \A q \in Inside' : q \in Task
    BY <1>2 DEF Inside
  <2> QED
    BY <1>2, <1>6, <1>8, <1>9, <2>1 DEF LockIInv, HoldInv
<1>11. ~ raced' => \A q \in Inside : call[p] = "read" /\ call[q] = "read"
  BY <1>1, <1>4, <1>8 DEF Clash
<1>12. CopyInv'
  <2>1. \A q \in Task \ Inside' : done'[q] = 0
    BY <1>0, <1>2 DEF LockIInv, CopyInv
  <2>2. ~ raced' => \A q, r \in Inside' : q # r => call'[q] = "read"
    BY <1>0, <1>2, <1>4, <1>11 DEF LockIInv, CopyInv
  <2>3. ~ raced' => \A q \in Inside' : call'[q] = "read" => mem' = snap'[q]
    BY <1>0, <1>2, <1>3, <1>4 DEF LockIInv, CopyInv, Inside
  <2> QED
    BY <2>1, <2>2, <2>3 DEF CopyInv
<1>13. raced' => driver # "ex8"
  BY <1>5 DEF Clash, Locks, LockIInv, MixtureNeedsRace
<1>14. MixtureNeedsRace'
  <2> SUFFICES ASSUME NEW q \in Task, call[q] = "read", ~ raced', NEW c \in 1 .. done[q]
               PROVE  got[q][c] = snap'[q][c]
    BY <1>0, <1>13 DEF MixtureNeedsRace
  <2>1. q # p
    BY <1>1
  <2> QED
    BY <1>3, <1>4, <2>1 DEF LockIInv, MixtureNeedsRace
<1> QED
  BY <1>7, <1>10, <1>12, <1>14 DEF LockIInv

(* One cell: a read copies what was there when it began, and a call that     *)
(* stores is alone.                                                          *)
LEMMA CellKeeps ==
  ASSUME LockIInv, NEW p \in Task, OneCell(p), p \in Inside, Inside' = Inside,
         job' \in [Task -> {"user", "lock", "copy", "asleep"}]
  PROVE  LockIInv'
<1> DEFINE c == done[p] + 1
<1>0. c \in Cell /\ UNCHANGED <<driver, lock, call, fill, snap, raced>>
  BY DEF OneCell
<1>1. done[p] \in 0 .. NCell /\ done' = [done EXCEPT ![p] = c]
  BY DEF OneCell, LockIInv, LockTypeOK
<1>2. c \in 0 .. NCell /\ 1 .. c = (1 .. done[p]) \cup {c}
  BY <1>0, <1>1, CharDrvLocksAssumption DEF Cell
<1> HIDE DEF c
<1>3. \A q \in Task : done'[q] = IF q = p THEN c ELSE done[q]
  BY <1>1 DEF LockIInv, LockTypeOK
<1>4. HoldInv'
  BY <1>0 DEF LockIInv, HoldInv, Locks
<1>5. raced => driver # "ex8"
  BY DEF LockIInv, MixtureNeedsRace
<1>6. CASE call[p] = "read" /\ got' = [got EXCEPT ![p][c] = mem[c]] /\ UNCHANGED mem
  <2>1. mem[c] \in Source
    BY <1>0 DEF LockIInv, LockTypeOK
  <2>2. got' \in [Task -> [Cell -> Source]]
    BY <1>6, <2>1 DEF LockIInv, LockTypeOK
  <2>3. LockTypeOK'
    BY <1>0, <1>1, <1>2, <1>6, <2>2 DEF LockIInv, LockTypeOK
  <2>4. CopyInv'
    BY <1>0, <1>3, <1>6 DEF LockIInv, CopyInv
  <2>5. /\ \A q \in Task : q # p => got'[q] = got[q]
        /\ \A x \in Cell : got'[p][x] = IF x = c THEN mem[c] ELSE got[p][x]
    BY <1>6 DEF LockIInv, LockTypeOK
  <2>6. MixtureNeedsRace'
    <3> SUFFICES ASSUME NEW q \in Task, call[q] = "read", ~ raced, NEW x \in 1 .. done'[q]
                 PROVE  got'[q][x] = snap[q][x]
      BY <1>0, <1>5 DEF MixtureNeedsRace
    <3>1. CASE q # p
      BY <1>3, <2>5, <3>1 DEF LockIInv, MixtureNeedsRace
    <3>2. CASE q = p /\ x # c
      <4>1. x \in 1 .. done[p]
        BY <1>2, <1>3, <3>2
      <4>2. x \in Cell
        BY <1>1, <4>1, CharDrvLocksAssumption DEF Cell
      <4> QED
        BY <2>5, <3>2, <4>1, <4>2 DEF LockIInv, MixtureNeedsRace
    <3>3. CASE q = p /\ x = c
      BY <1>0, <2>5, <3>3 DEF LockIInv, CopyInv
    <3> QED
      BY <3>1, <3>2, <3>3
  <2> QED
    BY <1>4, <2>3, <2>4, <2>6 DEF LockIInv
<1>7. CASE call[p] # "read" /\ mem' = [mem EXCEPT ![c] = fill[p]] /\ UNCHANGED got
  <2>1. LockTypeOK'
    BY <1>0, <1>1, <1>2, <1>7 DEF LockIInv, LockTypeOK
  <2>2. ~ raced => \A q \in Inside : q = p
    BY <1>7 DEF LockIInv, CopyInv
  <2>3. CopyInv'
    BY <1>0, <1>3, <1>7, <2>2 DEF LockIInv, CopyInv
  <2>4. MixtureNeedsRace'
    BY <1>0, <1>3, <1>5, <1>7 DEF LockIInv, MixtureNeedsRace
  <2> QED
    BY <1>4, <2>1, <2>3, <2>4 DEF LockIInv
<1> QED
  BY <1>6, <1>7 DEF OneCell, c

(* A call that returns gives back its own lock and nobody else's.            *)
LEMMA UnlockKeeps ==
  ASSUME LockIInv, NEW p \in Task, unlock(p)
  PROVE  LockIInv'
<1>0. /\ UNCHANGED <<driver, mem, call, raced>>
      /\ lock' = IF lock = p THEN NoTask ELSE lock
      /\ job' = [job EXCEPT ![p] = "user"] /\ done' = [done EXCEPT ![p] = 0]
      /\ fill' = [fill EXCEPT ![p] = NoTask]
      /\ got' = [got EXCEPT ![p] = Zeroes] /\ snap' = [snap EXCEPT ![p] = Zeroes]
  BY DEF unlock, Back, Go
<1>1. LockTypeOK'
  <2>1. Zeroes \in [Cell -> Source] /\ NoTask \in Source /\ 0 \in 0 .. NCell
    BY CharDrvLocksAssumption DEF Zeroes, Source
  <2> QED
    BY <1>0, <2>1 DEF LockIInv, LockTypeOK
<1>2. Inside' = Inside \ {p}
  BY <1>0 DEF LockIInv, LockTypeOK, Inside
<1>3. \A q \in Task : /\ done'[q] = IF q = p THEN 0 ELSE done[q]
                      /\ q # p => got'[q] = got[q] /\ snap'[q] = snap[q]
  BY <1>0 DEF LockIInv, LockTypeOK
<1>4. HoldInv'
  BY <1>0, <1>2 DEF LockIInv, HoldInv, Locks
<1>5. CopyInv'
  <2>1. \A q \in Inside' : q \in Task /\ q \in Inside /\ q # p
    BY <1>2 DEF Inside
  <2>2. \A q \in Task \ Inside' : done'[q] = 0
    BY <1>2, <1>3 DEF LockIInv, CopyInv
  <2> QED
    BY <1>0, <1>3, <2>1, <2>2 DEF LockIInv, CopyInv
<1>6. MixtureNeedsRace'
  BY <1>0, <1>3 DEF LockIInv, MixtureNeedsRace
<1> QED
  BY <1>1, <1>4, <1>5, <1>6 DEF LockIInv

(* Every step of the handlers and the scheduler keeps the invariant. *)
LEMMA LockInductive == LockIInv /\ [LockNext]_lockvars => LockIInv'
<1> SUFFICES ASSUME LockIInv, [LockNext]_lockvars
             PROVE  LockIInv'
  OBVIOUS
<1>1. ASSUME NEW p \in Task, NEW o \in {"read", "write", "ioctl"}, LockEnter(p, o)
      PROVE  LockIInv'
  <2>1. PICK f \in {p, NoTask} : fill' = [fill EXCEPT ![p] = f]
    BY <1>1 DEF LockEnter
  <2>2. LockTypeOK'
    BY <1>1, <2>1 DEF LockEnter, Go, LockIInv, LockTypeOK, Source
  <2>3. Inside' = Inside
    BY <1>1 DEF LockEnter, Go, LockIInv, LockTypeOK, Inside
  <2>4. \A q \in Task : q \in Inside => call'[q] = call[q]
    BY <1>1 DEF LockEnter, LockIInv, LockTypeOK, Inside
  <2>5. UNCHANGED <<driver, mem, lock, done, got, snap, raced>>
    BY <1>1 DEF LockEnter
  <2> QED
    BY <2>2, <2>3, <2>4, <2>5, AsideKeeps
<1>2. ASSUME NEW p \in Task, Block(p)
      PROVE  LockIInv'
  <2>1. UNCHANGED <<driver, mem, lock, job, call, fill, done, got, snap, raced>>
    BY <1>2 DEF Block
  <2>2. LockTypeOK' /\ Inside' = Inside
    BY <2>1 DEF LockIInv, LockTypeOK, Inside
  <2> QED
    BY <2>1, <2>2, AsideKeeps
<1>3. ASSUME NEW p \in Task, CopyCell(p)
      PROVE  LockIInv'
  <2>1. p \in Inside /\ Inside' = Inside /\ job' \in [Task -> {"user", "lock", "copy", "asleep"}]
    BY <1>3 DEF CopyCell, LockIInv, LockTypeOK, Inside
  <2> QED
    BY <1>3, <2>1, CellKeeps DEF CopyCell
<1>4. ASSUME NEW p \in Task, PageIn(p)
      PROVE  LockIInv'
  <2>1. p \in Inside /\ Inside' = Inside /\ job' \in [Task -> {"user", "lock", "copy", "asleep"}]
    BY <1>4 DEF PageIn, Go, LockIInv, LockTypeOK, Inside
  <2> QED
    BY <1>4, <2>1, CellKeeps DEF PageIn
<1>5. ASSUME NEW p \in Task, Fault(p)
      PROVE  LockIInv'
  <2>1. UNCHANGED <<driver, mem, lock, call, fill, done, got, snap, raced>>
    BY <1>5 DEF Fault
  <2>2. LockTypeOK' /\ Inside' = Inside
    BY <1>5, <2>1 DEF Fault, Go, LockIInv, LockTypeOK, Inside
  <2> QED
    BY <2>1, <2>2, AsideKeeps
<1>6. CASE UNCHANGED lockvars
  <2>1. LockTypeOK' /\ Inside' = Inside
    BY <1>6 DEF lockvars, LockIInv, LockTypeOK, Inside
  <2> QED
    BY <1>6, <2>1, AsideKeeps DEF lockvars
<1>7. ASSUME NEW p \in Task, Begin(p) \/ unlock(p)
      PROVE  LockIInv'
  BY <1>7, BeginKeeps, UnlockKeeps
<1> QED
  BY <1>1, <1>2, <1>3, <1>4, <1>5, <1>6, <1>7 DEF LockNext

(* Calls of ex8 and ex11 that lock hold the lock while they copy, and until  *)
(* a call races, a read finds the buffer as it was when its copy began.      *)
THEOREM LockInvariance == LockSpec => []LockIInv
  BY LockInitial, LockInductive, PTL DEF LockSpec

(* With any number of processes, CPUs and cells, a read that nothing         *)
(* overlaps without the lock returns the buffer as it was when it began, and *)
(* under ex8's spinlock every read is one.                                   *)
THEOREM MixtureTheorem == LockSpec => []MixtureNeedsRace
<1>1. LockIInv => MixtureNeedsRace
  BY DEF LockIInv
<1> QED
  BY LockInvariance, <1>1, PTL


(* When a process sleeps with ex8's spinlock and every CPU spins, nobody     *)
(* enters, gets the lock, copies or comes back: who is inside holds the lock *)
(* and that one sleeps.                                                      *)
LEMMA NobodyMoves ==
  ASSUME LockIInv, LockNext
  PROVE  ~ SpinDeadlock
<1> SUFFICES ASSUME SpinDeadlock PROVE FALSE
  OBVIOUS
<1>1. PICK p \in Task : \/ \E o \in {"read", "write", "ioctl"} : LockEnter(p, o)
                        \/ Block(p) \/ Begin(p) \/ CopyCell(p) \/ Fault(p) \/ PageIn(p) \/ unlock(p)
  BY DEF LockNext
<1>2. lock # NoTask /\ job[lock] = "asleep" /\ driver = "ex8" /\ ~ FreeCpu /\ Locks(p)
  BY DEF SpinDeadlock, Locks
<1>3. ASSUME job[p] = "copy" PROVE FALSE
  BY <1>2, <1>3 DEF LockIInv, HoldInv, Inside
<1>4. ~ LockEnter(p, "read") /\ ~ LockEnter(p, "write") /\ ~ LockEnter(p, "ioctl") /\ ~ PageIn(p)
  BY <1>2 DEF LockEnter, PageIn
<1>5. ~ Block(p) /\ ~ Begin(p)
  BY <1>2 DEF Block, Begin
<1>6. ~ CopyCell(p) /\ ~ Fault(p) /\ ~ unlock(p)
  BY <1>3 DEF CopyCell, Fault, unlock
<1> QED
  BY <1>1, <1>4, <1>5, <1>6

(* The deadlock of ex8 that WaitersReturn excepts is final, with any number  *)
(* of processes and CPUs.                                                    *)
THEOREM SpinTheorem == LockSpec => SpinDeadlockIsFinal
<1>1. LockIInv /\ [LockNext]_lockvars => [~ SpinDeadlock]_lockvars
  BY NobodyMoves
<1> QED
  BY <1>1, LockInvariance, PTL DEF LockSpec, SpinDeadlockIsFinal
===============================================================================
