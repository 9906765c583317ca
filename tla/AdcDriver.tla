------------------------------- MODULE AdcDriver -------------------------------
(***************************************************************************)
(* The ADC driver (src/day_14/ex31.c): read takes adc_lock, starts a       *)
(* conversion, polls the control register until it is done and returns the *)
(* value as text.  (ModuleLoad has its loading and unloading.)             *)
(***************************************************************************)
EXTENDS Integers

CONSTANTS
  Reader,     \* processes that read the device
  NoReader    \* nobody

ASSUME AdcAssumption == NoReader \notin Reader

VARIABLES
  adc_lock,   \* the holder of the semaphore
  astep,      \* where each process is
  ADCCON,     \* the control register
  signalled   \* processes with a signal pending

adcvars == <<adc_lock, astep, ADCCON, signalled>>

ADC_CON_EN_START == 1
ADC_CON_SELMUX(x) == x * 8        \* x << 3
EndOfConversion == 32768          \* 1 << 15

AdcInit ==
  /\ adc_lock = NoReader /\ astep = [r \in Reader |-> "user"]
  /\ ADCCON = 0 /\ signalled = {}

AStep(r, l) == astep' = [astep EXCEPT ![r] = l]

(* The hardware finishes a conversion. *)
Convert ==
  /\ ADCCON % 2 = ADC_CON_EN_START
  /\ ADCCON' = ADC_CON_SELMUX(1) + EndOfConversion
  /\ UNCHANGED <<adc_lock, astep, signalled>>

Signal(r) ==
  /\ r \notin signalled /\ signalled' = signalled \cup {r}
  /\ UNCHANGED <<adc_lock, astep, ADCCON>>

(* Mutant: the result is ignored, an interrupted wait goes on without the lock. *)
down_interruptible_Ignored(r) ==
  /\ astep[r] = "down" /\ AStep(r, "start")
  /\ \/ adc_lock = NoReader /\ adc_lock' = r /\ UNCHANGED signalled
     \/ r \in signalled /\ signalled' = signalled \ {r} /\ UNCHANGED adc_lock

(* The lock, or a signal and -ERESTARTSYS *)
down_interruptible(r) ==
  /\ astep[r] = "down"
  /\ \/ adc_lock = NoReader /\ adc_lock' = r /\ AStep(r, "start") /\ UNCHANGED signalled
     \/ r \in signalled /\ signalled' = signalled \ {r} /\ AStep(r, "user") /\ UNCHANGED adc_lock

(* (readl(ADCCON) & (1<<15)) != 1 repeats the loop. *)
Done == (ADCCON \div EndOfConversion) * EndOfConversion = 1

adc_char_drv_read(r) ==
  \/ /\ astep[r] = "user" /\ AStep(r, "down")
     /\ UNCHANGED <<adc_lock, ADCCON, signalled>>
  \/ /\ down_interruptible(r) /\ UNCHANGED ADCCON
  \/ /\ astep[r] = "start" /\ AStep(r, "poll")
     /\ ADCCON' = ADC_CON_SELMUX(1) + ADC_CON_EN_START
     /\ UNCHANGED <<adc_lock, signalled>>
  \/ /\ astep[r] = "poll" /\ ~ Done
     /\ UNCHANGED adcvars
  \/ /\ astep[r] = "poll" /\ Done                 \* the text is copied out whole; up
     /\ adc_lock' = NoReader /\ AStep(r, "user")
     /\ UNCHANGED <<ADCCON, signalled>>

AdcNext == Convert \/ \E r \in Reader : Signal(r) \/ adc_char_drv_read(r)

AdcSpec == AdcInit /\ [][AdcNext]_adcvars

(* The hardware ends its conversions and a reader inside the driver runs on. *)
FairAdcSpec ==
  /\ AdcSpec
  /\ WF_adcvars(Convert)
  /\ \A r \in Reader : WF_adcvars(adc_char_drv_read(r) /\ astep[r] # "user")
-------------------------------------------------------------------------------
(* No reader starts a conversion while another waits for its own: a signal   *)
(* that ends the wait for adc_lock ends the read too (ex31.c:61).            *)
OneConversion ==
  \A r, q \in Reader : astep[r] \in {"start", "poll"} /\ astep[q] \in {"start", "poll"} => r = q

(* A read that has started a conversion returns, as the loop's "check for    *)
(* adc done" (ex31.c:71) says and day_14/test.c, which prints the count and  *)
(* the text it read, expects.  Violated: see PollNeverEnds.                  *)
ReadReturns == \A r \in Reader : astep[r] = "poll" ~> astep[r] = "user"

(* What the code does instead: a read that has started a conversion never    *)
(* ends, even when the conversion is done, because the loop compares bit 15  *)
(* with 1.  adc_lock is taken once and never given back.                     *)
PollNeverEnds == [][\A r \in Reader : astep[r] = "poll" => astep'[r] = "poll" /\ adc_lock' = r]_adcvars
-------------------------------------------------------------------------------
(* The inductive invariant: the values that the register takes, and the      *)
(* holder of adc_lock.                                                       *)
AdcIInv ==
  /\ ADCCON \in {0, ADC_CON_SELMUX(1) + ADC_CON_EN_START, ADC_CON_SELMUX(1) + EndOfConversion}
  /\ astep \in [Reader -> {"user", "down", "start", "poll"}]
  /\ \A r \in Reader : astep[r] \in {"start", "poll"} => adc_lock = r
================================================================================
