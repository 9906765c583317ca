------------------------------ MODULE LoadProofs ------------------------------
(***************************************************************************)
(* Proofs about what comes and goes: the modules with their deferred       *)
(* functions, for any number of open files; the drivers of the device      *)
(* model, the ldd bus (ex24 to ex26), the PCI driver (ex22) and the USB    *)
(* driver (ex23), for any number of devices, BARs and processes.           *)
(***************************************************************************)
EXTENDS DeferredWork, LddBus, PciDriver, UsbDriver, TLAPS

-------------------------------------------------------------------------------
(* The scripts: what each of the 27 pairs of init and exit has to satisfy by  *)
(* itself, whatever happens when it is run.                                   *)

(* path releases, after the first k - 1 steps of init, only what these steps *)
(* acquired, none of it twice, and leaves nothing but the known leaks, be it *)
(* of these steps or what the failed one has left.                           *)
Way(d, s, k, left, path) ==
  /\ \A j \in DOMAIN path : path[j] \in Resource(s) /\ (path[j] = "my_timer" => d = "ex15")
  /\ d \notin Unchecked =>
       \A j \in DOMAIN path :
         \/ path[j] \in Tolerant
         \/ /\ path[j] \in Secured(s, k) \/ (d = "ex17" /\ path[j] = "wq" /\ k > 2)
            /\ \A h \in 1 .. j - 1 : path[h] # path[j]
  /\ \A r \in Tried(s, k) \cup left :
       \/ \E j \in DOMAIN path : path[j] = r
       \/ r \in Static \cup KnownLeak(d) /\ (r \in Functions => d = "ex16")

(* The releases of the error labels. *)
Labels == {<<>>, <<"region">>, <<"cdev", "region">>, <<"data">>, <<"blkdev", "data">>,
           <<"tty_driver_struct">>}

Unwinds(d, s) ==
  \A k \in 1 .. Len(s.init) :
    s.init[k].fail = "unwind" =>
      s.init[k].undo \in Labels /\ Way(d, s, k, s.init[k].left, s.init[k].undo)
Exits(d, s) == s.exit \in Seq(Resource(s)) /\ Way(d, s, Len(s.init) + 1, {}, s.exit)

(* After init the handlers find what they need; an example that publishes    *)
(* last has it, and cannot fail any more, from that step on.                 *)
Ready(d, s) ==
  /\ d \notin Unchecked => s.needs \subseteq Secured(s, Len(s.init) + 1)
  /\ d \in PublishLast =>
       \A k \in 1 .. Len(s.init) + 1 : s.public \in Tried(s, k) =>
         s.needs \subseteq Secured(s, k) /\ (k <= Len(s.init) => s.init[k].fail # "unwind")
  /\ d \in PublishLast => \A k \in 1 .. Len(s.init) : s.public \notin s.init[k].left

Sound(d, s) == Len(s.init) \in Nat /\ Exits(d, s) /\ Unwinds(d, s) /\ Ready(d, s)

(* A label is a sequence over whatever its entries are taken from. *)
LEMMA LabelsAreSequences ==
  ASSUME NEW path \in Labels, NEW S, \A j \in DOMAIN path : path[j] \in S
  PROVE path \in Seq(S)
<1>1. CASE path = <<>>
  BY <1>1
<1>2. ASSUME NEW r, path = <<r>> PROVE path \in Seq(S)
  <2>1. r \in S
    BY <1>2
  <2> QED
    BY <2>1, <1>2
<1>3. ASSUME NEW q, NEW r, path = <<q, r>> PROVE path \in Seq(S)
  <2>1. r \in S /\ q \in S
    BY <1>3
  <2> QED
    BY <2>1, <1>3
<1> QED
  BY <1>1, <1>2, <1>3 DEF Labels

(* The steps that follow the four common ones in a sample char driver. *)
SureStep == {Sure(r) : r \in Static \ Functions}
CharNames == {"ex3", "ex4", "ex7", "ex8", "ex9", "ex10", "ex11", "ex12", "ex13", "ex14"}

(* The sample char drivers are sound, whatever objects they set up last. *)
LEMMA CharSound ==
  ASSUME NEW d \in CharNames, NEW more \in Seq(SureStep), NEW uses,
         uses \subseteq {more[j].res : j \in DOMAIN more}
  PROVE  Sound(d, CharDrv(more, uses))
<1> DEFINE s == CharDrv(more, uses)
<1> DEFINE n == 4 + Len(more)
<1>1. /\ Len(s.init) = n /\ n \in Nat /\ Len(more) \in Nat
      /\ s.init[1] = Check("region", <<>>) /\ s.init[2] = Check("cdev_struct", <<"region">>)
      /\ s.init[3] = Check("cdev", <<"cdev", "region">>)
      /\ s.init[4] = Check("buffer", <<"cdev", "region">>)
      /\ s.exit = <<"cdev", "region", "buffer">> /\ s.needs = {"buffer"} \cup uses
  BY DEF CharDrv, CharInit
<1>2. \A j \in 1 .. Len(more) : s.init[4 + j] = more[j]
  BY DEF CharDrv, CharInit
<1>3. \A j \in 1 .. Len(more) : more[j].fail = "never" /\ more[j].res \in Static \ Functions
  <2>1. \A x \in SureStep : x.fail = "never" /\ x.res \in Static \ Functions
    BY DEF SureStep, Sure
  <2> QED
    BY <2>1
<1> HIDE DEF s, n
<1>4. \A k \in 1 .. n : \/ k \in 1 .. 4
                        \/ s.init[k].fail = "never" /\ s.init[k].res \in Static \ Functions
  <2> SUFFICES ASSUME NEW k \in 1 .. n, k \notin 1 .. 4
               PROVE  s.init[k].fail = "never" /\ s.init[k].res \in Static \ Functions
    OBVIOUS
  <2>1. k - 4 \in 1 .. Len(more) /\ k = 4 + (k - 4)
    BY <1>1 DEF n
  <2> QED
    BY <2>1, <1>2, <1>3
<1>5. \A k \in 1 .. n : k \in 1 .. 4 => k = 1 \/ k = 2 \/ k = 3 \/ k = 4
  BY <1>1
<1>6. /\ {"region", "cdev_struct", "cdev", "buffer"} \subseteq Secured(s, n + 1)
      /\ {"region", "cdev_struct", "cdev", "buffer"} \subseteq Resource(s)
      /\ Tried(s, n + 1) \subseteq
           {"region", "cdev_struct", "cdev", "buffer"} \cup (Static \ Functions)
  <2>1. 1 \in 1 .. n /\ 2 \in 1 .. n /\ 3 \in 1 .. n /\ 4 \in 1 .. n /\ (n + 1) - 1 = n
    BY <1>1 DEF n
  <2>2. {"region", "cdev_struct", "cdev", "buffer"} \subseteq Secured(s, n + 1)
    BY <1>1, <2>1 DEF Secured, Check
  <2>3. {"region", "cdev_struct", "cdev", "buffer"} \subseteq Tried(s, n + 1)
    BY <1>1, <2>1 DEF Tried, Check
  <2>4. Tried(s, n + 1) \subseteq
           {"region", "cdev_struct", "cdev", "buffer"} \cup (Static \ Functions)
    BY <1>1, <1>4, <1>5, <2>1 DEF Tried, Check
  <2> QED
    BY <2>2, <2>3, <2>4, <1>1 DEF Resource
<1>7. Exits(d, s)
  <2>1. s.exit \in Seq(Resource(s))
    BY <1>1, <1>6
  <2>2. "cdev_struct" \in KnownLeak(d)
    BY DEF CharNames, KnownLeak
  <2>3. Way(d, s, n + 1, {}, s.exit)
    <3>1. "cdev_struct" \notin Functions
      BY DEF Functions, Queues
    <3> QED
      BY <1>1, <1>6, <2>2, <3>1 DEF Way, Tolerant
  <2> QED
    BY <2>1, <2>3, <1>1 DEF Exits
<1>8. Unwinds(d, s)
  <2>1. ASSUME NEW k \in 1 .. n, s.init[k].fail = "unwind"
        PROVE  k = 1 \/ k = 2 \/ k = 3 \/ k = 4
    BY <2>1, <1>4, <1>5
  <2>2. /\ Tried(s, 1) = {} /\ Tried(s, 2) = {"region"} /\ Tried(s, 3) = {"region", "cdev_struct"}
        /\ Tried(s, 4) = {"region", "cdev_struct", "cdev"}
    BY <1>1 DEF Tried, Check
  <2>3. /\ "region" \in Secured(s, 2) /\ "region" \in Secured(s, 3) /\ "region" \in Secured(s, 4)
    BY <1>1 DEF Secured, Check
  <2>4. "cdev_struct" \in KnownLeak(d)
    BY DEF CharNames, KnownLeak
  <2>5. /\ s.init[1].undo = <<>> /\ s.init[2].undo = <<"region">>
        /\ s.init[3].undo = <<"cdev", "region">> /\ s.init[4].undo = <<"cdev", "region">>
        /\ s.init[1].left = {} /\ s.init[2].left = {} /\ s.init[3].left = {} /\ s.init[4].left = {}
    BY <1>1 DEF Check
  <2>6. Way(d, s, 1, {}, <<>>) /\ Way(d, s, 2, {}, <<"region">>)
    BY <1>6, <2>2, <2>3 DEF Way
  <2>7. Way(d, s, 3, {}, <<"cdev", "region">>) /\ Way(d, s, 4, {}, <<"cdev", "region">>)
    BY <1>6, <2>2, <2>3, <2>4 DEF Way, Tolerant, Static, Functions, Queues
  <2> QED
    BY <1>1, <2>1, <2>5, <2>6, <2>7 DEF Unwinds, Labels
<1>9. Ready(d, s)
  <2>1. d \notin PublishLast
    BY DEF CharNames, PublishLast
  <2>2. ASSUME NEW r \in uses PROVE r \in Secured(s, n + 1)
    <3>1. PICK j \in 1 .. Len(more) : more[j].res = r
      OBVIOUS
    <3>2. /\ 4 + j \in 1 .. n /\ (n + 1) - 1 = n
          /\ s.init[4 + j].res = r /\ s.init[4 + j].fail # "ignore"
      BY <1>1, <1>2, <1>3, <3>1 DEF n
    <3> QED
      BY <3>2 DEF Secured
  <2> QED
    BY <2>1, <2>2, <1>1, <1>6 DEF Ready
<1> QED
  BY <1>1, <1>7, <1>8, <1>9 DEF Sound, s


(* The scripts of a few steps, one by one. *)
LEMMA PlainSound ==
  /\ Sound("ex5", ex5) /\ Sound("ex6", ex6) /\ Sound("ex15", ex15) /\ Sound("ex16", ex16)
  /\ Sound("ex17", ex17) /\ Sound("ex18", ex18) /\ Sound("ex19", ex19) /\ Sound("ex20", ex20)
  /\ Sound("ex22", ex22) /\ Sound("ex23", ex23) /\ Sound("ex24", ex24) /\ Sound("ex25", ex25)
  /\ Sound("ex26", ex26) /\ Sound("ex27", ex27) /\ Sound("ex29", ex29)
<1> USE DEF Check, CheckLeaving, Sure, Ignore, Sound, Exits, Unwinds, Ready, Way, Labels, Resource,
            Left, Unchecked, Tolerant, Secured, Tried, PublishLast, Static, KnownLeak, Functions, Queues
<1>1. Sound("ex5", ex5)
  BY DEF ex5, ProcEntry
<1>2. Sound("ex6", ex6)
  BY DEF ex6, ProcEntry
<1>3. Sound("ex15", ex15)
  BY DEF ex15
<1>4. Sound("ex16", ex16)
  BY DEF ex16
<1>5. Sound("ex17", ex17)
  BY DEF ex17
<1>6. Sound("ex18", ex18)
  BY DEF ex18
<1>7. Sound("ex19", ex19)
  BY DEF ex19
<1>8. Sound("ex20", ex20)
  BY DEF ex20
<1>9. Sound("ex22", ex22)
  BY DEF ex22
<1>10. Sound("ex23", ex23)
  BY DEF ex23
<1>11. Sound("ex24", ex24)
  BY DEF ex24
<1>12. Sound("ex25", ex25)
  BY DEF ex25
<1>13. Sound("ex26", ex26)
  BY DEF ex26
<1>14. Sound("ex27", ex27)
  BY DEF ex27
<1>15. Sound("ex29", ex29)
  BY DEF ex29
<1> HIDE DEF Sound
<1> QED
  BY <1>1, <1>2, <1>3, <1>4, <1>5, <1>6, <1>7, <1>8, <1>9, <1>10, <1>11, <1>12, <1>13, <1>14, <1>15

(* The RAM disk: every label of sbd_init undoes what was done before it, but *)
(* the queue and a major number that was asked for.                          *)
LEMMA RamDiskSound == Sound("ex30", ex30)
<1> DEFINE s == ex30
<1>1. /\ Len(s.init) = 6
      /\ s.init[1] = Sure("lock") /\ s.init[2] = Check("data", <<>>)
      /\ s.init[3] = Check("Queue", <<"data">>)
      /\ s.init[4] = CheckLeaving("blkdev", <<"data">>, {"blkdev"})
      /\ s.init[5] = Check("gd", <<"blkdev", "data">>) /\ s.init[6] = Sure("disk")
      /\ s.exit = <<"disk", "gd", "blkdev", "Queue", "data">>
      /\ s.public = "disk" /\ s.needs = {"lock", "data", "Queue", "gd"}
  BY DEF ex30
<1> HIDE DEF s
<1> USE DEF Check, CheckLeaving, Sure
<1>2. /\ Tried(s, 1) = {} /\ Tried(s, 2) = {"lock"} /\ Tried(s, 3) = {"lock", "data"}
      /\ Tried(s, 4) = {"lock", "data", "Queue"}
  BY <1>1 DEF Tried
<1>3. /\ Tried(s, 5) = {"lock", "data", "Queue", "blkdev"}
      /\ Tried(s, 6) = {"lock", "data", "Queue", "blkdev", "gd"}
      /\ Tried(s, 7) = {"lock", "data", "Queue", "blkdev", "gd", "disk"}
  BY <1>1 DEF Tried
<1>4. /\ "data" \in Secured(s, 3) /\ "data" \in Secured(s, 4)
      /\ {"data", "blkdev"} \subseteq Secured(s, 5)
      /\ {"lock", "data", "Queue", "blkdev", "gd", "disk"} \subseteq Secured(s, 7)
  BY <1>1 DEF Secured
<1>5. {"lock", "data", "Queue", "blkdev", "gd", "disk"} \subseteq Resource(s)
  BY <1>1, <1>3 DEF Resource
<1>6. KnownLeak("ex30") = {"Queue", "blkdev"}
  BY DEF KnownLeak
<1>7. Exits("ex30", s)
  <2>1. s.exit \in Seq(Resource(s))
    BY <1>1, <1>5
  <2>2. Way("ex30", s, 7, {}, s.exit)
    BY <1>1, <1>3, <1>4, <1>5, <1>6 DEF Way, Static, Functions, Queues
  <2> QED
    BY <1>1, <2>1, <2>2 DEF Exits
<1>8. Unwinds("ex30", s)
  <2>1. Way("ex30", s, 2, {}, <<>>) /\ Way("ex30", s, 3, {}, <<"data">>)
    BY <1>2, <1>4, <1>5 DEF Way, Static, Functions, Queues
  <2>2. Way("ex30", s, 4, {"blkdev"}, <<"data">>)
    BY <1>2, <1>4, <1>5, <1>6 DEF Way, Static, Functions, Queues
  <2>3. Way("ex30", s, 5, {}, <<"blkdev", "data">>)
    BY <1>3, <1>4, <1>5, <1>6 DEF Way, Static, Functions, Queues
  <2>4. SUFFICES ASSUME NEW k \in 1 .. 6, s.init[k].fail = "unwind"
                 PROVE  /\ s.init[k].undo \in Labels
                        /\ Way("ex30", s, k, s.init[k].left, s.init[k].undo)
    BY <1>1 DEF Unwinds
  <2>5. k = 2 \/ k = 3 \/ k = 4 \/ k = 5
    BY <1>1, <2>4
  <2>6. /\ s.init[2].undo = <<>> /\ s.init[3].undo = <<"data">> /\ s.init[4].undo = <<"data">>
        /\ s.init[5].undo = <<"blkdev", "data">>
        /\ s.init[2].left = {} /\ s.init[3].left = {} /\ s.init[4].left = {"blkdev"}
        /\ s.init[5].left = {}
    BY <1>1
  <2> QED
    BY <2>1, <2>2, <2>3, <2>5, <2>6 DEF Labels
<1>9. Ready("ex30", s)
  <2>1. \A k \in 1 .. 7 : "disk" \in Tried(s, k) => k = 7
    BY <1>2, <1>3
  <2>2. \A k \in 1 .. 6 : "disk" \notin s.init[k].left
    BY <1>1
  <2> QED
    BY <1>1, <1>4, <2>1, <2>2 DEF Ready
<1> QED
  BY <1>1, <1>7, <1>8, <1>9 DEF Sound, s

(* The ADC driver: a char driver with one more step that may fail. *)
LEMMA AdcSound == Sound("ex31", ex31)
<1> DEFINE s == ex31
<1>1. /\ Len(s.init) = 6
      /\ s.init[1] = Check("region", <<>>) /\ s.init[2] = Check("cdev_struct", <<"region">>)
      /\ s.init[3] = Check("cdev", <<"cdev", "region">>)
      /\ s.init[4] = Check("buffer", <<"cdev", "region">>)
      /\ s.init[5] = Sure("sem")
      /\ s.init[6] = Check("adc_virtual_address", <<"cdev", "region">>)
      /\ s.exit = <<"adc_virtual_address", "cdev", "region", "buffer">>
      /\ s.needs = {"buffer", "sem", "adc_virtual_address"}
  BY DEF ex31, CharInit
<1> HIDE DEF s
<1>2. /\ Tried(s, 1) = {} /\ Tried(s, 2) = {"region"} /\ Tried(s, 3) = {"region", "cdev_struct"}
      /\ Tried(s, 4) = {"region", "cdev_struct", "cdev"}
  BY <1>1 DEF Tried, Check
<1>3. /\ Tried(s, 6) = {"region", "cdev_struct", "cdev", "buffer", "sem"}
      /\ Tried(s, 7) = {"region", "cdev_struct", "cdev", "buffer", "sem", "adc_virtual_address"}
  BY <1>1 DEF Tried, Check, Sure
<1>4. "region" \in Secured(s, 2) /\ "region" \in Secured(s, 3) /\ "region" \in Secured(s, 4)
      /\ "region" \in Secured(s, 6)
  BY <1>1 DEF Secured, Check
<1>5. {"region", "cdev", "buffer", "sem", "adc_virtual_address"} \subseteq Secured(s, 7)
  BY <1>1 DEF Secured, Check, Sure
<1>6. {"region", "cdev_struct", "cdev", "buffer", "sem", "adc_virtual_address"} \subseteq Resource(s)
  BY <1>1, <1>3 DEF Resource
<1>7. KnownLeak("ex31") = {"cdev_struct", "buffer"}
  BY DEF KnownLeak
<1> USE DEF Way, Tolerant, Static, Functions, Queues
<1>8. Exits("ex31", s)
  <2>1. s.exit \in Seq(Resource(s))
    BY <1>1, <1>6
  <2>2. Way("ex31", s, 7, {}, s.exit)
    BY <1>1, <1>3, <1>5, <1>6, <1>7
  <2> QED
    BY <1>1, <2>1, <2>2 DEF Exits
<1>9. Unwinds("ex31", s)
  <2>1. Way("ex31", s, 1, {}, <<>>) /\ Way("ex31", s, 2, {}, <<"region">>)
    BY <1>2, <1>4, <1>6
  <2>2. Way("ex31", s, 3, {}, <<"cdev", "region">>) /\ Way("ex31", s, 4, {}, <<"cdev", "region">>)
    BY <1>2, <1>4, <1>6, <1>7
  <2>3. Way("ex31", s, 6, {}, <<"cdev", "region">>)
    BY <1>3, <1>4, <1>6, <1>7
  <2>4. s.init[5].fail # "unwind"
    BY <1>1 DEF Sure
  <2>5. /\ s.init[1].undo = <<>> /\ s.init[2].undo = <<"region">>
        /\ s.init[3].undo = <<"cdev", "region">> /\ s.init[4].undo = <<"cdev", "region">>
        /\ s.init[6].undo = <<"cdev", "region">>
        /\ s.init[1].left = {} /\ s.init[2].left = {} /\ s.init[3].left = {} /\ s.init[4].left = {}
        /\ s.init[6].left = {}
    BY <1>1 DEF Check
  <2> HIDE DEF Way
  <2>6. SUFFICES ASSUME NEW k \in 1 .. 6, s.init[k].fail = "unwind"
                 PROVE  /\ s.init[k].undo \in Labels
                        /\ Way("ex31", s, k, s.init[k].left, s.init[k].undo)
    BY <1>1 DEF Unwinds
  <2>7. k = 1 \/ k = 2 \/ k = 3 \/ k = 4 \/ k = 6
    BY <2>4, <2>6
  <2> QED
    BY <2>1, <2>2, <2>3, <2>5, <2>7 DEF Labels
<1>10. Ready("ex31", s)
  BY <1>1, <1>5 DEF Ready, PublishLast
<1> QED
  BY <1>1, <1>8, <1>9, <1>10 DEF Sound, s

(* Every example is sound. *)
LEMMA ScriptsSound == \A d \in DOMAIN Script : Sound(d, Script[d])
<1> DEFINE Object == {"sem", "setup_done", "the_lock", "wt_queue"}
<1>1. \A r \in Object : Sure(r) \in SureStep
  <2>1. \A r \in Object : r \in Static \ Functions
    BY DEF Static, Functions, Queues
  <2> QED
    BY <2>1 DEF SureStep
<1>2. \A d \in CharNames : Sound(d, CharDrv(<<>>, {}))
  <2>1. <<>> \in Seq(SureStep) /\ {} \subseteq {<<>>[j].res : j \in DOMAIN <<>>}
    OBVIOUS
  <2> QED
    BY <2>1, CharSound
<1>3. \A d \in CharNames, r \in Object : Sound(d, CharDrv(<<Sure(r)>>, {r}))
  <2> TAKE d \in CharNames, r \in Object
  <2> DEFINE more == <<Sure(r)>>
  <2>1. more \in Seq(SureStep)
    BY <1>1
  <2>2. {r} \subseteq {more[j].res : j \in DOMAIN more}
    BY DEF Sure
  <2> QED
    BY <2>1, <2>2, CharSound
<1>4. \A d \in CharNames, q, r \in Object : Sound(d, CharDrv(<<Sure(q), Sure(r)>>, {q, r}))
  <2> TAKE d \in CharNames, q, r \in Object
  <2> DEFINE more == <<Sure(q), Sure(r)>>
  <2>1. more \in Seq(SureStep)
    BY <1>1
  <2>2. {q, r} \subseteq {more[j].res : j \in DOMAIN more}
    BY DEF Sure
  <2> QED
    BY <2>1, <2>2, CharSound
<1>5. Sound("ex3", ex3) /\ Sound("ex4", ex4) /\ Sound("ex8", ex8)
  BY <1>2 DEF ex3, ex4, ex8, CharNames
<1>6. Sound("ex7", ex7) /\ Sound("ex9", ex9) /\ Sound("ex11", ex11)
  BY <1>3 DEF ex7, ex9, ex11, CharNames
<1>7. Sound("ex10", ex10) /\ Sound("ex12", ex12) /\ Sound("ex13", ex13) /\ Sound("ex14", ex14)
  BY <1>4 DEF ex10, ex12, ex13, ex14, CharNames
<1>8. DOMAIN Script =
        {"ex3", "ex4", "ex5", "ex6", "ex7", "ex8", "ex9", "ex10", "ex11", "ex12", "ex13",
         "ex14", "ex15", "ex16", "ex17", "ex18", "ex19", "ex20", "ex22", "ex23", "ex24",
         "ex25", "ex26", "ex27", "ex29", "ex30", "ex31"}
  BY DEF Script
<1>9. /\ Script["ex3"] = ex3 /\ Script["ex4"] = ex4 /\ Script["ex5"] = ex5
      /\ Script["ex6"] = ex6 /\ Script["ex7"] = ex7 /\ Script["ex8"] = ex8
      /\ Script["ex9"] = ex9 /\ Script["ex10"] = ex10 /\ Script["ex11"] = ex11
      /\ Script["ex12"] = ex12 /\ Script["ex13"] = ex13 /\ Script["ex14"] = ex14
      /\ Script["ex15"] = ex15 /\ Script["ex16"] = ex16 /\ Script["ex17"] = ex17
      /\ Script["ex18"] = ex18 /\ Script["ex19"] = ex19 /\ Script["ex20"] = ex20
      /\ Script["ex22"] = ex22 /\ Script["ex23"] = ex23 /\ Script["ex24"] = ex24
      /\ Script["ex25"] = ex25 /\ Script["ex26"] = ex26 /\ Script["ex27"] = ex27
      /\ Script["ex29"] = ex29 /\ Script["ex30"] = ex30 /\ Script["ex31"] = ex31
  BY DEF Script
<1> QED
  BY <1>5, <1>6, <1>7, <1>8, <1>9, PlainSound, RamDiskSound, AdcSound

-------------------------------------------------------------------------------
(* Loading and unloading. *)

(* One step of init adds its resource, for certain unless its failure is ignored. *)
LEMMA TriedStep ==
  ASSUME NEW s, NEW k \in Nat \ {0}
  PROVE  /\ Tried(s, k + 1) = Tried(s, k) \cup {s.init[k].res}
         /\ Secured(s, k + 1) \subseteq Secured(s, k) \cup {s.init[k].res}
         /\ s.init[k].fail = "ignore" => Secured(s, k + 1) = Secured(s, k)
<1>1. 1 .. (k + 1) - 1 = 1 .. k - 1 \cup {k}
  OBVIOUS
<1>2. Tried(s, k + 1) = Tried(s, k) \cup {s.init[k].res}
  BY <1>1 DEF Tried
<1>3. Secured(s, k + 1) \subseteq Secured(s, k) \cup {s.init[k].res}
  BY <1>1 DEF Secured
<1>4. ASSUME s.init[k].fail = "ignore" PROVE Secured(s, k + 1) = Secured(s, k)
  BY <1>1, <1>4 DEF Secured
<1> QED
  BY <1>2, <1>3, <1>4

(* Later steps have tried at least as much. *)
LEMMA TriedGrows ==
  ASSUME NEW s, NEW k \in Nat, NEW m \in Nat, k <= m
  PROVE  Tried(s, k) \subseteq Tried(s, m) /\ Secured(s, k) \subseteq Tried(s, k)
<1>1. 1 .. k - 1 \subseteq 1 .. m - 1
  OBVIOUS
<1> QED
  BY <1>1 DEF Tried, Secured

(* So is the one that is loaded. *)
LEMMA DriverSound == TypeOK => Sound(drv, Script[drv])
  BY ScriptsSound, ModuleLoadAssumption DEF TypeOK

(* A module on its way out is on a way that the script is sound for. *)
LEMMA OnTheWay ==
  ASSUME TypeOK, HeldInv, phase \in {"unwind", "going"}
  PROVE  Path \in Seq(Resource(Script[drv])) /\ Way(drv, Script[drv], at, Leavings, Path)
<1>1. Sound(drv, Script[drv]) /\ at \in 1 .. Len(init) + 1
  BY DriverSound DEF TypeOK
<1>2. CASE phase = "unwind"
  <2>1. Path = init[at].undo /\ Leavings = init[at].left
    BY <1>2 DEF Path, Leavings
  <2>2. Len(init) \in Nat /\ at \in 1 .. Len(init) /\ init[at].fail = "unwind"
    BY <1>1, <1>2 DEF HeldInv, Sound, init
  <2>3. Path \in Labels /\ Way(drv, Script[drv], at, Leavings, Path)
    BY <1>1, <2>1, <2>2 DEF Sound, Unwinds, init
  <2>4. \A j \in DOMAIN Path : Path[j] \in Resource(Script[drv])
    BY <2>3 DEF Way
  <2> QED
    BY <2>3, <2>4, LabelsAreSequences
<1>3. CASE phase = "going"
  <2>1. Path = exit /\ at = Len(init) + 1 /\ Leavings = {}
    BY <1>3 DEF Path, HeldInv, Leavings
  <2> QED
    BY <1>1, <2>1 DEF Sound, Exits, init, exit
<1> QED
  BY <1>2, <1>3

(* A module that is not on its way out has released nothing. *)
LEMMA NothingReleased ==
  ASSUME TypeOK, phase \notin {"unwind", "going"}
  PROVE  Path = <<>> /\ Released = {}
<1>1. Path = <<>>
  BY DEF Path
<1>2. Len(todo) \in Nat
  BY DEF TypeOK
<1> QED
  BY <1>1, <1>2 DEF Released

(* The next release on the way out, and what it leaves. *)
LEMMA NextRelease ==
  ASSUME TypeOK, HeldInv, todo # <<>>
  PROVE  /\ phase \in {"unwind", "going"}
         /\ \E j \in DOMAIN Path : /\ Head(todo) = Path[j]
                                   /\ Released = {Path[h] : h \in 1 .. j - 1}
         /\ Release => Released' = Released \cup {Head(todo)}
<1>1. Len(todo) \in Nat \ {0} /\ DOMAIN todo = 1 .. Len(todo) /\ Head(todo) = todo[1]
  BY DEF TypeOK
<1>2. phase \in {"unwind", "going"}
  BY <1>1, NothingReleased DEF HeldInv
<1>3. Path \in Seq(Resource(Script[drv]))
  BY <1>2, OnTheWay
<1> DEFINE n == Len(Path) - Len(todo)
<1>4. n + 1 \in DOMAIN Path /\ n = (n + 1) - 1 /\ Head(todo) = Path[n + 1]
  BY <1>1, <1>3 DEF HeldInv
<1>5. Released = {Path[h] : h \in 1 .. n}
  BY DEF Released
<1>6. ASSUME Release PROVE Released' = Released \cup {Head(todo)}
  <2>1. Path' = Path
    BY <1>6 DEF Release, Path, init, exit
  <2>2. Len(todo') = Len(todo) - 1
    BY <1>1, <1>6 DEF Release, TypeOK
  <2>3. 1 .. Len(Path) - Len(todo') = (1 .. n) \cup {n + 1}
    BY <1>1, <1>3, <1>4, <2>2
  <2>4. Released' = {Path[h] : h \in 1 .. Len(Path) - Len(todo')}
    BY <2>1 DEF Released
  <2> QED
    BY <1>4, <1>5, <2>3, <2>4
<1>7. Released = {Path[h] : h \in 1 .. (n + 1) - 1}
  BY <1>4, <1>5
<1> QED
  BY <1>2, <1>4, <1>6, <1>7

(* No module is loaded at first. *)
LEMMA InitialLoad == Init => TypeOK /\ HeldInv /\ FilesInv /\ LeaksKnown
<1> SUFFICES ASSUME Init PROVE TypeOK /\ HeldInv /\ FilesInv /\ LeaksKnown
  OBVIOUS
<1>1. Len(init) \in Nat
  BY ScriptsSound, ModuleLoadAssumption DEF Init, Sound, init
<1>2. TypeOK
  BY <1>1, ModuleLoadAssumption DEF Init, TypeOK
<1>3. Path = <<>>
  BY DEF Init, Path
<1>4. HeldInv
  BY <1>3 DEF Init, HeldInv
<1> QED
  BY <1>2, <1>4 DEF Init, FilesInv, LeaksKnown

(* Everything a step meets or leaves behind is a resource of the driver. *)
LEMMA LoadTypes ==
  ASSUME TypeOK, HeldInv, [Next]_vars
  PROVE  TypeOK'
<1>1. Sound(drv, Script[drv]) /\ Len(init) \in Nat
  BY DriverSound DEF Sound, init
<1>2. CASE insmod
  BY <1>1, <1>2 DEF insmod, TypeOK, init
<1>3. CASE Acquire
  <2>1. Tried(Script[drv], at + 1) \subseteq Resource(Script[drv])
    BY <1>1, <1>3, TriedGrows DEF Acquire, TypeOK, Resource, init
  <2>2. init[at].res \in Resource(Script[drv])
    <3>1. at \in Nat \ {0}
      BY <1>1 DEF TypeOK
    <3> QED
      BY <2>1, <3>1, TriedStep DEF init
  <2> QED
    BY <1>1, <1>3, <2>2 DEF Acquire, TypeOK, init
<1>4. CASE Fail
  <2>1. /\ init[at].undo \in Labels
        /\ \A j \in DOMAIN init[at].undo : init[at].undo[j] \in Resource(Script[drv])
    BY <1>1, <1>4 DEF Fail, TypeOK, Sound, Unwinds, Way, init
  <2>2. init[at].undo \in Seq(Resource(Script[drv]))
    BY <2>1, LabelsAreSequences
  <2>3. init[at].left \subseteq Resource(Script[drv])
    BY <1>1, <1>4 DEF Fail, TypeOK, Resource, Left, init
  <2> QED
    BY <1>4, <2>2, <2>3 DEF Fail, TypeOK, init
<1>5. CASE FailUnnoticed
  BY <1>1, <1>5 DEF FailUnnoticed, TypeOK, init
<1>6. CASE Loaded
  BY <1>6 DEF Loaded, TypeOK, init
<1>7. CASE rmmod
  BY <1>1, <1>7 DEF rmmod, TypeOK, init, exit, Sound, Exits
<1>8. CASE Release
  <2>1. Tail(todo) \in Seq(Resource(Script[drv]))
    BY <1>8 DEF Release, TypeOK
  <2> QED
    BY <1>8, <2>1 DEF Release, TypeOK, init
<1>9. CASE Gone
  BY <1>9 DEF Gone, TypeOK, init
<1>10. CASE open
  BY <1>10, ModuleLoadAssumption DEF open, TypeOK, init
<1>11. CASE close
  BY <1>11, ModuleLoadAssumption DEF close, TypeOK, init
<1>12. CASE UNCHANGED vars
  BY <1>12 DEF vars, TypeOK, init
<1> QED
  BY <1>2, <1>3, <1>4, <1>5, <1>6, <1>7, <1>8, <1>9, <1>10, <1>11, <1>12 DEF Next

(* What is held follows the steps of init and the releases since. *)
LEMMA LoadHeld ==
  ASSUME TypeOK, HeldInv, [Next]_vars
  PROVE  HeldInv'
<1>1. Sound(drv, Script[drv]) /\ Len(init) \in Nat /\ at \in 1 .. Len(init) + 1
  BY DriverSound DEF Sound, init, TypeOK
<1>2. drv' = drv /\ init' = init /\ exit' = exit
  BY DEF Next, vars, insmod, Acquire, Fail, FailUnnoticed, Loaded, rmmod, Release, Gone, open,
         close, init, exit
<1>3. todo \in Seq(Resource(Script[drv]))
  BY DEF TypeOK
<1>4. ASSUME UNCHANGED <<phase, at, todo>>
      PROVE  Path' = Path /\ Released' = Released /\ Leavings' = Leavings
  BY <1>2, <1>4 DEF Path, Released, Leavings
<1>5. CASE insmod
  <2>1. Path' = <<>> /\ Path = <<>>
    BY <1>5 DEF insmod, Path
  <2>2. Tried(Script[drv], 1) = {} /\ Secured(Script[drv], 1) = {}
    BY DEF Tried, Secured
  <2> QED
    BY <1>2, <1>5, <2>1, <2>2 DEF insmod, HeldInv, Leavings, Released
<1>6. CASE Acquire
  <2>1. Path' = <<>> /\ Path = <<>>
    BY <1>6 DEF Acquire, Path
  <2>2. Released = {} /\ Released' = {}
    BY <1>3, <1>6, <2>1 DEF Acquire, Released
  <2>3. held' \subseteq Tried(Script[drv], at') /\ Secured(Script[drv], at') \subseteq held'
    <3>1. held \subseteq Tried(Script[drv], at) /\ Secured(Script[drv], at) \subseteq held
      BY <1>6, <2>2 DEF Acquire, HeldInv, Leavings
    <3>2. at' = at + 1 /\ at \in Nat \ {0} /\ held' = held \cup {Script[drv].init[at].res}
      BY <1>1, <1>6 DEF Acquire, init
    <3>3. /\ Tried(Script[drv], at + 1) = Tried(Script[drv], at) \cup {Script[drv].init[at].res}
          /\ Secured(Script[drv], at + 1)
               \subseteq Secured(Script[drv], at) \cup {Script[drv].init[at].res}
      BY <3>2, TriedStep
    <3> QED
      BY <3>1, <3>2, <3>3
  <2> QED
    BY <1>2, <1>6, <2>1, <2>2, <2>3 DEF Acquire, HeldInv, Leavings
<1>7. CASE Fail
  <2>1. Path = <<>> /\ Path' = init[at].undo /\ todo' = init[at].undo
    BY <1>2, <1>7 DEF Fail, Path
  <2>2. Len(todo') \in Nat
    BY <1>7, LoadTypes DEF Next, TypeOK
  <2>3. Released = {} /\ Released' = {}
    BY <1>3, <2>1, <2>2 DEF Released
  <2> QED
    BY <1>2, <1>7, <2>1, <2>2, <2>3 DEF Fail, HeldInv, Leavings
<1>8. CASE FailUnnoticed
  <2>1. Path' = <<>> /\ Path = <<>>
    BY <1>8 DEF FailUnnoticed, Path
  <2>2. Released = {} /\ Released' = {}
    BY <1>3, <1>8, <2>1 DEF FailUnnoticed, Released
  <2>3. held' \subseteq Tried(Script[drv], at') /\ Secured(Script[drv], at') \subseteq held'
    <3>1. held \subseteq Tried(Script[drv], at) /\ Secured(Script[drv], at) \subseteq held
      BY <1>8, <2>2 DEF FailUnnoticed, HeldInv, Leavings
    <3>2. /\ at' = at + 1 /\ at \in Nat \ {0} /\ held' = held
          /\ Script[drv].init[at].fail = "ignore"
      BY <1>1, <1>8 DEF FailUnnoticed, init
    <3>3. /\ Tried(Script[drv], at) \subseteq Tried(Script[drv], at + 1)
          /\ Secured(Script[drv], at + 1) = Secured(Script[drv], at)
      BY <3>2, TriedStep
    <3> QED
      BY <3>1, <3>2, <3>3
  <2> QED
    BY <1>2, <1>8, <2>1, <2>2, <2>3 DEF FailUnnoticed, HeldInv, Leavings
<1>9. CASE Loaded
  <2>1. Path' = <<>> /\ Path = <<>>
    BY <1>9 DEF Loaded, Path
  <2> QED
    BY <1>1, <1>2, <1>9, <2>1 DEF Loaded, HeldInv, Leavings, Released
<1>10. CASE rmmod
  <2>1. Path = <<>> /\ Path' = exit /\ todo' = exit
    BY <1>2, <1>10 DEF rmmod, Path
  <2>2. Len(todo') \in Nat
    BY <1>10, LoadTypes DEF Next, TypeOK
  <2>3. Released = {} /\ Released' = {}
    BY <1>3, <2>1, <2>2 DEF Released
  <2> QED
    BY <1>2, <1>10, <2>1, <2>2, <2>3 DEF rmmod, HeldInv, Leavings
<1>11. CASE Release
  <2>1. Path' = Path
    BY <1>2, <1>11 DEF Release, Path
  <2>2. /\ Len(todo) \in Nat \ {0} /\ Len(todo') = Len(todo) - 1
        /\ DOMAIN todo = 1 .. Len(todo) /\ DOMAIN todo' = 1 .. Len(todo')
        /\ Head(todo) = todo[1] /\ \A j \in DOMAIN todo' : todo'[j] = todo[j + 1]
    BY <1>3, <1>11 DEF Release
  <2>3. Len(Path) \in Nat
    BY <1>11, OnTheWay DEF Release
  <2>4. Len(todo) <= Len(Path)
    BY DEF HeldInv
  <2>5. Released' = Released \cup {Head(todo)}
    BY <1>11, NextRelease DEF Release
  <2>6. \A j \in DOMAIN todo' : todo'[j] = Path[Len(Path) - Len(todo') + j]
    <3> SUFFICES ASSUME NEW j \in DOMAIN todo' PROVE todo'[j] = Path[Len(Path) - Len(todo') + j]
      OBVIOUS
    <3>1. j + 1 \in DOMAIN todo /\ Len(Path) - Len(todo') + j = Len(Path) - Len(todo) + (j + 1)
      BY <2>2, <2>3
    <3> QED
      BY <2>2, <3>1 DEF HeldInv
  <2>7. Len(todo') <= Len(Path')
    BY <2>1, <2>2, <2>3, <2>4
  <2>8. Leavings' = Leavings
    BY <1>2, <1>11 DEF Release, Leavings
  <2> QED
    BY <1>2, <1>11, <2>1, <2>5, <2>6, <2>7, <2>8 DEF Release, HeldInv
<1>12. CASE Gone
  <2>1. Path' = <<>> /\ todo' = <<>>
    BY <1>12 DEF Gone, Path
  <2> QED
    BY <1>2, <1>12, <2>1 DEF Gone, HeldInv, Leavings
<1>13. CASE open
  BY <1>2, <1>4, <1>13 DEF open, HeldInv
<1>14. CASE close
  BY <1>2, <1>4, <1>14 DEF close, HeldInv
<1>15. CASE UNCHANGED vars
  BY <1>2, <1>4, <1>15 DEF vars, HeldInv
<1> QED
  BY <1>5, <1>6, <1>7, <1>8, <1>9, <1>10, <1>11, <1>12, <1>13, <1>14, <1>15 DEF Next

(* Once an example that publishes last is published, its init cannot fail. *)
LEMMA PublishedStays ==
  ASSUME TypeOK, drv \in PublishLast, Script[drv].public \in Tried(Script[drv], at), at <= Len(init)
  PROVE  init[at].fail # "unwind"
  BY DriverSound DEF TypeOK, Sound, Ready, init

(* Nobody has a file open while a module is on its way out. *)
LEMMA LoadFiles ==
  ASSUME TypeOK, HeldInv, FilesInv, [Next]_vars
  PROVE  FilesInv'
<1>0. drv' = drv /\ (drv \in EarlyOpen /\ drv \notin Hasty => drv \in PublishLast)
  BY DEF Next, vars, insmod, Acquire, Fail, FailUnnoticed, Loaded, rmmod, Release, Gone, open,
         close, Hasty
<1>1. files \in Nat /\ at \in Nat \ {0} /\ Len(init) \in Nat
  BY DriverSound, ModuleLoadAssumption DEF TypeOK, Sound, init
<1>2. CASE insmod
  BY <1>2 DEF insmod, FilesInv
<1>3. CASE Acquire
  BY <1>1, <1>3, TriedStep DEF Acquire, FilesInv
<1>4. CASE Fail
  BY <1>0, <1>4, PublishedStays DEF Fail, FilesInv
<1>5. CASE FailUnnoticed
  BY <1>1, <1>5, TriedStep DEF FailUnnoticed, FilesInv
<1>6. CASE Loaded
  BY <1>6 DEF Loaded, FilesInv
<1>7. CASE rmmod
  BY <1>7 DEF rmmod, FilesInv
<1>8. CASE Release
  BY <1>8 DEF Release, FilesInv
<1>9. CASE Gone
  BY <1>9 DEF Gone, FilesInv
<1>10. CASE open
  <2>1. phase # "live" => drv \in EarlyOpen /\ phase \in {"coming", "unwind"}
    BY <1>10 DEF open
  <2>2. Script[drv].public \in Tried(Script[drv], at) \/ Script[drv].public \in Leavings
    BY <1>10 DEF open, HeldInv
  <2>3. drv \notin Hasty => Script[drv].public \notin Leavings
    <3>1. SUFFICES ASSUME phase = "unwind", drv \in PublishLast
                   PROVE  Script[drv].public \notin Leavings
      BY <1>0, <2>1 DEF Leavings
    <3>2. at \in 1 .. Len(init) /\ Ready(drv, Script[drv]) /\ Leavings = init[at].left
      BY <1>1, <3>1, DriverSound DEF HeldInv, Sound, Leavings
    <3> QED
      BY <3>1, <3>2 DEF Ready, init
  <2>4. drv \notin Hasty => phase # "unwind"
    BY <1>0, <2>1, <2>2, <2>3, PublishedStays DEF HeldInv
  <2> QED
    BY <1>10, <2>1, <2>2, <2>3, <2>4 DEF open, FilesInv
<1>11. CASE close
  BY <1>1, <1>11 DEF close, FilesInv
<1>12. CASE UNCHANGED vars
  BY <1>12 DEF vars, FilesInv
<1> QED
  BY <1>2, <1>3, <1>4, <1>5, <1>6, <1>7, <1>8, <1>9, <1>10, <1>11, <1>12 DEF Next

(* What a module still holds when it is gone: a known leak, or an object of  *)
(* its own; the function of ex16 is the only one.                            *)
LEMMA LeftBehind ==
  ASSUME TypeOK, HeldInv, Gone, NEW r \in held
  PROVE  r \in Static \cup KnownLeak(drv) /\ (r \in Functions => drv = "ex16")
<1>1. Path \in Seq(Resource(Script[drv])) /\ Way(drv, Script[drv], at, Leavings, Path)
  BY OnTheWay DEF Gone
<1>2. r \in Tried(Script[drv], at) \cup Leavings /\ r \notin Released
  BY DEF HeldInv
<1>3. \A j \in DOMAIN Path : Path[j] # r
  BY <1>1, <1>2 DEF Gone, Released
<1> QED
  BY <1>1, <1>2, <1>3 DEF Way

(* A module that is gone has released everything it had tried, but the known leaks. *)
LEMMA LoadLeaks ==
  ASSUME TypeOK, HeldInv, LeaksKnown, [Next]_vars
  PROVE  LeaksKnown'
<1>1. CASE Gone
  BY <1>1, LeftBehind DEF Gone, LeaksKnown
<1>2. CASE ~ Gone
  <2>1. leaked' = leaked /\ drv' = drv
    BY <1>2 DEF Next, vars, insmod, Acquire, Fail, FailUnnoticed, Loaded, rmmod, Release, open,
                close
  <2> QED
    BY <2>1 DEF LeaksKnown
<1> QED
  BY <1>1, <1>2

(* Whatever uses a file finds what it needs. *)
LEMMA FilesAreSafe == TypeOK /\ HeldInv /\ FilesInv => OpenSafe
<1> SUFFICES ASSUME TypeOK, HeldInv, FilesInv, files > 0, drv \notin Unchecked \cup Hasty
             PROVE  Script[drv].needs \subseteq held
  BY DEF OpenSafe
<1>1. Ready(drv, Script[drv]) /\ at \in 1 .. Len(init) + 1
  BY DriverSound DEF Sound, TypeOK
<1>2. phase \in {"live", "coming"}
  BY DEF FilesInv
<1>3. Secured(Script[drv], at) \subseteq held
  BY <1>2, NothingReleased DEF HeldInv
<1>4. CASE phase = "live"
  BY <1>1, <1>3, <1>4 DEF HeldInv, Ready, init
<1>5. CASE phase = "coming"
  <2>1. drv \in PublishLast /\ Script[drv].public \in Tried(Script[drv], at)
    BY <1>5 DEF FilesInv, Hasty
  <2> QED
    BY <1>1, <1>3, <2>1 DEF Ready, init
<1> QED
  BY <1>2, <1>4, <1>5

(* No way out releases twice, or releases what was not acquired. *)
LEMMA ReleasesAreHeld == LoadIInv => ReleaseHeld
<1> SUFFICES ASSUME LoadIInv, todo # <<>>, drv \notin Unchecked, Head(todo) \notin Tolerant
             PROVE  Head(todo) \in held
  BY DEF ReleaseHeld
<1>0. TypeOK /\ HeldInv /\ WorkqueueInv
  BY DEF LoadIInv
<1>1. phase \in {"unwind", "going"} /\ Way(drv, Script[drv], at, Leavings, Path)
  BY <1>0, NextRelease, OnTheWay
<1>2. PICK j \in DOMAIN Path : Head(todo) = Path[j] /\ Released = {Path[h] : h \in 1 .. j - 1}
  BY <1>0, NextRelease
<1>3. /\ Path[j] \in Secured(Script[drv], at) \/ (drv = "ex17" /\ Path[j] = "wq" /\ at > 2)
      /\ Path[j] \notin Released
  BY <1>1, <1>2 DEF Way
<1>4. CASE Path[j] \in Secured(Script[drv], at)
  BY <1>0, <1>1, <1>2, <1>3, <1>4 DEF HeldInv
<1>5. CASE drv = "ex17" /\ Path[j] = "wq" /\ at > 2
  BY <1>0, <1>1, <1>2, <1>3, <1>5 DEF WorkqueueInv
<1> QED
  BY <1>3, <1>4, <1>5

-------------------------------------------------------------------------------
(* The deferred functions. *)

(* The deferred functions add nothing to loading and unloading. *)
LEMMA StepIsLoad == [NextAll]_allvars => [Next]_vars
  BY DEF NextAll, InitStep, ExitStep, Freed, Other, Run, Return, Crash, allvars, Next

(* A function is queued and runs with what it was started with. *)
LEMMA ActKeeps ==
  ASSUME TypeOK, HeldInv, ActInv, [NextAll]_allvars
  PROVE  ActInv'
<1>1. CASE InitStep
  <2>1. held \subseteq held' /\ init[at].res \in held' /\ drv' = drv /\ overtaken' = overtaken
    BY <1>1 DEF InitStep, Acquire
  <2>2. act' = act \/ (act' = "queued" /\ held' \cap Queues # {})
    BY <1>1, <2>1 DEF InitStep
  <2>3. stray' = stray /\ crashed' \in BOOLEAN
    BY <1>1 DEF InitStep
  <2> QED
    BY <2>1, <2>2, <2>3 DEF ActInv
<1>2. CASE ExitStep
  <2>1. Head(todo) = "my_timer" => drv = "ex15"
    <3>1. todo # <<>>
      BY <1>2 DEF ExitStep, Release
    <3>2. phase \in {"unwind", "going"} /\ \E j \in DOMAIN Path : Head(todo) = Path[j]
      BY <3>1, NextRelease
    <3>3. Way(drv, Script[drv], at, Leavings, Path)
      BY <3>2, OnTheWay
    <3> QED
      BY <3>2, <3>3 DEF Way
  <2>2. held' = held \ {Head(todo)} /\ drv' = drv /\ stray' = stray /\ crashed' = crashed
    BY <1>2 DEF ExitStep, Release
  <2>3. overtaken' \in BOOLEAN /\ (overtaken => overtaken')
    BY <1>2 DEF ExitStep, ActInv
  <2>4. CASE Head(todo) \in Waits
    BY <1>2, <2>2, <2>3, <2>4 DEF ExitStep, ActInv, Waits
  <2>5. CASE Head(todo) = "irq"
    BY <1>2, <2>2, <2>3, <2>5 DEF ExitStep, ActInv, Queues
  <2>6. CASE Head(todo) = "my_timer"
    <3>1. act' # "queued" /\ (act' = "running" => overtaken')
      BY <1>2, <2>6 DEF ExitStep
    <3>2. act' \in {"off", "queued", "running"}
      BY <1>2 DEF ExitStep, ActInv
    <3> QED
      BY <2>1, <2>2, <2>3, <2>6, <3>1, <3>2 DEF ActInv
  <2>7. CASE Head(todo) \notin Waits \cup {"irq", "my_timer"}
    <3>1. held' \cap Queues = held \cap Queues /\ held' \cap Functions = held \cap Functions
      BY <2>2, <2>7 DEF Queues, Functions, Waits
    <3>2. act' = act
      BY <1>2, <2>7 DEF ExitStep
    <3> QED
      BY <2>2, <2>3, <3>1, <3>2 DEF ActInv
  <2> QED
    BY <2>4, <2>5, <2>6, <2>7
<1>3. CASE Freed
  BY <1>3 DEF Freed, ActInv
<1>4. CASE Other
  <2>1. held \subseteq held' /\ drv' = drv /\ UNCHANGED <<act, stray, overtaken, crashed>>
    BY <1>4 DEF Other, Quiet, actvars, insmod, Fail, FailUnnoticed, Loaded, rmmod, open, close
  <2> QED
    BY <2>1 DEF ActInv
<1>5. CASE Run
  BY <1>5 DEF Run, vars, ActInv, Functions
<1>6. CASE Return
  BY <1>6 DEF Return, vars, ActInv
<1>7. CASE Crash
  BY <1>7 DEF Crash, vars, ActInv
<1>8. CASE UNCHANGED allvars
  BY <1>8 DEF allvars, vars, actvars, ActInv
<1> QED
  BY <1>1, <1>2, <1>3, <1>4, <1>5, <1>6, <1>7, <1>8 DEF NextAll

(* Only the functions of ex15 and ex16 outlive their module. *)
LEMMA HandlerKeeps ==
  ASSUME TypeOK, HeldInv, ActInv, HandlerHasModule, [NextAll]_allvars
  PROVE  HandlerHasModule'
<1>1. CASE InitStep
  BY <1>1 DEF InitStep, Acquire, HandlerHasModule
<1>2. CASE ExitStep
  BY <1>2 DEF ExitStep, Release, HandlerHasModule
<1>3. CASE Freed
  <2>1. held \cap Functions # {} => drv = "ex16"
    BY <1>3, LeftBehind DEF Freed
  <2>2. act # "off" => drv = "ex16" \/ (drv = "ex15" /\ overtaken)
    BY <2>1 DEF ActInv, Functions
  <2>3. drv' = drv /\ overtaken' = overtaken /\ ~ crashed' /\ (stray' => stray \/ act # "off")
    BY <1>3 DEF Freed, Gone
  <2> QED
    BY <2>2, <2>3 DEF HandlerHasModule
<1>4. CASE Other
  BY <1>4 DEF Other, Quiet, actvars, HandlerHasModule, insmod, Fail, FailUnnoticed, Loaded, rmmod,
              open, close
<1>5. CASE Run
  BY <1>5 DEF Run, vars, HandlerHasModule
<1>6. CASE Return
  BY <1>6 DEF Return, vars, HandlerHasModule
<1>7. CASE Crash
  BY <1>7 DEF Crash, vars, HandlerHasModule
<1>8. CASE UNCHANGED allvars
  BY <1>8 DEF allvars, vars, actvars, HandlerHasModule
<1> QED
  BY <1>1, <1>2, <1>3, <1>4, <1>5, <1>6, <1>7, <1>8 DEF NextAll

(* ex17 never gets past its queue_work without a workqueue. *)
LEMMA WorkqueueKeeps ==
  ASSUME TypeOK, HeldInv, WorkqueueInv, HandlerHasModule, [NextAll]_allvars
  PROVE  WorkqueueInv'
<1> SUFFICES ASSUME drv' = "ex17"
             PROVE  /\ crashed' => phase' = "coming"
                    /\ ~ crashed' /\ phase' # "absent" /\ at' > 2 /\ "wq" \notin Released'
                         => "wq" \in held'
  BY DEF WorkqueueInv
<1>1. drv = "ex17"
  BY StepIsLoad DEF Next, vars, insmod, Acquire, Fail, FailUnnoticed, Loaded, rmmod, Release, Gone,
                    open, close
<1>2. /\ Len(init) = 2 /\ init[1].fail = "ignore" /\ init[2].fail = "never" /\ init[2].res = "workq"
      /\ at \in 1 .. 3
  <2>1. init = ex17.init
    BY <1>1 DEF init, Script
  <2>2. Len(init) = 2 /\ init[1].fail = "ignore" /\ init[2].fail = "never" /\ init[2].res = "workq"
    BY <2>1 DEF ex17, Ignore, Sure
  <2> QED
    BY <2>2 DEF TypeOK
<1>3. CASE InitStep
  <2>1. phase' = "coming" /\ at' = at + 1 /\ at \in 1 .. 2 /\ held \subseteq held'
    BY <1>2, <1>3 DEF InitStep, Acquire
  <2>2. at = 2 => (crashed' <=> "wq" \notin held)
    BY <1>1, <1>2, <1>3 DEF InitStep
  <2>3. at' > 2 => at = 2
    BY <2>1
  <2> QED
    BY <2>1, <2>2, <2>3
<1>4. CASE ExitStep
  <2>1. Released' = Released \cup {Head(todo)}
    BY <1>4, NextRelease DEF ExitStep, Release
  <2> QED
    BY <1>1, <1>4, <2>1 DEF ExitStep, Release, WorkqueueInv
<1>5. CASE Freed
  BY <1>5 DEF Freed, Gone
<1>6. CASE Other
  <2>0. ~ Fail
    BY <1>2 DEF Fail
  <2>1. crashed' = FALSE /\ held' = held
    BY <1>6, <2>0 DEF Other, Quiet, actvars, insmod, FailUnnoticed, Loaded, rmmod, open, close
  <2>2. CASE insmod
    BY <2>1, <2>2 DEF insmod
  <2>4. CASE FailUnnoticed
    BY <1>2, <2>1, <2>4 DEF FailUnnoticed
  <2>5. CASE Loaded \/ rmmod
    <3>1. phase \in {"coming", "live"} /\ at' = at /\ ~ crashed
      BY <1>6, <2>5 DEF Loaded, rmmod, Other
    <3>2. Released = {}
      BY <3>1, NothingReleased
    <3> QED
      BY <1>1, <2>1, <3>1, <3>2 DEF WorkqueueInv
  <2>6. CASE open \/ close
    <3>1. UNCHANGED <<drv, phase, at, todo>> /\ ~ crashed
      BY <1>6, <2>6 DEF open, close, Other
    <3>2. Released' = Released
      BY <3>1 DEF Released, Path, init, exit
    <3> QED
      BY <1>1, <2>1, <3>1, <3>2 DEF WorkqueueInv
  <2> QED
    BY <1>6, <2>0, <2>2, <2>4, <2>5, <2>6 DEF Other
<1>7. CASE Run \/ Return \/ UNCHANGED allvars
  <2>1. UNCHANGED <<drv, phase, at, todo, held, crashed>>
    BY <1>7 DEF Run, Return, allvars, actvars, vars
  <2>2. Released' = Released
    BY <2>1 DEF Released, Path, init, exit
  <2> QED
    BY <1>1, <2>1, <2>2 DEF WorkqueueInv
<1>8. CASE Crash
  BY <1>1, <1>8 DEF Crash, HandlerHasModule
<1> QED
  BY <1>3, <1>4, <1>5, <1>6, <1>7, <1>8 DEF NextAll

(* At first no module is loaded and no function queued. *)
LEMMA LoadInitial == InitAll => LoadIInv
  BY InitialLoad DEF InitAll, Init, LoadIInv, ActInv, WorkqueueInv, HandlerHasModule

(* Every step of loading, unloading and the deferred functions keeps the invariant. *)
LEMMA LoadInductive == LoadIInv /\ [NextAll]_allvars => LoadIInv'
  BY StepIsLoad, LoadTypes, LoadHeld, LoadFiles, LoadLeaks, ActKeeps, HandlerKeeps, WorkqueueKeeps
     DEF LoadIInv

(* For any choice of examples, any bound on open files and any examples that *)
(* are opened early: the resources held are those that init has acquired and *)
(* neither an error label nor exit has released, and a deferred function is  *)
(* pending only while its module holds what it was started with.             *)
THEOREM LoadInvariance == LoadSpec => []LoadIInv
  BY LoadInitial, LoadInductive, PTL DEF LoadSpec

(* With any number of open files, a file operation finds the objects it uses.*)
THEOREM OpenTheorem == LoadSpec => []OpenSafe
<1>1. LoadIInv => OpenSafe
  BY FilesAreSafe DEF LoadIInv
<1> QED
  BY <1>1, LoadInvariance, PTL

(* No error label and no exit function releases what is not held, whichever  *)
(* step of init failed, unnoticed or not.                                    *)
THEOREM ReleaseTheorem == LoadSpec => []ReleaseHeld
  BY ReleasesAreHeld, LoadInvariance, PTL

(* Nothing outlives a module but the known leaks, however often it is loaded.*)
THEOREM LeakTheorem == LoadSpec => []LeaksKnown
<1>1. LoadIInv => LeaksKnown
  BY DEF LoadIInv
<1> QED
  BY <1>1, LoadInvariance, PTL

(* No function outlives its module but the work of ex16 and the timer        *)
(* function of ex15 that was running at del_timer.                           *)
THEOREM HandlerTheorem == LoadSpec => []HandlerHasModule
<1>1. LoadIInv => HandlerHasModule
  BY DEF LoadIInv
<1> QED
  BY <1>1, LoadInvariance, PTL

(* A tasklet handler of ex18 that runs on a multiprocessor keeps its module: *)
(* init is over, exit waits for it and it waits for itself.                  *)
LEMMA HungStays ==
  ASSUME LoadIInv, NextAll, Hung
  PROVE  Hung' /\ phase' # "absent"
<1> USE DEF Hung
<1>0. TypeOK /\ HeldInv /\ ActInv
  BY DEF LoadIInv
<1>1. held \cap Functions # {}
  BY <1>0 DEF ActInv
<1>2. phase # "absent" /\ ~ (at <= Len(init))
  <2>1. Len(init) = 1
    <3>1. init = ex18.init
      BY DEF init, Script
    <3> QED
      BY <3>1 DEF ex18
  <2>2. at # 1
    <3>1. init[1].fail = "never"
      BY DEF init, Script, ex18, Sure
    <3>2. at = 1 => Leavings = {} /\ Tried(Script[drv], at) = {}
      BY <1>0, <3>1 DEF HeldInv, Leavings, Tried
    <3> QED
      BY <1>0, <1>1, <3>2 DEF HeldInv
  <2> QED
    BY <1>0, <1>1, <2>1, <2>2 DEF HeldInv, TypeOK
<1>3. ~ InitStep
  BY <1>2 DEF InitStep, Acquire
<1>4. ~ Freed
  BY <1>0, <1>1, LeftBehind DEF Freed
<1>5. ~ Return /\ ~ Run
  BY DEF Return, Run, tasklet_disable
<1>6. CASE ExitStep
  BY <1>2, <1>6 DEF ExitStep, Release
<1>7. CASE Other
  BY <1>2, <1>7 DEF Other, Quiet, actvars, insmod, Fail, FailUnnoticed, Loaded, rmmod, open, close
<1>8. CASE Crash
  BY <1>2, <1>8 DEF Crash, vars
<1> QED
  BY <1>3, <1>4, <1>5, <1>6, <1>7, <1>8 DEF NextAll

(* The unload of ex18 that UnloadEnds excepts never ends.                    *)
THEOREM HangTheorem == LoadSpec => TaskletHangs
<1>1. LoadIInv /\ [NextAll]_allvars => [Hung => Hung' /\ phase' # "absent"]_allvars
  BY HungStays
<1> QED
  BY <1>1, LoadInvariance, PTL DEF LoadSpec, TaskletHangs

-------------------------------------------------------------------------------
(* The ldd bus. *)

(* Nothing is loaded or registered at first. *)
LEMMA LddInitial == LddInit => LddIInv
  BY DEF LddInit, LddIInv, LddTypeOK, OwnerInv, UnloadedIsUnused

(* A driver matches exactly while both sides are registered: ex25 sets the   *)
(* device's name to the one that ex26 gives its driver.                      *)
LEMMA Matches ==
  \A dev, driver : ldd_match(dev, driver) <=> dev = "yes" /\ driver # "no"
  BY DEF ldd_match, DevName, DriverName

(* Every step of the three modules keeps the objects with their modules.     *)
LEMMA LddInductive == LddIInv /\ [LddNext]_lddvars => LddIInv'
<1> SUFFICES ASSUME LddIInv, [LddNext]_lddvars
             PROVE  LddIInv'
  OBVIOUS
<1>1. CASE bus_module_init
  BY <1>1 DEF bus_module_init, LddIInv, LddTypeOK, OwnerInv, UnloadedIsUnused
<1>2. CASE bus_module_exit
  BY <1>2 DEF bus_module_exit, LddIInv, LddTypeOK, OwnerInv, UnloadedIsUnused
<1>3. CASE ldd_register_device
  <2>1. LddTypeOK /\ OwnerInv
    BY <1>3 DEF ldd_register_device, LddIInv
  <2>2. CASE UNCHANGED lddvars
    BY <2>2 DEF lddvars, LddIInv, LddTypeOK, OwnerInv, UnloadedIsUnused
  <2>3. CASE ~ UNCHANGED lddvars
    <3>1. bound' <=> (ldd_device' = "yes" /\ ldd_driver' # "no")
      BY <1>3, <2>3, Matches DEF ldd_register_device, lddvars
    <3>2. bound' \in BOOLEAN
      BY <1>3, <2>3 DEF ldd_register_device, lddvars, ldd_match
    <3>3. LddTypeOK'
      BY <1>3, <2>1, <2>3, <3>2 DEF ldd_register_device, lddvars, LddTypeOK
    <3>4. OwnerInv'
      BY <1>3, <2>1, <2>3, <3>1 DEF ldd_register_device, lddvars, OwnerInv, LddTypeOK
    <3>5. lcrash' => ldd_driver' = "freed"
      BY <1>3, <2>3 DEF ldd_register_device, lddvars
    <3>6. UnloadedIsUnused'
      BY <2>1, <3>4, <3>5 DEF UnloadedIsUnused, OwnerInv
    <3> QED
      BY <3>3, <3>4, <3>6 DEF LddIInv
  <2> QED
    BY <2>2, <2>3
<1>4. CASE ldd_unregister_device
  BY <1>4 DEF ldd_unregister_device, LddIInv, LddTypeOK, OwnerInv, UnloadedIsUnused
<1>5. CASE ldd_register_driver
  <2>1. LddTypeOK /\ OwnerInv
    BY <1>5 DEF ldd_register_driver, LddIInv
  <2>2. CASE UNCHANGED lddvars
    BY <2>2 DEF lddvars, LddIInv, LddTypeOK, OwnerInv, UnloadedIsUnused
  <2>3. CASE ~ UNCHANGED lddvars
    <3>1. bound' <=> (ldd_device' = "yes" /\ ldd_driver' # "no")
      BY <1>5, <2>3, Matches DEF ldd_register_driver, lddvars
    <3>2. bound' \in BOOLEAN
      BY <1>5, <2>3 DEF ldd_register_driver, lddvars, ldd_match
    <3>3. LddTypeOK'
      BY <1>5, <2>1, <2>3, <3>2 DEF ldd_register_driver, lddvars, LddTypeOK
    <3>4. OwnerInv'
      BY <1>5, <2>1, <2>3, <3>1 DEF ldd_register_driver, lddvars, OwnerInv, LddTypeOK
    <3> QED
      BY <1>5, <2>1, <3>3, <3>4 DEF ldd_register_driver, LddIInv, UnloadedIsUnused, OwnerInv
  <2> QED
    BY <2>2, <2>3
<1>6. CASE ldd_unregister_driver
  BY <1>6 DEF ldd_unregister_driver, LddIInv, LddTypeOK, OwnerInv, UnloadedIsUnused
<1>7. CASE show_bus_version
  BY <1>7 DEF show_bus_version, LddIInv, LddTypeOK, OwnerInv, UnloadedIsUnused
<1>8. CASE UNCHANGED lddvars
  BY <1>8 DEF lddvars, LddIInv, LddTypeOK, OwnerInv, UnloadedIsUnused
<1> QED
  BY <1>1, <1>2, <1>3, <1>4, <1>5, <1>6, <1>7, <1>8 DEF LddNext

(* The ownership of the registered objects is an invariant of the bus.       *)
THEOREM LddInvariance == LddSpec => []LddIInv
  BY LddInitial, LddInductive, PTL DEF LddSpec

(* In whatever order ex24, ex25 and ex26 are loaded, fail and are unloaded,  *)
(* the device is bound exactly while it and a driver are registered.         *)
THEOREM BoundTheorem == LddSpec => []BoundWhileBothRegistered
<1>1. LddIInv => BoundWhileBothRegistered
  BY DEF LddIInv, OwnerInv, BoundWhileBothRegistered
<1> QED
  BY LddInvariance, <1>1, PTL

(* Memory of an unloaded module is used only after a registration that       *)
(* failed half-way (ex24.c:66, ex24.c:126).                                  *)
THEOREM UnloadedTheorem == LddSpec => []UnloadedIsUnused
<1>1. LddIInv => UnloadedIsUnused
  BY DEF LddIInv
<1> QED
  BY LddInvariance, <1>1, PTL

-------------------------------------------------------------------------------
(* The USB driver. *)

(* No device is plugged in and no file is open at first. *)
LEMMA UsbInitial == UsbInit => UsbIInv
  BY DEF UsbInit, UsbIInv, UsbTypeOK, OwnInv, Busy, PluggedIsSafe

(* A device is plugged in: everyone who has a file open is misled.           *)
LEMMA ProbeKeeps ==
  ASSUME UsbIInv, NEW d \in UsbDev, sample_usb_driver_probe(d)
  PROVE  UsbIInv'
<1>1. UsbTypeOK'
  BY DEF sample_usb_driver_probe, UsbIInv, UsbTypeOK
<1>2. OwnInv'
  BY DEF sample_usb_driver_probe, UsbIInv, UsbTypeOK, OwnInv, Busy
<1>3. PluggedIsSafe'
  BY DEF sample_usb_driver_probe, PluggedIsSafe
<1> QED
  BY <1>1, <1>2, <1>3 DEF UsbIInv

(* A disconnect leaves device and bulk_buf as they are. *)
LEMMA RemoveKeeps ==
  ASSUME UsbIInv, NEW d \in UsbDev, sample_usb_driver_remove(d)
  PROVE  UsbIInv'
<1>1. UsbTypeOK'
  BY DEF sample_usb_driver_remove, UsbIInv, UsbTypeOK
<1>2. OwnInv'
  BY DEF sample_usb_driver_remove, UsbIInv, OwnInv, Busy
<1>3. PluggedIsSafe'
  BY DEF sample_usb_driver_remove, PluggedIsSafe
<1> QED
  BY <1>1, <1>2, <1>3 DEF UsbIInv

(* An open of another device than the last probed one is misled. *)
LEMMA OpenKeeps ==
  ASSUME UsbIInv, NEW p \in User, pen_drive_open(p)
  PROVE  UsbIInv'
<1>1. PICK d \in minors : /\ file' = [file EXCEPT ![p] = d]
                          /\ misled' = IF d = device THEN misled ELSE misled \cup {p}
  BY DEF pen_drive_open
<1>2. d \in UsbDev
  BY DEF UsbIInv, UsbTypeOK
<1>3. UsbTypeOK'
  BY <1>1, <1>2 DEF pen_drive_open, UsbIInv, UsbTypeOK
<1>4. OwnInv'
  BY <1>1, <1>2, UsbAssumption DEF pen_drive_open, UsbIInv, UsbTypeOK, OwnInv, Busy
<1>5. PluggedIsSafe'
  BY DEF pen_drive_open, PluggedIsSafe
<1> QED
  BY <1>3, <1>4, <1>5 DEF UsbIInv

(* What a process leaves behind when its call is over, whatever its result.  *)
LEMMA ForgetKeeps ==
  ASSUME UsbIInv, NEW p \in User, Forget(p), ucrash = {},
         UNCHANGED <<bus, minors, device, bulk_buf, ucrash>>,
         \/ UNCHANGED <<file, misled>>
         \/ file' = [file EXCEPT ![p] = NoDev] /\ misled' = misled \ {p}
  PROVE  UsbIInv'
<1>1. UsbTypeOK'
  BY DEF Forget, UStep, UsbIInv, UsbTypeOK
<1>2. \A q \in User : q # p => /\ file'[q] = file[q] /\ ustep'[q] = ustep[q]
                               /\ target'[q] = target[q] /\ moved'[q] = moved[q]
                               /\ q \in misled' <=> q \in misled
                               /\ q \in overlapped' <=> q \in overlapped
  BY DEF Forget, UStep, UsbIInv, UsbTypeOK
<1>3. ustep'[p] = "user" /\ (file'[p] # NoDev => UNCHANGED <<file, misled>>)
  BY DEF Forget, UStep, UsbIInv, UsbTypeOK
<1>4. OwnInv'
  BY <1>2, <1>3 DEF UsbIInv, OwnInv, Busy
<1>5. PluggedIsSafe'
  BY DEF PluggedIsSafe
<1> QED
  BY <1>1, <1>4, <1>5 DEF UsbIInv

(* A call that begins while another one is under way marks both.             *)
LEMMA EntersMarks ==
  ASSUME UsbIInv, NEW p \in User, NEW l \in {"recv", "filled"}, Enters(p, l)
  PROVE  /\ Busy' = Busy \cup {p}
         /\ overlapped' \subseteq User
         /\ \A q, r \in Busy' : q # r => q \in overlapped'
         /\ \A q \in User : q # p => ustep'[q] = ustep[q] /\ moved'[q] = moved[q]
         /\ \A q \in User : q # p /\ q \in overlapped => q \in overlapped'
         /\ \A q \in User : q # p /\ q \in Busy => p \in overlapped' /\ q \in overlapped'
         /\ ustep'[p] = l /\ file[p] # NoDev /\ ucrash = {}
<1>1. \A q \in User : ustep'[q] = IF q = p THEN l ELSE ustep[q]
  BY DEF Enters, UStep, UsbIInv, UsbTypeOK
<1>2. Busy' = Busy \cup {p}
  BY <1>1 DEF Busy
<1> QED
  BY <1>1, <1>2 DEF Enters, UsbIInv, UsbTypeOK, OwnInv, Busy

(* usb_bulk_msg works on the process's own device, if it was not misled.     *)
LEMMA BulkTarget ==
  ASSUME UsbIInv, NEW p \in User, usb_bulk_msg(p), file[p] # NoDev,
         UNCHANGED <<file, misled, bus, device>>
  PROVE  /\ target' \in [User -> UsbDev \cup {NoDev}]
         /\ \A q \in User : q # p => target'[q] = target[q]
         /\ p \notin misled => target'[p] = file[p]
         /\ PluggedIsSafe'
<1>1. p \notin misled => file[p] = device
  BY DEF UsbIInv, OwnInv
<1>2. target' = [target EXCEPT ![p] = device]
  BY DEF usb_bulk_msg
<1>3. target' \in [User -> UsbDev \cup {NoDev}]
  BY <1>2 DEF UsbIInv, UsbTypeOK
<1>4. /\ \A q \in User : q # p => target'[q] = target[q]
      /\ p \notin misled => target'[p] = file[p]
  BY <1>1, <1>2 DEF UsbIInv, UsbTypeOK
<1>5. PluggedIsSafe'
  BY <1>1 DEF usb_bulk_msg, PluggedIsSafe
<1> QED
  BY <1>3, <1>4, <1>5

(* A read finds its own data in bulk_buf if it is alone in its call. *)
LEMMA ReadKeeps ==
  ASSUME UsbIInv, NEW p \in User, pen_drive_read(p)
  PROVE  UsbIInv'
<1> USE DEF pen_drive_read
<1>0. UNCHANGED <<bus, minors, device, file, misled>>
  OBVIOUS
<1>1. CASE Enters(p, "recv") /\ usb_bulk_msg(p) /\ UNCHANGED bulk_buf
  <2>1. /\ \A q, r \in Busy' : q # r => q \in overlapped'
        /\ \A q \in User : q # p => ustep'[q] = ustep[q] /\ moved'[q] = moved[q]
        /\ \A q \in User : q # p /\ q \in overlapped => q \in overlapped'
        /\ ustep'[p] = "recv" /\ file[p] # NoDev
        /\ overlapped' \subseteq User
    BY <1>1, EntersMarks
  <2>2. /\ target' \in [User -> UsbDev \cup {NoDev}]
        /\ \A q \in User : q # p => target'[q] = target[q]
        /\ p \notin misled => target'[p] = file[p]
        /\ PluggedIsSafe'
    BY <1>0, <1>1, <2>1, BulkTarget
  <2>3. UsbTypeOK'
    BY <1>0, <1>1, <2>1, <2>2 DEF Enters, UStep, UsbIInv, UsbTypeOK
  <2>4. OwnInv'
    BY <1>0, <1>1, <2>1, <2>2 DEF UsbIInv, OwnInv
  <2> QED
    BY <2>2, <2>3, <2>4 DEF UsbIInv
<1>2. CASE /\ ucrash = {} /\ ustep[p] = "recv"
           /\ bulk_buf' = p
           /\ UStep(p, "copy") /\ UNCHANGED <<target, moved, overlapped, ucrash>>
  <2>1. UsbTypeOK'
    BY <1>0, <1>2 DEF UStep, UsbIInv, UsbTypeOK
  <2>2. \A q \in User : ustep'[q] = IF q = p THEN "copy" ELSE ustep[q]
    BY <1>2 DEF UStep, UsbIInv, UsbTypeOK
  <2>3. p \in Busy /\ Busy' = Busy
    BY <1>2, <2>2 DEF Busy
  <2>4. \A q \in User : q # p /\ ustep[q] \in {"copy", "filled", "send"} => q \in overlapped
    BY <2>3 DEF UsbIInv, OwnInv, Busy
  <2>5. OwnInv'
    BY <1>0, <1>2, <2>2, <2>3, <2>4 DEF UsbIInv, OwnInv
  <2>6. PluggedIsSafe'
    BY <1>2 DEF PluggedIsSafe
  <2> QED
    BY <2>1, <2>5, <2>6 DEF UsbIInv
<1>3. CASE ucrash = {} /\ Forget(p) /\ UNCHANGED <<bulk_buf, ucrash>>
  BY <1>0, <1>3, ForgetKeeps
<1>4. CASE /\ ucrash = {} /\ ustep[p] = "copy"
           /\ moved' = [moved EXCEPT ![p] = bulk_buf]
           /\ UStep(p, "read") /\ UNCHANGED <<bulk_buf, target, overlapped, ucrash>>
  <2>1. UsbTypeOK'
    BY <1>0, <1>4 DEF UStep, UsbIInv, UsbTypeOK
  <2>2. \A q \in User : /\ ustep'[q] = IF q = p THEN "read" ELSE ustep[q]
                        /\ moved'[q] = IF q = p THEN bulk_buf ELSE moved[q]
    BY <1>4 DEF UStep, UsbIInv, UsbTypeOK
  <2>3. Busy' \subseteq Busy
    BY <2>2 DEF Busy
  <2>4. OwnInv'
    BY <1>0, <1>4, <2>2, <2>3 DEF UsbIInv, OwnInv
  <2>5. PluggedIsSafe'
    BY <1>4 DEF PluggedIsSafe
  <2> QED
    BY <2>1, <2>4, <2>5 DEF UsbIInv
<1> QED
  BY <1>1, <1>2, <1>3, <1>4

(* A write sends its own data if it is alone in its call. *)
LEMMA WriteKeeps ==
  ASSUME UsbIInv, NEW p \in User, pen_drive_write(p)
  PROVE  UsbIInv'
<1> USE DEF pen_drive_write
<1>0. UNCHANGED <<bus, minors, device, file, misled>>
  OBVIOUS
<1>1. CASE Enters(p, "filled") /\ bulk_buf' = p /\ UNCHANGED <<target, ucrash>>
  <2>1. /\ \A q, r \in Busy' : q # r => q \in overlapped'
        /\ \A q \in User : q # p => ustep'[q] = ustep[q] /\ moved'[q] = moved[q]
        /\ \A q \in User : q # p /\ q \in overlapped => q \in overlapped'
        /\ \A q \in User : q # p /\ q \in Busy => q \in overlapped'
        /\ ustep'[p] = "filled" /\ file[p] # NoDev
        /\ overlapped' \subseteq User /\ ucrash = {}
    BY <1>1, EntersMarks
  <2>2. UsbTypeOK'
    BY <1>0, <1>1, <2>1 DEF Enters, UStep, UsbIInv, UsbTypeOK
  <2>3. \A q \in User : q # p /\ ustep[q] \in {"copy", "filled", "send"} => q \in overlapped'
    BY <2>1 DEF Busy
  <2>4. OwnInv'
    BY <1>0, <1>1, <2>1, <2>3 DEF UsbIInv, OwnInv
  <2>5. PluggedIsSafe'
    BY <1>1, <2>1 DEF PluggedIsSafe
  <2> QED
    BY <2>2, <2>4, <2>5 DEF UsbIInv
<1>2. CASE /\ ucrash = {} /\ ustep[p] = "filled"
           /\ usb_bulk_msg(p)
           /\ UStep(p, "send") /\ UNCHANGED <<bulk_buf, moved, overlapped>>
  <2>1. file[p] # NoDev
    BY <1>2 DEF UsbIInv, OwnInv
  <2>2. /\ target' \in [User -> UsbDev \cup {NoDev}]
        /\ \A q \in User : q # p => target'[q] = target[q]
        /\ p \notin misled => target'[p] = file[p]
        /\ PluggedIsSafe'
    BY <1>0, <1>2, <2>1, BulkTarget
  <2>3. UsbTypeOK'
    BY <1>0, <1>2, <2>2 DEF UStep, UsbIInv, UsbTypeOK
  <2>4. \A q \in User : ustep'[q] = IF q = p THEN "send" ELSE ustep[q]
    BY <1>2 DEF UStep, UsbIInv, UsbTypeOK
  <2>5. Busy' = Busy
    BY <1>2, <2>4 DEF Busy
  <2>6. OwnInv'
    BY <1>0, <1>2, <2>1, <2>2, <2>4, <2>5 DEF UsbIInv, OwnInv
  <2> QED
    BY <2>2, <2>3, <2>6 DEF UsbIInv
<1>3. CASE /\ ucrash = {} /\ ustep[p] = "send"
           /\ moved' = [moved EXCEPT ![p] = bulk_buf]
           /\ UStep(p, "written") /\ UNCHANGED <<bulk_buf, target, overlapped, ucrash>>
  <2>1. UsbTypeOK'
    BY <1>0, <1>3 DEF UStep, UsbIInv, UsbTypeOK
  <2>2. \A q \in User : /\ ustep'[q] = IF q = p THEN "written" ELSE ustep[q]
                        /\ moved'[q] = IF q = p THEN bulk_buf ELSE moved[q]
    BY <1>3 DEF UStep, UsbIInv, UsbTypeOK
  <2>3. Busy' \subseteq Busy
    BY <2>2 DEF Busy
  <2>4. OwnInv'
    BY <1>0, <1>3, <2>2, <2>3 DEF UsbIInv, OwnInv
  <2>5. PluggedIsSafe'
    BY <1>3 DEF PluggedIsSafe
  <2> QED
    BY <2>1, <2>4, <2>5 DEF UsbIInv
<1>4. CASE ucrash = {} /\ Forget(p) /\ UNCHANGED <<bulk_buf, ucrash>>
  BY <1>0, <1>4, ForgetKeeps
<1> QED
  BY <1>1, <1>2, <1>3, <1>4

(* Every step of the USB driver keeps its invariant. *)
LEMMA UsbInductive == UsbIInv /\ [UsbNext]_usbvars => UsbIInv'
<1> SUFFICES ASSUME UsbIInv, [UsbNext]_usbvars
             PROVE  UsbIInv'
  OBVIOUS
<1>1. ASSUME NEW d \in UsbDev, sample_usb_driver_probe(d) \/ sample_usb_driver_remove(d)
      PROVE  UsbIInv'
  BY <1>1, ProbeKeeps, RemoveKeeps
<1>2. ASSUME NEW p \in User, pen_drive_open(p)
      PROVE  UsbIInv'
  BY <1>2, OpenKeeps
<1>3. ASSUME NEW p \in User, pen_drive_close(p)
      PROVE  UsbIInv'
  BY <1>3, ForgetKeeps DEF pen_drive_close
<1>4. ASSUME NEW p \in User, pen_drive_read(p) \/ pen_drive_write(p)
      PROVE  UsbIInv'
  BY <1>4, ReadKeeps, WriteKeeps
<1>5. CASE UNCHANGED usbvars
  BY <1>5 DEF usbvars, UsbIInv, UsbTypeOK, OwnInv, Busy, PluggedIsSafe
<1> QED
  BY <1>1, <1>2, <1>3, <1>4, <1>5 DEF UsbNext

(* Who has which device open, and whose data bulk_buf holds, is an invariant *)
(* of the USB driver.                                                        *)
THEOREM UsbInvariance == UsbSpec => []UsbIInv
  BY UsbInitial, UsbInductive, PTL DEF UsbSpec

(* However many devices and processes share device and bulk_buf, a call that *)
(* no other call overlaps and that was not misled moves its own data, to or  *)
(* from its own device.                                                      *)
THEOREM LoneTransferTheorem == UsbSpec => []LoneTransferIsOwn
<1>1. UsbIInv => LoneTransferIsOwn
  BY DEF UsbIInv, OwnInv, LoneTransferIsOwn
<1> QED
  BY UsbInvariance, <1>1, PTL

(* A process meets a freed usb_device only if its own device was unplugged   *)
(* or another one was probed since.                                          *)
THEOREM PluggedTheorem == UsbSpec => []PluggedIsSafe
<1>1. UsbIInv => PluggedIsSafe
  BY DEF UsbIInv
<1> QED
  BY UsbInvariance, <1>1, PTL

-------------------------------------------------------------------------------
(* The PCI driver. *)

(* A region is a device and one of its BARs. *)
LEMMA RegionIs ==
  /\ \A d, b : <<d, b>> \in Region <=> d \in PciDev /\ b \in Bars[d]
  /\ \A r \in Region : r[1] \in PciDev /\ r[2] \in Bars[r[1]] /\ r = <<r[1], r[2]>>
  /\ \A d \in PciDev : Bars[d] \subseteq Bar
  BY PciAssumption DEF Region, Bar

(* A loop that has left the BARs has been through all of them. *)
LEMMA LoopEnd ==
  ASSUME PciTypeOK, NEW d \in PciDev, i[d] \notin Bar
  PROVE  \A b \in Bars[d] : b < i[d]
<1>1. i[d] = NBar
  BY PciAssumption DEF PciTypeOK, Bar
<1> QED
  BY <1>1, RegionIs, PciAssumption DEF Bar

(* The driver holds no region at first. *)
LEMMA PciInitial == PciInit => PciIInv
<1> SUFFICES ASSUME PciInit
             PROVE  PciIInv
  OBVIOUS
<1>1. PciTypeOK
  BY PciAssumption DEF PciInit, PciTypeOK
<1>2. RequestInv /\ AloneInv
  BY DEF PciInit, RequestInv, AloneInv
<1>3. RemoveReleasesAll /\ TakenWasRefused
  BY DEF PciInit, RemoveReleasesAll, TakenWasRefused
<1> QED
  BY <1>1, <1>2, <1>3 DEF PciIInv

(* The other driver never touches what the driver holds. *)
LEMMA OtherKeeps ==
  ASSUME PciIInv, OtherDriver
  PROVE  PciIInv'
<1>1. PICK r \in Region :
        /\ region[r] # "driver"
        /\ region' = [region EXCEPT ![r] = IF @ = "other" THEN "nobody" ELSE "other"]
  BY DEF OtherDriver
<1>2. UNCHANGED <<pstate, i, iobase, refused, disturbed, taken>>
  BY DEF OtherDriver
<1>3. PciTypeOK'
  BY <1>1, <1>2 DEF PciIInv, PciTypeOK
<1>4. \A s \in Region : region'[s] = "driver" <=> region[s] = "driver"
  BY <1>1 DEF PciIInv, PciTypeOK
<1>5. RequestInv'
  <2> SUFFICES ASSUME NEW d \in PciDev, pstate[d] # "out", NEW b \in Pending(d)
               PROVE  region'[<<d, b>>] = "driver" \/ <<d, b>> \in refused
    BY <1>2 DEF RequestInv, Pending
  <2>1. <<d, b>> \in Region
    BY RegionIs DEF Pending
  <2> QED
    BY <1>4, <2>1 DEF PciIInv, RequestInv
<1>6. AloneInv'
  BY <1>2, <1>4, RegionIs DEF PciIInv, AloneInv, Probed
<1>7. RemoveReleasesAll' /\ TakenWasRefused'
  BY <1>2, <1>4 DEF PciIInv, RemoveReleasesAll, TakenWasRefused
<1> QED
  BY <1>3, <1>5, <1>6, <1>7 DEF PciIInv

(* A probe that begins disturbs the devices that are in the driver's hands,  *)
(* and is disturbed by a probe that is under way.                            *)
LEMMA ProbeStartKeeps ==
  ASSUME PciIInv, NEW d \in PciDev, ProbeStart(d)
  PROVE  PciIInv'
<1>1. /\ \A e \in PciDev : /\ pstate'[e] = IF e = d THEN "probe" ELSE pstate[e]
                           /\ i'[e] = IF e = d THEN 0 ELSE i[e]
      /\ pstate[d] = "out" /\ UNCHANGED <<iobase, region>>
  BY DEF ProbeStart, PciIInv, PciTypeOK
<1>2. /\ \A e \in PciDev : e # d => (e \in disturbed' <=> e \in disturbed \/ pstate[e] # "out")
      /\ d \notin disturbed' => \A e \in PciDev \ {d} : pstate[e] # "probe"
      /\ disturbed' \subseteq PciDev
  BY DEF ProbeStart, PciIInv, PciTypeOK
<1>3. \A e \in PciDev : \A b : e # d => (<<e, b>> \in refused' <=> <<e, b>> \in refused)
  BY DEF ProbeStart, Of
<1>4. PciTypeOK'
  BY <1>2, PciAssumption DEF ProbeStart, PciIInv, PciTypeOK
<1>5. \A b \in Bars[d] : ~ (b < 0)
  BY RegionIs, PciAssumption DEF Bar
<1>6. RequestInv'
  <2> SUFFICES ASSUME NEW e \in PciDev, pstate'[e] # "out", NEW b \in Pending(e)'
               PROVE  region'[<<e, b>>] = "driver" \/ <<e, b>> \in refused'
    BY DEF RequestInv
  <2>1. e # d
    BY <1>1, <1>5 DEF Pending
  <2>2. b \in Pending(e) /\ pstate[e] # "out"
    BY <1>1, <2>1 DEF Pending
  <2> QED
    BY <1>1, <1>3, <2>1, <2>2 DEF PciIInv, RequestInv
<1>7. AloneInv'
  <2> SUFFICES ASSUME NEW e \in PciDev \ disturbed', pstate'[e] # "out"
               PROVE  /\ \A c \in PciDev \ {e} : pstate'[c] # "probe"
                      /\ \A b \in Probed(e)' : iobase'[b] = e
                      /\ pstate'[e] # "remove"
    BY DEF AloneInv
  <2>1. e = d
    BY <1>1, <1>2
  <2> QED
    BY <1>1, <1>2, <1>5, <2>1 DEF Probed
<1>8. RemoveReleasesAll'
  BY <1>1, <1>2, RegionIs DEF PciIInv, RemoveReleasesAll
<1>9. TakenWasRefused'
  BY DEF ProbeStart, PciIInv, TakenWasRefused
<1> QED
  BY <1>4, <1>6, <1>7, <1>8, <1>9 DEF PciIInv

(* One round of probe's loop: the region is the driver's or was refused, and *)
(* its address is noted in either case.                                      *)
LEMMA ProbeBarKeeps ==
  ASSUME PciIInv, NEW d \in PciDev, ProbeBar(d)
  PROVE  PciIInv'
<1> DEFINE b == i[d]
           r == <<d, b>>
<1>1. pstate[d] = "probe" /\ b \in Bar /\ UNCHANGED <<pstate, disturbed, taken>>
  BY DEF ProbeBar
<1>2. r \in Region <=> b \in Bars[d]
  BY RegionIs
<1>3. iobase' = [iobase EXCEPT ![b] = IF r \in Region THEN d ELSE "none"]
  BY DEF ProbeBar
<1>4. /\ region' \in [Region -> {"nobody", "driver", "other"}]
      /\ \A s \in Region : s # r => region'[s] = region[s]
      /\ refused \subseteq refused'
      /\ r \in Region => region'[r] = "driver" \/ r \in refused'
  BY DEF ProbeBar, PciIInv, PciTypeOK
<1>5. i' = [i EXCEPT ![d] = b + 1] /\ i[d] \in 0 .. NBar
  BY DEF ProbeBar, PciIInv, PciTypeOK
<1>6. b + 1 \in 0 .. NBar
  BY <1>1, PciAssumption DEF Bar
<1>7. PciTypeOK'
  BY <1>1, <1>3, <1>4, <1>5, <1>6 DEF PciIInv, PciTypeOK
<1>8. \A e \in PciDev : i'[e] = IF e = d THEN b + 1 ELSE i[e]
  BY <1>5 DEF PciIInv, PciTypeOK
<1>9. \A c \in Bars[d] : c \in Int /\ (c < b + 1 <=> c < b \/ c = b)
  BY <1>1, RegionIs, PciAssumption DEF Bar
<1> HIDE DEF b
<1>10. RequestInv'
  <2> SUFFICES ASSUME NEW e \in PciDev, pstate[e] # "out", NEW c \in Pending(e)'
               PROVE  region'[<<e, c>>] = "driver" \/ <<e, c>> \in refused'
    BY <1>1 DEF RequestInv
  <2>1. c \in Bars[e] /\ <<e, c>> \in Region
    BY RegionIs DEF Pending
  <2>2. CASE <<e, c>> = r
    BY <1>4, <2>1, <2>2
  <2>3. CASE <<e, c>> # r
    <3>1. c \in Pending(e)
      <4>1. CASE e = d
        BY <1>1, <1>8, <1>9, <2>1, <2>3, <4>1 DEF Pending, b
      <4>2. CASE e # d
        BY <1>1, <1>8, <2>1, <4>2 DEF Pending
      <4> QED
        BY <4>1, <4>2
    <3> QED
      BY <1>4, <2>1, <2>3, <3>1 DEF PciIInv, RequestInv
  <2> QED
    BY <2>2, <2>3
<1>11. AloneInv'
  <2> SUFFICES ASSUME NEW e \in PciDev \ disturbed, pstate[e] # "out"
               PROVE  /\ \A c \in PciDev \ {e} : pstate[c] # "probe"
                      /\ \A c \in Probed(e)' : iobase'[c] = e
                      /\ pstate[e] # "remove"
    BY <1>1 DEF AloneInv
  <2>1. /\ \A c \in PciDev \ {e} : pstate[c] # "probe"
        /\ \A c \in Probed(e) : iobase[c] = e
    BY DEF PciIInv, AloneInv
  <2>2. e = d
    BY <1>1, <2>1
  <2>3. ASSUME NEW c \in Probed(d)'
        PROVE  iobase'[c] = d
    <3>1. c \in Bars[d] /\ c \in Bar /\ (c < b \/ c = b)
      BY <1>1, <1>8, <1>9, <2>3, RegionIs DEF Probed
    <3>2. CASE c = b
      BY <1>1, <1>2, <1>3, <3>1, <3>2 DEF PciIInv, PciTypeOK
    <3>3. CASE c # b
      <4>1. c \in Probed(d)
        BY <3>1, <3>3 DEF Probed, b
      <4> QED
        BY <1>3, <2>1, <2>2, <3>1, <3>3, <4>1 DEF PciIInv, PciTypeOK
    <3> QED
      BY <3>2, <3>3
  <2> QED
    BY <1>1, <2>1, <2>2, <2>3
<1>12. RemoveReleasesAll'
  <2> SUFFICES ASSUME NEW s \in Region, pstate[s[1]] = "out", s[1] \notin disturbed
               PROVE  region'[s] # "driver"
    BY <1>1 DEF RemoveReleasesAll
  <2>1. s # r
    BY <1>1
  <2> QED
    BY <1>4, <2>1 DEF PciIInv, RemoveReleasesAll
<1>13. TakenWasRefused'
  BY <1>1, <1>4 DEF PciIInv, TakenWasRefused
<1> QED
  BY <1>7, <1>10, <1>11, <1>12, <1>13 DEF PciIInv

(* The end of probe's loop: every BAR of the device has been through it. *)
LEMMA ProbeEndKeeps ==
  ASSUME PciIInv, NEW d \in PciDev, ProbeEnd(d)
  PROVE  PciIInv'
<1>1. /\ \A e \in PciDev : /\ pstate'[e] = IF e = d THEN "bound" ELSE pstate[e]
                           /\ i'[e] = IF e = d THEN 0 ELSE i[e]
      /\ pstate[d] = "probe" /\ i[d] \notin Bar
      /\ UNCHANGED <<iobase, region, refused, disturbed, taken>>
  BY DEF ProbeEnd, PciIInv, PciTypeOK
<1>2. \A c \in Bars[d] : c < i[d]
  BY <1>1, LoopEnd DEF PciIInv
<1>3. PciTypeOK'
  BY PciAssumption DEF ProbeEnd, PciIInv, PciTypeOK
<1>4. \A e \in PciDev : Pending(e)' \subseteq Pending(e) /\ Probed(e)' \subseteq Probed(e)
  BY <1>1, <1>2 DEF Pending, Probed
<1>5. \A e \in PciDev : (pstate'[e] # "out" => pstate[e] # "out")
                        /\ (pstate'[e] = "probe" => pstate[e] = "probe")
                        /\ (pstate'[e] = "remove" => pstate[e] = "remove" /\ i'[e] = i[e])
                        /\ (pstate'[e] = "out" => pstate[e] = "out")
  BY <1>1
<1>6. RequestInv'
  BY <1>1, <1>4, <1>5 DEF PciIInv, RequestInv
<1>7. AloneInv'
  BY <1>1, <1>4, <1>5 DEF PciIInv, AloneInv
<1>8. RemoveReleasesAll' /\ TakenWasRefused'
  BY <1>1, <1>5, RegionIs DEF PciIInv, RemoveReleasesAll, TakenWasRefused
<1> QED
  BY <1>3, <1>6, <1>7, <1>8 DEF PciIInv

(* remove's loop starts at BAR 0 and ends behind the last one; a round       *)
(* releases its region, whoever holds it, if iobase has an address for it.   *)
LEMMA RemovePciKeeps ==
  ASSUME PciIInv, NEW d \in PciDev, sample_pci_driver_remove(d)
  PROVE  PciIInv'
<1> USE DEF sample_pci_driver_remove
<1>0. UNCHANGED <<iobase, refused, disturbed>>
  OBVIOUS
<1>1. CASE /\ pstate[d] = "bound"
           /\ pstate' = [pstate EXCEPT ![d] = "remove"] /\ i' = [i EXCEPT ![d] = First]
           /\ UNCHANGED <<region, taken>>
  <2>1. PciTypeOK'
    BY <1>0, <1>1, PciAssumption DEF PciIInv, PciTypeOK, First
  <2>2. \A e \in PciDev : /\ pstate'[e] = IF e = d THEN "remove" ELSE pstate[e]
                          /\ i'[e] = IF e = d THEN 0 ELSE i[e]
    BY <1>1 DEF PciIInv, PciTypeOK, First
  <2>3. \A c \in Bars[d] : ~ (c < 0)
    BY RegionIs, PciAssumption DEF Bar
  <2>4. \A e \in PciDev : Pending(e)' \subseteq Pending(e) /\ Probed(e)' \subseteq Probed(e)
    BY <1>1, <2>2 DEF Pending, Probed
  <2>5. RequestInv'
    BY <1>0, <1>1, <2>2, <2>4 DEF PciIInv, RequestInv
  <2>6. AloneInv'
    BY <1>0, <1>1, <2>2, <2>3, <2>4 DEF PciIInv, AloneInv
  <2>7. RemoveReleasesAll' /\ TakenWasRefused'
    BY <1>0, <1>1, <2>2, RegionIs DEF PciIInv, RemoveReleasesAll, TakenWasRefused
  <2> QED
    BY <2>1, <2>5, <2>6, <2>7 DEF PciIInv
<1>2. CASE /\ pstate[d] = "remove" /\ i[d] \in Bar
           /\ LET r == <<d, i[d]>> IN
              IF Noted(i[d]) /\ r \in Region /\ region[r] # "nobody"
                THEN /\ region' = [region EXCEPT ![r] = "nobody"]
                     /\ taken' = IF region[r] = "other" THEN taken \cup {r} ELSE taken
                ELSE UNCHANGED <<region, taken>>
           /\ i' = [i EXCEPT ![d] = @ + 1] /\ UNCHANGED pstate
  <2> DEFINE b == i[d]
             r == <<d, b>>
  <2>1. b \in Bar /\ b + 1 \in 0 .. NBar /\ pstate[d] = "remove"
    BY <1>2, PciAssumption DEF Bar
  <2>2. \A c \in Bars[d] : c \in Int /\ (c < b + 1 <=> c < b \/ c = b) /\ (c >= b + 1 <=> c >= b /\ c # b)
    BY <2>1, RegionIs, PciAssumption DEF Bar
  <2>3. i' = [i EXCEPT ![d] = b + 1]
    BY <1>2
  <2>4. \A e \in PciDev : i'[e] = IF e = d THEN b + 1 ELSE i[e]
    BY <2>3 DEF PciIInv, PciTypeOK
  <2>5. /\ region' \in [Region -> {"nobody", "driver", "other"}]
        /\ \A s \in Region : s # r => region'[s] = region[s]
        /\ \A s \in Region : region'[s] = "driver" => region[s] = "driver"
    BY <1>2 DEF PciIInv, PciTypeOK
  <2>6. r \in Region /\ iobase[b] # "none" => region'[r] = "nobody"
    BY <1>2 DEF PciIInv, PciTypeOK, Noted
  <2>7. taken' \subseteq taken \cup {r} /\ (r \in taken' => r \in taken \/ (r \in Region /\ region[r] = "other"))
    BY <1>2
  <2>8. PciTypeOK'
    BY <1>0, <1>2, <2>1, <2>3, <2>5 DEF PciIInv, PciTypeOK
  <2>9. r \in Region => region[r] = "driver" \/ r \in refused
    <3>1. \A c \in Bars[d] : c = b => c \in Pending(d)
      BY <2>1, <2>2, PciAssumption DEF Pending, Bar
    <3> QED
      BY <2>1, <3>1, RegionIs DEF PciIInv, RequestInv
  <2>10. TakenWasRefused'
    BY <1>0, <2>7, <2>9 DEF PciIInv, TakenWasRefused
  <2> HIDE DEF b
  <2>11. RequestInv'
    <3> SUFFICES ASSUME NEW e \in PciDev, pstate[e] # "out", NEW c \in Pending(e)'
                 PROVE  region'[<<e, c>>] = "driver" \/ <<e, c>> \in refused
      BY <1>0, <1>2 DEF RequestInv
    <3>1. c \in Bars[e] /\ <<e, c>> \in Region
      BY RegionIs DEF Pending
    <3>2. c \in Pending(e) /\ <<e, c>> # r
      <4>1. CASE e = d
        BY <1>2, <2>2, <2>4, <3>1, <4>1 DEF Pending, b
      <4>2. CASE e # d
        BY <1>2, <2>4, <3>1, <4>2 DEF Pending
      <4> QED
        BY <4>1, <4>2
    <3> QED
      BY <2>5, <3>1, <3>2 DEF PciIInv, RequestInv
  <2>12. \A e \in PciDev : Probed(e)' = Probed(e)
    BY <1>2, <2>4 DEF Probed
  <2>13. AloneInv'
    <3> SUFFICES ASSUME NEW e \in PciDev \ disturbed, pstate[e] # "out"
                 PROVE  /\ \A c \in PciDev \ {e} : pstate[c] # "probe"
                        /\ \A c \in Probed(e) : iobase[c] = e
                        /\ pstate[e] = "remove" =>
                             \A c \in Bars[e] : c < i'[e] => region'[<<e, c>>] # "driver"
      BY <1>0, <1>2, <2>12 DEF AloneInv
    <3>1. /\ \A c \in PciDev \ {e} : pstate[c] # "probe"
          /\ \A c \in Probed(e) : iobase[c] = e
          /\ pstate[e] = "remove" => \A c \in Bars[e] : c < i[e] => region[<<e, c>>] # "driver"
      BY DEF PciIInv, AloneInv
    <3>2. ASSUME pstate[e] = "remove", NEW c \in Bars[e], c < i'[e]
          PROVE  region'[<<e, c>>] # "driver"
      <4>1. <<e, c>> \in Region
        BY RegionIs
      <4>2. CASE e = d /\ c = b
        <5>1. c \in Probed(e)
          BY <3>2 DEF Probed
        <5>2. iobase[b] # "none"
          BY <3>1, <4>2, <5>1, PciAssumption
        <5> QED
          BY <2>6, <4>1, <4>2, <5>2
      <4>3. CASE ~ (e = d /\ c = b)
        <5>1. c < i[e]
          BY <2>2, <2>4, <3>2, <4>3 DEF b
        <5> QED
          BY <2>5, <3>1, <3>2, <4>1, <5>1
      <4> QED
        BY <4>2, <4>3
    <3> QED
      BY <3>1, <3>2
  <2>14. RemoveReleasesAll'
    BY <1>0, <1>2, <2>5 DEF PciIInv, RemoveReleasesAll
  <2> QED
    BY <2>8, <2>10, <2>11, <2>13, <2>14 DEF PciIInv
<1>3. CASE /\ pstate[d] = "remove" /\ i[d] \notin Bar
           /\ pstate' = [pstate EXCEPT ![d] = "out"] /\ i' = [i EXCEPT ![d] = 0]
           /\ UNCHANGED <<region, taken>>
  <2>1. PciTypeOK'
    BY <1>0, <1>3, PciAssumption DEF PciIInv, PciTypeOK
  <2>2. \A e \in PciDev : /\ pstate'[e] = IF e = d THEN "out" ELSE pstate[e]
                          /\ e # d => i'[e] = i[e]
    BY <1>3 DEF PciIInv, PciTypeOK
  <2>3. \A c \in Bars[d] : c < i[d]
    BY <1>3, LoopEnd DEF PciIInv
  <2>4. \A e \in PciDev : e # d => Pending(e)' = Pending(e) /\ Probed(e)' = Probed(e)
    BY <2>2 DEF Pending, Probed
  <2>5. RequestInv'
    BY <1>0, <1>3, <2>2, <2>4 DEF PciIInv, RequestInv
  <2>6. AloneInv'
    BY <1>0, <1>3, <2>2, <2>4 DEF PciIInv, AloneInv
  <2>7. d \notin disturbed => \A c \in Bars[d] : region[<<d, c>>] # "driver"
    BY <1>3, <2>3 DEF PciIInv, AloneInv
  <2>8. RemoveReleasesAll'
    <3> SUFFICES ASSUME NEW s \in Region, pstate'[s[1]] = "out", s[1] \notin disturbed
                 PROVE  region[s] # "driver"
      BY <1>0, <1>3 DEF RemoveReleasesAll
    <3>1. s[1] \in PciDev /\ s[2] \in Bars[s[1]] /\ s = <<s[1], s[2]>>
      BY RegionIs
    <3>2. CASE s[1] = d
      BY <2>7, <3>1, <3>2
    <3>3. CASE s[1] # d
      BY <2>2, <3>1, <3>3 DEF PciIInv, RemoveReleasesAll
    <3> QED
      BY <3>2, <3>3
  <2>9. TakenWasRefused'
    BY <1>0, <1>3 DEF PciIInv, TakenWasRefused
  <2> QED
    BY <2>1, <2>5, <2>6, <2>8, <2>9 DEF PciIInv
<1> QED
  BY <1>1, <1>2, <1>3

(* Every step of the PCI driver and its rival keeps the invariant. *)
LEMMA PciInductive == PciIInv /\ [PciNext]_pcivars => PciIInv'
<1> SUFFICES ASSUME PciIInv, [PciNext]_pcivars
             PROVE  PciIInv'
  OBVIOUS
<1>1. CASE OtherDriver
  BY <1>1, OtherKeeps
<1>2. ASSUME NEW d \in PciDev, sample_pci_driver_probe(d)
      PROVE  PciIInv'
  BY <1>2, ProbeStartKeeps, ProbeBarKeeps, ProbeEndKeeps DEF sample_pci_driver_probe
<1>3. ASSUME NEW d \in PciDev, sample_pci_driver_remove(d)
      PROVE  PciIInv'
  BY <1>3, RemovePciKeeps
<1>4. CASE UNCHANGED pcivars
  <2> USE <1>4 DEF pcivars
  <2>1. PciTypeOK'
    BY DEF PciIInv, PciTypeOK
  <2>2. RequestInv' /\ AloneInv'
    BY DEF PciIInv, RequestInv, AloneInv, Pending, Probed
  <2>3. RemoveReleasesAll' /\ TakenWasRefused'
    BY DEF PciIInv, RemoveReleasesAll, TakenWasRefused
  <2> QED
    BY <2>1, <2>2, <2>3 DEF PciIInv
<1> QED
  BY <1>1, <1>2, <1>3, <1>4 DEF PciNext

(* What probe requested and noted, BAR by BAR, is an invariant of the PCI    *)
(* driver.                                                                   *)
THEOREM PciInvariance == PciSpec => []PciIInv
  BY PciInitial, PciInductive, PTL DEF PciSpec

(* For any number of devices and BARs, remove gives back every region of a   *)
(* device during whose life no other device was probed.                      *)
THEOREM RemoveTheorem == PciSpec => []RemoveReleasesAll
<1>1. PciIInv => RemoveReleasesAll
  BY DEF PciIInv
<1> QED
  BY PciInvariance, <1>1, PTL

(* remove takes a region from another driver only if probe's request for it  *)
(* had failed.                                                               *)
THEOREM TakenTheorem == PciSpec => []TakenWasRefused
<1>1. PciIInv => TakenWasRefused
  BY DEF PciIInv
<1> QED
  BY PciInvariance, <1>1, PTL
===============================================================================
