------------------------ MODULE DriftDetector_proofs ------------------------
(***************************************************************************)
(* The safety of the drift detector for every choice of its constants.     *)
(* IInv ties the counters of the code to the runs an observer counts, and  *)
(* the cooldown to the readings since the last trigger.                    *)
(***************************************************************************)
EXTENDS DriftDetector, TLAPS

\* Before the bootstrap ends nothing has been counted.
Fresh == ~Bootstrapped(det) => ghost = NewGhost /\ det = [NewDetector EXCEPT !.boot = det.boot]

\* Right after a trigger the counters are zero and the cooldown is whole.
AfterTrigger ==
  ghost.latest =>
    /\ det.alert /\ det.cooldown = CooldownSteps
    /\ det.over = 0 /\ det.hard = 0 /\ det.under = 0
    /\ ghost.quiet = 0

\* Otherwise the counters of the code are the runs of the observer.
CountersAreRuns ==
  ~ghost.latest =>
    /\ det.over = ghost.over
    /\ det.hard = ghost.hard
    /\ det.alert => det.under = ghost.quiet
    /\ ghost.over <= ghost.since

\* The cooldown is what is left of cooldown_steps since the last trigger.
CooldownIsRest ==
  ~ghost.latest =>
    /\ ghost.prior /\ det.cooldown > 0 => det.cooldown = CooldownSteps - ghost.since
    /\ ghost.prior /\ det.cooldown = 0 => ghost.since >= CooldownSteps
    /\ ~ghost.prior => det.cooldown = 0

IInv == TypeOK /\ Fresh /\ AfterTrigger /\ CountersAreRuns /\ CooldownIsRest
        /\ NoMissedDrift /\ AlertEndsWhenQuiet /\ CooldownHolds

-----------------------------------------------------------------------------
(* What a judged reading does to the state, one field at a time.           *)

\* Count and Release: a counter goes on exactly when its condition holds; a
\* release changes no counter that is not zero already.
LEMMA CountedFields ==
  ASSUME NEW d \in Detector, NEW r \in FiniteReading
  PROVE  /\ Counted(d, r) \in Detector
         /\ Counted(d, r).boot = d.boot
         /\ Counted(d, r).cooldown = d.cooldown
         /\ Counted(d, r).over = IF Over(r) THEN d.over + 1 ELSE 0
         /\ Counted(d, r).hard = IF Hard(r) THEN d.hard + 1 ELSE 0
         /\ Counted(d, r).under = IF Quiet(r) THEN d.under + 1 ELSE 0
         /\ Counted(d, r).alert = (d.alert /\ Counted(d, r).under < ResetSteps)
<1> DEFINE o == IF Over(r) THEN d.over + 1 ELSE 0
           h == IF Hard(r) THEN d.hard + 1 ELSE 0
           u == IF Quiet(r) THEN d.under + 1 ELSE 0
           c == [d EXCEPT !.over = o, !.hard = h, !.under = u]
<1>1. o \in Nat /\ h \in Nat /\ u \in Nat
  BY DEF Detector
<1>2. u # 0 => o = 0 /\ h = 0
  <2>1. r.dist \in Int /\ r.gap \in Nat
    BY DetectorAssumption DEF FiniteReading
  <2> QED  BY <2>1, DetectorAssumption DEF Over, Hard, Quiet
<1>3. Count(d, r) = c
  BY DEF Count
<1> HIDE DEF o, h, u
<1>4. /\ c \in Detector /\ c.boot = d.boot /\ c.cooldown = d.cooldown
      /\ c.alert = d.alert /\ c.over = o /\ c.hard = h /\ c.under = u
  BY <1>1 DEF Detector
<1>5. CASE c.alert /\ c.under >= ResetSteps
  <2>1. Counted(d, r) = [c EXCEPT !.alert = FALSE, !.over = 0, !.hard = 0]
    BY <1>3, <1>5 DEF Counted, Release
  <2>2. o = 0 /\ h = 0
    BY <1>1, <1>2, <1>4, <1>5, DetectorAssumption
  <2> HIDE DEF c
  <2>3. /\ Counted(d, r) \in Detector /\ ~Counted(d, r).alert
        /\ Counted(d, r).boot = d.boot /\ Counted(d, r).cooldown = d.cooldown
        /\ Counted(d, r).over = o /\ Counted(d, r).hard = h
        /\ Counted(d, r).under = u
    BY <1>4, <2>1, <2>2 DEF Detector
  <2>4. ~(u < ResetSteps)
    BY <1>1, <1>4, <1>5, DetectorAssumption
  <2> QED  BY <2>3, <2>4 DEF o, h, u, Detector
<1>6. CASE ~(c.alert /\ c.under >= ResetSteps)
  <2>1. Counted(d, r) = c
    BY <1>3, <1>6 DEF Counted, Release
  <2> HIDE DEF c
  <2>2. c.alert = (d.alert /\ u < ResetSteps)
    BY <1>1, <1>4, <1>6, DetectorAssumption DEF Detector
  <2> QED  BY <1>4, <2>1, <2>2 DEF o, h, u
<1> QED  BY <1>5, <1>6

\* What the call leaves behind, with and without a trigger.
LEMMA JudgedFields ==
  ASSUME NEW d \in Detector, NEW r \in FiniteReading, Bootstrapped(d)
  PROVE  LET c == Counted(d, r)
             n == RobustThresholdStep(d, r)
         IN  /\ n \in Detector /\ n.boot = d.boot
             /\ Verdict(d, r) =>
                  /\ n.alert /\ n.cooldown = CooldownSteps
                  /\ n.over = 0 /\ n.hard = 0 /\ n.under = 0
             /\ ~Verdict(d, r) =>
                  /\ n.alert = c.alert
                  /\ n.over = c.over /\ n.hard = c.hard /\ n.under = c.under
                  /\ n.cooldown = IF d.cooldown > 0 THEN d.cooldown - 1 ELSE 0
<1> DEFINE c == Counted(d, r)
           n == RobustThresholdStep(d, r)
<1>1. c \in Detector /\ c.boot = d.boot /\ c.cooldown = d.cooldown
  BY CountedFields
<1>2. r.finite
  BY DEF FiniteReading
<1> HIDE DEF c
<1>3. CASE Verdict(d, r)
  <2>1. n = [c EXCEPT !.alert = TRUE, !.cooldown = CooldownSteps,
                      !.over = 0, !.hard = 0, !.under = 0]
    BY <1>2, <1>3 DEF RobustThresholdStep, Trigger, c
  <2> HIDE DEF n
  <2>2. /\ n \in Detector /\ n.boot = d.boot /\ n.alert
        /\ n.cooldown = CooldownSteps
        /\ n.over = 0 /\ n.hard = 0 /\ n.under = 0
    <3>1. CooldownSteps \in 0..CooldownSteps
      BY DetectorAssumption
    <3> QED  BY <1>1, <2>1, <3>1 DEF Detector
  <2> QED  BY <1>3, <2>2 DEF n
<1>4. CASE ~Verdict(d, r)
  <2> DEFINE rest == IF c.cooldown > 0 THEN c.cooldown - 1 ELSE c.cooldown
  <2>1. n = [c EXCEPT !.cooldown = rest]
    BY <1>2, <1>4 DEF RobustThresholdStep, Cool, c
  <2>2. /\ rest \in 0..CooldownSteps
        /\ rest = IF d.cooldown > 0 THEN d.cooldown - 1 ELSE 0
    BY <1>1, DetectorAssumption DEF Detector
  <2> HIDE DEF n, rest
  <2>3. /\ n \in Detector /\ n.boot = d.boot /\ n.alert = c.alert
        /\ n.over = c.over /\ n.hard = c.hard /\ n.under = c.under
        /\ n.cooldown = rest
    BY <1>1, <2>1, <2>2 DEF Detector
  <2> QED  BY <1>4, <2>2, <2>3 DEF n, c
<1> QED  BY <1>3, <1>4

\* The verdict in terms of the counters before the call.
LEMMA VerdictFields ==
  ASSUME NEW d \in Detector, NEW r \in FiniteReading, Bootstrapped(d)
  PROVE  LET c == Counted(d, r)
         IN  Verdict(d, r) <=> \/ d.cooldown > 0 /\ c.hard >= HardSteps
                               \/ d.cooldown = 0 /\ (Jumps(r) \/ c.over >= TriggerSteps)
<1>1. r.finite
  BY DEF FiniteReading
<1> QED  BY <1>1, CountedFields DEF Verdict, ShouldTrigger

-----------------------------------------------------------------------------
(* The invariant.                                                          *)

LEMMA RunNat ==
  ASSUME NEW g \in Ghost, NEW n \in Nat, NEW b \in BOOLEAN
  PROVE  Run(g, n, b) \in Nat
BY DEF Run, Ghost

LEMMA ObserveType ==
  ASSUME NEW g \in Ghost, NEW r \in FiniteReading, NEW v \in BOOLEAN
  PROVE  Observe(g, r, v) \in Ghost
<1>1. Over(r) \in BOOLEAN /\ Hard(r) \in BOOLEAN /\ Quiet(r) \in BOOLEAN
  BY DEF Over, Hard, Quiet
<1>2. /\ Run(g, g.since, TRUE) \in Nat /\ Run(g, g.over, Over(r)) \in Nat
      /\ Run(g, g.hard, Hard(r)) \in Nat /\ Run(g, g.quiet, Quiet(r)) \in Nat
  BY <1>1 DEF Run, Ghost
<1> QED  BY <1>2 DEF Observe, Ghost

LEMMA InitInv == Init => IInv
BY DetectorAssumption, MaxCallsAssumption
   DEF Init, IInv, TypeOK, Fresh, AfterTrigger, CountersAreRuns, CooldownIsRest,
       NoMissedDrift, AlertEndsWhenQuiet, CooldownHolds, NewDetector, NewGhost,
       Detector, Ghost, Bootstrapped, Larger

\* One reading after the bootstrap, the only step that is not immediate.
LEMMA JudgeInv ==
  ASSUME IInv, NEW r \in Reading, StepJudge(r), calls' \in 0..MaxCalls
  PROVE  IInv'
<1> DEFINE c == Counted(det, r)
           v == Verdict(det, r)
<1>1. r \in FiniteReading /\ r.finite /\ Bootstrapped(det)
  BY DEF StepJudge, Reading, FiniteReading, NaNReading
<1>2. det \in Detector /\ ghost \in Ghost /\ v \in BOOLEAN
  BY DEF IInv, TypeOK, Verdict, ShouldTrigger
<1>3. /\ det' \in Detector /\ det'.boot = det.boot
      /\ v => /\ det'.alert /\ det'.cooldown = CooldownSteps
              /\ det'.over = 0 /\ det'.hard = 0 /\ det'.under = 0
      /\ ~v => /\ det'.alert = c.alert
               /\ det'.over = c.over /\ det'.hard = c.hard /\ det'.under = c.under
               /\ det'.cooldown = IF det.cooldown > 0 THEN det.cooldown - 1 ELSE 0
  BY <1>1, <1>2, JudgedFields DEF StepJudge
<1>4. /\ c.over = IF Over(r) THEN det.over + 1 ELSE 0
      /\ c.hard = IF Hard(r) THEN det.hard + 1 ELSE 0
      /\ c.under = IF Quiet(r) THEN det.under + 1 ELSE 0
      /\ c.alert = (det.alert /\ c.under < ResetSteps)
  BY <1>1, <1>2, CountedFields
<1>5. v <=> \/ det.cooldown > 0 /\ c.hard >= HardSteps
            \/ det.cooldown = 0 /\ (Jumps(r) \/ c.over >= TriggerSteps)
  BY <1>1, <1>2, VerdictFields
<1>6. /\ ghost' \in Ghost /\ ghost'.latest = v
      /\ ghost'.prior = (ghost.prior \/ ghost.latest)
      /\ ghost'.since = IF ghost.latest THEN 1 ELSE ghost.since + 1
      /\ ghost'.over = IF ~Over(r) THEN 0 ELSE IF ghost.latest THEN 1 ELSE ghost.over + 1
      /\ ghost'.hard = IF ~Hard(r) THEN 0 ELSE IF ghost.latest THEN 1 ELSE ghost.hard + 1
      /\ ghost'.quiet = IF ~Quiet(r) THEN 0 ELSE IF ghost.latest THEN 1 ELSE ghost.quiet + 1
  BY <1>1, <1>2, ObserveType DEF StepJudge, Observe, Run
<1>7. Over(r) \/ Hard(r) \/ Jumps(r) => ~Quiet(r)
  <2>1. r.dist \in Int /\ r.gap \in Nat
    BY <1>1, DetectorAssumption DEF FiniteReading
  <2> QED  BY <2>1, DetectorAssumption DEF Over, Hard, Quiet, Jumps
<1>8. Fresh' /\ TypeOK'
  BY <1>1, <1>2, <1>3, <1>6 DEF Fresh, TypeOK, Bootstrapped
<1> HIDE DEF c, v
<1>9. AfterTrigger'
  BY <1>2, <1>3, <1>4, <1>5, <1>6, <1>7, DetectorAssumption DEF AfterTrigger
<1>10. CountersAreRuns'
  BY <1>2, <1>3, <1>4, <1>5, <1>6, <1>7
     DEF CountersAreRuns, IInv, AfterTrigger, Ghost, Detector
<1>11. CooldownIsRest'
  BY <1>2, <1>3, <1>4, <1>5, <1>6, <1>7, DetectorAssumption
     DEF CooldownIsRest, IInv, AfterTrigger, Ghost, Detector
<1>12. NoMissedDrift'
  BY <1>2, <1>3, <1>4, <1>5, <1>6, <1>7, DetectorAssumption
     DEF CooldownIsRest, CountersAreRuns, NoMissedDrift, IInv, AfterTrigger, Ghost, Detector, Larger
<1>13. AlertEndsWhenQuiet'
  <2>1. CASE v
    BY <1>6, <1>9, <2>1, DetectorAssumption DEF AlertEndsWhenQuiet, AfterTrigger
  <2>2. CASE ~v
    <3>1. det'.alert => det'.under < ResetSteps
      BY <1>3, <1>4, <2>2
    <3>2. det'.alert => det'.under = ghost'.quiet
      BY <1>6, <1>10, <2>2 DEF CountersAreRuns
    <3> QED  BY <3>1, <3>2 DEF AlertEndsWhenQuiet
  <2> QED  BY <1>2, <2>1, <2>2
<1>14. CooldownHolds'
  BY <1>2, <1>3, <1>4, <1>5, <1>6, <1>7, DetectorAssumption
     DEF CooldownIsRest, CountersAreRuns, CooldownHolds, IInv, AfterTrigger, Ghost, Detector
<1> QED  BY <1>8, <1>9, <1>10, <1>11, <1>12, <1>13, <1>14 DEF IInv

LEMMA NextInv == IInv /\ [Next]_vars => IInv'
<1> SUFFICES ASSUME IInv, [Next]_vars PROVE IInv'
  OBVIOUS
<1> USE DEF IInv
<1>1. CASE UNCHANGED vars
  BY <1>1 DEF vars, TypeOK, Fresh, AfterTrigger, CountersAreRuns, CooldownIsRest,
              NoMissedDrift, AlertEndsWhenQuiet, CooldownHolds, Bootstrapped
<1>2. ASSUME NEW r \in Reading, Step(r)
      PROVE  IInv'
  <2>1. calls' \in 0..MaxCalls
    BY <1>2, MaxCallsAssumption DEF Step, TypeOK
  <2>2. CASE StepNaN(r)
    BY <2>1, <2>2 DEF StepNaN, TypeOK, Fresh, AfterTrigger, CountersAreRuns,
       CooldownIsRest, NoMissedDrift, AlertEndsWhenQuiet, CooldownHolds, Bootstrapped
  <2>3. CASE StepBootstrap(r)
    <3>1. /\ det' = [det EXCEPT !.boot = det.boot + 1] /\ ghost' = ghost
          /\ ~Bootstrapped(det)
      BY <2>3 DEF StepBootstrap, RobustThresholdStep
    <3>2. det.boot + 1 \in 0..BootstrapSize
      BY <3>1, DetectorAssumption DEF TypeOK, Detector, Bootstrapped
    <3>3. det' \in Detector /\ ghost' = NewGhost
          /\ det' = [NewDetector EXCEPT !.boot = det'.boot]
      BY <3>1, <3>2 DEF TypeOK, Fresh, Detector, NewDetector
    <3>4. det'.over = 0 /\ det'.hard = 0 /\ det'.under = 0 /\ ~det'.alert
          /\ det'.cooldown = 0
      BY <3>3 DEF NewDetector
    <3> QED
      BY <2>1, <3>1, <3>3, <3>4, DetectorAssumption
         DEF TypeOK, Fresh, AfterTrigger, CountersAreRuns, CooldownIsRest,
             NoMissedDrift, AlertEndsWhenQuiet, CooldownHolds, Bootstrapped,
             NewGhost, Ghost, Larger
  <2>4. CASE StepJudge(r)
    BY <2>1, <2>4, JudgeInv
  <2> QED  BY <1>2, <2>2, <2>3, <2>4 DEF Step
<1> QED  BY <1>1, <1>2 DEF Next

\* The invariant holds in every state of the detector.
LEMMA Invariance == Spec => []IInv
<1> QED  BY InitInv, NextInv, PTL DEF Spec

-----------------------------------------------------------------------------
(* The results.                                                            *)

\* The state stays a RobustThresholdState; in particular cooldown_remaining
\* never leaves 0..cooldown_steps.
THEOREM TypeCorrect == Spec => []TypeOK
<1>1. IInv => TypeOK
  BY DEF IInv
<1> QED  BY Invariance, <1>1, PTL

\* A drift that lasts is answered, whatever the margins and counts are.
THEOREM DriftIsAnswered == Spec => []NoMissedDrift
<1>1. IInv => NoMissedDrift
  BY DEF IInv
<1> QED  BY Invariance, <1>1, PTL

\* An alert does not outlive a quiet run of reset_consecutive_steps.
THEOREM AlertEnds == Spec => []AlertEndsWhenQuiet
<1>1. IInv => AlertEndsWhenQuiet
  BY DEF IInv
<1> QED  BY Invariance, <1>1, PTL

\* Within a cooldown only a run of hard readings triggers again.
THEOREM CooldownIsKept == Spec => []CooldownHolds
<1>1. IInv => CooldownHolds
  BY DEF IInv
<1> QED  BY Invariance, <1>1, PTL

\* An alert is given up only at a quiet run of reset_consecutive_steps.
THEOREM AlertIsKept == Spec => AlertEndsOnlyWhenQuiet
<1>1. IInv /\ IInv' /\ [Next]_vars
        => [det.alert /\ ~det'.alert => ghost'.quiet >= ResetSteps]_vars
  <2> SUFFICES ASSUME IInv, IInv', NEW r \in Reading, Step(r), det.alert, ~det'.alert
               PROVE  ghost'.quiet >= ResetSteps
    BY DEF Next, vars
  <2>1. StepJudge(r)
    BY DEF Step, StepNaN, StepBootstrap, RobustThresholdStep, IInv, TypeOK, Detector
  <2>2. r \in FiniteReading /\ Bootstrapped(det) /\ det \in Detector /\ ghost \in Ghost
    BY <2>1 DEF StepJudge, Reading, FiniteReading, NaNReading, IInv, TypeOK
  <2>3. /\ ~Verdict(det, r) /\ ~Counted(det, r).alert
    BY <2>1, <2>2, JudgedFields DEF StepJudge
  <2>4. /\ Quiet(r) => det.under + 1 >= ResetSteps
        /\ Quiet(r)
    BY <2>2, <2>3, CountedFields, DetectorAssumption DEF Detector
  <2>5. ghost'.quiet = IF ghost.latest THEN 1 ELSE ghost.quiet + 1
    BY <2>1, <2>4 DEF StepJudge, Observe, Run
  <2> QED  BY <2>2, <2>4, <2>5 DEF IInv, AfterTrigger, CountersAreRuns, Ghost, Detector
<1> QED  BY Invariance, <1>1, PTL DEF Spec, AlertEndsOnlyWhenQuiet
=============================================================================
