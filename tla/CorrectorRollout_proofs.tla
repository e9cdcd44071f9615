------------------------ MODULE CorrectorRollout_proofs ------------------------
(***************************************************************************)
(* The safety of the detect-and-correct loop for every safety_k, chunk     *)
(* length, detector and length of the episode, and the refinement of the   *)
(* adaptive action horizon.                                                *)
(***************************************************************************)
EXTENDS CorrectorRollout, SequenceTheorems, FiniteSetTheorems, TLAPS

(* How far a step has got. *)
Acted    == {"step", "stepBase", "record"}
Inferred == {"act"} \cup Acted
Judging  == {"infer", "inferBase"} \cup Inferred
Encoded  == {"judge", "judgeBase"} \cup Judging
InStep   == {"encode"} \cup Encoded

JudgedMain   == {"judgeBase"} \cup Judging
InferredMain == {"inferBase"} \cup Inferred

-----------------------------------------------------------------------------
(* The queues.                                                             *)

\* The history is the last frames of the first e.
HistoryIs(s, e) ==
  /\ Len(s.history) = IF e < HistorySize THEN e ELSE HistorySize
  /\ \A i \in 1..Len(s.history) : s.history[i] = e - Len(s.history) + i - 1

\* The action of step j, the one that is not yet recorded included.
Executed(s, j) == IF j < Len(s.log) THEN RowOf(s, j).act ELSE s.now

\* The predictions are those made in the steps from a to b - 1.
PredsAre(s, a, b) ==
  /\ Len(s.preds) = b - a
  /\ \A i \in 1..Len(s.preds) :
       /\ s.preds[i].target = a + i - 1 + SafetyK
       /\ s.preds[i].raw = Executed(s, a + i - 1)

\* So many predictions have been due in the first n steps.
Consumed(n) == IF n > SafetyK THEN n - SafetyK ELSE 0

\* What a side has to do in step n is aligned with the step.
Aligns(s, n, encoded, judged, predicted) ==
  /\ Len(s.log) = n
  /\ HistoryIs(s, IF encoded THEN n + 1 ELSE n)
  /\ PredsAre(s, IF judged THEN Consumed(n + 1) ELSE Consumed(n),
                 IF predicted THEN n + 1 ELSE n)

\* The verdict of step n is about the action safety_k steps ago.
JudgesAligned(s, n, judged) ==
  s.judges = IF judged /\ n >= SafetyK THEN RowOf(s, n - SafetyK).act ELSE None

-----------------------------------------------------------------------------
(* The plan.                                                               *)

\* The action of step i: the next one of the chunk, or the first of a new one.
NextAction(s, side, i, recovery, canGuide) ==
  IF recovery \/ i = 0 \/ RowOf(s, i - 1).act.n = NActionSteps
  THEN [side |-> side, at |-> i, guided |-> recovery /\ canGuide, n |-> 1]
  ELSE [RowOf(s, i - 1).act EXCEPT !.n = @ + 1]

\* The rest of a chunk after action a.
RestOf(plan, a) ==
  /\ Len(plan) = NActionSteps - a.n
  /\ \A k \in 1..Len(plan) : plan[k] = [a EXCEPT !.n = a.n + k]

\* The plan before the inference of step i, after it, and after the action.
PlanBefore(s, i, recovery) ==
  /\ s.now = IF i = 0 THEN None ELSE RowOf(s, i - 1).act
  /\ IF recovery \/ i = 0 THEN s.plan = <<>> ELSE RestOf(s.plan, s.now)
PlanInferred(s, side, i, recovery, canGuide) ==
  LET a == NextAction(s, side, i, recovery, canGuide)
  IN  s.plan # <<>> /\ s.plan[1] = a /\ RestOf(Tail(s.plan), a)
PlanAfter(s, side, i, recovery, canGuide) ==
  /\ s.now = NextAction(s, side, i, recovery, canGuide)
  /\ s.raw = s.now
  /\ RestOf(s.plan, s.now)

\* What is recorded of a side.
Rows(s, side, recovers, canGuide) ==
  \A i \in Steps(s) :
    /\ RowOf(s, i).raw = RowOf(s, i).act
    /\ RowOf(s, i).act
         = NextAction(s, side, i, recovers /\ RowOf(s, i).meltdown, canGuide)
    /\ RowOf(s, i).judges = IF i < SafetyK THEN None ELSE RowOf(s, i - SafetyK).act
    /\ RowOf(s, i).meltdown => i >= SafetyK + BootstrapSize

\* The detector has seen no more readings than there were predictions due, and
\* step n is one in which it may have been judged.
Warm(s, n, judged) ==
  s.detector.boot <= IF judged THEN Consumed(n + 1) ELSE Consumed(n)
WarmVerdict(s, n, judged) ==
  s.meltdown => judged /\ n >= SafetyK + BootstrapSize

-----------------------------------------------------------------------------
(* The invariant.                                                          *)

\* The baseline takes part in the step, or will take part in the next.
Live == IF pc \in {"reset", "head"} THEN cfg.twin /\ ~baseRun.done
        ELSE pc # "end" /\ baseRun.active

\* A recovery chunk is due, or has been inferred, in this step.
Recovery == main.meltdown /\ pc \in JudgedMain

PlanInv(s, side, recovery, inferred, acted) ==
  /\ s.rawPlan = s.plan
  /\ IF acted THEN PlanAfter(s, side, t, recovery, cfg.guided)
     ELSE IF inferred THEN PlanInferred(s, side, t, recovery, cfg.guided)
     ELSE PlanBefore(s, t, recovery)

MainInv ==
  pc # "end" =>
    /\ Aligns(main, t, pc \in Encoded, pc \in JudgedMain, pc \in Acted)
    /\ pc \in InStep => JudgesAligned(main, t, pc \in JudgedMain)
    /\ PlanInv(main, "main", Recovery, pc \in InferredMain, pc \in Acted)
    /\ Warm(main, t, pc \in JudgedMain)
    /\ pc \in InStep => WarmVerdict(main, t, pc \in JudgedMain)

BaseInv ==
  /\ pc # "end" => Warm(base, t, pc \in Judging)
  /\ pc \in InStep => WarmVerdict(base, t, pc \in Judging)
  /\ Live =>
       /\ pc # "record" => ~baseRun.done
       /\ Len(base.log) = t
       /\ ~baseRun.done => Aligns(base, t, pc \in Encoded, pc \in Judging, pc = "record")
       /\ pc \in InStep => JudgesAligned(base, t, pc \in Judging)
       /\ PlanInv(base, "base", FALSE, pc \in Inferred, pc \in Acted)

LogInv == /\ Rows(main, "main", TRUE, cfg.guided)
          /\ Rows(base, "base", FALSE, cfg.guided)

\* The steps of the two sides.
Clock ==
  /\ pc = "reset" => t = 0 /\ ~baseRun.done
  /\ pc \in InStep => t < MaxSteps
  /\ baseRun.active => cfg.twin
  /\ pc \in InStep /\ cfg.twin /\ ~baseRun.done => baseRun.active
  /\ Live => baseRun.t = IF pc = "record" THEN t + 1 ELSE t
  /\ pc # "end" => Len(base.log) = IF pc = "record" /\ baseRun.active
                                   THEN baseRun.t - 1 ELSE baseRun.t

\* A recorded action is of a chunk of its own step or of an earlier one.
ChunkIsFresh ==
  \A i \in Steps(main) : RowOf(main, i).act.at \in 0..i

\* The guided requests are the meltdowns recorded and the one of this step.
Answered == IF cfg.guided THEN Cardinality(Meltdowns(main)) ELSE 0

RequestsCounted ==
  pc # "end" =>
    requests = Answered + IF cfg.guided /\ main.meltdown /\ pc \in InferredMain THEN 1 ELSE 0

IInv ==
  /\ TypeOK /\ Clock /\ LogInv /\ MainInv /\ BaseInv
  /\ ChunkIsFresh /\ NoStaleAction /\ GuidedOnlyForRecovery /\ BaselineOpenLoop
  /\ RequestsCounted /\ RequestsAreMeltdowns /\ BaselineCurvesComplete

-----------------------------------------------------------------------------
(* The queues of a side.                                                   *)

LEMMA Sizes ==
  /\ SafetyK \in Nat /\ SafetyK >= 1 /\ NActionSteps \in Nat /\ NActionSteps >= 1
  /\ MaxSteps \in Nat /\ HistorySize = SafetyK + 1 /\ PredsSize = SafetyK + 2
BY RolloutAssumption DEF HistorySize, PredsSize

LEMMA ConsumedSteps ==
  ASSUME NEW n \in Nat
  PROVE  /\ Consumed(n) \in Nat /\ Consumed(n) <= n /\ n - Consumed(n) <= SafetyK
         /\ Consumed(n + 1) = IF n >= SafetyK THEN Consumed(n) + 1 ELSE Consumed(n)
         /\ Consumed(n) <= Consumed(n + 1)
         /\ n >= SafetyK => Consumed(n) = n - SafetyK
BY Sizes DEF Consumed

Frame == Nat
Prediction == [target : Nat, raw : Action]

\* An append to a bounded deque, item by item.
Pushed(q, x, size, b) == b = BoundedAppend(q, x, size)

LEMMA HistoryAppend ==
  ASSUME NEW q \in Seq(Frame), NEW x \in Frame, NEW size \in Nat \ {0}, Len(q) <= size,
         NEW b, Pushed(q, x, size, b)
  PROVE  /\ b \in Seq(Frame)
         /\ Len(b) = IF Len(q) < size THEN Len(q) + 1 ELSE size
         /\ \A i \in 1..Len(b) :
              b[i] = IF i = Len(b) THEN x
                     ELSE IF Len(q) < size THEN q[i] ELSE q[i + 1]
<1>1. CASE Len(q) < size
  <2>1. b = Append(q, x)
    BY <1>1 DEF Pushed, BoundedAppend
  <2> QED  BY <1>1, <2>1, AppendProperties, LenProperties
<1>2. CASE ~(Len(q) < size)
  <2>1. b = Append(Tail(q), x)
    BY <1>2 DEF Pushed, BoundedAppend
  <2>2. q # <<>> /\ Len(q) = size
    BY <1>2, EmptySeq, LenProperties
  <2>3. /\ Tail(q) \in Seq(Frame) /\ Len(Tail(q)) = size - 1
        /\ \A i \in 1..Len(Tail(q)) : Tail(q)[i] = q[i + 1]
    BY <2>2, HeadTailProperties
  <2> QED  BY <1>2, <2>1, <2>3, AppendProperties
<1> QED  BY <1>1, <1>2

LEMMA EncodeSide ==
  ASSUME t \in Nat, NEW s \in Side, HistoryIs(s, t)
  PROVE  /\ Encode(s) = [s EXCEPT !.history = Encode(s).history]
         /\ Encode(s) \in Side
         /\ HistoryIs(Encode(s), t + 1)
<1>0. PICK h : h = BoundedAppend(s.history, t, HistorySize)
  OBVIOUS
<1>1. /\ s.history \in Seq(Nat) /\ Len(s.history) \in Nat /\ Len(s.history) <= HistorySize
      /\ HistorySize \in Nat \ {0}
  BY Sizes, LenProperties DEF Side, HistoryIs
<1>2. /\ h \in Seq(Nat)
      /\ Len(h) = IF Len(s.history) < HistorySize THEN Len(s.history) + 1 ELSE HistorySize
      /\ \A i \in 1..Len(h) :
           h[i] = IF i = Len(h) THEN t
                  ELSE IF Len(s.history) < HistorySize THEN s.history[i] ELSE s.history[i + 1]
  <2>1. s.history \in Seq(Frame) /\ t \in Frame
    BY <1>1 DEF Frame
  <2>2. HistorySize \in Nat \ {0} /\ Len(s.history) <= HistorySize
    BY <1>1
  <2>3. h \in Seq(Frame) => h \in Seq(Nat)
    BY DEF Frame
  <2>4. Pushed(s.history, t, HistorySize, h)
    BY <1>0 DEF Pushed
  <2> QED  BY <2>1, <2>2, <2>3, <2>4, HistoryAppend
<1>3. Encode(s) = [s EXCEPT !.history = h]
  BY <1>0 DEF Encode
<1>4. Encode(s) \in Side /\ Encode(s).history = h
  BY <1>2, <1>3 DEF Side
<1>5. Len(h) = IF t + 1 < HistorySize THEN t + 1 ELSE HistorySize
  BY <1>1, <1>2 DEF HistoryIs
<1>6. \A i \in 1..Len(h) : h[i] = t + 1 - Len(h) + i - 1
  <2> TAKE i \in 1..Len(h)
  <2>1. CASE i = Len(h)
    BY <1>1, <1>2, <2>1
  <2>2. CASE i # Len(h) /\ Len(s.history) < HistorySize
    <3>1. i \in 1..Len(s.history) /\ h[i] = s.history[i] /\ Len(h) = Len(s.history) + 1
      BY <1>1, <1>2, <2>2
    <3>2. s.history[i] = t - Len(s.history) + i - 1
      BY <3>1 DEF HistoryIs
    <3> QED  BY <1>1, <3>1, <3>2
  <2>3. CASE i # Len(h) /\ ~(Len(s.history) < HistorySize)
    <3>1. i + 1 \in 1..Len(s.history) /\ h[i] = s.history[i + 1] /\ Len(h) = Len(s.history)
      BY <1>1, <1>2, <2>3
    <3>2. s.history[i + 1] = t - Len(s.history) + (i + 1) - 1
      BY <3>1 DEF HistoryIs
    <3> QED  BY <1>1, <3>1, <3>2
  <2> QED  BY <2>1, <2>2, <2>3
<1> QED  BY <1>3, <1>4, <1>5, <1>6 DEF HistoryIs

\* The prediction that is due is at the head, and its frame in the history.
LEMMA DueSide ==
  ASSUME t \in Nat, NEW s \in Side, Len(s.log) = t, HistoryIs(s, t + 1),
         PredsAre(s, Consumed(t), t)
  PROVE  /\ Due(s) <=> t >= SafetyK
         /\ t >= SafetyK => /\ Aligned(s) /\ s.preds # <<>>
                            /\ Head(s.preds).raw = RowOf(s, t - SafetyK).act
<1>1. /\ Len(s.preds) = t - Consumed(t) /\ s.preds \in Seq([target : Nat, raw : Action])
      /\ SafetyK \in Nat /\ SafetyK >= 1
  BY Sizes DEF PredsAre, Side
<1>2. ASSUME t >= SafetyK
      PROVE  /\ s.preds # <<>> /\ Head(s.preds).target = t
             /\ Head(s.preds).raw = RowOf(s, t - SafetyK).act
  <2>1. Consumed(t) = t - SafetyK /\ Len(s.preds) = SafetyK
    BY <1>1, <1>2 DEF Consumed
  <2>2. s.preds # <<>> /\ Head(s.preds) = s.preds[1] /\ 1 \in 1..Len(s.preds)
    BY <1>1, <2>1, EmptySeq
  <2>3. /\ s.preds[1].target = Consumed(t) + 1 - 1 + SafetyK
        /\ s.preds[1].raw = Executed(s, Consumed(t) + 1 - 1)
    BY <2>2 DEF PredsAre
  <2>4. Consumed(t) + 1 - 1 = t - SafetyK /\ t - SafetyK < Len(s.log)
    BY <1>1, <2>1
  <2> QED  BY <1>1, <1>2, <2>1, <2>2, <2>3, <2>4 DEF Executed
<1>3. ASSUME t >= SafetyK PROVE Aligned(s)
  <2>1. Len(s.history) = SafetyK + 1 /\ 1 \in 1..Len(s.history)
    BY <1>1, <1>3, Sizes DEF HistoryIs
  <2>2. s.history[1] = t + 1 - Len(s.history) + 1 - 1
    BY <2>1 DEF HistoryIs
  <2>3. s.history[1] = t - SafetyK
    BY <1>1, <2>1, <2>2
  <2> QED  BY <2>1, <2>3 DEF Aligned, Contains
<1> QED  BY <1>2, <1>3 DEF Due

-----------------------------------------------------------------------------
(* The detector and the check of a side.                                   *)

LEMMA CountedBoot ==
  ASSUME NEW d \in Detector, NEW r \in FiniteReading
  PROVE  Counted(d, r) \in Detector /\ Counted(d, r).boot = d.boot
<1>1. PICK o, h, u : /\ o = IF Over(r) THEN d.over + 1 ELSE 0
                     /\ h = IF Hard(r) THEN d.hard + 1 ELSE 0
                     /\ u = IF Quiet(r) THEN d.under + 1 ELSE 0
  OBVIOUS
<1>2. o \in Nat /\ h \in Nat /\ u \in Nat
  BY <1>1 DEF Detector
<1>3. PICK c : c = Count(d, r)
  OBVIOUS
<1>4. c = [d EXCEPT !.over = o, !.hard = h, !.under = u]
  BY <1>1, <1>3 DEF Count
<1>5. c \in Detector /\ c.boot = d.boot
  BY <1>2, <1>4 DEF Detector
<1>6. Counted(d, r) = Release(c)
  BY <1>3 DEF Counted
<1>7. Release(c) = c \/ Release(c) = [c EXCEPT !.alert = FALSE, !.over = 0, !.hard = 0]
  BY DEF Release
<1>8. CASE Release(c) = c
  BY <1>5, <1>6, <1>8
<1>9. CASE Release(c) = [c EXCEPT !.alert = FALSE, !.over = 0, !.hard = 0]
  <2>1. PICK e : e = Release(c)
    OBVIOUS
  <2>2. e = [c EXCEPT !.alert = FALSE, !.over = 0, !.hard = 0]
    BY <1>9, <2>1
  <2>3. e \in Detector /\ e.boot = c.boot
    BY ONLY <1>5, <2>2, c \in Detector DEF Detector
  <2> QED  BY <1>5, <1>6, <2>1, <2>3
<1> QED  BY <1>7, <1>8, <1>9

\* A call consumes at most one reading of the bootstrap, and a verdict is
\* passed only when the bootstrap is over.
LEMMA DetectorStep ==
  ASSUME NEW d \in Detector, NEW r \in Reading
  PROVE  /\ RobustThresholdStep(d, r) \in Detector
         /\ RobustThresholdStep(d, r).boot <= d.boot + 1
         /\ Verdict(d, r) \in BOOLEAN
         /\ Verdict(d, r) => d.boot = BootstrapSize
<1>1. d.boot \in 0..BootstrapSize /\ BootstrapSize \in Nat
  BY DetectorAssumption DEF Detector
<1>2. CASE ~r.finite
  BY <1>1, <1>2 DEF RobustThresholdStep, Verdict
<1>3. CASE r.finite /\ ~Bootstrapped(d)
  <2>1. RobustThresholdStep(d, r) = [d EXCEPT !.boot = @ + 1] /\ ~Verdict(d, r)
    BY <1>3 DEF RobustThresholdStep, Verdict
  <2>2. d.boot + 1 \in 0..BootstrapSize
    BY <1>1, <1>3 DEF Bootstrapped
  <2>3. /\ RobustThresholdStep(d, r) \in Detector
        /\ RobustThresholdStep(d, r).boot = d.boot + 1
    BY <2>1, <2>2 DEF Detector
  <2>4. RobustThresholdStep(d, r).boot <= d.boot + 1
    BY <1>1, <2>3
  <2>5. Verdict(d, r) \in BOOLEAN
    BY DEF Verdict
  <2> QED  BY <2>1, <2>3, <2>4, <2>5
<1>4. CASE r.finite /\ Bootstrapped(d)
  <2>1. r \in FiniteReading
    BY <1>4 DEF Reading, NaNReading
  <2>2. PICK c : c = Counted(d, r)
    OBVIOUS
  <2>3. c \in Detector /\ c.boot = d.boot
    BY <2>1, <2>2, CountedBoot
  <2>4. RobustThresholdStep(d, r) = IF Verdict(d, r) THEN Trigger(c) ELSE Cool(c)
    BY <1>4, <2>2 DEF RobustThresholdStep
  <2>5. Trigger(c) \in Detector /\ Trigger(c).boot = d.boot
    <3>1. CooldownSteps \in 0..CooldownSteps
      BY DetectorAssumption
    <3> QED  BY <2>3, <3>1 DEF Trigger, Detector
  <2>6. Cool(c) \in Detector /\ Cool(c).boot = d.boot
    <3>1. c.cooldown \in 0..CooldownSteps /\ CooldownSteps \in Nat
      BY <2>3, DetectorAssumption DEF Detector
    <3>2. (IF c.cooldown > 0 THEN c.cooldown - 1 ELSE c.cooldown) \in 0..CooldownSteps
      BY <3>1
    <3> QED  BY <2>3, <3>2 DEF Cool, Detector
  <2>7. Verdict(d, r) <=> ShouldTrigger(c, r)
    BY <1>4, <2>2 DEF Verdict
  <2>8. Verdict(d, r) \in BOOLEAN
    BY DEF Verdict
  <2> QED  BY <1>1, <1>4, <2>4, <2>5, <2>6, <2>8 DEF Bootstrapped
<1> QED  BY <1>2, <1>3, <1>4

\* Equal queues make equal claims.
LEMMA SamePreds ==
  ASSUME NEW s, NEW n, NEW a, NEW b, PredsAre(s, a, b),
         n.log = s.log, n.now = s.now, n.preds = s.preds
  PROVE  PredsAre(n, a, b)
BY DEF PredsAre, Executed, RowOf

\* Claims about recorded steps do not depend on the present action.
LEMMA KeptPreds ==
  ASSUME NEW s, NEW n, NEW a \in Nat, NEW b \in Nat, PredsAre(s, a, b),
         Len(s.log) = b, n.log = s.log, n.preds = s.preds
  PROVE  PredsAre(n, a, b)
<1>1. \A j \in 0..(b - 1) : Executed(n, j) = Executed(s, j)
  BY DEF Executed, RowOf
<1>2. /\ Len(s.preds) = b - a
      /\ \A i \in 1..Len(s.preds) : /\ s.preds[i].target = a + i - 1 + SafetyK
                                    /\ s.preds[i].raw = Executed(s, a + i - 1)
  BY DEF PredsAre
<1>3. ASSUME NEW i \in 1..Len(n.preds)
      PROVE  n.preds[i].target = a + i - 1 + SafetyK /\ n.preds[i].raw = Executed(n, a + i - 1)
  <2>1. n.preds[i] = s.preds[i] /\ i \in 1..Len(s.preds)
    OBVIOUS
  <2>2. a + i - 1 \in 0..(b - 1)
    BY <1>2, <2>1
  <2> QED  BY <1>1, <1>2, <2>1, <2>2
<1>4. Len(n.preds) = b - a
  BY <1>2
<1> QED  BY <1>3, <1>4 DEF PredsAre

LEMMA JudgeSide ==
  ASSUME t \in Nat, NEW s \in Side, Len(s.log) = t, HistoryIs(s, t + 1),
         PredsAre(s, Consumed(t), t), t >= SafetyK, NEW r \in Reading,
         NEW n, n = Judge(s, r)
  PROVE  /\ n \in Side
         /\ PredsAre(n, Consumed(t + 1), t)
         /\ n.judges = RowOf(s, t - SafetyK).act
         /\ n.detector = RobustThresholdStep(s.detector, r)
         /\ n.meltdown = Verdict(s.detector, r)
         /\ n.plan = s.plan /\ n.rawPlan = s.rawPlan /\ n.now = s.now /\ n.raw = s.raw
         /\ n.history = s.history /\ n.log = s.log
<1>1. /\ Aligned(s) /\ s.preds # <<>> /\ Head(s.preds).raw = RowOf(s, t - SafetyK).act
  BY DueSide
<1>2. /\ s.preds \in Seq([target : Nat, raw : Action]) /\ s.detector \in Detector
      /\ Len(s.preds) = t - Consumed(t) /\ Len(s.preds) \in Nat
      /\ Consumed(t) \in Nat /\ Consumed(t + 1) = Consumed(t) + 1
  BY ConsumedSteps, LenProperties DEF Side, PredsAre
<1>3. PICK p : p = Tail(s.preds)
  OBVIOUS
<1>4. PICK d : d = RobustThresholdStep(s.detector, r)
  OBVIOUS
<1>5. PICK v : v = Verdict(s.detector, r)
  OBVIOUS
<1>6. PICK a : a = Head(s.preds).raw
  OBVIOUS
<1>7. n = [s EXCEPT !.detector = d, !.meltdown = v, !.judges = a, !.preds = p]
  BY <1>1, <1>3, <1>4, <1>5, <1>6 DEF Judge
<1>8. /\ p \in Seq([target : Nat, raw : Action]) /\ Len(p) = Len(s.preds) - 1
      /\ \A i \in 1..Len(p) : p[i] = s.preds[i + 1]
      /\ Head(s.preds) \in [target : Nat, raw : Action]
  BY <1>1, <1>2, <1>3, HeadTailProperties
<1>9. d \in Detector /\ v \in BOOLEAN /\ a \in Action
  BY <1>2, <1>4, <1>5, <1>6, <1>8, DetectorStep
<1>10. /\ n \in Side /\ n.detector = d /\ n.meltdown = v /\ n.judges = a /\ n.preds = p
       /\ n.plan = s.plan /\ n.rawPlan = s.rawPlan /\ n.now = s.now /\ n.raw = s.raw
       /\ n.history = s.history /\ n.log = s.log
  BY <1>7, <1>8, <1>9 DEF Side
<1>11. PredsAre(n, Consumed(t + 1), t)
  <2>1. Len(n.preds) = t - Consumed(t + 1)
    BY SMTT(30), <1>2, <1>8, <1>10
  <2>2. ASSUME NEW i \in 1..Len(n.preds)
        PROVE  /\ n.preds[i].target = Consumed(t + 1) + i - 1 + SafetyK
               /\ n.preds[i].raw = Executed(n, Consumed(t + 1) + i - 1)
    <3>0. n.preds = p /\ i \in 1..Len(p)
      BY <1>10
    <3>1. i + 1 \in 1..Len(s.preds) /\ n.preds[i] = s.preds[i + 1]
      BY <1>2, <1>8, <3>0
    <3>2. /\ s.preds[i + 1].target = Consumed(t) + (i + 1) - 1 + SafetyK
          /\ s.preds[i + 1].raw = Executed(s, Consumed(t) + (i + 1) - 1)
      BY <3>1 DEF PredsAre
    <3>3. Consumed(t) + (i + 1) - 1 = Consumed(t + 1) + i - 1
      BY <1>2
    <3>4. \A j : Executed(n, j) = Executed(s, j)
      BY <1>10 DEF Executed, RowOf
    <3> QED  BY <3>1, <3>2, <3>3, <3>4
  <2> QED  BY <2>1, <2>2 DEF PredsAre
<1> QED  BY <1>1, <1>4, <1>5, <1>6, <1>10, <1>11

-----------------------------------------------------------------------------
(* The plan of a side.                                                     *)

LEMMA RowIn ==
  ASSUME NEW s \in Side, NEW i \in Steps(s)
  PROVE  /\ RowOf(s, i) \in Row /\ RowOf(s, i).act \in Action /\ RowOf(s, i).raw \in Action
         /\ RowOf(s, i).meltdown \in BOOLEAN
         /\ i \in Nat /\ i + 1 \in 1..Len(s.log) /\ i < Len(s.log)
<1>1. s.log \in Seq(Row) /\ Len(s.log) \in Nat
  BY LenProperties DEF Side
<1>2. i \in Nat /\ i + 1 \in 1..Len(s.log) /\ i < Len(s.log)
  BY <1>1 DEF Steps
<1>3. RowOf(s, i) \in Row
  BY <1>1, <1>2, ElementOfSeq DEF RowOf
<1> QED  BY <1>2, <1>3 DEF Row

LEMMA ActionIs ==
  ASSUME NEW a \in Action, NEW n \in 1..NActionSteps
  PROVE  /\ [a EXCEPT !.n = n] \in Action
         /\ [a EXCEPT !.n = n] = [side |-> a.side, at |-> a.at, guided |-> a.guided, n |-> n]
         /\ a.n \in 1..NActionSteps /\ a.at \in Nat /\ a.guided \in BOOLEAN
BY DEF Action

\* The action of a step, and the action before it.
LEMMA NextActionIs ==
  ASSUME NEW s \in Side, NEW side \in {"main", "base"}, NEW recovery \in BOOLEAN,
         NEW canGuide \in BOOLEAN, NEW i \in 0..Len(s.log),
         NEW a, a = NextAction(s, side, i, recovery, canGuide)
  PROVE  /\ a \in Action
         /\ recovery \/ i = 0 =>
              a = [side |-> side, at |-> i, guided |-> recovery /\ canGuide, n |-> 1]
         /\ ~(recovery \/ i = 0) =>
              /\ RowOf(s, i - 1).act \in Action
              /\ IF RowOf(s, i - 1).act.n = NActionSteps
                 THEN a = [side |-> side, at |-> i, guided |-> FALSE, n |-> 1]
                 ELSE a = [RowOf(s, i - 1).act EXCEPT !.n = RowOf(s, i - 1).act.n + 1]
<1>1. Len(s.log) \in Nat /\ i \in Nat /\ NActionSteps \in Nat /\ 1 \in 1..NActionSteps
  BY LenProperties, Sizes DEF Side
<1>2. [side |-> side, at |-> i, guided |-> recovery /\ canGuide, n |-> 1] \in Action
  BY <1>1 DEF Action
<1>3. CASE recovery \/ i = 0
  <2>1. a = [side |-> side, at |-> i, guided |-> recovery /\ canGuide, n |-> 1]
    BY <1>3 DEF NextAction
  <2> QED  BY <1>2, <1>3, <2>1
<1>4. CASE ~(recovery \/ i = 0)
  <2>1. i - 1 \in Steps(s)
    BY <1>1, <1>4 DEF Steps
  <2>2. PICK b : b = RowOf(s, i - 1).act
    OBVIOUS
  <2>3. b \in Action /\ b.n \in 1..NActionSteps
    BY <2>1, <2>2, RowIn DEF Action
  <2>4. CASE b.n = NActionSteps
    <3>1. a = [side |-> side, at |-> i, guided |-> recovery /\ canGuide, n |-> 1]
      BY <2>2, <2>4 DEF NextAction
    <3>2. (recovery /\ canGuide) = FALSE
      BY <1>4
    <3> QED  BY <1>2, <1>4, <2>2, <2>3, <2>4, <3>1, <3>2
  <2>5. CASE b.n # NActionSteps
    <3>1. a = [b EXCEPT !.n = b.n + 1]
      BY <1>4, <2>2, <2>5 DEF NextAction
    <3>2. b.n + 1 \in 1..NActionSteps
      BY <1>1, <2>3, <2>5
    <3>3. a \in Action
      BY ZenonT(60), <2>3, <3>1, <3>2, ActionIs
    <3> QED  BY <1>4, <2>2, <2>3, <2>5, <3>1, <3>3
  <2> QED  BY <2>4, <2>5
<1> QED  BY <1>3, <1>4

\* The rest of a plan after its first action.
LEMMA RestAdvances ==
  ASSUME NEW plan \in Seq(Action), NEW a \in Action, RestOf(plan, a), plan # <<>>
  PROVE  /\ a.n # NActionSteps
         /\ plan[1] = [a EXCEPT !.n = a.n + 1]
         /\ RestOf(Tail(plan), plan[1])
<1>1. /\ Len(plan) \in Nat /\ Len(plan) >= 1 /\ Len(plan) = NActionSteps - a.n
      /\ a.n \in 1..NActionSteps /\ NActionSteps \in Nat /\ a.n # NActionSteps
  <2>1. Len(plan) \in Nat /\ Len(plan) # 0
    BY EmptySeq, LenProperties
  <2>2. Len(plan) = NActionSteps - a.n
    BY DEF RestOf
  <2>3. a.n \in 1..NActionSteps /\ NActionSteps \in Nat
    BY Sizes DEF Action
  <2> QED  BY <2>1, <2>2, <2>3
<1>2. /\ Len(Tail(plan)) = Len(plan) - 1
      /\ \A k \in 1..Len(Tail(plan)) : Tail(plan)[k] = plan[k + 1]
  BY HeadTailProperties
<1>3. \A k \in 1..Len(plan) : plan[k] = [a EXCEPT !.n = a.n + k]
  BY DEF RestOf
<1>4. plan[1] = [a EXCEPT !.n = a.n + 1] /\ a.n + 1 \in 1..NActionSteps
  BY <1>1, <1>3
<1>5. PICK b : b = plan[1]
  OBVIOUS
<1>6. b = [side |-> a.side, at |-> a.at, guided |-> a.guided, n |-> a.n + 1] /\ b \in Action
  BY <1>4, <1>5, ActionIs
<1>7. b.n = a.n + 1
  BY <1>6
<1>8. Len(Tail(plan)) = NActionSteps - b.n
  BY <1>1, <1>2, <1>7
<1>9. ASSUME NEW k \in 1..Len(Tail(plan))
      PROVE  Tail(plan)[k] = [b EXCEPT !.n = b.n + k]
  <2>1. k + 1 \in 1..Len(plan) /\ a.n + (k + 1) \in 1..NActionSteps
    BY <1>1, <1>2
  <2>2. Tail(plan)[k] = [a EXCEPT !.n = a.n + (k + 1)]
    BY <1>2, <1>3, <2>1
  <2>3. Tail(plan)[k]
          = [side |-> a.side, at |-> a.at, guided |-> a.guided, n |-> a.n + (k + 1)]
    BY <2>1, <2>2, ActionIs
  <2>4. b.n + k = a.n + (k + 1)
    BY <1>1, <1>7
  <2>5. [b EXCEPT !.n = b.n + k]
          = [side |-> b.side, at |-> b.at, guided |-> b.guided, n |-> b.n + k]
    BY <1>6, <2>1, <2>4, ActionIs
  <2> QED  BY <1>6, <2>3, <2>4, <2>5
<1> QED  BY <1>1, <1>4, <1>5, <1>8, <1>9 DEF RestOf

\* A chunk from its first action on.
LEMMA ChunkIs ==
  ASSUME t \in Nat, NEW side \in {"main", "base"}, NEW guided \in BOOLEAN,
         NEW c, c = Chunk(side, guided)
  PROVE  /\ c \in Seq(Action) /\ c # <<>>
         /\ c[1] = [side |-> side, at |-> t, guided |-> guided, n |-> 1]
         /\ RestOf(Tail(c), c[1])
<1>1. NActionSteps \in Nat /\ NActionSteps >= 1
  BY Sizes
<1>2. /\ c = [n \in 1..NActionSteps |->
                [side |-> side, at |-> t, guided |-> guided, n |-> n]]
      /\ \A n \in 1..NActionSteps :
           [side |-> side, at |-> t, guided |-> guided, n |-> n] \in Action
  BY DEF Chunk, Action
<1>3. c \in Seq(Action) /\ Len(c) = NActionSteps /\ c # <<>>
  BY <1>1, <1>2, IsASeq, LenProperties, EmptySeq
<1>4. \A n \in 1..NActionSteps :
        c[n] = [side |-> side, at |-> t, guided |-> guided, n |-> n]
  BY <1>2
<1>5. PICK a : a = c[1]
  OBVIOUS
<1>6. a = [side |-> side, at |-> t, guided |-> guided, n |-> 1] /\ a \in Action
  BY <1>1, <1>2, <1>4, <1>5
<1>7. /\ Len(Tail(c)) = NActionSteps - 1
      /\ \A k \in 1..Len(Tail(c)) : Tail(c)[k] = c[k + 1]
  BY <1>3, HeadTailProperties
<1>8. ASSUME NEW k \in 1..Len(Tail(c))
      PROVE  Tail(c)[k] = [a EXCEPT !.n = a.n + k]
  <2>1. k + 1 \in 1..NActionSteps /\ 1 + k = k + 1
    BY <1>1, <1>7
  <2>2. Tail(c)[k] = [side |-> side, at |-> t, guided |-> guided, n |-> k + 1]
    BY <1>4, <1>7, <2>1
  <2>3. [a EXCEPT !.n = k + 1]
          = [side |-> side, at |-> t, guided |-> guided, n |-> k + 1]
    BY <1>6
  <2> QED  BY <1>6, <2>1, <2>2, <2>3
<1>9. Len(Tail(c)) = NActionSteps - a.n
  BY <1>6, <1>7
<1> QED  BY <1>3, <1>5, <1>6, <1>8, <1>9 DEF RestOf

\* Side n is side s with a plan, by an inference that is guided or not.
Guides(g, recovery, canGuide) == g = (recovery /\ canGuide)
Filled(s, n, side, g) == n = IF s.plan = <<>> THEN Infer(s, side, g) ELSE s

\* The plan is filled when it is empty.
LEMMA InferSide ==
  ASSUME t \in Nat, NEW s \in Side, Len(s.log) = t, s.rawPlan = s.plan,
         NEW side \in {"main", "base"}, NEW recovery \in BOOLEAN, NEW canGuide \in BOOLEAN,
         PlanBefore(s, t, recovery), NEW g, Guides(g, recovery, canGuide),
         NEW n, Filled(s, n, side, g)
  PROVE  /\ n \in Side /\ n.rawPlan = n.plan
         /\ PlanInferred(n, side, t, recovery, canGuide)
         /\ n.log = s.log /\ n.history = s.history /\ n.preds = s.preds
         /\ n.detector = s.detector /\ n.meltdown = s.meltdown /\ n.judges = s.judges
         /\ n.now = s.now /\ n.raw = s.raw
         /\ recovery => s.plan = <<>>
<1> USE DEF Guides, Filled
<1>0. PICK a : a = NextAction(s, side, t, recovery, canGuide)
  OBVIOUS
<1>1. t \in 0..Len(s.log) /\ s.plan \in Seq(Action) /\ g \in BOOLEAN
  BY DEF Side
<1>2. /\ a \in Action
      /\ recovery \/ t = 0 =>
           a = [side |-> side, at |-> t, guided |-> recovery /\ canGuide, n |-> 1]
      /\ ~(recovery \/ t = 0) =>
           /\ RowOf(s, t - 1).act \in Action
           /\ IF RowOf(s, t - 1).act.n = NActionSteps
              THEN a = [side |-> side, at |-> t, guided |-> FALSE, n |-> 1]
              ELSE a = [RowOf(s, t - 1).act EXCEPT !.n = RowOf(s, t - 1).act.n + 1]
  BY <1>0, <1>1, NextActionIs
<1>3. recovery => s.plan = <<>>
  BY DEF PlanBefore
<1>4. CASE s.plan = <<>>
  <2>1. PICK c : c = Chunk(side, g)
    OBVIOUS
  <2>2. /\ c \in Seq(Action) /\ c # <<>> /\ RestOf(Tail(c), c[1])
        /\ c[1] = [side |-> side, at |-> t, guided |-> g, n |-> 1]
    BY <1>1, <2>1, ChunkIs
  <2>3. s.plan \o c = c /\ s.rawPlan \o c = c
    BY <1>4, <2>2, ConcatEmptySeq
  <2>4. n = [s EXCEPT !.plan = c, !.rawPlan = c]
    BY <1>4, <2>1, <2>3 DEF Infer
  <2>5. /\ n \in Side /\ n.rawPlan = c /\ n.plan = c /\ n.log = s.log
        /\ n.history = s.history /\ n.preds = s.preds
        /\ n.detector = s.detector /\ n.meltdown = s.meltdown /\ n.judges = s.judges
        /\ n.now = s.now /\ n.raw = s.raw
    BY <2>2, <2>4 DEF Side
  <2>6. c[1] = a
    <3>1. CASE recovery \/ t = 0
      BY <1>2, <2>2, <3>1
    <3>2. CASE ~(recovery \/ t = 0)
      <4>1. RestOf(s.plan, RowOf(s, t - 1).act) /\ RowOf(s, t - 1).act \in Action
        BY <1>2, <3>2 DEF PlanBefore
      <4>2. Len(s.plan) = NActionSteps - RowOf(s, t - 1).act.n
        BY <4>1 DEF RestOf
      <4>3. Len(s.plan) = 0 /\ RowOf(s, t - 1).act.n \in 1..NActionSteps
        BY <1>1, <1>4, <4>1, EmptySeq DEF Action
      <4>4. RowOf(s, t - 1).act.n = NActionSteps
        BY <4>2, <4>3, Sizes
      <4>5. g = FALSE
        BY <3>2
      <4> QED  BY <1>2, <2>2, <3>2, <4>4, <4>5
    <3> QED  BY <3>1, <3>2
  <2>7. NextAction(n, side, t, recovery, canGuide) = a
    BY <1>0, <2>5 DEF NextAction, RowOf
  <2>8. PlanInferred(n, side, t, recovery, canGuide)
    BY <2>2, <2>5, <2>6, <2>7 DEF PlanInferred
  <2> QED  BY <1>3, <2>5, <2>8
<1>5. CASE s.plan # <<>>
  <2>1. ~(recovery \/ t = 0) /\ n = s
    BY <1>3, <1>5 DEF PlanBefore
  <2>2. RestOf(s.plan, RowOf(s, t - 1).act) /\ RowOf(s, t - 1).act \in Action
    BY <1>2, <2>1 DEF PlanBefore
  <2>3. /\ RowOf(s, t - 1).act.n # NActionSteps
        /\ s.plan[1] = [RowOf(s, t - 1).act EXCEPT !.n = RowOf(s, t - 1).act.n + 1]
        /\ RestOf(Tail(s.plan), s.plan[1])
    BY <1>1, <1>5, <2>2, RestAdvances
  <2>4. s.plan[1] = a
    BY <1>2, <2>1, <2>3
  <2>5. PlanInferred(n, side, t, recovery, canGuide)
    BY <1>0, <1>5, <2>1, <2>3, <2>4 DEF PlanInferred
  <2> QED  BY <1>3, <2>1, <2>5
<1> QED  BY <1>4, <1>5

\* Side n is side s with its next action popped; a side that has none takes a.
Popped(s, n) ==
  n = [s EXCEPT !.plan = Tail(s.plan), !.rawPlan = Tail(s.rawPlan),
                !.now = Head(s.plan), !.raw = Head(s.rawPlan)]
PoppedOr(s, a, n) ==
  n = [s EXCEPT !.now = IF s.plan # <<>> THEN Head(s.plan) ELSE a,
                !.raw = IF s.rawPlan # <<>> THEN Head(s.rawPlan) ELSE a,
                !.plan = IF @ # <<>> THEN Tail(@) ELSE @,
                !.rawPlan = IF @ # <<>> THEN Tail(@) ELSE @]

\* The next action is popped.
LEMMA ActSide ==
  ASSUME t \in Nat, NEW s \in Side, Len(s.log) = t, s.rawPlan = s.plan,
         NEW side \in {"main", "base"}, NEW recovery \in BOOLEAN, NEW canGuide \in BOOLEAN,
         PlanInferred(s, side, t, recovery, canGuide), NEW n, Popped(s, n)
  PROVE  /\ n \in Side /\ n.rawPlan = n.plan
         /\ n.now \in Action /\ n.raw = n.now
         /\ PlanAfter(n, side, t, recovery, canGuide)
         /\ n.log = s.log /\ n.history = s.history /\ n.preds = s.preds
         /\ n.detector = s.detector /\ n.meltdown = s.meltdown /\ n.judges = s.judges
<1>0. PICK a : a = NextAction(s, side, t, recovery, canGuide)
  OBVIOUS
<1>1. t \in 0..Len(s.log) /\ s.plan \in Seq(Action) /\ s.plan # <<>>
  BY DEF Side, PlanInferred
<1>2. a \in Action
  BY <1>0, <1>1, NextActionIs
<1>3. PICK p : p = Tail(s.plan)
  OBVIOUS
<1>4. p \in Seq(Action) /\ Head(s.plan) = a /\ RestOf(p, a)
  BY <1>0, <1>1, <1>3, HeadTailProperties DEF PlanInferred
<1>5. n = [s EXCEPT !.plan = p, !.rawPlan = p, !.now = a, !.raw = a]
  BY <1>3, <1>4 DEF Popped
<1>6. /\ n \in Side /\ n.rawPlan = p /\ n.plan = p /\ n.log = s.log
      /\ n.history = s.history /\ n.preds = s.preds
      /\ n.detector = s.detector /\ n.meltdown = s.meltdown /\ n.judges = s.judges
      /\ n.now = a /\ n.raw = a
  BY <1>2, <1>4, <1>5 DEF Side
<1>7. NextAction(n, side, t, recovery, canGuide) = a
  BY <1>0, <1>6 DEF NextAction, RowOf
<1> QED  BY <1>2, <1>4, <1>6, <1>7 DEF PlanAfter

\* The effect of the action is predicted, and the queue has room for it.
LEMMA PredictSide ==
  ASSUME t \in Nat, NEW s \in Side, Len(s.log) = t, PredsAre(s, Consumed(t + 1), t),
         s.now \in Action, s.raw = s.now, NEW n, n = Predict(s)
  PROVE  /\ n \in Side /\ PredsAre(n, Consumed(t + 1), t + 1)
         /\ n.plan = s.plan /\ n.rawPlan = s.rawPlan /\ n.now = s.now /\ n.raw = s.raw
         /\ n.log = s.log /\ n.history = s.history
         /\ n.detector = s.detector /\ n.meltdown = s.meltdown /\ n.judges = s.judges
<1>0. PICK x : x = [target |-> t + SafetyK, raw |-> s.now]
  OBVIOUS
<1>1. x \in Prediction /\ x.target = t + SafetyK /\ x.raw = s.now
  BY <1>0, Sizes DEF Prediction
<1>2. PICK c : c = Consumed(t + 1)
  OBVIOUS
<1>3. /\ s.preds \in Seq(Prediction) /\ Len(s.preds) = t - c
      /\ c \in Nat /\ t + 1 - c <= SafetyK
  BY SMTT(30), <1>2, ConsumedSteps DEF Side, PredsAre, Prediction
<1>4. Len(s.preds) < PredsSize /\ Len(s.preds) \in Nat
  BY <1>3, Sizes, LenProperties
<1>5. PICK p : p = Append(s.preds, x)
  OBVIOUS
<1>6. /\ p \in Seq(Prediction) /\ Len(p) = Len(s.preds) + 1 /\ p[Len(s.preds) + 1] = x
      /\ \A i \in 1..Len(s.preds) : p[i] = s.preds[i]
  BY <1>1, <1>3, <1>5, AppendProperties
<1>7. n = [s EXCEPT !.preds = p]
  BY <1>0, <1>4, <1>5 DEF Predict, BoundedAppend
<1>8. /\ n \in Side /\ n.preds = p
      /\ n.plan = s.plan /\ n.rawPlan = s.rawPlan /\ n.now = s.now /\ n.raw = s.raw
      /\ n.log = s.log /\ n.history = s.history
      /\ n.detector = s.detector /\ n.meltdown = s.meltdown /\ n.judges = s.judges
  BY <1>6, <1>7 DEF Side, Prediction
<1>9. \A j : Executed(n, j) = Executed(s, j)
  BY <1>8 DEF Executed, RowOf
<1>10. Executed(s, t) = s.now
  BY DEF Executed
<1>11. Len(p) = t + 1 - c
  BY <1>3, <1>4, <1>6
<1>12. ASSUME NEW i \in 1..Len(p)
       PROVE  p[i].target = c + i - 1 + SafetyK /\ p[i].raw = Executed(n, c + i - 1)
  <2>1. CASE i = Len(s.preds) + 1
    <3>1. p[i] = x
      BY <1>6, <2>1
    <3>2. c + i - 1 = t
      BY <1>3, <1>4, <2>1
    <3> QED  BY <1>1, <1>9, <1>10, <3>1, <3>2
  <2>2. CASE i # Len(s.preds) + 1
    <3>1. i \in 1..Len(s.preds)
      BY <1>4, <1>6, <2>2
    <3>2. p[i] = s.preds[i]
      BY <1>6, <3>1
    <3>3. s.preds[i].target = c + i - 1 + SafetyK /\ s.preds[i].raw = Executed(s, c + i - 1)
      BY <1>2, <3>1 DEF PredsAre
    <3> QED  BY <1>9, <3>2, <3>3
  <2> QED  BY <2>1, <2>2
<1>13. PredsAre(n, Consumed(t + 1), t + 1)
  <2>0. PICK b \in Nat : b = t + 1
    OBVIOUS
  <2>1. Len(n.preds) = b - c
    BY <1>3, <1>8, <1>11, <2>0
  <2>2. ASSUME NEW i \in 1..Len(n.preds)
        PROVE  /\ n.preds[i].target = c + i - 1 + SafetyK
               /\ n.preds[i].raw = Executed(n, c + i - 1)
    <3>1. i \in 1..Len(p) /\ n.preds[i] = p[i]
      BY <1>8
    <3> QED  BY <1>12, <3>1
  <2>3. PredsAre(n, c, b)
    BY <2>1, <2>2 DEF PredsAre
  <2> QED  BY <1>2, <2>0, <2>3
<1> QED  BY <1>8, <1>13

-----------------------------------------------------------------------------
(* The record of a side.                                                   *)

LEMMA RecordSide ==
  ASSUME t \in Nat, NEW s \in Side, Len(s.log) = t, s.now \in Action, s.raw = s.now,
         NEW n, n = Record(s)
  PROVE  /\ n \in Side /\ Len(n.log) = t + 1 /\ Steps(s) = 0..(t - 1) /\ Steps(n) = 0..t
         /\ \A i \in 0..(t - 1) : RowOf(n, i) = RowOf(s, i)
         /\ RowOf(n, t).act = s.now /\ RowOf(n, t).raw = s.now
         /\ RowOf(n, t).meltdown = s.meltdown /\ RowOf(n, t).judges = s.judges
         /\ n.plan = s.plan /\ n.rawPlan = s.rawPlan /\ n.now = s.now /\ n.raw = s.raw
         /\ n.history = s.history /\ n.preds = s.preds
         /\ n.detector = s.detector /\ n.meltdown = s.meltdown /\ n.judges = s.judges
<1>1. PICK row : row = [t |-> t, act |-> s.now, raw |-> s.raw,
                        meltdown |-> s.meltdown, judges |-> s.judges]
  OBVIOUS
<1>2. /\ row \in Row /\ row.act = s.now /\ row.raw = s.now
      /\ row.meltdown = s.meltdown /\ row.judges = s.judges
  BY <1>1 DEF Row, Side
<1>3. PICK l : l = Append(s.log, row)
  OBVIOUS
<1>4. /\ l \in Seq(Row) /\ Len(l) = t + 1 /\ l[t + 1] = row
      /\ \A i \in 1..t : l[i] = s.log[i]
  <2>1. s.log \in Seq(Row)
    BY DEF Side
  <2> QED  BY <1>2, <1>3, <2>1, AppendProperties
<1>5. n = [s EXCEPT !.log = l]
  BY <1>1, <1>3 DEF Record
<1>6. /\ n \in Side /\ n.log = l
      /\ n.plan = s.plan /\ n.rawPlan = s.rawPlan /\ n.now = s.now /\ n.raw = s.raw
      /\ n.history = s.history /\ n.preds = s.preds
      /\ n.detector = s.detector /\ n.meltdown = s.meltdown /\ n.judges = s.judges
  BY <1>4, <1>5 DEF Side
<1>7. RowOf(n, t) = row
  BY <1>4, <1>6 DEF RowOf
<1>8. ASSUME NEW i \in 0..(t - 1)
      PROVE  RowOf(n, i) = RowOf(s, i)
  <2>1. i + 1 \in 1..t
    OBVIOUS
  <2>2. l[i + 1] = s.log[i + 1]
    BY <1>4, <2>1
  <2> QED  BY <1>6, <2>2 DEF RowOf
<1>9. Steps(s) = 0..(t - 1) /\ Steps(n) = 0..t
  <2>1. Len(n.log) - 1 = t
    BY <1>4, <1>6
  <2> QED  BY <2>1 DEF Steps
<1> QED  BY <1>2, <1>4, <1>6, <1>7, <1>8, <1>9

\* What was recorded stays as it was.
LEMMA RecordKeeps ==
  ASSUME t \in Nat, NEW s \in Side, Len(s.log) = t, s.now \in Action, s.raw = s.now,
         NEW n, n = Record(s), NEW side, NEW recovery, NEW canGuide, NEW i \in 0..t
  PROVE  NextAction(n, side, i, recovery, canGuide)
           = NextAction(s, side, i, recovery, canGuide)
<1>1. \A j \in 0..(t - 1) : RowOf(n, j) = RowOf(s, j)
  BY RecordSide
<1>2. CASE i = 0
  BY <1>2 DEF NextAction
<1>3. CASE i # 0
  <2>1. i - 1 \in 0..(t - 1)
    BY <1>3
  <2>2. RowOf(n, i - 1) = RowOf(s, i - 1)
    BY <1>1, <2>1
  <2> QED  BY <2>2 DEF NextAction
<1> QED  BY <1>2, <1>3

\* The action of step i is the one that has to follow.
Follows(s, side, i, recovers, canGuide) ==
  PlanAfter(s, side, i, recovers /\ s.meltdown, canGuide)

LEMMA RecordRows ==
  ASSUME t \in Nat, NEW s \in Side, Len(s.log) = t, s.now \in Action, s.raw = s.now,
         NEW n, n = Record(s), NEW side, NEW recovers \in BOOLEAN, NEW canGuide,
         Rows(s, side, recovers, canGuide), Follows(s, side, t, recovers, canGuide),
         JudgesAligned(s, t, TRUE), s.meltdown => t >= SafetyK + BootstrapSize
  PROVE  Rows(n, side, recovers, canGuide)
<1>1. /\ Steps(s) = 0..(t - 1) /\ Steps(n) = 0..t
      /\ \A i \in 0..(t - 1) : RowOf(n, i) = RowOf(s, i)
      /\ RowOf(n, t).act = s.now /\ RowOf(n, t).raw = s.now
      /\ RowOf(n, t).meltdown = s.meltdown /\ RowOf(n, t).judges = s.judges
  BY RecordSide
<1>2. SafetyK \in Nat /\ SafetyK >= 1
  BY Sizes
<1> SUFFICES ASSUME NEW i \in 0..t
             PROVE  /\ RowOf(n, i).raw = RowOf(n, i).act
                    /\ RowOf(n, i).act
                         = NextAction(n, side, i, recovers /\ RowOf(n, i).meltdown, canGuide)
                    /\ RowOf(n, i).judges
                         = IF i < SafetyK THEN None ELSE RowOf(n, i - SafetyK).act
                    /\ RowOf(n, i).meltdown => i >= SafetyK + BootstrapSize
  BY <1>1 DEF Rows
<1>3. IF i < SafetyK THEN TRUE ELSE RowOf(n, i - SafetyK) = RowOf(s, i - SafetyK)
  <2>1. ASSUME ~(i < SafetyK)  PROVE i - SafetyK \in 0..(t - 1)
    BY <1>2, <2>1
  <2> QED  BY <1>1, <2>1
<1>4. \A recovery : NextAction(n, side, i, recovery, canGuide)
                      = NextAction(s, side, i, recovery, canGuide)
  BY RecordKeeps
<1>5. CASE i = t
  <2>1. RowOf(n, i).act = NextAction(n, side, i, recovers /\ RowOf(n, i).meltdown, canGuide)
    BY <1>1, <1>4, <1>5 DEF PlanAfter, Follows
  <2>2. RowOf(n, i).judges = IF i < SafetyK THEN None ELSE RowOf(n, i - SafetyK).act
    BY <1>1, <1>2, <1>3, <1>5 DEF JudgesAligned
  <2> QED  BY <1>1, <1>5, <2>1, <2>2
<1>6. CASE i # t
  <2>1. i \in 0..(t - 1) /\ i \in Steps(s)
    BY <1>1, <1>6
  <2>2. RowOf(n, i) = RowOf(s, i)
    BY <1>1, <2>1
  <2>3. /\ RowOf(s, i).raw = RowOf(s, i).act
        /\ RowOf(s, i).act = NextAction(s, side, i, recovers /\ RowOf(s, i).meltdown, canGuide)
        /\ RowOf(s, i).judges = IF i < SafetyK THEN None ELSE RowOf(s, i - SafetyK).act
        /\ RowOf(s, i).meltdown => i >= SafetyK + BootstrapSize
    BY <2>1 DEF Rows
  <2>4. RowOf(n, i).judges = IF i < SafetyK THEN None ELSE RowOf(n, i - SafetyK).act
    BY <1>3, <2>2, <2>3
  <2> QED  BY <1>4, <2>2, <2>3, <2>4
<1> QED  BY <1>5, <1>6

\* The queues are about the same steps, now recorded.
LEMMA RecordPreds ==
  ASSUME t \in Nat, NEW s \in Side, Len(s.log) = t, s.now \in Action, s.raw = s.now,
         NEW n, n = Record(s), NEW a \in Nat, PredsAre(s, a, t + 1)
  PROVE  PredsAre(n, a, t + 1)
<1>1. /\ Len(n.log) = t + 1 /\ n.preds = s.preds
      /\ \A i \in 0..(t - 1) : RowOf(n, i) = RowOf(s, i)
      /\ RowOf(n, t).act = s.now
  BY RecordSide
<1>2. ASSUME NEW j \in 0..t  PROVE Executed(n, j) = Executed(s, j)
  <2>1. Executed(n, j) = RowOf(n, j).act
    BY <1>1 DEF Executed
  <2>2. CASE j = t
    BY <1>1, <2>1, <2>2 DEF Executed
  <2>3. CASE j # t
    <3>1. j \in 0..(t - 1) /\ j < Len(s.log)
      BY <2>3
    <3> QED  BY <1>1, <2>1, <3>1 DEF Executed
  <2> QED  BY <2>2, <2>3
<1>3. PICK b \in Nat : b = t + 1
  OBVIOUS
<1>4. /\ Len(s.preds) = b - a
      /\ \A i \in 1..Len(s.preds) :
           /\ s.preds[i].target = a + i - 1 + SafetyK
           /\ s.preds[i].raw = Executed(s, a + i - 1)
  BY <1>3 DEF PredsAre
<1>5. ASSUME NEW i \in 1..Len(n.preds)
      PROVE  /\ n.preds[i].target = a + i - 1 + SafetyK
             /\ n.preds[i].raw = Executed(n, a + i - 1)
  <2>1. a + i - 1 \in 0..t /\ i \in 1..Len(s.preds) /\ n.preds[i] = s.preds[i]
    BY <1>1, <1>3, <1>4
  <2>2. Executed(n, a + i - 1) = Executed(s, a + i - 1)
    BY <1>2, <2>1
  <2> QED  BY <1>4, <2>1, <2>2
<1>6. Len(n.preds) = b - a
  BY <1>1, <1>4
<1>7. PredsAre(n, a, b)
  BY <1>5, <1>6 DEF PredsAre
<1> QED  BY <1>3, <1>7

-----------------------------------------------------------------------------
(* The steps of the loop.                                                  *)

\* What the record of the episode says, all of it about rows.
RowInv == /\ LogInv /\ ChunkIsFresh /\ NoStaleAction
          /\ GuidedOnlyForRecovery /\ BaselineOpenLoop

\* No row, no change: all but RecordStep.
LEMMA LogsKept ==
  ASSUME RowInv, cfg' = cfg, main'.log = main.log, base'.log = base.log
  PROVE  RowInv' /\ Answered' = Answered
<1>1. /\ Steps(main)' = Steps(main) /\ Steps(base)' = Steps(base)
      /\ \A i : RowOf(main', i) = RowOf(main, i) /\ RowOf(base', i) = RowOf(base, i)
  BY DEF Steps, RowOf
<1>2. \A i, m : /\ NextAction(main', "main", i, m, cfg'.guided)
                    = NextAction(main, "main", i, m, cfg.guided)
                /\ NextAction(base', "base", i, m, cfg'.guided)
                    = NextAction(base, "base", i, m, cfg.guided)
  BY <1>1 DEF NextAction
<1>3. Rows(main, "main", TRUE, cfg.guided)' /\ Rows(base, "base", FALSE, cfg.guided)'
  BY <1>1, <1>2 DEF RowInv, LogInv, Rows
<1>4. ChunkIsFresh' /\ NoStaleAction'
  BY <1>1 DEF RowInv, ChunkIsFresh, NoStaleAction
<1>5. GuidedOnlyForRecovery' /\ BaselineOpenLoop'
  BY <1>1 DEF RowInv, GuidedOnlyForRecovery, BaselineOpenLoop
<1>6. Answered' = Answered
  BY <1>1 DEF Answered, Meltdowns
<1> QED  BY <1>3, <1>4, <1>5, <1>6 DEF RowInv, LogInv

\* Equal fields make equal claims.
LEMMA SameSide ==
  ASSUME NEW s, NEW n, n.log = s.log, n.now = s.now, n.raw = s.raw,
         n.plan = s.plan, n.rawPlan = s.rawPlan
  PROVE  /\ \A i, m : PlanBefore(n, i, m) <=> PlanBefore(s, i, m)
         /\ \A side, i, m, g : PlanInferred(n, side, i, m, g) <=> PlanInferred(s, side, i, m, g)
         /\ \A side, i, m, g : PlanAfter(n, side, i, m, g) <=> PlanAfter(s, side, i, m, g)
<1>1. \A i : RowOf(n, i) = RowOf(s, i)
  BY DEF RowOf
<1>2. \A side, i, m, g : NextAction(n, side, i, m, g) = NextAction(s, side, i, m, g)
  BY <1>1 DEF NextAction
<1> QED  BY <1>1, <1>2 DEF PlanBefore, PlanInferred, PlanAfter

LEMMA SameHistory ==
  ASSUME NEW s, NEW n, NEW e, n.history = s.history, HistoryIs(s, e)
  PROVE  HistoryIs(n, e)
BY DEF HistoryIs

\* The types of the fields.
LEMMA Types ==
  ASSUME TypeOK
  PROVE  /\ t \in Nat /\ MaxSteps \in Nat /\ t <= MaxSteps
         /\ cfg.guided \in BOOLEAN /\ cfg.twin \in BOOLEAN /\ requests \in Nat
         /\ outcome.done \in BOOLEAN /\ outcome.error \in BOOLEAN
         /\ baseRun.active \in BOOLEAN /\ baseRun.done \in BOOLEAN
         /\ baseRun.t \in 0..MaxSteps
         /\ main.meltdown \in BOOLEAN /\ base.meltdown \in BOOLEAN
         /\ main.log \in Seq(Row) /\ base.log \in Seq(Row)
         /\ Len(main.log) \in Nat /\ Len(base.log) \in Nat
<1>1. MaxSteps \in Nat
  BY Sizes
<1>2. main.log \in Seq(Row) /\ base.log \in Seq(Row)
  BY DEF TypeOK, Side
<1> QED  BY <1>1, <1>2, LenProperties DEF TypeOK, Side

LEMMA InitInv ==
  ASSUME Init
  PROVE  IInv
<1> USE DEF Init
<1>1. NewSide \in Side
  <2>1. NewDetector \in Detector
    BY DetectorAssumption DEF NewDetector, Detector
  <2>2. /\ <<>> \in Seq(Action) /\ <<>> \in Seq(Nat)
        /\ <<>> \in Seq([target : Nat, raw : Action]) /\ <<>> \in Seq(Row)
    BY EmptySeq
  <2> QED  BY <2>1, <2>2 DEF NewSide, Side
<1>2. TypeOK
  BY <1>1, Sizes DEF TypeOK, Phases
<1>3. /\ NewSide.log = <<>> /\ NewSide.history = <<>> /\ NewSide.preds = <<>>
      /\ NewSide.plan = <<>> /\ NewSide.rawPlan = <<>> /\ NewSide.now = None
      /\ NewSide.meltdown = FALSE /\ NewSide.judges = None /\ NewSide.detector.boot = 0
      /\ Len(NewSide.log) = 0 /\ Steps(NewSide) = {}
  BY EmptySeq DEF NewSide, NewDetector, Steps
<1>4. Consumed(0) = 0 /\ HistorySize \in Nat /\ HistorySize > 0
  BY Sizes DEF Consumed
<1>5. Aligns(NewSide, 0, FALSE, FALSE, FALSE)
  <2>1. HistoryIs(NewSide, 0)
    BY <1>3, <1>4, EmptySeq DEF HistoryIs
  <2>2. PredsAre(NewSide, 0, 0)
    BY <1>3, EmptySeq DEF PredsAre
  <2> QED  BY <1>3, <1>4, <2>1, <2>2 DEF Aligns
<1>6. \A m : PlanBefore(NewSide, 0, m)
  BY <1>3 DEF PlanBefore
<1>7. Clock
  BY <1>3 DEF Clock, Live, InStep, Encoded, Judging, Inferred, Acted
<1>8. MainInv
  <2>1. /\ pc # "end" /\ pc \notin InStep /\ pc \notin Encoded /\ pc \notin JudgedMain
        /\ pc \notin InferredMain /\ pc \notin Acted
    BY DEF InStep, Encoded, JudgedMain, Judging, InferredMain, Inferred, Acted
  <2>2. PlanInv(main, "main", Recovery, pc \in InferredMain, pc \in Acted)
    BY <1>3, <1>6, <2>1 DEF PlanInv
  <2>3. Warm(main, t, pc \in JudgedMain)
    BY <1>3, <1>4, <2>1 DEF Warm
  <2>4. Aligns(main, t, pc \in Encoded, pc \in JudgedMain, pc \in Acted)
    BY <1>5, <2>1 DEF Aligns
  <2> QED  BY <2>1, <2>2, <2>3, <2>4 DEF MainInv
<1>9. BaseInv
  <2>1. /\ pc # "end" /\ pc # "record" /\ pc \notin InStep /\ pc \notin Encoded
        /\ pc \notin Judging /\ pc \notin Inferred /\ pc \notin Acted
    BY DEF InStep, Encoded, Judging, Inferred, Acted
  <2>2. PlanInv(base, "base", FALSE, pc \in Inferred, pc \in Acted)
    BY <1>3, <1>6, <2>1 DEF PlanInv
  <2>3. Warm(base, t, pc \in Judging)
    BY <1>3, <1>4, <2>1 DEF Warm
  <2>4. Aligns(base, t, pc \in Encoded, pc \in Judging, pc = "record")
    BY <1>5, <2>1 DEF Aligns
  <2> QED  BY <1>3, <2>1, <2>2, <2>3, <2>4 DEF BaseInv
<1>10. LogInv /\ ChunkIsFresh /\ NoStaleAction /\ GuidedOnlyForRecovery /\ BaselineOpenLoop
  BY <1>3 DEF LogInv, Rows, ChunkIsFresh, NoStaleAction, GuidedOnlyForRecovery,
              BaselineOpenLoop
<1>11. Answered = 0
  <2>1. Meltdowns(main) = {}
    BY <1>3 DEF Meltdowns
  <2> QED  BY <2>1, FS_EmptySet DEF Answered
<1>12. RequestsCounted /\ RequestsAreMeltdowns /\ BaselineCurvesComplete
  BY <1>3, <1>11 DEF RequestsCounted, RequestsAreMeltdowns, BaselineCurvesComplete
<1> QED  BY <1>2, <1>7, <1>8, <1>9, <1>10, <1>12 DEF IInv

\* The phases of the loop, spelled out.
LEMMA PhaseSets ==
  /\ InStep = {"encode", "judge", "judgeBase", "infer", "inferBase", "act", "step",
               "stepBase", "record"}
  /\ Encoded = {"judge", "judgeBase", "infer", "inferBase", "act", "step", "stepBase", "record"}
  /\ JudgedMain = {"judgeBase", "infer", "inferBase", "act", "step", "stepBase", "record"}
  /\ Judging = {"infer", "inferBase", "act", "step", "stepBase", "record"}
  /\ InferredMain = {"inferBase", "act", "step", "stepBase", "record"}
  /\ Inferred = {"act", "step", "stepBase", "record"}
  /\ Acted = {"step", "stepBase", "record"}
BY DEF InStep, Encoded, JudgedMain, Judging, InferredMain, Inferred, Acted

\* The claims that are made of a running episode only, and of an ended one only.
LEMMA WhenEnded ==
  ASSUME pc' = "end"
  PROVE  MainInv' /\ BaseInv' /\ RequestsCounted'
BY PhaseSets DEF MainInv, BaseInv, RequestsCounted, Live

LEMMA WhenRunning ==
  ASSUME pc' # "end"
  PROVE  RequestsAreMeltdowns' /\ BaselineCurvesComplete'
BY DEF RequestsAreMeltdowns, BaselineCurvesComplete

LEMMA AnsweredNat ==
  ASSUME TypeOK
  PROVE  Answered \in Nat /\ IsFiniteSet(Meltdowns(main))
<1>1. IsFiniteSet(0..(Len(main.log) - 1))
  <2>1. Len(main.log) - 1 \in Int /\ 0 \in Int
    BY Types
  <2> QED  BY <2>1, FS_Interval
<1>2. Meltdowns(main) \subseteq 0..(Len(main.log) - 1)
  BY DEF Meltdowns, Steps
<1>3. IsFiniteSet(Meltdowns(main))
  BY <1>1, <1>2, FS_Subset
<1> QED  BY <1>3, FS_CardinalityType DEF Answered

\* The episode ends, by the loop condition or by an exception.
LEMMA StopStep ==
  ASSUME IInv, pc # "end", pc' = "end", t' = t, cfg' = cfg, requests' = requests,
         main' = main, base' = base, baseRun' = baseRun,
         outcome' \in [done : BOOLEAN, success : BOOLEAN, error : BOOLEAN],
         pc \in InStep => outcome'.error
  PROVE  IInv'
<1> USE DEF IInv
<1>1. RowInv' /\ Answered' = Answered
  BY LogsKept DEF RowInv
<1>2. TypeOK'
  BY DEF TypeOK, Phases
<1>3. Clock'
  BY PhaseSets DEF Clock, Live
<1>4. RequestsAreMeltdowns'
  <2>1. \/ requests = Answered
        \/ requests = Answered + 1 /\ cfg.guided /\ pc \in InferredMain
    <3>1. CASE cfg.guided /\ main.meltdown /\ pc \in InferredMain
      BY <3>1 DEF RequestsCounted
    <3>2. CASE ~(cfg.guided /\ main.meltdown /\ pc \in InferredMain)
      <4>1. requests = Answered + 0
        BY <3>2 DEF RequestsCounted
      <4>2. Answered = requests
        BY <4>1, AnsweredNat
      <4> QED  BY <4>2
    <3> QED  BY <3>1, <3>2
  <2>2. pc \in InferredMain => pc \in InStep
    BY PhaseSets
  <2>3. requests' \in {Answered', Answered' + 1}
    BY <1>1, <2>1
  <2>4. requests' = Answered' \/ (cfg'.guided /\ outcome'.error)
    BY <1>1, <2>1, <2>2
  <2>5. Answered' # Answered' + 1
    <3>1. requests \in Nat
      BY DEF TypeOK
    <3> QED  BY <1>1, <2>1, <3>1
  <2> QED  BY <2>3, <2>4, <2>5 DEF RequestsAreMeltdowns, Answered
<1>5. BaselineCurvesComplete'
  <2>1. \/ Len(base.log) = baseRun.t
        \/ pc = "record" /\ Len(base.log) = baseRun.t - 1
    BY DEF Clock
  <2> QED  BY <2>1, PhaseSets DEF BaselineCurvesComplete
<1> QED  BY <1>1, <1>2, <1>3, <1>4, <1>5, WhenEnded DEF RowInv

\* The phases that change the counters of neither request nor row.
LEMMA RequestsKept ==
  ASSUME IInv, pc # "end", requests' = requests, cfg' = cfg, main'.log = main.log,
         base'.log = base.log,
         cfg.guided =>
           (main'.meltdown /\ pc' \in InferredMain <=> main.meltdown /\ pc \in InferredMain)
  PROVE  RequestsCounted'
<1>1. Answered' = Answered
  BY LogsKept DEF IInv, RowInv
<1>2. requests = Answered + IF cfg.guided /\ main.meltdown /\ pc \in InferredMain
                            THEN 1 ELSE 0
  BY DEF IInv, RequestsCounted
<1> QED  BY <1>1, <1>2 DEF RequestsCounted

LEMMA ResetStep ==
  ASSUME IInv, Reset
  PROVE  IInv'
<1> USE DEF Reset
<1>1. CASE pc' = "end"
  <2>1. outcome' \in [done : BOOLEAN, success : BOOLEAN, error : BOOLEAN]
    BY <1>1 DEF IInv, TypeOK
  <2> QED  BY <1>1, <2>1, StopStep, PhaseSets
<1>2. CASE pc' = "head" /\ UNCHANGED outcome
  <2>1. TypeOK'
    BY <1>2 DEF IInv, TypeOK, Phases
  <2>2. Clock'
    BY <1>2, PhaseSets DEF IInv, Clock, Live
  <2>3. MainInv'
    <3>1. /\ Aligns(main, t, FALSE, FALSE, FALSE) /\ PlanInv(main, "main", FALSE, FALSE, FALSE)
          /\ Warm(main, t, FALSE)
      BY PhaseSets DEF IInv, MainInv, Aligns, PlanInv, Warm, Recovery
    <3> QED  BY <1>2, <3>1, PhaseSets DEF MainInv, Aligns, PlanInv, Warm, Recovery
  <2>4. BaseInv'
    <3>1. /\ Warm(base, t, FALSE)
          /\ Live => /\ ~baseRun.done /\ Len(base.log) = t
                     /\ Aligns(base, t, FALSE, FALSE, FALSE)
                     /\ PlanInv(base, "base", FALSE, FALSE, FALSE)
      BY PhaseSets DEF IInv, BaseInv, Aligns, PlanInv, Warm
    <3> QED  BY <1>2, <3>1, PhaseSets DEF BaseInv, Aligns, PlanInv, Warm, Live
  <2>5. RowInv'
    BY LogsKept DEF IInv, RowInv
  <2>6. RequestsCounted'
    BY <1>2, RequestsKept, PhaseSets
  <2> QED  BY <1>2, <2>1, <2>2, <2>3, <2>4, <2>5, <2>6, WhenRunning DEF IInv, RowInv
<1> QED  BY <1>1, <1>2

LEMMA BeginStepStep ==
  ASSUME IInv, BeginStep
  PROVE  IInv'
<1> USE DEF BeginStep
<1>1. /\ main' \in Side /\ main'.meltdown = FALSE /\ main'.judges = None
      /\ main'.log = main.log /\ main'.history = main.history /\ main'.preds = main.preds
      /\ main'.plan = main.plan /\ main'.rawPlan = main.rawPlan
      /\ main'.now = main.now /\ main'.raw = main.raw /\ main'.detector = main.detector
  BY DEF IInv, TypeOK, Side
<1>2. /\ base' \in Side /\ base'.meltdown = FALSE /\ base'.judges = None
      /\ base'.log = base.log /\ base'.history = base.history /\ base'.preds = base.preds
      /\ base'.plan = base.plan /\ base'.rawPlan = base.rawPlan
      /\ base'.now = base.now /\ base'.raw = base.raw /\ base'.detector = base.detector
  BY DEF IInv, TypeOK, Side
<1>3. /\ baseRun' \in [active : BOOLEAN, t : 0..MaxSteps, done : BOOLEAN, success : BOOLEAN]
      /\ baseRun'.active = (cfg.twin /\ ~baseRun.done)
      /\ baseRun'.t = baseRun.t /\ baseRun'.done = baseRun.done
  BY DEF IInv, TypeOK
<1>4. TypeOK'
  BY <1>1, <1>2, <1>3 DEF IInv, TypeOK, Phases
<1>5. Live' <=> Live
  BY <1>3 DEF Live
<1>6. Clock'
  BY <1>2, <1>3, <1>5, PhaseSets DEF IInv, Clock
<1>7. MainInv'
  <2>1. /\ Len(main.log) = t /\ HistoryIs(main, t) /\ PredsAre(main, Consumed(t), t)
        /\ main.rawPlan = main.plan /\ PlanBefore(main, t, FALSE)
        /\ main.detector.boot <= Consumed(t)
    BY PhaseSets DEF IInv, MainInv, Aligns, PlanInv, Warm, Recovery
  <2>2. HistoryIs(main', t) /\ PredsAre(main', Consumed(t), t) /\ PlanBefore(main', t, FALSE)
    BY <1>1, <2>1, SameHistory, SamePreds, SameSide
  <2> QED  BY <1>1, <2>1, <2>2, PhaseSets
           DEF MainInv, Aligns, JudgesAligned, PlanInv, Warm, WarmVerdict, Recovery
<1>8. BaseInv'
  <2>1. base.detector.boot <= Consumed(t)
    BY PhaseSets DEF IInv, BaseInv, Warm
  <2>2. ASSUME Live
        PROVE  /\ ~baseRun.done /\ Len(base'.log) = t
               /\ HistoryIs(base', t) /\ PredsAre(base', Consumed(t), t)
               /\ base'.rawPlan = base'.plan /\ PlanBefore(base', t, FALSE)
    <3>1. /\ ~baseRun.done /\ Len(base.log) = t
          /\ HistoryIs(base, t) /\ PredsAre(base, Consumed(t), t)
          /\ base.rawPlan = base.plan /\ PlanBefore(base, t, FALSE)
      BY <2>2, PhaseSets DEF IInv, BaseInv, Aligns, PlanInv
    <3> QED  BY ZenonT(60), <1>2, <3>1, SameHistory, SamePreds, SameSide
  <2> QED  BY <1>2, <1>3, <1>5, <2>1, <2>2, PhaseSets
           DEF BaseInv, Aligns, JudgesAligned, PlanInv, Warm, WarmVerdict
<1>9. RowInv'
  BY <1>1, <1>2, LogsKept DEF IInv, RowInv
<1>10. RequestsCounted'
  BY <1>1, <1>2, RequestsKept, PhaseSets
<1> QED  BY <1>4, <1>6, <1>7, <1>8, <1>9, <1>10, WhenRunning DEF IInv, RowInv

LEMMA EndLoopStep ==
  ASSUME IInv, EndLoop
  PROVE  IInv'
<1>1. outcome' \in [done : BOOLEAN, success : BOOLEAN, error : BOOLEAN]
  BY DEF EndLoop, IInv, TypeOK
<1> QED  BY <1>1, StopStep, PhaseSets DEF EndLoop

LEMMA RaiseStep ==
  ASSUME IInv, Raise
  PROVE  IInv'
<1>1. /\ outcome' \in [done : BOOLEAN, success : BOOLEAN, error : BOOLEAN]
      /\ outcome'.error
  BY DEF Raise, IInv, TypeOK
<1> QED  BY <1>1, StopStep, PhaseSets DEF Raise

\* What a side that is not stepped, or only observed, keeps.
SameButHistory(s, n) ==
  /\ n.log = s.log /\ n.now = s.now /\ n.raw = s.raw /\ n.plan = s.plan
  /\ n.rawPlan = s.rawPlan /\ n.preds = s.preds /\ n.detector = s.detector
  /\ n.meltdown = s.meltdown /\ n.judges = s.judges

LEMMA EncodeFramesStep ==
  ASSUME IInv, EncodeFrames
  PROVE  IInv'
<1> USE DEF EncodeFrames
<1>0. t \in Nat /\ main \in Side /\ base \in Side
  BY Types DEF IInv, TypeOK
<1>1. /\ Len(main.log) = t /\ HistoryIs(main, t) /\ PredsAre(main, Consumed(t), t)
      /\ main.rawPlan = main.plan /\ PlanBefore(main, t, FALSE)
      /\ main.judges = None /\ ~main.meltdown /\ main.detector.boot <= Consumed(t)
  BY PhaseSets
  DEF IInv, MainInv, Aligns, JudgesAligned, PlanInv, Warm, WarmVerdict, Recovery
<1>2. base.detector.boot <= Consumed(t) /\ ~base.meltdown
  BY PhaseSets DEF IInv, BaseInv, Warm, WarmVerdict
<1>3. baseRun.active => /\ ~baseRun.done /\ Len(base.log) = t
                       /\ HistoryIs(base, t) /\ PredsAre(base, Consumed(t), t)
                       /\ base.rawPlan = base.plan /\ PlanBefore(base, t, FALSE)
                       /\ base.judges = None
  BY PhaseSets DEF IInv, BaseInv, Aligns, JudgesAligned, PlanInv, Live
<1>4. main' \in Side /\ HistoryIs(main', t + 1) /\ SameButHistory(main, main')
  <2>1. main' \in Side /\ HistoryIs(main', t + 1)
    BY <1>0, <1>1, EncodeSide
  <2>2. PICK h : main' = [main EXCEPT !.history = h]
    BY DEF Encode
  <2> QED  BY <1>0, <2>1, <2>2 DEF SameButHistory, Side
<1>5. /\ base' \in Side /\ SameButHistory(base, base')
      /\ baseRun.active => HistoryIs(base', t + 1)
  <2>1. CASE baseRun.active
    <3>1. base' = Encode(base)
      BY <2>1
    <3>2. base' \in Side /\ HistoryIs(base', t + 1)
      BY <1>0, <1>3, <2>1, <3>1, EncodeSide
    <3>3. PICK h : base' = [base EXCEPT !.history = h]
      BY <3>1 DEF Encode
    <3> QED  BY <1>0, <3>2, <3>3 DEF SameButHistory, Side
  <2>2. CASE ~baseRun.active
    BY <1>0, <2>2 DEF SameButHistory
  <2> QED  BY <2>1, <2>2
<1>6. TypeOK'
  BY <1>4, <1>5 DEF IInv, TypeOK, Phases
<1>7. Clock'
  BY <1>5, PhaseSets DEF IInv, Clock, Live, SameButHistory
<1>8. MainInv'
  <2>1. PredsAre(main', Consumed(t), t) /\ PlanBefore(main', t, FALSE)
    BY <1>1, <1>4, SamePreds, SameSide DEF SameButHistory
  <2> QED  BY <1>1, <1>4, <2>1, PhaseSets
           DEF MainInv, Aligns, JudgesAligned, PlanInv, Warm, WarmVerdict, Recovery,
               SameButHistory
<1>9. BaseInv'
  <2>1. baseRun.active => PredsAre(base', Consumed(t), t) /\ PlanBefore(base', t, FALSE)
    BY <1>3, <1>5, SamePreds, SameSide DEF SameButHistory
  <2> QED  BY <1>2, <1>3, <1>5, <2>1, PhaseSets
           DEF BaseInv, Aligns, JudgesAligned, PlanInv, Warm, WarmVerdict, Live,
               SameButHistory
<1>10. RowInv'
  BY <1>4, <1>5, LogsKept DEF IInv, RowInv, SameButHistory
<1>11. RequestsCounted'
  BY <1>4, <1>5, RequestsKept, PhaseSets DEF SameButHistory
<1> QED  BY <1>6, <1>7, <1>8, <1>9, <1>10, <1>11, WhenRunning DEF IInv, RowInv

LEMMA JudgeMainStep ==
  ASSUME IInv, JudgeMain
  PROVE  IInv'
<1> USE DEF JudgeMain
<1>0. t \in Nat /\ main \in Side /\ main.detector \in Detector
  BY Types DEF IInv, TypeOK, Side
<1>1. /\ Len(main.log) = t /\ HistoryIs(main, t + 1) /\ PredsAre(main, Consumed(t), t)
      /\ main.rawPlan = main.plan /\ PlanBefore(main, t, FALSE)
      /\ main.judges = None /\ ~main.meltdown /\ main.detector.boot <= Consumed(t)
  BY PhaseSets
  DEF IInv, MainInv, Aligns, JudgesAligned, PlanInv, Warm, WarmVerdict, Recovery
<1>2. /\ Consumed(t) \in Nat /\ Consumed(t) <= Consumed(t + 1) /\ SafetyK \in Nat
      /\ Consumed(t + 1) = IF t >= SafetyK THEN Consumed(t) + 1 ELSE Consumed(t)
      /\ Consumed(t + 1) \in Nat /\ t >= SafetyK => Consumed(t) = t - SafetyK
  <2>1. t + 1 \in Nat
    BY <1>0
  <2> QED  BY <1>0, <2>1, ConsumedSteps, Sizes
<1>3. main.detector.boot \in Nat /\ BootstrapSize \in Nat
  BY <1>0, DetectorAssumption DEF Detector
<1>4. /\ main' \in Side /\ main'.log = main.log /\ HistoryIs(main', t + 1)
      /\ PredsAre(main', Consumed(t + 1), t) /\ JudgesAligned(main', t, TRUE)
      /\ main'.rawPlan = main'.plan /\ PlanBefore(main', t, main'.meltdown)
      /\ main'.detector.boot <= Consumed(t + 1)
      /\ main'.meltdown => t >= SafetyK + BootstrapSize
  <2>1. CASE ~(t >= SafetyK)
    <3>1. main' = main /\ Consumed(t + 1) = Consumed(t)
      BY <1>0, <1>1, <1>2, <2>1, DueSide
    <3>2. main.meltdown = FALSE
      BY <1>1, Types DEF IInv
    <3> QED  BY <1>0, <1>1, <2>1, <3>1, <3>2 DEF JudgesAligned
  <2>2. CASE t >= SafetyK
    <3>0. Due(main)
      BY <1>0, <1>1, <2>2, DueSide
    <3>1. PICK r \in Reading :
            LET s == Judge(main, r)
            IN  main' = IF s.meltdown THEN DropPlan(s) ELSE s
      BY <3>0
    <3>2. PICK s : s = Judge(main, r)
      OBVIOUS
    <3>3. main' = IF s.meltdown THEN DropPlan(s) ELSE s
      BY <3>1, <3>2
    <3>4. /\ s \in Side /\ PredsAre(s, Consumed(t + 1), t)
          /\ s.judges = RowOf(main, t - SafetyK).act
          /\ s.detector = RobustThresholdStep(main.detector, r)
          /\ s.meltdown = Verdict(main.detector, r)
          /\ s.plan = main.plan /\ s.rawPlan = main.rawPlan
          /\ s.now = main.now /\ s.raw = main.raw
          /\ s.history = main.history /\ s.log = main.log
      BY <1>0, <1>1, <2>2, <3>2, JudgeSide
    <3>5. /\ RobustThresholdStep(main.detector, r).boot <= main.detector.boot + 1
          /\ RobustThresholdStep(main.detector, r) \in Detector
          /\ Verdict(main.detector, r) \in BOOLEAN
          /\ Verdict(main.detector, r) => main.detector.boot = BootstrapSize
      BY <1>0, DetectorStep
    <3>6. s.detector.boot <= Consumed(t + 1)
      <4>1. s.detector.boot <= main.detector.boot + 1 /\ s.detector.boot \in Int
        BY <3>4, <3>5, DetectorAssumption DEF Detector
      <4> QED  BY <1>1, <1>2, <1>3, <2>2, <4>1
    <3>7. s.meltdown => t >= SafetyK + BootstrapSize
      BY <1>0, <1>1, <1>2, <1>3, <2>2, <3>4, <3>5
    <3>8. JudgesAligned(s, t, TRUE)
      BY <2>2, <3>4 DEF JudgesAligned, RowOf
    <3>9. PlanBefore(s, t, FALSE)
      BY <1>1, <3>4, SameSide
    <3>10. HistoryIs(s, t + 1)
      BY <1>1, <3>4, SameHistory
    <3>11. CASE ~s.meltdown
      <4>1. main' = s /\ s.meltdown = FALSE
        BY <3>3, <3>4, <3>5, <3>11
      <4> QED  BY <1>1, <3>4, <3>6, <3>8, <3>9, <3>10, <4>1
    <3>12. CASE s.meltdown
      <4>1. main' = [s EXCEPT !.plan = <<>>, !.rawPlan = <<>>] /\ s.meltdown = TRUE
        BY <3>3, <3>4, <3>5, <3>12 DEF DropPlan
      <4>2. /\ main' \in Side /\ main'.plan = <<>> /\ main'.rawPlan = <<>>
            /\ main'.log = s.log /\ main'.now = s.now /\ main'.history = s.history
            /\ main'.preds = s.preds /\ main'.detector = s.detector
            /\ main'.meltdown = TRUE /\ main'.judges = s.judges
        <5>1. <<>> \in Seq(Action)
          BY EmptySeq
        <5> QED  BY <3>4, <4>1, <5>1 DEF Side
      <4>3. PredsAre(main', Consumed(t + 1), t) /\ HistoryIs(main', t + 1)
        BY <3>4, <3>10, <4>2, SamePreds, SameHistory
      <4>4. PlanBefore(main', t, TRUE)
        BY <3>9, <4>2 DEF PlanBefore, RowOf
      <4>5. JudgesAligned(main', t, TRUE)
        BY <3>8, <4>2 DEF JudgesAligned, RowOf
      <4> QED  BY <3>4, <3>6, <3>7, <3>12, <4>2, <4>3, <4>4, <4>5
    <3> QED  BY <3>11, <3>12
  <2> QED  BY <2>1, <2>2
<1>5. TypeOK'
  BY <1>4 DEF IInv, TypeOK, Phases
<1>6. Clock'
  BY PhaseSets DEF IInv, Clock, Live
<1>7. MainInv'
  <2>1. main'.meltdown \in BOOLEAN /\ Recovery' = main'.meltdown
    BY <1>4, PhaseSets DEF Side, Recovery
  <2> QED  BY <1>1, <1>4, <2>1, PhaseSets
           DEF MainInv, Aligns, PlanInv, Warm, WarmVerdict, JudgesAligned
<1>8. BaseInv'
  <2>1. base.detector.boot <= Consumed(t) /\ ~base.meltdown
    BY PhaseSets DEF IInv, BaseInv, Warm, WarmVerdict
  <2>2. baseRun.active => /\ ~baseRun.done /\ Len(base.log) = t
                         /\ HistoryIs(base, t + 1) /\ PredsAre(base, Consumed(t), t)
                         /\ base.rawPlan = base.plan /\ PlanBefore(base, t, FALSE)
                         /\ base.judges = None
    BY PhaseSets DEF IInv, BaseInv, Aligns, JudgesAligned, PlanInv, Live
  <2> QED  BY <2>1, <2>2, PhaseSets
           DEF BaseInv, Aligns, JudgesAligned, PlanInv, Warm, WarmVerdict, Live
<1>9. RowInv'
  BY <1>4, LogsKept DEF IInv, RowInv
<1>10. RequestsCounted'
  BY <1>4, RequestsKept, PhaseSets
<1> QED  BY <1>5, <1>6, <1>7, <1>8, <1>9, <1>10, WhenRunning DEF IInv, RowInv

LEMMA JudgeBaseStep ==
  ASSUME IInv, JudgeBase
  PROVE  IInv'
<1> USE DEF JudgeBase
<1>0. t \in Nat /\ base \in Side /\ base.detector \in Detector
  BY Types DEF IInv, TypeOK, Side
<1>1. base.detector.boot <= Consumed(t) /\ base.meltdown = FALSE
  BY PhaseSets, Types DEF IInv, BaseInv, Warm, WarmVerdict
<1>2. baseRun.active => /\ ~baseRun.done /\ Len(base.log) = t
                       /\ HistoryIs(base, t + 1) /\ PredsAre(base, Consumed(t), t)
                       /\ base.rawPlan = base.plan /\ PlanBefore(base, t, FALSE)
                       /\ base.judges = None
  BY PhaseSets DEF IInv, BaseInv, Aligns, JudgesAligned, PlanInv, Live
<1>3. /\ Consumed(t) \in Nat /\ Consumed(t) <= Consumed(t + 1) /\ SafetyK \in Nat
      /\ Consumed(t + 1) = IF t >= SafetyK THEN Consumed(t) + 1 ELSE Consumed(t)
      /\ Consumed(t + 1) \in Nat /\ t >= SafetyK => Consumed(t) = t - SafetyK
  <2>1. t + 1 \in Nat
    BY <1>0
  <2> QED  BY <1>0, <2>1, ConsumedSteps, Sizes
<1>4. base.detector.boot \in Nat /\ BootstrapSize \in Nat
  BY <1>0, DetectorAssumption DEF Detector
<1>5. /\ base' \in Side /\ base'.log = base.log
      /\ base'.detector.boot <= Consumed(t + 1)
      /\ base'.meltdown => t >= SafetyK + BootstrapSize
      /\ baseRun.active => /\ HistoryIs(base', t + 1) /\ PredsAre(base', Consumed(t + 1), t)
                           /\ JudgesAligned(base', t, TRUE)
                           /\ base'.rawPlan = base'.plan /\ PlanBefore(base', t, FALSE)
  <2>1. CASE ~baseRun.active
    <3>1. base' = base
      BY <2>1
    <3>2. base.detector.boot <= Consumed(t + 1)
      BY <1>1, <1>3, <1>4
    <3> QED  BY <1>0, <1>1, <2>1, <3>1, <3>2
  <2>2. CASE baseRun.active /\ ~(t >= SafetyK)
    <3>1. base' = base /\ Consumed(t + 1) = Consumed(t)
      BY <1>0, <1>2, <1>3, <2>2, DueSide
    <3> QED  BY <1>0, <1>1, <1>2, <2>2, <3>1 DEF JudgesAligned
  <2>3. CASE baseRun.active /\ t >= SafetyK
    <3>0. Due(base)
      BY <1>0, <1>2, <2>3, DueSide
    <3>1. PICK r \in Reading : base' = Judge(base, r)
      BY <2>3, <3>0
    <3>2. /\ base' \in Side /\ PredsAre(base', Consumed(t + 1), t)
          /\ base'.judges = RowOf(base, t - SafetyK).act
          /\ base'.detector = RobustThresholdStep(base.detector, r)
          /\ base'.meltdown = Verdict(base.detector, r)
          /\ base'.plan = base.plan /\ base'.rawPlan = base.rawPlan
          /\ base'.now = base.now /\ base'.raw = base.raw
          /\ base'.history = base.history /\ base'.log = base.log
      BY <1>0, <1>2, <2>3, <3>1, JudgeSide
    <3>3. /\ RobustThresholdStep(base.detector, r).boot <= base.detector.boot + 1
          /\ RobustThresholdStep(base.detector, r) \in Detector
          /\ Verdict(base.detector, r) \in BOOLEAN
          /\ Verdict(base.detector, r) => base.detector.boot = BootstrapSize
      BY <1>0, DetectorStep
    <3>4. base'.detector.boot <= Consumed(t + 1)
      <4>1. base'.detector.boot <= base.detector.boot + 1 /\ base'.detector.boot \in Int
        BY <3>2, <3>3, DetectorAssumption DEF Detector
      <4> QED  BY <1>1, <1>3, <1>4, <2>3, <4>1
    <3>5. base'.meltdown => t >= SafetyK + BootstrapSize
      BY <1>0, <1>1, <1>3, <1>4, <2>3, <3>2, <3>3
    <3>6. JudgesAligned(base', t, TRUE)
      BY <2>3, <3>2 DEF JudgesAligned, RowOf
    <3>7. PlanBefore(base', t, FALSE) /\ HistoryIs(base', t + 1)
      BY <1>2, <2>3, <3>2, SameSide, SameHistory
    <3> QED  BY <1>2, <2>3, <3>2, <3>4, <3>5, <3>6, <3>7
  <2> QED  BY <2>1, <2>2, <2>3
<1>6. TypeOK'
  BY <1>5 DEF IInv, TypeOK, Phases
<1>7. Clock'
  BY <1>5, PhaseSets DEF IInv, Clock, Live
<1>8. MainInv'
  <2>1. /\ Len(main.log) = t /\ HistoryIs(main, t + 1) /\ PredsAre(main, Consumed(t + 1), t)
        /\ JudgesAligned(main, t, TRUE) /\ PlanInv(main, "main", Recovery, FALSE, FALSE)
        /\ Warm(main, t, TRUE) /\ WarmVerdict(main, t, TRUE)
    BY PhaseSets DEF IInv, MainInv, Aligns, JudgesAligned, PlanInv, Warm, WarmVerdict
  <2>2. Recovery' <=> Recovery
    BY PhaseSets DEF Recovery
  <2> QED  BY <2>1, <2>2, PhaseSets
           DEF MainInv, Aligns, JudgesAligned, PlanInv, Warm, WarmVerdict
<1>9. BaseInv'
  BY <1>2, <1>5, PhaseSets
  DEF BaseInv, Aligns, JudgesAligned, PlanInv, Warm, WarmVerdict, Live
<1>10. RowInv'
  BY <1>5, LogsKept DEF IInv, RowInv
<1>11. RequestsCounted'
  BY <1>5, RequestsKept, PhaseSets
<1> QED  BY <1>6, <1>7, <1>8, <1>9, <1>10, <1>11, WhenRunning DEF IInv, RowInv

LEMMA InferMainStep ==
  ASSUME IInv, InferMain
  PROVE  IInv'
<1> USE DEF InferMain
<1>0. /\ t \in Nat /\ main \in Side /\ main.meltdown \in BOOLEAN
      /\ cfg.guided \in BOOLEAN /\ requests \in Nat
  BY Types DEF IInv, TypeOK, Side
<1>1. /\ Len(main.log) = t /\ HistoryIs(main, t + 1) /\ PredsAre(main, Consumed(t + 1), t)
      /\ JudgesAligned(main, t, TRUE) /\ main.rawPlan = main.plan
      /\ Warm(main, t, TRUE) /\ WarmVerdict(main, t, TRUE)
  BY PhaseSets DEF IInv, MainInv, Aligns, JudgesAligned, PlanInv, Warm, WarmVerdict
<1>2. PlanBefore(main, t, main.meltdown)
  <2>1. Recovery = main.meltdown
    BY <1>0, PhaseSets DEF Recovery
  <2>2. PlanBefore(main, t, Recovery)
    BY PhaseSets DEF IInv, MainInv, PlanInv
  <2> QED  BY <2>1, <2>2
<1>3. PICK g : g = (main.meltdown /\ cfg.guided)
  OBVIOUS
<1>4. /\ main' = IF main.plan = <<>> THEN Infer(main, "main", g) ELSE main
      /\ requests' = IF main.plan = <<>> /\ g THEN requests + 1 ELSE requests
  BY <1>0, <1>3 DEF GuidanceReplan
<1>5. /\ main' \in Side /\ main'.rawPlan = main'.plan
      /\ PlanInferred(main', "main", t, main.meltdown, cfg.guided)
      /\ main'.log = main.log /\ main'.history = main.history /\ main'.preds = main.preds
      /\ main'.detector = main.detector /\ main'.meltdown = main.meltdown
      /\ main'.judges = main.judges /\ main'.now = main.now /\ main'.raw = main.raw
      /\ main.meltdown => main.plan = <<>>
  <2>1. Guides(g, main.meltdown, cfg.guided) /\ Filled(main, main', "main", g)
    BY <1>3, <1>4 DEF Guides, Filled
  <2> HIDE DEF InferMain
  <2> QED  BY <1>0, <1>1, <1>2, <2>1, InferSide
<1>6. TypeOK'
  <2>1. requests' \in Nat
    BY <1>0, <1>4
  <2> QED  BY <1>5, <2>1 DEF IInv, TypeOK, Phases
<1>7. Clock'
  BY PhaseSets DEF IInv, Clock, Live
<1>8. MainInv'
  <2>1. HistoryIs(main', t + 1) /\ PredsAre(main', Consumed(t + 1), t)
    BY <1>1, <1>5, SameHistory, SamePreds
  <2>2. JudgesAligned(main', t, TRUE) /\ Warm(main', t, TRUE) /\ WarmVerdict(main', t, TRUE)
    BY <1>1, <1>5 DEF JudgesAligned, Warm, WarmVerdict, RowOf
  <2>3. Recovery' = main.meltdown
    BY <1>0, <1>5, PhaseSets DEF Recovery
  <2>4. PlanInv(main, "main", Recovery, pc \in InferredMain, pc \in Acted)'
    BY <1>5, <2>3, PhaseSets DEF PlanInv
  <2> QED  BY <1>1, <1>5, <2>1, <2>2, <2>4, PhaseSets
           DEF MainInv, Aligns, JudgesAligned, Warm, WarmVerdict
<1>9. BaseInv'
  <2>1. /\ Warm(base, t, TRUE) /\ WarmVerdict(base, t, TRUE)
        /\ baseRun.active => /\ ~baseRun.done /\ Len(base.log) = t
                             /\ Aligns(base, t, TRUE, TRUE, FALSE)
                             /\ JudgesAligned(base, t, TRUE)
                             /\ PlanInv(base, "base", FALSE, FALSE, FALSE)
    BY PhaseSets DEF IInv, BaseInv, Aligns, JudgesAligned, PlanInv, Live, Warm, WarmVerdict
  <2> QED  BY <2>1, PhaseSets
           DEF BaseInv, Aligns, JudgesAligned, PlanInv, Warm, WarmVerdict, Live
<1>10. RowInv' /\ Answered' = Answered
  BY <1>5, LogsKept DEF IInv, RowInv
<1>11. RequestsCounted'
  <2>1. requests = Answered
    <3>1. requests = Answered + 0
      BY PhaseSets DEF IInv, RequestsCounted
    <3> QED  BY <3>1, AnsweredNat DEF IInv
  <2>2. requests' = requests + IF cfg.guided /\ main.meltdown THEN 1 ELSE 0
    BY <1>0, <1>3, <1>4, <1>5
  <2> QED  BY <1>5, <1>10, <2>1, <2>2, PhaseSets DEF RequestsCounted
<1> QED  BY <1>6, <1>7, <1>8, <1>9, <1>10, <1>11, WhenRunning DEF IInv, RowInv

LEMMA InferBaseStep ==
  ASSUME IInv, InferBase
  PROVE  IInv'
<1> USE DEF InferBase
<1>0. t \in Nat /\ base \in Side /\ cfg.guided \in BOOLEAN
  BY Types DEF IInv, TypeOK
<1>1. baseRun.active => /\ ~baseRun.done /\ Len(base.log) = t
                       /\ HistoryIs(base, t + 1) /\ PredsAre(base, Consumed(t + 1), t)
                       /\ JudgesAligned(base, t, TRUE)
                       /\ base.rawPlan = base.plan /\ PlanBefore(base, t, FALSE)
  BY PhaseSets DEF IInv, BaseInv, Aligns, JudgesAligned, PlanInv, Live
<1>2. Warm(base, t, TRUE) /\ WarmVerdict(base, t, TRUE)
  BY PhaseSets DEF IInv, BaseInv, Warm, WarmVerdict
<1>3. /\ base' \in Side /\ base'.log = base.log
      /\ base'.detector = base.detector /\ base'.meltdown = base.meltdown
      /\ baseRun.active => /\ base'.rawPlan = base'.plan
                           /\ PlanInferred(base', "base", t, FALSE, cfg.guided)
                           /\ base'.history = base.history /\ base'.preds = base.preds
                           /\ base'.judges = base.judges
                           /\ base'.now = base.now /\ base'.raw = base.raw
  <2>1. CASE baseRun.active
    <3>1. Len(base.log) = t /\ base.rawPlan = base.plan /\ PlanBefore(base, t, FALSE)
      BY <1>1, <2>1
    <3>2. PICK no : no = FALSE
      OBVIOUS
    <3>3. /\ PlanBefore(base, t, no) /\ no \in BOOLEAN
          /\ Guides(no, no, cfg.guided) /\ Filled(base, base', "base", no)
      <4>1. PlanBefore(base, t, no) /\ Filled(base, base', "base", no)
        BY <2>1, <3>1, <3>2 DEF Filled
      <4>2. Guides(no, no, cfg.guided) /\ no \in BOOLEAN
        BY <3>2 DEF Guides
      <4> QED  BY <4>1, <4>2
    <3> HIDE DEF InferBase
    <3>4. /\ base' \in Side /\ base'.rawPlan = base'.plan
          /\ PlanInferred(base', "base", t, no, cfg.guided)
          /\ base'.log = base.log /\ base'.history = base.history
          /\ base'.preds = base.preds /\ base'.detector = base.detector
          /\ base'.meltdown = base.meltdown /\ base'.judges = base.judges
          /\ base'.now = base.now /\ base'.raw = base.raw
      <4>1. Len(base.log) = t /\ base.rawPlan = base.plan
        BY <3>1
      <4> QED  BY <1>0, <3>3, <4>1, InferSide
    <3>5. PlanInferred(base', "base", t, FALSE, cfg.guided)
      BY <3>2, <3>4
    <3> QED  BY <2>1, <3>4, <3>5
  <2>2. CASE ~baseRun.active
    BY <1>0, <2>2
  <2> QED  BY <2>1, <2>2
<1>4. TypeOK'
  BY <1>3 DEF IInv, TypeOK, Phases
<1>5. Clock'
  BY <1>3, PhaseSets DEF IInv, Clock, Live
<1>6. MainInv'
  <2>1. /\ Len(main.log) = t /\ HistoryIs(main, t + 1) /\ PredsAre(main, Consumed(t + 1), t)
        /\ JudgesAligned(main, t, TRUE) /\ PlanInv(main, "main", Recovery, TRUE, FALSE)
        /\ Warm(main, t, TRUE) /\ WarmVerdict(main, t, TRUE)
    BY PhaseSets DEF IInv, MainInv, Aligns, JudgesAligned, PlanInv, Warm, WarmVerdict
  <2>2. Recovery' = Recovery
    BY PhaseSets DEF Recovery
  <2> QED  BY <2>1, <2>2, PhaseSets
           DEF MainInv, Aligns, JudgesAligned, PlanInv, Warm, WarmVerdict
<1>7. BaseInv'
  <2>1. /\ Warm(base', t, TRUE) /\ WarmVerdict(base', t, TRUE)
    BY <1>2, <1>3 DEF Warm, WarmVerdict
  <2>2. baseRun.active => /\ HistoryIs(base', t + 1) /\ PredsAre(base', Consumed(t + 1), t)
                         /\ JudgesAligned(base', t, TRUE)
    BY <1>1, <1>3, SameHistory, SamePreds DEF JudgesAligned, RowOf
  <2> QED  BY <1>1, <1>3, <2>1, <2>2, PhaseSets
           DEF BaseInv, Aligns, JudgesAligned, PlanInv, Warm, WarmVerdict, Live
<1>8. RowInv'
  BY <1>3, LogsKept DEF IInv, RowInv
<1>9. RequestsCounted'
  BY <1>3, RequestsKept, PhaseSets
<1> QED  BY <1>4, <1>5, <1>6, <1>7, <1>8, <1>9, WhenRunning DEF IInv, RowInv

\* A side whose turn it is not keeps its type when its next action is popped.
LEMMA PopType ==
  ASSUME NEW s \in Side, NEW a \in Action, NEW n, PoppedOr(s, a, n)
  PROVE  /\ n \in Side /\ n.log = s.log /\ n.history = s.history /\ n.preds = s.preds
         /\ n.detector = s.detector /\ n.meltdown = s.meltdown /\ n.judges = s.judges
<1>1. s.plan \in Seq(Action) /\ s.rawPlan \in Seq(Action)
  BY DEF Side
<1>2. PICK x, y, p, q : /\ x = IF s.plan # <<>> THEN Head(s.plan) ELSE a
                        /\ y = IF s.rawPlan # <<>> THEN Head(s.rawPlan) ELSE a
                        /\ p = IF s.plan # <<>> THEN Tail(s.plan) ELSE s.plan
                        /\ q = IF s.rawPlan # <<>> THEN Tail(s.rawPlan) ELSE s.rawPlan
  OBVIOUS
<1>3. x \in Action /\ y \in Action /\ p \in Seq(Action) /\ q \in Seq(Action)
  BY <1>1, <1>2, HeadTailProperties
<1>4. n = [s EXCEPT !.now = x, !.raw = y, !.plan = p, !.rawPlan = q]
  BY <1>2 DEF PoppedOr
<1> QED  BY <1>3, <1>4 DEF Side

LEMMA ActStep ==
  ASSUME IInv, Act
  PROVE  IInv'
<1>0. /\ t \in Nat /\ main \in Side /\ main.meltdown \in BOOLEAN
      /\ cfg.guided \in BOOLEAN /\ base \in Side
  BY Types DEF IInv, TypeOK, Side
<1>1. /\ Len(main.log) = t /\ HistoryIs(main, t + 1) /\ PredsAre(main, Consumed(t + 1), t)
      /\ JudgesAligned(main, t, TRUE) /\ main.rawPlan = main.plan
      /\ Warm(main, t, TRUE) /\ WarmVerdict(main, t, TRUE)
  BY PhaseSets
  DEF Act, IInv, MainInv, Aligns, JudgesAligned, PlanInv, Warm, WarmVerdict
<1>2. PlanInferred(main, "main", t, main.meltdown, cfg.guided)
  <2>1. Recovery = main.meltdown
    BY <1>0, PhaseSets DEF Recovery, Act
  <2>2. PlanInferred(main, "main", t, Recovery, cfg.guided)
    BY PhaseSets DEF Act, IInv, MainInv, PlanInv
  <2> QED  BY <2>1, <2>2
<1>3. PICK s : Popped(main, s)
  BY DEF Popped
<1>4. /\ s \in Side /\ s.rawPlan = s.plan /\ s.now \in Action /\ s.raw = s.now
      /\ PlanAfter(s, "main", t, main.meltdown, cfg.guided)
      /\ s.log = main.log /\ s.history = main.history /\ s.preds = main.preds
      /\ s.detector = main.detector /\ s.meltdown = main.meltdown
      /\ s.judges = main.judges
  BY <1>0, <1>1, <1>2, <1>3, ActSide
<1>5. main' = Predict(s)
  BY <1>3 DEF Act, Popped
<1>6. PredsAre(s, Consumed(t + 1), t)
  <2>1. t + 1 \in Nat /\ Consumed(t + 1) \in Nat
    BY <1>0, ConsumedSteps
  <2> QED  BY <1>0, <1>1, <1>4, <2>1, KeptPreds
<1>7. /\ main' \in Side /\ PredsAre(main', Consumed(t + 1), t + 1)
      /\ main'.plan = s.plan /\ main'.rawPlan = s.rawPlan
      /\ main'.now = s.now /\ main'.raw = s.raw
      /\ main'.log = main.log /\ main'.history = main.history
      /\ main'.detector = main.detector /\ main'.meltdown = main.meltdown
      /\ main'.judges = main.judges
  <2>1. Len(s.log) = t
    BY <1>1, <1>4
  <2> QED  BY <1>0, <1>4, <1>5, <1>6, <2>1, PredictSide
<1>8. PlanAfter(main', "main", t, main.meltdown, cfg.guided) /\ main'.rawPlan = main'.plan
  BY <1>4, <1>7, SameSide
<1>9. PoppedOr(base, s.now, base')
  BY <1>3, <1>4 DEF Act, Popped, PoppedOr
<1>10. /\ base' \in Side /\ base'.log = base.log /\ base'.history = base.history
       /\ base'.preds = base.preds /\ base'.detector = base.detector
       /\ base'.meltdown = base.meltdown /\ base'.judges = base.judges
  BY <1>0, <1>4, <1>9, PopType
<1>11. baseRun.active => /\ ~baseRun.done /\ Len(base.log) = t
                        /\ HistoryIs(base, t + 1) /\ PredsAre(base, Consumed(t + 1), t)
                        /\ JudgesAligned(base, t, TRUE)
                        /\ base.rawPlan = base.plan
                        /\ PlanInferred(base, "base", t, FALSE, cfg.guided)
  BY PhaseSets DEF Act, IInv, BaseInv, Aligns, JudgesAligned, PlanInv, Live
<1>12. baseRun.active => /\ base'.rawPlan = base'.plan
                        /\ PlanAfter(base', "base", t, FALSE, cfg.guided)
  <2> SUFFICES ASSUME baseRun.active
               PROVE  /\ base'.rawPlan = base'.plan
                      /\ PlanAfter(base', "base", t, FALSE, cfg.guided)
    OBVIOUS
  <2>1. base.plan # <<>>
    BY <1>11 DEF PlanInferred
  <2>2. Popped(base, base')
    BY <1>0, <1>9, <1>11, <2>1 DEF Popped, PoppedOr, Side
  <2>3. PICK no : no = FALSE
    OBVIOUS
  <2>4. PlanInferred(base, "base", t, no, cfg.guided)
    BY <1>11, <2>3
  <2>5. no \in BOOLEAN /\ Len(base.log) = t /\ base.rawPlan = base.plan
    BY <1>11, <2>3
  <2>6. base'.rawPlan = base'.plan /\ PlanAfter(base', "base", t, no, cfg.guided)
    BY <1>0, <2>2, <2>4, <2>5, ActSide
  <2> QED  BY <2>3, <2>6
<1>13. TypeOK'
  BY <1>7, <1>10 DEF Act, IInv, TypeOK, Phases
<1>14. Clock'
  BY <1>10, PhaseSets DEF Act, IInv, Clock, Live
<1>15. MainInv'
  <2>1. HistoryIs(main', t + 1)
    BY <1>1, <1>7, SameHistory
  <2>2. JudgesAligned(main', t, TRUE) /\ Warm(main', t, TRUE) /\ WarmVerdict(main', t, TRUE)
    BY <1>1, <1>7 DEF JudgesAligned, Warm, WarmVerdict, RowOf
  <2>3. Recovery' = main.meltdown
    BY <1>0, <1>7, PhaseSets DEF Recovery, Act
  <2>4. PlanInv(main, "main", Recovery, pc \in InferredMain, pc \in Acted)'
    BY <1>8, <2>3, PhaseSets DEF PlanInv, Act
  <2> QED  BY <1>1, <1>7, <2>1, <2>2, <2>4, PhaseSets
           DEF Act, MainInv, Aligns, JudgesAligned, Warm, WarmVerdict
<1>16. BaseInv'
  <2>1. Warm(base', t, TRUE) /\ WarmVerdict(base', t, TRUE)
    BY <1>10, PhaseSets DEF Act, IInv, BaseInv, Warm, WarmVerdict
  <2>2. baseRun.active => /\ HistoryIs(base', t + 1)
                         /\ JudgesAligned(base', t, TRUE)
    BY <1>10, <1>11, SameHistory DEF JudgesAligned, RowOf
  <2>3. baseRun.active => PredsAre(base', Consumed(t + 1), t)
    <3> SUFFICES ASSUME baseRun.active
                 PROVE  PredsAre(base', Consumed(t + 1), t)
      OBVIOUS
    <3>1. t + 1 \in Nat /\ Consumed(t + 1) \in Nat
      BY <1>0, ConsumedSteps
    <3> QED  BY <1>0, <1>10, <1>11, <3>1, KeptPreds
  <2> QED  BY <1>10, <1>11, <1>12, <2>1, <2>2, <2>3, PhaseSets
           DEF Act, BaseInv, Aligns, JudgesAligned, PlanInv, Warm, WarmVerdict, Live
<1>17. RowInv'
  BY <1>7, <1>10, LogsKept DEF Act, IInv, RowInv
<1>18. RequestsCounted'
  BY <1>7, <1>10, RequestsKept, PhaseSets DEF Act
<1> QED  BY <1>13, <1>14, <1>15, <1>16, <1>17, <1>18, WhenRunning DEF Act, IInv, RowInv

LEMMA StepMainStep ==
  ASSUME IInv, StepMain
  PROVE  IInv'
<1> USE DEF StepMain
<1>1. /\ Len(main.log) = t /\ HistoryIs(main, t + 1)
      /\ PredsAre(main, Consumed(t + 1), t + 1) /\ JudgesAligned(main, t, TRUE)
      /\ PlanInv(main, "main", Recovery, TRUE, TRUE)
      /\ Warm(main, t, TRUE) /\ WarmVerdict(main, t, TRUE)
  BY PhaseSets DEF IInv, MainInv, Aligns, JudgesAligned, PlanInv, Warm, WarmVerdict
<1>2. /\ Warm(base, t, TRUE) /\ WarmVerdict(base, t, TRUE)
      /\ baseRun.active => /\ ~baseRun.done /\ Len(base.log) = t
                           /\ HistoryIs(base, t + 1) /\ PredsAre(base, Consumed(t + 1), t)
                           /\ JudgesAligned(base, t, TRUE)
                           /\ PlanInv(base, "base", FALSE, TRUE, TRUE)
  BY PhaseSets DEF IInv, BaseInv, Aligns, JudgesAligned, PlanInv, Live, Warm, WarmVerdict
<1>3. TypeOK'
  BY DEF IInv, TypeOK, Phases
<1>4. Clock'
  BY PhaseSets DEF IInv, Clock, Live
<1>5. MainInv'
  <2>1. Recovery' = Recovery
    BY PhaseSets DEF Recovery
  <2> QED  BY <1>1, <2>1, PhaseSets
           DEF MainInv, Aligns, JudgesAligned, PlanInv, Warm, WarmVerdict
<1>6. BaseInv'
  BY <1>2, PhaseSets
  DEF BaseInv, Aligns, JudgesAligned, PlanInv, Warm, WarmVerdict, Live
<1>7. RowInv'
  BY LogsKept DEF IInv, RowInv
<1>8. RequestsCounted'
  BY RequestsKept, PhaseSets
<1> QED  BY <1>3, <1>4, <1>5, <1>6, <1>7, <1>8, WhenRunning DEF IInv, RowInv

LEMMA StepBaseStep ==
  ASSUME IInv, StepBase
  PROVE  IInv'
<1> USE DEF StepBase
<1>0. /\ t \in Nat /\ t < MaxSteps /\ MaxSteps \in Nat /\ base \in Side
      /\ cfg.guided \in BOOLEAN
  BY Types, PhaseSets DEF IInv, TypeOK, Clock
<1>1. /\ Len(main.log) = t /\ HistoryIs(main, t + 1)
      /\ PredsAre(main, Consumed(t + 1), t + 1) /\ JudgesAligned(main, t, TRUE)
      /\ PlanInv(main, "main", Recovery, TRUE, TRUE)
      /\ Warm(main, t, TRUE) /\ WarmVerdict(main, t, TRUE)
  BY PhaseSets DEF IInv, MainInv, Aligns, JudgesAligned, PlanInv, Warm, WarmVerdict
<1>2. /\ Warm(base, t, TRUE) /\ WarmVerdict(base, t, TRUE)
      /\ baseRun.active => /\ ~baseRun.done /\ Len(base.log) = t
                           /\ HistoryIs(base, t + 1) /\ PredsAre(base, Consumed(t + 1), t)
                           /\ JudgesAligned(base, t, TRUE)
                           /\ base.rawPlan = base.plan
                           /\ PlanAfter(base, "base", t, FALSE, cfg.guided)
  BY PhaseSets DEF IInv, BaseInv, Aligns, JudgesAligned, PlanInv, Live, Warm, WarmVerdict
<1>3. /\ baseRun.active => baseRun.t = t
      /\ Len(base.log) = baseRun.t /\ baseRun.t \in 0..MaxSteps
      /\ baseRun.active => cfg.twin
      /\ cfg.twin /\ ~baseRun.done => baseRun.active
  BY PhaseSets DEF IInv, Clock, Live, TypeOK
<1>p. pc = "stepBase" /\ pc' = "record" /\ UNCHANGED <<cfg, t, outcome, requests, main>>
  OBVIOUS
<1>4. CASE ~baseRun.active
  <2>1. base' = base /\ baseRun' = baseRun
    BY <1>4
  <2>2. TypeOK'
    BY <2>1 DEF IInv, TypeOK, Phases
  <2>3. Clock'
    BY <1>0, <1>3, <1>4, <2>1, PhaseSets DEF Clock, Live
  <2>4. MainInv'
    <3>1. Recovery' = Recovery
      BY PhaseSets DEF Recovery
    <3> QED  BY <1>1, <3>1, PhaseSets
             DEF MainInv, Aligns, JudgesAligned, PlanInv, Warm, WarmVerdict
  <2>5. BaseInv'
    BY <1>2, <1>4, <2>1, PhaseSets DEF BaseInv, Warm, WarmVerdict, Live
  <2>6. RowInv'
    BY <2>1, LogsKept DEF IInv, RowInv
  <2>7. RequestsCounted'
    BY <2>1, RequestsKept, PhaseSets
  <2> QED  BY <2>2, <2>3, <2>4, <2>5, <2>6, <2>7, WhenRunning DEF IInv, RowInv
<1>5. CASE baseRun.active
  <2>1. PICK done \in BOOLEAN, success \in BOOLEAN :
          /\ baseRun' = [baseRun EXCEPT !.t = @ + 1, !.done = done, !.success = @ \/ success]
          /\ base' = IF done THEN base ELSE Predict(base)
    BY <1>5
  <2> HIDE DEF StepBase
  <2>2. /\ baseRun' \in [active : BOOLEAN, t : 0..MaxSteps, done : BOOLEAN, success : BOOLEAN]
        /\ baseRun'.t = t + 1 /\ baseRun'.done = done /\ baseRun'.active = TRUE
    <3>1. baseRun.t + 1 \in 0..MaxSteps /\ baseRun.t + 1 = t + 1
      <4>1. baseRun.t = t
        BY <1>3, <1>5
      <4> QED  BY <1>0, <4>1
    <3>2. baseRun.success \/ success \in BOOLEAN
      OBVIOUS
    <3>3. baseRun.active = TRUE
      BY <1>5, Types DEF IInv
    <3> QED  BY <2>1, <3>1, <3>2, <3>3 DEF IInv, TypeOK
  <2>3. base.now \in Action /\ base.raw = base.now
    <3>1. PICK no : no = FALSE
      OBVIOUS
    <3>2. no \in BOOLEAN /\ base.now = NextAction(base, "base", t, no, cfg.guided)
      BY <1>2, <1>5, <3>1 DEF PlanAfter
    <3>3. t \in 0..Len(base.log)
      <4>1. Len(base.log) = t
        BY <1>2, <1>5
      <4> QED  BY <1>0, <4>1
    <3>4. base.now \in Action
      BY <1>0, <3>2, <3>3, NextActionIs
    <3> QED  BY <1>2, <1>5, <3>4 DEF PlanAfter
  <2>4. /\ base' \in Side /\ base'.log = base.log /\ base'.history = base.history
        /\ base'.plan = base.plan /\ base'.rawPlan = base.rawPlan
        /\ base'.now = base.now /\ base'.raw = base.raw
        /\ base'.detector = base.detector /\ base'.meltdown = base.meltdown
        /\ base'.judges = base.judges
        /\ ~done => PredsAre(base', Consumed(t + 1), t + 1)
    <3>1. CASE done
      BY <1>0, <2>1, <3>1
    <3>2. CASE ~done
      <4>1. base' = Predict(base)
        BY <2>1, <3>2
      <4>2. Len(base.log) = t /\ PredsAre(base, Consumed(t + 1), t)
        BY <1>2, <1>5
      <4>3. PICK n : n = Predict(base)
        OBVIOUS
      <4>4. /\ n \in Side /\ PredsAre(n, Consumed(t + 1), t + 1)
            /\ n.plan = base.plan /\ n.rawPlan = base.rawPlan
            /\ n.now = base.now /\ n.raw = base.raw
            /\ n.log = base.log /\ n.history = base.history
            /\ n.detector = base.detector /\ n.meltdown = base.meltdown
            /\ n.judges = base.judges
        BY <1>0, <2>3, <4>2, <4>3, PredictSide
      <4> QED  BY <4>1, <4>3, <4>4
    <3> QED  BY <3>1, <3>2
  <2>5. TypeOK'
    BY <1>p, <2>2, <2>4 DEF IInv, TypeOK, Phases
  <2>6. Clock'
    <3>1. Len(base'.log) = t /\ baseRun'.t - 1 = t
      BY <1>0, <1>2, <1>5, <2>2, <2>4
    <3>2. cfg'.twin /\ t' < MaxSteps
      BY <1>0, <1>3, <1>5, <1>p
    <3> QED  BY <1>p, <2>2, <3>1, <3>2, PhaseSets DEF Clock, Live
  <2>7. MainInv'
    <3>1. Recovery' = Recovery
      BY <1>p, PhaseSets DEF Recovery
    <3> QED  BY <1>1, <3>1, <1>p, PhaseSets
             DEF MainInv, Aligns, JudgesAligned, PlanInv, Warm, WarmVerdict
  <2>8. BaseInv'
    <3>1. /\ Warm(base', t, TRUE) /\ WarmVerdict(base', t, TRUE)
          /\ JudgesAligned(base', t, TRUE) /\ HistoryIs(base', t + 1)
      BY <1>2, <1>5, <2>4, SameHistory DEF Warm, WarmVerdict, JudgesAligned, RowOf
    <3>2. PlanAfter(base', "base", t, FALSE, cfg.guided)
      BY <1>2, <1>5, <2>4, SameSide
    <3> QED  BY <1>2, <1>5, <2>2, <2>4, <3>1, <3>2, <1>p, PhaseSets
             DEF BaseInv, Aligns, JudgesAligned, PlanInv, Warm, WarmVerdict, Live
  <2>9. RowInv'
    BY <1>p, <2>4, LogsKept DEF IInv, RowInv
  <2>10. RequestsCounted'
    BY <1>p, <2>4, RequestsKept, PhaseSets
  <2> QED  BY <2>5, <2>6, <2>7, <2>8, <2>9, <2>10, <1>p, WhenRunning DEF IInv, RowInv
<1> QED  BY <1>4, <1>5

-----------------------------------------------------------------------------
(* The record of a step.                                                   *)

\* The action of step i is the first of a new chunk, or the next of the last.
Starts(s, side, i, recovery, canGuide) ==
  /\ RowOf(s, i).act.side = side /\ RowOf(s, i).act.at = i
  /\ RowOf(s, i).act.guided = (recovery /\ canGuide) /\ RowOf(s, i).act.n = 1
  /\ recovery \/ i = 0 \/ RowOf(s, i - 1).act.n = NActionSteps
GoesOn(s, i, recovery) ==
  /\ ~recovery /\ i > 0 /\ RowOf(s, i - 1).act.n # NActionSteps
  /\ RowOf(s, i).act.side = RowOf(s, i - 1).act.side
  /\ RowOf(s, i).act.at = RowOf(s, i - 1).act.at
  /\ RowOf(s, i).act.guided = RowOf(s, i - 1).act.guided
  /\ RowOf(s, i).act.n = RowOf(s, i - 1).act.n + 1

LEMMA RowCases ==
  ASSUME NEW s \in Side, NEW side \in {"main", "base"}, NEW recovers \in BOOLEAN,
         NEW canGuide \in BOOLEAN, Rows(s, side, recovers, canGuide), NEW i \in Steps(s)
  PROVE  \/ Starts(s, side, i, recovers /\ RowOf(s, i).meltdown, canGuide)
         \/ GoesOn(s, i, recovers /\ RowOf(s, i).meltdown)
<1>1. PICK r \in BOOLEAN : r = (recovers /\ RowOf(s, i).meltdown)
  BY RowIn
<1>2. PICK a : a = RowOf(s, i).act
  OBVIOUS
<1>3. a = NextAction(s, side, i, r, canGuide)
  BY <1>1, <1>2 DEF Rows
<1>4. i \in Nat /\ i \in 0..Len(s.log) /\ Len(s.log) \in Nat
  <2>1. s.log \in Seq(Row)
    BY DEF Side
  <2>2. Len(s.log) \in Nat
    BY <2>1, LenProperties
  <2> QED  BY <2>2, RowIn
<1>5. /\ r \/ i = 0 => a = [side |-> side, at |-> i, guided |-> r /\ canGuide, n |-> 1]
      /\ ~(r \/ i = 0) =>
           /\ RowOf(s, i - 1).act \in Action
           /\ IF RowOf(s, i - 1).act.n = NActionSteps
              THEN a = [side |-> side, at |-> i, guided |-> FALSE, n |-> 1]
              ELSE a = [RowOf(s, i - 1).act EXCEPT !.n = RowOf(s, i - 1).act.n + 1]
  BY <1>3, <1>4, NextActionIs
<1>6. Starts(s, side, i, r, canGuide) \/ GoesOn(s, i, r)
  <2>1. CASE r \/ i = 0
    BY <1>2, <1>5, <2>1 DEF Starts
  <2>2. CASE ~(r \/ i = 0) /\ RowOf(s, i - 1).act.n = NActionSteps
    <3>1. (r /\ canGuide) = FALSE
      BY <2>2
    <3>2. a = [side |-> side, at |-> i, guided |-> FALSE, n |-> 1]
      BY <1>5, <2>2
    <3>3. a.side = side /\ a.at = i /\ a.guided = FALSE /\ a.n = 1
      BY <3>2
    <3> QED  BY <1>2, <2>2, <3>1, <3>3 DEF Starts
  <2>3. CASE ~(r \/ i = 0) /\ RowOf(s, i - 1).act.n # NActionSteps
    <3>1. PICK b \in Action : b = RowOf(s, i - 1).act
      BY <1>5, <2>3
    <3>2. a = [b EXCEPT !.n = b.n + 1]
      BY <1>5, <2>3, <3>1
    <3>3. a.side = b.side /\ a.at = b.at /\ a.guided = b.guided /\ a.n = b.n + 1
      BY <3>2 DEF Action
    <3> QED  BY <1>2, <1>4, <2>3, <3>1, <3>3 DEF GoesOn
  <2> QED  BY <2>1, <2>2, <2>3
<1> QED  BY <1>1, <1>6

\* Side n is side s with row k, its first k rows being those of s.
Extends(s, n, k) ==
  /\ Steps(s) = 0..(k - 1) /\ Steps(n) = 0..k
  /\ \A i \in 0..(k - 1) : RowOf(n, i) = RowOf(s, i)

\* A row of the corrected side.
LEMMA MainRow ==
  ASSUME main \in Side, main' \in Side, cfg' = cfg, cfg.guided \in BOOLEAN,
         NEW k \in Nat, Extends(main, main', k), Rows(main', "main", TRUE, cfg.guided),
         ChunkIsFresh, NoStaleAction, GuidedOnlyForRecovery
  PROVE  ChunkIsFresh' /\ NoStaleAction' /\ GuidedOnlyForRecovery'
<1>1. /\ Steps(main) = 0..(k - 1) /\ Steps(main') = 0..k
      /\ \A i \in 0..(k - 1) : RowOf(main', i) = RowOf(main, i)
  BY DEF Extends
<1>2. \/ Starts(main', "main", k, RowOf(main', k).meltdown, cfg.guided)
      \/ GoesOn(main', k, RowOf(main', k).meltdown)
  <2>1. PICK yes \in BOOLEAN : yes = TRUE
    OBVIOUS
  <2>2. Rows(main', "main", yes, cfg.guided) /\ k \in Steps(main')
    <3>1. k \in Steps(main')
      BY <1>1
    <3> QED  BY <2>1, <3>1
  <2>3. PICK r \in BOOLEAN : r = (yes /\ RowOf(main', k).meltdown)
    BY <2>2, RowIn
  <2>4. Starts(main', "main", k, r, cfg.guided) \/ GoesOn(main', k, r)
    BY <2>2, <2>3, RowCases
  <2>5. RowOf(main', k).meltdown \in BOOLEAN
    BY <2>2, RowIn
  <2> QED  BY <2>1, <2>3, <2>4, <2>5
<1>3. ASSUME NEW i \in 0..k
      PROVE  /\ RowOf(main', i).act.at \in 0..i
             /\ \A j \in RowOf(main', i).act.at + 1 .. i : ~RowOf(main', j).meltdown
             /\ RowOf(main', i).act.guided
                  <=> RowOf(main', RowOf(main', i).act.at).meltdown /\ cfg.guided
  <2>0. ASSUME NEW m \in 0..(k - 1)
        PROVE  /\ RowOf(main', m).act.at \in 0..m
               /\ \A j \in RowOf(main', m).act.at + 1 .. m : ~RowOf(main', j).meltdown
               /\ RowOf(main', m).act.guided
                    <=> RowOf(main', RowOf(main', m).act.at).meltdown /\ cfg.guided
    <3>1. m \in Steps(main) /\ RowOf(main', m) = RowOf(main, m)
      BY <1>1
    <3>2. PICK a : a = RowOf(main, m).act.at
      OBVIOUS
    <3>3. a \in 0..m
      BY <3>1, <3>2 DEF ChunkIsFresh
    <3>4. \A j \in a + 1 .. m : ~RowOf(main, j).meltdown
      BY <3>1, <3>2 DEF NoStaleAction
    <3>5. RowOf(main, m).act.guided <=> RowOf(main, a).meltdown /\ cfg.guided
      BY <3>1, <3>2 DEF GuidedOnlyForRecovery
    <3>6. RowOf(main', a) = RowOf(main, a)
      BY <1>1, <3>3
    <3>7. \A j \in a + 1 .. m : ~RowOf(main', j).meltdown
      <4> TAKE j \in a + 1 .. m
      <4>1. j \in 0..(k - 1)
        BY <3>3
      <4> QED  BY <1>1, <3>4, <4>1
    <3> QED  BY <3>1, <3>2, <3>3, <3>5, <3>6, <3>7
  <2>1. CASE i # k
    BY <2>0, <2>1
  <2>2. CASE i = k /\ Starts(main', "main", k, RowOf(main', k).meltdown, cfg.guided)
    <3>1. /\ RowOf(main', k).act.at = k
          /\ RowOf(main', k).act.guided = (RowOf(main', k).meltdown /\ cfg.guided)
      BY <2>2 DEF Starts
    <3>2. PICK a : a = RowOf(main', k).act.at
      OBVIOUS
    <3>3. a \in 0..k /\ \A j \in a + 1 .. k : ~RowOf(main', j).meltdown
      BY <3>1, <3>2
    <3> QED  BY <2>2, <3>1, <3>2, <3>3
  <2>3. CASE i = k /\ GoesOn(main', k, RowOf(main', k).meltdown)
    <3>1. /\ ~RowOf(main', k).meltdown /\ k > 0
          /\ RowOf(main', k).act.at = RowOf(main', k - 1).act.at
          /\ RowOf(main', k).act.guided = RowOf(main', k - 1).act.guided
      BY <2>3 DEF GoesOn
    <3>2. k - 1 \in 0..(k - 1)
      BY <3>1
    <3>3. PICK m \in 0..(k - 1) : m = k - 1
      BY <3>2
    <3>4. PICK a : a = RowOf(main', m).act.at
      OBVIOUS
    <3>5. /\ a \in 0..m
          /\ \A j \in a + 1 .. m : ~RowOf(main', j).meltdown
          /\ RowOf(main', m).act.guided <=> RowOf(main', a).meltdown /\ cfg.guided
      BY <2>0, <3>4
    <3>6. \A j \in a + 1 .. k : ~RowOf(main', j).meltdown
      <4> TAKE j \in a + 1 .. k
      <4>1. j = k \/ j \in a + 1 .. m
        BY <3>3, <3>5
      <4> QED  BY <3>1, <3>5, <4>1
    <3>7. a \in 0..k
      BY <3>3, <3>5
    <3> QED  BY <2>3, <3>1, <3>3, <3>4, <3>5, <3>6, <3>7
  <2> QED  BY <1>2, <2>1, <2>2, <2>3
<1> QED  BY <1>1, <1>3 DEF ChunkIsFresh, NoStaleAction, GuidedOnlyForRecovery

\* Counting in chunks.
LEMMA Times ==
  ASSUME NEW k \in Nat \ {0}, NEW e \in Int, e >= 1
  PROVE  k * e >= k
OBVIOUS

LEMMA Distr ==
  ASSUME NEW k \in Int, NEW a \in Int, NEW b \in Int
  PROVE  k * (a - b) = k * a - k * b /\ k * a \in Int /\ k * b \in Int /\ k * (a - b) \in Int
OBVIOUS

LEMMA ModUnique ==
  ASSUME NEW n \in Nat, NEW k \in Nat \ {0}, NEW r \in 0..(k - 1), NEW q \in Int,
         n = k * q + r
  PROVE  n % k = r
<1> DEFINE d == n \div k
         m == n % k
<1>1. d \in Int /\ m \in 0..(k - 1) /\ n = k * d + m
  OBVIOUS
<1> HIDE DEF d, m
<1>2. k * d \in Int /\ k * q \in Int
  BY <1>1
<1>3. k * d - k * q = r - m
  BY <1>1, <1>2
<1>4. CASE d - q >= 1
  <2>1. k * (d - q) >= k
    BY <1>1, <1>4, Times
  <2>2. k * (d - q) = k * d - k * q
    BY <1>1, Distr
  <2> QED  BY <1>1, <1>2, <1>3, <2>1, <2>2
<1>5. CASE q - d >= 1
  <2>1. k * (q - d) >= k
    BY <1>1, <1>5, Times
  <2>2. k * (q - d) = k * q - k * d
    BY <1>1, Distr
  <2> QED  BY <1>1, <1>2, <1>3, <2>1, <2>2
<1>6. CASE d = q
  BY <1>1, <1>2, <1>3, <1>6 DEF m
<1> QED  BY <1>1, <1>4, <1>5, <1>6

LEMMA ModStep ==
  ASSUME NEW n \in Nat, NEW k \in Nat \ {0}
  PROVE  /\ n % k \in 0..(k - 1)
         /\ (n + 1) % k = IF n % k = k - 1 THEN 0 ELSE (n % k) + 1
<1> DEFINE d == n \div k
         m == n % k
<1>1. d \in Int /\ m \in 0..(k - 1) /\ n = k * d + m
  OBVIOUS
<1> HIDE DEF d, m
<1>2. CASE m = k - 1
  <2>1. k * (d + 1) = k * d + k /\ k * d \in Int /\ k * (d + 1) \in Int
    BY <1>1
  <2>2. n + 1 = k * (d + 1) + 0 /\ d + 1 \in Int
    BY <1>1, <1>2, <2>1
  <2>3. (n + 1) % k = 0
    <3>1. n + 1 \in Nat /\ 0 \in 0..(k - 1)
      OBVIOUS
    <3> QED  BY <2>2, <3>1, ModUnique
  <2> QED  BY <1>1, <1>2, <2>3 DEF m
<1>3. CASE m # k - 1
  <2>1. n + 1 = k * d + (m + 1) /\ m + 1 \in 0..(k - 1)
    BY <1>1, <1>3
  <2>2. (n + 1) % k = m + 1
    <3>1. n + 1 \in Nat
      OBVIOUS
    <3> QED  BY <1>1, <2>1, <3>1, ModUnique
  <2> QED  BY <1>1, <1>3, <2>2 DEF m
<1> QED  BY <1>2, <1>3

\* A row of the baseline.
LEMMA BaseRow ==
  ASSUME base \in Side, base' \in Side, cfg.guided \in BOOLEAN,
         NEW k \in Nat, Extends(base, base', k), Rows(base', "base", FALSE, cfg.guided),
         BaselineOpenLoop
  PROVE  BaselineOpenLoop'
<1>1. /\ Steps(base) = 0..(k - 1) /\ Steps(base') = 0..k
      /\ \A i \in 0..(k - 1) : RowOf(base', i) = RowOf(base, i)
  BY DEF Extends
<1>2. Starts(base', "base", k, FALSE, cfg.guided) \/ GoesOn(base', k, FALSE)
  <2>1. PICK no \in BOOLEAN : no = FALSE
    OBVIOUS
  <2>2. Rows(base', "base", no, cfg.guided) /\ k \in Steps(base')
    <3>1. k \in Steps(base')
      BY <1>1
    <3> QED  BY <2>1, <3>1
  <2>3. PICK r \in BOOLEAN : r = (no /\ RowOf(base', k).meltdown)
    BY <2>2, RowIn
  <2>4. Starts(base', "base", k, r, cfg.guided) \/ GoesOn(base', k, r)
    BY <2>2, <2>3, RowCases
  <2>5. r = FALSE
    BY <2>1, <2>3
  <2> QED  BY <2>4, <2>5
<1>3. NActionSteps \in Nat \ {0} /\ NActionSteps \in Nat
  BY RolloutAssumption
<1>4. ASSUME NEW i \in 0..(k - 1)
      PROVE  RowOf(base', i).act
               = [side |-> "base", at |-> i - (i % NActionSteps), guided |-> FALSE,
                  n |-> (i % NActionSteps) + 1]
  BY <1>1 DEF BaselineOpenLoop
<1>5. RowOf(base', k).act
        = [side |-> "base", at |-> k - (k % NActionSteps), guided |-> FALSE,
           n |-> (k % NActionSteps) + 1]
  <2>0. PICK a \in Action : a = RowOf(base', k).act
    BY <1>1, RowIn
  <2>1. CASE k = 0
    <3>1. k % NActionSteps = 0
      <4>1. 0 = NActionSteps * 0 + 0 /\ 0 \in 0..(NActionSteps - 1) /\ 0 \in Nat /\ 0 \in Int
        BY <1>3
      <4> QED  BY <1>3, <2>1, <4>1, ModUnique
    <3>2. Starts(base', "base", k, FALSE, cfg.guided)
      <4>1. ~(k > 0)
        BY <2>1
      <4>2. ~GoesOn(base', k, FALSE)
        BY <4>1 DEF GoesOn
      <4> QED  BY <1>2, <4>2
    <3>3. a.side = "base" /\ a.at = 0 /\ a.guided = FALSE /\ a.n = 1
      BY <2>0, <2>1, <3>2 DEF Starts
    <3>4. a = [side |-> "base", at |-> 0, guided |-> FALSE, n |-> 1]
      BY <3>3 DEF Action
    <3>5. k - (k % NActionSteps) = 0 /\ (k % NActionSteps) + 1 = 1
      BY <2>1, <3>1
    <3> QED  BY <2>0, <3>4, <3>5
  <2>2. CASE k # 0
    <3>1. PICK m \in 0..(k - 1) : m = k - 1
      BY <2>2
    <3>2. PICK x : x = m % NActionSteps
      OBVIOUS
    <3>3. m \in Nat /\ k = m + 1
      BY <3>1
    <3>4. /\ x \in 0..(NActionSteps - 1)
          /\ k % NActionSteps = IF x = NActionSteps - 1 THEN 0 ELSE x + 1
      BY <1>3, <3>2, <3>3, ModStep
    <3>5. RowOf(base', m).act
            = [side |-> "base", at |-> m - x, guided |-> FALSE, n |-> x + 1]
      BY <1>4, <3>2
    <3>6. CASE Starts(base', "base", k, FALSE, cfg.guided)
      <4>1. a.side = "base" /\ a.at = k /\ a.guided = FALSE /\ a.n = 1
        BY <2>0, <3>6 DEF Starts
      <4>2. RowOf(base', k - 1).act.n = NActionSteps
        BY <2>2, <3>6 DEF Starts
      <4>3. x + 1 = NActionSteps
        BY <3>1, <3>5, <4>2
      <4>4. k % NActionSteps = 0
        BY <1>3, <3>4, <4>3
      <4>5. a = [side |-> "base", at |-> k, guided |-> FALSE, n |-> 1]
        BY <4>1 DEF Action
      <4>6. (k % NActionSteps) + 1 = 1 /\ k - (k % NActionSteps) = k
        BY <4>4
      <4> QED  BY <2>0, <4>5, <4>6
    <3>7. CASE GoesOn(base', k, FALSE)
      <4>1. /\ a.side = RowOf(base', m).act.side /\ a.at = RowOf(base', m).act.at
            /\ a.guided = RowOf(base', m).act.guided
            /\ a.n = RowOf(base', m).act.n + 1 /\ RowOf(base', m).act.n # NActionSteps
        BY <2>0, <3>1, <3>7 DEF GoesOn
      <4>2. a.side = "base" /\ a.at = m - x /\ a.guided = FALSE /\ a.n = x + 1 + 1
        BY <3>5, <4>1
      <4>3. x + 1 # NActionSteps
        BY <3>5, <4>1
      <4>4. k % NActionSteps = x + 1 /\ m - x = k - (x + 1)
        BY <1>3, <3>3, <3>4, <4>3
      <4>5. a = [side |-> "base", at |-> m - x, guided |-> FALSE, n |-> x + 1 + 1]
        BY <4>2 DEF Action
      <4>6. (k % NActionSteps) + 1 = x + 1 + 1 /\ k - (k % NActionSteps) = m - x
        BY <4>4
      <4> QED  BY <2>0, <4>5, <4>6
    <3> QED  BY <1>2, <3>6, <3>7
  <2> QED  BY <2>1, <2>2
<1>6. ASSUME NEW i \in 0..k
      PROVE  RowOf(base', i).act
               = [side |-> "base", at |-> i - (i % NActionSteps), guided |-> FALSE,
                  n |-> (i % NActionSteps) + 1]
  <2>1. i = k \/ i \in 0..(k - 1)
    OBVIOUS
  <2> QED  BY <1>4, <1>5, <2>1
<1> QED  BY <1>1, <1>6 DEF BaselineOpenLoop


\* The verdict of step n has been recorded.
Judged(s, n) == JudgesAligned(s, n, TRUE)

\* A side whose action has been executed is ready for the next step.
LEMMA RecordedSide ==
  ASSUME t \in Nat, NEW s \in Side, Len(s.log) = t,
         NEW side \in {"main", "base"}, NEW recovers \in BOOLEAN, NEW canGuide \in BOOLEAN,
         Rows(s, side, recovers, canGuide), Follows(s, side, t, recovers, canGuide),
         Judged(s, t), s.meltdown => t >= SafetyK + BootstrapSize,
         s.rawPlan = s.plan, NEW n, n = Record(s)
  PROVE  /\ n \in Side /\ Rows(n, side, recovers, canGuide) /\ Extends(s, n, t)
         /\ s.now \in Action /\ s.raw = s.now
         /\ Len(n.log) = t + 1 /\ n.history = s.history
         /\ n.rawPlan = n.plan /\ n.detector = s.detector
         /\ n.now = RowOf(n, t).act /\ RestOf(n.plan, n.now)
         /\ RowOf(n, t).meltdown = s.meltdown
<1>1. PICK r \in BOOLEAN : r = (recovers /\ s.meltdown)
  BY DEF Side
<1>2. PlanAfter(s, side, t, r, canGuide)
  BY <1>1 DEF Follows
<1>3. PICK a : a = NextAction(s, side, t, r, canGuide)
  OBVIOUS
<1>4. s.now = a /\ s.raw = a /\ RestOf(s.plan, a)
  BY <1>2, <1>3 DEF PlanAfter
<1>5. a \in Action
  <2>1. t \in 0..Len(s.log)
    OBVIOUS
  <2> QED  BY <1>3, <2>1, NextActionIs
<1>6. s.now \in Action /\ s.raw = s.now
  BY <1>4, <1>5
<1>7. /\ n \in Side /\ Len(n.log) = t + 1 /\ Steps(s) = 0..(t - 1) /\ Steps(n) = 0..t
      /\ \A i \in 0..(t - 1) : RowOf(n, i) = RowOf(s, i)
      /\ RowOf(n, t).act = s.now /\ RowOf(n, t).raw = s.now
      /\ RowOf(n, t).meltdown = s.meltdown /\ RowOf(n, t).judges = s.judges
      /\ n.plan = s.plan /\ n.rawPlan = s.rawPlan /\ n.now = s.now /\ n.raw = s.raw
      /\ n.history = s.history /\ n.preds = s.preds
      /\ n.detector = s.detector /\ n.meltdown = s.meltdown /\ n.judges = s.judges
  BY <1>6, RecordSide
<1>8. Rows(n, side, recovers, canGuide)
  BY <1>6, RecordRows DEF Judged
<1> QED  BY <1>4, <1>6, <1>7, <1>8 DEF Extends

LEMMA RecordStepStep ==
  ASSUME IInv, RecordStep
  PROVE  IInv'
<1>p. /\ pc = "record" /\ pc' = "head" /\ t' = t + 1 /\ main' = Record(main)
      /\ base' = IF baseRun.active THEN Record(base) ELSE base
      /\ UNCHANGED <<cfg, outcome, requests, baseRun>>
  BY DEF RecordStep
<1>0. /\ t \in Nat /\ t < MaxSteps /\ MaxSteps \in Nat /\ main \in Side /\ base \in Side
      /\ cfg.guided \in BOOLEAN /\ main.meltdown \in BOOLEAN /\ requests \in Nat
  BY <1>p, Types, PhaseSets DEF IInv, TypeOK, Clock
<1>1. /\ Len(main.log) = t /\ HistoryIs(main, t + 1)
      /\ PredsAre(main, Consumed(t + 1), t + 1) /\ JudgesAligned(main, t, TRUE)
      /\ main.rawPlan = main.plan
      /\ PlanAfter(main, "main", t, main.meltdown, cfg.guided)
      /\ main.detector.boot <= Consumed(t + 1)
      /\ main.meltdown => t >= SafetyK + BootstrapSize
  <2>1. Recovery = main.meltdown
    BY <1>p, <1>0, PhaseSets DEF Recovery
  <2> QED  BY <1>p, <2>1, PhaseSets
           DEF IInv, MainInv, Aligns, JudgesAligned, PlanInv, Warm, WarmVerdict
<1>2. /\ base.detector.boot <= Consumed(t + 1)
      /\ base.meltdown => t >= SafetyK + BootstrapSize
      /\ baseRun.active => /\ Len(base.log) = t /\ JudgesAligned(base, t, TRUE)
                           /\ base.rawPlan = base.plan
                           /\ PlanAfter(base, "base", t, FALSE, cfg.guided)
      /\ baseRun.active /\ ~baseRun.done =>
           HistoryIs(base, t + 1) /\ PredsAre(base, Consumed(t + 1), t + 1)
  BY <1>p, PhaseSets
  DEF IInv, BaseInv, Aligns, JudgesAligned, PlanInv, Live, Warm, WarmVerdict
<1>3. /\ baseRun.active => baseRun.t = t + 1 /\ cfg.twin
      /\ Len(base.log) = IF baseRun.active THEN baseRun.t - 1 ELSE baseRun.t
      /\ cfg.twin /\ ~baseRun.done => baseRun.active
      /\ baseRun.t \in 0..MaxSteps
  BY <1>p, PhaseSets DEF IInv, Clock, Live, TypeOK
<1>4. Consumed(t + 1) \in Nat
  BY <1>0, ConsumedSteps
<1>5. /\ main' \in Side /\ Rows(main', "main", TRUE, cfg.guided) /\ Extends(main, main', t)
      /\ Len(main'.log) = t + 1 /\ HistoryIs(main', t + 1)
      /\ PredsAre(main', Consumed(t + 1), t + 1)
      /\ main'.rawPlan = main'.plan /\ main'.detector = main.detector
      /\ main'.now = RowOf(main', t).act /\ RestOf(main'.plan, main'.now)
      /\ RowOf(main', t).meltdown = main.meltdown
  <2>1. PICK yes \in BOOLEAN : yes = TRUE
    OBVIOUS
  <2>2. Rows(main, "main", yes, cfg.guided)
    BY <2>1 DEF IInv, LogInv
  <2>3. Follows(main, "main", t, yes, cfg.guided)
    <3>1. (yes /\ main.meltdown) = main.meltdown
      BY <1>0, <2>1
    <3> QED  BY <1>1, <3>1 DEF Follows
  <2>4. main' = Record(main)
    BY <1>p
  <2>5. /\ main' \in Side /\ Rows(main', "main", yes, cfg.guided) /\ Extends(main, main', t)
        /\ main.now \in Action /\ main.raw = main.now
        /\ Len(main'.log) = t + 1 /\ main'.history = main.history
        /\ main'.rawPlan = main'.plan /\ main'.detector = main.detector
        /\ main'.now = RowOf(main', t).act /\ RestOf(main'.plan, main'.now)
        /\ RowOf(main', t).meltdown = main.meltdown
    <3>1. /\ Len(main.log) = t /\ Judged(main, t) /\ main.rawPlan = main.plan
          /\ main.meltdown => t >= SafetyK + BootstrapSize
      BY <1>1 DEF Judged
    <3>2. PICK n : n = Record(main)
      OBVIOUS
    <3>3. /\ n \in Side /\ Rows(n, "main", yes, cfg.guided) /\ Extends(main, n, t)
          /\ main.now \in Action /\ main.raw = main.now
          /\ Len(n.log) = t + 1 /\ n.history = main.history
          /\ n.rawPlan = n.plan /\ n.detector = main.detector
          /\ n.now = RowOf(n, t).act /\ RestOf(n.plan, n.now)
          /\ RowOf(n, t).meltdown = main.meltdown
      BY <1>0, <2>2, <2>3, <3>1, <3>2, RecordedSide
    <3> QED  BY <2>4, <3>2, <3>3
  <2>6. PredsAre(main', Consumed(t + 1), t + 1)
    BY <1>0, <1>1, <1>4, <2>4, <2>5, RecordPreds
  <2>7. Rows(main', "main", TRUE, cfg.guided)
    BY <2>1, <2>5
  <2>8. HistoryIs(main', t + 1)
    BY <1>1, <2>5, SameHistory
  <2> QED  BY <2>5, <2>6, <2>7, <2>8
<1>6. ASSUME baseRun.active
      PROVE  /\ base' \in Side /\ Rows(base', "base", FALSE, cfg.guided)
             /\ Extends(base, base', t)
             /\ Len(base'.log) = t + 1
             /\ base'.rawPlan = base'.plan /\ base'.detector = base.detector
             /\ base'.now = RowOf(base', t).act /\ RestOf(base'.plan, base'.now)
             /\ ~baseRun.done => /\ HistoryIs(base', t + 1)
                                 /\ PredsAre(base', Consumed(t + 1), t + 1)
  <2>1. PICK no \in BOOLEAN : no = FALSE
    OBVIOUS
  <2>2. Rows(base, "base", no, cfg.guided)
    BY <2>1 DEF IInv, LogInv
  <2>3. Follows(base, "base", t, no, cfg.guided)
    <3>1. (no /\ base.meltdown) = FALSE
      BY <2>1
    <3> QED  BY <1>2, <1>6, <3>1 DEF Follows
  <2>4. base' = Record(base)
    BY <1>p, <1>6
  <2>5. /\ Len(base.log) = t /\ Judged(base, t) /\ base.rawPlan = base.plan
        /\ base.meltdown => t >= SafetyK + BootstrapSize
    BY <1>2, <1>6 DEF Judged
  <2>6. /\ base' \in Side /\ Rows(base', "base", no, cfg.guided) /\ Extends(base, base', t)
        /\ base.now \in Action /\ base.raw = base.now
        /\ Len(base'.log) = t + 1 /\ base'.history = base.history
        /\ base'.rawPlan = base'.plan /\ base'.detector = base.detector
        /\ base'.now = RowOf(base', t).act /\ RestOf(base'.plan, base'.now)
    BY <1>0, <2>2, <2>3, <2>4, <2>5, RecordedSide
  <2>7. ~baseRun.done => HistoryIs(base', t + 1)
    BY <1>2, <1>6, <2>6, SameHistory
  <2>8. ASSUME ~baseRun.done PROVE PredsAre(base', Consumed(t + 1), t + 1)
    <3>1. PredsAre(base, Consumed(t + 1), t + 1)
      BY <1>2, <1>6, <2>8
    <3> QED  BY <1>0, <1>4, <2>4, <2>5, <2>6, <3>1, RecordPreds
  <2>9. Rows(base', "base", FALSE, cfg.guided)
    BY <2>1, <2>6
  <2> QED  BY <2>6, <2>7, <2>8, <2>9
<1>7. ASSUME ~baseRun.active PROVE base' = base
  BY <1>p, <1>7
<1>8. TypeOK'
  <2>1. base' \in Side
    BY <1>0, <1>6, <1>7
  <2>2. t + 1 \in 0..MaxSteps
    BY <1>0
  <2> QED  BY <1>p, <1>5, <2>1, <2>2 DEF IInv, TypeOK, Phases
<1>9. Clock'
  <2>1. Len(base'.log) = baseRun.t
    BY <1>0, <1>3, <1>6, <1>7
  <2>2. Live' => baseRun.t = t'
    BY <1>p, <1>3 DEF Live
  <2>3. baseRun'.active => cfg'.twin
    BY <1>p, <1>3
  <2> QED  BY <1>p, <2>1, <2>2, <2>3, PhaseSets DEF Clock
<1>10. MainInv'
  <2>1. PlanBefore(main', t + 1, FALSE)
    <3>1. t + 1 # 0 /\ (t + 1) - 1 = t
      BY <1>0
    <3> QED  BY <1>5, <3>1 DEF PlanBefore
  <2>2. Recovery' = FALSE
    BY <1>p, PhaseSets DEF Recovery
  <2> QED  BY <1>p, <1>1, <1>5, <2>1, <2>2, PhaseSets DEF MainInv, Aligns, PlanInv, Warm
<1>11. BaseInv'
  <2>1. base'.detector.boot <= Consumed(t + 1)
    BY <1>2, <1>6, <1>7
  <2>2. ASSUME Live'
        PROVE  /\ ~baseRun.done /\ Len(base'.log) = t + 1
               /\ HistoryIs(base', t + 1) /\ PredsAre(base', Consumed(t + 1), t + 1)
               /\ base'.rawPlan = base'.plan /\ PlanBefore(base', t + 1, FALSE)
    <3>1. ~baseRun.done /\ baseRun.active
      BY <1>p, <1>3, <2>2 DEF Live
    <3>2. t + 1 # 0 /\ (t + 1) - 1 = t
      BY <1>0
    <3>3. PlanBefore(base', t + 1, FALSE)
      BY <1>6, <3>1, <3>2 DEF PlanBefore
    <3> QED  BY <1>6, <3>1, <3>3
  <2> QED  BY <1>p, <2>1, <2>2, PhaseSets DEF BaseInv, Aligns, PlanInv, Warm
<1>12. LogInv'
  <2>1. Rows(base', "base", FALSE, cfg.guided)
    BY <1>6, <1>7 DEF IInv, LogInv
  <2> QED  BY <1>p, <1>5, <2>1 DEF LogInv
<1>13. ChunkIsFresh' /\ NoStaleAction' /\ GuidedOnlyForRecovery'
  BY <1>p, <1>0, <1>5, MainRow DEF IInv
<1>14. BaselineOpenLoop'
  <2>1. CASE baseRun.active
    BY <1>0, <1>6, <2>1, BaseRow DEF IInv
  <2>2. CASE ~baseRun.active
    BY <1>7, <2>2 DEF IInv, BaselineOpenLoop
  <2> QED  BY <2>1, <2>2
<1>15. RequestsCounted'
  <2>1. /\ Steps(main) = 0..(t - 1) /\ Steps(main') = 0..t
        /\ \A i \in 0..(t - 1) : RowOf(main', i) = RowOf(main, i)
    BY <1>5 DEF Extends
  <2>2. Meltdowns(main') = IF main.meltdown THEN Meltdowns(main) \cup {t} ELSE Meltdowns(main)
    <3>1. 0..t = (0..(t - 1)) \cup {t}
      BY <1>0
    <3>2. \A i \in 0..(t - 1) : RowOf(main', i).meltdown <=> RowOf(main, i).meltdown
      BY <2>1
    <3> QED  BY <1>5, <2>1, <3>1, <3>2 DEF Meltdowns
  <2>3. IsFiniteSet(Meltdowns(main)) /\ Answered \in Nat
    BY AnsweredNat DEF IInv
  <2>4. t \notin Meltdowns(main)
    BY <1>0, <2>1 DEF Meltdowns
  <2>5. Cardinality(Meltdowns(main) \cup {t}) = Cardinality(Meltdowns(main)) + 1
    BY <2>3, <2>4, FS_AddElement
  <2>6. Answered' = Answered + IF cfg.guided /\ main.meltdown THEN 1 ELSE 0
    <3>1. Answered' = IF cfg.guided THEN Cardinality(Meltdowns(main')) ELSE 0
      BY <1>p DEF Answered
    <3>2. CASE cfg.guided /\ main.meltdown
      BY <2>2, <2>5, <3>1, <3>2 DEF Answered
    <3>3. CASE ~(cfg.guided /\ main.meltdown)
      <4>1. Answered' = Answered
        BY <2>2, <3>1, <3>3 DEF Answered
      <4> QED  BY <2>3, <3>3, <4>1
    <3> QED  BY <3>2, <3>3
  <2>7. requests = Answered + IF cfg.guided /\ main.meltdown THEN 1 ELSE 0
    BY <1>p, PhaseSets DEF IInv, RequestsCounted
  <2>8. Answered' \in Nat /\ requests' = Answered' + 0
    BY <1>p, <1>0, <2>3, <2>6, <2>7
  <2> QED  BY <1>p, <2>8, PhaseSets DEF RequestsCounted
<1> QED  BY <1>p, <1>8, <1>9, <1>10, <1>11, <1>12, <1>13, <1>14, <1>15, WhenRunning DEF IInv


LEMMA Stutter ==
  ASSUME IInv, UNCHANGED vars
  PROVE  IInv'
<1> USE DEF vars
<1>1. TypeOK' /\ Clock'
  BY DEF IInv, TypeOK, Clock, Live
<1>2. RowInv' /\ Answered' = Answered
  BY LogsKept DEF IInv, RowInv
<1>3. MainInv' /\ BaseInv'
  BY DEF IInv, MainInv, BaseInv, PlanInv, Live, Recovery
<1>4. RequestsCounted'
  BY <1>2 DEF IInv, RequestsCounted
<1>5. RequestsAreMeltdowns' /\ BaselineCurvesComplete'
  BY DEF IInv, RequestsAreMeltdowns, BaselineCurvesComplete
<1> QED  BY <1>1, <1>2, <1>3, <1>4, <1>5 DEF IInv, RowInv

-----------------------------------------------------------------------------
(* The theorems.                                                           *)

\* The queues of both sides stay aligned with the steps, the plans hold the
\* rest of the present chunk, and the record follows from them, through every
\* phase of the loop of eval_modified_detection and every exception in it.
THEOREM RolloutInvariant == Spec => []IInv
<1>1. Init => IInv
  BY InitInv
<1>2. IInv /\ [Next]_vars => IInv'
  <2> SUFFICES ASSUME IInv, [Next]_vars  PROVE IInv'
    OBVIOUS
  <2>1. CASE UNCHANGED vars
    BY <2>1, Stutter
  <2>2. CASE Reset
    BY <2>2, ResetStep
  <2>3. CASE BeginStep
    BY <2>3, BeginStepStep
  <2>4. CASE EndLoop
    BY <2>4, EndLoopStep
  <2>5. CASE EncodeFrames
    BY <2>5, EncodeFramesStep
  <2>6. CASE JudgeMain
    BY <2>6, JudgeMainStep
  <2>7. CASE JudgeBase
    BY <2>7, JudgeBaseStep
  <2>8. CASE InferMain
    BY <2>8, InferMainStep
  <2>9. CASE InferBase
    BY <2>9, InferBaseStep
  <2>10. CASE Act
    BY <2>10, ActStep
  <2>11. CASE StepMain
    BY <2>11, StepMainStep
  <2>12. CASE StepBase
    BY <2>12, StepBaseStep
  <2>13. CASE RecordStep
    BY <2>13, RecordStepStep
  <2>14. CASE Raise
    BY <2>14, RaiseStep
  <2> QED  BY <2>1, <2>2, <2>3, <2>4, <2>5, <2>6, <2>7, <2>8, <2>9, <2>10, <2>11, <2>12,
              <2>13, <2>14 DEF Next
<1> QED  BY <1>1, <1>2, PTL DEF Spec

\* Every variable of the loop keeps its type, whatever the detector says and
\* wherever an exception breaks out.
THEOREM RolloutTypes == Spec => []TypeOK
<1>1. IInv => TypeOK
  BY DEF IInv
<1> QED  BY <1>1, RolloutInvariant, PTL

\* Every executed action is judged exactly once, safety_k steps later, by the
\* prediction made from it: z_history and delta_z_pred_queue are long enough
\* for every safety_k, and the check never skips or repeats a target.
THEOREM EveryActionIsJudged == Spec => []EveryActionJudged
<1>1. IInv => EveryActionJudged
  BY DEF IInv, LogInv, Rows, EveryActionJudged
<1> QED  BY <1>1, RolloutInvariant, PTL

\* A meltdown drops the queued actions before one of them is executed.
THEOREM NoActionIsStale == Spec => []NoStaleAction
<1>1. IInv => NoStaleAction
  BY DEF IInv
<1> QED  BY <1>1, RolloutInvariant, PTL

\* Guidance is used for the chunk inferred in the step of a meltdown, and for
\* that chunk only.
THEOREM GuidanceIsForRecovery == Spec => []GuidedOnlyForRecovery
<1>1. IInv => GuidedOnlyForRecovery
  BY DEF IInv
<1> QED  BY <1>1, RolloutInvariant, PTL

\* The baseline executes whole chunks of its own, n_action_steps apart, and
\* never an action of the corrected side.
THEOREM BaselineIsOpenLoop == Spec => []BaselineOpenLoop
<1>1. IInv => BaselineOpenLoop
  BY DEF IInv
<1> QED  BY <1>1, RolloutInvariant, PTL

\* No side has a meltdown before the detector has consumed its bootstrap.
THEOREM WarmUpIsQuiet == Spec => []NoMeltdownInWarmUp
<1>1. IInv => NoMeltdownInWarmUp
  BY DEF IInv, LogInv, Rows, NoMeltdownInWarmUp
<1> QED  BY <1>1, RolloutInvariant, PTL

\* The guided requests an episode reports are the meltdowns it recorded, but
\* for the one whose step an exception interrupted.
THEOREM RequestsAreAccounted == Spec => []RequestsAreMeltdowns
<1>1. IInv => RequestsAreMeltdowns
  BY DEF IInv
<1> QED  BY <1>1, RolloutInvariant, PTL

\* The curves of the baseline have one point per step it took, but for the
\* step an exception interrupted.
THEOREM CurvesAreComplete == Spec => []BaselineCurvesComplete
<1>1. IInv => BaselineCurvesComplete
  BY DEF IInv
<1> QED  BY <1>1, RolloutInvariant, PTL

-----------------------------------------------------------------------------
(* The adaptive action horizon.                                            *)

\* Only the record of a step is a step of the abstract horizon.
LEMMA HorizonKept ==
  ASSUME cfg' = cfg, main'.log = main.log
  PROVE  UNCHANGED Horizon!vars
BY DEF Horizon!vars, LastRow

LEMMA LogOnlyRecorded ==
  ASSUME IInv, [Next]_vars, ~RecordStep
  PROVE  cfg' = cfg /\ main'.log = main.log
<1> USE DEF Next, vars
<1>0. main \in Side
  BY DEF IInv, TypeOK
<1>1. CASE UNCHANGED <<cfg, main>>
  BY <1>1
<1>2. CASE BeginStep
  BY <1>0, <1>2 DEF BeginStep, Side
<1>3. CASE EncodeFrames
  BY <1>0, <1>3 DEF EncodeFrames, Encode, Side
<1>4. CASE JudgeMain
  <2>1. CASE main' = main
    BY <1>4, <2>1 DEF JudgeMain
  <2>2. CASE \E r \in Reading : LET s == Judge(main, r)
                                IN  main' = IF s.meltdown THEN DropPlan(s) ELSE s
    <3>1. PICK r \in Reading : LET s == Judge(main, r)
                               IN  main' = IF s.meltdown THEN DropPlan(s) ELSE s
      BY <2>2
    <3>2. PICK s : s = Judge(main, r)
      OBVIOUS
    <3>3. s.log = main.log
      BY <1>0, <3>2 DEF Judge, Side
    <3>4. main' = s \/ main' = [s EXCEPT !.plan = <<>>, !.rawPlan = <<>>]
      BY <3>1, <3>2 DEF DropPlan
    <3>5. DOMAIN s = DOMAIN main /\ s = [f \in DOMAIN s |-> s[f]]
      BY <1>0, <3>2 DEF Judge, Side
    <3>6. CASE main' = s
      BY <1>4, <3>3, <3>6 DEF JudgeMain
    <3>7. CASE main' = [s EXCEPT !.plan = <<>>, !.rawPlan = <<>>]
      <4>1. main'.log = s.log
        BY <1>0, <3>5, <3>7 DEF Side
      <4> QED  BY <1>4, <3>3, <4>1 DEF JudgeMain
    <3> QED  BY <3>4, <3>6, <3>7
  <2> QED  BY <1>4, <2>1, <2>2 DEF JudgeMain
<1>5. CASE InferMain
  BY <1>0, <1>5 DEF InferMain, Infer, Side
<1>6. CASE Act
  <2>1. PICK p : main' = [main EXCEPT !.plan = Tail(main.plan), !.rawPlan = Tail(main.rawPlan),
                                     !.now = Head(main.plan), !.raw = Head(main.rawPlan),
                                     !.preds = p]
    BY <1>6 DEF Act, Predict
  <2> QED  BY <1>0, <1>6, <2>1 DEF Act, Side
<1>7. CASE Reset \/ EndLoop \/ JudgeBase \/ InferBase \/ StepMain \/ StepBase \/ Raise
  BY <1>1, <1>7 DEF Reset, EndLoop, JudgeBase, InferBase, StepMain, StepBase, Raise
<1> QED  BY <1>1, <1>2, <1>3, <1>4, <1>5, <1>6, <1>7

LEMMA RecordIsHorizonStep ==
  ASSUME IInv, IInv', RecordStep
  PROVE  Horizon!Next
<1>0. /\ t \in Nat /\ main \in Side /\ main' \in Side /\ cfg' = cfg /\ cfg.guided \in BOOLEAN
      /\ main.log \in Seq(Row) /\ main'.log \in Seq(Row)
      /\ Len(main.log) = t
  BY Types, PhaseSets DEF IInv, TypeOK, MainInv, Aligns, RecordStep, Side
<1>1. PICK row : main'.log = Append(main.log, row)
  BY <1>0 DEF RecordStep, Record, Side
<1>2. /\ Len(main'.log) = t + 1 /\ t \in Steps(main')
      /\ \A i \in 1..t : main'.log[i] = main.log[i]
  <2>1. Len(Append(main.log, row)) = Len(main.log) + 1
    BY <1>0, AppendProperties
  <2>2. \A i \in 1..Len(main.log) : Append(main.log, row)[i] = main.log[i]
    BY <1>0, AppendProperties
  <2>3. t \in 0..(t + 1 - 1)
    BY <1>0
  <2> QED  BY <1>0, <1>1, <2>1, <2>2, <2>3 DEF Steps
<1>3. PICK b \in Row : b = RowOf(main', t)
  BY <1>0, <1>2, RowIn
<1>4. main'.log # <<>> /\ Last(main'.log) = b
  <2>1. main'.log # <<>>
    BY <1>0, <1>2, EmptySeq
  <2> QED  BY <1>2, <1>3, <2>1 DEF Last, RowOf
<1>5. \/ Starts(main', "main", t, b.meltdown, cfg.guided)
      \/ GoesOn(main', t, b.meltdown)
  <2>1. PICK yes \in BOOLEAN : yes = TRUE
    OBVIOUS
  <2>2. Rows(main', "main", yes, cfg.guided)
    BY <1>0, <2>1 DEF IInv, LogInv
  <2>3. PICK r \in BOOLEAN : r = (yes /\ b.meltdown)
    BY DEF Row
  <2>4. Starts(main', "main", t, r, cfg.guided) \/ GoesOn(main', t, r)
    BY <1>0, <1>2, <1>3, <2>2, <2>3, RowCases
  <2>5. r = b.meltdown
    BY <2>1, <2>3 DEF Row
  <2> QED  BY <2>4, <2>5
<1>6. ASSUME t # 0
      PROVE  /\ main.log # <<>> /\ Last(main.log) = RowOf(main', t - 1)
             /\ Last(main.log).act.n \in 1..NActionSteps
  <2>1. t \in 1..t /\ t - 1 + 1 = t
    BY <1>0, <1>6
  <2>2. main.log # <<>> /\ Last(main.log) = main.log[t]
    BY <1>0, <1>6, EmptySeq DEF Last
  <2>3. main.log[t] \in Row
    BY <1>0, <2>1, ElementOfSeq
  <2> QED  BY <1>2, <2>1, <2>2, <2>3 DEF RowOf, Row, Action
<1>7. t = 0 => main.log = <<>>
  BY <1>0, EmptySeq
<1> DEFINE left   == IF main.log = <<>> THEN 0 ELSE NActionSteps - LastRow.act.n
           guided == IF main.log = <<>> THEN FALSE ELSE LastRow.act.guided
           event  == IF main.log = <<>> THEN FALSE ELSE LastRow.meltdown
<1>8. left' = NActionSteps - b.act.n /\ guided' = b.act.guided /\ event' = b.meltdown
  BY <1>4 DEF LastRow
<1>9. CASE Starts(main', "main", t, b.meltdown, cfg.guided)
  <2>1. /\ b.act.guided = (b.meltdown /\ cfg.guided) /\ b.act.n = 1
        /\ b.meltdown \/ t = 0 \/ RowOf(main', t - 1).act.n = NActionSteps
    BY <1>3, <1>9 DEF Starts
  <2>2. b.meltdown \in BOOLEAN
    BY DEF Row
  <2>3. CASE b.meltdown
    <3>1. left' = NActionSteps - 1 /\ event' = TRUE /\ guided' = cfg.guided
      BY <1>0, <1>8, <2>1, <2>2, <2>3
    <3>2. Horizon!Recover
      BY <3>1 DEF Horizon!Recover
    <3> QED  BY <1>0, <1>2, <3>2 DEF Horizon!Next
  <2>4. CASE ~b.meltdown
    <3>1. left' = NActionSteps - 1 /\ event' = FALSE /\ guided' = FALSE
      BY <1>8, <2>1, <2>2, <2>4
    <3>2. left = 0
      <4>1. CASE t = 0
        BY <1>7, <4>1
      <4>2. CASE t # 0
        BY <1>6, <2>1, <2>4, <4>2, Sizes DEF LastRow
      <4> QED  BY <4>1, <4>2
    <3>3. Horizon!Replan
      BY <3>1, <3>2 DEF Horizon!Replan
    <3> QED  BY <1>0, <1>2, <3>3 DEF Horizon!Next
  <2> QED  BY <2>3, <2>4
<1>10. CASE GoesOn(main', t, b.meltdown)
  <2>1. /\ ~b.meltdown /\ t # 0 /\ RowOf(main', t - 1).act.n # NActionSteps
        /\ b.act.guided = RowOf(main', t - 1).act.guided
        /\ b.act.n = RowOf(main', t - 1).act.n + 1
    BY <1>0, <1>3, <1>10 DEF GoesOn
  <2>2. PICK a : a = Last(main.log).act
    OBVIOUS
  <2>3. /\ a.n \in 1..NActionSteps /\ a.n # NActionSteps
        /\ b.act.n = a.n + 1 /\ b.act.guided = a.guided
    BY <1>6, <2>1, <2>2
  <2>4. left = NActionSteps - a.n /\ guided = a.guided
    BY <1>6, <2>1, <2>2 DEF LastRow
  <2>5. left > 0 /\ left' = left - 1
    BY <1>8, <2>3, <2>4, Sizes
  <2>6. event' = FALSE
    BY <1>8, <2>1 DEF Row
  <2>7. guided' = guided
    BY <1>8, <2>3, <2>4
  <2>8. Horizon!Continue
    BY <2>5, <2>6, <2>7 DEF Horizon!Continue
  <2> QED  BY <1>0, <1>2, <2>8 DEF Horizon!Next
<1> QED  BY <1>5, <1>9, <1>10

\* The executed actions of the corrected side follow the adaptive horizon of
\* README.md:73: chunks are executed to their end unless a meltdown replaces
\* them at once by a guided one.
THEOREM RolloutAdaptsHorizon == Spec => ImplementsAdaptiveHorizon
<1>1. Init => Horizon!Init
  <2> SUFFICES ASSUME Init  PROVE Horizon!Init
    OBVIOUS
  <2>1. main.log = <<>> /\ Len(main.log) = 0 /\ cfg.guided \in BOOLEAN
    BY EmptySeq DEF Init, NewSide
  <2> QED  BY <2>1 DEF Horizon!Init
<1>2. IInv /\ IInv' /\ [Next]_vars => [Horizon!Next]_(Horizon!vars)
  <2> SUFFICES ASSUME IInv, IInv', [Next]_vars
               PROVE  [Horizon!Next]_(Horizon!vars)
    OBVIOUS
  <2>1. CASE RecordStep
    BY <2>1, RecordIsHorizonStep
  <2>2. CASE ~RecordStep
    <3>1. cfg' = cfg /\ main'.log = main.log
      BY <2>2, LogOnlyRecorded
    <3> QED  BY <3>1, HorizonKept
  <2> QED  BY <2>1, <2>2
<1> QED  BY <1>1, <1>2, RolloutInvariant, PTL DEF Spec, ImplementsAdaptiveHorizon, Horizon!Spec
=============================================================================
