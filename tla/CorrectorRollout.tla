-------------------------- MODULE CorrectorRollout --------------------------
(***************************************************************************)
(* One episode of the detect-and-correct loop of VLA-Corrector             *)
(* (eval_modified_detection): at every environment step the latent of the  *)
(* frame is compared with what was predicted safety_k steps earlier; when  *)
(* the drift detector triggers, the queued actions are dropped and a new   *)
(* chunk is inferred, guided by the mismatch; when configured, a baseline  *)
(* environment is stepped in lockstep without any correction.              *)
(*                                                                         *)
(* A latent is the number of its frame.  An action is the chunk it was     *)
(* inferred in (side, step of the inference, guided or not) and its place  *)
(* in the chunk.  An exception may end the episode between any two phases. *)
(***************************************************************************)
EXTENDS RobustThreshold, Sequences, SequencesExt

CONSTANTS SafetyK,      \* safety_k
          NActionSteps, \* policy.config.n_action_steps
          MaxSteps,     \* _max_episode_steps of the environment
          None

ASSUME RolloutAssumption ==
  /\ SafetyK \in Nat \ {0}
  /\ NActionSteps \in Nat \ {0}
  /\ MaxSteps \in Nat

VARIABLES
  cfg,       \* [guided, twin]: meltdown_use_guidance_replan, dual_compare_enabled
  pc,        \* the next phase of the loop
  t,         \* t_env
  outcome,   \* [done, success, error] of the episode
  requests,  \* guidance_request_count
  main,      \* the corrected side
  base,      \* the baseline side
  baseRun    \* [active, t, done, success] of the baseline

vars == <<cfg, pc, t, outcome, requests, main, base, baseRun>>

-----------------------------------------------------------------------------
(* A side: action_plan, raw_action_plan, the popped actions, z_history,    *)
(* delta_z_pred_queue, threshold_state, step_meltdown, the raw action the  *)
(* verdict is about, and the rows appended to the per-step lists.          *)

NewSide == [plan |-> <<>>, rawPlan |-> <<>>, now |-> None, raw |-> None,
            history |-> <<>>, preds |-> <<>>, detector |-> NewDetector,
            meltdown |-> FALSE, judges |-> None, log |-> <<>>]

\* deque(maxlen = size): an append to a full deque drops the oldest item.
BoundedAppend(q, x, size) ==
  IF Len(q) < size THEN Append(q, x) ELSE Append(Tail(q), x)

\* Mutant: no room for the frame safety_k steps back.
HistoryTooShort == SafetyK

HistorySize == IF SafetyK + 1 >= 2 THEN SafetyK + 1 ELSE 2
PredsSize   == SafetyK + 2

Encode(s) == [s EXCEPT !.history = BoundedAppend(@, t, HistorySize)]

\* The oldest prediction is about the present frame ...
Due(s) == t >= SafetyK /\ s.preds # <<>> /\ Head(s.preds).target = t

\* ... and the frame it started from is still in the history.
Aligned(s) == Contains(s.history, t - SafetyK)

\* Mutant: a meltdown drops the plan of whichever side it is detected on.
JudgeDropping(s, r) ==
  [s EXCEPT !.detector = RobustThresholdStep(@, r),
            !.meltdown = Verdict(s.detector, r),
            !.judges   = Head(s.preds).raw,
            !.preds    = Tail(@),
            !.plan     = IF Verdict(s.detector, r) THEN <<>> ELSE @,
            !.rawPlan  = IF Verdict(s.detector, r) THEN <<>> ELSE @]

\* The comparison of the frame with the prediction that is due: without the
\* aligned frame the prediction is dropped.
Judge(s, r) ==
  IF Aligned(s)
  THEN [s EXCEPT !.detector = RobustThresholdStep(@, r),
                 !.meltdown = Verdict(s.detector, r),
                 !.judges   = Head(s.preds).raw,
                 !.preds    = Tail(@)]
  ELSE [s EXCEPT !.preds = Tail(@)]

\* Mutants: a meltdown drops nothing, or the next action only.
DropNothing(s) == s
DropNext(s) == IF s.plan = <<>> THEN s
               ELSE [s EXCEPT !.plan = Tail(@), !.rawPlan = Tail(@)]

DropPlan(s) == [s EXCEPT !.plan = <<>>, !.rawPlan = <<>>]

\* Mutant: one action more than n_action_steps is queued.
ChunkTooLong(side, guided) ==
  [n \in 1..NActionSteps + 1 |-> [side |-> side, at |-> t, guided |-> guided, n |-> n]]

Chunk(side, guided) ==
  [n \in 1..NActionSteps |-> [side |-> side, at |-> t, guided |-> guided, n |-> n]]

\* predict_action_chunk_with_aux and the loop that queues n_action_steps of it.
Infer(s, side, guided) ==
  [s EXCEPT !.plan = @ \o Chunk(side, guided), !.rawPlan = @ \o Chunk(side, guided)]

\* Mutants: every replan during an alert is guided, or every one.
GuidanceDuringAlert(s) == s.detector.alert /\ cfg.guided
GuidanceAlways(s) == cfg.guided

\* guidance_replan is a local of the step, so only an inference in the step of
\* the meltdown is guided.
GuidanceReplan(s) == s.meltdown /\ cfg.guided

Predict(s) ==
  [s EXCEPT !.preds = BoundedAppend(@, [target |-> t + SafetyK, raw |-> s.raw], PredsSize)]

\* The row of the step in et_values, meltdown_flags, t_env_values.
Record(s) ==
  [s EXCEPT !.log = Append(@, [t |-> t, act |-> s.now, raw |-> s.raw,
                               meltdown |-> s.meltdown, judges |-> s.judges])]

-----------------------------------------------------------------------------
Init ==
  /\ cfg \in [guided : BOOLEAN, twin : BOOLEAN]
  /\ pc = "reset"
  /\ t = 0
  /\ outcome = [done |-> FALSE, success |-> FALSE, error |-> FALSE]
  /\ requests = 0
  /\ main = NewSide
  /\ base = NewSide
  /\ baseRun = [active |-> FALSE, t |-> 0, done |-> FALSE, success |-> FALSE]

\* Both environments are reset; if a reset raises, both observations are None
\* and the loop is not entered.
Reset ==
  /\ pc = "reset"
  /\ \/ pc' = "head" /\ UNCHANGED outcome
     \/ pc' = "end" /\ outcome' = [outcome EXCEPT !.error = TRUE]
  /\ UNCHANGED <<cfg, t, requests, main, base, baseRun>>

\* The loop condition holds: the locals of the step are set up.
BeginStep ==
  /\ pc = "head" /\ ~outcome.done /\ t < MaxSteps
  /\ pc' = "encode"
  /\ main' = [main EXCEPT !.meltdown = FALSE, !.judges = None]
  /\ base' = [base EXCEPT !.meltdown = FALSE, !.judges = None]
  /\ baseRun' = [baseRun EXCEPT !.active = cfg.twin /\ ~baseRun.done]
  /\ UNCHANGED <<cfg, t, outcome, requests>>

EndLoop ==
  /\ pc = "head" /\ (outcome.done \/ t >= MaxSteps)
  /\ pc' = "end"
  /\ UNCHANGED <<cfg, t, outcome, requests, main, base, baseRun>>

\* encode_siglip_only of both frames.
EncodeFrames ==
  /\ pc = "encode"
  /\ pc' = "judge"
  /\ main' = Encode(main)
  /\ base' = IF baseRun.active THEN Encode(base) ELSE base
  /\ UNCHANGED <<cfg, t, outcome, requests, baseRun>>

\* The drift check of the corrected side; a meltdown clears its plans.
JudgeMain ==
  /\ pc = "judge"
  /\ pc' = "judgeBase"
  /\ \/ ~Due(main) /\ UNCHANGED main
     \/ /\ Due(main)
        /\ \E r \in Reading :
             LET s == Judge(main, r)
             IN  main' = IF s.meltdown THEN DropPlan(s) ELSE s
  /\ UNCHANGED <<cfg, t, outcome, requests, base, baseRun>>

\* The same check of the baseline, whose verdict is only recorded.
JudgeBase ==
  /\ pc = "judgeBase"
  /\ pc' = "infer"
  /\ \/ ~(baseRun.active /\ Due(base)) /\ UNCHANGED base
     \/ baseRun.active /\ Due(base) /\ \E r \in Reading : base' = Judge(base, r)
  /\ UNCHANGED <<cfg, t, outcome, requests, main, baseRun>>

\* An empty plan is filled.
InferMain ==
  /\ pc = "infer"
  /\ pc' = "inferBase"
  /\ LET guided == GuidanceReplan(main)
     IN  IF main.plan = <<>>
         THEN /\ main' = Infer(main, "main", guided)
              /\ requests' = IF guided THEN requests + 1 ELSE requests
         ELSE UNCHANGED <<main, requests>>
  /\ UNCHANGED <<cfg, t, outcome, base, baseRun>>

InferBase ==
  /\ pc = "inferBase"
  /\ pc' = "act"
  /\ base' = IF baseRun.active /\ base.plan = <<>>
             THEN Infer(base, "base", FALSE) ELSE base
  /\ UNCHANGED <<cfg, t, outcome, requests, main, baseRun>>

\* The next actions are popped (the baseline falls back on the action of the
\* corrected side) and the effect of the corrected one is predicted.
Act ==
  /\ pc = "act"
  /\ pc' = "step"
  /\ LET s == [main EXCEPT !.plan = Tail(@), !.rawPlan = Tail(@),
                           !.now = Head(main.plan), !.raw = Head(main.rawPlan)]
     IN  /\ main' = Predict(s)
         /\ base' = [base EXCEPT
              !.now = IF base.plan # <<>> THEN Head(base.plan) ELSE s.now,
              !.raw = IF base.rawPlan # <<>> THEN Head(base.rawPlan) ELSE s.raw,
              !.plan = IF @ # <<>> THEN Tail(@) ELSE @,
              !.rawPlan = IF @ # <<>> THEN Tail(@) ELSE @]
  /\ UNCHANGED <<cfg, t, outcome, requests, baseRun>>

StepMain ==
  /\ pc = "step"
  /\ pc' = "stepBase"
  /\ \E done, success \in BOOLEAN :
       outcome' = [outcome EXCEPT !.done = done, !.success = @ \/ success]
  /\ UNCHANGED <<cfg, t, requests, main, base, baseRun>>

\* env_baseline.step, and the prediction for the baseline unless it is over.
StepBase ==
  /\ pc = "stepBase"
  /\ pc' = "record"
  /\ IF baseRun.active
     THEN \E done, success \in BOOLEAN :
            /\ baseRun' = [baseRun EXCEPT !.t = @ + 1, !.done = done,
                                          !.success = @ \/ success]
            /\ base' = IF done THEN base ELSE Predict(base)
     ELSE UNCHANGED <<base, baseRun>>
  /\ UNCHANGED <<cfg, t, outcome, requests, main>>

\* Mutant: the last step of the baseline is not recorded.
RecordUnlessDone ==
  /\ pc = "record"
  /\ pc' = "head"
  /\ main' = Record(main)
  /\ base' = IF cfg.twin /\ ~baseRun.done THEN Record(base) ELSE base
  /\ t' = t + 1
  /\ UNCHANGED <<cfg, outcome, requests, baseRun>>

RecordStep ==
  /\ pc = "record"
  /\ pc' = "head"
  /\ main' = Record(main)
  /\ base' = IF baseRun.active THEN Record(base) ELSE base
  /\ t' = t + 1
  /\ UNCHANGED <<cfg, outcome, requests, baseRun>>

\* An exception in the body of the loop breaks out of it.
Raise ==
  /\ pc \notin {"reset", "head", "end"}
  /\ pc' = "end"
  /\ outcome' = [outcome EXCEPT !.error = TRUE]
  /\ UNCHANGED <<cfg, t, requests, main, base, baseRun>>

Next ==
  \/ Reset \/ BeginStep \/ EndLoop \/ EncodeFrames \/ JudgeMain \/ JudgeBase
  \/ InferMain \/ InferBase \/ Act \/ StepMain \/ StepBase \/ RecordStep \/ Raise

Spec == Init /\ [][Next]_vars

-----------------------------------------------------------------------------
(* Properties.                                                             *)

Phases == {"reset", "head", "encode", "judge", "judgeBase", "infer",
           "inferBase", "act", "step", "stepBase", "record", "end"}

Action == [side : {"main", "base"}, at : Nat, guided : BOOLEAN, n : 1..NActionSteps]
Row == [t : Nat, act : Action, raw : Action, meltdown : BOOLEAN,
        judges : Action \cup {None}]
Side == [plan : Seq(Action), rawPlan : Seq(Action),
         now : Action \cup {None}, raw : Action \cup {None},
         history : Seq(Nat), preds : Seq([target : Nat, raw : Action]),
         detector : Detector, meltdown : BOOLEAN,
         judges : Action \cup {None}, log : Seq(Row)]

\* Every variable keeps its type.
TypeOK ==
  /\ cfg \in [guided : BOOLEAN, twin : BOOLEAN]
  /\ pc \in Phases
  /\ t \in 0..MaxSteps
  /\ outcome \in [done : BOOLEAN, success : BOOLEAN, error : BOOLEAN]
  /\ requests \in Nat
  /\ main \in Side /\ base \in Side
  /\ baseRun \in [active : BOOLEAN, t : 0..MaxSteps, done : BOOLEAN, success : BOOLEAN]

\* The row of step s; rows are numbered from 1, steps from 0.
RowOf(s, step) == s.log[step + 1]
Steps(s) == 0..(Len(s.log) - 1)

\* Every executed action is judged exactly once, safety_k steps later, by the
\* prediction made from the raw action that was executed: no append to the
\* bounded z_history or delta_z_pred_queue ever drops what is still needed,
\* and the check never skips or repeats a target, on either side.
EveryActionJudged ==
  \A s \in {main, base} : \A i \in Steps(s) :
    RowOf(s, i).judges =
      IF i < SafetyK THEN None ELSE RowOf(s, i - SafetyK).act

\* No stale action: no action is executed from a chunk inferred before a
\* meltdown that the loop has seen, so a truncation is never forgotten.
NoStaleAction ==
  \A i \in Steps(main) : \A j \in RowOf(main, i).act.at + 1 .. i :
    ~RowOf(main, j).meltdown

\* Guidance is used for the recovery chunk and for it only (README.md:73
\* "applies OGG only to the next recovery query"): an executed action is
\* guided exactly when its chunk was inferred in the step of a meltdown.
GuidedOnlyForRecovery ==
  \A i \in Steps(main) :
    LET a == RowOf(main, i).act
    IN  a.guided <=> RowOf(main, a.at).meltdown /\ cfg.guided

\* The baseline is open loop: it executes whole chunks of its own,
\* n_action_steps apart, whatever is detected or inferred on the other side,
\* and never falls back on an action of the corrected side.
BaselineOpenLoop ==
  \A i \in Steps(base) :
    RowOf(base, i).act = [side |-> "base", at |-> i - (i % NActionSteps),
                          guided |-> FALSE, n |-> (i % NActionSteps) + 1]

\* No meltdown before the first safety_k steps have made predictions and the
\* bootstrap of the detector has consumed bootstrap_queue_size of them.
NoMeltdownInWarmUp ==
  \A s \in {main, base} : \A i \in Steps(s) :
    RowOf(s, i).meltdown => i >= SafetyK + BootstrapSize

\* The corrected side implements the adaptive action horizon: from row to row
\* of its record, the executed actions go on in their chunk, start one at the
\* end of the last, or start a recovery chunk at a meltdown.
LastRow == Last(main.log)
Horizon == INSTANCE AdaptiveHorizon WITH
  Horizon  <- NActionSteps,
  canGuide <- cfg.guided,
  step     <- Len(main.log),
  left     <- IF main.log = <<>> THEN 0 ELSE NActionSteps - LastRow.act.n,
  guided   <- IF main.log = <<>> THEN FALSE ELSE LastRow.act.guided,
  event    <- IF main.log = <<>> THEN FALSE ELSE LastRow.meltdown
ImplementsAdaptiveHorizon == Horizon!Spec

\* What the episode reports fits together: every meltdown that is recorded was
\* answered by one guided request when guidance is on, and an exception loses
\* at most the row of the last request.
Meltdowns(s) == {i \in Steps(s) : RowOf(s, i).meltdown}
RequestsAreMeltdowns ==
  pc = "end" =>
    LET answered == IF cfg.guided THEN Cardinality(Meltdowns(main)) ELSE 0
    IN  /\ requests \in {answered, answered + 1}
        /\ requests = answered + 1 => cfg.guided /\ outcome.error

\* The recorded curves of the baseline have one point per step it took, up to
\* the step an exception interrupts.
BaselineCurvesComplete ==
  pc = "end" =>
    /\ Len(base.log) \in {baseRun.t, baseRun.t - 1}
    /\ Len(base.log) # baseRun.t => outcome.error

\* eval_modified_detection says "Baseline arrays are produced from independent
\* no-guidance rollout when enabled": an episode without an exception would
\* run the baseline to its own end.
BaselineIndependent ==
  pc = "end" /\ cfg.twin /\ ~outcome.error =>
    baseRun.done \/ baseRun.t = MaxSteps
=============================================================================
