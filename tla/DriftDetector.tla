--------------------------- MODULE DriftDetector ---------------------------
(***************************************************************************)
(* The drift detector of one episode: a RobustThresholdState and the calls *)
(* of robust_threshold_step on it, at most MaxCalls of them (under_count   *)
(* grows without bound while nothing drifts).  ghost is history: the runs  *)
(* of judged readings as an observer counts them, who starts anew after a  *)
(* trigger.  latest says that the latest judged reading triggered, prior   *)
(* that some reading before the present runs did.                          *)
(***************************************************************************)
EXTENDS RobustThreshold

CONSTANT MaxCalls
ASSUME MaxCallsAssumption == MaxCalls \in Nat

VARIABLES det, calls, ghost
vars == <<det, calls, ghost>>

Ghost == [since : Nat, over : Nat, hard : Nat, quiet : Nat,
          latest : BOOLEAN, prior : BOOLEAN]
NewGhost == [since |-> 0, over |-> 0, hard |-> 0, quiet |-> 0,
             latest |-> FALSE, prior |-> FALSE]

\* A run of n readings after one more reading, which belongs to it or not.
Run(g, n, belongs) == IF ~belongs THEN 0 ELSE IF g.latest THEN 1 ELSE n + 1

Observe(g, r, verdict) ==
  [since  |-> Run(g, g.since, TRUE),
   over   |-> Run(g, g.over, Over(r)),
   hard   |-> Run(g, g.hard, Hard(r)),
   quiet  |-> Run(g, g.quiet, Quiet(r)),
   latest |-> verdict,
   prior  |-> g.prior \/ g.latest]

Init ==
  /\ det = NewDetector
  /\ calls = 0
  /\ ghost = NewGhost

\* A NaN error: only the threshold curves are appended to.
StepNaN(r) ==
  /\ ~r.finite
  /\ UNCHANGED <<det, ghost>>

\* The queue of the bootstrap fills up; no verdict yet.
StepBootstrap(r) ==
  /\ r.finite /\ ~Bootstrapped(det)
  /\ det' = RobustThresholdStep(det, r)
  /\ UNCHANGED ghost

StepJudge(r) ==
  /\ r.finite /\ Bootstrapped(det)
  /\ det' = RobustThresholdStep(det, r)
  /\ ghost' = Observe(ghost, r, Verdict(det, r))

Step(r) ==
  /\ calls < MaxCalls
  /\ StepNaN(r) \/ StepBootstrap(r) \/ StepJudge(r)
  /\ calls' = calls + 1

Next == \E r \in Reading : Step(r)

Spec == Init /\ [][Next]_vars

-----------------------------------------------------------------------------
(* Properties.                                                             *)

\* The state is a RobustThresholdState, and the ghosts are counters.
TypeOK ==
  /\ det \in Detector
  /\ calls \in 0..MaxCalls
  /\ ghost \in Ghost

Larger(a, b) == IF a >= b THEN a ELSE b

\* No drift is missed: an unbroken run of over-threshold readings never gets
\* to trigger_consecutive_steps without a recovery replan, except that a
\* cooldown may delay the replan to the first call after the cooldown; yet
\* robust_threshold_step restarts its count at triggers and releases.
NoMissedDrift ==
  ~ghost.latest => ghost.over < Larger(TriggerSteps, CooldownSteps + 1)

\* The two thresholds make a hysteresis: an alert is over as soon as
\* reset_consecutive_steps quiet readings in a row have followed the trigger,
\* however readings, NaNs and re-triggers interleave.
AlertEndsWhenQuiet == det.alert => ghost.quiet < ResetSteps

\* ... and never earlier: alert_active is given up only at such a run.
AlertEndsOnlyWhenQuiet ==
  [][det.alert /\ ~det'.alert => ghost'.quiet >= ResetSteps]_vars

\* Cooldown: a trigger within cooldown_steps judged readings of the one before
\* it is the end of hard_retrigger_consecutive_steps hard readings, all later
\* than that one.
CooldownHolds ==
  ghost.latest /\ ghost.prior /\ ghost.since <= CooldownSteps
    => ghost.hard >= HardSteps
=============================================================================
