-------------------------- MODULE RobustThreshold --------------------------
(***************************************************************************)
(* The latent drift detector of VLA-Corrector: RobustThresholdState and    *)
(* robust_threshold_step of lerobot_eval_modified_detection.py.            *)
(*                                                                         *)
(* One call receives a latent error E_t, smooths it to ebar, derives an    *)
(* alarm threshold ton and a release threshold toff <= ton from a window   *)
(* of past values, and updates the counters that decide whether the call   *)
(* asks for a recovery replan.  The thresholds are statistics of the data  *)
(* (median and MAD): what they amount to at a call is a reading, whose     *)
(* distance ebar - ton, release gap ton - toff and jump flag are chosen    *)
(* freely.  The control of the function is kept in full.                   *)
(***************************************************************************)
EXTENDS Integers

CONSTANTS BootstrapSize,   \* bootstrap_queue_size
          TriggerSteps,    \* trigger_consecutive_steps
          ResetSteps,      \* reset_consecutive_steps
          HardSteps,       \* hard_retrigger_consecutive_steps
          CooldownSteps,   \* cooldown_steps
          TriggerMargin,   \* trigger_margin, in units of the reading
          HardMargin,      \* hard_retrigger_margin
          Distances,       \* the values ebar - ton may take
          Gaps             \* the values ton - toff may take

\* A bootstrap queue of a size below one is full after the first call, a
\* negative cooldown is clipped to zero (eval_modified_detection).
ASSUME DetectorAssumption ==
  /\ BootstrapSize \in Nat \ {0}
  /\ TriggerSteps \in Nat \ {0}
  /\ ResetSteps \in Nat \ {0}
  /\ HardSteps \in Nat \ {0}
  /\ CooldownSteps \in Nat
  /\ TriggerMargin \in Nat
  /\ HardMargin \in Nat
  /\ Distances \subseteq Int
  /\ Gaps \subseteq Nat

-----------------------------------------------------------------------------
(* What one call sees.                                                     *)

FiniteReading == [finite : {TRUE}, dist : Distances, gap : Gaps, jump : BOOLEAN]
NaNReading    == [finite : {FALSE}]
Reading       == FiniteReading \cup NaNReading

Over(r)  == r.dist > TriggerMargin       \* cond_over
Hard(r)  == r.dist > HardMargin          \* cond_hard
Jumps(r) == r.jump /\ r.dist > 0         \* cond_jump
Quiet(r) == r.dist < -r.gap              \* ebar < toff

-----------------------------------------------------------------------------
(* RobustThresholdState, without the data the thresholds are made of.      *)

Detector == [boot : 0..BootstrapSize, alert : BOOLEAN, over : Nat, under : Nat,
             hard : Nat, cooldown : 0..CooldownSteps]

NewDetector == [boot |-> 0, alert |-> FALSE, over |-> 0, under |-> 0,
                hard |-> 0, cooldown |-> 0]

\* Mutant: the bootstrap ends one reading too early.
BootstrappedEarly(d) == d.boot >= BootstrapSize - 1

Bootstrapped(d) == d.boot = BootstrapSize

\* The three counters of consecutive readings.
Count(d, r) ==
  [d EXCEPT !.over  = IF Over(r)  THEN @ + 1 ELSE 0,
            !.hard  = IF Hard(r)  THEN @ + 1 ELSE 0,
            !.under = IF Quiet(r) THEN @ + 1 ELSE 0]

\* Mutants: an off-by-one in the run that ends an alert, either way.
ReleaseLate(d) ==
  IF d.alert /\ d.under > ResetSteps
  THEN [d EXCEPT !.alert = FALSE, !.over = 0, !.hard = 0] ELSE d
ReleaseEarly(d) ==
  IF d.alert /\ d.under >= ResetSteps - 1
  THEN [d EXCEPT !.alert = FALSE, !.over = 0, !.hard = 0] ELSE d

\* An alert ends after reset_consecutive_steps quiet readings.
Release(d) ==
  IF d.alert /\ d.under >= ResetSteps
  THEN [d EXCEPT !.alert = FALSE, !.over = 0, !.hard = 0]
  ELSE d

\* Mutant: an equality, which a run that outlasts the cooldown has passed.
ShouldTriggerOnce(d, r) ==
  \/ d.cooldown > 0 /\ d.hard >= HardSteps
  \/ d.cooldown = 0 /\ (Jumps(r) \/ d.over = TriggerSteps)

\* should_trigger: in the cooldown only a hard run does, else a jump or a run.
ShouldTrigger(d, r) ==
  \/ d.cooldown > 0 /\ d.hard >= HardSteps
  \/ d.cooldown = 0 /\ (Jumps(r) \/ d.over >= TriggerSteps)

\* Mutant: the countdown does not stop at zero.
CoolBelowZero(d) == [d EXCEPT !.cooldown = @ - 1]

Cool(d) == [d EXCEPT !.cooldown = IF @ > 0 THEN @ - 1 ELSE @]

\* Mutant: the counters survive the trigger.
TriggerKeepingRuns(d) == [d EXCEPT !.alert = TRUE, !.cooldown = CooldownSteps]

Trigger(d) == [d EXCEPT !.alert = TRUE, !.cooldown = CooldownSteps,
                        !.over = 0, !.hard = 0, !.under = 0]

Counted(d, r) == Release(Count(d, r))

\* The verdict of robust_threshold_step on reading r in state d ...
Verdict(d, r) == r.finite /\ Bootstrapped(d) /\ ShouldTrigger(Counted(d, r), r)

\* ... and the state it leaves behind.
RobustThresholdStep(d, r) ==
  IF ~r.finite THEN d
  ELSE IF ~Bootstrapped(d) THEN [d EXCEPT !.boot = @ + 1]
  ELSE IF Verdict(d, r) THEN Trigger(Counted(d, r))
  ELSE Cool(Counted(d, r))
=============================================================================
