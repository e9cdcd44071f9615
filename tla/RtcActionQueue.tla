--------------------------- MODULE RtcActionQueue ---------------------------
(***************************************************************************)
(* Real-time chunking: an inference thread merges action chunks into the   *)
(* ActionQueue from which an actor thread takes one action a period.       *)
(*                                                                         *)
(* An action is the step of the robot's plan it is for: a chunk continues  *)
(* the left-over actions it was inferred with.  The original and the       *)
(* processed tensor hold the same steps and are one sequence here.  The    *)
(* latency that merge is told is wall time, rounded up to periods.  The    *)
(* actor makes at most one attempt to get an action a period, and it may   *)
(* miss any number of periods: it does not catch up, and it waits for the  *)
(* robot's lock, which get_observation holds.                              *)
(***************************************************************************)
EXTENDS Integers, Sequences, SequencesExt

CONSTANTS
  ChunkSize, \* actions per chunk
  Threshold, \* action_queue_size_to_get_new_actions
  MaxWait,   \* an inference takes at most this many attempts of the actor
  MaxDelay,  \* ... and at most this many periods of wall time
  Slack,     \* attempts in between two adjacent statements, or of an actor
             \* that is a little faster than its period
  MaxStep    \* the operator shuts down at this step

ASSUME RtcAssumption ==
  /\ ChunkSize \in Nat \ {0} /\ Threshold \in Nat
  /\ MaxWait \in Nat /\ Slack \in Nat /\ Slack <= MaxWait /\ MaxStep \in Nat
  /\ MaxDelay \in Nat /\ MaxDelay > MaxWait

VARIABLES
  enabled,    \* cfg.rtc.enabled
  queue,      \* ActionQueue.queue and original_queue, empty when None
  lastIndex,  \* ActionQueue.last_index
  performed,  \* the step the actor sent to the robot last
  inference,  \* get_actions: its place and locals, and what an observer counts
  alive       \* the threads that have not ended with an exception

vars == <<enabled, queue, lastIndex, performed, inference, alive>>

Threads == {"actor", "get_actions"}

\* waited and starved count the attempts since current_time and those of them,
\* after the left-over was read, that found nothing; torn is whether an action
\* was taken between the reads of the index and of the left-over.
Idle == [pc |-> "check", index |-> 0, base |-> 0, delay |-> 0,
         waited |-> 0, starved |-> 0, torn |-> FALSE]

Init ==
  /\ enabled \in BOOLEAN
  /\ queue = <<>> /\ lastIndex = 0
  /\ performed = -1
  /\ inference = Idle
  /\ alive = Threads

-----------------------------------------------------------------------------
QSize == Len(queue) - lastIndex

LeftOver == SubSeq(queue, lastIndex + 1, Len(queue))

\* The step the robot is about to perform.
NextStep == IF LeftOver = <<>> THEN performed + 1 ELSE Head(LeftOver)

-----------------------------------------------------------------------------
(* actor_control.                                                          *)

Stopped == performed >= MaxStep

Acting == "actor" \in alive /\ ~Stopped

\* How long the inference thread can take at its place.
Patience == CASE inference.pc = "check" -> 0
              [] inference.pc \in {"index", "leftover"} -> Slack
              [] OTHER -> MaxWait

\* What the observer sees of an attempt.
Attempt(found) ==
  IF inference.pc = "check"
  THEN UNCHANGED inference
  ELSE /\ inference.waited < Patience
       /\ inference' = [inference EXCEPT
            !.waited  = @ + 1,
            !.starved = IF inference.pc = "infer" /\ ~found THEN @ + 1 ELSE @,
            !.torn    = @ \/ (inference.pc = "leftover" /\ found)]

Get ==
  /\ Acting /\ QSize > 0
  /\ performed' = queue[lastIndex + 1]
  /\ lastIndex' = lastIndex + 1
  /\ Attempt(TRUE)
  /\ UNCHANGED <<enabled, queue, alive>>

\* Nothing to get: the robot is sent nothing in this period.
GetNone ==
  /\ Acting /\ QSize <= 0
  /\ Attempt(FALSE)
  /\ UNCHANGED <<enabled, queue, lastIndex, performed, alive>>

Actor == Get \/ GetNone

-----------------------------------------------------------------------------
(* get_actions.                                                            *)

\* Mutants: without RTC, too, a chunk is requested before the queue is empty;
\* the queue must be below the threshold.
EarlyThreshold == Threshold
BelowThreshold == IF enabled THEN Threshold - 1 ELSE -1

GetActionsThreshold == IF enabled THEN Threshold ELSE 0

\* qsize and then current_time; above the threshold the thread only sleeps.
\* MaxStep bounds the plan: chunks are replaced for ever if the actor is stuck.
CheckSize ==
  /\ inference.pc = "check" /\ "get_actions" \in alive /\ ~Stopped
  /\ QSize <= GetActionsThreshold /\ NextStep <= MaxStep
  /\ inference' = [Idle EXCEPT !.pc = "index"]
  /\ UNCHANGED <<enabled, queue, lastIndex, performed, alive>>

GetActionIndex ==
  /\ inference.pc = "index"
  /\ inference' = [inference EXCEPT !.pc = "leftover", !.index = lastIndex]
  /\ UNCHANGED <<enabled, queue, lastIndex, performed, alive>>

\* The new chunk is inferred to continue the left-over.
GetLeftOver ==
  /\ inference.pc = "leftover"
  /\ inference' = [inference EXCEPT !.pc = "infer", !.base = NextStep]
  /\ UNCHANGED <<enabled, queue, lastIndex, performed, alive>>

\* new_delay: never zero, and no shorter than the attempts took.
NewDelays == {d \in 1..MaxDelay : d >= inference.waited - Slack}

Chunk == [i \in 1..ChunkSize |-> inference.base + i - 1]

\* Mutants: the chunk is not cut, or cut an action short, or the index is kept.
ReplaceWhole(delay) == queue' = Chunk /\ lastIndex' = 0
ReplaceOneLess(delay) == queue' = SubSeq(Chunk, delay, ChunkSize) /\ lastIndex' = 0
ReplaceKeepingIndex(delay) ==
  queue' = SubSeq(Chunk, delay + 1, ChunkSize) /\ lastIndex' = lastIndex

\* The first delay actions are dropped; of a chunk that is no longer than the
\* delay nothing is left.
ReplaceActionsQueue(delay) ==
  /\ queue' = SubSeq(Chunk, delay + 1, ChunkSize)
  /\ lastIndex' = 0

AppendActionsQueue ==
  /\ queue' = SubSeq(queue \o Chunk, lastIndex + 1, Len(queue \o Chunk))
  /\ lastIndex' = 0

\* merge; _check_delays only logs whether the index agrees with the delay.
Merge(delay) ==
  /\ inference.pc = "infer" /\ delay \in NewDelays
  /\ IF enabled THEN ReplaceActionsQueue(delay) ELSE AppendActionsQueue
  /\ inference' = [Idle EXCEPT !.delay = delay]
  /\ UNCHANGED <<enabled, performed, alive>>

GetActions ==
  \/ CheckSize \/ GetActionIndex \/ GetLeftOver
  \/ \E delay \in 1..MaxDelay : Merge(delay)

-----------------------------------------------------------------------------
(* An exception ends the thread it is raised in with sys.exit, and nothing *)
(* tells the other one: the observation or the inference fails, or         *)
(* send_action does after the action was taken.                            *)

InferenceRaises ==
  /\ inference.pc = "infer"
  /\ inference' = Idle
  /\ alive' = alive \ {"get_actions"}
  /\ UNCHANGED <<enabled, queue, lastIndex, performed>>

SendRaises ==
  /\ Acting /\ performed >= 0
  /\ alive' = alive \ {"actor"}
  /\ UNCHANGED <<enabled, queue, lastIndex, performed, inference>>

-----------------------------------------------------------------------------
Next == Actor \/ GetActions \/ InferenceRaises \/ SendRaises

\* Both threads are scheduled.
Fairness == WF_vars(Actor) /\ WF_vars(GetActions)

Spec == Init /\ [][Next]_vars
FairSpec == Spec /\ Fairness

-----------------------------------------------------------------------------
(* Properties.                                                             *)

InferenceThread ==
  [pc : {"check", "index", "leftover", "infer"}, index : Nat, base : Nat, delay : Nat,
   waited : 0..MaxWait, starved : 0..MaxWait, torn : BOOLEAN]

\* Every variable keeps its type, and the index stays within the queue.
TypeOK ==
  /\ enabled \in BOOLEAN
  /\ queue \in Seq(Nat)
  /\ lastIndex \in 0..Len(queue)
  /\ performed \in Nat \cup {-1}
  /\ inference \in InferenceThread
  /\ alive \in SUBSET Threads

\* Without RTC the robot performs every step of its plan once and in order,
\* across all merges: appending neither repeats nor skips an action.
AppendedInOrder ==
  [][~enabled => performed' \in {performed, performed + 1}]_vars

\* How far a merge moves the step that is next.
Jump == NextStep' - NextStep

\* With RTC a merge that leaves anything takes the robot at most Slack steps
\* back in its plan, however late the actor is.  It skips no more than what was
\* taken before the left-over was read, the attempts that found nothing and the
\* periods of the latency in which there was no attempt.
SwapIsBounded ==
  [][\A delay \in 1..MaxDelay :
       Merge(delay) /\ enabled /\ delay < ChunkSize
         => Jump \in (-Slack)..(Slack + inference.starved + delay - inference.waited)]_vars

\* action_queue.py:199 validates the delay against the index.  When they agree
\* and the index and the left-over were read together, the robot goes on with
\* exactly the step that is next, though the chunk was replaced under it.
CheckedSwapIsSeamless ==
  [][\A delay \in 1..MaxDelay :
       (Merge(delay) /\ enabled /\ ~inference.torn
          /\ lastIndex - inference.index = delay) => Jump = 0]_vars

\* An inference that takes longer than its chunk lasts leaves nothing to do.
TooSlow == inference.delay >= ChunkSize

\* Unless that happens or a thread has ended, the robot gets to the end of its
\* plan, with and without RTC and however late the actor is: no merge takes it
\* back for ever, and no empty queue stays empty.
RobotMoves == [](~TooSlow /\ alive = Threads) => <>Stopped
=============================================================================
