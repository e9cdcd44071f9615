--------------------------- MODULE AsyncInference ---------------------------
(***************************************************************************)
(* Asynchronous inference: a RobotClient whose control loop performs the   *)
(* queued actions and streams observations while a second thread receives  *)
(* action chunks, and a PolicyServer that queues at most one observation   *)
(* and infers a chunk from it.  Threads interleave at the locks, at the    *)
(* calls and at the places where the code reads shared state unlocked.     *)
(*                                                                         *)
(* An action or an observation is its timestep; an observation also has    *)
(* its must_go flag.  What an observation shows matters only to            *)
(* observations_similar, whose answer is chosen from SimilarAnswers.       *)
(***************************************************************************)
EXTENDS Integers, Sequences, SequencesExt, FiniteSets

CONSTANTS
  ActionsPerChunk,  \* actions_per_chunk of RobotClientConfig
  ThresholdPercent, \* chunk_size_threshold, in percent
  MaxTimestep,      \* the operator stops the client at this timestep
  SimilarAnswers,   \* what observations_similar may answer
  Failures,         \* which calls may fail: "send", "infer", "reply"
  None

ASSUME AsyncAssumption ==
  /\ ActionsPerChunk \in Nat \ {0}
  /\ ThresholdPercent \in 0..100
  /\ MaxTimestep \in Nat
  /\ SimilarAnswers \subseteq BOOLEAN
  /\ Failures \subseteq {"send", "infer", "reply"}

VARIABLES
  (* The client: shared state, then the state of its two threads. *)
  actionQueue,     \* action_queue
  latestAction,    \* latest_action
  mustGo,          \* must_go
  chunkSize,       \* action_chunk_size
  control,         \* control_loop: [pc, action, obs]
  receiver,        \* receive_actions: [pc, incoming, future, mutated]
  (* The server: shared state, then the state of its two handlers. *)
  obsQueue,        \* observation_queue
  predicted,       \* _predicted_timesteps
  lastObs,         \* last_processed_obs
  sending,         \* SendObservations: [pc, obs]
  getting          \* GetActions: [pc, obs]

client == <<actionQueue, latestAction, mustGo, chunkSize>>
server == <<obsQueue, predicted, lastObs>>
vars == <<client, control, receiver, server, sending, getting>>

Init ==
  /\ actionQueue = <<>>
  /\ latestAction = -1
  /\ mustGo = TRUE
  /\ chunkSize = -1
  /\ control = [pc |-> "act?", action |-> None, obs |-> None]
  /\ receiver = [pc |-> "call", incoming |-> <<>>, future |-> <<>>, mutated |-> FALSE]
  /\ obsQueue = <<>>
  /\ predicted = {}
  /\ lastObs = None
  /\ sending = [pc |-> "idle", obs |-> None]
  /\ getting = [pc |-> "idle", obs |-> None]

-----------------------------------------------------------------------------
(* The control loop.                                                       *)

\* while self.running: the operator stops the client at the end of the task.
ControlStop ==
  /\ control.pc = "act?" /\ latestAction >= MaxTimestep
  /\ control' = [control EXCEPT !.pc = "stopped"]
  /\ UNCHANGED <<client, receiver, server, sending, getting>>

\* actions_available, under the lock, which is then given up.
ActionsAvailable ==
  /\ control.pc = "act?" /\ latestAction < MaxTimestep
  /\ control' = [control EXCEPT !.pc = IF actionQueue # <<>> THEN "get" ELSE "ready?"]
  /\ UNCHANGED <<client, receiver, server, sending, getting>>

\* get_nowait; on a queue emptied meanwhile it raises, which ends the loop.
\* A receiver that is iterating over the same deque sees it change.
GetAction ==
  /\ control.pc = "get"
  /\ IF actionQueue = <<>>
     THEN /\ control' = [control EXCEPT !.pc = "crashed"]
          /\ UNCHANGED <<actionQueue, receiver>>
     ELSE /\ control' = [control EXCEPT !.pc = "perform", !.action = Head(actionQueue)]
          /\ actionQueue' = Tail(actionQueue)
          /\ receiver' = [receiver EXCEPT !.mutated = @ \/ receiver.pc = "iterate"]
  /\ UNCHANGED <<latestAction, mustGo, chunkSize, server, sending, getting>>

\* robot.send_action, and only then latest_action.
PerformAction ==
  /\ control.pc = "perform"
  /\ latestAction' = control.action
  /\ control' = [control EXCEPT !.pc = "ready?", !.action = None]
  /\ UNCHANGED <<actionQueue, mustGo, chunkSize, receiver, server, sending, getting>>

\* _ready_to_send_observation; before the first chunk the size is -1 and the
\* ratio is not positive.
ReadyToSendObservation ==
  /\ control.pc = "ready?"
  /\ LET ready == \/ chunkSize < 0
                  \/ 100 * Len(actionQueue) <= ThresholdPercent * chunkSize
     IN  control' = [control EXCEPT !.pc = IF ready THEN "capture" ELSE "act?"]
  /\ UNCHANGED <<client, receiver, server, sending, getting>>

\* Mutant: the timestep is not clipped at zero.
RawTimestep == latestAction

ObservationTimestep == IF latestAction >= 0 THEN latestAction ELSE 0

\* get_observation, its timestep and, under the queue's lock, its must_go.
CaptureObservation ==
  /\ control.pc = "capture"
  /\ control' = [control EXCEPT
       !.pc  = "send",
       !.obs = [timestep |-> ObservationTimestep,
                mustGo   |-> mustGo /\ actionQueue = <<>>]]
  /\ UNCHANGED <<client, receiver, server, sending, getting>>

\* send_observation calls the server and waits for its answer; a call that
\* fails is only logged.
SendObservation ==
  /\ control.pc = "send"
  /\ \/ /\ control' = [control EXCEPT !.pc = "sending"]
        /\ sending' = [pc |-> "check", obs |-> control.obs]
     \/ /\ "send" \in Failures
        /\ control' = [control EXCEPT !.pc = "sent"]
        /\ UNCHANGED sending
  /\ UNCHANGED <<client, receiver, server, getting>>

\* A must-go observation is sent once: the event waits for the next chunk.
ClearMustGo ==
  /\ control.pc = "sent"
  /\ mustGo' = IF control.obs.mustGo THEN FALSE ELSE mustGo
  /\ control' = [control EXCEPT !.pc = "act?", !.obs = None]
  /\ UNCHANGED <<actionQueue, latestAction, chunkSize, receiver, server, sending, getting>>

Control ==
  \/ ControlStop \/ ActionsAvailable \/ GetAction \/ PerformAction
  \/ ReadyToSendObservation \/ CaptureObservation \/ SendObservation \/ ClearMustGo

-----------------------------------------------------------------------------
(* The thread that receives action chunks.                                 *)

\* while self.running: a GetActions call.
CallGetActions ==
  /\ receiver.pc = "call" /\ control.pc \notin {"stopped", "crashed"}
  /\ receiver' = [receiver EXCEPT !.pc = "waiting"]
  /\ getting' = [pc |-> "get", obs |-> None]
  /\ UNCHANGED <<client, control, server, sending>>

\* The chunk has been deserialized.
UpdateChunkSize ==
  /\ receiver.pc = "received"
  /\ chunkSize' = IF chunkSize >= Len(receiver.incoming)
                  THEN chunkSize ELSE Len(receiver.incoming)
  /\ receiver' = [receiver EXCEPT !.pc = "snapshot"]
  /\ UNCHANGED <<actionQueue, latestAction, mustGo, control, server, sending, getting>>

\* _aggregate_action_queues takes the deque itself, not a copy, under the lock
\* ...
SnapshotQueue ==
  /\ receiver.pc = "snapshot"
  /\ receiver' = [receiver EXCEPT !.pc = "iterate", !.mutated = FALSE]
  /\ UNCHANGED <<client, control, server, sending, getting>>

\* ... and iterates over it after the lock.  If the control loop pops from it
\* meanwhile, the iteration raises a RuntimeError that nobody catches, unless
\* the pop fell before its beginning or after its end.
IterateQueue ==
  /\ receiver.pc = "iterate"
  /\ \/ receiver' = [receiver EXCEPT !.pc = "merge", !.future = <<>>]
     \/ receiver.mutated /\ receiver' = [receiver EXCEPT !.pc = "dead"]
  /\ UNCHANGED <<client, control, server, sending, getting>>

\* Mutant: the action that was performed last is not stale.
StaleButLatest(new) == new < latestAction

Stale(new) == new <= latestAction

\* One incoming action: dropped if it is not newer than latest_action as it is
\* now, else queued; on a timestep of the old queue the tensors are averaged.
MergeAction ==
  /\ receiver.pc = "merge" /\ receiver.incoming # <<>>
  /\ LET new == Head(receiver.incoming)
     IN  receiver' = [receiver EXCEPT
           !.incoming = Tail(@),
           !.future   = IF Stale(new) THEN @ ELSE Append(@, new)]
  /\ UNCHANGED <<client, control, server, sending, getting>>

\* Mutant: the new actions are appended to the queue they should replace.
SwapQueueAppending ==
  /\ receiver.pc = "merge" /\ receiver.incoming = <<>>
  /\ actionQueue' = actionQueue \o receiver.future
  /\ receiver' = [receiver EXCEPT !.pc = "swapped", !.future = <<>>]
  /\ UNCHANGED <<latestAction, mustGo, chunkSize, control, server, sending, getting>>

SwapQueue ==
  /\ receiver.pc = "merge" /\ receiver.incoming = <<>>
  /\ actionQueue' = receiver.future
  /\ receiver' = [receiver EXCEPT !.pc = "swapped", !.future = <<>>]
  /\ UNCHANGED <<latestAction, mustGo, chunkSize, control, server, sending, getting>>

\* Mutant: must_go is never set again.
ForgetMustGo ==
  /\ receiver.pc = "swapped"
  /\ receiver' = [receiver EXCEPT !.pc = "call"]
  /\ UNCHANGED <<client, control, server, sending, getting>>

SetMustGo ==
  /\ receiver.pc = "swapped"
  /\ mustGo' = TRUE
  /\ receiver' = [receiver EXCEPT !.pc = "call"]
  /\ UNCHANGED <<actionQueue, latestAction, chunkSize, control, server, sending, getting>>

Receiver ==
  \/ CallGetActions \/ UpdateChunkSize \/ SnapshotQueue \/ IterateQueue
  \/ MergeAction \/ SwapQueue \/ SetMustGo

-----------------------------------------------------------------------------
(* The server's SendObservations handler.                                  *)

AnswerSend ==
  /\ sending' = [pc |-> "idle", obs |-> None]
  /\ control' = [control EXCEPT !.pc = "sent"]

\* _enqueue_observation decides.
SanityChecks(obs, similar) == obs.timestep \notin predicted /\ ~similar

CheckObservation ==
  /\ sending.pc = "check"
  /\ \E similar \in SimilarAnswers :
       IF sending.obs.mustGo \/ lastObs = None \/ SanityChecks(sending.obs, similar)
       THEN /\ sending' = [sending EXCEPT !.pc = "full?"]
            /\ UNCHANGED control
       ELSE AnswerSend
  /\ UNCHANGED <<client, receiver, server, getting>>

\* Mutant: the queue is not emptied for the put.
QueueNeverFull ==
  /\ sending.pc = "full?"
  /\ sending' = [sending EXCEPT !.pc = "put"]
  /\ UNCHANGED <<client, control, receiver, server, getting>>

QueueFull ==
  /\ sending.pc = "full?"
  /\ sending' = [sending EXCEPT !.pc = IF obsQueue # <<>> THEN "evict" ELSE "put"]
  /\ UNCHANGED <<client, control, receiver, server, getting>>

\* get_nowait raises when GetActions has been faster: the call fails and the
\* observation is lost.
EvictOldest ==
  /\ sending.pc = "evict"
  /\ IF obsQueue = <<>>
     THEN AnswerSend /\ UNCHANGED obsQueue
     ELSE /\ obsQueue' = <<>>
          /\ sending' = [sending EXCEPT !.pc = "put"]
          /\ UNCHANGED control
  /\ UNCHANGED <<client, receiver, predicted, lastObs, getting>>

PutObservation ==
  /\ sending.pc = "put" /\ obsQueue = <<>>
  /\ obsQueue' = <<sending.obs>>
  /\ AnswerSend
  /\ UNCHANGED <<client, receiver, predicted, lastObs, getting>>

SendObservations == CheckObservation \/ QueueFull \/ EvictOldest \/ PutObservation

-----------------------------------------------------------------------------
(* The server's GetActions handler.                                        *)

\* An Empty answer, or a failed call, makes the client call again.
AnswerEmpty ==
  /\ getting' = [pc |-> "idle", obs |-> None]
  /\ receiver' = [receiver EXCEPT !.pc = "call"]

TakeObservation ==
  /\ getting.pc = "get" /\ obsQueue # <<>>
  /\ getting' = [pc |-> "mark", obs |-> Head(obsQueue)]
  /\ obsQueue' = Tail(obsQueue)
  /\ UNCHANGED <<client, control, receiver, predicted, lastObs, sending>>

\* Nothing arrives within obs_queue_timeout.
TimeoutObservation ==
  /\ getting.pc = "get" /\ obsQueue = <<>>
  /\ AnswerEmpty
  /\ UNCHANGED <<client, control, server, sending>>

\* The timestep counts as predicted from here on, whatever comes of it.
MarkPredicted ==
  /\ getting.pc = "mark"
  /\ predicted' = predicted \cup {getting.obs.timestep}
  /\ getting' = [getting EXCEPT !.pc = "prepare"]
  /\ UNCHANGED <<client, control, receiver, obsQueue, lastObs, sending>>

PrepareObservation ==
  /\ getting.pc = "prepare"
  /\ lastObs' = getting.obs
  /\ getting' = [getting EXCEPT !.pc = "infer"]
  /\ UNCHANGED <<client, control, receiver, obsQueue, predicted, sending>>

\* _time_action_chunk numbers the actions from the observation's timestep.
TimedActions(obs) == [i \in 1..ActionsPerChunk |-> obs.timestep + i - 1]

InferChunk ==
  /\ getting.pc = "infer"
  /\ getting' = [pc |-> "idle", obs |-> None]
  /\ receiver' = [receiver EXCEPT !.pc = "received",
                                  !.incoming = TimedActions(getting.obs)]
  /\ UNCHANGED <<client, control, server, sending>>

\* Preprocessing or inference raises (answered with Empty), or the answer gets
\* lost (an RpcError at the client).
FailGetActions ==
  /\ \/ getting.pc \in {"prepare", "infer"} /\ "infer" \in Failures
     \/ getting.pc = "infer" /\ "reply" \in Failures
  /\ AnswerEmpty
  /\ UNCHANGED <<client, control, server, sending>>

GetActions ==
  \/ TakeObservation \/ TimeoutObservation \/ MarkPredicted
  \/ PrepareObservation \/ InferChunk \/ FailGetActions

-----------------------------------------------------------------------------
Next == Control \/ Receiver \/ SendObservations \/ GetActions

\* Every thread is scheduled and a handler runs in a thread of its own.  A get
\* blocks until a put wakes it up: it does not time out for ever while
\* observations come and go.
Fairness == /\ WF_vars(Control) /\ WF_vars(Receiver)
            /\ WF_vars(SendObservations) /\ WF_vars(GetActions)
            /\ SF_vars(TakeObservation)
            /\ SF_vars(CallGetActions /\ obsQueue # <<>>)

Spec == Init /\ [][Next]_vars
FairSpec == Spec /\ Fairness

-----------------------------------------------------------------------------
(* Properties.                                                             *)

Observation == [timestep : Nat, mustGo : BOOLEAN]

ControlThread ==
  [pc : {"act?", "get", "perform", "ready?", "capture", "send", "sending", "sent",
         "stopped", "crashed"},
   action : Nat \cup {None}, obs : Observation \cup {None}]
ReceiverThread ==
  [pc : {"call", "waiting", "received", "snapshot", "iterate", "merge", "swapped", "dead"},
   incoming : Seq(Nat), future : Seq(Nat), mutated : BOOLEAN]
SendHandler ==
  [pc : {"idle", "check", "full?", "evict", "put"}, obs : Observation \cup {None}]
GetHandler ==
  [pc : {"idle", "get", "mark", "prepare", "infer"}, obs : Observation \cup {None}]

\* Every variable keeps its type, and the observation queue its size of one.
TypeOK ==
  /\ actionQueue \in Seq(Nat)
  /\ latestAction \in Nat \cup {-1}
  /\ mustGo \in BOOLEAN
  /\ chunkSize \in {-1, ActionsPerChunk}
  /\ control \in ControlThread
  /\ receiver \in ReceiverThread
  /\ obsQueue \in Seq(Observation) /\ Len(obsQueue) <= 1
  /\ predicted \subseteq Nat
  /\ lastObs \in Observation \cup {None}
  /\ sending \in SendHandler
  /\ getting \in GetHandler

\* The queued actions are in the order of their timesteps, each timestep at
\* most once, whatever the control loop pops while a chunk is being merged.
QueueAscending ==
  \A i \in 1..Len(actionQueue) - 1 : actionQueue[i] < actionQueue[i + 1]

\* policy_server.py:306 says of the put that it "never blocks as queue is
\* non-full here", although full, get_nowait and put are three steps that
\* interleave with GetActions.
PutNeverBlocks == sending.pc = "put" => obsQueue = <<>>

\* A chunk is merged while the control loop performs an action that it has
\* popped, but that latest_action does not count yet ...
MergeRace == control.pc = "perform" /\ receiver.pc \in {"iterate", "merge", "swapped"}

\* ... or must_go is set for a new chunk just before it is cleared for an
\* observation that was captured earlier.
ClearRace ==
  /\ receiver.pc = "swapped"
  /\ control.pc \in {"send", "sending", "sent"} /\ control.obs.mustGo

\* Without merge races the robot performs every timestep once and in order:
\* dropping, averaging and replacing queued actions skips and repeats nothing.
PerformsInOrder ==
  []~MergeRace => [](control.pc = "perform" => control.action = latestAction + 1)

\* Without the two races and without failing calls the robot gets to the end
\* of its task, however often observations are filtered out as similar, lost
\* to an eviction or replaced: no thread dies and nobody waits for ever.
RobotKeepsMoving == [](~MergeRace /\ ~ClearRace) => <>(control.pc = "stopped")

\* test_robot_client.py:93 says that actions "with timestep <= latest_action"
\* must be dropped: no action is performed that is not newer than the latest.
NoStaleActionPerformed == control.pc = "perform" => control.action > latestAction

\* robot_client.py:427 says "If there are no actions left in the queue, the
\* observation must go through processing!": a robot that captures an
\* observation with an empty queue gets new actions.
EmptyQueueIsServed ==
  (control.pc = "capture" /\ actionQueue = <<>>)
    ~> (actionQueue # <<>> \/ control.pc \in {"stopped", "crashed"} \/ receiver.pc = "dead")
=============================================================================
