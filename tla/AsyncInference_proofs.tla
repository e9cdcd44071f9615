----------------------- MODULE AsyncInference_proofs -----------------------
(***************************************************************************)
(* The safety of asynchronous inference for every chunk size, threshold    *)
(* and set of failing calls.  IInv needs nothing but the order of a chunk; *)
(* OInv adds, for behaviours without merge races, that everything under    *)
(* way continues what the robot has performed.                             *)
(***************************************************************************)
EXTENDS AsyncInference, SequenceTheorems, TLAPS

\* A thread holds the action or observation it is working on.
Carried ==
  /\ control.pc = "perform" => control.action \in Nat
  /\ control.pc \in {"send", "sending", "sent"} => control.obs \in Observation
  /\ sending.pc # "idle" => control.pc = "sending" /\ sending.obs \in Observation
  /\ getting.pc \in {"mark", "prepare", "infer"} => getting.obs \in Observation
  /\ receiver.pc = "received" => Len(receiver.incoming) = ActionsPerChunk

\* A chunk, or the rest of it, has consecutive timesteps.
IncomingIsChunk ==
  \A i \in 1..Len(receiver.incoming) :
    receiver.incoming[i] = receiver.incoming[1] + i - 1

\* What has been merged ascends and is older than what is still to be merged.
FutureAscends ==
  receiver.pc = "merge" =>
    /\ \A i \in 1..Len(receiver.future) - 1 : receiver.future[i] < receiver.future[i + 1]
    /\ receiver.future # <<>> /\ receiver.incoming # <<>>
         => receiver.future[Len(receiver.future)] < receiver.incoming[1]

IInv == TypeOK /\ Carried /\ IncomingIsChunk /\ FutureAscends
        /\ QueueAscending /\ PutNeverBlocks

\* The action that the control loop has taken last.
Taken == IF control.pc = "perform" THEN control.action ELSE latestAction

QueueContinues ==
  /\ control.pc = "perform" => control.action = latestAction + 1
  /\ \A i \in 1..Len(actionQueue) : actionQueue[i] = Taken + i

\* No observation is of a timestep beyond the next one.
ObservationsKnown ==
  /\ control.pc \in {"send", "sending", "sent"} => control.obs.timestep <= latestAction + 1
  /\ sending.pc # "idle" => sending.obs.timestep <= latestAction + 1
  /\ \A i \in 1..Len(obsQueue) : obsQueue[i].timestep <= latestAction + 1
  /\ getting.pc \in {"mark", "prepare", "infer"} => getting.obs.timestep <= latestAction + 1

\* A chunk begins no later than with the next action, and what has been merged
\* of it are the next actions.
ChunkContinues ==
  /\ receiver.pc \in {"received", "snapshot", "iterate"} =>
       \A i \in 1..Len(receiver.incoming) : receiver.incoming[i] <= latestAction + i
  /\ receiver.pc = "merge" =>
       /\ \A i \in 1..Len(receiver.future) : receiver.future[i] = latestAction + i
       /\ \A i \in 1..Len(receiver.incoming) :
            IF receiver.future = <<>>
            THEN receiver.incoming[i] <= latestAction + i
            ELSE receiver.incoming[i] = latestAction + Len(receiver.future) + i

OInv == QueueContinues /\ ObservationsKnown /\ ChunkContinues

-----------------------------------------------------------------------------
LEMMA InitInv == Init => IInv
BY DEF Init, IInv, TypeOK, ControlThread, ReceiverThread, SendHandler, GetHandler,
       Carried, IncomingIsChunk, FutureAscends, QueueAscending, PutNeverBlocks

LEMMA ChunkType ==
  ASSUME NEW obs \in Observation
  PROVE  /\ TimedActions(obs) \in Seq(Nat) /\ Len(TimedActions(obs)) = ActionsPerChunk
         /\ \A i \in 1..ActionsPerChunk : TimedActions(obs)[i] = obs.timestep + i - 1
<1>1. ActionsPerChunk \in Nat /\ obs.timestep \in Nat
  BY AsyncAssumption DEF Observation
<1>2. TimedActions(obs) \in [1..ActionsPerChunk -> Nat]
  BY <1>1 DEF TimedActions
<1> QED  BY <1>1, <1>2 DEF TimedActions

LEMMA ControlType == TypeOK /\ Carried /\ Control => TypeOK' /\ Carried'
<1> SUFFICES ASSUME TypeOK, Carried, Control PROVE TypeOK' /\ Carried'
  OBVIOUS
<1>1. CASE ControlStop
  <2>1. UNCHANGED <<actionQueue, latestAction, mustGo, chunkSize, receiver, obsQueue,
                    predicted, lastObs, sending, getting>>
    BY <1>1 DEF ControlStop, client, server
  <2>2. control' \in ControlThread
    BY <1>1 DEF TypeOK, Carried, ControlStop, ControlThread
  <2>3. TypeOK'
    BY <2>1, <2>2 DEF TypeOK
  <2>4. Carried'
    BY <1>1, <2>1
       DEF TypeOK, Carried, ControlStop, ControlThread, ReceiverThread, SendHandler,
           GetHandler
  <2> QED  BY <2>3, <2>4
<1>2. CASE ActionsAvailable
  <2>1. UNCHANGED <<actionQueue, latestAction, mustGo, chunkSize, receiver, obsQueue,
                    predicted, lastObs, sending, getting>>
    BY <1>2 DEF ActionsAvailable, client, server
  <2>2. control' \in ControlThread
    BY <1>2 DEF TypeOK, Carried, ActionsAvailable, ControlThread
  <2>3. TypeOK'
    BY <2>1, <2>2 DEF TypeOK
  <2>4. Carried'
    BY <1>2, <2>1
       DEF TypeOK, Carried, ActionsAvailable, ControlThread, ReceiverThread,
           SendHandler, GetHandler
  <2> QED  BY <2>3, <2>4
<1>3. CASE GetAction
  <2>1. UNCHANGED <<latestAction, mustGo, chunkSize, obsQueue, predicted, lastObs,
                    sending, getting>>
    BY <1>3 DEF GetAction, client, server
  <2>a. actionQueue # <<>> => Head(actionQueue) \in Nat /\ Tail(actionQueue) \in Seq(Nat)
    BY HeadTailProperties DEF TypeOK
  <2>2. actionQueue' \in Seq(Nat)
    BY <1>3, <2>a DEF TypeOK, GetAction
  <2>3. control' \in ControlThread
    BY <1>3, <2>a DEF TypeOK, GetAction, ControlThread
  <2>4. receiver' \in ReceiverThread
    BY <1>3 DEF TypeOK, Carried, GetAction, ReceiverThread
  <2>5. TypeOK'
    BY <2>1, <2>2, <2>3, <2>4 DEF TypeOK
  <2>6. Carried'
    <3>1. /\ control'.pc = "perform" => control'.action \in Nat
          /\ control'.pc \notin {"send", "sending", "sent"}
          /\ receiver'.pc = receiver.pc /\ receiver'.incoming = receiver.incoming
      BY <1>3, <2>a DEF TypeOK, GetAction, ControlThread, ReceiverThread
    <3>2. sending.pc = "idle"
      BY <1>3 DEF Carried, GetAction
    <3> QED  BY <2>1, <3>1, <3>2 DEF Carried
  <2> QED  BY <2>5, <2>6
<1>4. CASE PerformAction
  <2>1. UNCHANGED <<actionQueue, mustGo, chunkSize, receiver, obsQueue, predicted,
                    lastObs, sending, getting>>
    BY <1>4 DEF PerformAction, client, server
  <2>2. latestAction' \in Nat \cup {-1}
    BY <1>4 DEF TypeOK, Carried, PerformAction
  <2>3. control' \in ControlThread
    BY <1>4 DEF TypeOK, Carried, PerformAction, ControlThread
  <2>4. TypeOK'
    BY <2>1, <2>2, <2>3 DEF TypeOK
  <2>5. Carried'
    BY <1>4, <2>1
       DEF TypeOK, Carried, PerformAction, ControlThread, ReceiverThread, SendHandler,
           GetHandler
  <2> QED  BY <2>4, <2>5
<1>5. CASE ReadyToSendObservation
  <2>1. UNCHANGED <<actionQueue, latestAction, mustGo, chunkSize, receiver, obsQueue,
                    predicted, lastObs, sending, getting>>
    BY <1>5 DEF ReadyToSendObservation, client, server
  <2>2. control' \in ControlThread
    BY <1>5 DEF TypeOK, Carried, ReadyToSendObservation, ControlThread
  <2>3. TypeOK'
    BY <2>1, <2>2 DEF TypeOK
  <2>4. Carried'
    BY <1>5, <2>1
       DEF TypeOK, Carried, ReadyToSendObservation, ControlThread, ReceiverThread,
           SendHandler, GetHandler
  <2> QED  BY <2>3, <2>4
<1>6. CASE CaptureObservation
  <2>1. UNCHANGED <<actionQueue, latestAction, mustGo, chunkSize, receiver, obsQueue,
                    predicted, lastObs, sending, getting>>
    BY <1>6 DEF CaptureObservation, client, server
  <2>a. control'.obs \in Observation /\ control' = [control EXCEPT !.pc = "send", !.obs = control'.obs]
    <3>1. ObservationTimestep \in Nat
      BY DEF TypeOK, ObservationTimestep
    <3> QED  BY <1>6, <3>1 DEF TypeOK, CaptureObservation, Observation, ControlThread
  <2>2. control' \in ControlThread
    BY <2>a DEF TypeOK, ControlThread
  <2>3. TypeOK'
    BY <2>1, <2>2 DEF TypeOK
  <2>4. Carried'
    BY <1>6, <2>1
       DEF TypeOK, Carried, CaptureObservation, ObservationTimestep, Observation,
           ControlThread, ReceiverThread, SendHandler, GetHandler
  <2> QED  BY <2>3, <2>4
<1>7. CASE SendObservation
  <2>1. UNCHANGED <<actionQueue, latestAction, mustGo, chunkSize, receiver, obsQueue,
                    predicted, lastObs, getting>>
    BY <1>7 DEF SendObservation, client, server
  <2>2. control' \in ControlThread
    BY <1>7 DEF TypeOK, Carried, SendObservation, ControlThread
  <2>3. sending' \in SendHandler
    BY <1>7 DEF TypeOK, Carried, SendObservation, SendHandler
  <2>4. TypeOK'
    BY <2>1, <2>2, <2>3 DEF TypeOK
  <2>5. Carried'
    <3>1. /\ control.obs \in Observation /\ sending.pc = "idle"
          /\ control'.pc \in {"sending", "sent"} /\ control'.obs = control.obs
          /\ \/ sending' = sending
             \/ sending'.pc = "check" /\ sending'.obs = control.obs /\ control'.pc = "sending"
      BY <1>7 DEF TypeOK, Carried, SendObservation, ControlThread
    <3> QED  BY <2>1, <3>1 DEF Carried
  <2> QED  BY <2>4, <2>5
<1>8. CASE ClearMustGo
  <2>1. UNCHANGED <<actionQueue, latestAction, chunkSize, receiver, obsQueue, predicted,
                    lastObs, sending, getting>>
    BY <1>8 DEF ClearMustGo, client, server
  <2>2. mustGo' \in BOOLEAN
    BY <1>8 DEF TypeOK, Carried, ClearMustGo
  <2>3. control' \in ControlThread
    BY <1>8 DEF TypeOK, Carried, ClearMustGo, ControlThread
  <2>4. TypeOK'
    BY <2>1, <2>2, <2>3 DEF TypeOK
  <2>5. Carried'
    BY <1>8, <2>1
       DEF TypeOK, Carried, ClearMustGo, ControlThread, ReceiverThread, SendHandler,
           GetHandler
  <2> QED  BY <2>4, <2>5
<1> QED  BY <1>1, <1>2, <1>3, <1>4, <1>5, <1>6, <1>7, <1>8 DEF Control

LEMMA ReceiverType == TypeOK /\ Carried /\ Receiver => TypeOK' /\ Carried'
<1> SUFFICES ASSUME TypeOK, Carried, Receiver PROVE TypeOK' /\ Carried'
  OBVIOUS
<1>1. CASE CallGetActions
  <2>1. UNCHANGED <<actionQueue, latestAction, mustGo, chunkSize, control, obsQueue,
                    predicted, lastObs, sending>>
    BY <1>1 DEF CallGetActions, client, server
  <2>2. receiver' \in ReceiverThread
    BY <1>1 DEF TypeOK, Carried, CallGetActions, ReceiverThread
  <2>3. getting' \in GetHandler
    BY <1>1 DEF TypeOK, Carried, CallGetActions, GetHandler
  <2>4. TypeOK'
    BY <2>1, <2>2, <2>3 DEF TypeOK
  <2>5. Carried'
    BY <1>1, <2>1
       DEF TypeOK, Carried, CallGetActions, ControlThread, ReceiverThread, SendHandler,
           GetHandler
  <2> QED  BY <2>4, <2>5
<1>2. CASE UpdateChunkSize
  <2>1. UNCHANGED <<actionQueue, latestAction, mustGo, control, obsQueue, predicted,
                    lastObs, sending, getting>>
    BY <1>2 DEF UpdateChunkSize, client, server
  <2>2. chunkSize' \in {-1, ActionsPerChunk}
    BY <1>2, AsyncAssumption DEF TypeOK, Carried, UpdateChunkSize
  <2>3. receiver' \in ReceiverThread
    BY <1>2 DEF TypeOK, Carried, UpdateChunkSize, ReceiverThread
  <2>4. TypeOK'
    BY <2>1, <2>2, <2>3 DEF TypeOK
  <2>5. Carried'
    BY <1>2, <2>1
       DEF TypeOK, Carried, UpdateChunkSize, ControlThread, ReceiverThread, SendHandler,
           GetHandler
  <2> QED  BY <2>4, <2>5
<1>3. CASE SnapshotQueue
  <2>1. UNCHANGED <<actionQueue, latestAction, mustGo, chunkSize, control, obsQueue,
                    predicted, lastObs, sending, getting>>
    BY <1>3 DEF SnapshotQueue, client, server
  <2>2. receiver' \in ReceiverThread
    BY <1>3 DEF TypeOK, Carried, SnapshotQueue, ReceiverThread
  <2>3. TypeOK'
    BY <2>1, <2>2 DEF TypeOK
  <2>4. Carried'
    BY <1>3, <2>1
       DEF TypeOK, Carried, SnapshotQueue, ControlThread, ReceiverThread, SendHandler,
           GetHandler
  <2> QED  BY <2>3, <2>4
<1>4. CASE IterateQueue
  <2>1. UNCHANGED <<actionQueue, latestAction, mustGo, chunkSize, control, obsQueue,
                    predicted, lastObs, sending, getting>>
    BY <1>4 DEF IterateQueue, client, server
  <2>2. receiver' \in ReceiverThread
    <3>1. <<>> \in Seq(Nat)
      BY EmptySeq
    <3> QED  BY <1>4, <3>1 DEF TypeOK, IterateQueue, ReceiverThread
  <2>3. TypeOK'
    BY <2>1, <2>2 DEF TypeOK
  <2>4. Carried'
    BY <1>4, <2>1
       DEF TypeOK, Carried, IterateQueue, ControlThread, ReceiverThread, SendHandler,
           GetHandler
  <2> QED  BY <2>3, <2>4
<1>5. CASE MergeAction
  <2>1. UNCHANGED <<actionQueue, latestAction, mustGo, chunkSize, control, obsQueue,
                    predicted, lastObs, sending, getting>>
    BY <1>5 DEF MergeAction, client, server
  <2>2. receiver' \in ReceiverThread
    <3> DEFINE new == Head(receiver.incoming)
    <3>1. /\ receiver.incoming \in Seq(Nat) /\ receiver.incoming # <<>>
          /\ receiver.future \in Seq(Nat)
      BY <1>5 DEF TypeOK, MergeAction, ReceiverThread
    <3>2. new \in Nat /\ Tail(receiver.incoming) \in Seq(Nat)
      BY <3>1, HeadTailProperties
    <3>3. Append(receiver.future, new) \in Seq(Nat)
      BY <3>1, <3>2, AppendProperties
    <3> QED  BY <1>5, <3>1, <3>2, <3>3 DEF TypeOK, MergeAction, ReceiverThread
  <2>3. TypeOK'
    BY <2>1, <2>2 DEF TypeOK
  <2>4. Carried'
    BY <1>5, <2>1
       DEF TypeOK, Carried, MergeAction, ControlThread, ReceiverThread, SendHandler,
           GetHandler
  <2> QED  BY <2>3, <2>4
<1>6. CASE SwapQueue
  <2>1. UNCHANGED <<latestAction, mustGo, chunkSize, control, obsQueue, predicted,
                    lastObs, sending, getting>>
    BY <1>6 DEF SwapQueue, client, server
  <2>2. actionQueue' \in Seq(Nat)
    BY <1>6 DEF TypeOK, SwapQueue, ReceiverThread
  <2>3. receiver' \in ReceiverThread
    BY <1>6 DEF TypeOK, Carried, SwapQueue, ReceiverThread
  <2>4. TypeOK'
    BY <2>1, <2>2, <2>3 DEF TypeOK
  <2>5. Carried'
    BY <1>6, <2>1
       DEF TypeOK, Carried, SwapQueue, ControlThread, ReceiverThread, SendHandler,
           GetHandler
  <2> QED  BY <2>4, <2>5
<1>7. CASE SetMustGo
  <2>1. UNCHANGED <<actionQueue, latestAction, chunkSize, control, obsQueue, predicted,
                    lastObs, sending, getting>>
    BY <1>7 DEF SetMustGo, client, server
  <2>2. mustGo' \in BOOLEAN
    BY <1>7 DEF TypeOK, Carried, SetMustGo
  <2>3. receiver' \in ReceiverThread
    BY <1>7 DEF TypeOK, Carried, SetMustGo, ReceiverThread
  <2>4. TypeOK'
    BY <2>1, <2>2, <2>3 DEF TypeOK
  <2>5. Carried'
    BY <1>7, <2>1
       DEF TypeOK, Carried, SetMustGo, ControlThread, ReceiverThread, SendHandler,
           GetHandler
  <2> QED  BY <2>4, <2>5
<1> QED  BY <1>1, <1>2, <1>3, <1>4, <1>5, <1>6, <1>7 DEF Receiver

LEMMA SendObservationsType == TypeOK /\ Carried /\ SendObservations => TypeOK' /\ Carried'
<1> SUFFICES ASSUME TypeOK, Carried, SendObservations PROVE TypeOK' /\ Carried'
  OBVIOUS
<1>1. CASE CheckObservation
  <2>1. UNCHANGED <<actionQueue, latestAction, mustGo, chunkSize, receiver, obsQueue,
                    predicted, lastObs, getting>>
    BY <1>1 DEF CheckObservation, AnswerSend, client, server
  <2>2. control' \in ControlThread
    BY <1>1 DEF TypeOK, Carried, CheckObservation, AnswerSend, ControlThread
  <2>3. sending' \in SendHandler
    BY <1>1 DEF TypeOK, Carried, CheckObservation, AnswerSend, SendHandler
  <2>4. TypeOK'
    BY <2>1, <2>2, <2>3 DEF TypeOK
  <2>5. Carried'
    <3>1. /\ sending.obs \in Observation /\ control.obs \in Observation
          /\ \/ sending'.pc = "full?" /\ sending'.obs = sending.obs /\ control' = control
             \/ sending'.pc = "idle" /\ control'.pc = "sent" /\ control'.obs = control.obs
      BY <1>1 DEF TypeOK, Carried, CheckObservation, AnswerSend, ControlThread, SendHandler
    <3> QED  BY <1>1, <2>1, <3>1 DEF Carried, CheckObservation
  <2> QED  BY <2>4, <2>5
<1>2. CASE QueueFull
  <2>1. UNCHANGED <<actionQueue, latestAction, mustGo, chunkSize, control, receiver,
                    obsQueue, predicted, lastObs, getting>>
    BY <1>2 DEF QueueFull, client, server
  <2>2. sending' \in SendHandler
    BY <1>2 DEF TypeOK, Carried, QueueFull, SendHandler
  <2>3. TypeOK'
    BY <2>1, <2>2 DEF TypeOK
  <2>4. Carried'
    BY <1>2, <2>1
       DEF TypeOK, Carried, QueueFull, ControlThread, ReceiverThread, SendHandler,
           GetHandler
  <2> QED  BY <2>3, <2>4
<1>3. CASE EvictOldest
  <2>1. UNCHANGED <<actionQueue, latestAction, mustGo, chunkSize, receiver, predicted,
                    lastObs, getting>>
    BY <1>3 DEF EvictOldest, AnswerSend, client, server
  <2>2. control' \in ControlThread
    BY <1>3 DEF TypeOK, Carried, EvictOldest, AnswerSend, ControlThread
  <2>3. obsQueue' \in Seq(Observation) /\ Len(obsQueue') <= 1
    <3>1. obsQueue' = obsQueue \/ obsQueue' = <<>>
      BY <1>3 DEF EvictOldest
    <3>2. obsQueue \in Seq(Observation) /\ Len(obsQueue) <= 1
      BY DEF TypeOK
    <3>3. <<>> \in Seq(Observation)
      BY EmptySeq, Zenon
    <3>4. Len(<<>>) <= 1
      OBVIOUS
    <3> QED  BY <3>1, <3>2, <3>3, <3>4, Zenon
  <2>4. sending' \in SendHandler
    BY <1>3 DEF TypeOK, Carried, EvictOldest, AnswerSend, SendHandler
  <2>5. TypeOK'
    BY <2>1, <2>2, <2>3, <2>4 DEF TypeOK
  <2>6. Carried'
    <3>1. /\ sending.obs \in Observation /\ control.obs \in Observation
          /\ \/ sending'.pc = "put" /\ sending'.obs = sending.obs /\ control' = control
             \/ sending'.pc = "idle" /\ control'.pc = "sent" /\ control'.obs = control.obs
      BY <1>3 DEF TypeOK, Carried, EvictOldest, AnswerSend, ControlThread, SendHandler
    <3> QED  BY <1>3, <2>1, <3>1 DEF Carried, EvictOldest
  <2> QED  BY <2>5, <2>6
<1>4. CASE PutObservation
  <2>1. UNCHANGED <<actionQueue, latestAction, mustGo, chunkSize, receiver, predicted,
                    lastObs, getting>>
    BY <1>4 DEF PutObservation, AnswerSend, client, server
  <2>2. control' \in ControlThread
    BY <1>4 DEF TypeOK, Carried, PutObservation, AnswerSend, ControlThread
  <2>3. obsQueue' \in Seq(Observation) /\ Len(obsQueue') <= 1
    BY <1>4 DEF TypeOK, Carried, PutObservation, AnswerSend
  <2>4. sending' \in SendHandler
    BY <1>4 DEF TypeOK, Carried, PutObservation, AnswerSend, SendHandler
  <2>5. TypeOK'
    BY <2>1, <2>2, <2>3, <2>4 DEF TypeOK
  <2>6. Carried'
    BY <1>4, <2>1
       DEF TypeOK, Carried, PutObservation, AnswerSend, ControlThread, ReceiverThread,
           SendHandler, GetHandler
  <2> QED  BY <2>5, <2>6
<1> QED  BY <1>1, <1>2, <1>3, <1>4 DEF SendObservations

LEMMA GetActionsType == TypeOK /\ Carried /\ GetActions => TypeOK' /\ Carried'
<1> SUFFICES ASSUME TypeOK, Carried, GetActions PROVE TypeOK' /\ Carried'
  OBVIOUS
<1>1. CASE TakeObservation
  <2>1. UNCHANGED <<actionQueue, latestAction, mustGo, chunkSize, control, receiver,
                    predicted, lastObs, sending>>
    BY <1>1 DEF TakeObservation, client, server
  <2>2. obsQueue' \in Seq(Observation) /\ Len(obsQueue') <= 1
    BY <1>1 DEF TypeOK, Carried, TakeObservation
  <2>3. getting' \in GetHandler
    BY <1>1 DEF TypeOK, Carried, TakeObservation, GetHandler
  <2>4. TypeOK'
    BY <2>1, <2>2, <2>3 DEF TypeOK
  <2>5. Carried'
    BY <1>1, <2>1
       DEF TypeOK, Carried, TakeObservation, ControlThread, ReceiverThread, SendHandler,
           GetHandler
  <2> QED  BY <2>4, <2>5
<1>2. CASE TimeoutObservation
  <2>1. UNCHANGED <<actionQueue, latestAction, mustGo, chunkSize, control, obsQueue,
                    predicted, lastObs, sending>>
    BY <1>2 DEF TimeoutObservation, AnswerEmpty, client, server
  <2>2. receiver' \in ReceiverThread
    BY <1>2 DEF TypeOK, Carried, TimeoutObservation, AnswerEmpty, ReceiverThread
  <2>3. getting' \in GetHandler
    BY <1>2 DEF TypeOK, Carried, TimeoutObservation, AnswerEmpty, GetHandler
  <2>4. TypeOK'
    BY <2>1, <2>2, <2>3 DEF TypeOK
  <2>5. Carried'
    BY <1>2, <2>1
       DEF TypeOK, Carried, TimeoutObservation, AnswerEmpty, ControlThread,
           ReceiverThread, SendHandler, GetHandler
  <2> QED  BY <2>4, <2>5
<1>3. CASE MarkPredicted
  <2>1. UNCHANGED <<actionQueue, latestAction, mustGo, chunkSize, control, receiver,
                    obsQueue, lastObs, sending>>
    BY <1>3 DEF MarkPredicted, client, server
  <2>2. predicted' \subseteq Nat
    BY <1>3 DEF TypeOK, Carried, MarkPredicted, Observation
  <2>3. getting' \in GetHandler
    BY <1>3 DEF TypeOK, Carried, MarkPredicted, Observation, GetHandler
  <2>4. TypeOK'
    BY <2>1, <2>2, <2>3 DEF TypeOK
  <2>5. Carried'
    BY <1>3, <2>1
       DEF TypeOK, Carried, MarkPredicted, Observation, ControlThread, ReceiverThread,
           SendHandler, GetHandler
  <2> QED  BY <2>4, <2>5
<1>4. CASE PrepareObservation
  <2>1. UNCHANGED <<actionQueue, latestAction, mustGo, chunkSize, control, receiver,
                    obsQueue, predicted, sending>>
    BY <1>4 DEF PrepareObservation, client, server
  <2>2. lastObs' \in Observation \cup {None}
    BY <1>4 DEF TypeOK, Carried, PrepareObservation
  <2>3. getting' \in GetHandler
    BY <1>4 DEF TypeOK, Carried, PrepareObservation, GetHandler
  <2>4. TypeOK'
    BY <2>1, <2>2, <2>3 DEF TypeOK
  <2>5. Carried'
    BY <1>4, <2>1
       DEF TypeOK, Carried, PrepareObservation, ControlThread, ReceiverThread,
           SendHandler, GetHandler
  <2> QED  BY <2>4, <2>5
<1>5. CASE InferChunk
  <2>1. UNCHANGED <<actionQueue, latestAction, mustGo, chunkSize, control, obsQueue,
                    predicted, lastObs, sending>>
    BY <1>5 DEF InferChunk, client, server
  <2>2. receiver' \in ReceiverThread
    BY <1>5, ChunkType DEF TypeOK, Carried, InferChunk, ReceiverThread
  <2>3. getting' \in GetHandler
    BY <1>5, ChunkType DEF TypeOK, Carried, InferChunk, GetHandler
  <2>4. TypeOK'
    BY <2>1, <2>2, <2>3 DEF TypeOK
  <2>5. Carried'
    <3>1. getting'.pc = "idle" /\ receiver'.incoming = TimedActions(getting.obs)
      BY <1>5 DEF TypeOK, InferChunk, ReceiverThread
    <3>2. getting.obs \in Observation
      BY <1>5 DEF Carried, InferChunk
    <3>3. Len(receiver'.incoming) = ActionsPerChunk
      BY <3>1, <3>2, ChunkType
    <3> QED  BY <2>1, <3>1, <3>3 DEF Carried
  <2> QED  BY <2>4, <2>5
<1>6. CASE FailGetActions
  <2>1. UNCHANGED <<actionQueue, latestAction, mustGo, chunkSize, control, obsQueue,
                    predicted, lastObs, sending>>
    BY <1>6 DEF FailGetActions, AnswerEmpty, client, server
  <2>2. receiver' \in ReceiverThread
    BY <1>6 DEF TypeOK, Carried, FailGetActions, AnswerEmpty, ReceiverThread
  <2>3. getting' \in GetHandler
    BY <1>6 DEF TypeOK, Carried, FailGetActions, AnswerEmpty, GetHandler
  <2>4. TypeOK'
    BY <2>1, <2>2, <2>3 DEF TypeOK
  <2>5. Carried'
    BY <1>6, <2>1
       DEF TypeOK, Carried, FailGetActions, AnswerEmpty, ControlThread, ReceiverThread,
           SendHandler, GetHandler
  <2> QED  BY <2>4, <2>5
<1> QED  BY <1>1, <1>2, <1>3, <1>4, <1>5, <1>6 DEF GetActions

-----------------------------------------------------------------------------
(* Order.                                                                  *)

\* Most steps touch neither the queue nor the chunk.
ChunkUntouched ==
  /\ actionQueue' = actionQueue
  /\ receiver'.incoming = receiver.incoming /\ receiver'.future = receiver.future
  /\ receiver'.pc = "merge" => receiver.pc = "merge"
  /\ receiver'.pc \in {"received", "snapshot", "iterate"}
       => receiver.pc \in {"received", "snapshot", "iterate"}

LEMMA Untouched ==
  ASSUME TypeOK, Next
  PROVE  ChunkUntouched \/ GetAction \/ IterateQueue \/ MergeAction \/ SwapQueue \/ InferChunk
<1> USE DEF ChunkUntouched, TypeOK, ReceiverThread, client, server
<1>1. CASE Control
  BY <1>1 DEF Control, ControlStop, ActionsAvailable, PerformAction, ReadyToSendObservation,
              CaptureObservation, SendObservation, ClearMustGo
<1>2. CASE Receiver
  BY <1>2 DEF Receiver, CallGetActions, UpdateChunkSize, SnapshotQueue, SetMustGo
<1>3. CASE SendObservations
  BY <1>3 DEF SendObservations, CheckObservation, QueueFull, EvictOldest, PutObservation,
              AnswerSend
<1>4. CASE GetActions
  BY <1>4 DEF GetActions, TakeObservation, TimeoutObservation, MarkPredicted,
              PrepareObservation, FailGetActions, AnswerEmpty
<1> QED  BY <1>1, <1>2, <1>3, <1>4 DEF Next

LEMMA ChunkInv ==
  ASSUME IInv, Next
  PROVE  IncomingIsChunk' /\ FutureAscends' /\ QueueAscending'
<1> USE DEF IncomingIsChunk, FutureAscends, QueueAscending
<1>t. TypeOK /\ Carried /\ IncomingIsChunk /\ FutureAscends /\ QueueAscending
  BY DEF IInv
<1>1. CASE ChunkUntouched
  BY <1>1, <1>t DEF ChunkUntouched
<1>2. CASE GetAction
  <2>1. /\ receiver'.incoming = receiver.incoming /\ receiver'.future = receiver.future
        /\ receiver'.pc = receiver.pc
    BY <1>2, <1>t DEF GetAction, TypeOK, ReceiverThread
  <2>2. QueueAscending'
    <3>1. CASE actionQueue = <<>>
      BY <1>2, <1>t, <3>1 DEF GetAction
    <3>2. CASE actionQueue # <<>>
      <4>1. /\ Len(actionQueue') = Len(actionQueue) - 1 /\ Len(actionQueue) \in Nat
            /\ \A i \in 1..Len(actionQueue') : actionQueue'[i] = actionQueue[i + 1]
        BY <1>2, <1>t, <3>2, HeadTailProperties DEF GetAction, TypeOK
      <4> QED  BY <1>t, <4>1
    <3> QED  BY <3>1, <3>2
  <2> QED  BY <1>t, <2>1, <2>2
<1>3. CASE IterateQueue
  <2>1. /\ actionQueue' = actionQueue /\ receiver'.incoming = receiver.incoming
        /\ receiver'.pc = "merge" => receiver'.future = <<>>
    BY <1>3, <1>t DEF IterateQueue, TypeOK, ReceiverThread, client
  <2> QED  BY <1>t, <2>1
<1>4. CASE MergeAction
  <2> DEFINE in == receiver.incoming
             fut == receiver.future
             new == Head(in)
  <2>1. /\ in \in Seq(Nat) /\ in # <<>> /\ fut \in Seq(Nat) /\ new = in[1] /\ new \in Nat
        /\ Len(in) \in Nat \ {0} /\ Len(fut) \in Nat
    BY <1>4, <1>t DEF MergeAction, TypeOK, ReceiverThread
  <2>2. /\ Len(receiver'.incoming) = Len(in) - 1
        /\ \A i \in 1..Len(in) - 1 : receiver'.incoming[i] = in[i + 1]
    <3>1. receiver'.incoming = Tail(in)
      BY <1>4, <1>t DEF MergeAction, TypeOK, ReceiverThread
    <3> QED  BY <2>1, <3>1, HeadTailProperties
  <2>3. \A i \in 1..Len(in) : in[i] = in[1] + i - 1
    BY <1>t
  <2>4. actionQueue' = actionQueue /\ receiver'.pc = "merge" /\ receiver.pc = "merge"
    BY <1>4, <1>t DEF MergeAction, TypeOK, ReceiverThread, client
  <2>5. \/ receiver'.future = fut
        \/ /\ Len(receiver'.future) = Len(fut) + 1
           /\ \A i \in 1..Len(fut) : receiver'.future[i] = fut[i]
           /\ receiver'.future[Len(fut) + 1] = new
    <3>1. receiver'.future = fut \/ receiver'.future = Append(fut, new)
      BY <1>4, <1>t DEF MergeAction, TypeOK, ReceiverThread
    <3> HIDE DEF fut, new
    <3>2. CASE receiver'.future = Append(fut, new)
      BY <2>1, <3>2, AppendProperties
    <3> QED  BY <3>1, <3>2
  <2>6. /\ \A i \in 1..Len(fut) - 1 : fut[i] < fut[i + 1]
        /\ fut # <<>> => fut[Len(fut)] < new
        /\ \A i \in 1..Len(fut) : fut[i] \in Nat
    BY <1>t, <2>1, <2>4
  <2> HIDE DEF in, fut, new
  <2>7. IncomingIsChunk'
    <3> SUFFICES ASSUME NEW i \in 1..Len(receiver'.incoming)
                 PROVE  receiver'.incoming[i] = receiver'.incoming[1] + i - 1
      OBVIOUS
    <3>1. /\ i \in 1..Len(in) - 1 /\ 1 \in 1..Len(in) - 1
          /\ i + 1 \in 1..Len(in) /\ 2 \in 1..Len(in)
      BY <2>1, <2>2
    <3>2. receiver'.incoming[i] = in[i + 1] /\ receiver'.incoming[1] = in[2]
      BY <2>2, <3>1
    <3>3. in[i + 1] = in[1] + i /\ in[2] = in[1] + 1
      BY <2>1, <2>3, <3>1
    <3> QED  BY <2>1, <3>2, <3>3
  <2>8. FutureAscends'
    <3>1. receiver'.incoming # <<>> => receiver'.incoming[1] = new + 1
      <4>1. receiver'.incoming \in Seq(Nat)
        BY <1>4, <1>t, HeadTailProperties DEF MergeAction, TypeOK, ReceiverThread
      <4>2. receiver'.incoming # <<>> => Len(receiver'.incoming) >= 1
        BY <4>1
      <4>3. receiver'.incoming # <<>> => 1 \in 1..Len(in) - 1 /\ 2 \in 1..Len(in)
        BY <2>1, <2>2, <4>2
      <4> QED  BY <2>1, <2>2, <2>3, <4>3
    <3>2. CASE receiver'.future = fut
      BY <2>1, <2>4, <2>6, <3>1, <3>2 DEF fut
    <3>3. CASE receiver'.future # fut
      <4>1. /\ Len(receiver'.future) = Len(fut) + 1
            /\ \A i \in 1..Len(fut) : receiver'.future[i] = fut[i]
            /\ receiver'.future[Len(fut) + 1] = new
        BY <2>5, <3>3
      <4>2. Len(fut) # 0 => fut # <<>>
        OBVIOUS
      <4>3. \A i \in 1..Len(receiver'.future) - 1 : receiver'.future[i] < receiver'.future[i + 1]
        <5> SUFFICES ASSUME NEW i \in 1..Len(receiver'.future) - 1
                     PROVE  receiver'.future[i] < receiver'.future[i + 1]
          OBVIOUS
        <5>1. CASE i = Len(fut)
          BY <2>1, <2>6, <4>1, <4>2, <5>1
        <5>2. CASE i # Len(fut)
          <6>1. i \in 1..Len(fut) - 1 /\ i + 1 \in 1..Len(fut) /\ i \in 1..Len(fut)
            BY <2>1, <4>1, <5>2
          <6> QED  BY <2>6, <4>1, <6>1
        <5> QED  BY <5>1, <5>2
      <4> QED  BY <2>1, <3>1, <4>1, <4>3
    <3> QED  BY <3>2, <3>3
  <2> QED  BY <1>t, <2>4, <2>7, <2>8
<1>5. CASE SwapQueue
  <2>1. /\ actionQueue' = receiver.future /\ receiver.pc = "merge"
        /\ receiver'.pc # "merge" /\ receiver'.incoming = receiver.incoming
    BY <1>5, <1>t DEF SwapQueue, TypeOK, ReceiverThread
  <2> QED  BY <1>t, <2>1
<1>6. CASE InferChunk
  <2>1. /\ actionQueue' = actionQueue /\ receiver'.pc # "merge"
        /\ receiver'.incoming = TimedActions(getting.obs) /\ getting.obs \in Observation
    BY <1>6, <1>t DEF InferChunk, TypeOK, Carried, ReceiverThread, client
  <2>2. getting.obs.timestep \in Nat /\ 1 \in 1..ActionsPerChunk
    BY <2>1, AsyncAssumption DEF Observation
  <2>3. IncomingIsChunk'
    BY <2>1, <2>2, ChunkType
  <2> QED  BY <1>t, <2>1, <2>3
<1> QED  BY <1>1, <1>2, <1>3, <1>4, <1>5, <1>6, <1>t, Untouched

\* Only PutObservation fills the queue, and only SendObservations empties it for that.
LEMMA PutInv ==
  ASSUME IInv, Next
  PROVE  PutNeverBlocks'
<1> USE DEF PutNeverBlocks, client, server
<1>t. TypeOK /\ PutNeverBlocks
  BY DEF IInv
<1>1. CASE Control
  <2>1. obsQueue' = obsQueue /\ (sending'.pc = "put" => sending.pc = "put")
    <3>1. CASE SendObservation
      BY <3>1 DEF SendObservation
    <3> QED  BY <1>1, <3>1 DEF Control, ControlStop, ActionsAvailable, GetAction,
       PerformAction, ReadyToSendObservation, CaptureObservation, ClearMustGo
  <2> QED  BY <1>t, <2>1
<1>2. CASE Receiver
  BY <1>2, <1>t DEF Receiver, CallGetActions, UpdateChunkSize, SnapshotQueue, IterateQueue,
     MergeAction, SwapQueue, SetMustGo
<1>3. CASE SendObservations
  BY <1>3, <1>t DEF SendObservations, CheckObservation, QueueFull, EvictOldest,
     PutObservation, AnswerSend, TypeOK, SendHandler
<1>4. CASE GetActions
  BY <1>4, <1>t DEF GetActions, TakeObservation, TimeoutObservation, MarkPredicted,
     PrepareObservation, InferChunk, FailGetActions, AnswerEmpty
<1> QED  BY <1>1, <1>2, <1>3, <1>4 DEF Next

LEMMA NextInv == IInv /\ [Next]_vars => IInv'
<1>1. CASE UNCHANGED vars
  BY <1>1 DEF vars, client, server, IInv, TypeOK, Carried, IncomingIsChunk, FutureAscends,
     QueueAscending, PutNeverBlocks
<1>2. ASSUME IInv, Next PROVE IInv'
  <2>1. TypeOK' /\ Carried'
    BY <1>2, ControlType, ReceiverType, SendObservationsType, GetActionsType DEF Next, IInv
  <2> QED  BY <1>2, <2>1, ChunkInv, PutInv DEF IInv
<1> QED  BY <1>1, <1>2

\* The invariant holds in every state, with any failures and any races.
LEMMA Invariance == Spec => []IInv
<1> QED  BY InitInv, NextInv, PTL DEF Spec

-----------------------------------------------------------------------------
(* Continuity without merge races.                                         *)

\* latest_action changes only when the action that was taken is performed.
LEMMA LatestStep ==
  ASSUME IInv, QueueContinues, Next
  PROVE  \/ latestAction' = latestAction
         \/ PerformAction /\ latestAction' = latestAction + 1
<1> USE DEF client, server
<1>1. CASE PerformAction
  BY <1>1 DEF PerformAction, QueueContinues
<1>2. CASE Control /\ ~PerformAction
  BY <1>2 DEF Control, ControlStop, ActionsAvailable, GetAction, ReadyToSendObservation,
              CaptureObservation, SendObservation, ClearMustGo
<1>3. CASE Receiver
  BY <1>3 DEF Receiver, CallGetActions, UpdateChunkSize, SnapshotQueue, IterateQueue,
              MergeAction, SwapQueue, SetMustGo
<1>4. CASE SendObservations
  BY <1>4 DEF SendObservations, CheckObservation, QueueFull, EvictOldest, PutObservation
<1>5. CASE GetActions
  BY <1>5 DEF GetActions, TakeObservation, TimeoutObservation, MarkPredicted,
              PrepareObservation, InferChunk, FailGetActions
<1> QED  BY <1>1, <1>2, <1>3, <1>4, <1>5 DEF Next

LEMMA ControlSteps ==
  ASSUME TypeOK, Carried, Next
  PROVE  \/ GetAction \/ PerformAction
         \/ control'.pc # "perform" /\ control.pc # "perform"
         \/ control'.pc = control.pc /\ control'.action = control.action
<1> USE DEF TypeOK, ControlThread, client, server
<1>1. CASE Control
  BY <1>1 DEF Control, ControlStop, ActionsAvailable, ReadyToSendObservation,
              CaptureObservation, SendObservation, ClearMustGo
<1>2. CASE Receiver
  BY <1>2 DEF Receiver, CallGetActions, UpdateChunkSize, SnapshotQueue, IterateQueue,
              MergeAction, SwapQueue, SetMustGo
<1>3. CASE SendObservations
  <2>1. \/ control' = control
        \/ control' = [control EXCEPT !.pc = "sent"] /\ sending.pc # "idle"
    BY <1>3 DEF SendObservations, CheckObservation, QueueFull, EvictOldest, PutObservation,
                AnswerSend
  <2> QED  BY <2>1 DEF Carried
<1>4. CASE GetActions
  BY <1>4 DEF GetActions, TakeObservation, TimeoutObservation, MarkPredicted,
              PrepareObservation, InferChunk, FailGetActions
<1> QED  BY <1>1, <1>2, <1>3, <1>4 DEF Next

LEMMA QueueStep ==
  ASSUME IInv, OInv, ~MergeRace, Next
  PROVE  QueueContinues'
<1> USE DEF QueueContinues, Taken
<1>t. TypeOK /\ Carried /\ QueueContinues /\ latestAction \in Int
  BY DEF IInv, TypeOK, OInv
<1>1. CASE GetAction
  <2>1. CASE actionQueue = <<>>
    BY <1>1, <1>t, <2>1 DEF GetAction, TypeOK, ControlThread
  <2>2. CASE actionQueue # <<>>
    <3>1. /\ control.pc = "get" /\ control'.pc = "perform" /\ control'.action = Head(actionQueue)
          /\ actionQueue' = Tail(actionQueue) /\ latestAction' = latestAction
      BY <1>1, <1>t, <2>2 DEF GetAction, TypeOK, ControlThread
    <3>2. /\ Len(actionQueue) \in Nat \ {0} /\ Len(actionQueue') = Len(actionQueue) - 1
          /\ Head(actionQueue) = actionQueue[1]
          /\ \A i \in 1..Len(actionQueue') : actionQueue'[i] = actionQueue[i + 1]
      BY <1>t, <2>2, <3>1, HeadTailProperties DEF TypeOK
    <3>3. control'.action = latestAction + 1
      BY <1>t, <3>1, <3>2
    <3>4. \A i \in 1..Len(actionQueue') : actionQueue[i + 1] = latestAction + i + 1
      BY <1>t, <3>1, <3>2
    <3>5. \A i \in 1..Len(actionQueue') : actionQueue'[i] = control'.action + i
      BY <1>t, <3>2, <3>3, <3>4
    <3> QED  BY <3>1, <3>3, <3>5
  <2> QED  BY <2>1, <2>2
<1>2. CASE PerformAction
  <2>1. /\ control.pc = "perform" /\ control'.pc = "ready?"
        /\ latestAction' = control.action /\ actionQueue' = actionQueue
    BY <1>2, <1>t DEF PerformAction, TypeOK, ControlThread
  <2> QED  BY <1>t, <2>1
<1>3. CASE SwapQueue
  <2>1. /\ receiver.pc = "merge" /\ actionQueue' = receiver.future
        /\ control' = control /\ latestAction' = latestAction
    BY <1>3 DEF SwapQueue, client
  <2>2. control.pc # "perform"
    BY <2>1 DEF MergeRace
  <2> QED  BY <2>1, <2>2 DEF OInv, ChunkContinues
<1>4. CASE ~(GetAction \/ PerformAction \/ SwapQueue)
  <2>1. latestAction' = latestAction
    BY <1>4, <1>t, LatestStep
  <2>2. actionQueue' = actionQueue
    BY <1>4, <1>t, Untouched
       DEF ChunkUntouched, IterateQueue, MergeAction, InferChunk, client
  <2>3. \/ control'.pc # "perform" /\ control.pc # "perform"
        \/ control'.pc = control.pc /\ control'.action = control.action
    BY <1>4, <1>t, ControlSteps
  <2> QED  BY <1>t, <2>1, <2>2, <2>3
<1> QED  BY <1>1, <1>2, <1>3, <1>4

LEMMA ChunkStep ==
  ASSUME IInv, OInv, ~MergeRace, Next
  PROVE  ChunkContinues'
<1>s. TypeOK /\ Carried /\ IncomingIsChunk /\ QueueContinues /\ ChunkContinues
  BY DEF IInv, OInv
<1>i. latestAction \in Int
  BY <1>s DEF TypeOK
<1>t. /\ TypeOK /\ Carried /\ IncomingIsChunk /\ QueueContinues /\ ChunkContinues
      /\ latestAction \in Int /\ latestAction' \in Int
  BY <1>s, <1>i, LatestStep
<1> USE DEF ChunkContinues
<1>1. CASE PerformAction
  <2>1. receiver' = receiver /\ latestAction' = latestAction + 1 /\ control.pc = "perform"
    BY <1>1, <1>t DEF PerformAction, QueueContinues
  <2>2. receiver.pc \notin {"iterate", "merge", "swapped"}
    BY <2>1 DEF MergeRace
  <2>3. \A i \in 1..Len(receiver.incoming) : receiver.incoming[i] \in Nat
    BY <1>t, ElementOfSeq DEF TypeOK, ReceiverThread
  <2>4. receiver.pc \in {"received", "snapshot", "iterate"} =>
          \A i \in 1..Len(receiver.incoming) : receiver.incoming[i] <= latestAction + 1 + i
    BY <1>t, <2>3
  <2> QED  BY <2>1, <2>2, <2>4
<1>2. CASE GetAction
  <2>1. /\ receiver'.incoming = receiver.incoming /\ receiver'.future = receiver.future
        /\ receiver'.pc = receiver.pc /\ latestAction' = latestAction
    BY <1>2, <1>t DEF GetAction, TypeOK, ReceiverThread
  <2> QED  BY <1>t, <2>1
<1>3. CASE IterateQueue
  <2>1. /\ receiver'.incoming = receiver.incoming /\ receiver.pc = "iterate"
        /\ receiver'.pc \in {"merge", "dead"} /\ latestAction' = latestAction
        /\ receiver'.pc = "merge" => receiver'.future = <<>>
    BY <1>3, <1>t DEF IterateQueue, TypeOK, ReceiverThread, client
  <2> QED  BY <1>t, <2>1
<1>4. CASE MergeAction
  <2> DEFINE in == receiver.incoming
             fut == receiver.future
             new == Head(in)
  <2>1. /\ in \in Seq(Nat) /\ in # <<>> /\ fut \in Seq(Nat) /\ new = in[1] /\ new \in Nat
        /\ Len(in) \in Nat \ {0} /\ Len(fut) \in Nat /\ (fut = <<>> <=> Len(fut) = 0)
    BY <1>4, <1>t DEF MergeAction, TypeOK, ReceiverThread
  <2>2. /\ Len(receiver'.incoming) = Len(in) - 1
        /\ \A i \in 1..Len(in) - 1 : receiver'.incoming[i] = in[i + 1]
    <3>1. receiver'.incoming = Tail(in)
      BY <1>4, <1>t DEF MergeAction, TypeOK, ReceiverThread
    <3> QED  BY <2>1, <3>1, HeadTailProperties
  <2>3. \A i \in 1..Len(in) : in[i] = new + i - 1
    BY <1>t, <2>1 DEF IncomingIsChunk
  <2>4. /\ receiver'.pc = "merge" /\ receiver.pc = "merge" /\ latestAction' = latestAction
        /\ receiver'.future = IF new <= latestAction THEN fut ELSE Append(fut, new)
    BY <1>4, <1>t DEF MergeAction, Stale, TypeOK, ReceiverThread, client
  <2>5. /\ \A i \in 1..Len(fut) : fut[i] = latestAction + i
        /\ IF fut = <<>> THEN new <= latestAction + 1 ELSE new = latestAction + Len(fut) + 1
    BY <1>t, <2>1, <2>4
  <2> HIDE DEF in, fut, new
  <2>6. \A i \in 1..Len(receiver'.incoming) : receiver'.incoming[i] = new + i
    BY <2>1, <2>2, <2>3
  <2>7. CASE new <= latestAction
    <3>1. fut = <<>> /\ receiver'.future = fut
      BY <1>t, <2>1, <2>4, <2>5, <2>7
    <3> QED  BY <1>t, <2>1, <2>4, <2>6, <2>7, <3>1
  <2>8. CASE ~(new <= latestAction)
    <3>1. new = latestAction + Len(fut) + 1
      BY <1>t, <2>1, <2>5, <2>8
    <3>2. /\ receiver'.future # <<>> /\ Len(receiver'.future) = Len(fut) + 1
          /\ \A i \in 1..Len(fut) : receiver'.future[i] = fut[i]
          /\ receiver'.future[Len(fut) + 1] = new
      <4>1. receiver'.future = Append(fut, new)
        BY <2>4, <2>8
      <4> QED  BY <2>1, <4>1, AppendProperties
    <3>3. \A i \in 1..Len(receiver'.future) : receiver'.future[i] = latestAction + i
      <4> SUFFICES ASSUME NEW i \in 1..Len(receiver'.future)
                   PROVE  receiver'.future[i] = latestAction + i
        OBVIOUS
      <4>1. CASE i = Len(fut) + 1
        BY <1>t, <2>1, <3>1, <3>2, <4>1
      <4>2. CASE i # Len(fut) + 1
        BY <2>1, <2>5, <3>2, <4>2
      <4> QED  BY <4>1, <4>2
    <3>4. \A i \in 1..Len(receiver'.incoming) :
            receiver'.incoming[i] = latestAction + Len(receiver'.future) + i
      BY <1>t, <2>1, <2>6, <3>1, <3>2
    <3> QED  BY <2>4, <3>2, <3>3, <3>4
  <2> QED  BY <2>7, <2>8
<1>5. CASE SwapQueue
  BY <1>5, <1>t DEF SwapQueue, TypeOK, ReceiverThread
<1>6. CASE InferChunk
  <2>1. /\ latestAction' = latestAction /\ receiver'.pc = "received"
        /\ receiver'.incoming = TimedActions(getting.obs) /\ getting.obs \in Observation
        /\ getting.pc = "infer"
    BY <1>6, <1>t DEF InferChunk, TypeOK, Carried, ReceiverThread, client
  <2>2. getting.obs.timestep \in Nat /\ getting.obs.timestep <= latestAction + 1
    BY <2>1 DEF OInv, ObservationsKnown, Observation
  <2>3. \A i \in 1..Len(receiver'.incoming) : receiver'.incoming[i] <= latestAction + i
    BY SMTT(30), <1>t, <2>1, <2>2, ChunkType, AsyncAssumption
  <2> QED  BY <2>1, <2>3
<1>7. CASE ChunkUntouched /\ ~PerformAction
  <2>1. latestAction' = latestAction
    BY <1>7, <1>t, LatestStep
  <2> QED  BY <1>7, <1>t, <2>1 DEF ChunkUntouched
<1> QED  BY <1>1, <1>2, <1>3, <1>4, <1>5, <1>6, <1>7, <1>t, Untouched

\* An observation is captured of the latest timestep and then only passed on.
LEMMA ObservationsStep ==
  ASSUME IInv, OInv, Next
  PROVE  ObservationsKnown'
<1> DEFINE Known(obs) == obs.timestep <= latestAction + 1
           Later(obs) == obs.timestep <= latestAction' + 1
<1>t. /\ TypeOK /\ Carried /\ QueueContinues /\ ObservationsKnown
      /\ latestAction \in Int /\ latestAction' \in Int /\ latestAction <= latestAction'
  BY LatestStep DEF IInv, TypeOK, OInv
<1>k. \A obs \in Observation : Known(obs) => Later(obs)
  BY <1>t DEF Observation
<1>a. /\ control'.pc \in {"send", "sending", "sent"} => Later(control'.obs)
  <2>1. CASE CaptureObservation
    <3>1. control'.obs.timestep = ObservationTimestep /\ latestAction' = latestAction
      BY <2>1, <1>t DEF CaptureObservation, TypeOK, ControlThread, client
    <3> QED  BY <1>t, <3>1 DEF ObservationTimestep, TypeOK
  <2>2. CASE ~CaptureObservation
    <3>1. control'.pc \in {"send", "sending", "sent"} =>
            control.pc \in {"send", "sending", "sent"} /\ control'.obs = control.obs
      <4> USE DEF TypeOK, ControlThread, Carried, client, server
      <4>1. CASE Control
        BY <2>2, <4>1, <1>t
           DEF Control, ControlStop, ActionsAvailable, GetAction, PerformAction,
           ReadyToSendObservation, SendObservation, ClearMustGo
      <4>2. CASE Receiver
        BY <4>2 DEF Receiver, CallGetActions, UpdateChunkSize, SnapshotQueue, IterateQueue,
              MergeAction, SwapQueue, SetMustGo
      <4>3. CASE SendObservations
        <5>1. \/ control' = control
              \/ control' = [control EXCEPT !.pc = "sent"] /\ sending.pc # "idle"
          BY <4>3
             DEF SendObservations, CheckObservation, QueueFull, EvictOldest,
                 PutObservation,
                AnswerSend
        <5> QED  BY <1>t, <5>1
      <4>4. CASE GetActions
        BY <4>4 DEF GetActions, TakeObservation, TimeoutObservation, MarkPredicted,
              PrepareObservation, InferChunk, FailGetActions
      <4> QED  BY <4>1, <4>2, <4>3, <4>4 DEF Next
    <3> QED  BY <1>k, <1>t, <3>1 DEF Carried, ObservationsKnown
  <2> QED  BY <2>1, <2>2
<1>b. sending'.pc # "idle" => Later(sending'.obs)
  <2>1. CASE SendObservation
    <3>1. \/ sending' = sending
          \/ sending'.obs = control.obs /\ control.pc = "send"
      BY <2>1 DEF SendObservation
    <3> QED  BY <1>k, <1>t, <3>1 DEF Carried, ObservationsKnown
  <2>2. CASE ~SendObservation
    <3>1. sending'.pc # "idle" => sending.pc # "idle" /\ sending'.obs = sending.obs
      <4> USE DEF TypeOK, SendHandler, client, server
      <4>1. CASE Control
        BY <2>2, <4>1 DEF Control, ControlStop, ActionsAvailable, GetAction, PerformAction,
           ReadyToSendObservation, CaptureObservation, ClearMustGo
      <4>2. CASE Receiver
        BY <4>2 DEF Receiver, CallGetActions, UpdateChunkSize, SnapshotQueue, IterateQueue,
              MergeAction, SwapQueue, SetMustGo
      <4>3. CASE SendObservations
        BY <4>3, <1>t DEF SendObservations, CheckObservation, QueueFull, EvictOldest,
                PutObservation, AnswerSend
      <4>4. CASE GetActions
        BY <4>4 DEF GetActions, TakeObservation, TimeoutObservation, MarkPredicted,
              PrepareObservation, InferChunk, FailGetActions
      <4> QED  BY <4>1, <4>2, <4>3, <4>4 DEF Next
    <3> QED  BY <1>k, <1>t, <3>1 DEF Carried, ObservationsKnown
  <2> QED  BY <2>1, <2>2
<1>c. \A i \in 1..Len(obsQueue') : Later(obsQueue'[i])
  <2>1. CASE PutObservation
    <3>1. obsQueue' = <<sending.obs>> /\ sending.pc = "put"
      BY <2>1 DEF PutObservation
    <3>2. \A i \in 1..Len(obsQueue') : obsQueue'[i] = sending.obs
      BY <3>1
    <3> QED  BY <1>k, <1>t, <3>1, <3>2 DEF Carried, ObservationsKnown
  <2>2. CASE ~PutObservation
    <3>1. obsQueue' = obsQueue \/ obsQueue' = <<>> \/ TakeObservation
      <4> USE DEF client, server
      <4>1. CASE Control
        BY <4>1 DEF Control, ControlStop, ActionsAvailable, GetAction, PerformAction,
           ReadyToSendObservation, CaptureObservation, SendObservation, ClearMustGo
      <4>2. CASE Receiver
        BY <4>2 DEF Receiver, CallGetActions, UpdateChunkSize, SnapshotQueue, IterateQueue,
              MergeAction, SwapQueue, SetMustGo
      <4>3. CASE SendObservations
        BY <2>2, <4>3 DEF SendObservations, CheckObservation, QueueFull, EvictOldest
      <4>4. CASE GetActions
        BY <4>4 DEF GetActions, TimeoutObservation, MarkPredicted,
              PrepareObservation, InferChunk, FailGetActions
      <4> QED  BY <4>1, <4>2, <4>3, <4>4 DEF Next
    <3>2. CASE obsQueue' = obsQueue
      BY <1>k, <1>t, <3>2 DEF TypeOK, ObservationsKnown
    <3>3. CASE obsQueue' = <<>>
      BY <3>3
    <3>4. CASE TakeObservation
      <4>1. obsQueue \in Seq(Observation) /\ obsQueue # <<>> /\ obsQueue' = Tail(obsQueue)
            /\ Len(obsQueue) <= 1
        BY <1>t, <3>4 DEF TakeObservation, TypeOK
      <4> QED  BY <4>1, HeadTailProperties
    <3> QED  BY <3>1, <3>2, <3>3, <3>4
  <2> QED  BY <2>1, <2>2
<1>d. getting'.pc \in {"mark", "prepare", "infer"} => Later(getting'.obs)
  <2>1. CASE TakeObservation
    <3>1. obsQueue \in Seq(Observation) /\ obsQueue # <<>> /\ getting'.obs = Head(obsQueue)
      BY <1>t, <2>1 DEF TakeObservation, TypeOK
    <3>2. getting'.obs = obsQueue[1] /\ 1 \in 1..Len(obsQueue) /\ getting'.obs \in Observation
      BY <3>1
    <3> QED  BY <1>k, <1>t, <3>2 DEF ObservationsKnown
  <2>2. CASE ~TakeObservation
    <3>1. getting'.pc \in {"mark", "prepare", "infer"} =>
            getting.pc \in {"mark", "prepare", "infer"} /\ getting'.obs = getting.obs
      <4> USE DEF TypeOK, GetHandler, client, server
      <4>1. CASE Control
        BY <4>1 DEF Control, ControlStop, ActionsAvailable, GetAction, PerformAction,
           ReadyToSendObservation, CaptureObservation, SendObservation, ClearMustGo
      <4>2. CASE Receiver
        BY <4>2 DEF Receiver, CallGetActions, UpdateChunkSize, SnapshotQueue, IterateQueue,
              MergeAction, SwapQueue, SetMustGo
      <4>3. CASE SendObservations
        BY <4>3
           DEF SendObservations, CheckObservation, QueueFull, EvictOldest,
               PutObservation
      <4>4. CASE GetActions
        BY <2>2, <4>4, <1>t DEF GetActions, TimeoutObservation, MarkPredicted,
              PrepareObservation, InferChunk, FailGetActions, AnswerEmpty
      <4> QED  BY <4>1, <4>2, <4>3, <4>4 DEF Next
    <3> QED  BY <1>k, <1>t, <3>1 DEF Carried, ObservationsKnown
  <2> QED  BY <2>1, <2>2
<1> QED  BY <1>a, <1>b, <1>c, <1>d DEF ObservationsKnown

LEMMA OrderInit == Init => OInv
BY DEF Init, OInv, QueueContinues, Taken, ObservationsKnown, ChunkContinues

LEMMA OrderStep == IInv /\ OInv /\ ~MergeRace /\ [Next]_vars => OInv'
<1>1. CASE UNCHANGED vars
  BY <1>1 DEF vars, client, server, OInv, QueueContinues, Taken, ObservationsKnown,
              ChunkContinues
<1> QED  BY <1>1, QueueStep, ChunkStep, ObservationsStep DEF OInv

-----------------------------------------------------------------------------
(* The results.                                                            *)

\* Every variable keeps its type; the observation queue never outgrows its one
\* place, and a thread always holds what its place in the code needs.
THEOREM TypeCorrect == Spec => []TypeOK
<1>1. IInv => TypeOK
  BY DEF IInv
<1> QED  BY Invariance, <1>1, PTL

\* Whatever fails, is dropped or races: the actions in the robot's queue ascend.
THEOREM QueueStaysOrdered == Spec => []QueueAscending
<1>1. IInv => QueueAscending
  BY DEF IInv
<1> QED  BY Invariance, <1>1, PTL

\* The put of _enqueue_observation finds room, as its comment says, although
\* the check and the put are not one step.
THEOREM PutFindsRoom == Spec => []PutNeverBlocks
<1>1. IInv => PutNeverBlocks
  BY DEF IInv
<1> QED  BY Invariance, <1>1, PTL

\* A merge race is the only thing that can repeat or skip an action: without
\* one the robot performs the timesteps one after the other, for every chunk
\* size and threshold, and whatever calls fail.
THEOREM PerformedInOrder == Spec => PerformsInOrder
<1>1. OInv => (control.pc = "perform" => control.action = latestAction + 1)
  BY DEF OInv, QueueContinues
<1> QED  BY Invariance, OrderInit, OrderStep, <1>1, PTL DEF Spec, PerformsInOrder
=============================================================================
