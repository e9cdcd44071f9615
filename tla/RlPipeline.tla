----------------------------- MODULE RlPipeline -----------------------------
(***************************************************************************)
(* Reinforcement learning in two processes.  The actor sends the           *)
(* transitions of each episode and a report to the learner, the learner    *)
(* sends parameters back: three gRPC streams, each between two queues,     *)
(* that cut a message into parts and put it together again.  The learner   *)
(* keeps the transitions in a ring from which a thread prefetches samples. *)
(*                                                                         *)
(* A state is the number of its step; a part carries one transition.  A    *)
(* version of the parameters is the optimisation step it comes from.  The  *)
(* time between a part's sending and its arrival is left out: the streams  *)
(* are reliable until they break, and then they are not opened again.      *)
(***************************************************************************)
EXTENDS Integers, Sequences, SequencesExt, FiniteSets

CONSTANTS
  Capacity,       \* of the replay buffer
  LearnAfter,     \* online_step_before_learning
  SaveFreq,       \* save_freq
  ParameterParts, \* parts of a parameters message
  OnlineSteps,    \* online_steps: the actor's steps
  MaxOptimization, MaxNaNs, MaxFaults, \* bounds for TLC
  None

ASSUME RlAssumption ==
  /\ Capacity \in Nat \ {0, 1} /\ LearnAfter \in 2..Capacity
  /\ SaveFreq \in Nat \ {0} /\ ParameterParts \in Nat \ {0}
  /\ {OnlineSteps, MaxOptimization, MaxNaNs, MaxFaults} \subseteq Nat

Stream == {"transitions", "interactions", "parameters"}

VARIABLES
  actor,    \* act_with_policy: [step, episode, policy, item]; noted by an observer: pushed, nans
  shutdown, \* the shutdown_event of the actor's processes
  sendq,    \* a queue per stream, at its sender
  wire,     \* per stream: [remaining, draining, buffer, broken]
  recvq,    \* a queue per stream, at its receiver
  learner,  \* the learner's loop: [batch, half, step, saved]; noted: learned, latest
  ring,     \* ReplayBuffer: [states, rest, position, size]
  sample    \* ReplayBuffer.sample in the prefetching thread, for one of its indices:
            \* [pc, slot, state, next]; noted: raced

vars == <<actor, shutdown, sendq, wire, recvq, learner, ring, sample>>

Parameters(version) == [i \in 1..ParameterParts |-> version]

NoSample == [pc |-> "idle", slot |-> 0, state |-> None, next |-> None, raced |-> FALSE]

\* The learner has pushed its first parameters.
Init ==
  /\ actor = [step |-> 0, episode |-> <<>>, policy |-> 0, item |-> 0,
            pushed |-> 0, nans |-> {}]
  /\ shutdown = FALSE
  /\ sendq = [s \in Stream |-> IF s = "parameters" THEN <<Parameters(0)>> ELSE <<>>]
  /\ wire = [s \in Stream |-> [remaining |-> <<>>, draining |-> FALSE,
                          buffer |-> <<>>, broken |-> FALSE]]
  /\ recvq = [s \in Stream |-> <<>>]
  /\ learner = [batch |-> <<>>, half |-> FALSE, step |-> 0, saved |-> None,
                learned |-> 0, latest |-> None]
  /\ ring = [states |-> [i \in 0..Capacity - 1 |-> None],
             rest   |-> [i \in 0..Capacity - 1 |-> None],
             position |-> 0, size |-> 0]
  /\ sample = NoSample

-----------------------------------------------------------------------------
(* The actor.                                                              *)

Ended == actor.episode # <<>> /\ Last(actor.episode).last

\* One step of the environment within its episode.
ActStep ==
  /\ ~shutdown /\ ~Ended /\ actor.step < OnlineSteps
  /\ \E last, nan \in BOOLEAN :
       /\ nan => Cardinality(actor.nans) < MaxNaNs
       /\ LET t == [n |-> actor.step + 1, last |-> last, nan |-> nan]
          IN  actor' = [actor EXCEPT !.step = t.n, !.episode = Append(@, t),
                                     !.nans = IF nan THEN @ \cup {t.n} ELSE @]
  /\ UNCHANGED <<sendq, recvq>>

\* get_last_item_from_queue takes an item while qsize is not 0, beside the queue's
\* producer; the last one counts.  update_policy_parameters at the end of an episode:
\* the items that are there ...
TakeParameters ==
  /\ Ended /\ recvq["parameters"] # <<>>
  /\ actor' = [actor EXCEPT !.item = Head(recvq["parameters"])[1]]
  /\ recvq' = [recvq EXCEPT !["parameters"] = Tail(@)]
  /\ UNCHANGED sendq

\* ... and, when none is left, the last one is loaded (if there was none, item is
\* what the policy has); push_transitions_to_transport_queue and the report of the
\* episode follow.
EndEpisode ==
  /\ Ended /\ recvq["parameters"] = <<>>
  /\ actor' = [actor EXCEPT !.episode = <<>>, !.pushed = actor.step, !.policy = actor.item]
  /\ sendq' = [sendq EXCEPT !["transitions"]  = Append(@, actor.episode),
                            !["interactions"] = Append(@, <<actor.step - 1>>)]
  /\ UNCHANGED recvq

Act ==
  /\ ActStep \/ TakeParameters \/ EndEpisode
  /\ UNCHANGED <<shutdown, wire, learner, ring, sample>>

\* Broken streams and the shutdown together are bounded by MaxFaults.
Faults ==
  Cardinality({s \in Stream : wire[s].broken}) + (IF shutdown THEN 1 ELSE 0)

Shutdown ==
  /\ ~shutdown /\ Faults < MaxFaults
  /\ shutdown' = TRUE
  /\ UNCHANGED <<actor, sendq, wire, recvq, learner, ring, sample>>

-----------------------------------------------------------------------------
(* The streams.                                                            *)

\* Mutant: the first part begins a message even if it is the only one.
BeginFirst(i, length) ==
  IF i = 1 THEN "begin" ELSE IF i = length THEN "end" ELSE "middle"

TransferState(i, length) ==
  IF i = length THEN "end" ELSE IF i = 1 THEN "begin" ELSE "middle"

SendBytesInChunks(message) ==
  [i \in DOMAIN message |-> [state |-> TransferState(i, Len(message)), data |-> message[i]]]

\* Mutant: the buffer is not truncated behind a message.
BufferKept(buffer, part) == Append(IF part.state = "begin" THEN <<>> ELSE buffer, part.data)

\* The receiver's bytes_buffer after a part.
BufferAfter(buffer, part) ==
  CASE part.state = "begin"  -> <<part.data>>
    [] part.state = "middle" -> Append(buffer, part.data)
    [] part.state = "end"    -> <<>>

\* receive_bytes_in_chunks: the first of these parts arrives.
ReceivePart(s, parts) ==
  LET part == Head(parts)
  IN  /\ wire' = [wire EXCEPT ![s].remaining = Tail(parts), ![s].draining = FALSE,
                              ![s].buffer = BufferAfter(@, part)]
      /\ recvq' = IF part.state = "end"
                  THEN [recvq EXCEPT ![s] = Append(@, Append(wire[s].buffer, part.data))]
                  ELSE recvq

\* transitions_stream and interactions_stream take one message, until the shutdown.
TakeMessage(s) ==
  /\ s # "parameters"
  /\ ~wire[s].broken /\ wire[s].remaining = <<>> /\ sendq[s] # <<>> /\ ~shutdown
  /\ ReceivePart(s, SendBytesInChunks(Head(sendq[s])))
  /\ sendq' = [sendq EXCEPT ![s] = Tail(@)]
  /\ UNCHANGED <<actor, shutdown, learner, ring, sample>>

\* Mutant: the latest message is taken without a drain.
TakeNewest(s) ==
  /\ s = "parameters" /\ sendq[s] # <<>>
  /\ ~wire[s].broken /\ wire[s].remaining = <<>> /\ ~shutdown
  /\ wire' = [wire EXCEPT ![s].remaining = SendBytesInChunks(Last(sendq[s]))]
  /\ sendq' = [sendq EXCEPT ![s] = Front(@)]
  /\ UNCHANGED <<actor, shutdown, recvq, learner, ring, sample>>

\* StreamParameters takes a message, and a later one in its place while there is one.
TakeLatest(s) ==
  /\ s = "parameters" /\ sendq[s] # <<>>
  /\ \/ wire[s].draining
     \/ ~wire[s].broken /\ wire[s].remaining = <<>> /\ ~shutdown
  /\ wire' = [wire EXCEPT ![s].remaining = SendBytesInChunks(Head(sendq[s])),
                          ![s].draining = TRUE]
  /\ sendq' = [sendq EXCEPT ![s] = Tail(@)]
  /\ UNCHANGED <<actor, shutdown, recvq, learner, ring, sample>>

\* The drain ends with qsize at 0.  What the learner still sends arrives in spite of
\* a shutdown, but not at the actor.
TransferPart(s) ==
  /\ wire[s].remaining # <<>> /\ (wire[s].draining => sendq[s] = <<>>)
  /\ s = "parameters" => ~shutdown
  /\ ReceivePart(s, wire[s].remaining)
  /\ UNCHANGED <<actor, shutdown, sendq, learner, ring, sample>>

\* An RpcError ends the stream at both ends; the actor only logs it.
Break(s) ==
  /\ Faults < MaxFaults /\ ~wire[s].broken
  /\ wire' = [wire EXCEPT ![s] = [remaining |-> <<>>, draining |-> FALSE,
                                   buffer |-> <<>>, broken |-> TRUE]]
  /\ UNCHANGED <<actor, shutdown, sendq, recvq, learner, ring, sample>>

-----------------------------------------------------------------------------
(* The learner.                                                            *)

\* process_transitions: the next message, transition by transition.
ProcessTransitions ==
  /\ learner.batch = <<>> /\ recvq["transitions"] # <<>>
  /\ LET message == Head(recvq["transitions"])
     IN  learner' = [learner EXCEPT !.batch = message, !.learned = Last(message).n]
  /\ recvq' = [recvq EXCEPT !["transitions"] = Tail(@)]
  /\ UNCHANGED <<actor, shutdown, sendq, wire, ring, sample>>

\* Mutant: a transition with NaNs ends the batch.
NoneAfterNaN(batch) == <<>>

AfterNaN(batch) == Tail(batch)

\* A transition with NaNs is skipped.
SkipNaN ==
  /\ learner.batch # <<>> /\ Head(learner.batch).nan
  /\ learner' = [learner EXCEPT !.batch = AfterNaN(@)]
  /\ UNCHANGED <<actor, shutdown, sendq, wire, recvq, ring, sample>>

\* The slot whose state is the next state of a slot: with optimize_memory the next
\* states are not stored.
NextSlot(i) == (i + 1) % Capacity

Sampled(i) == sample.pc # "idle" /\ i \in {sample.slot, NextSlot(sample.slot)}

\* ReplayBuffer.add stores the state ... (The observer notes a write into what is
\* being sampled.)
AddState ==
  /\ learner.batch # <<>> /\ ~Head(learner.batch).nan /\ ~learner.half
  /\ ring' = [ring EXCEPT !.states[ring.position] = Head(learner.batch).n]
  /\ learner' = [learner EXCEPT !.half = TRUE]
  /\ sample' = [sample EXCEPT !.raced = @ \/ Sampled(ring.position)]
  /\ UNCHANGED <<actor, shutdown, sendq, wire, recvq>>

\* Mutant: the position is wrapped one slot late.
WrapLate(position) == (position + 1) % (Capacity + 1)

NextPosition(position) == (position + 1) % Capacity

\* ... and then the rest of the transition, and advances.
AddRest ==
  /\ learner.half
  /\ ring' = [ring EXCEPT
       !.rest[ring.position] = Head(learner.batch),
       !.position = NextPosition(@),
       !.size = IF @ < Capacity THEN @ + 1 ELSE @]
  /\ learner' = [learner EXCEPT !.half = FALSE, !.batch = Tail(@)]
  /\ UNCHANGED <<actor, shutdown, sendq, wire, recvq, sample>>

\* save_training_checkpoint, when it is time; the observer notes the latest report.
Checkpoint(step, message) ==
  IF step % SaveFreq = 0 \/ step = OnlineSteps
  THEN [interactionStep |-> IF message # None THEN message ELSE 0,
        latest |-> IF message # None THEN message
                   ELSE IF learner.latest # None THEN learner.latest ELSE 0]
  ELSE learner.saved

\* The rest of the loop once no transitions are left: the last of the new reports
\* and, if the ring is filled enough, an optimisation step, from time to time
\* followed by a push of the parameters and by a checkpoint.
Optimize(push) ==
  LET queue   == recvq["interactions"]
      message == IF queue = <<>> THEN None ELSE Last(queue)[1]
      trains  == ring.size >= LearnAfter
      step    == learner.step + 1
  IN  /\ learner.batch = <<>> /\ recvq["transitions"] = <<>>
      /\ trains => step <= MaxOptimization
      /\ trains \/ queue # <<>>
      /\ push => trains
      /\ learner' = [learner EXCEPT
           !.latest = IF message = None THEN @ ELSE message,
           !.step   = IF trains THEN step ELSE @,
           !.saved  = IF trains THEN Checkpoint(step, message) ELSE @]
      /\ recvq' = [recvq EXCEPT !["interactions"] = <<>>]
      /\ sendq' = IF push THEN [sendq EXCEPT !["parameters"] = Append(@, Parameters(step))]
                  ELSE sendq
      /\ UNCHANGED <<actor, shutdown, wire, ring, sample>>

Learn ==
  \/ ProcessTransitions \/ SkipNaN \/ AddState \/ AddRest
  \/ \E push \in BOOLEAN : Optimize(push)

-----------------------------------------------------------------------------
(* The prefetching thread, which runs once the ring is filled enough.      *)

\* Mutant: the newest transition is sampled before the ring is full.
SampleAll == ring.size

\* The slots that are sampled are those below this one: the newest transition
\* has no next state until the next one is stored.
SampleHigh == IF ring.size < Capacity THEN ring.size - 1 ELSE ring.size

\* The observer notes a slot that is half overwritten, and the newest one of a full
\* ring, unless its next state has just been stored.
PickSlot(i) ==
  /\ sample.pc = "idle" /\ ring.size >= LearnAfter /\ i < SampleHigh
  /\ sample' = [NoSample EXCEPT !.pc = "state", !.slot = i,
       !.raced = /\ ring.size = Capacity
                 /\ IF learner.half THEN ring.position = i ELSE ring.position = NextSlot(i)]

ReadState ==
  /\ sample.pc = "state"
  /\ sample' = [sample EXCEPT !.pc = "next", !.state = ring.states[sample.slot]]

ReadNextState ==
  /\ sample.pc = "next"
  /\ sample' = [sample EXCEPT !.pc = "rest", !.next = ring.states[NextSlot(sample.slot)]]

\* The action, the reward and done complete the sample.
ReadRest == sample.pc = "rest" /\ sample' = NoSample

Sample ==
  /\ (\E i \in 0..Capacity - 1 : PickSlot(i)) \/ ReadState \/ ReadNextState \/ ReadRest
  /\ UNCHANGED <<actor, shutdown, sendq, wire, recvq, learner, ring>>

-----------------------------------------------------------------------------
Next ==
  \/ Act \/ Shutdown \/ Learn \/ Sample
  \/ \E s \in Stream :
       TakeMessage(s) \/ TakeLatest(s) \/ TransferPart(s) \/ Break(s)

\* The learner's loop and the thread of the transitions' stream are scheduled; the
\* actor may pause for any time, and so may the other streams.
Fairness ==
  /\ WF_vars(Learn)
  /\ WF_vars(TakeMessage("transitions") \/ TransferPart("transitions"))

Spec == Init /\ [][Next]_vars
FairSpec == Spec /\ Fairness

-----------------------------------------------------------------------------
(* Properties.                                                             *)

Step == 1..OnlineSteps
Transition == [n : Step, last : BOOLEAN, nan : BOOLEAN]

\* Every variable keeps its type; the ring's position is a slot of the ring.
TypeOK ==
  /\ actor.step \in 0..OnlineSteps
  /\ actor.episode \in Seq(Transition) /\ {actor.policy, actor.item} \subseteq 0..MaxOptimization
  /\ shutdown \in BOOLEAN
  /\ \A s \in Stream : wire[s].broken \in BOOLEAN
  /\ learner.half \in BOOLEAN /\ learner.batch \in Seq(Transition) /\ learner.step \in 0..MaxOptimization
  /\ ring.position \in 0..Capacity - 1 /\ ring.size \in 0..Capacity
  /\ sample.slot \in 0..Capacity - 1 /\ sample.raced \in BOOLEAN
  /\ \A i \in 0..Capacity - 1 :
       ring.states[i] \in Step \cup {None} /\ ring.rest[i] \in Transition \cup {None}

\* Whatever was cut, broken off or shut down in between, a queue's message is
\* exactly what was sent: the transitions of one episode up to its end, or one
\* version of the parameters.
MessagesAreWhole ==
  /\ \A i \in DOMAIN recvq["transitions"] :
       LET message == recvq["transitions"][i]
       IN  \A k \in DOMAIN message :
             /\ message[k].n = message[1].n + k - 1
             /\ message[k].last = (k = Len(message))
  /\ \A i \in DOMAIN recvq["parameters"] :
       LET message == recvq["parameters"][i] IN message = Parameters(message[1])

\* The actor never loads parameters that are older than those it has, though
\* both ends of the stream drop messages and keep only the latest.
PolicyNeverGoesBack == [][actor'.policy >= actor.policy]_vars

\* The ring holds the transitions in the order in which the actor made them,
\* with nothing missing in between but those with NaNs.
ReplayInOrder ==
  LET slot(i) == ring.rest[(ring.position - ring.size + i - 1) % Capacity]
  IN  \A i \in 1..ring.size - 1 :
        /\ slot(i).n < slot(i + 1).n
        /\ \A n \in Step : slot(i).n < n /\ n < slot(i + 1).n => n \in actor.nans

\* A sample is put together from the ring in several reads, beside the writes of
\* the learner's loop.  When its last part is about to be read, it is a step that
\* happened, unless it ends an episode, a transition with NaNs was skipped after it
\* or its slots were written to: and that only happens to a full ring.
SampleIsStep ==
  sample.pc = "rest" =>
    LET t == ring.rest[sample.slot]
    IN  /\ sample.raced => ring.size = Capacity
        /\ \/ t.last \/ t.n + 1 \in actor.nans \/ sample.raced
           \/ sample.state = t.n /\ sample.next = t.n + 1

\* Unless the stream breaks or the actor is shut down, every transition of a
\* finished episode gets to the learner, however small its message.
EpisodesAreLearned ==
  []~(shutdown \/ wire["transitions"].broken) => <>[](learner.learned = actor.pushed)

\* learner.py:692 says that a checkpoint "Saves the current interaction step
\* for resuming training": it is the step of the latest report.
CheckpointHasStep ==
  learner.saved # None => learner.saved.interactionStep = learner.saved.latest
=============================================================================
