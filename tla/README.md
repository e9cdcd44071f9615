# VLA-Corrector: a verification project

TLA+ models, TLC runs and TLAPS proofs about the code of this repository. Paths
below are relative to the repository; `EV` is
`src/lerobot/scripts/lerobot_eval_modified_detection.py`, `RC` and `PS` are
`robot_client.py` and `policy_server.py` of `src/lerobot/async_inference`.
`PROJECT.json` maps every definition that models code to its lines.

## 1. Inventory

| part | state | operations | interacts with | what is hard | what makes it correct |
|---|---|---|---|---|---|
| Latent drift detector (`EV` 500-618) | a `RobustThresholdState`: bootstrap queue, clean history, alert, three run counters, cooldown | `robust_threshold_step` | called by the rollout once per judged step, one state per side | several counters reset each other over long sequences; NaN; boundaries of cooldown and runs | no persistent drift unanswered, cooldown kept, alert is a hysteresis |
| Detect-and-correct rollout (`EV` 1016-1620) | two plans, two bounded deques and a detector per side, loop counters, per-step rows | one environment step in ten phases; exceptions | policy, predictor, two environments | alignment of two bounded queues with time; truncation; guidance valid for one step; two sides in one loop; a step cut short | every action judged once, no stale action, guidance only for recovery, open-loop baseline |
| Guided sampling (`policies/*_modified`) | none between calls | `predict_action_chunk_with_aux` | called by the rollout | numerical | gradient direction, bounded correction |
| SigLIP dynamics (`src/siglip_dynamics`, `safety`) | trained weights; an unused `CircuitBreaker` | training, extraction, prediction | predictor of the rollout | numerical; the breaker never reaches its cooldown state | residual prediction |
| Asynchronous inference (`RC`, `PS`) | client: action queue, `latest_action`, `must_go`, chunk size; server: observation queue of size one, predicted timesteps, last processed observation | control loop, receiver thread, `SendObservations`, `GetActions`, `Ready`, `SendPolicyInstructions` | two client threads, a pool of server threads, gRPC | shared state read outside locks, check-then-act, events cleared late, lost calls, failed inference, sessions | actions in order and once, robot keeps moving, server never blocks |
| Real-time chunking (`policies/rtc`) | `ActionQueue`: two tensors and an index; latency window | `get`, `merge`, `get_left_over` | inference thread and actor thread of `examples/rtc` | index and left-over read in two calls, delay measured and counted, a chunk replaced while it is performed | the robot goes on in its plan where it was |
| RL actor and learner (`rl`, `transport`) | actor's episode and policy; a queue at each end of three streams; message buffers; the learner's loop; replay ring | act, push, stream, reassemble, drain, add, sample, checkpoint | two processes, gRPC streams, a prefetching thread | draining beside a producer, broken streams, shutdown in a message, ring boundary, a half-written slot | messages whole, transitions in order, samples that happened, parameters never older |
| Video encoder and image writer (`datasets`) | per episode and camera a thread, a bounded queue, a stop event, a file; which episode is active | start, feed, finish, cancel, close | recording loop and encoder threads | bounded queues, dead and late threads, timeouts, exceptions half-way | saved videos have every accepted frame, calls return, threads end, nothing lies about |
| Dataset storage (`datasets`) | data, video and metadata files, `info.json`, record buffer, open writers | save episode (four steps), flush, roll over, finalize, resume | recording loop, video encoder | crash or failure between two writes; records written later than they are made | what was saved stays readable where its record says |
| Cameras (`cameras`) | latest frame, timestamp, event, thread | read loop, `async_read`, `read_latest`, stop | recording loop and read thread | event outside the lock, join timeout | a fresh frame per read |
| Policies, processors, robots, motors, teleoperators, environments, scripts, configuration, utilities | devices, weights, configuration | I/O, numerics, command lines | - | no shared control | - |

## 2. Modules

| module | models |
|---|---|
| `RobustThreshold` | the pure operators of `robust_threshold_step`: the reading, the counters, release, trigger, cooldown |
| `DriftDetector` | one detector and a sequence of calls, with the history an observer keeps; its properties |
| `DriftDetector_proofs` | the five properties of `DriftDetector` proved for every parameter |
| `CorrectorRollout` | one episode of `eval_modified_detection`; composes two detectors of `RobustThreshold` with the queues of both sides |
| `AdaptiveHorizon` | the abstract specification of the executed actions; `CorrectorRollout` implements it |
| `CorrectorRollout_proofs` | its eight invariants and the refinement proved for every parameter |
| `AsyncInference` | robot client and policy server in one session |
| `AsyncInference_proofs` | four properties of `AsyncInference` proved for every parameter |
| `RtcActionQueue` | `ActionQueue` with the inference thread and the actor thread of `examples/rtc` |
| `RtcActionQueue_proofs` | four properties of `RtcActionQueue` proved for every parameter |
| `DatasetStorage` | a dataset on disk and the writing sessions that create and resume it |
| `DatasetStorage_proofs` | its five invariants proved for every parameter |
| `RlPipeline` | RL actor, learner and the three streams between them, with the replay ring |
| `RlPipeline_proofs` | its four invariants and `PolicyNeverGoesBack` proved for every parameter |
| `StreamingEncoder` | the recording loop and the encoder threads of all cameras and episodes |
| `StreamingEncoder_proofs` | its three invariants proved for every parameter |
| `MCDriftDetector`, `MCCorrectorRollout` | the finite sets of readings for TLC |

Definitions headed `Mutant` or `Mutants` are faulty variants of the definition that follows
them; nothing of the model uses them. They show that a property notices the fault.

### 2.1 The detector

A call's medians and deviations, its smoothing and its margins come down to one *reading*:
`dist` is `ebar - ton`, `gap` is `ton - toff` (never negative, `EV` 578), `jump` is the jump
condition. Readings are free, so the model has every sequence of comparisons that data could
produce, and more. `boot` counts the bootstrap queue; `alert`, `over`, `under`, `hard` and
`cooldown` are the fields of the same name. One call of the code is one step `Step(r)`, and
`RobustThresholdStep` keeps the order of the code: counters, release, verdict on the cooldown
before it is decremented, trigger. `clean_history` and the threshold curves only feed the
numbers and are left out.

`ghost` is what an observer sees who knows only readings and verdicts. The properties relate
the two, because the code's counters are reset in three places for different reasons.

### 2.2 The rollout

A latent is the number of its frame and an action is the chunk it came from (side, step of the
inference, guided or not) and its place in it. `pc` goes through the phases of one pass of the
loop: `head` (loop condition, locals), `encode`, `judge`, `judgeBase`, `infer`, `inferBase`,
`act`, `step`, `stepBase`, `record`. `Raise` ends the episode between any two of them, as the
`except` around the loop's body does. `main` and `base` hold a plan of actions, a plan of raw
actions, the bounded deques of latents and predictions, a detector and the rows appended so
far. `cfg` chooses guidance and the twin environment.

### 2.3 Asynchronous inference

One variable per shared attribute and one per thread (`control`, `receiver`, `sending`,
`getting`), whose `pc` is the place in the code. A step ends where the code gives up a lock,
calls the other side, or touches shared state without a lock:
`actions_available` and `get_nowait` are two steps; the action is performed before
`latest_action` is stored; `_aggregate_action_queues` takes the live deque under the lock,
iterates over it after it, merges one action at a time and swaps the queue;
`_enqueue_observation` is four steps beside `GetActions`. `Failures` says which calls may fail:
a send, preprocessing or inference, or the answer on its way. What `observations_similar`
answers is taken from `SimilarAnswers`. The session set-up has happened before `Init`.
The `verbose` logging paths only read and are left out.

### 2.4 Real-time chunking

`RtcActionQueue` labels an action with the step of the robot's plan it is for: a chunk continues
the left-over it was inferred with, so its first step is the one that was next when
`get_left_over` was called. `queue` stands for both tensors, which are always cut alike, and
`lastIndex` for `last_index`. `Get` and `GetNone` are the two outcomes of one period of
`actor_control`; `CheckSize`, `GetActionIndex`, `GetLeftOver` and `Merge` are the four places of
`get_actions` between which the actor may run. `InferenceRaises` and `SendRaises` are the exceptions
that end one thread without telling the other (`alive`). `enabled` chooses `_replace_actions_queue`
or `_append_actions_queue`.

The delay that `Merge` is told is wall time (`eval_with_real_robot.py` 314-316), and the actor has no
clock in common with it. In a period the actor makes one attempt at most, because it sleeps for the
rest of the period, a little less, which `Slack` stands for: so the delay is not shorter than the attempts since
`current_time`, up to `Slack` (`NewDelays`). It may be longer by any number of periods: the actor
does not catch up, and `send_action` waits for the lock of `RobotWrapper` while
`get_observation` holds it. Up to `MaxDelay` the model allows each such delay.

Three things the model makes visible. The actions a merge drops are dropped by the clock, so a
first chunk loses its beginning although the robot stood still; `SwapIsBounded` therefore counts
the `starved` attempts, and the periods without an attempt (`delay - waited`). `inference_delay` and `max_latency` only reach the numbers of the guidance;
what is cut off is the measured latency. An inference that takes longer than its chunk lasts
leaves an empty queue each time, and the robot never moves (`TooSlow`, excluded by name).

### 2.5 Dataset storage

A file is its chunk and file index. `data` holds blocks of rows, `video` segments, `meta` records;
`broken` holds the files a crash left without a parquet footer, `torn` the video files that a failed
move left incomplete. `save_episode` is four steps
because a crash may come between any two: `SaveEpisodeData`, `SaveEpisodeVideo`,
`SaveEpisodeMetadata` (the record goes to a buffer and, when it is full, to the file), `WriteInfo`.
Whether a file is full is free, so all roll-overs are explored. `Finalize`, `Crash` and `Resume` are the
end of a session and the next one. Each of the four steps may also fail halfway, and
`ClearEpisodeBuffer` allows another attempt in the same session:

* `SaveEpisodeDataFails`: the full file is closed, `mkdir` or `ParquetWriter` raises, and the
  latest episode is still the one before (`dataset_writer.py` 406-431); or `write_table` raises with the
  new file open. The next attempt then may open the old file anew, which truncates it (`Reopens`), or write
  into a file that its record does not name.
* `SaveEpisodeVideoFails`: `shutil.move` copies across file systems, and the file it copies over
  is lost (`video_utils.py` 568).
* `SaveEpisodeMetadataFails`: the record is in the buffer when the flush raises (`dataset_metadata.py`
  456-460), and stays in it: `finalize` writes it.
* `WriteInfoFails`: `write_info` raises before or after it has truncated `info.json`, or
  `write_stats` after it. The process counts the episode already. Without a readable `info.json` a
  dataset cannot be resumed.
* `SaveEpisodeFails`: between these writes.

A process that is killed in the middle of a write is a failure followed by `Crash`. Left out are a `close()` of a
parquet writer that raises and the video information that the first episode writes to `info.json`.

The guarantees are about *clean* episodes, saved before anything went wrong (after a crash: those
of sessions that were finalized before it). They cannot be about all: a failure after
`_save_episode_data` leaves rows and segments of an episode that has no record, and after a crash
`info.json` may be ahead of the records, so that the index column and `dataset_from_index` differ
after a resume. Even the clean ones can be lost, in two ways that the properties name: by an attempt that opens their file anew
(`past.reopened`) and by a move over their very file (`torn`). A record whose saving failed before `info.json` counted it
(`past.uncounted`) may come a second time. A metadata file left open makes the whole dataset unloadable; `Resume` then is not
enabled, as `load_episodes` raises.

### 2.6 RL pipeline

`sendq` and `recvq` are the queues at both ends of each stream, `wire` the parts still to arrive
and the receiver's `bytes_buffer`. `TakeMessage` takes a message of transitions or a report
and sends its first part, `TransferPart` the others. `get_last_item_from_queue` is a step per item, so that
its producer may add more meanwhile: `TakeLatest` at the learner, until `TransferPart` finds
the queue empty, `TakeParameters` at the actor. `Break` is an `RpcError`, after which the
stream is not opened again (the channel's retries are left out), `Shutdown` the actor's event. `Act` is a step of the environment, with
`EndEpisode` at the end of an episode. Steps of a process that touch no shared state in between, or
only append to a queue whose other end only takes, are one action. In the learner
`ProcessTransitions` takes a message and the learner works on its transitions one by one: `SkipNaN`
skips one with NaNs, `AddState` and `AddRest` are the two halves of
`ReplayBuffer.add`. Beside them the prefetching thread reads a sample, for one of its indices, at four moments:
`PickSlot` reads the size, `ReadState`, `ReadNextState` and `ReadRest` the parts (`buffer.py` 237-287). `Optimize` is the rest of a
pass of the loop. `learned`, `latest`, `pushed` and `nans` are an observer's notes.

`SampleIsStep` names the samples that may not show a step that happened: those at the end of an episode or before a
transition with NaNs, and those whose slots were written to while they were read or were half
written before (`raced`), which takes a full ring. `done` and
`truncated` are one flag here: after a truncated episode the "next state" is the first of
the next episode and is bootstrapped from. Found on the way and not
modelled: the actor never puts `is_intervention` where the learner looks for it, so the offline
buffer gets nothing online; an exception of the prefetching producer leaves its consumer waiting.

### 2.7 Streaming encoder

`enc[e][k]` is the encoder of camera `k` in episode `e` with its thread, its queue, its stop event
and its file; it outlives the episode, because a join that times out leaves it behind. `main.pc` is
the main thread's place, `main.key` the camera its loops are at. `finish_episode` is `PutSentinel`
and `Join` (or `JoinTimeout`) per camera, then `Drain` for `_cleanup`; `CancelEpisode` and
`CancelJoin` are `cancel_episode`. `Raised` is what an exception does: `VideoEncodingManager`
cancels an active episode. `SaveEpisodeVideo` moves one camera's video, the last one saves the metadata;
`SaveEpisodeVideoRaises` is any exception in between, when no episode is active any more and nothing is cancelled.
A thread takes a frame (`TakeFrame`) and encodes it (`EncodeFrame`) in two steps, between which the
main thread can fill the queue again; `FlushAndClose` ends it. `Crash` is an exception in encoding (`EncodeFails`), with
whatever is in the queue by then, or in flushing or closing (`FlushFails`).

A frame that finds the queue full for longer than the timeout is dropped by `feed_frame`, so the later frames of that video
are shifted against the rows; the properties are about *accepted* frames. `finish_episode` waits for ever to
put its sentinel into the full queue of a crashed thread (`video_utils.py` 851): the thread holds a frame, the main
thread fills the queue, the encoding raises. The model has this deadlock (`Blocked`), and `CallsReturn` says that it is
the only one. Once `finish_episode` has ended the episode, an exception leaves the videos that are not moved yet in
their temporary directories (`SavingRaised`). A video whose thread was late may be saved without its last frames (`OnTime`).

## 3. Runs

| run | question | result | bounds |
|---|---|---|---|
| `drift_detector` | no missed drift, cooldown, hysteresis | holds | 14 calls; readings below the release threshold, between the thresholds, and above each margin; bootstrap 2, runs of 3, 2 and 2, cooldown 4: long enough for a trigger, its cooldown, a hard re-trigger in it, a release and a second trigger |
| `corrector_rollout` | alignment, truncation, guidance, baseline, bookkeeping, refinement | holds | 7 steps, chunks of 3, `safety_k` 2, bootstrap 1: two meltdowns, one in the middle and one at the end of a chunk, and replans after them fit |
| `corrector_baseline` | is the baseline independent? | violated (finding) | 3 steps |
| `async_inference` | ordered queue, put never blocks, types | holds | timesteps up to 5, chunks of 3, all failures, both answers of the similarity check |
| `async_progress` | order and progress outside the races | holds | timesteps up to 4, no failing calls |
| `async_stale` | is a stale action ever performed? | violated (finding) | as `async_progress` |
| `async_stall` | does an empty queue always get an answer? | violated (finding) | a failing inference |
| `rtc_queue` | does replacing or appending a chunk under the robot keep its place in the plan, and does it get on? | holds | chunks of 5, threshold 3, latencies up to 5 attempts and 6 periods with 1 of slack, 8 steps, either thread may die: a latency as long as the chunk and a longer one, delays on both sides of the index difference, an actor that misses every period, an empty queue during an inference |
| `dataset_storage` | is a saved episode kept through failures, crashes and resumes? | holds | 3 episodes, 3 sessions, two failures and a crash, buffer and chunks of 2: each kind of file rolls over within and across chunks and sessions, a failed attempt is followed by one that succeeds and one that fails again |
| `rl_pipeline` | whole messages, order in the ring, real samples, fresh parameters, nothing unlearned | holds | 4 steps, ring of 3, messages of up to 4 parts, one NaN, one broken stream or a shutdown: the ring wraps around, episodes of every length up to 4, the full ring sampled beside the write to its oldest slot |
| `rl_checkpoint` | does a checkpoint know its step? | violated (finding) | 2 steps |
| `streaming_encoder` | complete videos, nothing left behind, calls and threads end | holds | 2 cameras, queues of 1, 2 frames, 2 episodes, one crash, one timeout: a full queue at each call, also that of a crashed thread, a late thread beside the next episode, an exception at each camera's video |

Deadlock checking is off everywhere: an episode ends, a detector's calls are bounded by
`MaxCalls`, a client stops at `MaxTimestep`, and recordings, sessions and training runs end. Where
waiting for ever would be a fault a liveness property says so.

Bounds by name: `MaxCalls` bounds `under_count`, which grows without end while nothing
drifts; `MaxSteps` is the environment's own `_max_episode_steps`; `MaxTimestep` is where the
operator stops the client. Two chunks of three actions overlap, run dry and are replaced
within five timesteps, and every thread can be at every place of its loop in each of them.
`MaxStep` is where the operator stops the actor of real-time chunking, `MaxWait` the longest
inference; `OnlineSteps` is the actor's own `online_steps`. `MaxEpisodes`, `MaxSessions`,
`MaxFailures`, `MaxCrashes`, `MaxRows`, `MaxTimeouts`, `MaxOptimization`, `MaxNaNs` and `MaxFaults`
bound how often a thing happens; one of each fault is enough to let it happen at every place, and
a second failure of storage meets what the first one left. `MaxDelay` is the longest latency that is told a merge.

### What the properties say

* `NoMissedDrift`, `AlertEndsWhenQuiet`, `AlertEndsOnlyWhenQuiet`, `CooldownHolds`: see 2.1.
  A single reading above the alarm threshold that jumps does trigger (`EV` 603): the README's
  "persistent drift" is the rule for drift without a jump only. `NoMissedDrift` is the
  guarantee in the other direction.
* `EveryActionJudged`: the row of step `i` judges the action executed at `i - safety_k`, on
  both sides, in every episode. It says at once that the deques are long enough, that the head
  of the prediction queue is never late, and that the "missing aligned history" branch (`EV`
  1192) is never taken.
* `NoStaleAction`, `GuidedOnlyForRecovery`: about the rows of the episode, so they relate an
  executed action to all earlier detections.
* `BaselineOpenLoop`: the baseline executes whole chunks whatever happens on the other side; in
  particular the fallback to the corrected action (`EV` 1518) is never used while it is active.
* `RequestsAreMeltdowns`, `BaselineCurvesComplete`: what the summary is computed from fits
  together even when an exception interrupts a step.
* `ImplementsAdaptiveHorizon`: `CorrectorRollout` implements `AdaptiveHorizon` under the mapping
  that reads the last row of the record; all phases but `RecordStep` are stuttering steps.
* `QueueAscending`, `PutNeverBlocks`: hold in spite of the unlocked accesses. The put
  relies on the client sending one observation at a time.
* `PerformsInOrder`, `RobotKeepsMoving`: two races break both (2.3); the properties are stated
  for behaviours in which these named state predicates never occur. `MergeRace`: a chunk is
  merged while the popped action is being performed. `ClearRace`: `must_go` is set for a new
  chunk while an older must-go observation is still being sent and will clear it. Everything
  else stays in: evictions, observations lost to `get_nowait`, similarity, the `Empty`
  answers.
* `SwapIsBounded`, `CheckedSwapIsSeamless`, `AppendedInOrder`: what a merge does to the robot's
  place in its plan. With RTC it goes back by no more than `Slack`, and forward by no more than `Slack`, the
  robot's idle attempts and the periods without an attempt, however many these are; where the delay and the index agree
  (what `_check_delays` looks at) it does not jump at all, unless an action was taken
  between the two reads. Without RTC it never jumps.
* `SavedDataKept`, `SavedVideoKept`, `RecordsInTheirFile`, `RecordsAscend`: relate records, rows,
  segments and file names that are written by different steps at different times. What a failure can spoil in
  spite of them is in their premises (2.5), and no more than that.
* `MessagesAreWhole`, `ReplayInOrder`, `SampleIsStep`: from the actor's episode through parts,
  queues and the ring to a sample read in parts. `PolicyNeverGoesBack`: both ends of the parameter stream drop
  messages, and never the newest. `EpisodesAreLearned`: no message is left in a queue or a buffer.
* `SavedVideosAreComplete`, `NothingLeftBehind`, `CallsReturn`, `ThreadsEnd`: hold whichever
  thread crashes or is late and wherever the main thread raises, with the exceptions named in 2.7.

### Fairness

`AsyncProgress` and `AsyncStall` use `FairSpec`. Weak fairness of each thread: the operating
system schedules all of them. Strong fairness of `TakeObservation`, and of the call when an
observation is waiting: `Queue.get(timeout)` blocks and a put wakes it up, so a `GetActions` in
progress does not time out again and again exactly in the instant between `get_nowait` and
`put` of an eviction, which is what weak fairness alone would allow.

`RtcQueue` assumes weak fairness of both threads, `RlPipeline` of the learner and of the stream of
transitions: processes and threads of the operating system. `StreamingEncoder` assumes it of each
encoder thread's work, and of the main thread inside a call only: when the next frame comes, or whether
the episode ends, is the operator's choice. No fairness is assumed of failures, crashes, timeouts or shutdowns.

### Findings

1. `corrector_baseline`: the loop of the corrected side also ends the baseline, so success
   rates of the baseline are over truncated episodes (`EV` 1136, comment at 1622).
2. `async_stale`: an action is performed again, because `latest_action` lags behind (`RC` 385).
3. `async_stall`: after one failed inference the robot never moves again (`PS` 229, `RC` 437).
4. `rl_checkpoint`: a checkpoint saves interaction step 0 unless a report came in the very pass of
   the loop that saves it (`rl/learner.py` 372, 711).

## 4. Proofs

`DriftDetector_proofs` proves `TypeCorrect`, `DriftIsAnswered`, `AlertEnds`, `CooldownIsKept` and
`AlertIsKept` for every value of the constants that satisfies `DetectorAssumption`: positive run
lengths and bootstrap size, a natural cooldown and natural margins. The properties alone are not
inductive: the observer's runs and the code's counters are different numbers after a trigger and
in the cooldown. The inductive invariant `IInv` adds

* `Fresh`: before the end of the bootstrap nothing has been counted;
* `AfterTrigger`: right after a trigger the counters are zero and the cooldown is full;
* `CountersAreRuns`: otherwise the counters are the observer's runs;
* `CooldownIsRest`: the cooldown is what is left since the last trigger.

`CountedFields` and `JudgedFields` say what a call does to each field (a release never clears a
counter that is not zero already: a quiet reading has just cleared it), `VerdictFields` restates
the verdict in those fields, `ObserveType` does the same for the observer, and `JudgeInv` carries
the invariant over a judged reading, one conjunct at a time. TLC has checked `IInv` on the
instance of `drift_detector`.

`AsyncInference_proofs` proves `TypeCorrect`, `QueueStaysOrdered`, `PutFindsRoom` and
`PerformedInOrder` for every chunk size, threshold, set of failing calls and
behaviour of the similarity check (`AsyncAssumption`). There are two invariants. `IInv` holds in
every behaviour, races included: a thread holds what it works on (`Carried`), the rest of a chunk
has consecutive timesteps, and what has been merged ascends up to what is still to come
(`FutureAscends`); that is why the swapped-in queue is ordered. `PutNeverBlocks` is inductive with
`Carried`: only the one `SendObservations` call puts. `OInv` says that everything under way continues what the robot has
performed: the queue, the observations of client and server, the chunk being merged. Only a merge
race breaks it, so `OrderStep` carries it over every step outside of one, and temporal reasoning
gives `PerformsInOrder`, whose premise is that there is none. `ControlType` to `GetActionsType` do the types of
one thread each, one step per action; `QueueStep`, `ChunkStep` and `ObservationsStep` one conjunct
of `OInv` each.

`RtcActionQueue_proofs` proves `TypeCorrect`, `AppendKeepsOrder`, `SwapStaysNear` and `CheckedSwap` for
every chunk size, threshold, latency and slack (`RtcAssumption`), and whatever periods the actor misses. The invariant: the queue is one run of
consecutive steps and the robot performed the one below the index (`QueueIsRun`); with RTC a merge has
dropped an action at least (`RtcQueueIsShort`), so that the index never gets as far as the length of a chunk; during an inference
the next step is ahead of the chunk's first by the attempts that found something, up to `Slack`, and exactly by
what the index moved if nothing was taken between the two reads (`AheadOfBase`); without RTC a chunk is requested
only when the queue is empty (`DrainedWithoutRtc`). `MergeJump` derives the jump from it: the new queue begins `delay`
steps after the chunk's first. Nothing in it bounds how long the delay may be against the actor's attempts.

`CorrectorRollout_proofs` proves the eight invariants of `corrector_rollout` and the refinement for every
`safety_k`, chunk length, bootstrap, detector parameters and number of steps
(`RolloutAssumption`), with and without guidance and the twin environment. The
properties speak of the rows of the episode, so the invariant ties every variable to the rows.
`Clock` says how many rows there are at each phase. `LogInv` is the properties row by row. `MainInv`
and `BaseInv` say, of a side and of what it has done in this step (the phases `Encoded`, `Judging`,
`Inferred`, `Acted` that it has passed): the deque of latents holds the last `safety_k + 1` frames (`HistoryIs`), the
deque of predictions those of the last actions not judged yet (`PredsAre`; `Consumed` of them have been judged), each row's
judgement is of the action `safety_k` earlier (`JudgesAligned`); the plan is the rest of the
chunk the last row executed (`PlanBefore`), or, after an inference, a whole chunk whose origin
and guidance the last meltdown explains (`PlanInferred`, `PlanAfter`). `Warm` bounds the judged
steps by the detector's bootstrap, `RequestsCounted` counts meltdowns against requests. Only `RecordStep` adds a row;
`RowCases` says which row, `MainRow` and `BaseRow` that it keeps the log, and the
refinement follows from the plan at that phase: an executed action is the next of its chunk, the first
of a chunk replanned for a meltdown, or the first after the old one was executed to its end.

`StreamingEncoder_proofs` proves `EncodingTypes`, `VideosAreComplete` and `NothingIsLeftBehind` for
every number of cameras, rows, episodes, crashes and timeouts and every queue size
(`EncoderAssumption`). `Types` and `Control` (what the main
thread's place says of the active episode) are common; `EncoderInv` says of each encoder which
phase it is in (`Fresh`, `Fed`, `Feeding`, `Ending`, `Ended`, `Over`), which follows from the main thread's
place and key (`Current`), and what a thread's video, queue and the accepted frames are in it: video and
queue together, with the frame that has been taken in between (`Got`), are the accepted frames, then a sentinel once it was put. `LeftBehind`
says which encoders the main thread is done with, also when saving the episode raised: of these nothing
runs on or lies about. The frames of one encoder are the concern of two threads, so
the proof has two parts: `Advances` states what any step of its own thread does to an encoder, and
`EpisodeStep` and `MineStep` what the main thread does to the active ones.

`DatasetStorage_proofs` proves `StorageTypes`, `RecordsAreFiled`, `RecordsAreInOrder`, `SavedDataIsKept` and
`SavedVideoIsKept` for every length of the episodes, size of the buffer and of a chunk, and number of
sessions, failures and crashes (`StorageAssumption`). Its invariants build on each other:

* `IInv`: types; `RecordsInv`, the open metadata file and every buffered record belong to the file of the
  latest record, so a flush, whenever it comes (`FlushedFiles`), writes records where they say they
  are; `EpisodeInv`, what `save_episode` has done at each of its places.
* `OrderInv`: `All`, what is in the metadata files and then in the buffer, ascends (`Ascending`), and
  what is written next goes to the last file while it is open or to one after all others (`Filed`). So each
  action appends to `All` or leaves it (`MetaAdds`), a crash leaves a prefix of it, the files that
  were closed (`SettledIn`), and the next session finds that prefix. `UncountedInv` relates it to `info.json`: the
  episodes that the process counts and the file does not are among `past.uncounted`.
* `KeptInv`: for the first `Counted` records (`Kept`), the rows of the `i`-th are at place `i` of the data
  files up to the one it names (`LaidAt`). Files after that one do not matter to it, so the statement
  survives every later write (`LaidWritten`); with `UptoStart` it gives the place among all files.
  `WriterInv` keeps a later session out of the files of an earlier one, which makes what was
  finalized survive the crash of a writer; `CleanInv` says that, while nothing went wrong, rows, records and
  `info.json` count the same episodes. All but the counting (`RowsInv`) is under the premise that nothing was opened anew;
  a failed attempt may leave the writer one file ahead of the latest one, which `WriterInv` allows.
* `VideoInv`: the same of the segments of the video files (`FilmedAt`), whose times are sums of lengths
  (`EndTimes`), and that the last segment of the latest file ends where the latest record does. A torn file is only ever replaced, so no file but it is
  affected (`FilmedAt`).

`NewFileContents`, `LastFileContents` and `FlushedContents` say what the concatenation of the files
in the order of their paths becomes when a file is added or the last one grows, `NthIsFile` and `NthIsOnly` that
each place in that order has one file. The inductions over data that this needs (`JoinsExist`,
`JoinsUnique`, `FlattenStart`, `SumsExist`, `EndTimesStart`) are carried out by contradiction from the least
counterexample (`LeastNat`, from the well-founded order of the naturals).

`RlPipeline_proofs` proves `PipelineTypes`, `WholeMessages`, `NoOlderPolicy`, `RingInOrder` and `SamplesAreSteps`
for every capacity, message size and number of steps, NaNs and faults (`RlAssumption`). A message has
a *mark*, its last transition or its version. A stream's invariant (`StreamInv`) starts at the receiver's mark (`Base`:
what the learner has taken, or the version the actor has taken last) and follows it through the receiver's queue
(`Chain`), the message under way (`UnderWay`: what has arrived of it is the buffer, the rest are the
parts, `Carries`) and the sender's queue, up to what the sender has made (`Tops`). A broken stream
keeps only the part at the receiver. From it a message that the learner takes continues the last, so
nothing but NaNs is missing in the ring. The drains take one message at a time: `actor.item` is the
mark while the actor drains, and a message under way may be given up for the next one until its first part is sent
(`wire.draining`). `RingInv` walks the ring by `After`: the next slot holds the next transition that had no
NaN, up to the write position, whose predecessor is the newest; `Frontier` is the last transition added or skipped.
`SampleInv` is added to `IInv` for the samples (`SamplingInvariant`): what has been read of one so far is of the step in its
slot and of the one after it (`Intact`), unless a write into the two was noted.
`Modulo` and `OldestIsSlot` bring the code's `%` down to `After`, `PartsOf` and `Receive` are the
cutting and the putting together of a message, `Pushes`, `Drains`, `Arrives` and `Untouched`
what a step may do to a stream.

Model-checked only: liveness under fairness (`RobotKeepsMoving`, `EmptyQueueIsServed`, `RobotMoves`,
`EpisodesAreLearned`, `CallsReturn`, `ThreadsEnd`), which is out of the prover's reach.

## 5. Not modelled, and the plan

The components with status `not_modelled` in `PROJECT.json` carry their reasons. In the modelled
ones: the numbers behind the thresholds; guidance statistics, shadow timing, videos and files of
the evaluation; the content of observations and action tensors and the way two chunks are
averaged; the set-up of a session, its restart and gRPC's retries.

Real-time chunking: the guidance of the denoiser and its latency estimate. Storage: tasks,
statistics, batched encoding, readers, the aggregation and editing tools. RL: the offline buffer,
the resumption of a run, the learner's own shutdown, the retries of a broken stream. Recording: the pool of image writers, a
`start_episode` that fails after it has started a thread, Ctrl-C
inside a call, empty temporary directories of cancelled episodes.

Most of the repository is neural networks, drivers of devices, wrappers of simulators and scripts
of sequential tensor code, without control that a model checker could say more about than their
source.

What is left, in this order:

1. `PolicyServer`: `Ready`, several sessions and handlers at once, gRPC retries; a new session must
   not see state of the last one.
2. `CameraReader`: read loop, `async_read`, stop with a join that times out. `async_read` can
   return a frame twice, since the event is set outside the lock; the recording loop uses
   `read_latest`, which takes the lock.
3. The batch encoding of `DatasetWriter` and the image writer pool.
