-------------------------- MODULE StreamingEncoder --------------------------
(***************************************************************************)
(* Recording with streaming video encoding: the recording loop feeds the   *)
(* frames of each camera to an encoder thread of that camera and episode   *)
(* through a bounded queue; an episode is saved, recorded again or broken  *)
(* off by an exception.                                                    *)
(*                                                                         *)
(* A frame is the number of its row in the episode.  Encoder threads may   *)
(* crash, and joins may time out, which leaves a thread behind that works  *)
(* on beside the main thread and later episodes.                           *)
(***************************************************************************)
EXTENDS Integers, Sequences, SequencesExt, FiniteSets

CONSTANTS
  Cameras,     \* number of video keys
  QueueSize,   \* queue_maxsize
  MaxRows, MaxEpisodes, MaxCrashes, MaxTimeouts \* bounds for TLC

ASSUME EncoderAssumption ==
  /\ {Cameras, QueueSize, MaxRows, MaxEpisodes} \subseteq Nat \ {0}
  /\ {MaxCrashes, MaxTimeouts} \subseteq Nat

Key == 1..Cameras
Sentinel == 0

VARIABLES
  main,  \* the main thread: [pc, key, active, then, episode, rows, late]
  enc,   \* per episode and key, the encoder thread and what belongs to it
  saved, \* episodes whose metadata are saved
  faults \* [crashes, timeouts]: bounded, to be able to tell runs without them

vars == <<main, enc, saved, faults>>

\* An encoder before its episode.  taken is the frame that the thread took from the
\* queue and has not encoded yet; accepted is noted by the observer.
Unused == [thread |-> "none", queue |-> <<>>, taken |-> <<>>, stop |-> FALSE, video |-> <<>>,
           file |-> "none", place |-> "temp", accepted |-> <<>>]

Init ==
  /\ main = [pc |-> "next", key |-> 1, active |-> FALSE, then |-> "next",
             episode |-> 0, rows |-> 0, late |-> {}]
  /\ enc = [e \in 1..MaxEpisodes |-> [k \in Key |-> Unused]]
  /\ saved = {}
  /\ faults = [crashes |-> 0, timeouts |-> 0]

Running(e, k) == enc[e][k].thread = "run"

Set(e, k, encoder) == enc' = [enc EXCEPT ![e][k] = encoder]

\* The encoder of the key that the main thread is working on.
Mine == enc[main.episode][main.key]
SetMine(encoder) == Set(main.episode, main.key, encoder)

\* Mutant: one frame more than the queue's size.
FullLate(queue) == Len(queue) > QueueSize

Full(queue) == Len(queue) >= QueueSize

\* The main thread is done with a key: the next one, or the next phase.
Proceed(pc) ==
  IF main.key < Cameras THEN [main EXCEPT !.key = @ + 1]
  ELSE [main EXCEPT !.key = 1, !.pc = pc]

-----------------------------------------------------------------------------
(* Recording.                                                              *)

\* add_frame; with the first frame start_episode starts the encoder threads.
AddFrame ==
  /\ main.pc = "next" /\ main.rows < MaxRows
  /\ main.rows = 0 => main.episode < MaxEpisodes
  /\ LET e == IF main.rows = 0 THEN main.episode + 1 ELSE main.episode
     IN  /\ main' = [main EXCEPT !.pc = "feed", !.key = 1, !.active = TRUE,
                                 !.episode = e, !.rows = @ + 1]
         /\ enc' = IF main.rows = 0
                   THEN [enc EXCEPT ![e] = [k \in Key |-> [Unused EXCEPT !.thread = "run"]]]
                   ELSE enc
  /\ UNCHANGED <<saved, faults>>

\* __exit__ after an exception: an active episode is cancelled.
Raised ==
  IF main.active THEN [main EXCEPT !.pc = "cancel", !.key = 1, !.then = "ended"]
  ELSE [main EXCEPT !.pc = "ended", !.then = "ended"]

\* feed_frame: a frame is dropped if the queue stays full, and a thread that has
\* crashed ends the recording.
FeedFrame ==
  /\ main.pc = "feed"
  /\ IF Mine.thread # "run"
     THEN main' = Raised /\ UNCHANGED enc
     ELSE /\ main' = Proceed("next")
          /\ IF ~Full(Mine.queue)
             THEN SetMine([Mine EXCEPT !.queue = Append(@, main.rows),
                                       !.accepted = Append(@, main.rows)])
             ELSE UNCHANGED enc
  /\ UNCHANGED <<saved, faults>>

\* Anything else in the loop raises, also save_episode before finish_episode.
Raise ==
  /\ main.pc = "next"
  /\ main' = Raised
  /\ UNCHANGED <<enc, saved, faults>>

\* The operator is not content: clear_episode_buffer.
Rerecord ==
  /\ main.pc = "next" /\ main.active
  /\ main' = [main EXCEPT !.pc = "cancel", !.key = 1, !.then = "next"]
  /\ UNCHANGED <<enc, saved, faults>>

-----------------------------------------------------------------------------
(* finish_episode, called by save_episode.                                 *)

SaveEpisode ==
  /\ main.pc = "next" /\ main.active
  /\ main' = [main EXCEPT !.pc = "sentinel", !.key = 1, !.then = "video"]
  /\ UNCHANGED <<enc, saved, faults>>

\* put(None) waits for room, for ever if there is none.
PutSentinel ==
  /\ main.pc = "sentinel" /\ ~Full(Mine.queue)
  /\ main' = Proceed("join")
  /\ SetMine([Mine EXCEPT !.queue = Append(@, Sentinel)])
  /\ UNCHANGED <<saved, faults>>

\* Mutant: not the status of the result is looked at, but the file.
FailedIfUnclosed(encoder) == encoder.file # "closed"

\* The result of a thread that has ended.
Failed(encoder) == encoder.thread = "crashed"

Join ==
  /\ main.pc = "join" /\ Mine.thread # "run"
  /\ main' = IF Failed(Mine) THEN Raised ELSE Proceed("drain")
  /\ UNCHANGED <<enc, saved, faults>>

\* Mutant: the thread is not told to stop.
LeaveLate(encoder) == encoder

\* A thread that is late is told to stop, waited for a little, and left behind.
StopLate(encoder) == [encoder EXCEPT !.stop = TRUE]

JoinTimeout ==
  /\ main.pc = "join" /\ Mine.thread = "run" /\ faults.timeouts < MaxTimeouts
  /\ main' = [Proceed("drain") EXCEPT !.late = @ \cup {<<main.episode, main.key>>}]
  /\ SetMine(StopLate(Mine))
  /\ faults' = [faults EXCEPT !.timeouts = @ + 1]
  /\ UNCHANGED saved

\* _cleanup empties the queues, also those of threads left behind.
Drain ==
  /\ main.pc = "drain"
  /\ IF Mine.queue # <<>>
     THEN /\ SetMine([Mine EXCEPT !.queue = Tail(@)])
          /\ UNCHANGED main
     ELSE /\ main' = IF main.key < Cameras THEN [main EXCEPT !.key = @ + 1]
                     ELSE [main EXCEPT !.key = 1, !.pc = main.then, !.active = FALSE,
                                       !.rows = IF main.then = "next" THEN 0 ELSE @]
          /\ UNCHANGED enc
  /\ UNCHANGED <<saved, faults>>

MovesVideo == SetMine([Mine EXCEPT !.place = "dataset"])

\* _save_episode_video moves the file into the dataset; the last one saves the
\* metadata.  A file that is missing or not closed has no duration, and does not
\* get that far.
SaveEpisodeVideo ==
  /\ main.pc = "video" /\ Mine.file = "closed"
  /\ MovesVideo
  /\ IF main.key = Cameras
     THEN /\ main' = [main EXCEPT !.pc = "next", !.key = 1, !.rows = 0]
          /\ saved' = saved \cup {main.episode}
     ELSE main' = Proceed("next") /\ UNCHANGED saved
  /\ UNCHANGED faults

\* save_episode raises after finish_episode: with a video, before it is moved or
\* after, or with the metadata, before they are saved or after.  No episode is
\* active any more, so that __exit__ has nothing to cancel.
SaveEpisodeVideoRaises ==
  /\ main.pc = "video"
  /\ main' = [main EXCEPT !.pc = "ended"]
  /\ \/ UNCHANGED <<enc, saved>>
     \/ Mine.file = "closed" /\ MovesVideo /\ UNCHANGED saved
     \/ /\ Mine.file = "closed" /\ MovesVideo
        /\ main.key = Cameras /\ saved' = saved \cup {main.episode}
  /\ UNCHANGED faults

-----------------------------------------------------------------------------
(* cancel_episode.                                                         *)

CancelEpisode ==
  /\ main.pc = "cancel"
  /\ main' = [main EXCEPT !.pc = "cancelJoin"]
  /\ enc' = [enc EXCEPT ![main.episode] = [k \in Key |-> [@[k] EXCEPT !.stop = TRUE]]]
  /\ UNCHANGED <<saved, faults>>

\* Mutant: the temporary file is kept.
KeepTemp(encoder) == [encoder EXCEPT !.place = IF encoder.file = "none" THEN "cancelled" ELSE @]

\* The temporary directory of a video is removed, if the video exists.
RemoveTemp(encoder) == [encoder EXCEPT !.place = "cancelled"]

\* A thread that does not end in time is left behind.
CancelJoin ==
  /\ main.pc = "cancelJoin"
  /\ \/ ~Running(main.episode, main.key) /\ UNCHANGED faults
     \/ /\ Running(main.episode, main.key) /\ faults.timeouts < MaxTimeouts
        /\ faults' = [faults EXCEPT !.timeouts = @ + 1]
  /\ main' = Proceed("drain")
  /\ SetMine(RemoveTemp(Mine))
  /\ UNCHANGED saved

Main ==
  \/ AddFrame \/ FeedFrame \/ Raise \/ Rerecord
  \/ SaveEpisode \/ PutSentinel \/ Join \/ JoinTimeout \/ Drain
  \/ SaveEpisodeVideo \/ SaveEpisodeVideoRaises
  \/ CancelEpisode \/ CancelJoin

-----------------------------------------------------------------------------
(* _CameraEncoderThread.run.                                               *)

\* Between taking a frame and encoding it, the main thread can fill the queue again.
TakeFrame(e, k) ==
  /\ Running(e, k) /\ enc[e][k].taken = <<>>
  /\ enc[e][k].queue # <<>> /\ Head(enc[e][k].queue) # Sentinel
  /\ Set(e, k, [enc[e][k] EXCEPT !.queue = Tail(@), !.taken = <<Head(enc[e][k].queue)>>])
  /\ UNCHANGED <<main, saved, faults>>

\* The directory of a file is made anew if it is gone when the file is opened.
PlaceOf(encoder, file) ==
  IF encoder.file = "none" /\ file # "none" THEN "temp" ELSE encoder.place

\* A frame is encoded; the first one opens the file.
EncodeFrame(e, k) ==
  /\ Running(e, k) /\ enc[e][k].taken # <<>>
  /\ Set(e, k, [enc[e][k] EXCEPT
       !.taken = <<>>, !.video = @ \o enc[e][k].taken, !.file = "open",
       !.place = PlaceOf(enc[e][k], "open")])
  /\ UNCHANGED <<main, saved, faults>>

\* Mutant: only a sentinel ends the thread.
EndsOnSentinel(encoder) ==
  encoder.queue # <<>> /\ Head(encoder.queue) = Sentinel

\* A sentinel ends the thread, and an empty queue if it was told to stop.
EndsNow(encoder) ==
  IF encoder.queue = <<>> THEN encoder.stop ELSE Head(encoder.queue) = Sentinel

FlushAndClose(e, k) ==
  /\ Running(e, k) /\ enc[e][k].taken = <<>> /\ EndsNow(enc[e][k])
  /\ Set(e, k, [enc[e][k] EXCEPT
       !.queue = IF @ = <<>> THEN @ ELSE Tail(@), !.thread = "done",
       !.file = IF @ = "open" THEN "closed" ELSE @])
  /\ UNCHANGED <<main, saved, faults>>

\* Opening the file or encoding the frame raises, with whatever the queue holds by
\* then; the file is closed if that works.
EncodeFails(e, k) ==
  /\ enc[e][k].taken # <<>>
  /\ \E file \in {enc[e][k].file, "open", "closed"} :
       Set(e, k, [enc[e][k] EXCEPT !.taken = <<>>, !.thread = "crashed", !.file = file,
                                   !.place = PlaceOf(enc[e][k], file)])

\* Flushing the encoder or closing the file raises.
FlushFails(e, k) ==
  /\ enc[e][k].taken = <<>> /\ EndsNow(enc[e][k]) /\ enc[e][k].file = "open"
  /\ \E file \in {"open", "closed"} :
       Set(e, k, [enc[e][k] EXCEPT !.queue = IF @ = <<>> THEN @ ELSE Tail(@),
                                   !.thread = "crashed", !.file = file])

Crash(e, k) ==
  /\ Running(e, k) /\ faults.crashes < MaxCrashes
  /\ EncodeFails(e, k) \/ FlushFails(e, k)
  /\ faults' = [faults EXCEPT !.crashes = @ + 1]
  /\ UNCHANGED <<main, saved>>

Works(e, k) == TakeFrame(e, k) \/ EncodeFrame(e, k) \/ FlushAndClose(e, k)

EncoderThread(e, k) == Works(e, k) \/ Crash(e, k)

-----------------------------------------------------------------------------
Next == Main \/ \E e \in 1..MaxEpisodes, k \in Key : EncoderThread(e, k)

\* The main thread goes on by itself inside of the calls; when the next frame
\* comes, or the end of the episode, is not its choice.
Fairness ==
  /\ WF_vars(main.pc # "next" /\ Main)
  /\ \A e \in 1..MaxEpisodes, k \in Key : WF_vars(Works(e, k))

Spec == Init /\ [][Next]_vars
FairSpec == Spec /\ Fairness

-----------------------------------------------------------------------------
(* Properties.                                                             *)

Row == 1..MaxRows

\* Every variable keeps its type; no queue grows beyond its size.
TypeOK ==
  /\ main.pc \in {"next", "feed", "sentinel", "join", "drain", "video",
                  "cancel", "cancelJoin", "ended"}
  /\ main.key \in Key /\ main.episode \in 0..MaxEpisodes /\ main.rows \in 0..MaxRows
  /\ main.active \in BOOLEAN /\ main.then \in {"next", "video", "ended"}
  /\ main.late \subseteq (1..MaxEpisodes) \X Key
  /\ saved \subseteq 1..MaxEpisodes
  /\ \A e \in 1..MaxEpisodes, k \in Key :
       /\ enc[e][k].thread \in {"none", "run", "done", "crashed"}
       /\ enc[e][k].queue \in Seq(Row \cup {Sentinel}) /\ Len(enc[e][k].queue) <= QueueSize
       /\ enc[e][k].taken \in Seq(Row)
       /\ enc[e][k].video \in Seq(Row) /\ enc[e][k].stop \in BOOLEAN
       /\ enc[e][k].file \in {"none", "open", "closed"}
       /\ enc[e][k].place \in {"temp", "dataset", "cancelled"}

OnTime(e, k) == <<e, k>> \notin main.late

\* If an episode is saved, no encoder crashed, be it at its very end, and the video
\* of each camera is every frame that was accepted, in order, whatever the
\* encoders' speed, unless the encoder did not finish in time.
SavedVideosAreComplete ==
  \A e \in saved, k \in Key :
    OnTime(e, k) => enc[e][k].thread = "done" /\ enc[e][k].video = enc[e][k].accepted

\* save_episode raised after finish_episode, at the video of the key.
SavingRaised == main.pc = "ended" /\ main.then = "video"

\* When the recording has ended, no thread runs on, and no video lies about in the
\* temporary directories, unless saving an episode raised after its encoders had
\* finished: then it may be those of that episode, from the camera on at which it
\* raised.  Runs in which a thread did not end in time are left out.
NothingLeftBehind ==
  main.pc = "ended" /\ faults.timeouts = 0 =>
    \A e \in 1..MaxEpisodes, k \in Key :
      /\ ~Running(e, k)
      /\ enc[e][k].file # "none" /\ enc[e][k].place = "temp" =>
           SavingRaised /\ e = main.episode /\ k >= main.key

\* finish_episode puts its sentinel into the full queue of a thread that crashed.
Blocked == main.pc = "sentinel" /\ Mine.thread = "crashed" /\ Full(Mine.queue)

\* Feeding a frame, saving an episode and cancelling one come to an end, also
\* without any timeout, unless it is the encoder that crashed with its queue full:
\* the main thread is outside of these calls again and again.
CallsReturn == []<>(main.pc \in {"next", "ended"} \/ Blocked)

\* The encoder threads of an episode end once it is over, also one left behind whose
\* sentinel was thrown away.  (Over is for good, so again and again is enough.)
ThreadsEnd ==
  \A e \in 1..MaxEpisodes :
    []<>((main.active /\ main.episode = e) \/ \A k \in Key : ~Running(e, k))
=============================================================================
