------------------------ MODULE RtcActionQueue_proofs ------------------------
(***************************************************************************)
(* The safety of real-time chunking for every chunk size, threshold and    *)
(* latency.  The queue is always a run of consecutive steps, the robot has *)
(* performed the one before the index, and the chunk under way began with  *)
(* a step from which the robot has advanced by the attempts that were not  *)
(* starved.                                                                *)
(***************************************************************************)
EXTENDS RtcActionQueue, SequenceTheorems, TLAPS

Consecutive(q) == \A i \in 1..Len(q) : q[i] = q[1] + i - 1

\* The queue is one run, and of it the robot performed what is below the index.
QueueIsRun ==
  /\ Consecutive(queue)
  /\ lastIndex > 0 => performed = queue[lastIndex]

\* With RTC a merge drops at least one action of the chunk.
RtcQueueIsShort == enabled => Len(queue) < ChunkSize

\* What the observer counts before the inference begins ...
BeforeInference ==
  /\ inference.starved <= inference.waited
  /\ inference.pc \in {"index", "leftover"} =>
       inference.starved = 0 /\ inference.waited <= Slack
  /\ inference.pc = "index" => ~inference.torn
  /\ inference.pc = "leftover" /\ ~inference.torn => lastIndex = inference.index

\* ... and how far the robot is ahead of the chunk's first step when it ends.
AheadOfBase ==
  inference.pc = "infer" =>
    /\ NextStep <= inference.base + inference.waited - inference.starved
    /\ NextStep >= inference.base + inference.waited - inference.starved - Slack
    /\ ~inference.torn => NextStep = inference.base + lastIndex - inference.index

\* Without RTC a chunk is requested when the queue is empty.
DrainedWithoutRtc ==
  ~enabled =>
    /\ NextStep = performed + 1
    /\ inference.pc # "check" => QSize = 0
    /\ inference.pc = "infer" => inference.base = performed + 1

IInv == TypeOK /\ QueueIsRun /\ RtcQueueIsShort /\ BeforeInference
        /\ AheadOfBase /\ DrainedWithoutRtc

-----------------------------------------------------------------------------
(* The queue.                                                              *)

\* The first of the left-over actions, without the cut.
LEMMA NextOf ==
  ASSUME NEW q \in Seq(Nat), NEW i \in 0..Len(q), NEW p
  PROVE  (IF SubSeq(q, i + 1, Len(q)) = <<>> THEN p + 1 ELSE Head(SubSeq(q, i + 1, Len(q))))
           = IF i < Len(q) THEN q[i + 1] ELSE p + 1
<1>1. CASE i < Len(q)
  <2>1. i + 1 \in 1..Len(q) /\ Len(q) \in i + 1..Len(q)
    BY <1>1
  <2> DEFINE rest == SubSeq(q, i + 1, Len(q))
  <2>2. \A j \in i + 1..Len(q) : q[j] \in Nat
    BY <2>1, ElementOfSeq
  <2>3. /\ rest \in Seq(Nat) /\ Len(rest) = Len(q) - (i + 1) + 1
        /\ \A j \in 1..(Len(q) - (i + 1) + 1) : rest[j] = q[i + 1 + j - 1]
    BY <2>1, <2>2, SubSeqProperties
  <2> HIDE DEF rest
  <2>4. rest # <<>> /\ Head(rest) = q[i + 1]
    BY <2>1, <2>3
  <2> QED  BY <1>1, <2>4 DEF rest
<1>2. CASE ~(i < Len(q))
  <2>1. SubSeq(q, i + 1, Len(q)) = <<>>
    BY <1>2, SubSeqEmpty
  <2> QED  BY <1>2, <2>1
<1> QED  BY <1>1, <1>2

\* What is left of a chunk of consecutive steps behind its first delay actions.
LEMMA CutChunk ==
  ASSUME TypeOK, NEW delay \in Nat
  PROVE  LET cut == SubSeq(Chunk, delay + 1, ChunkSize)
         IN  /\ cut \in Seq(Nat)
             /\ Len(cut) = IF delay < ChunkSize THEN ChunkSize - delay ELSE 0
             /\ \A i \in 1..Len(cut) : cut[i] = inference.base + delay + i - 1
<1>1. ChunkSize \in Nat /\ inference.base \in Nat
  BY RtcAssumption DEF TypeOK, InferenceThread
<1>2. \A i \in 1..ChunkSize : Chunk[i] \in Nat /\ Chunk[i] = inference.base + i - 1
  BY <1>1 DEF Chunk
<1>3. \A i \in delay + 1..ChunkSize : Chunk[i] \in Nat
  BY <1>1, <1>2
<1> DEFINE cut == SubSeq(Chunk, delay + 1, ChunkSize)
<1>4. /\ cut \in Seq(Nat)
      /\ Len(cut) = IF delay + 1 <= ChunkSize THEN ChunkSize - (delay + 1) + 1 ELSE 0
      /\ \A i \in 1..(ChunkSize - (delay + 1) + 1) : cut[i] = Chunk[delay + 1 + i - 1]
  BY <1>1, <1>3, SubSeqProperties
<1> HIDE DEF cut
<1>5. \A i \in 1..Len(cut) : cut[i] = inference.base + delay + i - 1
  BY SMTT(30), <1>1, <1>2, <1>4
<1> QED  BY <1>1, <1>4, <1>5 DEF cut

\* What is left of the queue behind the index, and the whole chunk.
LEMMA AppendedChunk ==
  ASSUME TypeOK, lastIndex = Len(queue)
  PROVE  LET all == SubSeq(queue \o Chunk, lastIndex + 1, Len(queue \o Chunk))
         IN  /\ all \in Seq(Nat) /\ Len(all) = ChunkSize
             /\ \A i \in 1..ChunkSize : all[i] = inference.base + i - 1
<1>1. ChunkSize \in Nat /\ inference.base \in Nat /\ queue \in Seq(Nat)
  BY RtcAssumption DEF TypeOK, InferenceThread
<1>2. Chunk \in [1..ChunkSize -> Nat]
  BY <1>1 DEF Chunk
<1>3. Chunk \in Seq(Nat) /\ Len(Chunk) = ChunkSize
  BY <1>1, <1>2
<1>4. \A i \in 1..ChunkSize : Chunk[i] = inference.base + i - 1
  BY DEF Chunk
<1> HIDE DEF Chunk
<1> DEFINE both == queue \o Chunk
<1>5. /\ both \in Seq(Nat) /\ Len(both) = Len(queue) + ChunkSize
      /\ \A i \in 1..Len(queue) + ChunkSize :
           both[i] = IF i <= Len(queue) THEN queue[i] ELSE Chunk[i - Len(queue)]
  BY <1>1, <1>3, ConcatProperties
<1> HIDE DEF both
<1>6. Len(queue) \in Nat
  BY <1>1
<1>7. \A i \in lastIndex + 1..Len(both) : both[i] \in Nat
  BY <1>5, <1>6, ElementOfSeq
<1> DEFINE all == SubSeq(both, lastIndex + 1, Len(both))
<1>8. /\ all \in Seq(Nat)
      /\ Len(all) = IF lastIndex + 1 <= Len(both) THEN Len(both) - (lastIndex + 1) + 1 ELSE 0
      /\ \A i \in 1..(Len(both) - (lastIndex + 1) + 1) : all[i] = both[lastIndex + 1 + i - 1]
  BY SMTT(30), <1>1, <1>5, <1>6, <1>7, SubSeqProperties
<1> HIDE DEF all
<1>9. Len(all) = ChunkSize
  BY <1>1, <1>5, <1>6, <1>8
<1>10. ASSUME NEW i \in 1..ChunkSize
       PROVE  all[i] = inference.base + i - 1
  <2>1. i \in 1..(Len(both) - (lastIndex + 1) + 1)
    BY <1>1, <1>5, <1>6
  <2>2. all[i] = both[Len(queue) + i]
    BY <1>1, <1>6, <1>8, <2>1
  <2>3. /\ Len(queue) + i \in 1..Len(queue) + ChunkSize /\ ~(Len(queue) + i <= Len(queue))
        /\ Len(queue) + i - Len(queue) = i
    BY <1>1, <1>6
  <2>4. both[Len(queue) + i] = Chunk[i]
    BY <1>5, <2>3
  <2> QED  BY <1>4, <2>2, <2>4
<1> QED  BY <1>8, <1>9, <1>10 DEF all, both

-----------------------------------------------------------------------------
(* The steps.                                                              *)

LEMMA NextStepIs ==
  ASSUME TypeOK
  PROVE  NextStep = IF lastIndex < Len(queue) THEN queue[lastIndex + 1] ELSE performed + 1
BY NextOf DEF TypeOK, NextStep, LeftOver

LEMMA NextStepNow ==
  ASSUME TypeOK'
  PROVE  NextStep' = IF lastIndex' < Len(queue') THEN queue'[lastIndex' + 1] ELSE performed' + 1
BY NextOf DEF TypeOK, NextStep, LeftOver

\* An attempt in numbers.
LEMMA AttemptFields ==
  ASSUME TypeOK, NEW found \in BOOLEAN, Attempt(found), inference.pc # "check"
  PROVE  /\ inference'.pc = inference.pc /\ inference'.index = inference.index
         /\ inference'.base = inference.base
         /\ inference'.waited = inference.waited + 1 /\ inference.waited < Patience
         /\ inference'.starved = IF inference.pc = "infer" /\ ~found
                                 THEN inference.starved + 1 ELSE inference.starved
         /\ inference'.torn <=> (inference.torn \/ (inference.pc = "leftover" /\ found))
BY DEF TypeOK, InferenceThread, Attempt

LEMMA AttemptType ==
  ASSUME TypeOK, BeforeInference, NEW found \in BOOLEAN, Attempt(found)
  PROVE  inference' \in InferenceThread
<1>1. /\ inference \in InferenceThread /\ inference.waited \in 0..MaxWait
      /\ inference.starved \in 0..MaxWait /\ inference.starved <= inference.waited
      /\ MaxWait \in Nat /\ Slack \in Nat /\ Slack <= MaxWait
  BY RtcAssumption DEF TypeOK, InferenceThread, BeforeInference
<1>2. CASE inference.pc = "check"
  BY <1>1, <1>2 DEF Attempt
<1>3. CASE inference.pc # "check"
  <2> DEFINE more == IF inference.pc = "infer" /\ ~found THEN inference.starved + 1
                     ELSE inference.starved
             torn == inference.torn \/ (inference.pc = "leftover" /\ found)
  <2>1. /\ inference.waited < Patience
        /\ inference' = [inference EXCEPT !.waited = inference.waited + 1, !.starved = more,
                                          !.torn = torn]
    BY <1>3 DEF Attempt
  <2>2. Patience <= MaxWait /\ Patience \in Nat
    BY <1>1, <1>3 DEF Patience, InferenceThread
  <2>3. /\ inference.waited + 1 \in 0..MaxWait /\ more \in 0..MaxWait /\ torn \in BOOLEAN
    BY <1>1, <2>1, <2>2 DEF InferenceThread
  <2> HIDE DEF more, torn
  <2> QED  BY <1>1, <2>1, <2>3 DEF InferenceThread
<1> QED  BY <1>2, <1>3

\* An action that is taken is the next step, and the one after it is next then.
LEMMA GetStep ==
  ASSUME IInv, Get
  PROVE  /\ TypeOK'
         /\ performed' = NextStep /\ NextStep' = NextStep + 1
         /\ queue' = queue /\ lastIndex' = lastIndex + 1 /\ QSize > 0
<1>t. TypeOK /\ QueueIsRun /\ BeforeInference
  BY DEF IInv
<1>1. /\ queue \in Seq(Nat) /\ lastIndex \in 0..Len(queue) /\ lastIndex < Len(queue)
      /\ Len(queue) \in Nat
      /\ queue' = queue /\ lastIndex' = lastIndex + 1 /\ performed' = queue[lastIndex + 1]
      /\ enabled' = enabled
  <2>1. /\ QSize > 0 /\ enabled' = enabled
        /\ queue' = queue /\ lastIndex' = lastIndex + 1 /\ performed' = queue[lastIndex + 1]
    BY DEF Get
  <2>2. queue \in Seq(Nat) /\ lastIndex \in 0..Len(queue) /\ Len(queue) \in Nat
    BY <1>t DEF TypeOK
  <2> QED  BY <2>1, <2>2 DEF QSize
<1>2. queue[lastIndex + 1] \in Nat
  BY <1>1, ElementOfSeq
<1>3. inference' \in InferenceThread
  BY <1>t, AttemptType DEF Get
<1>4. TypeOK'
  <2>1. alive' = alive
    BY DEF Get
  <2> QED  BY <1>1, <1>2, <1>3, <2>1 DEF IInv, TypeOK
<1>5. NextStep = queue[lastIndex + 1]
  BY <1>1, NextStepIs DEF IInv
<1>6. NextStep' = IF lastIndex + 1 < Len(queue) THEN queue[lastIndex + 2]
                  ELSE queue[lastIndex + 1] + 1
  BY <1>1, <1>4, NextStepNow
<1>7. lastIndex + 1 < Len(queue) => queue[lastIndex + 2] = queue[lastIndex + 1] + 1
  <2>1. /\ lastIndex + 1 \in 1..Len(queue)
        /\ lastIndex + 1 < Len(queue) => lastIndex + 2 \in 1..Len(queue)
    BY <1>1
  <2>2. 1 \in 1..Len(queue) /\ queue[1] \in Nat
    BY <1>1, ElementOfSeq
  <2>a. \A i \in 1..Len(queue) : queue[i] = queue[1] + i - 1
    BY <1>t DEF QueueIsRun, Consecutive
  <2>3. /\ queue[lastIndex + 1] = queue[1] + (lastIndex + 1) - 1
        /\ lastIndex + 1 < Len(queue) => queue[lastIndex + 2] = queue[1] + (lastIndex + 2) - 1
    BY <2>1, <2>a
  <2> QED  BY <1>1, <2>2, <2>3
<1> QED  BY <1>1, <1>4, <1>5, <1>6, <1>7 DEF QSize

LEMMA GetInv == IInv /\ Get => IInv'
<1> SUFFICES ASSUME IInv, Get PROVE IInv'
  OBVIOUS
<1>t. /\ TypeOK /\ QueueIsRun /\ RtcQueueIsShort /\ BeforeInference /\ AheadOfBase
      /\ DrainedWithoutRtc
  BY DEF IInv
<1>n. /\ Len(queue) \in Nat /\ lastIndex \in Nat /\ lastIndex < Len(queue)
      /\ NextStep \in Nat /\ performed \in Int
      /\ inference.waited \in Nat /\ inference.starved \in Nat
      /\ inference.base \in Nat /\ inference.index \in Nat /\ Slack \in Nat
  <2>1. /\ Len(queue) \in Nat /\ lastIndex \in Nat /\ lastIndex < Len(queue)
        /\ queue \in Seq(Nat) /\ performed \in Int
        /\ inference.waited \in Nat /\ inference.starved \in Nat
        /\ inference.base \in Nat /\ inference.index \in Nat /\ Slack \in Nat
    BY <1>t, RtcAssumption DEF Get, QSize, TypeOK, InferenceThread
  <2>2. NextStep = queue[lastIndex + 1] /\ queue[lastIndex + 1] \in Nat
    BY <1>t, <2>1, NextStepIs, ElementOfSeq
  <2> QED  BY <2>1, <2>2
<1>1. /\ TypeOK' /\ performed' = NextStep /\ NextStep' = NextStep + 1
      /\ queue' = queue /\ lastIndex' = lastIndex + 1 /\ QSize > 0
  BY GetStep
<1>2. enabled' = enabled /\ performed' = queue[lastIndex + 1]
  BY DEF Get
<1>3. QueueIsRun'
  BY <1>t, <1>n, <1>1, <1>2 DEF QueueIsRun, Consecutive
<1>4. CASE inference.pc = "check"
  <2>1. inference' = inference
    BY <1>4 DEF Get, Attempt
  <2> QED
    BY <1>t, <1>n, <1>1, <1>2, <1>3, <1>4, <2>1
       DEF IInv, RtcQueueIsShort, BeforeInference, AheadOfBase, DrainedWithoutRtc
<1>5. CASE inference.pc # "check"
  <2>1. /\ inference'.pc = inference.pc /\ inference'.index = inference.index
        /\ inference'.base = inference.base
        /\ inference'.waited = inference.waited + 1 /\ inference.waited < Patience
        /\ inference'.starved = inference.starved
        /\ inference'.torn <=> (inference.torn \/ inference.pc = "leftover")
    <3>1. Attempt(TRUE)
      BY DEF Get
    <3> QED  BY <1>t, <1>5, <3>1, AttemptFields
  <2>2. RtcQueueIsShort'
    BY <1>t, <1>n, <1>1, <1>2, <1>5, <2>1 DEF RtcQueueIsShort, QSize
  <2>3. BeforeInference'
    <3>1. inference.pc \in {"index", "leftover"} => Patience = Slack
      BY DEF Patience
    <3> QED  BY <1>t, <1>n, <1>1, <2>1, <3>1 DEF BeforeInference
  <2>4. AheadOfBase'
    <3> SUFFICES ASSUME inference.pc = "infer"
                 PROVE  AheadOfBase'
      BY <2>1 DEF AheadOfBase
    <3>1. /\ NextStep <= inference.base + inference.waited - inference.starved
          /\ NextStep >= inference.base + inference.waited - inference.starved - Slack
          /\ ~inference.torn => NextStep = inference.base + lastIndex - inference.index
      BY <1>t DEF AheadOfBase
    <3>2. NextStep' = NextStep + 1 /\ lastIndex' = lastIndex + 1
      BY <1>1
    <3>3. /\ NextStep' <= inference'.base + inference'.waited - inference'.starved
          /\ NextStep' >= inference'.base + inference'.waited - inference'.starved - Slack
      <4>0. /\ NextStep \in Int /\ inference.base \in Int /\ inference.waited \in Int
            /\ inference.starved \in Int /\ Slack \in Int
        BY <1>n
      <4>1. /\ NextStep + 1 <= inference.base + (inference.waited + 1) - inference.starved
            /\ NextStep + 1 >= inference.base + (inference.waited + 1) - inference.starved - Slack
        BY <3>1, <4>0
      <4> QED  BY <2>1, <3>2, <4>1, Zenon
    <3>4. ~inference'.torn => NextStep' = inference'.base + lastIndex' - inference'.index
      <4>0. /\ NextStep \in Int /\ inference.base \in Int /\ inference.index \in Int
            /\ lastIndex \in Int
        BY <1>n
      <4>1. ~inference.torn => NextStep + 1 = inference.base + (lastIndex + 1) - inference.index
        BY <3>1, <4>0
      <4> QED  BY <2>1, <3>2, <4>1, Zenon
    <3> QED  BY <3>3, <3>4 DEF AheadOfBase
  <2>5. DrainedWithoutRtc'
    BY <1>t, <1>1, <1>2, <1>5 DEF DrainedWithoutRtc
  <2> QED  BY <1>1, <1>3, <2>2, <2>3, <2>4, <2>5 DEF IInv
<1> QED  BY <1>4, <1>5

LEMMA GetNoneInv == IInv /\ GetNone => IInv'
<1> SUFFICES ASSUME IInv, GetNone PROVE IInv'
  OBVIOUS
<1>t. /\ TypeOK /\ QueueIsRun /\ RtcQueueIsShort /\ BeforeInference /\ AheadOfBase
      /\ DrainedWithoutRtc
  BY DEF IInv
<1>1. /\ enabled' = enabled /\ queue' = queue /\ lastIndex' = lastIndex
      /\ performed' = performed /\ ~(QSize > 0)
      /\ NextStep' = NextStep /\ QSize' = QSize
  <2>1. /\ enabled' = enabled /\ queue' = queue /\ lastIndex' = lastIndex
        /\ performed' = performed /\ QSize <= 0
    BY DEF GetNone
  <2>2. QSize \in Int
    BY <1>t DEF TypeOK, QSize
  <2> QED  BY <2>1, <2>2 DEF NextStep, LeftOver, QSize
<1>2. inference' \in InferenceThread
  BY <1>t, AttemptType DEF GetNone
<1>3. TypeOK'
  <2>1. alive' = alive
    BY DEF GetNone
  <2> QED  BY <1>t, <1>1, <1>2, <2>1 DEF TypeOK
<1>4. QueueIsRun' /\ RtcQueueIsShort'
  BY <1>t, <1>1 DEF QueueIsRun, Consecutive, RtcQueueIsShort
<1>5. CASE inference.pc = "check"
  <2>1. inference' = inference
    BY <1>5 DEF GetNone, Attempt
  <2> QED
    BY <1>t, <1>1, <1>3, <1>4, <2>1
       DEF IInv, BeforeInference, AheadOfBase, DrainedWithoutRtc
<1>6. CASE inference.pc # "check"
  <2>1. /\ inference'.pc = inference.pc /\ inference'.index = inference.index
        /\ inference'.base = inference.base
        /\ inference'.waited = inference.waited + 1 /\ inference.waited < Patience
        /\ inference'.starved = IF inference.pc = "infer"
                                THEN inference.starved + 1 ELSE inference.starved
        /\ inference'.torn <=> inference.torn
    <3>1. Attempt(FALSE)
      BY DEF GetNone
    <3>2. inference.torn \in BOOLEAN
      BY <1>t DEF TypeOK, InferenceThread
    <3> QED  BY <1>t, <1>6, <3>1, <3>2, AttemptFields
  <2>2. /\ inference.waited \in Nat /\ inference.starved \in Nat
        /\ inference.base \in Nat /\ Slack \in Nat
    BY <1>t, RtcAssumption DEF TypeOK, InferenceThread
  <2>3. BeforeInference'
    BY <1>t, <1>1, <1>6, <2>1, <2>2 DEF BeforeInference, Patience
  <2>4. AheadOfBase'
    BY <1>t, <1>1, <2>1, <2>2 DEF AheadOfBase
  <2>5. DrainedWithoutRtc'
    BY <1>t, <1>1, <2>1 DEF DrainedWithoutRtc
  <2> QED  BY <1>3, <1>4, <2>3, <2>4, <2>5 DEF IInv
<1> QED  BY <1>5, <1>6

\* The inference thread between two requests and at the beginning of one.
LEMMA IdleThread ==
  /\ Idle \in InferenceThread /\ Idle.pc = "check" /\ Idle.waited = 0 /\ Idle.starved = 0
  /\ LET thread == [Idle EXCEPT !.pc = "index"]
     IN  /\ thread \in InferenceThread /\ thread.pc = "index" /\ thread.waited = 0
         /\ thread.starved = 0 /\ thread.torn = FALSE
  /\ \A delay \in Nat :
       LET thread == [Idle EXCEPT !.delay = delay]
       IN  /\ thread \in InferenceThread /\ thread.pc = "check" /\ thread.waited = 0
           /\ thread.starved = 0
<1>1. 0 \in 0..MaxWait
  BY RtcAssumption
<1> QED  BY <1>1 DEF Idle, InferenceThread

LEMMA RequestInv == IInv /\ (CheckSize \/ GetActionIndex \/ GetLeftOver) => IInv'
<1> SUFFICES ASSUME IInv, CheckSize \/ GetActionIndex \/ GetLeftOver PROVE IInv'
  OBVIOUS
<1>t. /\ TypeOK /\ QueueIsRun /\ RtcQueueIsShort /\ BeforeInference /\ AheadOfBase
      /\ DrainedWithoutRtc
  BY DEF IInv
<1>n. /\ Len(queue) \in Nat /\ lastIndex \in Nat /\ lastIndex <= Len(queue)
      /\ NextStep \in Nat /\ queue \in Seq(Nat) /\ performed \in Nat \cup {-1}
      /\ inference \in InferenceThread /\ QSize \in Nat
      /\ MaxWait \in Nat /\ Slack \in Nat
  <2>1. /\ Len(queue) \in Nat /\ lastIndex \in Nat /\ lastIndex <= Len(queue)
        /\ queue \in Seq(Nat) /\ performed \in Nat \cup {-1}
        /\ inference \in InferenceThread /\ MaxWait \in Nat /\ Slack \in Nat
    BY <1>t, RtcAssumption DEF TypeOK
  <2>2. lastIndex < Len(queue) => queue[lastIndex + 1] \in Nat
    BY <2>1, ElementOfSeq
  <2>3. NextStep \in Nat
    BY <1>t, <2>1, <2>2, NextStepIs
  <2> QED  BY <2>1, <2>3 DEF QSize
<1>1. /\ enabled' = enabled /\ queue' = queue /\ lastIndex' = lastIndex
      /\ performed' = performed /\ alive' = alive
  BY DEF CheckSize, GetActionIndex, GetLeftOver
<1>2. NextStep' = NextStep /\ QSize' = QSize
  BY <1>1 DEF NextStep, LeftOver, QSize
<1>3. QueueIsRun'
  BY <1>t, <1>1 DEF QueueIsRun, Consecutive
<1>4. CASE CheckSize
  <2>1. /\ inference' = [Idle EXCEPT !.pc = "index"]
        /\ enabled \in BOOLEAN /\ (~enabled => QSize <= 0)
    <3>1. ~enabled => GetActionsThreshold = 0
      BY DEF GetActionsThreshold
    <3>2. QSize <= GetActionsThreshold
      BY <1>4 DEF CheckSize
    <3>3. ~enabled => QSize <= 0
      BY <3>1, <3>2
    <3> QED  BY <1>t, <1>4, <3>3 DEF CheckSize, TypeOK
  <2>2. /\ inference' \in InferenceThread /\ inference'.pc = "index" /\ inference'.waited = 0
        /\ inference'.starved = 0 /\ inference'.torn = FALSE
    BY <2>1, IdleThread
  <2>3. TypeOK'
    BY <1>t, <1>1, <2>2 DEF TypeOK
  <2>4. RtcQueueIsShort' /\ BeforeInference' /\ AheadOfBase' /\ DrainedWithoutRtc'
    BY <1>t, <1>n, <1>1, <1>2, <2>1, <2>2
       DEF RtcQueueIsShort, BeforeInference, AheadOfBase, DrainedWithoutRtc
  <2> QED  BY <1>3, <2>3, <2>4 DEF IInv
<1>5. CASE GetActionIndex
  <2>1. /\ inference' \in InferenceThread
        /\ inference.pc = "index" /\ inference'.pc = "leftover"
        /\ inference'.waited = inference.waited /\ inference'.starved = inference.starved
        /\ inference'.index = lastIndex
    BY <1>n, <1>5 DEF GetActionIndex, InferenceThread
  <2>2. TypeOK'
    BY <1>t, <1>1, <2>1 DEF TypeOK
  <2>3. RtcQueueIsShort' /\ BeforeInference' /\ AheadOfBase' /\ DrainedWithoutRtc'
    BY <1>t, <1>n, <1>1, <1>2, <2>1
       DEF RtcQueueIsShort, BeforeInference, AheadOfBase, DrainedWithoutRtc
  <2> QED  BY <1>3, <2>2, <2>3 DEF IInv
<1>6. CASE GetLeftOver
  <2>1. /\ inference' \in InferenceThread
        /\ inference.pc = "leftover" /\ inference'.pc = "infer"
        /\ inference'.waited = inference.waited /\ inference'.starved = inference.starved
        /\ inference'.index = inference.index /\ inference'.base = NextStep
        /\ (inference'.torn <=> inference.torn)
    BY <1>n, <1>6 DEF GetLeftOver, InferenceThread
  <2>2. /\ inference.waited \in Nat /\ inference.waited <= Slack /\ inference.starved = 0
        /\ ~inference.torn => lastIndex = inference.index
    BY <1>t, <1>n, <2>1 DEF BeforeInference, InferenceThread
  <2>3. TypeOK'
    BY <1>t, <1>1, <2>1 DEF TypeOK
  <2>4. RtcQueueIsShort' /\ BeforeInference' /\ DrainedWithoutRtc'
    BY <1>t, <1>n, <1>1, <1>2, <2>1, <2>2
       DEF RtcQueueIsShort, BeforeInference, DrainedWithoutRtc
  <2>5. AheadOfBase'
    BY <1>n, <1>1, <1>2, <2>1, <2>2 DEF AheadOfBase
  <2> QED  BY <1>3, <2>3, <2>4, <2>5 DEF IInv
<1> QED  BY <1>4, <1>5, <1>6

\* What a merge leaves, in numbers.
LEMMA MergeStep ==
  ASSUME IInv, NEW delay \in 1..MaxDelay, Merge(delay)
  PROVE  /\ enabled' = enabled /\ performed' = performed /\ lastIndex' = 0
         /\ queue' \in Seq(Nat) /\ inference' = [Idle EXCEPT !.delay = delay]
         /\ inference.pc = "infer" /\ delay >= inference.waited - Slack
         /\ enabled =>
              /\ Len(queue') = IF delay < ChunkSize THEN ChunkSize - delay ELSE 0
              /\ \A i \in 1..Len(queue') : queue'[i] = inference.base + delay + i - 1
         /\ ~enabled =>
              /\ Len(queue') = ChunkSize
              /\ \A i \in 1..Len(queue') : queue'[i] = inference.base + i - 1
<1>t. TypeOK /\ DrainedWithoutRtc /\ delay \in Nat /\ MaxDelay \in Nat
  BY RtcAssumption DEF IInv
<1>1. /\ enabled' = enabled /\ performed' = performed /\ lastIndex' = 0
      /\ inference' = [Idle EXCEPT !.delay = delay]
      /\ inference.pc = "infer" /\ delay >= inference.waited - Slack
  BY DEF Merge, NewDelays, ReplaceActionsQueue, AppendActionsQueue
<1>2. CASE enabled
  <2>1. queue' = SubSeq(Chunk, delay + 1, ChunkSize)
    BY <1>2 DEF Merge, ReplaceActionsQueue
  <2> QED  BY <1>t, <1>1, <1>2, <2>1, CutChunk
<1>3. CASE ~enabled
  <2>1. queue' = SubSeq(queue \o Chunk, lastIndex + 1, Len(queue \o Chunk))
    BY <1>3 DEF Merge, AppendActionsQueue
  <2>2. QSize = 0
    BY <1>t, <1>1, <1>3 DEF DrainedWithoutRtc
  <2>3. lastIndex = Len(queue)
    BY <1>t, <2>2 DEF QSize, TypeOK
  <2> QED  BY <1>t, <1>1, <1>3, <2>1, <2>3, AppendedChunk
<1> QED  BY <1>2, <1>3

LEMMA MergeInv ==
  ASSUME IInv, NEW delay \in 1..MaxDelay, Merge(delay)
  PROVE  IInv'
<1>t. /\ TypeOK /\ DrainedWithoutRtc /\ delay \in Nat /\ delay >= 1 /\ MaxDelay \in Nat
      /\ ChunkSize \in Nat /\ ChunkSize >= 1 /\ inference.base \in Nat
      /\ performed \in Nat \cup {-1} /\ enabled \in BOOLEAN
  BY RtcAssumption DEF IInv, TypeOK, InferenceThread
<1>1. /\ enabled' = enabled /\ performed' = performed /\ lastIndex' = 0
      /\ queue' \in Seq(Nat) /\ inference' = [Idle EXCEPT !.delay = delay]
      /\ inference.pc = "infer"
  BY MergeStep
<1>2. enabled =>
        /\ Len(queue') = IF delay < ChunkSize THEN ChunkSize - delay ELSE 0
        /\ \A i \in 1..Len(queue') : queue'[i] = inference.base + delay + i - 1
  BY MergeStep
<1>3. ~enabled =>
        /\ Len(queue') = ChunkSize
        /\ \A i \in 1..Len(queue') : queue'[i] = inference.base + i - 1
  BY MergeStep
<1>4. /\ inference' \in InferenceThread /\ inference'.pc = "check"
      /\ inference'.waited = 0 /\ inference'.starved = 0
  BY <1>t, <1>1, IdleThread
<1>5. TypeOK'
  <2>1. 0 \in 0..Len(queue') /\ lastIndex' \in 0..Len(queue')
    BY <1>1
  <2>2. alive' = alive
    BY DEF Merge
  <2> QED  BY <1>t, <1>1, <1>4, <2>1, <2>2 DEF TypeOK
<1>6. QueueIsRun'
  <2>1. ASSUME NEW i \in 1..Len(queue')
        PROVE  queue'[i] = queue'[1] + i - 1
    <3>1. 1 \in 1..Len(queue') /\ i \in Nat
      BY <1>1
    <3>2. CASE enabled
      <4>1. /\ queue'[i] = inference.base + delay + i - 1
            /\ queue'[1] = inference.base + delay + 1 - 1
        BY <1>2, <3>1, <3>2
      <4> QED  BY <1>t, <3>1, <4>1
    <3>3. CASE ~enabled
      <4>1. /\ queue'[i] = inference.base + i - 1
            /\ queue'[1] = inference.base + 1 - 1
        BY <1>3, <3>1, <3>3
      <4> QED  BY <1>t, <3>1, <4>1
    <3> QED  BY <3>2, <3>3
  <2> QED  BY <1>1, <2>1 DEF QueueIsRun, Consecutive
<1>7. RtcQueueIsShort'
  <2>1. enabled' => Len(queue') < ChunkSize
    BY <1>t, <1>1, <1>2
  <2> QED  BY <1>4, <2>1 DEF RtcQueueIsShort
<1>8. BeforeInference' /\ AheadOfBase'
  BY <1>4 DEF BeforeInference, AheadOfBase
<1>9. DrainedWithoutRtc'
  <2> SUFFICES ASSUME ~enabled
               PROVE  NextStep' = performed + 1
    BY <1>1, <1>4 DEF DrainedWithoutRtc
  <2>1. queue'[1] = inference.base + 1 - 1 /\ 0 < Len(queue')
    BY <1>t, <1>3
  <2>2. NextStep' = queue'[1]
    BY <1>1, <1>5, <2>1, NextStepNow
  <2>3. inference.base = performed + 1
    BY <1>t, <1>1 DEF DrainedWithoutRtc
  <2> QED  BY <1>t, <2>1, <2>2, <2>3
<1> QED  BY <1>5, <1>6, <1>7, <1>8, <1>9 DEF IInv

\* The end of a thread leaves the queue and the plan alone.
LEMMA RaiseInv == IInv /\ (InferenceRaises \/ SendRaises) => IInv'
<1> SUFFICES ASSUME IInv, InferenceRaises \/ SendRaises PROVE IInv'
  OBVIOUS
<1>1. /\ enabled' = enabled /\ queue' = queue /\ lastIndex' = lastIndex
      /\ performed' = performed /\ alive' \in SUBSET Threads
      /\ inference' = Idle \/ inference' = inference
  BY DEF InferenceRaises, SendRaises, IInv, TypeOK
<1>2. NextStep' = NextStep /\ QSize' = QSize
  BY <1>1 DEF NextStep, LeftOver, QSize
<1>3. /\ TypeOK' /\ QueueIsRun' /\ RtcQueueIsShort'
  BY <1>1, IdleThread DEF IInv, TypeOK, QueueIsRun, Consecutive, RtcQueueIsShort
<1>4. BeforeInference' /\ AheadOfBase' /\ DrainedWithoutRtc'
  BY <1>1, <1>2, IdleThread, RtcAssumption
     DEF IInv, BeforeInference, AheadOfBase, DrainedWithoutRtc
<1> QED  BY <1>3, <1>4 DEF IInv

LEMMA InitInv == Init => IInv
<1> SUFFICES ASSUME Init PROVE IInv
  OBVIOUS
<1>1. /\ enabled \in BOOLEAN /\ queue = <<>> /\ lastIndex = 0 /\ performed = -1
      /\ inference = Idle
  BY DEF Init
<1>2. TypeOK
  <2>1. alive \in SUBSET Threads
    BY DEF Init
  <2> QED  BY <1>1, <2>1, IdleThread DEF TypeOK
<1>3. NextStep = performed + 1 /\ Len(queue) = 0
  BY <1>1, <1>2, NextStepIs
<1> QED
  BY <1>1, <1>2, <1>3, IdleThread, RtcAssumption
     DEF IInv, QueueIsRun, Consecutive, RtcQueueIsShort, BeforeInference, AheadOfBase,
         DrainedWithoutRtc

LEMMA NextInv == IInv /\ [Next]_vars => IInv'
<1> SUFFICES ASSUME IInv, [Next]_vars PROVE IInv'
  OBVIOUS
<1>1. CASE UNCHANGED vars
  BY <1>1 DEF vars, IInv, TypeOK, QueueIsRun, Consecutive, RtcQueueIsShort, QSize,
              BeforeInference, AheadOfBase, NextStep, LeftOver, DrainedWithoutRtc
<1>2. CASE Actor
  BY <1>2, GetInv, GetNoneInv DEF Actor
<1>3. CASE GetActions
  BY <1>3, RequestInv, MergeInv DEF GetActions
<1>4. CASE InferenceRaises \/ SendRaises
  BY <1>4, RaiseInv
<1> QED  BY <1>1, <1>2, <1>3, <1>4 DEF Next

LEMMA Invariance == Spec => []IInv
<1> QED  BY InitInv, NextInv, PTL DEF Spec

-----------------------------------------------------------------------------
(* The jump of a merge.                                                    *)

LEMMA NextNumbers ==
  ASSUME IInv
  PROVE  /\ NextStep \in Int /\ performed \in Int /\ lastIndex \in Int /\ Len(queue) \in Int
         /\ 0 <= lastIndex /\ lastIndex <= Len(queue)
         /\ inference.base \in Int /\ inference.index \in Int
         /\ inference.waited \in Int /\ inference.starved \in Int /\ inference.starved >= 0
         /\ Slack \in Int /\ Slack >= 0 /\ ChunkSize \in Int
<1>1. /\ TypeOK /\ queue \in Seq(Nat) /\ lastIndex \in 0..Len(queue) /\ Len(queue) \in Nat
      /\ performed \in Nat \cup {-1} /\ inference \in InferenceThread
      /\ Slack \in Nat /\ ChunkSize \in Nat
  BY RtcAssumption DEF IInv, TypeOK
<1>2. lastIndex < Len(queue) => queue[lastIndex + 1] \in Nat
  BY <1>1, ElementOfSeq
<1>3. NextStep \in Int
  BY <1>1, <1>2, NextStepIs
<1> QED  BY <1>1, <1>3 DEF InferenceThread

LEMMA MergeJump ==
  ASSUME IInv, NEW delay \in 1..MaxDelay, Merge(delay), enabled
  PROVE  /\ delay < ChunkSize
              => Jump \in (-Slack)..(Slack + inference.starved + delay - inference.waited)
         /\ ~inference.torn /\ lastIndex - inference.index = delay => Jump = 0
<1>1. /\ lastIndex' = 0 /\ inference.pc = "infer"
      /\ delay >= inference.waited - Slack
      /\ Len(queue') = IF delay < ChunkSize THEN ChunkSize - delay ELSE 0
      /\ \A i \in 1..Len(queue') : queue'[i] = inference.base + delay + i - 1
  BY MergeStep
<1>2. TypeOK'
  BY MergeInv DEF IInv
<1>3. delay \in Int
  BY RtcAssumption
<1>4. CASE delay < ChunkSize
  <2>1. Len(queue') > 0 /\ queue'[1] = inference.base + delay + 1 - 1
    BY <1>1, <1>3, <1>4, NextNumbers
  <2>2. NextStep' = inference.base + delay
    BY <1>1, <1>2, <1>3, <2>1, NextNumbers, NextStepNow
  <2>3. /\ NextStep <= inference.base + inference.waited - inference.starved
        /\ NextStep >= inference.base + inference.waited - inference.starved - Slack
        /\ ~inference.torn => NextStep = inference.base + lastIndex - inference.index
    BY <1>1 DEF IInv, AheadOfBase
  <2>4. /\ NextStep \in Int /\ inference.base \in Int /\ inference.waited \in Int
        /\ inference.starved \in Int /\ inference.index \in Int /\ lastIndex \in Int
        /\ Slack \in Int /\ inference.starved >= 0
    BY NextNumbers
  <2>5. Jump = inference.base + delay - NextStep
    BY <1>3, <2>2, <2>4 DEF Jump
  <2>6. /\ Jump \in Int /\ Jump >= -Slack
        /\ Jump <= Slack + inference.starved + delay - inference.waited
    <3>1. delay >= inference.waited - Slack
      BY <1>1
    <3> QED  BY <1>3, <2>3, <2>4, <2>5, <3>1
  <2>7. ~inference.torn /\ lastIndex - inference.index = delay => Jump = 0
    BY <1>3, <2>3, <2>4, <2>5
  <2> QED  BY <1>3, <2>4, <2>6, <2>7
<1>5. CASE ~(delay < ChunkSize)
  <2>1. enabled /\ Len(queue) < ChunkSize /\ inference.index >= 0
    BY DEF IInv, RtcQueueIsShort, TypeOK, InferenceThread
  <2>2. lastIndex - inference.index < ChunkSize
    BY <2>1, NextNumbers
  <2> QED  BY <1>3, <1>5, <2>2, NextNumbers
<1> QED  BY <1>4, <1>5

-----------------------------------------------------------------------------
(* The results.                                                            *)

\* The state keeps its type; the index never runs past the end of the queue.
THEOREM TypeCorrect == Spec => []TypeOK
<1>1. IInv => TypeOK
  BY DEF IInv
<1> QED  BY Invariance, <1>1, PTL

\* Without RTC appending chunks never repeats or skips a step of the plan, for
\* every chunk size and however long inferences take.
THEOREM AppendKeepsOrder == Spec => AppendedInOrder
<1>1. IInv /\ [Next]_vars => [~enabled => performed' \in {performed, performed + 1}]_vars
  <2> SUFFICES ASSUME IInv, Next, ~enabled
               PROVE  performed' \in {performed, performed + 1}
    BY DEF vars
  <2>1. CASE Get
    BY <2>1, GetStep DEF IInv, DrainedWithoutRtc
  <2>2. CASE ~Get
    BY <2>2
       DEF Next, Actor, GetNone, GetActions, CheckSize, GetActionIndex, GetLeftOver,
           Merge, InferenceRaises, SendRaises
  <2> QED  BY <2>1, <2>2
<1> QED  BY Invariance, <1>1, PTL DEF Spec, AppendedInOrder

\* With RTC a merge takes the robot back in its plan by no more than the
\* imprecision of the two clocks, and skips no more than the periods in which it
\* took no action, for every latency and however late the actor is.
THEOREM SwapStaysNear == Spec => SwapIsBounded
<1>1. IInv => [\A delay \in 1..MaxDelay :
                 Merge(delay) /\ enabled /\ delay < ChunkSize
                   => Jump \in (-Slack)..(Slack + inference.starved + delay
                                            - inference.waited)]_vars
  BY MergeJump
<1> QED  BY Invariance, <1>1, PTL DEF Spec, SwapIsBounded

\* Where _check_delays is content and the index was read together with the
\* left-over, replacing the queue goes unnoticed by the robot.
THEOREM CheckedSwap == Spec => CheckedSwapIsSeamless
<1>1. IInv => [\A delay \in 1..MaxDelay :
                 (Merge(delay) /\ enabled /\ ~inference.torn
                    /\ lastIndex - inference.index = delay) => Jump = 0]_vars
  BY MergeJump
<1> QED  BY Invariance, <1>1, PTL DEF Spec, CheckedSwapIsSeamless
=============================================================================
