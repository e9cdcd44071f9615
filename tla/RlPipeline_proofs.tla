--------------------------- MODULE RlPipeline_proofs ---------------------------
(***************************************************************************)
(* The safety of the actor-learner pipeline for every capacity of the      *)
(* ring, size of the messages and number of steps, faults and NaNs.        *)
(***************************************************************************)
EXTENDS RlPipeline, SequenceTheorems, TLAPS

Version == 0..MaxOptimization
Slot == 0..Capacity - 1

\* What a message of a stream is made of, and a part of it.
Datum(s) == IF s = "transitions" THEN Transition ELSE Nat
Part(s) == [state : {"begin", "middle", "end"}, data : Datum(s)]

ActorType ==
  [step : 0..OnlineSteps, episode : Seq(Transition), policy : Version, item : Version,
   pushed : 0..OnlineSteps, nans : SUBSET Step]

WireType(s) ==
  [remaining : Seq(Part(s)), draining : BOOLEAN, buffer : Seq(Datum(s)), broken : BOOLEAN]

LearnerType ==
  [batch : Seq(Transition), half : BOOLEAN, step : Version,
   saved : [interactionStep : Nat, latest : Nat] \cup {None},
   learned : 0..OnlineSteps, latest : Nat \cup {None}]

RingType ==
  [states : [Slot -> Step \cup {None}], rest : [Slot -> Transition \cup {None}],
   position : Slot, size : 0..Capacity]

Types ==
  /\ actor \in ActorType /\ shutdown \in BOOLEAN
  /\ learner \in LearnerType /\ ring \in RingType
  /\ DOMAIN sendq = Stream /\ DOMAIN wire = Stream /\ DOMAIN recvq = Stream
  /\ \A s \in Stream :
       /\ sendq[s] \in Seq(Seq(Datum(s))) /\ recvq[s] \in Seq(Seq(Datum(s)))
       /\ wire[s] \in WireType(s)

-----------------------------------------------------------------------------
(* A message, and the order of the messages of a stream.                   *)

\* The transitions of an episode; a report; a version of the parameters.
Whole(s, m, nans) ==
  /\ m # <<>>
  /\ s = "transitions" =>
       \A k \in 1..Len(m) :
         /\ m[k].n = m[1].n + (k - 1)
         /\ m[k].last <=> k = Len(m)
         /\ m[k].nan => m[k].n \in nans
  /\ s = "parameters" => \E v \in Version : m = Parameters(v)
AllWhole(s, q, nans) == \A i \in 1..Len(q) : Whole(s, q[i], nans)

\* A message comes after the mark of the one before: the episodes adjoin, the
\* versions do not decrease.
Mark(s, m) ==
  IF s = "transitions" THEN m[Len(m)].n ELSE IF s = "parameters" THEN m[1] ELSE 0
Follows(s, a, m) ==
  /\ s = "transitions" => m[1].n = a + 1
  /\ s = "parameters" => a <= m[1]

\* The mark that a queue ends with, and the order of its messages.
EndOf(s, q, a) == IF q = <<>> THEN a ELSE Mark(s, q[Len(q)])
Chain(s, q, a) ==
  \A i \in 1..Len(q) : Follows(s, IF i = 1 THEN a ELSE Mark(s, q[i - 1]), q[i])

\* What has been cut off a message is in the buffer, the rest are the parts under way.
Carries(s, buffer, parts, m) ==
  /\ m \in Seq(Datum(s)) /\ Len(m) = Len(buffer) + Len(parts)
  /\ \A i \in 1..Len(buffer) : buffer[i] = m[i]
  /\ \A i \in 1..Len(parts) :
       /\ parts[i].state = TransferState(Len(buffer) + i, Len(m))
       /\ parts[i].data = m[Len(buffer) + i]

-----------------------------------------------------------------------------
(* The streams.                                                            *)

\* The marks at the receiver and the sender.
Base(s) ==
  IF s = "transitions" THEN learner.learned ELSE IF s = "parameters" THEN actor.item ELSE 0
Tops(s, a) ==
  /\ s = "transitions" => a = actor.pushed
  /\ s = "parameters" => a <= learner.step

Got(s) == EndOf(s, recvq[s], Base(s))

\* What waits at the sender follows the mark and ends with the newest message.
Sends(s, a) == Chain(s, sendq[s], a) /\ Tops(s, EndOf(s, sendq[s], a))

UnderWay(s) ==
  \E m \in Seq(Datum(s)) :
    /\ Whole(s, m, actor.nans) /\ Carries(s, wire[s].buffer, wire[s].remaining, m)
    /\ Follows(s, Got(s), m) /\ Sends(s, Mark(s, m))

StreamInv(s) ==
  /\ AllWhole(s, sendq[s], actor.nans) /\ AllWhole(s, recvq[s], actor.nans)
  /\ Chain(s, recvq[s], Base(s))
  /\ wire[s].remaining = <<>> =>
       wire[s].buffer = <<>> /\ (wire[s].broken \/ Sends(s, Got(s)))
  /\ wire[s].remaining # <<>> => ~wire[s].broken /\ UnderWay(s)
  /\ wire[s].draining => wire[s].remaining # <<>> /\ wire[s].buffer = <<>>

-----------------------------------------------------------------------------
(* The two ends.                                                           *)

\* The transitions of a sequence are consecutive up to a step.
EndsAt(m, n) == \A k \in 1..Len(m) : m[k].n = (n - Len(m)) + k

ActorInv ==
  /\ EndsAt(actor.episode, actor.step) /\ actor.pushed = actor.step - Len(actor.episode)
  /\ \A k \in 1..Len(actor.episode) :
       /\ k < Len(actor.episode) => ~actor.episode[k].last
       /\ actor.episode[k].nan => actor.episode[k].n \in actor.nans
  /\ actor.policy <= actor.item

BatchInv ==
  /\ EndsAt(learner.batch, learner.learned)
  /\ \A k \in 1..Len(learner.batch) :
       learner.batch[k].nan => learner.batch[k].n \in actor.nans
  /\ learner.half => learner.batch # <<>> /\ ~learner.batch[1].nan

\* All transitions up to this one have been added or skipped.
Frontier == learner.learned - Len(learner.batch)

\* Between two steps there are only transitions with NaNs.
OnlyNaNs(a, b, nans) == \A n \in Step : a < n /\ n < b => n \in nans

\* The slot after a slot.
After(i) == IF i = Capacity - 1 THEN 0 ELSE i + 1

SlotInv(i) ==
  LET t == ring.rest[i]
      j == After(i)
  IN  /\ t \in Transition
      /\ ring.states[i] = t.n \/ (learner.half /\ i = ring.position)
      /\ j # ring.position =>
           /\ j < ring.size
           /\ t.n < ring.rest[j].n /\ OnlyNaNs(t.n, ring.rest[j].n, actor.nans)
      /\ j = ring.position => t.n <= Frontier /\ OnlyNaNs(t.n, Frontier + 1, actor.nans)

RingInv ==
  /\ ring.size < Capacity => ring.position = ring.size
  /\ learner.half => ring.states[ring.position] = learner.batch[1].n
  /\ \A i \in 0..(ring.size - 1) : SlotInv(i)

IInv == Types /\ (\A s \in Stream : StreamInv(s)) /\ ActorInv /\ BatchInv /\ RingInv

-----------------------------------------------------------------------------
(* The order of messages.                                                  *)

LEMMA Constants ==
  /\ Capacity \in Nat /\ Capacity >= 2 /\ LearnAfter \in Nat
  /\ SaveFreq \in Nat /\ SaveFreq >= 1 /\ ParameterParts \in Nat /\ ParameterParts >= 1
  /\ OnlineSteps \in Nat /\ MaxOptimization \in Nat
  /\ Step \subseteq Nat /\ Version \subseteq Nat /\ 0 \in Version
BY RlAssumption DEF Step, Version

LEMMA VersionMessage ==
  ASSUME NEW v \in Version
  PROVE  /\ Parameters(v) \in Seq(Nat) /\ Parameters(v) # <<>> /\ Parameters(v)[1] = v
         /\ Len(Parameters(v)) = ParameterParts
<1>1. PICK m : m = Parameters(v)
  OBVIOUS
<1>2. v \in Nat /\ ParameterParts \in Nat /\ 1 \in 1..ParameterParts
  BY Constants
<1>3. m \in [1..ParameterParts -> Nat]
  BY <1>1, <1>2 DEF Parameters
<1>4. m \in Seq(Nat) /\ Len(m) = ParameterParts
  BY <1>2, <1>3
<1>5. m[1] = v
  BY <1>1, <1>2 DEF Parameters
<1>6. m # <<>>
  BY <1>2, <1>4, EmptySeq
<1> QED  BY <1>1, <1>4, <1>5, <1>6

LEMMA MarkIsNat ==
  ASSUME NEW s \in Stream, NEW m \in Seq(Datum(s)), NEW nans, Whole(s, m, nans)
  PROVE  /\ Mark(s, m) \in Nat /\ Len(m) \in Nat /\ Len(m) >= 1 /\ m # <<>>
         /\ s = "transitions" => m \in Seq(Transition) /\ Mark(s, m) \in Step
         /\ s = "parameters" => Mark(s, m) \in Version
<1>1. Len(m) \in Nat /\ Len(m) >= 1 /\ m # <<>>
  BY EmptySeq DEF Whole
<1>2. CASE s = "transitions"
  <2>1. m \in Seq(Transition)
    BY <1>2 DEF Datum
  <2>2. m[Len(m)] \in Transition
    BY <1>1, <2>1, ElementOfSeq
  <2>3. m[Len(m)].n \in Step
    BY <2>2 DEF Transition
  <2> QED  BY <1>1, <1>2, <2>1, <2>3, Constants DEF Mark
<1>3. CASE s = "parameters"
  <2>1. PICK v \in Version : m = Parameters(v)
    BY <1>3 DEF Whole
  <2>2. m[1] = v
    BY <2>1, VersionMessage
  <2> QED  BY <1>1, <1>3, <2>2, Constants DEF Mark
<1>4. CASE s = "interactions"
  BY <1>1, <1>4 DEF Mark
<1> QED  BY <1>2, <1>3, <1>4 DEF Stream

LEMMA EndIsNat ==
  ASSUME NEW s \in Stream, NEW q \in Seq(Seq(Datum(s))), NEW nans, NEW a \in Nat,
         AllWhole(s, q, nans)
  PROVE  EndOf(s, q, a) \in Nat
<1>1. CASE q = <<>>
  BY <1>1 DEF EndOf
<1>2. CASE q # <<>>
  <2>1. Len(q) \in 1..Len(q)
    BY <1>2, EmptySeq
  <2>2. q[Len(q)] \in Seq(Datum(s))
    BY <2>1, ElementOfSeq
  <2> QED  BY <1>2, <2>1, <2>2, MarkIsNat DEF EndOf, AllWhole
<1> QED  BY <1>1, <1>2

\* A message at the end of a queue.
LEMMA ChainAppend ==
  ASSUME NEW s \in Stream, NEW S, NEW q \in Seq(S), NEW m \in S, NEW a \in Nat,
         EndOf(s, q, a) \in Nat, Mark(s, m) \in Nat,
         Chain(s, q, a), Follows(s, EndOf(s, q, a), m)
  PROVE  /\ Chain(s, Append(q, m), a) /\ EndOf(s, Append(q, m), a) = Mark(s, m)
<1>1. PICK r : r = Append(q, m)
  OBVIOUS
<1>2. PICK l \in Nat : l = Len(q)
  OBVIOUS
<1>3. /\ r \in Seq(S) /\ Len(r) = l + 1 /\ r[l + 1] = m /\ \A i \in 1..l : r[i] = q[i]
      /\ r # <<>>
  BY <1>1, <1>2, AppendProperties
<1>4. EndOf(s, r, a) = Mark(s, m)
  BY <1>3 DEF EndOf
<1>5. Chain(s, r, a)
  <2>1. ASSUME NEW i \in 1..Len(r)
        PROVE  Follows(s, IF i = 1 THEN a ELSE Mark(s, r[i - 1]), r[i])
    <3>1. CASE i \in 1..l
      <4>1. Follows(s, IF i = 1 THEN a ELSE Mark(s, q[i - 1]), q[i])
        BY <1>2, <3>1 DEF Chain
      <4>2. r[i] = q[i]
        BY <1>3, <3>1
      <4>3. i # 1 => r[i - 1] = q[i - 1]
        <5>1. i # 1 => i - 1 \in 1..l
          BY <1>2, <3>1
        <5> QED  BY <1>3, <5>1
      <4> QED  BY <4>1, <4>2, <4>3
    <3>2. CASE i = l + 1
      <4>1. CASE l = 0
        <5>1. q = <<>> /\ i = 1
          <6>1. Len(q) = 0
            BY <1>2, <4>1
          <6>2. q = <<>>
            BY <6>1, EmptySeq
          <6> QED  BY <3>2, <4>1, <6>2
        <5>2. Follows(s, a, m) /\ r[i] = m
          BY <1>3, <3>2, <5>1 DEF EndOf
        <5> QED  BY <5>1, <5>2
      <4>2. CASE l # 0
        <5>1. q # <<>> /\ i # 1 /\ i - 1 = l /\ l \in 1..l
          BY <1>2, <3>2, <4>2, EmptySeq
        <5>2. Follows(s, Mark(s, q[l]), m) /\ r[i] = m /\ r[i - 1] = q[l]
          BY <1>2, <1>3, <3>2, <5>1 DEF EndOf
        <5> QED  BY <5>1, <5>2
      <4> QED  BY <4>1, <4>2
    <3> QED  BY <1>2, <1>3, <3>1, <3>2
  <2> QED  BY <2>1 DEF Chain
<1> QED  BY <1>1, <1>4, <1>5

\* The first message is taken out of a queue.
LEMMA ChainTail ==
  ASSUME NEW s \in Stream, NEW S, NEW q \in Seq(S), q # <<>>, NEW a,
         Chain(s, q, a)
  PROVE  /\ Follows(s, a, Head(q)) /\ Chain(s, Tail(q), Mark(s, Head(q)))
         /\ EndOf(s, Tail(q), Mark(s, Head(q))) = EndOf(s, q, a)
<1>1. PICK r : r = Tail(q)
  OBVIOUS
<1>2. PICK l \in Nat : l = Len(q) /\ l >= 1
  BY EmptySeq
<1>3. /\ r \in Seq(S) /\ Len(r) = l - 1 /\ \A i \in 1..(l - 1) : r[i] = q[i + 1]
      /\ Head(q) = q[1]
  <2>1. /\ Tail(q) \in Seq(S) /\ Len(Tail(q)) = Len(q) - 1
        /\ \A i \in 1..Len(Tail(q)) : Tail(q)[i] = q[i + 1]
    BY HeadTailProperties
  <2>2. r \in Seq(S) /\ Len(r) = l - 1
    BY <1>1, <1>2, <2>1
  <2>3. \A i \in 1..(l - 1) : r[i] = q[i + 1]
    BY <1>1, <1>2, <2>1
  <2>4. Head(q) = q[1]
    OBVIOUS
  <2> QED  BY <2>2, <2>3, <2>4
<1>4. PICK b : b = Mark(s, q[1])
  OBVIOUS
<1>5. EndOf(s, r, b) = EndOf(s, q, a)
  <2>1. CASE l = 1
    <3>1. r = <<>>
      BY <1>3, <2>1, EmptySeq
    <3> QED  BY <1>2, <1>4, <2>1, <3>1 DEF EndOf
  <2>2. CASE l # 1
    <3>1. r # <<>> /\ l - 1 \in 1..(l - 1) /\ (l - 1) + 1 = l
      BY <1>2, <1>3, <2>2, EmptySeq
    <3>2. r[l - 1] = q[l]
      BY <1>3, <3>1
    <3> QED  BY <1>2, <1>3, <3>1, <3>2 DEF EndOf
  <2> QED  BY <2>1, <2>2
<1>6. Follows(s, a, q[1]) /\ Chain(s, r, b)
  <2>1. \A i \in 1..l : Follows(s, IF i = 1 THEN a ELSE Mark(s, q[i - 1]), q[i])
    BY <1>2 DEF Chain
  <2>2. Follows(s, a, q[1])
    BY <1>2, <2>1
  <2>3. ASSUME NEW i \in 1..Len(r)
        PROVE  Follows(s, IF i = 1 THEN b ELSE Mark(s, r[i - 1]), r[i])
    <3>1. /\ i + 1 \in 1..l /\ i + 1 # 1 /\ (i + 1) - 1 = i /\ i \in 1..(l - 1)
          /\ i # 1 => i - 1 \in 1..(l - 1) /\ (i - 1) + 1 = i
      BY <1>2, <1>3
    <3>2. Follows(s, Mark(s, q[i]), q[i + 1])
      BY <2>1, <3>1
    <3>3. r[i] = q[i + 1] /\ (i # 1 => r[i - 1] = q[i])
      BY <1>3, <3>1
    <3> QED  BY <1>4, <3>2, <3>3
  <2> QED  BY <2>2, <2>3 DEF Chain
<1> QED  BY <1>1, <1>3, <1>4, <1>5, <1>6

LEMMA WholeAppend ==
  ASSUME NEW s, NEW S, NEW q \in Seq(S), NEW m \in S, NEW nans,
         AllWhole(s, q, nans), Whole(s, m, nans)
  PROVE  AllWhole(s, Append(q, m), nans)
<1>1. PICK r : r = Append(q, m)
  OBVIOUS
<1>2. /\ Len(q) \in Nat /\ Len(r) = Len(q) + 1 /\ r[Len(q) + 1] = m
      /\ \A i \in 1..Len(q) : r[i] = q[i]
  BY <1>1, AppendProperties
<1>3. ASSUME NEW i \in 1..Len(r)  PROVE Whole(s, r[i], nans)
  <2>1. CASE i \in 1..Len(q)
    BY <1>2, <2>1 DEF AllWhole
  <2>2. CASE i = Len(q) + 1
    BY <1>2, <2>2
  <2> QED  BY <1>2, <2>1, <2>2
<1> QED  BY <1>1, <1>3 DEF AllWhole

LEMMA WholeTail ==
  ASSUME NEW s, NEW S, NEW q \in Seq(S), q # <<>>, NEW nans, AllWhole(s, q, nans)
  PROVE  AllWhole(s, Tail(q), nans) /\ Whole(s, Head(q), nans) /\ Whole(s, q[Len(q)], nans)
<1>1. PICK r : r = Tail(q)
  OBVIOUS
<1>2. Len(q) \in Nat /\ Len(q) >= 1 /\ Head(q) = q[1]
  BY EmptySeq
<1>3. /\ Len(r) = Len(q) - 1 /\ \A i \in 1..Len(r) : r[i] = q[i + 1]
  BY <1>1, HeadTailProperties
<1>4. ASSUME NEW i \in 1..Len(r)  PROVE Whole(s, r[i], nans)
  <2>1. i + 1 \in 1..Len(q)
    BY <1>2, <1>3
  <2> QED  BY <1>3, <2>1 DEF AllWhole
<1>5. 1 \in 1..Len(q) /\ Len(q) \in 1..Len(q)
  BY <1>2
<1> QED  BY <1>1, <1>2, <1>4, <1>5 DEF AllWhole

\* More NaNs are noted.
LEMMA WholeStays ==
  ASSUME NEW s, NEW m, NEW nans, NEW more, nans \subseteq more, Whole(s, m, nans)
  PROVE  Whole(s, m, more)
BY DEF Whole

-----------------------------------------------------------------------------
(* Cutting a message into parts and putting it together again.             *)

LEMMA PartsOf ==
  ASSUME NEW s \in Stream, NEW m \in Seq(Datum(s)), m # <<>>
  PROVE  /\ SendBytesInChunks(m) \in Seq(Part(s)) /\ SendBytesInChunks(m) # <<>>
         /\ Carries(s, <<>>, SendBytesInChunks(m), m)
<1>1. PICK l \in Nat : l = Len(m) /\ l >= 1 /\ DOMAIN m = 1..l
  BY EmptySeq, LenProperties
<1>2. PICK p : p = SendBytesInChunks(m)
  OBVIOUS
<1>3. p = [i \in 1..l |-> [state |-> TransferState(i, l), data |-> m[i]]]
  BY <1>1, <1>2 DEF SendBytesInChunks
<1>4. ASSUME NEW i \in 1..l
      PROVE  /\ p[i] \in Part(s) /\ p[i].state = TransferState(i, l) /\ p[i].data = m[i]
  <2>1. m[i] \in Datum(s)
    BY <1>1, ElementOfSeq
  <2>2. TransferState(i, l) \in {"begin", "middle", "end"}
    BY DEF TransferState
  <2>3. PICK t, d : t = TransferState(i, l) /\ d = m[i]
    OBVIOUS
  <2>4. p[i] = [state |-> t, data |-> d]
    BY <1>3, <2>3
  <2> QED  BY <2>1, <2>2, <2>3, <2>4 DEF Part
<1>5. p \in [1..l -> Part(s)]
  BY <1>3, <1>4
<1>6. p \in Seq(Part(s)) /\ Len(p) = l
  BY <1>5
<1>7. p # <<>>
  BY <1>1, <1>6, EmptySeq
<1>8. Carries(s, <<>>, p, m)
  <2>1. PICK z : z = <<>>
    OBVIOUS
  <2>2. Len(z) = 0
    BY <2>1, EmptySeq
  <2>3. Carries(s, z, p, m)
    BY <1>1, <1>4, <1>6, <2>2 DEF Carries
  <2> QED  BY <2>1, <2>3
<1> QED  BY <1>2, <1>6, <1>7, <1>8

\* The part that arrives.
IsFirst(part, parts) == part = Head(parts)

LEMMA Receive ==
  ASSUME NEW s \in Stream, NEW buffer \in Seq(Datum(s)), NEW parts \in Seq(Part(s)),
         parts # <<>>, NEW m, Carries(s, buffer, parts, m), NEW part, IsFirst(part, parts)
  PROVE  /\ Tail(parts) \in Seq(Part(s)) /\ BufferAfter(buffer, part) \in Seq(Datum(s))
         /\ part.state = "end" =>
              /\ Append(buffer, part.data) = m /\ Tail(parts) = <<>>
              /\ BufferAfter(buffer, part) = <<>>
         /\ part.state # "end" =>
              /\ Tail(parts) # <<>>
              /\ Carries(s, BufferAfter(buffer, part), Tail(parts), m)
<1>1. /\ m \in Seq(Datum(s)) /\ Len(m) = Len(buffer) + Len(parts)
      /\ \A i \in 1..Len(buffer) : buffer[i] = m[i]
      /\ \A i \in 1..Len(parts) :
           /\ parts[i].state = TransferState(Len(buffer) + i, Len(m))
           /\ parts[i].data = m[Len(buffer) + i]
  BY DEF Carries
<1>2. PICK l \in Nat : l = Len(buffer)
  BY LenProperties
<1>3. PICK n \in Nat : n = Len(parts) /\ n >= 1
  BY EmptySeq
<1>4. Len(m) = l + n
  BY <1>1, <1>2, <1>3
<1>5. PICK tail : tail = Tail(parts)
  OBVIOUS
<1>6. /\ tail \in Seq(Part(s)) /\ Len(tail) = n - 1
      /\ \A i \in 1..(n - 1) : tail[i] = parts[i + 1]
  <2>1. /\ Tail(parts) \in Seq(Part(s)) /\ Len(Tail(parts)) = Len(parts) - 1
        /\ \A i \in 1..Len(Tail(parts)) : Tail(parts)[i] = parts[i + 1]
    BY HeadTailProperties
  <2>2. tail \in Seq(Part(s)) /\ Len(tail) = n - 1
    BY <1>3, <1>5, <2>1
  <2>3. \A i \in 1..(n - 1) : tail[i] = parts[i + 1]
    BY <1>3, <1>5, <2>1
  <2> QED  BY <2>2, <2>3
<1>7. PICK d : d = part.data
  OBVIOUS
<1>8. /\ part \in Part(s) /\ part.state = TransferState(l + 1, l + n) /\ d = m[l + 1]
      /\ d \in Datum(s)
  <2>1. part = parts[1] /\ part \in Part(s)
    BY HeadTailProperties DEF IsFirst
  <2>2. 1 \in 1..Len(parts)
    BY <1>3
  <2>3. part.state = TransferState(l + 1, l + n) /\ part.data = m[l + 1]
    BY <1>1, <1>2, <1>4, <2>1, <2>2
  <2>4. part.data \in Datum(s)
    BY <2>1 DEF Part
  <2> QED  BY <1>7, <2>1, <2>3, <2>4
<1>9. PICK b : b = Append(buffer, d)
  OBVIOUS
<1>10. /\ b \in Seq(Datum(s)) /\ Len(b) = l + 1 /\ \A i \in 1..(l + 1) : b[i] = m[i]
  <2>1. /\ b \in Seq(Datum(s)) /\ Len(b) = l + 1 /\ b[l + 1] = d
        /\ \A i \in 1..l : b[i] = buffer[i]
    BY <1>2, <1>8, <1>9, AppendProperties
  <2>2. ASSUME NEW i \in 1..(l + 1)  PROVE b[i] = m[i]
    <3>1. CASE i = l + 1
      BY <1>8, <2>1, <3>1
    <3>2. CASE i # l + 1
      <4>1. i \in 1..l
        BY <3>2
      <4> QED  BY <1>1, <1>2, <2>1, <4>1
    <3> QED  BY <3>1, <3>2
  <2> QED  BY <2>1, <2>2
<1>11. CASE n = 1
  <2>1. part.state = "end"
    BY <1>8, <1>11 DEF TransferState
  <2>2. b = m
    BY <1>1, <1>4, <1>10, <1>11, SeqEqual
  <2>3. tail = <<>>
    BY <1>6, <1>11, EmptySeq
  <2>4. BufferAfter(buffer, part) = <<>>
    BY <2>1 DEF BufferAfter
  <2> QED  BY <1>5, <1>6, <1>7, <1>9, <2>1, <2>2, <2>3, <2>4, EmptySeq
<1>12. CASE n # 1
  <2>1. part.state = IF l + 1 = 1 THEN "begin" ELSE "middle"
    BY <1>3, <1>8, <1>12 DEF TransferState
  <2>2. BufferAfter(buffer, part) = b
    <3>1. CASE l = 0
      <4>1. part.state = "begin"
        BY <2>1, <3>1
      <4>2. buffer = <<>>
        BY <1>2, <3>1, EmptySeq
      <4>3. b = <<d>>
        BY <1>9, <4>2
      <4> QED  BY <1>7, <4>1, <4>3 DEF BufferAfter
    <3>2. CASE l # 0
      <4>1. part.state = "middle"
        BY <2>1, <3>2
      <4> QED  BY <1>7, <1>9, <4>1 DEF BufferAfter
    <3> QED  BY <3>1, <3>2
  <2>3. part.state # "end"
    BY <2>1
  <2>4. tail # <<>>
    BY <1>3, <1>6, <1>12, EmptySeq
  <2>5. Carries(s, b, tail, m)
    <3>1. Len(m) = Len(b) + Len(tail)
      BY <1>3, <1>4, <1>6, <1>10
    <3>2. \A i \in 1..Len(b) : b[i] = m[i]
      BY <1>10
    <3>3. ASSUME NEW i \in 1..Len(tail)
          PROVE  /\ tail[i].state = TransferState(Len(b) + i, Len(m))
                 /\ tail[i].data = m[Len(b) + i]
      <4>1. i + 1 \in 1..Len(parts) /\ i \in 1..(n - 1) /\ Len(buffer) + (i + 1) = Len(b) + i
        <5>1. Len(tail) = n - 1 /\ Len(b) = l + 1 /\ Len(parts) = n /\ Len(buffer) = l
          BY <1>2, <1>3, <1>6, <1>10
        <5>2. i \in 1..(n - 1) /\ i + 1 \in 1..n /\ l + (i + 1) = (l + 1) + i
          BY <5>1
        <5> QED  BY <5>1, <5>2
      <4>2. PICK j \in 1..Len(parts) : j = i + 1
        BY <4>1
      <4>3. tail[i] = parts[j] /\ Len(buffer) + j = Len(b) + i
        BY <1>6, <4>1, <4>2
      <4> QED  BY <1>1, <4>3
    <3> QED  BY <1>1, <3>1, <3>2, <3>3 DEF Carries
  <2> QED  BY <1>5, <1>6, <1>10, <2>2, <2>3, <2>4, <2>5
<1> QED  BY <1>11, <1>12

-----------------------------------------------------------------------------
(* The streams.                                                            *)

LEMMA StreamFacts ==
  ASSUME Types, NEW s \in Stream
  PROVE  /\ sendq[s] \in Seq(Seq(Datum(s))) /\ recvq[s] \in Seq(Seq(Datum(s)))
         /\ wire[s] \in WireType(s)
         /\ wire[s].remaining \in Seq(Part(s)) /\ wire[s].buffer \in Seq(Datum(s))
         /\ wire[s].broken \in BOOLEAN /\ wire[s].draining \in BOOLEAN
         /\ Base(s) \in Nat /\ (s = "parameters" => Base(s) \in Version)
<1>1. wire[s] \in WireType(s)
  BY DEF Types
<1>2. actor.item \in Version /\ learner.learned \in 0..OnlineSteps
  BY DEF Types, ActorType, LearnerType
<1>3. Base(s) \in Nat /\ (s = "parameters" => Base(s) \in Version)
  <2>1. OnlineSteps \in Nat /\ Version \subseteq Nat
    BY Constants
  <2>2. learner.learned \in Nat
    BY <1>2, <2>1
  <2>3. actor.item \in Nat
    BY <1>2, <2>1
  <2> QED  BY <1>2, <2>2, <2>3 DEF Base
<1> QED  BY <1>1, <1>3 DEF Types, WireType

\* The sender's end of a stream does not change, nor what has arrived.
LEMMA SameSender ==
  ASSUME Types, NEW s \in Stream, StreamInv(s),
         sendq'[s] = sendq[s], wire'[s] = wire[s],
         AllWhole(s, recvq'[s], actor.nans), Chain(s, recvq[s], Base(s))', Got(s)' = Got(s),
         actor.nans \subseteq actor'.nans,
         s = "transitions" => actor'.pushed = actor.pushed,
         s = "parameters" => learner'.step \in Nat /\ learner.step <= learner'.step
  PROVE  StreamInv(s)'
<1>1. /\ AllWhole(s, sendq[s], actor.nans) /\ AllWhole(s, recvq[s], actor.nans)
      /\ Chain(s, recvq[s], Base(s))
      /\ wire[s].remaining = <<>> =>
           wire[s].buffer = <<>> /\ (wire[s].broken \/ Sends(s, Got(s)))
      /\ wire[s].remaining # <<>> => ~wire[s].broken /\ UnderWay(s)
      /\ wire[s].draining => wire[s].remaining # <<>> /\ wire[s].buffer = <<>>
  BY DEF StreamInv
<1>2. /\ AllWhole(s, sendq[s], actor'.nans) /\ AllWhole(s, recvq'[s], actor'.nans)
  BY <1>1, WholeStays DEF AllWhole
<1>3. Got(s) \in Nat
  BY <1>1, StreamFacts, EndIsNat DEF Got
<1>4. ASSUME NEW a \in Nat, Sends(s, a)  PROVE Sends(s, a)'
  <2>1. EndOf(s, sendq[s], a) \in Nat
    BY <1>1, StreamFacts, EndIsNat
  <2>2. Chain(s, sendq[s], a) /\ Tops(s, EndOf(s, sendq[s], a))
    BY <1>4 DEF Sends
  <2>3. learner.step \in Nat
    BY Constants DEF Types, LearnerType
  <2>4. Tops(s, EndOf(s, sendq[s], a))'
    <3>1. PICK n \in Nat : n = EndOf(s, sendq[s], a)
      BY <2>1
    <3>2. Tops(s, n)'
      BY <2>2, <2>3, <3>1 DEF Tops
    <3> QED  BY <3>1, <3>2
  <2> QED  BY <2>2, <2>4 DEF Sends
<1>5. UnderWay(s) => UnderWay(s)'
  <2> SUFFICES ASSUME UnderWay(s)  PROVE UnderWay(s)'
    OBVIOUS
  <2>1. PICK m \in Seq(Datum(s)) :
          /\ Whole(s, m, actor.nans) /\ Carries(s, wire[s].buffer, wire[s].remaining, m)
          /\ Follows(s, Got(s), m) /\ Sends(s, Mark(s, m))
    BY DEF UnderWay
  <2>2. Whole(s, m, actor'.nans)
    BY <2>1, WholeStays
  <2>3. PICK a \in Nat : a = Mark(s, m)
    BY <2>1, MarkIsNat
  <2>4. Sends(s, a)'
    BY <1>4, <2>1, <2>3
  <2> QED  BY <1>3, <2>1, <2>2, <2>3, <2>4 DEF UnderWay
<1>6. Sends(s, Got(s)) => Sends(s, Got(s))'
  <2> SUFFICES ASSUME Sends(s, Got(s))  PROVE Sends(s, Got(s))'
    OBVIOUS
  <2>1. PICK a \in Nat : a = Got(s)
    BY <1>3
  <2>2. Sends(s, a)'
    BY <1>4, <2>1
  <2> QED  BY <1>3, <2>1, <2>2 DEF Sends
<1> QED  BY <1>1, <1>2, <1>5, <1>6 DEF StreamInv

\* A step of others.
LEMMA Untouched ==
  ASSUME Types, NEW s \in Stream, StreamInv(s),
         sendq'[s] = sendq[s], wire'[s] = wire[s], recvq'[s] = recvq[s],
         Base(s)' = Base(s), actor.nans \subseteq actor'.nans,
         s = "transitions" => actor'.pushed = actor.pushed,
         s = "parameters" => learner'.step \in Nat /\ learner.step <= learner'.step
  PROVE  StreamInv(s)'
<1>1. AllWhole(s, recvq'[s], actor.nans) /\ Chain(s, recvq[s], Base(s))'
  BY DEF StreamInv
<1>2. Got(s)' = Got(s)
  BY DEF Got
<1> QED  BY <1>1, <1>2, SameSender

\* The receiver reads the last message and drops the others.
LEMMA Drains ==
  ASSUME Types, NEW s \in Stream, s # "transitions", StreamInv(s),
         sendq'[s] = sendq[s], wire'[s] = wire[s], recvq'[s] = <<>>,
         Base(s)' = Got(s), actor.nans \subseteq actor'.nans,
         s = "parameters" => learner'.step \in Nat /\ learner.step <= learner'.step
  PROVE  StreamInv(s)'
<1>1. Got(s) \in Nat
  BY StreamFacts, EndIsNat DEF Got, StreamInv
<1>2. Got(s)' = Got(s)
  BY DEF Got, EndOf
<1>3. Chain(s, recvq[s], Base(s))'
  BY EmptySeq DEF Chain
<1>4. AllWhole(s, recvq'[s], actor.nans)
  BY EmptySeq DEF AllWhole
<1> QED  BY <1>2, <1>3, <1>4, SameSender

\* A part of a message arrives.
LEMMA Arrives ==
  ASSUME Types, NEW s \in Stream, ~wire[s].broken, NEW parts \in Seq(Part(s)),
         parts # <<>>, NEW m \in Seq(Datum(s)), Whole(s, m, actor.nans),
         Carries(s, wire[s].buffer, parts, m), Follows(s, Got(s), m),
         Chain(s, recvq[s], Base(s)), AllWhole(s, recvq[s], actor.nans),
         ReceivePart(s, parts), actor' = actor, learner' = learner,
         AllWhole(s, sendq'[s], actor.nans), Sends(s, Mark(s, m))'
  PROVE  /\ StreamInv(s)'
         /\ DOMAIN wire' = Stream /\ DOMAIN recvq' = Stream
         /\ recvq'[s] \in Seq(Seq(Datum(s))) /\ wire'[s] \in WireType(s)
         /\ \A r \in Stream : r # s => wire'[r] = wire[r] /\ recvq'[r] = recvq[r]
<1>1. DOMAIN wire = Stream /\ DOMAIN recvq = Stream
  BY DEF Types
<1>2. /\ recvq[s] \in Seq(Seq(Datum(s))) /\ wire[s] \in WireType(s) /\ Base(s) \in Nat
      /\ wire[s].buffer \in Seq(Datum(s))
  BY StreamFacts
<1>3. PICK part : part = Head(parts)
  OBVIOUS
<1>4. PICK tail, buffer : tail = Tail(parts) /\ buffer = BufferAfter(wire[s].buffer, part)
  OBVIOUS
<1>5. /\ tail \in Seq(Part(s)) /\ buffer \in Seq(Datum(s))
      /\ part.state = "end" =>
           /\ Append(wire[s].buffer, part.data) = m /\ tail = <<>> /\ buffer = <<>>
      /\ part.state # "end" => tail # <<>> /\ Carries(s, buffer, tail, m)
  <2>1. IsFirst(part, parts)
    BY <1>3 DEF IsFirst
  <2>2. PICK old \in Seq(Datum(s)) : old = wire[s].buffer
    BY <1>2
  <2>3. Carries(s, old, parts, m)
    BY <2>2
  <2>4. /\ Tail(parts) \in Seq(Part(s)) /\ BufferAfter(old, part) \in Seq(Datum(s))
        /\ part.state = "end" =>
             /\ Append(old, part.data) = m /\ Tail(parts) = <<>>
             /\ BufferAfter(old, part) = <<>>
        /\ part.state # "end" =>
             /\ Tail(parts) # <<>>
             /\ Carries(s, BufferAfter(old, part), Tail(parts), m)
    BY <2>1, <2>3, Receive
  <2> QED  BY <1>4, <2>2, <2>4
<1>6. PICK no \in BOOLEAN :
        /\ ~no
        /\ wire' = [wire EXCEPT ![s].remaining = tail, ![s].draining = no, ![s].buffer = buffer]
  <2>1. PICK no \in BOOLEAN : no = FALSE
    OBVIOUS
  <2>2. ~no
    BY <2>1
  <2> QED  BY <1>3, <1>4, <2>1, <2>2 DEF ReceivePart
<1>7. /\ DOMAIN wire' = Stream /\ wire'[s] \in WireType(s)
      /\ wire'[s].remaining = tail /\ wire'[s].buffer = buffer
      /\ ~wire'[s].draining /\ ~wire'[s].broken
      /\ \A r \in Stream : r # s => wire'[r] = wire[r]
  <2>1. PICK w : w = [wire[s] EXCEPT !.remaining = tail, !.draining = no, !.buffer = buffer]
    OBVIOUS
  <2>2. wire' = [wire EXCEPT ![s] = w]
    BY <1>1, <1>2, <1>6, <2>1 DEF WireType
  <2>3. /\ w \in WireType(s) /\ w.remaining = tail /\ w.buffer = buffer
        /\ ~w.draining /\ ~w.broken
    BY <1>2, <1>5, <1>6, <2>1 DEF WireType
  <2> QED  BY <1>1, <2>2, <2>3
<1>8. Got(s) \in Nat /\ Mark(s, m) \in Nat
  BY <1>2, EndIsNat, MarkIsNat DEF Got
<1>9. AllWhole(s, sendq'[s], actor'.nans)
  OBVIOUS
<1>10. CASE part.state = "end"
  <2>1. PICK q : q = Append(recvq[s], m)
    OBVIOUS
  <2>2. recvq' = [recvq EXCEPT ![s] = q]
    BY <1>3, <1>5, <1>10, <2>1 DEF ReceivePart
  <2>3. /\ DOMAIN recvq' = Stream /\ recvq'[s] = q
        /\ \A r \in Stream : r # s => recvq'[r] = recvq[r]
    BY <1>1, <2>2
  <2>4. q \in Seq(Seq(Datum(s)))
    BY <1>2, <2>1, AppendProperties
  <2>5. AllWhole(s, q, actor.nans)
    BY <1>2, <2>1, WholeAppend
  <2>6. Chain(s, q, Base(s)) /\ EndOf(s, q, Base(s)) = Mark(s, m)
    <3>1. PICK a \in Nat : a = Base(s)
      BY <1>2
    <3>2. EndOf(s, recvq[s], a) \in Nat /\ Follows(s, EndOf(s, recvq[s], a), m)
      BY <1>8, <3>1 DEF Got
    <3>3. Chain(s, Append(recvq[s], m), a) /\ EndOf(s, Append(recvq[s], m), a) = Mark(s, m)
      BY <1>2, <1>8, <3>1, <3>2, ChainAppend
    <3> QED  BY <2>1, <3>1, <3>3
  <2>7. Base(s)' = Base(s)
    BY DEF Base
  <2>8. Got(s)' = Mark(s, m)
    BY <2>3, <2>6, <2>7 DEF Got
  <2>9. Sends(s, Got(s))'
    BY <2>8 DEF Sends
  <2>10. tail = <<>> /\ buffer = <<>>
    BY <1>5, <1>10
  <2>11. StreamInv(s)'
    BY <1>7, <1>9, <2>3, <2>5, <2>6, <2>7, <2>9, <2>10 DEF StreamInv
  <2> QED  BY <1>7, <2>3, <2>4, <2>11
<1>11. CASE part.state # "end"
  <2>1. recvq' = recvq
    BY <1>3, <1>11 DEF ReceivePart
  <2>2. Base(s)' = Base(s)
    BY DEF Base
  <2>3. Got(s)' = Got(s)
    BY <2>1, <2>2 DEF Got
  <2>4. Carries(s, wire'[s].buffer, wire'[s].remaining, m)
    BY <1>5, <1>7, <1>11
  <2>5. UnderWay(s)'
    BY <2>3, <2>4 DEF UnderWay
  <2>6. tail # <<>>
    BY <1>5, <1>11
  <2>7. StreamInv(s)'
    BY <1>7, <1>9, <2>1, <2>2, <2>5, <2>6 DEF StreamInv
  <2> QED  BY <1>1, <1>2, <1>7, <2>1, <2>7
<1> QED  BY <1>10, <1>11

\* Nothing changes at the two ends.
LEMMA EndsUntouched ==
  ASSUME IInv, actor' = actor, learner' = learner, ring' = ring
  PROVE  ActorInv' /\ BatchInv' /\ RingInv'
<1>1. ActorInv /\ BatchInv /\ RingInv
  BY DEF IInv
<1>2. ActorInv'
  BY <1>1 DEF ActorInv
<1>3. BatchInv'
  BY <1>1 DEF BatchInv
<1>4. RingInv'
  BY <1>1 DEF RingInv, SlotInv, Frontier
<1> QED  BY <1>2, <1>3, <1>4

\* One stream changes.
LEMMA StreamStep ==
  ASSUME IInv, NEW s \in Stream, actor' = actor, learner' = learner, ring' = ring,
         shutdown' = shutdown,
         DOMAIN sendq' = Stream, DOMAIN wire' = Stream, DOMAIN recvq' = Stream,
         sendq'[s] \in Seq(Seq(Datum(s))), recvq'[s] \in Seq(Seq(Datum(s))),
         wire'[s] \in WireType(s),
         \A r \in Stream : r # s =>
           sendq'[r] = sendq[r] /\ wire'[r] = wire[r] /\ recvq'[r] = recvq[r],
         StreamInv(s)'
  PROVE  IInv'
<1>1. Types /\ \A r \in Stream : StreamInv(r)
  BY DEF IInv
<1>2. Types'
  BY <1>1 DEF Types
<1>3. ASSUME NEW r \in Stream  PROVE StreamInv(r)'
  <2>1. CASE r = s
    BY <2>1
  <2>2. CASE r # s
    <3>1. Base(r)' = Base(r)
      BY DEF Base
    <3>2. learner.step \in Nat
      BY <1>1, Constants DEF Types, LearnerType
    <3>3. learner'.step \in Nat /\ learner.step <= learner'.step
      BY <3>2
    <3>4. actor.nans \subseteq actor'.nans
      OBVIOUS
    <3> QED  BY <1>1, <2>2, <3>1, <3>3, <3>4, Untouched
  <2> QED  BY <2>1, <2>2
<1> QED  BY <1>2, <1>3, EndsUntouched DEF IInv

LEMMA TransferPartKeeps ==
  ASSUME IInv, NEW s \in Stream, TransferPart(s)
  PROVE  IInv'
<1>1. Types /\ StreamInv(s)
  BY DEF IInv
<1>2. PICK parts \in Seq(Part(s)) : parts = wire[s].remaining
  BY <1>1, StreamFacts
<1>3. /\ parts # <<>> /\ ReceivePart(s, parts) /\ actor' = actor /\ shutdown' = shutdown
      /\ sendq' = sendq /\ learner' = learner /\ ring' = ring
  BY <1>2 DEF TransferPart
<1>4. /\ ~wire[s].broken /\ UnderWay(s) /\ Chain(s, recvq[s], Base(s))
      /\ AllWhole(s, recvq[s], actor.nans) /\ AllWhole(s, sendq[s], actor.nans)
  BY <1>1, <1>2, <1>3 DEF StreamInv
<1>5. PICK m \in Seq(Datum(s)) :
        /\ Whole(s, m, actor.nans) /\ Carries(s, wire[s].buffer, parts, m)
        /\ Follows(s, Got(s), m) /\ Sends(s, Mark(s, m))
  BY <1>2, <1>4 DEF UnderWay
<1>6. Sends(s, Mark(s, m))'
  BY <1>3, <1>5 DEF Sends, Tops
<1>7. AllWhole(s, sendq'[s], actor.nans)
  BY <1>3, <1>4
<1>8. /\ StreamInv(s)'
      /\ DOMAIN wire' = Stream /\ DOMAIN recvq' = Stream
      /\ recvq'[s] \in Seq(Seq(Datum(s))) /\ wire'[s] \in WireType(s)
      /\ \A r \in Stream : r # s => wire'[r] = wire[r] /\ recvq'[r] = recvq[r]
  BY <1>1, <1>3, <1>4, <1>5, <1>6, <1>7, Arrives
<1>9. DOMAIN sendq' = Stream /\ sendq'[s] \in Seq(Seq(Datum(s)))
      /\ \A r \in Stream : sendq'[r] = sendq[r]
  BY <1>1, <1>3 DEF Types
<1> QED  BY <1>3, <1>8, <1>9, StreamStep

\* The first message is taken out of the sender's queue.
HeadTaken(s, a, m, r) ==
  /\ Whole(s, m, actor.nans) /\ Follows(s, a, m) /\ AllWhole(s, r, actor.nans)
  /\ Chain(s, r, Mark(s, m)) /\ Tops(s, EndOf(s, r, Mark(s, m)))

LEMMA TakesHead ==
  ASSUME NEW s \in Stream, NEW q \in Seq(Seq(Datum(s))), q # <<>>,
         AllWhole(s, q, actor.nans), NEW a, Chain(s, q, a), Tops(s, EndOf(s, q, a))
  PROVE  HeadTaken(s, a, Head(q), Tail(q))
<1>1. Whole(s, Head(q), actor.nans) /\ AllWhole(s, Tail(q), actor.nans)
  BY WholeTail
<1>2. /\ Follows(s, a, Head(q)) /\ Chain(s, Tail(q), Mark(s, Head(q)))
      /\ EndOf(s, Tail(q), Mark(s, Head(q))) = EndOf(s, q, a)
  BY ChainTail
<1> QED  BY <1>1, <1>2 DEF HeadTaken

LEMMA TakeMessageKeeps ==
  ASSUME IInv, NEW s \in Stream, TakeMessage(s)
  PROVE  IInv'
<1>1. Types /\ StreamInv(s) /\ DOMAIN sendq = Stream
  BY DEF IInv, Types
<1>2. PICK q \in Seq(Seq(Datum(s))) : q = sendq[s]
  BY <1>1, StreamFacts
<1>3. /\ ~wire[s].broken /\ wire[s].remaining = <<>> /\ q # <<>> /\ actor' = actor
      /\ shutdown' = shutdown /\ learner' = learner /\ ring' = ring
  BY <1>2 DEF TakeMessage
<1>4. /\ wire[s].buffer = <<>> /\ Sends(s, Got(s)) /\ Chain(s, recvq[s], Base(s))
      /\ AllWhole(s, recvq[s], actor.nans) /\ AllWhole(s, q, actor.nans)
  BY <1>1, <1>2, <1>3 DEF StreamInv
<1>5. PICK a \in Nat : a = Got(s)
  BY <1>1, <1>4, EndIsNat, StreamFacts DEF Got
<1>6. Sends(s, a)
  BY <1>4, <1>5 DEF Sends
<1>7. PICK m \in Seq(Datum(s)) : m = Head(q)
  BY <1>3, HeadTailProperties
<1>8. PICK r \in Seq(Seq(Datum(s))) : r = Tail(q)
  BY <1>3, HeadTailProperties
<1>9. /\ ReceivePart(s, SendBytesInChunks(m)) /\ sendq' = [sendq EXCEPT ![s] = r]
  BY <1>2, <1>7, <1>8 DEF TakeMessage
<1>10. /\ Whole(s, m, actor.nans) /\ Follows(s, a, m) /\ AllWhole(s, r, actor.nans)
       /\ Chain(s, r, Mark(s, m)) /\ Tops(s, EndOf(s, r, Mark(s, m)))
  <2>1. Chain(s, q, a) /\ Tops(s, EndOf(s, q, a))
    BY <1>2, <1>6 DEF Sends
  <2>2. HeadTaken(s, a, Head(q), Tail(q))
    BY <1>3, <1>4, <2>1, TakesHead
  <2> QED  BY <1>7, <1>8, <2>2 DEF HeadTaken
<1>11. /\ DOMAIN sendq' = Stream /\ sendq'[s] = r
       /\ \A t \in Stream : t # s => sendq'[t] = sendq[t]
  BY <1>1, <1>9
<1>12. Sends(s, Mark(s, m))'
  BY <1>3, <1>10, <1>11 DEF Sends, Tops
<1>13. PICK parts : parts = SendBytesInChunks(m)
  OBVIOUS
<1>14. /\ parts \in Seq(Part(s)) /\ parts # <<>> /\ Carries(s, wire[s].buffer, parts, m)
  <2>1. m # <<>>
    BY <1>10, MarkIsNat
  <2> QED  BY <1>4, <1>10, <1>13, <2>1, PartsOf
<1>15. AllWhole(s, sendq'[s], actor.nans) /\ Follows(s, Got(s), m) /\ ReceivePart(s, parts)
  BY <1>5, <1>9, <1>10, <1>11, <1>13
<1>16. /\ StreamInv(s)'
       /\ DOMAIN wire' = Stream /\ DOMAIN recvq' = Stream
       /\ recvq'[s] \in Seq(Seq(Datum(s))) /\ wire'[s] \in WireType(s)
       /\ \A t \in Stream : t # s => wire'[t] = wire[t] /\ recvq'[t] = recvq[t]
  BY <1>1, <1>3, <1>4, <1>10, <1>12, <1>14, <1>15, Arrives
<1> QED  BY <1>3, <1>10, <1>11, <1>16, StreamStep

LEMMA TakeLatestKeeps ==
  ASSUME IInv, NEW s \in Stream, TakeLatest(s)
  PROVE  IInv'
<1>1. Types /\ StreamInv(s) /\ DOMAIN sendq = Stream /\ DOMAIN wire = Stream
      /\ s = "parameters"
  BY DEF IInv, Types, TakeLatest
<1>2. PICK q \in Seq(Seq(Datum(s))) : q = sendq[s] /\ q # <<>>
  BY <1>1, StreamFacts DEF TakeLatest
<1>3. /\ actor' = actor /\ shutdown' = shutdown /\ learner' = learner /\ ring' = ring
      /\ recvq' = recvq
  BY DEF TakeLatest
<1>4. /\ Chain(s, recvq[s], Base(s)) /\ AllWhole(s, recvq[s], actor.nans)
      /\ AllWhole(s, q, actor.nans) /\ recvq[s] \in Seq(Seq(Datum(s)))
  BY <1>1, <1>2, StreamFacts DEF StreamInv
<1>5. PICK a \in Nat : a = Got(s)
  BY <1>1, <1>4, EndIsNat, StreamFacts DEF Got
\* What is dropped comes between what has arrived and what is taken.
<1>6. PICK b \in Nat : a <= b /\ Sends(s, b)
  <2>1. CASE wire[s].draining
    <3>1. UnderWay(s)
      BY <1>1, <2>1 DEF StreamInv
    <3>2. PICK w \in Seq(Datum(s)) :
            Whole(s, w, actor.nans) /\ Follows(s, Got(s), w) /\ Sends(s, Mark(s, w))
      BY <3>1 DEF UnderWay
    <3>3. PICK b \in Nat : b = Mark(s, w)
      BY <3>2, MarkIsNat
    <3>4. a <= b
      BY <1>1, <1>5, <3>2, <3>3 DEF Follows, Mark
    <3> QED  BY <3>2, <3>3, <3>4
  <2>2. CASE ~wire[s].draining
    <3>1. ~wire[s].broken /\ wire[s].remaining = <<>>
      BY <2>2 DEF TakeLatest
    <3>2. Sends(s, a)
      BY <1>1, <1>5, <3>1 DEF StreamInv, Sends
    <3> QED  BY <3>2
  <2> QED  BY <2>1, <2>2
<1>7. wire[s].buffer = <<>> /\ ~wire[s].broken
  BY <1>1 DEF StreamInv, TakeLatest
<1>8. PICK m \in Seq(Datum(s)) : m = Head(q)
  BY <1>2, HeadTailProperties
<1>9. PICK r \in Seq(Seq(Datum(s))) : r = Tail(q)
  BY <1>2, HeadTailProperties
<1>10. /\ Whole(s, m, actor.nans) /\ Follows(s, b, m) /\ AllWhole(s, r, actor.nans)
       /\ Chain(s, r, Mark(s, m)) /\ Tops(s, EndOf(s, r, Mark(s, m)))
  <2>1. Chain(s, q, b) /\ Tops(s, EndOf(s, q, b))
    BY <1>2, <1>6 DEF Sends
  <2>2. HeadTaken(s, b, Head(q), Tail(q))
    BY <1>2, <1>4, <2>1, TakesHead
  <2> QED  BY <1>8, <1>9, <2>2 DEF HeadTaken
<1>11. Follows(s, a, m)
  <2>1. Mark(s, m) \in Nat /\ Mark(s, m) = m[1]
    BY <1>1, <1>10, MarkIsNat DEF Mark
  <2>2. PICK v \in Nat : v = m[1]
    BY <2>1
  <2>3. b <= v
    BY <1>1, <1>10, <2>2 DEF Follows
  <2>4. a <= v
    BY <1>6, <2>3
  <2> QED  BY <1>1, <2>2, <2>4 DEF Follows
<1>12. PICK parts \in Seq(Part(s)) :
         parts = SendBytesInChunks(m) /\ parts # <<>> /\ Carries(s, wire[s].buffer, parts, m)
  <2>1. m # <<>>
    BY <1>10, MarkIsNat
  <2> QED  BY <1>7, <2>1, PartsOf
<1>13. PICK yes \in BOOLEAN : yes = TRUE
  OBVIOUS
<1>14. wire' = [wire EXCEPT ![s].remaining = parts, ![s].draining = yes]
  BY <1>2, <1>8, <1>12, <1>13 DEF TakeLatest
<1>15. /\ DOMAIN wire' = Stream /\ wire'[s] \in WireType(s)
       /\ wire'[s].remaining = parts /\ wire'[s].buffer = wire[s].buffer
       /\ ~wire'[s].broken
       /\ \A t \in Stream : t # s => wire'[t] = wire[t]
  <2>1. wire[s] \in WireType(s)
    BY <1>1, StreamFacts
  <2>2. PICK w : w = [wire[s] EXCEPT !.remaining = parts, !.draining = yes]
    OBVIOUS
  <2>3. wire' = [wire EXCEPT ![s] = w]
    BY <1>1, <1>14, <2>1, <2>2 DEF WireType
  <2>4. /\ w \in WireType(s) /\ w.remaining = parts /\ w.buffer = wire[s].buffer
        /\ ~w.broken
    BY <1>7, <2>1, <2>2 DEF WireType
  <2> QED  BY <1>1, <2>3, <2>4
<1>16. /\ DOMAIN sendq' = Stream /\ sendq'[s] = r
       /\ \A t \in Stream : t # s => sendq'[t] = sendq[t]
  <2>1. sendq' = [sendq EXCEPT ![s] = r]
    BY <1>2, <1>9 DEF TakeLatest
  <2> QED  BY <1>1, <2>1
<1>17. Base(s)' = Base(s) /\ Got(s)' = Got(s)
  BY <1>3 DEF Base, Got
<1>18. Sends(s, Mark(s, m))'
  BY <1>3, <1>10, <1>16 DEF Sends, Tops
<1>19. UnderWay(s)'
  <2>1. Carries(s, wire'[s].buffer, wire'[s].remaining, m)
    BY <1>12, <1>15
  <2>2. Follows(s, Got(s)', m)
    BY <1>5, <1>11, <1>17
  <2> QED  BY <1>3, <1>10, <1>18, <2>1, <2>2 DEF UnderWay
<1>20. StreamInv(s)'
  BY <1>3, <1>4, <1>7, <1>10, <1>12, <1>15, <1>16, <1>17, <1>19 DEF StreamInv
<1>21. DOMAIN recvq' = Stream /\ \A t \in Stream : recvq'[t] = recvq[t]
  BY <1>1, <1>3 DEF Types
<1> QED  BY <1>3, <1>4, <1>15, <1>16, <1>20, <1>21, StreamStep

LEMMA BreakKeeps ==
  ASSUME IInv, NEW s \in Stream, Break(s)
  PROVE  IInv'
<1>1. Types /\ StreamInv(s) /\ DOMAIN wire = Stream
  BY DEF IInv, Types
<1>2. /\ actor' = actor /\ shutdown' = shutdown /\ learner' = learner /\ ring' = ring
      /\ sendq' = sendq /\ recvq' = recvq
  BY DEF Break
<1>3. PICK yes, nothing : yes \in BOOLEAN /\ yes = TRUE /\ nothing = <<>>
  OBVIOUS
<1>4. PICK w, no : /\ no \in BOOLEAN /\ no = FALSE
                   /\ w = [remaining |-> nothing, draining |-> no, buffer |-> nothing,
                           broken |-> yes]
  OBVIOUS
<1>5. wire' = [wire EXCEPT ![s] = w]
  BY <1>3, <1>4 DEF Break
<1>6. nothing \in Seq(Part(s)) /\ nothing \in Seq(Datum(s))
  BY <1>3, EmptySeq
<1>7. /\ w \in WireType(s) /\ w.remaining = nothing /\ w.buffer = nothing
      /\ w.broken = yes /\ ~w.draining
  <2>1. yes \in BOOLEAN
    BY <1>3
  <2>2. no \in BOOLEAN /\ ~no
    BY <1>4
  <2> QED  BY <1>4, <1>6, <2>1, <2>2 DEF WireType
<1>8. /\ DOMAIN wire' = Stream /\ wire'[s] = w
      /\ \A r \in Stream : r # s => wire'[r] = wire[r]
  BY <1>1, <1>5
<1>9. StreamInv(s)'
  <2>1. Base(s)' = Base(s)
    BY <1>2 DEF Base
  <2> QED  BY <1>1, <1>2, <1>3, <1>7, <1>8, <2>1 DEF StreamInv
<1>10. /\ DOMAIN sendq' = Stream /\ DOMAIN recvq' = Stream
       /\ sendq'[s] \in Seq(Seq(Datum(s))) /\ recvq'[s] \in Seq(Seq(Datum(s)))
       /\ \A r \in Stream : sendq'[r] = sendq[r] /\ recvq'[r] = recvq[r]
  BY <1>1, <1>2 DEF Types
<1> QED  BY <1>2, <1>7, <1>8, <1>9, <1>10, StreamStep

LEMMA Unchanging ==
  ASSUME IInv, shutdown' \in BOOLEAN,
         UNCHANGED <<actor, sendq, wire, recvq, learner, ring>>
  PROVE  IInv'
<1>1. Types /\ \A s \in Stream : StreamInv(s)
  BY DEF IInv
<1>2. Types'
  BY <1>1 DEF Types
<1>3. ASSUME NEW s \in Stream  PROVE StreamInv(s)'
  BY <1>1 DEF StreamInv, Base, Got, Sends, Tops, UnderWay
<1> QED  BY <1>2, <1>3, EndsUntouched DEF IInv

-----------------------------------------------------------------------------
(* The ring.                                                               *)

LEMMA Modulo ==
  ASSUME NEW x \in Int
  PROVE  /\ x \in 0..Capacity - 1 => x % Capacity = x
         /\ -Capacity <= x /\ x < 0 => x % Capacity = x + Capacity
         /\ x \in Slot => NextPosition(x) = After(x)
         /\ x \in Slot => (x - 1) % Capacity = IF x = 0 THEN Capacity - 1 ELSE x - 1
<1>1. Capacity \in Nat /\ Capacity >= 2
  BY Constants
<1>2. ASSUME NEW y \in Int, y \in 0..Capacity - 1  PROVE y % Capacity = y
  BY <1>1, <1>2
<1>3. ASSUME NEW y \in Int, -Capacity <= y, y < 0  PROVE y % Capacity = y + Capacity
  BY <1>1, <1>3
<1>4. ASSUME x \in Slot  PROVE NextPosition(x) = After(x)
  <2>1. CASE x = Capacity - 1
    <3>1. (x + 1) % Capacity = 0
      BY <1>1, <2>1
    <3> QED  BY <2>1, <3>1 DEF NextPosition, After
  <2>2. CASE x # Capacity - 1
    <3>1. x + 1 \in Int /\ x + 1 \in 0..Capacity - 1
      BY <1>1, <1>4, <2>2 DEF Slot
    <3>2. (x + 1) % Capacity = x + 1
      BY <1>2, <3>1
    <3> QED  BY <2>2, <3>2 DEF NextPosition, After
  <2> QED  BY <2>1, <2>2
<1>5. ASSUME x \in Slot
      PROVE  (x - 1) % Capacity = IF x = 0 THEN Capacity - 1 ELSE x - 1
  <2>1. CASE x = 0
    <3>1. x - 1 \in Int /\ -Capacity <= x - 1 /\ x - 1 < 0 /\ (x - 1) + Capacity = Capacity - 1
      BY <1>1, <2>1
    <3> QED  BY <1>3, <2>1, <3>1
  <2>2. CASE x # 0
    <3>1. x - 1 \in Int /\ x - 1 \in 0..Capacity - 1
      BY <1>1, <1>5, <2>2 DEF Slot
    <3> QED  BY <1>2, <2>2, <3>1
  <2> QED  BY <2>1, <2>2
<1> QED  BY <1>2, <1>3, <1>4, <1>5

LEMMA AfterIsSlot ==
  ASSUME NEW i \in Slot
  PROVE  /\ After(i) \in Slot /\ After(i) # i
         /\ \A j \in Slot : After(i) = After(j) => i = j
BY Constants DEF After, Slot

\* The ring stays, and so does the half-added transition.
LEMMA RingStays ==
  ASSUME Types, RingInv, ring' = ring, actor.nans \subseteq actor'.nans,
         learner'.half = learner.half, Frontier' = Frontier,
         learner.half => learner'.batch[1] = learner.batch[1]
  PROVE  RingInv'
<1>1. /\ ring.size < Capacity => ring.position = ring.size
      /\ learner.half => ring.states[ring.position] = learner.batch[1].n
      /\ \A i \in 0..(ring.size - 1) : SlotInv(i)
  BY DEF RingInv
<1>2. ASSUME NEW i \in 0..(ring.size - 1)  PROVE SlotInv(i)'
  <2>1. SlotInv(i)
    BY <1>1
  <2> QED  BY <2>1 DEF SlotInv, OnlyNaNs
<1> QED  BY <1>1, <1>2 DEF RingInv

LEMMA LearnerFacts ==
  ASSUME Types, BatchInv
  PROVE  /\ learner.batch \in Seq(Transition) /\ Len(learner.batch) \in Nat
         /\ learner.learned \in Nat /\ learner.step \in Version /\ learner.half \in BOOLEAN
         /\ Frontier \in Int
         /\ \A i \in 1..Len(learner.batch) : learner.batch[i] \in Transition
         /\ learner.batch # <<>> =>
              /\ Len(learner.batch) >= 1 /\ Head(learner.batch) = learner.batch[1]
              /\ learner.batch[1] \in Transition /\ learner.batch[1].n = Frontier + 1
<1>1. learner.batch \in Seq(Transition) /\ Len(learner.batch) \in Nat
  BY DEF Types, LearnerType
<1>2. learner.learned \in Nat /\ learner.step \in Version /\ learner.half \in BOOLEAN
  BY Constants DEF Types, LearnerType
<1>3. \A i \in 1..Len(learner.batch) : learner.batch[i] \in Transition
  BY <1>1, ElementOfSeq
<1>4. Frontier \in Int
  BY <1>1, <1>2 DEF Frontier
<1>5. ASSUME learner.batch # <<>>
      PROVE  /\ Len(learner.batch) >= 1 /\ Head(learner.batch) = learner.batch[1]
             /\ learner.batch[1] \in Transition /\ learner.batch[1].n = Frontier + 1
  <2>1. Len(learner.batch) >= 1 /\ 1 \in 1..Len(learner.batch)
    BY <1>1, <1>5, EmptySeq
  <2>2. learner.batch[1].n = (learner.learned - Len(learner.batch)) + 1
    BY <2>1 DEF BatchInv, EndsAt
  <2> QED  BY <1>1, <1>3, <1>5, <2>1, <2>2 DEF Frontier
<1> QED  BY <1>1, <1>2, <1>3, <1>4, <1>5

\* Without its first transition the batch still ends where it did.
LEMMA BatchTail ==
  ASSUME Types, BatchInv, learner.batch # <<>>
  PROVE  /\ Tail(learner.batch) \in Seq(Transition)
         /\ EndsAt(Tail(learner.batch), learner.learned)
         /\ learner.learned - Len(Tail(learner.batch)) = Frontier + 1
         /\ \A k \in 1..Len(Tail(learner.batch)) :
              Tail(learner.batch)[k].nan => Tail(learner.batch)[k].n \in actor.nans
<1>1. PICK q \in Seq(Transition) : q = learner.batch /\ q # <<>>
  BY LearnerFacts
<1>2. PICK l \in Nat : l = Len(q) /\ l >= 1
  BY <1>1, EmptySeq
<1>3. PICK e \in Nat : e = learner.learned
  BY LearnerFacts
<1>4. PICK r \in Seq(Transition) :
        r = Tail(q) /\ Len(r) = l - 1 /\ \A i \in 1..(l - 1) : r[i] = q[i + 1]
  <2>1. /\ Tail(q) \in Seq(Transition) /\ Len(Tail(q)) = Len(q) - 1
        /\ \A i \in 1..Len(Tail(q)) : Tail(q)[i] = q[i + 1]
    BY <1>1, HeadTailProperties
  <2> QED  BY <1>2, <2>1
<1>5. /\ \A k \in 1..l : q[k].n = (e - l) + k
      /\ \A k \in 1..l : q[k].nan => q[k].n \in actor.nans
  BY <1>1, <1>2, <1>3 DEF BatchInv, EndsAt
<1>6. ASSUME NEW k \in 1..(l - 1)
      PROVE  r[k].n = (e - (l - 1)) + k /\ (r[k].nan => r[k].n \in actor.nans)
  <2>1. k + 1 \in 1..l /\ (e - l) + (k + 1) = (e - (l - 1)) + k
    BY <1>2
  <2>2. r[k] = q[k + 1]
    BY <1>4
  <2> QED  BY <1>5, <2>1, <2>2
<1>7. EndsAt(r, e)
  BY <1>4, <1>6 DEF EndsAt
<1>8. e - Len(r) = Frontier + 1
  BY <1>1, <1>2, <1>3, <1>4 DEF Frontier
<1> QED  BY <1>1, <1>3, <1>4, <1>6, <1>7, <1>8

-----------------------------------------------------------------------------
(* The learner's steps within a message.                                   *)

\* Only the learner's batch and the ring change.
LEMMA RingStep ==
  ASSUME IInv, UNCHANGED <<actor, shutdown, sendq, wire, recvq>>,
         learner' \in LearnerType, ring' \in RingType,
         learner'.learned = learner.learned, learner'.step = learner.step,
         BatchInv', RingInv'
  PROVE  IInv'
<1>1. Types /\ (\A s \in Stream : StreamInv(s)) /\ ActorInv
  BY DEF IInv
<1>2. Types'
  BY <1>1 DEF Types
<1>3. ASSUME NEW s \in Stream  PROVE StreamInv(s)'
  <2>1. Base(s)' = Base(s)
    BY DEF Base
  <2>2. learner.step \in Nat
    BY <1>1, Constants DEF Types, LearnerType
  <2>3. learner'.step \in Nat /\ learner.step <= learner'.step
    BY <2>2
  <2>4. actor.nans \subseteq actor'.nans
    OBVIOUS
  <2> QED  BY <1>1, <2>1, <2>3, <2>4, Untouched
<1>4. ActorInv'
  BY <1>1 DEF ActorInv
<1> QED  BY <1>2, <1>3, <1>4 DEF IInv

LEMMA SkipNaNKeeps ==
  ASSUME IInv, SkipNaN
  PROVE  IInv'
<1>1. Types /\ BatchInv /\ RingInv
  BY DEF IInv
<1>2. PICK b \in Transition : b = learner.batch[1] /\ b.n = Frontier + 1 /\ b.nan
  BY <1>1, LearnerFacts DEF SkipNaN
<1>3. PICK q \in Seq(Transition) : q = Tail(learner.batch)
  BY <1>1, BatchTail DEF SkipNaN
<1>4. learner' = [learner EXCEPT !.batch = q]
  BY <1>3 DEF SkipNaN, AfterNaN
<1>5. /\ learner' \in LearnerType /\ learner'.batch = q /\ learner'.half = learner.half
      /\ learner'.learned = learner.learned /\ learner'.step = learner.step
  BY <1>1, <1>3, <1>4 DEF Types, LearnerType
<1>6. ~learner.half /\ b.n \in actor.nans
  <2>1. ~learner.half
    BY <1>1, <1>2 DEF BatchInv
  <2>2. 1 \in 1..Len(learner.batch)
    BY <1>1, LearnerFacts DEF SkipNaN
  <2> QED  BY <1>1, <1>2, <2>1, <2>2 DEF BatchInv
<1>7. UNCHANGED <<actor, shutdown, sendq, wire, recvq, ring>>
  BY DEF SkipNaN
<1>8. BatchInv' /\ Frontier' = Frontier + 1
  <2>1. learner.batch # <<>>
    BY DEF SkipNaN
  <2> QED  BY <1>1, <1>3, <1>5, <1>6, <1>7, <2>1, BatchTail DEF BatchInv, Frontier
<1>9. RingInv'
  <2>1. PICK f \in Int : f = Frontier
    BY <1>1, LearnerFacts
  <2>2. ASSUME NEW i \in 0..(ring.size - 1)  PROVE SlotInv(i)'
    <3>1. SlotInv(i)
      BY <1>1 DEF RingInv
    <3>2. PICK t \in Transition : t = ring.rest[i]
      BY <3>1 DEF SlotInv
    <3>3. t.n \in Nat
      BY Constants DEF Transition
    <3>4. ASSUME t.n <= f, OnlyNaNs(t.n, f + 1, actor.nans)
          PROVE  t.n <= f + 1 /\ OnlyNaNs(t.n, (f + 1) + 1, actor.nans)
      <4>1. \A n \in Step : n \in Int
        BY Constants
      <4>2. ASSUME NEW n \in Step, t.n < n, n < (f + 1) + 1  PROVE n \in actor.nans
        <5>1. CASE n = f + 1
          BY <1>2, <1>6, <2>1, <5>1
        <5>2. CASE n # f + 1
          <6>1. n < f + 1
            BY <2>1, <4>1, <4>2, <5>2
          <6> QED  BY <3>4, <4>2, <6>1 DEF OnlyNaNs
        <5> QED  BY <5>1, <5>2
      <4>3. t.n <= f + 1
        BY <2>1, <3>3, <3>4
      <4> QED  BY <4>2, <4>3 DEF OnlyNaNs
    <3> QED  BY <1>5, <1>7, <1>8, <2>1, <3>1, <3>2, <3>4 DEF SlotInv
  <2> QED  BY <1>1, <1>5, <1>6, <1>7, <2>2 DEF RingInv
<1> QED  BY <1>1, <1>5, <1>7, <1>8, <1>9, RingStep DEF Types

LEMMA AddStateKeeps ==
  ASSUME IInv, AddState
  PROVE  IInv'
<1>1. Types /\ BatchInv /\ RingInv
  BY DEF IInv
<1>2. PICK b \in Transition : b = learner.batch[1] /\ b.n \in Step /\ ~b.nan
  BY <1>1, LearnerFacts DEF AddState, Transition
<1>3. PICK yes \in BOOLEAN : yes = TRUE
  OBVIOUS
<1>4. learner' = [learner EXCEPT !.half = yes]
  BY <1>3 DEF AddState
<1>5. /\ learner' \in LearnerType /\ learner'.half /\ learner'.batch = learner.batch
      /\ learner'.learned = learner.learned /\ learner'.step = learner.step
  BY <1>1, <1>3, <1>4 DEF Types, LearnerType
<1>6. PICK p \in Slot : p = ring.position
  BY <1>1 DEF Types, RingType
<1>7. PICK st \in [Slot -> Step \cup {None}] : st = ring.states
  BY <1>1 DEF Types, RingType
<1>8. PICK new \in [Slot -> Step \cup {None}] : new = [st EXCEPT ![p] = b.n]
  BY <1>2
<1>9. ring' = [ring EXCEPT !.states = new]
  <2>1. Head(learner.batch).n = b.n
    BY <1>1, <1>2, LearnerFacts DEF AddState
  <2> QED  BY <1>6, <1>7, <1>8, <2>1 DEF AddState
<1>10. /\ ring' \in RingType /\ ring'.states = new /\ ring'.rest = ring.rest
       /\ ring'.position = p /\ ring'.size = ring.size
  BY <1>1, <1>6, <1>9 DEF Types, RingType
<1>11. new[p] = b.n /\ \A i \in Slot : i # p => new[i] = ring.states[i]
  BY <1>7, <1>8
<1>12. UNCHANGED <<actor, shutdown, sendq, wire, recvq>>
  BY DEF AddState
<1>13. BatchInv' /\ Frontier' = Frontier
  <2>1. learner.batch # <<>>
    BY DEF AddState
  <2> QED  BY <1>1, <1>2, <1>5, <1>12, <2>1 DEF BatchInv, Frontier
<1>14. RingInv'
  <2>1. ASSUME NEW i \in 0..(ring.size - 1)  PROVE SlotInv(i)'
    <3>1. SlotInv(i)
      BY <1>1 DEF RingInv
    <3>2. i \in Slot
      BY <1>1, Constants DEF Types, RingType, Slot
    <3>3. ring'.states[i] = ring.states[i] \/ i = p
      BY <1>10, <1>11, <3>2
    <3> QED  BY <1>5, <1>6, <1>10, <1>12, <1>13, <3>1, <3>3 DEF SlotInv
  <2>2. ring.size < Capacity => p = ring.size
    BY <1>1, <1>6 DEF RingInv
  <2>3. ring'.states[ring'.position] = learner'.batch[1].n
    BY <1>2, <1>5, <1>10, <1>11
  <2> QED  BY <1>5, <1>6, <1>10, <2>1, <2>2, <2>3 DEF RingInv
<1> QED  BY <1>5, <1>10, <1>12, <1>13, <1>14, RingStep

LEMMA AddRestKeeps ==
  ASSUME IInv, AddRest
  PROVE  IInv'
<1>1. Types /\ BatchInv /\ RingInv /\ learner.half /\ learner.batch # <<>>
  BY DEF IInv, AddRest, BatchInv
<1>2. PICK f \in Int : f = Frontier
  BY <1>1, LearnerFacts
<1>3. PICK b \in Transition : b = learner.batch[1] /\ b.n = f + 1
  BY <1>1, <1>2, LearnerFacts
<1>4. PICK q \in Seq(Transition) : q = Tail(learner.batch)
  BY <1>1, BatchTail
<1>5. PICK no \in BOOLEAN : no = FALSE
  OBVIOUS
<1>6. learner' = [learner EXCEPT !.half = no, !.batch = q]
  BY <1>4, <1>5 DEF AddRest
<1>7. /\ learner' \in LearnerType /\ ~learner'.half /\ learner'.batch = q
      /\ learner'.learned = learner.learned /\ learner'.step = learner.step
  BY <1>1, <1>4, <1>5, <1>6 DEF Types, LearnerType
<1>8. PICK p \in Slot : p = ring.position
  BY <1>1 DEF Types, RingType
<1>9. PICK z \in 0..Capacity : z = ring.size
  BY <1>1 DEF Types, RingType
<1>10. PICK old \in [Slot -> Transition \cup {None}] : old = ring.rest
  BY <1>1 DEF Types, RingType
<1>11. PICK new \in [Slot -> Transition \cup {None}] : new = [old EXCEPT ![p] = b]
  OBVIOUS
<1>12. PICK next \in Slot : next = After(p)
  BY AfterIsSlot
<1>13. PICK y \in 0..Capacity : y = IF z < Capacity THEN z + 1 ELSE z
  BY Constants
<1>14. ring' = [ring EXCEPT !.rest = new, !.position = next, !.size = y]
  <2>1. Head(learner.batch) = b
    BY <1>1, <1>3, LearnerFacts
  <2>2. NextPosition(p) = next
    <3>1. p \in Int
      BY Constants DEF Slot
    <3> QED  BY <1>12, <3>1, Modulo
  <2> QED  BY <1>8, <1>9, <1>10, <1>11, <1>13, <2>1, <2>2 DEF AddRest
<1>15. /\ ring' \in RingType /\ ring'.states = ring.states /\ ring'.rest = new
       /\ ring'.position = next /\ ring'.size = y
  BY <1>1, <1>14 DEF Types, RingType
<1>16. new[p] = b /\ \A i \in Slot : i # p => new[i] = ring.rest[i]
  BY <1>10, <1>11
<1>17. UNCHANGED <<actor, shutdown, sendq, wire, recvq>>
  BY DEF AddRest
<1>18. BatchInv' /\ Frontier' = f + 1
  BY <1>1, <1>2, <1>4, <1>7, <1>17, BatchTail DEF BatchInv, Frontier
<1>19. RingInv'
  <2>1. Capacity \in Nat /\ Capacity >= 2 /\ p \in 0..Capacity - 1
    BY Constants DEF Slot
  <2>2. z < Capacity => p = z
    BY <1>1, <1>8, <1>9 DEF RingInv
  <2>3. y < Capacity => next = y
    <3> SUFFICES ASSUME y < Capacity  PROVE next = y
      OBVIOUS
    <3>1. p = z /\ y = z + 1 /\ p # Capacity - 1
      BY <1>9, <1>13, <2>1, <2>2
    <3> QED  BY <1>12, <3>1 DEF After
  <2>4. ASSUME NEW i \in 0..(y - 1)  PROVE SlotInv(i)'
    <3>1. i \in Slot
      BY <1>13, <2>1 DEF Slot
    <3>2. CASE i = p
      <4>1. ring'.rest[i] = b /\ b.n = f + 1 /\ After(i) = ring'.position
        BY <1>3, <1>12, <1>15, <1>16, <3>2
      <4>2. ring'.states[i] = b.n
        BY <1>1, <1>3, <1>8, <1>15, <3>2 DEF RingInv
      <4>3. b.n <= f + 1 /\ OnlyNaNs(b.n, (f + 1) + 1, actor'.nans)
        <5>1. \A n \in Step : n \in Int
          BY Constants
        <5>2. \A n \in Step : ~(f + 1 < n /\ n < (f + 1) + 1)
          BY <1>2, <5>1
        <5> QED  BY <1>3, <5>2 DEF OnlyNaNs
      <4> QED  BY <1>18, <4>1, <4>2, <4>3 DEF SlotInv
    <3>3. CASE i # p
      <4>1. i \in 0..(z - 1)
        BY SMTT(30), <1>9, <1>13, <2>1, <2>2, <3>3
      <4>2. SlotInv(i)
        BY <1>1, <1>9, <4>1 DEF RingInv
      <4>3. PICK j \in Slot : j = After(i)
        BY <3>1, AfterIsSlot
      <4>4. j # next
        BY <1>12, <3>1, <3>3, <4>3, AfterIsSlot
      <4>5. PICK t \in Transition : t = ring.rest[i]
        BY <4>2 DEF SlotInv
      <4>6. ring'.rest[i] = t /\ ring'.states[i] = t.n
        BY <1>8, <1>15, <1>16, <3>1, <3>3, <4>2, <4>5 DEF SlotInv
      <4>7. j < y /\ t.n < new[j].n /\ OnlyNaNs(t.n, new[j].n, actor.nans)
        <5>1. CASE j = p
          <6>1. new[j] = b /\ b.n = f + 1
            BY <1>3, <1>16, <5>1
          <6>2. t.n <= f /\ OnlyNaNs(t.n, f + 1, actor.nans)
            BY <1>2, <1>8, <4>2, <4>3, <4>5, <5>1 DEF SlotInv
          <6>3. t.n \in Int
            <7>1. t.n \in Step
              BY DEF Transition
            <7>2. t.n \in Nat
              BY <7>1, Constants
            <7> QED  BY <7>2
          <6>4. j < y
            BY <1>9, <1>13, <2>1, <2>2, <5>1
          <6>5. t.n < f + 1
            BY <1>2, <6>2, <6>3
          <6> QED  BY <6>1, <6>2, <6>4, <6>5
        <5>2. CASE j # p
          <6>1. new[j] = ring.rest[j]
            BY <1>16, <4>3, <5>2
          <6>2. j < z /\ t.n < ring.rest[j].n /\ OnlyNaNs(t.n, ring.rest[j].n, actor.nans)
            BY <1>8, <1>9, <4>2, <4>3, <4>5, <5>2 DEF SlotInv
          <6>3. j < y
            BY <1>9, <1>13, <2>1, <4>3, <6>2 DEF Slot
          <6> QED  BY <6>1, <6>2, <6>3
        <5> QED  BY <5>1, <5>2
      <4> QED  BY <1>15, <1>17, <4>3, <4>4, <4>6, <4>7 DEF SlotInv
    <3> QED  BY <3>2, <3>3
  <2> QED  BY <1>7, <1>15, <2>3, <2>4 DEF RingInv
<1> QED  BY <1>7, <1>15, <1>17, <1>18, <1>19, RingStep

-----------------------------------------------------------------------------
(* The learner takes a message; the rest of its loop.                      *)

LEMMA ProcessTransitionsKeeps ==
  ASSUME IInv, ProcessTransitions
  PROVE  IInv'
<1>1. Types /\ BatchInv /\ RingInv /\ ActorInv /\ \A r \in Stream : StreamInv(r)
  BY DEF IInv
<1>2. PICK s \in Stream : s = "transitions"
  BY DEF Stream
<1>3. PICK q \in Seq(Seq(Datum(s))) : q = recvq[s] /\ q # <<>>
  BY <1>1, <1>2, StreamFacts DEF ProcessTransitions
<1>4. PICK m \in Seq(Datum(s)) : m = Head(q)
  BY <1>3, HeadTailProperties
<1>5. PICK r \in Seq(Seq(Datum(s))) : r = Tail(q)
  BY <1>3, HeadTailProperties
<1>6. PICK a \in Nat : a = Base(s) /\ a = learner.learned
  BY <1>1, <1>2, LearnerFacts DEF Base
<1>7. /\ AllWhole(s, q, actor.nans) /\ Chain(s, q, a) /\ Got(s) = EndOf(s, q, a)
  BY <1>1, <1>3, <1>6 DEF StreamInv, Got
<1>8. /\ Whole(s, m, actor.nans) /\ AllWhole(s, r, actor.nans)
  BY <1>3, <1>4, <1>5, <1>7, WholeTail
<1>9. /\ Follows(s, a, m) /\ Chain(s, r, Mark(s, m))
      /\ EndOf(s, r, Mark(s, m)) = EndOf(s, q, a)
  <2>1. /\ Follows(s, a, Head(q)) /\ Chain(s, Tail(q), Mark(s, Head(q)))
        /\ EndOf(s, Tail(q), Mark(s, Head(q))) = EndOf(s, q, a)
    BY <1>3, <1>7, ChainTail
  <2> QED  BY <1>4, <1>5, <2>1
<1>10. PICK e \in Step : e = Mark(s, m) /\ e = m[Len(m)].n
  BY <1>2, <1>8, MarkIsNat DEF Mark
<1>11. m \in Seq(Transition) /\ Len(m) \in Nat /\ Len(m) >= 1 /\ m # <<>>
  BY <1>2, <1>8, MarkIsNat
<1>12. learner' = [learner EXCEPT !.batch = m, !.learned = e]
  BY <1>2, <1>3, <1>4, <1>10 DEF ProcessTransitions, Last
<1>13. e \in 0..OnlineSteps /\ e \in Nat
  BY <1>10, Constants DEF Step
<1>14. /\ learner' \in LearnerType /\ learner'.batch = m /\ learner'.learned = e
       /\ learner'.half = learner.half /\ learner'.step = learner.step
  BY <1>1, <1>11, <1>12, <1>13 DEF Types, LearnerType
<1>15. recvq' = [recvq EXCEPT ![s] = r] /\ DOMAIN recvq = Stream
  BY <1>1, <1>2, <1>3, <1>5 DEF ProcessTransitions, Types
<1>16. /\ DOMAIN recvq' = Stream /\ recvq'[s] = r
       /\ \A t \in Stream : t # s => recvq'[t] = recvq[t]
  BY <1>15
<1>17. UNCHANGED <<actor, shutdown, sendq, wire, ring>>
  BY DEF ProcessTransitions
<1>18. Types'
  <2>1. \A t \in Stream : recvq'[t] \in Seq(Seq(Datum(t)))
    BY <1>1, <1>16 DEF Types
  <2> QED  BY <1>1, <1>14, <1>16, <1>17, <2>1 DEF Types
<1>19. StreamInv(s)'
  <2>1. Base(s)' = Mark(s, m)
    BY <1>2, <1>10, <1>14 DEF Base
  <2>2. Got(s)' = Got(s)
    BY <1>7, <1>9, <1>16, <2>1 DEF Got
  <2>3. Chain(s, recvq[s], Base(s))'
    BY <1>9, <1>16, <2>1
  <2>4. /\ AllWhole(s, recvq'[s], actor.nans) /\ actor.nans \subseteq actor'.nans
        /\ sendq'[s] = sendq[s] /\ wire'[s] = wire[s] /\ actor'.pushed = actor.pushed
        /\ s # "parameters"
    BY <1>2, <1>8, <1>16, <1>17
  <2> QED  BY <1>1, <2>2, <2>3, <2>4, SameSender
<1>20. ASSUME NEW t \in Stream, t # s  PROVE StreamInv(t)'
  <2>1. Base(t)' = Base(t)
    BY <1>2, <1>17, <1>20 DEF Base
  <2>2. learner'.step \in Nat /\ learner.step <= learner'.step
    <3>1. learner.step \in Version
      BY <1>1, LearnerFacts
    <3>2. learner.step \in Nat
      BY <3>1, Constants
    <3> QED  BY <1>14, <3>2
  <2>3. actor.nans \subseteq actor'.nans
    BY <1>17
  <2> QED  BY <1>1, <1>2, <1>16, <1>17, <1>20, <2>1, <2>2, <2>3, Untouched
<1>21. learner.batch = <<>> /\ ~learner.half
  BY <1>1 DEF ProcessTransitions, BatchInv
<1>22. /\ \A k \in 1..Len(m) : m[k].n = m[1].n + (k - 1) /\ (m[k].nan => m[k].n \in actor.nans)
       /\ m[1].n = a + 1
  BY <1>2, <1>8, <1>9 DEF Whole, Follows
<1>23. e = a + Len(m)
  <2>1. Len(m) \in 1..Len(m)
    BY <1>11
  <2>2. m[Len(m)].n = m[1].n + (Len(m) - 1)
    BY <1>22, <2>1
  <2>3. e = (a + 1) + (Len(m) - 1)
    BY <1>10, <1>22, <2>2
  <2> QED  BY <1>6, <1>11, <2>3
<1>24. BatchInv'
  <2>1. ASSUME NEW k \in 1..Len(m)  PROVE m[k].n = (e - Len(m)) + k
    <3>1. m[k].n = (a + 1) + (k - 1)
      BY <1>22
    <3> QED  BY <1>6, <1>11, <1>23, <3>1
  <2> QED  BY <1>14, <1>17, <1>21, <1>22, <2>1 DEF BatchInv, EndsAt
<1>25. Frontier' = Frontier
  <2>1. Len(learner.batch) = 0
    BY <1>21, EmptySeq
  <2>2. Frontier = a
    BY <1>6, <2>1 DEF Frontier
  <2>3. e - Len(m) = a
    BY <1>6, <1>11, <1>23
  <2> QED  BY <1>14, <2>2, <2>3 DEF Frontier
<1>26. RingInv'
  <2>1. learner'.half = learner.half /\ ring' = ring /\ actor.nans \subseteq actor'.nans
    BY <1>14, <1>17
  <2> QED  BY <1>1, <1>21, <1>25, <2>1, RingStays
<1>27. ActorInv'
  BY <1>1, <1>17 DEF ActorInv
<1>28. \A t \in Stream : StreamInv(t)'
  BY <1>19, <1>20
<1> QED  BY <1>18, <1>24, <1>26, <1>27, <1>28 DEF IInv

\* A message gets into the queue of its sender.
LEMMA Pushes ==
  ASSUME Types, NEW s \in Stream, StreamInv(s), NEW m \in Seq(Datum(s)),
         sendq'[s] = Append(sendq[s], m), wire'[s] = wire[s], recvq'[s] = recvq[s],
         Base(s)' = Base(s), actor.nans \subseteq actor'.nans, Whole(s, m, actor'.nans),
         \A a \in Nat : Tops(s, a) => Follows(s, a, m), Tops(s, Mark(s, m))'
  PROVE  StreamInv(s)' /\ sendq'[s] \in Seq(Seq(Datum(s)))
<1>1. /\ AllWhole(s, sendq[s], actor.nans) /\ AllWhole(s, recvq[s], actor.nans)
      /\ Chain(s, recvq[s], Base(s))
      /\ wire[s].remaining = <<>> =>
           wire[s].buffer = <<>> /\ (wire[s].broken \/ Sends(s, Got(s)))
      /\ wire[s].remaining # <<>> => ~wire[s].broken /\ UnderWay(s)
      /\ wire[s].draining => wire[s].remaining # <<>> /\ wire[s].buffer = <<>>
  BY DEF StreamInv
<1>2. PICK q \in Seq(Seq(Datum(s))) : q = sendq[s]
  BY StreamFacts
<1>3. sendq'[s] = Append(q, m) /\ Append(q, m) \in Seq(Seq(Datum(s)))
  BY <1>2, AppendProperties
<1>4. /\ AllWhole(s, q, actor'.nans) /\ AllWhole(s, recvq[s], actor'.nans)
  BY <1>1, <1>2, WholeStays DEF AllWhole
<1>5. AllWhole(s, Append(q, m), actor'.nans)
  BY <1>4, WholeAppend
<1>6. Got(s)' = Got(s) /\ Got(s) \in Nat
  <2>1. EndOf(s, recvq[s], Base(s)) \in Nat
    BY <1>1, StreamFacts, EndIsNat
  <2> QED  BY <2>1 DEF Got
<1>7. Mark(s, m) \in Nat
  BY MarkIsNat
<1>8. ASSUME NEW a \in Nat, Sends(s, a)  PROVE Sends(s, a)'
  <2>1. EndOf(s, q, a) \in Nat
    BY <1>1, <1>2, EndIsNat
  <2>2. Chain(s, q, a) /\ Tops(s, EndOf(s, q, a))
    BY <1>2, <1>8 DEF Sends
  <2>3. Follows(s, EndOf(s, q, a), m)
    BY <2>1, <2>2
  <2>4. /\ Chain(s, Append(q, m), a) /\ EndOf(s, Append(q, m), a) = Mark(s, m)
    BY <1>7, <2>1, <2>2, <2>3, ChainAppend
  <2> QED  BY <1>3, <2>4 DEF Sends
<1>9. UnderWay(s) => UnderWay(s)'
  <2> SUFFICES ASSUME UnderWay(s)  PROVE UnderWay(s)'
    OBVIOUS
  <2>1. PICK w \in Seq(Datum(s)) :
          /\ Whole(s, w, actor.nans) /\ Carries(s, wire[s].buffer, wire[s].remaining, w)
          /\ Follows(s, Got(s), w) /\ Sends(s, Mark(s, w))
    BY DEF UnderWay
  <2>2. Whole(s, w, actor'.nans)
    BY <2>1, WholeStays
  <2>3. PICK a \in Nat : a = Mark(s, w)
    BY <2>1, MarkIsNat
  <2>4. Sends(s, a)'
    BY <1>8, <2>1, <2>3
  <2> QED  BY <1>6, <2>1, <2>2, <2>3, <2>4 DEF UnderWay
<1>10. Sends(s, Got(s)) => Sends(s, Got(s))'
  <2> SUFFICES ASSUME Sends(s, Got(s))  PROVE Sends(s, Got(s))'
    OBVIOUS
  <2>1. PICK a \in Nat : a = Got(s)
    BY <1>6
  <2>2. Sends(s, a)'
    BY <1>8, <2>1
  <2> QED  BY <1>6, <2>1, <2>2 DEF Sends
<1> QED  BY <1>1, <1>3, <1>4, <1>5, <1>9, <1>10 DEF StreamInv

LEMMA OptimizeKeeps ==
  ASSUME IInv, NEW push \in BOOLEAN, Optimize(push)
  PROVE  IInv'
<1>1. Types /\ BatchInv /\ RingInv /\ ActorInv /\ \A r \in Stream : StreamInv(r)
  BY DEF IInv
<1>2. PICK s \in Stream : s = "interactions"
  BY DEF Stream
<1>3. PICK q \in Seq(Seq(Datum(s))) : q = recvq[s]
  BY <1>1, StreamFacts
<1>4. Datum(s) = Nat
  BY <1>2 DEF Datum
<1>5. q # <<>> => Last(q)[1] \in Nat
  <2> SUFFICES ASSUME q # <<>>  PROVE Last(q)[1] \in Nat
    OBVIOUS
  <2>1. PICK m \in Seq(Datum(s)) : m = q[Len(q)] /\ Len(q) \in 1..Len(q)
    <3>1. Len(q) \in 1..Len(q)
      BY EmptySeq
    <3> QED  BY <3>1, ElementOfSeq
  <2>2. Whole(s, m, actor.nans)
    BY <1>1, <1>3, <2>1 DEF StreamInv, AllWhole
  <2>3. m # <<>> /\ 1 \in 1..Len(m)
    BY <2>2, EmptySeq DEF Whole
  <2>4. m[1] \in Nat
    BY <1>4, <2>3, ElementOfSeq
  <2> QED  BY <2>1, <2>4 DEF Last
<1>6. PICK message \in Nat \cup {None} : message = IF q = <<>> THEN None ELSE Last(q)[1]
  BY <1>5
<1>7. PICK trains \in BOOLEAN : trains <=> ring.size >= LearnAfter
  OBVIOUS
<1>8. PICK old \in Version : old = learner.step
  BY <1>1, LearnerFacts
<1>9. old \in Nat /\ MaxOptimization \in Nat
  BY Constants
<1>10. PICK step \in Nat : step = old + 1
  BY <1>9
<1>11. /\ trains => step \in Version
       /\ push => trains
  <2>1. trains => step <= MaxOptimization
    BY <1>7, <1>8, <1>10 DEF Optimize
  <2>2. push => trains
    BY <1>7 DEF Optimize
  <2> QED  BY <1>9, <1>10, <2>1, <2>2 DEF Version
<1>12. PICK latest \in Nat \cup {None} :
         latest = IF message = None THEN learner.latest ELSE message
  BY <1>1 DEF Types, LearnerType
<1>13. PICK now \in Version : now = (IF trains THEN step ELSE old) /\ now >= old
  BY <1>9, <1>10, <1>11
<1>14. PICK saved \in [interactionStep : Nat, latest : Nat] \cup {None} :
         saved = IF trains THEN Checkpoint(step, message) ELSE learner.saved
  <2>1. learner.saved \in [interactionStep : Nat, latest : Nat] \cup {None}
    BY <1>1 DEF Types, LearnerType
  <2>2. Checkpoint(step, message) \in [interactionStep : Nat, latest : Nat] \cup {None}
    <3>1. PICK x, y : /\ x = IF message # None THEN message ELSE 0
                      /\ y = IF message # None THEN message
                             ELSE IF learner.latest # None THEN learner.latest ELSE 0
      OBVIOUS
    <3>2. x \in Nat /\ y \in Nat
      BY <1>1, <3>1 DEF Types, LearnerType
    <3>3. [interactionStep |-> x, latest |-> y] \in [interactionStep : Nat, latest : Nat]
      BY <3>2
    <3> QED  BY <2>1, <3>1, <3>3 DEF Checkpoint
  <2> QED  BY <2>1, <2>2
<1>15. learner' = [learner EXCEPT !.latest = latest, !.step = now, !.saved = saved]
  BY <1>2, <1>3, <1>6, <1>7, <1>8, <1>10, <1>12, <1>13, <1>14 DEF Optimize
<1>16. /\ learner' \in LearnerType /\ learner'.batch = learner.batch
       /\ learner'.learned = learner.learned /\ learner'.half = learner.half
       /\ learner'.step = now
  BY <1>1, <1>15 DEF Types, LearnerType
<1>17. PICK nothing \in Seq(Seq(Datum(s))) : nothing = <<>>
  BY EmptySeq
<1>18. /\ DOMAIN recvq' = Stream /\ recvq'[s] = nothing
       /\ \A t \in Stream : t # s => recvq'[t] = recvq[t]
  <2>1. DOMAIN recvq = Stream
    BY <1>1 DEF Types
  <2>2. recvq' = [recvq EXCEPT ![s] = nothing]
    BY <1>2, <1>17 DEF Optimize
  <2> QED  BY <2>1, <2>2
<1>19. UNCHANGED <<actor, shutdown, wire, ring>>
  BY DEF Optimize
<1>20. PICK p \in Stream : p = "parameters"
  BY DEF Stream
<1>21. /\ DOMAIN sendq' = Stream /\ \A t \in Stream : t # p => sendq'[t] = sendq[t]
       /\ push => sendq'[p] = Append(sendq[p], Parameters(step))
       /\ ~push => sendq'[p] = sendq[p]
  <2>1. DOMAIN sendq = Stream
    BY <1>1 DEF Types
  <2>2. sendq' = IF push THEN [sendq EXCEPT ![p] = Append(@, Parameters(step))] ELSE sendq
    BY <1>8, <1>10, <1>20 DEF Optimize
  <2> QED  BY <2>1, <2>2
<1>22. \A t \in Stream : t # "parameters" => Base(t)' = Base(t)
  BY <1>16 DEF Base
<1>23. actor.nans \subseteq actor'.nans /\ actor'.pushed = actor.pushed
  BY <1>19
<1>24. learner'.step \in Nat /\ learner.step <= learner'.step
  BY <1>8, <1>9, <1>10, <1>13, <1>16
<1>25. StreamInv(s)'
  <2>1. Base(s)' = Got(s)
    BY <1>2, <1>22 DEF Got, EndOf, Base, Mark
  <2>2. s # "transitions" /\ recvq'[s] = <<>> /\ sendq'[s] = sendq[s] /\ wire'[s] = wire[s]
    BY <1>2, <1>17, <1>18, <1>19, <1>20, <1>21
  <2> QED  BY <1>1, <1>23, <1>24, <2>1, <2>2, Drains
<1>26. StreamInv(p)' /\ sendq'[p] \in Seq(Seq(Datum(p)))
  <2>1. recvq'[p] = recvq[p] /\ wire'[p] = wire[p] /\ Base(p)' = Base(p)
    BY <1>2, <1>18, <1>19, <1>20 DEF Base
  <2>2. CASE push
    <3>1. PICK m : m = Parameters(step)
      OBVIOUS
    <3>2. step \in Version
      BY <1>11, <2>2
    <3>3. m \in Seq(Nat) /\ m # <<>> /\ m[1] = step
      BY <3>1, <3>2, VersionMessage
    <3>4. m \in Seq(Datum(p))
      BY <1>20, <3>3 DEF Datum
    <3>5. Whole(p, m, actor'.nans)
      BY <1>20, <3>1, <3>2, <3>3 DEF Whole
    <3>6. \A a \in Nat : Tops(p, a) => Follows(p, a, m)
      BY <1>8, <1>9, <1>10, <1>20, <3>3 DEF Tops, Follows
    <3>7. Tops(p, Mark(p, m))'
      BY <1>10, <1>11, <1>13, <1>16, <1>20, <2>2, <3>3 DEF Tops, Mark
    <3>8. sendq'[p] = Append(sendq[p], m)
      BY <1>21, <2>2, <3>1
    <3> QED  BY <1>1, <1>23, <2>1, <3>4, <3>5, <3>6, <3>7, <3>8, Pushes
  <2>3. CASE ~push
    <3>1. sendq'[p] = sendq[p]
      BY <1>21, <2>3
    <3> QED  BY <1>1, <1>23, <1>24, <2>1, <3>1, Untouched, StreamFacts
  <2> QED  BY <2>2, <2>3
<1>27. ASSUME NEW t \in Stream, t # s, t # p  PROVE StreamInv(t)'
  <2>1. /\ Base(t)' = Base(t) /\ sendq'[t] = sendq[t] /\ recvq'[t] = recvq[t]
        /\ wire'[t] = wire[t]
    BY <1>18, <1>19, <1>20, <1>21, <1>22, <1>27
  <2> QED  BY <1>1, <1>23, <1>24, <2>1, Untouched
<1>28. Types'
  <2>1. \A t \in Stream : sendq'[t] \in Seq(Seq(Datum(t)))
    BY <1>1, <1>21, <1>26 DEF Types
  <2>2. \A t \in Stream : recvq'[t] \in Seq(Seq(Datum(t)))
    BY <1>1, <1>18 DEF Types
  <2> QED  BY <1>1, <1>16, <1>18, <1>19, <1>21, <2>1, <2>2 DEF Types
<1>29. ActorInv' /\ BatchInv' /\ Frontier' = Frontier
  BY <1>1, <1>16, <1>19 DEF ActorInv, BatchInv, Frontier
<1>30. RingInv'
  BY <1>1, <1>16, <1>19, <1>23, <1>29, RingStays
<1>31. \A t \in Stream : StreamInv(t)'
  BY <1>25, <1>26, <1>27
<1> QED  BY <1>28, <1>29, <1>30, <1>31 DEF IInv

-----------------------------------------------------------------------------
(* The actor.                                                              *)

LEMMA NonEmpty ==
  ASSUME NEW S, NEW q \in Seq(S), Len(q) = 1
  PROVE  q # <<>>
BY EmptySeq

\* The transition of the next step.
Steps(t) == t \in Transition /\ t.n = actor.step + 1 /\ actor.step < OnlineSteps

\* The actor's noted steps with NaNs.
Noted(t) == IF t.nan THEN actor.nans \cup {t.n} ELSE actor.nans

\* The episode with one more transition.
LEMMA Episode ==
  ASSUME Types, ActorInv, ~Ended, NEW t, Steps(t)
  PROVE  /\ actor.episode \in Seq(Transition) /\ Len(actor.episode) \in Nat
         /\ actor.step \in Nat /\ t.n \in Step /\ t.n \in 0..OnlineSteps
         /\ Append(actor.episode, t) \in Seq(Transition)
         /\ Len(Append(actor.episode, t)) = Len(actor.episode) + 1
         /\ EndsAt(Append(actor.episode, t), t.n)
         /\ \A k \in 1..(Len(actor.episode) + 1) :
              /\ Append(actor.episode, t)[k].nan =>
                   Append(actor.episode, t)[k].n \in Noted(t)
              /\ k <= Len(actor.episode) => ~Append(actor.episode, t)[k].last
              /\ k > Len(actor.episode) => Append(actor.episode, t)[k] = t
         /\ Noted(t) \in SUBSET Step /\ actor.nans \subseteq Noted(t)
<1>1. /\ actor.episode \in Seq(Transition) /\ Len(actor.episode) \in Nat
      /\ actor.step \in 0..OnlineSteps /\ actor.nans \in SUBSET Step
  BY DEF Types, ActorType
<1>2. t \in Transition /\ t.n = actor.step + 1 /\ actor.step < OnlineSteps
  BY DEF Steps
<1>3. OnlineSteps \in Nat
  BY Constants
<1>4. actor.step \in Nat /\ t.n \in Step /\ t.n \in 0..OnlineSteps
  BY <1>1, <1>2, <1>3 DEF Step
<1>5. PICK q \in Seq(Transition) : q = actor.episode
  BY <1>1
<1>6. PICK l \in Nat : l = Len(q)
  BY <1>1, <1>5
<1>7. PICK r \in Seq(Transition) :
        /\ r = Append(q, t) /\ Len(r) = l + 1 /\ r[l + 1] = t
        /\ \A k \in 1..l : r[k] = q[k]
  <2>1. /\ Append(q, t) \in Seq(Transition) /\ Len(Append(q, t)) = Len(q) + 1
        /\ Append(q, t)[Len(q) + 1] = t /\ \A k \in 1..Len(q) : Append(q, t)[k] = q[k]
    BY <1>2, AppendProperties
  <2> QED  BY <1>6, <2>1
<1>8. Noted(t) \in SUBSET Step /\ actor.nans \subseteq Noted(t)
  BY <1>1, <1>4 DEF Noted
<1>9. ASSUME NEW k \in 1..l
      PROVE  /\ q[k].n = (actor.step - l) + k /\ ~q[k].last
             /\ q[k].nan => q[k].n \in actor.nans
  <2>1. /\ q[k].n = (actor.step - l) + k /\ (k < l => ~q[k].last)
        /\ q[k].nan => q[k].n \in actor.nans
    BY <1>5, <1>6 DEF ActorInv, EndsAt
  <2>2. k = l => ~q[k].last
    <3>1. Len(q) # 0
      BY <1>6
    <3>2. q # <<>>
      BY <3>1, EmptySeq
    <3> QED  BY <1>5, <1>6, <3>2 DEF Ended, Last
  <2>3. k < l \/ k = l
    BY <1>6
  <2> QED  BY <2>1, <2>2, <2>3
<1>10. ASSUME NEW k \in 1..(l + 1)
       PROVE  /\ r[k].n = (t.n - (l + 1)) + k
              /\ r[k].nan => r[k].n \in Noted(t)
              /\ k <= l => ~r[k].last
              /\ k > l => r[k] = t
  <2>1. CASE k \in 1..l
    <3>1. r[k] = q[k]
      BY <1>7, <2>1
    <3>2. (actor.step - l) + k = (t.n - (l + 1)) + k
      BY <1>2, <1>4, <1>6
    <3>3. q[k].n = (t.n - (l + 1)) + k
      BY <1>9, <2>1, <3>2
    <3> QED  BY <1>6, <1>8, <1>9, <2>1, <3>1, <3>3
  <2>2. CASE k = l + 1
    <3>1. r[k] = t
      BY <1>7, <2>2
    <3>2. t.n = (t.n - (l + 1)) + (l + 1)
      BY <1>2, <1>4, <1>6
    <3>3. t.nan => t.n \in Noted(t)
      BY DEF Noted
    <3>4. ~(k <= l)
      BY <1>6, <2>2
    <3> QED  BY <2>2, <3>1, <3>2, <3>3, <3>4
  <2> QED  BY <1>6, <2>1, <2>2
<1>11. EndsAt(r, t.n)
  BY <1>7, <1>10 DEF EndsAt
<1> QED  BY <1>1, <1>4, <1>5, <1>6, <1>7, <1>8, <1>10, <1>11

\* What an actor's step leaves of the learner and the ring.
LEMMA LearnerKeeps ==
  ASSUME Types, BatchInv, RingInv, UNCHANGED <<learner, ring>>,
         actor.nans \subseteq actor'.nans
  PROVE  BatchInv' /\ RingInv'
<1>1. Frontier' = Frontier
  BY DEF Frontier
<1>2. BatchInv'
  BY DEF BatchInv
<1> QED  BY <1>1, <1>2, RingStays

\* The stream's variables do not change, nor what the learner has.
LEMMA StreamsStay ==
  ASSUME Types, \A r \in Stream : StreamInv(r), UNCHANGED <<wire, learner>>,
         actor.nans \subseteq actor'.nans, NEW s \in Stream,
         sendq'[s] = sendq[s], recvq'[s] = recvq[s],
         s = "transitions" => actor'.pushed = actor.pushed,
         s = "parameters" => actor'.item = actor.item
  PROVE  StreamInv(s)'
<1>1. Base(s)' = Base(s)
  BY DEF Base
<1>2. learner.step \in Nat
  BY Constants DEF Types, LearnerType
<1>3. learner'.step \in Nat /\ learner.step <= learner'.step
  BY <1>2
<1> QED  BY <1>1, <1>3, Untouched

LEMMA VersionsCompare ==
  ASSUME Types
  PROVE  actor.policy \in Nat /\ actor.item \in Nat /\ actor.policy >= actor.policy
<1>1. actor.policy \in Version /\ actor.item \in Version /\ Version \subseteq Nat
  BY Constants DEF Types, ActorType
<1>2. PICK p \in Nat : p = actor.policy
  BY <1>1
<1>3. p >= p
  OBVIOUS
<1> QED  BY <1>1, <1>2, <1>3

LEMMA ActStepKeeps ==
  ASSUME IInv, ActStep, UNCHANGED <<shutdown, wire, learner, ring>>
  PROVE  IInv' /\ actor'.policy >= actor.policy
<1>1. Types /\ BatchInv /\ RingInv /\ ActorInv /\ \A r \in Stream : StreamInv(r)
  BY DEF IInv
<1>2. PICK last \in BOOLEAN, nan \in BOOLEAN :
        LET t == [n |-> actor.step + 1, last |-> last, nan |-> nan]
        IN  actor' = [actor EXCEPT !.step = t.n, !.episode = Append(@, t),
                                   !.nans = IF nan THEN @ \cup {t.n} ELSE @]
  BY DEF ActStep
<1>3. PICK t : t = [n |-> actor.step + 1, last |-> last, nan |-> nan]
  OBVIOUS
<1>4. ~Ended /\ Steps(t)
  <2>1. actor.step < OnlineSteps /\ ~Ended
    BY DEF ActStep
  <2>2. actor.step + 1 \in Step
    <3>1. actor.step \in 0..OnlineSteps /\ OnlineSteps \in Nat
      BY <1>1, Constants DEF Types, ActorType
    <3> QED  BY <2>1, <3>1 DEF Step
  <2> QED  BY <1>3, <2>1, <2>2 DEF Steps, Transition
<1>5. PICK e \in Seq(Transition) : e = Append(actor.episode, t)
  BY <1>1, <1>4, Episode
<1>6. PICK nans \in SUBSET Step : nans = Noted(t) /\ actor.nans \subseteq nans
  BY <1>1, <1>4, Episode
<1>7. actor' = [actor EXCEPT !.step = t.n, !.episode = e, !.nans = nans]
  BY <1>2, <1>3, <1>5, <1>6 DEF Noted
<1>8. /\ actor' \in ActorType /\ actor'.step = t.n /\ actor'.episode = e
      /\ actor'.nans = nans /\ actor'.pushed = actor.pushed /\ actor'.policy = actor.policy
      /\ actor'.item = actor.item
  <2>1. t.n \in 0..OnlineSteps
    BY <1>1, <1>4, Episode
  <2> QED  BY <1>1, <1>7, <2>1 DEF Types, ActorType
<1>9. sendq' = sendq /\ recvq' = recvq /\ actor.nans \subseteq actor'.nans
  BY <1>6, <1>8 DEF ActStep
<1>10. Types'
  BY <1>1, <1>8, <1>9 DEF Types
<1>11. \A s \in Stream : StreamInv(s)'
  BY <1>1, <1>8, <1>9, StreamsStay
<1>12. PICK l \in Nat : l = Len(actor.episode) /\ Len(e) = l + 1
  BY <1>1, <1>4, <1>5, Episode
<1>13. ActorInv'
  <2>1. EndsAt(e, t.n)
    BY <1>1, <1>4, <1>5, Episode
  <2>2. actor.pushed = t.n - (l + 1)
    <3>1. actor.pushed = actor.step - l /\ t.n = actor.step + 1 /\ actor.step \in Nat
      BY <1>1, <1>4, <1>12, Episode DEF ActorInv, Steps
    <3> QED  BY <1>12, <3>1
  <2>3. ASSUME NEW k \in 1..(l + 1)
        PROVE  (k < l + 1 => ~e[k].last) /\ (e[k].nan => e[k].n \in nans)
    <3>1. /\ e[k].nan => e[k].n \in nans
          /\ k <= l => ~e[k].last
      BY <1>1, <1>4, <1>5, <1>6, <1>12, Episode
    <3>2. k < l + 1 => k <= l
      BY <1>12
    <3> QED  BY <3>1, <3>2
  <2>4. actor.policy <= actor.item
    BY <1>1 DEF ActorInv
  <2> QED  BY <1>8, <1>12, <2>1, <2>2, <2>3, <2>4 DEF ActorInv
<1>14. BatchInv' /\ RingInv'
  BY <1>1, <1>9, LearnerKeeps
<1>15. actor'.policy >= actor.policy
  BY <1>1, <1>8, VersionsCompare
<1> QED  BY <1>10, <1>11, <1>13, <1>14, <1>15 DEF IInv

LEMMA TakeParametersKeeps ==
  ASSUME IInv, TakeParameters, UNCHANGED <<shutdown, wire, learner, ring>>
  PROVE  IInv' /\ actor'.policy >= actor.policy
<1>1. Types /\ BatchInv /\ RingInv /\ ActorInv /\ \A r \in Stream : StreamInv(r)
  BY DEF IInv
<1>2. PICK s \in Stream : s = "parameters"
  BY DEF Stream
<1>3. PICK q \in Seq(Seq(Datum(s))) : q = recvq[s] /\ q # <<>>
  BY <1>1, <1>2, StreamFacts DEF TakeParameters
<1>4. PICK m \in Seq(Datum(s)) : m = Head(q)
  BY <1>3, HeadTailProperties
<1>5. PICK r \in Seq(Seq(Datum(s))) : r = Tail(q)
  BY <1>3, HeadTailProperties
<1>6. PICK a \in Nat : a = Base(s) /\ a = actor.item
  BY <1>1, <1>2, StreamFacts DEF Base
<1>7. /\ AllWhole(s, q, actor.nans) /\ Chain(s, q, a) /\ Got(s) = EndOf(s, q, a)
  BY <1>1, <1>3, <1>6 DEF StreamInv, Got
<1>8. /\ Whole(s, m, actor.nans) /\ AllWhole(s, r, actor.nans)
  BY <1>3, <1>4, <1>5, <1>7, WholeTail
<1>9. /\ Follows(s, a, m) /\ Chain(s, r, Mark(s, m))
      /\ EndOf(s, r, Mark(s, m)) = EndOf(s, q, a)
  <2>1. /\ Follows(s, a, Head(q)) /\ Chain(s, Tail(q), Mark(s, Head(q)))
        /\ EndOf(s, Tail(q), Mark(s, Head(q))) = EndOf(s, q, a)
    BY <1>3, <1>7, ChainTail
  <2> QED  BY <1>4, <1>5, <2>1
<1>10. PICK v \in Version : v = Mark(s, m) /\ v = m[1]
  BY <1>2, <1>8, MarkIsNat DEF Mark
<1>11. actor' = [actor EXCEPT !.item = v]
  BY <1>2, <1>3, <1>4, <1>10 DEF TakeParameters
<1>12. /\ actor' \in ActorType /\ actor'.step = actor.step /\ actor'.episode = actor.episode
       /\ actor'.nans = actor.nans /\ actor'.pushed = actor.pushed
       /\ actor'.policy = actor.policy /\ actor'.item = v
  BY <1>1, <1>11 DEF Types, ActorType
<1>13. /\ DOMAIN recvq' = Stream /\ recvq'[s] = r
       /\ \A t \in Stream : t # s => recvq'[t] = recvq[t]
  <2>1. recvq' = [recvq EXCEPT ![s] = r] /\ DOMAIN recvq = Stream
    BY <1>1, <1>2, <1>3, <1>5 DEF TakeParameters, Types
  <2> QED  BY <2>1
<1>14. sendq' = sendq /\ wire' = wire /\ learner' = learner /\ actor.nans \subseteq actor'.nans
  BY <1>12 DEF TakeParameters
<1>15. Types'
  <2>1. \A t \in Stream : recvq'[t] \in Seq(Seq(Datum(t)))
    BY <1>1, <1>13 DEF Types
  <2> QED  BY <1>1, <1>12, <1>13, <1>14, <2>1 DEF Types
<1>16. StreamInv(s)'
  <2>1. Base(s)' = Mark(s, m)
    BY <1>2, <1>10, <1>12 DEF Base
  <2>2. Got(s)' = Got(s)
    BY <1>7, <1>9, <1>13, <2>1 DEF Got
  <2>3. Chain(s, recvq[s], Base(s))'
    BY <1>9, <1>13, <2>1
  <2>4. /\ AllWhole(s, recvq'[s], actor.nans) /\ actor.nans \subseteq actor'.nans
        /\ sendq'[s] = sendq[s] /\ wire'[s] = wire[s] /\ actor'.pushed = actor.pushed
    BY <1>2, <1>8, <1>12, <1>13, <1>14
  <2>5. learner.step \in Nat
    BY <1>1, Constants DEF Types, LearnerType
  <2>6. learner'.step \in Nat /\ learner.step <= learner'.step
    BY <1>14, <2>5
  <2> QED  BY <1>1, <2>2, <2>3, <2>4, <2>6, SameSender
<1>17. ASSUME NEW t \in Stream, t # s  PROVE StreamInv(t)'
  <2>1. t # "parameters" /\ sendq'[t] = sendq[t] /\ recvq'[t] = recvq[t]
        /\ actor'.pushed = actor.pushed
    BY <1>2, <1>12, <1>13, <1>14, <1>17
  <2> QED  BY <1>1, <1>14, <2>1, StreamsStay
<1>18. \A t \in Stream : StreamInv(t)'
  BY <1>16, <1>17
<1>19. ActorInv'
  <2>1. actor.policy <= v
    <3>1. actor.policy \in Nat /\ v \in Nat
      BY <1>1, VersionsCompare, Constants
    <3>2. actor.policy <= a /\ a <= v
      BY <1>1, <1>2, <1>6, <1>9, <1>10 DEF ActorInv, Follows
    <3> QED  BY <3>1, <3>2
  <2> QED  BY <1>1, <1>12, <2>1 DEF ActorInv
<1>20. BatchInv' /\ RingInv'
  BY <1>1, <1>14, LearnerKeeps
<1>21. actor'.policy >= actor.policy
  BY <1>1, <1>12, VersionsCompare
<1> QED  BY <1>15, <1>18, <1>19, <1>20, <1>21 DEF IInv

LEMMA EndEpisodeKeeps ==
  ASSUME IInv, EndEpisode, UNCHANGED <<shutdown, wire, learner, ring>>
  PROVE  IInv' /\ actor'.policy >= actor.policy
<1>1. Types /\ BatchInv /\ RingInv /\ ActorInv /\ \A r \in Stream : StreamInv(r)
  BY DEF IInv
<1>2. PICK e \in Seq(Transition) : e = actor.episode /\ e # <<>> /\ Last(e).last
  BY <1>1 DEF EndEpisode, Ended, Types, ActorType
<1>3. PICK l \in Nat : l = Len(e) /\ l >= 1
  BY <1>2, EmptySeq
<1>4. PICK st \in Nat : st = actor.step /\ st \in 0..OnlineSteps
  <2>1. actor.step \in 0..OnlineSteps /\ OnlineSteps \in Nat
    BY <1>1, Constants DEF Types, ActorType
  <2> QED  BY <2>1
<1>5. actor.pushed = st - l /\ actor.pushed \in Nat
  <2>1. actor.pushed \in 0..OnlineSteps
    BY <1>1 DEF Types, ActorType
  <2> QED  BY <1>1, <1>2, <1>3, <1>4, <2>1, Constants DEF ActorInv
<1>6. PICK tr, it, pa \in Stream :
        tr = "transitions" /\ it = "interactions" /\ pa = "parameters"
  BY DEF Stream
<1>7. PICK v \in Version : v = actor.item /\ v >= actor.policy
  <2>1. actor.item \in Version /\ actor.policy <= actor.item
    BY <1>1 DEF Types, ActorType, ActorInv
  <2>2. actor.item >= actor.policy
    BY <1>1, <2>1, VersionsCompare
  <2> QED  BY <2>1, <2>2
<1>8. PICK none \in Seq(Transition) : none = <<>>
  BY EmptySeq
<1>9. actor' = [actor EXCEPT !.episode = none, !.pushed = st, !.policy = v]
  BY <1>4, <1>7, <1>8 DEF EndEpisode
<1>10. /\ actor' \in ActorType /\ actor'.step = st /\ actor'.episode = none
       /\ actor'.nans = actor.nans /\ actor'.pushed = st /\ actor'.policy = v
       /\ actor'.item = v
  BY <1>1, <1>4, <1>7, <1>9 DEF Types, ActorType
<1>11. PICK report : report = <<st - 1>>
  OBVIOUS
<1>12. /\ DOMAIN sendq' = Stream /\ sendq'[tr] = Append(sendq[tr], e)
       /\ sendq'[it] = Append(sendq[it], report) /\ sendq'[pa] = sendq[pa]
  <2>1. DOMAIN sendq = Stream
    BY <1>1 DEF Types
  <2>2. sendq' = [sendq EXCEPT ![tr] = Append(@, e), ![it] = Append(@, report)]
    BY <1>2, <1>4, <1>6, <1>11 DEF EndEpisode
  <2> QED  BY <1>6, <2>1, <2>2
<1>13. /\ actor.nans \subseteq actor'.nans /\ wire' = wire /\ learner' = learner
       /\ recvq' = recvq
  BY <1>10 DEF EndEpisode
<1>14. \A k \in 1..l : /\ e[k].n = (st - l) + k
                       /\ k < l => ~e[k].last
                       /\ e[k].nan => e[k].n \in actor.nans
  BY <1>1, <1>2, <1>3, <1>4 DEF ActorInv, EndsAt
<1>15. 1 \in 1..l /\ l \in 1..l /\ e[l].last
  BY <1>2, <1>3 DEF Last
<1>16. e[1].n = (st - l) + 1 /\ e[1].n = actor.pushed + 1 /\ e[l].n = st
  <2>1. e[1].n = (st - l) + 1 /\ e[l].n = (st - l) + l
    BY <1>14, <1>15
  <2> QED  BY <1>3, <1>4, <1>5, <2>1
<1>17. StreamInv(tr)' /\ sendq'[tr] \in Seq(Seq(Datum(tr)))
  <2>1. e \in Seq(Datum(tr))
    BY <1>6 DEF Datum
  <2>2. Whole(tr, e, actor'.nans)
    <3>1. ASSUME NEW k \in 1..l
          PROVE  /\ e[k].n = e[1].n + (k - 1)
                 /\ e[k].last <=> k = l
                 /\ e[k].nan => e[k].n \in actor'.nans
      <4>1. e[k].n = (st - l) + k /\ (k < l => ~e[k].last) /\ (e[k].nan => e[k].n \in actor.nans)
        BY <1>14
      <4>2. (st - l) + k = ((st - l) + 1) + (k - 1)
        BY <1>3, <1>4
      <4>3. (k < l /\ k # l) \/ k = l
        BY <1>3
      <4> QED  BY <1>10, <1>15, <1>16, <4>1, <4>2, <4>3
    <3> QED  BY <1>2, <1>3, <1>6, <3>1 DEF Whole
  <2>3. \A a \in Nat : Tops(tr, a) => Follows(tr, a, e)
    BY <1>6, <1>16 DEF Tops, Follows
  <2>4. Mark(tr, e) = st
    BY <1>3, <1>6, <1>16 DEF Mark
  <2>5. Tops(tr, Mark(tr, e))'
    BY <1>6, <1>10, <2>4 DEF Tops
  <2>6. /\ Base(tr)' = Base(tr) /\ recvq'[tr] = recvq[tr] /\ wire'[tr] = wire[tr]
    BY <1>6, <1>13 DEF Base
  <2> QED  BY <1>1, <1>12, <1>13, <2>1, <2>2, <2>3, <2>5, <2>6, Pushes
<1>18. StreamInv(it)' /\ sendq'[it] \in Seq(Seq(Datum(it)))
  <2>1. PICK n \in Nat : n = st - 1
    BY <1>3, <1>4, <1>5
  <2>2. report = <<n>>
    BY <1>11, <2>1
  <2>3. report \in Seq(Nat) /\ Len(report) = 1
    BY <2>2
  <2>4. report \in Seq(Datum(it)) /\ report # <<>>
    <3>1. report \in Seq(Datum(it))
      BY <1>6, <2>3 DEF Datum
    <3>2. report # <<>>
      BY <3>1, <2>3, NonEmpty
    <3> QED  BY <3>1, <3>2
  <2>5. Whole(it, report, actor'.nans)
    BY <1>6, <2>4 DEF Whole
  <2>6. (\A a \in Nat : Follows(it, a, report)) /\ Tops(it, Mark(it, report))'
    BY <1>6 DEF Follows, Tops
  <2>7. /\ Base(it)' = Base(it) /\ recvq'[it] = recvq[it] /\ wire'[it] = wire[it]
    BY <1>6, <1>13 DEF Base
  <2> QED  BY <1>1, <1>12, <1>13, <2>4, <2>5, <2>6, <2>7, Pushes
<1>19. StreamInv(pa)'
  <2>1. pa # "transitions" /\ sendq'[pa] = sendq[pa] /\ recvq'[pa] = recvq[pa]
        /\ actor'.item = actor.item
    BY <1>6, <1>7, <1>10, <1>12, <1>13
  <2> QED  BY <1>1, <1>13, <2>1, StreamsStay
<1>20. \A s \in Stream : s = tr \/ s = it \/ s = pa
  BY <1>6 DEF Stream
<1>21. Types'
  <2>1. \A s \in Stream : sendq'[s] \in Seq(Seq(Datum(s)))
    <3>1. sendq[pa] \in Seq(Seq(Datum(pa)))
      BY <1>1, StreamFacts
    <3> QED  BY <1>12, <1>17, <1>18, <1>20, <3>1
  <2> QED  BY <1>1, <1>10, <1>12, <1>13, <2>1 DEF Types
<1>22. ActorInv'
  <2>1. Len(none) = 0
    BY <1>8, EmptySeq
  <2>2. st = st - 0
    BY <1>4
  <2>3. v <= v
    BY Constants
  <2> QED  BY <1>10, <2>1, <2>2, <2>3 DEF ActorInv, EndsAt
<1>23. BatchInv' /\ RingInv'
  BY <1>1, <1>13, LearnerKeeps
<1>24. \A s \in Stream : StreamInv(s)'
  BY <1>17, <1>18, <1>19, <1>20
<1> QED  BY <1>7, <1>10, <1>21, <1>22, <1>23, <1>24 DEF IInv

-----------------------------------------------------------------------------
(* The invariant and the properties.                                       *)

LEMMA Initially ==
  ASSUME Init
  PROVE  IInv
<1>1. PICK zero, none, no, nobody :
        zero = 0 /\ none = <<>> /\ no = FALSE /\ nobody = {}
  OBVIOUS
<1>2. zero \in 0..OnlineSteps /\ zero \in Version /\ zero \in Nat /\ zero \in Slot
      /\ zero \in 0..Capacity /\ no \in BOOLEAN /\ nobody \in SUBSET Step
  <2>1. zero \in 0..OnlineSteps /\ zero \in 0..MaxOptimization /\ zero \in 0..Capacity
        /\ zero \in 0..Capacity - 1 /\ zero \in Nat
    BY <1>1, Constants
  <2>2. no \in BOOLEAN /\ nobody \in SUBSET Step
    BY <1>1
  <2> QED  BY <2>1, <2>2 DEF Version, Slot
<1>3. \A S : none \in Seq(S) /\ Len(none) = 0
  BY <1>1, EmptySeq
<1>4. /\ actor \in ActorType /\ actor.episode = none /\ actor.step = zero
      /\ actor.pushed = zero /\ actor.policy = zero /\ actor.item = zero
      /\ actor.nans = nobody
  <2>1. actor = [step |-> zero, episode |-> none, policy |-> zero, item |-> zero,
                 pushed |-> zero, nans |-> nobody]
    BY <1>1 DEF Init
  <2> QED  BY <1>2, <1>3, <2>1 DEF ActorType
<1>5. PICK nothing : nothing = None
  OBVIOUS
<1>6. /\ learner \in LearnerType /\ learner.batch = none /\ ~learner.half
      /\ learner.step = zero /\ learner.learned = zero
  <2>1. learner = [batch |-> none, half |-> no, step |-> zero, saved |-> nothing,
                   learned |-> zero, latest |-> nothing]
    BY <1>1, <1>5 DEF Init
  <2>2. /\ nothing \in [interactionStep : Nat, latest : Nat] \cup {None}
        /\ nothing \in Nat \cup {None}
    BY <1>5
  <2> QED  BY <1>1, <1>2, <1>3, <2>1, <2>2 DEF LearnerType
<1>7. /\ ring \in RingType /\ ring.position = zero /\ ring.size = zero
  <2>1. PICK st, re : /\ st = [i \in 0..Capacity - 1 |-> None]
                      /\ re = [i \in 0..Capacity - 1 |-> None]
    OBVIOUS
  <2>2. st \in [Slot -> Step \cup {None}] /\ re \in [Slot -> Transition \cup {None}]
    BY <2>1 DEF Slot
  <2>3. ring = [states |-> st, rest |-> re, position |-> zero, size |-> zero]
    BY <1>1, <2>1 DEF Init
  <2> QED  BY <1>2, <2>2, <2>3 DEF RingType
<1>8. PICK first : first = Parameters(0)
  OBVIOUS
<1>9. first \in Seq(Nat) /\ first # <<>> /\ first[1] = 0
  <2>1. 0 \in Version
    BY Constants
  <2> QED  BY <1>8, <2>1, VersionMessage
<1>10. PICK q : q = <<first>>
  OBVIOUS
<1>11. PICK w : w = [remaining |-> none, draining |-> no, buffer |-> none, broken |-> no]
  OBVIOUS
<1>12. /\ DOMAIN sendq = Stream /\ DOMAIN wire = Stream /\ DOMAIN recvq = Stream
       /\ \A s \in Stream :
            /\ sendq[s] = IF s = "parameters" THEN q ELSE none
            /\ wire[s] = w /\ recvq[s] = none
  BY <1>1, <1>8, <1>10, <1>11 DEF Init
<1>13. w.remaining = none /\ w.buffer = none /\ ~w.broken /\ ~w.draining
  BY <1>1, <1>11
<1>14. q \in Seq(Seq(Nat)) /\ Len(q) = 1 /\ q[1] = first
  BY <1>9, <1>10
<1>15. Types
  <2>1. ASSUME NEW s \in Stream
        PROVE  /\ sendq[s] \in Seq(Seq(Datum(s))) /\ recvq[s] \in Seq(Seq(Datum(s)))
               /\ wire[s] \in WireType(s)
    <3>1. wire[s] \in WireType(s)
      BY <1>2, <1>3, <1>11, <1>12 DEF WireType
    <3>2. recvq[s] \in Seq(Seq(Datum(s)))
      BY <1>3, <1>12
    <3>3. sendq[s] \in Seq(Seq(Datum(s)))
      <4>1. CASE s = "parameters"
        BY <1>12, <1>14, <4>1 DEF Datum
      <4>2. CASE s # "parameters"
        BY <1>3, <1>12, <4>2
      <4> QED  BY <4>1, <4>2
    <3> QED  BY <3>1, <3>2, <3>3
  <2>2. shutdown \in BOOLEAN
    BY DEF Init
  <2> QED  BY <1>4, <1>6, <1>7, <1>12, <2>1, <2>2 DEF Types
<1>16. ASSUME NEW s \in Stream  PROVE StreamInv(s)
  <2>1. Base(s) = 0 /\ recvq[s] = none
    BY <1>1, <1>4, <1>6, <1>12 DEF Base
  <2>2. Got(s) = 0
    BY <1>1, <2>1 DEF Got, EndOf
  <2>3. /\ AllWhole(s, none, actor.nans) /\ EndOf(s, none, 0) = 0 /\ Chain(s, none, 0)
    <3>1. EndOf(s, none, 0) = 0
      BY <1>1 DEF EndOf
    <3>2. \A i \in 1..Len(none) : FALSE
      BY <1>3
    <3> QED  BY <3>1, <3>2 DEF AllWhole, Chain
  <2>4. AllWhole(s, sendq[s], actor.nans) /\ Sends(s, 0)
    <3>1. CASE s = "parameters"
      <4>1. sendq[s] = q
        BY <1>12, <3>1
      <4>2. Whole(s, first, actor.nans) /\ Mark(s, first) = 0
        <5>1. 0 \in Version
          BY Constants
        <5> QED  BY <1>8, <1>9, <3>1, <5>1 DEF Whole, Mark
      <4>3. AllWhole(s, q, actor.nans)
        BY <1>14, <4>2 DEF AllWhole
      <4>4. q # <<>> /\ EndOf(s, q, 0) = 0
        <5>1. q # <<>>
          BY <1>14, NonEmpty
        <5> QED  BY <1>14, <4>2, <5>1 DEF EndOf
      <4>5. Chain(s, q, 0) /\ Tops(s, 0)
        <5>1. Follows(s, 0, first)
          BY <1>9, <3>1 DEF Follows
        <5>2. Chain(s, q, 0)
          BY <1>14, <5>1 DEF Chain
        <5>3. Tops(s, 0)
          BY <1>1, <1>6, <3>1 DEF Tops
        <5> QED  BY <5>2, <5>3
      <4> QED  BY <4>1, <4>3, <4>4, <4>5 DEF Sends
    <3>2. CASE s # "parameters"
      <4>1. sendq[s] = none
        BY <1>12, <3>2
      <4>2. Tops(s, 0)
        BY <1>1, <1>4, <3>2 DEF Tops
      <4> QED  BY <2>3, <4>1, <4>2 DEF Sends
    <3> QED  BY <3>1, <3>2
  <2>5. wire[s].remaining = <<>> /\ wire[s].buffer = <<>> /\ ~wire[s].draining
    BY <1>1, <1>12, <1>13
  <2> QED  BY <2>1, <2>2, <2>3, <2>4, <2>5 DEF StreamInv
<1>17. ActorInv
  <2>1. Len(actor.episode) = 0
    BY <1>3, <1>4
  <2>2. actor.pushed = 0 /\ actor.step = 0 /\ 0 = 0 - 0
    BY <1>1, <1>4
  <2>3. actor.pushed = actor.step - Len(actor.episode)
    BY <2>1, <2>2
  <2>4. \A k \in 1..Len(actor.episode) : FALSE
    BY <2>1
  <2>5. actor.policy <= actor.item
    BY <1>1, <1>4
  <2> QED  BY <2>3, <2>4, <2>5 DEF ActorInv, EndsAt
<1>18. BatchInv
  <2>1. Len(learner.batch) = 0
    BY <1>3, <1>6
  <2> QED  BY <1>6, <2>1 DEF BatchInv, EndsAt
<1>19. RingInv
  <2>1. ring.size = 0 /\ ring.position = 0
    BY <1>1, <1>7
  <2>2. ASSUME NEW i \in 0..(ring.size - 1)  PROVE FALSE
    BY <2>1
  <2> QED  BY <1>6, <2>1, <2>2 DEF RingInv
<1> QED  BY <1>15, <1>16, <1>17, <1>18, <1>19 DEF IInv

\* The actor's step.
LEMMA ActKeeps ==
  ASSUME IInv, Act
  PROVE  IInv' /\ actor'.policy >= actor.policy
<1>1. ActStep \/ TakeParameters \/ EndEpisode
  BY DEF Act
<1>2. UNCHANGED <<shutdown, wire, learner, ring>>
  BY DEF Act
<1>3. ActStep => IInv' /\ actor'.policy >= actor.policy
  BY <1>2, ActStepKeeps
<1>4. TakeParameters => IInv' /\ actor'.policy >= actor.policy
  BY <1>2, TakeParametersKeeps
<1>5. EndEpisode => IInv' /\ actor'.policy >= actor.policy
  BY <1>2, EndEpisodeKeeps
<1> QED  BY <1>1, <1>3, <1>4, <1>5

LEMMA LearnKeeps ==
  ASSUME IInv, Learn
  PROVE  IInv' /\ actor' = actor
<1>1. CASE ProcessTransitions
  BY <1>1, ProcessTransitionsKeeps DEF ProcessTransitions
<1>2. CASE SkipNaN
  BY <1>2, SkipNaNKeeps DEF SkipNaN
<1>3. CASE AddState
  BY <1>3, AddStateKeeps DEF AddState
<1>4. CASE AddRest
  BY <1>4, AddRestKeeps DEF AddRest
<1>5. ASSUME NEW push \in BOOLEAN, Optimize(push)  PROVE IInv' /\ actor' = actor
  <2>1. actor' = actor
    BY <1>5 DEF Optimize
  <2> QED  BY <1>5, <2>1, OptimizeKeeps
<1> QED  BY <1>1, <1>2, <1>3, <1>4, <1>5 DEF Learn

\* Every step keeps the invariant, and only the actor's own changes its policy.
LEMMA Inductive ==
  ASSUME IInv, [Next]_vars
  PROVE  IInv' /\ actor'.policy >= actor.policy
<1>1. actor.policy >= actor.policy
  <2>1. actor.policy \in Version
    BY DEF IInv, Types, ActorType
  <2>2. actor.policy \in Nat
    BY <2>1, Constants
  <2> QED  BY <2>2
<1>2. CASE Act
  BY <1>2, ActKeeps
<1>3. CASE Shutdown
  <2>1. shutdown' \in BOOLEAN
    BY <1>3 DEF Shutdown
  <2>2. UNCHANGED <<actor, sendq, wire, recvq, learner, ring>>
    BY <1>3 DEF Shutdown
  <2> QED  BY <1>1, <2>1, <2>2, Unchanging
<1>4. CASE Learn
  BY <1>1, <1>4, LearnKeeps
<1>5. ASSUME NEW s \in Stream,
             TakeMessage(s) \/ TakeLatest(s) \/ TransferPart(s) \/ Break(s)
      PROVE  IInv' /\ actor' = actor
  <2>1. actor' = actor
    BY <1>5 DEF TakeMessage, TakeLatest, TransferPart, Break
  <2> QED  BY <1>5, <2>1, TakeMessageKeeps, TakeLatestKeeps, TransferPartKeeps, BreakKeeps
<1>6. CASE Sample \/ UNCHANGED vars
  <2>1. shutdown \in BOOLEAN
    BY DEF IInv, Types
  <2>2. shutdown' \in BOOLEAN /\ UNCHANGED <<actor, sendq, wire, recvq, learner, ring>>
    BY <1>6, <2>1 DEF Sample, vars
  <2> QED  BY <1>1, <2>2, Unchanging
<1> QED  BY <1>1, <1>2, <1>3, <1>4, <1>5, <1>6 DEF Next

\* The invariant of the actor, the learner and their streams.
THEOREM PipelineInvariant == Spec => []IInv
<1>1. Init => IInv
  BY Initially
<1>2. IInv /\ [Next]_vars => IInv'
  BY Inductive
<1> QED  BY <1>1, <1>2, PTL DEF Spec

\* MessagesAreWhole: whatever was cut, broken off or shut down in between, what a
\* receiver's queue holds is a message as it was sent.
THEOREM WholeMessages == Spec => []MessagesAreWhole
<1>1. IInv => MessagesAreWhole
  <2> SUFFICES ASSUME IInv  PROVE MessagesAreWhole
    OBVIOUS
  <2>1. PICK tr, pa \in Stream : tr = "transitions" /\ pa = "parameters"
    BY DEF Stream
  <2>2. Types /\ StreamInv(tr) /\ StreamInv(pa)
    BY DEF IInv
  <2>3. /\ recvq[tr] \in Seq(Seq(Datum(tr))) /\ recvq[pa] \in Seq(Seq(Datum(pa)))
        /\ AllWhole(tr, recvq[tr], actor.nans) /\ AllWhole(pa, recvq[pa], actor.nans)
    BY <2>2, StreamFacts DEF StreamInv
  <2>4. ASSUME NEW i \in DOMAIN recvq[tr], NEW k \in DOMAIN recvq[tr][i]
        PROVE  /\ recvq[tr][i][k].n = recvq[tr][i][1].n + k - 1
               /\ recvq[tr][i][k].last = (k = Len(recvq[tr][i]))
    <3>1. i \in 1..Len(recvq[tr])
      BY <2>3
    <3>2. PICK m \in Seq(Datum(tr)) : m = recvq[tr][i]
      BY <2>3, <3>1, ElementOfSeq
    <3>3. Whole(tr, m, actor.nans)
      BY <2>3, <3>1, <3>2 DEF AllWhole
    <3>4. m \in Seq(Transition)
      BY <2>1, <3>2 DEF Datum
    <3>5. k \in 1..Len(m) /\ m[k] \in Transition /\ m[1] \in Transition /\ k \in Int
      <4>1. k \in 1..Len(m) /\ 1 \in 1..Len(m)
        BY <3>2, <3>4
      <4> QED  BY <3>4, <4>1, ElementOfSeq
    <3>6. m[k].n = m[1].n + (k - 1) /\ (m[k].last <=> k = Len(m))
      BY <2>1, <3>3, <3>5 DEF Whole
    <3>7. m[1].n \in Int /\ m[k].last \in BOOLEAN
      <4>1. m[1].n \in Step /\ m[k].last \in BOOLEAN
        BY <3>5 DEF Transition
      <4>2. m[1].n \in Nat
        BY <4>1, Constants
      <4> QED  BY <4>1, <4>2
    <3>8. m[1].n + (k - 1) = m[1].n + k - 1
      BY <3>5, <3>7
    <3>9. m[k].last = (k = Len(m))
      BY <3>6, <3>7
    <3> QED  BY <3>2, <3>6, <3>8, <3>9
  <2>5. ASSUME NEW i \in DOMAIN recvq[pa]
        PROVE  recvq[pa][i] = Parameters(recvq[pa][i][1])
    <3>1. i \in 1..Len(recvq[pa])
      BY <2>3
    <3>2. PICK m : m = recvq[pa][i]
      OBVIOUS
    <3>3. PICK v \in Version : m = Parameters(v)
      BY <2>1, <2>3, <3>1, <3>2 DEF AllWhole, Whole
    <3>4. m[1] = v
      BY <3>3, VersionMessage
    <3> QED  BY <3>2, <3>3, <3>4
  <2> QED  BY <2>1, <2>4, <2>5 DEF MessagesAreWhole
<1> QED  BY <1>1, PipelineInvariant, PTL

\* PolicyNeverGoesBack: the actor never loads parameters older than those it has.
THEOREM NoOlderPolicy == Spec => PolicyNeverGoesBack
<1>1. IInv /\ [Next]_vars => [actor'.policy >= actor.policy]_vars
  BY Inductive
<1> QED  BY <1>1, PipelineInvariant, PTL DEF Spec, PolicyNeverGoesBack

\* The slot of the i-th oldest transition.
Oldest(i) == (ring.position - ring.size + i - 1) % Capacity

LEMMA OldestIsSlot ==
  ASSUME Types, RingInv, NEW i \in 1..ring.size - 1
  PROVE  /\ Oldest(i) \in Slot /\ Oldest(i) \in 0..(ring.size - 1)
         /\ Oldest(i + 1) = After(Oldest(i)) /\ After(Oldest(i)) # ring.position
<1>1. PICK z \in 0..Capacity : z = ring.size
  BY DEF Types, RingType
<1>2. PICK p \in 0..Capacity - 1 : p = ring.position
  BY DEF Types, RingType, Slot
<1>3. Capacity \in Nat /\ Capacity >= 2 /\ z \in Nat /\ p \in Nat
  BY Constants
<1>4. PICK k \in Nat : k = i /\ k >= 1 /\ k <= z - 1
  BY <1>1, <1>3
<1>5. z < Capacity => p = z
  BY <1>1, <1>2 DEF RingInv
<1>6. PICK x, y \in Int : x = p - z + k - 1 /\ y = p - z + (k + 1) - 1 /\ y = x + 1
  BY <1>3
<1>7. Oldest(i) = x % Capacity /\ Oldest(i + 1) = y % Capacity
  BY <1>1, <1>2, <1>4, <1>6 DEF Oldest
<1>8. CASE z < Capacity
  <2>1. x = k - 1 /\ y = k /\ x \in 0..Capacity - 1 /\ y \in 0..Capacity - 1
    BY <1>3, <1>4, <1>5, <1>6, <1>8
  <2>2. x % Capacity = x /\ y % Capacity = y
    BY <2>1, Modulo
  <2>3. After(x) = y /\ y # p /\ x \in 0..(z - 1)
    BY <1>3, <1>4, <1>5, <1>8, <2>1 DEF After
  <2> QED  BY <1>1, <1>2, <1>7, <2>1, <2>2, <2>3 DEF Slot
<1>9. CASE z = Capacity
  <2>1. CASE y < 0
    <3>1. x % Capacity = x + Capacity /\ y % Capacity = y + Capacity
      BY <1>3, <1>4, <1>6, <1>9, <2>1, Modulo
    <3>2. x + Capacity \in 0..Capacity - 1 /\ After(x + Capacity) = y + Capacity
      BY <1>3, <1>4, <1>6, <1>9, <2>1 DEF After
    <3>3. y + Capacity # p
      BY <1>3, <1>4, <1>6, <1>9
    <3> QED  BY <1>1, <1>2, <1>7, <1>9, <3>1, <3>2, <3>3 DEF Slot
  <2>2. CASE y = 0
    <3>1. x % Capacity = x + Capacity
      BY <1>3, <1>6, <2>2, Modulo
    <3>2. y % Capacity = y
      BY <1>3, <2>2, Modulo
    <3>3. x + Capacity = Capacity - 1 /\ After(x + Capacity) = y
      BY <1>3, <1>6, <2>2 DEF After
    <3>4. y # p /\ x + Capacity \in 0..Capacity - 1
      BY <1>3, <1>4, <1>6, <1>9, <2>2, <3>3
    <3> QED  BY <1>1, <1>2, <1>7, <1>9, <3>1, <3>2, <3>3, <3>4 DEF Slot
  <2>3. CASE y > 0
    <3>1. x \in 0..Capacity - 1 /\ y \in 0..Capacity - 1
      BY <1>2, <1>3, <1>4, <1>6, <1>9, <2>3
    <3>2. x % Capacity = x /\ y % Capacity = y
      BY <3>1, Modulo
    <3>3. After(x) = y /\ y # p
      BY <1>2, <1>3, <1>4, <1>6, <1>9, <3>1 DEF After
    <3> QED  BY <1>1, <1>2, <1>7, <1>9, <3>1, <3>2, <3>3 DEF Slot
  <2> QED  BY <1>6, <2>1, <2>2, <2>3
<1> QED  BY <1>1, <1>3, <1>8, <1>9

\* ReplayInOrder: the ring holds the transitions in the actor's order, and what is
\* missing between two of them had NaNs.
THEOREM RingInOrder == Spec => []ReplayInOrder
<1>1. IInv => ReplayInOrder
  <2> SUFFICES ASSUME IInv  PROVE ReplayInOrder
    OBVIOUS
  <2>1. Types /\ RingInv
    BY DEF IInv
  <2>2. ASSUME NEW i \in 1..ring.size - 1
        PROVE  /\ ring.rest[Oldest(i)].n < ring.rest[Oldest(i + 1)].n
               /\ \A n \in Step :
                    ring.rest[Oldest(i)].n < n /\ n < ring.rest[Oldest(i + 1)].n
                      => n \in actor.nans
    <3>1. PICK o \in Slot : /\ o = Oldest(i) /\ o \in 0..(ring.size - 1)
                            /\ Oldest(i + 1) = After(o) /\ After(o) # ring.position
      BY <2>1, OldestIsSlot
    <3>2. SlotInv(o)
      BY <2>1, <3>1 DEF RingInv
    <3>3. /\ ring.rest[o].n < ring.rest[After(o)].n
          /\ OnlyNaNs(ring.rest[o].n, ring.rest[After(o)].n, actor.nans)
      BY <3>1, <3>2 DEF SlotInv
    <3> QED  BY <3>1, <3>3 DEF OnlyNaNs
  <2> QED  BY <2>2 DEF ReplayInOrder, Oldest
<1> QED  BY <1>1, PipelineInvariant, PTL

-----------------------------------------------------------------------------
(* The samples.                                                            *)

SampleType ==
  [pc : {"idle", "state", "next", "rest"}, slot : Slot, state : Step \cup {None},
   next : Step \cup {None}, raced : BOOLEAN]

\* The state after a step, unless what follows it has NaNs.
IsNext(n, t) == t.n + 1 \in actor.nans \/ n = t.n + 1

\* The slot that is being sampled and the one after it hold a step, and what has
\* been read of it is of that step.
Intact(i) ==
  LET t == ring.rest[i]
  IN  /\ i < ring.size /\ After(i) < ring.size
      /\ learner.half => ring.position # i
      /\ ring.states[i] = t.n /\ IsNext(ring.states[After(i)], t)
      /\ sample.pc \in {"next", "rest"} => sample.state = t.n
      /\ sample.pc = "rest" => IsNext(sample.next, t)

SampleInv ==
  /\ sample \in SampleType
  /\ sample.raced => ring.size = Capacity
  /\ sample.pc # "idle" /\ ~sample.raced => Intact(sample.slot)

LEMMA NextIsAfter ==
  ASSUME NEW i \in Slot
  PROVE  NextSlot(i) = After(i)
<1>1. i \in Int
  BY Constants DEF Slot
<1>2. NextPosition(i) = After(i)
  BY <1>1, Modulo
<1> QED  BY <1>2 DEF NextSlot, NextPosition

LEMMA NothingSampled ==
  NoSample \in SampleType /\ NoSample.pc = "idle" /\ ~NoSample.raced
<1>1. PICK idle, zero, nothing, no :
        idle = "idle" /\ zero = 0 /\ nothing = None /\ no = FALSE
  OBVIOUS
<1>2. NoSample = [pc |-> idle, slot |-> zero, state |-> nothing, next |-> nothing, raced |-> no]
  BY <1>1 DEF NoSample
<1>3. zero \in Slot
  <2>1. 0 \in 0..Capacity - 1
    BY Constants
  <2> QED  BY <1>1, <2>1 DEF Slot
<1>4. no \in BOOLEAN
  BY <1>1
<1> QED  BY <1>1, <1>2, <1>3, <1>4 DEF SampleType

\* The state in the slot after one whose next state is stored.
LEMMA NextIsStored ==
  ASSUME Types, BatchInv, RingInv, NEW i \in Slot, i < ring.size, After(i) < ring.size,
         After(i) = ring.position => learner.half
  PROVE  IsNext(ring.states[After(i)], ring.rest[i])
<1>1. PICK z \in 0..Capacity : z = ring.size
  BY DEF Types, RingType
<1>2. PICK p \in 0..Capacity - 1 : p = ring.position
  BY DEF Types, RingType, Slot
<1>3. Capacity \in Nat /\ Capacity >= 2 /\ z \in Nat /\ p \in Nat /\ OnlineSteps \in Nat
  BY Constants
<1>4. i \in 0..(ring.size - 1)
  BY <1>1, <1>3 DEF Slot
<1>5. PICK j \in Slot : j = After(i)
  BY AfterIsSlot
<1>6. SlotInv(i) /\ ring.rest[i] \in Transition
  BY <1>4 DEF RingInv, SlotInv
<1>7. PICK a \in Step : a = ring.rest[i].n
  BY <1>6 DEF Transition
<1>8. a \in Nat
  BY Constants
\* Whatever comes next, there are only NaNs in between.
<1>9. ASSUME NEW b \in Step, a < b, OnlyNaNs(a, b, actor.nans)
      PROVE  a + 1 \in actor.nans \/ b = a + 1
  <2> SUFFICES ASSUME b # a + 1  PROVE a + 1 \in actor.nans
    OBVIOUS
  <2>1. b \in Nat /\ b <= OnlineSteps
    BY Constants DEF Step
  <2>2. a + 1 \in Step /\ a < a + 1 /\ a + 1 < b
    BY <1>3, <1>8, <1>9, <2>1 DEF Step
  <2> QED  BY <1>9, <2>2 DEF OnlyNaNs
<1>10. CASE j = p
  <2>1. learner.half /\ learner.batch # <<>>
    BY <1>2, <1>5, <1>10 DEF BatchInv
  <2>2. PICK f \in Int : f = Frontier
    BY LearnerFacts
  <2>3. PICK b \in Step : b = learner.batch[1].n /\ b = f + 1
    BY <2>1, <2>2, LearnerFacts DEF Transition
  <2>4. a <= f /\ OnlyNaNs(a, b, actor.nans)
    BY <1>2, <1>5, <1>6, <1>7, <1>10, <2>2, <2>3 DEF SlotInv
  <2>5. a < b
    BY <1>8, <2>2, <2>3, <2>4
  <2>6. ring.states[j] = b
    BY <1>2, <1>10, <2>1, <2>3 DEF RingInv
  <2> QED  BY <1>5, <1>7, <1>9, <2>4, <2>5, <2>6 DEF IsNext
<1>11. CASE j # p
  <2>1. /\ ring.rest[i].n < ring.rest[j].n
        /\ OnlyNaNs(ring.rest[i].n, ring.rest[j].n, actor.nans)
    BY <1>2, <1>5, <1>6, <1>11 DEF SlotInv
  <2>2. SlotInv(j)
    <3>1. j \in 0..(ring.size - 1)
      BY <1>1, <1>3, <1>5 DEF Slot
    <3> QED  BY <3>1 DEF RingInv
  <2>3. ring.rest[j] \in Transition /\ ring.states[j] = ring.rest[j].n
    BY <1>2, <1>11, <2>2 DEF SlotInv
  <2>4. PICK b \in Step : b = ring.rest[j].n
    BY <2>3 DEF Transition
  <2> QED  BY <1>5, <1>7, <1>9, <2>1, <2>3, <2>4 DEF IsNext
<1> QED  BY <1>10, <1>11

LEMMA PickSlotKeeps ==
  ASSUME IInv, NEW i \in Slot, PickSlot(i), UNCHANGED <<actor, learner, ring>>
  PROVE  SampleInv'
<1>1. Types /\ BatchInv /\ RingInv
  BY DEF IInv
<1>2. PICK z \in 0..Capacity : z = ring.size
  BY <1>1 DEF Types, RingType
<1>3. PICK p \in 0..Capacity - 1 : p = ring.position
  BY <1>1 DEF Types, RingType, Slot
<1>4. Capacity \in Nat /\ Capacity >= 2 /\ z \in Nat /\ p \in Nat /\ i \in Nat
  BY Constants DEF Slot
<1>5. i < z /\ (z < Capacity => i < z - 1) /\ (z < Capacity => p = z)
  BY <1>1, <1>2, <1>3, <1>4 DEF PickSlot, SampleHigh, RingInv
<1>6. PICK raced \in BOOLEAN :
        raced <=> /\ z = Capacity
                  /\ IF learner.half THEN p = i ELSE p = After(i)
  OBVIOUS
<1>7. PICK nothing, pc : nothing = None /\ pc = "state"
  OBVIOUS
<1>8. sample' = [pc |-> pc, slot |-> i, state |-> nothing, next |-> nothing, raced |-> raced]
  <2>1. raced = (/\ ring.size = Capacity
                 /\ IF learner.half THEN ring.position = i ELSE ring.position = NextSlot(i))
    BY <1>2, <1>3, <1>6, NextIsAfter
  <2>2. sample' = [NoSample EXCEPT !.pc = pc, !.slot = i, !.raced = raced]
    BY <1>7, <2>1 DEF PickSlot
  <2> QED  BY <1>7, <2>2 DEF NoSample
<1>9. /\ sample' \in SampleType /\ sample'.pc = pc /\ sample'.slot = i
      /\ sample'.raced = raced
  BY <1>7, <1>8 DEF SampleType
<1>10. sample'.raced => ring'.size = Capacity
  BY <1>2, <1>6, <1>9
<1>11. ASSUME ~raced
       PROVE  /\ After(i) < z
              /\ learner.half => p # i
              /\ After(i) = p => learner.half
  <2>1. CASE z < Capacity
    BY <1>4, <1>5, <2>1 DEF After
  <2>2. CASE z = Capacity
    <3>1. After(i) < z
      BY <1>4, <2>2, AfterIsSlot DEF Slot
    <3> QED  BY <1>6, <1>11, <2>2, <3>1
  <2> QED  BY <1>4, <2>1, <2>2
<1>12. ASSUME ~raced  PROVE Intact(i)'
  <2>1. IsNext(ring.states[After(i)], ring.rest[i])
    BY <1>1, <1>2, <1>3, <1>5, <1>11, <1>12, NextIsStored
  <2>2. ring.states[i] = ring.rest[i].n
    <3>1. i \in 0..(ring.size - 1)
      BY <1>2, <1>4, <1>5
    <3>2. SlotInv(i)
      BY <1>1, <3>1 DEF RingInv
    <3> QED  BY <1>3, <1>11, <1>12, <3>2 DEF SlotInv
  <2>3. sample'.pc # "next" /\ sample'.pc # "rest"
    BY <1>7, <1>9
  <2> QED  BY <1>2, <1>3, <1>5, <1>11, <1>12, <2>1, <2>2, <2>3 DEF Intact, IsNext
<1> QED  BY <1>9, <1>10, <1>12 DEF SampleInv

LEMMA ReadsKeep ==
  ASSUME IInv, SampleInv, ReadState \/ ReadNextState \/ ReadRest,
         UNCHANGED <<actor, learner, ring>>
  PROVE  SampleInv'
<1>1. PICK i \in Slot : i = sample.slot
  BY DEF SampleInv, SampleType
<1>2. After(i) \in Slot /\ NextSlot(i) = After(i)
  BY AfterIsSlot, NextIsAfter
<1>3. \A j \in Slot : ring.states[j] \in Step \cup {None}
  BY DEF IInv, Types, RingType
<1>4. CASE ReadState
  <2>1. PICK pc, x : pc = "next" /\ x = ring.states[i]
    OBVIOUS
  <2>2. sample' = [sample EXCEPT !.pc = pc, !.state = x]
    BY <1>1, <1>4, <2>1 DEF ReadState
  <2>3. /\ sample' \in SampleType /\ sample'.pc = pc /\ sample'.slot = i
        /\ sample'.raced = sample.raced /\ sample'.state = x
    BY <1>1, <1>3, <2>1, <2>2 DEF SampleInv, SampleType
  <2>4. ASSUME ~sample.raced  PROVE Intact(i)'
    <3>1. Intact(i)
      BY <1>1, <1>4, <2>4 DEF SampleInv, ReadState
    <3> QED  BY <2>1, <2>3, <3>1 DEF Intact, IsNext
  <2> QED  BY <2>3, <2>4 DEF SampleInv
<1>5. CASE ReadNextState
  <2>1. PICK pc, x : pc = "rest" /\ x = ring.states[After(i)]
    OBVIOUS
  <2>2. sample' = [sample EXCEPT !.pc = pc, !.next = x]
    BY <1>1, <1>2, <1>5, <2>1 DEF ReadNextState
  <2>3. /\ sample' \in SampleType /\ sample'.pc = pc /\ sample'.slot = i
        /\ sample'.raced = sample.raced /\ sample'.state = sample.state /\ sample'.next = x
    BY <1>1, <1>2, <1>3, <2>1, <2>2 DEF SampleInv, SampleType
  <2>4. ASSUME ~sample.raced  PROVE Intact(i)'
    <3>1. Intact(i) /\ sample.state = ring.rest[i].n
      BY <1>1, <1>5, <2>4 DEF SampleInv, ReadNextState, Intact
    <3> QED  BY <2>1, <2>3, <3>1 DEF Intact, IsNext
  <2> QED  BY <2>3, <2>4 DEF SampleInv
<1>6. CASE ReadRest
  BY <1>6, NothingSampled DEF ReadRest, SampleInv
<1> QED  BY <1>4, <1>5, <1>6

\* A transition's state is stored beside the sample.
LEMMA AddStateLeaves ==
  ASSUME IInv, SampleInv, AddState
  PROVE  SampleInv'
<1>1. Types /\ BatchInv /\ RingInv
  BY DEF IInv
<1>2. PICK i \in Slot : i = sample.slot /\ After(i) \in Slot /\ NextSlot(i) = After(i)
  BY AfterIsSlot, NextIsAfter DEF SampleInv, SampleType
<1>3. PICK p \in Slot : p = ring.position
  BY <1>1 DEF Types, RingType
<1>4. PICK st \in [Slot -> Step \cup {None}] : st = ring.states
  BY <1>1 DEF Types, RingType
<1>5. PICK new : new = [st EXCEPT ![p] = Head(learner.batch).n]
  OBVIOUS
<1>6. ring' = [ring EXCEPT !.states = new]
  BY <1>3, <1>4, <1>5 DEF AddState
<1>7. /\ ring'.states = new /\ ring'.rest = ring.rest /\ ring'.position = p
      /\ ring'.size = ring.size
  BY <1>1, <1>3, <1>6 DEF Types, RingType
<1>8. \A j \in Slot : j # p => new[j] = ring.states[j]
  BY <1>4, <1>5
<1>9. PICK raced \in BOOLEAN : raced = (sample.raced \/ Sampled(p))
  BY DEF SampleInv, SampleType, Sampled
<1>10. /\ sample' \in SampleType /\ sample'.raced = raced /\ sample'.pc = sample.pc
       /\ sample'.slot = i /\ sample'.state = sample.state /\ sample'.next = sample.next
  <2>1. sample' = [sample EXCEPT !.raced = raced]
    BY <1>3, <1>9 DEF AddState
  <2> QED  BY <1>2, <2>1 DEF SampleInv, SampleType
<1>11. ASSUME raced  PROVE ring.size = Capacity
  <2>1. CASE sample.raced
    BY <2>1 DEF SampleInv
  <2>2. CASE ~sample.raced
    <3>1. Sampled(p) /\ sample.pc # "idle"
      BY <1>9, <1>11, <2>2 DEF Sampled
    <3>2. Intact(i)
      BY <1>2, <2>2, <3>1 DEF SampleInv
    <3>3. p < ring.size
      BY <1>2, <3>1, <3>2 DEF Sampled, Intact
    <3>4. ring.size < Capacity => p = ring.size
      BY <1>1, <1>3 DEF RingInv
    <3>5. ring.size \in 0..Capacity /\ p \in 0..Capacity - 1
      BY <1>1 DEF Types, RingType, Slot
    <3> QED  BY <3>3, <3>4, <3>5, Constants
  <2> QED  BY <2>1, <2>2
<1>12. ASSUME ~raced, sample.pc # "idle"  PROVE Intact(i)'
  <2>1. ~sample.raced /\ ~Sampled(p)
    BY <1>9, <1>12
  <2>2. Intact(i)
    BY <1>2, <1>12, <2>1 DEF SampleInv
  <2>3. p # i /\ p # After(i)
    BY <1>2, <1>12, <2>1 DEF Sampled
  <2>4. new[i] = ring.states[i] /\ new[After(i)] = ring.states[After(i)]
    BY <1>2, <1>8, <2>3
  <2>5. actor' = actor
    BY DEF AddState
  <2> QED  BY <1>7, <1>10, <2>2, <2>3, <2>4, <2>5 DEF Intact, IsNext
<1> QED  BY <1>7, <1>10, <1>11, <1>12 DEF SampleInv

\* The rest of a transition goes into a slot that is not being sampled.
LEMMA AddRestLeaves ==
  ASSUME IInv, SampleInv, AddRest
  PROVE  SampleInv'
<1>1. Types /\ BatchInv /\ RingInv /\ learner.half
  BY DEF IInv, AddRest
<1>2. PICK i \in Slot : i = sample.slot /\ After(i) \in Slot
  BY AfterIsSlot DEF SampleInv, SampleType
<1>3. PICK p \in Slot : p = ring.position
  BY <1>1 DEF Types, RingType
<1>4. PICK z \in 0..Capacity : z = ring.size
  BY <1>1 DEF Types, RingType
<1>5. PICK old \in [Slot -> Transition \cup {None}] : old = ring.rest
  BY <1>1 DEF Types, RingType
<1>6. PICK new : new = [old EXCEPT ![p] = Head(learner.batch)]
  OBVIOUS
<1>7. PICK next : next = NextPosition(p)
  OBVIOUS
<1>8. PICK y \in 0..Capacity : y = (IF z < Capacity THEN z + 1 ELSE z) /\ y >= z
                               /\ (z = Capacity => y = Capacity)
  <2>1. Capacity \in Nat
    BY Constants
  <2> QED  BY <2>1
<1>9. ring' = [ring EXCEPT !.rest = new, !.position = next, !.size = y]
  BY <1>3, <1>4, <1>5, <1>6, <1>7, <1>8 DEF AddRest
<1>10. ring'.states = ring.states /\ ring'.rest = new /\ ring'.size = y
  BY <1>1, <1>9 DEF Types, RingType
<1>11. ~learner'.half /\ sample' = sample /\ actor' = actor
  <2>1. PICK no : no = FALSE
    OBVIOUS
  <2>2. learner'.half = no
    BY <1>1, <2>1 DEF AddRest, Types, LearnerType
  <2> QED  BY <2>1, <2>2 DEF AddRest
<1>12. ASSUME ~sample.raced, sample.pc # "idle"  PROVE Intact(i)'
  <2>1. Intact(i)
    BY <1>2, <1>12 DEF SampleInv
  <2>2. new[i] = ring.rest[i]
    BY <1>1, <1>3, <1>5, <1>6, <2>1 DEF Intact
  <2>3. i < z /\ After(i) < z
    BY <1>4, <2>1 DEF Intact
  <2>4. i < y /\ After(i) < y
    BY <1>2, <1>4, <1>8, <2>3, Constants DEF Slot
  <2> QED  BY <1>10, <1>11, <2>1, <2>2, <2>4 DEF Intact, IsNext
<1> QED  BY <1>2, <1>4, <1>8, <1>10, <1>11, <1>12 DEF SampleInv

\* Other steps leave the ring and the sample alone.
LEMMA OthersLeave ==
  ASSUME SampleInv, sample' = sample, ring' = ring, learner'.half = learner.half,
         actor.nans \subseteq actor'.nans
  PROVE  SampleInv'
<1>1. ASSUME NEW i, Intact(i)  PROVE Intact(i)'
  BY <1>1 DEF Intact, IsNext
<1> QED  BY <1>1 DEF SampleInv

LEMMA SampleKeeps ==
  ASSUME IInv, IInv', SampleInv, [Next]_vars
  PROVE  SampleInv'
<1>1. CASE Act
  <2>1. sample' = sample /\ ring' = ring /\ learner' = learner
    BY <1>1 DEF Act
  <2>2. actor.nans \subseteq actor'.nans
    <3>1. actor \in ActorType
      BY DEF IInv, Types
    <3> QED  BY <1>1, <3>1 DEF Act, ActStep, TakeParameters, EndEpisode, ActorType
  <2> QED  BY <2>1, <2>2, OthersLeave
<1>2. CASE Shutdown \/ UNCHANGED vars
  BY <1>2, OthersLeave DEF Shutdown, vars
<1>3. ASSUME NEW s \in Stream,
             TakeMessage(s) \/ TakeLatest(s) \/ TransferPart(s) \/ Break(s)
      PROVE  SampleInv'
  BY <1>3, OthersLeave DEF TakeMessage, TakeLatest, TransferPart, Break
<1>4. CASE ProcessTransitions
  BY <1>4, OthersLeave DEF ProcessTransitions, IInv, Types, LearnerType
<1>5. CASE SkipNaN
  BY <1>5, OthersLeave DEF SkipNaN, IInv, Types, LearnerType
<1>6. ASSUME NEW push \in BOOLEAN, Optimize(push)  PROVE SampleInv'
  <2>1. learner \in LearnerType
    BY DEF IInv, Types
  <2>2. learner'.half = learner.half
    BY <1>6, <2>1 DEF Optimize, LearnerType
  <2>3. sample' = sample /\ ring' = ring /\ actor' = actor
    BY <1>6 DEF Optimize
  <2> QED  BY <2>2, <2>3, OthersLeave
<1>7. CASE Learn
  BY <1>4, <1>5, <1>6, <1>7, AddStateLeaves, AddRestLeaves DEF Learn
<1>8. CASE Sample
  <2>1. UNCHANGED <<actor, learner, ring>>
    BY <1>8 DEF Sample
  <2> QED  BY <1>8, <2>1, PickSlotKeeps, ReadsKeep DEF Sample, Slot
<1> QED  BY <1>1, <1>2, <1>3, <1>7, <1>8 DEF Next

\* The invariant of the whole pipeline.
THEOREM SamplingInvariant == Spec => [](IInv /\ SampleInv)
<1>1. Init => IInv /\ SampleInv
  <2> SUFFICES ASSUME Init  PROVE IInv /\ SampleInv
    OBVIOUS
  <2>1. sample = NoSample
    BY DEF Init
  <2> QED  BY <2>1, Initially, NothingSampled DEF SampleInv
<1>2. IInv /\ SampleInv /\ [Next]_vars => IInv' /\ SampleInv'
  BY Inductive, SampleKeeps
<1> QED  BY <1>1, <1>2, PTL DEF Spec

\* TypeOK: every variable keeps its type.
THEOREM PipelineTypes == Spec => []TypeOK
<1>1. IInv /\ SampleInv => TypeOK
  <2> SUFFICES ASSUME IInv, SampleInv  PROVE TypeOK
    OBVIOUS
  <2>1. Types
    BY DEF IInv
  <2>2. \A s \in Stream : wire[s].broken \in BOOLEAN
    BY <2>1, StreamFacts
  <2>3. sample.slot \in 0..Capacity - 1 /\ sample.raced \in BOOLEAN
    BY DEF SampleInv, SampleType, Slot
  <2> QED
    BY <2>1, <2>2, <2>3 DEF TypeOK, Types, ActorType, LearnerType, RingType, Version, Slot
<1> QED  BY <1>1, SamplingInvariant, PTL

\* SampleIsStep: a sample read part by part beside the learner is a step that
\* happened, with the exceptions the property names; and a slot is only written to
\* beside its reads when the ring is full.
THEOREM SamplesAreSteps == Spec => []SampleIsStep
<1>1. IInv /\ SampleInv => SampleIsStep
  <2> SUFFICES ASSUME IInv, SampleInv, sample.pc = "rest", ~sample.raced
               PROVE  \/ ring.rest[sample.slot].n + 1 \in actor.nans
                      \/ /\ sample.state = ring.rest[sample.slot].n
                         /\ sample.next = ring.rest[sample.slot].n + 1
    BY DEF SampleIsStep, SampleInv
  <2>1. Intact(sample.slot)
    BY DEF SampleInv
  <2> QED  BY <2>1 DEF Intact, IsNext
<1> QED  BY <1>1, SamplingInvariant, PTL
=============================================================================
