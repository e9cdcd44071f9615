------------------------ MODULE StreamingEncoder_proofs ------------------------
(***************************************************************************)
(* The safety of streaming video encoding for every number of cameras,     *)
(* size of the queues, length of an episode and number of episodes,        *)
(* crashes and timeouts.                                                   *)
(***************************************************************************)
EXTENDS StreamingEncoder, SequenceTheorems, TLAPS

Episode == 1..MaxEpisodes

EncoderType ==
  [thread : {"none", "run", "done", "crashed"}, queue : Seq(Row \cup {Sentinel}),
   taken : Seq(Row), stop : BOOLEAN, video : Seq(Row), file : {"none", "open", "closed"},
   place : {"temp", "dataset", "cancelled"}, accepted : Seq(Row)]

MainType ==
  [pc : {"next", "feed", "sentinel", "join", "drain", "video", "cancel", "cancelJoin",
         "ended"},
   key : Key, active : BOOLEAN, then : {"next", "video", "ended"},
   episode : 0..MaxEpisodes, rows : 0..MaxRows, late : SUBSET (Episode \X Key)]

Types ==
  /\ main \in MainType
  /\ enc \in [Episode -> [Key -> EncoderType]]
  /\ saved \subseteq 1..main.episode
  /\ faults \in [crashes : Nat, timeouts : Nat]
  /\ \A e \in Episode, k \in Key : Len(enc[e][k].queue) <= QueueSize

-----------------------------------------------------------------------------
(* The phases of the main thread.                                          *)

InEpisode == {"feed", "sentinel", "join", "drain", "cancel", "cancelJoin"}

Control ==
  /\ main.pc \in InEpisode \cup {"video"} \/ main.active => main.episode \in Episode
  /\ main.pc \in InEpisode => main.active
  /\ main.pc = "next" => (main.active <=> main.rows > 0)
  /\ main.pc = "feed" => main.rows \in Row
  /\ main.pc = "video" => ~main.active
  /\ main.pc \in {"sentinel", "join", "video"} => main.then = "video"
  /\ main.pc \in {"cancel", "cancelJoin"} => main.then # "video"
  /\ main.pc = "cancel" => main.key = 1
  /\ faults.timeouts = 0 => main.late = {}

-----------------------------------------------------------------------------
(* An encoder.                                                             *)

\* It has just been started, or has accepted a frame.
Fresh(x) ==
  x.thread = "run" /\ x.queue = <<>> /\ x.taken = <<>> /\ x.accepted = <<>>
Fed(x) == x.accepted # <<>>

\* The frames that the thread has got from the queue.
Got(x) == x.video \o x.taken

\* Frames are accepted: the thread has got them, or they are still in the queue.
Feeding(x) ==
  /\ x.thread \in {"run", "crashed"}
  /\ x.thread = "run" =>
       ~x.stop /\ x.queue \in Seq(Row) /\ Got(x) \o x.queue = x.accepted

\* The sentinel follows the last frame.
Ending(x) ==
  /\ x.thread \in {"run", "done", "crashed"}
  /\ x.thread = "run" => ~x.stop /\ Got(x) \o x.queue = Append(x.accepted, Sentinel)
  /\ x.thread = "done" => x.video = x.accepted

\* All accepted frames are in the video.
Ended(x) == x.thread = "done" /\ x.video = x.accepted

\* Nothing is left of it.
Over(x) == x.thread # "run" /\ (x.file # "none" => x.place # "temp")

\* The file of an encoder.
FileOf(x) ==
  /\ x.thread = "done" => x.file # "open"
  /\ x.video # <<>> => x.file # "none"

\* What the phase of the main thread says of an encoder of its episode.
Current(e, k) ==
  LET x == enc[e][k]
  IN  /\ main.pc = "next" /\ main.active => Feeding(x) /\ Fed(x)
      /\ main.pc = "feed" =>
           Feeding(x) /\ IF main.rows = 1 /\ k >= main.key THEN Fresh(x) ELSE Fed(x)
      /\ main.pc = "sentinel" =>
           Fed(x) /\ IF k < main.key THEN Ending(x) ELSE Feeding(x)
      /\ main.pc = "join" =>
           Fed(x) /\ IF k < main.key THEN OnTime(e, k) => Ended(x) ELSE Ending(x)
      /\ main.pc \in {"drain", "video", "ended"} /\ main.then = "video" =>
           Fed(x) /\ (OnTime(e, k) => Ended(x))

\* The main thread has left the encoder behind.
LeftBehind(e, k) ==
  \/ e # main.episode
  \/ main.pc = "next" /\ ~main.active
  \/ main.pc \in {"video", "cancelJoin"} /\ k < main.key
  \/ main.pc = "ended" /\ main.then = "video" /\ k < main.key
  \/ main.pc \in {"drain", "ended"} /\ main.then # "video"

EncoderInv(e, k) ==
  /\ FileOf(enc[e][k])
  /\ (e \in saved /\ OnTime(e, k)) => Ended(enc[e][k])
  /\ e = main.episode => Current(e, k)
  /\ faults.timeouts = 0 /\ LeftBehind(e, k) => Over(enc[e][k])

IInv == Types /\ Control /\ \A e \in Episode, k \in Key : EncoderInv(e, k)

-----------------------------------------------------------------------------
(* Videos and queues.                                                      *)

Item == Row \cup {Sentinel}

LEMMA Constants ==
  /\ Cameras \in Nat /\ Cameras >= 1 /\ QueueSize \in Nat /\ QueueSize >= 1
  /\ MaxRows \in Nat /\ MaxRows >= 1 /\ MaxEpisodes \in Nat /\ MaxEpisodes >= 1
  /\ 1 \in Key /\ Row \subseteq Nat /\ Sentinel \notin Row
BY EncoderAssumption DEF Key, Row, Sentinel

LEMMA RowsAreItems ==
  ASSUME NEW s \in Seq(Row)
  PROVE  s \in Seq(Item)
BY SeqMonotonic DEF Item

\* Moving the split between two sequences.
LEMMA ConcatAppend ==
  ASSUME NEW S, NEW v \in Seq(S), NEW q \in Seq(S), NEW r \in S
  PROVE  v \o Append(q, r) = Append(v \o q, r)
<1>1. <<r>> \in Seq(S) /\ v \o q \in Seq(S)
  <2>1. <<>> \in Seq(S) /\ Append(<<>>, r) = <<r>>
    BY EmptySeq
  <2> QED  BY <2>1, AppendProperties, ConcatProperties
<1>2. Append(q, r) = q \o <<r>> /\ Append(v \o q, r) = (v \o q) \o <<r>>
  BY <1>1, AppendIsConcat
<1>3. (v \o q) \o <<r>> = v \o (q \o <<r>>)
  BY <1>1, ConcatAssociative
<1> QED  BY <1>2, <1>3

LEMMA ConcatHead ==
  ASSUME NEW S, NEW v \in Seq(S), NEW q \in Seq(S), q # <<>>
  PROVE  Append(v, Head(q)) \o Tail(q) = v \o q
<1>1. /\ Head(q) \in S /\ Head(q) = q[1] /\ Tail(q) \in Seq(S) /\ Len(Tail(q)) = Len(q) - 1
      /\ \A i \in 1..Len(Tail(q)) : Tail(q)[i] = q[i + 1]
      /\ Len(q) \in Nat /\ Len(q) >= 1
  BY HeadTailProperties, EmptySeq
<1>2. PICK a \in Seq(S) : a = Append(v, Head(q))
  BY <1>1, AppendProperties
<1>3. /\ Len(v) \in Nat /\ Len(a) = Len(v) + 1 /\ a[Len(v) + 1] = q[1]
      /\ \A i \in 1..Len(v) : a[i] = v[i]
  BY <1>1, <1>2, AppendProperties, LenProperties
<1>4. PICK t \in Seq(S) : t = Tail(q)
  BY <1>1
<1>5. PICK l \in Seq(S) : l = a \o t
  BY ConcatProperties
<1>6. PICK r \in Seq(S) : r = v \o q
  BY ConcatProperties
<1>7. /\ Len(l) = Len(a) + Len(t)
      /\ \A i \in 1..(Len(a) + Len(t)) : l[i] = IF i <= Len(a) THEN a[i] ELSE t[i - Len(a)]
  BY <1>5, ConcatProperties
<1>8. /\ Len(r) = Len(v) + Len(q)
      /\ \A i \in 1..(Len(v) + Len(q)) : r[i] = IF i <= Len(v) THEN v[i] ELSE q[i - Len(v)]
  BY <1>6, ConcatProperties
<1>9. Len(l) = Len(r) /\ Len(l) = Len(v) + Len(q)
  BY <1>1, <1>3, <1>4, <1>7, <1>8
<1>10. ASSUME NEW i \in 1..Len(l)  PROVE l[i] = r[i]
  <2>1. CASE i <= Len(v)
    <3>1. i \in 1..Len(v) /\ i <= Len(a) /\ i \in 1..(Len(a) + Len(t))
          /\ i \in 1..(Len(v) + Len(q))
      BY <1>1, <1>3, <1>7, <1>9, <2>1
    <3> QED  BY <1>3, <1>7, <1>8, <2>1, <3>1
  <2>2. CASE i = Len(v) + 1
    <3>1. i <= Len(a) /\ ~(i <= Len(v)) /\ i - Len(v) = 1 /\ i \in 1..(Len(a) + Len(t))
          /\ i \in 1..(Len(v) + Len(q))
      BY <1>1, <1>3, <1>7, <1>9, <2>2
    <3> QED  BY <1>3, <1>7, <1>8, <2>2, <3>1
  <2>3. CASE i > Len(v) + 1
    <3>1. /\ ~(i <= Len(a)) /\ ~(i <= Len(v)) /\ i \in 1..(Len(a) + Len(t))
          /\ i \in 1..(Len(v) + Len(q)) /\ i - Len(a) \in 1..Len(Tail(q))
          /\ (i - Len(a)) + 1 = i - Len(v)
      BY <1>1, <1>3, <1>4, <1>7, <1>9, <2>3
    <3>2. l[i] = t[i - Len(a)] /\ r[i] = q[i - Len(v)]
      BY <1>7, <1>8, <3>1
    <3>3. t[i - Len(a)] = q[(i - Len(a)) + 1]
      BY <1>1, <1>4, <3>1
    <3> QED  BY <3>1, <3>2, <3>3
  <2> QED  BY <1>3, <1>9, <2>1, <2>2, <2>3
<1>11. l = r
  BY <1>9, <1>10, SeqEqual
<1> QED  BY <1>2, <1>4, <1>5, <1>6, <1>11

\* When the sentinel is reached, all frames are in the video.
LEMMA ConcatLast ==
  ASSUME NEW v \in Seq(Row), NEW q \in Seq(Item), q # <<>>, Head(q) = Sentinel,
         NEW a \in Seq(Row), v \o q = Append(a, Sentinel)
  PROVE  v = a
<1>1. v \in Seq(Item) /\ a \in Seq(Item) /\ Sentinel \in Item
  BY RowsAreItems DEF Item
<1>2. /\ Len(v) \in Nat /\ Len(a) \in Nat /\ Len(q) \in Nat /\ Len(q) >= 1
      /\ q[1] = Sentinel
  BY <1>1, LenProperties, EmptySeq
<1>3. PICK l \in Seq(Item) : l = v \o q /\ l = Append(a, Sentinel)
  BY <1>1, ConcatProperties
<1>4. /\ Len(l) = Len(v) + Len(q)
      /\ \A i \in 1..(Len(v) + Len(q)) : l[i] = IF i <= Len(v) THEN v[i] ELSE q[i - Len(v)]
  <2>1. l = v \o q
    BY <1>3
  <2> QED  BY <1>1, <2>1, ConcatProperties
<1>5. /\ Len(l) = Len(a) + 1 /\ \A i \in 1..Len(a) : l[i] = a[i]
  BY <1>1, <1>3, AppendProperties
<1>6. PICK n \in Nat : n = Len(v) + 1
  BY <1>2
<1>7. l[n] = Sentinel
  <2>1. n \in 1..(Len(v) + Len(q)) /\ ~(n <= Len(v)) /\ n - Len(v) = 1
    BY <1>2, <1>6
  <2> QED  BY <1>2, <1>4, <2>1
<1>8. n = Len(a) + 1
  <2> SUFFICES ASSUME n # Len(a) + 1  PROVE FALSE
    OBVIOUS
  <2>1. n \in 1..Len(a)
    BY <1>2, <1>4, <1>5, <1>6
  <2>2. l[n] \in Row
    BY <1>5, <2>1, ElementOfSeq
  <2> QED  BY <1>7, <2>2, Constants
<1>9. Len(v) = Len(a)
  BY <1>2, <1>6, <1>8
<1>10. ASSUME NEW i \in 1..Len(v)  PROVE v[i] = a[i]
  <2>1. i \in 1..(Len(v) + Len(q)) /\ i <= Len(v) /\ i \in 1..Len(a)
    BY <1>2, <1>9
  <2> QED  BY <1>4, <1>5, <2>1
<1> QED  BY <1>9, <1>10, SeqEqual

-----------------------------------------------------------------------------
(* What the threads do to an encoder.                                      *)

LEMMA EncoderFields ==
  ASSUME NEW x \in EncoderType
  PROVE  /\ x.thread \in {"none", "run", "done", "crashed"} /\ x.queue \in Seq(Item)
         /\ x.stop \in BOOLEAN /\ x.video \in Seq(Row) /\ x.accepted \in Seq(Row)
         /\ x.taken \in Seq(Row) /\ Got(x) \in Seq(Row) /\ Got(x) \in Seq(Item)
         /\ x.file \in {"none", "open", "closed"}
         /\ x.place \in {"temp", "dataset", "cancelled"}
         /\ Len(x.queue) \in Nat /\ x.video \in Seq(Item) /\ x.accepted \in Seq(Item)
<1>1. /\ x.queue \in Seq(Item) /\ x.video \in Seq(Row) /\ x.accepted \in Seq(Row)
      /\ x.taken \in Seq(Row)
  BY DEF EncoderType, Item
<1>2. Got(x) \in Seq(Row)
  BY <1>1, ConcatProperties DEF Got
<1> QED  BY <1>1, <1>2, LenProperties, RowsAreItems DEF EncoderType

\* A frame is accepted.
Accepts(x, y, row) ==
  y = [x EXCEPT !.queue = Append(x.queue, row), !.accepted = Append(x.accepted, row)]

LEMMA AcceptFrame ==
  ASSUME NEW x \in EncoderType, FileOf(x), Feeding(x), x.thread = "run",
         Len(x.queue) < QueueSize, NEW row \in Row, NEW y, Accepts(x, y, row)
  PROVE  /\ y \in EncoderType /\ FileOf(y) /\ Feeding(y) /\ Fed(y)
         /\ Len(y.queue) <= QueueSize /\ y.thread = "run"
<1>1. /\ x.queue \in Seq(Item) /\ Got(x) \in Seq(Row) /\ x.accepted \in Seq(Row)
      /\ x.queue \in Seq(Row) /\ ~x.stop /\ Got(x) \o x.queue = x.accepted
      /\ Len(x.queue) \in Nat /\ row \in Item
  BY EncoderFields DEF Feeding, Item
<1>2. PICK q : q = Append(x.queue, row)
  OBVIOUS
<1>3. PICK a : a = Append(x.accepted, row)
  OBVIOUS
<1>4. q \in Seq(Row) /\ Len(q) = Len(x.queue) + 1
  BY <1>1, <1>2, AppendProperties
<1>5. a \in Seq(Row) /\ a # <<>>
  BY <1>1, <1>3, AppendProperties
<1>6. Got(x) \o q = a
  <2>1. PICK v \in Seq(Row) : v = Got(x)
    BY <1>1
  <2>2. PICK p \in Seq(Row) : p = x.queue
    BY <1>1
  <2>3. v \o Append(p, row) = Append(v \o p, row)
    BY ConcatAppend
  <2>4. Got(x) \o x.queue = x.accepted
    BY <1>1
  <2> QED  BY <1>2, <1>3, <2>1, <2>2, <2>3, <2>4
<1>7. q \in Seq(Row \cup {Sentinel})
  BY <1>4, RowsAreItems DEF Item
<1>8. y = [x EXCEPT !.queue = q, !.accepted = a]
  BY <1>2, <1>3 DEF Accepts
<1>9. /\ y \in EncoderType /\ y.queue = q /\ y.accepted = a /\ y.thread = "run"
      /\ y.stop = x.stop /\ y.video = x.video /\ y.file = x.file /\ y.taken = x.taken
  BY <1>5, <1>7, <1>8 DEF EncoderType
<1>10. Len(y.queue) <= QueueSize
  BY <1>1, <1>4, <1>9, Constants
<1>11. Got(y) = Got(x)
  BY <1>9 DEF Got
<1> QED  BY <1>1, <1>4, <1>5, <1>6, <1>9, <1>10, <1>11 DEF FileOf, Feeding, Fed

\* The sentinel is put.
Finishes(x, y) == y = [x EXCEPT !.queue = Append(x.queue, Sentinel)]

LEMMA AcceptSentinel ==
  ASSUME NEW x \in EncoderType, FileOf(x), Feeding(x), Len(x.queue) < QueueSize,
         NEW y, Finishes(x, y)
  PROVE  /\ y \in EncoderType /\ FileOf(y) /\ Ending(y) /\ (Fed(x) => Fed(y))
         /\ Len(y.queue) <= QueueSize /\ y.thread = x.thread
<1>1. /\ x.queue \in Seq(Item) /\ Got(x) \in Seq(Item) /\ Len(x.queue) \in Nat
      /\ Sentinel \in Item
  BY EncoderFields DEF Item
<1>2. PICK q : q = Append(x.queue, Sentinel)
  OBVIOUS
<1>3. q \in Seq(Item) /\ Len(q) = Len(x.queue) + 1
  BY <1>1, <1>2, AppendProperties
<1>4. Got(x) \o q = Append(Got(x) \o x.queue, Sentinel)
  <2>1. PICK v \in Seq(Item) : v = Got(x)
    BY <1>1
  <2>2. PICK p \in Seq(Item) : p = x.queue
    BY <1>1
  <2>3. PICK r \in Item : r = Sentinel
    BY <1>1
  <2>4. v \o Append(p, r) = Append(v \o p, r)
    BY ConcatAppend
  <2> QED  BY <1>2, <2>1, <2>2, <2>3, <2>4
<1>5. y = [x EXCEPT !.queue = q]
  BY <1>2 DEF Finishes
<1>6. /\ y \in EncoderType /\ y.queue = q /\ y.accepted = x.accepted /\ y.thread = x.thread
      /\ y.stop = x.stop /\ y.video = x.video /\ y.file = x.file /\ y.taken = x.taken
  BY <1>3, <1>5 DEF EncoderType, Item
<1>7. Len(y.queue) <= QueueSize
  BY <1>1, <1>3, <1>6, Constants
<1>8. Got(y) = Got(x)
  BY <1>6 DEF Got
<1> QED  BY <1>4, <1>6, <1>7, <1>8 DEF FileOf, Feeding, Ending, Fed

\* What every step of a running thread keeps.
Advances(x, y) ==
  /\ y \in EncoderType /\ FileOf(y) /\ Len(y.queue) <= QueueSize
  /\ y.accepted = x.accepted
  /\ Feeding(x) => Feeding(y)
  /\ Ending(x) => Ending(y)

\* The thread takes a frame from the queue.
Takes(x, y) ==
  y = [x EXCEPT !.queue = Tail(x.queue), !.taken = <<Head(x.queue)>>]

LEMMA TakeAdvances ==
  ASSUME NEW x \in EncoderType, x.thread = "run", Len(x.queue) <= QueueSize, FileOf(x),
         x.taken = <<>>, x.queue # <<>>, Head(x.queue) # Sentinel, NEW y, Takes(x, y)
  PROVE  Advances(x, y)
<1>1. /\ x.queue \in Seq(Item) /\ x.video \in Seq(Row) /\ x.video \in Seq(Item)
      /\ Len(x.queue) \in Nat
  BY EncoderFields
<1>2. PICK q : q = Tail(x.queue)
  OBVIOUS
<1>3. PICK h : h = Head(x.queue)
  OBVIOUS
<1>4. q \in Seq(Item) /\ Len(q) = Len(x.queue) - 1 /\ h \in Item
  BY <1>1, <1>2, <1>3, HeadTailProperties
<1>5. h \in Row
  BY <1>3, <1>4 DEF Item
<1>6. PICK t \in Seq(Row) : t = <<h>>
  <2>1. <<>> \in Seq(Row) /\ Append(<<>>, h) = <<h>>
    BY EmptySeq
  <2> QED  BY <1>5, <2>1, AppendProperties
<1>7. y = [x EXCEPT !.queue = q, !.taken = t]
  BY <1>2, <1>3, <1>6 DEF Takes
<1>8. /\ y \in EncoderType /\ y.queue = q /\ y.accepted = x.accepted /\ y.thread = "run"
      /\ y.stop = x.stop /\ y.video = x.video /\ y.file = x.file /\ y.taken = t
  BY <1>4, <1>6, <1>7 DEF EncoderType, Item
<1>9. Len(y.queue) <= QueueSize
  BY <1>1, <1>4, <1>8, Constants
<1>10. Got(y) \o q = Got(x) \o x.queue
  <2>1. Got(x) = x.video
    BY <1>1, ConcatEmptySeq DEF Got
  <2>2. Got(y) = Append(x.video, h)
    <3>1. Got(y) = x.video \o <<h>>
      BY <1>6, <1>8 DEF Got
    <3> QED  BY <1>1, <1>5, <3>1, AppendIsConcat
  <2>3. Append(x.video, Head(x.queue)) \o Tail(x.queue) = x.video \o x.queue
    BY <1>1, ConcatHead
  <2> QED  BY <1>2, <1>3, <2>1, <2>2, <2>3
<1>11. Feeding(x) => q \in Seq(Row)
  <2> SUFFICES ASSUME Feeding(x)  PROVE q \in Seq(Row)
    OBVIOUS
  <2>1. x.queue \in Seq(Row)
    BY DEF Feeding
  <2> QED  BY <1>2, <2>1, HeadTailProperties
<1> QED  BY <1>8, <1>9, <1>10, <1>11 DEF Advances, FileOf, Feeding, Ending

\* The frame taken is encoded.
Encodes(x, y) ==
  y = [x EXCEPT !.taken = <<>>, !.video = x.video \o x.taken, !.file = "open",
                !.place = PlaceOf(x, "open")]

LEMMA PlaceFields ==
  ASSUME NEW x \in EncoderType, NEW file
  PROVE  PlaceOf(x, file) \in {"temp", "dataset", "cancelled"}
BY EncoderFields DEF PlaceOf

LEMMA EncodeAdvances ==
  ASSUME NEW x \in EncoderType, x.thread = "run", Len(x.queue) <= QueueSize,
         NEW y, Encodes(x, y)
  PROVE  Advances(x, y)
<1>1. PICK v \in Seq(Row) : v = x.video \o x.taken
  BY EncoderFields, ConcatProperties
<1>2. PICK nothing \in Seq(Row) : nothing = <<>>
  BY EmptySeq
<1>3. PICK p \in {"temp", "dataset", "cancelled"} : p = PlaceOf(x, "open")
  BY PlaceFields
<1>4. y = [x EXCEPT !.taken = nothing, !.video = v, !.file = "open", !.place = p]
  BY <1>1, <1>2, <1>3 DEF Encodes
<1>5. /\ y \in EncoderType /\ y.queue = x.queue /\ y.accepted = x.accepted
      /\ y.thread = "run" /\ y.stop = x.stop /\ y.video = v /\ y.file = "open"
      /\ y.taken = nothing
  BY <1>4 DEF EncoderType
<1>6. Got(y) = Got(x)
  <2>1. Got(y) = v \o nothing
    BY <1>5 DEF Got
  <2>2. v \o nothing = v
    BY <1>1, <1>2, ConcatEmptySeq
  <2> QED  BY <1>1, <2>1, <2>2 DEF Got
<1> QED  BY <1>5, <1>6 DEF Advances, FileOf, Feeding, Ending

\* While frames are accepted, the thread does not end.
LEMMA FeedingGoesOn ==
  ASSUME NEW x \in EncoderType, x.thread = "run", Feeding(x)
  PROVE  ~EndsNow(x)
<1> SUFFICES ASSUME EndsNow(x)  PROVE FALSE
  OBVIOUS
<1>1. x.queue \in Seq(Row) /\ ~x.stop
  BY DEF Feeding
<1>2. x.queue # <<>> /\ Head(x.queue) = Sentinel
  BY <1>1 DEF EndsNow
<1>3. Head(x.queue) \in Row
  BY <1>1, <1>2, HeadTailProperties
<1> QED  BY <1>2, <1>3, Constants

\* The thread ends.
Closes(x, y) ==
  y = [x EXCEPT !.queue = IF x.queue = <<>> THEN <<>> ELSE Tail(x.queue), !.thread = "done",
                !.file = IF x.file = "open" THEN "closed" ELSE x.file]

LEMMA CloseAdvances ==
  ASSUME NEW x \in EncoderType, x.thread = "run", Len(x.queue) <= QueueSize, FileOf(x),
         x.taken = <<>>, EndsNow(x), NEW y, Closes(x, y)
  PROVE  Advances(x, y)
<1>1. /\ x.queue \in Seq(Item) /\ x.video \in Seq(Row) /\ x.accepted \in Seq(Row)
      /\ Len(x.queue) \in Nat
  BY EncoderFields
<1>2. PICK q : q = IF x.queue = <<>> THEN <<>> ELSE Tail(x.queue)
  OBVIOUS
<1>3. q \in Seq(Item) /\ Len(q) <= Len(x.queue) /\ Len(q) \in Nat
  <2>1. CASE x.queue = <<>>
    BY <1>1, <1>2, <2>1
  <2>2. CASE x.queue # <<>>
    <3>1. q \in Seq(Item) /\ Len(q) = Len(x.queue) - 1
      BY <1>1, <1>2, <2>2, HeadTailProperties
    <3> QED  BY <1>1, <3>1, LenProperties
  <2> QED  BY <2>1, <2>2
<1>4. PICK f : f = IF x.file = "open" THEN "closed" ELSE x.file
  OBVIOUS
<1>5. f \in {"none", "closed"} /\ (f = "none" <=> x.file = "none")
  BY <1>4, EncoderFields
<1>6. y = [x EXCEPT !.queue = q, !.thread = "done", !.file = f]
  BY <1>2, <1>4 DEF Closes
<1>7. /\ y \in EncoderType /\ y.queue = q /\ y.accepted = x.accepted /\ y.thread = "done"
      /\ y.stop = x.stop /\ y.video = x.video /\ y.file = f
  BY <1>3, <1>5, <1>6 DEF EncoderType, Item
<1>8. Len(y.queue) <= QueueSize
  BY <1>1, <1>3, <1>7, Constants
<1>9. ~Feeding(x)
  BY FeedingGoesOn
<1>10. Ending(x) => x.video = x.accepted
  <2> SUFFICES ASSUME Ending(x)  PROVE x.video = x.accepted
    OBVIOUS
  <2>1. ~x.stop /\ Got(x) \o x.queue = Append(x.accepted, Sentinel) /\ Got(x) = x.video
    BY <1>1, ConcatEmptySeq DEF Ending, Got
  <2>2. x.queue # <<>> /\ Head(x.queue) = Sentinel
    BY <2>1 DEF EndsNow
  <2> QED  BY <1>1, <2>1, <2>2, ConcatLast
<1> QED  BY <1>5, <1>7, <1>8, <1>9, <1>10 DEF Advances, FileOf, Ending

\* The thread crashes.
Crashes(x, y) ==
  /\ y \in EncoderType /\ y.thread = "crashed" /\ Len(y.queue) <= QueueSize
  /\ y.accepted = x.accepted /\ y.video = x.video /\ (y.file = "none" => x.file = "none")

LEMMA CrashAdvances ==
  ASSUME NEW x \in EncoderType, FileOf(x), NEW y, Crashes(x, y)
  PROVE  Advances(x, y)
BY DEF Crashes, Advances, FileOf, Feeding, Ending

\* It crashes with the frame that it has taken, or at its end.
EncodeBreaks(x, y, file) ==
  y = [x EXCEPT !.taken = <<>>, !.thread = "crashed", !.file = file,
                !.place = PlaceOf(x, file)]
FlushBreaks(x, y, file) ==
  y = [x EXCEPT !.queue = IF x.queue = <<>> THEN <<>> ELSE Tail(x.queue),
                !.thread = "crashed", !.file = file]

LEMMA EncodeCrashes ==
  ASSUME NEW x \in EncoderType, Len(x.queue) <= QueueSize,
         NEW file \in {x.file, "open", "closed"}, NEW y, EncodeBreaks(x, y, file)
  PROVE  Crashes(x, y)
<1>1. PICK nothing \in Seq(Row) : nothing = <<>>
  BY EmptySeq
<1>2. PICK p \in {"temp", "dataset", "cancelled"} : p = PlaceOf(x, file)
  BY PlaceFields
<1>3. file \in {"none", "open", "closed"} /\ (file = "none" => x.file = "none")
  BY EncoderFields
<1>4. y = [x EXCEPT !.taken = nothing, !.thread = "crashed", !.file = file, !.place = p]
  BY <1>1, <1>2 DEF EncodeBreaks
<1>5. /\ y \in EncoderType /\ y.queue = x.queue /\ y.accepted = x.accepted
      /\ y.thread = "crashed" /\ y.video = x.video /\ y.file = file
  BY <1>3, <1>4 DEF EncoderType
<1> QED  BY <1>3, <1>5 DEF Crashes

LEMMA FlushCrashes ==
  ASSUME NEW x \in EncoderType, Len(x.queue) <= QueueSize,
         NEW file \in {"open", "closed"}, NEW y, FlushBreaks(x, y, file)
  PROVE  Crashes(x, y)
<1>1. x.queue \in Seq(Item) /\ Len(x.queue) \in Nat
  BY EncoderFields
<1>2. PICK q : q = IF x.queue = <<>> THEN <<>> ELSE Tail(x.queue)
  OBVIOUS
<1>3. q \in Seq(Item) /\ Len(q) <= Len(x.queue) /\ Len(q) \in Nat
  <2>1. CASE x.queue = <<>>
    BY <1>1, <1>2, <2>1
  <2>2. CASE x.queue # <<>>
    <3>1. q \in Seq(Item) /\ Len(q) = Len(x.queue) - 1
      BY <1>1, <1>2, <2>2, HeadTailProperties
    <3> QED  BY <1>1, <3>1, LenProperties
  <2> QED  BY <2>1, <2>2
<1>4. y = [x EXCEPT !.queue = q, !.thread = "crashed", !.file = file]
  BY <1>2 DEF FlushBreaks
<1>5. /\ y \in EncoderType /\ y.queue = q /\ y.accepted = x.accepted
      /\ y.thread = "crashed" /\ y.video = x.video /\ y.file = file
  BY <1>3, <1>4 DEF EncoderType, Item
<1>6. Len(y.queue) <= QueueSize
  BY <1>1, <1>3, <1>5, Constants
<1> QED  BY <1>5, <1>6 DEF Crashes

-----------------------------------------------------------------------------
(* The encoder threads.                                                    *)

\* One encoder changes.
LEMMA OneEncoder ==
  ASSUME enc \in [Episode -> [Key -> EncoderType]], NEW e \in Episode, NEW k \in Key,
         NEW y \in EncoderType, Set(e, k, y)
  PROVE  /\ enc' \in [Episode -> [Key -> EncoderType]]
         /\ enc'[e][k] = y
         /\ \A f \in Episode, j \in Key : f # e \/ j # k => enc'[f][j] = enc[f][j]
<1>1. PICK row \in [Key -> EncoderType] : row = [enc[e] EXCEPT ![k] = y]
  OBVIOUS
<1>2. enc' = [enc EXCEPT ![e] = row]
  BY <1>1 DEF Set
<1>3. row[k] = y /\ \A j \in Key : j # k => row[j] = enc[e][j]
  BY <1>1
<1> QED  BY <1>1, <1>2, <1>3

LEMMA ThreadStep ==
  ASSUME IInv, NEW e \in Episode, NEW k \in Key, NEW y, enc[e][k].thread = "run",
         Advances(enc[e][k], y), ~(Fresh(enc[e][k]) /\ Feeding(enc[e][k])), Set(e, k, y),
         main' = main, saved' = saved, faults' \in [crashes : Nat, timeouts : Nat],
         faults'.timeouts = faults.timeouts
  PROVE  IInv'
<1>1. Types /\ Control /\ \A f \in Episode, j \in Key : EncoderInv(f, j)
  BY DEF IInv
<1>2. /\ enc \in [Episode -> [Key -> EncoderType]] /\ enc[e][k] \in EncoderType
      /\ y \in EncoderType
  BY <1>1 DEF Types, Advances
<1>3. /\ enc' \in [Episode -> [Key -> EncoderType]]
      /\ enc'[e][k] = y
      /\ \A f \in Episode, j \in Key : f # e \/ j # k => enc'[f][j] = enc[f][j]
  BY <1>2, OneEncoder
<1>4. Types'
  <2>1. ASSUME NEW f \in Episode, NEW j \in Key  PROVE Len(enc'[f][j].queue) <= QueueSize
    <3>1. CASE f = e /\ j = k
      BY <1>3, <3>1 DEF Advances
    <3>2. CASE f # e \/ j # k
      BY <1>1, <1>3, <3>2 DEF Types
    <3> QED  BY <3>1, <3>2
  <2> QED  BY <1>1, <1>3, <2>1 DEF Types
<1>5. Control'
  BY <1>1 DEF Control
<1>6. ASSUME NEW f \in Episode, NEW j \in Key  PROVE EncoderInv(f, j)'
  <2>1. CASE f # e \/ j # k
    <3>1. enc'[f][j] = enc[f][j] /\ EncoderInv(f, j)
      BY <1>1, <1>3, <2>1
    <3> QED  BY <3>1 DEF EncoderInv, Current, LeftBehind, OnTime
  <2>2. CASE f = e /\ j = k
    <3>1. PICK x \in EncoderType : x = enc[e][k]
      BY <1>2
    <3>2. /\ x.thread = "run" /\ Advances(x, y) /\ ~(Fresh(x) /\ Feeding(x))
          /\ ~Over(x) /\ ~Ended(x)
      BY <3>1 DEF Over, Ended
    <3>3. FileOf(y) /\ (Feeding(x) => Feeding(y)) /\ (Ending(x) => Ending(y))
          /\ (Fed(x) => Fed(y))
      BY <3>2 DEF Advances, Fed
    <3>4. /\ e \in saved => ~OnTime(e, k)
          /\ e = main.episode => Current(e, k)
          /\ faults.timeouts = 0 => ~LeftBehind(e, k)
      BY <1>1, <3>1, <3>2 DEF EncoderInv
    <3>5. e = main.episode => Current(e, k)'
      BY <1>3, <3>1, <3>2, <3>3, <3>4 DEF Current, OnTime
    <3>6. /\ e \in saved' => ~OnTime(e, k)'
          /\ faults'.timeouts = 0 => ~LeftBehind(e, k)'
      BY <3>4 DEF LeftBehind, OnTime
    <3> QED  BY <1>3, <2>2, <3>3, <3>5, <3>6 DEF EncoderInv
  <2> QED  BY <2>1, <2>2
<1> QED  BY <1>4, <1>5, <1>6 DEF IInv

LEMMA TakeFrameKeeps ==
  ASSUME IInv, NEW e \in Episode, NEW k \in Key, TakeFrame(e, k)
  PROVE  IInv'
<1>1. PICK x \in EncoderType : x = enc[e][k]
  BY DEF IInv, Types
<1>2. PICK y : Takes(x, y)
  BY DEF Takes
<1>3. Set(e, k, y)
  BY <1>1, <1>2 DEF TakeFrame, Takes
<1>4. /\ x.thread = "run" /\ x.taken = <<>> /\ x.queue # <<>>
      /\ Head(x.queue) # Sentinel
  BY <1>1 DEF TakeFrame, Running
<1>5. Len(x.queue) <= QueueSize /\ FileOf(x)
  BY <1>1 DEF IInv, Types, EncoderInv
<1>6. Advances(x, y)
  BY <1>2, <1>4, <1>5, TakeAdvances
<1>7. ~Fresh(x)
  BY <1>4 DEF Fresh
<1>8. main' = main /\ saved' = saved /\ faults' = faults
      /\ faults \in [crashes : Nat, timeouts : Nat]
  BY DEF TakeFrame, IInv, Types
<1> QED  BY <1>1, <1>3, <1>4, <1>6, <1>7, <1>8, ThreadStep

LEMMA EncodeFrameKeeps ==
  ASSUME IInv, NEW e \in Episode, NEW k \in Key, EncodeFrame(e, k)
  PROVE  IInv'
<1>1. PICK x \in EncoderType : x = enc[e][k]
  BY DEF IInv, Types
<1>2. PICK y : Encodes(x, y)
  BY DEF Encodes
<1>3. Set(e, k, y)
  BY <1>1, <1>2 DEF EncodeFrame, Encodes
<1>4. x.thread = "run" /\ x.taken # <<>>
  BY <1>1 DEF EncodeFrame, Running
<1>5. Len(x.queue) <= QueueSize
  BY <1>1 DEF IInv, Types
<1>6. Advances(x, y)
  BY <1>2, <1>4, <1>5, EncodeAdvances
<1>7. ~Fresh(x)
  BY <1>4 DEF Fresh
<1>8. main' = main /\ saved' = saved /\ faults' = faults
      /\ faults \in [crashes : Nat, timeouts : Nat]
  BY DEF EncodeFrame, IInv, Types
<1> QED  BY <1>1, <1>3, <1>4, <1>6, <1>7, <1>8, ThreadStep

LEMMA FlushAndCloseKeeps ==
  ASSUME IInv, NEW e \in Episode, NEW k \in Key, FlushAndClose(e, k)
  PROVE  IInv'
<1>1. PICK x \in EncoderType : x = enc[e][k]
  BY DEF IInv, Types
<1>2. PICK y : Closes(x, y)
  BY DEF Closes
<1>3. Set(e, k, y)
  BY <1>1, <1>2 DEF FlushAndClose, Closes
<1>4. x.thread = "run" /\ x.taken = <<>> /\ EndsNow(x)
  BY <1>1 DEF FlushAndClose, Running
<1>5. Len(x.queue) <= QueueSize /\ FileOf(x)
  BY <1>1 DEF IInv, Types, EncoderInv
<1>6. Advances(x, y)
  BY <1>2, <1>4, <1>5, CloseAdvances
<1>7. ~Feeding(x)
  BY <1>4, FeedingGoesOn
<1>8. main' = main /\ saved' = saved /\ faults' = faults
      /\ faults \in [crashes : Nat, timeouts : Nat]
  BY DEF FlushAndClose, IInv, Types
<1> QED  BY <1>1, <1>3, <1>4, <1>6, <1>7, <1>8, ThreadStep

LEMMA CrashKeeps ==
  ASSUME IInv, NEW e \in Episode, NEW k \in Key, Crash(e, k)
  PROVE  IInv'
<1>1. PICK x \in EncoderType : x = enc[e][k]
  BY DEF IInv, Types
<1>2. x.thread = "run" /\ Len(x.queue) <= QueueSize /\ FileOf(x)
  BY <1>1 DEF Crash, Running, IInv, Types, EncoderInv
<1>3. PICK y : Set(e, k, y) /\ Crashes(x, y) /\ ~(Fresh(x) /\ Feeding(x))
  <2>1. CASE EncodeFails(e, k)
    <3>1. PICK file \in {x.file, "open", "closed"} :
            Set(e, k, [x EXCEPT !.taken = <<>>, !.thread = "crashed", !.file = file,
                                !.place = PlaceOf(x, file)])
      BY <1>1, <2>1 DEF EncodeFails
    <3>2. PICK y : EncodeBreaks(x, y, file)
      BY DEF EncodeBreaks
    <3>3. Set(e, k, y)
      BY <3>1, <3>2 DEF EncodeBreaks
    <3>4. Crashes(x, y)
      BY <1>2, <3>1, <3>2, EncodeCrashes
    <3>5. ~Fresh(x)
      BY <1>1, <2>1 DEF EncodeFails, Fresh
    <3> QED  BY <3>3, <3>4, <3>5
  <2>2. CASE FlushFails(e, k)
    <3>1. PICK file \in {"open", "closed"} :
            Set(e, k, [x EXCEPT !.queue = IF @ = <<>> THEN @ ELSE Tail(@),
                                !.thread = "crashed", !.file = file])
      BY <1>1, <2>2 DEF FlushFails
    <3>2. PICK y : FlushBreaks(x, y, file)
      BY DEF FlushBreaks
    <3>3. Set(e, k, y)
      BY <3>1, <3>2 DEF FlushBreaks
    <3>4. Crashes(x, y)
      BY <1>2, <3>1, <3>2, FlushCrashes
    <3>5. EndsNow(x)
      BY <1>1, <2>2 DEF FlushFails
    <3>6. ~Feeding(x)
      BY <1>2, <3>5, FeedingGoesOn
    <3> QED  BY <3>3, <3>4, <3>6
  <2> QED  BY <2>1, <2>2 DEF Crash
<1>4. Advances(x, y)
  BY <1>2, <1>3, CrashAdvances
<1>5. /\ main' = main /\ saved' = saved
      /\ faults' = [faults EXCEPT !.crashes = @ + 1]
      /\ faults \in [crashes : Nat, timeouts : Nat]
  BY DEF Crash, IInv, Types
<1>6. faults' \in [crashes : Nat, timeouts : Nat] /\ faults'.timeouts = faults.timeouts
  BY <1>5
<1> QED  BY <1>1, <1>2, <1>3, <1>4, <1>5, <1>6, ThreadStep

-----------------------------------------------------------------------------
(* The main thread.                                                        *)

PC == {"next", "feed", "sentinel", "join", "drain", "video", "cancel", "cancelJoin", "ended"}

LEMMA MainFields ==
  ASSUME IInv
  PROVE  /\ main \in MainType /\ main.pc \in PC /\ main.key \in Key /\ main.key \in Nat
         /\ main.active \in BOOLEAN /\ main.then \in {"next", "video", "ended"}
         /\ main.episode \in 0..MaxEpisodes /\ main.episode \in Nat
         /\ main.rows \in 0..MaxRows /\ main.rows \in Nat
         /\ main.late \in SUBSET (Episode \X Key)
         /\ Key = 1..Cameras /\ Cameras \in Nat /\ Cameras >= 1
BY Constants DEF IInv, Types, MainType, PC, Key

\* The main thread goes on to the next key or the next phase.
Proceeds(m, pc) == m = Proceed(pc)

LEMMA ProceedFields ==
  ASSUME IInv, NEW pc \in PC, NEW m, Proceeds(m, pc)
  PROVE  /\ m \in MainType /\ m.active = main.active /\ m.then = main.then
         /\ m.episode = main.episode /\ m.rows = main.rows /\ m.late = main.late
         /\ main.key < Cameras => m.key = main.key + 1 /\ m.pc = main.pc
         /\ ~(main.key < Cameras) => main.key = Cameras /\ m.key = 1 /\ m.pc = pc
<1>1. /\ main \in MainType /\ main.key \in Nat /\ main.key \in 1..Cameras /\ Cameras \in Nat
      /\ Key = 1..Cameras /\ 1 \in Key /\ pc \in PC
  BY MainFields, Constants
<1>2. CASE main.key < Cameras
  <2>1. PICK k \in Key : k = main.key + 1
    BY <1>1, <1>2
  <2>2. m = [main EXCEPT !.key = k]
    BY <1>2, <2>1 DEF Proceeds, Proceed
  <2> QED  BY <1>1, <1>2, <2>1, <2>2 DEF MainType
<1>3. CASE ~(main.key < Cameras)
  <2>1. m = [main EXCEPT !.key = 1, !.pc = pc]
    BY <1>3 DEF Proceeds, Proceed
  <2>2. main.key = Cameras
    BY <1>1, <1>3
  <2> QED  BY <1>1, <1>3, <2>1, <2>2 DEF MainType, PC
<1> QED  BY <1>2, <1>3

\* The main thread's step to the next key or phase.
Steps(pc) == Proceeds(main', pc)

LEMMA StepFields ==
  ASSUME IInv, NEW pc \in PC, Steps(pc)
  PROVE  /\ main' \in MainType /\ main'.active = main.active /\ main'.then = main.then
         /\ main'.episode = main.episode /\ main'.rows = main.rows /\ main'.late = main.late
         /\ main.key < Cameras => main'.key = main.key + 1 /\ main'.pc = main.pc
         /\ ~(main.key < Cameras) => main.key = Cameras /\ main'.key = 1 /\ main'.pc = pc
<1>1. PICK m : m = main'
  OBVIOUS
<1>2. Proceeds(m, pc)
  BY <1>1 DEF Steps
<1>3. /\ m \in MainType /\ m.active = main.active /\ m.then = main.then
      /\ m.episode = main.episode /\ m.rows = main.rows /\ m.late = main.late
      /\ main.key < Cameras => m.key = main.key + 1 /\ m.pc = main.pc
      /\ ~(main.key < Cameras) => main.key = Cameras /\ m.key = 1 /\ m.pc = pc
  BY <1>2, ProceedFields
<1> QED  BY <1>1, <1>3

\* A step of the main thread within an episode.
LEMMA EpisodeStep ==
  ASSUME IInv, NEW e \in Episode, main.episode = e, main'.episode = e, main' \in MainType,
         Control', main.late \subseteq main'.late,
         saved' \subseteq saved \cup {e},
         faults' \in [crashes : Nat, timeouts : Nat],
         faults'.timeouts = 0 => faults.timeouts = 0,
         enc' \in [Episode -> [Key -> EncoderType]],
         \A f \in Episode, j \in Key : f # e => enc'[f][j] = enc[f][j],
         \A j \in Key : Len(enc'[e][j].queue) <= QueueSize,
         \A j \in Key : EncoderInv(e, j)'
  PROVE  IInv'
<1>1. Types /\ Control /\ \A f \in Episode, j \in Key : EncoderInv(f, j)
  BY DEF IInv
<1>2. Types'
  <2>1. saved' \subseteq 1..main'.episode
    <3>1. saved \subseteq 1..e
      BY <1>1 DEF Types
    <3>2. e \in 1..e
      BY Constants DEF Episode
    <3> QED  BY <3>1, <3>2
  <2>2. ASSUME NEW f \in Episode, NEW j \in Key  PROVE Len(enc'[f][j].queue) <= QueueSize
    <3>1. CASE f = e
      BY <3>1
    <3>2. CASE f # e
      BY <1>1, <3>2 DEF Types
    <3> QED  BY <3>1, <3>2
  <2> QED  BY <2>1, <2>2 DEF Types
<1>3. ASSUME NEW f \in Episode, NEW j \in Key  PROVE EncoderInv(f, j)'
  <2>1. CASE f = e
    BY <2>1
  <2>2. CASE f # e
    <3>1. PICK x : x = enc[f][j] /\ x = enc'[f][j]
      BY <2>2
    <3>2. /\ FileOf(x)
          /\ f \in saved /\ OnTime(f, j) => Ended(x)
          /\ faults.timeouts = 0 /\ LeftBehind(f, j) => Over(x)
      BY <1>1, <3>1 DEF EncoderInv
    <3>3. LeftBehind(f, j) /\ (f \in saved' => f \in saved) /\ (OnTime(f, j)' => OnTime(f, j))
      BY <2>2 DEF LeftBehind, OnTime
    <3>4. f # main'.episode
      BY <2>2
    <3> QED  BY <3>1, <3>2, <3>3, <3>4 DEF EncoderInv
  <2> QED  BY <2>1, <2>2
<1> QED  BY <1>2, <1>3 DEF IInv

\* A step that changes the encoder of the main thread's key.
LEMMA MineStep ==
  ASSUME IInv, NEW e \in Episode, NEW k \in Key, main.episode = e, main.key = k,
         main'.episode = e, main' \in MainType,
         Control', main.late \subseteq main'.late,
         saved' \subseteq saved \cup {e},
         faults' \in [crashes : Nat, timeouts : Nat],
         faults'.timeouts = 0 => faults.timeouts = 0,
         NEW y \in EncoderType, Len(y.queue) <= QueueSize,
         SetMine(y) \/ (enc' = enc /\ y = enc[e][k]),
         \A j \in Key : enc'[e][j] = (IF j = k THEN y ELSE enc[e][j]) => EncoderInv(e, j)'
  PROVE  IInv'
<1>1. Types
  BY DEF IInv
<1>2. /\ enc' \in [Episode -> [Key -> EncoderType]]
      /\ enc'[e][k] = y
      /\ \A f \in Episode, j \in Key : f # e \/ j # k => enc'[f][j] = enc[f][j]
  <2>1. enc \in [Episode -> [Key -> EncoderType]]
    BY <1>1 DEF Types
  <2>2. CASE SetMine(y)
    <3>1. Set(e, k, y)
      BY <2>2 DEF SetMine
    <3> QED  BY <2>1, <3>1, OneEncoder
  <2>3. CASE enc' = enc /\ y = enc[e][k]
    BY <2>1, <2>3
  <2> QED  BY <2>2, <2>3
<1>3. ASSUME NEW j \in Key  PROVE Len(enc'[e][j].queue) <= QueueSize /\ EncoderInv(e, j)'
  <2>1. CASE j = k
    BY <1>2, <2>1
  <2>2. CASE j # k
    BY <1>1, <1>2, <2>2 DEF Types
  <2> QED  BY <2>1, <2>2
<1> QED  BY <1>2, <1>3, EpisodeStep

\* What is known of an encoder.
LEMMA EncoderFacts ==
  ASSUME IInv, NEW e \in Episode, NEW k \in Key
  PROVE  /\ enc[e][k] \in EncoderType /\ Len(enc[e][k].queue) <= QueueSize
         /\ FileOf(enc[e][k])
         /\ e \in saved /\ OnTime(e, k) => Ended(enc[e][k])
         /\ e = main.episode => Current(e, k)
         /\ faults.timeouts = 0 /\ LeftBehind(e, k) => Over(enc[e][k])
<1>1. Types /\ EncoderInv(e, k)
  BY DEF IInv
<1> QED  BY <1>1 DEF Types, EncoderInv

LEMMA MineFields ==
  ASSUME IInv, main.pc \in InEpisode \cup {"video"} \/ main.active
  PROVE  /\ main.episode \in Episode /\ main.key \in Key
         /\ Mine = enc[main.episode][main.key]
         /\ Mine \in EncoderType /\ Len(Mine.queue) <= QueueSize /\ FileOf(Mine)
         /\ Current(main.episode, main.key)
         /\ saved' \subseteq saved => saved' \subseteq saved \cup {main.episode}
<1>1. main.episode \in Episode /\ main.key \in Key
  BY MainFields DEF IInv, Control
<1> QED  BY <1>1, EncoderFacts DEF Mine

\* What an exception does.
Raises(m) == m = Raised

LEMMA RaisedFields ==
  ASSUME IInv, NEW m, Raises(m)
  PROVE  /\ m \in MainType /\ m.active = main.active
         /\ m.episode = main.episode /\ m.rows = main.rows /\ m.late = main.late
         /\ main.active => m.pc = "cancel" /\ m.key = 1 /\ m.then = "ended"
         /\ ~main.active => m.pc = "ended" /\ m.then = "ended"
<1>1. main \in MainType /\ 1 \in Key
  BY MainFields, Constants
<1>2. CASE main.active
  <2>1. m = [main EXCEPT !.pc = "cancel", !.key = 1, !.then = "ended"]
    BY <1>2 DEF Raises, Raised
  <2> QED  BY <1>1, <1>2, <2>1 DEF MainType
<1>3. CASE ~main.active
  <2>1. m = [main EXCEPT !.pc = "ended", !.then = "ended"]
    BY <1>3 DEF Raises, Raised
  <2> QED  BY <1>1, <1>3, <2>1 DEF MainType
<1> QED  BY <1>2, <1>3

LEMMA RaisedKeeps ==
  ASSUME IInv, Raises(main'), enc' = enc, saved' = saved, faults' = faults,
         ~main.active /\ faults.timeouts = 0 =>
           \A e \in Episode, k \in Key : LeftBehind(e, k)
  PROVE  IInv'
<1>1. Types /\ Control
  BY DEF IInv
<1>2. /\ main' \in MainType /\ main'.active = main.active
      /\ main'.episode = main.episode /\ main'.rows = main.rows /\ main'.late = main.late
      /\ main.active => main'.pc = "cancel" /\ main'.key = 1 /\ main'.then = "ended"
      /\ ~main.active => main'.pc = "ended" /\ main'.then = "ended"
  <2>1. PICK m : m = main'
    OBVIOUS
  <2>2. Raises(m)
    BY <2>1
  <2>3. /\ m \in MainType /\ m.active = main.active
        /\ m.episode = main.episode /\ m.rows = main.rows /\ m.late = main.late
        /\ main.active => m.pc = "cancel" /\ m.key = 1 /\ m.then = "ended"
        /\ ~main.active => m.pc = "ended" /\ m.then = "ended"
    BY <2>2, RaisedFields
  <2> QED  BY <2>1, <2>3
<1>3. Types'
  BY <1>1, <1>2 DEF Types
<1>4. Control'
  BY <1>1, <1>2 DEF Control, InEpisode
<1>5. ASSUME NEW e \in Episode, NEW k \in Key  PROVE EncoderInv(e, k)'
  <2>1. PICK x : x = enc[e][k] /\ x = enc'[e][k]
    OBVIOUS
  <2>2. /\ FileOf(x)
        /\ e \in saved /\ OnTime(e, k) => Ended(x)
        /\ faults.timeouts = 0 /\ LeftBehind(e, k) => Over(x)
    BY <2>1, EncoderFacts
  <2>3. Current(e, k)'
    BY <1>2, MainFields DEF Current
  <2>4. faults.timeouts = 0 /\ LeftBehind(e, k)' => LeftBehind(e, k)
    <3>1. CASE main.active
      BY <1>2, <3>1, MainFields DEF LeftBehind
    <3>2. CASE ~main.active
      BY <3>2
    <3> QED  BY <3>1, <3>2
  <2>5. OnTime(e, k)' <=> OnTime(e, k)
    BY <1>2 DEF OnTime
  <2> QED  BY <2>1, <2>2, <2>3, <2>4, <2>5 DEF EncoderInv
<1> QED  BY <1>3, <1>4, <1>5 DEF IInv

LEMMA RaiseKeeps ==
  ASSUME IInv, Raise
  PROVE  IInv'
<1>1. ASSUME ~main.active, NEW e \in Episode, NEW k \in Key  PROVE LeftBehind(e, k)
  BY <1>1 DEF Raise, LeftBehind
<1> QED  BY <1>1, RaisedKeeps DEF Raise, Raises

\* Saving or cancelling an episode begins.
LEMMA BeginKeeps ==
  ASSUME IInv, SaveEpisode \/ Rerecord
  PROVE  IInv'
<1>1. Types /\ Control /\ main.pc = "next" /\ main.active
      /\ enc' = enc /\ saved' = saved /\ faults' = faults
  BY DEF SaveEpisode, Rerecord, IInv
<1>2. PICK e \in Episode : e = main.episode
  BY <1>1, MineFields
<1>3. /\ main' \in MainType /\ main'.active = main.active /\ main'.key = 1
      /\ main'.episode = main.episode /\ main'.rows = main.rows /\ main'.late = main.late
      /\ \/ main'.pc = "sentinel" /\ main'.then = "video"
         \/ main'.pc = "cancel" /\ main'.then = "next"
  BY MainFields, Constants DEF SaveEpisode, Rerecord, MainType
<1>4. Control'
  BY <1>1, <1>3 DEF Control, InEpisode
<1>5. ASSUME NEW k \in Key  PROVE EncoderInv(e, k)'
  <2>1. PICK x : x = enc[e][k] /\ x = enc'[e][k]
    BY <1>1
  <2>2. /\ FileOf(x) /\ Current(e, k)
        /\ e \in saved /\ OnTime(e, k) => Ended(x)
    BY <1>2, <2>1, EncoderFacts
  <2>3. Feeding(x) /\ Fed(x)
    BY <1>1, <2>1, <2>2 DEF Current
  <2>4. ~(k < 1)
    BY MainFields
  <2>5. Current(e, k)'
    BY <1>3, <2>1, <2>3, <2>4 DEF Current
  <2>6. ~LeftBehind(e, k)'
    BY <1>2, <1>3 DEF LeftBehind
  <2>7. OnTime(e, k)' <=> OnTime(e, k)
    BY <1>3 DEF OnTime
  <2> QED  BY <1>1, <2>1, <2>2, <2>5, <2>6, <2>7 DEF EncoderInv
<1>6. ASSUME NEW j \in Key  PROVE Len(enc'[e][j].queue) <= QueueSize
  BY <1>1 DEF Types
<1>7. /\ faults \in [crashes : Nat, timeouts : Nat]
      /\ enc \in [Episode -> [Key -> EncoderType]]
  BY <1>1 DEF Types
<1> QED  BY <1>1, <1>2, <1>3, <1>4, <1>5, <1>6, <1>7, EpisodeStep

-----------------------------------------------------------------------------
(* Recording.                                                              *)

\* An encoder is started.
Started(x) == x = [Unused EXCEPT !.thread = "run"]

LEMMA StartedFresh ==
  ASSUME NEW x, Started(x)
  PROVE  /\ x \in EncoderType /\ x.queue = <<>> /\ FileOf(x) /\ Fresh(x) /\ Feeding(x)
<1>1. PICK no \in BOOLEAN : no = FALSE
  OBVIOUS
<1>2. PICK nothing : nothing = <<>>
  OBVIOUS
<1>3. nothing \in Seq(Row) /\ nothing \in Seq(Row \cup {Sentinel})
  BY <1>2, EmptySeq
<1>4. x = [thread |-> "run", queue |-> nothing, taken |-> nothing, stop |-> no,
           video |-> nothing,
           file |-> "none", place |-> "temp", accepted |-> nothing]
  BY <1>1, <1>2 DEF Unused, Started
<1>5. /\ x \in EncoderType /\ x.thread = "run" /\ x.queue = nothing /\ x.stop = no
      /\ x.video = nothing /\ x.file = "none" /\ x.accepted = nothing /\ x.taken = nothing
  BY <1>3, <1>4 DEF EncoderType
<1>6. nothing \o nothing = nothing
  BY <1>2, <1>3, ConcatEmptySeq
<1>7. Got(x) = nothing
  BY <1>5, <1>6 DEF Got
<1> QED  BY <1>1, <1>2, <1>3, <1>5, <1>6, <1>7 DEF FileOf, Fresh, Feeding

LEMMA FirstFrameKeeps ==
  ASSUME IInv, AddFrame, main.rows = 0
  PROVE  IInv'
<1>1. Types /\ Control
  BY DEF IInv
<1>2. main.pc = "next" /\ main.episode < MaxEpisodes /\ saved' = saved /\ faults' = faults
  BY DEF AddFrame
<1>3. PICK e \in Episode : e = main.episode + 1
  BY <1>2, MainFields, Constants DEF Episode
<1>4. PICK yes \in BOOLEAN : yes = TRUE
  OBVIOUS
<1>5. main' = [main EXCEPT !.pc = "feed", !.key = 1, !.active = yes, !.episode = e, !.rows = 1]
  BY <1>3, <1>4 DEF AddFrame
<1>6. PICK new : new = [k \in Key |-> [Unused EXCEPT !.thread = "run"]]
  OBVIOUS
<1>7. enc' = [enc EXCEPT ![e] = new]
  BY <1>3, <1>6 DEF AddFrame
<1>8. ASSUME NEW k \in Key
      PROVE  /\ new[k] \in EncoderType /\ new[k].queue = <<>> /\ FileOf(new[k])
             /\ Fresh(new[k]) /\ Feeding(new[k])
  <2>1. PICK x : x = [Unused EXCEPT !.thread = "run"]
    OBVIOUS
  <2>2. new[k] = x
    BY <1>6, <2>1
  <2>3. Started(x)
    BY <2>1 DEF Started
  <2> QED  BY <2>2, <2>3, StartedFresh
<1>9. new \in [Key -> EncoderType]
  BY <1>6, <1>8
<1>10. /\ enc' \in [Episode -> [Key -> EncoderType]] /\ enc'[e] = new
       /\ \A f \in Episode : f # e => enc'[f] = enc[f]
  BY <1>1, <1>7, <1>9 DEF Types
<1>11. /\ main' \in MainType /\ main'.pc = "feed" /\ main'.key = 1 /\ main'.active = yes
       /\ main'.episode = e /\ main'.rows = 1 /\ main'.late = main.late
  <2>1. e \in 0..MaxEpisodes /\ 1 \in 0..MaxRows /\ 1 \in Key
    BY Constants DEF Episode
  <2> QED  BY <1>5, <2>1, MainFields DEF MainType
<1>12. Types'
  <2>1. saved' \subseteq 1..main'.episode
    BY <1>1, <1>2, <1>3, <1>11, MainFields DEF Types
  <2>2. ASSUME NEW f \in Episode, NEW j \in Key  PROVE Len(enc'[f][j].queue) <= QueueSize
    <3>1. CASE f = e
      <4>1. enc'[f][j].queue = <<>>
        BY <1>8, <1>10, <3>1
      <4> QED  BY <4>1, EmptySeq, Constants
    <3>2. CASE f # e
      BY <1>1, <1>10, <3>2 DEF Types
    <3> QED  BY <3>1, <3>2
  <2> QED  BY <1>1, <1>2, <1>10, <1>11, <2>1, <2>2 DEF Types
<1>13. Control'
  BY <1>1, <1>2, <1>4, <1>11, Constants DEF Control, InEpisode, Row
<1>14. ASSUME NEW f \in Episode, NEW j \in Key  PROVE EncoderInv(f, j)'
  <2>1. OnTime(f, j)' <=> OnTime(f, j)
    BY <1>11 DEF OnTime
  <2>2. CASE f = e
    <3>1. PICK x : x = enc'[f][j]
      OBVIOUS
    <3>2. FileOf(x) /\ Fresh(x) /\ Feeding(x)
      BY <1>8, <1>10, <2>2, <3>1
    <3>3. f \notin saved'
      BY <1>1, <1>2, <1>3, <2>2, MainFields DEF Types
    <3>4. j >= 1
      BY MainFields
    <3>5. Current(f, j)'
      BY <1>11, <3>1, <3>2, <3>4 DEF Current
    <3>6. ~LeftBehind(f, j)'
      BY <1>11, <2>2 DEF LeftBehind
    <3> QED  BY <3>1, <3>2, <3>3, <3>5, <3>6 DEF EncoderInv
  <2>3. CASE f # e
    <3>1. PICK x : x = enc[f][j] /\ x = enc'[f][j]
      BY <1>10, <2>3
    <3>2. main.active <=> main.rows > 0
      BY <1>1, <1>2 DEF Control
    <3>3. LeftBehind(f, j)
      BY <1>2, <3>2, MainFields DEF LeftBehind
    <3>4. /\ FileOf(x)
          /\ f \in saved /\ OnTime(f, j) => Ended(x)
          /\ faults.timeouts = 0 => Over(x)
      BY <3>1, <3>3, EncoderFacts
    <3>5. f # main'.episode
      BY <1>11, <2>3
    <3> QED  BY <1>2, <2>1, <3>1, <3>4, <3>5 DEF EncoderInv
  <2> QED  BY <2>2, <2>3
<1> QED  BY <1>12, <1>13, <1>14 DEF IInv

LEMMA NextFrameKeeps ==
  ASSUME IInv, AddFrame, main.rows # 0
  PROVE  IInv'
<1>1. Types /\ Control /\ main.pc = "next" /\ main.rows < MaxRows
      /\ enc' = enc /\ saved' = saved /\ faults' = faults
  BY DEF AddFrame, IInv
<1>2. main.active
  BY <1>1, MainFields DEF Control
<1>3. PICK e \in Episode : e = main.episode
  BY <1>2, MineFields
<1>4. PICK n \in Row : n = main.rows + 1 /\ n # 1
  BY <1>1, MainFields, Constants DEF Row
<1>5. PICK yes \in BOOLEAN : yes = TRUE
  OBVIOUS
<1>6. main' = [main EXCEPT !.pc = "feed", !.key = 1, !.active = yes, !.episode = e, !.rows = n]
  BY <1>3, <1>4, <1>5 DEF AddFrame
<1>7. /\ main' \in MainType /\ main'.pc = "feed" /\ main'.key = 1 /\ main'.active = yes
      /\ main'.episode = e /\ main'.rows = n /\ main'.late = main.late
  <2>1. e \in 0..MaxEpisodes /\ n \in 0..MaxRows /\ 1 \in Key
    BY Constants DEF Episode, Row
  <2> QED  BY <1>6, <2>1, MainFields DEF MainType
<1>8. Control'
  BY <1>1, <1>3, <1>5, <1>7 DEF Control, InEpisode
<1>9. ASSUME NEW k \in Key  PROVE EncoderInv(e, k)'
  <2>1. PICK x : x = enc[e][k] /\ x = enc'[e][k]
    BY <1>1
  <2>2. /\ FileOf(x) /\ Current(e, k)
        /\ e \in saved /\ OnTime(e, k) => Ended(x)
    BY <1>3, <2>1, EncoderFacts
  <2>3. Feeding(x) /\ Fed(x)
    BY <1>1, <1>2, <2>1, <2>2 DEF Current
  <2>4. Current(e, k)'
    BY <1>4, <1>7, <2>1, <2>3 DEF Current
  <2>5. ~LeftBehind(e, k)'
    BY <1>7 DEF LeftBehind
  <2>6. OnTime(e, k)' <=> OnTime(e, k)
    BY <1>7 DEF OnTime
  <2> QED  BY <1>1, <2>1, <2>2, <2>4, <2>5, <2>6 DEF EncoderInv
<1>10. ASSUME NEW j \in Key  PROVE Len(enc'[e][j].queue) <= QueueSize
  BY <1>1 DEF Types
<1>11. /\ faults \in [crashes : Nat, timeouts : Nat]
       /\ enc \in [Episode -> [Key -> EncoderType]]
  BY <1>1 DEF Types
<1> QED  BY <1>1, <1>3, <1>7, <1>8, <1>9, <1>10, <1>11, EpisodeStep

LEMMA FeedFrameKeeps ==
  ASSUME IInv, FeedFrame
  PROVE  IInv'
<1>1. Types /\ Control /\ main.pc = "feed" /\ saved' = saved /\ faults' = faults
      /\ faults \in [crashes : Nat, timeouts : Nat]
  BY DEF FeedFrame, IInv, Types
<1>2. main.active /\ main.rows \in Row
  BY <1>1 DEF Control, InEpisode
<1>3. PICK e \in Episode, k \in Key : e = main.episode /\ k = main.key
  BY <1>2, MineFields
<1>4. PICK x \in EncoderType : x = Mine
  BY <1>2, MineFields
<1>5. x = enc[e][k] /\ Len(x.queue) <= QueueSize /\ FileOf(x)
  BY <1>2, <1>3, <1>4, MineFields
<1>6. Feeding(x) /\ IF main.rows = 1 /\ k >= main.key THEN Fresh(x) ELSE Fed(x)
  <2>1. Current(e, k)
    BY <1>3, EncoderFacts
  <2> QED  BY <1>1, <1>5, <2>1 DEF Current
<1>7. CASE x.thread # "run"
  <2>1. main' = Raised /\ enc' = enc
    BY <1>4, <1>7 DEF FeedFrame
  <2> QED  BY <1>1, <1>2, <2>1, RaisedKeeps DEF Raises
<1>8. CASE x.thread = "run"
  <2>1. Steps("next") /\ "next" \in PC
    BY <1>4, <1>8 DEF FeedFrame, Steps, Proceeds, PC
  <2>2. /\ main' \in MainType /\ main'.active = main.active /\ main'.then = main.then
        /\ main'.episode = main.episode /\ main'.rows = main.rows /\ main'.late = main.late
        /\ main.key < Cameras => main'.key = main.key + 1 /\ main'.pc = main.pc
        /\ ~(main.key < Cameras) => main.key = Cameras /\ main'.key = 1 /\ main'.pc = "next"
    BY <2>1, StepFields
  <2>3. Control'
    BY <1>1, <1>2, <1>3, <2>2, Constants DEF Control, InEpisode, Row
  <2>4. PICK y \in EncoderType :
          /\ FileOf(y) /\ Feeding(y) /\ Fed(y) /\ Len(y.queue) <= QueueSize
          /\ SetMine(y) \/ (enc' = enc /\ y = enc[e][k])
    <3>1. CASE Full(x.queue)
      <4>1. enc' = enc
        BY <1>4, <1>8, <3>1 DEF FeedFrame
      <4>2. ~Fresh(x)
        BY <3>1, Constants, EmptySeq DEF Fresh, Full
      <4>3. Fed(x)
        BY <1>6, <4>2
      <4> QED  BY <1>5, <1>6, <4>1, <4>3
    <3>2. CASE ~Full(x.queue)
      <4>1. PICK row \in Row : row = main.rows
        BY <1>2
      <4>2. PICK y : y = [x EXCEPT !.queue = Append(x.queue, row),
                                   !.accepted = Append(x.accepted, row)]
        OBVIOUS
      <4>3. SetMine(y)
        BY <1>4, <1>8, <3>2, <4>1, <4>2 DEF FeedFrame
      <4>4. Len(x.queue) < QueueSize
        BY <3>2, EncoderFields, Constants DEF Full
      <4>5. Accepts(x, y, row)
        BY <4>2 DEF Accepts
      <4>6. /\ y \in EncoderType /\ FileOf(y) /\ Feeding(y) /\ Fed(y)
            /\ Len(y.queue) <= QueueSize
        BY <1>5, <1>6, <1>8, <4>4, <4>5, AcceptFrame
      <4> QED  BY <4>3, <4>6
    <3> QED  BY <3>1, <3>2
  <2>5. ASSUME NEW j \in Key, enc'[e][j] = IF j = k THEN y ELSE enc[e][j]
        PROVE  EncoderInv(e, j)'
    <3>1. PICK z : z = enc'[e][j]
      OBVIOUS
    <3>2. FileOf(enc[e][j]) /\ Current(e, j)
          /\ (e \in saved /\ OnTime(e, j) => Ended(enc[e][j]))
      BY <1>3, EncoderFacts
    <3>3. j \in Nat /\ k \in Nat /\ j <= Cameras
      BY MainFields
    <3>4. Feeding(z) /\ FileOf(z)
          /\ (main'.pc = "feed" => IF main.rows = 1 /\ j >= main'.key THEN Fresh(z) ELSE Fed(z))
          /\ (main'.pc = "next" => Fed(z))
      <4>1. CASE j = k
        <5>1. Feeding(z) /\ FileOf(z) /\ Fed(z)
          BY <2>4, <2>5, <3>1, <4>1
        <5>2. main'.pc = "feed" => ~(j >= main'.key)
          BY <1>1, <1>3, <2>2, <3>3, <4>1
        <5> QED  BY <5>1, <5>2
      <4>2. CASE j # k
        <5>1. z = enc[e][j]
          BY <2>5, <3>1, <4>2
        <5>2. Feeding(z) /\ IF main.rows = 1 /\ j >= k THEN Fresh(z) ELSE Fed(z)
          BY <1>1, <1>3, <3>2, <5>1 DEF Current
        <5>3. main'.pc = "feed" => (j >= main'.key <=> j >= k)
          BY <1>1, <1>3, <2>2, <3>3, <4>2
        <5>4. main'.pc = "next" => ~(j >= k)
          BY <1>1, <1>3, <2>2, <3>3, <4>2
        <5> QED  BY <3>2, <5>1, <5>2, <5>3, <5>4
      <4> QED  BY <4>1, <4>2
    <3>5. main'.pc \in {"feed", "next"}
      BY <1>1, <2>2
    <3>6. Current(e, j)'
      BY <2>2, <3>1, <3>4, <3>5 DEF Current
    <3>7. ~LeftBehind(e, j)'
      BY <1>2, <1>3, <2>2, <3>5 DEF LeftBehind
    <3>8. ~(e \in saved /\ OnTime(e, j))
      <4>1. Feeding(enc[e][j])
        BY <1>1, <3>2 DEF Current
      <4> QED  BY <3>2, <4>1 DEF Feeding, Ended
    <3>9. ~(e \in saved' /\ OnTime(e, j)')
      BY <1>1, <2>2, <3>8 DEF OnTime
    <3> QED  BY <3>1, <3>4, <3>6, <3>7, <3>9 DEF EncoderInv
  <2> QED  BY <1>1, <1>3, <2>2, <2>3, <2>4, <2>5, MineStep
<1> QED  BY <1>7, <1>8

-----------------------------------------------------------------------------
(* Saving an episode.                                                      *)

LEMMA PutSentinelKeeps ==
  ASSUME IInv, PutSentinel
  PROVE  IInv'
<1>1. Types /\ Control /\ main.pc = "sentinel" /\ saved' = saved /\ faults' = faults
      /\ faults \in [crashes : Nat, timeouts : Nat]
  BY DEF PutSentinel, IInv, Types
<1>2. main.active /\ main.then = "video"
  BY <1>1 DEF Control, InEpisode
<1>3. PICK e \in Episode, k \in Key : e = main.episode /\ k = main.key
  BY <1>2, MineFields
<1>4. PICK x \in EncoderType : x = Mine
  BY <1>2, MineFields
<1>5. x = enc[e][k] /\ Len(x.queue) <= QueueSize /\ FileOf(x)
  BY <1>2, <1>3, <1>4, MineFields
<1>6. Feeding(x) /\ Fed(x)
  <2>1. Current(e, k)
    BY <1>3, EncoderFacts
  <2>2. ~(k < main.key)
    BY <1>3, MainFields
  <2> QED  BY <1>1, <1>5, <2>1, <2>2 DEF Current
<1>7. Steps("join") /\ "join" \in PC
  BY DEF PutSentinel, Steps, Proceeds, PC
<1>8. /\ main' \in MainType /\ main'.active = main.active /\ main'.then = main.then
      /\ main'.episode = main.episode /\ main'.rows = main.rows /\ main'.late = main.late
      /\ main.key < Cameras => main'.key = main.key + 1 /\ main'.pc = main.pc
      /\ ~(main.key < Cameras) => main.key = Cameras /\ main'.key = 1 /\ main'.pc = "join"
  BY <1>7, StepFields
<1>9. main'.pc \in {"sentinel", "join"}
  BY <1>1, <1>8
<1>10. Control'
  BY <1>1, <1>2, <1>3, <1>8, <1>9 DEF Control, InEpisode
<1>11. PICK y : y = [x EXCEPT !.queue = Append(x.queue, Sentinel)]
  OBVIOUS
<1>12. SetMine(y)
  BY <1>4, <1>11 DEF PutSentinel
<1>13. y \in EncoderType /\ FileOf(y) /\ Ending(y) /\ Fed(y) /\ Len(y.queue) <= QueueSize
  <2>1. Len(x.queue) < QueueSize
    BY <1>4, EncoderFields, Constants DEF PutSentinel, Full
  <2>2. Finishes(x, y)
    BY <1>11 DEF Finishes
  <2> QED  BY <1>5, <1>6, <2>1, <2>2, AcceptSentinel
<1>14. ASSUME NEW j \in Key, enc'[e][j] = IF j = k THEN y ELSE enc[e][j]
       PROVE  EncoderInv(e, j)'
  <2>1. PICK z : z = enc'[e][j]
    OBVIOUS
  <2>2. FileOf(enc[e][j]) /\ Current(e, j)
        /\ (e \in saved /\ OnTime(e, j) => Ended(enc[e][j]))
    BY <1>3, EncoderFacts
  <2>3. j \in Nat /\ k \in Nat /\ j <= Cameras /\ j >= 1
    BY MainFields
  <2>4. Fed(z) /\ FileOf(z)
        /\ (main'.pc = "sentinel" => IF j < main'.key THEN Ending(z) ELSE Feeding(z))
        /\ (main'.pc = "join" => Ending(z))
    <3>1. CASE j = k
      <4>1. Ending(z) /\ FileOf(z) /\ Fed(z)
        BY <1>13, <1>14, <2>1, <3>1
      <4>2. main'.pc = "sentinel" => j < main'.key
        BY <1>1, <1>3, <1>8, <2>3, <3>1
      <4> QED  BY <4>1, <4>2
    <3>2. CASE j # k
      <4>1. z = enc[e][j]
        BY <1>14, <2>1, <3>2
      <4>2. Fed(z) /\ IF j < k THEN Ending(z) ELSE Feeding(z)
        BY <1>1, <1>3, <2>2, <4>1 DEF Current
      <4>3. main'.pc = "sentinel" => (j < main'.key <=> j < k)
        BY <1>1, <1>3, <1>8, <2>3, <3>2
      <4>4. main'.pc = "join" => j < k
        BY <1>1, <1>3, <1>8, <2>3, <3>2
      <4> QED  BY <2>2, <4>1, <4>2, <4>3, <4>4
    <3> QED  BY <3>1, <3>2
  <2>5. main'.pc = "join" => ~(j < main'.key)
    BY <1>1, <1>8, <2>3
  <2>6. Current(e, j)'
    BY <1>8, <1>9, <2>1, <2>4, <2>5 DEF Current
  <2>7. ~LeftBehind(e, j)'
    BY <1>3, <1>8, <1>9 DEF LeftBehind
  <2>8. Ended(enc[e][j]) => Ended(z)
    <3>1. j = k => ~Ended(enc[e][j])
      BY <1>5, <1>6 DEF Feeding, Ended
    <3> QED  BY <1>14, <2>1, <3>1
  <2>9. e \in saved' /\ OnTime(e, j)' => Ended(z)
    BY <1>1, <1>8, <2>2, <2>8 DEF OnTime
  <2> QED  BY <2>1, <2>4, <2>6, <2>7, <2>9 DEF EncoderInv
<1> QED  BY <1>1, <1>3, <1>8, <1>10, <1>12, <1>13, <1>14, MineStep

LEMMA JoinKeeps ==
  ASSUME IInv, Join
  PROVE  IInv'
<1>1. Types /\ Control /\ main.pc = "join" /\ saved' = saved /\ faults' = faults
      /\ enc' = enc /\ faults \in [crashes : Nat, timeouts : Nat]
  BY DEF Join, IInv, Types
<1>2. main.active /\ main.then = "video"
  BY <1>1 DEF Control, InEpisode
<1>3. PICK e \in Episode, k \in Key : e = main.episode /\ k = main.key
  BY <1>2, MineFields
<1>4. PICK x \in EncoderType : x = Mine
  BY <1>2, MineFields
<1>5. x = enc[e][k] /\ x.thread # "run" /\ Len(x.queue) <= QueueSize
  BY <1>2, <1>3, <1>4, MineFields DEF Join
<1>6. Ending(x)
  <2>1. Current(e, k)
    BY <1>3, EncoderFacts
  <2>2. ~(k < main.key)
    BY <1>3, MainFields
  <2> QED  BY <1>1, <1>5, <2>1, <2>2 DEF Current
<1>7. CASE Failed(x)
  <2>1. main' = Raised
    BY <1>4, <1>7 DEF Join
  <2> QED  BY <1>1, <1>2, <2>1, RaisedKeeps DEF Raises
<1>8. CASE ~Failed(x)
  <2>1. Ended(x)
    BY <1>5, <1>6, <1>8 DEF Ending, Failed, Ended
  <2>2. Steps("drain") /\ "drain" \in PC
    BY <1>4, <1>8 DEF Join, Steps, Proceeds, PC
  <2>3. /\ main' \in MainType /\ main'.active = main.active /\ main'.then = main.then
        /\ main'.episode = main.episode /\ main'.rows = main.rows /\ main'.late = main.late
        /\ main.key < Cameras => main'.key = main.key + 1 /\ main'.pc = main.pc
        /\ ~(main.key < Cameras) => main.key = Cameras /\ main'.key = 1 /\ main'.pc = "drain"
    BY <2>2, StepFields
  <2>4. main'.pc \in {"join", "drain"}
    BY <1>1, <2>3
  <2>5. Control'
    BY <1>1, <1>2, <1>3, <2>3, <2>4 DEF Control, InEpisode
  <2>6. ASSUME NEW j \in Key  PROVE EncoderInv(e, j)'
    <3>1. PICK z : z = enc[e][j] /\ z = enc'[e][j]
      BY <1>1
    <3>2. FileOf(z) /\ Current(e, j) /\ (e \in saved /\ OnTime(e, j) => Ended(z))
      BY <1>3, <3>1, EncoderFacts
    <3>3. Fed(z) /\ IF j < k THEN OnTime(e, j) => Ended(z) ELSE Ending(z)
      BY <1>1, <1>3, <3>1, <3>2 DEF Current
    <3>4. j = k => Ended(z)
      BY <1>5, <2>1, <3>1
    <3>5. j \in Nat /\ k \in Nat /\ j <= Cameras
      BY MainFields
    <3>6. /\ main'.pc = "join" => (j < main'.key <=> j < k \/ j = k)
          /\ main'.pc = "drain" => j < k \/ j = k
      BY <1>1, <1>3, <2>3, <3>5
    <3>7. OnTime(e, j)' <=> OnTime(e, j)
      BY <2>3 DEF OnTime
    <3>8. Current(e, j)'
      <4>1. CASE main'.pc = "join"
        BY <3>1, <3>3, <3>4, <3>6, <3>7, <4>1 DEF Current
      <4>2. CASE main'.pc = "drain"
        BY <3>1, <3>3, <3>4, <3>6, <3>7, <4>2 DEF Current
      <4> QED  BY <2>4, <4>1, <4>2
    <3>9. ~LeftBehind(e, j)'
      BY <1>2, <1>3, <2>3, <2>4 DEF LeftBehind
    <3> QED  BY <1>1, <3>1, <3>2, <3>7, <3>8, <3>9 DEF EncoderInv
  <2>7. ASSUME NEW j \in Key  PROVE Len(enc'[e][j].queue) <= QueueSize
    BY <1>1 DEF Types
  <2>8. enc \in [Episode -> [Key -> EncoderType]]
    BY <1>1 DEF Types
  <2> QED  BY <1>1, <1>3, <2>3, <2>5, <2>6, <2>7, <2>8, EpisodeStep
<1> QED  BY <1>7, <1>8

LEMMA JoinTimeoutKeeps ==
  ASSUME IInv, JoinTimeout
  PROVE  IInv'
<1>1. Types /\ Control /\ main.pc = "join" /\ saved' = saved
      /\ faults \in [crashes : Nat, timeouts : Nat]
      /\ faults' = [faults EXCEPT !.timeouts = @ + 1]
  BY DEF JoinTimeout, IInv, Types
<1>2. faults' \in [crashes : Nat, timeouts : Nat] /\ faults'.timeouts # 0
  BY <1>1
<1>3. main.active /\ main.then = "video"
  BY <1>1 DEF Control, InEpisode
<1>4. PICK e \in Episode, k \in Key : e = main.episode /\ k = main.key
  BY <1>3, MineFields
<1>5. PICK x \in EncoderType : x = Mine
  BY <1>3, MineFields
<1>6. x = enc[e][k] /\ x.thread = "run" /\ Len(x.queue) <= QueueSize /\ FileOf(x)
  BY <1>3, <1>4, <1>5, MineFields DEF JoinTimeout
<1>7. PICK m : Proceeds(m, "drain")
  BY DEF Proceeds
<1>8. /\ m \in MainType /\ m.active = main.active /\ m.then = main.then
      /\ m.episode = main.episode /\ m.rows = main.rows /\ m.late = main.late
      /\ main.key < Cameras => m.key = main.key + 1 /\ m.pc = main.pc
      /\ ~(main.key < Cameras) => main.key = Cameras /\ m.key = 1 /\ m.pc = "drain"
  <2>1. "drain" \in PC
    BY DEF PC
  <2> QED  BY <1>7, <2>1, ProceedFields
<1>9. PICK late \in SUBSET (Episode \X Key) :
        late = main.late \cup {<<e, k>>} /\ main' = [m EXCEPT !.late = late]
  <2>1. PICK late : late = m.late \cup {<<e, k>>}
    OBVIOUS
  <2>2. late \in SUBSET (Episode \X Key) /\ late = main.late \cup {<<e, k>>}
    <3>1. main.late \subseteq Episode \X Key /\ <<e, k>> \in Episode \X Key
      BY MainFields
    <3> QED  BY <1>8, <2>1, <3>1
  <2>3. main' = [m EXCEPT !.late = m.late \cup {<<main.episode, main.key>>}]
    BY <1>7 DEF JoinTimeout, Proceeds
  <2>4. main' = [m EXCEPT !.late = late]
    BY <1>4, <2>1, <2>3
  <2> QED  BY <2>2, <2>4
<1>10. /\ main' \in MainType /\ main'.active = main.active /\ main'.then = main.then
       /\ main'.episode = main.episode /\ main'.rows = main.rows /\ main'.late = late
       /\ main'.key = m.key /\ main'.pc = m.pc
  <2>1. main' = [m EXCEPT !.late = late]
    BY <1>9
  <2> QED  BY <1>8, <2>1 DEF MainType
<1>11. main'.pc \in {"join", "drain"}
  BY <1>1, <1>8, <1>10
<1>12. Control'
  BY <1>1, <1>2, <1>3, <1>4, <1>10, <1>11 DEF Control, InEpisode
<1>13. PICK yes \in BOOLEAN : yes = TRUE
  OBVIOUS
<1>14. PICK y : y = [x EXCEPT !.stop = yes]
  OBVIOUS
<1>15. SetMine(y)
  BY <1>5, <1>13, <1>14 DEF JoinTimeout, StopLate
<1>16. /\ y \in EncoderType /\ y.queue = x.queue /\ y.thread = x.thread /\ y.video = x.video
       /\ y.file = x.file /\ y.accepted = x.accepted
  BY <1>14 DEF EncoderType
<1>17. ASSUME NEW j \in Key, enc'[e][j] = IF j = k THEN y ELSE enc[e][j]
       PROVE  EncoderInv(e, j)'
  <2>1. PICK z : z = enc'[e][j]
    OBVIOUS
  <2>2. FileOf(enc[e][j]) /\ Current(e, j)
        /\ (e \in saved /\ OnTime(e, j) => Ended(enc[e][j]))
    BY <1>4, EncoderFacts
  <2>3. j \in Nat /\ k \in Nat /\ j <= Cameras
    BY MainFields
  <2>4. OnTime(e, j)' <=> OnTime(e, j) /\ j # k
    BY <1>9, <1>10 DEF OnTime
  <2>5. Fed(enc[e][j]) /\ IF j < k THEN OnTime(e, j) => Ended(enc[e][j]) ELSE Ending(enc[e][j])
    BY <1>1, <1>4, <2>2 DEF Current
  <2>6. FileOf(z) /\ Fed(z)
    <3>1. CASE j = k
      BY <1>6, <1>16, <1>17, <2>1, <2>5, <3>1 DEF FileOf, Fed
    <3>2. CASE j # k
      BY <1>17, <2>1, <2>2, <2>5, <3>2
    <3> QED  BY <3>1, <3>2
  <2>7. j # k => z = enc[e][j]
    BY <1>17, <2>1
  <2>8. /\ main'.pc = "join" => (j < main'.key <=> j < k \/ j = k)
        /\ main'.pc = "drain" => j < k \/ j = k
    BY <1>1, <1>4, <1>8, <1>10, <2>3
  <2>9. Current(e, j)'
    <3>1. CASE main'.pc = "join"
      BY <2>1, <2>4, <2>5, <2>6, <2>7, <2>8, <3>1 DEF Current
    <3>2. CASE main'.pc = "drain"
      BY <2>1, <2>4, <2>5, <2>6, <2>7, <2>8, <3>2 DEF Current
    <3> QED  BY <1>11, <3>1, <3>2
  <2>10. e \in saved' /\ OnTime(e, j)' => Ended(z)
    BY <1>1, <2>2, <2>4, <2>7
  <2> QED  BY <1>2, <2>1, <2>6, <2>9, <2>10 DEF EncoderInv
<1> QED
  <2>1. main.late \subseteq main'.late /\ main'.episode = e /\ Len(y.queue) <= QueueSize
    BY <1>4, <1>6, <1>9, <1>10, <1>16
  <2> QED  BY <1>1, <1>2, <1>4, <1>10, <1>12, <1>15, <1>16, <1>17, <2>1, MineStep

\* A frame that is thrown away.
Drops(x, y) == y = [x EXCEPT !.queue = Tail(x.queue)]

LEMMA DropFields ==
  ASSUME NEW x \in EncoderType, x.queue # <<>>, Len(x.queue) <= QueueSize, NEW y, Drops(x, y)
  PROVE  /\ y \in EncoderType /\ Len(y.queue) <= QueueSize /\ y.thread = x.thread
         /\ y.video = x.video /\ y.file = x.file /\ y.accepted = x.accepted
         /\ y.place = x.place
<1>1. x.queue \in Seq(Item) /\ Len(x.queue) \in Nat
  BY EncoderFields
<1>2. PICK q : q = Tail(x.queue)
  OBVIOUS
<1>3. q \in Seq(Item) /\ Len(q) = Len(x.queue) - 1
  BY <1>1, <1>2, HeadTailProperties
<1>4. y = [x EXCEPT !.queue = q]
  BY <1>2 DEF Drops
<1>5. /\ y \in EncoderType /\ y.queue = q /\ y.thread = x.thread /\ y.video = x.video
      /\ y.file = x.file /\ y.accepted = x.accepted /\ y.place = x.place
  BY <1>3, <1>4 DEF EncoderType, Item
<1>6. Len(y.queue) <= QueueSize
  BY <1>1, <1>3, <1>5, Constants
<1> QED  BY <1>5, <1>6

LEMMA DrainKeeps ==
  ASSUME IInv, Drain
  PROVE  IInv'
<1>1. Types /\ Control /\ main.pc = "drain" /\ saved' = saved /\ faults' = faults
      /\ faults \in [crashes : Nat, timeouts : Nat]
      /\ enc \in [Episode -> [Key -> EncoderType]]
  BY DEF Drain, IInv, Types
<1>2. PICK e \in Episode, k \in Key : e = main.episode /\ k = main.key
  BY <1>1, MineFields DEF InEpisode
<1>3. PICK x \in EncoderType : x = Mine
  BY <1>1, MineFields DEF InEpisode
<1>4. x = enc[e][k] /\ Len(x.queue) <= QueueSize /\ FileOf(x)
  BY <1>1, <1>2, <1>3, MineFields DEF InEpisode
<1>5. CASE x.queue # <<>>
  <2>1. PICK y : y = [x EXCEPT !.queue = Tail(x.queue)]
    OBVIOUS
  <2>2. SetMine(y) /\ main' = main
    BY <1>3, <1>5, <2>1 DEF Drain
  <2>3. /\ y \in EncoderType /\ Len(y.queue) <= QueueSize /\ y.thread = x.thread
        /\ y.video = x.video /\ y.file = x.file /\ y.accepted = x.accepted
        /\ y.place = x.place
    <3>1. Drops(x, y)
      BY <2>1 DEF Drops
    <3> QED  BY <1>4, <1>5, <3>1, DropFields
  <2>4. Control'
    BY <1>1, <2>2 DEF Control
  <2>5. ASSUME NEW j \in Key, enc'[e][j] = IF j = k THEN y ELSE enc[e][j]
        PROVE  EncoderInv(e, j)'
    <3>1. PICK z : z = enc'[e][j]
      OBVIOUS
    <3>2. PICK w : w = enc[e][j]
      OBVIOUS
    <3>3. /\ z.thread = w.thread /\ z.video = w.video /\ z.file = w.file
          /\ z.accepted = w.accepted /\ z.place = w.place
      BY <1>4, <2>3, <2>5, <3>1, <3>2
    <3>4. /\ FileOf(w) => FileOf(z)
          /\ Ended(w) => Ended(z)
          /\ Fed(w) => Fed(z)
          /\ Over(w) => Over(z)
      BY <3>3 DEF FileOf, Ended, Fed, Over
    <3>5. /\ FileOf(w) /\ Current(e, j)
          /\ e \in saved /\ OnTime(e, j) => Ended(w)
          /\ faults.timeouts = 0 /\ LeftBehind(e, j) => Over(w)
      BY <1>2, <3>2, EncoderFacts
    <3>6. Current(e, j)'
      BY <1>1, <2>2, <3>1, <3>2, <3>4, <3>5 DEF Current, OnTime
    <3>7. (OnTime(e, j)' <=> OnTime(e, j)) /\ (LeftBehind(e, j)' <=> LeftBehind(e, j))
      BY <2>2 DEF OnTime, LeftBehind
    <3> QED  BY <1>1, <3>1, <3>4, <3>5, <3>6, <3>7 DEF EncoderInv
  <2>6. main \in MainType
    BY MainFields
  <2> QED  BY <1>1, <1>2, <2>2, <2>3, <2>4, <2>5, <2>6, MineStep
<1>6. CASE x.queue = <<>>
  <2>1. enc' = enc
    BY <1>3, <1>6 DEF Drain
  <2>2. CASE main.key < Cameras
    <3>1. PICK n \in Key : n = main.key + 1
      BY <2>2, MainFields
    <3>2. main' = [main EXCEPT !.key = n]
      BY <1>3, <1>6, <2>2, <3>1 DEF Drain
    <3>3. /\ main' \in MainType /\ main'.active = main.active /\ main'.then = main.then
          /\ main'.episode = main.episode /\ main'.rows = main.rows /\ main'.late = main.late
          /\ main'.pc = "drain"
      BY <1>1, <3>2, MainFields DEF MainType
    <3>4. Control'
      BY <1>1, <3>3 DEF Control, InEpisode
    <3>5. ASSUME NEW j \in Key  PROVE EncoderInv(e, j)'
      <4>1. PICK z : z = enc[e][j] /\ z = enc'[e][j]
        BY <2>1
      <4>2. /\ FileOf(z) /\ Current(e, j)
            /\ e \in saved /\ OnTime(e, j) => Ended(z)
            /\ faults.timeouts = 0 /\ LeftBehind(e, j) => Over(z)
        BY <1>2, <4>1, EncoderFacts
      <4>3. OnTime(e, j)' <=> OnTime(e, j)
        BY <3>3 DEF OnTime
      <4>4. Current(e, j)'
        BY <1>1, <3>3, <4>1, <4>2, <4>3 DEF Current
      <4>5. LeftBehind(e, j)' => LeftBehind(e, j)
        BY <1>1, <3>3 DEF LeftBehind
      <4> QED  BY <1>1, <4>1, <4>2, <4>3, <4>4, <4>5 DEF EncoderInv
    <3>6. ASSUME NEW j \in Key  PROVE Len(enc'[e][j].queue) <= QueueSize
      BY <1>1, <2>1 DEF Types
    <3> QED  BY <1>1, <1>2, <2>1, <3>3, <3>4, <3>5, <3>6, EpisodeStep
  <2>3. CASE ~(main.key < Cameras)
    <3>1. PICK n \in 0..MaxRows : n = IF main.then = "next" THEN 0 ELSE main.rows
      BY MainFields, Constants
    <3>2. PICK no \in BOOLEAN : no = FALSE
      OBVIOUS
    <3>3. main' = [main EXCEPT !.key = 1, !.pc = main.then, !.active = no, !.rows = n]
      BY <1>3, <1>6, <2>3, <3>1, <3>2 DEF Drain
    <3>4. /\ main' \in MainType /\ main'.key = 1 /\ main'.pc = main.then
          /\ main'.active = no /\ main'.rows = n /\ main'.then = main.then
          /\ main'.episode = main.episode /\ main'.late = main.late
      BY <3>3, MainFields, Constants DEF MainType
    <3>5. Control'
      BY <1>1, <1>2, <3>1, <3>2, <3>4, MainFields DEF Control, InEpisode
    <3>6. ASSUME NEW j \in Key  PROVE EncoderInv(e, j)'
      <4>1. PICK z : z = enc[e][j] /\ z = enc'[e][j]
        BY <2>1
      <4>2. /\ FileOf(z) /\ Current(e, j)
            /\ e \in saved /\ OnTime(e, j) => Ended(z)
            /\ faults.timeouts = 0 /\ LeftBehind(e, j) => Over(z)
        BY <1>2, <4>1, EncoderFacts
      <4>3. OnTime(e, j)' <=> OnTime(e, j)
        BY <3>4 DEF OnTime
      <4>4. Current(e, j)'
        BY <1>1, <3>2, <3>4, <4>1, <4>2, <4>3, MainFields DEF Current
      <4>5. ~(j < 1)
        BY MainFields
      <4>6. LeftBehind(e, j)' => LeftBehind(e, j)
        BY <1>1, <1>2, <3>4, <4>5, MainFields DEF LeftBehind
      <4> QED  BY <1>1, <4>1, <4>2, <4>3, <4>4, <4>6 DEF EncoderInv
    <3>7. ASSUME NEW j \in Key  PROVE Len(enc'[e][j].queue) <= QueueSize
      BY <1>1, <2>1 DEF Types
    <3> QED  BY <1>1, <1>2, <2>1, <3>4, <3>5, <3>6, <3>7, EpisodeStep
  <2> QED  BY <2>2, <2>3
<1> QED  BY <1>5, <1>6

\* A video is moved into the dataset, and then saving the episode goes on, is done or
\* raises.
LEMMA MovesVideoKeeps ==
  ASSUME IInv, main.pc = "video", Mine.file = "closed", MovesVideo, faults' = faults,
         main' \in MainType, main'.active = main.active, main'.then = main.then,
         main'.episode = main.episode, main'.late = main.late,
         \/ /\ main.key < Cameras /\ main'.key = main.key + 1 /\ main'.pc = "video"
         \/ /\ main.key = Cameras /\ main'.key = 1 /\ main'.pc = "next" /\ main'.rows = 0
         \/ /\ main'.key = main.key /\ main'.pc = "ended",
         saved' \subseteq saved \cup {main.episode}
  PROVE  IInv'
<1>1. Types /\ Control /\ ~main.active /\ main.then = "video"
      /\ faults \in [crashes : Nat, timeouts : Nat]
  BY DEF IInv, Types, Control
<1>2. PICK e \in Episode, k \in Key : e = main.episode /\ k = main.key
  BY <1>1, MineFields
<1>3. PICK x \in EncoderType : x = Mine
  BY <1>1, MineFields
<1>4. x = enc[e][k] /\ Len(x.queue) <= QueueSize /\ FileOf(x)
  BY <1>1, <1>2, <1>3, MineFields
<1>5. faults.timeouts = 0 => \A j \in Key : OnTime(e, j)
  BY <1>1 DEF Control, OnTime
<1>6. PICK y : y = [x EXCEPT !.place = "dataset"]
  OBVIOUS
<1>7. SetMine(y)
  BY <1>3, <1>6 DEF MovesVideo
<1>8. /\ y \in EncoderType /\ y.thread = x.thread /\ y.video = x.video /\ y.file = x.file
      /\ y.accepted = x.accepted /\ y.queue = x.queue /\ y.place = "dataset"
  BY <1>6 DEF EncoderType
<1>9. main'.pc \in {"video", "next", "ended"}
  OBVIOUS
<1>10. Control'
  BY <1>1, <1>2, <1>9 DEF Control, InEpisode
<1>11. ASSUME NEW j \in Key, enc'[e][j] = IF j = k THEN y ELSE enc[e][j]
       PROVE  EncoderInv(e, j)'
  <2>1. PICK z : z = enc'[e][j]
    OBVIOUS
  <2>2. PICK w : w = enc[e][j]
    OBVIOUS
  <2>3. /\ z.thread = w.thread /\ z.video = w.video /\ z.file = w.file
        /\ z.accepted = w.accepted
    BY <1>4, <1>8, <1>11, <2>1, <2>2
  <2>4. (FileOf(w) => FileOf(z)) /\ (Ended(w) => Ended(z)) /\ (Fed(w) => Fed(z))
    BY <2>3 DEF FileOf, Ended, Fed
  <2>5. /\ FileOf(w) /\ Current(e, j)
        /\ faults.timeouts = 0 /\ LeftBehind(e, j) => Over(w)
    BY <1>2, <2>2, EncoderFacts
  <2>6. Fed(z) /\ (OnTime(e, j) => Ended(z))
    BY <1>1, <2>2, <2>4, <2>5 DEF Current
  <2>7. OnTime(e, j)' <=> OnTime(e, j)
    BY DEF OnTime
  <2>8. Current(e, j)'
    BY <1>1, <1>9, <2>1, <2>6, <2>7 DEF Current
  <2>9. faults.timeouts = 0 /\ LeftBehind(e, j)' => Over(z)
    <3> SUFFICES ASSUME faults.timeouts = 0, LeftBehind(e, j)'  PROVE Over(z)
      OBVIOUS
    <3>1. z.thread # "run"
      BY <1>5, <2>6 DEF Ended
    <3>2. CASE j = k
      BY <1>8, <1>11, <2>1, <3>1, <3>2 DEF Over
    <3>3. CASE j # k
      <4>1. z = w
        BY <1>11, <2>1, <2>2, <3>3
      <4>2. j < k
        <5>1. j \in Nat /\ k \in Nat /\ j <= Cameras
          BY MainFields
        <5>2. main'.pc # "next" => j < main'.key
          BY <1>1, <1>2, <1>9 DEF LeftBehind
        <5> QED  BY <1>2, <1>9, <3>3, <5>1, <5>2
      <4>3. LeftBehind(e, j)
        BY <1>2, <4>2 DEF LeftBehind
      <4> QED  BY <2>5, <4>1, <4>3
    <3> QED  BY <3>2, <3>3
  <2> QED  BY <2>1, <2>4, <2>5, <2>6, <2>7, <2>8, <2>9 DEF EncoderInv
<1>12. saved' \subseteq saved \cup {e} /\ main'.episode = e /\ main.late \subseteq main'.late
       /\ Len(y.queue) <= QueueSize
  BY <1>2, <1>4, <1>8
<1> QED  BY <1>1, <1>2, <1>7, <1>8, <1>10, <1>11, <1>12, MineStep

LEMMA SaveEpisodeVideoKeeps ==
  ASSUME IInv, SaveEpisodeVideo
  PROVE  IInv'
<1>1. main.pc = "video" /\ Mine.file = "closed" /\ MovesVideo /\ faults' = faults
  BY DEF SaveEpisodeVideo
<1>2. CASE main.key = Cameras
  <2>1. main' = [main EXCEPT !.pc = "next", !.key = 1, !.rows = 0]
    BY <1>2 DEF SaveEpisodeVideo
  <2>2. saved' = saved \cup {main.episode}
    BY <1>2 DEF SaveEpisodeVideo
  <2>3. main \in MainType /\ 1 \in Key /\ 0 \in 0..MaxRows
    BY MainFields, Constants
  <2>4. /\ main' \in MainType /\ main'.active = main.active /\ main'.then = main.then
        /\ main'.episode = main.episode /\ main'.late = main.late
        /\ main'.key = 1 /\ main'.pc = "next" /\ main'.rows = 0
    BY <2>1, <2>3 DEF MainType
  <2> QED  BY <1>1, <1>2, <2>2, <2>4, MovesVideoKeeps
<1>3. CASE main.key # Cameras
  <2>1. Steps("next") /\ saved' = saved
    BY <1>3 DEF SaveEpisodeVideo, Steps, Proceeds
  <2>2. main.key < Cameras
    BY <1>3, MainFields
  <2>3. "next" \in PC
    BY DEF PC
  <2>4. /\ main' \in MainType /\ main'.active = main.active /\ main'.then = main.then
        /\ main'.episode = main.episode /\ main'.late = main.late
        /\ main'.key = main.key + 1 /\ main'.pc = main.pc
    BY <2>1, <2>2, <2>3, StepFields
  <2>5. saved' \subseteq saved \cup {main.episode}
    BY <2>1
  <2> QED  BY <1>1, <2>2, <2>4, <2>5, MovesVideoKeeps
<1> QED  BY <1>2, <1>3

LEMMA SaveEpisodeVideoRaisesKeeps ==
  ASSUME IInv, SaveEpisodeVideoRaises
  PROVE  IInv'
<1>1. main.pc = "video" /\ faults' = faults /\ main' = [main EXCEPT !.pc = "ended"]
  BY DEF SaveEpisodeVideoRaises
<1>2. /\ main' \in MainType /\ main'.active = main.active /\ main'.then = main.then
      /\ main'.episode = main.episode /\ main'.late = main.late
      /\ main'.key = main.key /\ main'.pc = "ended"
  BY <1>1, MainFields DEF MainType
<1>3. CASE UNCHANGED <<enc, saved>>
  <2>1. Types /\ Control /\ ~main.active /\ main.then = "video"
        /\ faults \in [crashes : Nat, timeouts : Nat]
    BY <1>1 DEF IInv, Types, Control
  <2>2. PICK e \in Episode : e = main.episode
    BY <1>1, MineFields
  <2>3. Control'
    BY <1>1, <1>2, <2>1 DEF Control, InEpisode
  <2>4. ASSUME NEW j \in Key  PROVE EncoderInv(e, j)'
    <3>1. PICK z : z = enc[e][j] /\ z = enc'[e][j]
      BY <1>3
    <3>2. /\ FileOf(z) /\ Current(e, j)
          /\ e \in saved /\ OnTime(e, j) => Ended(z)
          /\ faults.timeouts = 0 /\ LeftBehind(e, j) => Over(z)
      BY <2>2, <3>1, EncoderFacts
    <3>3. OnTime(e, j)' <=> OnTime(e, j)
      BY <1>2 DEF OnTime
    <3>4. Current(e, j)'
      BY <1>1, <1>2, <2>1, <3>1, <3>2, <3>3 DEF Current
    <3>5. LeftBehind(e, j)' => LeftBehind(e, j)
      BY <1>1, <1>2, <2>1 DEF LeftBehind
    <3> QED  BY <1>1, <1>3, <3>1, <3>2, <3>3, <3>4, <3>5 DEF EncoderInv
  <2>5. ASSUME NEW j \in Key  PROVE Len(enc'[e][j].queue) <= QueueSize
    BY <1>3, <2>1 DEF Types
  <2>6. enc \in [Episode -> [Key -> EncoderType]]
    BY <2>1 DEF Types
  <2> QED  BY <1>1, <1>2, <1>3, <2>1, <2>2, <2>3, <2>4, <2>5, <2>6, EpisodeStep
<1>4. CASE Mine.file = "closed" /\ MovesVideo /\ saved' \subseteq saved \cup {main.episode}
  BY <1>1, <1>2, <1>4, MovesVideoKeeps
<1> QED  BY <1>3, <1>4 DEF SaveEpisodeVideoRaises

-----------------------------------------------------------------------------
(* Cancelling an episode.                                                  *)

LEMMA CancelEpisodeKeeps ==
  ASSUME IInv, CancelEpisode
  PROVE  IInv'
<1>1. Types /\ Control /\ main.pc = "cancel" /\ saved' = saved /\ faults' = faults
      /\ faults \in [crashes : Nat, timeouts : Nat]
      /\ enc \in [Episode -> [Key -> EncoderType]]
  BY DEF CancelEpisode, IInv, Types
<1>2. PICK e \in Episode : e = main.episode
  BY <1>1, MineFields DEF InEpisode
<1>3. main' = [main EXCEPT !.pc = "cancelJoin"]
  BY DEF CancelEpisode
<1>4. /\ main' \in MainType /\ main'.active = main.active /\ main'.then = main.then
      /\ main'.episode = main.episode /\ main'.rows = main.rows /\ main'.late = main.late
      /\ main'.key = main.key /\ main'.pc = "cancelJoin"
  BY <1>3, MainFields DEF MainType
<1>5. PICK yes \in BOOLEAN : yes = TRUE
  OBVIOUS
<1>6. PICK new : new = [k \in Key |-> [enc[e][k] EXCEPT !.stop = yes]]
  OBVIOUS
<1>7. enc' = [enc EXCEPT ![e] = new]
  BY <1>2, <1>5, <1>6 DEF CancelEpisode
<1>8. ASSUME NEW k \in Key
      PROVE  /\ new[k] \in EncoderType /\ new[k].queue = enc[e][k].queue
             /\ new[k].thread = enc[e][k].thread /\ new[k].video = enc[e][k].video
             /\ new[k].file = enc[e][k].file /\ new[k].accepted = enc[e][k].accepted
  <2>1. PICK x \in EncoderType : x = enc[e][k]
    BY <1>1
  <2>2. new[k] = [x EXCEPT !.stop = yes]
    BY <1>6, <2>1
  <2>3. /\ new[k] \in EncoderType /\ new[k].queue = x.queue /\ new[k].thread = x.thread
        /\ new[k].video = x.video /\ new[k].file = x.file /\ new[k].accepted = x.accepted
    BY <2>2 DEF EncoderType
  <2> QED  BY <2>1, <2>3
<1>9. new \in [Key -> EncoderType]
  BY <1>6, <1>8
<1>10. /\ enc' \in [Episode -> [Key -> EncoderType]] /\ enc'[e] = new
       /\ \A f \in Episode : f # e => enc'[f] = enc[f]
  BY <1>1, <1>7, <1>9
<1>11. Control'
  BY <1>1, <1>2, <1>4 DEF Control, InEpisode
<1>12. ASSUME NEW k \in Key  PROVE EncoderInv(e, k)'
  <2>1. PICK z : z = enc'[e][k]
    OBVIOUS
  <2>2. PICK x : x = enc[e][k]
    OBVIOUS
  <2>3. /\ z.thread = x.thread /\ z.video = x.video /\ z.file = x.file
        /\ z.accepted = x.accepted
    BY <1>8, <1>10, <2>1, <2>2
  <2>4. (FileOf(x) => FileOf(z)) /\ (Ended(x) => Ended(z))
    BY <2>3 DEF FileOf, Ended
  <2>5. FileOf(x) /\ (e \in saved /\ OnTime(e, k) => Ended(x))
    BY <2>2, EncoderFacts
  <2>6. OnTime(e, k)' <=> OnTime(e, k)
    BY <1>4 DEF OnTime
  <2>7. Current(e, k)'
    BY <1>4 DEF Current
  <2>8. ~LeftBehind(e, k)'
    <3>1. ~(k < main.key)
      BY <1>1, MainFields DEF Control
    <3> QED  BY <1>2, <1>4, <3>1 DEF LeftBehind
  <2> QED  BY <1>1, <2>1, <2>4, <2>5, <2>6, <2>7, <2>8 DEF EncoderInv
<1>13. ASSUME NEW j \in Key  PROVE Len(enc'[e][j].queue) <= QueueSize
  BY <1>1, <1>8, <1>10 DEF Types
<1> QED  BY <1>1, <1>2, <1>4, <1>10, <1>11, <1>12, <1>13, EpisodeStep

LEMMA CancelJoinKeeps ==
  ASSUME IInv, CancelJoin
  PROVE  IInv'
<1>1. Types /\ Control /\ main.pc = "cancelJoin" /\ saved' = saved
      /\ faults \in [crashes : Nat, timeouts : Nat]
  BY DEF CancelJoin, IInv, Types
<1>2. main.active /\ main.then # "video"
  BY <1>1 DEF Control, InEpisode
<1>3. PICK e \in Episode, k \in Key : e = main.episode /\ k = main.key
  BY <1>2, MineFields
<1>4. PICK x \in EncoderType : x = Mine
  BY <1>2, MineFields
<1>5. x = enc[e][k] /\ Len(x.queue) <= QueueSize /\ FileOf(x)
  BY <1>2, <1>3, <1>4, MineFields
<1>6. /\ faults' \in [crashes : Nat, timeouts : Nat]
      /\ faults'.timeouts = 0 => faults.timeouts = 0 /\ x.thread # "run"
  <2>1. CASE ~Running(main.episode, main.key) /\ faults' = faults
    BY <1>1, <1>3, <1>5, <2>1 DEF Running
  <2>2. CASE faults' = [faults EXCEPT !.timeouts = @ + 1]
    BY <1>1, <2>2
  <2> QED  BY <2>1, <2>2 DEF CancelJoin
<1>7. Steps("drain") /\ "drain" \in PC
  BY DEF CancelJoin, Steps, Proceeds, PC
<1>8. /\ main' \in MainType /\ main'.active = main.active /\ main'.then = main.then
      /\ main'.episode = main.episode /\ main'.rows = main.rows /\ main'.late = main.late
      /\ main.key < Cameras => main'.key = main.key + 1 /\ main'.pc = main.pc
      /\ ~(main.key < Cameras) => main.key = Cameras /\ main'.key = 1 /\ main'.pc = "drain"
  BY <1>7, StepFields
<1>9. main'.pc \in {"cancelJoin", "drain"}
  BY <1>1, <1>8
<1>10. Control'
  BY <1>1, <1>2, <1>3, <1>6, <1>8, <1>9 DEF Control, InEpisode
<1>11. PICK y : y = [x EXCEPT !.place = "cancelled"]
  OBVIOUS
<1>12. SetMine(y)
  BY <1>4, <1>11 DEF CancelJoin, RemoveTemp
<1>13. /\ y \in EncoderType /\ y.thread = x.thread /\ y.video = x.video /\ y.file = x.file
       /\ y.accepted = x.accepted /\ y.queue = x.queue /\ y.place = "cancelled"
  BY <1>11 DEF EncoderType
<1>14. ASSUME NEW j \in Key, enc'[e][j] = IF j = k THEN y ELSE enc[e][j]
       PROVE  EncoderInv(e, j)'
  <2>1. PICK z : z = enc'[e][j]
    OBVIOUS
  <2>2. PICK w : w = enc[e][j]
    OBVIOUS
  <2>3. /\ z.thread = w.thread /\ z.video = w.video /\ z.file = w.file
        /\ z.accepted = w.accepted
    BY <1>5, <1>13, <1>14, <2>1, <2>2
  <2>4. (FileOf(w) => FileOf(z)) /\ (Ended(w) => Ended(z))
    BY <2>3 DEF FileOf, Ended
  <2>5. /\ FileOf(w)
        /\ e \in saved /\ OnTime(e, j) => Ended(w)
        /\ faults.timeouts = 0 /\ LeftBehind(e, j) => Over(w)
    BY <1>3, <2>2, EncoderFacts
  <2>6. OnTime(e, j)' <=> OnTime(e, j)
    BY <1>8 DEF OnTime
  <2>7. Current(e, j)'
    BY <1>2, <1>8, <1>9 DEF Current
  <2>8. faults'.timeouts = 0 /\ LeftBehind(e, j)' => Over(z)
    <3> SUFFICES ASSUME faults'.timeouts = 0, LeftBehind(e, j)'  PROVE Over(z)
      OBVIOUS
    <3>1. CASE j = k
      BY <1>5, <1>6, <1>13, <1>14, <2>1, <3>1 DEF Over
    <3>2. CASE j # k
      <4>1. z = w
        BY <1>14, <2>1, <2>2, <3>2
      <4>2. j < k
        <5>1. j \in Nat /\ k \in Nat /\ j <= Cameras
          BY MainFields
        <5>2. main'.pc = "cancelJoin" => j < main'.key
          BY <1>3, <1>8, <1>9 DEF LeftBehind
        <5> QED  BY <1>1, <1>3, <1>8, <1>9, <3>2, <5>1, <5>2
      <4>3. LeftBehind(e, j)
        BY <1>1, <1>3, <4>2 DEF LeftBehind
      <4> QED  BY <1>6, <2>5, <4>1, <4>3
    <3> QED  BY <3>1, <3>2
  <2> QED  BY <1>1, <2>1, <2>4, <2>5, <2>6, <2>7, <2>8 DEF EncoderInv
<1> QED  BY <1>1, <1>3, <1>5, <1>6, <1>8, <1>10, <1>12, <1>13, <1>14, MineStep

-----------------------------------------------------------------------------
(* The theorems.                                                           *)

LEMMA InitInv == Init => IInv
<1> SUFFICES ASSUME Init  PROVE IInv
  OBVIOUS
<1>1. PICK no \in BOOLEAN : no = FALSE
  OBVIOUS
<1>2. main = [pc |-> "next", key |-> 1, active |-> no, then |-> "next",
              episode |-> 0, rows |-> 0, late |-> {}]
  BY <1>1 DEF Init
<1>3. /\ main \in MainType /\ main.pc = "next" /\ main.active = no /\ main.episode = 0
      /\ main.rows = 0 /\ main.late = {}
  BY <1>2, Constants DEF MainType
<1>4. saved = {} /\ faults = [crashes |-> 0, timeouts |-> 0]
  BY DEF Init
<1>5. /\ Unused \in EncoderType /\ Unused.queue = <<>> /\ Unused.thread = "none"
      /\ Unused.file = "none" /\ Unused.video = <<>>
  <2>1. PICK nothing : nothing = <<>>
    OBVIOUS
  <2>2. nothing \in Seq(Row) /\ nothing \in Seq(Row \cup {Sentinel})
    BY <2>1, EmptySeq
  <2>3. PICK x : x = Unused
    OBVIOUS
  <2>4. x = [thread |-> "none", queue |-> nothing, taken |-> nothing, stop |-> no,
             video |-> nothing,
             file |-> "none", place |-> "temp", accepted |-> nothing]
    BY <1>1, <2>1, <2>3 DEF Unused
  <2>5. x \in EncoderType /\ x.queue = nothing /\ x.thread = "none" /\ x.file = "none"
        /\ x.video = nothing
    BY <2>2, <2>4 DEF EncoderType
  <2> QED  BY <2>1, <2>3, <2>5
<1>6. enc \in [Episode -> [Key -> EncoderType]]
      /\ \A e \in Episode, k \in Key : enc[e][k] = Unused
  BY <1>5 DEF Init, Episode
<1>7. Types
  <2>1. faults \in [crashes : Nat, timeouts : Nat] /\ saved \subseteq 1..main.episode
    BY <1>4
  <2>2. ASSUME NEW e \in Episode, NEW k \in Key  PROVE Len(enc[e][k].queue) <= QueueSize
    <3>1. enc[e][k].queue = <<>>
      BY <1>5, <1>6
    <3> QED  BY <3>1, EmptySeq, Constants
  <2> QED  BY <1>3, <1>6, <2>1, <2>2 DEF Types
<1>8. Control
  BY <1>1, <1>3 DEF Control, InEpisode
<1>9. ASSUME NEW e \in Episode, NEW k \in Key  PROVE EncoderInv(e, k)
  <2>1. PICK x : x = enc[e][k]
    OBVIOUS
  <2>2. FileOf(x) /\ Over(x)
    BY <1>5, <1>6, <2>1 DEF FileOf, Over
  <2>3. e \notin saved /\ e # main.episode
    BY <1>3, <1>4, Constants DEF Episode
  <2> QED  BY <2>1, <2>2, <2>3 DEF EncoderInv
<1> QED  BY <1>7, <1>8, <1>9 DEF IInv

LEMMA Stutter ==
  ASSUME IInv, UNCHANGED vars
  PROVE  IInv'
BY DEF IInv, Types, Control, EncoderInv, Current, LeftBehind, OnTime, vars

LEMMA Inductive == IInv /\ [Next]_vars => IInv'
<1> SUFFICES ASSUME IInv, [Next]_vars  PROVE IInv'
  OBVIOUS
<1>1. CASE AddFrame
  BY <1>1, FirstFrameKeeps, NextFrameKeeps
<1>2. CASE FeedFrame
  BY <1>2, FeedFrameKeeps
<1>3. CASE Raise
  BY <1>3, RaiseKeeps
<1>4. CASE Rerecord \/ SaveEpisode
  BY <1>4, BeginKeeps
<1>5. CASE PutSentinel
  BY <1>5, PutSentinelKeeps
<1>6. CASE Join
  BY <1>6, JoinKeeps
<1>7. CASE JoinTimeout
  BY <1>7, JoinTimeoutKeeps
<1>8. CASE Drain
  BY <1>8, DrainKeeps
<1>9. CASE SaveEpisodeVideo
  BY <1>9, SaveEpisodeVideoKeeps
<1>10. CASE CancelEpisode
  BY <1>10, CancelEpisodeKeeps
<1>11. CASE CancelJoin
  BY <1>11, CancelJoinKeeps
<1>12. CASE \E e \in 1..MaxEpisodes, k \in Key : EncoderThread(e, k)
  BY <1>12, TakeFrameKeeps, EncodeFrameKeeps, FlushAndCloseKeeps, CrashKeeps
  DEF EncoderThread, Works, Episode
<1>13. CASE SaveEpisodeVideoRaises
  BY <1>13, SaveEpisodeVideoRaisesKeeps
<1>14. CASE UNCHANGED vars
  BY <1>14, Stutter
<1> QED
  BY <1>1, <1>2, <1>3, <1>4, <1>5, <1>6, <1>7, <1>8, <1>9, <1>10, <1>11, <1>12, <1>13, <1>14
  DEF Next, Main

\* In every reachable state the phase of the main thread says how far each encoder of
\* its episode is, and what was left behind is over: the invariant of recording.
THEOREM EncodingInvariant == Spec => []IInv
BY InitInv, Inductive, PTL DEF Spec

\* Every variable of recording keeps its type, and no queue grows beyond queue_maxsize,
\* for any number of cameras, rows and episodes.
THEOREM EncodingTypes == Spec => []TypeOK
<1>1. IInv => TypeOK
  <2> SUFFICES ASSUME IInv  PROVE TypeOK
    OBVIOUS
  <2>1. /\ main.pc \in PC /\ main.key \in Key /\ main.episode \in 0..MaxEpisodes
        /\ main.rows \in 0..MaxRows /\ main.active \in BOOLEAN
        /\ main.then \in {"next", "video", "ended"} /\ main.late \subseteq Episode \X Key
    BY MainFields
  <2>2. saved \subseteq 1..MaxEpisodes
    <3>1. main.episode <= MaxEpisodes /\ main.episode \in Nat /\ MaxEpisodes \in Nat
      BY MainFields, Constants
    <3>2. saved \subseteq 1..main.episode
      BY DEF IInv, Types
    <3> QED  BY <3>1, <3>2
  <2>3. ASSUME NEW e \in Episode, NEW k \in Key
        PROVE  /\ enc[e][k].thread \in {"none", "run", "done", "crashed"}
               /\ enc[e][k].queue \in Seq(Row \cup {Sentinel})
               /\ Len(enc[e][k].queue) <= QueueSize
               /\ enc[e][k].taken \in Seq(Row)
               /\ enc[e][k].video \in Seq(Row) /\ enc[e][k].stop \in BOOLEAN
               /\ enc[e][k].file \in {"none", "open", "closed"}
               /\ enc[e][k].place \in {"temp", "dataset", "cancelled"}
    BY EncoderFacts, EncoderFields DEF Item
  <2> QED  BY <2>1, <2>2, <2>3 DEF TypeOK, PC, Episode
<1> QED  BY <1>1, EncodingInvariant, PTL

\* Whatever the encoders' speed, and whatever crashes and times out, an episode is saved
\* only if every encoder that was waited for came to its end without a crash, and its
\* video is every frame that was accepted, in order.
THEOREM VideosAreComplete == Spec => []SavedVideosAreComplete
<1>1. IInv => SavedVideosAreComplete
  <2> SUFFICES ASSUME IInv, NEW e \in saved, NEW k \in Key, OnTime(e, k)
               PROVE  enc[e][k].thread = "done" /\ enc[e][k].video = enc[e][k].accepted
    BY DEF SavedVideosAreComplete
  <2>1. e \in Episode
    <3>1. main.episode <= MaxEpisodes /\ main.episode \in Nat /\ MaxEpisodes \in Nat
      BY MainFields, Constants
    <3>2. e \in 1..main.episode
      BY DEF IInv, Types
    <3> QED  BY <3>1, <3>2 DEF Episode
  <2> QED  BY <2>1, EncoderFacts DEF Ended
<1> QED  BY <1>1, EncodingInvariant, PTL

\* When the recording has ended, and no thread timed out, no encoder thread runs on.  A
\* video lies about in a temporary directory only if saving its episode raised after its
\* encoders had finished, and then only from the camera on at which it raised.
THEOREM NothingIsLeftBehind == Spec => []NothingLeftBehind
<1>1. IInv => NothingLeftBehind
  <2> SUFFICES ASSUME IInv, main.pc = "ended", faults.timeouts = 0,
                      NEW e \in Episode, NEW k \in Key
               PROVE  /\ ~Running(e, k)
                      /\ enc[e][k].file # "none" /\ enc[e][k].place = "temp" =>
                           SavingRaised /\ e = main.episode /\ k >= main.key
    BY DEF NothingLeftBehind, Episode
  <2>1. CASE LeftBehind(e, k)
    <3>1. Over(enc[e][k])
      BY <2>1, EncoderFacts
    <3> QED  BY <3>1 DEF Over, Running
  <2>2. CASE ~LeftBehind(e, k)
    <3>1. e = main.episode /\ main.then = "video" /\ ~(k < main.key)
      BY <2>2 DEF LeftBehind
    <3>2. k >= main.key
      BY <3>1, MainFields
    <3>3. Current(e, k)
      BY <3>1, EncoderFacts
    <3>4. OnTime(e, k)
      BY DEF IInv, Control, OnTime
    <3>5. Ended(enc[e][k])
      BY <3>1, <3>3, <3>4 DEF Current
    <3> QED  BY <3>1, <3>2, <3>5 DEF Ended, Running, SavingRaised
  <2> QED  BY <2>1, <2>2
<1> QED  BY <1>1, EncodingInvariant, PTL
=============================================================================
