------------------------- MODULE DatasetStorage_proofs -------------------------
(***************************************************************************)
(* What stays of a dataset on disk, for every length of the episodes,      *)
(* size of the buffer and of the chunks, and number of sessions, failures  *)
(* and crashes.                                                            *)
(***************************************************************************)
EXTENDS DatasetStorage, SequenceTheorems, FiniteSetTheorems, WellFoundedInduction, TLAPS

-----------------------------------------------------------------------------
(* The files in their order.                                               *)

Pair == Nat \X Nat

LEMMA BeforeIsOrder ==
  ASSUME NEW f \in Pair, NEW g \in Pair, NEW h \in Pair
  PROVE  /\ ~Before(f, f)
         /\ Before(f, g) /\ Before(g, h) => Before(f, h)
         /\ f # g => Before(f, g) \/ Before(g, f)
<1>1. PICK f1, f2, g1, g2, h1, h2 \in Nat :
        f = <<f1, f2>> /\ g = <<g1, g2>> /\ h = <<h1, h2>>
  BY SMTT(30) DEF Pair
<1> QED  BY <1>1 DEF Before

\* The files before a file.
Below(S, f) == {g \in S : Before(g, f)}

LEMMA BelowGrows ==
  ASSUME NEW S \in SUBSET Pair, IsFiniteSet(S), NEW f \in S, NEW g \in S, Before(f, g)
  PROVE  Cardinality(Below(S, f)) < Cardinality(Below(S, g))
<1>1. IsFiniteSet(Below(S, f)) /\ IsFiniteSet(Below(S, g))
  BY FS_Subset DEF Below
<1>2. Below(S, f) \subseteq Below(S, g) /\ f \in Below(S, g) /\ f \notin Below(S, f)
  BY BeforeIsOrder DEF Below
<1>3. /\ Cardinality(Below(S, f)) <= Cardinality(Below(S, g))
      /\ Cardinality(Below(S, f)) # Cardinality(Below(S, g))
  <2>1. Below(S, f) \in SUBSET Below(S, g) /\ Below(S, g) # Below(S, f)
    BY <1>2
  <2> QED  BY <1>1, <2>1, FS_Subset
<1>4. Cardinality(Below(S, f)) \in Nat /\ Cardinality(Below(S, g)) \in Nat
  BY <1>1, FS_CardinalityType
<1> QED  BY <1>3, <1>4

\* Every place has a file.
LEMMA PlaceHasFile ==
  ASSUME NEW S \in SUBSET Pair, IsFiniteSet(S), NEW i \in 1..Cardinality(S)
  PROVE  \E f \in S : Cardinality(Below(S, f)) = i - 1
<1>1. PICK n \in Nat : n = Cardinality(S)
  BY FS_CardinalityType
<1>2. ASSUME NEW f \in S  PROVE Cardinality(Below(S, f)) \in 0..(n - 1)
  <2>1. /\ IsFiniteSet(Below(S, f)) /\ Below(S, f) \in SUBSET S
        /\ Cardinality(Below(S, f)) <= n /\ (Cardinality(Below(S, f)) = n => S = Below(S, f))
    BY <1>1, FS_Subset DEF Below
  <2>2. f \notin Below(S, f)
    BY BeforeIsOrder DEF Below
  <2>3. Cardinality(Below(S, f)) # n
    BY <2>1, <2>2
  <2>4. Cardinality(Below(S, f)) \in Nat
    BY <2>1, FS_CardinalityType
  <2> QED  BY <2>1, <2>3, <2>4
<1>3. PICK place : place = [f \in S |-> Cardinality(Below(S, f)) + 1]
  OBVIOUS
<1>4. place \in [S -> 1..n]
  <2>1. \A f \in S : Cardinality(Below(S, f)) + 1 \in 1..n
    BY <1>2
  <2> QED  BY <1>3, <2>1
<1>5. ASSUME NEW f \in S, NEW g \in S, place[f] = place[g]  PROVE f = g
  <2> SUFFICES ASSUME f # g  PROVE FALSE
    OBVIOUS
  <2>1. Before(f, g) \/ Before(g, f)
    BY BeforeIsOrder
  <2>2. Cardinality(Below(S, f)) # Cardinality(Below(S, g))
    <3>1. Cardinality(Below(S, f)) \in Nat /\ Cardinality(Below(S, g)) \in Nat
      BY <1>2
    <3> QED  BY <2>1, <3>1, BelowGrows
  <2>3. Cardinality(Below(S, f)) \in Nat /\ Cardinality(Below(S, g)) \in Nat
    BY <1>2
  <2> QED  BY <1>3, <1>5, <2>2, <2>3
<1>6. place \in Injection(S, 1..n)
  BY <1>4, <1>5 DEF Injection, IsInjective
<1>7. IsFiniteSet(1..n) /\ Cardinality(1..n) = n
  BY FS_Interval
<1>8. place \in Surjection(S, 1..n)
  BY <1>1, <1>6, <1>7, FS_Injection
<1>9. PICK f \in S : place[f] = i
  BY <1>1, <1>8 DEF Surjection
<1> QED  BY <1>2, <1>3, <1>9

LEMMA NthIsFile ==
  ASSUME NEW fs, DOMAIN fs \subseteq Pair, IsFiniteSet(DOMAIN fs),
         NEW i \in 1..Cardinality(DOMAIN fs)
  PROVE  Nth(fs, i) \in DOMAIN fs /\ Cardinality(Below(DOMAIN fs, Nth(fs, i))) = i - 1
<1>1. \E f \in DOMAIN fs : Cardinality({g \in DOMAIN fs : Before(g, f)}) = i - 1
  BY PlaceHasFile DEF Below
<1> QED  BY <1>1 DEF Nth, Below

-----------------------------------------------------------------------------
(* The content of the files.                                               *)

LEMMA LeastNat ==
  ASSUME NEW T \in SUBSET Nat, T # {}
  PROVE  \E m \in T : \A k \in T : m <= k
<1>1. IsWellFoundedOn(OpToRel(<, Nat), Nat)
  BY NatLessThanWellFounded
<1>2. PICK m \in T : \A k \in T : ~(<<k, m>> \in OpToRel(<, Nat))
  BY <1>1, WFMin
<1>3. \A k \in T : ~(k < m)
  BY <1>2 DEF OpToRel
<1> QED  BY <1>3

\* The first n sequences of seqs, one after the other.
Joins(seqs, n, g) ==
  g = [i \in 1..n |-> IF i = 1 THEN seqs[i] ELSE g[i - 1] \o seqs[i]]

LEMMA JoinsExist ==
  ASSUME NEW S, NEW seqs \in Seq(Seq(S)), NEW n \in 0..Len(seqs)
  PROVE  \E g : Joins(seqs, n, g) /\ \A i \in 1..n : g[i] \in Seq(S)
<1> DEFINE Good(m) == \E g : Joins(seqs, m, g) /\ \A i \in 1..m : g[i] \in Seq(S)
           Bad == {m \in Nat : m <= Len(seqs) /\ ~Good(m)}
<1>1. Good(0)
  <2>1. PICK g : g = [i \in 1..0 |-> IF i = 1 THEN seqs[i] ELSE seqs[i]]
    OBVIOUS
  <2>2. Joins(seqs, 0, g)
    BY <2>1 DEF Joins
  <2> QED  BY <2>2
<1>2. ASSUME NEW m \in Nat, m + 1 <= Len(seqs), Good(m)  PROVE Good(m + 1)
  <2>1. PICK g : Joins(seqs, m, g) /\ \A i \in 1..m : g[i] \in Seq(S)
    BY <1>2
  <2>2. PICK h : h = [i \in 1..(m + 1) |-> IF i = 1 THEN seqs[i]
                                           ELSE IF i <= m THEN g[i] ELSE g[i - 1] \o seqs[i]]
    OBVIOUS
  <2>3. ASSUME NEW i \in 1..(m + 1)
        PROVE  /\ h[i] = IF i = 1 THEN seqs[i] ELSE h[i - 1] \o seqs[i]
               /\ h[i] \in Seq(S)
    <3>1. seqs[i] \in Seq(S)
      <4>1. i \in 1..Len(seqs)
        BY <1>2
      <4> QED  BY <4>1, ElementOfSeq
    <3>2. \A j \in 1..m : g[j] = IF j = 1 THEN seqs[j] ELSE g[j - 1] \o seqs[j]
      BY <2>1 DEF Joins
    <3>3. CASE i = 1
      BY <2>2, <3>1, <3>3
    <3>4. CASE i # 1
      <4>1. i - 1 \in 1..m /\ i - 1 \in 1..(m + 1)
        BY <3>4
      <4>2. h[i - 1] = g[i - 1]
        BY <2>2, <3>2, <4>1
      <4>3. h[i] = g[i - 1] \o seqs[i]
        <5>1. CASE i <= m
          <6>1. i \in 1..m
            BY <5>1
          <6> QED  BY <2>2, <3>2, <3>4, <5>1, <6>1
        <5>2. CASE ~(i <= m)
          BY <2>2, <3>4, <5>2
        <5> QED  BY <5>1, <5>2
      <4>4. g[i - 1] \in Seq(S)
        BY <2>1, <4>1
      <4>5. g[i - 1] \o seqs[i] \in Seq(S)
        BY <3>1, <4>4, ConcatProperties
      <4> QED  BY <3>4, <4>2, <4>3, <4>5
    <3> QED  BY <3>3, <3>4
  <2>4. h = [i \in 1..(m + 1) |-> IF i = 1 THEN seqs[i] ELSE h[i - 1] \o seqs[i]]
    BY ZenonT(60), <2>2, <2>3
  <2> QED  BY <2>3, <2>4 DEF Joins
<1>3. Bad = {}
  <2> SUFFICES ASSUME Bad # {}  PROVE FALSE
    OBVIOUS
  <2>1. PICK m \in Bad : \A k \in Bad : m <= k
    <3>1. Bad \in SUBSET Nat
      OBVIOUS
    <3> QED  BY <3>1, LeastNat
  <2>2. m \in Nat /\ m <= Len(seqs) /\ ~Good(m)
    OBVIOUS
  <2>3. m # 0
    BY <1>1, <2>2
  <2>4. PICK k \in Nat : k + 1 = m
    BY <2>2, <2>3
  <2>5. k \notin Bad
    BY <2>1, <2>2, <2>4
  <2>6. Good(k)
    BY <2>2, <2>4, <2>5
  <2> QED  BY <1>2, <2>2, <2>4, <2>6
<1> QED  BY <1>3

LEMMA JoinsUnique ==
  ASSUME NEW seqs, NEW n \in Nat, NEW g, NEW h, Joins(seqs, n, g), Joins(seqs, n, h)
  PROVE  g = h
<1> DEFINE Bad == {i \in 1..n : g[i] # h[i]}
<1>1. \A i \in 1..n : /\ g[i] = IF i = 1 THEN seqs[i] ELSE g[i - 1] \o seqs[i]
                      /\ h[i] = IF i = 1 THEN seqs[i] ELSE h[i - 1] \o seqs[i]
  BY DEF Joins
<1>2. Bad = {}
  <2> SUFFICES ASSUME Bad # {}  PROVE FALSE
    OBVIOUS
  <2>1. PICK m \in Bad : \A k \in Bad : m <= k
    <3>1. Bad \in SUBSET Nat
      OBVIOUS
    <3> QED  BY <3>1, LeastNat
  <2>2. m \in 1..n /\ g[m] # h[m]
    OBVIOUS
  <2>3. m # 1
    BY <1>1, <2>2
  <2>4. m - 1 \in 1..n /\ ~(m <= m - 1)
    BY <2>2, <2>3
  <2>5. g[m - 1] = h[m - 1]
    BY <2>1, <2>4
  <2> QED  BY <1>1, <2>2, <2>5
<1>3. \A i \in 1..n : g[i] = h[i]
  BY <1>2
<1>4. /\ g = [i \in 1..n |-> g[i]]
      /\ h = [i \in 1..n |-> h[i]]
  BY DEF Joins
<1> QED  BY <1>3, <1>4

LEMMA FlattenIs ==
  ASSUME NEW S, NEW seqs \in Seq(Seq(S)), NEW n \in Nat, n = Len(seqs), n # 0,
         NEW g, Joins(seqs, n, g)
  PROVE  FlattenSeq(seqs) = g[n]
<1>1. PICK h : h = CHOOSE f : Joins(seqs, n, f)
  OBVIOUS
<1>2. Joins(seqs, n, h)
  BY <1>1
<1>3. FlattenSeq(seqs) = h[n]
  BY <1>1 DEF FlattenSeq, Joins
<1>4. h = g
  BY <1>2, JoinsUnique
<1> QED  BY <1>3, <1>4

\* A sequence of sequences is flattened to a sequence of what they hold.
LEMMA FlattenType ==
  ASSUME NEW S, NEW seqs \in Seq(Seq(S))
  PROVE  FlattenSeq(seqs) \in Seq(S)
<1>1. PICK n \in Nat : n = Len(seqs)
  BY LenProperties
<1>2. CASE n = 0
  <2>1. seqs = <<>>
    BY <1>1, <1>2, EmptySeq
  <2> QED  BY <1>1, <1>2, <2>1, EmptySeq DEF FlattenSeq
<1>3. CASE n # 0
  <2>1. PICK g : Joins(seqs, n, g) /\ \A i \in 1..n : g[i] \in Seq(S)
    BY <1>1, JoinsExist
  <2>2. FlattenSeq(seqs) = g[n]
    BY <1>1, <1>3, <2>1, FlattenIs
  <2>3. n \in 1..n
    BY <1>3
  <2> QED  BY <2>1, <2>2, <2>3
<1> QED  BY <1>2, <1>3

\* The files of a kind.
Holds(content, S) == content \in Seq(S)
FilesOf(fs, S) ==
  /\ DOMAIN fs \subseteq File /\ IsFiniteSet(DOMAIN fs)
  /\ fs \in [DOMAIN fs -> Seq(S)]

LEMMA ContentsType ==
  ASSUME NEW fs, NEW S, FilesOf(fs, S)
  PROVE  Contents(fs) \in Seq(S)
<1>1. PICK n \in Nat : n = Cardinality(DOMAIN fs)
  BY FS_CardinalityType DEF FilesOf
<1>2. DOMAIN fs \subseteq Pair /\ IsFiniteSet(DOMAIN fs)
  BY StorageAssumption DEF FilesOf, File, Pair
<1>3. PICK seqs : seqs = [i \in 1..n |-> fs[Nth(fs, i)]]
  OBVIOUS
<1>4. ASSUME NEW i \in 1..n  PROVE fs[Nth(fs, i)] \in Seq(S)
  <2>1. Nth(fs, i) \in DOMAIN fs
    BY <1>1, <1>2, NthIsFile
  <2> QED  BY <2>1 DEF FilesOf
<1>5. seqs \in [1..n -> Seq(S)]
  BY <1>3, <1>4
<1>6. seqs \in Seq(Seq(S))
  BY <1>5
<1>7. Contents(fs) = FlattenSeq(seqs)
  BY <1>1, <1>3 DEF Contents
<1> QED  BY <1>6, <1>7, FlattenType

\* The files n are the files fs with this content in f.
Written(n, fs, f, content) ==
  /\ DOMAIN n = DOMAIN fs \cup {f} /\ n[f] = content
  /\ \A g \in DOMAIN fs : g # f => n[g] = fs[g]

LEMMA WithFile ==
  ASSUME NEW S, NEW fs, FilesOf(fs, S), NEW f \in File, NEW content, Holds(content, S)
  PROVE  FilesOf(With(fs, f, content), S) /\ Written(With(fs, f, content), fs, f, content)
<1>1. PICK new : new = With(fs, f, content)
  OBVIOUS
<1>2. new = [g \in DOMAIN fs \cup {f} |-> IF g = f THEN content ELSE fs[g]]
  BY <1>1 DEF With
<1>3. DOMAIN new = DOMAIN fs \cup {f} /\ new[f] = content
  BY <1>2
<1>4. \A g \in DOMAIN fs : g # f => new[g] = fs[g]
  BY <1>2
<1>5. IsFiniteSet(DOMAIN new)
  BY <1>3, FS_AddElement DEF FilesOf
<1>6. FilesOf(new, S)
  <2>1. \A g \in DOMAIN fs \cup {f} : new[g] \in Seq(S)
    BY <1>3, <1>4 DEF FilesOf, Holds
  <2>2. new \in [DOMAIN fs \cup {f} -> Seq(S)]
    BY <1>2, <2>1
  <2> QED  BY <1>3, <1>5, <2>2 DEF FilesOf
<1> QED  BY <1>1, <1>3, <1>4, <1>6 DEF Written

-----------------------------------------------------------------------------
(* The invariant.                                                          *)

Place == {"closed", "idle", "video", "meta", "info", "failed"}
Block == [episode : Nat, first : Nat, length : Nat]
Segment == [episode : Nat, length : Nat]

SessionType ==
  [pc : Place, length : Nat, record : Saved \cup Filmed \cup {None}]
WriterType == [latest : File \cup {None}, open : File \cup {None}]
MetaType ==
  [episodes : Seq(Record), latest : Record \cup {None}, buffer : Seq(Record),
   open : File \cup {None}]
PastType ==
  [sessions : Nat, failures : Nat, crashes : Nat, clean : Nat, kept : Nat,
   reopened : BOOLEAN, uncounted : SUBSET Nat]
Counts == [episodes : Nat, frames : Nat]

Types ==
  /\ info \in Counts /\ disk \in Counts \cup {None}
  /\ FilesOf(data, Block) /\ FilesOf(video, Segment) /\ FilesOf(meta, Record)
  /\ broken \subseteq {"data", "meta"} \X File /\ torn \subseteq DOMAIN video
  /\ session \in SessionType /\ writer \in WriterType /\ metaw \in MetaType
  /\ past \in PastType

\* Nothing has failed, and no process has died.
Clean == past.failures + past.crashes = 0

\* What save_episode has written so far.
EpisodeInv ==
  /\ session.pc = "video" => session.record \in Saved
  /\ session.pc = "meta" =>
       session.record \in Filmed /\ session.record.video \in DOMAIN video
  /\ metaw.latest # None => metaw.latest.video \in DOMAIN video
  /\ writer.open # None => writer.open \in DOMAIN data
  /\ session.pc = "closed" => writer = FreshWriter

\* Every record is in the file it names.
InFile(fs) == \A f \in DOMAIN fs : \A i \in 1..Len(fs[f]) : fs[f][i].file = f

\* The open file and the buffer are about the file of the latest record.
RecordsInv ==
  /\ InFile(meta)
  /\ \A i \in 1..Len(metaw.buffer) :
       metaw.latest # None /\ metaw.buffer[i].file = metaw.latest.file
  /\ metaw.open # None =>
       metaw.open \in DOMAIN meta /\ metaw.latest # None /\ metaw.latest.file = metaw.open
  /\ past.failures = 0 => Len(metaw.buffer) < BufferSize

\* What the process counts, and what info.json says.
CountsInv ==
  /\ past.kept <= past.clean /\ past.clean <= info.episodes
  /\ disk # None => past.clean <= disk.episodes /\ disk.episodes <= info.episodes
  /\ past.failures = 0 => disk = info

IInv == Types /\ EpisodeInv /\ RecordsInv /\ CountsInv

-----------------------------------------------------------------------------
(* The helpers of the steps.                                               *)

LEMMA NextIsFile ==
  ASSUME NEW f \in File
  PROVE  NextFile(f) \in File
<1>1. ChunksSize \in Nat /\ ChunksSize >= 1
  BY StorageAssumption
<1>2. PICK a \in Nat, b \in 0..(ChunksSize - 1) : f = <<a, b>>
  BY DEF File
<1>3. f[1] = a /\ f[2] = b
  BY <1>2
<1>4. CASE b = ChunksSize - 1
  <2>1. NextFile(f) = <<a + 1, 0>>
    BY <1>3, <1>4 DEF NextFile
  <2>2. a + 1 \in Nat /\ 0 \in 0..(ChunksSize - 1)
    BY <1>1
  <2> QED  BY <2>1, <2>2 DEF File
<1>5. CASE b # ChunksSize - 1
  <2>1. NextFile(f) = <<a, b + 1>>
    BY <1>3, <1>5 DEF NextFile
  <2>2. b + 1 \in 0..(ChunksSize - 1)
    BY <1>1, <1>5
  <2> QED  BY <2>1, <2>2 DEF File
<1> QED  BY <1>4, <1>5

\* The first file of a session.
LEMMA FirstIsFile ==
  ASSUME Types
  PROVE  /\ FirstOfSession("data") \in File /\ FirstOfSession("video") \in File
         /\ FirstOfSession("file") \in File
<1>1. FirstFile \in File
  <2>1. 0 \in 0..(ChunksSize - 1)
    BY StorageAssumption
  <2> QED  BY <2>1 DEF FirstFile, File
<1>2. CASE metaw.episodes = <<>>
  BY <1>1, <1>2 DEF FirstOfSession
<1>3. CASE metaw.episodes # <<>>
  <2>1. PICK q \in Seq(Record) : q = metaw.episodes /\ q # <<>>
    BY <1>3 DEF Types, MetaType
  <2>2. Len(q) \in 1..Len(q)
    BY <2>1, EmptySeq
  <2>3. PICK r \in Record : r = Last(metaw.episodes)
    BY <2>1, <2>2, ElementOfSeq DEF Last
  <2>4. r.data \in File /\ r.video \in File /\ r.file \in File
    BY DEF Record
  <2>5. /\ FirstOfSession("data") = NextFile(r.data)
        /\ FirstOfSession("video") = NextFile(r.video)
        /\ FirstOfSession("file") = NextFile(r.file)
    BY <1>3, <2>3 DEF FirstOfSession
  <2> QED  BY <2>4, <2>5, NextIsFile
<1> QED  BY <1>2, <1>3

LEMMA InFileIs ==
  ASSUME NEW fs, FilesOf(fs, Record)
  PROVE  InFile(fs) <=> \A f \in DOMAIN fs : \A r \in ToSet(fs[f]) : r.file = f
<1>1. ASSUME NEW f \in DOMAIN fs
      PROVE  (\A i \in 1..Len(fs[f]) : fs[f][i].file = f)
               <=> (\A r \in ToSet(fs[f]) : r.file = f)
  <2>1. PICK q \in Seq(Record) : q = fs[f]
    BY DEF FilesOf
  <2>2. ToSet(q) = {q[i] : i \in 1..Len(q)}
    BY DEF ToSet
  <2> QED  BY <2>1, <2>2
<1> QED  BY <1>1 DEF InFile

\* What _flush_metadata_buffer leaves.
LEMMA FlushedFiles ==
  ASSUME NEW m, FilesOf(m, Record), InFile(m), NEW buffer \in Seq(Record), NEW f \in File,
         \A i \in 1..Len(buffer) : buffer[i].file = f,
         NEW open, open = None \/ (open = f /\ open \in DOMAIN m)
  PROVE  /\ FilesOf(Flushed(m, buffer, open).meta, Record)
         /\ InFile(Flushed(m, buffer, open).meta)
         /\ DOMAIN m \subseteq DOMAIN Flushed(m, buffer, open).meta
         /\ \/ Flushed(m, buffer, open).open = open
            \/ Flushed(m, buffer, open).open = f /\ open = None
         /\ Flushed(m, buffer, open).open # None =>
              Flushed(m, buffer, open).open \in DOMAIN Flushed(m, buffer, open).meta
<1>1. CASE buffer = <<>>
  <2>1. Flushed(m, buffer, open).meta = m /\ Flushed(m, buffer, open).open = open
    BY <1>1 DEF Flushed
  <2> QED  BY <2>1
<1>2. CASE buffer # <<>> /\ open = None
  <2>1. 1 \in 1..Len(buffer) /\ buffer[1].file = f
    BY <1>2, EmptySeq
  <2>2. PICK n : n = With(m, f, buffer)
    OBVIOUS
  <2>3. FilesOf(n, Record) /\ Written(n, m, f, buffer)
    <3>1. Holds(buffer, Record)
      BY DEF Holds
    <3> QED  BY <2>2, <3>1, WithFile
  <2>4. Flushed(m, buffer, open).meta = n /\ Flushed(m, buffer, open).open = f
    BY <1>2, <2>1, <2>2 DEF Flushed
  <2>5. InFile(n)
    BY <2>3 DEF InFile, Written
  <2> QED  BY <1>2, <2>3, <2>4, <2>5 DEF Written
<1>3. CASE buffer # <<>> /\ open # None
  <2>1. open = f /\ f \in DOMAIN m
    BY <1>3
  <2>2. PICK q \in Seq(Record) : q = m[f] /\ \A i \in 1..Len(q) : q[i].file = f
    BY <2>1 DEF FilesOf, InFile
  <2>9. /\ q \o buffer \in Seq(Record) /\ Len(q \o buffer) = Len(q) + Len(buffer)
        /\ \A i \in 1..(Len(q) + Len(buffer)) :
             (q \o buffer)[i] = IF i <= Len(q) THEN q[i] ELSE buffer[i - Len(q)]
    BY ConcatProperties
  <2>3. PICK c \in Seq(Record) :
          /\ c = q \o buffer /\ Len(c) = Len(q) + Len(buffer)
          /\ \A i \in 1..Len(c) : c[i] = IF i <= Len(q) THEN q[i] ELSE buffer[i - Len(q)]
    BY <2>9
  <2>4. ASSUME NEW i \in 1..Len(c)  PROVE c[i].file = f
    <3>1. Len(q) \in Nat /\ Len(buffer) \in Nat
      OBVIOUS
    <3>2. CASE i <= Len(q)
      <4>1. i \in 1..Len(q) /\ c[i] = q[i]
        BY <2>3, <3>1, <3>2
      <4> QED  BY <2>2, <4>1
    <3>3. CASE ~(i <= Len(q))
      <4>1. i - Len(q) \in 1..Len(buffer) /\ c[i] = buffer[i - Len(q)]
        BY <2>3, <3>1, <3>3
      <4> QED  BY <4>1
    <3> QED  BY <3>2, <3>3
  <2>5. PICK n : n = With(m, f, c)
    OBVIOUS
  <2>6. FilesOf(n, Record) /\ Written(n, m, f, c)
    <3>1. Holds(c, Record)
      BY DEF Holds
    <3> QED  BY <2>5, <3>1, WithFile
  <2>7. Flushed(m, buffer, open).meta = n /\ Flushed(m, buffer, open).open = f
    BY <1>3, <2>1, <2>2, <2>3, <2>5 DEF Flushed
  <2>8. InFile(n)
    BY <2>4, <2>6 DEF InFile, Written
  <2> QED  BY <2>1, <2>6, <2>7, <2>8 DEF Written
<1> QED  BY <1>1, <1>2, <1>3

-----------------------------------------------------------------------------
(* Contents, when something is written.                                    *)

LEMMA NthIsOnly ==
  ASSUME NEW fs, DOMAIN fs \subseteq Pair, IsFiniteSet(DOMAIN fs),
         NEW i \in 1..Cardinality(DOMAIN fs),
         NEW f \in DOMAIN fs, Cardinality(Below(DOMAIN fs, f)) = i - 1
  PROVE  Nth(fs, i) = f
<1>1. PICK g \in DOMAIN fs : g = Nth(fs, i) /\ Cardinality(Below(DOMAIN fs, g)) = i - 1
  BY NthIsFile
<1> SUFFICES ASSUME g # f  PROVE FALSE
  BY <1>1
<1>2. Before(f, g) \/ Before(g, f)
  BY BeforeIsOrder
<1>3. Cardinality(Below(DOMAIN fs, f)) \in Nat /\ Cardinality(Below(DOMAIN fs, g)) \in Nat
  BY FS_CardinalityType, FS_Subset DEF Below
<1>4. \/ Cardinality(Below(DOMAIN fs, f)) < Cardinality(Below(DOMAIN fs, g))
      \/ Cardinality(Below(DOMAIN fs, g)) < Cardinality(Below(DOMAIN fs, f))
  BY <1>2, BelowGrows
<1> QED  BY <1>1, <1>3, <1>4

LEMMA FlattenAppend ==
  ASSUME NEW S, NEW seqs \in Seq(Seq(S)), NEW c \in Seq(S)
  PROVE  FlattenSeq(Append(seqs, c)) = FlattenSeq(seqs) \o c
<1>1. PICK n \in Nat : n = Len(seqs)
  BY LenProperties
<1>2. PICK more \in Seq(Seq(S)) :
        /\ more = Append(seqs, c) /\ Len(more) = n + 1
        /\ \A i \in 1..n : more[i] = seqs[i]
        /\ more[n + 1] = c
  BY <1>1, AppendProperties
<1>3. n + 1 \in Nat /\ n + 1 # 0
  OBVIOUS
<1>4. CASE n = 0
  <2>1. PICK h : h = [i \in 1..1 |-> c]
    OBVIOUS
  <2>2. Joins(more, 1, h)
    <3>1. \A i \in 1..1 : c = IF i = 1 THEN more[i] ELSE h[i - 1] \o more[i]
      BY <1>2, <1>4
    <3>2. h = [i \in 1..1 |-> IF i = 1 THEN more[i] ELSE h[i - 1] \o more[i]]
      BY <2>1, <3>1
    <3> QED  BY <3>2 DEF Joins
  <2>3. Len(more) = 1
    BY <1>2, <1>4
  <2>4. FlattenSeq(more) = h[1]
    <3>1. PICK m \in Nat : m = 1 /\ m # 0
      OBVIOUS
    <3>2. m = Len(more) /\ Joins(more, m, h)
      BY <2>2, <2>3, <3>1
    <3>3. FlattenSeq(more) = h[m]
      BY <3>1, <3>2, FlattenIs
    <3> QED  BY <3>1, <3>3
  <2>5. h[1] = c
    BY <2>1
  <2>6. seqs = <<>>
    BY <1>1, <1>4, EmptySeq
  <2>7. FlattenSeq(seqs) = <<>>
    BY <2>6, EmptySeq DEF FlattenSeq
  <2>8. <<>> \o c = c
    BY ConcatEmptySeq
  <2> QED  BY <1>2, <2>4, <2>5, <2>7, <2>8
<1>5. CASE n # 0
  <2>1. PICK g : Joins(seqs, n, g) /\ \A i \in 1..n : g[i] \in Seq(S)
    BY <1>1, JoinsExist
  <2>2. \A i \in 1..n : g[i] = IF i = 1 THEN seqs[i] ELSE g[i - 1] \o seqs[i]
    BY <2>1 DEF Joins
  <2>3. PICK h : h = [i \in 1..(n + 1) |-> IF i <= n THEN g[i] ELSE g[n] \o c]
    OBVIOUS
  <2>4. ASSUME NEW i \in 1..(n + 1)
        PROVE  h[i] = IF i = 1 THEN more[i] ELSE h[i - 1] \o more[i]
    <3>1. CASE i <= n
      <4>1. i \in 1..n /\ h[i] = g[i] /\ more[i] = seqs[i]
        BY <1>2, <2>3, <3>1
      <4>2. i # 1 => i - 1 \in 1..(n + 1) /\ i - 1 <= n
        BY <4>1
      <4>3. i # 1 => h[i - 1] = g[i - 1]
        BY <2>3, <4>2
      <4> QED  BY <2>2, <4>1, <4>3
    <3>2. CASE ~(i <= n)
      <4>1. i = n + 1 /\ i # 1 /\ n \in 1..(n + 1)
        BY <1>5, <3>2
      <4>2. h[i] = g[n] \o c /\ h[n] = g[n] /\ i - 1 = n /\ more[i] = c
        BY <1>2, <2>3, <4>1
      <4> QED  BY <4>1, <4>2
    <3> QED  BY <3>1, <3>2
  <2>5. h = [i \in 1..(n + 1) |-> IF i = 1 THEN more[i] ELSE h[i - 1] \o more[i]]
    BY <2>3, <2>4
  <2>6. Joins(more, n + 1, h)
    BY <2>5 DEF Joins
  <2>7. FlattenSeq(more) = h[n + 1]
    BY <1>2, <1>3, <2>6, FlattenIs
  <2>8. FlattenSeq(seqs) = g[n]
    BY <1>1, <1>5, <2>1, FlattenIs
  <2>9. h[n + 1] = g[n] \o c
    BY <2>3
  <2> QED  BY <1>2, <2>7, <2>8, <2>9
<1> QED  BY <1>4, <1>5

\* No file comes after f.
IsLast(fs, f) == \A g \in DOMAIN fs : g # f => Before(g, f)

\* A new last file adds its content.
LEMMA NewFileContents ==
  ASSUME NEW S, NEW fs, FilesOf(fs, S), NEW f \in File, f \notin DOMAIN fs, IsLast(fs, f),
         NEW c, Holds(c, S)
  PROVE  Contents(With(fs, f, c)) = Contents(fs) \o c
<1>1. PICK n \in Nat : n = Cardinality(DOMAIN fs)
  BY FS_CardinalityType DEF FilesOf
<1>2. File \subseteq Pair
  BY StorageAssumption DEF File, Pair
<1>3. DOMAIN fs \subseteq Pair /\ IsFiniteSet(DOMAIN fs)
  BY <1>2 DEF FilesOf
<1>4. PICK new : new = With(fs, f, c)
  OBVIOUS
<1>5. FilesOf(new, S) /\ Written(new, fs, f, c)
  BY <1>4, WithFile
<1>6. DOMAIN new = DOMAIN fs \cup {f} /\ DOMAIN new \subseteq Pair /\ IsFiniteSet(DOMAIN new)
  BY <1>2, <1>5 DEF FilesOf, Written
<1>7. Cardinality(DOMAIN new) = n + 1
  BY <1>1, <1>3, <1>6, FS_AddElement
<1>8. Below(DOMAIN new, f) = DOMAIN fs
  <2>1. ~Before(f, f)
    BY <1>2, BeforeIsOrder
  <2> QED  BY <1>6, <2>1 DEF Below, IsLast
<1>9. ASSUME NEW g \in DOMAIN fs  PROVE Below(DOMAIN new, g) = Below(DOMAIN fs, g)
  <2>1. Before(g, f) /\ f \in Pair /\ g \in Pair
    BY <1>2, <1>3 DEF IsLast
  <2>2. ~Before(f, g)
    BY <2>1, BeforeIsOrder
  <2> QED  BY <1>6, <2>2 DEF Below
<1>10. PICK seqs : seqs = [i \in 1..n |-> fs[Nth(fs, i)]]
  OBVIOUS
<1>11. PICK more : more = [i \in 1..(n + 1) |-> new[Nth(new, i)]]
  OBVIOUS
<1>12. ASSUME NEW i \in 1..n
       PROVE  fs[Nth(fs, i)] \in Seq(S) /\ new[Nth(new, i)] = fs[Nth(fs, i)]
  <2>1. Nth(fs, i) \in DOMAIN fs /\ Cardinality(Below(DOMAIN fs, Nth(fs, i))) = i - 1
    BY <1>1, <1>3, NthIsFile
  <2>2. fs[Nth(fs, i)] \in Seq(S)
    BY <2>1 DEF FilesOf
  <2>3. /\ Nth(fs, i) \in DOMAIN new /\ Cardinality(Below(DOMAIN new, Nth(fs, i))) = i - 1
        /\ i \in 1..Cardinality(DOMAIN new)
    BY <1>6, <1>7, <1>9, <2>1
  <2>4. Nth(new, i) = Nth(fs, i)
    BY <1>6, <2>3, NthIsOnly
  <2>5. new[Nth(fs, i)] = fs[Nth(fs, i)]
    BY <1>5, <2>1 DEF Written
  <2> QED  BY <2>2, <2>4, <2>5
<1>13. new[Nth(new, n + 1)] = c
  <2>1. /\ f \in DOMAIN new /\ n + 1 \in 1..Cardinality(DOMAIN new)
        /\ Cardinality(Below(DOMAIN new, f)) = (n + 1) - 1
    BY <1>1, <1>6, <1>7, <1>8
  <2>2. Nth(new, n + 1) = f
    BY <1>6, <2>1, NthIsOnly
  <2> QED  BY <1>5, <2>2 DEF Written
<1>14. seqs \in [1..n -> Seq(S)]
  BY <1>10, <1>12
<1>15. seqs \in Seq(Seq(S)) /\ Len(seqs) = n
  BY <1>14
<1>16. more = Append(seqs, c)
  <2>1. PICK d \in Seq(S) : d = c
    BY DEF Holds
  <2>2. PICK a : a = Append(seqs, d)
    OBVIOUS
  <2>3. a = [i \in 1..(n + 1) |-> IF i = n + 1 THEN d ELSE seqs[i]]
    <3>1. /\ a \in Seq(Seq(S)) /\ Len(a) = n + 1 /\ a[n + 1] = d
          /\ \A i \in 1..n : a[i] = seqs[i]
      BY <1>15, <2>2, AppendProperties
    <3>2. a = [i \in 1..(n + 1) |-> a[i]]
      BY <3>1
    <3>3. \A i \in 1..(n + 1) : a[i] = IF i = n + 1 THEN d ELSE seqs[i]
      BY <3>1
    <3> QED  BY <3>2, <3>3
  <2>4. \A i \in 1..(n + 1) : new[Nth(new, i)] = IF i = n + 1 THEN d ELSE seqs[i]
    <3>1. ASSUME NEW i \in 1..(n + 1)
          PROVE  new[Nth(new, i)] = IF i = n + 1 THEN d ELSE seqs[i]
      <4>1. CASE i = n + 1
        BY <1>13, <2>1, <4>1
      <4>2. CASE i # n + 1
        <5>1. i \in 1..n
          BY <4>2
        <5> QED  BY <1>10, <1>12, <4>2, <5>1
      <4> QED  BY <4>1, <4>2
    <3> QED  BY <3>1
  <2> QED  BY <1>11, <2>1, <2>2, <2>3, <2>4
<1>17. Contents(fs) = FlattenSeq(seqs)
  BY <1>1, <1>10 DEF Contents
<1>18. Contents(new) = FlattenSeq(more)
  BY <1>7, <1>11 DEF Contents
<1>19. FlattenSeq(more) = FlattenSeq(seqs) \o c
  BY <1>15, <1>16, FlattenAppend DEF Holds
<1> QED  BY <1>4, <1>17, <1>18, <1>19

\* The files but f.
Without(fs, f) == [g \in DOMAIN fs \ {f} |-> fs[g]]

\* The files that the writer has closed.
SettledIn(fs, open) == IF open = None THEN fs ELSE Without(fs, open)

LEMMA WithoutWritten ==
  ASSUME NEW S, NEW fs, FilesOf(fs, S), NEW f, NEW c
  PROVE  /\ Without(With(fs, f, c), f) = Without(fs, f)
         /\ f \notin DOMAIN fs => Without(fs, f) = fs
<1>1. PICK w : w = [g \in DOMAIN fs \cup {f} |-> IF g = f THEN c ELSE fs[g]]
  OBVIOUS
<1>2. DOMAIN w \ {f} = DOMAIN fs \ {f} /\ \A g \in DOMAIN fs \ {f} : w[g] = fs[g]
  BY <1>1
<1>3. Without(w, f) = Without(fs, f)
  BY <1>2 DEF Without
<1>4. f \notin DOMAIN fs => Without(fs, f) = fs
  <2>1. fs = [g \in DOMAIN fs |-> fs[g]]
    BY DEF FilesOf
  <2>2. f \notin DOMAIN fs => DOMAIN fs \ {f} = DOMAIN fs
    OBVIOUS
  <2> QED  BY <2>1, <2>2 DEF Without
<1> QED  BY <1>1, <1>3, <1>4 DEF With

LEMMA LastFileContents ==
  ASSUME NEW S, NEW fs, FilesOf(fs, S), NEW f \in DOMAIN fs, IsLast(fs, f)
  PROVE  /\ FilesOf(Without(fs, f), S) /\ Holds(Contents(Without(fs, f)), S) /\ Holds(fs[f], S)
         /\ Contents(fs) = Contents(Without(fs, f)) \o fs[f]
         /\ \A c : Holds(c, S) =>
              Contents(With(fs, f, fs[f] \o c)) = Contents(fs) \o c
<1>1. PICK rest : rest = [g \in DOMAIN fs \ {f} |-> fs[g]]
  OBVIOUS
<1>2. DOMAIN rest = DOMAIN fs \ {f} /\ \A g \in DOMAIN fs \ {f} : rest[g] = fs[g]
  BY <1>1
<1>3. FilesOf(rest, S)
  <2>1. IsFiniteSet(DOMAIN rest)
    BY <1>2, FS_Subset DEF FilesOf
  <2>2. rest \in [DOMAIN rest -> Seq(S)]
    BY <1>1, <1>2 DEF FilesOf
  <2> QED  BY <1>2, <2>1, <2>2 DEF FilesOf
<1>4. f \notin DOMAIN rest /\ IsLast(rest, f) /\ f \in File
  BY <1>2 DEF IsLast, FilesOf
<1>5. PICK q \in Seq(S) : q = fs[f]
  BY DEF FilesOf
<1>6. Holds(q, S)
  BY DEF Holds
<1>7. With(rest, f, q) = fs
  <2>1. PICK w : w = With(rest, f, q)
    OBVIOUS
  <2>2. w = [g \in DOMAIN rest \cup {f} |-> IF g = f THEN q ELSE rest[g]]
    BY <2>1 DEF With
  <2>3. DOMAIN rest \cup {f} = DOMAIN fs
    BY <1>2
  <2>4. \A g \in DOMAIN fs : fs[g] = IF g = f THEN q ELSE rest[g]
    BY <1>2, <1>5
  <2>5. fs = [g \in DOMAIN fs |-> fs[g]]
    BY DEF FilesOf
  <2> QED  BY <2>1, <2>2, <2>3, <2>4, <2>5
<1>8. Contents(fs) = Contents(rest) \o q
  BY <1>3, <1>4, <1>6, <1>7, NewFileContents
<1>9. PICK p \in Seq(S) : p = Contents(rest)
  BY <1>3, ContentsType
<1>10. ASSUME NEW c, Holds(c, S)
       PROVE  Contents(With(fs, f, fs[f] \o c)) = Contents(fs) \o c
  <2>1. PICK d \in Seq(S) : d = c
    BY <1>10 DEF Holds
  <2>2. PICK e \in Seq(S) : e = q \o d
    BY ConcatProperties
  <2>3. Holds(e, S)
    BY DEF Holds
  <2>4. With(rest, f, e) = With(fs, f, e)
    <3>1. PICK w : w = With(rest, f, e)
      OBVIOUS
    <3>2. PICK x : x = With(fs, f, e)
      OBVIOUS
    <3>3. w = [g \in DOMAIN rest \cup {f} |-> IF g = f THEN e ELSE rest[g]]
      BY <3>1 DEF With
    <3>4. x = [g \in DOMAIN fs \cup {f} |-> IF g = f THEN e ELSE fs[g]]
      BY <3>2 DEF With
    <3>5. DOMAIN rest \cup {f} = DOMAIN fs \cup {f}
      BY <1>2
    <3>6. \A g \in DOMAIN fs \cup {f} :
            (IF g = f THEN e ELSE rest[g]) = (IF g = f THEN e ELSE fs[g])
      BY <1>2
    <3> QED  BY <3>1, <3>2, <3>3, <3>4, <3>5, <3>6
  <2>5. Contents(With(rest, f, e)) = Contents(rest) \o e
    BY <1>3, <1>4, <2>3, NewFileContents
  <2>6. p \o (q \o d) = (p \o q) \o d
    BY SMTT(30), ConcatAssociative
  <2> QED  BY <1>5, <1>8, <1>9, <2>1, <2>2, <2>4, <2>5, <2>6
<1>11. Without(fs, f) = rest
  BY <1>1 DEF Without
<1>12. Holds(Contents(rest), S) /\ Holds(fs[f], S)
  BY <1>5, <1>9 DEF Holds
<1> QED  BY <1>3, <1>5, <1>8, <1>10, <1>11, <1>12

-----------------------------------------------------------------------------
(* The steps.                                                              *)

LEMMA InitInv == Init => IInv
<1> SUFFICES ASSUME Init  PROVE IInv
  OBVIOUS
<1>1. info \in Counts /\ disk \in Counts \cup {None} /\ past \in PastType /\ past.failures = 0
  <2>1. PICK no \in BOOLEAN, empty \in SUBSET Nat : no = FALSE /\ empty = {}
    OBVIOUS
  <2>2. past = [sessions |-> 1, failures |-> 0, crashes |-> 0, clean |-> 0, kept |-> 0,
                reopened |-> no, uncounted |-> empty]
    BY <2>1 DEF Init
  <2>3. past \in PastType /\ past.failures = 0
    BY <2>2 DEF PastType
  <2>4. info = [episodes |-> 0, frames |-> 0] /\ disk = info
    BY DEF Init
  <2> QED  BY <2>3, <2>4 DEF Counts
<1>2. FilesOf(data, Block) /\ FilesOf(video, Segment) /\ FilesOf(meta, Record) /\ InFile(meta)
  <2>1. ASSUME NEW fs, fs = <<>>, NEW S  PROVE FilesOf(fs, S) /\ InFile(fs)
    <3>1. DOMAIN fs = {}
      BY <2>1
    <3>2. IsFiniteSet(DOMAIN fs)
      BY <3>1, FS_EmptySet
    <3>3. fs \in [DOMAIN fs -> Seq(S)]
      BY <2>1, <3>1
    <3> QED  BY <3>1, <3>2, <3>3 DEF FilesOf, InFile
  <2> QED  BY <2>1 DEF Init
<1>3. PICK empty \in Seq(Record) : empty = <<>> /\ Len(empty) = 0
  BY EmptySeq
<1>4. metaw = [episodes |-> empty, latest |-> None, buffer |-> empty, open |-> None]
  BY <1>3 DEF Init, FreshMeta
<1>5. metaw \in MetaType /\ metaw.latest = None /\ metaw.open = None /\ metaw.buffer = empty
  BY <1>4 DEF MetaType
<1>6. session = [pc |-> "idle", length |-> 0, record |-> None]
  BY DEF Init, Closed
<1>7. session \in SessionType /\ session.pc = "idle"
  BY <1>6 DEF SessionType, Place
<1>8. writer \in WriterType /\ writer.open = None
  BY DEF Init, FreshWriter, WriterType
<1>9. broken \subseteq {"data", "meta"} \X File /\ torn \subseteq DOMAIN video
  BY DEF Init
<1>10. Types
  BY <1>1, <1>2, <1>5, <1>7, <1>8, <1>9 DEF Types
<1>11. EpisodeInv
  BY <1>5, <1>7, <1>8 DEF EpisodeInv
<1>12. RecordsInv
  <2>1. BufferSize \in Nat /\ BufferSize > 0
    BY StorageAssumption
  <2>2. Len(metaw.buffer) = 0
    BY <1>3, <1>5
  <2> QED  BY <1>2, <1>5, <2>1, <2>2 DEF RecordsInv
<1>13. CountsInv
  <2>1. info.episodes = 0 /\ disk = info /\ past.clean = 0 /\ past.kept = 0
    BY DEF Init
  <2> QED  BY <2>1 DEF CountsInv
<1> QED  BY <1>10, <1>11, <1>12, <1>13 DEF IInv

LEMMA StutterInv == IInv /\ UNCHANGED vars => IInv'
<1> SUFFICES ASSUME IInv, UNCHANGED vars  PROVE IInv'
  OBVIOUS
<1>1. /\ info' = info /\ disk' = disk
      /\ data' = data /\ video' = video /\ meta' = meta /\ broken' = broken /\ torn' = torn
      /\ session' = session /\ writer' = writer /\ metaw' = metaw /\ past' = past
  BY DEF vars, storage
<1> QED  BY <1>1 DEF IInv, Types, EpisodeInv, RecordsInv, CountsInv

\* What is noted when save_episode raises.
LEMMA RaisesIs ==
  ASSUME IInv, NEW reopened \in BOOLEAN, NEW uncounted \in SUBSET Nat, Raises(reopened, uncounted)
  PROVE  /\ session' \in SessionType /\ session'.pc = "failed" /\ session'.length = 0
         /\ past' \in PastType /\ past'.failures = past.failures + 1 /\ past'.failures # 0
         /\ past'.crashes = past.crashes /\ past'.clean = past.clean /\ past'.kept = past.kept
         /\ past'.reopened = reopened /\ past'.uncounted = uncounted
<1>1. session' = [pc |-> "failed", length |-> 0, record |-> None]
  BY DEF Raises, Closed
<1>2. session' \in SessionType /\ session'.pc = "failed" /\ session'.length = 0
  BY <1>1 DEF SessionType, Place
<1>3. past \in PastType
  BY DEF IInv, Types
<1>4. PICK failures \in Nat : failures = past.failures + 1
  BY <1>3 DEF PastType
<1>5. past.failures \in Nat /\ failures # 0
  BY <1>3, <1>4 DEF PastType
<1>6. past' = [past EXCEPT !.failures = failures, !.reopened = reopened, !.uncounted = uncounted]
  BY <1>4 DEF Raises
<1>7. /\ past' \in PastType /\ past'.failures = failures
      /\ past'.crashes = past.crashes /\ past'.clean = past.clean /\ past'.kept = past.kept
      /\ past'.reopened = reopened /\ past'.uncounted = uncounted
  BY <1>3, <1>6 DEF PastType
<1> QED  BY <1>2, <1>4, <1>5, <1>7

\* The file and the writer for the rows of an episode.
LEMMA DataFileIs ==
  ASSUME IInv, NEW full \in BOOLEAN, writer.latest = None => full
  PROVE  /\ DataFile(full) \in File
         /\ OpenData(full) \in {None, writer.open}
         /\ OpenData(full) # None => OpenData(full) \in File /\ OpenData(full) \in DOMAIN data
         /\ past.reopened \in BOOLEAN /\ Reopens(full) \in BOOLEAN /\ past.uncounted \in SUBSET Nat
<1>1. writer.latest \in File \cup {None} /\ writer.open \in File \cup {None}
  BY DEF IInv, Types, WriterType
<1>2. FirstOfSession("data") \in File
  BY FirstIsFile DEF IInv
<1>3. writer.latest \in File => NextFile(writer.latest) \in File
  BY NextIsFile
<1>4. DataFile(full) \in File
  BY <1>1, <1>2, <1>3 DEF DataFile
<1>5. OpenData(full) \in {None, writer.open}
  BY DEF OpenData
<1>6. writer.open # None => writer.open \in DOMAIN data
  BY DEF IInv, EpisodeInv
<1>7. past.reopened \in BOOLEAN /\ past.uncounted \in SUBSET Nat
  BY DEF IInv, Types, PastType
<1> QED  BY <1>1, <1>4, <1>5, <1>6, <1>7 DEF Reopens

\* The rows go to this file, which holds this content then.
RowsTo(file, dest, content) ==
  /\ dest \in File /\ Holds(content, Block)
  /\ data' = With(data, dest, content)
  /\ writer' = [latest |-> file, open |-> dest]
  /\ broken' \subseteq broken

LEMMA DataParts ==
  ASSUME IInv, NEW length \in Lengths, NEW full \in BOOLEAN, SaveEpisodeData(length, full)
  PROVE  \E file, open, dest, block, content :
           /\ file = DataFile(full) /\ open = OpenData(full)
           /\ dest = IF open = None THEN file ELSE open
           /\ block = [episode |-> info.episodes, first |-> info.frames, length |-> length]
           /\ content = IF open = None THEN <<block>> ELSE Append(data[open], block)
           /\ file \in File /\ length \in Nat /\ block \in Block
           /\ open # None => open \in DOMAIN data
           /\ RowsTo(file, dest, content)
           /\ broken' = IF open = None THEN broken \ {<<"data", file>>} ELSE broken
           /\ session.pc = "idle" /\ (writer.latest = None => full)
           /\ session' = [pc |-> "video", length |-> length,
                          record |-> [episode |-> info.episodes, data |-> file]]
           /\ past' = [past EXCEPT !.reopened = past.reopened \/ Reopens(full)]
           /\ info' = info /\ disk' = disk /\ video' = video /\ meta' = meta /\ torn' = torn
           /\ metaw' = metaw
<1>1. PICK file, open, block : 
        /\ file = DataFile(full) /\ open = OpenData(full)
        /\ block = [episode |-> info.episodes, first |-> info.frames, length |-> length]
  OBVIOUS
<1>2. PICK dest, content :
        /\ dest = IF open = None THEN file ELSE open
        /\ content = IF open = None THEN <<block>> ELSE Append(data[open], block)
  OBVIOUS
<1>3. /\ session.pc = "idle" /\ (writer.latest = None => full)
      /\ data' = With(data, dest, content)
      /\ broken' = IF open = None THEN broken \ {<<"data", file>>} ELSE broken
      /\ writer' = [latest |-> file, open |-> dest]
      /\ session' = [pc |-> "video", length |-> length,
                     record |-> [episode |-> info.episodes, data |-> file]]
      /\ past' = [past EXCEPT !.reopened = past.reopened \/ Reopens(full)]
      /\ info' = info /\ disk' = disk /\ video' = video /\ meta' = meta /\ torn' = torn
      /\ metaw' = metaw
  BY ZenonT(60), <1>1, <1>2 DEF SaveEpisodeData
<1>4. file \in File /\ (open # None => open \in File /\ open \in DOMAIN data)
  BY <1>1, <1>3, DataFileIs
<1>5. length \in Nat /\ info.episodes \in Nat /\ info.frames \in Nat
  BY StorageAssumption DEF IInv, Types, Counts
<1>6. block \in Block
  BY <1>1, <1>5 DEF Block
<1>7. Holds(content, Block)
  <2>1. CASE open = None
    BY <1>2, <1>6, <2>1 DEF Holds
  <2>2. CASE open # None
    <3>1. PICK q \in Seq(Block) : q = data[open]
      BY <1>4, <2>2 DEF IInv, Types, FilesOf
    <3>2. content = Append(q, block)
      BY <1>2, <2>2, <3>1
    <3>3. Append(q, block) \in Seq(Block)
      BY <1>6
    <3> QED  BY <3>2, <3>3 DEF Holds
  <2> QED  BY <2>1, <2>2
<1>8. dest \in File /\ broken' \subseteq broken
  BY <1>2, <1>3, <1>4
<1>9. RowsTo(file, dest, content)
  BY <1>3, <1>7, <1>8 DEF RowsTo
<1> QED  BY <1>1, <1>2, <1>3, <1>4, <1>5, <1>6, <1>9

LEMMA DataStep ==
  ASSUME IInv, NEW length \in Lengths, NEW full \in BOOLEAN, SaveEpisodeData(length, full)
  PROVE  /\ IInv' /\ session'.pc = "video" /\ session'.length = length
         /\ session'.record = [episode |-> info.episodes, data |-> DataFile(full)]
         /\ past'.failures = past.failures /\ past'.crashes = past.crashes
         /\ past'.clean = past.clean /\ past'.kept = past.kept
         /\ past'.uncounted = past.uncounted
         /\ past'.reopened = (past.reopened \/ Reopens(full))
<1>1. PICK file, open, dest, block, content :
        /\ file = DataFile(full) /\ file \in File /\ length \in Nat
        /\ RowsTo(file, dest, content)
        /\ session' = [pc |-> "video", length |-> length,
                       record |-> [episode |-> info.episodes, data |-> file]]
        /\ past' = [past EXCEPT !.reopened = past.reopened \/ Reopens(full)]
        /\ info' = info /\ disk' = disk /\ video' = video /\ meta' = meta /\ torn' = torn
        /\ metaw' = metaw
        /\ writer.latest = None => full
  BY DataParts
<1>2. FilesOf(data', Block) /\ Written(data', data, dest, content)
  BY <1>1, WithFile DEF RowsTo, IInv, Types
<1>3. info.episodes \in Nat
  BY DEF IInv, Types, Counts
<1>4. PICK saved \in Saved : saved = [episode |-> info.episodes, data |-> file]
  BY <1>1, <1>3 DEF Saved
<1>5. session' = [pc |-> "video", length |-> length, record |-> saved]
  BY <1>1, <1>4
<1>6. /\ session' \in SessionType /\ session'.pc = "video" /\ session'.record = saved
      /\ session'.length = length
  BY <1>1, <1>5 DEF SessionType, Place
<1>7. writer' \in WriterType /\ writer'.open = dest /\ writer'.latest = file
  BY <1>1 DEF RowsTo, WriterType
<1>8. broken' \subseteq {"data", "meta"} \X File
  BY <1>1 DEF RowsTo, IInv, Types
<1>9. /\ past' \in PastType /\ past'.failures = past.failures /\ past'.crashes = past.crashes
      /\ past'.clean = past.clean /\ past'.kept = past.kept
      /\ past'.uncounted = past.uncounted
      /\ past'.reopened = (past.reopened \/ Reopens(full))
  <2>1. PICK reopened \in BOOLEAN : reopened = (past.reopened \/ Reopens(full))
    OBVIOUS
  <2>2. past \in PastType /\ past' = [past EXCEPT !.reopened = reopened]
    BY <1>1, <2>1 DEF IInv, Types
  <2>3. /\ past' \in PastType /\ past'.failures = past.failures /\ past'.crashes = past.crashes
        /\ past'.clean = past.clean /\ past'.kept = past.kept
        /\ past'.uncounted = past.uncounted /\ past'.reopened = reopened
    BY <2>2 DEF PastType
  <2> QED  BY <2>1, <2>3
<1>10. Types'
  BY <1>1, <1>2, <1>6, <1>7, <1>8, <1>9 DEF IInv, Types
<1>11. EpisodeInv'
  BY <1>1, <1>2, <1>6, <1>7 DEF IInv, EpisodeInv, Written
<1>12. RecordsInv' /\ CountsInv'
  BY <1>1, <1>9 DEF IInv, RecordsInv, CountsInv
<1>13. IInv'
  BY <1>10, <1>11, <1>12 DEF IInv
<1>14. session'.record = [episode |-> info.episodes, data |-> DataFile(full)]
  BY <1>1, <1>4, <1>6
<1> QED  BY <1>6, <1>9, <1>13, <1>14

\* The data writer that an attempt leaves which fails.
LEMMA DataFails ==
  ASSUME IInv, NEW full \in BOOLEAN, NEW opened \in BOOLEAN, SaveEpisodeDataFails(full, opened)
  PROVE  /\ IInv' /\ session.pc = "idle" /\ session'.pc = "failed" /\ session'.length = 0
         /\ past'.failures = past.failures + 1 /\ past'.failures # 0
         /\ past'.crashes = past.crashes /\ past'.clean = past.clean /\ past'.kept = past.kept
         /\ past'.reopened = (past.reopened \/ (opened /\ Reopens(full)))
         /\ past'.uncounted = past.uncounted
         /\ info' = info /\ disk' = disk /\ video' = video /\ meta' = meta /\ torn' = torn
         /\ metaw' = metaw /\ broken' \subseteq broken
         /\ writer'.latest = writer.latest
         /\ writer'.open = IF opened THEN DataFile(full) ELSE OpenData(full)
         /\ data' = IF opened THEN With(data, DataFile(full), <<>>) ELSE data
         /\ broken' = IF opened THEN broken \ {<<"data", DataFile(full)>>} ELSE broken
         /\ (writer.latest = None => full) /\ (opened => OpenData(full) = None)
<1>1. PICK file, open : file = DataFile(full) /\ open = OpenData(full)
  OBVIOUS
<1>2. PICK reopened, wopen :
        /\ reopened = (past.reopened \/ (opened /\ Reopens(full)))
        /\ wopen = IF opened THEN file ELSE open
  OBVIOUS
<1>3. /\ session.pc = "idle" /\ (writer.latest = None => full) /\ (opened => open = None)
      /\ Raises(reopened, past.uncounted)
      /\ data' = IF opened THEN With(data, file, <<>>) ELSE data
      /\ broken' = IF opened THEN broken \ {<<"data", file>>} ELSE broken
      /\ writer' = [writer EXCEPT !.open = wopen]
      /\ info' = info /\ disk' = disk /\ video' = video /\ meta' = meta /\ torn' = torn
      /\ metaw' = metaw
  BY ZenonT(60), <1>1, <1>2 DEF SaveEpisodeDataFails
<1>4. /\ file \in File /\ (open # None => open \in File /\ open \in DOMAIN data)
      /\ reopened \in BOOLEAN /\ past.uncounted \in SUBSET Nat
  BY <1>1, <1>2, <1>3, DataFileIs
<1>5. /\ session' \in SessionType /\ session'.pc = "failed" /\ session'.length = 0
      /\ past' \in PastType /\ past'.failures = past.failures + 1 /\ past'.failures # 0
      /\ past'.crashes = past.crashes /\ past'.clean = past.clean /\ past'.kept = past.kept
      /\ past'.reopened = reopened /\ past'.uncounted = past.uncounted
  BY <1>3, <1>4, RaisesIs
<1>6. FilesOf(data', Block) /\ DOMAIN data \subseteq DOMAIN data' /\ (opened => file \in DOMAIN data')
  <2>1. CASE opened
    <3>1. PICK empty \in Seq(Block) : empty = <<>>
      BY EmptySeq
    <3>2. Holds(empty, Block) /\ data' = With(data, file, empty)
      BY <1>3, <2>1, <3>1 DEF Holds
    <3>3. FilesOf(data', Block) /\ Written(data', data, file, empty)
      BY <1>4, <3>2, WithFile DEF IInv, Types
    <3> QED  BY <3>3 DEF Written
  <2>2. CASE ~opened
    BY <1>3, <2>2 DEF IInv, Types
  <2> QED  BY <2>1, <2>2
<1>7. wopen \in File \cup {None} /\ (wopen # None => wopen \in DOMAIN data')
  BY <1>2, <1>4, <1>6
<1>8. writer' \in WriterType /\ writer'.open = wopen /\ writer'.latest = writer.latest
  BY <1>3, <1>7 DEF IInv, Types, WriterType
<1>9. broken' \subseteq broken
  BY <1>3
<1>10. Types'
  BY <1>3, <1>5, <1>6, <1>8, <1>9 DEF IInv, Types
<1>11. EpisodeInv'
  BY <1>3, <1>5, <1>7, <1>8 DEF IInv, EpisodeInv
<1>12. RecordsInv' /\ CountsInv'
  BY <1>3, <1>5 DEF IInv, RecordsInv, CountsInv
<1>13. IInv'
  BY <1>10, <1>11, <1>12 DEF IInv
<1> QED  BY <1>1, <1>2, <1>3, <1>5, <1>8, <1>9, <1>13

\* The file for the video of an episode.
LEMMA VideoFileIs ==
  ASSUME IInv, NEW full \in BOOLEAN, MovesVideo(full)
  PROVE  /\ session.pc = "video" /\ session.record \in Saved /\ session \in SessionType
         /\ session.length \in Nat /\ session.record.episode \in Nat
         /\ session.record.data \in File
         /\ VideoFile(full) \in File /\ (~full => VideoFile(full) \in DOMAIN video)
         /\ ~FirstVideo => metaw.latest # None /\ metaw.latest.videoTo \in Nat
<1>1. session.pc = "video" /\ (FirstVideo => full)
  BY DEF MovesVideo
<1>2. /\ session.record \in Saved /\ session \in SessionType
      /\ session.length \in Nat /\ session.record.episode \in Nat /\ session.record.data \in File
  BY <1>1 DEF IInv, Types, EpisodeInv, SessionType, Saved
<1>3. metaw.latest \in Record \cup {None}
  BY DEF IInv, Types, MetaType
<1>4. ASSUME ~FirstVideo
      PROVE  /\ metaw.latest # None
             /\ metaw.latest.video \in File /\ metaw.latest.videoTo \in Nat
             /\ metaw.latest.video \in DOMAIN video
  <2>1. metaw.latest # None
    BY <1>4 DEF FirstVideo
  <2> QED  BY <1>3, <2>1 DEF Record, IInv, EpisodeInv
<1>5. FirstOfSession("video") \in File
  BY FirstIsFile DEF IInv
<1>6. metaw.latest.video \in File => NextFile(metaw.latest.video) \in File
  BY NextIsFile
<1>7. VideoFile(full) \in File
  BY <1>4, <1>5, <1>6 DEF VideoFile
<1>8. ~full => VideoFile(full) \in DOMAIN video
  BY <1>1, <1>4 DEF VideoFile
<1> QED  BY <1>1, <1>2, <1>4, <1>7, <1>8

LEMMA VideoStep ==
  ASSUME IInv, NEW full \in BOOLEAN, SaveEpisodeVideo(full)
  PROVE  IInv'
<1>1. PICK first, file, from, segment :
        /\ first \in BOOLEAN /\ first = FirstVideo
        /\ file = VideoFile(full)
        /\ from = VideoStart(first, full)
        /\ segment = [episode |-> session.record.episode, length |-> session.length]
  BY DEF FirstVideo
<1>2. PICK content : content = IF full THEN <<segment>> ELSE Append(video[file], segment)
  OBVIOUS
<1>3. PICK record : record = [episode |-> session.record.episode, data |-> session.record.data,
                              video |-> file, videoFrom |-> from,
                              videoTo |-> from + session.length]
  OBVIOUS
<1>4. /\ MovesVideo(full) /\ torn' = torn \ {file}
      /\ video' = With(video, file, content)
      /\ session' = [session EXCEPT !.pc = "meta", !.record = record]
      /\ info' = info /\ disk' = disk /\ data' = data /\ meta' = meta /\ broken' = broken
      /\ writer' = writer /\ metaw' = metaw /\ past' = past
  BY <1>1, <1>2, <1>3 DEF SaveEpisodeVideo
<1>5. /\ session.record \in Saved /\ session \in SessionType
      /\ session.length \in Nat /\ session.record.episode \in Nat /\ session.record.data \in File
      /\ file \in File /\ (~full => file \in DOMAIN video)
      /\ ~first => metaw.latest.videoTo \in Nat
  BY <1>1, <1>4, VideoFileIs
<1>8. file \in File
  BY <1>5
<1>9. from \in Nat
  BY <1>1, <1>5 DEF VideoStart
<1>10. segment \in Segment
  BY <1>1, <1>5 DEF Segment
<1>11. Holds(content, Segment)
  <2>1. CASE full
    BY <1>2, <1>10, <2>1 DEF Holds
  <2>2. CASE ~full
    <3>1. file \in DOMAIN video
      BY <1>5, <2>2
    <3>2. PICK q \in Seq(Segment) : q = video[file]
      BY <3>1 DEF IInv, Types, FilesOf
    <3>3. content = Append(q, segment)
      BY <1>2, <2>2, <3>2
    <3>4. Append(q, segment) \in Seq(Segment)
      BY <1>10
    <3> QED  BY <3>3, <3>4 DEF Holds
  <2> QED  BY <2>1, <2>2
<1>12. FilesOf(video', Segment) /\ Written(video', video, file, content)
  BY <1>4, <1>8, <1>11, WithFile DEF IInv, Types
<1>13. record \in Filmed /\ record.video = file
  <2>1. from + session.length \in Nat
    BY <1>5, <1>9
  <2> QED  BY <1>3, <1>5, <1>8, <1>9, <2>1 DEF Filmed
<1>14. session' \in SessionType /\ session'.pc = "meta" /\ session'.record = record
  BY <1>4, <1>5, <1>13 DEF SessionType, Place
<1>15. Types'
  <2>1. torn' \subseteq DOMAIN video'
    BY <1>4, <1>12 DEF Written, IInv, Types
  <2> QED  BY <1>4, <1>12, <1>14, <2>1 DEF IInv, Types
<1>16. EpisodeInv'
  BY <1>4, <1>12, <1>13, <1>14 DEF IInv, EpisodeInv, Written
<1>17. RecordsInv' /\ CountsInv'
  BY <1>4 DEF IInv, RecordsInv, CountsInv
<1> QED  BY <1>15, <1>16, <1>17 DEF IInv

\* The move of a video that fails.
LEMMA VideoFails ==
  ASSUME IInv, NEW full \in BOOLEAN, SaveEpisodeVideoFails(full)
  PROVE  /\ IInv' /\ session.pc = "video" /\ session'.pc = "failed" /\ session'.length = 0
         /\ past'.failures = past.failures + 1 /\ past'.failures # 0
         /\ past'.crashes = past.crashes /\ past'.clean = past.clean /\ past'.kept = past.kept
         /\ past'.reopened = past.reopened /\ past'.uncounted = past.uncounted
         /\ info' = info /\ disk' = disk /\ data' = data /\ meta' = meta /\ broken' = broken
         /\ writer' = writer /\ metaw' = metaw
         /\ video' = With(video, VideoFile(full), <<>>) /\ torn' = torn \cup {VideoFile(full)}
<1>1. PICK file : file = VideoFile(full)
  OBVIOUS
<1>2. /\ MovesVideo(full) /\ Raises(past.reopened, past.uncounted)
      /\ video' = With(video, file, <<>>) /\ torn' = torn \cup {file}
      /\ info' = info /\ disk' = disk /\ data' = data /\ meta' = meta /\ broken' = broken
      /\ writer' = writer /\ metaw' = metaw
  BY <1>1 DEF SaveEpisodeVideoFails
<1>3. session.pc = "video" /\ file \in File
  BY <1>1, <1>2, VideoFileIs
<1>4. past.reopened \in BOOLEAN /\ past.uncounted \in SUBSET Nat
  BY DEF IInv, Types, PastType
<1>5. /\ session' \in SessionType /\ session'.pc = "failed" /\ session'.length = 0
      /\ past' \in PastType /\ past'.failures = past.failures + 1 /\ past'.failures # 0
      /\ past'.crashes = past.crashes /\ past'.clean = past.clean /\ past'.kept = past.kept
      /\ past'.reopened = past.reopened /\ past'.uncounted = past.uncounted
  BY <1>2, <1>4, RaisesIs
<1>6. FilesOf(video', Segment) /\ DOMAIN video' = DOMAIN video \cup {file}
  <2>1. PICK empty \in Seq(Segment) : empty = <<>>
    BY EmptySeq
  <2>2. Holds(empty, Segment) /\ video' = With(video, file, empty)
    BY <1>2, <2>1 DEF Holds
  <2>3. FilesOf(video', Segment) /\ Written(video', video, file, empty)
    BY <1>3, <2>2, WithFile DEF IInv, Types
  <2> QED  BY <2>3 DEF Written
<1>7. torn' \subseteq DOMAIN video'
  BY <1>2, <1>6 DEF IInv, Types
<1>8. Types'
  BY <1>2, <1>5, <1>6, <1>7 DEF IInv, Types
<1>9. EpisodeInv' /\ RecordsInv' /\ CountsInv'
  BY <1>2, <1>5, <1>6 DEF IInv, EpisodeInv, RecordsInv, CountsInv
<1> QED  BY <1>1, <1>2, <1>3, <1>5, <1>8, <1>9 DEF IInv

\* What the buffer holds goes to the file of the latest record.
LEMMA BufferFlushed ==
  ASSUME IInv, metaw.latest # None,
         NEW n, n = Flushed(meta, metaw.buffer, metaw.open).meta
  PROVE  FilesOf(n, Record) /\ InFile(n) /\ DOMAIN meta \subseteq DOMAIN n
<1>1. PICK f \in File : f = metaw.latest.file
  <2>1. metaw.latest \in Record
    BY DEF IInv, Types, MetaType
  <2> QED  BY <2>1 DEF Record
<1>2. PICK buffer \in Seq(Record) : buffer = metaw.buffer
  BY DEF IInv, Types, MetaType
<1>3. PICK open : open = metaw.open
  OBVIOUS
<1>4. /\ \A i \in 1..Len(buffer) : buffer[i].file = f
      /\ open = None \/ (open = f /\ open \in DOMAIN meta)
  BY <1>1, <1>2, <1>3 DEF IInv, RecordsInv
<1>5. FilesOf(meta, Record) /\ InFile(meta)
  BY DEF IInv, Types, RecordsInv
<1>6. n = Flushed(meta, buffer, open).meta
  BY <1>2, <1>3
<1> QED  BY <1>4, <1>5, <1>6, FlushedFiles

\* Before the first record of a session there is nothing to flush.
LEMMA NothingToFlush ==
  ASSUME IInv, metaw.latest = None
  PROVE  /\ metaw.buffer = <<>> /\ metaw.open = None
         /\ Flushed(meta, metaw.buffer, metaw.open).meta = meta
<1>1. PICK buffer \in Seq(Record) : buffer = metaw.buffer
  BY DEF IInv, Types, MetaType
<1>2. ~(1 \in 1..Len(buffer))
  BY <1>1 DEF IInv, RecordsInv
<1>3. Len(buffer) = 0
  BY <1>2
<1>4. buffer = <<>>
  BY <1>3, EmptySeq
<1>5. metaw.open = None
  BY DEF IInv, RecordsInv
<1> QED  BY <1>1, <1>4, <1>5 DEF Flushed

\* The record that an episode gets, in this file.
RecordFor(record, file) ==
  /\ file \in File /\ record \in Record /\ record.file = file
  /\ record.episode = session.record.episode /\ record.data = session.record.data
  /\ record.video = session.record.video
  /\ record.videoFrom = session.record.videoFrom /\ record.videoTo = session.record.videoTo
  /\ record.from = IF metaw.latest # None THEN metaw.latest.to
                   ELSE IF metaw.episodes = <<>> THEN 0 ELSE Last(metaw.episodes).to
  /\ record.to = record.from + session.length

\* The file of that record, and the files, the buffer and the open file that
\* are left when the latest file is closed if it is full.
Turned(file, m0, b0, o0) ==
  \/ /\ metaw.latest # None /\ metaw.latest.file \in DOMAIN meta
     /\ file = NextFile(metaw.latest.file)
     /\ m0 = Flushed(meta, metaw.buffer, metaw.open).meta /\ b0 = <<>> /\ o0 = None
  \/ /\ file = IF metaw.latest = None THEN FirstOfSession("file") ELSE metaw.latest.file
     /\ m0 = meta /\ b0 = metaw.buffer /\ o0 = metaw.open

\* The files, the buffer and the open file after the record is in the buffer:
\* the buffer is kept, flushed, or kept by a flush that has failed.
Stored(buffer, m0, o0, m1, b1, o1, failed) ==
  \/ (Len(buffer) < BufferSize \/ failed) /\ m1 = m0 /\ b1 = buffer /\ o1 = o0
  \/ m1 = Flushed(m0, buffer, o0).meta /\ b1 = <<>> /\ o1 = Flushed(m0, buffer, o0).open
  \/ /\ failed /\ o0 = None
     /\ m1 = With(m0, buffer[1].file, <<>>) /\ b1 = buffer /\ o1 = buffer[1].file

\* An episode gets its record, and is counted next or not at all.
RecordStep(failed) ==
  \E full \in BOOLEAN :
    IF failed THEN \E opened \in BOOLEAN : SaveEpisodeMetadataFails(full, opened)
    ELSE SaveEpisodeMetadata(full)

\* What is noted of that.
Noted(failed) ==
  /\ session' \in SessionType /\ past' \in PastType
  /\ past'.clean = past.clean /\ past'.kept = past.kept /\ past'.reopened = past.reopened
  /\ past'.crashes = past.crashes
  /\ IF failed
     THEN /\ session'.pc = "failed" /\ session'.length = 0
          /\ past'.failures = past.failures + 1 /\ past'.failures # 0
          /\ past'.uncounted = past.uncounted \cup {info.episodes}
     ELSE /\ session' = [session EXCEPT !.pc = "info"] /\ session'.pc = "info" /\ past' = past

LEMMA BufferedIs ==
  ASSUME IInv, NEW full \in BOOLEAN, AddsRecord(full)
  PROVE  \E file, record, m0, b0, o0 :
           /\ RecordFor(record, file) /\ Turned(file, m0, b0, o0)
           /\ Buffered(full).record = record /\ Buffered(full).meta = m0
           /\ Buffered(full).buffer = Append(b0, record) /\ Buffered(full).open = o0
<1>1. PICK first \in BOOLEAN : first = (metaw.latest = None)
  OBVIOUS
<1>2. PICK file, from :
        /\ file = IF first THEN FirstOfSession("file")
                  ELSE IF full THEN NextFile(metaw.latest.file) ELSE metaw.latest.file
        /\ from = IF ~first THEN metaw.latest.to
                  ELSE IF metaw.episodes = <<>> THEN 0 ELSE Last(metaw.episodes).to
  OBVIOUS
<1>3. PICK record :
        record = [episode |-> session.record.episode, data |-> session.record.data,
                  video |-> session.record.video, videoFrom |-> session.record.videoFrom,
                  videoTo |-> session.record.videoTo, file |-> file, from |-> from,
                  to |-> from + session.length]
  OBVIOUS
<1>4. PICK before :
        before = IF full THEN Rolled
                 ELSE [meta |-> meta, buffer |-> metaw.buffer, open |-> metaw.open]
  OBVIOUS
<1>5. PICK m0, b0, o0 : m0 = before.meta /\ b0 = before.buffer /\ o0 = before.open
  OBVIOUS
<1>6. Buffered(full) = [record |-> record, meta |-> m0, buffer |-> Append(b0, record), open |-> o0]
  BY ZenonT(60), <1>1, <1>2, <1>3, <1>4, <1>5 DEF Buffered
<1>7. session.pc = "meta" /\ (full => ~first /\ metaw.latest.file \in DOMAIN meta)
  BY <1>1 DEF AddsRecord
<1>8. /\ session \in SessionType /\ session.length \in Nat
      /\ session.record \in Filmed /\ session.record.video \in DOMAIN video
  BY <1>7 DEF IInv, Types, EpisodeInv, SessionType
<1>9. ~first => metaw.latest \in Record
  BY <1>1 DEF IInv, Types, MetaType
<1>10. file \in File
  <2>1. FirstOfSession("file") \in File
    BY FirstIsFile DEF IInv
  <2>2. ~first => metaw.latest.file \in File
    BY <1>9 DEF Record
  <2>3. metaw.latest.file \in File => NextFile(metaw.latest.file) \in File
    BY NextIsFile
  <2> QED  BY <1>2, <2>1, <2>2, <2>3
<1>11. from \in Nat
  <2>1. CASE ~first
    BY <1>2, <1>9, <2>1 DEF Record
  <2>2. CASE first /\ metaw.episodes = <<>>
    BY <1>2, <2>2
  <2>3. CASE first /\ metaw.episodes # <<>>
    <3>1. PICK q \in Seq(Record) : q = metaw.episodes /\ q # <<>>
      BY <2>3 DEF IInv, Types, MetaType
    <3>2. Len(q) \in 1..Len(q)
      BY <3>1, EmptySeq
    <3>3. PICK r \in Record : r = Last(metaw.episodes)
      BY <3>1, <3>2, ElementOfSeq DEF Last
    <3>4. r.to \in Nat
      BY DEF Record
    <3> QED  BY <1>2, <2>3, <3>3, <3>4
  <2> QED  BY <2>1, <2>2, <2>3
<1>12. /\ record \in Record /\ record.file = file
       /\ record.episode = session.record.episode /\ record.data = session.record.data
       /\ record.video = session.record.video
       /\ record.videoFrom = session.record.videoFrom /\ record.videoTo = session.record.videoTo
       /\ record.from = from /\ record.to = from + session.length
  <2>1. from + session.length \in Nat
    BY <1>8, <1>11
  <2>2. /\ session.record.episode \in Nat /\ session.record.data \in File
        /\ session.record.video \in File /\ session.record.videoFrom \in Nat
        /\ session.record.videoTo \in Nat
    BY <1>8 DEF Filmed
  <2>3. record \in Record
    BY <1>3, <1>10, <1>11, <2>1, <2>2 DEF Record
  <2> QED  BY <1>3, <2>3
<1>14. RecordFor(record, file)
  BY <1>1, <1>2, <1>10, <1>12 DEF RecordFor
<1>15. Turned(file, m0, b0, o0)
  <2>1. CASE full
    <3>1. /\ metaw.latest # None /\ metaw.latest.file \in DOMAIN meta
          /\ file = NextFile(metaw.latest.file)
      BY <1>1, <1>2, <1>7, <2>1
    <3>2. m0 = Flushed(meta, metaw.buffer, metaw.open).meta /\ b0 = <<>> /\ o0 = None
      BY <1>4, <1>5, <2>1 DEF Rolled
    <3> QED  BY <3>1, <3>2 DEF Turned
  <2>2. CASE ~full
    <3>1. file = IF metaw.latest = None THEN FirstOfSession("file") ELSE metaw.latest.file
      BY <1>1, <1>2, <2>2
    <3>2. m0 = meta /\ b0 = metaw.buffer /\ o0 = metaw.open
      BY <1>4, <1>5, <2>2
    <3> QED  BY <3>1, <3>2 DEF Turned
  <2> QED  BY <2>1, <2>2
<1> QED  BY <1>6, <1>14, <1>15

LEMMA Recorded ==
  ASSUME NEW full \in BOOLEAN, SaveEpisodeMetadata(full)
  PROVE  RecordStep(FALSE)
BY DEF RecordStep

LEMMA RecordFails ==
  ASSUME NEW full \in BOOLEAN, NEW opened \in BOOLEAN, SaveEpisodeMetadataFails(full, opened)
  PROVE  RecordStep(TRUE)
BY DEF RecordStep

LEMMA MetaParts ==
  ASSUME IInv, NEW failed \in BOOLEAN, RecordStep(failed)
  PROVE  \E file, record, m0, b0, o0, m1, b1, o1 :
           /\ RecordFor(record, file) /\ Turned(file, m0, b0, o0)
           /\ Stored(Append(b0, record), m0, o0, m1, b1, o1, failed)
           /\ session.pc = "meta" /\ Noted(failed)
           /\ meta' = m1
           /\ metaw' = [metaw EXCEPT !.latest = record, !.open = o1, !.buffer = b1]
           /\ broken' \subseteq broken
           /\ info' = info /\ disk' = disk /\ data' = data /\ video' = video /\ torn' = torn
           /\ writer' = writer
<1>1. CASE ~failed
  <2>1. PICK full \in BOOLEAN : SaveEpisodeMetadata(full)
    BY <1>1 DEF RecordStep
  <2>2. AddsRecord(full)
    BY <2>1 DEF SaveEpisodeMetadata
  <2>3. PICK file, record, m0, b0, o0 :
          /\ RecordFor(record, file) /\ Turned(file, m0, b0, o0)
          /\ Buffered(full).record = record /\ Buffered(full).meta = m0
          /\ Buffered(full).buffer = Append(b0, record) /\ Buffered(full).open = o0
    BY <2>2, BufferedIs
  <2>4. PICK buffer : buffer = Append(b0, record)
    OBVIOUS
  <2>5. PICK after :
          after = IF Len(buffer) >= BufferSize THEN Flushed(m0, buffer, o0)
                  ELSE [meta |-> m0, open |-> o0]
    OBVIOUS
  <2>6. PICK b1 : b1 = IF Len(buffer) >= BufferSize THEN <<>> ELSE buffer
    OBVIOUS
  <2>7. /\ meta' = after.meta
        /\ metaw' = [metaw EXCEPT !.latest = record, !.open = after.open, !.buffer = b1]
        /\ session' = [session EXCEPT !.pc = "info"]
        /\ broken' = broken \ {<<"meta", f>> : f \in {after.open} \ {metaw.open}}
        /\ info' = info /\ disk' = disk /\ data' = data /\ video' = video /\ torn' = torn
        /\ writer' = writer /\ past' = past
    BY ZenonT(60), <2>1, <2>3, <2>4, <2>5, <2>6 DEF SaveEpisodeMetadata
  <2>8. session.pc = "meta" /\ session \in SessionType /\ past \in PastType
    BY <2>2 DEF AddsRecord, IInv, Types
  <2>9. session' \in SessionType /\ session'.pc = "info"
    BY <2>7, <2>8 DEF SessionType, Place
  <2>10. Noted(failed)
    BY <1>1, <2>7, <2>8, <2>9 DEF Noted
  <2>11. broken' \subseteq broken
    BY <2>7
  <2>12. Len(buffer) \in Nat /\ BufferSize \in Nat
    <3>1. record \in Record /\ b0 \in Seq(Record)
      <4>1. metaw.buffer \in Seq(Record)
        BY DEF IInv, Types, MetaType
      <4>2. PICK empty \in Seq(Record) : empty = <<>>
        BY EmptySeq
      <4> QED  BY <2>3, <4>1, <4>2 DEF RecordFor, Turned
    <3>2. Append(b0, record) \in Seq(Record)
      BY <3>1
    <3>3. Len(Append(b0, record)) \in Nat
      BY <3>2
    <3> QED  BY <2>4, <3>3, StorageAssumption
  <2>13. Stored(buffer, m0, o0, after.meta, b1, after.open, failed)
    <3>1. CASE Len(buffer) >= BufferSize
      BY <2>5, <2>6, <3>1 DEF Stored
    <3>2. CASE ~(Len(buffer) >= BufferSize)
      <4>1. Len(buffer) < BufferSize
        BY <2>12, <3>2
      <4>2. after.meta = m0 /\ after.open = o0 /\ b1 = buffer
        BY <2>5, <2>6, <3>2
      <4> QED  BY <4>1, <4>2 DEF Stored
    <3> QED  BY <3>1, <3>2
  <2> QED  BY <2>3, <2>4, <2>7, <2>8, <2>10, <2>11, <2>13
<1>2. CASE failed
  <2>1. PICK full \in BOOLEAN, opened \in BOOLEAN : SaveEpisodeMetadataFails(full, opened)
    BY <1>2 DEF RecordStep
  <2>2. AddsRecord(full)
    BY <2>1 DEF SaveEpisodeMetadataFails
  <2>3. PICK file, record, m0, b0, o0 :
          /\ RecordFor(record, file) /\ Turned(file, m0, b0, o0)
          /\ Buffered(full).record = record /\ Buffered(full).meta = m0
          /\ Buffered(full).buffer = Append(b0, record) /\ Buffered(full).open = o0
    BY <2>2, BufferedIs
  <2>4. PICK buffer : buffer = Append(b0, record)
    OBVIOUS
  <2>5. PICK m1, o1, uncounted :
          /\ m1 = IF opened THEN With(m0, buffer[1].file, <<>>) ELSE m0
          /\ o1 = IF opened THEN buffer[1].file ELSE o0
          /\ uncounted = past.uncounted \cup {info.episodes}
    OBVIOUS
  <2>6. /\ Raises(past.reopened, uncounted)
        /\ opened => o0 = None
        /\ meta' = m1
        /\ metaw' = [metaw EXCEPT !.latest = record, !.buffer = buffer, !.open = o1]
        /\ broken' = IF opened THEN broken \ {<<"meta", buffer[1].file>>} ELSE broken
        /\ info' = info /\ disk' = disk /\ data' = data /\ video' = video /\ torn' = torn
        /\ writer' = writer
    BY ZenonT(60), <2>1, <2>3, <2>4, <2>5 DEF SaveEpisodeMetadataFails
  <2>7. session.pc = "meta"
    BY <2>2 DEF AddsRecord
  <2>8. past.reopened \in BOOLEAN /\ uncounted \in SUBSET Nat
    BY <2>5 DEF IInv, Types, PastType, Counts
  <2>9. Noted(failed)
    BY <1>2, <2>5, <2>6, <2>8, RaisesIs DEF Noted
  <2>10. broken' \subseteq broken
    BY <2>6
  <2>11. Stored(buffer, m0, o0, m1, buffer, o1, failed)
    BY <1>2, <2>5, <2>6 DEF Stored
  <2>12. PICK b1 : b1 = buffer
    OBVIOUS
  <2>13. /\ metaw' = [metaw EXCEPT !.latest = record, !.open = o1, !.buffer = b1]
         /\ Stored(Append(b0, record), m0, o0, m1, b1, o1, failed)
    BY <2>4, <2>6, <2>11, <2>12
  <2>14. RecordFor(record, file) /\ Turned(file, m0, b0, o0)
    BY <2>3
  <2>15. /\ meta' = m1 /\ info' = info /\ disk' = disk /\ data' = data /\ video' = video
         /\ torn' = torn /\ writer' = writer
    BY <2>6
  <2> QED  BY <2>7, <2>9, <2>10, <2>13, <2>14, <2>15
<1> QED  BY <1>1, <1>2

LEMMA MetaStep ==
  ASSUME IInv, NEW failed \in BOOLEAN, RecordStep(failed)
  PROVE  IInv'
<1>1. PICK file, record, m0, b0, o0, m1, c1, o1 :
        /\ RecordFor(record, file) /\ Turned(file, m0, b0, o0)
        /\ Stored(Append(b0, record), m0, o0, m1, c1, o1, failed)
        /\ session.pc = "meta" /\ Noted(failed)
        /\ meta' = m1
        /\ metaw' = [metaw EXCEPT !.latest = record, !.open = o1, !.buffer = c1]
        /\ broken' \subseteq broken
        /\ info' = info /\ disk' = disk /\ data' = data /\ video' = video /\ torn' = torn
        /\ writer' = writer
  BY MetaParts
<1>2. /\ session \in SessionType /\ session.length \in Nat
      /\ session.record \in Filmed /\ session.record.video \in DOMAIN video
  BY <1>1 DEF IInv, Types, EpisodeInv, SessionType
<1>3. file \in File
  BY <1>1 DEF RecordFor
<1>4. record \in Record /\ record.file = file /\ record.video = session.record.video
  BY <1>1 DEF RecordFor
<1>5. /\ FilesOf(m0, Record) /\ InFile(m0) /\ DOMAIN meta \subseteq DOMAIN m0
      /\ b0 \in Seq(Record)
      /\ \A i \in 1..Len(b0) : b0[i].file = file
      /\ o0 = None \/ (o0 = file /\ o0 \in DOMAIN m0)
  <2>1. CASE /\ metaw.latest # None
             /\ m0 = Flushed(meta, metaw.buffer, metaw.open).meta /\ b0 = <<>> /\ o0 = None
    <3>1. FilesOf(m0, Record) /\ InFile(m0) /\ DOMAIN meta \subseteq DOMAIN m0
      BY <2>1, BufferFlushed
    <3>2. PICK empty \in Seq(Record) : empty = <<>> /\ Len(empty) = 0
      BY EmptySeq
    <3> QED  BY <2>1, <3>1, <3>2
  <2>2. CASE /\ file = IF metaw.latest = None THEN FirstOfSession("file") ELSE metaw.latest.file
             /\ m0 = meta /\ b0 = metaw.buffer /\ o0 = metaw.open
    <3>1. FilesOf(meta, Record) /\ InFile(meta) /\ metaw.buffer \in Seq(Record)
      BY DEF IInv, Types, MetaType, RecordsInv
    <3>2. /\ \A i \in 1..Len(metaw.buffer) :
               metaw.latest # None /\ metaw.buffer[i].file = metaw.latest.file
          /\ metaw.open # None =>
               metaw.open \in DOMAIN meta /\ metaw.latest # None
                 /\ metaw.latest.file = metaw.open
      BY DEF IInv, RecordsInv
    <3>3. metaw.latest # None => file = metaw.latest.file
      BY <2>2
    <3> QED  BY <2>2, <3>1, <3>2, <3>3
  <2> QED  BY <1>1, <2>1, <2>2 DEF Turned
<1>6. PICK buffer : buffer = Append(b0, record)
  OBVIOUS
<1>7. Stored(buffer, m0, o0, m1, c1, o1, failed)
  BY <1>1, <1>6
<1>8. /\ buffer \in Seq(Record)
      /\ \A i \in 1..Len(buffer) : buffer[i].file = file
  <2>1. PICK r \in Record : r = record
    BY <1>4
  <2>2. buffer = Append(b0, r)
    BY <1>6, <2>1
  <2>3. Append(b0, r) \in Seq(Record)
    BY <1>5
  <2>4. ASSUME NEW i \in 1..Len(Append(b0, r))  PROVE Append(b0, r)[i].file = file
    <3>1. Len(b0) \in Nat /\ Len(Append(b0, r)) = Len(b0) + 1
      OBVIOUS
    <3>2. CASE i = Len(b0) + 1
      BY <1>4, <2>1, <3>2
    <3>3. CASE i # Len(b0) + 1
      <4>1. i \in 1..Len(b0)
        BY <3>1, <3>3
      <4>2. Append(b0, r)[i] = b0[i]
        BY <4>1
      <4>3. b0[i].file = file
        BY <1>5, <4>1
      <4> QED  BY <4>2, <4>3
    <3> QED  BY <3>2, <3>3
  <2> QED  BY <2>2, <2>3, <2>4
<1>12. 1 \in 1..Len(buffer) /\ buffer[1].file = file
  <2>1. PICK r \in Record : r = record
    BY <1>4
  <2>2. Len(buffer) = Len(b0) + 1
    BY <1>5, <1>6, <2>1
  <2>3. Len(b0) \in Nat
    BY <1>5
  <2>4. 1 \in 1..Len(buffer)
    BY <2>2, <2>3
  <2> QED  BY <1>8, <2>4
<1>9. PICK b1 \in Seq(Record) : b1 = buffer /\ \A i \in 1..Len(b1) : b1[i].file = file
  BY <1>8
<1>10. /\ FilesOf(m1, Record) /\ InFile(m1)
       /\ DOMAIN meta \subseteq DOMAIN m1
       /\ o1 = None \/ (o1 = file /\ o1 \in DOMAIN m1)
  <2>1. /\ FilesOf(m0, Record) /\ InFile(m0) /\ DOMAIN meta \subseteq DOMAIN m0
        /\ o0 = None \/ (o0 = file /\ o0 \in DOMAIN m0)
    BY <1>5
  <2>2. CASE m1 = m0 /\ o1 = o0
    BY <2>1, <2>2
  <2>3. CASE m1 = Flushed(m0, buffer, o0).meta /\ o1 = Flushed(m0, buffer, o0).open
    <3>1. PICK fl : fl = Flushed(m0, b1, o0)
      OBVIOUS
    <3>2. m1 = fl.meta /\ o1 = fl.open
      BY <1>9, <2>3, <3>1
    <3>3. /\ FilesOf(fl.meta, Record) /\ InFile(fl.meta) /\ DOMAIN m0 \subseteq DOMAIN fl.meta
          /\ fl.open = o0 \/ (fl.open = file /\ o0 = None)
          /\ fl.open # None => fl.open \in DOMAIN fl.meta
      BY <1>3, <1>9, <2>1, <3>1, FlushedFiles
    <3> QED  BY <2>1, <3>2, <3>3
  <2>4. CASE m1 = With(m0, buffer[1].file, <<>>) /\ o1 = buffer[1].file
    <3>1. buffer[1].file = file
      BY <1>12
    <3>2. PICK empty \in Seq(Record) : empty = <<>> /\ Len(empty) = 0
      BY EmptySeq
    <3>3. Holds(empty, Record) /\ m1 = With(m0, file, empty)
      BY <2>4, <3>1, <3>2 DEF Holds
    <3>4. FilesOf(m1, Record) /\ Written(m1, m0, file, empty)
      BY <1>3, <2>1, <3>3, WithFile
    <3>5. DOMAIN m1 = DOMAIN m0 \cup {file} /\ m1[file] = empty
          /\ \A g \in DOMAIN m0 : g # file => m1[g] = m0[g]
      BY <3>4 DEF Written
    <3>6. InFile(m1)
      BY <2>1, <3>2, <3>5 DEF InFile
    <3> QED  BY <2>1, <2>4, <3>1, <3>4, <3>5, <3>6
  <2> QED  BY <1>7, <2>2, <2>3, <2>4 DEF Stored
<1>11. PICK b2 \in Seq(Record) :
         /\ b2 = c1
         /\ \A i \in 1..Len(b2) : b2[i].file = file
         /\ ~failed => Len(b2) < BufferSize
  <2>1. BufferSize \in Nat /\ BufferSize > 0
    BY StorageAssumption
  <2>2. PICK empty \in Seq(Record) : empty = <<>> /\ Len(empty) = 0
    BY EmptySeq
  <2>3. CASE c1 = <<>>
    <3>1. \A i \in 1..Len(empty) : empty[i].file = file
      BY <2>2
    <3>2. Len(empty) < BufferSize /\ empty = c1
      BY <2>1, <2>2, <2>3
    <3> QED  BY <3>1, <3>2
  <2>4. CASE c1 = buffer /\ (~failed => Len(buffer) < BufferSize)
    BY <1>9, <2>4
  <2> QED  BY <1>7, <2>3, <2>4 DEF Stored
<1>13. /\ metaw' \in MetaType /\ metaw'.latest = record /\ metaw'.open = o1
       /\ metaw'.buffer = b2
  <2>1. metaw \in MetaType
    BY DEF IInv, Types
  <2>2. o1 \in File \cup {None} /\ record \in Record \cup {None}
    BY <1>3, <1>4, <1>10
  <2>3. metaw' = [metaw EXCEPT !.latest = record, !.open = o1, !.buffer = b2]
    BY <1>1, <1>11
  <2> QED  BY <2>1, <2>2, <2>3 DEF MetaType
<1>14. record # None
  BY <1>4, StorageAssumption
<1>15. session' \in SessionType /\ session'.pc \in {"info", "failed"}
  BY <1>1 DEF Noted
<1>16. broken' \subseteq {"data", "meta"} \X File
  BY <1>1 DEF IInv, Types
<1>17. Types'
  <2>1. FilesOf(meta', Record) /\ past' \in PastType
    BY <1>1, <1>10 DEF Noted
  <2> QED  BY <1>1, <1>13, <1>15, <1>16, <2>1 DEF IInv, Types
<1>18. EpisodeInv'
  BY <1>1, <1>2, <1>4, <1>13, <1>15 DEF IInv, EpisodeInv
<1>19. RecordsInv'
  <2>1. InFile(meta)'
    BY <1>1, <1>10 DEF InFile
  <2>2. past'.failures = 0 => Len(b2) < BufferSize
    BY <1>1, <1>11 DEF Noted
  <2> QED  BY <1>1, <1>4, <1>10, <1>11, <1>13, <1>14, <2>1, <2>2 DEF RecordsInv
<1>20. CountsInv'
  <2>1. /\ past'.clean = past.clean /\ past'.kept = past.kept
        /\ past'.failures = 0 => past.failures = 0
    BY <1>1 DEF Noted
  <2> QED  BY <1>1, <2>1 DEF IInv, CountsInv
<1> QED  BY <1>17, <1>18, <1>19, <1>20 DEF IInv

LEMMA InfoStep ==
  ASSUME IInv, WriteInfo
  PROVE  /\ IInv' /\ session.pc = "info" /\ session'.pc = "idle" /\ session'.length = 0
         /\ info'.episodes = info.episodes + 1
         /\ info'.frames = info.frames + session.length /\ disk' = info'
         /\ data' = data /\ video' = video /\ meta' = meta /\ broken' = broken /\ torn' = torn
         /\ writer' = writer /\ metaw' = metaw
         /\ past'.kept = past.kept /\ past'.failures = past.failures
         /\ past'.crashes = past.crashes /\ past'.reopened = past.reopened
         /\ past'.uncounted = past.uncounted
         /\ past'.clean = IF Clean THEN past.clean + 1 ELSE past.clean
<1>1. /\ info' = [episodes |-> info.episodes + 1, frames |-> info.frames + session.length]
      /\ disk' = info' /\ session.pc = "info"
      /\ session' = [pc |-> "idle", length |-> 0, record |-> None]
      /\ past' = IF Clean THEN [past EXCEPT !.clean = past.clean + 1] ELSE past
      /\ data' = data /\ video' = video /\ meta' = meta /\ broken' = broken /\ torn' = torn
      /\ writer' = writer /\ metaw' = metaw
  BY DEF WriteInfo, CountEpisode, Closed, storage, Clean
<1>2. /\ info.episodes \in Nat /\ info.frames \in Nat /\ session.length \in Nat
      /\ past \in PastType /\ past.clean \in Nat /\ past.kept \in Nat
  BY DEF IInv, Types, SessionType, Counts, PastType
<1>3. /\ info' \in Counts /\ info'.episodes = info.episodes + 1
      /\ info'.frames = info.frames + session.length
  BY <1>1, <1>2 DEF Counts
<1>4. session' \in SessionType /\ session'.pc = "idle" /\ session'.length = 0
  BY <1>1 DEF SessionType, Place
<1>5. /\ past' \in PastType /\ past'.kept = past.kept /\ past'.failures = past.failures
      /\ past'.crashes = past.crashes /\ past'.reopened = past.reopened
      /\ past'.uncounted = past.uncounted
      /\ past'.clean = IF Clean THEN past.clean + 1 ELSE past.clean
  <2>1. PICK clean \in Nat : clean = past.clean + 1
    BY <1>2
  <2>2. CASE Clean
    <3>1. past' = [past EXCEPT !.clean = clean]
      BY <1>1, <2>1, <2>2
    <3> QED  BY <1>2, <2>1, <2>2, <3>1 DEF PastType
  <2>3. CASE ~Clean
    BY <1>1, <1>2, <2>3
  <2> QED  BY <2>2, <2>3
<1>6. Types'
  BY <1>1, <1>3, <1>4, <1>5 DEF IInv, Types
<1>7. EpisodeInv' /\ RecordsInv'
  BY <1>1, <1>4, <1>5 DEF IInv, EpisodeInv, RecordsInv
<1>8. CountsInv'
  <2>1. past.kept <= past.clean /\ past.clean <= info.episodes
    BY DEF IInv, CountsInv
  <2>2. past'.kept <= past'.clean /\ past'.clean <= info'.episodes
    BY <1>2, <1>3, <1>5, <2>1
  <2>3. disk'.episodes = info'.episodes /\ info'.episodes \in Nat
    BY <1>1, <1>3 DEF Counts
  <2> QED  BY <1>1, <2>2, <2>3 DEF CountsInv
<1> QED  BY <1>1, <1>3, <1>4, <1>5, <1>6, <1>7, <1>8 DEF IInv

\* info.json, or what comes after it, is not written.
LEMMA InfoFails ==
  ASSUME IInv, WriteInfoFails
  PROVE  /\ IInv' /\ session.pc = "info" /\ session'.pc = "failed" /\ session'.length = 0
         /\ info'.episodes = info.episodes + 1
         /\ disk' \in {disk, None, info'}
         /\ past'.uncounted = past.uncounted \cup (IF disk' = info' THEN {} ELSE {info.episodes})
         /\ past'.failures = past.failures + 1 /\ past'.failures # 0
         /\ past'.crashes = past.crashes /\ past'.clean = past.clean /\ past'.kept = past.kept
         /\ past'.reopened = past.reopened
         /\ data' = data /\ video' = video /\ meta' = meta /\ broken' = broken /\ torn' = torn
         /\ writer' = writer /\ metaw' = metaw
<1>1. PICK written \in {disk, None, info'}, uncounted \in SUBSET Nat :
        /\ uncounted = past.uncounted \cup (IF written = info' THEN {} ELSE {info.episodes})
        /\ disk' = written /\ Raises(past.reopened, uncounted)
  <2>1. info.episodes \in Nat /\ past.uncounted \in SUBSET Nat
    BY DEF IInv, Types, PastType, Counts
  <2>2. PICK written \in {disk, None, info'} :
          /\ disk' = written
          /\ Raises(past.reopened,
                    past.uncounted \cup (IF written = info' THEN {} ELSE {info.episodes}))
    BY DEF WriteInfoFails
  <2>3. past.uncounted \cup (IF written = info' THEN {} ELSE {info.episodes}) \in SUBSET Nat
    BY <2>1
  <2> QED  BY <2>2, <2>3
<1>2. /\ info' = [episodes |-> info.episodes + 1, frames |-> info.frames + session.length]
      /\ session.pc = "info"
      /\ data' = data /\ video' = video /\ meta' = meta /\ broken' = broken /\ torn' = torn
      /\ writer' = writer /\ metaw' = metaw
  BY DEF WriteInfoFails, CountEpisode, storage
<1>3. /\ info.episodes \in Nat /\ info.frames \in Nat /\ session.length \in Nat
      /\ past.reopened \in BOOLEAN /\ past.uncounted \in SUBSET Nat
      /\ past.clean \in Nat /\ past.kept \in Nat /\ disk \in Counts \cup {None}
  BY DEF IInv, Types, SessionType, Counts, PastType
<1>4. info' \in Counts /\ info'.episodes = info.episodes + 1
  BY <1>2, <1>3 DEF Counts
<1>5. uncounted \in SUBSET Nat
  BY <1>1, <1>3
<1>6. /\ session' \in SessionType /\ session'.pc = "failed" /\ session'.length = 0
      /\ past' \in PastType /\ past'.failures = past.failures + 1 /\ past'.failures # 0
      /\ past'.crashes = past.crashes /\ past'.clean = past.clean /\ past'.kept = past.kept
      /\ past'.reopened = past.reopened /\ past'.uncounted = uncounted
  BY <1>1, <1>3, <1>5, RaisesIs
<1>7. Types'
  BY <1>1, <1>2, <1>3, <1>4, <1>6 DEF IInv, Types
<1>8. EpisodeInv' /\ RecordsInv'
  BY <1>2, <1>6 DEF IInv, EpisodeInv, RecordsInv
<1>9. CountsInv'
  <2>1. /\ past.kept <= past.clean /\ past.clean <= info.episodes
        /\ disk # None => past.clean <= disk.episodes /\ disk.episodes <= info.episodes
    BY DEF IInv, CountsInv
  <2>2. disk # None => disk.episodes \in Nat
    BY <1>3 DEF Counts
  <2>3. past'.clean <= info'.episodes
    BY <1>3, <1>4, <1>6, <2>1
  <2>4. CASE disk' = disk
    <3>1. disk' # None => past'.clean <= disk'.episodes /\ disk'.episodes <= info'.episodes
      BY <1>3, <1>4, <1>6, <2>1, <2>2, <2>4
    <3> QED  BY <1>6, <2>1, <2>3, <3>1 DEF CountsInv
  <2>5. CASE disk' = None
    BY <1>6, <2>1, <2>3, <2>5 DEF CountsInv
  <2>6. CASE disk' = info'
    <3>1. disk'.episodes = info'.episodes /\ info'.episodes \in Nat
      BY <1>3, <1>4, <2>6
    <3> QED  BY <1>6, <2>1, <2>3, <3>1 DEF CountsInv
  <2> QED  BY <1>1, <2>4, <2>5, <2>6
<1> QED  BY <1>1, <1>2, <1>4, <1>6, <1>7, <1>8, <1>9 DEF IInv

LEMMA FailStep ==
  ASSUME IInv, SaveEpisodeFails
  PROVE  /\ IInv' /\ session.pc \in {"video", "meta"}
         /\ session'.pc = "failed" /\ session'.length = 0
         /\ past'.failures = past.failures + 1 /\ past'.failures # 0
         /\ past'.crashes = past.crashes /\ past'.clean = past.clean /\ past'.kept = past.kept
         /\ past'.reopened = past.reopened /\ past'.uncounted = past.uncounted
         /\ info' = info /\ disk' = disk
         /\ data' = data /\ video' = video /\ meta' = meta /\ broken' = broken /\ torn' = torn
         /\ writer' = writer /\ metaw' = metaw
<1>1. /\ Raises(past.reopened, past.uncounted) /\ session.pc \in {"video", "meta"}
      /\ info' = info /\ disk' = disk
      /\ data' = data /\ video' = video /\ meta' = meta /\ broken' = broken /\ torn' = torn
      /\ writer' = writer /\ metaw' = metaw
  BY DEF SaveEpisodeFails, storage
<1>2. past.reopened \in BOOLEAN /\ past.uncounted \in SUBSET Nat
  BY DEF IInv, Types, PastType
<1>3. /\ session' \in SessionType /\ session'.pc = "failed" /\ session'.length = 0
      /\ past' \in PastType /\ past'.failures = past.failures + 1 /\ past'.failures # 0
      /\ past'.crashes = past.crashes /\ past'.clean = past.clean /\ past'.kept = past.kept
      /\ past'.reopened = past.reopened /\ past'.uncounted = past.uncounted
  BY <1>1, <1>2, RaisesIs
<1>4. Types'
  BY <1>1, <1>3 DEF IInv, Types
<1>5. EpisodeInv' /\ RecordsInv' /\ CountsInv'
  BY <1>1, <1>3 DEF IInv, EpisodeInv, RecordsInv, CountsInv
<1> QED  BY <1>1, <1>3, <1>4, <1>5 DEF IInv

LEMMA ClearStep == ASSUME IInv, ClearEpisodeBuffer  PROVE IInv'
<1>1. /\ session' = [pc |-> "idle", length |-> 0, record |-> None]
      /\ info' = info /\ disk' = disk
      /\ data' = data /\ video' = video /\ meta' = meta /\ broken' = broken /\ torn' = torn
      /\ writer' = writer /\ metaw' = metaw /\ past' = past
  BY DEF ClearEpisodeBuffer, Closed, storage
<1>2. session' \in SessionType /\ session'.pc = "idle"
  BY <1>1 DEF SessionType, Place
<1> QED  BY <1>1, <1>2 DEF IInv, Types, EpisodeInv, RecordsInv, CountsInv

LEMMA ClosedAndFresh ==
  /\ Closed \in SessionType /\ Closed.pc = "closed"
  /\ FreshWriter \in WriterType /\ FreshWriter.open = None
<1>1. PICK c : c = [pc |-> "closed", length |-> 0, record |-> None]
  OBVIOUS
<1>2. Closed = c
  BY <1>1 DEF Closed
<1>3. c \in SessionType /\ c.pc = "closed"
  BY <1>1 DEF SessionType, Place
<1>4. PICK w : w = [latest |-> None, open |-> None]
  OBVIOUS
<1>5. FreshWriter = w
  BY <1>4 DEF FreshWriter
<1>6. w \in WriterType /\ w.open = None
  BY <1>4 DEF WriterType
<1> QED  BY <1>2, <1>3, <1>5, <1>6

\* A session ends, or begins with the records it has found.
LEMMA SessionChanges ==
  ASSUME IInv, NEW episodes \in Seq(Record), session' \in SessionType,
         session'.pc \in {"closed", "idle"}, writer' = FreshWriter,
         metaw' = FreshMeta(episodes), info' = info \/ (disk # None /\ info' = disk),
         disk' = disk, data' = data, video' = video, torn' = torn,
         FilesOf(meta', Record), InFile(meta)', broken' \subseteq {"data", "meta"} \X File,
         past' \in PastType, past'.failures = past.failures, past'.kept = past.kept \/ past'.kept = past.clean,
         past'.clean = past.clean \/ past'.clean = past.kept, past'.kept <= past'.clean
  PROVE  IInv'
<1>1. PICK empty \in Seq(Record) : empty = <<>> /\ Len(empty) = 0
  BY EmptySeq
<1>2. metaw' = [episodes |-> episodes, latest |-> None, buffer |-> empty, open |-> None]
  BY <1>1 DEF FreshMeta
<1>3. metaw' \in MetaType /\ metaw'.latest = None /\ metaw'.open = None /\ metaw'.buffer = empty
  BY <1>2 DEF MetaType
<1>4. Types'
  <2>1. info' \in Counts
    BY DEF IInv, Types
  <2> QED  BY <1>3, <2>1, ClosedAndFresh DEF IInv, Types
<1>5. EpisodeInv'
  BY <1>3, ClosedAndFresh DEF EpisodeInv
<1>6. RecordsInv'
  <2>1. BufferSize \in Nat /\ BufferSize > 0
    BY StorageAssumption
  <2>2. Len(metaw'.buffer) = 0
    BY <1>1, <1>3
  <2> QED  BY <1>3, <2>1, <2>2 DEF RecordsInv
<1>7. CountsInv'
  <2>1. /\ past.clean \in Nat /\ past.kept \in Nat /\ info.episodes \in Nat
        /\ past'.clean \in Nat /\ (disk # None => disk.episodes \in Nat)
    BY DEF IInv, Types, PastType, Counts
  <2>2. /\ past.kept <= past.clean /\ past.clean <= info.episodes
        /\ disk # None => past.clean <= disk.episodes /\ disk.episodes <= info.episodes
        /\ past.failures = 0 => disk = info
    BY DEF IInv, CountsInv
  <2>3. past'.clean <= past.clean
    BY <2>1, <2>2
  <2>4. past'.clean <= info.episodes /\ (disk # None => past'.clean <= disk.episodes)
    BY <2>1, <2>2, <2>3
  <2>5. CASE info' = info
    BY <2>2, <2>4, <2>5 DEF CountsInv
  <2>6. CASE disk # None /\ info' = disk
    <3>1. past'.clean <= info'.episodes /\ disk'.episodes <= info'.episodes
      BY <2>1, <2>4, <2>6
    <3>2. disk' # None => past'.clean <= disk'.episodes
      BY <2>4
    <3>3. disk' = info'
      BY <2>6
    <3> QED  BY <3>1, <3>2, <3>3 DEF CountsInv
  <2> QED  BY <2>5, <2>6
<1> QED  BY <1>4, <1>5, <1>6, <1>7 DEF IInv

LEMMA FinalizeStep == ASSUME IInv, Finalize  PROVE IInv'
<1>1. /\ meta' = Flushed(meta, metaw.buffer, metaw.open).meta
      /\ session' = Closed /\ writer' = FreshWriter /\ metaw' = FreshMeta(<<>>)
      /\ past' = [past EXCEPT !.kept = past.clean]
      /\ info' = info /\ disk' = disk /\ data' = data /\ video' = video /\ torn' = torn
      /\ \A b \in broken' : b \in broken
  BY DEF Finalize
<1>2. FilesOf(meta', Record) /\ InFile(meta)'
  <2>1. CASE metaw.latest = None
    <3>1. meta' = meta
      BY <1>1, <2>1, NothingToFlush
    <3> QED  BY <3>1 DEF IInv, Types, RecordsInv
  <2>2. CASE metaw.latest # None
    <3>1. PICK n : n = Flushed(meta, metaw.buffer, metaw.open).meta
      OBVIOUS
    <3>2. FilesOf(n, Record) /\ InFile(n)
      BY <2>2, <3>1, BufferFlushed
    <3> QED  BY <1>1, <3>1, <3>2 DEF InFile
  <2> QED  BY <2>1, <2>2
<1>3. /\ past' \in PastType /\ past'.kept = past.clean /\ past'.clean = past.clean
      /\ past'.failures = past.failures
      /\ past.clean \in Nat
  BY <1>1 DEF IInv, Types, PastType
<1>4. broken' \subseteq {"data", "meta"} \X File
  BY <1>1 DEF IInv, Types
<1>5. PICK empty \in Seq(Record) : empty = <<>>
  BY EmptySeq
<1>6. metaw' = FreshMeta(empty)
  BY <1>1, <1>5
<1>7. past'.kept <= past'.clean
  BY <1>3
<1> QED  BY <1>1, <1>2, <1>3, <1>4, <1>6, <1>7, ClosedAndFresh, SessionChanges

LEMMA CrashStep == ASSUME IInv, Crash  PROVE IInv'
<1>1. /\ broken' = broken \cup {<<"data", f>> : f \in {writer.open} \ {None}}
                          \cup {<<"meta", f>> : f \in {metaw.open} \ {None}}
      /\ session' = Closed /\ writer' = FreshWriter /\ metaw' = FreshMeta(<<>>)
      /\ past' = [past EXCEPT !.crashes = past.crashes + 1, !.clean = past.kept]
      /\ info' = info /\ disk' = disk /\ data' = data /\ video' = video /\ meta' = meta
      /\ torn' = torn
  BY DEF Crash
<1>2. FilesOf(meta', Record) /\ InFile(meta)'
  BY <1>1 DEF IInv, Types, RecordsInv
<1>3. /\ past' \in PastType /\ past'.kept = past.kept /\ past'.clean = past.kept
      /\ past.kept \in Nat /\ past'.failures = past.failures
  <2>1. past \in PastType
    BY DEF IInv, Types
  <2>2. PICK kept, crashes \in Nat : kept = past.kept /\ crashes = past.crashes + 1
    BY <2>1 DEF PastType
  <2>3. past' = [past EXCEPT !.crashes = crashes, !.clean = kept]
    BY <1>1, <2>2
  <2>4. /\ past' \in PastType /\ past'.kept = past.kept /\ past'.clean = kept
        /\ past'.failures = past.failures
    BY <2>1, <2>2, <2>3 DEF PastType
  <2> QED  BY <2>2, <2>4
<1>4. broken' \subseteq {"data", "meta"} \X File
  <2>1. writer.open \in File \cup {None} /\ metaw.open \in File \cup {None}
    BY DEF IInv, Types, WriterType, MetaType
  <2>2. broken \subseteq {"data", "meta"} \X File
    BY DEF IInv, Types
  <2> QED  BY <1>1, <2>1, <2>2
<1>5. PICK empty \in Seq(Record) : empty = <<>>
  BY EmptySeq
<1>6. metaw' = FreshMeta(empty)
  BY <1>1, <1>5
<1>7. past'.kept <= past'.clean
  BY <1>3
<1> QED  BY <1>1, <1>2, <1>3, <1>4, <1>6, <1>7, ClosedAndFresh, SessionChanges

LEMMA ResumeStep == ASSUME IInv, Resume  PROVE IInv'
<1>1. /\ session' = [pc |-> "idle", length |-> 0, record |-> None]
      /\ metaw' = FreshMeta(Contents(meta))
      /\ past' = [past EXCEPT !.sessions = past.sessions + 1]
      /\ disk # None /\ info' = disk /\ disk' = disk
      /\ data' = data /\ video' = video /\ meta' = meta /\ broken' = broken /\ torn' = torn
      /\ writer' = writer /\ session.pc = "closed"
  BY DEF Resume, Closed, storage
<1>2. FilesOf(meta', Record) /\ InFile(meta)'
  BY <1>1 DEF IInv, Types, RecordsInv
<1>3. PICK episodes \in Seq(Record) : episodes = Contents(meta)
  BY ContentsType DEF IInv, Types
<1>4. metaw' = FreshMeta(episodes)
  BY <1>1, <1>3
<1>5. session' \in SessionType /\ session'.pc = "idle"
  BY <1>1 DEF SessionType, Place
<1>6. /\ past' \in PastType /\ past'.kept = past.kept /\ past'.clean = past.clean
      /\ past'.failures = past.failures
  <2>1. past \in PastType
    BY DEF IInv, Types
  <2>2. PICK sessions \in Nat : sessions = past.sessions + 1
    BY <2>1 DEF PastType
  <2>3. past' = [past EXCEPT !.sessions = sessions]
    BY <1>1, <2>2
  <2> QED  BY <2>1, <2>3 DEF PastType
<1>7. writer' = FreshWriter
  BY <1>1 DEF IInv, EpisodeInv
<1>8. past'.kept <= past'.clean
  BY <1>6 DEF IInv, CountsInv
<1>9. broken' \subseteq {"data", "meta"} \X File
  BY <1>1 DEF IInv, Types
<1> QED  BY <1>1, <1>2, <1>4, <1>5, <1>6, <1>7, <1>8, <1>9, SessionChanges

LEMMA StepInv == IInv /\ [Next]_vars => IInv'
<1> SUFFICES ASSUME IInv, [Next]_vars  PROVE IInv'
  OBVIOUS
<1>1. CASE SaveEpisode
  <2>1. ASSUME NEW length \in Lengths, NEW full \in BOOLEAN, SaveEpisodeData(length, full)
        PROVE  IInv'
    BY <2>1, DataStep
  <2>2. ASSUME NEW full \in BOOLEAN, SaveEpisodeVideo(full)  PROVE IInv'
    BY <2>2, VideoStep
  <2>3. ASSUME NEW full \in BOOLEAN, SaveEpisodeMetadata(full)  PROVE IInv'
    BY <2>3, Recorded, MetaStep
  <2>4. CASE WriteInfo
    BY <2>4, InfoStep
  <2> QED  BY <1>1, <2>1, <2>2, <2>3, <2>4 DEF SaveEpisode
<1>2. CASE Fails
  <2>1. CASE SaveEpisodeFails
    BY <2>1, FailStep
  <2>2. CASE WriteInfoFails
    BY <2>2, InfoFails
  <2>3. ASSUME NEW full \in BOOLEAN, SaveEpisodeVideoFails(full)  PROVE IInv'
    BY <2>3, VideoFails
  <2>4. ASSUME NEW full \in BOOLEAN, NEW opened \in BOOLEAN, SaveEpisodeDataFails(full, opened)
        PROVE  IInv'
    BY <2>4, DataFails
  <2>5. ASSUME NEW full \in BOOLEAN, NEW opened \in BOOLEAN,
               SaveEpisodeMetadataFails(full, opened)
        PROVE  IInv'
    BY <2>5, RecordFails, MetaStep
  <2> QED  BY <1>2, <2>1, <2>2, <2>3, <2>4, <2>5 DEF Fails
<1>3. CASE ClearEpisodeBuffer
  BY <1>3, ClearStep
<1>4. CASE Finalize
  BY <1>4, FinalizeStep
<1>5. CASE Crash
  BY <1>5, CrashStep
<1>6. CASE Resume
  BY <1>6, ResumeStep
<1>7. CASE UNCHANGED vars
  BY <1>7, StutterInv
<1> QED  BY <1>1, <1>2, <1>3, <1>4, <1>5, <1>6, <1>7 DEF Next

-----------------------------------------------------------------------------
(* The theorems.                                                           *)

\* The invariant of the dataset holds in every behaviour.
THEOREM StorageInvariant == Spec => []IInv
<1>1. Init => IInv
  BY InitInv
<1>2. IInv /\ [Next]_vars => IInv'
  BY StepInv
<1> QED  BY <1>1, <1>2, PTL DEF Spec

\* Every file is in a chunk of chunks_size files, a writer's file exists and
\* the metadata buffer is smaller than metadata_buffer_size until a flush fails.
THEOREM StorageTypes == Spec => []TypeOK
<1>1. IInv => TypeOK
  <2> SUFFICES ASSUME IInv  PROVE TypeOK
    OBVIOUS
  <2>1. \A fs \in {data, video, meta} : DOMAIN fs \subseteq File
    BY DEF IInv, Types, FilesOf
  <2>2. session.pc \in {"closed", "idle", "video", "meta", "info", "failed"}
    BY DEF IInv, Types, SessionType, Place
  <2>3. writer.open \in DOMAIN data \cup {None}
    BY DEF IInv, EpisodeInv
  <2>4. metaw.open \in DOMAIN meta \cup {None} /\ (past.failures = 0 => Len(metaw.buffer) < BufferSize)
    BY DEF IInv, RecordsInv
  <2>5. past.kept <= past.clean /\ past.clean <= info.episodes
    BY DEF IInv, CountsInv
  <2> QED  BY <2>1, <2>2, <2>3, <2>4, <2>5 DEF IInv, Types, TypeOK, Counts
<1> QED  BY <1>1, StorageInvariant, PTL

\* A record is in the metadata file that it names, though it comes from the
\* buffer and files change.
THEOREM RecordsAreFiled == Spec => []RecordsInTheirFile
<1>1. IInv => RecordsInTheirFile
  <2> SUFFICES ASSUME IInv  PROVE RecordsInTheirFile
    OBVIOUS
  <2>1. FilesOf(meta, Record) /\ InFile(meta)
    BY DEF IInv, Types, RecordsInv
  <2> QED  BY <2>1, InFileIs DEF RecordsInTheirFile
<1> QED  BY <1>1, StorageInvariant, PTL

-----------------------------------------------------------------------------
(* The order of the records.                                               *)

\* The records in the files and in the buffer.
All == Contents(meta) \o metaw.buffer

\* U are the episodes whose saving failed between the record and the count.
Ascending(q, U) ==
  \A i \in 1..(Len(q) - 1) :
    /\ q[i].episode < q[i + 1].episode \/ q[i].episode \in U
    /\ q[i].to = q[i + 1].from

\* Of the first k episodes none is as far as n.
Under(q, k, n, U) == \A i \in 1..k : q[i].episode < n \/ q[i].episode \in U

NoneEmpty(fs) == \A f \in DOMAIN fs : fs[f] # <<>>

\* What is written next goes to file f, which is the last file and open, or
\* comes after all files.
Filed(fs, f, open) ==
  IsLast(fs, f) /\ IF f \in DOMAIN fs THEN open = f ELSE open = None

\* What a session has found and added.
FoundInv ==
  /\ NoneEmpty(SettledIn(meta, metaw.open))
  /\ Ascending(All, past.uncounted)
  /\ IF session.pc = "info"
     THEN /\ metaw.latest # None /\ metaw.latest.episode = info.episodes
          /\ Under(All, Len(All) - 1, info.episodes, past.uncounted)
     ELSE Under(All, Len(All), info.episodes, past.uncounted)
  /\ metaw.latest = None =>
       All = metaw.episodes /\ Filed(meta, FirstOfSession("file"), None)
  /\ metaw.latest # None =>
       /\ All # <<>> /\ Last(All) = metaw.latest
       /\ Filed(meta, metaw.latest.file, metaw.open)
       /\ metaw.buffer # <<>> \/ (metaw.open # None /\ meta[metaw.open] # <<>>)
  /\ session.pc \in {"video", "meta"} => session.record.episode = info.episodes

\* The metadata files that can be read.
Readable(m, br) == [f \in {g \in DOMAIN m : <<"meta", g>> \notin br} |-> m[f]]

\* What a session leaves.
LeftInv ==
  /\ metaw.buffer = <<>> /\ NoneEmpty(Readable(meta, broken))
  /\ Ascending(Records, past.uncounted)
  /\ disk # None => Under(Records, Len(Records), disk.episodes, past.uncounted)

\* A session can only start when no metadata file is broken.
BrokenInv ==
  \A f \in File : <<"meta", f>> \in broken => f \in DOMAIN meta /\ session.pc = "closed"

\* The episodes that info.json does not count but the process does.
UncountedInv ==
  disk # None => \A n \in disk.episodes..(info.episodes - 1) : n \in past.uncounted

OrderInv ==
  /\ BrokenInv /\ UncountedInv
  /\ IF session.pc = "closed" THEN LeftInv ELSE FoundInv

LEMMA AppendAfter ==
  ASSUME NEW S, NEW m \in Seq(S), NEW b \in Seq(S), NEW r \in S
  PROVE  m \o Append(b, r) = Append(m \o b, r) /\ Append(b, r) # <<>>
<1>1. PICK one \in Seq(S) : one = <<r>>
  <2>1. <<r>> \in Seq(S)
    OBVIOUS
  <2> QED  BY <2>1
<1>2. Append(b, r) = b \o one
  BY <1>1, AppendIsConcat
<1>3. PICK c \in Seq(S) : c = m \o b
  BY ConcatProperties
<1>4. Append(c, r) = c \o one
  BY <1>1, AppendIsConcat
<1>5. (m \o b) \o one = m \o (b \o one)
  BY SMTT(30), ConcatAssociative
<1>6. PICK a \in Seq(S) : a = Append(b, r) /\ Len(a) = Len(b) + 1
  BY AppendProperties
<1>7. a # <<>>
  <2>1. Len(b) \in Nat
    OBVIOUS
  <2>2. Len(a) # 0
    BY <1>6, <2>1
  <2> QED  BY <2>2, EmptySeq
<1> QED  BY <1>2, <1>3, <1>4, <1>5, <1>6, <1>7

LEMMA JoinNotEmpty ==
  ASSUME NEW S, NEW x \in Seq(S), NEW q \in Seq(S)
  PROVE  /\ x \o q \in Seq(S)
         /\ x # <<>> => x \o q # <<>>
         /\ q # <<>> => x \o q # <<>> /\ Last(x \o q) = Last(q)
<1>1. PICK k, l \in Nat : k = Len(x) /\ l = Len(q)
  BY LenProperties
<1>2. PICK c \in Seq(S) :
        /\ c = x \o q /\ Len(c) = k + l
        /\ \A i \in 1..(k + l) : c[i] = IF i <= k THEN x[i] ELSE q[i - k]
  <2>1. /\ x \o q \in Seq(S) /\ Len(x \o q) = Len(x) + Len(q)
        /\ \A i \in 1..(Len(x) + Len(q)) :
             (x \o q)[i] = IF i <= Len(x) THEN x[i] ELSE q[i - Len(x)]
    BY ConcatProperties
  <2> QED  BY <1>1, <2>1
<1>3. x # <<>> => c # <<>>
  BY <1>1, <1>2, EmptySeq
<1>4. ASSUME q # <<>>  PROVE c # <<>> /\ Last(c) = Last(q)
  <2>1. l # 0
    BY <1>1, <1>4, EmptySeq
  <2>2. k + l \in 1..(k + l) /\ ~(k + l <= k) /\ (k + l) - k = l
    BY <2>1
  <2>3. c[k + l] = q[l]
    BY <1>2, <2>2
  <2>4. c # <<>>
    BY <1>2, <2>2, EmptySeq
  <2> QED  BY <1>1, <1>2, <2>3, <2>4 DEF Last
<1> QED  BY <1>2, <1>3, <1>4

LEMMA NextIsAfter == ASSUME NEW f \in File  PROVE Before(f, NextFile(f))
<1>1. PICK a \in Nat, b \in Nat : f = <<a, b>>
  BY StorageAssumption DEF File
<1>2. f[1] = a /\ f[2] = b
  BY <1>1
<1>3. CASE b = ChunksSize - 1
  <2>1. NextFile(f) = <<a + 1, 0>>
    BY <1>2, <1>3 DEF NextFile
  <2>2. NextFile(f)[1] = a + 1
    BY <2>1
  <2> QED  BY <1>2, <2>2 DEF Before
<1>4. CASE b # ChunksSize - 1
  <2>1. NextFile(f) = <<a, b + 1>>
    BY <1>2, <1>4 DEF NextFile
  <2>2. NextFile(f)[1] = a /\ NextFile(f)[2] = b + 1
    BY <2>1
  <2> QED  BY <1>2, <2>2 DEF Before
<1> QED  BY <1>3, <1>4

LEMMA LastExists ==
  ASSUME NEW S, NEW fs, FilesOf(fs, S), DOMAIN fs # {}
  PROVE  \E f \in DOMAIN fs : IsLast(fs, f)
<1>1. DOMAIN fs \subseteq Pair /\ IsFiniteSet(DOMAIN fs)
  BY StorageAssumption DEF FilesOf, File, Pair
<1>2. PICK n \in Nat : n = Cardinality(DOMAIN fs) /\ n # 0
  BY <1>1, FS_CardinalityType, FS_EmptySet
<1>3. PICK f \in DOMAIN fs : Cardinality(Below(DOMAIN fs, f)) = n - 1
  BY <1>1, <1>2, PlaceHasFile
<1>4. /\ IsFiniteSet(DOMAIN fs \ {f}) /\ Cardinality(DOMAIN fs \ {f}) = n - 1
  BY <1>1, <1>2, FS_RemoveElement
<1>5. Below(DOMAIN fs, f) \subseteq DOMAIN fs \ {f}
  <2>1. ~Before(f, f)
    BY <1>1, BeforeIsOrder
  <2> QED  BY <2>1 DEF Below
<1>6. Below(DOMAIN fs, f) = DOMAIN fs \ {f}
  <2>1. Below(DOMAIN fs, f) \in SUBSET (DOMAIN fs \ {f})
    BY <1>5
  <2> QED  BY <1>3, <1>4, <2>1, FS_Subset
<1> QED  BY <1>6 DEF Below, IsLast

LEMMA AfterLast ==
  ASSUME NEW S, NEW fs, FilesOf(fs, S), NEW f \in File, IsLast(fs, f)
  PROVE  Filed(fs, NextFile(f), None)
<1>1. PICK h \in File : h = NextFile(f) /\ Before(f, h)
  BY NextIsFile, NextIsAfter
<1>2. f \in Pair /\ h \in Pair /\ DOMAIN fs \subseteq Pair
  BY StorageAssumption DEF FilesOf, File, Pair
<1>3. ASSUME NEW g \in DOMAIN fs  PROVE Before(g, h)
  <2>1. g \in Pair /\ (g = f \/ Before(g, f))
    BY <1>2 DEF IsLast
  <2> QED  BY <1>1, <1>2, <2>1, BeforeIsOrder
<1>4. h \notin DOMAIN fs
  BY <1>2, <1>3, BeforeIsOrder
<1> QED  BY <1>1, <1>3, <1>4 DEF Filed, IsLast

LEMMA WrittenFiled ==
  ASSUME NEW m, NEW n, NEW f, NEW content, IsLast(m, f), Written(n, m, f, content)
  PROVE  Filed(n, f, f)
BY DEF Written, IsLast, Filed

LEMMA SettledNotEmpty ==
  ASSUME NEW m, NEW open
  PROVE  /\ NoneEmpty(SettledIn(m, open)) /\ (open # None => m[open] # <<>>) => NoneEmpty(m)
         /\ NoneEmpty(m) => NoneEmpty(SettledIn(m, open))
BY DEF NoneEmpty, SettledIn, Without

\* Records for one file.
AllFor(buffer, f) == buffer \in Seq(Record) /\ \A i \in 1..Len(buffer) : buffer[i].file = f

\* A flush adds what is buffered to the end of the records.
LEMMA FlushedContents ==
  ASSUME NEW m, FilesOf(m, Record), NEW buffer, NEW f \in File, AllFor(buffer, f),
         NEW open, Filed(m, f, open), NEW fl, fl = Flushed(m, buffer, open)
  PROVE  /\ Contents(fl.meta) = Contents(m) \o buffer
         /\ Filed(fl.meta, f, fl.open)
         /\ buffer # <<>> => fl.open = f /\ fl.meta[f] # <<>>
         /\ buffer = <<>> => fl.open = open /\ fl.meta = m
         /\ SettledIn(fl.meta, fl.open) = SettledIn(m, open)
<1> buffer \in Seq(Record) /\ \A i \in 1..Len(buffer) : buffer[i].file = f
  BY DEF AllFor
<1>1. CASE buffer = <<>>
  <2>1. fl.meta = m /\ fl.open = open
    BY <1>1 DEF Flushed
  <2>2. PICK p \in Seq(Record) : p = Contents(m)
    BY ContentsType
  <2>3. p \o <<>> = p
    BY ConcatEmptySeq
  <2> QED  BY <1>1, <2>1, <2>2, <2>3
<1>2. Holds(buffer, Record) /\ IsLast(m, f) /\ f # None
  BY StorageAssumption DEF Holds, Filed, AllFor
<1>3. CASE buffer # <<>> /\ f \notin DOMAIN m
  <2>1. 1 \in 1..Len(buffer) /\ buffer[1].file = f
    BY <1>3, EmptySeq
  <2>2. PICK n : n = With(m, f, buffer)
    OBVIOUS
  <2>3. FilesOf(n, Record) /\ Written(n, m, f, buffer)
    BY <1>2, <2>2, WithFile
  <2>4. open = None
    BY <1>3 DEF Filed
  <2>5. fl.meta = n /\ fl.open = f
    BY <1>3, <2>1, <2>2, <2>4 DEF Flushed
  <2>6. Contents(n) = Contents(m) \o buffer
    BY <1>2, <1>3, <2>2, NewFileContents
  <2>7. Filed(n, f, f) /\ n[f] # <<>>
    BY <1>2, <1>3, <2>3, WrittenFiled DEF Written
  <2>8. SettledIn(n, f) = SettledIn(m, open)
    BY <1>2, <1>3, <2>2, <2>4, WithoutWritten DEF SettledIn
  <2> QED  BY <1>3, <2>5, <2>6, <2>7, <2>8
<1>4. CASE buffer # <<>> /\ f \in DOMAIN m
  <2>1. open = f /\ open # None
    BY <1>2, <1>4 DEF Filed
  <2>2. PICK q \in Seq(Record) : q = m[f]
    BY <1>4 DEF FilesOf
  <2>3. q \o buffer \in Seq(Record) /\ Len(q \o buffer) = Len(q) + Len(buffer)
    BY ConcatProperties
  <2>4. PICK c \in Seq(Record) : c = q \o buffer /\ c # <<>>
    <3>1. Len(q) \in Nat /\ Len(buffer) \in Nat /\ Len(buffer) # 0
      BY <1>4, EmptySeq
    <3>2. Len(q \o buffer) # 0
      BY <2>3, <3>1
    <3> QED  BY <2>3, <3>2, EmptySeq
  <2>5. PICK n : n = With(m, f, c)
    OBVIOUS
  <2>6. FilesOf(n, Record) /\ Written(n, m, f, c)
    <3>1. Holds(c, Record)
      BY DEF Holds
    <3> QED  BY <2>5, <3>1, WithFile
  <2>7. fl.meta = n /\ fl.open = f
    BY <1>4, <2>1, <2>2, <2>4, <2>5 DEF Flushed
  <2>8. Contents(n) = Contents(m) \o buffer
    <3>1. Contents(With(m, f, m[f] \o buffer)) = Contents(m) \o buffer
      BY <1>2, <1>4, LastFileContents
    <3> QED  BY <2>2, <2>4, <2>5, <3>1
  <2>9. Filed(n, f, f) /\ n[f] # <<>>
    BY <1>2, <2>4, <2>6, WrittenFiled DEF Written
  <2>10. SettledIn(n, f) = SettledIn(m, open)
    BY <1>2, <2>1, <2>5, WithoutWritten DEF SettledIn
  <2> QED  BY <1>4, <2>7, <2>8, <2>9, <2>10
<1> QED  BY <1>1, <1>3, <1>4

LEMMA AscendingStart ==
  ASSUME NEW p \in Seq(Record), NEW q \in Seq(Record), NEW n \in Nat, NEW U, NEW all,
         all = p \o q, Ascending(all, U)
  PROVE  /\ Ascending(p, U)
         /\ Under(all, Len(all), n, U) => Under(p, Len(p), n, U)
         /\ q # <<>> /\ Under(all, Len(all) - 1, n, U) => Under(p, Len(p), n, U)
<1>1. PICK k \in Nat, l \in Nat : k = Len(p) /\ l = Len(q)
  BY LenProperties
<1>2. PICK c \in Seq(Record) :
        /\ c = p \o q /\ Len(c) = k + l
        /\ \A i \in 1..k : c[i] = p[i]
  <2>1. /\ p \o q \in Seq(Record) /\ Len(p \o q) = Len(p) + Len(q)
        /\ \A i \in 1..(Len(p) + Len(q)) :
             (p \o q)[i] = IF i <= Len(p) THEN p[i] ELSE q[i - Len(p)]
    BY ConcatProperties
  <2>2. \A i \in 1..Len(p) : (p \o q)[i] = p[i]
    BY <1>1, <2>1
  <2> QED  BY <1>1, <2>1, <2>2
<1>3. Ascending(p, U)
  <2>3. \A i \in 1..(k + l - 1) :
          /\ c[i].episode < c[i + 1].episode \/ c[i].episode \in U
          /\ c[i].to = c[i + 1].from
    BY <1>2 DEF Ascending
  <2>1. ASSUME NEW i \in 1..(k - 1)
        PROVE  /\ p[i].episode < p[i + 1].episode \/ p[i].episode \in U
               /\ p[i].to = p[i + 1].from
    <3>1. i \in 1..k /\ i + 1 \in 1..k /\ i \in 1..(k + l - 1)
      OBVIOUS
    <3> QED  BY <1>2, <2>3, <3>1
  <2> QED  BY <1>1, <2>1 DEF Ascending
<1>4. Under(all, Len(all), n, U) => Under(p, Len(p), n, U)
  <2>1. \A i \in 1..k : i \in 1..(k + l)
    OBVIOUS
  <2> QED  BY <1>1, <1>2, <2>1 DEF Under
<1>5. ASSUME q # <<>>, Under(all, Len(all) - 1, n, U)  PROVE Under(p, Len(p), n, U)
  <2>1. l # 0
    BY <1>1, <1>5, EmptySeq
  <2>2. \A i \in 1..k : i \in 1..((k + l) - 1)
    BY <2>1
  <2> QED  BY <1>1, <1>2, <1>5, <2>2 DEF Under
<1> QED  BY <1>3, <1>4, <1>5

LEMMA AscendingEnd ==
  ASSUME NEW q \in Seq(Record), NEW r \in Record, NEW n \in Nat, NEW U,
         Ascending(q, U), Under(q, Len(q), n, U), r.episode = n,
         q # <<>> => Last(q).to = r.from
  PROVE  /\ Append(q, r) \in Seq(Record) /\ Append(q, r) # <<>> /\ Last(Append(q, r)) = r
         /\ Ascending(Append(q, r), U)
         /\ Under(Append(q, r), Len(Append(q, r)) - 1, n, U)
<1>1. PICK k \in Nat : k = Len(q)
  BY LenProperties
<1>2. PICK c \in Seq(Record) :
        /\ c = Append(q, r) /\ Len(c) = k + 1 /\ c[k + 1] = r
        /\ \A i \in 1..k : c[i] = q[i]
  <2>1. /\ Append(q, r) \in Seq(Record) /\ Len(Append(q, r)) = k + 1
        /\ Append(q, r)[k + 1] = r /\ \A i \in 1..k : Append(q, r)[i] = q[i]
    BY <1>1
  <2> QED  BY <2>1
<1>3. ASSUME NEW i \in 1..k
      PROVE  /\ c[i].episode < c[i + 1].episode \/ c[i].episode \in U
             /\ c[i].to = c[i + 1].from
  <2>1. CASE i = k
    <3>1. k \in 1..k /\ q # <<>> /\ Last(q) = q[k]
      BY <1>1, <2>1, EmptySeq DEF Last
    <3> QED  BY <1>1, <1>2, <2>1, <3>1 DEF Under
  <2>2. CASE i # k
    <3>1. i \in 1..(k - 1) /\ i + 1 \in 1..k
      BY <2>2
    <3> QED  BY <1>1, <1>2, <3>1 DEF Ascending
  <2> QED  BY <2>1, <2>2
<1>4. c # <<>> /\ Last(c) = r
  BY <1>2, EmptySeq DEF Last
<1>5. (k + 1) - 1 = k
  OBVIOUS
<1>6. Ascending(c, U)
  BY <1>2, <1>3, <1>5 DEF Ascending
<1>7. Under(c, Len(c) - 1, n, U)
  BY <1>1, <1>2, <1>5 DEF Under
<1> QED  BY <1>2, <1>4, <1>6, <1>7

\* More episodes are excepted, or the last one is counted.
LEMMA UnderMore ==
  ASSUME NEW q \in Seq(Record), NEW n \in Nat, NEW U, NEW V, U \subseteq V
  PROVE  /\ Ascending(q, U) => Ascending(q, V)
         /\ \A k : Under(q, k, n, U) => Under(q, k, n, V)
         /\ q # <<>> /\ Last(q).episode = n /\ Under(q, Len(q) - 1, n, U) =>
              Under(q, Len(q), n + 1, V) /\ Under(q, Len(q), n, V \cup {n})
<1>1. Ascending(q, U) => Ascending(q, V)
  BY DEF Ascending
<1>2. \A k : Under(q, k, n, U) => Under(q, k, n, V)
  BY DEF Under
<1>3. ASSUME q # <<>>, Last(q).episode = n, Under(q, Len(q) - 1, n, U)
      PROVE  Under(q, Len(q), n + 1, V) /\ Under(q, Len(q), n, V \cup {n})
  <2>1. PICK k \in Nat : k = Len(q) /\ q[k].episode = n
    BY <1>3, LenProperties DEF Last
  <2>2. ASSUME NEW i \in 1..k
        PROVE  /\ q[i].episode < n + 1 \/ q[i].episode \in V
               /\ q[i].episode < n \/ q[i].episode \in V \cup {n}
    <3>1. CASE i = k
      BY <2>1, <3>1
    <3>2. CASE i # k
      <4>1. i \in 1..(k - 1)
        BY <3>2
      <4>2. q[i].episode < n \/ q[i].episode \in U
        BY <1>3, <2>1, <4>1 DEF Under
      <4>3. q[i] \in Record
        BY <2>1, ElementOfSeq
      <4>4. q[i].episode \in Nat
        BY <4>3 DEF Record
      <4> QED  BY <4>2, <4>4
    <3> QED  BY <3>1, <3>2
  <2> QED  BY <2>1, <2>2 DEF Under
<1> QED  BY <1>1, <1>2, <1>3

LEMMA AllType ==
  ASSUME IInv
  PROVE  /\ FilesOf(meta, Record) /\ Contents(meta) \in Seq(Record)
         /\ metaw.buffer \in Seq(Record) /\ metaw.episodes \in Seq(Record)
         /\ All \in Seq(Record) /\ info.episodes \in Nat
<1>1. FilesOf(meta, Record) /\ metaw.buffer \in Seq(Record) /\ metaw.episodes \in Seq(Record)
  BY DEF IInv, Types, MetaType
<1>2. PICK p, q \in Seq(Record) : p = Contents(meta) /\ q = metaw.buffer
  BY <1>1, ContentsType
<1>3. p \o q \in Seq(Record)
  BY ConcatProperties
<1>4. info.episodes \in Nat
  BY DEF IInv, Types, Counts
<1> QED  BY <1>1, <1>2, <1>3, <1>4 DEF All

\* They are all files, or all but the one left open.
LEMMA ReadableIs ==
  ASSUME NEW m, FilesOf(m, Record), NEW br
  PROVE  /\ (\A f \in File : <<"meta", f>> \notin br) => Readable(m, br) = m
         /\ \A f \in DOMAIN m :
              (\A g \in File : <<"meta", g>> \in br <=> g = f) => Readable(m, br) = Without(m, f)
<1>1. DOMAIN m \subseteq File /\ m = [f \in DOMAIN m |-> m[f]]
  BY DEF FilesOf
<1>2. ASSUME \A f \in File : <<"meta", f>> \notin br  PROVE Readable(m, br) = m
  <2>1. {g \in DOMAIN m : <<"meta", g>> \notin br} = DOMAIN m
    BY <1>1, <1>2
  <2> QED  BY <1>1, <2>1 DEF Readable
<1>3. ASSUME NEW f \in DOMAIN m, \A g \in File : <<"meta", g>> \in br <=> g = f
      PROVE  Readable(m, br) = Without(m, f)
  <2>1. {g \in DOMAIN m : <<"meta", g>> \notin br} = DOMAIN m \ {f}
    BY <1>1, <1>3
  <2> QED  BY <2>1 DEF Without, Readable
<1> QED  BY <1>2, <1>3

LEMMA RecordsIs == Records = Contents(Readable(meta, broken)) \o metaw.buffer
BY DEF Records, Readable

\* When no file is broken the records are all records.
LEMMA RecordsAreAll ==
  ASSUME IInv, \A f \in File : <<"meta", f>> \notin broken
  PROVE  Records = All
BY AllType, ReadableIs, RecordsIs DEF All

\* What must hold of info.json when other episodes are counted.
LEMMA UncountedKept ==
  ASSUME IInv, UncountedInv, info' = info, disk' = disk, past.uncounted \subseteq past'.uncounted
  PROVE  UncountedInv'
BY DEF UncountedInv

LEMMA OrderKept ==
  ASSUME IInv, OrderInv, meta' = meta, metaw' = metaw, broken' \subseteq broken \cup ({"data"} \X File),
         session.pc # "closed", session'.pc \notin {"closed", "info"},
         info'.episodes = IF session.pc = "info" THEN info.episodes + 1 ELSE info.episodes,
         session'.pc \in {"video", "meta"} => session'.record.episode = info'.episodes,
         past.uncounted \subseteq past'.uncounted, UncountedInv'
  PROVE  OrderInv'
<1>1. All' = All
  BY DEF All
<1>2. FirstOfSession("file")' = FirstOfSession("file")
  BY DEF FirstOfSession
<1>3. FoundInv
  BY DEF OrderInv
<1>4. PICK all \in Seq(Record) : all = All
  BY AllType
<1>5. PICK n \in Nat : n = info.episodes
  BY AllType
<1>6. Ascending(all, past'.uncounted) /\ Under(all, Len(all), info'.episodes, past'.uncounted)
  <2>1. Ascending(all, past.uncounted)
    BY <1>3, <1>4 DEF FoundInv
  <2>2. CASE session.pc = "info"
    <3>1. all # <<>> /\ Last(all).episode = n /\ Under(all, Len(all) - 1, n, past.uncounted)
      BY <1>3, <1>4, <1>5, <2>2 DEF FoundInv
    <3>2. info'.episodes = n + 1
      BY <1>5, <2>2
    <3>3. PICK U, V : U = past.uncounted /\ V = past'.uncounted /\ U \subseteq V
      OBVIOUS
    <3>4. Ascending(all, V) /\ Under(all, Len(all), n + 1, V)
      BY <2>1, <3>1, <3>3, UnderMore
    <3> QED  BY <3>2, <3>3, <3>4
  <2>3. CASE session.pc # "info"
    <3>1. Under(all, Len(all), n, past.uncounted) /\ info'.episodes = n
      BY <1>3, <1>4, <1>5, <2>3 DEF FoundInv
    <3> QED  BY <2>1, <3>1, UnderMore
  <2> QED  BY <2>2, <2>3
<1>7. FoundInv'
  BY <1>1, <1>2, <1>3, <1>4, <1>6 DEF FoundInv
<1>8. BrokenInv'
  <2>1. \A f \in File : <<"meta", f>> \in broken' => <<"meta", f>> \in broken
    OBVIOUS
  <2>2. \A f \in File : <<"meta", f>> \notin broken
    BY DEF OrderInv, BrokenInv
  <2> QED  BY <2>1, <2>2 DEF BrokenInv
<1> QED  BY <1>7, <1>8 DEF OrderInv

\* All that is buffered goes to the file of the latest record.
LEMMA FlushedAll ==
  ASSUME IInv, FoundInv, metaw.latest # None,
         NEW n, n = Flushed(meta, metaw.buffer, metaw.open).meta
  PROVE  /\ FilesOf(n, Record) /\ NoneEmpty(n) /\ Contents(n) = All
         /\ metaw.latest.file \in File /\ IsLast(n, metaw.latest.file)
<1>1. PICK q \in Seq(Record) : q = metaw.buffer
  BY AllType
<1>2. PICK f \in File : f = metaw.latest.file
  <2>1. metaw.latest \in Record
    BY DEF IInv, Types, MetaType
  <2> QED  BY <2>1 DEF Record
<1>3. Filed(meta, f, metaw.open) /\ AllFor(q, f)
  BY <1>1, <1>2 DEF FoundInv, IInv, RecordsInv, AllFor
<1>4. PICK fl : fl = Flushed(meta, q, metaw.open)
  OBVIOUS
<1>5. fl.meta = n /\ FilesOf(n, Record) /\ FilesOf(meta, Record)
  BY <1>1, <1>4, AllType, BufferFlushed
<1>6. /\ Contents(fl.meta) = Contents(meta) \o q
      /\ Filed(fl.meta, f, fl.open)
      /\ q # <<>> => fl.open = f /\ fl.meta[f] # <<>>
      /\ q = <<>> => fl.open = metaw.open /\ fl.meta = meta
      /\ SettledIn(fl.meta, fl.open) = SettledIn(meta, metaw.open)
  BY SMTT(30), <1>3, <1>4, <1>5, FlushedContents
<1>7. fl.open # None => fl.meta[fl.open] # <<>>
  <2>1. CASE q = <<>>
    BY <1>1, <1>6, <2>1 DEF FoundInv
  <2>2. CASE q # <<>>
    BY <1>6, <2>2
  <2> QED  BY <2>1, <2>2
<1>8. NoneEmpty(SettledIn(fl.meta, fl.open))
  BY <1>6 DEF FoundInv
<1>9. NoneEmpty(n)
  BY <1>5, <1>7, <1>8, SettledNotEmpty
<1> QED  BY <1>1, <1>2, <1>5, <1>6, <1>9 DEF All, Filed

\* The record that an episode gets comes after all others.
NewRecord(r, end) ==
  /\ r.episode = session.record.episode /\ r.data = session.record.data
  /\ r.video = session.record.video
  /\ r.videoFrom = session.record.videoFrom /\ r.videoTo = session.record.videoTo
  /\ r.from = end /\ r.to = end + session.length

EndOf(q) == IF q = <<>> THEN 0 ELSE Last(q).to

LEMMA MetaAdds ==
  ASSUME IInv, OrderInv, NEW failed \in BOOLEAN, RecordStep(failed)
  PROVE  /\ OrderInv' /\ metaw'.latest # None
         /\ \E r \in Record : NewRecord(r, EndOf(All)) /\ metaw'.latest = r /\ All' = Append(All, r)
         /\ \/ SettledIn(meta', metaw'.open) = SettledIn(meta, metaw.open)
            \/ Contents(SettledIn(meta', metaw'.open)) = All
<1>1. PICK file, record, m0, b0, o0, m1, b1, o1 :
        /\ RecordFor(record, file) /\ Turned(file, m0, b0, o0)
        /\ Stored(Append(b0, record), m0, o0, m1, b1, o1, failed)
        /\ session.pc = "meta" /\ Noted(failed)
        /\ meta' = m1
        /\ metaw' = [metaw EXCEPT !.latest = record, !.open = o1, !.buffer = b1]
        /\ broken' \subseteq broken
        /\ info' = info /\ disk' = disk /\ data' = data /\ video' = video /\ torn' = torn
        /\ writer' = writer
  BY MetaParts
<1>2. FoundInv
  BY <1>1 DEF OrderInv
<1>3. /\ FilesOf(meta, Record) /\ info.episodes \in Nat /\ metaw \in MetaType
      /\ session \in SessionType
  BY AllType DEF IInv, Types
<1>4. PICK p, q, all \in Seq(Record) :
        p = Contents(meta) /\ q = metaw.buffer /\ all = p \o q /\ all = All
  BY AllType DEF All
<1>5. PICK e \in Nat :
        /\ e = info.episodes /\ Under(all, Len(all), e, past.uncounted)
        /\ Ascending(all, past.uncounted)
  BY <1>1, <1>2, <1>3, <1>4 DEF FoundInv
<1>6. /\ record \in Record /\ record.episode = e /\ file \in File /\ record.file = file
      /\ record # None
  BY <1>1, <1>2, <1>5, StorageAssumption DEF RecordFor, FoundInv
<1>7. record.from = EndOf(all) /\ (all # <<>> => Last(all).to = record.from)
  <2>1. CASE metaw.latest = None
    BY <1>1, <1>2, <1>4, <2>1 DEF FoundInv, RecordFor, EndOf
  <2>2. CASE metaw.latest # None
    BY <1>1, <1>2, <1>4, <2>2 DEF FoundInv, RecordFor, EndOf
  <2> QED  BY <2>1, <2>2
<1>8. /\ FilesOf(m0, Record) /\ NoneEmpty(SettledIn(m0, o0)) /\ b0 \in Seq(Record)
      /\ Contents(m0) \o b0 = all /\ Filed(m0, file, o0)
      /\ \A i \in 1..Len(b0) : b0[i].file = file
      /\ \/ SettledIn(m0, o0) = SettledIn(meta, metaw.open)
         \/ Contents(SettledIn(m0, o0)) = all
  <2>1. CASE /\ metaw.latest # None /\ metaw.latest.file \in DOMAIN meta
             /\ file = NextFile(metaw.latest.file)
             /\ m0 = Flushed(meta, metaw.buffer, metaw.open).meta /\ b0 = <<>> /\ o0 = None
    <3>1. PICK f \in File : f = metaw.latest.file
      BY <1>3, <2>1 DEF FilesOf
    <3>2. FilesOf(m0, Record) /\ NoneEmpty(m0) /\ Contents(m0) = all /\ IsLast(m0, f)
      BY <1>2, <1>4, <2>1, <3>1, FlushedAll
    <3>3. Filed(m0, file, None)
      BY <2>1, <3>1, <3>2, AfterLast
    <3>4. PICK empty \in Seq(Record) : empty = <<>> /\ Len(empty) = 0
      BY EmptySeq
    <3>5. all \o <<>> = all
      BY ConcatEmptySeq
    <3>6. SettledIn(m0, o0) = m0
      BY <2>1 DEF SettledIn
    <3> QED  BY <2>1, <3>2, <3>3, <3>4, <3>5, <3>6
  <2>2. CASE /\ file = IF metaw.latest = None THEN FirstOfSession("file") ELSE metaw.latest.file
             /\ m0 = meta /\ b0 = metaw.buffer /\ o0 = metaw.open
    <3>1. Filed(m0, file, o0)
      <4>1. CASE metaw.latest = None
        <5>1. metaw.open = None
          BY <4>1, NothingToFlush
        <5> QED  BY <1>2, <2>2, <4>1, <5>1 DEF FoundInv
      <4>2. CASE metaw.latest # None
        BY <1>2, <2>2, <4>2 DEF FoundInv
      <4> QED  BY <4>1, <4>2
    <3>2. \A i \in 1..Len(b0) : b0[i].file = file
      BY <2>2 DEF IInv, RecordsInv
    <3>3. NoneEmpty(SettledIn(m0, o0))
      BY <1>2, <2>2 DEF FoundInv
    <3> QED  BY <1>3, <1>4, <2>2, <3>1, <3>2, <3>3
  <2> QED  BY <1>1, <2>1, <2>2 DEF Turned
<1>9. PICK r \in Record : r = record
  BY <1>6
<1>10. PICK m, b \in Seq(Record) : m = Contents(m0) /\ b = b0 /\ m \o b = all
  BY <1>8, ContentsType
<1>11. PICK buffer \in Seq(Record) :
         /\ buffer = Append(b, r) /\ buffer # <<>>
         /\ \A i \in 1..Len(buffer) : buffer[i].file = file
  <2>1. /\ Append(b, r) \in Seq(Record) /\ Len(Append(b, r)) = Len(b) + 1
        /\ Append(b, r)[Len(b) + 1] = r
        /\ \A i \in 1..Len(b) : Append(b, r)[i] = b[i]
    BY <1>9, <1>10
  <2>2. Len(b) \in Nat /\ \A i \in 1..Len(b) : b[i].file = file
    BY <1>8, <1>9, <1>10
  <2>3. ASSUME NEW i \in 1..(Len(b) + 1)  PROVE Append(b, r)[i].file = file
    <3>1. CASE i = Len(b) + 1
      BY <1>6, <1>9, <1>10, <2>1, <3>1
    <3>2. CASE i # Len(b) + 1
      <4>1. i \in 1..Len(b)
        BY <2>2, <3>2
      <4> QED  BY <2>1, <2>2, <4>1
    <3> QED  BY <3>1, <3>2
  <2>4. Append(b, r) # <<>>
    BY ZenonT(60), AppendAfter
  <2> QED  BY <2>1, <2>3, <2>4
<1>12. m \o buffer = Append(all, r)
  <2>1. m \o Append(b, r) = Append(m \o b, r)
    BY AppendAfter
  <2> QED  BY <1>9, <1>10, <1>11, <2>1
<1>13. PICK next \in Seq(Record) :
         /\ next = Append(all, r) /\ next # <<>> /\ Last(next) = r
         /\ Ascending(next, past.uncounted)
         /\ Under(next, Len(next) - 1, e, past.uncounted)
  <2>1. /\ Ascending(all, past.uncounted) /\ Under(all, Len(all), e, past.uncounted)
        /\ r.episode = e /\ (all # <<>> => Last(all).to = r.from)
    BY <1>5, <1>6, <1>7, <1>9
  <2>2. PICK U : U = past.uncounted
    OBVIOUS
  <2>3. /\ Append(all, r) \in Seq(Record) /\ Append(all, r) # <<>> /\ Last(Append(all, r)) = r
        /\ Ascending(Append(all, r), U)
        /\ Under(Append(all, r), Len(Append(all, r)) - 1, e, U)
    BY <2>1, <2>2, AscendingEnd
  <2> QED  BY <2>2, <2>3
<1>14. metaw'.latest = record /\ metaw'.open = o1 /\ metaw'.buffer = b1
  BY <1>1, <1>3 DEF MetaType
<1>15. buffer[1].file = file /\ Append(b0, record) = buffer
  <2>1. 1 \in 1..Len(buffer)
    BY <1>11, EmptySeq
  <2> QED  BY <1>9, <1>10, <1>11, <2>1
<1>16. /\ Contents(m1) \o b1 = next
       /\ Filed(m1, file, o1)
       /\ b1 # <<>> \/ (o1 # None /\ m1[o1] # <<>>)
       /\ SettledIn(m1, o1) = SettledIn(m0, o0)
  <2>1. CASE m1 = m0 /\ b1 = buffer /\ o1 = o0
    BY <1>8, <1>9, <1>10, <1>11, <1>12, <1>13, <2>1
  <2>2. CASE /\ m1 = Flushed(m0, buffer, o0).meta /\ b1 = <<>>
             /\ o1 = Flushed(m0, buffer, o0).open
    <3>1. PICK fl : fl = Flushed(m0, buffer, o0)
      OBVIOUS
    <3>2. /\ Contents(fl.meta) = Contents(m0) \o buffer
          /\ Filed(fl.meta, file, fl.open) /\ fl.open = file /\ fl.meta[file] # <<>>
          /\ SettledIn(fl.meta, fl.open) = SettledIn(m0, o0)
      <4>1. AllFor(buffer, file)
        BY <1>11 DEF AllFor
      <4>2. /\ FilesOf(m0, Record) /\ Filed(m0, file, o0) /\ file \in File
            /\ buffer # <<>>
        BY <1>6, <1>8, <1>11
      <4> QED  BY SMTT(30), <3>1, <4>1, <4>2, FlushedContents
    <3>3. m1 = fl.meta /\ o1 = fl.open
      BY <2>2, <3>1
    <3>4. file # None
      BY <1>6, StorageAssumption
    <3>5. next \o <<>> = next
      BY <1>13, ConcatEmptySeq
    <3> QED  BY <1>10, <1>12, <1>13, <2>2, <3>2, <3>3, <3>4, <3>5
  <2>3. CASE o0 = None /\ m1 = With(m0, file, <<>>) /\ b1 = buffer /\ o1 = file
    <3>1. PICK empty \in Seq(Record) : empty = <<>>
      BY EmptySeq
    <3>2. Holds(empty, Record) /\ m1 = With(m0, file, empty)
      BY <2>3, <3>1 DEF Holds
    <3>3. IsLast(m0, file) /\ file \notin DOMAIN m0 /\ file # None
      <4>1. file # None
        BY <1>6, StorageAssumption
      <4> QED  BY <1>8, <2>3, <4>1 DEF Filed
    <3>4. Contents(m1) = Contents(m0) \o empty
      <4>1. Contents(With(m0, file, empty)) = Contents(m0) \o empty
        BY SMTT(30), <1>6, <1>8, <3>2, <3>3, NewFileContents
      <4> QED  BY <3>2, <4>1
    <3>5. m \o <<>> = m
      BY ConcatEmptySeq
    <3>6. Contents(m1) = m
      BY <1>10, <3>1, <3>4, <3>5
    <3>7. Written(m1, m0, file, empty)
      BY <1>6, <1>8, <3>2, WithFile
    <3>8. Filed(m1, file, file)
      BY <3>3, <3>7, WrittenFiled
    <3>9. SettledIn(m1, file) = SettledIn(m0, None)
      BY <1>8, <3>2, <3>3, WithoutWritten DEF SettledIn
    <3> QED  BY <1>11, <1>12, <1>13, <2>3, <3>6, <3>8, <3>9
  <2> QED  BY <1>1, <1>15, <2>1, <2>2, <2>3 DEF Stored
<1>17. All' = next
  BY <1>1, <1>14, <1>16 DEF All
<1>18. info'.episodes = e /\ past.uncounted \subseteq past'.uncounted
  BY <1>1, <1>5 DEF Noted
<1>19. /\ Ascending(next, past'.uncounted)
       /\ IF session'.pc = "info" THEN Under(next, Len(next) - 1, e, past'.uncounted)
          ELSE Under(next, Len(next), e, past'.uncounted)
       /\ session'.pc \in {"info", "failed"}
  <2>1. CASE failed
    <3>1. session'.pc = "failed" /\ past'.uncounted = past.uncounted \cup {e}
      BY <1>1, <1>5, <2>1 DEF Noted
    <3>2. Under(next, Len(next), e, past.uncounted \cup {e})
      <4>1. Last(next).episode = e
        BY <1>6, <1>9, <1>13
      <4> QED  BY <1>13, <4>1, UnderMore
    <3>3. Ascending(next, past.uncounted \cup {e})
      BY <1>13, UnderMore
    <3> QED  BY <3>1, <3>2, <3>3
  <2>2. CASE ~failed
    BY <1>1, <1>13, <2>2 DEF Noted
  <2> QED  BY <2>1, <2>2
<1>20. FoundInv'
  <2>1. All' # <<>> /\ Last(All') = metaw'.latest
    BY <1>9, <1>13, <1>14, <1>17
  <2>2. Filed(meta', metaw'.latest.file, metaw'.open)
    BY <1>1, <1>6, <1>14, <1>16
  <2>3. metaw'.buffer # <<>> \/ (metaw'.open # None /\ meta'[metaw'.open] # <<>>)
    BY <1>1, <1>14, <1>16
  <2>4. metaw'.latest # None /\ metaw'.latest.episode = e
    BY <1>6, <1>14
  <2>5. NoneEmpty(SettledIn(meta', metaw'.open))
    BY <1>1, <1>8, <1>14, <1>16
  <2> QED  BY <1>17, <1>18, <1>19, <2>1, <2>2, <2>3, <2>4, <2>5 DEF FoundInv
<1>21. BrokenInv' /\ UncountedInv'
  <2>1. \A f \in File : <<"meta", f>> \notin broken'
    BY <1>1 DEF OrderInv, BrokenInv
  <2>2. UncountedInv'
    BY <1>1, <1>18, UncountedKept DEF OrderInv
  <2> QED  BY <2>1, <2>2 DEF BrokenInv
<1>22. NewRecord(r, EndOf(All))
  BY <1>1, <1>4, <1>7, <1>9 DEF NewRecord, RecordFor
<1>23. OrderInv'
  BY <1>19, <1>20, <1>21 DEF OrderInv
<1>24. \/ SettledIn(meta', metaw'.open) = SettledIn(meta, metaw.open)
       \/ Contents(SettledIn(meta', metaw'.open)) = All
  BY <1>1, <1>4, <1>8, <1>14, <1>16
<1> QED  BY <1>4, <1>6, <1>9, <1>13, <1>14, <1>17, <1>22, <1>23, <1>24

LEMMA NoContents == ASSUME NEW fs, DOMAIN fs = {}  PROVE Contents(fs) = <<>>
<1>1. Cardinality(DOMAIN fs) = 0
  BY FS_EmptySet
<1>2. PICK seqs : seqs = [i \in 1..0 |-> fs[Nth(fs, i)]]
  OBVIOUS
<1>3. seqs \in Seq({}) /\ Len(seqs) = 0
  <2>1. seqs \in [1..0 -> {}]
    BY <1>2
  <2> QED  BY <2>1
<1>4. seqs = <<>>
  BY <1>3, EmptySeq
<1>5. Contents(fs) = FlattenSeq(seqs)
  BY <1>1, <1>2 DEF Contents
<1> QED  BY <1>4, <1>5, EmptySeq DEF FlattenSeq

LEMMA OrderInit == Init => OrderInv
<1> SUFFICES ASSUME Init  PROVE OrderInv
  OBVIOUS
<1>1. PICK empty \in Seq(Record) : empty = <<>> /\ Len(empty) = 0
  BY EmptySeq
<1>2. DOMAIN meta = {}
  BY DEF Init
<1>3. metaw = [episodes |-> empty, latest |-> None, buffer |-> empty, open |-> None]
  BY <1>1 DEF Init, FreshMeta
<1>4. metaw.episodes = empty /\ metaw.latest = None /\ metaw.buffer = empty
  BY <1>3
<1>5. Contents(meta) = empty
  BY <1>1, <1>2, NoContents
<1>6. empty \o <<>> = empty
  BY ConcatEmptySeq
<1>7. All = empty
  BY <1>1, <1>4, <1>5, <1>6 DEF All
<1>8. Ascending(All, past.uncounted) /\ Under(All, Len(All), info.episodes, past.uncounted)
  BY <1>1, <1>7 DEF Ascending, Under
<1>9. Filed(meta, FirstOfSession("file"), None)
  BY <1>2 DEF Filed, IsLast
<1>10. session = [pc |-> "idle", length |-> 0, record |-> None]
  BY DEF Init, Closed
<1>11. session.pc = "idle"
  BY <1>10
<1>12. FoundInv
  <2>1. NoneEmpty(SettledIn(meta, metaw.open))
    BY <1>2, <1>3 DEF NoneEmpty, SettledIn
  <2> QED  BY <2>1, <1>4, <1>7, <1>8, <1>9, <1>11 DEF FoundInv
<1>13. BrokenInv /\ UncountedInv
  <2>1. info = [episodes |-> 0, frames |-> 0] /\ disk = info
    BY DEF Init
  <2>2. info.episodes = 0 /\ disk.episodes = 0
    BY <2>1
  <2>3. \A n \in disk.episodes..(info.episodes - 1) : FALSE
    BY <2>2
  <2> QED  BY <1>2, <2>3 DEF Init, BrokenInv, UncountedInv
<1> QED  BY <1>11, <1>12, <1>13 DEF OrderInv

\* As many episodes as info.json counts, but for those excepted.
LEMMA UnderDisk ==
  ASSUME IInv, UncountedInv, disk # None, NEW q \in Seq(Record), NEW U, U = past.uncounted,
         Under(q, Len(q), info.episodes, U)
  PROVE  Under(q, Len(q), disk.episodes, U)
<1>1. PICK d, e, k \in Nat : d = disk.episodes /\ e = info.episodes /\ k = Len(q)
  <2>1. disk.episodes \in Nat
    BY DEF IInv, Types, Counts
  <2> QED  BY <2>1, AllType, LenProperties
<1>2. ASSUME NEW i \in 1..k, q[i].episode \notin U  PROVE q[i].episode < d
  <2>1. q[i].episode < e
    BY <1>1, <1>2 DEF Under
  <2>2. q[i] \in Record
    BY <1>1, ElementOfSeq
  <2>3. q[i].episode \in Nat
    BY <2>2 DEF Record
  <2>4. q[i].episode \notin d..(e - 1)
    BY <1>1, <1>2 DEF UncountedInv
  <2> QED  BY <2>1, <2>3, <2>4
<1> QED  BY <1>1, <1>2 DEF Under

\* A closed session leaves this of what it had.
LEMMA OrderLeft ==
  ASSUME IInv, UncountedInv, metaw' = FreshMeta(<<>>), session' = Closed,
         info' = info, disk' = disk, past'.uncounted = past.uncounted,
         NoneEmpty(Readable(meta', broken')), BrokenInv',
         NEW p \in Seq(Record), Contents(Readable(meta', broken')) = p,
         Ascending(p, past.uncounted), Under(p, Len(p), info.episodes, past.uncounted)
  PROVE  OrderInv' /\ Records' = p
<1>1. PICK m : m = [episodes |-> <<>>, latest |-> None, buffer |-> <<>>, open |-> None]
  OBVIOUS
<1>2. metaw' = m
  BY <1>1 DEF FreshMeta
<1>3. metaw'.buffer = <<>>
  BY <1>1, <1>2
<1>4. session'.pc = "closed"
  BY ClosedAndFresh
<1>5. Records' = Contents(Readable(meta', broken')) \o metaw'.buffer
  BY DEF Records, Readable
<1>6. p \o <<>> = p
  BY ConcatEmptySeq
<1>7. Records' = p
  BY <1>3, <1>5, <1>6
<1>8. disk # None => Under(p, Len(p), disk.episodes, past.uncounted)
  BY UnderDisk
<1>9. LeftInv'
  BY <1>3, <1>7, <1>8 DEF LeftInv
<1>10. UncountedInv'
  BY UncountedKept
<1> QED  BY <1>4, <1>7, <1>9, <1>10 DEF OrderInv

LEMMA OrderFinalize == ASSUME IInv, OrderInv, Finalize  PROVE OrderInv' /\ Records' = All
<1>1. /\ meta' = Flushed(meta, metaw.buffer, metaw.open).meta
      /\ session' = Closed /\ metaw' = FreshMeta(<<>>) /\ info' = info /\ disk' = disk
      /\ broken' \subseteq broken /\ session.pc \in {"idle", "failed"}
      /\ past' = [past EXCEPT !.kept = past.clean]
  BY DEF Finalize
<1>2. /\ FoundInv /\ \A f \in File : <<"meta", f>> \notin broken
      /\ UncountedInv
  BY <1>1 DEF OrderInv, BrokenInv
<1>3. PICK p, q, all \in Seq(Record) :
        p = Contents(meta) /\ q = metaw.buffer /\ all = p \o q /\ all = All
  BY AllType DEF All
<1>4. FilesOf(meta', Record) /\ NoneEmpty(meta') /\ Contents(meta') = all
  <2>1. CASE metaw.latest = None
    <3>1. meta' = meta /\ q = <<>> /\ metaw.open = None
      BY <1>1, <1>3, <2>1, NothingToFlush
    <3>2. p \o <<>> = p
      BY ConcatEmptySeq
    <3>3. NoneEmpty(meta)
      BY <1>2, <3>1, SettledNotEmpty DEF FoundInv
    <3> QED  BY <1>3, <3>1, <3>2, <3>3, AllType
  <2>2. CASE metaw.latest # None
    BY <1>1, <1>2, <1>3, <2>2, FlushedAll
  <2> QED  BY <2>1, <2>2
<1>5. \A f \in File : <<"meta", f>> \notin broken'
  BY <1>1, <1>2
<1>6. Readable(meta', broken') = meta'
  BY <1>4, <1>5, ReadableIs
<1>7. Ascending(all, past.uncounted) /\ Under(all, Len(all), info.episodes, past.uncounted)
  BY <1>1, <1>2, <1>3 DEF FoundInv
<1>8. BrokenInv'
  BY <1>5 DEF BrokenInv
<1>9. past'.uncounted = past.uncounted
  BY <1>1 DEF IInv, Types, PastType
<1> QED  BY <1>1, <1>2, <1>3, <1>4, <1>6, <1>7, <1>8, <1>9, OrderLeft

LEMMA OrderCrash ==
  ASSUME IInv, OrderInv, Crash
  PROVE  /\ OrderInv' /\ Records' = Contents(SettledIn(meta, metaw.open))
         /\ \E q \in Seq(Record) : All = Records' \o q
<1>1. /\ broken' = broken \cup {<<"data", f>> : f \in {writer.open} \ {None}}
                          \cup {<<"meta", f>> : f \in {metaw.open} \ {None}}
      /\ session' = Closed /\ metaw' = FreshMeta(<<>>) /\ info' = info /\ disk' = disk
      /\ meta' = meta /\ session.pc # "closed"
      /\ past' = [past EXCEPT !.crashes = @ + 1, !.clean = past.kept]
  BY DEF Crash
<1>2. /\ FoundInv /\ \A f \in File : <<"meta", f>> \notin broken
      /\ UncountedInv
  BY <1>1 DEF OrderInv, BrokenInv
<1>3. PICK p, q, all \in Seq(Record) :
        p = Contents(meta) /\ q = metaw.buffer /\ all = p \o q /\ all = All
  BY AllType DEF All
<1>4. FilesOf(meta, Record) /\ session'.pc = "closed"
  BY <1>1, AllType, ClosedAndFresh
<1>5. past'.uncounted = past.uncounted
  <2>1. PICK n : n = past.crashes + 1
    OBVIOUS
  <2>2. past' = [past EXCEPT !.crashes = n, !.clean = past.kept]
    BY <1>1, <2>1
  <2> QED  BY <2>2 DEF IInv, Types, PastType
<1>6. PICK e \in Nat, U \in SUBSET Nat :
        /\ e = info.episodes /\ U = past.uncounted /\ Ascending(all, U)
        /\ IF session.pc = "info" THEN Under(all, Len(all) - 1, e, U)
           ELSE Under(all, Len(all), e, U)
  <2>1. PICK e \in Nat, U \in SUBSET Nat : e = info.episodes /\ U = past.uncounted
    <3>1. past.uncounted \in SUBSET Nat
      BY DEF IInv, Types, PastType
    <3> QED  BY <3>1, AllType
  <2>2. Ascending(all, U)
    BY <1>2, <1>3, <2>1 DEF FoundInv
  <2>3. IF session.pc = "info" THEN Under(all, Len(all) - 1, e, U) ELSE Under(all, Len(all), e, U)
    BY <1>2, <1>3, <2>1 DEF FoundInv
  <2> QED  BY <2>1, <2>2, <2>3
<1>7. ASSUME NEW w \in Seq(Record), NEW y \in Seq(Record), all = w \o y,
             session.pc = "info" => y # <<>>
      PROVE  Ascending(w, U) /\ Under(w, Len(w), e, U)
  <2>1. /\ Ascending(w, U)
        /\ Under(all, Len(all), e, U) => Under(w, Len(w), e, U)
        /\ y # <<>> /\ Under(all, Len(all) - 1, e, U) => Under(w, Len(w), e, U)
    BY <1>6, <1>7, AscendingStart
  <2> QED  BY <1>6, <1>7, <2>1
<1>8. CASE metaw.open = None
  <2>1. \A f \in File : <<"meta", f>> \notin broken'
    BY <1>1, <1>2, <1>8
  <2>2. Readable(meta', broken') = meta
    BY <1>1, <1>4, <2>1, ReadableIs
  <2>3. session.pc = "info" => q # <<>>
    BY <1>2, <1>3, <1>8 DEF FoundInv
  <2>4. Ascending(p, U) /\ Under(p, Len(p), e, U)
    BY <1>3, <1>7, <2>3
  <2>5. BrokenInv'
    BY <2>1 DEF BrokenInv
  <2>6. NoneEmpty(meta)
    BY <1>2, <1>8, SettledNotEmpty DEF FoundInv
  <2>7. OrderInv' /\ Records' = p
    BY <1>1, <1>2, <1>3, <1>5, <1>6, <2>2, <2>4, <2>5, <2>6, OrderLeft
  <2>8. SettledIn(meta, metaw.open) = meta
    BY <1>8 DEF SettledIn
  <2> QED  BY <1>3, <2>7, <2>8
<1>9. CASE metaw.open # None
  <2>1. PICK f \in DOMAIN meta : f = metaw.open /\ metaw.latest # None /\ metaw.latest.file = f
    BY <1>9 DEF IInv, RecordsInv
  <2>2. IsLast(meta, f)
    BY <1>2, <2>1 DEF FoundInv, Filed
  <2>3. \A g \in File : <<"meta", g>> \in broken' <=> g = f
    <3>1. f # None
      BY <1>9, <2>1
    <3>2. {metaw.open} \ {None} = {f}
      BY <2>1, <3>1
    <3> QED  BY <1>1, <1>2, <3>2
  <2>4. Readable(meta', broken') = Without(meta, f)
    BY <1>1, <1>4, <2>3, ReadableIs
  <2>5. /\ FilesOf(Without(meta, f), Record)
        /\ Contents(meta) = Contents(Without(meta, f)) \o meta[f]
    BY <1>4, <2>2, LastFileContents
  <2>6. PICK w, x \in Seq(Record) : w = Contents(Without(meta, f)) /\ x = meta[f]
    BY <1>2, <1>4, <2>5, ContentsType DEF FilesOf
  <2>7. PICK y \in Seq(Record) : y = x \o q /\ (session.pc = "info" => y # <<>>)
    <3>1. session.pc = "info" => x # <<>> \/ q # <<>>
      BY <1>2, <1>3, <2>1, <2>6 DEF FoundInv
    <3> QED  BY <3>1, JoinNotEmpty
  <2>8. all = w \o y
    <3>1. (w \o x) \o q = w \o (x \o q)
      BY SMTT(30), ConcatAssociative
    <3> QED  BY <1>3, <2>5, <2>6, <2>7, <3>1
  <2>9. Ascending(w, U) /\ Under(w, Len(w), e, U)
    BY <1>7, <2>7, <2>8
  <2>10. SettledIn(meta, metaw.open) = Without(meta, f)
    BY <1>9, <2>1 DEF SettledIn
  <2>11. BrokenInv'
    BY <1>1, <1>4, <2>3 DEF BrokenInv
  <2>12. NoneEmpty(Without(meta, f))
    BY <1>2, <2>10 DEF FoundInv
  <2>13. OrderInv' /\ Records' = w
    BY <1>1, <1>2, <1>5, <1>6, <2>4, <2>6, <2>9, <2>11, <2>12, OrderLeft
  <2> QED  BY <1>3, <2>6, <2>7, <2>8, <2>10, <2>13
<1> QED  BY <1>8, <1>9

\* A session goes on after the last file it finds.
LEMMA OrderResume == ASSUME IInv, OrderInv, Resume  PROVE OrderInv' /\ All' = Records
<1>1. /\ session' = [pc |-> "idle", length |-> 0, record |-> None]
      /\ metaw' = FreshMeta(Contents(meta)) /\ disk # None /\ disk' = disk
      /\ info' = disk /\ meta' = meta /\ broken' = broken /\ session.pc = "closed"
      /\ DOMAIN meta # {} /\ ~\E f \in DOMAIN meta : <<"meta", f>> \in broken
      /\ past' = [past EXCEPT !.sessions = @ + 1]
  BY DEF Resume, Closed, storage
<1>2. /\ LeftInv /\ \A f \in File : <<"meta", f>> \notin broken
  BY <1>1 DEF OrderInv, BrokenInv
<1>3. PICK p \in Seq(Record) : p = Contents(meta) /\ FilesOf(meta, Record)
  BY AllType
<1>4. p \o <<>> = p
  BY ConcatEmptySeq
<1>5. /\ Ascending(p, past.uncounted) /\ Under(p, Len(p), disk.episodes, past.uncounted)
      /\ Records = p /\ NoneEmpty(meta)
  <2>1. Records = All
    BY <1>2, RecordsAreAll
  <2>2. All = p
    BY <1>2, <1>3, <1>4 DEF All, LeftInv
  <2>3. Readable(meta, broken) = meta
    BY <1>2, <1>3, ReadableIs
  <2> QED  BY <1>1, <1>2, <2>1, <2>2, <2>3 DEF LeftInv
<1>6. PICK m : m = [episodes |-> p, latest |-> None, buffer |-> <<>>, open |-> None]
  OBVIOUS
<1>7. metaw' = m
  BY <1>1, <1>3, <1>6 DEF FreshMeta
<1>8. /\ metaw'.episodes = p /\ metaw'.latest = None /\ metaw'.buffer = <<>>
      /\ metaw'.open = None
  BY <1>6, <1>7
<1>9. All' = p
  BY <1>1, <1>3, <1>4, <1>8 DEF All
<1>10. PICK f \in DOMAIN meta : IsLast(meta, f)
  BY <1>1, <1>3, LastExists
<1>11. PICK w, x \in Seq(Record) : p = w \o x /\ x = meta[f] /\ x # <<>>
  <2>1. /\ FilesOf(Without(meta, f), Record)
        /\ Contents(meta) = Contents(Without(meta, f)) \o meta[f]
    BY <1>3, <1>10, LastFileContents
  <2> QED  BY <1>3, <1>5, <2>1, ContentsType DEF FilesOf, NoneEmpty
<1>12. p # <<>> /\ Last(p) = Last(x)
  BY <1>11, JoinNotEmpty
<1>13. Last(p).file = f
  <2>1. Len(x) \in 1..Len(x)
    BY <1>11, EmptySeq
  <2>2. x[Len(x)].file = f
    BY <1>11, <2>1 DEF IInv, RecordsInv, InFile
  <2> QED  BY <1>12, <2>2 DEF Last
<1>14. FirstOfSession("file")' = NextFile(f)
  BY <1>8, <1>12, <1>13 DEF FirstOfSession
<1>15. f \in File /\ Filed(meta, NextFile(f), None)
  BY <1>3, <1>10, AfterLast DEF FilesOf
<1>16. session'.pc = "idle"
  BY <1>1
<1>17. past'.uncounted = past.uncounted
  <2>1. PICK n : n = past.sessions + 1
    OBVIOUS
  <2>2. past' = [past EXCEPT !.sessions = n]
    BY <1>1, <2>1
  <2> QED  BY <2>2 DEF IInv, Types, PastType
<1>18. FoundInv'
  <2>1. Ascending(All', past'.uncounted) /\ Under(All', Len(All'), info'.episodes, past'.uncounted)
    BY <1>1, <1>5, <1>9, <1>17
  <2>2. Filed(meta', FirstOfSession("file")', None)
    BY <1>1, <1>14, <1>15
  <2>3. NoneEmpty(SettledIn(meta', metaw'.open))
    BY <1>1, <1>5, <1>8 DEF SettledIn
  <2> QED  BY <1>8, <1>9, <1>16, <2>1, <2>2, <2>3 DEF FoundInv
<1>19. BrokenInv' /\ UncountedInv'
  <2>1. disk.episodes \in Nat
    BY <1>1 DEF IInv, Types, Counts
  <2>2. \A n \in disk'.episodes..(info'.episodes - 1) : FALSE
    BY <1>1, <2>1
  <2> QED  BY <1>1, <1>2, <2>2 DEF BrokenInv, UncountedInv
<1> QED  BY <1>5, <1>9, <1>16, <1>18, <1>19 DEF OrderInv

LEMMA OrderStep == IInv /\ OrderInv /\ [Next]_vars => OrderInv'
<1> SUFFICES ASSUME IInv, OrderInv, [Next]_vars  PROVE OrderInv'
  OBVIOUS
<1> UncountedInv
  BY DEF OrderInv
<1>1. ASSUME NEW length \in Lengths, NEW full \in BOOLEAN, SaveEpisodeData(length, full)
      PROVE  OrderInv'
  <2>1. /\ session'.pc = "video" /\ past'.uncounted = past.uncounted
        /\ session'.record = [episode |-> info.episodes, data |-> DataFile(full)]
    BY <1>1, DataStep
  <2>2. session'.record.episode = info.episodes
    BY <2>1
  <2>3. /\ meta' = meta /\ metaw' = metaw /\ info' = info /\ disk' = disk
        /\ session.pc = "idle" /\ broken' \subseteq broken
    BY <1>1 DEF SaveEpisodeData
  <2>4. UncountedInv'
    BY <2>1, <2>3, UncountedKept
  <2> QED  BY <2>1, <2>2, <2>3, <2>4, OrderKept
<1>2. ASSUME NEW full \in BOOLEAN, SaveEpisodeVideo(full)  PROVE OrderInv'
  <2>1. PICK r : /\ r.episode = session.record.episode
                 /\ session' = [session EXCEPT !.pc = "meta", !.record = r]
    BY <1>2 DEF SaveEpisodeVideo
  <2>2. /\ meta' = meta /\ metaw' = metaw /\ info' = info /\ disk' = disk
        /\ broken' = broken /\ past' = past
    BY <1>2 DEF SaveEpisodeVideo
  <2>3. session.pc = "video"
    BY <1>2 DEF SaveEpisodeVideo, MovesVideo
  <2>4. session.record.episode = info.episodes
    BY <2>3 DEF OrderInv, FoundInv
  <2>5. session'.pc = "meta" /\ session'.record = r
    BY <2>1 DEF IInv, Types, SessionType
  <2>6. UncountedInv'
    BY <2>2, UncountedKept
  <2> QED  BY <2>1, <2>2, <2>3, <2>4, <2>5, <2>6, OrderKept
<1>3. ASSUME NEW failed \in BOOLEAN, RecordStep(failed)  PROVE OrderInv'
  BY <1>3, MetaAdds
<1>4. CASE WriteInfo
  <2>1. /\ session.pc = "info" /\ session'.pc = "idle" /\ info'.episodes = info.episodes + 1
        /\ meta' = meta /\ metaw' = metaw /\ broken' = broken /\ disk' = info'
        /\ past'.uncounted = past.uncounted
    BY <1>4, InfoStep
  <2>2. UncountedInv'
    <3>1. \A n \in disk'.episodes..(info'.episodes - 1) : FALSE
      BY <2>1, AllType
    <3> QED  BY <3>1 DEF UncountedInv
  <2> QED  BY <2>1, <2>2, OrderKept
<1>5. ASSUME NEW full \in BOOLEAN, NEW opened \in BOOLEAN, SaveEpisodeDataFails(full, opened)
      PROVE  OrderInv'
  <2>1. /\ session.pc = "idle" /\ session'.pc = "failed" /\ past'.uncounted = past.uncounted
        /\ info' = info /\ disk' = disk /\ meta' = meta /\ metaw' = metaw
        /\ broken' \subseteq broken
    BY <1>5, DataFails
  <2>2. UncountedInv'
    BY <2>1, UncountedKept
  <2> QED  BY <2>1, <2>2, OrderKept
<1>6. ASSUME NEW full \in BOOLEAN, SaveEpisodeVideoFails(full)  PROVE OrderInv'
  <2>1. /\ session.pc = "video" /\ session'.pc = "failed" /\ past'.uncounted = past.uncounted
        /\ info' = info /\ disk' = disk /\ meta' = meta /\ metaw' = metaw
        /\ broken' = broken
    BY <1>6, VideoFails
  <2>2. UncountedInv'
    BY <2>1, UncountedKept
  <2> QED  BY <2>1, <2>2, OrderKept
<1>7. CASE WriteInfoFails
  <2>1. /\ session.pc = "info" /\ session'.pc = "failed" /\ info'.episodes = info.episodes + 1
        /\ disk' \in {disk, None, info'}
        /\ past'.uncounted = past.uncounted \cup (IF disk' = info' THEN {} ELSE {info.episodes})
        /\ meta' = meta /\ metaw' = metaw /\ broken' = broken
    BY <1>7, InfoFails
  <2>2. UncountedInv'
    <3>1. CASE disk' = info'
      <4>1. \A n \in disk'.episodes..(info'.episodes - 1) : FALSE
        BY <2>1, <3>1, AllType
      <4> QED  BY <4>1 DEF UncountedInv
    <3>2. CASE disk' = None
      BY <3>2 DEF UncountedInv
    <3>3. CASE disk' = disk /\ disk' # None /\ disk' # info'
      <4>1. disk.episodes \in Nat /\ info.episodes \in Nat
        BY <3>3, AllType DEF IInv, Types, Counts
      <4>2. ASSUME NEW n \in disk.episodes..info.episodes
            PROVE  n \in past.uncounted \cup {info.episodes}
        BY <3>3, <4>1 DEF UncountedInv
      <4>3. (info.episodes + 1) - 1 = info.episodes
        BY <4>1
      <4> QED  BY <2>1, <3>3, <4>2, <4>3 DEF UncountedInv
    <3> QED  BY <2>1, <3>1, <3>2, <3>3
  <2> QED  BY <2>1, <2>2, OrderKept
<1>8. CASE SaveEpisodeFails
  <2>1. /\ session.pc \in {"video", "meta"} /\ session'.pc = "failed"
        /\ past'.uncounted = past.uncounted
        /\ info' = info /\ disk' = disk /\ meta' = meta /\ metaw' = metaw
        /\ broken' = broken
    BY <1>8, FailStep
  <2>2. UncountedInv'
    BY <2>1, UncountedKept
  <2> QED  BY <2>1, <2>2, OrderKept
<1>9. CASE ClearEpisodeBuffer
  <2>1. /\ session.pc = "failed" /\ meta' = meta /\ metaw' = metaw /\ broken' = broken
        /\ info' = info /\ disk' = disk /\ past' = past
        /\ session' = [pc |-> "idle", length |-> 0, record |-> None]
    BY <1>9 DEF ClearEpisodeBuffer, Closed, storage
  <2>2. session'.pc = "idle"
    BY <2>1
  <2>3. UncountedInv'
    BY <2>1, UncountedKept
  <2> QED  BY <2>1, <2>2, <2>3, OrderKept
<1>10. CASE Finalize
  BY <1>10, OrderFinalize
<1>11. CASE Crash
  BY <1>11, OrderCrash
<1>12. CASE Resume
  BY <1>12, OrderResume
<1>13. CASE UNCHANGED vars
  <2>1. /\ info' = info /\ disk' = disk /\ meta' = meta /\ broken' = broken
        /\ session' = session /\ metaw' = metaw /\ past' = past
    BY <1>13 DEF vars, storage
  <2>2. All' = All /\ Records' = Records /\ FirstOfSession("file")' = FirstOfSession("file")
    BY <2>1 DEF All, Records, FirstOfSession
  <2>3. FoundInv' = FoundInv
    BY <2>1, <2>2 DEF FoundInv
  <2> QED  BY <2>1, <2>2, <2>3 DEF OrderInv, BrokenInv, UncountedInv, LeftInv
<1>14. CASE SaveEpisode
  BY <1>1, <1>2, <1>3, <1>4, <1>14, Recorded DEF SaveEpisode
<1>15. CASE Fails
  BY <1>3, <1>5, <1>6, <1>7, <1>8, <1>15, RecordFails DEF Fails
<1> QED
  BY <1>9, <1>10, <1>11, <1>12, <1>13, <1>14, <1>15 DEF Next

\* The records ascend in every behaviour, with the invariant of their order.
THEOREM OrderInvariant == Spec => []OrderInv
<1>1. Init => OrderInv
  BY OrderInit
<1>2. IInv /\ OrderInv /\ [Next]_vars => OrderInv'
  BY OrderStep
<1> QED  BY <1>1, <1>2, StorageInvariant, PTL DEF Spec

\* Whatever failed or crashed, the records are in the order of their episodes,
\* none twice, with adjoining ranges of frames, and info.json is not behind,
\* but for the episodes whose saving failed between record and count.
THEOREM RecordsAreInOrder == Spec => []RecordsAscend
<1>1. IInv /\ OrderInv => RecordsAscend
  <2> SUFFICES ASSUME IInv, OrderInv  PROVE RecordsAscend
    OBVIOUS
  <2>1. /\ Records \in Seq(Record) /\ Ascending(Records, past.uncounted)
        /\ session.pc # "info" /\ disk # None =>
             Under(Records, Len(Records), disk.episodes, past.uncounted)
    <3>1. CASE session.pc = "closed"
      <4>1. PICK r : r = Readable(meta, broken)
        OBVIOUS
      <4>2. FilesOf(r, Record)
        <5>1. /\ FilesOf(meta, Record) /\ DOMAIN r \subseteq DOMAIN meta
              /\ r \in [DOMAIN r -> Seq(Record)]
          BY <4>1 DEF IInv, Types, FilesOf, Readable
        <5> QED  BY <5>1, FS_Subset DEF FilesOf
      <4>3. PICK p, q \in Seq(Record) : p = Contents(r) /\ q = metaw.buffer
        BY <4>2, ContentsType, AllType
      <4>4. Records = p \o q
        BY <4>1, <4>3, RecordsIs
      <4>5. Records \in Seq(Record)
        BY <4>4, ConcatProperties
      <4> QED  BY <3>1, <4>5 DEF OrderInv, LeftInv
    <3>2. CASE session.pc # "closed"
      <4>1. \A f \in File : <<"meta", f>> \notin broken
        BY <3>2 DEF OrderInv, BrokenInv
      <4>2. PICK all \in Seq(Record) : Records = all /\ All = all
        BY <4>1, RecordsAreAll, AllType
      <4>3. FoundInv /\ UncountedInv
        BY <3>2 DEF OrderInv
      <4>4. session.pc # "info" => Under(all, Len(all), info.episodes, past.uncounted)
        BY <4>2, <4>3 DEF FoundInv
      <4>5. session.pc # "info" /\ disk # None =>
              Under(all, Len(all), disk.episodes, past.uncounted)
        BY <4>3, <4>4, UnderDisk
      <4> QED  BY <4>2, <4>3, <4>5 DEF FoundInv
    <3> QED  BY <3>1, <3>2
  <2>2. PICK q \in Seq(Record) : q = Records
    BY <2>1
  <2>3. ToSet(q) = {q[i] : i \in 1..Len(q)}
    BY DEF ToSet
  <2> QED  BY SMTT(60), <2>1, <2>2, <2>3 DEF RecordsAscend, Ascending, Under
<1> QED  BY <1>1, StorageInvariant, OrderInvariant, PTL

-----------------------------------------------------------------------------
(* Where the rows of the clean episodes are.                               *)

AtMost(f, g) == f = g \/ Before(f, g)

\* The files up to f.
Upto(fs, f) == [g \in {h \in DOMAIN fs : AtMost(h, f)} |-> fs[g]]

\* The records that can be read, or will be when the session is finalized.
Known == IF session.pc = "closed" THEN Records ELSE All

\* The clean episodes that have a record.
Counted == IF Clean /\ session.pc = "info" THEN past.clean + 1 ELSE past.clean

\* The rows of the i-th episode are at place i, in the file of its record.
BlockOf(r, i) == [episode |-> i - 1, first |-> r.from, length |-> r.to - r.from]
Among(q, b) == \E j \in 1..Len(q) : q[j] = b
LaidAt(r, i, fs) ==
  /\ r.data \in DOMAIN fs
  /\ i \in 1..Len(Contents(Upto(fs, r.data))) /\ Contents(Upto(fs, r.data))[i] = BlockOf(r, i)
  /\ Among(fs[r.data], BlockOf(r, i))

\* This holds of the first n records of q.
Kept(q, n, fs, br) ==
  /\ n <= Len(q)
  /\ \A i \in 1..n :
       /\ q[i].episode = i - 1 /\ (i = 1 => q[i].from = 0)
       /\ LaidAt(q[i], i, fs) /\ <<"data", q[i].data>> \notin br

\* A later record names the same or a later file.
FilesAscend(q) == \A i, j \in 1..Len(q) : i <= j => AtMost(q[i].data, q[j].data)

\* The records name no file after f; the first n name files before f.
NoneAfter(q, f) == \A i \in 1..Len(q) : AtMost(q[i].data, f)
FirstBefore(q, n, f) == \A i \in 1..n : Before(q[i].data, f)

\* Where the data writer is.  It may be ahead of the latest file, when an attempt
\* has opened the next one and failed.
WriterInv ==
  /\ IF writer.latest = None
     THEN metaw.latest = None /\ writer.open \in {None, FirstOfSession("data")}
     ELSE /\ writer.open \in {None, writer.latest, NextFile(writer.latest)}
          /\ NoneAfter(All, writer.latest) /\ FirstBefore(All, past.kept, writer.latest)
  /\ writer.open # None => <<"data", writer.open>> \notin broken
  /\ session.pc \in {"video", "meta"} => session.record.data = writer.latest

\* Block b is the last one, and in file f.
EndsWith(fs, f, b) ==
  /\ IsLast(fs, f) /\ f \in DOMAIN fs /\ Among(fs[f], b)
  /\ Contents(fs)[Len(Contents(fs))] = b

\* The data files end with the file of the last of these records.
EndsWhere(q, fs, latest) ==
  IF q = <<>> THEN DOMAIN fs = {} /\ latest = None
  ELSE IsLast(fs, Last(q).data) /\ latest \in {None, Last(q).data}

\* The episodes while nothing has gone wrong.
CleanInv ==
  /\ info.episodes = past.clean /\ Len(Known) = Counted /\ session.pc # "failed"
  /\ EndOf(Known) = info.frames + (IF session.pc = "info" THEN session.length ELSE 0)
  /\ Len(Contents(data)) =
       info.episodes + (IF session.pc \in {"video", "meta", "info"} THEN 1 ELSE 0)
  /\ IF session.pc \in {"video", "meta"}
     THEN EndsWith(data, session.record.data,
                   [episode |-> info.episodes, first |-> info.frames, length |-> session.length])
     ELSE EndsWhere(Known, data, writer.latest)
  /\ writer.open = writer.latest /\ ~past.reopened

\* While no attempt has opened anew a file with rows.
RowsInv ==
  /\ Kept(Known, Counted, data, broken) /\ FilesAscend(Known)
  /\ session.pc # "closed" => WriterInv

KeptInv ==
  /\ Counted <= Len(Known)
  /\ session.pc # "closed" => past.kept <= Len(Contents(SettledIn(meta, metaw.open)))
  /\ ~past.reopened => RowsInv
  /\ Clean => CleanInv

(* Files up to a file.                                                     *)

\* The sequence q begins with p.
StartsWith(q, p) == Len(p) <= Len(q) /\ \A i \in 1..Len(p) : q[i] = p[i]

LEMMA JoinStarts ==
  ASSUME NEW S, NEW p \in Seq(S), NEW q \in Seq(S)
  PROVE  StartsWith(p \o q, p)
<1>1. Len(p) \in Nat /\ Len(q) \in Nat
  OBVIOUS
<1>2. /\ p \o q \in Seq(S) /\ Len(p \o q) = Len(p) + Len(q)
      /\ \A i \in 1..(Len(p) + Len(q)) :
           (p \o q)[i] = IF i <= Len(p) THEN p[i] ELSE q[i - Len(p)]
  BY ConcatProperties
<1>3. \A i \in 1..Len(p) : (p \o q)[i] = p[i]
  BY <1>1, <1>2
<1> QED  BY <1>1, <1>2, <1>3 DEF StartsWith

LEMMA StartsTwice ==
  ASSUME NEW S, NEW p \in Seq(S), NEW q \in Seq(S), NEW r \in Seq(S),
         StartsWith(q, p), StartsWith(r, q)
  PROVE  StartsWith(r, p)
<1>1. Len(p) \in Nat /\ Len(q) \in Nat /\ Len(r) \in Nat
  OBVIOUS
<1>2. \A i \in 1..Len(p) : i \in 1..Len(q)
  BY <1>1 DEF StartsWith
<1> QED  BY <1>1, <1>2 DEF StartsWith

LEMMA FlattenStart ==
  ASSUME NEW S, NEW seqs \in Seq(Seq(S)), NEW front \in Seq(Seq(S)), StartsWith(seqs, front)
  PROVE  StartsWith(FlattenSeq(seqs), FlattenSeq(front))
<1>1. PICK n, k \in Nat : n = Len(seqs) /\ k = Len(front) /\ k <= n
  BY LenProperties DEF StartsWith
<1>2. \A i \in 1..k : front[i] = seqs[i]
  BY <1>1 DEF StartsWith
<1>3. CASE k = 0
  <2>1. front = <<>>
    BY <1>1, <1>3, EmptySeq
  <2>2. FlattenSeq(front) = <<>>
    BY <2>1, EmptySeq DEF FlattenSeq
  <2>3. PICK c \in Seq(S) : c = FlattenSeq(seqs)
    BY FlattenType
  <2>4. Len(FlattenSeq(front)) = 0 /\ Len(c) \in Nat
    BY <2>2, EmptySeq
  <2> QED  BY <2>3, <2>4 DEF StartsWith
<1>4. CASE k # 0
  <2>1. PICK g : Joins(seqs, n, g) /\ \A i \in 1..n : g[i] \in Seq(S)
    BY <1>1, JoinsExist
  <2>2. \A i \in 1..n : g[i] = IF i = 1 THEN seqs[i] ELSE g[i - 1] \o seqs[i]
    BY <2>1 DEF Joins
  <2>3. PICK h : h = [i \in 1..k |-> g[i]]
    OBVIOUS
  <2>4. Joins(front, k, h)
    <3>1. ASSUME NEW i \in 1..k
          PROVE  g[i] = IF i = 1 THEN front[i] ELSE h[i - 1] \o front[i]
      <4>1. i \in 1..n /\ front[i] = seqs[i]
        BY <1>1, <1>2
      <4>2. i # 1 => h[i - 1] = g[i - 1]
        BY <2>3
      <4> QED  BY <2>2, <4>1, <4>2
    <3>2. h = [i \in 1..k |-> IF i = 1 THEN front[i] ELSE h[i - 1] \o front[i]]
      BY <2>3, <3>1
    <3> QED  BY <3>2 DEF Joins
  <2>5. FlattenSeq(front) = g[k]
    <3>1. FlattenSeq(front) = h[k]
      BY <1>1, <1>4, <2>4, FlattenIs
    <3> QED  BY <1>4, <2>3, <3>1
  <2>6. FlattenSeq(seqs) = g[n]
    BY <1>1, <1>4, <2>1, FlattenIs
  <2> DEFINE Bad == {m \in Nat : k <= m /\ m <= n /\ ~StartsWith(g[m], g[k])}
  <2>7. Bad = {}
    <3> SUFFICES ASSUME Bad # {}  PROVE FALSE
      OBVIOUS
    <3>1. PICK m \in Bad : \A i \in Bad : m <= i
      <4>1. Bad \in SUBSET Nat
        OBVIOUS
      <4> QED  BY <4>1, LeastNat
    <3>2. m \in Nat /\ k <= m /\ m <= n /\ ~StartsWith(g[m], g[k])
      OBVIOUS
    <3>3. PICK p \in Seq(S) : p = g[k]
      <4>1. k \in 1..n
        BY <1>1, <1>4
      <4> QED  BY <2>1, <4>1
    <3>4. m # k
      <4>1. StartsWith(p, p)
        <5>1. Len(p) \in Nat
          OBVIOUS
        <5> QED  BY <5>1 DEF StartsWith
      <4> QED  BY <3>2, <3>3, <4>1
    <3>5. PICK l \in Nat : l + 1 = m /\ k <= l /\ l <= n /\ ~(m <= l)
      BY <3>2, <3>4
    <3>6. StartsWith(g[l], p)
      BY <3>1, <3>3, <3>5
    <3>7. l \in 1..n /\ m \in 1..n /\ m # 1 /\ m - 1 = l
      BY <1>4, <3>2, <3>5
    <3>8. PICK q \in Seq(S) : q = g[l]
      BY <2>1, <3>7
    <3>9. PICK s \in Seq(S) : s = seqs[m]
      BY <1>1, <3>7, ElementOfSeq
    <3>10. PICK r \in Seq(S) : r = g[m] /\ r = q \o s
      BY <2>1, <2>2, <3>7, <3>8, <3>9
    <3>11. StartsWith(r, q)
      BY <3>10, JoinStarts
    <3>12. StartsWith(r, p)
      BY <3>6, <3>8, <3>11, StartsTwice
    <3> QED  BY <3>2, <3>3, <3>10, <3>12
  <2>8. StartsWith(g[n], g[k])
    BY <1>1, <2>7
  <2> QED  BY <2>5, <2>6, <2>8
<1> QED  BY <1>3, <1>4

LEMMA FileOrder ==
  ASSUME NEW f \in File, NEW g \in File, NEW h \in File
  PROVE  /\ ~Before(f, f) /\ (Before(f, g) => f # g /\ ~Before(g, f) /\ ~AtMost(g, f))
         /\ Before(f, g) /\ Before(g, h) => Before(f, h)
         /\ AtMost(f, g) /\ AtMost(g, h) => AtMost(f, h)
         /\ AtMost(f, g) /\ Before(g, h) => Before(f, h)
         /\ Before(f, g) /\ AtMost(g, h) => Before(f, h)
<1>1. f \in Pair /\ g \in Pair /\ h \in Pair
  BY StorageAssumption DEF File, Pair
<1> QED  BY <1>1, BeforeIsOrder DEF AtMost

LEMMA UptoFiles ==
  ASSUME NEW S, NEW fs, FilesOf(fs, S), NEW f
  PROVE  /\ FilesOf(Upto(fs, f), S)
         /\ DOMAIN Upto(fs, f) = {h \in DOMAIN fs : AtMost(h, f)}
         /\ \A g \in DOMAIN Upto(fs, f) : Upto(fs, f)[g] = fs[g]
<1>1. PICK u : u = [g \in {h \in DOMAIN fs : AtMost(h, f)} |-> fs[g]]
  OBVIOUS
<1>2. /\ DOMAIN u = {h \in DOMAIN fs : AtMost(h, f)}
      /\ \A g \in DOMAIN u : u[g] = fs[g]
  BY <1>1
<1>3. DOMAIN u \subseteq DOMAIN fs
  BY <1>2
<1>4. IsFiniteSet(DOMAIN u)
  BY <1>3, FS_Subset DEF FilesOf
<1>5. u \in [DOMAIN u -> Seq(S)]
  BY <1>1, <1>2 DEF FilesOf
<1>6. FilesOf(u, S)
  BY <1>3, <1>4, <1>5 DEF FilesOf
<1> QED  BY <1>1, <1>2, <1>6 DEF Upto

\* The content of the files begins with that of the files up to f.
LEMMA UptoStart ==
  ASSUME NEW S, NEW fs, FilesOf(fs, S), NEW f \in File
  PROVE  StartsWith(Contents(fs), Contents(Upto(fs, f)))
<1>1. PICK u : /\ u = Upto(fs, f) /\ FilesOf(u, S)
               /\ DOMAIN u = {h \in DOMAIN fs : AtMost(h, f)}
               /\ \A g \in DOMAIN u : u[g] = fs[g]
  <2>1. /\ FilesOf(Upto(fs, f), S)
        /\ DOMAIN Upto(fs, f) = {h \in DOMAIN fs : AtMost(h, f)}
        /\ \A g \in DOMAIN Upto(fs, f) : Upto(fs, f)[g] = fs[g]
    BY UptoFiles
  <2> QED  BY <2>1
<1>2. /\ DOMAIN fs \subseteq File /\ DOMAIN fs \subseteq Pair /\ IsFiniteSet(DOMAIN fs)
      /\ DOMAIN u \subseteq Pair /\ IsFiniteSet(DOMAIN u) /\ DOMAIN u \in SUBSET DOMAIN fs
  BY <1>1, StorageAssumption DEF FilesOf, File, Pair
<1>3. PICK n, k \in Nat : n = Cardinality(DOMAIN fs) /\ k = Cardinality(DOMAIN u)
  BY <1>2, FS_CardinalityType
<1>4. k <= n
  BY <1>2, <1>3, FS_Subset
<1>5. ASSUME NEW i \in 1..k
      PROVE  Nth(u, i) \in DOMAIN u /\ Nth(fs, i) = Nth(u, i)
  <2>1. PICK x \in DOMAIN u : x = Nth(u, i) /\ Cardinality(Below(DOMAIN u, x)) = i - 1
    BY <1>2, <1>3, NthIsFile
  <2>2. Below(DOMAIN fs, x) = Below(DOMAIN u, x)
    <3>1. ASSUME NEW g \in DOMAIN fs, Before(g, x)  PROVE AtMost(g, f)
      <4>1. g \in File /\ x \in File /\ AtMost(x, f)
        BY <1>1, <1>2
      <4> QED  BY <3>1, <4>1, FileOrder DEF AtMost
    <3> QED  BY <1>1, <3>1 DEF Below
  <2>3. x \in DOMAIN fs /\ i \in 1..Cardinality(DOMAIN fs)
    BY <1>2, <1>3, <1>4
  <2>4. Cardinality(Below(DOMAIN fs, x)) = i - 1
    BY <2>1, <2>2
  <2>5. Nth(fs, i) = x
    BY <1>2, <2>3, <2>4, NthIsOnly
  <2> QED  BY <2>1, <2>5
<1>6. PICK seqs : seqs = [i \in 1..n |-> fs[Nth(fs, i)]]
  OBVIOUS
<1>7. PICK front : front = [i \in 1..k |-> u[Nth(u, i)]]
  OBVIOUS
<1>8. ASSUME NEW i \in 1..n  PROVE fs[Nth(fs, i)] \in Seq(S)
  <2>1. Nth(fs, i) \in DOMAIN fs
    BY <1>2, <1>3, NthIsFile
  <2> QED  BY <2>1 DEF FilesOf
<1>9. ASSUME NEW i \in 1..k  PROVE u[Nth(u, i)] \in Seq(S) /\ u[Nth(u, i)] = fs[Nth(fs, i)]
  <2>1. Nth(u, i) \in DOMAIN u /\ Nth(fs, i) = Nth(u, i)
    BY <1>5
  <2> QED  BY <1>1, <2>1 DEF FilesOf
<1>10. seqs \in [1..n -> Seq(S)] /\ front \in [1..k -> Seq(S)]
  BY <1>6, <1>7, <1>8, <1>9
<1>11. /\ seqs \in Seq(Seq(S)) /\ Len(seqs) = n
       /\ front \in Seq(Seq(S)) /\ Len(front) = k
  BY <1>10
<1>12. StartsWith(seqs, front)
  <2>1. \A i \in 1..k : seqs[i] = front[i]
    BY <1>4, <1>6, <1>7, <1>9
  <2> QED  BY <1>4, <1>11, <2>1 DEF StartsWith
<1>13. Contents(fs) = FlattenSeq(seqs) /\ Contents(u) = FlattenSeq(front)
  BY <1>3, <1>6, <1>7 DEF Contents
<1> QED  BY <1>1, <1>11, <1>12, <1>13, FlattenStart

\* What is written after f leaves the files up to f.
LEMMA UptoAfter ==
  ASSUME NEW S, NEW fs, FilesOf(fs, S), NEW f \in File, NEW h \in File, Before(f, h), NEW c
  PROVE  Upto(With(fs, h, c), f) = Upto(fs, f)
<1>1. PICK w : w = [g \in DOMAIN fs \cup {h} |-> IF g = h THEN c ELSE fs[g]]
  OBVIOUS
<1>2. DOMAIN w = DOMAIN fs \cup {h} /\ \A g \in DOMAIN fs : g # h => w[g] = fs[g]
  BY <1>1
<1>3. ~AtMost(h, f)
  BY FileOrder
<1>4. {x \in DOMAIN w : AtMost(x, f)} = {x \in DOMAIN fs : AtMost(x, f)}
  BY <1>2, <1>3
<1>5. \A g \in {x \in DOMAIN fs : AtMost(x, f)} : w[g] = fs[g]
  BY <1>2, <1>3
<1>6. Upto(w, f) = Upto(fs, f)
  BY <1>4, <1>5 DEF Upto
<1> QED  BY <1>1, <1>6 DEF With

LEMMA UptoAppend ==
  ASSUME NEW S, NEW fs, FilesOf(fs, S), NEW f \in DOMAIN fs, NEW c
  PROVE  /\ Upto(With(fs, f, c), f) = With(Upto(fs, f), f, c)
         /\ f \in DOMAIN Upto(fs, f) /\ IsLast(Upto(fs, f), f) /\ Upto(fs, f)[f] = fs[f]
<1>1. PICK w : w = [g \in DOMAIN fs \cup {f} |-> IF g = f THEN c ELSE fs[g]]
  OBVIOUS
<1>2. DOMAIN w = DOMAIN fs /\ w[f] = c /\ \A g \in DOMAIN fs : g # f => w[g] = fs[g]
  BY <1>1
<1>3. PICK u : u = [g \in {h \in DOMAIN fs : AtMost(h, f)} |-> fs[g]]
  OBVIOUS
<1>4. /\ DOMAIN u = {h \in DOMAIN fs : AtMost(h, f)} /\ f \in DOMAIN u /\ u[f] = fs[f]
      /\ \A g \in DOMAIN u : u[g] = fs[g]
  BY <1>3 DEF AtMost
<1>5. PICK a : a = [g \in {h \in DOMAIN w : AtMost(h, f)} |-> w[g]]
  OBVIOUS
<1>6. PICK b : b = [g \in DOMAIN u \cup {f} |-> IF g = f THEN c ELSE u[g]]
  OBVIOUS
<1>7. {h \in DOMAIN w : AtMost(h, f)} = DOMAIN u \cup {f}
  BY <1>2, <1>4
<1>8. \A g \in DOMAIN u \cup {f} : w[g] = IF g = f THEN c ELSE u[g]
  BY <1>2, <1>4
<1>9. a = b
  BY <1>5, <1>6, <1>7, <1>8
<1>10. u = Upto(fs, f) /\ a = Upto(w, f)
  BY <1>3, <1>5 DEF Upto
<1>11. w = With(fs, f, c) /\ b = With(u, f, c)
  BY <1>1, <1>6 DEF With
<1>12. IsLast(u, f)
  BY <1>4 DEF IsLast, AtMost
<1> QED  BY <1>4, <1>9, <1>10, <1>11, <1>12

LEMMA UptoLast ==
  ASSUME NEW S, NEW fs, FilesOf(fs, S), NEW f, IsLast(fs, f)
  PROVE  Upto(fs, f) = fs
<1>1. {h \in DOMAIN fs : AtMost(h, f)} = DOMAIN fs
  BY DEF IsLast, AtMost
<1>2. fs = [g \in DOMAIN fs |-> fs[g]]
  BY DEF FilesOf
<1> QED  BY <1>1, <1>2 DEF Upto

\* The first n records of the two are the same.
Same(p, q, n) == \A i \in 1..n : p[i] = q[i]

LEMMA KeptPart ==
  ASSUME NEW q, NEW p, NEW n \in Nat, NEW k \in Nat, NEW fs, NEW br,
         Kept(q, n, fs, br), k <= n, k <= Len(p), Same(p, q, k)
  PROVE  Kept(p, k, fs, br)
<1>1. ASSUME NEW i \in 1..k
      PROVE  /\ p[i].episode = i - 1 /\ (i = 1 => p[i].from = 0)
             /\ LaidAt(p[i], i, fs) /\ <<"data", p[i].data>> \notin br
  <2>1. i \in 1..n /\ p[i] = q[i]
    BY DEF Same
  <2> QED  BY <2>1 DEF Kept
<1> QED  BY <1>1 DEF Kept

LEMMA AscendPart ==
  ASSUME NEW q \in Seq(Record), NEW p \in Seq(Record), FilesAscend(q), StartsWith(q, p)
  PROVE  FilesAscend(p)
<1>1. Len(p) \in Nat /\ Len(q) \in Nat /\ Len(p) <= Len(q)
  BY DEF StartsWith
<1>2. ASSUME NEW i \in 1..Len(p), NEW j \in 1..Len(p), i <= j
      PROVE  AtMost(p[i].data, p[j].data)
  <2>1. i \in 1..Len(q) /\ j \in 1..Len(q)
    BY <1>1
  <2>2. p[i] = q[i] /\ p[j] = q[j]
    BY DEF StartsWith
  <2> QED  BY <1>2, <2>1, <2>2 DEF FilesAscend
<1> QED  BY <1>2 DEF FilesAscend

\* What is written after a file, or at its end, leaves the rows in it.
LEMMA LaidWritten ==
  ASSUME NEW fs, FilesOf(fs, Block), NEW r \in Record, NEW i \in Nat, LaidAt(r, i, fs),
         NEW h \in File, NEW c, Holds(c, Block),
         \/ Before(r.data, h)
         \/ h \in DOMAIN fs /\ AtMost(r.data, h) /\ \E x \in Seq(Block) : c = fs[h] \o x
  PROVE  LaidAt(r, i, With(fs, h, c))
<1>1. PICK f \in File : f = r.data /\ f \in DOMAIN fs
  BY DEF LaidAt, Record
<1>2. PICK b : b = BlockOf(r, i)
  OBVIOUS
<1>3. /\ i \in 1..Len(Contents(Upto(fs, f))) /\ Contents(Upto(fs, f))[i] = b
      /\ Among(fs[f], b)
  BY <1>1, <1>2 DEF LaidAt
<1>4. PICK w : w = With(fs, h, c) /\ Written(w, fs, h, c)
  BY WithFile
<1>5. f \in DOMAIN w
  BY <1>1, <1>4 DEF Written
<1>6. CASE Before(f, h)
  <2>1. Upto(w, f) = Upto(fs, f)
    BY <1>1, <1>4, <1>6, UptoAfter
  <2>2. w[f] = fs[f]
    BY <1>1, <1>4, <1>6, FileOrder DEF Written
  <2> QED  BY <1>1, <1>2, <1>3, <1>4, <1>5, <2>1, <2>2 DEF LaidAt
<1>7. CASE ~Before(f, h)
  <2>1. PICK x \in Seq(Block) : c = fs[f] \o x /\ f = h
    BY <1>1, <1>7 DEF AtMost
  <2>2. PICK u : /\ u = Upto(fs, f) /\ FilesOf(u, Block)
                 /\ f \in DOMAIN u /\ IsLast(u, f) /\ u[f] = fs[f]
                 /\ Upto(w, f) = With(u, f, c)
    <3>1. FilesOf(Upto(fs, f), Block)
      BY UptoFiles
    <3>2. /\ Upto(With(fs, f, c), f) = With(Upto(fs, f), f, c)
          /\ f \in DOMAIN Upto(fs, f) /\ IsLast(Upto(fs, f), f) /\ Upto(fs, f)[f] = fs[f]
      BY <1>1, UptoAppend
    <3> QED  BY <1>4, <2>1, <3>1, <3>2
  <2>3. PICK p, s \in Seq(Block) : p = Contents(u) /\ s = fs[f]
    BY <1>1, <2>2, ContentsType DEF FilesOf
  <2>4. Contents(With(u, f, u[f] \o x)) = Contents(u) \o x
    <3>1. Holds(x, Block)
      BY DEF Holds
    <3>2. FilesOf(u, Block) /\ f \in DOMAIN u /\ IsLast(u, f)
      BY <2>2
    <3> QED  BY <3>1, <3>2, LastFileContents
  <2>5. Contents(Upto(w, f)) = p \o x
    BY <2>1, <2>2, <2>3, <2>4
  <2>6. StartsWith(p \o x, p) /\ StartsWith(s \o x, s)
    BY JoinStarts
  <2>7. PICK a, d \in Seq(Block) : a = p \o x /\ d = s \o x
    BY ConcatProperties
  <2>8. Len(a) \in Nat /\ Len(d) \in Nat /\ Len(p) \in Nat /\ Len(s) \in Nat
    OBVIOUS
  <2>9. i \in 1..Len(a) /\ a[i] = b
    <3>1. i \in 1..Len(p) /\ p[i] = b
      BY <1>3, <2>2, <2>3
    <3> QED  BY <2>6, <2>7, <2>8, <3>1 DEF StartsWith
  <2>10. Among(d, b)
    <3>1. PICK j \in 1..Len(s) : s[j] = b
      BY <1>3, <2>3 DEF Among
    <3>2. j \in 1..Len(d) /\ d[j] = b
      BY <2>6, <2>7, <2>8, <3>1 DEF StartsWith
    <3> QED  BY <3>2 DEF Among
  <2>11. w[f] = d
    BY <1>4, <2>1, <2>3, <2>7 DEF Written
  <2> QED  BY <1>1, <1>2, <1>4, <1>5, <2>5, <2>7, <2>9, <2>10, <2>11 DEF LaidAt
<1> QED  BY <1>6, <1>7

LEMMA KeptWritten ==
  ASSUME NEW q \in Seq(Record), NEW n \in Nat, NEW fs, FilesOf(fs, Block), NEW br,
         Kept(q, n, fs, br), NEW h \in File, NEW c, Holds(c, Block),
         \/ FirstBefore(q, n, h)
         \/ h \in DOMAIN fs /\ NoneAfter(q, h) /\ \E x \in Seq(Block) : c = fs[h] \o x,
         NEW other, other \subseteq br
  PROVE  Kept(q, n, With(fs, h, c), other)
<1>1. n <= Len(q) /\ Len(q) \in Nat
  BY DEF Kept
<1>2. ASSUME NEW i \in 1..n
      PROVE  /\ q[i].episode = i - 1 /\ (i = 1 => q[i].from = 0)
             /\ LaidAt(q[i], i, With(fs, h, c)) /\ <<"data", q[i].data>> \notin other
  <2>1. PICK r \in Record : r = q[i] /\ i \in 1..Len(q)
    BY <1>1, ElementOfSeq
  <2>2. /\ r.episode = i - 1 /\ (i = 1 => r.from = 0)
        /\ LaidAt(r, i, fs) /\ <<"data", r.data>> \notin br
    BY <2>1 DEF Kept
  <2>3. \/ Before(r.data, h)
        \/ h \in DOMAIN fs /\ AtMost(r.data, h) /\ \E x \in Seq(Block) : c = fs[h] \o x
    BY <2>1 DEF FirstBefore, NoneAfter
  <2>4. LaidAt(r, i, With(fs, h, c))
    BY <2>2, <2>3, LaidWritten
  <2> QED  BY <2>1, <2>2, <2>4
<1> QED  BY <1>1, <1>2 DEF Kept

LEMMA AppendIs ==
  ASSUME NEW S, NEW q \in Seq(S), NEW r \in S
  PROVE  /\ Append(q, r) \in Seq(S) /\ Len(Append(q, r)) = Len(q) + 1 /\ Append(q, r) # <<>>
         /\ Append(q, r)[Len(q) + 1] = r /\ Same(Append(q, r), q, Len(q))
         /\ <<r>> \in Seq(S) /\ Append(q, r) = q \o <<r>>
<1>1. /\ Append(q, r) \in Seq(S) /\ Len(Append(q, r)) = Len(q) + 1
      /\ Append(q, r)[Len(q) + 1] = r /\ \A i \in 1..Len(q) : Append(q, r)[i] = q[i]
  BY AppendProperties
<1>2. <<r>> \in Seq(S) /\ Append(q, r) = q \o <<r>>
  BY AppendIsConcat
<1>3. Append(q, r) # <<>>
  BY AppendAfter
<1> QED  BY <1>1, <1>2, <1>3 DEF Same

\* What is written at the end of the last file, or after it, is at the end.
LEMMA EndWritten ==
  ASSUME NEW fs, FilesOf(fs, Block), NEW h \in File, NEW open, Filed(fs, h, open),
         open # None => h \in DOMAIN fs,
         NEW b \in Block, NEW c, c = IF open = None THEN <<b>> ELSE Append(fs[h], b)
  PROVE  /\ EndsWith(With(fs, h, c), h, b)
         /\ Len(Contents(With(fs, h, c))) = Len(Contents(fs)) + 1
<1>1. PICK p \in Seq(Block) : p = Contents(fs)
  BY ContentsType
<1>2. PICK one \in Seq(Block) : one = <<b>> /\ Len(one) = 1 /\ one[1] = b
  <2>1. <<b>> \in Seq(Block) /\ Len(<<b>>) = 1 /\ <<b>>[1] = b
    OBVIOUS
  <2> QED  BY <2>1
<1>3. Append(p, b) \in Seq(Block) /\ Len(Append(p, b)) = Len(p) + 1 /\ Append(p, b)[Len(p) + 1] = b
  BY AppendIs
<1>4. IsLast(fs, h) /\ Holds(one, Block) /\ h # None
  BY StorageAssumption DEF Filed, Holds
<1>5. PICK w : w = With(fs, h, c)
  OBVIOUS
<1>6. Holds(c, Block) /\ Among(c, b) /\ Contents(w) = p \o one
  <2>1. CASE open = None
    <3>1. c = one
      BY <1>2, <2>1
    <3>2. h \notin DOMAIN fs
      BY <1>4, <2>1 DEF Filed
    <3>3. Contents(With(fs, h, one)) = Contents(fs) \o one
      BY <1>4, <3>2, NewFileContents
    <3>4. Among(one, b)
      BY <1>2 DEF Among
    <3> QED  BY <1>1, <1>4, <1>5, <3>1, <3>3, <3>4
  <2>2. CASE open # None
    <3>1. PICK s \in Seq(Block) : s = fs[h] /\ h \in DOMAIN fs
      BY <2>2 DEF FilesOf
    <3>2. /\ Append(s, b) \in Seq(Block) /\ Len(Append(s, b)) = Len(s) + 1
          /\ Append(s, b)[Len(s) + 1] = b /\ Append(s, b) = s \o <<b>>
      BY AppendIs
    <3>3. c = s \o one /\ c = Append(s, b)
      BY <1>2, <2>2, <3>1, <3>2
    <3>4. Contents(With(fs, h, fs[h] \o one)) = Contents(fs) \o one
      BY <1>4, <3>1, LastFileContents
    <3>5. Among(c, b)
      <4>1. Len(s) + 1 \in 1..Len(Append(s, b))
        <5>1. Len(s) \in Nat
          OBVIOUS
        <5> QED  BY <3>2, <5>1
      <4> QED  BY <3>2, <3>3, <4>1 DEF Among
    <3> QED  BY <1>1, <1>5, <3>1, <3>2, <3>3, <3>4, <3>5 DEF Holds
  <2> QED  BY <2>1, <2>2
<1>7. Written(w, fs, h, c)
  BY <1>5, <1>6, WithFile
<1>8. Contents(w) = Append(p, b)
  BY <1>2, <1>6, AppendIs
<1>9. h \in DOMAIN w /\ Among(w[h], b) /\ IsLast(w, h)
  BY <1>4, <1>6, <1>7 DEF Written, IsLast
<1>10. Contents(w)[Len(Contents(w))] = b /\ Len(Contents(w)) = Len(p) + 1
  BY <1>3, <1>8
<1> QED  BY <1>1, <1>5, <1>9, <1>10 DEF EndsWith

LEMMA KeptTypes ==
  ASSUME IInv
  PROVE  /\ FilesOf(data, Block) /\ past \in PastType /\ session \in SessionType
         /\ past.clean \in Nat /\ past.kept \in Nat /\ past.kept <= past.clean
         /\ past.failures \in Nat /\ past.crashes \in Nat
         /\ Counted \in Nat /\ past.clean <= Counted
         /\ info.episodes \in Nat /\ info.frames \in Nat /\ session.length \in Nat
<1>1. /\ FilesOf(data, Block) /\ past \in PastType /\ session \in SessionType
      /\ info \in [episodes : Nat, frames : Nat]
  BY DEF IInv, Types, Counts
<1>2. /\ past.clean \in Nat /\ past.kept \in Nat /\ session.length \in Nat
      /\ past.failures \in Nat /\ past.crashes \in Nat
      /\ info.episodes \in Nat /\ info.frames \in Nat
  BY <1>1 DEF PastType, SessionType
<1>3. past.kept <= past.clean
  BY DEF IInv, CountsInv
<1>4. Counted = past.clean \/ Counted = past.clean + 1
  BY DEF Counted
<1> QED  BY <1>1, <1>2, <1>3, <1>4

\* A failure is not forgotten.
LEMMA NotClean ==
  ASSUME IInv, past'.failures = past.failures + 1, past'.crashes = past.crashes
  PROVE  ~Clean'
BY KeptTypes DEF Clean

LEMMA KnownIs ==
  ASSUME IInv, OrderInv
  PROVE  /\ Known \in Seq(Record) /\ Known = Records /\ Ascending(Known, past.uncounted)
         /\ session.pc # "closed" => Known = All
<1>1. CASE session.pc = "closed"
  <2>1. PICK r : r = Readable(meta, broken)
    OBVIOUS
  <2>2. FilesOf(r, Record)
    <3>1. /\ FilesOf(meta, Record) /\ DOMAIN r \subseteq DOMAIN meta
          /\ r \in [DOMAIN r -> Seq(Record)]
      BY <2>1 DEF IInv, Types, FilesOf, Readable
    <3> QED  BY <3>1, FS_Subset DEF FilesOf
  <2>3. PICK p, q \in Seq(Record) : p = Contents(r) /\ q = metaw.buffer
    BY <2>2, ContentsType, AllType
  <2>4. p \o q \in Seq(Record) /\ Records = p \o q
    BY <2>1, <2>3, RecordsIs, ConcatProperties
  <2>5. Ascending(Records, past.uncounted)
    BY <1>1 DEF OrderInv, LeftInv
  <2> QED  BY <1>1, <2>4, <2>5 DEF Known
<1>2. CASE session.pc # "closed"
  <2>1. \A f \in File : <<"meta", f>> \notin broken
    BY <1>2 DEF OrderInv, BrokenInv
  <2>2. Records = All
    BY <2>1, RecordsAreAll
  <2> QED  BY <1>2, <2>2, AllType DEF Known, OrderInv, FoundInv
<1> QED  BY <1>1, <1>2

\* The next file comes after those the records name; so does the writer's file,
\* unless it is the latest one.
LEMMA DataAfter ==
  ASSUME IInv, FoundInv, WriterInv, NEW q \in Seq(Record), q = All, FilesAscend(q),
         NEW full \in BOOLEAN, writer.latest = None => full,
         past.kept <= Len(q),
         NEW file, file = DataFile(full), NEW open, open = OpenData(full)
  PROVE  /\ full => FirstBefore(q, Len(q), file)
         /\ NoneAfter(q, file) /\ FirstBefore(q, past.kept, file)
         /\ ~full => file = writer.latest /\ writer.latest # None
         /\ open # None =>
              \/ FirstBefore(q, Len(q), open)
              \/ open = file /\ file = writer.latest /\ writer.latest # None
         /\ open # None => open \in {file, NextFile(file)} /\ (full => open = file)
<1>1. /\ writer \in WriterType /\ None \notin File
      /\ (writer.latest # None => writer.latest \in File)
  BY StorageAssumption DEF IInv, Types, WriterType
<1>2. file \in File /\ FirstOfSession("data") \in File /\ NextFile(file) \in File
  BY DataFileIs, FirstIsFile, NextIsFile DEF IInv
<1>3. Len(q) \in Nat /\ past.kept \in Nat
  BY KeptTypes, LenProperties
<1>4. CASE writer.latest = None
  <2>1. /\ full /\ file = FirstOfSession("data") /\ open = writer.open
        /\ metaw.latest = None /\ writer.open \in {None, FirstOfSession("data")}
    BY <1>4 DEF DataFile, OpenData, WriterInv
  <2>2. q = metaw.episodes
    BY <2>1 DEF FoundInv
  <2>3. FirstBefore(q, Len(q), file)
    <3>1. CASE q = <<>>
      <4>1. Len(q) = 0
        BY <3>1, EmptySeq
      <4> QED  BY <4>1 DEF FirstBefore
    <3>2. CASE q # <<>>
      <4>1. Len(q) \in Nat /\ Len(q) \in 1..Len(q)
        BY <3>2, EmptySeq
      <4>2. PICK r \in Record : r = Last(q) /\ r = q[Len(q)]
        BY <4>1, ElementOfSeq DEF Last
      <4>3. r.data \in File /\ file = NextFile(r.data)
        BY <2>1, <2>2, <3>2, <4>2 DEF Record, FirstOfSession
      <4>4. ASSUME NEW i \in 1..Len(q)  PROVE Before(q[i].data, file)
        <5>1. PICK s \in Record : s = q[i]
          BY ElementOfSeq
        <5>2. s.data \in File /\ AtMost(s.data, r.data)
          <6>1. AtMost(q[i].data, q[Len(q)].data)
            BY <4>1 DEF FilesAscend
          <6> QED  BY <4>2, <5>1, <6>1 DEF Record
        <5>3. Before(r.data, file)
          BY <4>3, NextIsAfter
        <5> QED  BY <1>2, <4>3, <5>1, <5>2, <5>3, FileOrder
      <4> QED  BY <4>4 DEF FirstBefore
    <3> QED  BY <3>1, <3>2
  <2>4. NoneAfter(q, file) /\ FirstBefore(q, past.kept, file)
    BY <1>3, <2>3 DEF NoneAfter, AtMost, FirstBefore
  <2> QED  BY <1>3, <2>1, <2>3, <2>4
<1>5. ASSUME writer.latest # None, NEW h \in File, h = NextFile(writer.latest)
      PROVE  FirstBefore(q, Len(q), h)
  <2>1. NoneAfter(q, writer.latest) /\ Before(writer.latest, h) /\ writer.latest \in File
    BY <1>1, <1>5, NextIsAfter DEF WriterInv
  <2>2. ASSUME NEW i \in 1..Len(q)  PROVE Before(q[i].data, h)
    <3>1. PICK s \in Record : s = q[i]
      BY ElementOfSeq
    <3>2. s.data \in File /\ AtMost(s.data, writer.latest)
      BY <2>1, <3>1 DEF NoneAfter, Record
    <3> QED  BY <1>5, <2>1, <3>1, <3>2, FileOrder
  <2> QED  BY <2>2 DEF FirstBefore
<1>6. CASE writer.latest # None /\ full
  <2>1. file = NextFile(writer.latest) /\ open = None
    BY <1>6 DEF DataFile, OpenData
  <2>2. FirstBefore(q, Len(q), file)
    BY <1>2, <1>5, <1>6, <2>1
  <2>3. NoneAfter(q, file) /\ FirstBefore(q, past.kept, file)
    BY <1>3, <2>2 DEF NoneAfter, AtMost, FirstBefore
  <2> QED  BY <1>3, <1>6, <2>1, <2>2, <2>3
<1>7. CASE writer.latest # None /\ ~full
  <2>1. file = writer.latest /\ open = writer.open
    BY <1>7 DEF DataFile, OpenData
  <2>2. /\ writer.open \in {None, file, NextFile(file)} /\ NoneAfter(q, file)
        /\ FirstBefore(q, past.kept, file)
    BY <1>7, <2>1 DEF WriterInv
  <2>3. FirstBefore(q, Len(q), NextFile(file))
    BY <1>2, <1>5, <1>7, <2>1
  <2> QED  BY <1>7, <2>1, <2>2, <2>3
<1> QED  BY <1>4, <1>6, <1>7

\* What is known while a session is open.
LEMMA KeptNow ==
  ASSUME IInv, OrderInv, KeptInv, session.pc # "closed"
  PROVE  \E q \in Seq(Record), n \in Nat, k \in Nat :
           /\ q = All /\ q = Known /\ n = Counted /\ k = past.kept
           /\ k <= past.clean /\ past.clean <= n /\ n <= Len(q) /\ k <= Len(q)
           /\ k <= Len(Contents(SettledIn(meta, metaw.open))) /\ FoundInv
           /\ ~past.reopened => Kept(q, n, data, broken) /\ FilesAscend(q) /\ WriterInv
<1>1. PICK q \in Seq(Record) : q = All /\ q = Known
  BY KnownIs
<1>2. PICK n, k \in Nat :
        n = Counted /\ k = past.kept /\ k <= past.clean /\ past.clean <= n
  BY KeptTypes
<1>3. n <= Len(q) /\ k <= Len(Contents(SettledIn(meta, metaw.open)))
  BY <1>1, <1>2 DEF KeptInv
<1>4. k <= Len(q)
  BY <1>2, <1>3, KeptTypes, LenProperties
<1>5. ~past.reopened => Kept(q, n, data, broken) /\ FilesAscend(q) /\ WriterInv
  BY <1>1, <1>2 DEF KeptInv, RowsInv
<1> QED  BY <1>1, <1>2, <1>3, <1>4, <1>5 DEF OrderInv

LEMMA KeptData ==
  ASSUME IInv, OrderInv, KeptInv, NEW length \in Lengths, NEW full \in BOOLEAN,
         SaveEpisodeData(length, full)
  PROVE  KeptInv'
<1>1. PICK file, open, dest, block, content :
        /\ file = DataFile(full) /\ open = OpenData(full)
        /\ dest = IF open = None THEN file ELSE open
        /\ block = [episode |-> info.episodes, first |-> info.frames, length |-> length]
        /\ content = IF open = None THEN <<block>> ELSE Append(data[open], block)
        /\ file \in File /\ length \in Nat /\ block \in Block
        /\ open # None => open \in DOMAIN data
        /\ RowsTo(file, dest, content)
        /\ broken' = IF open = None THEN broken \ {<<"data", file>>} ELSE broken
        /\ session.pc = "idle" /\ (writer.latest = None => full)
        /\ session' = [pc |-> "video", length |-> length,
                       record |-> [episode |-> info.episodes, data |-> file]]
        /\ past' = [past EXCEPT !.reopened = past.reopened \/ Reopens(full)]
        /\ info' = info /\ disk' = disk /\ video' = video /\ meta' = meta /\ torn' = torn
        /\ metaw' = metaw
  BY DataParts
<1>2. /\ dest \in File /\ Holds(content, Block) /\ data' = With(data, dest, content)
      /\ writer' = [latest |-> file, open |-> dest] /\ broken' \subseteq broken
  BY <1>1 DEF RowsTo
<1>3. /\ past'.failures = past.failures /\ past'.crashes = past.crashes
      /\ past'.clean = past.clean /\ past'.kept = past.kept
      /\ past'.reopened = (past.reopened \/ Reopens(full))
  BY DataStep
<1>4. /\ session'.pc = "video" /\ session'.length = length
      /\ session'.record.data = file
      /\ writer'.latest = file /\ writer'.open = dest
  BY <1>1, <1>2
<1>5. PICK q \in Seq(Record), n \in Nat, k \in Nat :
        /\ q = All /\ q = Known /\ n = Counted /\ k = past.kept
        /\ k <= past.clean /\ past.clean <= n /\ n <= Len(q) /\ k <= Len(q)
        /\ k <= Len(Contents(SettledIn(meta, metaw.open))) /\ FoundInv
        /\ ~past.reopened => Kept(q, n, data, broken) /\ FilesAscend(q) /\ WriterInv
  BY <1>1, KeptNow
<1>6. /\ All' = q /\ Known' = q /\ Counted' = n /\ Clean' = Clean
  BY <1>1, <1>3, <1>4, <1>5 DEF All, Known, Counted, Clean
<1>7. past'.kept <= Len(Contents(SettledIn(meta', metaw'.open)))
  BY <1>1, <1>3, <1>5
<1>8. FilesOf(data, Block) /\ None \notin File /\ writer \in WriterType
  BY StorageAssumption, KeptTypes DEF IInv, Types
<1>9. ASSUME ~past'.reopened
      PROVE  /\ Kept(q, n, data', broken') /\ FilesAscend(q) /\ WriterInv'
             /\ open # None \/ writer.latest = None \/ full
  <2>1. /\ ~past.reopened /\ ~Reopens(full) /\ Kept(q, n, data, broken) /\ FilesAscend(q)
        /\ WriterInv
    BY <1>3, <1>5, <1>9
  <2>2. /\ full => FirstBefore(q, Len(q), file)
        /\ NoneAfter(q, file) /\ FirstBefore(q, k, file)
        /\ ~full => file = writer.latest /\ writer.latest # None
        /\ open # None =>
             \/ FirstBefore(q, Len(q), open)
             \/ open = file /\ file = writer.latest /\ writer.latest # None
        /\ open # None => open \in {file, NextFile(file)} /\ (full => open = file)
    BY <1>1, <1>5, <2>1, DataAfter
  <2>3. open = None => full
    BY <1>1, <2>1, <2>2 DEF Reopens, OpenData
  <2>4. open # None => \E x \in Seq(Block) : content = data[dest] \o x
    <3>1. ASSUME open # None  PROVE \E x \in Seq(Block) : content = data[dest] \o x
      <4>1. PICK s \in Seq(Block) : s = data[open] /\ dest = open
        BY <1>1, <1>8, <3>1 DEF FilesOf
      <4>2. content = Append(s, block)
        BY <1>1, <3>1, <4>1
      <4>3. Append(s, block) = s \o <<block>> /\ <<block>> \in Seq(Block)
        BY <1>1, AppendIs
      <4> QED  BY <4>1, <4>2, <4>3
    <3> QED  BY <3>1
  <2>5. \/ FirstBefore(q, n, dest)
        \/ dest \in DOMAIN data /\ NoneAfter(q, dest) /\ \E x \in Seq(Block) : content = data[dest] \o x
    <3>1. CASE FirstBefore(q, Len(q), dest)
      <4>1. Len(q) \in Nat
        OBVIOUS
      <4> QED  BY <1>5, <3>1, <4>1 DEF FirstBefore
    <3>2. CASE ~FirstBefore(q, Len(q), dest)
      <4>1. open # None /\ dest = open /\ open = file
        BY <1>1, <2>2, <2>3, <3>2
      <4> QED  BY <1>1, <2>2, <2>4, <4>1
    <3> QED  BY <3>1, <3>2
  <2>6. Kept(q, n, With(data, dest, content), broken')
    BY <1>2, <1>8, <2>1, <2>5, KeptWritten
  <2>7. <<"data", dest>> \notin broken'
    <3>1. CASE open = None
      BY <1>1, <3>1
    <3>2. CASE open # None
      <4>1. open = writer.open
        BY <1>1, <3>2 DEF OpenData
      <4> QED  BY <1>1, <2>1, <3>2, <4>1 DEF WriterInv
    <3> QED  BY <3>1, <3>2
  <2>8. dest \in {file, NextFile(file)} /\ file # None
    BY <1>1, <1>8, <2>2
  <2>9. /\ writer'.latest # None /\ writer'.open \in {None, writer'.latest, NextFile(writer'.latest)}
        /\ NoneAfter(All', writer'.latest) /\ FirstBefore(All', past'.kept, writer'.latest)
    BY <1>3, <1>4, <1>5, <1>6, <2>2, <2>8
  <2>10. <<"data", writer'.open>> \notin broken' /\ session'.record.data = writer'.latest
    BY <1>4, <2>7
  <2>11. WriterInv'
    BY <2>9, <2>10 DEF WriterInv
  <2> QED  BY <1>2, <2>1, <2>3, <2>6, <2>11
<1>10. ASSUME Clean  PROVE CleanInv'
  <2>1. CleanInv /\ Counted = past.clean
    BY <1>1, <1>10 DEF KeptInv, Counted
  <2>2. /\ info.episodes = n /\ Len(q) = n /\ EndOf(q) = info.frames + 0
        /\ Len(Contents(data)) = info.episodes + 0 /\ EndsWhere(q, data, writer.latest)
        /\ writer.open = writer.latest /\ ~past.reopened
    BY <1>1, <1>5, <2>1 DEF CleanInv
  <2>3. ~Reopens(full) /\ ~past'.reopened
    <3>1. ~Reopens(full)
      BY <2>2 DEF Reopens
    <3> QED  BY <1>3, <2>2, <3>1
  <2>4. dest = file /\ (open # None => open = file /\ ~full /\ file = writer.latest)
    <3>1. open # None => writer.latest # None /\ ~full /\ open = writer.latest
      BY <1>1, <2>2 DEF OpenData
    <3>2. writer.latest # None /\ ~full => file = writer.latest
      BY <1>1 DEF DataFile
    <3> QED  BY <1>1, <3>1, <3>2
  <2>5. Filed(data, file, open)
    <3>1. CASE q = <<>>
      <4>1. DOMAIN data = {} /\ writer.latest = None
        BY <2>2, <3>1 DEF EndsWhere
      <4>2. open = None
        BY <2>4, <4>1
      <4> QED  BY <4>1, <4>2 DEF Filed, IsLast
    <3>2. CASE q # <<>>
      <4>1. Len(q) \in Nat /\ Len(q) \in 1..Len(q)
        BY <3>2, EmptySeq
      <4>2. PICK r \in Record : r = Last(q)
        BY <4>1, ElementOfSeq DEF Last
      <4>3. r.data \in File /\ IsLast(data, r.data) /\ writer.latest \in {None, r.data}
        BY <2>2, <3>2, <4>2 DEF EndsWhere, Record
      <4>4. Filed(data, NextFile(r.data), None)
        BY <1>8, <4>3, AfterLast
      <4>5. CASE writer.latest = None
        <5>1. metaw.latest = None
          BY <1>5, <2>2, <4>5 DEF WriterInv
        <5>2. q = metaw.episodes
          BY <1>5, <5>1 DEF FoundInv
        <5>3. file = NextFile(r.data)
          BY <1>1, <3>2, <4>2, <4>5, <5>2 DEF DataFile, FirstOfSession
        <5>4. open = None
          BY <2>4, <4>5
        <5> QED  BY <4>4, <5>3, <5>4
      <4>6. CASE writer.latest # None /\ full
        <5>1. file = NextFile(r.data) /\ open = None
          BY <1>1, <4>3, <4>6 DEF DataFile, OpenData
        <5> QED  BY <4>4, <5>1
      <4>7. CASE writer.latest # None /\ ~full
        <5>1. file = r.data /\ open = file
          BY <1>1, <2>2, <4>3, <4>7 DEF DataFile, OpenData
        <5>2. file \in DOMAIN data
          BY <1>1, <1>8, <5>1
        <5> QED  BY <4>3, <5>1, <5>2 DEF Filed
      <4> QED  BY <4>5, <4>6, <4>7
    <3> QED  BY <3>1, <3>2
  <2>6. open # None => file \in DOMAIN data
    BY <1>1, <2>4
  <2>7. content = IF open = None THEN <<block>> ELSE Append(data[file], block)
    BY <1>1, <2>4
  <2>8. EndsWith(data', file, block) /\ Len(Contents(data')) = Len(Contents(data)) + 1
    <3>1. /\ EndsWith(With(data, file, content), file, block)
          /\ Len(Contents(With(data, file, content))) = Len(Contents(data)) + 1
      <4>1. file \in File /\ block \in Block /\ FilesOf(data, Block)
        BY <1>1, <1>8
      <4> QED  BY ZenonT(60), <2>5, <2>6, <2>7, <4>1, EndWritten
    <3> QED  BY <1>2, <2>4, <3>1
  <2>9. info'.episodes = past'.clean /\ Len(Known') = Counted' /\ EndOf(Known') = info'.frames + 0
    BY <1>1, <1>3, <1>5, <1>6, <2>1, <2>2
  <2>10. Len(Contents(data')) = info'.episodes + 1
    BY <1>1, <2>2, <2>8
  <2>11. EndsWith(data', session'.record.data,
                 [episode |-> info'.episodes, first |-> info'.frames, length |-> session'.length])
    BY <1>1, <1>4, <2>8
  <2>12. writer'.open = writer'.latest
    BY <1>4, <2>4
  <2> QED  BY <1>4, <2>3, <2>9, <2>10, <2>11, <2>12 DEF CleanInv
<1>11. ~past'.reopened => RowsInv'
  BY <1>6, <1>9 DEF RowsInv
<1> QED  BY <1>5, <1>6, <1>7, <1>10, <1>11 DEF KeptInv

\* An attempt that fails may have opened the next file.
LEMMA KeptDataFails ==
  ASSUME IInv, OrderInv, KeptInv, NEW full \in BOOLEAN, NEW opened \in BOOLEAN,
         SaveEpisodeDataFails(full, opened)
  PROVE  KeptInv'
<1>1. /\ session.pc = "idle" /\ session'.pc = "failed"
      /\ past'.failures = past.failures + 1
      /\ past'.crashes = past.crashes /\ past'.clean = past.clean /\ past'.kept = past.kept
      /\ past'.reopened = (past.reopened \/ (opened /\ Reopens(full)))
      /\ meta' = meta /\ metaw' = metaw /\ broken' \subseteq broken
      /\ writer'.latest = writer.latest
      /\ (writer.latest = None => full) /\ (opened => OpenData(full) = None)
  BY DataFails
<1>2. PICK file, open :
        /\ file = DataFile(full) /\ open = OpenData(full)
        /\ writer'.open = IF opened THEN file ELSE open
        /\ data' = IF opened THEN With(data, file, <<>>) ELSE data
        /\ broken' = IF opened THEN broken \ {<<"data", file>>} ELSE broken
  BY DataFails
<1>3. PICK q \in Seq(Record), n \in Nat, k \in Nat :
        /\ q = All /\ q = Known /\ n = Counted /\ k = past.kept
        /\ k <= past.clean /\ past.clean <= n /\ n <= Len(q) /\ k <= Len(q)
        /\ k <= Len(Contents(SettledIn(meta, metaw.open))) /\ FoundInv
        /\ ~past.reopened => Kept(q, n, data, broken) /\ FilesAscend(q) /\ WriterInv
  BY <1>1, KeptNow
<1>4. /\ All' = q /\ Known' = q /\ Counted' = n /\ ~Clean'
  <2>1. ~Clean'
    BY <1>1, NotClean
  <2> QED  BY <1>1, <1>3, <2>1 DEF All, Known, Counted
<1>5. FilesOf(data, Block) /\ file \in File /\ None \notin File
  BY StorageAssumption, KeptTypes, DataFileIs, <1>1, <1>2
<1>6. ASSUME ~past'.reopened
      PROVE  Kept(q, n, data', broken') /\ FilesAscend(q) /\ WriterInv'
  <2>1. /\ ~past.reopened /\ ~(opened /\ Reopens(full)) /\ Kept(q, n, data, broken)
        /\ FilesAscend(q) /\ WriterInv
    BY <1>1, <1>3, <1>6
  <2>2. /\ full => FirstBefore(q, Len(q), file)
        /\ NoneAfter(q, file) /\ FirstBefore(q, k, file)
    BY <1>1, <1>2, <1>3, <2>1, DataAfter
  <2>3. opened => full
    BY <1>1, <2>1 DEF Reopens, OpenData
  <2>4. Kept(q, n, data', broken')
    <3>1. CASE opened
      <4>1. PICK empty \in Seq(Block) : empty = <<>>
        BY EmptySeq
      <4>2. Holds(empty, Block)
        BY DEF Holds
      <4>3. FirstBefore(q, n, file)
        <5>1. Len(q) \in Nat /\ FirstBefore(q, Len(q), file)
          BY <2>2, <2>3, <3>1
        <5> QED  BY <1>3, <5>1 DEF FirstBefore
      <4>4. Kept(q, n, With(data, file, empty), broken')
        BY <1>1, <1>5, <2>1, <4>2, <4>3, KeptWritten
      <4> QED  BY <1>2, <3>1, <4>1, <4>4
    <3>2. CASE ~opened
      BY <1>2, <2>1, <3>2
    <3> QED  BY <3>1, <3>2
  <2>5. open \in {None, writer.open}
    BY <1>2 DEF OpenData
  <2>6. IF writer'.latest = None
        THEN metaw'.latest = None /\ writer'.open \in {None, FirstOfSession("data")}
        ELSE writer'.open \in {None, writer'.latest, NextFile(writer'.latest)}
    <3>1. opened => file = IF writer.latest = None THEN FirstOfSession("data") ELSE NextFile(writer.latest)
      BY <1>2, <2>3 DEF DataFile
    <3> QED  BY <1>1, <1>2, <2>1, <2>5, <3>1 DEF WriterInv
  <2>7. FirstOfSession("data")' = FirstOfSession("data")
    BY <1>1 DEF FirstOfSession
  <2>8. writer'.open # None => <<"data", writer'.open>> \notin broken'
    BY <1>1, <1>2, <2>1, <2>5 DEF WriterInv
  <2>9. writer'.latest # None =>
          NoneAfter(All', writer'.latest) /\ FirstBefore(All', past'.kept, writer'.latest)
    BY <1>1, <1>3, <1>4, <2>1 DEF WriterInv
  <2>10. WriterInv'
    BY <1>1, <2>6, <2>7, <2>8, <2>9 DEF WriterInv
  <2> QED  BY <2>1, <2>4, <2>10
<1>7. ~past'.reopened => RowsInv'
  BY <1>4, <1>6 DEF RowsInv
<1> QED  BY <1>1, <1>3, <1>4, <1>7 DEF KeptInv

\* Neither the rows nor the records change.
LEMMA KeptSame ==
  ASSUME IInv, OrderInv, KeptInv, session.pc # "closed", session'.pc # "closed",
         data' = data, meta' = meta, metaw' = metaw, writer' = writer, broken' = broken,
         past'.kept = past.kept, past'.reopened = past.reopened, Counted' = Counted,
         session'.pc \in {"video", "meta"} =>
           session'.record.data = session.record.data /\ session.pc \in {"video", "meta"},
         Clean' => CleanInv'
  PROVE  KeptInv'
<1>1. All' = All /\ Known' = Known /\ FirstOfSession("data")' = FirstOfSession("data")
  BY DEF All, Known, FirstOfSession
<1>2. ASSUME ~past.reopened  PROVE RowsInv'
  <2>1. RowsInv /\ WriterInv
    BY <1>2 DEF KeptInv, RowsInv
  <2>2. WriterInv'
    BY <1>1, <2>1 DEF WriterInv
  <2> QED  BY <1>1, <2>1, <2>2 DEF RowsInv
<1> QED  BY <1>1, <1>2 DEF KeptInv

LEMMA KeptVideo ==
  ASSUME IInv, OrderInv, KeptInv, NEW full \in BOOLEAN, SaveEpisodeVideo(full)
  PROVE  KeptInv'
<1>1. PICK r : /\ r.episode = session.record.episode /\ r.data = session.record.data
               /\ session' = [session EXCEPT !.pc = "meta", !.record = r]
  BY DEF SaveEpisodeVideo
<1>2. /\ meta' = meta /\ metaw' = metaw /\ info' = info
      /\ broken' = broken /\ data' = data /\ writer' = writer /\ past' = past
  BY DEF SaveEpisodeVideo
<1>3. session'.pc = "meta" /\ session'.record = r /\ session'.length = session.length
  BY <1>1, KeptTypes DEF SessionType
<1>4. session'.record.data = session.record.data /\ session.pc = "video"
  BY <1>1, <1>3 DEF SaveEpisodeVideo, MovesVideo
<1>5. All' = All /\ Known' = All /\ Known = All
  BY <1>2, <1>3, <1>4 DEF All, Known
<1>6. Counted' = Counted /\ Clean' = Clean
  BY <1>2, <1>3, <1>4 DEF Counted, Clean
<1>7. Clean' => CleanInv'
  BY <1>2, <1>3, <1>4, <1>5, <1>6 DEF CleanInv, KeptInv
<1> QED  BY <1>2, <1>3, <1>4, <1>6, <1>7, KeptSame

LEMMA KeptInfo == ASSUME IInv, OrderInv, KeptInv, WriteInfo  PROVE KeptInv'
<1>1. /\ session.pc = "info" /\ session'.pc = "idle"
      /\ info'.episodes = info.episodes + 1
      /\ info'.frames = info.frames + session.length
      /\ data' = data /\ meta' = meta /\ broken' = broken
      /\ writer' = writer /\ metaw' = metaw
      /\ past'.kept = past.kept /\ past'.failures = past.failures
      /\ past'.crashes = past.crashes /\ past'.reopened = past.reopened
      /\ past'.clean = IF Clean THEN past.clean + 1 ELSE past.clean
  BY InfoStep
<1>2. Clean' = Clean
  BY <1>1 DEF Clean
<1>3. All' = All /\ Known' = All /\ Known = All
  BY <1>1 DEF All, Known
<1>4. Counted' = Counted
  BY <1>1, <1>2 DEF Counted
<1>5. ASSUME Clean  PROVE CleanInv'
  <2>1. CleanInv
    BY <1>5 DEF KeptInv
  <2>2. /\ info.episodes = past.clean /\ Len(All) = Counted
        /\ EndOf(All) = info.frames + session.length
        /\ Len(Contents(data)) = info.episodes + 1 /\ EndsWhere(All, data, writer.latest)
        /\ writer.open = writer.latest /\ ~past.reopened
    BY <1>1, <1>3, <2>1 DEF CleanInv
  <2>3. /\ info'.episodes = past'.clean /\ Len(Known') = Counted' /\ EndOf(Known') = info'.frames + 0
    BY <1>1, <1>3, <1>4, <1>5, <2>2, KeptTypes
  <2>4. Len(Contents(data')) = info'.episodes + 0 /\ EndsWhere(Known', data', writer'.latest)
    BY <1>1, <1>3, <2>2, KeptTypes
  <2> QED  BY <1>1, <2>2, <2>3, <2>4 DEF CleanInv
<1> QED  BY <1>1, <1>2, <1>4, <1>5, KeptSame

\* An attempt fails and leaves the rows and the records.
LEMMA KeptFails ==
  ASSUME IInv, OrderInv, KeptInv, session.pc # "closed", session'.pc = "failed",
         past'.failures = past.failures + 1, past'.crashes = past.crashes,
         past'.clean = past.clean, past'.kept = past.kept, past'.reopened = past.reopened,
         data' = data, meta' = meta, metaw' = metaw, writer' = writer, broken' = broken
  PROVE  KeptInv'
<1>1. PICK q \in Seq(Record), n \in Nat, k \in Nat :
        /\ q = All /\ q = Known /\ n = Counted /\ k = past.kept
        /\ k <= past.clean /\ past.clean <= n /\ n <= Len(q) /\ k <= Len(q)
        /\ k <= Len(Contents(SettledIn(meta, metaw.open))) /\ FoundInv
        /\ ~past.reopened => Kept(q, n, data, broken) /\ FilesAscend(q) /\ WriterInv
  BY KeptNow
<1>2. ~Clean'
  BY NotClean
<1>3. /\ All' = q /\ Known' = q /\ Counted' = past.clean
      /\ FirstOfSession("data")' = FirstOfSession("data")
  BY <1>1, <1>2 DEF All, Known, Counted, FirstOfSession
<1>4. past.clean \in Nat /\ Len(q) \in Nat /\ past.clean <= Len(q)
  BY <1>1, KeptTypes, LenProperties
<1>5. ASSUME ~past.reopened  PROVE RowsInv'
  <2>1. Same(q, q, past.clean)
    BY DEF Same
  <2>2. Kept(q, past.clean, data, broken)
    BY <1>1, <1>4, <1>5, <2>1, KeptPart
  <2>3. WriterInv'
    BY <1>1, <1>3, <1>5 DEF WriterInv
  <2> QED  BY <1>1, <1>3, <1>5, <2>2, <2>3 DEF RowsInv
<1> QED  BY <1>1, <1>2, <1>3, <1>4, <1>5 DEF KeptInv

LEMMA KeptClear == ASSUME IInv, OrderInv, KeptInv, ClearEpisodeBuffer  PROVE KeptInv'
<1>1. /\ session.pc = "failed" /\ meta' = meta /\ metaw' = metaw /\ broken' = broken
      /\ session' = [pc |-> "idle", length |-> 0, record |-> None] /\ data' = data
      /\ writer' = writer /\ past' = past
  BY DEF ClearEpisodeBuffer, Closed, storage
<1>2. session'.pc = "idle"
  BY <1>1
<1>3. ~Clean'
  BY <1>1 DEF KeptInv, CleanInv, Clean
<1>4. Counted' = Counted
  BY <1>1, <1>2 DEF Counted, Clean
<1> QED  BY <1>1, <1>2, <1>3, <1>4, KeptSame

\* A session ends, or begins.
LEMMA KeptChanges ==
  ASSUME IInv, OrderInv, KeptInv, NEW q \in Seq(Record), Known' = q, NEW n \in Nat, Counted' = n,
         n <= Len(q), ~past'.reopened => Kept(q, n, data', broken') /\ FilesAscend(q),
         session'.pc # "closed" =>
           /\ ~past'.reopened => WriterInv'
           /\ past'.kept <= Len(Contents(SettledIn(meta', metaw'.open))),
         Clean' => CleanInv'
  PROVE  KeptInv'
BY DEF KeptInv, RowsInv

LEMMA FreshIs ==
  ASSUME NEW episodes
  PROVE  /\ FreshWriter.latest = None /\ FreshMeta(episodes).latest = None
         /\ FreshMeta(episodes).open = None /\ Closed.pc = "closed" /\ Closed.length = 0
<1>1. PICK w : w = [latest |-> None, open |-> None]
  OBVIOUS
<1>2. PICK m : m = [episodes |-> episodes, latest |-> None, buffer |-> <<>>, open |-> None]
  OBVIOUS
<1>3. PICK c : c = [pc |-> "closed", length |-> 0, record |-> None]
  OBVIOUS
<1>4. FreshWriter = w /\ FreshMeta(episodes) = m /\ Closed = c
  BY <1>1, <1>2, <1>3 DEF FreshWriter, FreshMeta, Closed
<1> QED  BY <1>1, <1>2, <1>3, <1>4

\* A session that ends leaves the records that it has.
LEMMA FinalizeKnown ==
  ASSUME IInv, OrderInv, Finalize
  PROVE  Known = All /\ Known' = Known /\ Counted' = Counted /\ Clean' = Clean
<1>1. /\ session.pc \in {"idle", "failed"} /\ session' = Closed
      /\ past' = [past EXCEPT !.kept = past.clean]
  BY DEF Finalize
<1>2. session'.pc = "closed"
  BY <1>1, FreshIs
<1>3. past'.clean = past.clean /\ Clean' = Clean
  BY <1>1, KeptTypes DEF PastType, Clean
<1>4. Records' = All
  BY OrderFinalize
<1> QED  BY <1>1, <1>2, <1>3, <1>4 DEF Known, Counted

LEMMA KeptFinalize == ASSUME IInv, OrderInv, KeptInv, Finalize  PROVE KeptInv'
<1>1. /\ session.pc \in {"idle", "failed"} /\ session' = Closed /\ writer' = FreshWriter
      /\ past' = [past EXCEPT !.kept = past.clean] /\ broken' \subseteq broken
      /\ info' = info /\ data' = data
  BY DEF Finalize
<1>2. session'.pc = "closed" /\ writer'.latest = None /\ writer'.open = None
  BY <1>1, FreshIs, ClosedAndFresh
<1>3. past'.clean = past.clean /\ past'.reopened = past.reopened /\ Clean' = Clean
  BY <1>1, FinalizeKnown, KeptTypes DEF PastType
<1>4. PICK q \in Seq(Record), n \in Nat : q = Known /\ n = Counted /\ q = All
  BY <1>1, KeptTypes, KnownIs
<1>5. Known' = q /\ Counted' = n /\ n <= Len(q)
  BY <1>4, FinalizeKnown DEF KeptInv
<1>6. ASSUME ~past'.reopened  PROVE Kept(q, n, data', broken') /\ FilesAscend(q)
  <2>1. Kept(q, n, data, broken) /\ FilesAscend(q)
    BY <1>3, <1>4, <1>6 DEF KeptInv, RowsInv
  <2>2. Kept(q, n, data, broken')
    BY <1>1, <1>5, <2>1 DEF Kept
  <2> QED  BY <1>1, <2>1, <2>2
<1>7. ASSUME Clean  PROVE CleanInv'
  <2>1. CleanInv
    BY <1>7 DEF KeptInv
  <2>2. /\ info.episodes = past.clean /\ Len(q) = n /\ EndOf(q) = info.frames + 0
        /\ Len(Contents(data)) = info.episodes + 0 /\ EndsWhere(q, data, writer.latest)
        /\ ~past.reopened
    BY <1>1, <1>4, <2>1 DEF CleanInv
  <2>3. EndsWhere(q, data, None)
    BY <2>2 DEF EndsWhere
  <2> QED  BY <1>1, <1>2, <1>3, <1>5, <2>2, <2>3 DEF CleanInv
<1> QED  BY <1>2, <1>3, <1>5, <1>6, <1>7, KeptChanges

\* A crash leaves the records in the files that the writer has closed.
LEMMA CrashKnown ==
  ASSUME IInv, OrderInv, KeptInv, Crash
  PROVE  /\ Known = All /\ ~Clean' /\ Counted' = past.kept
         /\ \E p \in Seq(Record) : Known' = p /\ past.kept <= Len(p) /\ StartsWith(All, p)
<1>1. /\ session.pc # "closed" /\ session' = Closed
      /\ past' = [past EXCEPT !.crashes = past.crashes + 1, !.clean = past.kept]
  BY DEF Crash
<1>2. session'.pc = "closed"
  BY <1>1, FreshIs
<1>3. PICK q \in Seq(Record), k \in Nat : q = All /\ q = Known /\ k = past.kept
  <2>1. PICK q \in Seq(Record) : q = All /\ q = Known
    BY <1>1, KnownIs
  <2> QED  BY <2>1, KeptTypes
<1>4. ~Clean' /\ past'.clean = k
  <2>1. PICK f, c \in Nat : f = past.failures /\ c = past.crashes + 1 /\ c # 0
    BY KeptTypes DEF PastType
  <2>2. past' = [past EXCEPT !.crashes = c, !.clean = k]
    BY <1>1, <1>3, <2>1
  <2>3. past'.crashes = c /\ past'.clean = k /\ past'.failures = f
    BY <2>1, <2>2, KeptTypes DEF PastType
  <2> QED  BY <2>1, <2>3 DEF Clean
<1>5. PICK x \in Seq(Record) : q = Records' \o x
  BY <1>3, OrderCrash
<1>6. PICK p \in Seq(Record) : p = Records' /\ k <= Len(p) /\ StartsWith(q, p)
  <2>1. Records' = Contents(SettledIn(meta, metaw.open))
    BY OrderCrash
  <2>2. FilesOf(SettledIn(meta, metaw.open), Record)
    <3>1. FilesOf(meta, Record)
      BY AllType
    <3>2. metaw.open # None =>
            metaw.open \in DOMAIN meta /\ IsLast(meta, metaw.open)
      BY <1>1 DEF IInv, RecordsInv, OrderInv, FoundInv, Filed
    <3>3. metaw.open # None => FilesOf(Without(meta, metaw.open), Record)
      BY <3>1, <3>2, LastFileContents
    <3> QED  BY <3>1, <3>3 DEF SettledIn
  <2>3. PICK p \in Seq(Record) : p = Records'
    BY <2>1, <2>2, ContentsType
  <2>4. k <= Len(p)
    BY <1>1, <1>3, <2>1, <2>3 DEF KeptInv
  <2>5. StartsWith(q, p)
    BY <1>5, <2>3, JoinStarts
  <2> QED  BY <2>3, <2>4, <2>5
<1>7. Known' = p /\ Counted' = k
  BY <1>2, <1>4, <1>6 DEF Known, Counted
<1> QED  BY <1>3, <1>4, <1>6, <1>7

LEMMA KeptCrash == ASSUME IInv, OrderInv, KeptInv, Crash  PROVE KeptInv'
<1>1. /\ session.pc # "closed" /\ session' = Closed /\ data' = data
      /\ broken' = broken \cup {<<"data", f>> : f \in {writer.open} \ {None}}
                          \cup {<<"meta", f>> : f \in {metaw.open} \ {None}}
      /\ past' = [past EXCEPT !.crashes = past.crashes + 1, !.clean = past.kept]
  BY DEF Crash
<1>2. session'.pc = "closed" /\ past'.reopened = past.reopened
  <2>1. PICK c : c = past.crashes + 1
    OBVIOUS
  <2>2. past' = [past EXCEPT !.crashes = c, !.clean = past.kept]
    BY <1>1, <2>1
  <2> QED  BY <1>1, <2>2, FreshIs, KeptTypes DEF PastType
<1>3. PICK q \in Seq(Record), n \in Nat, k \in Nat :
        /\ q = All /\ q = Known /\ n = Counted /\ k = past.kept
        /\ k <= past.clean /\ past.clean <= n /\ n <= Len(q) /\ k <= Len(q)
        /\ k <= Len(Contents(SettledIn(meta, metaw.open))) /\ FoundInv
        /\ ~past.reopened => Kept(q, n, data, broken) /\ FilesAscend(q) /\ WriterInv
  BY <1>1, KeptNow
<1>4. ~Clean' /\ Counted' = k
  BY <1>3, CrashKnown
<1>5. PICK p \in Seq(Record) : Known' = p /\ k <= Len(p) /\ StartsWith(q, p)
  BY <1>3, CrashKnown
<1>6. ASSUME ~past.reopened  PROVE Kept(p, k, data', broken') /\ FilesAscend(p)
  <2>1. FilesAscend(p)
    BY <1>3, <1>5, <1>6, AscendPart
  <2>2. Kept(q, k, data, broken)
    <3>1. Same(q, q, k)
      BY DEF Same
    <3>2. k <= n
      BY <1>3, KeptTypes
    <3> QED  BY <1>3, <1>6, <3>1, <3>2, KeptPart
  <2>3. ASSUME NEW i \in 1..k  PROVE <<"data", q[i].data>> \notin broken'
    <3>1. i \in 1..Len(q) /\ <<"data", q[i].data>> \notin broken
      <4>1. Len(q) \in Nat
        OBVIOUS
      <4> QED  BY <1>3, <2>2, <4>1 DEF Kept
    <3>2. PICK r \in Record : r = q[i]
      BY <3>1, ElementOfSeq
    <3>3. writer.open # None => r.data # writer.open
      <4>1. ASSUME writer.open # None  PROVE r.data # writer.open
        <5>1. WriterInv /\ FilesAscend(q) /\ k = past.kept /\ past.kept <= Len(q) /\ FoundInv /\ q = All
          BY <1>3, <1>6
        <5>2. writer \in WriterType /\ None \notin File /\ r.data \in File
          BY StorageAssumption DEF IInv, Types, Record
        <5>3. CASE writer.latest = None
          <6>1. PICK file, open : file = DataFile(TRUE) /\ open = OpenData(TRUE) /\ open = writer.open
            BY <5>3 DEF OpenData
          <6>2. FirstBefore(q, Len(q), open)
            BY <4>1, <5>1, <5>3, <6>1, DataAfter
          <6>3. Before(r.data, writer.open)
            BY <3>1, <3>2, <6>1, <6>2 DEF FirstBefore
          <6> QED  BY <4>1, <5>2, <6>3, FileOrder DEF WriterType
        <5>4. CASE writer.latest # None
          <6>1. Before(r.data, writer.latest) /\ writer.latest \in File
            BY <3>2, <5>1, <5>2, <5>4 DEF WriterInv, FirstBefore, WriterType
          <6>2. PICK h \in File : h = NextFile(writer.latest) /\ Before(writer.latest, h)
            BY <6>1, NextIsFile, NextIsAfter
          <6>3. Before(r.data, h)
            BY <5>2, <6>1, <6>2, FileOrder
          <6>4. writer.open \in {writer.latest, h}
            BY <4>1, <5>1, <5>4, <6>2 DEF WriterInv
          <6> QED  BY <5>2, <6>1, <6>3, <6>4, FileOrder
        <5> QED  BY <5>3, <5>4
      <4> QED  BY <4>1
    <3> QED  BY <1>1, <3>1, <3>2, <3>3
  <2>4. Kept(q, k, data, broken')
    BY <1>3, <2>2, <2>3 DEF Kept
  <2>5. Same(p, q, k)
    <3>1. Len(p) \in Nat
      OBVIOUS
    <3> QED  BY <1>5, <3>1 DEF Same, StartsWith
  <2> QED  BY <1>1, <1>5, <2>1, <2>4, <2>5, KeptPart
<1> QED  BY <1>2, <1>4, <1>5, <1>6, KeptChanges

\* A session starts with the records that are there.
LEMMA ResumeKnown ==
  ASSUME IInv, OrderInv, Resume
  PROVE  /\ Known' = Known /\ All' = Known /\ Counted' = Counted /\ Clean' = Clean
         /\ session'.pc = "idle" /\ metaw'.latest = None /\ metaw'.open = None
<1>1. /\ session' = [pc |-> "idle", length |-> 0, record |-> None]
      /\ metaw' = FreshMeta(Contents(meta))
      /\ past' = [past EXCEPT !.sessions = past.sessions + 1]
      /\ session.pc = "closed"
  BY DEF Resume, Closed
<1>2. session'.pc = "idle" /\ metaw'.latest = None /\ metaw'.open = None
  BY <1>1, FreshIs
<1>3. past'.clean = past.clean /\ Clean' = Clean
  BY <1>1, KeptTypes DEF PastType, Clean
<1>4. Known = Records
  BY KnownIs
<1>5. All' = Records
  BY OrderResume
<1> QED  BY <1>1, <1>2, <1>3, <1>4, <1>5 DEF Known, Counted

LEMMA KeptResume == ASSUME IInv, OrderInv, KeptInv, Resume  PROVE KeptInv'
<1>1. /\ session' = [pc |-> "idle", length |-> 0, record |-> None]
      /\ metaw' = FreshMeta(Contents(meta))
      /\ past' = [past EXCEPT !.sessions = past.sessions + 1]
      /\ info' = disk /\ data' = data /\ meta' = meta /\ broken' = broken /\ writer' = writer
      /\ session.pc = "closed"
  BY DEF Resume, Closed, storage
<1>2. /\ session'.pc = "idle" /\ metaw'.latest = None /\ metaw'.open = None
      /\ writer'.latest = None /\ writer'.open = None
  <2>1. writer = FreshWriter
    BY <1>1 DEF IInv, EpisodeInv
  <2> QED  BY <1>1, <2>1, FreshIs, ClosedAndFresh, ResumeKnown
<1>3. /\ past'.clean = past.clean /\ past'.kept = past.kept /\ past'.reopened = past.reopened
      /\ Clean' = Clean
  BY <1>1, ResumeKnown, KeptTypes DEF PastType
<1>4. PICK q \in Seq(Record), n \in Nat : q = Known /\ n = Counted /\ n <= Len(q)
  BY KeptTypes, KnownIs DEF KeptInv
<1>5. Known' = q /\ All' = q /\ Counted' = n
  BY <1>4, ResumeKnown
<1>6. ~past'.reopened => Kept(q, n, data', broken') /\ FilesAscend(q)
  BY <1>1, <1>3, <1>4 DEF KeptInv, RowsInv
<1>7. WriterInv'
  BY <1>2 DEF WriterInv
<1>8. past'.kept <= Len(Contents(SettledIn(meta', metaw'.open)))
  <2>1. SettledIn(meta', metaw'.open) = meta
    BY <1>1, <1>2 DEF SettledIn
  <2>2. Contents(meta) = q
    <3>1. metaw' = [episodes |-> Contents(meta), latest |-> None, buffer |-> <<>>, open |-> None]
      BY <1>1 DEF FreshMeta
    <3>2. metaw'.buffer = <<>>
      BY <3>1
    <3>3. All' = Contents(meta) \o <<>>
      BY <1>1, <3>2 DEF All
    <3>4. PICK p \in Seq(Record) : p = Contents(meta)
      BY AllType
    <3>5. p \o <<>> = p
      BY ConcatEmptySeq
    <3> QED  BY <1>5, <3>3, <3>4, <3>5
  <2>3. n <= Len(q) /\ Len(q) \in Nat
    BY <1>4
  <2>4. past.kept <= past.clean /\ past.clean <= n /\ past.kept \in Nat /\ past.clean \in Nat
    BY <1>4, KeptTypes
  <2> QED  BY <1>3, <2>1, <2>2, <2>3, <2>4
<1>9. ASSUME Clean  PROVE CleanInv'
  <2>1. CleanInv
    BY <1>9 DEF KeptInv
  <2>2. /\ info.episodes = past.clean /\ Len(q) = n /\ EndOf(q) = info.frames + 0
        /\ Len(Contents(data)) = info.episodes + 0 /\ EndsWhere(q, data, writer.latest)
        /\ ~past.reopened
    BY <1>1, <1>4, <2>1 DEF CleanInv
  <2>3. writer.latest = None /\ info' = info
    <3>1. past.failures = 0
      BY <1>9, KeptTypes DEF Clean
    <3> QED  BY <1>1, <1>2, <3>1 DEF IInv, CountsInv
  <2> QED  BY <1>1, <1>2, <1>3, <1>5, <2>2, <2>3 DEF CleanInv
<1> QED  BY <1>3, <1>4, <1>5, <1>6, <1>7, <1>8, <1>9, KeptChanges

\* The first records stay, and the one added names no earlier file.
LEMMA KeptAppend ==
  ASSUME NEW q \in Seq(Record), NEW n \in Nat, NEW k \in Nat, NEW fs, NEW br, Kept(q, n, fs, br),
         FilesAscend(q), NEW r \in Record, NoneAfter(q, r.data), k <= n,
         FirstBefore(q, k, r.data)
  PROVE  /\ Kept(Append(q, r), n, fs, br) /\ FilesAscend(Append(q, r))
         /\ NoneAfter(Append(q, r), r.data) /\ FirstBefore(Append(q, r), k, r.data)
<1>1. PICK a \in Seq(Record), l \in Nat :
        /\ a = Append(q, r) /\ l = Len(q) /\ Len(a) = l + 1 /\ a[l + 1] = r
        /\ Same(a, q, l) /\ n <= l
  <2>1. PICK l \in Nat : l = Len(q) /\ n <= l
    BY LenProperties DEF Kept
  <2> QED  BY <2>1, AppendIs
<1>2. \A i \in 1..l : a[i] = q[i]
  BY <1>1 DEF Same
<1>3. Kept(a, n, fs, br)
  <2>1. Same(a, q, n) /\ n <= Len(a)
    BY <1>1, <1>2 DEF Same
  <2> QED  BY <2>1, KeptPart
<1>4. NoneAfter(a, r.data)
  <2>1. ASSUME NEW i \in 1..(l + 1)  PROVE AtMost(a[i].data, r.data)
    <3>1. CASE i = l + 1
      BY <1>1, <3>1 DEF AtMost
    <3>2. CASE i # l + 1
      <4>1. i \in 1..l
        BY <3>2
      <4>2. AtMost(q[i].data, r.data)
        BY <1>1, <4>1 DEF NoneAfter
      <4> QED  BY <1>2, <4>1, <4>2
    <3> QED  BY <3>1, <3>2
  <2> QED  BY <1>1, <2>1 DEF NoneAfter
<1>5. FilesAscend(a)
  <2>1. ASSUME NEW i \in 1..(l + 1), NEW j \in 1..(l + 1), i <= j
        PROVE  AtMost(a[i].data, a[j].data)
    <3>1. CASE j = l + 1
      BY <1>1, <1>4, <3>1 DEF NoneAfter
    <3>2. CASE j # l + 1
      <4>1. i \in 1..l /\ j \in 1..l
        BY <2>1, <3>2
      <4>2. AtMost(q[i].data, q[j].data)
        BY <1>1, <2>1, <4>1 DEF FilesAscend
      <4> QED  BY <1>2, <4>1, <4>2
    <3> QED  BY <3>1, <3>2
  <2> QED  BY <1>1, <2>1 DEF FilesAscend
<1>6. FirstBefore(a, k, r.data)
  <2>1. \A i \in 1..k : i \in 1..l
    BY <1>1
  <2> QED  BY <1>2, <2>1 DEF FirstBefore
<1> QED  BY <1>1, <1>3, <1>4, <1>5, <1>6

\* The record made of an episode comes after those that were there.
LEMMA KeptMeta ==
  ASSUME IInv, OrderInv, KeptInv, NEW failed \in BOOLEAN, RecordStep(failed)
  PROVE  KeptInv'
<1>1. /\ session.pc = "meta" /\ Noted(failed) /\ info' = info /\ data' = data
      /\ writer' = writer /\ broken' \subseteq broken
  <2>1. PICK file, record, m0, b0, o0, m1, b1, o1 :
          /\ RecordFor(record, file) /\ Turned(file, m0, b0, o0)
          /\ Stored(Append(b0, record), m0, o0, m1, b1, o1, failed)
          /\ session.pc = "meta" /\ Noted(failed)
          /\ meta' = m1
          /\ metaw' = [metaw EXCEPT !.latest = record, !.open = o1, !.buffer = b1]
          /\ broken' \subseteq broken
          /\ info' = info /\ disk' = disk /\ data' = data /\ video' = video /\ torn' = torn
          /\ writer' = writer
    BY MetaParts
  <2> QED  BY <2>1
<1>2. PICK pc \in {"info", "failed"} :
        /\ session'.pc = pc /\ (Clean' <=> Clean /\ pc = "info")
        /\ past'.clean = past.clean /\ past'.kept = past.kept /\ past'.reopened = past.reopened
        /\ pc = "info" => session'.length = session.length /\ past' = past
  <2>1. CASE failed
    <3>1. past'.failures = past.failures + 1 /\ past'.crashes = past.crashes
      BY <1>1, <2>1 DEF Noted
    <3>2. ~Clean'
      BY <3>1, NotClean
    <3> QED  BY <1>1, <2>1, <3>2 DEF Noted
  <2>2. CASE ~failed
    <3>1. session' = [session EXCEPT !.pc = "info"] /\ session'.pc = "info" /\ past' = past
      BY <1>1, <2>2 DEF Noted
    <3>2. session'.length = session.length
      BY <3>1, KeptTypes DEF SessionType
    <3> QED  BY <3>1, <3>2 DEF Clean
  <2> QED  BY <2>1, <2>2
<1>3. PICK r \in Record : NewRecord(r, EndOf(All)) /\ All' = Append(All, r)
  BY MetaAdds
<1>4. metaw'.latest # None
  BY MetaAdds
<1>5. PICK q \in Seq(Record), n \in Nat, k \in Nat :
        /\ q = All /\ q = Known /\ n = Counted /\ k = past.kept
        /\ k <= past.clean /\ past.clean <= n /\ n <= Len(q) /\ k <= Len(q)
        /\ k <= Len(Contents(SettledIn(meta, metaw.open))) /\ FoundInv
        /\ ~past.reopened => Kept(q, n, data, broken) /\ FilesAscend(q) /\ WriterInv
  BY <1>1, KeptNow
<1>6. n = past.clean /\ k <= n
  BY <1>1, <1>5 DEF Counted
<1>7. PICK a \in Seq(Record) :
        /\ a = Append(q, r) /\ a = All' /\ a = Known' /\ Len(a) = Len(q) + 1 /\ a # <<>>
        /\ a[Len(q) + 1] = r /\ Last(a) = r
  <2>1. All' = Append(q, r) /\ Known' = Append(q, r)
    BY <1>2, <1>3, <1>5 DEF Known
  <2>2. /\ Append(q, r) \in Seq(Record) /\ Len(Append(q, r)) = Len(q) + 1
        /\ Append(q, r) # <<>> /\ Append(q, r)[Len(q) + 1] = r /\ Last(Append(q, r)) = r
    <3>1. /\ Append(q, r) \in Seq(Record) /\ Len(Append(q, r)) = Len(q) + 1
          /\ Append(q, r) # <<>> /\ Append(q, r)[Len(q) + 1] = r
      BY AppendIs
    <3> QED  BY <3>1 DEF Last
  <2>3. PICK a \in Seq(Record) : a = Append(q, r)
    BY <2>2
  <2> QED  BY <2>1, <2>2, <2>3
<1>8. ASSUME ~past.reopened
      PROVE  /\ r.data = session.record.data /\ r.data = writer.latest /\ writer.latest # None
             /\ Kept(a, n, data, broken) /\ FilesAscend(a) /\ WriterInv /\ WriterInv'
  <2>1. Kept(q, n, data, broken) /\ FilesAscend(q) /\ WriterInv
    BY <1>5, <1>8
  <2>2. r.data = session.record.data /\ r.data = writer.latest
    BY <1>1, <1>3, <2>1 DEF NewRecord, WriterInv
  <2>3. writer.latest # None
    BY <2>2, StorageAssumption DEF Record
  <2>4. /\ NoneAfter(q, r.data) /\ FirstBefore(q, k, r.data)
        /\ writer.open \in {None, writer.latest, NextFile(writer.latest)}
        /\ writer.open # None => <<"data", writer.open>> \notin broken
    BY <1>5, <2>1, <2>2, <2>3 DEF WriterInv
  <2>5. /\ Kept(Append(q, r), n, data, broken) /\ FilesAscend(Append(q, r))
        /\ NoneAfter(Append(q, r), r.data) /\ FirstBefore(Append(q, r), k, r.data)
    BY <1>6, <2>1, <2>4, KeptAppend
  <2>6. /\ writer'.latest # None /\ writer'.open \in {None, writer'.latest, NextFile(writer'.latest)}
        /\ NoneAfter(All', writer'.latest) /\ FirstBefore(All', past'.kept, writer'.latest)
    BY <1>1, <1>2, <1>5, <1>7, <2>2, <2>3, <2>4, <2>5
  <2>7. writer'.open # None => <<"data", writer'.open>> \notin broken'
    BY <1>1, <2>4
  <2>8. WriterInv'
    BY <1>2, <2>6, <2>7 DEF WriterInv
  <2> QED  BY <1>7, <2>1, <2>2, <2>3, <2>5, <2>8
<1>9. past'.kept <= Len(Contents(SettledIn(meta', metaw'.open)))
  <2>1. \/ SettledIn(meta', metaw'.open) = SettledIn(meta, metaw.open)
        \/ Contents(SettledIn(meta', metaw'.open)) = All
    BY MetaAdds
  <2> QED  BY <1>2, <1>5, <2>1
<1>10. CASE ~Clean'
  <2>1. Counted' = n
    BY <1>2, <1>6, <1>10 DEF Counted
  <2>2. ~past'.reopened => Kept(a, n, data', broken') /\ FilesAscend(a) /\ WriterInv'
    BY <1>1, <1>2, <1>8 DEF Kept
  <2>3. n <= Len(a)
    <3>1. Len(q) \in Nat
      OBVIOUS
    <3> QED  BY <1>5, <1>7, <3>1
  <2> QED  BY <1>7, <1>9, <1>10, <2>1, <2>2, <2>3, KeptChanges
<1>11. CASE Clean'
  <2>1. CleanInv /\ session'.pc = "info" /\ session'.length = session.length /\ Clean
    BY <1>2, <1>11 DEF KeptInv
  <2>2. /\ info.episodes = n /\ Len(q) = n /\ EndOf(q) = info.frames + 0
        /\ Len(Contents(data)) = n + 1 /\ writer.open = writer.latest /\ ~past.reopened
        /\ EndsWith(data, session.record.data,
             [episode |-> info.episodes, first |-> info.frames, length |-> session.length])
    BY <1>1, <1>5, <1>6, <2>1 DEF CleanInv
  <2>3. PICK e, l \in Nat : e = info.frames /\ l = session.length
    BY KeptTypes
  <2>4. PICK block : block = [episode |-> n, first |-> e, length |-> l]
    OBVIOUS
  <2>5. /\ r.episode = n /\ r.from = e /\ r.to = e + l
    <3>1. session.record.episode = info.episodes
      BY <1>1 DEF OrderInv, FoundInv
    <3> QED  BY <1>3, <1>5, <2>2, <2>3, <3>1 DEF NewRecord
  <2>6. BlockOf(r, n + 1) = block
    <3>1. (n + 1) - 1 = n /\ (e + l) - e = l
      OBVIOUS
    <3> QED  BY <2>4, <2>5, <3>1 DEF BlockOf
  <2>7. /\ r.data = writer.latest /\ writer.latest # None /\ Kept(a, n, data, broken)
        /\ FilesAscend(a) /\ WriterInv /\ WriterInv' /\ r.data = session.record.data
    BY <1>8, <2>2
  <2>8. EndsWith(data, r.data, block)
    BY <2>2, <2>3, <2>4, <2>7
  <2>9. LaidAt(r, n + 1, data)
    <3>1. /\ IsLast(data, r.data) /\ r.data \in DOMAIN data /\ Among(data[r.data], block)
          /\ Contents(data)[n + 1] = block
      BY <2>2, <2>8 DEF EndsWith
    <3>2. Upto(data, r.data) = data
      BY <3>1, KeptTypes, UptoLast
    <3>3. n + 1 \in 1..Len(Contents(data))
      BY <2>2
    <3> QED  BY <2>6, <3>1, <3>2, <3>3 DEF LaidAt
  <2>10. n + 1 = 1 => r.from = 0
    <3>1. ASSUME n = 0  PROVE r.from = 0
      <4>1. q = <<>>
        BY <2>2, <3>1, EmptySeq
      <4> QED  BY <1>3, <1>5, <4>1 DEF NewRecord, EndOf
    <3> QED  BY <3>1
  <2>11. <<"data", r.data>> \notin broken
    BY <2>2, <2>7 DEF WriterInv
  <2>12. Kept(a, n + 1, data', broken') /\ n + 1 <= Len(a)
    <3>1. ASSUME NEW i \in 1..(n + 1)
          PROVE  /\ a[i].episode = i - 1 /\ (i = 1 => a[i].from = 0)
                 /\ LaidAt(a[i], i, data) /\ <<"data", a[i].data>> \notin broken
      <4>1. CASE i = n + 1
        <5>1. a[i] = r /\ i - 1 = n
          BY <1>7, <2>2, <4>1
        <5> QED  BY <2>5, <2>9, <2>10, <2>11, <4>1, <5>1
      <4>2. CASE i # n + 1
        <5>1. i \in 1..n
          BY <4>2
        <5> QED  BY <2>7, <5>1 DEF Kept
      <4> QED  BY <4>1, <4>2
    <3>2. n + 1 <= Len(a)
      BY <1>7, <2>2
    <3> QED  BY <1>1, <3>1, <3>2 DEF Kept
  <2>13. Counted' = n + 1 /\ n + 1 \in Nat
    BY <1>2, <1>6, <1>11, <2>1 DEF Counted
  <2>14. CleanInv'
    <3>1. info'.episodes = past'.clean /\ Len(Known') = Counted'
      BY <1>1, <1>2, <1>6, <1>7, <2>2, <2>13
    <3>2. EndOf(Known') = info'.frames + session'.length
      BY <1>1, <1>7, <2>1, <2>3, <2>5 DEF EndOf
    <3>3. Len(Contents(data')) = info'.episodes + 1
      BY <1>1, <2>2
    <3>4. EndsWhere(Known', data', writer'.latest)
      BY <1>1, <1>7, <2>7, <2>8 DEF EndsWhere, EndsWith
    <3>5. writer'.open = writer'.latest /\ ~past'.reopened
      BY <1>1, <1>2, <2>2
    <3> QED  BY <2>1, <3>1, <3>2, <3>3, <3>4, <3>5 DEF CleanInv
  <2> QED  BY <1>7, <1>9, <2>7, <2>12, <2>13, <2>14, KeptChanges
<1> QED  BY <1>10, <1>11

LEMMA KeptInit == Init => KeptInv
<1> SUFFICES ASSUME Init  PROVE KeptInv
  OBVIOUS
<1>1. PICK empty \in Seq(Record) : empty = <<>> /\ Len(empty) = 0
  BY EmptySeq
<1>2. DOMAIN data = {} /\ DOMAIN meta = {} /\ broken = {}
  BY DEF Init
<1>3. metaw = [episodes |-> empty, latest |-> None, buffer |-> empty, open |-> None]
  BY <1>1 DEF Init, FreshMeta
<1>4. metaw.latest = None /\ metaw.buffer = empty /\ metaw.open = None
  BY <1>3
<1>5. PICK no, none : no = FALSE /\ none = {}
  OBVIOUS
<1>6. /\ past = [sessions |-> 1, failures |-> 0, crashes |-> 0, clean |-> 0, kept |-> 0,
                 reopened |-> no, uncounted |-> none]
      /\ info = [episodes |-> 0, frames |-> 0]
      /\ session = [pc |-> "idle", length |-> 0, record |-> None]
      /\ writer = [latest |-> None, open |-> None]
  BY <1>5 DEF Init, Closed, FreshWriter
<1>7. /\ past.clean = 0 /\ past.kept = 0 /\ past.reopened = no
      /\ info.episodes = 0 /\ info.frames = 0 /\ session.pc = "idle"
      /\ writer.latest = None /\ writer.open = None
  BY <1>6
<1>8. Contents(meta) = empty /\ Contents(data) = empty
  BY <1>1, <1>2, NoContents
<1>9. empty \o <<>> = empty
  BY ConcatEmptySeq
<1>10. All = empty /\ Known = empty /\ Counted = 0
  BY <1>1, <1>4, <1>7, <1>8, <1>9 DEF All, Known, Counted
<1>11. Kept(empty, 0, data, broken) /\ FilesAscend(empty)
  BY <1>1 DEF Kept, FilesAscend
<1>12. WriterInv
  BY <1>4, <1>7 DEF WriterInv
<1>13. past.kept <= Len(Contents(SettledIn(meta, metaw.open)))
  BY <1>1, <1>4, <1>7, <1>8 DEF SettledIn
<1>14. CleanInv
  <2>1. EndsWhere(empty, data, None)
    BY <1>1, <1>2 DEF EndsWhere
  <2>2. EndOf(empty) = 0
    BY <1>1 DEF EndOf
  <2> QED  BY <1>1, <1>5, <1>7, <1>8, <1>10, <2>1, <2>2 DEF CleanInv
<1>15. RowsInv
  BY <1>10, <1>11, <1>12 DEF RowsInv
<1>16. Counted <= Len(Known)
  BY <1>1, <1>10
<1> QED  BY <1>13, <1>14, <1>15, <1>16 DEF KeptInv

LEMMA KeptStep == IInv /\ OrderInv /\ KeptInv /\ [Next]_vars => KeptInv'
<1> SUFFICES ASSUME IInv, OrderInv, KeptInv, [Next]_vars  PROVE KeptInv'
  OBVIOUS
<1>1. ASSUME NEW length \in Lengths, NEW full \in BOOLEAN, SaveEpisodeData(length, full)
      PROVE  KeptInv'
  BY <1>1, KeptData
<1>2. ASSUME NEW full \in BOOLEAN, SaveEpisodeVideo(full)  PROVE KeptInv'
  BY <1>2, KeptVideo
<1>3. ASSUME NEW failed \in BOOLEAN, RecordStep(failed)  PROVE KeptInv'
  BY <1>3, KeptMeta
<1>4. CASE WriteInfo
  BY <1>4, KeptInfo
<1>5. ASSUME NEW full \in BOOLEAN, NEW opened \in BOOLEAN, SaveEpisodeDataFails(full, opened)
      PROVE  KeptInv'
  BY <1>5, KeptDataFails
<1>6. ASSUME NEW full \in BOOLEAN, SaveEpisodeVideoFails(full)  PROVE KeptInv'
  <2>1. /\ session.pc = "video" /\ session'.pc = "failed"
        /\ past'.failures = past.failures + 1 /\ past'.crashes = past.crashes
        /\ past'.clean = past.clean /\ past'.kept = past.kept /\ past'.reopened = past.reopened
        /\ data' = data /\ meta' = meta /\ broken' = broken /\ writer' = writer /\ metaw' = metaw
    BY <1>6, VideoFails
  <2> QED  BY <2>1, KeptFails
<1>7. CASE WriteInfoFails
  <2>1. /\ session.pc = "info" /\ session'.pc = "failed"
        /\ past'.failures = past.failures + 1 /\ past'.crashes = past.crashes
        /\ past'.clean = past.clean /\ past'.kept = past.kept /\ past'.reopened = past.reopened
        /\ data' = data /\ meta' = meta /\ broken' = broken /\ writer' = writer /\ metaw' = metaw
    BY <1>7, InfoFails
  <2> QED  BY <2>1, KeptFails
<1>8. CASE SaveEpisodeFails
  <2>1. /\ session.pc # "closed" /\ session'.pc = "failed"
        /\ past'.failures = past.failures + 1 /\ past'.crashes = past.crashes
        /\ past'.clean = past.clean /\ past'.kept = past.kept /\ past'.reopened = past.reopened
        /\ data' = data /\ meta' = meta /\ broken' = broken /\ writer' = writer /\ metaw' = metaw
    BY <1>8, FailStep
  <2> QED  BY <2>1, KeptFails
<1>9. CASE ClearEpisodeBuffer
  BY <1>9, KeptClear
<1>10. CASE Finalize
  BY <1>10, KeptFinalize
<1>11. CASE Crash
  BY <1>11, KeptCrash
<1>12. CASE Resume
  BY <1>12, KeptResume
<1>13. CASE UNCHANGED vars
  <2>1. /\ info' = info /\ data' = data /\ meta' = meta /\ broken' = broken
        /\ session' = session /\ writer' = writer /\ metaw' = metaw /\ past' = past
    BY <1>13 DEF vars, storage
  <2>2. /\ All' = All /\ Known' = Known /\ Counted' = Counted /\ Clean' = Clean
        /\ FirstOfSession("data")' = FirstOfSession("data")
    BY <2>1 DEF All, Records, Known, Counted, Clean, FirstOfSession
  <2>3. WriterInv' = WriterInv /\ CleanInv' = CleanInv
    BY <2>1, <2>2 DEF WriterInv, CleanInv
  <2>4. RowsInv' = RowsInv
    BY <2>1, <2>2, <2>3 DEF RowsInv
  <2> QED  BY <2>1, <2>2, <2>3, <2>4 DEF KeptInv
<1>14. CASE SaveEpisode
  BY <1>1, <1>2, <1>3, <1>4, <1>14, Recorded DEF SaveEpisode
<1>15. CASE Fails
  BY <1>3, <1>5, <1>6, <1>7, <1>8, <1>15, RecordFails DEF Fails
<1> QED
  BY <1>9, <1>10, <1>11, <1>12, <1>13, <1>14, <1>15 DEF Next

\* The rows of the clean episodes stay where their records say they are, until
\* an attempt opens a file anew.
THEOREM KeptInvariant == Spec => []KeptInv
<1>1. Init => KeptInv
  BY KeptInit
<1>2. IInv /\ OrderInv /\ KeptInv /\ [Next]_vars => KeptInv'
  BY KeptStep
<1> QED  BY <1>1, <1>2, StorageInvariant, OrderInvariant, PTL DEF Spec

\* The rows of a clean episode are at the positions that its record says of the
\* data files in order, and in the file it names, which is readable unless it is
\* being written: through every failure, crash and later session, as long as no
\* attempt opens a file anew that an attempt before it had closed.
THEOREM SavedDataIsKept == Spec => []SavedDataKept
<1>1. IInv /\ OrderInv /\ KeptInv => SavedDataKept
  <2> SUFFICES ASSUME IInv, OrderInv, KeptInv, ~past.reopened  PROVE SavedDataKept
    BY DEF SavedDataKept
  <2>1. PICK q \in Seq(Record), n, k \in Nat :
          /\ q = Records /\ n = past.clean /\ k = Counted /\ n <= k /\ k <= Len(q)
          /\ Kept(q, k, data, broken)
          /\ \A i \in 1..(Len(q) - 1) : q[i].to = q[i + 1].from
    <3>1. PICK q \in Seq(Record) : q = Known /\ q = Records /\ Ascending(q, past.uncounted)
      BY KnownIs
    <3>2. PICK n, k \in Nat : n = past.clean /\ k = Counted /\ n <= k
      BY KeptTypes
    <3>3. Kept(q, k, data, broken)
      BY <3>1, <3>2 DEF KeptInv, RowsInv
    <3>4. k <= Len(q)
      BY <3>3 DEF Kept
    <3>5. \A i \in 1..(Len(q) - 1) : q[i].to = q[i + 1].from
      BY <3>1 DEF Ascending
    <3> QED  BY <3>1, <3>2, <3>3, <3>4, <3>5
  <2>2. PICK blocks \in Seq(Block) : blocks = Contents(data)
    BY KeptTypes, ContentsType
  <2>3. ASSUME NEW i \in 1..n
        PROVE  /\ q[i].episode = i - 1
               /\ q[i].from = (IF i = 1 THEN 0 ELSE q[i - 1].to)
               /\ blocks[i] = BlockOf(q[i], i)
               /\ BlockOf(q[i], i) \in ToSet(data[q[i].data])
               /\ <<"data", q[i].data>> \notin broken
    <3>1. Len(q) \in Nat /\ i \in 1..k /\ i \in 1..Len(q)
      BY <2>1
    <3>2. PICK r \in Record : r = q[i]
      BY <3>1, ElementOfSeq
    <3>3. /\ r.episode = i - 1 /\ (i = 1 => r.from = 0)
          /\ LaidAt(r, i, data) /\ <<"data", r.data>> \notin broken
      BY <2>1, <3>1, <3>2 DEF Kept
    <3>4. r.from = (IF i = 1 THEN 0 ELSE q[i - 1].to)
      <4>1. ASSUME i # 1  PROVE r.from = q[i - 1].to
        <5>1. i - 1 \in 1..(Len(q) - 1) /\ (i - 1) + 1 = i
          BY <3>1, <4>1
        <5>2. q[i - 1].to = q[(i - 1) + 1].from
          BY <2>1, <5>1
        <5> QED  BY <3>2, <5>1, <5>2
      <4> QED  BY <3>3, <4>1
    <3>5. PICK f \in File : f = r.data /\ f \in DOMAIN data
      BY <3>3 DEF LaidAt, Record
    <3>6. FilesOf(data, Block)
      BY KeptTypes
    <3>7. blocks[i] = BlockOf(r, i)
      <4>1. StartsWith(Contents(data), Contents(Upto(data, f)))
        BY <3>6, UptoStart
      <4>2. /\ i \in 1..Len(Contents(Upto(data, f)))
            /\ Contents(Upto(data, f))[i] = BlockOf(r, i)
        BY <3>3, <3>5 DEF LaidAt
      <4> QED  BY <2>2, <4>1, <4>2 DEF StartsWith
    <3>8. BlockOf(r, i) \in ToSet(data[f])
      <4>1. PICK s \in Seq(Block) : s = data[f]
        BY <3>5, <3>6 DEF FilesOf
      <4>2. Among(s, BlockOf(r, i))
        BY <3>3, <3>5, <4>1 DEF LaidAt
      <4>3. ToSet(s) = {s[j] : j \in 1..Len(s)}
        BY DEF ToSet
      <4> QED  BY <4>1, <4>2, <4>3 DEF Among
    <3> QED  BY <3>2, <3>3, <3>4, <3>5, <3>7, <3>8
  <2> QED  BY <2>1, <2>2, <2>3 DEF SavedDataKept, BlockOf
<1> QED  BY <1>1, StorageInvariant, OrderInvariant, KeptInvariant, PTL

-----------------------------------------------------------------------------
(* Where the videos of the clean episodes are.                             *)

\* Segment k of these is an episode's, from and to these times.
SegmentIs(segments, k, episode, from, to) ==
  /\ k \in 1..Len(segments) /\ segments[k].episode = episode
  /\ EndTimes(segments)[k - 1] = from /\ EndTimes(segments)[k] = to

\* The video of the i-th episode is where its record says, unless that is lost.
FilmedAt(r, i, fs, lost) ==
  /\ r.video \in DOMAIN fs
  /\ r.video \notin lost =>
       \E k \in 1..Len(fs[r.video]) : SegmentIs(fs[r.video], k, i - 1, r.videoFrom, r.videoTo)

\* This holds of the first n records of q.
Shown(q, n, fs, lost) == n <= Len(q) /\ \A i \in 1..n : FilmedAt(q[i], i, fs, lost)

\* A later record names the same or a later video file, and none after f.
VideosAscend(q) == \A i, j \in 1..Len(q) : i <= j => AtMost(q[i].video, q[j].video)
NoVideoAfter(q, f) == \A i \in 1..Len(q) : AtMost(q[i].video, f)

\* The last segment in the record's file ends with it.
EndsThere(fs, r) == EndTimes(fs[r.video])[Len(fs[r.video])] = r.videoTo

\* Episode 0 is filmed into the session's first file, however often it is tried.
FirstInv ==
  session.pc # "closed" /\ info.episodes = 0 => NoVideoAfter(All, FirstOfSession("video"))

\* The episode that has its video and not yet its record.
FilmedInv ==
  session.pc = "meta" =>
    /\ NoVideoAfter(All, session.record.video)
    /\ info.episodes = 0 => session.record.video = FirstOfSession("video")
    /\ Clean => SegmentIs(video[session.record.video], Len(video[session.record.video]),
                  info.episodes, session.record.videoFrom, session.record.videoTo)

VideoInv ==
  /\ Shown(Known, Counted, video, torn) /\ VideosAscend(Known)
  /\ FirstInv /\ FilmedInv
  /\ Clean /\ session.pc # "meta" /\ metaw.latest # None => EndsThere(video, metaw.latest)

\* The first n ends of these segments.
Sums(segments, n, g) ==
  g = [k \in 0..n |-> IF k = 0 THEN 0 ELSE g[k - 1] + segments[k].length]

LEMMA SumsExist ==
  ASSUME NEW segments \in Seq(Segment), NEW n \in 0..Len(segments)
  PROVE  \E g : Sums(segments, n, g)
<1> DEFINE Good(m) == \E g : Sums(segments, m, g)
           Bad == {m \in Nat : ~Good(m)}
<1>1. Good(0)
  <2>1. PICK g : g = [k \in 0..0 |-> 0]
    OBVIOUS
  <2>2. \A k \in 0..0 : k = 0
    OBVIOUS
  <2>3. g = [k \in 0..0 |-> IF k = 0 THEN 0 ELSE g[k - 1] + segments[k].length]
    BY <2>1, <2>2
  <2> QED  BY <2>3 DEF Sums
<1>2. ASSUME NEW m \in Nat, Good(m)  PROVE Good(m + 1)
  <2>1. PICK g : Sums(segments, m, g)
    BY <1>2
  <2>2. \A k \in 0..m : g[k] = IF k = 0 THEN 0 ELSE g[k - 1] + segments[k].length
    BY <2>1 DEF Sums
  <2>3. PICK h : h = [k \in 0..(m + 1) |->
                        IF k <= m THEN g[k] ELSE g[k - 1] + segments[k].length]
    OBVIOUS
  <2>4. ASSUME NEW k \in 0..(m + 1)
        PROVE  h[k] = IF k = 0 THEN 0 ELSE h[k - 1] + segments[k].length
    <3>1. CASE k = 0
      <4>1. k \in 0..m
        BY <3>1
      <4> QED  BY <2>2, <2>3, <3>1, <4>1
    <3>2. CASE k # 0
      <4>1. k - 1 \in 0..m /\ k - 1 \in 0..(m + 1) /\ k - 1 <= m
        BY <3>2
      <4>2. h[k - 1] = g[k - 1]
        BY <2>3, <4>1
      <4>3. h[k] = g[k - 1] + segments[k].length
        <5>1. CASE k <= m
          <6>1. k \in 0..m
            BY <5>1
          <6> QED  BY <2>2, <2>3, <3>2, <5>1, <6>1
        <5>2. CASE ~(k <= m)
          BY <2>3, <5>2
        <5> QED  BY <5>1, <5>2
      <4> QED  BY <3>2, <4>2, <4>3
    <3> QED  BY <3>1, <3>2
  <2>5. h = [k \in 0..(m + 1) |-> IF k = 0 THEN 0 ELSE h[k - 1] + segments[k].length]
    BY <2>3, <2>4
  <2> QED  BY <2>5 DEF Sums
<1>3. Bad = {}
  <2> SUFFICES ASSUME Bad # {}  PROVE FALSE
    OBVIOUS
  <2>1. PICK m \in Bad : \A k \in Bad : m <= k
    <3>1. Bad \in SUBSET Nat
      OBVIOUS
    <3> QED  BY <3>1, LeastNat
  <2>2. m \in Nat /\ ~Good(m)
    OBVIOUS
  <2>3. m # 0
    BY <1>1, <2>2
  <2>4. PICK k \in Nat : k + 1 = m
    BY <2>2, <2>3
  <2>5. k \notin Bad
    BY <2>1, <2>2, <2>4
  <2>6. Good(k)
    BY <2>4, <2>5
  <2> QED  BY <1>2, <2>2, <2>4, <2>6
<1>4. n \in Nat
  OBVIOUS
<1> QED  BY <1>3, <1>4

\* A segment starts where the one before it ends.
LEMMA EndTimesAre ==
  ASSUME NEW segments \in Seq(Segment)
  PROVE  /\ EndTimes(segments)[0] = 0
         /\ \A k \in 1..Len(segments) :
              EndTimes(segments)[k] = EndTimes(segments)[k - 1] + segments[k].length
<1>1. PICK n \in Nat : n = Len(segments)
  BY LenProperties
<1>2. \E g : Sums(segments, n, g)
  BY <1>1, SumsExist
<1>3. PICK h : h = CHOOSE g : Sums(segments, n, g)
  OBVIOUS
<1>4. Sums(segments, n, h)
  BY <1>2, <1>3
<1>5. EndTimes(segments) = h
  BY <1>1, <1>3 DEF EndTimes, Sums
<1>6. \A k \in 0..n : h[k] = IF k = 0 THEN 0 ELSE h[k - 1] + segments[k].length
  BY <1>4 DEF Sums
<1>7. h[0] = 0
  <2>1. 0 \in 0..n
    OBVIOUS
  <2> QED  BY <1>6, <2>1
<1>8. ASSUME NEW k \in 1..n  PROVE h[k] = h[k - 1] + segments[k].length
  <2>1. k \in 0..n /\ k # 0
    OBVIOUS
  <2> QED  BY <1>6, <2>1
<1> QED  BY <1>1, <1>5, <1>7, <1>8

\* What is appended moves nothing.
LEMMA EndTimesStart ==
  ASSUME NEW p \in Seq(Segment), NEW q \in Seq(Segment), StartsWith(q, p), NEW i \in 0..Len(p)
  PROVE  EndTimes(q)[i] = EndTimes(p)[i]
<1>1. PICK n, m \in Nat : n = Len(p) /\ m = Len(q) /\ n <= m
  BY LenProperties DEF StartsWith
<1>2. PICK e : /\ e = EndTimes(p) /\ e[0] = 0
               /\ \A k \in 1..n : e[k] = e[k - 1] + p[k].length
  BY <1>1, EndTimesAre
<1>3. PICK f : /\ f = EndTimes(q) /\ f[0] = 0
               /\ \A k \in 1..m : f[k] = f[k - 1] + q[k].length
  BY <1>1, EndTimesAre
<1> DEFINE Bad == {k \in 0..n : f[k] # e[k]}
<1>4. Bad = {}
  <2> SUFFICES ASSUME Bad # {}  PROVE FALSE
    OBVIOUS
  <2>1. PICK k \in Bad : \A j \in Bad : k <= j
    <3>1. Bad \in SUBSET Nat
      OBVIOUS
    <3> QED  BY <3>1, LeastNat
  <2>2. k \in 0..n /\ f[k] # e[k]
    OBVIOUS
  <2>3. k # 0
    BY <1>2, <1>3, <2>2
  <2>4. k \in 1..n /\ k \in 1..m /\ k - 1 \in 0..n /\ ~(k <= k - 1)
    BY <1>1, <2>2, <2>3
  <2>5. f[k - 1] = e[k - 1]
    BY <2>1, <2>4
  <2>6. p[k] = q[k]
    BY <1>1, <2>4 DEF StartsWith
  <2> QED  BY <1>2, <1>3, <2>2, <2>4, <2>5, <2>6
<1> QED  BY <1>1, <1>2, <1>3, <1>4

LEMMA AppendStarts ==
  ASSUME NEW S, NEW q \in Seq(S), NEW r \in S
  PROVE  StartsWith(Append(q, r), q)
<1>1. Len(Append(q, r)) = Len(q) + 1 /\ Same(Append(q, r), q, Len(q))
  BY AppendIs
<1>2. Len(q) \in Nat
  OBVIOUS
<1> QED  BY <1>1, <1>2 DEF StartsWith, Same

\* A segment comes after those that are there.
LEMMA SegmentAdded ==
  ASSUME NEW p \in Seq(Segment), NEW s \in Segment
  PROVE  SegmentIs(Append(p, s), Len(p) + 1, s.episode, EndTimes(p)[Len(p)],
                   EndTimes(p)[Len(p)] + s.length)
<1>1. PICK n \in Nat, q \in Seq(Segment) :
        n = Len(p) /\ q = Append(p, s) /\ Len(q) = n + 1 /\ q[n + 1] = s
  <2>1. PICK n \in Nat : n = Len(p)
    BY LenProperties
  <2> QED  BY <2>1, AppendIs
<1>2. EndTimes(q)[n] = EndTimes(p)[n]
  <2>1. StartsWith(q, p) /\ n \in 0..Len(p)
    BY <1>1, AppendStarts
  <2> QED  BY <2>1, EndTimesStart
<1>3. EndTimes(q)[n + 1] = EndTimes(q)[(n + 1) - 1] + q[n + 1].length
  <2>1. n + 1 \in 1..Len(q)
    BY <1>1
  <2> QED  BY <2>1, EndTimesAre
<1>4. n + 1 \in 1..Len(q) /\ (n + 1) - 1 = n
  BY <1>1
<1> QED  BY <1>1, <1>2, <1>3, <1>4 DEF SegmentIs

LEMMA SegmentAlone ==
  ASSUME NEW s \in Segment
  PROVE  SegmentIs(<<s>>, 1, s.episode, 0, s.length)
<1>1. PICK q \in Seq(Segment) : q = <<s>> /\ Len(q) = 1 /\ q[1] = s
  <2>1. <<s>> \in Seq(Segment) /\ Len(<<s>>) = 1 /\ <<s>>[1] = s
    OBVIOUS
  <2> QED  BY <2>1
<1>2. EndTimes(q)[0] = 0 /\ \A k \in 1..Len(q) : EndTimes(q)[k] = EndTimes(q)[k - 1] + q[k].length
  BY EndTimesAre
<1>3. 1 \in 1..Len(q) /\ 1 - 1 = 0 /\ s.length \in Nat
  BY <1>1 DEF Segment
<1>4. EndTimes(q)[1] = s.length
  BY <1>1, <1>2, <1>3
<1> QED  BY <1>1, <1>2, <1>3, <1>4 DEF SegmentIs

LEMMA SegmentStays ==
  ASSUME NEW p \in Seq(Segment), NEW q \in Seq(Segment), StartsWith(q, p),
         NEW k, NEW episode, NEW from, NEW to, SegmentIs(p, k, episode, from, to)
  PROVE  SegmentIs(q, k, episode, from, to)
<1>1. PICK n, m \in Nat : n = Len(p) /\ m = Len(q) /\ n <= m
  BY LenProperties DEF StartsWith
<1>2. k \in 1..n /\ p[k].episode = episode /\ EndTimes(p)[k - 1] = from /\ EndTimes(p)[k] = to
  BY <1>1 DEF SegmentIs
<1>3. k \in 1..m /\ q[k] = p[k] /\ k - 1 \in 0..Len(p) /\ k \in 0..Len(p)
  BY <1>1, <1>2 DEF StartsWith
<1>4. EndTimes(q)[k - 1] = EndTimes(p)[k - 1]
  BY <1>3, EndTimesStart
<1>5. EndTimes(q)[k] = EndTimes(p)[k]
  BY <1>3, EndTimesStart
<1> QED  BY <1>1, <1>2, <1>3, <1>4, <1>5 DEF SegmentIs

\* What is written to another file, to one that is lost, or at the end of one
\* that is not, leaves a video.
LEMMA FilmedWritten ==
  ASSUME NEW fs, FilesOf(fs, Segment), NEW lost, NEW r, NEW i, FilmedAt(r, i, fs, lost),
         NEW h \in File, NEW c, Holds(c, Segment), NEW gone, lost \subseteq gone \cup {h},
         r.video # h \/ h \in gone \/ (StartsWith(c, fs[h]) /\ h \notin lost)
  PROVE  FilmedAt(r, i, With(fs, h, c), gone)
<1>1. PICK f, from, to : f = r.video /\ from = r.videoFrom /\ to = r.videoTo /\ f \in DOMAIN fs
  BY DEF FilmedAt
<1>2. PICK w : w = With(fs, h, c) /\ Written(w, fs, h, c)
  BY WithFile
<1>3. f \in DOMAIN w
  BY <1>1, <1>2 DEF Written
<1>4. ASSUME f \notin gone  PROVE \E l \in 1..Len(w[f]) : SegmentIs(w[f], l, i - 1, from, to)
  <2>1. f \notin lost
    BY <1>1, <1>4
  <2>2. PICK k \in 1..Len(fs[f]) : SegmentIs(fs[f], k, i - 1, from, to)
    BY <1>1, <2>1 DEF FilmedAt
  <2>3. SegmentIs(w[f], k, i - 1, from, to)
    <3>1. CASE f # h
      <4>1. w[f] = fs[f]
        BY <1>1, <1>2, <3>1 DEF Written
      <4> QED  BY <2>2, <4>1
    <3>2. CASE f = h
      <4>1. PICK p, q \in Seq(Segment) : p = fs[f] /\ q = c /\ q = w[f] /\ StartsWith(q, p)
        <5>1. fs[f] \in Seq(Segment) /\ c \in Seq(Segment)
          BY <1>1 DEF FilesOf, Holds
        <5>2. w[f] = c
          BY <1>2, <3>2 DEF Written
        <5>3. StartsWith(c, fs[f])
          BY <1>1, <1>4, <3>2
        <5> QED  BY <5>1, <5>2, <5>3
      <4>2. SegmentIs(p, k, i - 1, from, to)
        BY <2>2, <4>1
      <4> QED  BY <4>1, <4>2, SegmentStays
    <3> QED  BY <3>1, <3>2
  <2>4. k \in 1..Len(w[f])
    BY <2>3 DEF SegmentIs
  <2> QED  BY <2>3, <2>4
<1>5. /\ r.video \in DOMAIN w
      /\ r.video \notin gone =>
           \E l \in 1..Len(w[r.video]) : SegmentIs(w[r.video], l, i - 1, r.videoFrom, r.videoTo)
  BY <1>1, <1>3, <1>4
<1> QED  BY <1>2, <1>5 DEF FilmedAt

LEMMA ShownPart ==
  ASSUME NEW q, NEW p, NEW n \in Nat, NEW k \in Nat, NEW fs, NEW lost, Shown(q, n, fs, lost),
         k <= n, k <= Len(p), Same(p, q, k)
  PROVE  Shown(p, k, fs, lost)
<1>1. ASSUME NEW i \in 1..k  PROVE FilmedAt(p[i], i, fs, lost)
  <2>1. i \in 1..n /\ p[i] = q[i]
    BY DEF Same
  <2> QED  BY <2>1 DEF Shown
<1> QED  BY <1>1 DEF Shown

LEMMA ShownWritten ==
  ASSUME NEW q, NEW n \in Nat, NEW fs, FilesOf(fs, Segment), NEW lost, Shown(q, n, fs, lost),
         NEW h \in File, NEW c, Holds(c, Segment), NEW gone, lost \subseteq gone \cup {h},
         \/ \A i \in 1..n : q[i].video # h
         \/ h \in gone
         \/ StartsWith(c, fs[h]) /\ h \notin lost
  PROVE  Shown(q, n, With(fs, h, c), gone)
<1>1. ASSUME NEW i \in 1..n  PROVE FilmedAt(q[i], i, With(fs, h, c), gone)
  <2>1. FilmedAt(q[i], i, fs, lost)
    BY DEF Shown
  <2>2. q[i].video # h \/ h \in gone \/ (StartsWith(c, fs[h]) /\ h \notin lost)
    OBVIOUS
  <2>3. PICK r : r = q[i]
    OBVIOUS
  <2> QED  BY <2>1, <2>2, <2>3, FilmedWritten
<1> QED  BY <1>1 DEF Shown

\* The record added names no earlier file.
LEMMA VideosAppend ==
  ASSUME NEW q \in Seq(Record), VideosAscend(q), NEW r \in Record, NoVideoAfter(q, r.video)
  PROVE  VideosAscend(Append(q, r))
<1>1. PICK a \in Seq(Record), l \in Nat :
        a = Append(q, r) /\ l = Len(q) /\ Len(a) = l + 1 /\ a[l + 1] = r /\ Same(a, q, l)
  <2>1. PICK l \in Nat : l = Len(q)
    BY LenProperties
  <2> QED  BY <2>1, AppendIs
<1>2. \A i \in 1..l : a[i] = q[i]
  BY <1>1 DEF Same
<1>3. ASSUME NEW i \in 1..(l + 1), NEW j \in 1..(l + 1), i <= j
      PROVE  AtMost(a[i].video, a[j].video)
  <2>1. CASE i = l + 1
    <3>1. i = j
      BY <1>3, <2>1
    <3> QED  BY <3>1 DEF AtMost
  <2>2. CASE i # l + 1 /\ j = l + 1
    <3>1. i \in 1..l
      BY <2>2
    <3>2. AtMost(q[i].video, r.video)
      BY <1>1, <3>1 DEF NoVideoAfter
    <3> QED  BY <1>1, <1>2, <2>2, <3>1, <3>2
  <2>3. CASE i # l + 1 /\ j # l + 1
    <3>1. i \in 1..l /\ j \in 1..l
      BY <2>3
    <3>2. AtMost(q[i].video, q[j].video)
      BY <1>1, <1>3, <3>1 DEF VideosAscend
    <3> QED  BY <1>2, <3>1, <3>2
  <2> QED  BY <2>1, <2>2, <2>3
<1> QED  BY <1>1, <1>3 DEF VideosAscend

\* A file after that of the last record is after that of every record.
LEMMA AfterVideos ==
  ASSUME NEW q \in Seq(Record), VideosAscend(q), q # <<>>, NEW f \in File,
         AtMost(Last(q).video, f)
  PROVE  /\ NoVideoAfter(q, f)
         /\ Before(Last(q).video, f) => \A i \in 1..Len(q) : q[i].video # f
<1>1. PICK l \in Nat : l = Len(q) /\ l \in 1..l
  <2>1. Len(q) \in Nat /\ Len(q) \in 1..Len(q)
    BY EmptySeq
  <2> QED  BY <2>1
<1>2. PICK r \in Record : r = q[l] /\ r = Last(q) /\ r.video \in File
  <2>1. q[l] \in Record /\ q[l] = Last(q)
    BY <1>1, ElementOfSeq DEF Last
  <2> QED  BY <2>1 DEF Record
<1>3. ASSUME NEW i \in 1..l
      PROVE  AtMost(q[i].video, f) /\ (Before(r.video, f) => q[i].video # f)
  <2>1. PICK s \in Record : s = q[i] /\ s.video \in File
    <3>1. q[i] \in Record
      BY <1>1, ElementOfSeq
    <3> QED  BY <3>1 DEF Record
  <2>2. AtMost(q[i].video, q[l].video)
    BY <1>1 DEF VideosAscend
  <2>3. AtMost(s.video, r.video) /\ AtMost(r.video, f)
    BY <1>2, <2>1, <2>2
  <2>4. AtMost(s.video, f)
    BY <1>2, <2>1, <2>3, FileOrder
  <2>5. Before(r.video, f) => Before(s.video, f)
    BY <1>2, <2>1, <2>3, FileOrder
  <2>6. ~Before(f, f)
    BY FileOrder
  <2> QED  BY <2>1, <2>4, <2>5, <2>6
<1> QED  BY <1>1, <1>2, <1>3 DEF NoVideoAfter

\* The videos and the records stay.
LEMMA VideoSame ==
  ASSUME VideoInv, video' = video, torn' = torn, Known' = Known, Counted' = Counted,
         session'.pc # "meta", FirstInv',
         Clean' /\ metaw'.latest # None =>
           Clean /\ session.pc # "meta" /\ metaw'.latest = metaw.latest
  PROVE  VideoInv'
BY DEF VideoInv, FilmedInv

LEMMA FirstSame ==
  ASSUME VideoInv, session.pc # "closed", meta' = meta, metaw' = metaw,
         info'.episodes = info.episodes \/ info'.episodes # 0
  PROVE  FirstInv'
<1>1. All' = All /\ FirstOfSession("video")' = FirstOfSession("video")
  BY DEF All, FirstOfSession
<1> QED  BY <1>1 DEF VideoInv, FirstInv

LEMMA VideoData ==
  ASSUME IInv, OrderInv, VideoInv, NEW length \in Lengths, NEW full \in BOOLEAN,
         SaveEpisodeData(length, full)
  PROVE  VideoInv'
<1>1. /\ session'.pc = "video" /\ past'.failures = past.failures
      /\ past'.crashes = past.crashes /\ past'.clean = past.clean
  BY DataStep
<1>2. /\ session.pc = "idle" /\ video' = video /\ meta' = meta /\ metaw' = metaw
      /\ torn' = torn /\ info' = info
  BY DEF SaveEpisodeData
<1>3. All' = All /\ Clean' = Clean
  BY <1>1, <1>2 DEF All, Clean
<1>4. Known' = Known /\ Counted' = Counted
  BY <1>1, <1>2, <1>3 DEF Known, Counted
<1>5. FirstInv'
  BY <1>2, FirstSame
<1> QED  BY <1>1, <1>2, <1>3, <1>4, <1>5, VideoSame

LEMMA VideoInfo == ASSUME IInv, OrderInv, VideoInv, WriteInfo  PROVE VideoInv'
<1>1. /\ session.pc = "info" /\ session'.pc = "idle"
      /\ video' = video /\ torn' = torn /\ meta' = meta /\ metaw' = metaw
      /\ past'.failures = past.failures /\ past'.crashes = past.crashes
      /\ past'.clean = IF Clean THEN past.clean + 1 ELSE past.clean
      /\ info'.episodes = info.episodes + 1
  BY InfoStep
<1>2. Clean' = Clean
  BY <1>1 DEF Clean
<1>3. All' = All
  BY <1>1 DEF All
<1>4. Known' = Known /\ Counted' = Counted
  BY <1>1, <1>2, <1>3 DEF Known, Counted
<1>5. FirstInv'
  <2>1. info'.episodes # 0
    BY <1>1, KeptTypes
  <2> QED  BY <1>1, <2>1, FirstSame
<1> QED  BY <1>1, <1>2, <1>4, <1>5, VideoSame

\* An attempt fails and leaves the records; a video file may be lost.
LEMMA VideoFailed ==
  ASSUME IInv, OrderInv, VideoInv, session.pc # "closed", session'.pc = "failed",
         past'.failures = past.failures + 1, past'.crashes = past.crashes,
         past'.clean = past.clean, meta' = meta, metaw' = metaw,
         info'.episodes = info.episodes \/ info'.episodes # 0,
         \/ video' = video /\ torn' = torn
         \/ \E h \in File : \E c : /\ Holds(c, Segment) /\ video' = With(video, h, c)
                                   /\ torn' = torn \cup {h}
  PROVE  VideoInv'
<1>1. ~Clean' /\ FirstInv'
  BY NotClean, FirstSame
<1>2. PICK q \in Seq(Record), n, k \in Nat :
        /\ q = All /\ q = Known /\ n = Counted /\ k = past.clean /\ k <= n
        /\ Shown(q, n, video, torn) /\ VideosAscend(q)
  <2>1. PICK q \in Seq(Record) : q = All /\ q = Known
    BY KnownIs
  <2>2. PICK n, k \in Nat : n = Counted /\ k = past.clean /\ k <= n
    BY KeptTypes
  <2> QED  BY <2>1, <2>2 DEF VideoInv
<1>3. Known' = q /\ Counted' = k
  BY <1>1, <1>2 DEF All, Known, Counted
<1>4. Shown(q, k, video, torn)
  <2>1. PICK l \in Nat : l = Len(q) /\ n <= l /\ k <= l
    BY <1>2, LenProperties DEF Shown
  <2>2. Same(q, q, k)
    BY DEF Same
  <2> QED  BY <1>2, <2>1, <2>2, ShownPart
<1>5. Shown(q, k, video', torn')
  <2>1. CASE video' = video /\ torn' = torn
    BY <1>4, <2>1
  <2>2. CASE ~(video' = video /\ torn' = torn)
    <3>1. PICK h, c :
            h \in File /\ Holds(c, Segment) /\ video' = With(video, h, c) /\ torn' = torn \cup {h}
      BY <2>2
    <3>2. FilesOf(video, Segment)
      BY DEF IInv, Types
    <3>3. torn \subseteq torn' \cup {h} /\ h \in torn'
      BY <3>1
    <3>4. Shown(q, k, With(video, h, c), torn')
      BY <1>4, <3>1, <3>2, <3>3, ShownWritten
    <3> QED  BY <3>1, <3>4
  <2> QED  BY <2>1, <2>2
<1> QED  BY <1>1, <1>2, <1>3, <1>5 DEF VideoInv, FilmedInv

LEMMA VideoClear ==
  ASSUME IInv, OrderInv, VideoInv, ClearEpisodeBuffer  PROVE VideoInv'
<1>1. /\ session.pc = "failed" /\ meta' = meta /\ metaw' = metaw /\ video' = video
      /\ session' = [pc |-> "idle", length |-> 0, record |-> None] /\ past' = past
      /\ info' = info /\ torn' = torn
  BY DEF ClearEpisodeBuffer, Closed, storage
<1>2. session'.pc = "idle"
  BY <1>1
<1>3. All' = All /\ Clean' = Clean
  BY <1>1 DEF All, Clean
<1>4. Known' = Known /\ Counted' = Counted
  BY <1>1, <1>2, <1>3 DEF Known, Counted
<1>5. FirstInv'
  BY <1>1, FirstSame
<1> QED  BY <1>1, <1>2, <1>3, <1>4, <1>5, VideoSame

LEMMA VideoFinalize == ASSUME IInv, OrderInv, VideoInv, Finalize  PROVE VideoInv'
<1>1. video' = video /\ torn' = torn /\ session' = Closed /\ metaw' = FreshMeta(<<>>)
  BY DEF Finalize
<1>2. session'.pc = "closed" /\ metaw'.latest = None
  BY <1>1, FreshIs
<1>3. FirstInv'
  BY <1>2 DEF FirstInv
<1> QED  BY <1>1, <1>2, <1>3, FinalizeKnown, VideoSame

\* A session's first video file comes after those of all records.
LEMMA FirstAfter ==
  ASSUME NEW q \in Seq(Record), VideosAscend(q), NEW f,
         f = IF q = <<>> THEN FirstFile ELSE NextFile(Last(q).video)
  PROVE  NoVideoAfter(q, f) /\ \A i \in 1..Len(q) : q[i].video # f
<1>1. CASE q = <<>>
  <2>1. Len(q) = 0
    BY <1>1, EmptySeq
  <2> QED  BY <2>1 DEF NoVideoAfter
<1>2. CASE q # <<>>
  <2>1. PICK r \in Record : r = Last(q) /\ r.video \in File
    <3>1. Len(q) \in Nat /\ Len(q) \in 1..Len(q)
      BY <1>2, EmptySeq
    <3>2. Last(q) \in Record
      BY <3>1, ElementOfSeq DEF Last
    <3> QED  BY <3>2 DEF Record
  <2>2. f \in File /\ Before(r.video, f)
    BY <1>2, <2>1, NextIsFile, NextIsAfter
  <2>3. AtMost(Last(q).video, f) /\ Before(Last(q).video, f)
    BY <2>1, <2>2 DEF AtMost
  <2> QED  BY <1>2, <2>2, <2>3, AfterVideos
<1> QED  BY <1>1, <1>2

LEMMA VideoResume == ASSUME IInv, OrderInv, VideoInv, Resume  PROVE VideoInv'
<1>1. video' = video /\ torn' = torn /\ metaw' = FreshMeta(Contents(meta)) /\ meta' = meta
  BY DEF Resume, storage
<1>2. PICK q \in Seq(Record) : q = Known /\ VideosAscend(q)
  BY KnownIs DEF VideoInv
<1>3. All' = q /\ metaw'.episodes = q
  <2>1. PICK p \in Seq(Record) : p = Contents(meta)
    BY AllType
  <2>2. metaw' = [episodes |-> p, latest |-> None, buffer |-> <<>>, open |-> None]
    BY <1>1, <2>1 DEF FreshMeta
  <2>3. metaw'.buffer = <<>> /\ metaw'.episodes = p
    BY <2>2
  <2>4. All' = p \o <<>>
    BY <1>1, <2>1, <2>3 DEF All
  <2>5. p \o <<>> = p
    BY ConcatEmptySeq
  <2> QED  BY <1>2, <2>3, <2>4, <2>5, ResumeKnown
<1>4. NoVideoAfter(All', FirstOfSession("video")')
  <2>1. PICK f : f = FirstOfSession("video")'
    OBVIOUS
  <2>2. f = IF q = <<>> THEN FirstFile ELSE NextFile(Last(q).video)
    BY <1>3, <2>1 DEF FirstOfSession
  <2>3. NoVideoAfter(q, f)
    BY <1>2, <2>2, FirstAfter
  <2> QED  BY <1>3, <2>1, <2>3
<1>5. FirstInv'
  BY <1>4 DEF FirstInv
<1> QED  BY <1>1, <1>5, ResumeKnown, VideoSame

LEMMA VideoCrash == ASSUME IInv, OrderInv, KeptInv, VideoInv, Crash  PROVE VideoInv'
<1>1. video' = video /\ torn' = torn /\ session' = Closed
  BY DEF Crash
<1>2. session'.pc = "closed"
  BY <1>1, FreshIs
<1>3. PICK q \in Seq(Record), n, k \in Nat :
        /\ q = All /\ q = Known /\ n = Counted /\ k = past.kept /\ k <= n
        /\ Shown(q, n, video, torn) /\ VideosAscend(q)
  <2>1. PICK q \in Seq(Record) : q = All /\ q = Known
    BY CrashKnown, KnownIs
  <2>2. PICK n, k \in Nat : n = Counted /\ k = past.kept /\ k <= n
    BY KeptTypes
  <2> QED  BY <2>1, <2>2 DEF VideoInv
<1>4. PICK p \in Seq(Record) :
        Known' = p /\ Counted' = k /\ k <= Len(p) /\ StartsWith(q, p) /\ ~Clean'
  BY <1>3, CrashKnown
<1>5. PICK l, m \in Nat : l = Len(p) /\ m = Len(q) /\ l <= m /\ \A i \in 1..l : q[i] = p[i]
  BY <1>4, LenProperties DEF StartsWith
<1>6. Shown(p, k, video, torn)
  <2>1. Same(p, q, k)
    BY <1>4, <1>5 DEF Same
  <2> QED  BY <1>3, <1>4, <2>1, ShownPart
<1>7. VideosAscend(p)
  <2>1. ASSUME NEW i \in 1..l, NEW j \in 1..l, i <= j  PROVE AtMost(p[i].video, p[j].video)
    <3>1. i \in 1..m /\ j \in 1..m
      BY <1>5
    <3>2. AtMost(q[i].video, q[j].video)
      BY <1>3, <1>5, <2>1, <3>1 DEF VideosAscend
    <3> QED  BY <1>5, <3>2
  <2> QED  BY <1>5, <2>1 DEF VideosAscend
<1> QED  BY <1>1, <1>2, <1>4, <1>6, <1>7 DEF VideoInv, FirstInv, FilmedInv

\* The video is moved to a file after all others, or put at the end of the last.
LEMMA VideoMoved ==
  ASSUME IInv, OrderInv, VideoInv, NEW full \in BOOLEAN, SaveEpisodeVideo(full)
  PROVE  VideoInv'
<1>1. PICK first, file, from, segment :
        /\ first \in BOOLEAN /\ first = (session.record.episode = 0 \/ metaw.latest = None)
        /\ file = IF first THEN FirstOfSession("video")
                  ELSE IF full THEN NextFile(metaw.latest.video) ELSE metaw.latest.video
        /\ from = VideoStart(first, full) /\ first = FirstVideo /\ file = VideoFile(full)
        /\ segment = [episode |-> session.record.episode, length |-> session.length]
  BY DEF FirstVideo, VideoFile
<1>2. PICK content : content = IF full THEN <<segment>> ELSE Append(video[file], segment)
  OBVIOUS
<1>3. PICK record : record = [episode |-> session.record.episode, data |-> session.record.data,
                              video |-> file, videoFrom |-> from,
                              videoTo |-> from + session.length]
  OBVIOUS
<1>4. /\ session.pc = "video" /\ (first => full) /\ (full \/ file \notin torn)
      /\ video' = With(video, file, content) /\ torn' = torn \ {file}
      /\ session' = [session EXCEPT !.pc = "meta", !.record = record]
      /\ info' = info /\ meta' = meta /\ metaw' = metaw /\ past' = past
  <2>1. /\ MovesVideo(full) /\ torn' = torn \ {file}
        /\ video' = With(video, file, content)
        /\ session' = [session EXCEPT !.pc = "meta", !.record = record]
        /\ info' = info /\ meta' = meta /\ metaw' = metaw /\ past' = past
    BY ZenonT(60), <1>1, <1>2, <1>3 DEF SaveEpisodeVideo
  <2>2. session.pc = "video" /\ (first => full) /\ (full \/ file \notin torn)
    BY <1>1, <2>1 DEF MovesVideo
  <2> QED  BY <2>1, <2>2
<1>5. session'.pc = "meta" /\ session'.record = record
  BY <1>4, KeptTypes DEF SessionType
<1>6. FoundInv /\ FilesOf(video, Segment)
  BY <1>4 DEF OrderInv, IInv, Types
<1>7. PICK q \in Seq(Record), n, e, l \in Nat :
        /\ q = All /\ q = Known /\ n = Counted /\ Shown(q, n, video, torn) /\ VideosAscend(q)
        /\ e = info.episodes /\ e = session.record.episode /\ l = session.length
        /\ n <= e /\ (e = 0 => NoVideoAfter(q, FirstOfSession("video")))
  <2>1. PICK q \in Seq(Record) : q = All /\ q = Known
    BY <1>4, KnownIs
  <2>2. PICK n, e, l \in Nat : n = Counted /\ e = info.episodes /\ l = session.length
    BY KeptTypes
  <2>3. e = session.record.episode
    BY <1>4, <1>6, <2>2 DEF FoundInv
  <2>4. n <= e
    BY <1>4, <2>2 DEF IInv, CountsInv, Counted
  <2>5. e = 0 => NoVideoAfter(q, FirstOfSession("video"))
    BY <1>4, <2>1, <2>2 DEF VideoInv, FirstInv
  <2> QED  BY <2>1, <2>2, <2>3, <2>4, <2>5 DEF VideoInv
<1>8. first /\ e # 0 => q = metaw.episodes
  BY <1>1, <1>6, <1>7 DEF FoundInv
<1>9. ~first =>
        /\ metaw.latest # None /\ metaw.latest \in Record /\ q # <<>> /\ Last(q) = metaw.latest
        /\ metaw.latest.video \in File /\ metaw.latest.video \in DOMAIN video
  <2>1. ASSUME ~first  PROVE metaw.latest \in Record /\ metaw.latest # None
    BY <1>1, <2>1 DEF IInv, Types, MetaType
  <2>2. ASSUME ~first
        PROVE  /\ q # <<>> /\ Last(q) = metaw.latest
               /\ metaw.latest.video \in File /\ metaw.latest.video \in DOMAIN video
    BY <1>6, <1>7, <2>1, <2>2 DEF FoundInv, Record, IInv, EpisodeInv
  <2> QED  BY <2>1, <2>2
<1>10. file \in File
  <2>1. FirstOfSession("video") \in File
    BY FirstIsFile DEF IInv
  <2>2. CASE first
    BY <1>1, <2>1, <2>2
  <2>3. CASE ~first
    BY <1>1, <1>9, <2>3, NextIsFile
  <2> QED  BY <2>2, <2>3
<1>11. segment \in Segment /\ segment.episode = e /\ segment.length = l
  BY <1>1, <1>7 DEF Segment
<1>12. full => Holds(content, Segment) /\ content = <<segment>>
  <2>1. <<segment>> \in Seq(Segment)
    BY <1>11
  <2> QED  BY <1>2, <2>1 DEF Holds
<1>13. ~full => \E p \in Seq(Segment) :
                  p = video[file] /\ content = Append(p, segment) /\ file = metaw.latest.video
  <2>1. ASSUME ~full  PROVE file = metaw.latest.video /\ video[file] \in Seq(Segment)
    BY <1>1, <1>4, <1>6, <1>9, <2>1 DEF FilesOf
  <2> QED  BY <1>2, <2>1
<1>14. Holds(content, Segment) /\ (~full => StartsWith(content, video[file]))
  <2>1. CASE full
    BY <1>12, <2>1
  <2>2. CASE ~full
    <3>1. PICK p \in Seq(Segment) : p = video[file] /\ content = Append(p, segment)
      BY <1>13, <2>2
    <3>2. Append(p, segment) \in Seq(Segment)
      BY <1>11, AppendIs
    <3>3. StartsWith(Append(p, segment), p)
      BY <1>11, AppendStarts
    <3> QED  BY <2>2, <3>1, <3>2, <3>3 DEF Holds
  <2> QED  BY <2>1, <2>2
<1>15. \A i \in 1..n : i \in 1..Len(q)
  <2>1. n <= Len(q) /\ Len(q) \in Nat
    BY <1>7 DEF Shown
  <2> QED  BY <2>1
<1>16. NoVideoAfter(q, file) /\ (full => \A i \in 1..n : q[i].video # file)
  <2>1. CASE first /\ e = 0
    <3>1. n = 0 /\ NoVideoAfter(q, file)
      BY <1>1, <1>7, <2>1
    <3> QED  BY <3>1
  <2>2. CASE first /\ e # 0
    <3>1. file = IF q = <<>> THEN FirstFile ELSE NextFile(Last(q).video)
      BY <1>1, <1>8, <2>2 DEF FirstOfSession
    <3>2. NoVideoAfter(q, file) /\ \A i \in 1..Len(q) : q[i].video # file
      BY <1>7, <3>1, FirstAfter
    <3> QED  BY <1>15, <3>2
  <2>3. CASE ~first
    <3>1. PICK r \in Record :
            r = Last(q) /\ r.video \in File /\ q # <<>>
            /\ file = IF full THEN NextFile(r.video) ELSE r.video
      BY <1>1, <1>9, <2>3
    <3>2. Before(r.video, NextFile(r.video))
      BY <3>1, NextIsAfter
    <3>3. AtMost(Last(q).video, file) /\ (full => Before(Last(q).video, file))
      BY <3>1, <3>2 DEF AtMost
    <3>4. NoVideoAfter(q, file) /\ (full => \A i \in 1..Len(q) : q[i].video # file)
      BY <1>7, <1>10, <3>1, <3>3, AfterVideos
    <3> QED  BY <1>15, <3>4
  <2> QED  BY <2>1, <2>2, <2>3
<1>17. Shown(q, n, video', torn')
  <2>1. \/ \A i \in 1..n : q[i].video # file
        \/ StartsWith(content, video[file]) /\ file \notin torn
    BY <1>4, <1>14, <1>16
  <2>2. torn \subseteq torn' \cup {file}
    BY <1>4
  <2>3. Shown(q, n, With(video, file, content), torn')
    BY <1>6, <1>7, <1>10, <1>14, <2>1, <2>2, ShownWritten
  <2> QED  BY <1>4, <2>3
<1>18. /\ All' = q /\ Known' = q /\ Counted' = n /\ Clean' = Clean
       /\ FirstOfSession("video")' = FirstOfSession("video")
  BY <1>4, <1>5, <1>7 DEF All, Known, Counted, Clean, FirstOfSession
<1>19. record.video = file /\ record.videoFrom = from /\ record.videoTo = from + l
  BY <1>3, <1>7
<1>20. video'[file] = content
  <2>1. Written(With(video, file, content), video, file, content)
    BY <1>6, <1>10, <1>14, WithFile
  <2> QED  BY <1>4, <2>1 DEF Written
<1>21. ASSUME Clean  PROVE SegmentIs(content, Len(content), e, from, from + l)
  <2>1. CASE full
    <3>1. from = 0 /\ 0 + l = l
      BY <1>1, <1>7, <2>1 DEF VideoStart
    <3>2. Len(<<segment>>) = 1
      OBVIOUS
    <3>3. SegmentIs(<<segment>>, 1, e, 0, l)
      BY <1>11, SegmentAlone
    <3> QED  BY <1>12, <2>1, <3>1, <3>2, <3>3
  <2>2. CASE ~full
    <3>1. ~first /\ from = metaw.latest.videoTo
      BY <1>1, <1>4, <2>2 DEF VideoStart
    <3>2. PICK p \in Seq(Segment) :
            p = video[file] /\ content = Append(p, segment) /\ file = metaw.latest.video
      BY <1>13, <2>2
    <3>3. EndTimes(p)[Len(p)] = from
      BY <1>4, <1>9, <1>21, <3>1, <3>2 DEF VideoInv, EndsThere
    <3>4. SegmentIs(Append(p, segment), Len(p) + 1, segment.episode, EndTimes(p)[Len(p)],
                    EndTimes(p)[Len(p)] + segment.length)
      BY <1>11, SegmentAdded
    <3>5. Len(Append(p, segment)) = Len(p) + 1
      BY <1>11, AppendIs
    <3> QED  BY <1>11, <3>2, <3>3, <3>4, <3>5
  <2> QED  BY <2>1, <2>2
<1>22. NoVideoAfter(All', session'.record.video)
  BY <1>5, <1>16, <1>18, <1>19
<1>23. Clean' => SegmentIs(video'[session'.record.video], Len(video'[session'.record.video]),
                   info'.episodes, session'.record.videoFrom, session'.record.videoTo)
  BY <1>4, <1>5, <1>7, <1>18, <1>19, <1>20, <1>21
<1>24. info'.episodes = 0 => session'.record.video = FirstOfSession("video")'
  BY <1>1, <1>4, <1>5, <1>7, <1>18, <1>19
<1>25. FirstInv' /\ FilmedInv'
  BY <1>4, <1>7, <1>18, <1>22, <1>23, <1>24 DEF FirstInv, FilmedInv
<1> QED  BY <1>5, <1>7, <1>17, <1>18, <1>25 DEF VideoInv

LEMMA VideoMeta ==
  ASSUME IInv, OrderInv, KeptInv, VideoInv, NEW failed \in BOOLEAN, RecordStep(failed)
  PROVE  VideoInv'
<1>1. /\ session.pc = "meta" /\ Noted(failed) /\ info' = info /\ video' = video /\ torn' = torn
      /\ FirstOfSession("video")' = FirstOfSession("video")
  <2>1. PICK file, record, m0, b0, o0, m1, b1, o1 :
          /\ RecordFor(record, file) /\ Turned(file, m0, b0, o0)
          /\ Stored(Append(b0, record), m0, o0, m1, b1, o1, failed)
          /\ session.pc = "meta" /\ Noted(failed)
          /\ meta' = m1
          /\ metaw' = [metaw EXCEPT !.latest = record, !.open = o1, !.buffer = b1]
          /\ broken' \subseteq broken
          /\ info' = info /\ disk' = disk /\ data' = data /\ video' = video /\ torn' = torn
          /\ writer' = writer
    BY MetaParts
  <2>2. metaw'.episodes = metaw.episodes
    <3>1. metaw \in MetaType
      BY DEF IInv, Types
    <3> QED  BY <2>1, <3>1 DEF MetaType
  <2>3. FirstOfSession("video")' = FirstOfSession("video")
    BY <2>2 DEF FirstOfSession
  <2> QED  BY <2>1, <2>3
<1>2. PICK pc \in {"info", "failed"} :
        /\ session'.pc = pc /\ (Clean' <=> Clean /\ pc = "info") /\ past'.clean = past.clean
  <2>1. CASE failed
    <3>1. past'.failures = past.failures + 1 /\ past'.crashes = past.crashes
      BY <1>1, <2>1 DEF Noted
    <3>2. ~Clean'
      BY <3>1, NotClean
    <3> QED  BY <1>1, <2>1, <3>2 DEF Noted
  <2>2. CASE ~failed
    BY <1>1, <2>2 DEF Noted, Clean
  <2> QED  BY <2>1, <2>2
<1>3. PICK r \in Record : NewRecord(r, EndOf(All)) /\ All' = Append(All, r) /\ metaw'.latest = r
  BY MetaAdds
<1>4. PICK q \in Seq(Record), n \in Nat :
        /\ q = All /\ q = Known /\ n = past.clean /\ n = Counted
        /\ Shown(q, n, video, torn) /\ VideosAscend(q)
  <2>1. PICK q \in Seq(Record) : q = All /\ q = Known
    BY <1>1, KnownIs
  <2>2. PICK n \in Nat : n = past.clean
    BY KeptTypes
  <2>3. Counted = past.clean
    BY <1>1 DEF Counted
  <2> QED  BY <2>1, <2>2, <2>3 DEF VideoInv
<1>5. /\ r.video = session.record.video /\ r.videoFrom = session.record.videoFrom
      /\ r.videoTo = session.record.videoTo
  BY <1>3 DEF NewRecord
<1>6. NoVideoAfter(q, r.video) /\ (info.episodes = 0 => r.video = FirstOfSession("video"))
  BY <1>1, <1>4, <1>5 DEF VideoInv, FilmedInv
<1>7. PICK a \in Seq(Record), l \in Nat :
        /\ a = Append(q, r) /\ a = Known' /\ a = All' /\ l = Len(q) /\ n <= l
        /\ Len(a) = l + 1 /\ a[l + 1] = r /\ Same(a, q, l)
  <2>1. Known' = Append(q, r) /\ All' = Append(q, r)
    BY <1>2, <1>3, <1>4 DEF Known
  <2>2. PICK l \in Nat : l = Len(q) /\ n <= l
    BY <1>4, LenProperties DEF Shown
  <2> QED  BY <2>1, <2>2, AppendIs
<1>8. VideosAscend(a)
  BY <1>4, <1>6, <1>7, VideosAppend
<1>9. Shown(a, n, video, torn)
  <2>1. Same(a, q, n) /\ n <= Len(a)
    BY <1>7 DEF Same
  <2> QED  BY <1>4, <2>1, ShownPart
<1>10. FirstInv' /\ FilmedInv'
  <2>1. ASSUME info.episodes = 0  PROVE NoVideoAfter(a, FirstOfSession("video"))
    <3>1. r.video = FirstOfSession("video") /\ NoVideoAfter(q, r.video)
      BY <1>6, <2>1
    <3>2. ASSUME NEW i \in 1..(l + 1)  PROVE AtMost(a[i].video, r.video)
      <4>1. CASE i = l + 1
        BY <1>7, <4>1 DEF AtMost
      <4>2. CASE i # l + 1
        <5>1. i \in 1..l
          BY <4>2
        <5>2. a[i] = q[i]
          BY <1>7, <5>1 DEF Same
        <5> QED  BY <1>7, <3>1, <5>1, <5>2 DEF NoVideoAfter
      <4> QED  BY <4>1, <4>2
    <3> QED  BY <1>7, <3>1, <3>2 DEF NoVideoAfter
  <2>2. FirstInv'
    BY <1>1, <1>7, <2>1 DEF FirstInv
  <2>3. FilmedInv'
    BY <1>2 DEF FilmedInv
  <2> QED  BY <2>2, <2>3
<1>11. CASE ~Clean'
  <2>1. Counted' = n
    BY <1>2, <1>4, <1>11 DEF Counted
  <2> QED  BY <1>1, <1>7, <1>8, <1>9, <1>10, <1>11, <2>1 DEF VideoInv
<1>12. CASE Clean'
  <2>1. info.episodes = n /\ l = n /\ Clean
    BY <1>2, <1>4, <1>7, <1>12 DEF KeptInv, CleanInv
  <2>2. PICK s \in Seq(Segment) : s = video[r.video] /\ r.video \in DOMAIN video
    BY <1>1, <1>5 DEF IInv, Types, EpisodeInv, FilesOf
  <2>3. SegmentIs(s, Len(s), n, r.videoFrom, r.videoTo)
    BY <1>1, <1>5, <2>1, <2>2 DEF VideoInv, FilmedInv
  <2>4. FilmedAt(r, n + 1, video, torn)
    <3>1. (n + 1) - 1 = n /\ Len(s) \in 1..Len(s)
      BY <2>3 DEF SegmentIs
    <3> QED  BY <2>2, <2>3, <3>1 DEF FilmedAt
  <2>5. EndsThere(video, r)
    BY <2>2, <2>3 DEF EndsThere, SegmentIs
  <2>6. Shown(a, n + 1, video, torn)
    <3>1. ASSUME NEW i \in 1..(n + 1)  PROVE FilmedAt(a[i], i, video, torn)
      <4>1. CASE i = n + 1
        BY <1>7, <2>1, <2>4, <4>1
      <4>2. CASE i # n + 1
        <5>1. i \in 1..n
          BY <4>2
        <5> QED  BY <1>9, <5>1 DEF Shown
      <4> QED  BY <4>1, <4>2
    <3> QED  BY <1>7, <2>1, <3>1 DEF Shown
  <2>7. Counted' = n + 1
    BY <1>2, <1>4, <1>12 DEF Counted
  <2> QED  BY <1>1, <1>3, <1>7, <1>8, <1>10, <2>5, <2>6, <2>7 DEF VideoInv
<1> QED  BY <1>11, <1>12

LEMMA VideoInit == Init => VideoInv
<1> SUFFICES ASSUME Init  PROVE VideoInv
  OBVIOUS
<1>1. PICK empty \in Seq(Record) : empty = <<>> /\ Len(empty) = 0
  BY EmptySeq
<1>2. metaw = [episodes |-> empty, latest |-> None, buffer |-> empty, open |-> None]
  BY <1>1 DEF Init, FreshMeta
<1>3. metaw.latest = None /\ metaw.buffer = empty
  BY <1>2
<1>4. PICK no, none : no = FALSE /\ none = {}
  OBVIOUS
<1>5. /\ past = [sessions |-> 1, failures |-> 0, crashes |-> 0, clean |-> 0, kept |-> 0,
                 reopened |-> no, uncounted |-> none]
      /\ session = [pc |-> "idle", length |-> 0, record |-> None]
  BY <1>4 DEF Init, Closed
<1>6. past.clean = 0 /\ session.pc = "idle"
  BY <1>5
<1>7. Contents(meta) = empty
  BY <1>1, NoContents DEF Init
<1>8. empty \o <<>> = empty
  BY ConcatEmptySeq
<1>9. All = empty /\ Known = empty /\ Counted = 0
  BY <1>1, <1>3, <1>6, <1>7, <1>8 DEF All, Known, Counted
<1>10. Shown(empty, 0, video, torn) /\ VideosAscend(empty)
  BY <1>1 DEF Shown, VideosAscend
<1>11. FirstInv /\ FilmedInv
  BY <1>1, <1>6, <1>9 DEF FirstInv, FilmedInv, NoVideoAfter
<1> QED  BY <1>3, <1>6, <1>9, <1>10, <1>11 DEF VideoInv

LEMMA VideoEachStep == IInv /\ OrderInv /\ KeptInv /\ VideoInv /\ [Next]_vars => VideoInv'
<1> SUFFICES ASSUME IInv, OrderInv, KeptInv, VideoInv, [Next]_vars  PROVE VideoInv'
  OBVIOUS
<1>1. ASSUME NEW length \in Lengths, NEW full \in BOOLEAN, SaveEpisodeData(length, full)
      PROVE  VideoInv'
  BY <1>1, VideoData
<1>2. ASSUME NEW full \in BOOLEAN, SaveEpisodeVideo(full)  PROVE VideoInv'
  BY <1>2, VideoMoved
<1>3. ASSUME NEW failed \in BOOLEAN, RecordStep(failed)  PROVE VideoInv'
  BY <1>3, VideoMeta
<1>4. CASE WriteInfo
  BY <1>4, VideoInfo
<1>5. ASSUME NEW full \in BOOLEAN, NEW opened \in BOOLEAN, SaveEpisodeDataFails(full, opened)
      PROVE  VideoInv'
  <2>1. /\ session.pc # "closed" /\ session'.pc = "failed"
        /\ past'.failures = past.failures + 1 /\ past'.crashes = past.crashes
        /\ past'.clean = past.clean /\ meta' = meta /\ metaw' = metaw /\ info' = info
        /\ video' = video /\ torn' = torn
    BY <1>5, DataFails
  <2> QED  BY <2>1, VideoFailed
<1>6. ASSUME NEW full \in BOOLEAN, SaveEpisodeVideoFails(full)  PROVE VideoInv'
  <2>1. /\ session.pc # "closed" /\ session'.pc = "failed"
        /\ past'.failures = past.failures + 1 /\ past'.crashes = past.crashes
        /\ past'.clean = past.clean /\ meta' = meta /\ metaw' = metaw /\ info' = info
        /\ video' = With(video, VideoFile(full), <<>>) /\ torn' = torn \cup {VideoFile(full)}
        /\ session.pc = "video"
    BY <1>6, VideoFails
  <2>2. VideoFile(full) \in File
    BY <1>6, <2>1, VideoFileIs DEF SaveEpisodeVideoFails
  <2>3. PICK empty \in Seq(Segment) : empty = <<>>
    BY EmptySeq
  <2>4. Holds(empty, Segment)
    BY <2>3 DEF Holds
  <2> QED  BY <2>1, <2>2, <2>3, <2>4, VideoFailed
<1>7. CASE WriteInfoFails
  <2>1. /\ session.pc # "closed" /\ session'.pc = "failed"
        /\ past'.failures = past.failures + 1 /\ past'.crashes = past.crashes
        /\ past'.clean = past.clean /\ meta' = meta /\ metaw' = metaw
        /\ info'.episodes = info.episodes + 1
        /\ video' = video /\ torn' = torn
    BY <1>7, InfoFails
  <2>2. info'.episodes # 0
    BY <2>1, KeptTypes
  <2> QED  BY <2>1, <2>2, VideoFailed
<1>8. CASE SaveEpisodeFails
  <2>1. /\ session.pc # "closed" /\ session'.pc = "failed"
        /\ past'.failures = past.failures + 1 /\ past'.crashes = past.crashes
        /\ past'.clean = past.clean /\ meta' = meta /\ metaw' = metaw /\ info' = info
        /\ video' = video /\ torn' = torn
    BY <1>8, FailStep
  <2> QED  BY <2>1, VideoFailed
<1>9. CASE ClearEpisodeBuffer
  BY <1>9, VideoClear
<1>10. CASE Finalize
  BY <1>10, VideoFinalize
<1>11. CASE Crash
  BY <1>11, VideoCrash
<1>12. CASE Resume
  BY <1>12, VideoResume
<1>13. CASE UNCHANGED vars
  <2>1. /\ info' = info /\ video' = video /\ torn' = torn /\ meta' = meta /\ broken' = broken
        /\ session' = session /\ metaw' = metaw /\ past' = past
    BY <1>13 DEF vars, storage
  <2>2. /\ All' = All /\ Known' = Known /\ Counted' = Counted /\ Clean' = Clean
        /\ FirstOfSession("video")' = FirstOfSession("video")
    BY <2>1 DEF All, Records, Known, Counted, Clean, FirstOfSession
  <2>3. FirstInv' = FirstInv /\ FilmedInv' = FilmedInv
    BY <2>1, <2>2 DEF FirstInv, FilmedInv
  <2> QED  BY <2>1, <2>2, <2>3 DEF VideoInv
<1>14. CASE SaveEpisode
  BY <1>1, <1>2, <1>3, <1>4, <1>14, Recorded DEF SaveEpisode
<1>15. CASE Fails
  BY <1>3, <1>5, <1>6, <1>7, <1>8, <1>15, RecordFails DEF Fails
<1> QED
  BY <1>9, <1>10, <1>11, <1>12, <1>13, <1>14, <1>15 DEF Next

\* The videos of the clean episodes stay where their records say they are.
THEOREM VideoInvariant == Spec => []VideoInv
<1>1. Init => VideoInv
  BY VideoInit
<1>2. IInv /\ OrderInv /\ KeptInv /\ VideoInv /\ [Next]_vars => VideoInv'
  BY VideoEachStep
<1> QED  BY <1>1, <1>2, StorageInvariant, OrderInvariant, KeptInvariant, PTL DEF Spec

\* The video of a clean episode is in the file its record names, between its two
\* timestamps, whatever is concatenated, fails or crashes later, unless a move
\* over that very file has failed.
THEOREM SavedVideoIsKept == Spec => []SavedVideoKept
<1>1. IInv /\ OrderInv /\ VideoInv => SavedVideoKept
  <2> SUFFICES ASSUME IInv, OrderInv, VideoInv  PROVE SavedVideoKept
    OBVIOUS
  <2>1. PICK q \in Seq(Record), n, k \in Nat :
          q = Records /\ n = past.clean /\ k = Counted /\ n <= k /\ Shown(q, k, video, torn)
    <3>1. PICK q \in Seq(Record) : q = Known /\ q = Records
      BY KnownIs
    <3>2. PICK n, k \in Nat : n = past.clean /\ k = Counted /\ n <= k
      BY KeptTypes
    <3> QED  BY <3>1, <3>2 DEF VideoInv
  <2>2. ASSUME NEW i \in 1..n  PROVE FilmedAt(q[i], i, video, torn)
    <3>1. i \in 1..k
      BY <2>1
    <3> QED  BY <2>1, <3>1 DEF Shown
  <2> QED  BY <2>1, <2>2 DEF SavedVideoKept, FilmedAt, SegmentIs
<1> QED  BY <1>1, StorageInvariant, OrderInvariant, VideoInvariant, PTL
====
