--------------------------- MODULE DatasetStorage ---------------------------
(***************************************************************************)
(* A LeRobotDataset on disk and the writing sessions that create and       *)
(* resume it: the rows of an episode go to a data file, its video to a     *)
(* video file, its record to a buffer and from there to a metadata file,   *)
(* its count to info.json.  Files of each kind are filled one after the    *)
(* other.  A parquet file can be read only after its writer is closed.     *)
(* Every write may fail, also halfway.                                     *)
(*                                                                         *)
(* A file is its chunk and file index.  The rows of an episode are one     *)
(* block, its video one segment.  Whether a file is full (its size in MB)  *)
(* is chosen freely.  There is one video key, encoded with its episode.    *)
(***************************************************************************)
EXTENDS Integers, Sequences, SequencesExt, FiniteSets

CONSTANTS
  Lengths,      \* the possible lengths of an episode, in frames
  BufferSize,   \* metadata_buffer_size
  ChunksSize,   \* chunks_size: files per chunk
  MaxEpisodes, MaxSessions, MaxFailures, MaxCrashes, \* bounds for TLC
  None

\* A file: its chunk and its index in it.
File == Nat \X (0..(ChunksSize - 1))

\* What an episode's record says, in the order in which it gets to know it.
Saved == [episode : Nat, data : File]
Filmed == [episode : Nat, data : File, video : File, videoFrom : Nat, videoTo : Nat]
Record == [episode : Nat, data : File, video : File, videoFrom : Nat, videoTo : Nat,
           file : File, from : Nat, to : Nat]

ASSUME StorageAssumption ==
  /\ Lengths \subseteq Nat \ {0}
  /\ BufferSize \in Nat \ {0} /\ ChunksSize \in Nat \ {0}
  /\ {MaxEpisodes, MaxSessions, MaxFailures, MaxCrashes} \subseteq Nat
  /\ None \notin File \cup Record

VARIABLES
  info,     \* what the process counts: [episodes, frames]
  disk,     \* info.json; None when it cannot be read
  data,     \* the data files: a function from files to sequences of blocks
  video,    \* the video files: segments
  meta,     \* the metadata files: records
  broken,   \* files a crash left without their footer, each <<kind, file>>
  torn,     \* the video files left incomplete by a move that failed
  session,  \* the process: its place in save_episode, and the episode's record
  writer,   \* DatasetWriter: [latest, open]
  metaw,    \* LeRobotDatasetMetadata: [episodes, latest, buffer, open]
  past      \* what an observer has seen

storage == <<data, video, meta, broken, torn>>
vars == <<info, disk, storage, session, writer, metaw, past>>

Closed == [pc |-> "closed", length |-> 0, record |-> None]
FreshWriter == [latest |-> None, open |-> None]
FreshMeta(episodes) ==
  [episodes |-> episodes, latest |-> None, buffer |-> <<>>, open |-> None]

\* LeRobotDataset.create
Init ==
  /\ info = [episodes |-> 0, frames |-> 0] /\ disk = info
  /\ data = <<>> /\ video = <<>> /\ meta = <<>> /\ broken = {} /\ torn = {}
  /\ session = [Closed EXCEPT !.pc = "idle"]
  /\ writer = FreshWriter
  /\ metaw = FreshMeta(<<>>)
  /\ past = [sessions |-> 1, failures |-> 0, crashes |-> 0, clean |-> 0, kept |-> 0,
              reopened |-> FALSE, uncounted |-> {}]

-----------------------------------------------------------------------------
(* Files.                                                                  *)

\* Mutant: a chunk gets one file too many.
NextFileLate(f) ==
  IF f[2] = ChunksSize THEN <<f[1] + 1, 0>> ELSE <<f[1], f[2] + 1>>

\* update_chunk_file_indices
NextFile(f) ==
  IF f[2] = ChunksSize - 1 THEN <<f[1] + 1, 0>> ELSE <<f[1], f[2] + 1>>

FirstFile == <<0, 0>>

\* The files that are written, one of them changed or new.
With(fs, f, content) ==
  [g \in DOMAIN fs \cup {f} |-> IF g = f THEN content ELSE fs[g]]

\* load_nested_dataset: the content of the files in the order of their paths.
Before(f, g) == f[1] < g[1] \/ (f[1] = g[1] /\ f[2] < g[2])
Nth(fs, i) ==
  CHOOSE f \in DOMAIN fs : Cardinality({g \in DOMAIN fs : Before(g, f)}) = i - 1
Contents(fs) == FlattenSeq([i \in 1..Cardinality(DOMAIN fs) |-> fs[Nth(fs, i)]])

\* Mutant: a resumed session goes on with the file of the latest episode.
FileOfLatest(field) ==
  IF metaw.episodes = <<>> THEN FirstFile ELSE Last(metaw.episodes)[field]

\* The first file of a session: a resumed one does not touch the files it has
\* found.
FirstOfSession(field) ==
  IF metaw.episodes = <<>> THEN FirstFile ELSE NextFile(Last(metaw.episodes)[field])

-----------------------------------------------------------------------------
(* save_episode, step by step.                                             *)

\* The file an episode's rows are to go to, and the writer for them: when the
\* latest file is full it is closed.
DataFile(full) ==
  IF writer.latest = None THEN FirstOfSession("data")
  ELSE IF full THEN NextFile(writer.latest) ELSE writer.latest
OpenData(full) == IF writer.latest # None /\ full THEN None ELSE writer.open

\* Without a writer the file is opened anew, and loses the rows it has.
Reopens(full) == writer.latest # None /\ ~full /\ writer.open = None

\* _save_episode_data.  A writer that an attempt has left open is used, whatever
\* file it is for.
SaveEpisodeData(length, full) ==
  LET file  == DataFile(full)
      open  == OpenData(full)
      block == [episode |-> info.episodes, first |-> info.frames, length |-> length]
  IN  /\ session.pc = "idle" /\ info.episodes < MaxEpisodes
      /\ writer.latest = None => full
      /\ data' = IF open = None THEN With(data, file, <<block>>)
                 ELSE With(data, open, Append(data[open], block))
      /\ broken' = IF open = None THEN broken \ {<<"data", file>>} ELSE broken
      /\ writer' = [latest |-> file, open |-> IF open = None THEN file ELSE open]
      /\ session' = [pc |-> "video", length |-> length,
                     record |-> [episode |-> info.episodes, data |-> file]]
      /\ past' = [past EXCEPT !.reopened = past.reopened \/ Reopens(full)]
      /\ UNCHANGED <<info, disk, video, meta, torn, metaw>>

\* Mutant: a new file is filled, but its time still starts after the last one's.
VideoStartsLate(first, full) == IF first THEN 0 ELSE metaw.latest.videoTo

VideoStart(first, full) == IF first \/ full THEN 0 ELSE metaw.latest.videoTo

\* The first video of a session, and the file an episode's video goes to.
FirstVideo == session.record.episode = 0 \/ metaw.latest = None
VideoFile(full) ==
  IF FirstVideo THEN FirstOfSession("video")
  ELSE IF full THEN NextFile(metaw.latest.video) ELSE metaw.latest.video

\* _save_episode_video: the video is moved to a new file, or concatenated with
\* the one there is, which must be readable, and moved over it.
MovesVideo(full) ==
  /\ session.pc = "video"
  /\ FirstVideo => full
  /\ full \/ VideoFile(full) \notin torn

SaveEpisodeVideo(full) ==
  LET first == FirstVideo
      file  == VideoFile(full)
      from  == VideoStart(first, full)
      segment == [episode |-> session.record.episode, length |-> session.length]
  IN  /\ MovesVideo(full)
      /\ torn' = torn \ {file}
      /\ video' = With(video, file, IF full THEN <<segment>> ELSE Append(video[file], segment))
      /\ session' = [session EXCEPT !.pc = "meta",
           !.record = [episode |-> session.record.episode, data |-> session.record.data,
                       video |-> file, videoFrom |-> from,
                       videoTo |-> from + session.length]]
      /\ UNCHANGED <<info, disk, data, meta, broken, writer, metaw, past>>

\* _flush_metadata_buffer: the records go to the open file or, when there is
\* none, to a new one that the first of them names.
Flushed(m, buffer, open) ==
  IF buffer = <<>> THEN [meta |-> m, open |-> open]
  ELSE IF open = None
  THEN [meta |-> With(m, buffer[1].file, buffer), open |-> buffer[1].file]
  ELSE [meta |-> With(m, open, m[open] \o buffer), open |-> open]

\* Mutant: a full file is closed without what is buffered for it.
RollUnflushed == [meta |-> meta, buffer |-> metaw.buffer, open |-> None]

\* A full file gets what is buffered for it and is closed.
Rolled == [meta |-> Flushed(meta, metaw.buffer, metaw.open).meta,
           buffer |-> <<>>, open |-> None]

\* _save_episode_metadata up to its last flush: the record that it makes, and
\* the files, the buffer and the open file then.
Buffered(full) ==
  LET first == metaw.latest = None
      file  == IF first THEN FirstOfSession("file")
               ELSE IF full THEN NextFile(metaw.latest.file) ELSE metaw.latest.file
      from  == IF ~first THEN metaw.latest.to
               ELSE IF metaw.episodes = <<>> THEN 0 ELSE Last(metaw.episodes).to
      saved == session.record
      record == [episode |-> saved.episode, data |-> saved.data, video |-> saved.video,
                 videoFrom |-> saved.videoFrom, videoTo |-> saved.videoTo,
                 file |-> file, from |-> from, to |-> from + session.length]
      before == IF full THEN Rolled
                ELSE [meta |-> meta, buffer |-> metaw.buffer, open |-> metaw.open]
  IN  [record |-> record, meta |-> before.meta,
       buffer |-> Append(before.buffer, record), open |-> before.open]

\* A file can be full only when it exists.
AddsRecord(full) ==
  /\ session.pc = "meta"
  /\ full => metaw.latest # None /\ metaw.latest.file \in DOMAIN meta

SaveEpisodeMetadata(full) ==
  LET b == Buffered(full)
      flushes == Len(b.buffer) >= BufferSize
      after == IF flushes THEN Flushed(b.meta, b.buffer, b.open)
               ELSE [meta |-> b.meta, open |-> b.open]
  IN  /\ AddsRecord(full)
      /\ meta' = after.meta
      /\ metaw' = [metaw EXCEPT !.latest = b.record, !.open = after.open,
                     !.buffer = IF flushes THEN <<>> ELSE b.buffer]
      /\ session' = [session EXCEPT !.pc = "info"]
      /\ broken' = broken \ {<<"meta", f>> : f \in {after.open} \ {metaw.open}}
      /\ UNCHANGED <<info, disk, data, video, torn, writer, past>>

\* Mutant: the frames are counted, the episode is not.
CountFrames == info' = [info EXCEPT !.frames = @ + session.length]

CountEpisode ==
  info' = [episodes |-> info.episodes + 1, frames |-> info.frames + session.length]

\* The rest of meta.save_episode, and clear_episode_buffer.
WriteInfo ==
  /\ session.pc = "info"
  /\ CountEpisode
  /\ disk' = info'
  /\ session' = [Closed EXCEPT !.pc = "idle"]
  /\ past' = IF past.failures + past.crashes = 0
             THEN [past EXCEPT !.clean = @ + 1] ELSE past
  /\ UNCHANGED <<storage, writer, metaw>>

SaveEpisode ==
  \/ \E length \in Lengths, full \in BOOLEAN : SaveEpisodeData(length, full)
  \/ \E full \in BOOLEAN : SaveEpisodeVideo(full) \/ SaveEpisodeMetadata(full)
  \/ WriteInfo

-----------------------------------------------------------------------------
(* Failures, the end of a session, the next one.                           *)

\* save_episode raises, with an episode that is saved in part.  The episode
\* buffer is spoilt.
Raises(reopened, uncounted) ==
  /\ past.failures < MaxFailures
  /\ session' = [Closed EXCEPT !.pc = "failed"]
  /\ past' = [past EXCEPT !.failures = @ + 1, !.reopened = reopened,
                          !.uncounted = uncounted]

\* The encoder fails before the video is moved, another camera after it, or the
\* flush of a full metadata file.
SaveEpisodeFails ==
  /\ session.pc \in {"video", "meta"}
  /\ Raises(past.reopened, past.uncounted)
  /\ UNCHANGED <<info, disk, storage, writer, metaw>>

\* _save_episode_data fails after it has closed a full file, or has opened the
\* next one; its latest episode is the one before.
SaveEpisodeDataFails(full, opened) ==
  LET file == DataFile(full)
      open == OpenData(full)
  IN  /\ session.pc = "idle" /\ info.episodes < MaxEpisodes
      /\ Raises(past.reopened \/ (opened /\ Reopens(full)), past.uncounted)
      /\ writer.latest = None => full
      /\ opened => open = None
      /\ data' = IF opened THEN With(data, file, <<>>) ELSE data
      /\ broken' = IF opened THEN broken \ {<<"data", file>>} ELSE broken
      /\ writer' = [writer EXCEPT !.open = IF opened THEN file ELSE open]
      /\ UNCHANGED <<info, disk, video, meta, torn, metaw>>

\* The move of the video fails: across file systems it is a copy, and what the
\* file held is lost.
SaveEpisodeVideoFails(full) ==
  LET file == VideoFile(full)
  IN  /\ MovesVideo(full) /\ Raises(past.reopened, past.uncounted)
      /\ video' = With(video, file, <<>>)
      /\ torn' = torn \cup {file}
      /\ UNCHANGED <<info, disk, data, meta, broken, writer, metaw>>

\* The flush fails after the record is in the buffer, which keeps it.
SaveEpisodeMetadataFails(full, opened) ==
  LET b == Buffered(full)
  IN  /\ AddsRecord(full)
      /\ Raises(past.reopened, past.uncounted \cup {info.episodes})
      /\ Len(b.buffer) >= BufferSize
      /\ opened => b.open = None
      /\ meta' = IF opened THEN With(b.meta, b.buffer[1].file, <<>>) ELSE b.meta
      /\ metaw' = [metaw EXCEPT !.latest = b.record, !.buffer = b.buffer,
                     !.open = IF opened THEN b.buffer[1].file ELSE b.open]
      /\ broken' = IF opened THEN broken \ {<<"meta", b.buffer[1].file>>} ELSE broken
      /\ UNCHANGED <<info, disk, data, video, torn, writer>>

\* write_info fails, before or after it has truncated info.json, or write_stats
\* after it: the process has counted the episode.
WriteInfoFails ==
  /\ session.pc = "info"
  /\ CountEpisode
  /\ \E written \in {disk, None, info'} :
       /\ disk' = written
       /\ Raises(past.reopened,
                 past.uncounted \cup (IF written = info' THEN {} ELSE {info.episodes}))
  /\ UNCHANGED <<storage, writer, metaw>>

Fails ==
  \/ SaveEpisodeFails \/ WriteInfoFails
  \/ \E full \in BOOLEAN :
       \/ SaveEpisodeVideoFails(full)
       \/ \E opened \in BOOLEAN :
            SaveEpisodeDataFails(full, opened) \/ SaveEpisodeMetadataFails(full, opened)

\* clear_episode_buffer, and another attempt.
ClearEpisodeBuffer ==
  /\ session.pc = "failed"
  /\ session' = [Closed EXCEPT !.pc = "idle"]
  /\ UNCHANGED <<info, disk, storage, writer, metaw, past>>

\* finalize, also when an exception leaves the VideoEncodingManager.
Finalize ==
  /\ session.pc \in {"idle", "failed"}
  /\ meta' = Flushed(meta, metaw.buffer, metaw.open).meta
  /\ broken' = IF metaw.open = None /\ metaw.buffer # <<>>
               THEN broken \ {<<"meta", metaw.buffer[1].file>>} ELSE broken
  /\ session' = Closed
  /\ writer' = FreshWriter
  /\ metaw' = FreshMeta(<<>>)
  /\ past' = [past EXCEPT !.kept = past.clean]
  /\ UNCHANGED <<info, disk, data, video, torn>>

\* The process dies.  Only what an earlier session has finalized is sure.
Crash ==
  /\ session.pc # "closed" /\ past.crashes < MaxCrashes
  /\ broken' = broken \cup {<<"data", f>> : f \in {writer.open} \ {None}}
                      \cup {<<"meta", f>> : f \in {metaw.open} \ {None}}
  /\ session' = Closed
  /\ writer' = FreshWriter
  /\ metaw' = FreshMeta(<<>>)
  /\ past' = [past EXCEPT !.crashes = @ + 1, !.clean = past.kept]
  /\ UNCHANGED <<info, disk, data, video, meta, torn>>

\* LeRobotDataset.resume: info.json must be readable, load_episodes needs a
\* metadata file, and every one of them to be readable.
Resume ==
  /\ session.pc = "closed" /\ past.sessions < MaxSessions
  /\ disk # None /\ info' = disk
  /\ DOMAIN meta # {} /\ ~\E f \in DOMAIN meta : <<"meta", f>> \in broken
  /\ session' = [Closed EXCEPT !.pc = "idle"]
  /\ metaw' = FreshMeta(Contents(meta))
  /\ past' = [past EXCEPT !.sessions = @ + 1]
  /\ UNCHANGED <<disk, storage, writer>>

-----------------------------------------------------------------------------
Next ==
  \/ SaveEpisode \/ Fails \/ ClearEpisodeBuffer
  \/ Finalize \/ Crash \/ Resume

Spec == Init /\ [][Next]_vars

-----------------------------------------------------------------------------
(* Properties.                                                             *)

\* The variables keep their types; in particular every file is in a chunk of
\* chunks_size files, a writer's file exists, and the buffer stays smaller than
\* metadata_buffer_size while no flush fails.
TypeOK ==
  /\ info \in [episodes : Nat, frames : Nat]
  /\ disk \in [episodes : Nat, frames : Nat] \cup {None}
  /\ \A fs \in {data, video, meta} : DOMAIN fs \subseteq File
  /\ broken \subseteq {"data", "meta"} \X File /\ torn \subseteq DOMAIN video
  /\ session.pc \in {"closed", "idle", "video", "meta", "info", "failed"}
  /\ writer.open \in DOMAIN data \cup {None}
  /\ metaw.open \in DOMAIN meta \cup {None}
  /\ past.failures = 0 => Len(metaw.buffer) < BufferSize
  /\ past.kept <= past.clean /\ past.clean <= info.episodes

\* The records that are readable, or will be once the session is finalized.
Records ==
  Contents([f \in {g \in DOMAIN meta : <<"meta", g>> \notin broken} |-> meta[f]])
    \o metaw.buffer

\* The clean episodes are those saved before anything went wrong; after a crash,
\* those of the sessions that were finalized before.

\* The rows of a clean episode are where its record says: at the positions
\* dataset_from_index to dataset_to_index of the files in order, with these
\* positions as their index, and in the file the record names, which is
\* readable unless it is being written.  No failure, crash or later session
\* changes that, as long as no attempt opens a file anew that an attempt before
\* it had closed and then failed.
SavedDataKept ==
  LET blocks == Contents(data)
  IN  ~past.reopened => \A i \in 1..past.clean :
        LET r == Records[i]
            block == [episode |-> i - 1, first |-> r.from, length |-> r.to - r.from]
        IN  /\ r.episode = i - 1
            /\ r.from = (IF i = 1 THEN 0 ELSE Records[i - 1].to)
            /\ blocks[i] = block
            /\ block \in ToSet(data[r.data])
            /\ <<"data", r.data>> \notin broken

\* When each segment of a video file ends, the 0th being its start.
EndTimes(segments) ==
  LET ends[k \in 0..Len(segments)] ==
        IF k = 0 THEN 0 ELSE ends[k - 1] + segments[k].length
  IN  ends

\* The video of a clean episode is in the file its record names, from
\* from_timestamp to to_timestamp of the segments in it, unless a move over
\* that very file has failed.
SavedVideoKept ==
  \A i \in 1..past.clean :
    LET r == Records[i]
        segments == video[r.video]
        ends == EndTimes(segments)
    IN  r.video \notin torn => \E k \in 1..Len(segments) :
          /\ segments[k].episode = i - 1
          /\ ends[k - 1] = r.videoFrom /\ ends[k] = r.videoTo

\* A record is in the metadata file that it names, though it is written from
\* the buffer, after the file may have changed.
RecordsInTheirFile ==
  \A f \in DOMAIN meta : \A r \in ToSet(meta[f]) : r.file = f

\* The records are in the order of their episodes, none twice, and their ranges
\* of frames adjoin: info.json may be ahead of the records, never behind.  Only
\* an episode whose saving failed between its record and its count in info.json
\* (uncounted) may come again, or be ahead of it.
RecordsAscend ==
  /\ \A i \in 1..Len(Records) - 1 :
       /\ \/ Records[i].episode < Records[i + 1].episode
          \/ Records[i].episode \in past.uncounted
       /\ Records[i].to = Records[i + 1].from
  /\ session.pc # "info" /\ disk # None =>
       \A r \in ToSet(Records) :
         r.episode < disk.episodes \/ r.episode \in past.uncounted
=============================================================================
