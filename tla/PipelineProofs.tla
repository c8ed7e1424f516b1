--------------------------- MODULE PipelineProofs ---------------------------
(***************************************************************************)
(* Proofs about Pipeline, for any assets, limits, starts and faults.       *)
(***************************************************************************)
EXTENDS Pipeline, FiniteSetTheorems, TLAPS

USE AssetsAssumption, LimitsAssumption, PipeFaultsAssumption

\* Any order in which the tasks of a finite set are queued is a sequence.
LEMMA QueueIsSequence ==
  ASSUME NEW S \in SUBSET Assets, NEW q \in SetToSeqs(S)
  PROVE  q \in Seq(Assets)
<1>1. IsFiniteSet(S)
  BY FS_Subset
<1>2. Cardinality(S) \in Nat
  BY <1>1, FS_CardinalityType
<1> QED
  BY <1>2 DEF SetToSeqs

-----------------------------------------------------------------------------
LEMMA EmptyQueue == <<>> \in Seq(Assets)
OBVIOUS

LEMMA NoneYet == NoStats \in Stats /\ NoResult \in Results
BY DEF NoStats, Stats, NoResult, Results

\* A pipeline starts well-typed.
LEMMA BeginType ==
  ASSUME NEW c \in [Assets -> Statuses], BeginPipeline(c)
  PROVE  /\ ctx' \in [Assets -> Statuses] /\ unread' \in SUBSET Assets
         /\ pst' = "run" /\ out' = NoAsset /\ chan' \in Seq(Assets)
         /\ cst' = "run" /\ cur' = NoAsset
         /\ stage' \in [Assets -> {"idle", "transfer", "checked", "landed"}]
         /\ deferred' \in SUBSET Assets /\ circuit' = FALSE /\ cancel' = FALSE
         /\ st' \in Stats
<1>1. stage' \in [Assets -> {"idle", "transfer", "checked", "landed"}]
  BY DEF BeginPipeline, Idle
<1>2. chan' \in Seq(Assets)
  BY EmptyQueue DEF BeginPipeline
<1> QED
  BY <1>1, <1>2, NoneYet DEF BeginPipeline

LEMMA TypeInit == Init => TypeOK
<1> SUFFICES ASSUME Init PROVE TypeOK
  OBVIOUS
<1>1. kind \in [Assets -> {"task", "filtered", "malformed"}]
  BY DEF Init
<1>2. rows \in [Assets -> Statuses] /\ ctx \in [Assets -> Statuses]
  BY DEF Init, Statuses
<1>3. stage \in [Assets -> {"idle", "transfer", "checked", "landed"}]
  BY DEF Init, Idle
<1>4. marker \in [Assets -> BOOLEAN] /\ disk \in [Assets -> {"none", "bare", "tagged"}]
  BY DEF Init
<1>5. chan \in Seq(Assets)
  BY EmptyQueue DEF Init
<1>6. /\ pc = "down" /\ shutdown = FALSE /\ cancel = FALSE /\ round = 1
      /\ unread = {} /\ pst = "done" /\ out = NoAsset
      /\ cst = "stopped" /\ cur = NoAsset /\ deferred = {} /\ circuit = FALSE
      /\ st \in Stats /\ tot \in Stats /\ token = FALSE /\ result \in Results /\ starts = 0
  BY NoneYet DEF Init
<1> QED
  BY <1>1, <1>2, <1>3, <1>4, <1>5, <1>6 DEF TypeOK

\* What the last flush of a pipeline leaves is still a catalogue and a queue.
LEMMA FlushType ==
  ASSUME TypeOK, NEW ok \in LastFlush
  PROVE  Recorded(ok) \in [Assets -> Statuses] /\ deferred \ ok \in SUBSET Assets
BY DEF TypeOK, Recorded, Statuses

\* The counters stay counters through the flush, the repair and the report.
LEMMA StreamedType ==
  ASSUME st \in Stats, NEW ok, NEW slip \in BOOLEAN
  PROVE  Streamed(ok, slip) \in Stats
BY DEF Streamed, Stats

LEMMA UnrepairedType ==
  ASSUME NEW t \in Stats
  PROVE  Unrepaired(t) \in Stats
BY DEF Unrepaired, Stats

LEMMA MergedType ==
  ASSUME NEW t \in Stats, NEW s \in Stats
  PROVE  Merged(t, s) \in Stats
<1>1. /\ t.seen \in BOOLEAN /\ t.exhausted \in BOOLEAN
      /\ t.failed \cup s.failed \in SUBSET Assets /\ t.auth + s.auth \in Nat
  BY DEF Stats
<1> QED
  BY <1>1 DEF Merged, Stats

LEMMA RepairedType ==
  ASSUME NEW t \in Stats, NEW s \in Stats
  PROVE  Repaired(t, s) \in Stats
<1>1. Merged(t, s) \in Stats
  BY MergedType
<1>2. s.complete \in BOOLEAN /\ s.errs \in BOOLEAN
  BY DEF Stats
<1> QED
  BY <1>1, <1>2 DEF Repaired, Stats

LEMMA CleanedUpType ==
  ASSUME NEW t \in Stats, NEW s \in Stats
  PROVE  CleanedUp(t, s) \in Stats
<1>1. Merged(t, s) \in Stats
  BY MergedType
<1>2. s.failed \in SUBSET Assets /\ t.complete \in BOOLEAN
  BY DEF Stats
<1> HIDE DEF Merged
<1> QED
  BY <1>1, <1>2 DEF CleanedUp, Stats

LEMMA ReportType ==
  ASSUME NEW t \in Stats, NEW i \in BOOLEAN, shutdown \in BOOLEAN, token \in BOOLEAN
  PROVE  Report(t, i) \in Results
<1>2. t.errs \in BOOLEAN /\ t.swf \in BOOLEAN
  BY DEF Stats
<1> QED
  BY <1>2 DEF Report, Results

LEMMA TypeStep == TypeOK /\ [Next]_vars => TypeOK'
<1> SUFFICES ASSUME TypeOK, [Next]_vars PROVE TypeOK'
  OBVIOUS
<1>1. CASE StartRun
  <2>1. rows' \in [Assets -> Statuses]
    BY <1>1 DEF StartRun, TypeOK, Statuses
  <2>2. BeginPipeline(rows')
    BY <1>1 DEF StartRun
  <2>3. /\ starts' \in Nat /\ pc' \in {"stream", "error"} /\ round' = 1 /\ shutdown' = FALSE
        /\ tot' \in Stats /\ token' = FALSE /\ result' \in Results
        /\ kind' = kind /\ marker' = marker /\ disk' = disk
    BY <1>1, NoneYet DEF TypeOK, StartRun
  <2> QED
    BY <2>1, <2>2, <2>3, BeginType DEF TypeOK
<1>2. CASE RequestShutdown
  BY <1>2 DEF TypeOK, RequestShutdown, durable, producer, consumer
<1>3. CASE Crash
  BY <1>3 DEF TypeOK, Crash, durable, producer, consumer
<1>4. ASSUME NEW a \in Assets, ReadAsset(a) PROVE TypeOK'
  <2>1. PICK slip \in BOOLEAN : PlanAsset(a, slip)
    BY <1>4 DEF ReadAsset
  <2>2. st' \in Stats
    <3> DEFINE seen == [st EXCEPT !.seen = TRUE, !.swf = @ \/ slip]
    <3>1. seen \in Stats
      BY DEF TypeOK, Stats
    <3> HIDE DEF seen
    <3>2. /\ [seen EXCEPT !.swf = TRUE] \in Stats
          /\ [seen EXCEPT !.errs = TRUE] \in Stats
          /\ [seen EXCEPT !.exhausted = TRUE] \in Stats
      BY <3>1 DEF Stats
    <3>3. st' \in {seen, [seen EXCEPT !.swf = TRUE], [seen EXCEPT !.errs = TRUE],
                  [seen EXCEPT !.exhausted = TRUE]}
      BY <2>1 DEF PlanAsset, seen
    <3> QED
      BY <3>1, <3>2, <3>3
  <2>3. rows' \in [Assets -> Statuses]
    BY <2>1 DEF PlanAsset, FinalizeFailed, TypeOK, Statuses
  <2>4. /\ pst' \in {"run", "send", "done", "panicked"}
        /\ out' \in IF pst' = "send" THEN Assets ELSE {NoAsset}
    BY <2>1 DEF PlanAsset, TypeOK
  <2> QED
    BY <1>4, <2>2, <2>3, <2>4 DEF TypeOK, ReadAsset, consumer
<1>5. ASSUME NEW a \in Assets, ReadError(a) PROVE TypeOK'
  <2>1. st' \in Stats
    BY <1>5 DEF ReadError, TypeOK, Stats
  <2> QED
    BY <1>5, <2>1 DEF TypeOK, ReadError, durable, consumer
<1>6. CASE StopReading
  <2>1. st' \in Stats
    BY <1>6 DEF StopReading, TypeOK, Stats
  <2> QED
    BY <1>6, <2>1 DEF TypeOK, StopReading, durable, consumer
<1>7. CASE SendTask
  <2>1. chan' \in Seq(Assets)
    <3>1. out \in Assets
      BY <1>7 DEF SendTask, TypeOK
    <3> QED
      BY <1>7, <3>1 DEF SendTask, TypeOK
  <2> QED
    BY <1>7, <2>1 DEF TypeOK, SendTask, durable, consumer
<1>8. CASE ProducerPanics
  BY <1>8 DEF TypeOK, ProducerPanics, durable, consumer
<1>9. ASSUME NEW a \in Assets, CheckShutdown(a) PROVE TypeOK'
  BY <1>9 DEF TypeOK, CheckShutdown, durable, producer
<1>10. ASSUME NEW a \in Assets, Publish(a) PROVE TypeOK'
  BY <1>10 DEF TypeOK, Publish, producer
<1>11. ASSUME NEW a \in Assets, TakeDownloaded(a) PROVE TypeOK'
  <2>1. st' \in Stats
    BY <1>11 DEF TakeDownloaded, TypeOK, Stats
  <2>2. CASE Defer(a)
    <3>1. rows' \in [Assets -> Statuses] /\ deferred' \in SUBSET Assets
      BY <2>2 DEF Defer, Flushed, Recorded, TypeOK, Statuses
    <3>2. circuit' \in BOOLEAN /\ cancel' \in BOOLEAN
      BY <2>2 DEF Defer, CircuitOpens, TypeOK
    <3>3. cst' \in {"run", "mark", "stopped"} /\ cur' \in Assets \cup {NoAsset}
      BY <1>11 DEF TypeOK, TakeDownloaded
    <3>4. /\ stage' \in [Assets -> {"idle", "transfer", "checked", "landed"}]
          /\ UNCHANGED <<kind, marker, disk, pc, shutdown, round, ctx, unread, pst, out,
                         chan, tot, token, result, starts>>
      BY <1>11 DEF TypeOK, TakeDownloaded, producer
    <3> QED
      BY <2>1, <3>1, <3>2, <3>3, <3>4 DEF TypeOK
  <2>3. CASE ~Defer(a)
    <3>1. rows' \in [Assets -> Statuses] /\ deferred' = deferred
      BY <1>11, <2>3 DEF TypeOK, TakeDownloaded, Statuses
    <3>2. cst' \in {"run", "mark", "stopped"} /\ cur' \in Assets \cup {NoAsset}
      BY <1>11, <2>3 DEF TypeOK, TakeDownloaded
    <3> QED
      BY <1>11, <2>1, <2>3, <3>1, <3>2 DEF TypeOK, TakeDownloaded, producer
  <2> QED
    BY <2>2, <2>3
<1>12. ASSUME NEW a \in Assets, TakeFailed(a) PROVE TypeOK'
  <2>1. st' \in Stats
    BY <1>12 DEF TakeFailed, TypeOK, Stats
  <2> QED
    BY <1>12, <2>1 DEF TypeOK, TakeFailed, FinalizeFailed, producer, Statuses
<1>13. ASSUME NEW a \in Assets, TakeInterrupted(a) PROVE TypeOK'
  BY <1>13 DEF TypeOK, TakeInterrupted, durable, producer
<1>14. ASSUME NEW a \in Assets, TakeSessionExpired(a) PROVE TypeOK'
  <2>1. st' \in Stats
    <3>1. st.auth + 1 \in Nat /\ st.failed \cup {a} \in SUBSET Assets
      BY DEF TypeOK, Stats
    <3>2. /\ [st EXCEPT !.auth = st.auth + 1] \in Stats
          /\ [st EXCEPT !.auth = st.auth + 1, !.failed = st.failed \cup {a}] \in Stats
      BY <3>1 DEF TypeOK, Stats
    <3> QED
      BY <1>14, <3>2 DEF TakeSessionExpired
  <2>2. rows' \in [Assets -> Statuses]
    BY <1>14 DEF TypeOK, TakeSessionExpired, FinalizeFailed, Statuses
  <2>3. stage' \in [Assets -> {"idle", "transfer", "checked", "landed"}]
    BY <1>14 DEF TypeOK, TakeSessionExpired, Idle
  <2>4. cst' \in {"run", "mark", "stopped"} /\ chan' \in Seq(Assets)
    BY <1>14, EmptyQueue DEF TypeOK, TakeSessionExpired
  <2> QED
    BY <1>14, <2>1, <2>2, <2>3, <2>4 DEF TypeOK, TakeSessionExpired, producer
<1>15. ASSUME NEW a \in Assets, TakeExpiredUrl(a) PROVE TypeOK'
  <2>1. st' \in Stats
    <3>1. st.failed \cup {a} \in SUBSET Assets
      BY DEF TypeOK, Stats
    <3>2. /\ [st EXCEPT !.url = TRUE] \in Stats
          /\ [st EXCEPT !.failed = st.failed \cup {a}] \in Stats
      BY <3>1 DEF TypeOK, Stats
    <3> QED
      BY <1>15, <3>2 DEF TakeExpiredUrl
  <2> QED
    BY <1>15, <2>1 DEF TypeOK, TakeExpiredUrl, FinalizeFailed, producer, Statuses
<1>16. CASE StartTransfer
  BY <1>16 DEF TypeOK, StartTransfer, durable, producer
<1>17. CASE UpdateMetadataMarker
  BY <1>17 DEF TypeOK, UpdateMetadataMarker, producer
<1>18. CASE ConsumerEnds
  BY <1>18 DEF TypeOK, ConsumerEnds, durable, producer
<1>19. CASE FinishEnumeration
  <2>0. Slips \subseteq BOOLEAN
    BY DEF Slips
  <2>1. PICK ok \in LastFlush, slip \in Slips :
          /\ rows' = Recorded(ok)
          /\ \/ /\ deferred' = deferred \ ok
                /\ UNCHANGED <<round, ctx, cancel, producer, chan, cst, cur, stage,
                               circuit, st>>
             \/ BeginPipeline(rows') /\ round' = 2
          /\ \/ tot' = tot \/ tot' = Streamed(ok, slip)
             \/ tot' = Unrepaired(Streamed(ok, slip))
          /\ token' = token \/ token' = TRUE \/ token' = FALSE
          /\ pc' = "error" \/ pc' = "drain" \/ pc' = pc
    BY <1>19, ZenonT(30) DEF FinishEnumeration
  <2>2. rows' \in [Assets -> Statuses] /\ deferred \ ok \in SUBSET Assets
    BY <2>1, FlushType
  <2>3. tot' \in Stats
    BY <2>0, <2>1, StreamedType, UnrepairedType DEF TypeOK
  <2>4. pc' \in {"down", "stream", "drain", "outcome", "cleanup", "result", "done", "error"}
    BY <2>1 DEF TypeOK
  <2>5. CASE BeginPipeline(rows') /\ round' = 2
    <3>1. UNCHANGED <<kind, marker, disk, shutdown, result, starts>>
      BY <1>19 DEF FinishEnumeration
    <3> QED
      BY <2>1, <2>2, <2>3, <2>4, <2>5, <3>1, BeginType DEF TypeOK
  <2>6. CASE /\ deferred' = deferred \ ok
             /\ UNCHANGED <<round, ctx, cancel, producer, chan, cst, cur, stage, circuit, st>>
    BY <1>19, <2>1, <2>2, <2>3, <2>4, <2>6 DEF TypeOK, FinishEnumeration, producer
  <2> QED
    BY <2>1, <2>5, <2>6
<1>20. CASE FinishRepair
  <2>1. PICK ok \in LastFlush, slip \in BOOLEAN :
          /\ rows' = Recorded(ok) /\ deferred' = deferred \ ok
          /\ tot' \in {Unrepaired(tot), Repaired(tot, Streamed(ok, slip))}
          /\ token' \in BOOLEAN
    BY <1>20 DEF FinishRepair, Slips, Tokens
  <2>2. rows' \in [Assets -> Statuses] /\ deferred' \in SUBSET Assets
    BY <2>1, FlushType
  <2>3. tot' \in Stats
    BY <2>1, StreamedType, UnrepairedType, RepairedType DEF TypeOK
  <2> QED
    BY <1>20, <2>1, <2>2, <2>3 DEF TypeOK, FinishRepair, producer
<1>21. CASE DrainMetadata
  <2>1. tot' \in Stats
    <3>1. PICK bad \in BOOLEAN : tot' = [tot EXCEPT !.exif = @ \/ bad]
      BY <1>21 DEF DrainMetadata
    <3> QED
      BY <3>1 DEF TypeOK, Stats
  <2> QED
    BY <1>21, <2>1 DEF TypeOK, DrainMetadata, producer, consumer
<1>22. CASE BuildOutcome
  <2>0. Incomplete(tot) \in BOOLEAN
    BY DEF Incomplete, TypeOK, Stats
  <2>a. Report(tot, Incomplete(tot)) \in Results
    BY <2>0, ReportType DEF TypeOK
  <2>b. [NoResult EXCEPT !.incomplete = Incomplete(tot)] \in Results
    BY <2>0, NoneYet DEF Results
  <2>1. result' \in Results
    BY <1>22, <2>a, <2>b DEF BuildOutcome, TypeOK
  <2>2. chan' \in Seq(Assets)
    BY <1>22, QueueIsSequence DEF BuildOutcome, Refreshed, TypeOK, Stats
  <2>3. st' \in Stats
    BY <1>22, NoneYet DEF BuildOutcome, TypeOK
  <2>4. /\ pc' \in {"result", "cleanup", "error"}
        /\ stage' \in [Assets -> {"idle", "transfer", "checked", "landed"}]
    BY <1>22 DEF TypeOK, BuildOutcome, consumer, Idle
  <2>5. /\ cst' \in {"run", "mark", "stopped"} /\ cur' = cur /\ deferred' \in SUBSET Assets
        /\ circuit' \in BOOLEAN /\ cancel' \in BOOLEAN
    BY <1>22 DEF TypeOK, BuildOutcome, consumer
  <2>6. UNCHANGED <<kind, rows, marker, disk, shutdown, round, ctx, unread, pst, out, tot,
                    token, starts>>
    BY <1>22 DEF BuildOutcome, durable, producer
  <2> QED
    BY <2>1, <2>2, <2>3, <2>4, <2>5, <2>6 DEF TypeOK
<1>23. CASE FinishCleanup
  <2>1. rows' \in [Assets -> Statuses] /\ deferred' \in SUBSET Assets
    BY <1>23, FlushType DEF FinishCleanup, TypeOK
  <2>2. result' \in Results
    <3>1. PICK ok \in LastFlush : result' = Report(CleanedUp(tot, Streamed(ok, FALSE)), result.incomplete)
      BY <1>23 DEF FinishCleanup
    <3>2. CleanedUp(tot, Streamed(ok, FALSE)) \in Stats
      BY StreamedType, CleanedUpType DEF TypeOK
    <3>3. result.incomplete \in BOOLEAN
      BY DEF TypeOK, Results
    <3> QED
      BY <3>1, <3>2, <3>3, ReportType DEF TypeOK
  <2> QED
    BY <1>23, <2>1, <2>2 DEF TypeOK, FinishCleanup, producer
<1>24. CASE FinishRun
  BY <1>24 DEF TypeOK, FinishRun, producer, consumer, Statuses
<1>25. CASE UNCHANGED vars
  BY <1>25 DEF TypeOK, vars, durable, producer, consumer
<1> QED
  BY <1>1, <1>2, <1>3, <1>4, <1>5, <1>6, <1>7, <1>8, <1>9, <1>10, <1>11, <1>12, <1>13, <1>14,
     <1>15, <1>16, <1>17, <1>18, <1>19, <1>20, <1>21, <1>22, <1>23, <1>24, <1>25
     DEF Next, Process, Produce, Consume, Finish

-----------------------------------------------------------------------------
(* Files and rows.                                                         *)

Files == DownloadedHasFile /\ FilesInPlace

LEMMA FilesFrame ==
  ASSUME Files, rows' = rows, disk' = disk,
         \A a \in Assets : stage'[a] = "landed" => stage[a] = "landed",
         deferred' \subseteq deferred
  PROVE  Files'
BY DEF Files, DownloadedHasFile, FilesInPlace

LEMMA FilesFlushed ==
  ASSUME TypeOK, Files, NEW ok \in LastFlush, rows' = Recorded(ok), disk' = disk,
         \A a \in Assets : stage'[a] = "landed" => stage[a] = "landed",
         deferred' \subseteq deferred
  PROVE  Files'
<1>1. ok \subseteq deferred
  BY DEF LastFlush, Flushed
<1> QED
  BY <1>1 DEF TypeOK, Files, DownloadedHasFile, FilesInPlace, Recorded

LEMMA FilesFailed ==
  ASSUME TypeOK, Files, NEW b \in Assets, FinalizeFailed(b), disk' = disk,
         \A a \in Assets : stage'[a] = "landed" => stage[a] = "landed",
         deferred' \subseteq deferred
  PROVE  Files'
BY DEF TypeOK, Files, DownloadedHasFile, FilesInPlace, FinalizeFailed

LEMMA FilesStep == TypeOK /\ Files /\ [Next]_vars => Files'
<1> SUFFICES ASSUME TypeOK, Files, [Next]_vars PROVE Files'
  OBVIOUS
<1>1. CASE StartRun
  BY <1>1 DEF TypeOK, Files, DownloadedHasFile, FilesInPlace, StartRun, BeginPipeline, Idle
<1>2. CASE RequestShutdown
  BY <1>2, FilesFrame DEF RequestShutdown, durable, consumer
<1>3. CASE Crash
  BY <1>3, FilesFrame DEF Crash, durable, consumer
<1>4. ASSUME NEW a \in Assets, ReadAsset(a) PROVE Files'
  <2>1. PICK slip \in BOOLEAN : PlanAsset(a, slip)
    BY <1>4 DEF ReadAsset
  <2>2. \A b \in Assets : rows'[b] = "downloaded" => rows[b] = "downloaded" \/ disk[b] # "none"
    BY <2>1 DEF PlanAsset, FinalizeFailed, TypeOK
  <2>3. UNCHANGED <<disk, stage, deferred>>
    BY <1>4 DEF ReadAsset, consumer
  <2> QED
    BY <2>2, <2>3 DEF Files, DownloadedHasFile, FilesInPlace
<1>5. ASSUME NEW a \in Assets, ReadError(a) PROVE Files'
  BY <1>5, FilesFrame DEF ReadError, durable, consumer
<1>6. CASE StopReading
  BY <1>6, FilesFrame DEF StopReading, durable, consumer
<1>7. CASE SendTask
  BY <1>7, FilesFrame DEF SendTask, durable, consumer
<1>8. CASE ProducerPanics
  BY <1>8, FilesFrame DEF ProducerPanics, durable, consumer
<1>9. ASSUME NEW a \in Assets, CheckShutdown(a) PROVE Files'
  BY <1>9, FilesFrame DEF CheckShutdown, durable, TypeOK
<1>10. ASSUME NEW a \in Assets, Publish(a) PROVE Files'
  BY <1>10 DEF Publish, TypeOK, Files, DownloadedHasFile, FilesInPlace
<1>11. ASSUME NEW a \in Assets, TakeDownloaded(a) PROVE Files'
  <2>1. disk[a] # "none" /\ disk' = disk
    BY <1>11 DEF TakeDownloaded, Landed, Files, FilesInPlace
  <2>2. \A b \in Assets : stage'[b] = "landed" => stage[b] = "landed"
    BY <1>11 DEF TakeDownloaded, TypeOK
  <2>3. CASE Defer(a)
    <3>1. deferred' \subseteq deferred \cup {a}
      BY <2>3 DEF Defer, Flushed
    <3>2. \A b \in Assets : rows'[b] = "downloaded" => rows[b] = "downloaded" \/ b \in deferred \cup {a}
      BY <2>3 DEF Defer, Flushed, Recorded
    <3> QED
      BY <2>1, <2>2, <3>1, <3>2 DEF Files, DownloadedHasFile, FilesInPlace
  <2>4. CASE ~Defer(a)
    BY <1>11, <2>1, <2>2, <2>4 DEF TakeDownloaded, TypeOK, Files, DownloadedHasFile, FilesInPlace
  <2> QED
    BY <2>3, <2>4
<1>12. ASSUME NEW a \in Assets, TakeFailed(a) PROVE Files'
  BY <1>12, FilesFailed DEF TakeFailed, TypeOK
<1>13. ASSUME NEW a \in Assets, TakeInterrupted(a) PROVE Files'
  BY <1>13, FilesFrame DEF TakeInterrupted, durable, TypeOK
<1>14. ASSUME NEW a \in Assets, TakeSessionExpired(a) PROVE Files'
  BY <1>14, FilesFailed, FilesFrame DEF TakeSessionExpired, TypeOK, Idle
<1>15. ASSUME NEW a \in Assets, TakeExpiredUrl(a) PROVE Files'
  BY <1>15, FilesFailed, FilesFrame DEF TakeExpiredUrl, TypeOK
<1>16. CASE StartTransfer
  <2>1. \A b \in Assets : stage'[b] = "landed" => stage[b] = "landed"
    BY <1>16 DEF StartTransfer, TypeOK
  <2> QED
    BY <1>16, <2>1, FilesFrame DEF StartTransfer, durable
<1>17. CASE UpdateMetadataMarker
  BY <1>17, FilesFrame DEF UpdateMetadataMarker
<1>18. CASE ConsumerEnds
  BY <1>18, FilesFrame DEF ConsumerEnds, durable
<1>19. CASE FinishEnumeration
  <2>1. PICK ok \in LastFlush : rows' = Recorded(ok) /\ deferred' \subseteq deferred
    BY <1>19 DEF FinishEnumeration, BeginPipeline
  <2>2. \A b \in Assets : stage'[b] = "landed" => stage[b] = "landed"
    BY <1>19 DEF FinishEnumeration, BeginPipeline, Idle
  <2> QED
    BY <1>19, <2>1, <2>2, FilesFlushed DEF FinishEnumeration
<1>20. CASE FinishRepair
  BY <1>20, FilesFlushed DEF FinishRepair
<1>21. CASE DrainMetadata
  BY <1>21 DEF DrainMetadata, consumer, TypeOK, Files, DownloadedHasFile, FilesInPlace
<1>22. CASE BuildOutcome
  BY <1>22, FilesFrame DEF BuildOutcome, durable, consumer, Idle
<1>23. CASE FinishCleanup
  BY <1>23, FilesFlushed DEF FinishCleanup
<1>24. CASE FinishRun
  BY <1>24 DEF FinishRun, consumer, TypeOK, Files, DownloadedHasFile, FilesInPlace
<1>25. CASE UNCHANGED vars
  BY <1>25, FilesFrame DEF vars, durable, consumer
<1> QED
  BY <1>1, <1>2, <1>3, <1>4, <1>5, <1>6, <1>7, <1>8, <1>9, <1>10, <1>11, <1>12, <1>13, <1>14,
     <1>15, <1>16, <1>17, <1>18, <1>19, <1>20, <1>21, <1>22, <1>23, <1>24, <1>25
     DEF Next, Process, Produce, Consume, Finish

-----------------------------------------------------------------------------
(* What is known, and what a token may claim.                              *)

Promises == ContextKnown /\ ReadIsKnown /\ CompleteIsRead /\ TokenProves /\ ReportProves

Remembers == /\ Known \subseteq Known' /\ Wanted' = Wanted
             /\ \A a \in Assets : rows[a] # "none" => rows'[a] # "none"

\* An asset that is known stays known, whatever is written about it.
LEMMA KnownKept ==
  ASSUME TypeOK, kind' = kind,
         \A a \in Assets : rows[a] # "none" => rows'[a] # "none",
         \A a \in Assets : disk[a] # "none" => disk'[a] # "none"
  PROVE  Remembers
BY DEF Remembers, Known, Wanted

LEMMA FailedKnown ==
  ASSUME TypeOK, NEW b \in Assets, FinalizeFailed(b)
  PROVE  \A a \in Assets : rows[a] # "none" => rows'[a] # "none"
BY DEF FinalizeFailed, TypeOK

LEMMA RecordedKnown ==
  ASSUME TypeOK, NEW ok, rows' = Recorded(ok)
  PROVE  \A a \in Assets : rows[a] # "none" => rows'[a] # "none"
BY DEF Recorded, TypeOK

\* A step inside a pipeline that reads nothing keeps every promise, as long as
\* it takes back no failure and does not declare the stream complete.
LEMMA PromisesFrame ==
  ASSUME TypeOK, Promises, Known \subseteq Known', Wanted' = Wanted,
         \A a \in Assets : rows[a] # "none" => rows'[a] # "none",
         ctx' = ctx, pc' = pc, unread' = unread, tot' = tot, token' = token, result' = result,
         st.swf => st'.swf, st.errs => st'.errs, st'.complete => st.complete
  PROVE  Promises'
<1>1. ReadIsKnown'
  BY DEF Promises, ReadIsKnown
<1>2. CompleteIsRead'
  BY DEF Promises, CompleteIsRead
<1>3. TokenProves' /\ ReportProves'
  BY DEF Promises, TokenProves, ReportProves
<1>4. ContextKnown'
  BY DEF Promises, ContextKnown
<1> QED
  BY <1>1, <1>2, <1>3, <1>4 DEF Promises

LEMMA KnownStep ==
  ASSUME TypeOK, [Next]_vars
  PROVE  Remembers
<1>1. CASE StartRun
  BY <1>1, KnownKept DEF StartRun, TypeOK
<1>2. CASE RequestShutdown \/ Crash
  BY <1>2, KnownKept DEF RequestShutdown, Crash, durable
<1>3. ASSUME NEW a \in Assets, ReadAsset(a) PROVE Remembers
  <2>1. PICK slip \in BOOLEAN : PlanAsset(a, slip)
    BY <1>3 DEF ReadAsset
  <2>2. \A b \in Assets : rows[b] # "none" => rows'[b] # "none"
    BY <2>1, FailedKnown DEF PlanAsset, TypeOK
  <2> QED
    BY <1>3, <2>2, KnownKept DEF ReadAsset
<1>4. ASSUME NEW a \in Assets, ReadError(a) PROVE Remembers
  BY <1>4, KnownKept DEF ReadError, durable
<1>5. CASE StopReading \/ SendTask \/ ProducerPanics
  BY <1>5, KnownKept DEF StopReading, SendTask, ProducerPanics, durable
<1>6. ASSUME NEW a \in Assets, CheckShutdown(a) \/ TakeInterrupted(a)
      PROVE Remembers
  BY <1>6, KnownKept DEF CheckShutdown, TakeInterrupted, durable
<1>7. ASSUME NEW a \in Assets, Publish(a) PROVE Remembers
  BY <1>7, KnownKept DEF Publish, TypeOK
<1>8. ASSUME NEW a \in Assets, TakeDownloaded(a)
      PROVE Remembers
  <2>1. CASE Defer(a)
    BY <1>8, <2>1, RecordedKnown, KnownKept DEF Defer, TakeDownloaded
  <2>2. CASE ~Defer(a)
    BY <1>8, <2>2, KnownKept DEF TakeDownloaded, TypeOK
  <2> QED
    BY <2>1, <2>2
<1>9. ASSUME NEW a \in Assets, TakeFailed(a) \/ TakeSessionExpired(a) \/ TakeExpiredUrl(a)
      PROVE Remembers
  <2>1. FinalizeFailed(a) \/ rows' = rows
    BY <1>9 DEF TakeFailed, TakeSessionExpired, TakeExpiredUrl
  <2>2. kind' = kind /\ disk' = disk
    BY <1>9 DEF TakeFailed, TakeSessionExpired, TakeExpiredUrl
  <2> QED
    BY <2>1, <2>2, FailedKnown, KnownKept
<1>10. CASE StartTransfer \/ UpdateMetadataMarker \/ ConsumerEnds
  BY <1>10, KnownKept DEF StartTransfer, UpdateMetadataMarker, ConsumerEnds, durable
<1>11. CASE FinishEnumeration \/ FinishRepair \/ FinishCleanup
  <2>1. PICK ok : rows' = Recorded(ok)
    BY <1>11 DEF FinishEnumeration, FinishRepair, FinishCleanup
  <2>2. kind' = kind /\ disk' = disk
    BY <1>11 DEF FinishEnumeration, FinishRepair, FinishCleanup
  <2> QED
    BY <2>1, <2>2, RecordedKnown, KnownKept
<1>12. CASE DrainMetadata
  BY <1>12, KnownKept DEF DrainMetadata, TypeOK
<1>13. CASE BuildOutcome
  BY <1>13, KnownKept DEF BuildOutcome, durable
<1>14. CASE FinishRun
  BY <1>14, KnownKept DEF FinishRun, TypeOK
<1>15. CASE UNCHANGED vars
  BY <1>15, KnownKept DEF vars, durable
<1> QED
  BY <1>1, <1>2, <1>3, <1>4, <1>5, <1>6, <1>7, <1>8, <1>9, <1>10, <1>11, <1>12, <1>13, <1>14,
     <1>15 DEF Next, Process, Produce, Consume, Finish

\* A flush only adds a failure to what the stream has counted.
LEMMA StreamedKeeps ==
  ASSUME st \in Stats, NEW ok, NEW slip \in BOOLEAN
  PROVE  /\ Streamed(ok, slip).complete = st.complete
         /\ Streamed(ok, slip).errs = st.errs
         /\ st.swf => Streamed(ok, slip).swf
BY DEF Streamed, Stats

\* An enumeration that ran to its end without errors proves its token.
LEMMA ProofOfToken ==
  ASSUME TypeOK, Promises, pc = "stream", NEW ok, NEW slip \in BOOLEAN,
         Proved(Streamed(ok, slip))
  PROVE  Wanted \subseteq Known \/ Streamed(ok, slip).swf
<1>1. st.complete /\ ~st.errs
  BY StreamedKeeps DEF Proved, TypeOK
<1>2. unread = {}
  BY <1>1 DEF Promises, CompleteIsRead
<1>3. \A a \in Wanted : a \in Known \/ st.swf
  BY <1>1, <1>2 DEF Promises, ReadIsKnown
<1>4. st.swf => Streamed(ok, slip).swf
  BY StreamedKeeps DEF TypeOK
<1> QED
  BY <1>3, <1>4

LEMMA RepairedKeeps ==
  ASSUME NEW t \in Stats, NEW s \in Stats
  PROVE  s.swf => Repaired(t, s).swf
<1>1. Merged(t, s) \in Stats /\ (s.swf => Merged(t, s).swf)
  BY MergedType DEF Merged
<1> QED
  BY <1>1 DEF Repaired, Stats

LEMMA CleanedUpKeeps ==
  ASSUME NEW t \in Stats, NEW s \in Stats
  PROVE  t.swf => CleanedUp(t, s).swf
<1>1. Merged(t, s) \in Stats /\ (t.swf => Merged(t, s).swf)
  BY MergedType DEF Merged
<1> QED
  BY <1>1 DEF CleanedUp, Stats

LEMMA PromisesStep == TypeOK /\ Promises /\ [Next]_vars => Promises'
<1> SUFFICES ASSUME TypeOK, Promises, [Next]_vars PROVE Promises'
  OBVIOUS
<1>a. Known \subseteq Known' /\ Wanted' = Wanted
  BY KnownStep DEF Remembers
<1>c. \A a \in Assets : rows[a] # "none" => rows'[a] # "none"
  BY KnownStep DEF Remembers
<1>b. st \in Stats /\ tot \in Stats
  BY DEF TypeOK
<1>1. CASE StartRun
  <2>1. pc' \in {"stream", "error"} /\ unread' = Assets /\ st' = NoStats /\ ctx' = rows'
    BY <1>1 DEF StartRun, BeginPipeline
  <2>2. Wanted' \ unread' = {} /\ st'.complete = FALSE
    BY <2>1 DEF Wanted, NoStats
  <2> QED
    BY <2>1, <2>2 DEF Promises, ContextKnown, ReadIsKnown, CompleteIsRead, TokenProves, ReportProves
<1>2. CASE RequestShutdown
  BY <1>2, <1>a, <1>c, PromisesFrame DEF RequestShutdown, producer
<1>3. CASE Crash
  BY <1>3 DEF Crash, durable, Promises, ContextKnown, ReadIsKnown, CompleteIsRead, TokenProves, ReportProves
<1>4. ASSUME NEW a \in Assets, ReadAsset(a) PROVE Promises'
  <2>1. PICK slip \in BOOLEAN : PlanAsset(a, slip)
    BY <1>4 DEF ReadAsset
  <2> DEFINE seen == [st EXCEPT !.seen = TRUE, !.swf = @ \/ slip]
  <2>2. /\ seen \in Stats /\ seen.errs = st.errs /\ seen.complete = st.complete
        /\ st.swf => seen.swf
    BY <1>b DEF Stats
  <2>3. st' \in {seen, [seen EXCEPT !.swf = TRUE], [seen EXCEPT !.errs = TRUE],
                 [seen EXCEPT !.exhausted = TRUE]}
    BY <2>1 DEF PlanAsset
  <2> HIDE DEF seen
  <2>4. (st.swf => st'.swf) /\ (st.errs => st'.errs) /\ st'.complete = st.complete
    BY <2>2, <2>3 DEF Stats
  <2>5. a \in Wanted => a \in Known' \/ st'.swf \/ st'.errs
    <3> SUFFICES ASSUME kind[a] # "filtered" PROVE a \in Known' \/ st'.swf \/ st'.errs
      BY DEF Wanted
    <3>1. [seen EXCEPT !.swf = TRUE].swf /\ [seen EXCEPT !.errs = TRUE].errs
      BY <2>2 DEF Stats
    <3>2. \/ st' = [seen EXCEPT !.swf = TRUE]
          \/ st' = [seen EXCEPT !.errs = TRUE]
          \/ disk[a] # "none"
          \/ ctx[a] = "failed" /\ FinalizeFailed(a)
          \/ rows'[a] # "none"
      BY <2>1 DEF PlanAsset, TypeOK, seen
    <3>3. ctx[a] = "failed" /\ FinalizeFailed(a) => rows'[a] # "none"
      BY <1>c DEF Promises, ContextKnown
    <3> QED
      BY <3>1, <3>2, <3>3, <1>4 DEF Known, ReadAsset
  <2>6. CompleteIsRead'
    BY <1>4, <2>4 DEF Promises, CompleteIsRead, ReadAsset
  <2>7. ReadIsKnown'
    <3> SUFFICES ASSUME NEW b \in Wanted, b \notin unread'
                 PROVE  b \in Known' \/ st'.swf \/ st'.errs
      BY <1>a DEF ReadIsKnown
    <3>1. CASE b = a
      BY <3>1, <2>5
    <3>2. CASE b # a
      <4>1. b \notin unread /\ pc = "stream"
        BY <1>4, <3>2 DEF ReadAsset
      <4> QED
        BY <4>1, <1>a, <2>4 DEF Promises, ReadIsKnown
    <3> QED
      BY <3>1, <3>2
  <2>8. TokenProves' /\ ReportProves'
    BY <1>4 DEF ReadAsset, TokenProves, ReportProves
  <2> QED
    BY <2>6, <2>7, <2>8, <1>c, <1>4 DEF Promises, ContextKnown, ReadAsset
<1>5. ASSUME NEW a \in Assets, ReadError(a) PROVE Promises'
  <2>1. st'.errs /\ st'.complete = st.complete
    BY <1>5, <1>b DEF ReadError, Stats
  <2> QED
    BY <1>5, <1>c, <2>1
       DEF ReadError, Promises, ContextKnown, ReadIsKnown, CompleteIsRead, TokenProves, ReportProves
<1>6. CASE StopReading
  <2>1. /\ st'.swf = st.swf /\ st'.errs = st.errs
        /\ st'.complete => unread = {}
    BY <1>6, <1>b DEF StopReading, Stats
  <2> QED
    BY <1>6, <1>a, <1>c, <2>1 DEF StopReading, Promises, ContextKnown, ReadIsKnown,
       CompleteIsRead, TokenProves, ReportProves
<1>7. CASE SendTask \/ ProducerPanics \/ StartTransfer \/ UpdateMetadataMarker \/ ConsumerEnds
  BY <1>7, <1>a, <1>c, PromisesFrame
     DEF SendTask, ProducerPanics, StartTransfer, UpdateMetadataMarker, ConsumerEnds, producer
<1>8. ASSUME NEW a \in Assets, CheckShutdown(a) \/ Publish(a) \/ TakeInterrupted(a)
      PROVE  Promises'
  BY <1>8, <1>a, <1>c, PromisesFrame DEF CheckShutdown, Publish, TakeInterrupted, producer
<1>9. ASSUME NEW a \in Assets,
             TakeDownloaded(a) \/ TakeFailed(a) \/ TakeSessionExpired(a) \/ TakeExpiredUrl(a)
      PROVE  Promises'
  <2>1. st'.swf = st.swf /\ st'.errs = st.errs /\ st'.complete = st.complete
    BY <1>9, <1>b DEF TakeDownloaded, TakeFailed, TakeSessionExpired, TakeExpiredUrl, Stats
  <2>2. UNCHANGED <<pc, ctx, unread, tot, token, result>>
    BY <1>9 DEF TakeDownloaded, TakeFailed, TakeSessionExpired, TakeExpiredUrl, producer
  <2> QED
    BY <1>a, <1>c, <2>1, <2>2, PromisesFrame
<1>10. CASE FinishEnumeration
  <2>0. Slips \subseteq BOOLEAN
    BY DEF Slips
  <2>1. PICK ok \in LastFlush, slip \in Slips :
          \/ pc' = "error" /\ ctx' = ctx
          \/ pc' = "drain" /\ ctx' = ctx /\ Proved(Streamed(ok, slip)) /\ tot' = Streamed(ok, slip)
          \/ pc' = "drain" /\ ctx' = ctx /\ token' = FALSE
          \/ pc' = pc /\ BeginPipeline(rows')
    BY <1>10, Zenon DEF FinishEnumeration
  <2>2. pc = "stream"
    BY <1>10 DEF FinishEnumeration, PipelineOver
  <2>3. CASE pc' = pc /\ BeginPipeline(rows')
    <3>1. Wanted' \ unread' = {} /\ st'.complete = FALSE /\ ctx' = rows'
      BY <2>3 DEF BeginPipeline, Wanted, NoStats
    <3> QED
      BY <2>2, <2>3, <3>1
         DEF Promises, ContextKnown, ReadIsKnown, CompleteIsRead, TokenProves, ReportProves
  <2>4. CASE pc' = "error" /\ ctx' = ctx
    BY <1>c, <2>4 DEF Promises, ContextKnown, ReadIsKnown, CompleteIsRead, TokenProves, ReportProves
  <2>5. CASE pc' = "drain" /\ ctx' = ctx /\ Proved(Streamed(ok, slip)) /\ tot' = Streamed(ok, slip)
    <3>1. Wanted' \subseteq Known' \/ tot'.swf
      BY <1>a, <2>0, <2>2, <2>5, ProofOfToken
    <3> QED
      BY <1>c, <2>5, <3>1
         DEF Promises, ContextKnown, ReadIsKnown, CompleteIsRead, TokenProves, ReportProves
  <2>6. CASE pc' = "drain" /\ ctx' = ctx /\ token' = FALSE
    BY <1>c, <2>6 DEF Promises, ContextKnown, ReadIsKnown, CompleteIsRead, TokenProves, ReportProves
  <2> QED
    BY <2>1, <2>3, <2>4, <2>5, <2>6
<1>11. CASE FinishRepair
  <2>1. PICK ok \in LastFlush, slip \in BOOLEAN :
          token' => tot' = Repaired(tot, Streamed(ok, slip)) /\ Proved(Streamed(ok, slip))
    BY <1>11 DEF FinishRepair, Slips
  <2>2. pc = "stream" /\ pc' = "drain" /\ ctx' = ctx
    BY <1>11 DEF FinishRepair, PipelineOver
  <2>3. token' => Wanted' \subseteq Known' \/ tot'.swf
    <3> SUFFICES ASSUME token' PROVE Wanted' \subseteq Known' \/ tot'.swf
      OBVIOUS
    <3>1. Wanted \subseteq Known \/ Streamed(ok, slip).swf
      BY <2>1, <2>2, ProofOfToken
    <3>2. Streamed(ok, slip).swf => Repaired(tot, Streamed(ok, slip)).swf
      BY <1>b, StreamedType, RepairedKeeps
    <3> QED
      BY <1>a, <2>1, <3>1, <3>2
  <2> QED
    BY <1>c, <2>2, <2>3
       DEF Promises, ContextKnown, ReadIsKnown, CompleteIsRead, TokenProves, ReportProves
<1>12. CASE DrainMetadata
  <2>1. tot'.swf = tot.swf
    BY <1>12, <1>b DEF DrainMetadata, Stats
  <2> QED
    BY <1>12, <1>a, <1>c, <2>1 DEF DrainMetadata, Promises, ContextKnown, ReadIsKnown,
       CompleteIsRead, TokenProves, ReportProves
<1>13. CASE BuildOutcome
  <2>1. pc = "outcome" /\ UNCHANGED <<ctx, tot, token>>
    BY <1>13 DEF BuildOutcome
  <2>2. \/ pc' \in {"cleanup", "error"}
        \/ pc' = "result" /\ result' = Report(tot, Incomplete(tot))
    BY <1>13 DEF BuildOutcome
  <2>3. /\ Report(tot, Incomplete(tot)).token = token
        /\ Report(tot, Incomplete(tot)).swf = tot.swf
    BY DEF Report
  <2> QED
    BY <1>a, <1>c, <2>1, <2>2, <2>3 DEF Promises, ContextKnown, ReadIsKnown,
       CompleteIsRead, TokenProves, ReportProves
<1>14. CASE FinishCleanup
  <2>1. PICK ok \in LastFlush : result' = Report(CleanedUp(tot, Streamed(ok, FALSE)), result.incomplete)
    BY <1>14 DEF FinishCleanup
  <2>2. result'.token = token /\ result'.swf = CleanedUp(tot, Streamed(ok, FALSE)).swf
    BY <2>1 DEF Report
  <2>3. tot.swf => CleanedUp(tot, Streamed(ok, FALSE)).swf
    BY <1>b, StreamedType, CleanedUpKeeps
  <2>4. pc = "cleanup" /\ pc' = "result" /\ ctx' = ctx
    BY <1>14 DEF FinishCleanup
  <2> QED
    BY <1>a, <1>c, <2>2, <2>3, <2>4 DEF Promises, ContextKnown, ReadIsKnown,
       CompleteIsRead, TokenProves, ReportProves
<1>15. CASE FinishRun
  BY <1>15, <1>a, <1>c DEF FinishRun, Promises, ContextKnown, ReadIsKnown, CompleteIsRead,
     TokenProves, ReportProves
<1>16. CASE UNCHANGED vars
  BY <1>16, <1>a, <1>c, PromisesFrame DEF vars, producer
<1> QED
  BY <1>1, <1>2, <1>3, <1>4, <1>5, <1>6, <1>7, <1>8, <1>9, <1>10, <1>11, <1>12, <1>13, <1>14,
     <1>15, <1>16 DEF Next, Process, Produce, Consume, Finish

-----------------------------------------------------------------------------
(* The theorems.                                                           *)

LEMMA PInvInit == Init => PInv
<1> SUFFICES ASSUME Init PROVE PInv
  OBVIOUS
<1>1. TypeOK
  BY TypeInit
<1>2. /\ rows = [a \in Assets |-> "none"] /\ ctx = rows /\ stage = Idle /\ deferred = {}
      /\ pc = "down"
  BY DEF Init
<1>3. DownloadedHasFile /\ FilesInPlace
  BY <1>2 DEF DownloadedHasFile, FilesInPlace, Idle
<1>4. ContextKnown /\ ReadIsKnown /\ CompleteIsRead /\ TokenProves /\ ReportProves
  BY <1>2 DEF ContextKnown, ReadIsKnown, CompleteIsRead, TokenProves, ReportProves
<1> QED
  BY <1>1, <1>3, <1>4 DEF PInv

LEMMA PInvStep == PInv /\ [Next]_vars => PInv'
BY TypeStep, FilesStep, PromisesStep DEF PInv, Files, Promises

\* Pipeline stays well-typed, with any assets, limits and faults: the producer's
\* hand, the channel and the counters of finalize.rs and pipeline.rs.
THEOREM PipelineTypes == Spec => []TypeOK
<1>1. TypeOK /\ [Next]_vars => TypeOK'
  BY TypeStep
<1> QED
  BY TypeInit, <1>1, PTL DEF Spec

\* The whole inductive invariant: a downloaded row has its file
\* (DownloadedHasFile) although publishing and recording are separate, failing,
\* deferrable steps, and a token is proved by what was enumerated for it.
THEOREM PipelineIsSound == Spec => []PInv
<1>1. PInv /\ [Next]_vars => PInv'
  BY PInvStep
<1> QED
  BY PInvInit, <1>1, PTL DEF Spec

\* A step keeps the report, withdraws it or makes one.
LEMMA SaidStep ==
  ASSUME TypeOK, [Next]_vars
  PROVE  Said' = Said \/ Said' = "none" \/ Said = "none"
<1>1. CASE pc \notin {"result", "done"} \/ pc' \notin {"result", "done"}
  BY <1>1 DEF Said
<1>2. CASE pc \in {"result", "done"} /\ pc' \in {"result", "done"}
  <2>1. result' = result
    BY <1>2 DEF Next, Process, Produce, Consume, Finish, StartRun, RequestShutdown, Crash,
       ReadAsset, ReadError, StopReading, SendTask, ProducerPanics, Polling, StartTransfer,
       CheckShutdown, Publish, TakeDownloaded, TakeFailed, TakeInterrupted, TakeSessionExpired,
       TakeExpiredUrl, UpdateMetadataMarker, ConsumerEnds, PipelineOver, FinishEnumeration,
       FinishRepair, DrainMetadata, BuildOutcome, FinishCleanup, FinishRun, vars
  <2> QED
    BY <1>2, <2>1 DEF Said, Advances
<1> QED
  BY <1>1, <1>2

\* A report is only withdrawn by a start or a crash, which teach nothing.
LEMMA WithdrawnStep ==
  ASSUME TypeOK, [Next]_vars, Said # "none", Said' = "none"
  PROVE  Known' = Known
<1>1. pc \in {"result", "done"} /\ pc' \notin {"result", "done"}
  BY DEF Said, Advances
<1>2. StartRun \/ Crash
  BY <1>1 DEF Next, Process, Produce, Consume, Finish, RequestShutdown,
     ReadAsset, ReadError, StopReading, SendTask, ProducerPanics, Polling, StartTransfer,
     CheckShutdown, Publish, TakeDownloaded, TakeFailed, TakeInterrupted, TakeSessionExpired,
     TakeExpiredUrl, UpdateMetadataMarker, ConsumerEnds, PipelineOver, FinishEnumeration,
     FinishRepair, DrainMetadata, BuildOutcome, FinishCleanup, FinishRun, vars
<1>3. CASE StartRun
  <2>1. disk' = disk /\ \A a \in Assets : rows'[a] # "none" <=> rows[a] # "none"
    BY <1>3 DEF StartRun, TypeOK
  <2> QED
    BY <2>1 DEF Known
<1>4. CASE Crash
  BY <1>4 DEF Crash, durable, Known
<1> QED
  BY <1>2, <1>3, <1>4

\* The pipeline implements LibraryRun: through cancellation, failed state
\* writes, the repair round, the clean-up pass and crashes, the SyncResult lets
\* source_checkpoint_decision advance only when every listed asset has a row or
\* a file.
THEOREM RunKeepsPromise == Spec => KeepsPromise
<1>1. Init => Run!RunInit
  <2> SUFFICES ASSUME Init PROVE Run!RunInit
    OBVIOUS
  <2>1. Known = {}
    BY DEF Init, Known
  <2>2. Said = "none"
    BY DEF Init, Said
  <2> QED
    BY <2>1, <2>2 DEF Run!RunInit, Wanted
<1>2. PInv /\ PInv' /\ [Next]_vars => [Run!RunNext]_Run!runVars
  <2> SUFFICES ASSUME PInv, PInv', [Next]_vars PROVE Run!RunNext
    OBVIOUS
  <2>1. Known \subseteq Known' /\ Wanted' = Wanted
    BY KnownStep DEF PInv, Remembers
  <2>2. Known' \in SUBSET Assets
    BY DEF Known
  <2>3. Said \in {"none", "hold", "advance"} /\ Said' \in {"none", "hold", "advance"}
    BY DEF Said
  <2>4. CASE Said' = Said
    BY <2>1, <2>2, <2>4 DEF Run!RunNext, Run!Learn
  <2>5. CASE Said # "none" /\ Said' = "none"
    BY <2>1, <2>5, WithdrawnStep DEF PInv, Run!RunNext, Run!StartLibrary
  <2>6. CASE Said = "none" /\ Said' = "hold"
    BY <2>1, <2>2, <2>6 DEF Run!RunNext, Run!ReportHold
  <2>7. CASE Said = "none" /\ Said' = "advance"
    <3>1. Wanted' \subseteq Known'
      BY <2>7 DEF PInv, ReportProves, Said, Advances
    <3> QED
      BY <2>1, <2>2, <2>7, <3>1 DEF Run!RunNext, Run!ReportAdvance
  <2> QED
    BY <2>3, <2>4, <2>5, <2>6, <2>7, SaidStep DEF PInv
<1>3. PInv /\ [Next]_vars => PInv'
  BY PInvStep
<1> QED
  BY <1>1, <1>2, <1>3, PInvInit, PTL DEF Spec, KeepsPromise, Run!RunSpec
-----------------------------------------------------------------------------
(* The circuit breaker.                                                    *)

Flying == IF pc = "cleanup" THEN CleanupConcurrency ELSE Concurrency

\* The transfers that are past their last look at the shutdown token.
Late == {a \in Assets : stage[a] \in {"checked", "landed"}}

\* Until the breaker opens fewer writes wait than its threshold; once it is
\* open no transfer passes the shutdown check any more, so that what waits and
\* what may still land are bounded together.
BreakerInv ==
  pc \in {"stream", "cleanup"} =>
    /\ Cardinality(InFlight) <= Flying
    /\ ~circuit => Cardinality(deferred) < CircuitThreshold
    /\ circuit => /\ cancel
                  /\ Cardinality(deferred) + Cardinality(Late) <= CircuitThreshold + Flying - 1

LEMMA Finite ==
  ASSUME NEW S \in SUBSET Assets
  PROVE  IsFiniteSet(S) /\ Cardinality(S) \in Nat
<1>1. IsFiniteSet(S)
  BY FS_Subset
<1> QED
  BY <1>1, FS_CardinalityType

LEMMA Fewer ==
  ASSUME NEW S \in SUBSET Assets, NEW T \in SUBSET S
  PROVE  Cardinality(T) <= Cardinality(S)
<1>1. IsFiniteSet(S)
  BY Finite
<1> QED
  BY <1>1, FS_Subset

LEMMA OneMore ==
  ASSUME NEW S \in SUBSET Assets, NEW a \in Assets
  PROVE  Cardinality(S \cup {a}) <= Cardinality(S) + 1
<1>1. IsFiniteSet(S) /\ Cardinality(S) \in Nat
  BY Finite
<1>2. Cardinality(S \cup {a}) = IF a \in S THEN Cardinality(S) ELSE Cardinality(S) + 1
  BY <1>1, FS_AddElement, Zenon
<1> QED
  BY <1>1, <1>2

LEMMA OneLess ==
  ASSUME NEW S \in SUBSET Assets, NEW a \in S
  PROVE  Cardinality(S \ {a}) = Cardinality(S) - 1
<1>1. IsFiniteSet(S) /\ Cardinality(S) \in Nat
  BY Finite
<1> QED
  BY <1>1, FS_RemoveElement

\* Transfers end, and nothing new passes the shutdown check.
LEMMA BreakerFrame ==
  ASSUME TypeOK, BreakerInv, pc' = pc, deferred' = deferred, circuit' = circuit,
         circuit => Late' \subseteq Late, InFlight' \subseteq InFlight, cancel => cancel'
  PROVE  BreakerInv'
<1>1. InFlight \in SUBSET Assets /\ InFlight' \in SUBSET Assets /\ deferred \in SUBSET Assets
      /\ Late \in SUBSET Assets /\ Late' \in SUBSET Assets
  BY DEF InFlight, Late, TypeOK
<1>2. /\ Cardinality(InFlight) \in Nat /\ Cardinality(InFlight') \in Nat
      /\ Cardinality(deferred) \in Nat /\ Cardinality(Late) \in Nat /\ Cardinality(Late') \in Nat
  BY <1>1, Finite
<1>3. Cardinality(InFlight') <= Cardinality(InFlight)
  BY <1>1, Fewer
<1>4. circuit => Cardinality(Late') <= Cardinality(Late)
  BY <1>1, Fewer
<1>5. Flying' = Flying /\ Flying \in Nat
  BY DEF Flying
<1> QED
  BY <1>2, <1>3, <1>4, <1>5 DEF BreakerInv

\* A pipeline begins with nothing in flight and nothing deferred.
LEMMA BreakerFresh ==
  ASSUME stage' = Idle, deferred' = {}, circuit' = FALSE
  PROVE  BreakerInv'
<1>1. InFlight' = {}
  BY DEF InFlight, Idle
<1>2. Cardinality({}) = 0
  BY FS_EmptySet
<1> QED
  BY <1>1, <1>2 DEF BreakerInv, Flying

LEMMA BreakerDownloaded ==
  ASSUME TypeOK, BreakerInv, NEW a \in Assets, TakeDownloaded(a)
  PROVE  BreakerInv'
<1>0. /\ pc \in {"stream", "cleanup"} /\ pc' = pc /\ a \in Late /\ a \in InFlight
      /\ stage' = [stage EXCEPT ![a] = "idle"]
  BY DEF TakeDownloaded, Polling, Landed, Late, InFlight
<1>1. Late' = Late \ {a} /\ InFlight' = InFlight \ {a} /\ Late' \subseteq InFlight'
  BY <1>0 DEF Late, InFlight, TypeOK
<1>2. InFlight \in SUBSET Assets /\ InFlight' \in SUBSET Assets /\ deferred \in SUBSET Assets
      /\ Late \in SUBSET Assets /\ Late' \in SUBSET Assets
  BY DEF InFlight, Late, TypeOK
<1>3. CASE UNCHANGED <<deferred, circuit, cancel>>
  BY <1>0, <1>1, <1>3, BreakerFrame
<1>4. CASE Defer(a)
  <2> DEFINE writes == deferred \cup {a}
  <2>0. writes \in SUBSET Assets /\ Flying' = Flying /\ Flying \in Nat
    BY <1>0, <1>2 DEF Flying
  <2>1. /\ Cardinality(InFlight) \in Nat /\ Cardinality(deferred) \in Nat
        /\ Cardinality(Late) \in Nat /\ Cardinality(Late') \in Nat
        /\ Cardinality(InFlight') \in Nat /\ Cardinality(writes) \in Nat
    BY <1>2, <2>0, Finite
  <2>2. /\ Cardinality(InFlight') = Cardinality(InFlight) - 1
        /\ Cardinality(Late') = Cardinality(Late) - 1
        /\ Cardinality(Late') <= Cardinality(InFlight')
    BY <1>0, <1>1, <1>2, OneLess, Fewer
  <2>3. Cardinality(writes) <= Cardinality(deferred) + 1
    BY <1>2, OneMore
  <2>4. CASE circuit
    <3>1. deferred' = writes /\ circuit' /\ cancel'
      BY <1>0, <1>4, <2>4 DEF Defer, BreakerInv
    <3> QED
      BY <1>0, <2>0, <2>1, <2>2, <2>3, <2>4, <3>1 DEF BreakerInv
  <2>5. CASE ~circuit /\ Cardinality(writes) < CircuitThreshold
    <3>1. deferred' = writes /\ ~circuit'
      BY <1>4, <2>5 DEF Defer
    <3> QED
      BY <1>0, <2>0, <2>1, <2>2, <2>5, <3>1 DEF BreakerInv
  <2>6. CASE ~circuit /\ ~(Cardinality(writes) < CircuitThreshold)
    <3>1. PICK ok \in Flushed(writes) :
            /\ deferred' = writes \ ok
            /\ circuit' = CircuitOpens(writes, ok)
            /\ cancel' = (cancel \/ circuit')
      BY <1>4, <2>6 DEF Defer
    <3>2. Cardinality(writes) = CircuitThreshold
      BY <1>0, <2>1, <2>3, <2>6 DEF BreakerInv
    <3>3. CASE ok = {}
      <4>0. CircuitOpens(writes, ok) /\ writes \ ok = writes
        BY <2>1, <3>2, <3>3 DEF CircuitOpens
      <4>1. circuit' /\ cancel' /\ deferred' = writes
        BY <3>1, <4>0, Zenon
      <4> QED
        BY <1>0, <2>0, <2>1, <2>2, <3>2, <4>1 DEF BreakerInv
    <3>4. CASE ok # {}
      <4>1. ~circuit'
        BY <3>1, <3>4 DEF CircuitOpens
      <4>2. PICK b \in ok : TRUE
        BY <3>4
      <4>3. b \in writes /\ writes \ ok \in SUBSET (writes \ {b})
        BY <4>2 DEF Flushed
      <4>4. Cardinality(writes \ {b}) = Cardinality(writes) - 1
        BY <2>0, <4>3, OneLess
      <4>5. writes \ {b} \in SUBSET Assets
        BY <2>0
      <4>6. Cardinality(writes \ ok) <= Cardinality(writes \ {b}) /\ Cardinality(writes \ ok) \in Nat
        BY <2>0, <4>3, <4>5, Fewer, Finite
      <4>7. Cardinality(deferred') < CircuitThreshold
        BY <3>1, <3>2, <4>4, <4>6
      <4> QED
        BY <1>0, <2>0, <2>1, <2>2, <4>1, <4>7 DEF BreakerInv
    <3> QED
      BY <3>3, <3>4
  <2> QED
    BY <2>4, <2>5, <2>6
<1> QED
  BY <1>3, <1>4 DEF TakeDownloaded

LEMMA BreakerStart ==
  ASSUME TypeOK, BreakerInv, StartTransfer
  PROVE  BreakerInv'
<1>0. /\ pc \in {"stream", "cleanup"} /\ UNCHANGED <<pc, deferred, circuit, cancel>>
      /\ Cardinality(InFlight) < Flying
  BY DEF StartTransfer, Polling, Flying
<1>1. Head(chan) \in Assets
  BY DEF StartTransfer, TypeOK
<1>2. InFlight' \subseteq InFlight \cup {Head(chan)} /\ Late' \subseteq Late
  BY <1>1 DEF StartTransfer, InFlight, Late, TypeOK
<1>3. InFlight \in SUBSET Assets /\ InFlight \cup {Head(chan)} \in SUBSET Assets
      /\ Late \in SUBSET Assets /\ Late' \in SUBSET Assets /\ InFlight' \in SUBSET Assets
      /\ deferred \in SUBSET Assets
  BY <1>1 DEF InFlight, Late, TypeOK
<1>4. /\ Cardinality(InFlight') <= Cardinality(InFlight \cup {Head(chan)})
      /\ Cardinality(Late') <= Cardinality(Late)
  BY <1>2, <1>3, Fewer
<1>5. Cardinality(InFlight \cup {Head(chan)}) <= Cardinality(InFlight) + 1
  BY <1>1, <1>3, OneMore
<1>6. /\ Cardinality(InFlight) \in Nat /\ Cardinality(InFlight') \in Nat
      /\ Cardinality(Late) \in Nat /\ Cardinality(Late') \in Nat
      /\ Cardinality(InFlight \cup {Head(chan)}) \in Nat /\ Cardinality(deferred) \in Nat
  BY <1>3, Finite
<1>7. Flying' = Flying /\ Flying \in Nat
  BY <1>0 DEF Flying
<1> QED
  BY <1>0, <1>4, <1>5, <1>6, <1>7 DEF BreakerInv

LEMMA BreakerStep == TypeOK /\ BreakerInv /\ [Next]_vars => BreakerInv'
<1> SUFFICES ASSUME TypeOK, BreakerInv, [Next]_vars PROVE BreakerInv'
  OBVIOUS
<1>1. CASE StartRun
  BY <1>1, BreakerFresh DEF StartRun, BeginPipeline
<1>2. CASE pc' \notin {"stream", "cleanup"}
  BY <1>2 DEF BreakerInv
<1>3. CASE UNCHANGED <<pc, stage, deferred, circuit>> /\ (cancel => cancel')
  BY <1>3, BreakerFrame DEF Late, InFlight
<1>4. ASSUME NEW a \in Assets, ReadAsset(a) \/ ReadError(a) PROVE BreakerInv'
  BY <1>3, <1>4 DEF ReadAsset, ReadError, consumer
<1>5. CASE RequestShutdown \/ StopReading \/ SendTask \/ ProducerPanics \/ UpdateMetadataMarker
           \/ ConsumerEnds
  BY <1>3, <1>5 DEF RequestShutdown, StopReading, SendTask, ProducerPanics, UpdateMetadataMarker,
     ConsumerEnds, consumer
<1>6. ASSUME NEW a \in Assets, CheckShutdown(a) PROVE BreakerInv'
  <2>1. /\ pc' = pc /\ deferred' = deferred /\ circuit' = circuit /\ cancel' = cancel
        /\ InFlight' \subseteq InFlight
    BY <1>6 DEF CheckShutdown, InFlight, TypeOK
  <2>2. ~circuit
    BY <1>6 DEF CheckShutdown, Polling, BreakerInv, Cancelled
  <2> QED
    BY <2>1, <2>2, BreakerFrame
<1>7. ASSUME NEW a \in Assets, Publish(a) PROVE BreakerInv'
  <2>1. /\ pc' = pc /\ deferred' = deferred /\ circuit' = circuit /\ cancel' = cancel
        /\ InFlight' \subseteq InFlight /\ Late' \subseteq Late
    BY <1>7 DEF Publish, InFlight, Late, TypeOK
  <2> QED
    BY <2>1, BreakerFrame
<1>8. ASSUME NEW a \in Assets,
             TakeFailed(a) \/ TakeInterrupted(a) \/ TakeSessionExpired(a) \/ TakeExpiredUrl(a)
      PROVE  BreakerInv'
  <2>1. /\ pc' = pc /\ deferred' = deferred /\ circuit' = circuit /\ (cancel => cancel')
        /\ stage' = Idle \/ stage' = [stage EXCEPT ![a] = "idle"]
    BY <1>8 DEF TakeFailed, TakeInterrupted, TakeSessionExpired, TakeExpiredUrl
  <2>2. InFlight' \subseteq InFlight /\ Late' \subseteq Late
    BY <2>1 DEF Idle, InFlight, Late, TypeOK
  <2> QED
    BY <2>1, <2>2, BreakerFrame
<1>9. CASE FinishEnumeration
  <2>1. pc' \in {"error", "drain"} \/ BeginPipeline(rows')
    BY <1>9, Zenon DEF FinishEnumeration
  <2> QED
    BY <1>2, <2>1, BreakerFresh DEF BeginPipeline
<1>10. CASE BuildOutcome
  <2>1. pc' \in {"result", "error"} \/ (stage' = Idle /\ deferred' = {} /\ circuit' = FALSE)
    BY <1>10 DEF BuildOutcome
  <2> QED
    BY <1>2, <2>1, BreakerFresh
<1>11. CASE Crash \/ FinishRepair \/ DrainMetadata \/ FinishCleanup \/ FinishRun
  BY <1>2, <1>11 DEF Crash, FinishRepair, DrainMetadata, FinishCleanup, FinishRun
<1>12. CASE UNCHANGED vars
  BY <1>3, <1>12 DEF vars, consumer
<1> QED
  BY <1>1, <1>4, <1>5, <1>6, <1>7, <1>8, <1>9, <1>10, <1>11, <1>12, BreakerDownloaded, BreakerStart
     DEF Next, Process, Produce, Consume, Finish

\* However the state database fails, kei publishes at most
\* STATE_DB_UNWRITABLE_THRESHOLD files and those already in flight without
\* recording them: the breaker of finalize_downloaded stops the pipeline.
THEOREM UntrackedAreBounded == Spec => []UntrackedBounded
<1>1. Init => TypeOK /\ BreakerInv
  BY TypeInit DEF Init, BreakerInv
<1>2. (TypeOK /\ BreakerInv) /\ [Next]_vars => (TypeOK /\ BreakerInv)'
  BY TypeStep, BreakerStep
<1>3. TypeOK /\ BreakerInv => UntrackedBounded
  <2> SUFFICES ASSUME TypeOK, BreakerInv, pc \in {"stream", "cleanup"}
               PROVE  Cardinality(deferred) <= CircuitThreshold + Flying - 1
    BY DEF UntrackedBounded, Flying
  <2>1. Late \in SUBSET Assets /\ deferred \in SUBSET Assets
    BY DEF Late, TypeOK
  <2>2. Cardinality(Late) \in Nat /\ Cardinality(deferred) \in Nat /\ Flying \in Nat \ {0}
    BY <2>1, Finite DEF Flying
  <2> QED
    BY <2>2 DEF BreakerInv
<1> QED
  BY <1>1, <1>2, <1>3, PTL DEF Spec
=============================================================================
