----------------------- MODULE PipelineOutcomeProofs -----------------------
(***************************************************************************)
(* What an outcome of Success means: the proof that every selected asset   *)
(* is on disk, followed from the producer's hand through the channel, the  *)
(* transfers, the repair round and the clean-up pass to the SyncResult.    *)
(***************************************************************************)
EXTENDS PipelineProofs

\* The hypotheses of the theorem.  The clean-up pass finds every failed task
\* again and no row is out of attempts: either would be dropped from the
\* outcome.  The merged result keeps the inventory counts of the first round,
\* so that a first round of nothing but unreadable records hides a repair that
\* the disk forecast cuts short: not both can happen.
Recounted == /\ {"unrefreshed", "exhausted"} \cap PipeFaults = {}
             /\ ~({"enum", "disk"} \subseteq PipeFaults)

OnDisk(a) == kind[a] = "task" => disk[a] # "none"
Queued(q, a) == \E i \in 1..Len(q) : q[i] = a
SessionOver(s) == s.auth >= AuthThreshold

\* The disk forecast stopped the producer in the middle of the enumeration.
CutShort(s) == "disk" \in PipeFaults /\ ~s.complete /\ s.seen

\* Why a pipeline may leave assets behind and still not report Success.
Excused(s) == s.swf \/ s.errs \/ s.url \/ SessionOver(s) \/ shutdown \/ CutShort(s)

\* Every asset is on disk, or the counters say what happened to it.
Accounted(s) == \A a \in Assets : OnDisk(a) \/ a \in s.failed \/ Excused(s)

\* Why a producer stops before the stream ends.
Stopped == \/ st.url \/ SessionOver(st) \/ shutdown \/ circuit
           \/ pst = "done" /\ CutShort(st)

\* What the producer has read is on disk, on its way, or accounted for.
Followed ==
  \A a \in Assets \ unread :
    \/ OnDisk(a) \/ out = a \/ Queued(chan, a) \/ stage[a] # "idle"
    \/ a \in st.failed \/ st.swf \/ st.errs \/ pst = "panicked" \/ Stopped

\* The producer only stops early for a reason, and the pipeline is only
\* cancelled for one.
EarlyStop ==
  /\ pst = "done" /\ unread # {} => Stopped
  /\ cst = "stopped" /\ pst \in {"run", "send"} => SessionOver(st)
  /\ cancel => st.url \/ circuit \/ (pst = "done" /\ CutShort(st))
  /\ pst \in {"run", "send"} => ~st.complete
  /\ pst = "send" => st.seen
  /\ "disk" \in PipeFaults => st.seen \/ unread = Assets

\* The consumer leaves nothing behind.
Emptied == cst = "stopped" => chan = <<>> /\ stage = Idle

\* What a first round that saw nothing leaves to say.
Forgiven(t) == t.url \/ SessionOver(t) \/ shutdown \/ Assets = {}

StreamInv ==
  pc = "stream" =>
    /\ Followed /\ EarlyStop /\ Emptied
    /\ round = 2 => /\ Accounted(tot)
                    /\ "disk" \in PipeFaults => tot.seen \/ Forgiven(tot)

TotalInv == pc \in {"drain", "outcome"} => Accounted(tot)

\* The clean-up pass has every missing task in hand, or a reason to report.
CleanupInv ==
  pc = "cleanup" =>
    /\ \A a \in Assets : \/ OnDisk(a) \/ Queued(chan, a) \/ stage[a] # "idle"
                         \/ st.failed # {} \/ tot.swf \/ tot.errs \/ shutdown
                         \/ result.incomplete \/ circuit
    /\ cancel => circuit \/ st.failed # {}
    /\ circuit => deferred # {}
    /\ Emptied

OutcomeInv == StreamInv /\ TotalInv /\ CleanupInv /\ SuccessMeansOnDisk
USE AssetsAssumption, LimitsAssumption, PipeFaultsAssumption

-----------------------------------------------------------------------------
(* Lemmas about the operators.                                             *)

\* Every order in which a set is queued holds every member of the set.
LEMMA QueueHoldsAll ==
  ASSUME NEW S \in SUBSET Assets, NEW q \in SetToSeqs(S), NEW a \in S
  PROVE  Queued(q, a)
<1> DEFINE D == 1..Cardinality(S)
<1>1. IsFiniteSet(S) /\ Cardinality(S) \in Nat
  BY Finite
<1>2. q \in [D -> S] /\ \A i, j \in D : i # j => q[i] # q[j]
  BY DEF SetToSeqs
<1>3. q \in Injection(D, S)
  BY <1>2 DEF Injection, IsInjective
<1>4. Cardinality(D) = Cardinality(S)
  BY <1>1, FS_Interval
<1>5. q \in Surjection(D, S)
  BY <1>1, <1>3, <1>4, FS_Injection
<1>6. PICK i \in D : q[i] = a
  BY <1>5 DEF Surjection
<1>7. Len(q) = Cardinality(S)
  BY <1>1, <1>2
<1> QED
  BY <1>6, <1>7 DEF Queued

LEMMA AppendHolds ==
  ASSUME NEW q \in Seq(Assets), NEW b \in Assets, NEW a, Queued(q, a) \/ a = b
  PROVE  Queued(Append(q, b), a)
<1>1. CASE Queued(q, a)
  <2>1. PICK i \in 1..Len(q) : q[i] = a
    BY <1>1 DEF Queued
  <2>2. i \in 1..Len(Append(q, b)) /\ Append(q, b)[i] = a
    BY <2>1
  <2> QED
    BY <2>2 DEF Queued
<1>2. CASE a = b
  <2>1. Len(q) + 1 \in 1..Len(Append(q, b)) /\ Append(q, b)[Len(q) + 1] = a
    BY <1>2
  <2> QED
    BY <2>1 DEF Queued
<1> QED
  BY <1>1, <1>2

LEMMA TailHolds ==
  ASSUME NEW q \in Seq(Assets), q # <<>>, NEW a, Queued(q, a), a # Head(q)
  PROVE  Queued(Tail(q), a)
<1>1. PICK i \in 1..Len(q) : q[i] = a
  BY DEF Queued
<1>2. i # 1
  BY <1>1
<1>3. i - 1 \in 1..Len(Tail(q)) /\ Tail(q)[i - 1] = a
  BY <1>1, <1>2
<1> QED
  BY <1>3 DEF Queued

LEMMA EmptyHoldsNone == \A a : ~Queued(<<>>, a)
  BY DEF Queued

\* The last flush only adds a failed state write to the counters.
LEMMA StreamedFields ==
  ASSUME st \in Stats, NEW ok, NEW slip \in BOOLEAN
  PROVE  LET s == Streamed(ok, slip) IN
         /\ s.failed = st.failed /\ s.auth = st.auth /\ s.errs = st.errs
         /\ s.complete = st.complete /\ s.url = st.url /\ s.seen = st.seen
         /\ st.swf => s.swf
         /\ ok # deferred => s.swf
  BY DEF Streamed, Stats

LEMMA RepairedFields ==
  ASSUME NEW t \in Stats, NEW s \in Stats
  PROVE  LET m == Repaired(t, s) IN
         /\ m.failed = t.failed \cup s.failed /\ m.auth = t.auth + s.auth /\ m.seen = t.seen
         /\ t.swf => m.swf
         /\ s.swf => m.swf
         /\ t.url => m.url
         /\ s.url => m.url
         /\ ~Proved(t) => m.complete = s.complete /\ m.errs = s.errs
         /\ Proved(t) /\ ~s.complete => ~m.complete
<1>1. Merged(t, s) \in Stats
  BY MergedType
<1> QED
  BY <1>1 DEF Repaired, Merged, Proved, Stats

LEMMA CleanedUpFields ==
  ASSUME NEW t \in Stats, NEW s \in Stats
  PROVE  LET m == CleanedUp(t, s) IN
         /\ m.failed = s.failed
         /\ m.swf = (t.swf \/ s.swf) /\ m.errs = (t.errs \/ s.errs)
<1>1. Merged(t, s) \in Stats
  BY MergedType
<1> QED
  BY <1>1 DEF CleanedUp, Merged, Stats

\* The merged result accounts for what either round left behind: a proved
\* first round by itself, any other through its repair.
LEMMA RepairedAccounts ==
  ASSUME NEW t \in Stats, NEW s \in Stats, Accounted(t), Accounted(s),
         "disk" \in PipeFaults => t.seen \/ Forgiven(t)
  PROVE  Accounted(Repaired(t, s))
<1> DEFINE m == Repaired(t, s)
<1>0. /\ t.auth \in Nat /\ s.auth \in Nat /\ t.complete \in BOOLEAN /\ s.complete \in BOOLEAN
      /\ t.errs \in BOOLEAN
  BY DEF Stats
<1>1. /\ m.failed = t.failed \cup s.failed /\ m.auth = t.auth + s.auth /\ m.seen = t.seen
      /\ t.swf => m.swf
      /\ s.swf => m.swf
      /\ t.url => m.url
      /\ s.url => m.url
      /\ ~Proved(t) => m.complete = s.complete /\ m.errs = s.errs
      /\ Proved(t) /\ ~s.complete => ~m.complete
  BY RepairedFields
<1>2. (SessionOver(t) => SessionOver(m)) /\ (SessionOver(s) => SessionOver(m))
  BY <1>0, <1>1 DEF SessionOver
<1> HIDE DEF m
<1>3. CASE Proved(t)
  <2>1. Excused(t) => Excused(m)
    BY <1>1, <1>2, <1>3 DEF Excused, Proved, CutShort
  <2> QED
    BY <1>1, <2>1 DEF Accounted, m
<1>4. CASE ~Proved(t)
  <2>1. Excused(s) => Excused(m) \/ Assets = {}
    BY <1>1, <1>2, <1>4 DEF Excused, CutShort, Forgiven
  <2> QED
    BY <1>1, <2>1 DEF Accounted, m
<1> QED
  BY <1>3, <1>4

LEMMA UnrepairedAccounts ==
  ASSUME NEW t \in Stats, Accounted(t)
  PROVE  Accounted(Unrepaired(t))
<1>1. ~Proved(t) => Unrepaired(t).errs
  BY DEF Unrepaired, Stats
<1>2. Proved(t) => Unrepaired(t) = t
  BY DEF Unrepaired
<1> QED
  BY <1>1, <1>2 DEF Accounted, Excused

-----------------------------------------------------------------------------
(* Steps.                                                                  *)

\* A published file stays.
FilesStay == kind' = kind /\ \A a \in Assets : disk[a] # "none" => disk'[a] # "none"

LEMMA FilesStayStep ==
  ASSUME TypeOK, [Next]_vars
  PROVE  FilesStay
<1> USE DEF FilesStay
<1>1. CASE UNCHANGED <<kind, disk>>
  BY <1>1
<1>2. ASSUME NEW a \in Assets, Publish(a) PROVE FilesStay
  BY <1>2 DEF Publish, TypeOK
<1>3. CASE DrainMetadata
  BY <1>3 DEF DrainMetadata, TypeOK
<1>4. ASSUME NEW a \in Assets,
             \/ ReadAsset(a) \/ ReadError(a) \/ CheckShutdown(a) \/ TakeDownloaded(a) \/ TakeFailed(a)
             \/ TakeInterrupted(a) \/ TakeSessionExpired(a) \/ TakeExpiredUrl(a)
      PROVE  FilesStay
  BY <1>1, <1>4 DEF ReadAsset, ReadError, CheckShutdown, TakeDownloaded, TakeFailed,
     TakeInterrupted, TakeSessionExpired, TakeExpiredUrl, durable
<1>5. CASE \/ StartRun \/ RequestShutdown \/ Crash \/ ProducerPanics \/ StopReading \/ SendTask
           \/ StartTransfer \/ UpdateMetadataMarker \/ ConsumerEnds
  BY <1>1, <1>5 DEF StartRun, RequestShutdown, Crash, ProducerPanics, StopReading, SendTask,
     StartTransfer, UpdateMetadataMarker, ConsumerEnds, durable
<1>6. CASE FinishEnumeration \/ FinishRepair \/ BuildOutcome \/ FinishCleanup \/ FinishRun
  BY <1>1, <1>6 DEF FinishEnumeration, FinishRepair, BuildOutcome, FinishCleanup, FinishRun, durable
<1>7. CASE UNCHANGED vars
  BY <1>1, <1>7 DEF vars, durable
<1> QED
  BY <1>2, <1>3, <1>4, <1>5, <1>6, <1>7 DEF Next, Process, Produce, Consume, Finish

LEMMA AccountedStays ==
  ASSUME FilesStay, shutdown => shutdown', NEW t, Accounted(t)
  PROVE  \A a \in Assets : OnDisk(a)' \/ a \in t.failed \/ t.swf \/ t.errs \/ t.url \/ SessionOver(t)
                           \/ shutdown' \/ CutShort(t)
  BY DEF FilesStay, Accounted, OnDisk, Excused

\* The counters of a running pipeline only grow.
Counts == /\ st.url => st'.url
          /\ st.swf => st'.swf
          /\ st.errs => st'.errs
          /\ st.seen => st'.seen
          /\ st'.complete = st.complete
          /\ st.failed \subseteq st'.failed
          /\ st.auth <= st'.auth
Ongoing == /\ shutdown => shutdown'
           /\ circuit => circuit'
           /\ pst = "done" => pst' = "done"
           /\ pst = "panicked" => pst' = "panicked"

LEMMA StoppedStays ==
  ASSUME TypeOK, TypeOK', Counts, Ongoing, Stopped
  PROVE  Stopped'
<1>1. st.auth \in Nat /\ st'.auth \in Nat
  BY DEF TypeOK, Stats
<1> QED
  BY <1>1 DEF Counts, Ongoing, Stopped, CutShort, SessionOver

LEMMA FollowedStep ==
  ASSUME TypeOK, TypeOK', Followed, FilesStay, Counts, Ongoing, unread' = unread,
         \A a \in Assets : out = a \/ Queued(chan, a) \/ stage[a] # "idle" =>
           \/ out' = a \/ Queued(chan', a) \/ stage'[a] # "idle"
           \/ disk[a] # "none" \/ a \in st'.failed \/ pst' = "panicked" \/ Stopped'
  PROVE  Followed'
<1> SUFFICES ASSUME NEW a \in Assets, a \notin unread
             PROVE  \/ OnDisk(a)' \/ out' = a \/ Queued(chan', a) \/ stage'[a] # "idle"
                    \/ a \in st'.failed \/ st'.swf \/ st'.errs \/ pst' = "panicked" \/ Stopped'
  BY DEF Followed
<1>1. OnDisk(a) \/ disk[a] # "none" => OnDisk(a)'
  BY DEF FilesStay, OnDisk
<1>2. Stopped => Stopped'
  BY StoppedStays
<1>3. \/ OnDisk(a) \/ out = a \/ Queued(chan, a) \/ stage[a] # "idle"
      \/ a \in st.failed \/ st.swf \/ st.errs \/ pst = "panicked" \/ Stopped
  BY DEF Followed
<1> QED
  BY <1>1, <1>2, <1>3 DEF Counts, Ongoing

LEMMA EarlyStopStep ==
  ASSUME TypeOK, TypeOK', EarlyStop, Counts, Ongoing, unread' = unread, pst' = pst,
         cst' = "stopped" /\ pst \in {"run", "send"} => cst = "stopped" \/ SessionOver(st'),
         cancel' => cancel \/ st'.url \/ circuit'
  PROVE  EarlyStop'
<1>1. Stopped => Stopped'
  BY StoppedStays
<1>2. SessionOver(st) => SessionOver(st')
  BY DEF TypeOK, Stats, Counts, SessionOver
<1> QED
  BY <1>1, <1>2 DEF EarlyStop, Counts, Ongoing, CutShort

LEMMA WithinStream ==
  ASSUME OutcomeInv, FilesStay, pc = "stream", pc' = "stream", UNCHANGED <<round, tot>>,
         shutdown => shutdown', Followed', EarlyStop', Emptied'
  PROVE  OutcomeInv'
<1>1. round = 2 => Accounted(tot)'
  BY AccountedStays DEF OutcomeInv, StreamInv, Accounted, Excused, SessionOver, CutShort, OnDisk
<1> QED
  BY <1>1 DEF OutcomeInv, StreamInv, TotalInv, CleanupInv, SuccessMeansOnDisk, Forgiven, SessionOver

LEMMA WithinCleanup ==
  ASSUME OutcomeInv, FilesStay, pc = "cleanup", pc' = "cleanup", UNCHANGED <<tot, result>>,
         shutdown => shutdown', circuit => circuit', st.failed \subseteq st'.failed,
         \A a \in Assets : Queued(chan, a) \/ stage[a] # "idle" =>
           \/ Queued(chan', a) \/ stage'[a] # "idle" \/ disk[a] # "none" \/ st'.failed # {}
           \/ shutdown' \/ circuit',
         cancel' => cancel \/ circuit' \/ st'.failed # {},
         circuit' => deferred' # {},
         Emptied'
  PROVE  OutcomeInv'
<1>1. ASSUME NEW a \in Assets
      PROVE  \/ OnDisk(a)' \/ Queued(chan', a) \/ stage'[a] # "idle"
             \/ st'.failed # {} \/ tot.swf \/ tot.errs \/ shutdown'
             \/ result.incomplete \/ circuit'
  <2>1. OnDisk(a) \/ disk[a] # "none" => OnDisk(a)'
    BY DEF FilesStay, OnDisk
  <2>2. \/ OnDisk(a) \/ Queued(chan, a) \/ stage[a] # "idle"
        \/ st.failed # {} \/ tot.swf \/ tot.errs \/ shutdown
        \/ result.incomplete \/ circuit
    BY DEF OutcomeInv, CleanupInv
  <2> QED
    BY <2>1, <2>2
<1>2. cancel' => circuit' \/ st'.failed # {}
  BY DEF OutcomeInv, CleanupInv
<1>3. CleanupInv'
  BY <1>1, <1>2 DEF CleanupInv
<1> QED
  BY <1>3 DEF OutcomeInv, StreamInv, TotalInv, SuccessMeansOnDisk

\* A new pipeline has read nothing and counted nothing.
LEMMA FreshStream ==
  ASSUME NEW c, BeginPipeline(c)
  PROVE  Followed' /\ EarlyStop' /\ Emptied'
<1>1. /\ unread' = Assets /\ pst' = "run" /\ cst' = "run" /\ cancel' = FALSE /\ st' = NoStats
  BY DEF BeginPipeline
<1>2. ~st'.complete
  BY <1>1 DEF NoStats
<1> QED
  BY <1>1, <1>2 DEF Followed, EarlyStop, Emptied
-----------------------------------------------------------------------------
(* The producer.                                                           *)

LEMMA OutcomeRead ==
  ASSUME Recounted, TypeOK, TypeOK', OutcomeInv, FilesStay, NEW a \in Assets, ReadAsset(a)
  PROVE  OutcomeInv'
<1>0. /\ pc = "stream" /\ pc' = "stream" /\ pst = "run" /\ ~cancel /\ ~shutdown
      /\ a \in unread /\ unread' = unread \ {a}
      /\ UNCHANGED <<round, tot, shutdown, cancel, disk, kind, chan, cst, stage, circuit>>
  BY DEF ReadAsset, Cancelled, consumer
<1>1. Followed /\ EarlyStop /\ Emptied
  BY <1>0 DEF OutcomeInv, StreamInv
<1>2. PICK slip \in BOOLEAN : PlanAsset(a, slip)
  BY DEF ReadAsset
<1> DEFINE seen == [st EXCEPT !.seen = TRUE, !.swf = @ \/ slip]
<1>3. /\ seen \in Stats /\ seen.errs = st.errs /\ seen.complete = st.complete /\ seen.seen
      /\ seen.url = st.url /\ seen.failed = st.failed /\ seen.auth = st.auth
      /\ st.swf => seen.swf
  BY DEF Stats, TypeOK
<1>4. st' \in {seen, [seen EXCEPT !.swf = TRUE], [seen EXCEPT !.errs = TRUE]}
  BY <1>2 DEF PlanAsset, Recounted
<1>5. \/ OnDisk(a) \/ (pst' = "send" /\ out' = a)
      \/ st' = [seen EXCEPT !.swf = TRUE] \/ st' = [seen EXCEPT !.errs = TRUE]
  BY <1>2 DEF PlanAsset, Recounted, OnDisk
<1>6. pst' \in {"run", "send"} /\ out = NoAsset
  BY <1>0, <1>2 DEF PlanAsset, TypeOK
<1> HIDE DEF seen
<1>7. /\ st.auth \in Nat /\ st'.auth = st.auth /\ st'.seen /\ st'.url = st.url
      /\ st'.failed = st.failed /\ st'.complete = st.complete
      /\ st.swf => st'.swf
      /\ st.errs => st'.errs
  BY <1>3, <1>4 DEF Stats, TypeOK
<1>8. OnDisk(a) \/ (pst' = "send" /\ out' = a) \/ st'.swf \/ st'.errs
  BY <1>3, <1>5 DEF Stats
<1>9. Followed'
  <2> SUFFICES ASSUME NEW b \in Assets, b \notin unread'
               PROVE  \/ OnDisk(b)' \/ out' = b \/ Queued(chan', b) \/ stage'[b] # "idle"
                      \/ b \in st'.failed \/ st'.swf \/ st'.errs \/ pst' = "panicked" \/ Stopped'
    BY DEF Followed
  <2>1. CASE b = a
    BY <1>0, <1>8, <2>1 DEF OnDisk
  <2>2. CASE b # a
    <3>1. \/ OnDisk(b) \/ Queued(chan, b) \/ stage[b] # "idle"
          \/ b \in st.failed \/ st.swf \/ st.errs \/ Stopped
      BY <1>0, <1>1, <1>6, <2>2 DEF Followed
    <3>2. Stopped => Stopped'
      BY <1>0, <1>7 DEF Stopped, SessionOver
    <3> QED
      BY <1>0, <1>7, <3>1, <3>2 DEF OnDisk
  <2> QED
    BY <2>1, <2>2
<1>10. EarlyStop'
  BY <1>0, <1>1, <1>6, <1>7 DEF EarlyStop, SessionOver
<1> QED
  BY <1>0, <1>1, <1>9, <1>10, WithinStream DEF Emptied

LEMMA OutcomeReadError ==
  ASSUME Recounted, TypeOK, TypeOK', OutcomeInv, FilesStay, NEW a \in Assets, ReadError(a)
  PROVE  OutcomeInv'
<1>0. /\ pc = "stream" /\ pc' = "stream" /\ pst = "run" /\ ~cancel
      /\ UNCHANGED <<round, tot, shutdown, cancel, pst, out, chan, cst, stage, circuit>>
      /\ "disk" \notin PipeFaults
  BY DEF ReadError, Cancelled, consumer, Recounted
<1>1. Followed /\ EarlyStop /\ Emptied
  BY <1>0 DEF OutcomeInv, StreamInv
<1>2. st'.errs /\ st'.complete = st.complete /\ st'.auth = st.auth
  BY DEF ReadError, TypeOK, Stats
<1>3. Followed'
  BY <1>2 DEF Followed
<1>4. EarlyStop'
  BY <1>0, <1>1, <1>2 DEF EarlyStop, SessionOver
<1> QED
  BY <1>0, <1>1, <1>3, <1>4, WithinStream DEF Emptied

LEMMA OutcomeStopReading ==
  ASSUME TypeOK, TypeOK', OutcomeInv, FilesStay, StopReading
  PROVE  OutcomeInv'
<1>0. /\ pc = "stream" /\ pc' = "stream" /\ pst = "run" /\ pst' = "done"
      /\ unread = {} \/ cancel \/ shutdown
      /\ UNCHANGED <<round, tot, shutdown, cancel, unread, out, chan, cst, stage, circuit, disk, kind>>
  BY DEF StopReading, Cancelled, consumer, durable
<1>1. Followed /\ EarlyStop /\ Emptied
  BY <1>0 DEF OutcomeInv, StreamInv
<1>2. /\ st'.errs = st.errs /\ st'.auth = st.auth /\ st'.url = st.url /\ st'.swf = st.swf
      /\ st'.failed = st.failed /\ st'.seen = st.seen /\ st.auth \in Nat
  BY DEF StopReading, TypeOK, Stats
<1>3. Stopped => Stopped'
  BY <1>0, <1>2 DEF Stopped, SessionOver
<1>4. Followed'
  BY <1>0, <1>1, <1>2, <1>3 DEF Followed, OnDisk
<1>5. cancel => st'.url \/ circuit'
  BY <1>0, <1>1, <1>2 DEF EarlyStop
<1>6. EarlyStop'
  BY <1>0, <1>1, <1>2, <1>5 DEF EarlyStop, Stopped
<1> QED
  BY <1>0, <1>1, <1>4, <1>6, WithinStream DEF Emptied

LEMMA OutcomeSend ==
  ASSUME TypeOK, TypeOK', OutcomeInv, FilesStay, SendTask
  PROVE  OutcomeInv'
<1>0. /\ pc = "stream" /\ pc' = "stream" /\ pst = "send" /\ out \in Assets
      /\ UNCHANGED <<round, tot, shutdown, unread, cst, stage, circuit, disk, kind, st>>
  BY DEF SendTask, consumer, durable, TypeOK
<1>1. Followed /\ EarlyStop /\ Emptied
  BY <1>0 DEF OutcomeInv, StreamInv
<1>2. ~st.complete /\ st.seen
  BY <1>0, <1>1 DEF EarlyStop
<1>3. CASE cst = "stopped" /\ pst' = "done" /\ UNCHANGED <<chan, cancel>>
  <2>1. SessionOver(st)
    BY <1>0, <1>1, <1>3 DEF EarlyStop
  <2>2. Stopped'
    BY <1>0, <2>1 DEF Stopped
  <2>3. Followed' /\ Emptied'
    BY <1>0, <1>1, <1>3, <2>2 DEF Followed, Emptied
  <2>4. EarlyStop'
    BY <1>0, <1>1, <1>3, <2>2 DEF EarlyStop, CutShort
  <2> QED
    BY <1>0, <2>3, <2>4, WithinStream
<1>4. CASE /\ cst # "stopped" /\ chan' = Append(chan, out)
           /\ \/ pst' = "run" /\ UNCHANGED cancel
              \/ "disk" \in PipeFaults /\ pst' = "done" /\ cancel' = TRUE
  <2>1. \A a \in Assets : out = a \/ Queued(chan, a) => Queued(chan', a)
    BY <1>0, <1>4, AppendHolds DEF TypeOK
  <2>2. pst' = "done" => Stopped' /\ CutShort(st)'
    BY <1>0, <1>2, <1>4 DEF Stopped, CutShort
  <2>3. Stopped => Stopped'
    BY <1>0 DEF Stopped, SessionOver
  <2>4. Followed' /\ Emptied'
    BY <1>0, <1>1, <1>4, <2>1, <2>3 DEF Followed, Emptied, OnDisk
  <2>5. EarlyStop'
    BY <1>0, <1>1, <1>2, <1>4, <2>2 DEF EarlyStop
  <2> QED
    BY <1>0, <2>4, <2>5, WithinStream
<1> QED
  BY <1>3, <1>4 DEF SendTask

LEMMA OutcomePanic ==
  ASSUME TypeOK, TypeOK', OutcomeInv, FilesStay, ProducerPanics
  PROVE  OutcomeInv'
<1>0. /\ pc = "stream" /\ pc' = "stream" /\ pst \in {"run", "send"} /\ pst' = "panicked"
      /\ UNCHANGED <<round, tot, shutdown, cancel, unread, chan, cst, stage, circuit, st>>
  BY DEF ProducerPanics, consumer
<1>1. Followed /\ EarlyStop /\ Emptied
  BY <1>0 DEF OutcomeInv, StreamInv
<1>2. Followed'
  BY <1>0 DEF Followed
<1>3. EarlyStop'
  BY <1>0, <1>1 DEF EarlyStop
<1> QED
  BY <1>0, <1>1, <1>2, <1>3, WithinStream DEF Emptied

-----------------------------------------------------------------------------
(* The transfers and the consumer.                                         *)

\* A step of the consumer that keeps what it has in hand.
LEMMA OutcomeHandled ==
  ASSUME TypeOK, TypeOK', OutcomeInv, FilesStay, Polling, Counts,
         UNCHANGED <<pc, round, tot, result, shutdown, unread, pst, out>>,
         circuit => circuit',
         pc = "cleanup" /\ circuit' => deferred' # {},
         cst' = "stopped" => SessionOver(st') \/ pst \in {"done", "panicked"},
         cancel' => cancel \/ circuit' \/ (pc = "stream" /\ st'.url)
                    \/ (pc = "cleanup" /\ st'.failed # {}),
         Emptied',
         \A a \in Assets : Queued(chan, a) \/ stage[a] # "idle" =>
           \/ Queued(chan', a) \/ stage'[a] # "idle" \/ disk[a] # "none" \/ a \in st'.failed
           \/ shutdown \/ circuit' \/ (pc = "stream" /\ Stopped')
           \/ (pc = "cleanup" /\ st'.failed # {})
  PROVE  OutcomeInv'
<1>0. Ongoing
  BY DEF Ongoing
<1>1. CASE pc = "stream"
  <2>1. Followed /\ EarlyStop
    BY <1>1 DEF OutcomeInv, StreamInv
  <2>2. Followed'
    BY <1>0, <1>1, <2>1, FollowedStep DEF Stopped
  <2>3. EarlyStop'
    BY <1>0, <1>1, <2>1, EarlyStopStep
  <2> QED
    BY <1>1, <2>2, <2>3, WithinStream
<1>2. CASE pc = "cleanup"
  <2>1. ASSUME NEW a \in Assets, Queued(chan, a) \/ stage[a] # "idle"
        PROVE  \/ Queued(chan', a) \/ stage'[a] # "idle" \/ disk[a] # "none" \/ st'.failed # {}
               \/ shutdown' \/ circuit'
    BY <1>2, <2>1
  <2> QED
    BY <1>2, <2>1, WithinCleanup DEF Counts
<1> QED
  BY <1>1, <1>2 DEF Polling

LEMMA SameCounts ==
  ASSUME TypeOK, st' = st
  PROVE  Counts
BY DEF Counts, TypeOK, Stats

LEMMA OutcomeStartTransfer ==
  ASSUME TypeOK, TypeOK', OutcomeInv, FilesStay, StartTransfer
  PROVE  OutcomeInv'
<1>0. /\ Polling /\ cst = "run" /\ chan # <<>> /\ chan' = Tail(chan)
      /\ UNCHANGED <<pc, round, tot, result, shutdown, unread, pst, out, st, cst, circuit, cancel,
                     deferred>>
  BY DEF StartTransfer, Polling, producer
<1>1. Counts /\ Emptied'
  BY <1>0, SameCounts DEF Emptied
<1>2. pc = "cleanup" /\ circuit' => deferred' # {}
  BY <1>0 DEF OutcomeInv, CleanupInv
<1>3. Head(chan) \in Assets
  BY <1>0 DEF TypeOK
<1>4. CASE pc = "cleanup" /\ Cancelled
  <2>1. shutdown \/ circuit' \/ st'.failed # {}
    BY <1>0, <1>4 DEF Cancelled, OutcomeInv, CleanupInv
  <2> QED
    BY <1>0, <1>1, <1>2, <1>4, <2>1, OutcomeHandled
<1>5. CASE ~(pc = "cleanup" /\ Cancelled)
  <2>1. stage' = [stage EXCEPT ![Head(chan)] = "transfer"]
    BY <1>5 DEF StartTransfer
  <2>2. ASSUME NEW a \in Assets, Queued(chan, a) \/ stage[a] # "idle"
        PROVE  Queued(chan', a) \/ stage'[a] # "idle"
    <3>1. CASE a = Head(chan)
      BY <2>1, <3>1 DEF TypeOK
    <3>2. CASE a # Head(chan) /\ Queued(chan, a)
      BY <1>0, <3>2, TailHolds DEF TypeOK
    <3>3. CASE a # Head(chan) /\ stage[a] # "idle"
      BY <2>1, <3>3 DEF TypeOK
    <3> QED
      BY <2>2, <3>1, <3>2, <3>3
  <2> QED
    BY <1>0, <1>1, <1>2, <2>2, OutcomeHandled
<1> QED
  BY <1>4, <1>5

LEMMA OutcomeTransfer ==
  ASSUME TypeOK, TypeOK', OutcomeInv, FilesStay, NEW a \in Assets, CheckShutdown(a) \/ Publish(a)
  PROVE  OutcomeInv'
<1>0. /\ Polling /\ cst = "run"
      /\ UNCHANGED <<pc, round, tot, result, shutdown, unread, pst, out, st, cst, circuit, cancel,
                     deferred, chan>>
      /\ \A b \in Assets : stage[b] # "idle" => stage'[b] # "idle"
  BY DEF CheckShutdown, Publish, Polling, producer, TypeOK
<1>1. Counts /\ Emptied'
  BY <1>0, SameCounts DEF Emptied
<1>2. pc = "cleanup" /\ circuit' => deferred' # {}
  BY <1>0 DEF OutcomeInv, CleanupInv
<1> QED
  BY <1>0, <1>1, <1>2, OutcomeHandled

LEMMA OutcomeDownloaded ==
  ASSUME TypeOK, TypeOK', OutcomeInv, FilesStay, FilesInPlace, NEW a \in Assets, TakeDownloaded(a)
  PROVE  OutcomeInv'
<1>0. /\ Polling /\ cst = "run" /\ disk[a] # "none"
      /\ UNCHANGED <<pc, round, tot, result, shutdown, unread, pst, out, chan>>
      /\ stage' = [stage EXCEPT ![a] = "idle"] /\ cst' \in {"run", "mark"}
  BY DEF TakeDownloaded, Polling, Landed, producer, FilesInPlace
<1>1. Counts
  BY DEF TakeDownloaded, Counts, TypeOK, Stats
<1>2. (circuit => circuit') /\ (cancel' => cancel \/ circuit')
  BY DEF TakeDownloaded, Defer
<1>3. pc = "cleanup" /\ circuit' => deferred' # {}
  <2>1. CASE Defer(a)
    <3>1. CASE circuit \/ Cardinality(deferred \cup {a}) < CircuitThreshold
      BY <2>1, <3>1 DEF Defer
    <3>2. CASE ~(circuit \/ Cardinality(deferred \cup {a}) < CircuitThreshold)
      <4>1. PICK ok : deferred' = (deferred \cup {a}) \ ok /\ circuit' = CircuitOpens(deferred \cup {a}, ok)
        BY <2>1, <3>2 DEF Defer
      <4> QED
        BY <4>1 DEF CircuitOpens
    <3> QED
      BY <3>1, <3>2
  <2>2. CASE UNCHANGED <<deferred, circuit, cancel>>
    BY <2>2 DEF OutcomeInv, CleanupInv
  <2> QED
    BY <2>1, <2>2 DEF TakeDownloaded
<1>4. \A b \in Assets : stage[b] # "idle" => stage'[b] # "idle" \/ disk[b] # "none"
  BY <1>0 DEF TypeOK
<1>5. Emptied'
  BY <1>0 DEF Emptied
<1> QED
  BY <1>0, <1>1, <1>2, <1>3, <1>4, <1>5, OutcomeHandled

LEMMA OutcomeFailed ==
  ASSUME TypeOK, TypeOK', OutcomeInv, FilesStay, NEW a \in Assets,
         TakeFailed(a) \/ TakeInterrupted(a) \/ TakeSessionExpired(a) \/ TakeExpiredUrl(a)
  PROVE  OutcomeInv'
<1>0. /\ Polling /\ cst = "run"
      /\ UNCHANGED <<pc, round, tot, result, shutdown, unread, pst, out, circuit, deferred>>
  BY DEF TakeFailed, TakeInterrupted, TakeSessionExpired, TakeExpiredUrl, Polling, producer
<1>a. TakeExpiredUrl(a) => \/ pc = "stream" /\ st' = [st EXCEPT !.url = TRUE]
                           \/ pc = "cleanup" /\ st' = [st EXCEPT !.failed = @ \cup {a}]
  BY DEF TakeExpiredUrl
<1>b. TakeExpiredUrl(a) => (pc = "stream" /\ st'.url) \/ (pc = "cleanup" /\ a \in st'.failed)
  BY <1>a DEF TypeOK, Stats
<1>1. Counts
  <2>0. st \in Stats /\ st.auth \in Nat
    BY DEF TypeOK, Stats
  <2>1. \/ st' = st \/ st' = [st EXCEPT !.failed = @ \cup {a}] \/ st' = [st EXCEPT !.url = TRUE]
        \/ st' = [st EXCEPT !.auth = @ + 1] \/ st' = [st EXCEPT !.auth = @ + 1, !.failed = @ \cup {a}]
    BY DEF TakeFailed, TakeInterrupted, TakeSessionExpired, TakeExpiredUrl
  <2>2. CASE st' = st \/ st' = [st EXCEPT !.failed = @ \cup {a}] \/ st' = [st EXCEPT !.url = TRUE]
    BY <2>0, <2>2 DEF Counts, Stats
  <2>3. CASE st' = [st EXCEPT !.auth = @ + 1]
    BY <2>0, <2>3 DEF Counts, Stats
  <2>4. CASE st' = [st EXCEPT !.auth = @ + 1, !.failed = @ \cup {a}]
    <3>1. st'.auth = st.auth + 1 /\ st'.failed = st.failed \cup {a} /\ st'.complete = st.complete
      BY <2>0, <2>4 DEF Stats
    <3>2. st'.url = st.url /\ st'.swf = st.swf /\ st'.errs = st.errs /\ st'.seen = st.seen
      BY <2>0, <2>4 DEF Stats
    <3> QED
      BY <2>0, <3>1, <3>2 DEF Counts
  <2> QED
    BY <2>1, <2>2, <2>3, <2>4
<1>2. pc = "cleanup" /\ circuit' => deferred' # {}
  BY <1>0 DEF OutcomeInv, CleanupInv
<1>3. CASE TakeSessionExpired(a) /\ cst' = "stopped"
  <2>1. SessionOver(st') /\ stage' = Idle /\ chan' = <<>> /\ pc = "stream" /\ cancel' = cancel
    BY <1>0, <1>3 DEF TakeSessionExpired, SessionOver, TypeOK, Stats
  <2>2. Emptied' /\ Stopped'
    BY <2>1 DEF Emptied, Stopped
  <2> QED
    BY <1>0, <1>1, <1>2, <2>1, <2>2, OutcomeHandled
<1>4. CASE ~(TakeSessionExpired(a) /\ cst' = "stopped")
  <2>1. cst' = "run" /\ chan' = chan /\ stage' = [stage EXCEPT ![a] = "idle"]
    BY <1>0, <1>4 DEF TakeFailed, TakeInterrupted, TakeSessionExpired, TakeExpiredUrl
  <2>2. Emptied' /\ \A b \in Assets \ {a} : stage'[b] = stage[b]
    BY <2>1 DEF Emptied, TypeOK
  <2>3. CASE TakeFailed(a)
    <3>1. a \in st'.failed /\ cancel' = cancel
      BY <2>3 DEF TakeFailed, TypeOK, Stats
    <3> QED
      BY <1>0, <1>1, <1>2, <2>1, <2>2, <3>1, OutcomeHandled
  <2>4. CASE TakeSessionExpired(a)
    <3>1. a \in st'.failed /\ cancel' = cancel
      <4>1. st' = [st EXCEPT !.auth = @ + 1, !.failed = @ \cup {a}] /\ cancel' = cancel
        BY <1>4, <2>4 DEF TakeSessionExpired
      <4> QED
        BY <4>1 DEF TypeOK, Stats
    <3> QED
      BY <1>0, <1>1, <1>2, <2>1, <2>2, <3>1, OutcomeHandled
  <2>5. CASE TakeExpiredUrl(a)
    <3>1. pc = "stream" => Stopped'
      BY <1>b, <2>5 DEF Stopped
    <3> QED
      BY <1>0, <1>1, <1>b, <1>2, <2>1, <2>2, <2>5, <3>1, OutcomeHandled
  <2>6. CASE TakeInterrupted(a)
    <3>1. cancel' = cancel /\ st' = st /\ (shutdown \/ cancel)
      BY <2>6 DEF TakeInterrupted, Cancelled
    <3>2. pc = "stream" => Stopped'
      BY <1>0, <3>1 DEF OutcomeInv, StreamInv, EarlyStop, Stopped
    <3>3. pc = "cleanup" => shutdown \/ circuit' \/ st'.failed # {}
      BY <1>0, <3>1 DEF OutcomeInv, CleanupInv
    <3> QED
      BY <1>0, <1>1, <1>2, <2>1, <2>2, <3>1, <3>2, <3>3, OutcomeHandled DEF Polling
  <2> QED
    BY <2>3, <2>4, <2>5, <2>6
<1> QED
  BY <1>3, <1>4

LEMMA OutcomeEnds ==
  ASSUME TypeOK, TypeOK', OutcomeInv, FilesStay, ConsumerEnds
  PROVE  OutcomeInv'
<1>0. /\ Polling /\ pst \in {"done", "panicked"} /\ chan = <<>> /\ InFlight = {}
      /\ UNCHANGED <<pc, round, tot, result, shutdown, unread, pst, out, circuit, deferred, chan,
                     stage, st, cancel>>
  BY DEF ConsumerEnds, producer
<1>1. stage = Idle
  BY <1>0 DEF InFlight, Idle, TypeOK
<1>2. Counts /\ Emptied'
  BY <1>0, <1>1, SameCounts DEF Emptied
<1>3. pc = "cleanup" /\ circuit' => deferred' # {}
  BY <1>0 DEF OutcomeInv, CleanupInv
<1> QED
  BY <1>0, <1>2, <1>3, OutcomeHandled

LEMMA OutcomeMarks ==
  ASSUME TypeOK, TypeOK', OutcomeInv, FilesStay, UpdateMetadataMarker
  PROVE  OutcomeInv'
<1>0. /\ pc \in {"stream", "cleanup"} /\ cst' = "run"
      /\ UNCHANGED <<pc, round, tot, result, shutdown, unread, pst, out, circuit, deferred, chan,
                     stage, st, cancel>>
  BY DEF UpdateMetadataMarker, producer
<1>1. Counts /\ Ongoing /\ Emptied'
  BY <1>0, SameCounts DEF Emptied, Ongoing
<1>2. CASE pc = "stream"
  <2>1. Followed /\ EarlyStop
    BY <1>2 DEF OutcomeInv, StreamInv
  <2>2. Followed'
    BY <1>0, <1>1, <2>1, FollowedStep
  <2>3. EarlyStop'
    BY <1>0, <1>1, <2>1, EarlyStopStep
  <2> QED
    BY <1>0, <1>1, <1>2, <2>2, <2>3, WithinStream
<1>3. CASE pc = "cleanup"
  <2>1. circuit' => deferred' # {}
    BY <1>0, <1>3 DEF OutcomeInv, CleanupInv
  <2> QED
    BY <1>0, <1>1, <1>3, <2>1, WithinCleanup
<1> QED
  BY <1>0, <1>2, <1>3

-----------------------------------------------------------------------------
(* The end of a round, and the outcome.                                    *)

\* A pipeline that did not fail accounts for every asset.
LEMMA RoundAccounts ==
  ASSUME TypeOK, OutcomeInv, PipelineOver, NEW ok \in LastFlush, NEW slip \in BOOLEAN,
         ~StreamFails(ok)
  PROVE  /\ Accounted(Streamed(ok, slip))
         /\ "disk" \in PipeFaults => Streamed(ok, slip).seen \/ Forgiven(Streamed(ok, slip))
<1> DEFINE s == Streamed(ok, slip)
<1>0. /\ pc = "stream" /\ cst = "stopped" /\ pst = "done" /\ ~circuit /\ out = NoAsset
  BY DEF PipelineOver, StreamFails, TypeOK
<1>1. Followed /\ EarlyStop /\ Emptied
  BY <1>0 DEF OutcomeInv, StreamInv
<1>2. /\ s.failed = st.failed /\ s.auth = st.auth /\ s.errs = st.errs
      /\ s.complete = st.complete /\ s.url = st.url /\ s.seen = st.seen
      /\ st.swf => s.swf
  BY StreamedFields DEF TypeOK
<1> HIDE DEF s
<1>3. Stopped => Excused(s)
  BY <1>0, <1>2 DEF Stopped, Excused, SessionOver, CutShort
<1>4. ASSUME NEW a \in Assets PROVE OnDisk(a) \/ a \in s.failed \/ Excused(s)
  <2>1. CASE a \in unread
    BY <1>0, <1>1, <1>3, <2>1 DEF EarlyStop
  <2>2. CASE a \notin unread
    <3>1. ~Queued(chan, a) /\ stage[a] = "idle" /\ out # a
      BY <1>0, <1>1, EmptyHoldsNone DEF Emptied, Idle
    <3>2. OnDisk(a) \/ a \in st.failed \/ st.swf \/ st.errs \/ Stopped
      BY <1>0, <1>1, <2>2, <3>1 DEF Followed
    <3> QED
      BY <1>2, <1>3, <3>2 DEF Excused
  <2> QED
    BY <2>1, <2>2
<1>5. "disk" \in PipeFaults => s.seen \/ Forgiven(s)
  BY <1>0, <1>1, <1>2 DEF EarlyStop, Stopped, CutShort, Forgiven, SessionOver
<1> QED
  BY <1>4, <1>5 DEF Accounted, s
LEMMA OutcomeEnumerated ==
  ASSUME TypeOK, TypeOK', OutcomeInv, FilesStay, FinishEnumeration
  PROVE  OutcomeInv'
<1>0. /\ PipelineOver /\ pc = "stream" /\ UNCHANGED <<shutdown, disk, kind>>
  BY DEF FinishEnumeration, PipelineOver
<1>1. PICK ok \in LastFlush, slip \in Slips :
        \/ pc' = "error"
        \/ /\ ~StreamFails(ok) /\ pc' = "drain"
           /\ tot' = Streamed(ok, slip) \/ tot' = Unrepaired(Streamed(ok, slip))
        \/ /\ ~StreamFails(ok) /\ pc' = pc
           /\ tot' = Streamed(ok, slip) /\ round' = 2 /\ BeginPipeline(rows')
  BY Zenon DEF FinishEnumeration
<1>2. slip \in BOOLEAN
  BY DEF Slips
<1> DEFINE s == Streamed(ok, slip)
<1>3. s \in Stats
  BY <1>2, StreamedType DEF TypeOK
<1>4. ~StreamFails(ok) => Accounted(s) /\ ("disk" \in PipeFaults => s.seen \/ Forgiven(s))
  BY <1>0, <1>2, RoundAccounts
<1> HIDE DEF s
<1>5. CASE pc' = "error"
  BY <1>5 DEF OutcomeInv, StreamInv, TotalInv, CleanupInv, SuccessMeansOnDisk
<1>6. CASE /\ ~StreamFails(ok) /\ pc' = "drain"
           /\ tot' = s \/ tot' = Unrepaired(s)
  <2>1. Accounted(s) /\ Accounted(Unrepaired(s))
    BY <1>3, <1>4, <1>6, UnrepairedAccounts
  <2>2. Accounted(tot)'
    BY <1>0, <1>6, <2>1 DEF Accounted, OnDisk, Excused, SessionOver, CutShort
  <2> QED
    BY <1>6, <2>2 DEF OutcomeInv, StreamInv, TotalInv, CleanupInv, SuccessMeansOnDisk
<1>7. CASE ~StreamFails(ok) /\ pc' = pc /\ tot' = s /\ round' = 2 /\ BeginPipeline(rows')
  <2>1. Accounted(tot)'
    BY <1>0, <1>4, <1>7 DEF Accounted, OnDisk, Excused, SessionOver, CutShort
  <2>2. "disk" \in PipeFaults => tot'.seen \/ Forgiven(tot)'
    BY <1>0, <1>4, <1>7 DEF Forgiven, SessionOver
  <2>3. Followed' /\ EarlyStop' /\ Emptied'
    BY <1>7, FreshStream
  <2> QED
    BY <1>0, <1>7, <2>1, <2>2, <2>3
    DEF OutcomeInv, StreamInv, TotalInv, CleanupInv, SuccessMeansOnDisk
<1> QED
  BY <1>1, <1>5, <1>6, <1>7 DEF s

LEMMA OutcomeRepaired ==
  ASSUME TypeOK, TypeOK', OutcomeInv, FilesStay, FinishRepair
  PROVE  OutcomeInv'
<1>0. /\ PipelineOver /\ pc = "stream" /\ round = 2 /\ pc' = "drain" /\ tot \in Stats
      /\ UNCHANGED <<shutdown, disk, kind>>
  BY DEF FinishRepair, PipelineOver, TypeOK
<1>1. Accounted(tot) /\ ("disk" \in PipeFaults => tot.seen \/ Forgiven(tot))
  BY <1>0 DEF OutcomeInv, StreamInv
<1>2. PICK ok \in LastFlush, slip \in Slips :
        tot' = IF StreamFails(ok) THEN Unrepaired(tot) ELSE Repaired(tot, Streamed(ok, slip))
  BY DEF FinishRepair
<1>3. slip \in BOOLEAN
  BY DEF Slips
<1>4. ~StreamFails(ok) => Accounted(Repaired(tot, Streamed(ok, slip)))
  BY <1>0, <1>1, <1>3, RoundAccounts, StreamedType, RepairedAccounts DEF TypeOK
<1>5. Accounted(Unrepaired(tot))
  BY <1>0, <1>1, UnrepairedAccounts
<1>6. Accounted(tot)'
  BY <1>0, <1>2, <1>4, <1>5 DEF Accounted, OnDisk, Excused, SessionOver, CutShort
<1> QED
  BY <1>0, <1>6 DEF OutcomeInv, StreamInv, TotalInv, CleanupInv, SuccessMeansOnDisk

LEMMA OutcomeDrained ==
  ASSUME TypeOK, TypeOK', OutcomeInv, FilesStay, DrainMetadata
  PROVE  OutcomeInv'
<1>0. pc = "drain" /\ pc' = "outcome" /\ shutdown' = shutdown /\ Accounted(tot)
  BY DEF DrainMetadata, OutcomeInv, TotalInv
<1>1. PICK bad \in BOOLEAN : tot' = [tot EXCEPT !.exif = @ \/ bad]
  BY DEF DrainMetadata
<1>2. /\ tot'.failed = tot.failed /\ tot'.swf = tot.swf /\ tot'.errs = tot.errs
      /\ tot'.url = tot.url /\ tot'.auth = tot.auth /\ tot'.seen = tot.seen
      /\ tot'.complete = tot.complete
  BY <1>1 DEF TypeOK, Stats
<1>3. Accounted(tot)'
  BY <1>0, <1>2 DEF Accounted, Excused, SessionOver, CutShort, FilesStay, OnDisk
<1> QED
  BY <1>0, <1>3 DEF OutcomeInv, StreamInv, TotalInv, CleanupInv, SuccessMeansOnDisk

LEMMA OutcomeBuilt ==
  ASSUME Recounted, TypeOK, TypeOK', OutcomeInv, FilesStay, BuildOutcome
  PROVE  OutcomeInv'
<1>0. /\ pc = "outcome" /\ Accounted(tot) /\ tot \in Stats
      /\ UNCHANGED <<shutdown, disk, kind, tot>>
  BY DEF BuildOutcome, OutcomeInv, TotalInv, TypeOK, durable
<1>1. CASE pc' = "error"
  BY <1>1 DEF OutcomeInv, StreamInv, TotalInv, CleanupInv, SuccessMeansOnDisk
<1>2. CASE pc' = "result" /\ result' = Report(tot, Incomplete(tot))
  <2>1. result'.outcome = "Success" /\ ~result'.interrupted =>
          /\ ~SessionOver(tot) /\ ~shutdown /\ ~Trouble(tot, Incomplete(tot))
    BY <1>2 DEF Report, SessionOver
  <2>2. SuccessMeansOnDisk'
    BY <1>0, <2>1 DEF SuccessMeansOnDisk, Trouble, Incomplete, Accounted, Excused, CutShort, OnDisk
  <2> QED
    BY <1>2, <2>2 DEF OutcomeInv, StreamInv, TotalInv, CleanupInv
<1>3. CASE /\ tot.auth < AuthThreshold /\ ~tot.url
           /\ \E fresh \in Refreshed : chan' \in SetToSeqs(fresh)
           /\ pc' = "cleanup" /\ cst' = "run" /\ circuit' = FALSE /\ cancel' = FALSE
           /\ result' = [NoResult EXCEPT !.incomplete = Incomplete(tot)]
  <2>1. PICK fresh \in Refreshed : chan' \in SetToSeqs(fresh)
    BY <1>3
  <2>2. fresh \in SUBSET Assets
    BY DEF Refreshed, TypeOK, Stats
  <2>3. \A a \in tot.failed : disk[a] = "none" => a \in fresh \/ shutdown
    BY DEF Refreshed, Recounted
  <2>4. result'.incomplete = Incomplete(tot)
    BY <1>3 DEF NoResult
  <2>5. ~SessionOver(tot)
    BY <1>3 DEF SessionOver, TypeOK, Stats
  <2>6. ASSUME NEW a \in Assets
        PROVE  OnDisk(a)' \/ Queued(chan', a) \/ tot'.swf \/ tot'.errs \/ shutdown' \/ result'.incomplete
    <3>1. OnDisk(a) \/ a \in tot.failed \/ Excused(tot)
      BY <1>0 DEF Accounted
    <3>2. CASE OnDisk(a)
      BY <1>0, <3>2 DEF OnDisk
    <3>3. CASE a \in tot.failed /\ ~OnDisk(a)
      <4>1. a \in fresh \/ shutdown
        BY <2>3, <3>3 DEF OnDisk
      <4> QED
        BY <1>0, <2>1, <2>2, <4>1, QueueHoldsAll
    <3>4. CASE Excused(tot)
      BY <1>0, <1>3, <2>4, <2>5, <3>4 DEF Excused, CutShort, Incomplete
    <3> QED
      BY <3>1, <3>2, <3>3, <3>4
  <2>7. CleanupInv'
    BY <1>3, <2>6 DEF CleanupInv, Emptied
  <2> QED
    BY <1>3, <2>7 DEF OutcomeInv, StreamInv, TotalInv, SuccessMeansOnDisk
<1> QED
  BY <1>1, <1>2, <1>3 DEF BuildOutcome

LEMMA OutcomeCleanedUp ==
  ASSUME TypeOK, TypeOK', OutcomeInv, FilesStay, FinishCleanup
  PROVE  OutcomeInv'
<1>0. /\ pc = "cleanup" /\ cst = "stopped" /\ pc' = "result" /\ tot \in Stats /\ st \in Stats
      /\ UNCHANGED <<shutdown, disk, kind>>
  BY DEF FinishCleanup, TypeOK
<1>1. PICK ok \in LastFlush : result' = Report(CleanedUp(tot, Streamed(ok, FALSE)), result.incomplete)
  BY DEF FinishCleanup
<1> DEFINE s == Streamed(ok, FALSE)
           m == CleanedUp(tot, s)
<1>2. s \in Stats /\ s.failed = st.failed /\ (ok # deferred => s.swf)
  BY <1>0, StreamedType, StreamedFields
<1>3. m.failed = s.failed /\ m.swf = (tot.swf \/ s.swf) /\ m.errs = (tot.errs \/ s.errs)
  BY <1>0, <1>2, CleanedUpFields
<1>4. circuit => s.swf
  BY <1>0, <1>2 DEF OutcomeInv, CleanupInv, LastFlush
<1> HIDE DEF s, m
<1>5. SuccessMeansOnDisk'
  <2> SUFFICES ASSUME result'.outcome = "Success", ~result'.interrupted, NEW a \in Assets
               PROVE  OnDisk(a)
    BY <1>0 DEF SuccessMeansOnDisk, OnDisk
  <2>1. ~shutdown /\ ~Trouble(m, result.incomplete)
    BY <1>1 DEF Report, m, s
  <2>2. st.failed = {} /\ ~tot.swf /\ ~tot.errs /\ ~result.incomplete /\ ~circuit
    BY <1>2, <1>3, <1>4, <2>1 DEF Trouble
  <2>3. ~Queued(chan, a) /\ stage[a] = "idle"
    BY <1>0, EmptyHoldsNone DEF OutcomeInv, CleanupInv, Emptied, Idle
  <2> QED
    BY <1>0, <2>1, <2>2, <2>3 DEF OutcomeInv, CleanupInv
<1> QED
  BY <1>0, <1>5 DEF OutcomeInv, StreamInv, TotalInv, CleanupInv

LEMMA OutcomeShutdown ==
  ASSUME TypeOK, TypeOK', OutcomeInv, RequestShutdown
  PROVE  OutcomeInv'
<1>0. /\ shutdown' = TRUE
      /\ UNCHANGED <<kind, disk, pc, cancel, round, unread, pst, out, chan, cst, stage, deferred,
                     circuit, st, tot, result>>
  BY DEF RequestShutdown, durable, producer, consumer
<1>1. Stopped' /\ Accounted(tot)' /\ Forgiven(tot)'
  BY <1>0 DEF Stopped, Accounted, Excused, Forgiven
<1>2. StreamInv'
  BY <1>0, <1>1 DEF OutcomeInv, StreamInv, Followed, EarlyStop, Emptied, SessionOver, CutShort
<1>3. TotalInv'
  BY <1>1 DEF TotalInv
<1>4. CleanupInv'
  BY <1>0 DEF OutcomeInv, CleanupInv, Emptied
<1>5. SuccessMeansOnDisk'
  BY <1>0 DEF OutcomeInv, SuccessMeansOnDisk
<1> QED
  BY <1>2, <1>3, <1>4, <1>5 DEF OutcomeInv

LEMMA OutcomeStep ==
  ASSUME Recounted, PInv, OutcomeInv, [Next]_vars
  PROVE  OutcomeInv'
<1>0. TypeOK /\ TypeOK' /\ FilesInPlace /\ FilesStay
  BY TypeStep, FilesStayStep DEF PInv
<1>1. CASE StartRun
  <2>1. BeginPipeline(rows') /\ pc' \in {"stream", "error"} /\ round' = 1
    BY <1>1 DEF StartRun
  <2>2. Followed' /\ EarlyStop' /\ Emptied'
    BY <2>1, FreshStream
  <2> QED
    BY <2>1, <2>2 DEF OutcomeInv, StreamInv, TotalInv, CleanupInv, SuccessMeansOnDisk
<1>2. CASE Crash \/ FinishRun
  BY <1>2 DEF Crash, FinishRun, OutcomeInv, StreamInv, TotalInv, CleanupInv, SuccessMeansOnDisk
<1>3. CASE UNCHANGED vars
  <2>1. UNCHANGED <<kind, disk, pc, shutdown, cancel, round, unread, pst, out, chan, cst, stage,
                    deferred, circuit, st, tot, result>>
    BY <1>3 DEF vars, durable, producer, consumer
  <2>2. StreamInv'
    BY <2>1 DEF OutcomeInv, StreamInv, Followed, EarlyStop, Emptied, Stopped, Accounted, Excused,
       OnDisk, Forgiven, SessionOver, CutShort
  <2>3. TotalInv' /\ CleanupInv' /\ SuccessMeansOnDisk'
    BY <2>1 DEF OutcomeInv, TotalInv, CleanupInv, SuccessMeansOnDisk, Emptied, Accounted, Excused,
       OnDisk, SessionOver, CutShort
  <2> QED
    BY <2>2, <2>3 DEF OutcomeInv
<1>4. CASE Produce \/ ProducerPanics
  BY <1>0, <1>4, OutcomeRead, OutcomeReadError, OutcomeStopReading, OutcomeSend, OutcomePanic
  DEF Produce
<1>5. CASE Consume
  BY <1>0, <1>5, OutcomeTransfer, OutcomeDownloaded, OutcomeFailed, OutcomeStartTransfer,
     OutcomeMarks, OutcomeEnds DEF Consume
<1>6. CASE Finish
  BY <1>0, <1>2, <1>6, OutcomeEnumerated, OutcomeRepaired, OutcomeDrained, OutcomeBuilt,
     OutcomeCleanedUp DEF Finish
<1> QED
  BY <1>0, <1>1, <1>2, <1>3, <1>4, <1>5, <1>6, OutcomeShutdown DEF Next, Process

\* An uninterrupted Success of download_photos_full_with_token means that every
\* selected asset is on disk, however the rounds were cut, repaired and cleaned
\* up, as long as the counts the outcome is built from are not lost on the way.
THEOREM SuccessIsOnDisk ==
  ASSUME Recounted
  PROVE  Spec => []SuccessMeansOnDisk
<1>1. Init => PInv /\ OutcomeInv
  BY PInvInit DEF Init, OutcomeInv, StreamInv, TotalInv, CleanupInv, SuccessMeansOnDisk
<1>2. (PInv /\ OutcomeInv) /\ [Next]_vars => (PInv /\ OutcomeInv)'
  BY PInvStep, OutcomeStep
<1>3. PInv /\ OutcomeInv => SuccessMeansOnDisk
  BY DEF OutcomeInv
<1> QED
  BY <1>1, <1>2, <1>3, PTL DEF Spec
=============================================================================
