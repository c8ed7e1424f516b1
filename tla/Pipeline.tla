------------------------------ MODULE Pipeline ------------------------------
(***************************************************************************)
(* One full enumeration of a library: the streaming producer and consumer  *)
(* of download/pipeline.rs with the state writes of download/finalize.rs,  *)
(* the token proof with its same-cycle repair and the clean-up pass, up to *)
(* the SyncResult from which source_checkpoint_decision decides.           *)
(*                                                                         *)
(* The producer plans and catalogues what the provider lists and sends it  *)
(* through a bounded channel; the consumer keeps Concurrency transfers in  *)
(* flight and records each result before it looks at the next.             *)
(***************************************************************************)
EXTENDS Integers, Sequences, FiniteSets, SequencesExt

CONSTANTS
  Assets,            \* what the provider lists for the pass
  NoAsset,
  Concurrency,       \* concurrent_downloads
  CleanupConcurrency,
  AuthThreshold,     \* AUTH_ERROR_THRESHOLD
  CircuitThreshold,  \* STATE_DB_UNWRITABLE_THRESHOLD
  MaxStarts,         \* bound: how often the run is started
  PipeFaults         \* which misfortunes of AllPipeFaults may happen

\* "db": a state write fails, "marker": the one of the metadata marker; "enum":
\* a record cannot be fetched or is malformed; "transfer", "auth", "url": how a
\* transfer fails; "exif": its metadata is not written; "disk": the forecast says the disk will fill up;
\* "noToken": the drained stream yields no token; "unrefreshed": the clean-up
\* pass does not find a failed task again; "resized": embedding metadata
\* changed the size of the file, so that planning does not recognise it;
\* "exhausted": max_download_attempts is reached.
AllPipeFaults == {"db", "marker", "enum", "transfer", "auth", "url", "exif", "disk",
                  "panic", "noToken", "unrefreshed", "resized", "exhausted",
                  "provider", "crash", "shutdown"}

ASSUME AssetsAssumption == NoAsset \notin Assets /\ IsFiniteSet(Assets)
ASSUME LimitsAssumption == /\ Concurrency \in Nat \ {0}
                           /\ CleanupConcurrency \in Nat \ {0}
                           /\ AuthThreshold \in Nat \ {0}
                           /\ CircuitThreshold \in Nat \ {0}
                           /\ MaxStarts \in Nat
ASSUME PipeFaultsAssumption == PipeFaults \subseteq AllPipeFaults

VARIABLES
  kind,      \* what planning makes of each asset
  rows,      \* assets.status
  marker,    \* assets.metadata_write_failed_at is set
  disk,      \* the published file, with its metadata or bare
  pc,        \* where the run is
  shutdown,  \* shutdown_token.is_cancelled()
  cancel,    \* pipeline_shutdown (or pass_shutdown) cancelled by the pipeline
  round,     \* 1: the enumeration, 2: its same-cycle repair
  ctx,       \* preloaded DownloadContext: rows when the pipeline started
  unread,    \* assets the stream has not yielded yet
  pst, out,  \* producer, and the task it is sending
  chan,      \* task_tx / task_rx
  cst, cur,  \* consumer, and the task whose marker it is about to write
  stage,     \* the in-flight futures of buffer_unordered
  deferred,  \* pending_state_writes
  circuit,   \* state_write_circuit_error.is_some()
  st,        \* StreamingResult of the running pipeline
  tot,       \* the merged StreamingResult
  token,     \* sync_token.is_some()
  result,    \* SyncResult
  starts

Statuses == {"none", "pending", "failed", "downloaded"}
Stats == [seen : BOOLEAN, dl : BOOLEAN, failed : SUBSET Assets, auth : Nat,
          swf : BOOLEAN, errs : BOOLEAN, complete : BOOLEAN, url : BOOLEAN,
          exif : BOOLEAN, exhausted : BOOLEAN]
NoStats == [seen |-> FALSE, dl |-> FALSE, failed |-> {}, auth |-> 0,
            swf |-> FALSE, errs |-> FALSE, complete |-> FALSE, url |-> FALSE,
            exif |-> FALSE, exhausted |-> FALSE]
Results == [outcome : {"none", "Success", "PartialFailure", "SessionExpired"},
            interrupted : BOOLEAN, errs : BOOLEAN, incomplete : BOOLEAN,
            swf : BOOLEAN, token : BOOLEAN]
NoResult == [outcome |-> "none", interrupted |-> FALSE, errs |-> FALSE,
             incomplete |-> FALSE, swf |-> FALSE, token |-> FALSE]

durable == <<rows, marker, disk>>
producer == <<unread, pst, out>>
consumer == <<cst, cur, stage, deferred, circuit>>
vars == <<kind, durable, pc, shutdown, cancel, round, ctx, producer, chan,
          consumer, st, tot, token, result, starts>>

TypeOK ==
  /\ kind \in [Assets -> {"task", "filtered", "malformed"}]
  /\ rows \in [Assets -> Statuses]
  /\ marker \in [Assets -> BOOLEAN]
  /\ disk \in [Assets -> {"none", "bare", "tagged"}]
  /\ pc \in {"down", "stream", "drain", "outcome", "cleanup", "result", "done", "error"}
  /\ shutdown \in BOOLEAN /\ cancel \in BOOLEAN
  /\ round \in {1, 2}
  /\ ctx \in [Assets -> Statuses]
  /\ unread \in SUBSET Assets
  /\ pst \in {"run", "send", "done", "panicked"}
  /\ out \in IF pst = "send" THEN Assets ELSE {NoAsset}
  /\ chan \in Seq(Assets)
  /\ cst \in {"run", "mark", "stopped"}
  /\ cur \in Assets \cup {NoAsset}
  /\ stage \in [Assets -> {"idle", "transfer", "checked", "landed"}]
  /\ deferred \in SUBSET Assets
  /\ circuit \in BOOLEAN
  /\ st \in Stats /\ tot \in Stats
  /\ token \in BOOLEAN
  /\ result \in Results
  /\ starts \in Nat

Idle == [a \in Assets |-> "idle"]
InFlight == {a \in Assets : stage[a] # "idle"}
Cancelled == cancel \/ shutdown
DbMayFail == "db" \in PipeFaults

Init ==
  /\ kind \in [Assets -> {"task", "filtered"} \cup
                         (IF "enum" \in PipeFaults THEN {"malformed"} ELSE {})]
  /\ rows = [a \in Assets |-> "none"]
  /\ marker = [a \in Assets |-> FALSE]
  /\ disk = [a \in Assets |-> "none"]
  /\ pc = "down" /\ shutdown = FALSE /\ cancel = FALSE /\ round = 1
  /\ ctx = rows
  /\ unread = {} /\ pst = "done" /\ out = NoAsset /\ chan = <<>>
  /\ cst = "stopped" /\ cur = NoAsset /\ stage = Idle
  /\ deferred = {} /\ circuit = FALSE
  /\ st = NoStats /\ tot = NoStats /\ token = FALSE /\ result = NoResult
  /\ starts = 0

-----------------------------------------------------------------------------
(* Starting, stopping, dying.                                              *)

BeginPipeline(catalog) ==
  /\ ctx' = catalog
  /\ unread' = Assets /\ pst' = "run" /\ out' = NoAsset /\ chan' = <<>>
  /\ cst' = "run" /\ cur' = NoAsset /\ stage' = Idle
  /\ deferred' = {} /\ circuit' = FALSE /\ cancel' = FALSE
  /\ st' = NoStats

\* download_photos_with_sync: prepare_for_retry gives failed rows a new start.
\* A pipeline refuses to start on a disk that is nearly full.
StartRun ==
  /\ pc \in {"down", "done", "error"} /\ starts < MaxStarts
  /\ starts' = starts + 1
  /\ \/ rows' = [a \in Assets |-> IF rows[a] = "failed" THEN "pending" ELSE rows[a]]
     \/ DbMayFail /\ UNCHANGED rows
  /\ \/ pc' = "stream"
     \/ "disk" \in PipeFaults /\ pc' = "error"
  /\ round' = 1 /\ shutdown' = FALSE
  /\ tot' = NoStats /\ token' = FALSE /\ result' = NoResult
  /\ BeginPipeline(rows')
  /\ UNCHANGED <<kind, marker, disk>>

RequestShutdown ==
  /\ "shutdown" \in PipeFaults
  /\ pc \notin {"down", "done", "error"} /\ ~shutdown
  /\ shutdown' = TRUE
  /\ UNCHANGED <<kind, durable, pc, cancel, round, ctx, producer, chan,
                 consumer, st, tot, token, result, starts>>

Crash ==
  /\ "crash" \in PipeFaults
  /\ pc \notin {"down", "done", "error"} /\ starts < MaxStarts
  /\ pc' = "down"
  /\ UNCHANGED <<kind, durable, shutdown, cancel, round, ctx, producer, chan,
                 consumer, st, tot, token, result, starts>>

-----------------------------------------------------------------------------
(* The producer.                                                           *)

\* finalize_failed: a write that fails is only logged.
FinalizeFailed(a) ==
  \/ rows[a] # "none" /\ rows' = [rows EXCEPT ![a] = "failed"]
  \/ rows[a] = "none" /\ UNCHANGED rows
  \/ DbMayFail /\ UNCHANGED rows

\* Planning an asset: what it writes to the catalogue and to the counters, and
\* whether a task comes out of it.  A failed identity write (slip) only counts.
PlanAsset(a, slip) ==
  LET seen == [st EXCEPT !.seen = TRUE, !.swf = @ \/ slip]
      skip == UNCHANGED <<pst, out>>
      failedWrite == st' = [seen EXCEPT !.swf = TRUE] /\ UNCHANGED rows
  IN
  \/ \* the legacy state owner could not be claimed
     DbMayFail /\ failedWrite /\ skip
  \/ kind[a] = "filtered" /\ st' = seen /\ UNCHANGED rows /\ skip
  \/ kind[a] = "malformed" /\ st' = [seen EXCEPT !.errs = TRUE] /\ UNCHANGED rows /\ skip
  \/ \* already on disk; a row that was pending adopts the file
     /\ kind[a] = "task" /\ disk[a] # "none"
     /\ \/ ctx[a] = "pending" /\ rows' = [rows EXCEPT ![a] = "downloaded"] /\ st' = seen
        \/ ctx[a] = "pending" /\ DbMayFail /\ failedWrite
        \/ ctx[a] # "pending" /\ st' = seen /\ UNCHANGED rows
     /\ skip
  \/ \* too many attempts: the row is marked failed again
     /\ kind[a] = "task" /\ disk[a] = "none" /\ ctx[a] = "failed"
     /\ "exhausted" \in PipeFaults
     /\ FinalizeFailed(a)
     /\ st' = [seen EXCEPT !.exhausted = TRUE]
     /\ skip
  \/ \* upsert_seen, then the task is sent, whether or not the row was written
     /\ kind[a] = "task"
     /\ disk[a] # "none" => "resized" \in PipeFaults /\ ctx[a] # "downloaded"
     /\ \/ /\ rows' = [rows EXCEPT ![a] = IF @ = "none" THEN "pending" ELSE @]
           /\ st' = seen
        \/ DbMayFail /\ failedWrite
     /\ pst' = "send" /\ out' = a

ReadAsset(a) ==
  /\ pc = "stream" /\ pst = "run" /\ ~Cancelled
  /\ a \in unread
  /\ unread' = unread \ {a}
  /\ \E slip \in BOOLEAN : (slip => DbMayFail) /\ PlanAsset(a, slip)
  /\ UNCHANGED <<kind, marker, disk, pc, shutdown, cancel, round, ctx, chan,
                 consumer, tot, token, result, starts>>

\* A record that could not be fetched is counted, and the stream goes on.
ReadError(a) ==
  /\ "enum" \in PipeFaults
  /\ pc = "stream" /\ pst = "run" /\ ~Cancelled
  /\ a \in unread
  /\ unread' = unread \ {a}
  /\ st' = [st EXCEPT !.errs = TRUE]
  /\ UNCHANGED <<kind, durable, pc, shutdown, cancel, round, ctx, pst, out,
                 chan, consumer, tot, token, result, starts>>

\* The loop ends with the stream, or with the first item after a cancellation.
StopReading ==
  /\ pc = "stream" /\ pst = "run"
  /\ unread = {} \/ Cancelled
  /\ pst' = "done"
  /\ st' = [st EXCEPT !.complete = ~Cancelled]
  /\ UNCHANGED <<kind, durable, pc, shutdown, cancel, round, ctx, unread, out,
                 chan, consumer, tot, token, result, starts>>

\* Mutant: the sender waits for room although the receiver is gone.
SendTaskBlocks ==
  /\ pc = "stream" /\ pst = "send"
  /\ Len(chan) < 2 * Concurrency /\ cst # "stopped"
  /\ chan' = Append(chan, out)
  /\ pst' = "run" /\ out' = NoAsset
  /\ UNCHANGED <<kind, durable, pc, shutdown, cancel, round, ctx, unread,
                 consumer, st, tot, token, result, starts>>

\* task_tx.send waits while the channel is full and fails once the receiver is
\* gone; the forecast of the free space may cancel the pipeline after it.
SendTask ==
  /\ pc = "stream" /\ pst = "send"
  /\ \/ /\ cst = "stopped"
        /\ pst' = "done"
        /\ UNCHANGED <<chan, cancel>>
     \/ /\ cst # "stopped" /\ Len(chan) < 2 * Concurrency
        /\ chan' = Append(chan, out)
        /\ \/ pst' = "run" /\ UNCHANGED cancel
           \/ "disk" \in PipeFaults /\ pst' = "done" /\ cancel' = TRUE
  /\ out' = NoAsset
  /\ UNCHANGED <<kind, durable, pc, shutdown, round, ctx, unread, consumer, st,
                 tot, token, result, starts>>

ProducerPanics ==
  /\ "panic" \in PipeFaults
  /\ pc = "stream" /\ pst \in {"run", "send"}
  /\ pst' = "panicked" /\ out' = NoAsset
  /\ UNCHANGED <<kind, durable, pc, shutdown, cancel, round, ctx, unread, chan,
                 consumer, st, tot, token, result, starts>>

-----------------------------------------------------------------------------
(* The transfers, which only move while the consumer polls its stream.     *)

Polling == pc \in {"stream", "cleanup"} /\ cst = "run"

StartTransfer ==
  /\ Polling
  /\ chan # <<>>
  /\ Cardinality(InFlight) < IF pc = "cleanup" THEN CleanupConcurrency ELSE Concurrency
  /\ chan' = Tail(chan)
  /\ stage' = IF pc = "cleanup" /\ Cancelled THEN stage
              ELSE [stage EXCEPT ![Head(chan)] = "transfer"]
  /\ UNCHANGED <<kind, durable, pc, shutdown, cancel, round, ctx, producer, cst,
                 cur, deferred, circuit, st, tot, token, result, starts>>

\* The last look at the shutdown token, after the bytes have been written.
CheckShutdown(a) ==
  /\ Polling
  /\ stage[a] = "transfer" /\ ~Cancelled
  /\ stage' = [stage EXCEPT ![a] = "checked"]
  /\ UNCHANGED <<kind, durable, pc, shutdown, cancel, round, ctx, producer,
                 chan, cst, cur, deferred, circuit, st, tot, token, result,
                 starts>>

\* publish_part_to_final, with or without the metadata in place.
Publish(a) ==
  /\ Polling
  /\ stage[a] = "checked"
  /\ stage' = [stage EXCEPT ![a] = "landed"]
  /\ \/ disk' = [disk EXCEPT ![a] = "tagged"]
     \/ "exif" \in PipeFaults /\ disk' = [disk EXCEPT ![a] = "bare"]
  /\ UNCHANGED <<kind, rows, marker, pc, shutdown, cancel, round, ctx,
                 producer, chan, cst, cur, deferred, circuit, st, tot, token,
                 result, starts>>

-----------------------------------------------------------------------------
(* The consumer.                                                           *)

\* mark_downloaded fails on a row that does not exist, however often it is
\* tried; any other write may fail or succeed.
Recorded(writes) == [a \in Assets |-> IF a \in writes THEN "downloaded" ELSE rows[a]]
Flushed(writes) ==
  {ok \in SUBSET {a \in writes : rows[a] # "none"} :
     DbMayFail \/ ok = {a \in writes : rows[a] # "none"}}

\* Mutant: counts the writes that are left after the flush.
CircuitOpensLate(writes, ok) == Cardinality(writes \ ok) > CircuitThreshold

CircuitOpens(writes, ok) == Cardinality(writes) >= CircuitThreshold /\ ok = {}

\* A deferred write; once there are enough of them all are tried again, and if
\* every one fails the circuit breaker stops the pipeline.
Defer(a) ==
  LET writes == deferred \cup {a} IN
  IF circuit \/ Cardinality(writes) < CircuitThreshold
  THEN deferred' = writes /\ UNCHANGED <<rows, circuit, cancel>>
  ELSE \E ok \in Flushed(writes) :
         /\ rows' = Recorded(ok)
         /\ deferred' = writes \ ok
         /\ circuit' = CircuitOpens(writes, ok)
         /\ cancel' = (cancel \/ circuit')

\* Mutant: the result of a transfer is recorded before its file is published.
LandedEarly(a) == stage[a] \in {"checked", "landed"}

\* download_single_task is over: the file has its final name.
Landed(a) == stage[a] = "landed"

\* finalize_downloaded: the row first, the metadata marker in a write of its own.
TakeDownloaded(a) ==
  /\ Polling
  /\ Landed(a)
  /\ stage' = [stage EXCEPT ![a] = "idle"]
  /\ st' = [st EXCEPT !.dl = TRUE, !.exif = @ \/ disk[a] = "bare"]
  /\ \/ /\ rows[a] # "none"
        /\ rows' = [rows EXCEPT ![a] = "downloaded"]
        /\ IF disk[a] = "bare" THEN cst' = "mark" /\ cur' = a
                               ELSE UNCHANGED <<cst, cur>>
        /\ UNCHANGED <<deferred, circuit, cancel>>
     \/ /\ rows[a] = "none" \/ DbMayFail
        /\ Defer(a)
        /\ UNCHANGED <<cst, cur>>
  /\ UNCHANGED <<kind, marker, disk, pc, shutdown, round, ctx, producer, chan,
                 tot, token, result, starts>>

UpdateMetadataMarker ==
  /\ pc \in {"stream", "cleanup"} /\ cst = "mark"
  /\ \/ marker' = [marker EXCEPT ![cur] = TRUE]
     \/ "marker" \in PipeFaults /\ UNCHANGED marker
  /\ cst' = "run" /\ cur' = NoAsset
  /\ UNCHANGED <<kind, rows, disk, pc, shutdown, cancel, round, ctx, producer,
                 chan, stage, deferred, circuit, st, tot, token, result, starts>>

\* An ordinary failure; after the file has landed only the bookkeeping around
\* it (the hash, the temp-file claim) can fail.
TakeFailed(a) ==
  /\ Polling
  /\ \/ stage[a] \in {"transfer", "checked"} /\ "transfer" \in PipeFaults
     \/ stage[a] = "landed" /\ DbMayFail
  /\ stage' = [stage EXCEPT ![a] = "idle"]
  /\ FinalizeFailed(a)
  /\ st' = [st EXCEPT !.failed = @ \cup {a}]
  /\ UNCHANGED <<kind, marker, disk, pc, shutdown, cancel, round, ctx,
                 producer, chan, cst, cur, deferred, circuit, tot, token,
                 result, starts>>

TakeInterrupted(a) ==
  /\ Polling
  /\ stage[a] = "transfer" /\ Cancelled
  /\ stage' = [stage EXCEPT ![a] = "idle"]
  /\ UNCHANGED <<kind, durable, pc, shutdown, cancel, round, ctx, producer,
                 chan, cst, cur, deferred, circuit, st, tot, token, result,
                 starts>>

\* At the threshold the stream is left at once: what is in flight is dropped.
TakeSessionExpired(a) ==
  /\ Polling
  /\ stage[a] = "transfer" /\ "auth" \in PipeFaults
  /\ \/ /\ pc = "stream" /\ st.auth + 1 >= AuthThreshold
        /\ cst' = "stopped" /\ stage' = Idle /\ chan' = <<>>
        /\ st' = [st EXCEPT !.auth = @ + 1]
        /\ UNCHANGED rows
     \/ /\ pc = "cleanup" \/ st.auth + 1 < AuthThreshold
        /\ stage' = [stage EXCEPT ![a] = "idle"]
        /\ FinalizeFailed(a)
        /\ st' = [st EXCEPT !.auth = @ + 1, !.failed = @ \cup {a}]
        /\ UNCHANGED <<cst, chan>>
  /\ UNCHANGED <<kind, marker, disk, pc, shutdown, cancel, round, ctx,
                 producer, cur, deferred, circuit, tot, token, result, starts>>

\* Expired URLs end the batch; only the clean-up pass also fails the task.
TakeExpiredUrl(a) ==
  /\ Polling
  /\ stage[a] = "transfer" /\ "url" \in PipeFaults
  /\ stage' = [stage EXCEPT ![a] = "idle"]
  /\ cancel' = TRUE
  /\ \/ /\ pc = "stream"
        /\ st' = [st EXCEPT !.url = TRUE]
        /\ UNCHANGED rows
     \/ /\ pc = "cleanup"
        /\ FinalizeFailed(a)
        /\ st' = [st EXCEPT !.failed = @ \cup {a}]
  /\ UNCHANGED <<kind, marker, disk, pc, shutdown, round, ctx, producer, chan,
                 cst, cur, deferred, circuit, tot, token, result, starts>>

\* The stream of results ends when every sender is gone and nothing flies.
ConsumerEnds ==
  /\ Polling
  /\ chan = <<>> /\ InFlight = {}
  /\ pst \in {"done", "panicked"}
  /\ cst' = "stopped"
  /\ UNCHANGED <<kind, durable, pc, shutdown, cancel, round, ctx, producer,
                 chan, cur, stage, deferred, circuit, st, tot, token, result,
                 starts>>

-----------------------------------------------------------------------------
(* The end of a pipeline, the token proof and its repair.                  *)

PipelineOver == pc = "stream" /\ cst = "stopped" /\ pst \in {"done", "panicked"}

\* finalize_streaming_download: the last flush, which an open circuit skips.
LastFlush == IF circuit THEN {{}} ELSE Flushed(deferred)
Slips == IF DbMayFail THEN BOOLEAN ELSE {FALSE}
Tokens == IF "noToken" \in PipeFaults THEN BOOLEAN ELSE {TRUE}
Streamed(ok, slip) == [st EXCEPT !.swf = @ \/ slip \/ ok # deferred]
StreamFails(ok) == circuit \/ CircuitOpens(deferred, ok) \/ pst = "panicked"

\* Mutant: a failed state write of the repair round is not merged.
MergedForgetsWrites(t, s) ==
  [seen |-> t.seen, exhausted |-> t.exhausted,
   dl |-> t.dl \/ s.dl, failed |-> t.failed \cup s.failed,
   auth |-> t.auth + s.auth, swf |-> t.swf, errs |-> t.errs \/ s.errs,
   url |-> t.url \/ s.url, exif |-> t.exif \/ s.exif,
   complete |-> t.complete /\ s.complete]

\* merge_token_recovery_result keeps the inventory counts of the first round.
Merged(t, s) ==
  [seen |-> t.seen, exhausted |-> t.exhausted,
   dl |-> t.dl \/ s.dl, failed |-> t.failed \cup s.failed,
   auth |-> t.auth + s.auth, swf |-> t.swf \/ s.swf, errs |-> t.errs \/ s.errs,
   url |-> t.url \/ s.url, exif |-> t.exif \/ s.exif,
   complete |-> t.complete /\ s.complete]

Proved(t) == t.complete /\ ~t.errs

\* A repair of the whole enumeration decides whether it is complete; one that
\* only went after the token leaves what the first round found.
Repaired(t, s) ==
  IF Proved(t) THEN Merged(t, s)
  ELSE [Merged(t, s) EXCEPT !.complete = s.complete, !.errs = s.errs]
Unrepaired(t) ==
  IF Proved(t) THEN t ELSE [t EXCEPT !.complete = FALSE, !.errs = TRUE]

FinishEnumeration ==
  /\ PipelineOver /\ round = 1
  /\ \E ok \in LastFlush, slip \in Slips, got \in Tokens :
       LET s == Streamed(ok, slip)
           fails == StreamFails(ok)
           over == /\ deferred' = deferred \ ok
                   /\ UNCHANGED <<round, ctx, cancel, producer, chan, cst, cur,
                                  stage, circuit, st>>
       IN /\ rows' = Recorded(ok)
          /\ \/ fails /\ pc' = "error" /\ over /\ UNCHANGED <<tot, token>>
             \/ /\ ~fails /\ Proved(s) /\ got
                /\ pc' = "drain" /\ tot' = s /\ token' = TRUE /\ over
             \/ /\ ~fails /\ ~(Proved(s) /\ got)
                /\ tot' = s /\ round' = 2
                /\ BeginPipeline(rows')
                /\ UNCHANGED <<pc, token>>
             \/ \* the repair could not even start
                /\ PipeFaults \cap {"provider", "disk"} # {}
                /\ ~fails /\ ~(Proved(s) /\ got)
                /\ pc' = "drain" /\ tot' = Unrepaired(s) /\ token' = FALSE /\ over
  /\ UNCHANGED <<kind, marker, disk, shutdown, result, starts>>

FinishRepair ==
  /\ PipelineOver /\ round = 2
  /\ \E ok \in LastFlush, slip \in Slips, got \in Tokens :
       LET s == Streamed(ok, slip) IN
       /\ rows' = Recorded(ok)
       /\ deferred' = deferred \ ok
       /\ IF StreamFails(ok)
          THEN tot' = Unrepaired(tot) /\ token' = FALSE
          ELSE tot' = Repaired(tot, s) /\ token' = (got /\ Proved(s) /\ Proved(tot'))
  /\ pc' = "drain"
  /\ UNCHANGED <<kind, marker, disk, shutdown, cancel, round, ctx, producer,
                 chan, cst, cur, stage, circuit, st, result, starts>>

\* metadata_rewrite::run_pending over the rows that carry a marker.
DrainMetadata ==
  LET pending == {a \in Assets : marker[a] /\ rows[a] = "downloaded"} IN
  /\ pc = "drain"
  /\ \E fixed \in SUBSET pending, bad \in BOOLEAN :
       /\ fixed # pending => shutdown \/ bad
       /\ bad => DbMayFail \/ ("exif" \in PipeFaults /\ fixed # pending)
       /\ disk' = [a \in Assets |-> IF a \in fixed THEN "tagged" ELSE disk[a]]
       /\ marker' = [a \in Assets |-> marker[a] /\ a \notin fixed]
       /\ tot' = [tot EXCEPT !.exif = @ \/ bad]
  /\ pc' = "outcome"
  /\ UNCHANGED <<kind, rows, shutdown, cancel, round, ctx, producer, chan,
                 consumer, st, token, result, starts>>

-----------------------------------------------------------------------------
(* The outcome, after a clean-up pass if something failed.                 *)

\* Mutant: the failures that are left do not count.
TroubleForgetsFailures(t, incomplete) ==
  t.swf \/ t.exif \/ t.exhausted \/ t.errs \/ t.url \/ incomplete

Trouble(t, incomplete) ==
  \/ t.failed # {}
  \/ t.swf \/ t.exif \/ t.exhausted \/ t.errs \/ t.url \/ incomplete

Incomplete(t) == ~t.complete /\ t.seen /\ ~shutdown /\ ~t.url

Report(t, incomplete) ==
  LET expired == t.auth >= AuthThreshold IN
  [outcome |-> IF expired THEN "SessionExpired"
               ELSE IF Trouble(t, incomplete) THEN "PartialFailure" ELSE "Success",
   interrupted |-> expired \/ shutdown, errs |-> t.errs,
   incomplete |-> incomplete, swf |-> t.swf, token |-> token]

\* build_retry_download_tasks lists the passes again; a file that is already in
\* place yields no task, and what is not found is only logged.
Refreshed ==
  LET missing == {a \in tot.failed : disk[a] = "none"} IN
  {fresh \in SUBSET missing : fresh = missing \/ shutdown \/ "unrefreshed" \in PipeFaults}

BuildOutcome ==
  /\ pc = "outcome"
  /\ \/ /\ tot.auth >= AuthThreshold \/ tot.url \/ tot.failed = {}
        /\ result' = Report(tot, Incomplete(tot)) /\ pc' = "result"
        /\ UNCHANGED <<cancel, chan, consumer, st>>
     \/ /\ tot.auth < AuthThreshold /\ ~tot.url /\ tot.failed # {}
        /\ \E fresh \in Refreshed : chan' \in SetToSeqs(fresh)
        /\ pc' = "cleanup" /\ cst' = "run" /\ deferred' = {} /\ circuit' = FALSE
        /\ cancel' = FALSE /\ st' = NoStats /\ stage' = Idle
        /\ result' = [NoResult EXCEPT !.incomplete = Incomplete(tot)]
        /\ UNCHANGED cur
     \/ /\ tot.auth < AuthThreshold /\ ~tot.url /\ tot.failed # {}
        /\ "provider" \in PipeFaults
        /\ pc' = "error"
        /\ UNCHANGED <<cancel, chan, consumer, st, result>>
  /\ UNCHANGED <<kind, durable, shutdown, round, ctx, producer, tot, token, starts>>

\* Only what the clean-up pass tried and failed is still counted as failed; it
\* enumerates nothing, so completeness is the enumeration's.
CleanedUp(t, s) == [Merged(t, s) EXCEPT !.failed = s.failed, !.complete = t.complete]

FinishCleanup ==
  /\ pc = "cleanup" /\ cst = "stopped"
  /\ \E ok \in LastFlush :
       LET s == Streamed(ok, FALSE) IN
       /\ rows' = Recorded(ok)
       /\ deferred' = deferred \ ok
       /\ result' = Report(CleanedUp(tot, s), result.incomplete)
  /\ pc' = "result"
  /\ UNCHANGED <<kind, marker, disk, shutdown, cancel, round, ctx, producer,
                 chan, cst, cur, stage, circuit, st, tot, token, starts>>

\* promote_pending_to_failed; last_seen_at is not modelled, so any pending row
\* may be one this run has seen.
FinishRun ==
  /\ pc = "result"
  /\ \E late \in SUBSET {a \in Assets : rows[a] = "pending"} :
       /\ shutdown => late = {}
       /\ rows' = [a \in Assets |-> IF a \in late THEN "failed" ELSE rows[a]]
  /\ pc' = "done"
  /\ UNCHANGED <<kind, marker, disk, shutdown, cancel, round, ctx, producer,
                 chan, consumer, st, tot, token, result, starts>>

\* source_checkpoint_decision for a run that is no dry run.
Advances(r) ==
  /\ r.outcome \in {"Success", "PartialFailure"}
  /\ ~r.interrupted /\ ~r.errs /\ ~r.incomplete /\ ~r.swf
  /\ r.token

-----------------------------------------------------------------------------
Produce ==
  \/ \E a \in Assets : ReadAsset(a) \/ ReadError(a)
  \/ StopReading \/ SendTask

Consume ==
  \/ \E a \in Assets :
       \/ CheckShutdown(a) \/ Publish(a) \/ TakeDownloaded(a) \/ TakeFailed(a)
       \/ TakeInterrupted(a) \/ TakeSessionExpired(a) \/ TakeExpiredUrl(a)
  \/ StartTransfer \/ UpdateMetadataMarker \/ ConsumerEnds

Finish ==
  \/ FinishEnumeration \/ FinishRepair \/ DrainMetadata \/ BuildOutcome
  \/ FinishCleanup \/ FinishRun

Process == Produce \/ Consume \/ Finish
Next == StartRun \/ RequestShutdown \/ Crash \/ ProducerPanics \/ Process
Spec == Init /\ [][Next]_vars

\* A tokio task that can run does run; requests and their retries are bounded
\* by timeouts, so a transfer ends in one of the ways above.  Nothing is owed of
\* signals, crashes and panics.
FairSpec == Spec /\ WF_vars(Process)

-----------------------------------------------------------------------------
(* Properties.                                                             *)

\* A row that says "downloaded" has its file, whatever was interrupted,
\* dropped with the consumer or cut off by a crash before: the row is written
\* after publish_part_to_final, and a deferred write only for a landed file.
DownloadedHasFile == \A a \in Assets : rows[a] = "downloaded" => disk[a] # "none"

\* What the consumer holds or has deferred has been published.
FilesInPlace ==
  \A a \in Assets : stage[a] = "landed" \/ a \in deferred => disk[a] # "none"

\* What the token of a finished enumeration would cover, and what a later run
\* finds again: by its row or by its file.
Wanted == {a \in Assets : kind[a] # "filtered"}
Known == {a \in Assets : rows[a] # "none" \/ disk[a] # "none"}

\* What the preloaded DownloadContext has seen is still in the catalogue.
ContextKnown == \A a \in Assets : ctx[a] # "none" => rows[a] # "none"

\* The producer has made known whatever it has read, or counted a failure.
ReadIsKnown ==
  pc = "stream" => \A a \in Wanted \ unread : a \in Known \/ st.swf \/ st.errs

\* Only a stream that was read to its end counts as complete.
CompleteIsRead == pc = "stream" /\ st.complete => unread = {}

\* A token that passed the proof, or its repair, covers known assets only, or a
\* state write failure travels with it.
TokenProves ==
  pc \in {"drain", "outcome", "cleanup"} /\ token => Wanted \subseteq Known \/ tot.swf

ReportProves ==
  pc \in {"result", "done"} /\ result.token => Wanted \subseteq Known \/ result.swf

\* The inductive invariant: a token is proved by the enumeration that yields
\* it, even where the round before it was cut short.
PInv == /\ TypeOK /\ DownloadedHasFile /\ FilesInPlace
        /\ ContextKnown /\ ReadIsKnown /\ CompleteIsRead /\ TokenProves /\ ReportProves

\* STATE_DB_UNWRITABLE_THRESHOLD bounds the files kei publishes without being
\* able to record them: with the breaker open only the transfers that were past
\* their last shutdown check still land.
UntrackedBounded ==
  LET flying == IF pc = "cleanup" THEN CleanupConcurrency ELSE Concurrency IN
  pc \in {"stream", "cleanup"} =>
    Cardinality(deferred) <= CircuitThreshold + flying - 1

\* An outcome of Success that was not interrupted means that every selected
\* asset is on disk, through the repair round and the clean-up pass.  (Where the
\* clean-up pass finds every failed task again: one it does not find is dropped
\* from the outcome with a warning.)
SuccessMeansOnDisk ==
  pc = "result" /\ result.outcome = "Success" /\ ~result.interrupted =>
    \A a \in Assets : kind[a] = "task" => disk[a] # "none"

\* Every run ends: a full channel, a consumer that has left and a cancelled
\* pipeline never leave producer and consumer waiting for each other.
Terminates == pc = "stream" ~> pc \in {"done", "error", "down"}

Said == IF pc \notin {"result", "done"} THEN "none"
        ELSE IF Advances(result) THEN "advance" ELSE "hold"

\* The run keeps LibraryRun's promise: an asset is known by its row or by its
\* file, and the checkpoint may advance only when every listed asset is.
Run == INSTANCE LibraryRun WITH
         Items <- Assets,
         wanted <- Wanted,
         known <- Known,
         report <- Said
KeepsPromise == Run!RunSpec
=============================================================================
