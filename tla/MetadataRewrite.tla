-------------------------- MODULE MetadataRewrite --------------------------
(***************************************************************************)
(* How the provider's metadata reaches the file of an asset: the producers *)
(* of a cycle catalogue changed metadata and leave a rewrite marker, a     *)
(* download writes the snapshot it was planned from, and one drain at the  *)
(* end of the cycle embeds what is owed (download/metadata_rewrite.rs).    *)
(* kei sync --refresh-metadata visits every asset again, and with          *)
(* --repair-capture-timestamps drains a second queue whose receipts let a  *)
(* later run recognise bytes that a crash left unrecorded.                 *)
(*                                                                         *)
(* One asset, its versions, and one or more passes (albums) with a path    *)
(* each: the passes run concurrently and share the row.  Embedded metadata *)
(* is switched on.  Publication is one step here, FileLanding has it in    *)
(* full; sidecars are files of their own and appear only as a write that   *)
(* may fail.                                                               *)
(***************************************************************************)
EXTENDS AssetRow, FiniteSets

CONSTANTS
  Versions,    \* version sizes of the asset
  Passes,      \* passes that list it, and their paths
  MaxHash,     \* bound: metadata changes by the provider
  MaxMedia,    \* bound: new media from the provider
  MaxFaults,   \* bound: misfortunes of any kind
  Plain,       \* metadata with nothing to embed
  MetaFaults   \* which misfortunes of AllMetaFaults may happen

\* "edit": the user saves a file; "exif": the metadata writer fails; "sidecar":
\* the sidecar writer fails; "transfer": a download fails; "db": a statement
\* fails; "finish": the last statement of a rewrite fails; "crash".
AllMetaFaults == {"edit", "exif", "sidecar", "transfer", "db", "finish", "crash", "delete"}

ASSUME MetaSetsAssumption == /\ IsFiniteSet(Versions) /\ IsFiniteSet(Passes)
                             /\ Null \notin Passes
ASSUME MetaBoundsAssumption == /\ MaxHash \in Nat /\ MaxMedia \in Nat
                               /\ MaxFaults \in Nat
ASSUME PlainAssumption == Plain \subseteq 0..MaxHash
ASSUME MetaFaultsAssumption == MetaFaults \subseteq AllMetaFaults

\* The bytes of a file: the provider's media, the metadata embedded in it, the
\* metadata whose capture time it denotes, and how often the user saved it.
Bytes == [media : 0..MaxMedia, meta : (0..MaxHash) \cup {Null},
          cap : (0..MaxHash) \cup {Null}, edit : 0..MaxFaults]
Raw(media) == [media |-> media, meta |-> Null, cap |-> Null, edit |-> 0]
Current(b, hash) == b.meta = hash \/ hash \in Plain

Modes == {"sync", "refresh", "repair"}

VARIABLES
  prov,     \* the provider: metadata, media
  rows,     \* the rows of the asset
  files,    \* what each pass has at its path
  phase,    \* "idle", "passes", "drain"
  mode,     \* how the cycle was started
  ctx,      \* DownloadContext: what a cycle preloads of the rows
  seen,     \* what a pass has seen of the asset, Null before its visit
  task,     \* the download of a version in a pass
  work,     \* the rewrite in progress, or Null
  done,     \* versions the drain has been through
  faults    \* misfortunes so far

vars == <<prov, rows, files, phase, mode, ctx, seen, task, work, done, faults>>

NoTask == [pc |-> "none", hash |-> 0, media |-> 0, exif |-> TRUE, bytes |-> Null,
           aside |-> FALSE]
TaskSteps == {"none", "planned", "landed", "mark", "deferred"}
WorkSteps == {"prepare", "record", "publish", "finish"}

Hashes == 0..MaxHash
Medias == 0..MaxMedia
Slots == Versions \X Passes
Row == [status : Statuses, media : Medias, hash : Hashes, path : Passes \cup {Null},
        local : Bytes \cup {Null}, marker : BOOLEAN, rhash : Hashes \cup {Null},
        rout : Bytes \cup {Null}, deleted : BOOLEAN, attempts : Nat]
Cached == [status : Statuses, deleted : BOOLEAN, media : Medias, hash : Hashes,
           marker : BOOLEAN]
Snapshot == [hash : Hashes, media : Medias, refreshed : BOOLEAN, pc : {"plan", "done"}]
Task == [pc : TaskSteps, hash : Hashes, media : Medias, exif : BOOLEAN,
         bytes : Bytes \cup {Null}, aside : BOOLEAN]
Work == [v : Versions, row : Row, pre : Bytes, out : Bytes, step : WorkSteps,
         failed : BOOLEAN, nowrite : BOOLEAN, embedded : BOOLEAN, recovered : BOOLEAN]

ASSUME NullAssumption == /\ Null \notin Bytes /\ Null \notin Hashes
                         /\ Null \notin Snapshot /\ Null \notin Work

\* Types.  A receipt that names an output says for which metadata, and a
\* downloaded row has a path.
MetaTypeOK ==
  /\ prov \in [hash : Hashes, media : Medias]
  /\ rows \in [Versions -> Row]
  /\ \A v \in Versions : /\ rows[v].rout # Null => rows[v].rhash # Null
                         /\ rows[v].status = "downloaded" => rows[v].path # Null
  /\ files \in [Slots -> Bytes \cup {Null}]
  /\ phase \in {"idle", "passes", "drain"} /\ mode \in Modes
  /\ ctx \in [Versions -> Cached]
  /\ seen \in [Passes -> Snapshot \cup {Null}]
  /\ task \in [Slots -> Task]
  /\ work \in Work \cup {Null}
  /\ done \in SUBSET Versions
  /\ faults \in 0..MaxFaults

Preload(rs) == [v \in Versions |-> [status |-> rs[v].status, deleted |-> rs[v].deleted,
                                    media |-> rs[v].media, hash |-> rs[v].hash,
                                    marker |-> rs[v].marker]]
Forget == Preload([v \in Versions |-> EmptyRow])

Init ==
  /\ prov = [hash |-> 0, media |-> 0]
  /\ rows = [v \in Versions |-> EmptyRow]
  /\ files = [x \in Versions \X Passes |-> Null]
  /\ phase = "idle" /\ mode = "sync"
  /\ ctx = Preload(rows)
  /\ seen = [p \in Passes |-> Null]
  /\ task = [x \in Versions \X Passes |-> NoTask]
  /\ work = Null /\ done = {}
  /\ faults = 0

\* A misfortune of this kind, while the budget lasts.
Fault(kind) == kind \in MetaFaults /\ faults < MaxFaults /\ faults' = faults + 1
NoFault == UNCHANGED faults

FileOf(v) == IF rows[v].path = Null THEN Null ELSE files[<<v, rows[v].path>>]
-----------------------------------------------------------------------------
(* The world. *)

ProviderEdits ==
  /\ prov.hash < MaxHash
  /\ prov' = [prov EXCEPT !.hash = @ + 1]
  /\ UNCHANGED <<rows, files, phase, mode, ctx, seen, task, work, done, faults>>

ProviderReplaces ==
  /\ prov.media < MaxMedia
  /\ prov' = [prov EXCEPT !.media = @ + 1]
  /\ UNCHANGED <<rows, files, phase, mode, ctx, seen, task, work, done, faults>>

UserSaves(x) ==
  /\ files[x] # Null /\ Fault("edit")
  /\ files' = [files EXCEPT ![x].edit = @ + 1]
  /\ UNCHANGED <<prov, rows, phase, mode, ctx, seen, task, work, done>>

\* Everything but the database and the files is lost.
Crash ==
  /\ phase # "idle" /\ Fault("crash")
  /\ phase' = "idle"
  /\ seen' = [p \in Passes |-> Null]
  /\ task' = [x \in Versions \X Passes |-> NoTask]
  /\ work' = Null /\ done' = {} /\ ctx' = Forget
  /\ UNCHANGED <<prov, rows, files, mode>>
-----------------------------------------------------------------------------
(* The passes. *)

StartCycle(how) ==
  /\ phase = "idle"
  /\ phase' = "passes" /\ mode' = how
  /\ rows' = [v \in Versions |-> PrepareForRetry(rows[v])]
  /\ ctx' = Preload(rows')
  /\ UNCHANGED <<prov, files, seen, task, work, done, faults>>

Forced == mode # "sync"
RepairRequested == mode = "repair"
Drift(hash) == \E v \in Versions : Live(ctx[v]) /\ ctx[v].hash # hash
RetryMarker == \E v \in Versions : Live(ctx[v]) /\ ctx[v].marker

\* The producer of a pass reaches the asset: changed metadata is catalogued
\* before anything is planned.  A statement that fails holds the checkpoint.
Visit(p) ==
  /\ phase = "passes" /\ seen[p] = Null
  /\ LET s == prov
         attempt == Forced \/ Drift(s.hash) \/ RetryMarker
     IN /\ seen' = [seen EXCEPT ![p] = [hash |-> s.hash, media |-> s.media,
                                        refreshed |-> attempt, pc |-> "plan"]]
        /\ \/ /\ rows' = IF attempt THEN Refresh(rows, s.hash, Forced \/ Drift(s.hash), RepairRequested)
                         ELSE rows
              /\ NoFault
           \/ attempt /\ Fault("db") /\ UNCHANGED rows
  /\ UNCHANGED <<prov, files, phase, mode, ctx, task, work, done>>

\* What the planner finds at the path of a pass.  A row that was downloaded
\* is trusted with any file that is not truncated; for a pending row the file
\* has the provider's size, or is the one the row recorded.
Trusted(p, v) == /\ files[<<v, p>>] # Null /\ ctx[v].status = "downloaded"
                 /\ ctx[v].media = seen[p].media
ProviderSize(p, v) == files[<<v, p>>] = Raw(seen[p].media)
Recorded(p, v) == /\ files[<<v, p>>] # Null /\ rows[v].path = p
                  /\ rows[v].local = files[<<v, p>>] /\ rows[v].media = seen[p].media
OnDisk(p, v) == Trusted(p, v) \/ ProviderSize(p, v) \/ (ctx[v].status = "pending" /\ Recorded(p, v))

\* tag_if_needed, for an asset that was not refreshed and needs no download.
Tagged(p, v) ==
  IF /\ ~seen[p].refreshed /\ ~ctx[v].deleted
     /\ Trusted(p, v) \/ ProviderSize(p, v)
     /\ ctx[v].marker \/ ctx[v].status # "downloaded" \/ ctx[v].hash # seen[p].hash
  THEN SetMarker(rows[v]) ELSE rows[v]

\* record_seen_for_forwarded_task, upsert_seen: a refusal is counted, no more.
Catalogued(r, p, v) ==
  IF UpsertBlocked(rows, v, seen[p].media, seen[p].hash) THEN r
  ELSE UpsertSeen(r, seen[p].media, seen[p].hash)

\* A pending row whose file is there is marked downloaded.
Adopted(p, v) ==
  IF ctx[v].status # "pending" THEN Tagged(p, v)
  ELSE MarkDownloaded(Catalogued(Tagged(p, v), p, v), p, files[<<v, p>>], RepairRequested)

\* Planning: what is on disk is adopted, the rest is catalogued and downloaded.
Plan(p) ==
  /\ phase = "passes" /\ seen[p] # Null /\ seen[p].pc = "plan"
  /\ LET s == seen[p]
         fetch == {v \in Versions : ~OnDisk(p, v)}
     IN /\ rows' = [v \in Versions |-> IF v \in fetch THEN Catalogued(rows[v], p, v)
                                       ELSE Adopted(p, v)]
        /\ task' = [x \in Versions \X Passes |->
                      IF x[1] \in fetch /\ x[2] = p
                      THEN [pc |-> "planned", hash |-> s.hash, media |-> s.media, exif |-> TRUE,
                            bytes |-> Null, aside |-> FALSE]
                      ELSE task[x]]
        /\ seen' = [seen EXCEPT ![p].pc = "done"]
  /\ UNCHANGED <<prov, files, phase, mode, ctx, work, done, faults>>

\* The bytes land with the metadata of the snapshot, or without it when the
\* writer failed.  A file that is in the way keeps its name; the new one gets
\* another, which the row has once it is written.
Land(x) ==
  /\ task[x].pc = "planned"
  /\ \E ok \in BOOLEAN :
       LET b == [Raw(task[x].media) EXCEPT
                   !.meta = IF ok /\ task[x].hash \notin Plain THEN task[x].hash ELSE Null]
       IN /\ IF ok THEN NoFault ELSE Fault("exif")
          /\ files' = [files EXCEPT ![x] = IF @ = Null THEN b ELSE @]
          /\ task' = [task EXCEPT ![x].pc = "landed", ![x].exif = ok, ![x].bytes = b,
                                  ![x].aside = files[x] # Null]
  /\ UNCHANGED <<prov, rows, phase, mode, ctx, seen, work, done>>

TransferFails(x) ==
  /\ task[x].pc = "planned" /\ Fault("transfer")
  /\ rows' = [rows EXCEPT ![x[1]] = MarkFailed(@)]
  /\ task' = [task EXCEPT ![x] = NoTask]
  /\ UNCHANGED <<prov, files, phase, mode, ctx, seen, work, done>>

Downloaded(x) ==
  LET b == task[x].bytes IN
  /\ rows' = [rows EXCEPT ![x[1]] = MarkDownloaded(@, x[2], b, RepairRequested)]
  /\ files' = [files EXCEPT ![x] = IF task[x].aside THEN b ELSE @]

\* finalize_downloaded: the row first, then the marker of a failed writer; a
\* row that cannot be written is deferred.
FinalizeDownloaded(x) ==
  /\ task[x].pc = "landed"
  /\ \/ /\ Downloaded(x) /\ NoFault
        /\ task' = [task EXCEPT ![x] = IF task[x].exif THEN NoTask ELSE [@ EXCEPT !.pc = "mark"]]
     \/ /\ Fault("db") /\ UNCHANGED <<rows, files>>
        /\ task' = [task EXCEPT ![x].pc = "deferred"]
  /\ UNCHANGED <<prov, phase, mode, ctx, seen, work, done>>

\* update_metadata_marker: a failure is only logged.
UpdateMetadataMarker(x) ==
  /\ task[x].pc = "mark"
  /\ \/ rows' = [rows EXCEPT ![x[1]] = SetMarker(@)] /\ NoFault
     \/ UNCHANGED rows /\ Fault("db")
  /\ task' = [task EXCEPT ![x] = NoTask]
  /\ UNCHANGED <<prov, files, phase, mode, ctx, seen, work, done>>

\* retry_pending_state_write: the row is written without a marker, or stays
\* untracked after six attempts.
FlushPendingStateWrite(x) ==
  /\ task[x].pc = "deferred"
  /\ \/ Downloaded(x) /\ NoFault
     \/ UNCHANGED <<rows, files>> /\ Fault("db")
  /\ task' = [task EXCEPT ![x] = NoTask]
  /\ UNCHANGED <<prov, phase, mode, ctx, seen, work, done>>

\* A change feed reports the asset as deleted.
SourceDeleted ==
  /\ phase = "passes" /\ \A x \in DOMAIN task : task[x] = NoTask
  /\ Fault("delete") /\ MaySoftDelete(rows)
  /\ rows' = SoftDelete(rows)
  /\ UNCHANGED <<prov, files, phase, mode, ctx, seen, task, work, done>>
-----------------------------------------------------------------------------
(* The drain: after every pass, one row after the other. *)

StartDrain ==
  /\ phase = "passes"
  /\ \A p \in Passes : seen[p] # Null /\ seen[p].pc = "done"
  /\ \A x \in DOMAIN task : task[x] = NoTask
  /\ phase' = "drain" /\ done' = {}
  /\ UNCHANGED <<prov, rows, files, mode, ctx, seen, task, work, faults>>

Queue == IF mode = "repair" THEN "capture" ELSE "ordinary"
Queued(v) == Live(rows[v]) /\ IF Queue = "capture" THEN rows[v].rhash # Null ELSE rows[v].marker

\* A rewrite that ends without a statement: the marker stays.
Skip(v) == done' = done \cup {v} /\ work' = Null

Recovered(r, f) == Queue = "capture" /\ Prepared(r) /\ r.rout = f
DriftedNever(r, f) == FALSE
Drifted(r, f) == r.local # Null /\ f # r.local /\ ~Recovered(r, f)

\* The file is fingerprinted.  One that is missing, that the row does not
\* describe, or that a capture repair has no checksum for is left alone; bytes
\* a receipt names are a repair that was published and not recorded.
Select(v) ==
  /\ phase = "drain" /\ work = Null /\ v \notin done /\ Queued(v)
  /\ LET r == rows[v]
         f == FileOf(v)
         start == [v |-> v, row |-> r, pre |-> f, out |-> f, step |-> "prepare",
                   failed |-> FALSE, nowrite |-> FALSE, embedded |-> FALSE, recovered |-> FALSE]
     IN IF \/ f = Null \/ Drifted(r, f)
           \/ Queue = "capture" /\ (r.local = Null \/ r.rhash # r.hash)
           \/ Recovered(r, f) /\ f.cap # r.hash
        THEN Skip(v)
        ELSE /\ work' = IF Recovered(r, f)
                        THEN [start EXCEPT !.step = "finish", !.nowrite = TRUE,
                                           !.embedded = TRUE, !.recovered = TRUE]
                        ELSE start
             /\ UNCHANGED done
  /\ UNCHANGED <<prov, rows, files, phase, mode, ctx, seen, task, faults>>

Embedded(r, f) ==
  IF Queue = "capture"
  THEN [f EXCEPT !.meta = IF r.hash \in Plain THEN @ ELSE r.hash, !.cap = r.hash]
  ELSE [f EXCEPT !.meta = r.hash]
NothingToWrite(r, f) == r.hash \in Plain /\ (Queue = "capture" => f.cap = r.hash)

\* prepare_embed_metadata: the output is written to a sibling.
PrepareEmbed ==
  /\ work # Null /\ work.step = "prepare"
  /\ LET r == work.row
         f == files[<<work.v, r.path>>]
     IN \/ /\ NothingToWrite(r, work.pre) /\ NoFault
           /\ work' = [work EXCEPT !.step = "finish", !.nowrite = TRUE,
                                   !.embedded = Queue = "capture"]
        \/ /\ ~NothingToWrite(r, work.pre) /\ NoFault
           /\ work' = IF f # work.pre \/ (Queue = "ordinary" /\ r.rhash # Null)
                      THEN [work EXCEPT !.step = "finish", !.failed = TRUE]
                      ELSE [work EXCEPT !.out = Embedded(r, f),
                              !.step = IF Queue = "capture" THEN "record" ELSE "publish"]
        \/ /\ Fault("exif")
           /\ work' = [work EXCEPT !.step = "finish", !.failed = TRUE]
  /\ UNCHANGED <<prov, rows, files, phase, mode, ctx, seen, task, done>>

\* The receipt names the output before it is published.
RecordCaptureRepairPrepared ==
  /\ work # Null /\ work.step = "record"
  /\ LET v == work.v IN
     \/ /\ MayPrepare(rows[v], work.row) /\ NoFault
        /\ rows' = [rows EXCEPT ![v] = RecordPrepared(@, work.out)]
        /\ work' = [work EXCEPT !.step = "publish", !.row.rout = work.out]
        /\ UNCHANGED done
     \/ /\ IF MayPrepare(rows[v], work.row) THEN Fault("db") ELSE NoFault
        /\ Skip(v) /\ UNCHANGED rows
  /\ UNCHANGED <<prov, files, phase, mode, ctx, seen, task>>

\* publish_embed_metadata: only over the bytes that were fingerprinted.
StableUnchecked(f) == TRUE
Stable(f) == f = work.pre
PublishEmbed ==
  /\ work # Null /\ work.step = "publish"
  /\ LET x == <<work.v, work.row.path>> IN
     \/ /\ Stable(files[x]) /\ NoFault
        /\ files' = [files EXCEPT ![x] = work.out]
        /\ work' = [work EXCEPT !.step = "finish", !.embedded = Queue = "capture"]
     \/ /\ IF Stable(files[x]) THEN Fault("exif") ELSE NoFault
        /\ work' = [work EXCEPT !.step = "finish", !.failed = TRUE, !.out = work.pre]
        /\ UNCHANGED files
  /\ UNCHANGED <<prov, rows, phase, mode, ctx, seen, task, done>>

CompletedRegardless(sidecar) ==
  (IF ~work.recovered /\ sidecar THEN {"ordinary"} ELSE {})
  \cup (IF Queue = "capture" /\ work.embedded THEN {"capture"} ELSE {})

\* What the rewrite has completed; an inspection that wrote nothing counts
\* only if the file is still the one inspected.
Completed(sidecar) ==
  LET changed == work.nowrite /\ files[<<work.v, work.row.path>>] # work.pre
      failed == work.failed \/ changed \/ ~sidecar
  IN (IF ~failed /\ ~work.recovered THEN {"ordinary"} ELSE {})
     \cup (IF Queue = "capture" /\ work.embedded THEN {"capture"} ELSE {})

\* finish_metadata_rewrite.  When the statement fails, an ordinary rewrite tries
\* once more to clear the checksum that no longer describes the file.
FinishMetadataRewrite ==
  /\ work # Null /\ work.step = "finish"
  /\ \E sidecar \in BOOLEAN :
       LET v == work.v
           clears == Completed(sidecar)
           due == clears # {} \/ work.out # work.row.local
           match == /\ FinishValid(work.row, Queue, work.out, clears)
                    /\ MayFinish(rows[v], work.row, Queue, clears)
           finish == IF due /\ match
                     THEN [rows EXCEPT ![v] = FinishRewrite(@, work.out, clears)] ELSE rows
           clear == IF Queue = "ordinary" /\ work.row.rhash = Null /\ MayFinish(rows[v], work.row, Queue, {})
                    THEN [rows EXCEPT ![v] = FinishRewrite(@, Null, {})] ELSE rows
       IN \/ rows' = finish /\ IF sidecar THEN NoFault ELSE Fault("sidecar")
          \/ /\ due /\ sidecar /\ Fault("finish")
             /\ rows' \in {clear, rows}
  /\ Skip(work.v)
  /\ UNCHANGED <<prov, files, phase, mode, ctx, seen, task>>

EndCycle ==
  /\ phase = "drain" /\ work = Null /\ \A v \in Versions \ done : ~Queued(v)
  /\ phase' = "idle" /\ done' = {} /\ ctx' = Forget
  /\ seen' = [p \in Passes |-> Null]
  /\ UNCHANGED <<prov, rows, files, mode, task, work, faults>>
-----------------------------------------------------------------------------
World == ProviderEdits \/ ProviderReplaces \/ Crash \/ (\E x \in DOMAIN files : UserSaves(x))
PassStep ==
  \/ \E p \in Passes : Visit(p) \/ Plan(p)
  \/ \E x \in DOMAIN task : \/ Land(x) \/ TransferFails(x) \/ FinalizeDownloaded(x)
                            \/ UpdateMetadataMarker(x) \/ FlushPendingStateWrite(x)
  \/ SourceDeleted
DrainStep ==
  \/ StartDrain \/ EndCycle
  \/ \E v \in Versions : Select(v)
  \/ PrepareEmbed \/ RecordCaptureRepairPrepared \/ PublishEmbed \/ FinishMetadataRewrite
Next == World \/ (\E how \in Modes : StartCycle(how)) \/ PassStep \/ DrainStep
Spec == Init /\ [][Next]_vars

\* A cycle ends, and the operator repeats a repair that was left unfinished.
FairSpec == Spec /\ WF_vars(PassStep \/ DrainStep) /\ SF_vars(StartCycle("repair"))
-----------------------------------------------------------------------------
(* Properties. *)

\* No rewrite replaces what the user saved: between the fingerprint, the
\* preparation and the publication of a rewrite the user may save at any time
\* (publish_embed_metadata, METADATA_EMBED_REWRITE_REQUIRES_STABLE_INPUT).
SavedStays == [][\A x \in DOMAIN files :
                   DrainStep /\ files[x] # Null => files'[x].edit >= files[x].edit]_vars

\* A drain never records, as the bytes kei wrote, bytes the user has changed
\* since the row was last written: the checksum is the evidence that verify and
\* reconcile rely on (run_pending_page, drifted).
EditsNotBlessed ==
  [][\A v \in Versions :
       DrainStep /\ rows[v].local # Null /\ rows'[v].local # Null
         => rows'[v].local.edit = rows[v].local.edit]_vars

\* Bytes of a capture repair that the row does not know yet are named by its
\* receipt, whatever a crash, another sync or the provider did in between: the
\* next repair can tell them from damage (record_capture_repair_prepared).
ReceiptNamesOutput ==
  \A v \in Versions :
    LET r == rows[v]
        f == FileOf(v)
    IN (/\ r.status = "downloaded" /\ r.local # Null /\ f # Null
        /\ f.edit = r.local.edit /\ f.cap # r.local.cap) => r.rout = f

\* The file has the metadata of its row, or something durable says it has not.
Settled(v) ==
  LET f == FileOf(v) IN
  f = Null \/ ~Live(rows[v]) \/ Current(f, rows[v].hash) \/ rows[v].marker

\* Once the metadata of a file is settled, no refresh, no rewrite that fails in
\* any of its steps and no crash unsettles it (refresh_downloaded_asset_metadata
\* commits hash and marker together; only the drain retires a marker).
SettledStays ==
  [][\A v \in Versions :
       /\ Settled(v)
       /\ DrainStep \/ Crash \/ SourceDeleted \/ \E p \in Passes : Visit(p)
       => Settled(v)']_vars

\* A repair that was prepared is finished or its file was changed by the user,
\* however often the process dies between receipt, publication and record, and
\* whatever the provider changes (run_pending_page, recovered_prepared_output).
PreparedResolves ==
  \A v \in Versions :
    Prepared(rows[v]) ~> (~Prepared(rows[v]) \/ FileOf(v).edit # rows[v].local.edit)

\* Between cycles every file has its row's metadata or a marker: "Metadata
\* failure markers must survive so a later run can retry metadata".
MarkerSurvives == phase = "idle" => \A v \in Versions : Settled(v)
=============================================================================
