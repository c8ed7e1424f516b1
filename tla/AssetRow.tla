------------------------------ MODULE AssetRow ------------------------------
(***************************************************************************)
(* The row of one version of one asset in the state database and the       *)
(* statements of state/db.rs that change it.  Every statement is a function *)
(* of the row (or of the rows of the asset): what a caller does with it,   *)
(* and when, is in the modules that extend this one.  A checksum is the    *)
(* bytes it is taken of.                                                   *)
(***************************************************************************)
EXTENDS Integers

Statuses == {"absent", "pending", "downloaded", "failed", "policy_excluded"}

CONSTANT Null   \* a column that is NULL

\* status and checksum of the provider; metadata_hash; local_path and
\* local_checksum; metadata_write_failed_at; the capture-repair receipt
\* (rhash, rout); is_deleted; download_attempts.
EmptyRow == [status |-> "absent", media |-> 0, hash |-> 0, path |-> Null,
             local |-> Null, marker |-> FALSE, rhash |-> Null, rout |-> Null,
             deleted |-> FALSE, attempts |-> 0]

Live(r) == r.status = "downloaded" /\ ~r.deleted
PendingRepair(r) == r.rhash # Null /\ r.rout = Null
Prepared(r) == r.rhash # Null /\ r.rout # Null

\* A prepared receipt for other metadata: its bytes may already be published.
Blocks(r, hash) == Live(r) /\ Prepared(r) /\ r.rhash # hash

\* upsert_seen refuses to move the metadata of a row whose published bytes a
\* receipt still has to explain, unless the row gets new media anyway.
UpsertBlocked(rows, v, media, hash) ==
  \E w \in DOMAIN rows : Blocks(rows[w], hash) /\ (w # v \/ rows[w].media = media)

UpsertSeen(r, media, hash) ==
  LET fresh == r.status = "absent"
      changed == r.media # media
  IN [r EXCEPT !.status = IF fresh \/ changed \/ @ = "policy_excluded"
                          THEN "pending" ELSE @,
               !.media = media, !.hash = hash, !.deleted = FALSE,
               !.rhash = IF changed \/ @ = Null THEN Null ELSE hash,
               !.rout = IF changed \/ r.rhash # hash THEN Null ELSE @]

\* mark_downloaded_with_capture_repair; a missing row is an error.
MarkDownloaded(r, path, local, repair) ==
  [r EXCEPT !.status = "downloaded", !.path = path, !.local = local,
            !.rhash = IF repair THEN r.hash ELSE IF r.local = local THEN @ ELSE Null,
            !.rout = IF ~repair /\ r.local = local THEN @ ELSE Null]

\* record_metadata_write_failure
SetMarker(r) == IF r.status = "absent" THEN r ELSE [r EXCEPT !.marker = TRUE]

\* refresh_downloaded_asset_metadata: the live rows of the asset, all or none.
RefreshBlockedNever(rows, hash) == FALSE
RefreshBlocked(rows, hash) == \E w \in DOMAIN rows : Blocks(rows[w], hash)
Refresh(rows, hash, mark, repair) ==
  [v \in DOMAIN rows |->
     LET r == rows[v] IN
     IF ~Live(r) \/ RefreshBlocked(rows, hash) THEN r
     ELSE [r EXCEPT !.hash = hash,
                    !.marker = @ \/ mark,
                    !.rhash = IF Prepared(r) THEN @
                              ELSE IF PendingRepair(r) \/ repair THEN hash ELSE Null]]

\* record_capture_repair_prepared, compare-and-set on the selected row.
MayPrepare(r, selected) ==
  /\ Live(r) /\ selected.rhash # Null /\ selected.local # Null
  /\ r.hash = selected.rhash /\ r.local = selected.local
  /\ r.rhash = selected.rhash /\ r.rout = selected.rout
RecordPreparedLate(r, out) == r
RecordPrepared(r, out) == [r EXCEPT !.rout = out]

\* finish_metadata_rewrite: what may be recorded is checked before the
\* statement, and the statement is a compare-and-set on the selected row.
FinishValid(selected, queue, local, clears) ==
  /\ (queue = "capture" \/ "capture" \in clears) => selected.rhash # Null
  /\ "capture" \in clears => local \in {selected.local, selected.rout}
MayFinish(r, selected, queue, clears) ==
  LET sameReceipt == r.rhash = selected.rhash /\ r.rout = selected.rout IN
  /\ Live(r) /\ r.hash = selected.hash /\ r.local = selected.local
  /\ IF queue = "capture" THEN sameReceipt ELSE r.marker
  /\ "capture" \in clears => sameReceipt
FinishRewriteKeepsOutput(r, local, clears) ==
  [r EXCEPT !.local = local, !.marker = @ /\ "ordinary" \notin clears,
            !.rhash = IF "capture" \in clears THEN Null ELSE @]
FinishRewrite(r, local, clears) ==
  [r EXCEPT !.local = local,
            !.marker = @ /\ "ordinary" \notin clears,
            !.rhash = IF "capture" \in clears THEN Null ELSE @,
            !.rout = IF "capture" \in clears \/ r.local # local THEN Null ELSE @]

\* mark_failed
MarkFailed(r) == [r EXCEPT !.status = "failed", !.attempts = @ + 1]

\* prepare_for_retry, at the start of every run: failed rows are due again.
PrepareForRetry(r) ==
  IF r.status = "failed" /\ ~r.deleted THEN [r EXCEPT !.status = "pending", !.attempts = 0]
  ELSE IF r.status = "pending" THEN [r EXCEPT !.attempts = 0] ELSE r

\* mark_soft_deleted refuses to hide a prepared receipt.
MaySoftDelete(rows) == \A v \in DOMAIN rows : ~Prepared(rows[v])
SoftDelete(rows) ==
  [v \in DOMAIN rows |-> IF rows[v].status = "absent" THEN rows[v]
                         ELSE [rows[v] EXCEPT !.deleted = TRUE]]
=============================================================================
