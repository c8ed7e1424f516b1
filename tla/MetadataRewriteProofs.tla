---------------------- MODULE MetadataRewriteProofs ----------------------
(***************************************************************************)
(* Proofs about MetadataRewrite: any versions, passes and bounds, with     *)
(* every fault.                                                            *)
(***************************************************************************)
EXTENDS MetadataRewrite, TLAPS

-----------------------------------------------------------------------------
(* The inductive invariant.                                                *)

\* What the statements keep of a row on its own: a receipt is for the metadata
\* of the row and for bytes with the same edits.
RowSound(r) ==
  /\ r.rout # Null => /\ r.rhash = r.hash /\ r.local # Null /\ ~r.deleted
                      /\ r.rout.edit = r.local.edit
  /\ r.status = "downloaded" => r.path # Null

\* What a row says of its file.
Describes(r, f) ==
  /\ f # Null
  /\ r.local # Null => /\ f.edit >= r.local.edit
                       /\ f.edit = r.local.edit /\ f.cap # r.local.cap => r.rout = f

RowsSound == \A v \in Versions :
  /\ RowSound(rows[v])
  /\ rows[v].status = "downloaded" => Describes(rows[v], FileOf(v))

\* How often the user saved a file.
EditsSound ==
  /\ \A x \in Slots : files[x] # Null => files[x].edit <= faults
  /\ work # Null => work.pre.edit <= faults

\* A download that has landed and has no row yet.
TasksSound == \A x \in Slots :
  /\ task[x].pc # "none" => phase = "passes"
  /\ task[x].pc \in {"landed", "deferred"} =>
       /\ task[x].bytes # Null /\ task[x].bytes.edit = 0 /\ task[x].bytes.cap = Null
       /\ ~task[x].aside => files[x] # Null /\ files[x].cap = Null

\* A rewrite in progress: its row does not change under it, its file only by the
\* hand of the user.
WorkSound == work # Null =>
  LET r == work.row
      f == files[<<work.v, r.path>>]
      now == IF work.step = "finish" THEN work.out ELSE work.pre
  IN /\ phase = "drain" /\ r = rows[work.v] /\ r.status = "downloaded" /\ ~r.deleted
     /\ work.out.edit = work.pre.edit
     /\ f # Null /\ (f = now \/ f.edit > now.edit)
     /\ r.local # Null => work.pre.edit = r.local.edit
     /\ work.step = "prepare" => work.out = work.pre
     /\ work.step # "finish" /\ r.local # Null => work.pre = r.local
     /\ work.step = "record" => Queue = "capture"
     /\ work.step \in {"record", "publish"} => Current(work.out, r.hash)
     /\ work.step = "publish" /\ Queue = "capture" => r.rout = work.out
     /\ work.step = "publish" /\ Queue = "ordinary" => work.out.cap = work.pre.cap
     /\ Queue = "capture" => r.local # Null
     /\ work.step = "finish" /\ ~work.failed /\ ~work.recovered => Current(f, r.hash)

\* While a preloaded marker alone makes a pass refresh the asset, the provider
\* has not changed the metadata since the cycle began.
Steady == /\ \E u \in Versions : Live(ctx[u])
          /\ \A u \in Versions : Live(ctx[u]) => ctx[u].hash = prov.hash
SteadySound ==
  /\ phase = "idle" => \A p \in Passes : seen[p] = Null
  /\ \A v \in Versions : rows[v].hash <= prov.hash /\ ctx[v].hash <= prov.hash
  /\ \A p \in Passes : seen[p] # Null => seen[p].hash <= prov.hash
  /\ phase = "passes" /\ Steady =>
       /\ \A p \in Passes : seen[p] # Null => seen[p].hash = prov.hash
       /\ \A v \in Versions : Live(rows[v]) => rows[v].hash = prov.hash
       /\ \A x \in Slots : task[x].pc # "none" => rows[x[1]].hash = prov.hash

MInv == MetaTypeOK /\ RowsSound /\ EditsSound /\ TasksSound /\ WorkSound /\ SteadySound

-----------------------------------------------------------------------------
(* The statements of AssetRow, field by field.                             *)

LEMMA NullIsNoValue ==
  /\ \A b \in Bytes : b # Null
  /\ \A h \in Hashes : h # Null
BY NullAssumption

LEMMA ZeroTypes == 0 \in Hashes /\ 0 \in Medias /\ 0 \in 0..MaxFaults
BY MetaBoundsAssumption DEF Hashes, Medias

LEMMA EmptyRowType == EmptyRow \in Row
BY ZeroTypes DEF EmptyRow, Row, Statuses

LEMMA UpsertSeenRow ==
  ASSUME NEW r \in Row, NEW media \in Medias, NEW hash \in Hashes
  PROVE  LET q == UpsertSeen(r, media, hash) IN
         /\ q \in Row /\ q.hash = hash /\ q.media = media /\ ~q.deleted
         /\ q.path = r.path /\ q.local = r.local /\ q.marker = r.marker
         /\ q.status = "downloaded" => r.status = "downloaded" /\ r.media = media
         /\ q.rhash = IF r.media # media \/ r.rhash = Null THEN Null ELSE hash
         /\ q.rout = IF r.media # media \/ r.rhash # hash THEN Null ELSE r.rout
BY DEF UpsertSeen, Row, Statuses

LEMMA MarkDownloadedRow ==
  ASSUME NEW r \in Row, NEW path \in Passes, NEW local \in Bytes, NEW repair \in BOOLEAN
  PROVE  LET q == MarkDownloaded(r, path, local, repair) IN
         /\ q \in Row /\ q.status = "downloaded" /\ q.path = path /\ q.local = local
         /\ q.hash = r.hash /\ q.media = r.media /\ q.marker = r.marker
         /\ q.deleted = r.deleted
         /\ q.rhash = IF repair THEN r.hash ELSE IF r.local = local THEN r.rhash ELSE Null
         /\ q.rout = IF ~repair /\ r.local = local THEN r.rout ELSE Null
BY DEF MarkDownloaded, Row, Statuses

LEMMA SetMarkerRow ==
  ASSUME NEW r \in Row
  PROVE  LET q == SetMarker(r) IN
         /\ q \in Row /\ q.status = r.status /\ q.media = r.media /\ q.hash = r.hash
         /\ q.path = r.path /\ q.local = r.local /\ q.rhash = r.rhash /\ q.rout = r.rout
         /\ q.deleted = r.deleted
BY DEF SetMarker, Row

LEMMA RecordPreparedRow ==
  ASSUME NEW r \in Row, NEW out \in Bytes
  PROVE  LET q == RecordPrepared(r, out) IN
         /\ q \in Row /\ q.status = r.status /\ q.media = r.media /\ q.hash = r.hash
         /\ q.path = r.path /\ q.local = r.local /\ q.rhash = r.rhash /\ q.rout = out
         /\ q.deleted = r.deleted /\ q.marker = r.marker
BY DEF RecordPrepared, Row

LEMMA FinishRewriteRow ==
  ASSUME NEW r \in Row, NEW local \in Bytes \cup {Null}, NEW clears
  PROVE  LET q == FinishRewrite(r, local, clears) IN
         /\ q \in Row /\ q.status = r.status /\ q.media = r.media /\ q.hash = r.hash
         /\ q.path = r.path /\ q.local = local /\ q.deleted = r.deleted
         /\ q.marker = (r.marker /\ "ordinary" \notin clears)
         /\ q.rhash = IF "capture" \in clears THEN Null ELSE r.rhash
         /\ q.rout = IF "capture" \in clears \/ r.local # local THEN Null ELSE r.rout
BY DEF FinishRewrite, Row

LEMMA MarkFailedRow ==
  ASSUME NEW r \in Row
  PROVE  LET q == MarkFailed(r) IN
         /\ q \in Row /\ q.status = "failed" /\ q.media = r.media /\ q.hash = r.hash
         /\ q.path = r.path /\ q.local = r.local /\ q.rhash = r.rhash /\ q.rout = r.rout
         /\ q.deleted = r.deleted /\ q.marker = r.marker
<1>1. r.attempts + 1 \in Nat /\ "failed" \in Statuses
  BY DEF Row, Statuses
<1> QED BY <1>1 DEF MarkFailed, Row

LEMMA PrepareForRetryRow ==
  ASSUME NEW r \in Row
  PROVE  LET q == PrepareForRetry(r) IN
         /\ q \in Row /\ q.media = r.media /\ q.hash = r.hash
         /\ q.path = r.path /\ q.local = r.local /\ q.rhash = r.rhash /\ q.rout = r.rout
         /\ q.deleted = r.deleted /\ q.marker = r.marker
         /\ q.status = "downloaded" <=> r.status = "downloaded"
BY DEF PrepareForRetry, Row, Statuses

LEMMA RefreshRow ==
  ASSUME MetaTypeOK, NEW hash \in Hashes, NEW mark \in BOOLEAN, NEW repair \in BOOLEAN,
         NEW v \in Versions
  PROVE  LET q == Refresh(rows, hash, mark, repair)[v]
             r == rows[v] IN
         /\ Refresh(rows, hash, mark, repair) \in [Versions -> Row]
         /\ q.status = r.status /\ q.media = r.media /\ q.path = r.path
         /\ q.local = r.local /\ q.rout = r.rout /\ q.deleted = r.deleted
         /\ ~Live(r) \/ RefreshBlocked(rows, hash) => q = r
         /\ Live(r) /\ ~RefreshBlocked(rows, hash) =>
              /\ q.hash = hash /\ q.marker = (r.marker \/ mark)
              /\ q.rhash = IF Prepared(r) THEN r.rhash
                           ELSE IF PendingRepair(r) \/ repair THEN hash ELSE Null
<1> DEFINE Step(r) == [r EXCEPT !.hash = hash, !.marker = @ \/ mark,
                         !.rhash = IF Prepared(r) THEN @
                                   ELSE IF PendingRepair(r) \/ repair THEN hash ELSE Null]
<1>1. ASSUME NEW r \in Row
      PROVE  /\ Step(r) \in Row
             /\ Step(r).status = r.status /\ Step(r).media = r.media /\ Step(r).path = r.path
             /\ Step(r).local = r.local /\ Step(r).rout = r.rout
             /\ Step(r).deleted = r.deleted
             /\ Step(r).hash = hash /\ Step(r).marker = (r.marker \/ mark)
             /\ Step(r).rhash = IF Prepared(r) THEN r.rhash
                                ELSE IF PendingRepair(r) \/ repair THEN hash ELSE Null
  BY DEF Row
<1>2. rows \in [Versions -> Row]
  BY DEF MetaTypeOK
<1>3. Refresh(rows, hash, mark, repair) =
        [u \in Versions |-> IF ~Live(rows[u]) \/ RefreshBlocked(rows, hash) THEN rows[u]
                            ELSE Step(rows[u])]
  BY <1>2 DEF Refresh
<1> HIDE DEF Step
<1>4. Refresh(rows, hash, mark, repair) \in [Versions -> Row]
  BY <1>1, <1>2, <1>3
<1> QED BY <1>1, <1>2, <1>3, <1>4

LEMMA SoftDeleteRow ==
  ASSUME MetaTypeOK, NEW v \in Versions
  PROVE  LET q == SoftDelete(rows)[v]
             r == rows[v] IN
         /\ SoftDelete(rows) \in [Versions -> Row]
         /\ q.status = r.status /\ q.media = r.media /\ q.path = r.path /\ q.hash = r.hash
         /\ q.local = r.local /\ q.rout = r.rout /\ q.rhash = r.rhash
         /\ q.deleted \/ q.status = "absent"
<1> DEFINE Step(r) == [r EXCEPT !.deleted = TRUE]
<1>1. ASSUME NEW r \in Row
      PROVE  /\ Step(r) \in Row
             /\ Step(r).status = r.status /\ Step(r).media = r.media /\ Step(r).path = r.path
             /\ Step(r).hash = r.hash /\ Step(r).local = r.local /\ Step(r).rout = r.rout
             /\ Step(r).rhash = r.rhash /\ Step(r).deleted
  BY DEF Row
<1>2. rows \in [Versions -> Row]
  BY DEF MetaTypeOK
<1>3. SoftDelete(rows) =
        [u \in Versions |-> IF rows[u].status = "absent" THEN rows[u] ELSE Step(rows[u])]
  BY <1>2 DEF SoftDelete
<1> HIDE DEF Step
<1>4. SoftDelete(rows) \in [Versions -> Row]
  BY <1>1, <1>2, <1>3
<1> QED BY <1>1, <1>2, <1>3, <1>4

LEMMA FaultStep ==
  ASSUME MInv, NEW kind, Fault(kind) \/ NoFault
  PROVE  faults \in Nat /\ faults' \in 0..MaxFaults /\ faults <= faults'
BY MetaBoundsAssumption DEF MInv, MetaTypeOK, Fault, NoFault

\* Files that nobody saves keep their number of edits.
LEMMA SameEdits ==
  ASSUME MInv, faults \in Nat, faults' \in 0..MaxFaults, faults <= faults',
         files' = files, work' = work \/ work' = Null
  PROVE  EditsSound'
<1>1. ASSUME NEW b \in Bytes, b.edit <= faults PROVE b.edit <= faults'
  BY <1>1, MetaBoundsAssumption DEF Bytes
<1> QED BY <1>1 DEF MInv, EditsSound, MetaTypeOK, Work

\* Rows that differ in their marker only.
Alike(q, r) ==
  /\ q.status = r.status /\ q.media = r.media /\ q.hash = r.hash /\ q.path = r.path
  /\ q.local = r.local /\ q.rhash = r.rhash /\ q.rout = r.rout /\ q.deleted = r.deleted

\* upsert_seen, as a pass calls it, keeps what a receipt explains.
LEMMA CataloguedRow ==
  ASSUME MInv, NEW p \in Passes, seen[p] \in Snapshot, NEW v \in Versions,
         NEW r \in Row, Alike(r, rows[v])
  PROVE  LET q == Catalogued(r, p, v) IN
         /\ q \in Row /\ RowSound(q) /\ q.path = r.path /\ q.local = r.local
         /\ q.status = "downloaded" => r.status = "downloaded" /\ q.rout = r.rout
         /\ q.hash = r.hash \/ q.hash = seen[p].hash
         /\ ~UpsertBlocked(rows, v, seen[p].media, seen[p].hash) => q.hash = seen[p].hash
<1> DEFINE media == seen[p].media
           hash == seen[p].hash
<1>1. media \in Medias /\ hash \in Hashes /\ hash # Null
  BY NullIsNoValue DEF Snapshot
<1>2. RowSound(r) /\ rows[v] \in Row
  BY DEF MInv, RowsSound, RowSound, Alike, MetaTypeOK
<1>3. CASE UpsertBlocked(rows, v, media, hash)
  BY <1>2, <1>3 DEF Catalogued
<1>4. CASE ~UpsertBlocked(rows, v, media, hash)
  <2> DEFINE q == UpsertSeen(r, media, hash)
  <2>1. Catalogued(r, p, v) = q
    BY <1>4 DEF Catalogued
  <2>2. /\ q \in Row /\ q.hash = hash /\ q.media = media /\ ~q.deleted
        /\ q.path = r.path /\ q.local = r.local
        /\ q.status = "downloaded" => r.status = "downloaded" /\ r.media = media
        /\ q.rhash = IF r.media # media \/ r.rhash = Null THEN Null ELSE hash
        /\ q.rout = IF r.media # media \/ r.rhash # hash THEN Null ELSE r.rout
    BY <1>1, UpsertSeenRow
  <2> HIDE DEF q, media, hash
  <2>3. RowSound(q)
    BY <1>1, <1>2, <2>2 DEF RowSound
  <2>4. ASSUME q.status = "downloaded"
        PROVE  q.rout = r.rout
    <3>1. CASE r.rout = Null \/ r.rhash = hash
      BY <2>2, <2>4, <3>1
    <3>2. CASE r.rout # Null /\ r.rhash # hash
      <4>1. Live(rows[v]) /\ Prepared(rows[v]) /\ rows[v].rhash # hash /\ rows[v].media = media
        BY <1>2, <2>2, <2>4, <3>2, NullIsNoValue DEF RowSound, Alike, Live, Prepared, Row
      <4>2. v \in DOMAIN rows
        BY DEF MInv, MetaTypeOK
      <4> QED BY <4>1, <4>2, <1>4 DEF UpsertBlocked, Blocks
    <3> QED BY <3>1, <3>2
  <2> QED BY <2>1, <2>2, <2>3, <2>4 DEF media, hash
<1> QED BY <1>3, <1>4

\* A pass that marks an existing file downloaded describes it.
LEMMA AdoptedRow ==
  ASSUME MInv, NEW p \in Passes, seen[p] \in Snapshot, NEW v \in Versions,
         files[<<v, p>>] \in Bytes
  PROVE  LET q == Adopted(p, v) IN
         /\ q \in Row /\ RowSound(q)
         /\ q.status = "downloaded" =>
              Describes(q, IF q.path = Null THEN Null ELSE files[<<v, q.path>>])
         /\ q.hash = rows[v].hash \/ q.hash = seen[p].hash
         /\ \/ Live(q) => Live(rows[v]) /\ q.hash = rows[v].hash
            \/ ~UpsertBlocked(rows, v, seen[p].media, seen[p].hash) => q.hash = seen[p].hash
<1> DEFINE r == Tagged(p, v)
           f == files[<<v, p>>]
<1>1. rows[v] \in Row /\ RowSound(rows[v]) /\ f # Null
      /\ (rows[v].status = "downloaded" => Describes(rows[v], FileOf(v)))
  BY NullIsNoValue DEF MInv, MetaTypeOK, RowsSound
<1>2. r \in Row /\ Alike(r, rows[v])
  BY <1>1, SetMarkerRow DEF Tagged, Alike
<1> HIDE DEF r, f
<1>3. CASE ctx[v].status # "pending"
  <2>1. Adopted(p, v) = r
    BY <1>3 DEF Adopted, r
  <2>2. RowSound(r)
    BY <1>1, <1>2 DEF RowSound, Alike
  <2>3. r.status = "downloaded" =>
          Describes(r, IF r.path = Null THEN Null ELSE files[<<v, r.path>>])
    BY <1>1, <1>2 DEF Describes, Alike, FileOf
  <2> QED BY <1>2, <2>1, <2>2, <2>3 DEF Alike, Live
<1>4. CASE ctx[v].status = "pending"
  <2> DEFINE c == Catalogued(r, p, v)
             q == MarkDownloaded(c, p, f, RepairRequested)
  <2>1. Adopted(p, v) = q
    BY <1>4 DEF Adopted, r, f
  <2>2. /\ c \in Row /\ RowSound(c)
        /\ c.hash = r.hash \/ c.hash = seen[p].hash
        /\ ~UpsertBlocked(rows, v, seen[p].media, seen[p].hash) => c.hash = seen[p].hash
    BY <1>2, CataloguedRow
  <2> HIDE DEF c
  <2>3. RepairRequested \in BOOLEAN /\ f \in Bytes
    BY DEF RepairRequested, f
  <2>4. /\ q \in Row /\ q.status = "downloaded" /\ q.path = p /\ q.local = f
        /\ q.hash = c.hash /\ q.deleted = c.deleted
        /\ q.rhash = IF RepairRequested THEN c.hash ELSE IF c.local = f THEN c.rhash ELSE Null
        /\ q.rout = IF ~RepairRequested /\ c.local = f THEN c.rout ELSE Null
    BY <2>2, <2>3, MarkDownloadedRow
  <2> HIDE DEF q
  <2>5. p # Null
    BY MetaSetsAssumption
  <2>6. RowSound(q)
    BY <2>2, <2>4, <2>5, <1>1 DEF RowSound
  <2>7. Describes(q, f)
    BY <2>4, <1>1, <2>3 DEF Describes, Bytes
  <2> QED BY <1>2, <2>1, <2>2, <2>4, <2>5, <2>6, <2>7 DEF f, Alike
<1> QED BY <1>3, <1>4

\* While nothing has changed since the cycle began, no receipt blocks a pass.
LEMMA SteadyUnblocked ==
  ASSUME MInv, phase = "passes", Steady, NEW p \in Passes, seen[p] # Null,
         NEW v \in Versions, NEW media
  PROVE  ~UpsertBlocked(rows, v, media, seen[p].hash) /\ seen[p].hash = prov.hash
<1>1. seen[p].hash = prov.hash
  BY DEF MInv, SteadySound
<1>2. ASSUME NEW w \in Versions, Blocks(rows[w], prov.hash)
      PROVE  FALSE
  BY <1>2 DEF Blocks, Prepared, MInv, SteadySound, RowsSound, RowSound
<1>3. DOMAIN rows = Versions
  BY DEF MInv, MetaTypeOK
<1> QED BY <1>1, <1>2, <1>3 DEF UpsertBlocked

\* A downloaded row has a file.
LEMMA FileThere ==
  ASSUME MInv, NEW v \in Versions, rows[v].status = "downloaded"
  PROVE  /\ rows[v].path \in Passes /\ <<v, rows[v].path>> \in Slots
         /\ FileOf(v) = files[<<v, rows[v].path>>] /\ FileOf(v) # Null
         /\ Describes(rows[v], FileOf(v))
BY DEF MInv, RowsSound, RowSound, MetaTypeOK, Row, FileOf, Slots, Describes

\* A download is recorded: the row describes the file it landed as.
LEMMA DownloadedRows ==
  ASSUME MInv, NEW x \in Slots, task[x].pc \in {"landed", "deferred"}, Downloaded(x)
  PROVE  /\ rows' \in [Versions -> Row] /\ files' \in [Slots -> Bytes \cup {Null}]
         /\ RowsSound'
         /\ \A v \in Versions : rows'[v].hash = rows[v].hash /\ (v # x[1] => rows'[v] = rows[v])
         /\ \A y \in Slots : y # x => files'[y] = files[y]
         /\ \A y \in Slots : files'[y] # Null => files[y] = files'[y] \/ files'[y].edit = 0
<1> DEFINE v == x[1]
           p == x[2]
           b == task[x].bytes
           q == MarkDownloaded(rows[v], p, b, RepairRequested)
<1>1. /\ v \in Versions /\ p \in Passes /\ p # Null /\ x = <<v, p>>
  BY MetaSetsAssumption DEF Slots
<1>2. /\ b \in Bytes /\ b # Null /\ b.edit = 0 /\ b.cap = Null
      /\ ~task[x].aside => files[x] # Null /\ files[x].cap = Null
  BY DEF MInv, TasksSound, MetaTypeOK, Task
<1>3. rows[v] \in Row /\ RowSound(rows[v]) /\ RepairRequested \in BOOLEAN
  BY <1>1 DEF MInv, MetaTypeOK, RowsSound, RepairRequested
<1>4. /\ rows' = [rows EXCEPT ![v] = q]
      /\ files' = [files EXCEPT ![x] = IF task[x].aside THEN b ELSE @]
  BY DEF Downloaded
<1> HIDE DEF b
<1>5. /\ q \in Row /\ q.status = "downloaded" /\ q.path = p /\ q.local = b
      /\ q.hash = rows[v].hash /\ q.deleted = rows[v].deleted
      /\ q.rhash = IF RepairRequested THEN q.hash
                   ELSE IF rows[v].local = b THEN rows[v].rhash ELSE Null
      /\ q.rout = IF ~RepairRequested /\ rows[v].local = b THEN rows[v].rout ELSE Null
  BY <1>1, <1>2, <1>3, MarkDownloadedRow
<1> HIDE DEF q, v, p
<1>6. /\ rows' \in [Versions -> Row] /\ rows'[v] = q
      /\ \A u \in Versions : u # v => rows'[u] = rows[u]
  BY <1>1, <1>4, <1>5 DEF MInv, MetaTypeOK
<1>7. /\ files' \in [Slots -> Bytes \cup {Null}]
      /\ files'[x] = IF task[x].aside THEN b ELSE files[x]
      /\ \A y \in Slots : y # x => files'[y] = files[y]
  BY <1>2, <1>4 DEF MInv, MetaTypeOK
<1>8. RowSound(q)
  BY <1>1, <1>2, <1>3, <1>5 DEF RowSound
<1>9. Describes(q, files'[x])
  <2>1. files'[x] \in Bytes /\ files'[x] # Null /\ files'[x].cap = Null
    BY <1>2, <1>7 DEF MInv, MetaTypeOK
  <2>2. files'[x].edit >= 0
    BY <2>1 DEF Bytes
  <2> QED BY <2>1, <2>2, <1>2, <1>5 DEF Describes
<1>10. ASSUME NEW u \in Versions
       PROVE  /\ RowSound(rows'[u])
              /\ rows'[u].status = "downloaded" => Describes(rows'[u], FileOf(u)')
  <2>1. CASE u = v
    <3>1. FileOf(u)' = files'[x]
      BY <2>1, <1>1, <1>5, <1>6 DEF FileOf
    <3> QED BY <2>1, <3>1, <1>6, <1>8, <1>9
  <2>2. CASE u # v
    <3>1. rows'[u] = rows[u] /\ RowSound(rows[u])
      BY <2>2, <1>6 DEF MInv, RowsSound
    <3>2. ASSUME rows[u].status = "downloaded"
          PROVE  FileOf(u)' = FileOf(u) /\ Describes(rows[u], FileOf(u))
      BY <2>2, <3>1, <3>2, <1>1, <1>7, FileThere DEF FileOf
    <3> QED BY <3>1, <3>2
  <2> QED BY <2>1, <2>2
<1> QED BY <1>2, <1>5, <1>6, <1>7, <1>10 DEF RowsSound, v

-----------------------------------------------------------------------------
(* Every step keeps the invariant.                                         *)

LEMMA ProviderEditsKeeps ==
  ASSUME MInv, ProviderEdits
  PROVE  MInv'
<1> USE DEF ProviderEdits
<1>a. \A v \in Versions : FileOf(v)' = FileOf(v)
  BY DEF FileOf
<1>1. MetaTypeOK'
  <2>1. prov.hash + 1 \in Hashes
    BY MetaBoundsAssumption DEF MInv, MetaTypeOK, Hashes
  <2>2. prov' \in [hash : Hashes, media : Medias]
    BY <2>1 DEF MInv, MetaTypeOK
  <2> QED BY <2>2 DEF MInv, MetaTypeOK
<1>2. RowsSound'
  BY <1>a DEF MInv, RowsSound
<1>3. EditsSound'
  BY DEF MInv, EditsSound, MetaTypeOK
<1>4. TasksSound'
  BY DEF MInv, TasksSound, MetaTypeOK
<1>5. WorkSound'
  BY DEF MInv, WorkSound, MetaTypeOK, Queue
<1>6. SteadySound'
  <2>1. prov'.hash = prov.hash + 1 /\ prov.hash \in Int
    BY DEF MInv, MetaTypeOK, Hashes
  <2>2. ~Steady'
    BY <2>1 DEF MInv, SteadySound, Steady, MetaTypeOK, Cached, Hashes, Live
  <2> QED BY <2>1, <2>2 DEF MInv, SteadySound, MetaTypeOK, Cached, Row, Snapshot, Hashes
<1> QED BY <1>1, <1>2, <1>3, <1>4, <1>5, <1>6 DEF MInv

LEMMA ProviderReplacesKeeps ==
  ASSUME MInv, ProviderReplaces
  PROVE  MInv'
<1> USE DEF ProviderReplaces
<1>a. \A v \in Versions : FileOf(v)' = FileOf(v)
  BY DEF FileOf
<1>1. MetaTypeOK'
  <2>1. prov.media + 1 \in Medias
    BY MetaBoundsAssumption DEF MInv, MetaTypeOK, Medias
  <2>2. prov' \in [hash : Hashes, media : Medias]
    BY <2>1 DEF MInv, MetaTypeOK
  <2> QED BY <2>2 DEF MInv, MetaTypeOK
<1>2. RowsSound'
  BY <1>a DEF MInv, RowsSound
<1>3. EditsSound'
  BY DEF MInv, EditsSound, MetaTypeOK
<1>4. TasksSound'
  BY DEF MInv, TasksSound, MetaTypeOK
<1>5. WorkSound'
  BY DEF MInv, WorkSound, MetaTypeOK, Queue
<1>6. SteadySound'
  <2>1. prov'.hash = prov.hash
    BY DEF MInv, MetaTypeOK
  <2> QED BY <2>1 DEF MInv, SteadySound, Steady
<1> QED BY <1>1, <1>2, <1>3, <1>4, <1>5, <1>6 DEF MInv

LEMMA UserSavesKeeps ==
  ASSUME MInv, NEW x \in Slots, UserSaves(x)
  PROVE  MInv'
<1> USE DEF UserSaves, Fault
<1>a. /\ files[x] \in Bytes /\ files[x] # Null
      /\ files[x].edit \in Nat /\ files[x].edit <= faults
      /\ faults \in Nat /\ faults' = faults + 1 /\ faults' \in 0..MaxFaults
  BY MetaBoundsAssumption DEF MInv, MetaTypeOK, EditsSound, Bytes
<1> DEFINE b == [files[x] EXCEPT !.edit = @ + 1]
<1>b. /\ b \in Bytes /\ b # Null /\ b.edit = files[x].edit + 1
      /\ b.cap = files[x].cap /\ b.meta = files[x].meta
  BY <1>a, NullIsNoValue, MetaBoundsAssumption DEF Bytes
<1>c. /\ files' = [files EXCEPT ![x] = b] /\ files'[x] = b
      /\ \A y \in Slots : y # x => files'[y] = files[y]
  BY DEF MInv, MetaTypeOK
<1> HIDE DEF b
<1>1. MetaTypeOK'
  BY <1>a, <1>b, <1>c DEF MInv, MetaTypeOK
<1>2. RowsSound'
  <2> SUFFICES ASSUME NEW v \in Versions, rows[v].status = "downloaded"
               PROVE  Describes(rows[v], FileOf(v)')
    BY DEF MInv, RowsSound
  <2>1. /\ rows[v].path \in Passes /\ rows[v].path # Null /\ <<v, rows[v].path>> \in Slots
        /\ FileOf(v) = files[<<v, rows[v].path>>] /\ FileOf(v)' = files'[<<v, rows[v].path>>]
        /\ Describes(rows[v], FileOf(v))
    BY DEF MInv, RowsSound, RowSound, MetaTypeOK, Row, FileOf, Slots
  <2>2. CASE <<v, rows[v].path>> # x
    BY <2>1, <2>2, <1>c
  <2>3. CASE <<v, rows[v].path>> = x
    <3>1. FileOf(v)' = b /\ FileOf(v) = files[x]
      BY <2>1, <2>3, <1>c
    <3>2. rows[v].local # Null => rows[v].local.edit \in Nat
      BY DEF MInv, MetaTypeOK, Row, Bytes
    <3> QED BY <3>1, <3>2, <2>1, <1>a, <1>b DEF Describes
  <2> QED BY <2>2, <2>3
<1>3. EditsSound'
  BY <1>a, <1>b, <1>c DEF MInv, EditsSound, MetaTypeOK, Bytes, Work
<1>4. TasksSound'
  BY <1>b, <1>c DEF MInv, TasksSound, MetaTypeOK
<1>5. WorkSound'
  <2> SUFFICES ASSUME work # Null
               PROVE  WorkSound'
    BY DEF WorkSound
  <2> DEFINE y == <<work.v, work.row.path>>
  <2>1. /\ y \in Slots /\ work \in Work /\ files[y] # Null /\ work.out.edit \in Nat /\ work.pre.edit \in Nat
    BY DEF MInv, WorkSound, RowsSound, RowSound, MetaTypeOK, Work, Row, Slots, Bytes
  <2>2. CASE y # x
    BY <2>1, <2>2, <1>c DEF MInv, WorkSound, Queue
  <2>3. CASE y = x
    <3>1. files'[y] = b /\ files[y] = files[x]
      BY <2>3, <1>c
    <3>2. b.edit > work.pre.edit /\ b.edit > work.out.edit
      BY <3>1, <2>1, <2>3, <1>a, <1>b DEF MInv, WorkSound
    <3>3. Current(b, work.row.hash) <=> Current(files[x], work.row.hash)
      BY <1>b DEF Current
    <3> QED BY <3>1, <3>2, <3>3, <1>b DEF MInv, WorkSound, Queue
  <2> QED BY <2>2, <2>3
<1>6. SteadySound'
  BY DEF MInv, SteadySound, Steady, MetaTypeOK
<1> QED BY <1>1, <1>2, <1>3, <1>4, <1>5, <1>6 DEF MInv

LEMMA CrashKeeps ==
  ASSUME MInv, Crash
  PROVE  MInv'
<1> USE DEF Crash
<1>a. \A v \in Versions : FileOf(v)' = FileOf(v)
  BY DEF FileOf
<1>z. faults \in Nat /\ faults' \in 0..MaxFaults /\ faults <= faults'
  BY FaultStep
<1>b. Forget \in [Versions -> Cached] /\ \A v \in Versions : Forget[v].hash = 0
  BY ZeroTypes DEF Forget, Preload, EmptyRow, Cached, Statuses
<1>c. NoTask \in Task /\ NoTask.pc = "none"
  BY ZeroTypes DEF NoTask, Task, TaskSteps
<1>1. MetaTypeOK'
  <2>1. /\ task' \in [Slots -> Task] /\ ctx' \in [Versions -> Cached]
        /\ seen' \in [Passes -> Snapshot \cup {Null}]
    BY <1>b, <1>c DEF Slots
  <2> QED BY <2>1, <1>z DEF MInv, MetaTypeOK
<1>2. RowsSound'
  BY <1>a DEF MInv, RowsSound
<1>3. EditsSound'
  BY <1>z, SameEdits DEF MInv, EditsSound, MetaTypeOK
<1>4. TasksSound'
  BY <1>c DEF MInv, TasksSound, MetaTypeOK, Slots
<1>5. WorkSound'
  BY DEF MInv, WorkSound, MetaTypeOK, Queue
<1>6. SteadySound'
  BY <1>b, <1>c DEF MInv, SteadySound, Steady, MetaTypeOK, Hashes
<1> QED BY <1>1, <1>2, <1>3, <1>4, <1>5, <1>6 DEF MInv

LEMMA StartDrainKeeps ==
  ASSUME MInv, StartDrain
  PROVE  MInv'
<1> USE DEF StartDrain
<1>a. \A v \in Versions : FileOf(v)' = FileOf(v)
  BY DEF FileOf
<1>1. MetaTypeOK'
  BY DEF MInv, MetaTypeOK
<1>2. RowsSound'
  BY <1>a DEF MInv, RowsSound
<1>3. EditsSound'
  BY DEF MInv, EditsSound, MetaTypeOK
<1>4. TasksSound'
  BY DEF MInv, TasksSound, MetaTypeOK, NoTask
<1>5. WorkSound'
  BY DEF MInv, WorkSound, MetaTypeOK, Queue
<1>6. SteadySound'
  BY DEF MInv, SteadySound, Steady, MetaTypeOK
<1> QED BY <1>1, <1>2, <1>3, <1>4, <1>5, <1>6 DEF MInv

LEMMA EndCycleKeeps ==
  ASSUME MInv, EndCycle
  PROVE  MInv'
<1> USE DEF EndCycle
<1>a. \A v \in Versions : FileOf(v)' = FileOf(v)
  BY DEF FileOf
<1>b. Forget \in [Versions -> Cached] /\ \A v \in Versions : Forget[v].hash = 0
  BY ZeroTypes DEF Forget, Preload, EmptyRow, Cached, Statuses
<1>1. MetaTypeOK'
  BY <1>b DEF MInv, MetaTypeOK
<1>2. RowsSound'
  BY <1>a DEF MInv, RowsSound
<1>3. EditsSound'
  BY DEF MInv, EditsSound, MetaTypeOK
<1>4. TasksSound'
  BY DEF MInv, TasksSound, MetaTypeOK
<1>5. WorkSound'
  BY DEF MInv, WorkSound, MetaTypeOK, Queue
<1>6. SteadySound'
  BY <1>b DEF MInv, SteadySound, Steady, MetaTypeOK, Hashes
<1> QED BY <1>1, <1>2, <1>3, <1>4, <1>5, <1>6 DEF MInv

LEMMA StartCycleKeeps ==
  ASSUME MInv, NEW how \in Modes, StartCycle(how)
  PROVE  MInv'
<1> USE DEF StartCycle
<1>a. ASSUME NEW v \in Versions
      PROVE  LET q == rows'[v]
                 r == rows[v] IN
             /\ q \in Row /\ q.media = r.media /\ q.hash = r.hash
             /\ q.path = r.path /\ q.local = r.local /\ q.rhash = r.rhash /\ q.rout = r.rout
             /\ q.deleted = r.deleted /\ q.marker = r.marker
             /\ q.status = "downloaded" <=> r.status = "downloaded"
  BY PrepareForRetryRow DEF MInv, MetaTypeOK
<1>b. \A v \in Versions : FileOf(v)' = FileOf(v)
  BY <1>a DEF FileOf
<1>c. /\ ctx' \in [Versions -> Cached]
      /\ \A v \in Versions : /\ ctx'[v].hash = rows'[v].hash
                             /\ Live(ctx'[v]) <=> Live(rows'[v])
  BY <1>a DEF Preload, Cached, Row, Live
<1>d. \A v \in Versions : Describes(rows'[v], FileOf(v)) <=> Describes(rows[v], FileOf(v))
  BY <1>a DEF Describes
<1>1. MetaTypeOK'
  BY <1>a, <1>c DEF MInv, MetaTypeOK
<1>2. RowsSound'
  BY <1>a, <1>b, <1>d DEF MInv, RowsSound, RowSound
<1>3. EditsSound'
  BY DEF MInv, EditsSound, MetaTypeOK
<1>4. TasksSound'
  BY DEF MInv, TasksSound, MetaTypeOK
<1>5. WorkSound'
  BY DEF MInv, WorkSound, MetaTypeOK, Queue
<1>6. SteadySound'
  <2>1. /\ \A p \in Passes : seen[p] = Null
        /\ \A x \in Slots : task[x].pc = "none"
    BY DEF MInv, SteadySound, TasksSound
  <2>2. \A v \in Versions : rows'[v].hash <= prov.hash /\ ctx'[v].hash <= prov.hash
    BY <1>a, <1>c DEF MInv, SteadySound
  <2>3. Steady' => \A v \in Versions : Live(rows'[v]) => rows'[v].hash = prov.hash
    BY <1>c DEF Steady
  <2> QED BY <2>1, <2>2, <2>3 DEF SteadySound
<1> QED BY <1>1, <1>2, <1>3, <1>4, <1>5, <1>6 DEF MInv

LEMMA SourceDeletedKeeps ==
  ASSUME MInv, SourceDeleted
  PROVE  MInv'
<1> USE DEF SourceDeleted
<1>z. faults \in Nat /\ faults' \in 0..MaxFaults /\ faults <= faults'
  BY FaultStep
<1>a. ASSUME NEW v \in Versions
      PROVE  LET q == rows'[v]
                 r == rows[v] IN
             /\ rows' \in [Versions -> Row]
             /\ q.status = r.status /\ q.media = r.media /\ q.path = r.path
             /\ q.hash = r.hash /\ q.local = r.local /\ q.rout = r.rout /\ q.rhash = r.rhash
             /\ ~Live(q) /\ r.rout = Null
  <2>1. rows[v].rout = Null
    BY NullIsNoValue DEF MaySoftDelete, Prepared, MInv, MetaTypeOK
  <2> QED BY <2>1, SoftDeleteRow DEF MInv, Live
<1>b. \A v \in Versions : FileOf(v)' = FileOf(v)
  BY <1>a DEF FileOf
<1>c. \A v \in Versions : Describes(rows'[v], FileOf(v)) <=> Describes(rows[v], FileOf(v))
  BY <1>a DEF Describes
<1>d. rows' \in [Versions -> Row]
  BY SoftDeleteRow DEF MInv, SoftDelete, MetaTypeOK
<1>1. MetaTypeOK'
  BY <1>a, <1>d, <1>z DEF MInv, MetaTypeOK
<1>2. RowsSound'
  BY <1>a, <1>b, <1>c DEF MInv, RowsSound, RowSound
<1>3. EditsSound'
  BY <1>z, SameEdits DEF MInv, EditsSound, MetaTypeOK
<1>4. TasksSound'
  BY DEF MInv, TasksSound, MetaTypeOK
<1>5. WorkSound'
  BY DEF MInv, WorkSound, MetaTypeOK, Queue
<1>6. SteadySound'
  <2>1. \A v \in Versions : rows'[v].hash = rows[v].hash /\ ~Live(rows'[v])
    BY <1>a
  <2>2. \A x \in Slots : task[x].pc = "none"
    BY DEF MInv, MetaTypeOK, NoTask
  <2> QED BY <2>1, <2>2 DEF MInv, SteadySound, Steady
<1> QED BY <1>1, <1>2, <1>3, <1>4, <1>5, <1>6 DEF MInv

LEMMA VisitKeeps ==
  ASSUME MInv, NEW p \in Passes, Visit(p)
  PROVE  MInv'
<1> USE DEF Visit
<1>z. faults \in Nat /\ faults' \in 0..MaxFaults /\ faults <= faults'
  BY FaultStep DEF Fault, NoFault
<1> DEFINE snap == [hash |-> prov.hash, media |-> prov.media,
                    refreshed |-> Forced \/ Drift(prov.hash) \/ RetryMarker, pc |-> "plan"]
<1>a. rows \in [Versions -> Row] /\ prov.hash \in Hashes /\ prov.media \in Medias
  BY DEF MInv, MetaTypeOK
<1>b. /\ seen' = [seen EXCEPT ![p] = snap] /\ snap \in Snapshot /\ snap.hash = prov.hash
  BY <1>a DEF Snapshot, Forced, Drift, RetryMarker
<1>h. RepairRequested \in BOOLEAN
  BY DEF RepairRequested
<1>c. \/ rows' = rows
      \/ \E mark \in BOOLEAN : rows' = Refresh(rows, prov.hash, mark, RepairRequested)
  BY DEF Forced, Drift
<1>d. ASSUME NEW v \in Versions
      PROVE  LET q == rows'[v]
                 r == rows[v] IN
             /\ rows' \in [Versions -> Row]
             /\ q.status = r.status /\ q.media = r.media /\ q.path = r.path
             /\ q.local = r.local /\ q.rout = r.rout /\ q.deleted = r.deleted
             /\ q = r \/ (/\ Live(r) /\ ~RefreshBlocked(rows, prov.hash)
                          /\ q.hash = prov.hash /\ (Prepared(r) => q.rhash = r.rhash))
  <2>1. CASE rows' = rows
    BY <2>1, <1>a
  <2>2. ASSUME NEW mark \in BOOLEAN, rows' = Refresh(rows, prov.hash, mark, RepairRequested)
        PROVE  LET q == rows'[v]
                   r == rows[v] IN
               /\ rows' \in [Versions -> Row]
               /\ q.status = r.status /\ q.media = r.media /\ q.path = r.path
               /\ q.local = r.local /\ q.rout = r.rout /\ q.deleted = r.deleted
               /\ q = r \/ (/\ Live(r) /\ ~RefreshBlocked(rows, prov.hash)
                            /\ q.hash = prov.hash /\ (Prepared(r) => q.rhash = r.rhash))
    BY <2>2, <1>a, <1>h, RefreshRow DEF MInv
  <2> QED BY <1>c, <2>1, <2>2
<1>e. \A v \in Versions : rows[v].rout # Null => Prepared(rows[v]) /\ rows[v].rhash = rows[v].hash
  BY NullIsNoValue, <1>a DEF MInv, RowsSound, RowSound, Prepared, Row
<1>f. rows' \in [Versions -> Row]
  <2>1. CASE Versions = {}
    BY <2>1, <1>a, <1>c DEF Refresh
  <2>2. CASE Versions # {}
    BY <2>2, <1>d
  <2> QED BY <2>1, <2>2
<1>g. \A v \in Versions : FileOf(v)' = FileOf(v)
  BY <1>d DEF FileOf
<1> HIDE DEF snap
<1>1. MetaTypeOK'
  <2>1. seen' \in [Passes -> Snapshot \cup {Null}]
    BY <1>b DEF MInv, MetaTypeOK
  <2>2. \A v \in Versions : /\ rows'[v].rout # Null => rows'[v].rhash # Null
                            /\ rows'[v].status = "downloaded" => rows'[v].path # Null
    BY <1>d, <1>e DEF MInv, MetaTypeOK
  <2> QED BY <2>1, <2>2, <1>f, <1>z DEF MInv, MetaTypeOK
<1>2. RowsSound'
  <2> SUFFICES ASSUME NEW v \in Versions
               PROVE  /\ RowSound(rows'[v])
                      /\ rows'[v].status = "downloaded" => Describes(rows'[v], FileOf(v))
    BY <1>g DEF RowsSound
  <2>1. RowSound(rows[v]) /\ (rows[v].status = "downloaded" => Describes(rows[v], FileOf(v)))
    BY DEF MInv, RowsSound
  <2>2. Live(rows[v]) /\ ~RefreshBlocked(rows, prov.hash) /\ Prepared(rows[v])
          => rows[v].rhash = prov.hash
    BY <1>a DEF RefreshBlocked, Blocks
  <2>3. RowSound(rows'[v])
    BY <1>d, <1>e, <2>1, <2>2 DEF RowSound
  <2>4. Describes(rows[v], FileOf(v)) => Describes(rows'[v], FileOf(v))
    BY <1>d DEF Describes
  <2> QED BY <2>1, <2>3, <2>4, <1>d
<1>3. EditsSound'
  BY <1>z, SameEdits DEF MInv, EditsSound, MetaTypeOK
<1>4. TasksSound'
  BY DEF MInv, TasksSound, MetaTypeOK
<1>5. WorkSound'
  BY DEF MInv, WorkSound, MetaTypeOK, Queue
<1>6. SteadySound'
  <2>1. ASSUME NEW v \in Versions
        PROVE  /\ rows'[v].hash = rows[v].hash \/ rows'[v].hash = prov.hash
               /\ Live(rows'[v]) <=> Live(rows[v])
    BY <1>d DEF Live
  <2>2. ASSUME NEW q \in Passes, seen'[q] # Null
        PROVE  seen'[q].hash = prov.hash \/ (seen[q] # Null /\ seen'[q] = seen[q])
    BY <1>b, <2>2 DEF MInv, MetaTypeOK
  <2>3. prov.hash <= prov.hash
    BY <1>a DEF Hashes
  <2>4. /\ \A v \in Versions : rows'[v].hash <= prov.hash /\ ctx[v].hash <= prov.hash
        /\ \A q \in Passes : seen'[q] # Null => seen'[q].hash <= prov.hash
    BY <2>1, <2>2, <2>3 DEF MInv, SteadySound
  <2>5. ASSUME Steady
        PROVE  /\ \A q \in Passes : seen'[q] # Null => seen'[q].hash = prov.hash
               /\ \A v \in Versions : Live(rows'[v]) => rows'[v].hash = prov.hash
               /\ \A x \in Slots : task[x].pc # "none" => rows'[x[1]].hash = prov.hash
    BY <2>1, <2>2, <2>5 DEF MInv, SteadySound, Slots
  <2>6. Steady' <=> Steady
    BY DEF Steady
  <2> QED BY <2>4, <2>5, <2>6 DEF SteadySound
<1> QED BY <1>1, <1>2, <1>3, <1>4, <1>5, <1>6 DEF MInv

LEMMA PlanKeeps ==
  ASSUME MInv, NEW p \in Passes, Plan(p)
  PROVE  MInv'
<1> USE DEF Plan
<1>w. phase = "passes" /\ work = Null
  BY DEF MInv, WorkSound, TasksSound
<1>a. seen[p] \in Snapshot /\ seen[p].hash \in Hashes /\ seen[p].media \in Medias
  BY DEF MInv, MetaTypeOK, Snapshot
<1>b. ASSUME NEW v \in Versions, OnDisk(p, v)
      PROVE  files[<<v, p>>] \in Bytes
  <2>1. Raw(seen[p].media) # Null
    BY <1>a, ZeroTypes, NullIsNoValue DEF Raw, Bytes, Medias
  <2> QED BY <1>b, <2>1 DEF OnDisk, Trusted, ProviderSize, Recorded, MInv, MetaTypeOK, Slots
<1>c. ASSUME NEW v \in Versions
      PROVE  LET q == rows'[v]
                 r == rows[v] IN
             /\ q \in Row /\ RowSound(q)
             /\ q.status = "downloaded" => Describes(q, FileOf(v)')
             /\ q.hash = r.hash \/ q.hash = seen[p].hash
             /\ ~OnDisk(p, v) /\ ~UpsertBlocked(rows, v, seen[p].media, seen[p].hash)
                  => q.hash = seen[p].hash
             /\ \/ Live(q) => Live(r) /\ q.hash = r.hash
                \/ ~UpsertBlocked(rows, v, seen[p].media, seen[p].hash) => q.hash = seen[p].hash
  <2>1. rows[v] \in Row /\ Alike(rows[v], rows[v]) /\ RowSound(rows[v])
    BY DEF MInv, MetaTypeOK, RowsSound, Alike
  <2>2. CASE OnDisk(p, v)
    <3>1. rows'[v] = Adopted(p, v)
      BY <2>2
    <3>2. FileOf(v)' = IF rows'[v].path = Null THEN Null ELSE files[<<v, rows'[v].path>>]
      BY DEF FileOf
    <3> HIDE DEF Plan
    <3> QED BY <2>2, <3>1, <3>2, <1>a, <1>b, AdoptedRow
  <2>3. CASE ~OnDisk(p, v)
    <3> DEFINE q == Catalogued(rows[v], p, v)
    <3>1. rows'[v] = q
      BY <2>3
    <3>2. FileOf(v)' = IF q.path = Null THEN Null ELSE files[<<v, q.path>>]
      BY <3>1 DEF FileOf
    <3> HIDE DEF Plan
    <3>3. /\ q \in Row /\ RowSound(q) /\ q.path = rows[v].path /\ q.local = rows[v].local
          /\ q.status = "downloaded" => rows[v].status = "downloaded" /\ q.rout = rows[v].rout
          /\ q.hash = rows[v].hash \/ q.hash = seen[p].hash
          /\ ~UpsertBlocked(rows, v, seen[p].media, seen[p].hash) => q.hash = seen[p].hash
      BY <2>1, <1>a, CataloguedRow
    <3> HIDE DEF q
    <3>4. q.status = "downloaded" => Describes(q, FileOf(v)')
      BY <3>2, <3>3, FileThere DEF FileOf, Describes
    <3> QED BY <3>1, <3>3, <3>4
  <2> QED BY <2>2, <2>3
<1>d. rows' \in [Versions -> Row]
  BY <1>c
<1>e. ASSUME NEW x \in Slots
      PROVE  /\ task'[x] \in Task
             /\ task'[x] = task[x] \/ (task'[x].pc = "planned" /\ ~OnDisk(p, x[1]) /\ x[1] \in Versions)
  <2>1. task[x] \in Task
    BY DEF MInv, MetaTypeOK
  <2>2. [pc |-> "planned", hash |-> seen[p].hash, media |-> seen[p].media, exif |-> TRUE,
         bytes |-> Null, aside |-> FALSE] \in Task
    BY <1>a DEF Task, TaskSteps
  <2> QED BY <2>1, <2>2 DEF Slots
<1>f. task' \in [Slots -> Task]
  BY <1>e DEF Slots
<1>g. /\ seen' \in [Passes -> Snapshot \cup {Null}]
      /\ \A u \in Passes : /\ seen'[u] # Null => seen[u] # Null
                           /\ seen'[u] # Null => seen'[u].hash = seen[u].hash
  <2>1. [seen[p] EXCEPT !.pc = "done"] \in Snapshot
    BY <1>a DEF Snapshot
  <2>2. [seen[p] EXCEPT !.pc = "done"].hash = seen[p].hash
    BY <1>a DEF Snapshot
  <2>3. seen' = [seen EXCEPT ![p] = [seen[p] EXCEPT !.pc = "done"]]
    BY DEF MInv, MetaTypeOK
  <2> HIDE DEF Plan
  <2> QED BY <2>1, <2>2, <2>3, <1>a, NullAssumption DEF MInv, MetaTypeOK
<1>h. seen[p] # Null
  OBVIOUS
<1>i. /\ prov' = prov /\ files' = files /\ phase' = phase /\ mode' = mode /\ ctx' = ctx
      /\ work' = work /\ done' = done /\ faults' = faults
  OBVIOUS
<1> HIDE DEF Plan
<1>1. MetaTypeOK'
  <2>1. \A v \in Versions : /\ rows'[v].rout # Null => rows'[v].rhash # Null
                            /\ rows'[v].status = "downloaded" => rows'[v].path # Null
    BY <1>c, NullIsNoValue DEF RowSound, Row
  <2> QED BY <2>1, <1>d, <1>f, <1>g, <1>i DEF MInv, MetaTypeOK
<1>2. RowsSound'
  BY <1>c DEF MInv, RowsSound
<1>3. EditsSound'
  BY <1>i DEF MInv, EditsSound, MetaTypeOK
<1>4. TasksSound'
  BY <1>e, <1>i, <1>w DEF MInv, TasksSound, MetaTypeOK
<1>5. WorkSound'
  BY <1>w, <1>i DEF MInv, WorkSound, MetaTypeOK, Queue
<1>6. SteadySound'
  <2>1. /\ \A v \in Versions : rows'[v].hash <= prov.hash /\ ctx[v].hash <= prov.hash
        /\ \A u \in Passes : seen'[u] # Null => seen'[u].hash <= prov.hash
    BY <1>c, <1>g, <1>h DEF MInv, SteadySound
  <2>2. Steady' <=> Steady
    BY <1>i DEF Steady
  <2>3. ASSUME Steady
        PROVE  /\ \A u \in Passes : seen'[u] # Null => seen'[u].hash = prov.hash
               /\ \A v \in Versions : Live(rows'[v]) => rows'[v].hash = prov.hash
               /\ \A x \in Slots : task'[x].pc # "none" => rows'[x[1]].hash = prov.hash
    <3>1. \A u \in Passes : seen'[u] # Null => seen'[u].hash = prov.hash
      BY <2>3, <1>g, <1>w DEF MInv, SteadySound
    <3>2. \A v \in Versions : /\ ~UpsertBlocked(rows, v, seen[p].media, seen[p].hash)
                              /\ seen[p].hash = prov.hash
      BY <2>3, <1>h, <1>w, SteadyUnblocked
    <3>3. \A v \in Versions : Live(rows'[v]) => rows'[v].hash = prov.hash
      BY <2>3, <3>2, <1>c, <1>w DEF MInv, SteadySound
    <3>4. ASSUME NEW x \in Slots, task'[x].pc # "none"
          PROVE  rows'[x[1]].hash = prov.hash
      <4>1. x[1] \in Versions
        BY DEF Slots
      <4>2. CASE task'[x] = task[x]
        BY <2>3, <3>2, <3>4, <4>1, <4>2, <1>c, <1>w DEF MInv, SteadySound
      <4>3. CASE ~OnDisk(p, x[1])
        BY <3>2, <4>1, <4>3, <1>c
      <4> QED BY <4>2, <4>3, <1>e
    <3> QED BY <3>1, <3>3, <3>4
  <2> QED BY <2>1, <2>2, <2>3, <1>w, <1>i DEF SteadySound
<1> QED BY <1>1, <1>2, <1>3, <1>4, <1>5, <1>6 DEF MInv

LEMMA LandKeeps ==
  ASSUME MInv, NEW x \in Slots, Land(x)
  PROVE  MInv'
<1> USE DEF Land
<1>w. phase = "passes" /\ work = Null
  BY DEF MInv, WorkSound, TasksSound
<1>a. PICK ok \in BOOLEAN :
        LET b == [Raw(task[x].media) EXCEPT
                    !.meta = IF ok /\ task[x].hash \notin Plain THEN task[x].hash ELSE Null]
        IN /\ IF ok THEN NoFault ELSE Fault("exif")
           /\ files' = [files EXCEPT ![x] = IF @ = Null THEN b ELSE @]
           /\ task' = [task EXCEPT ![x].pc = "landed", ![x].exif = ok, ![x].bytes = b,
                                   ![x].aside = files[x] # Null]
  OBVIOUS
<1> DEFINE b == [Raw(task[x].media) EXCEPT
                   !.meta = IF ok /\ task[x].hash \notin Plain THEN task[x].hash ELSE Null]
           t == [task[x] EXCEPT !.pc = "landed", !.exif = ok, !.bytes = b,
                                !.aside = files[x] # Null]
<1>b. task[x] \in Task /\ task[x].hash \in Hashes /\ task[x].media \in Medias
  BY DEF MInv, MetaTypeOK, Task
<1>c. b \in Bytes /\ b # Null /\ b.edit = 0 /\ b.cap = Null
  BY <1>b, ZeroTypes, NullIsNoValue DEF Raw, Bytes, Hashes, Medias
<1>d. /\ files' = [files EXCEPT ![x] = IF files[x] = Null THEN b ELSE files[x]]
      /\ task' = [task EXCEPT ![x] = t]
  BY <1>a DEF MInv, MetaTypeOK
<1>e. t \in Task /\ t.pc = "landed" /\ t.bytes = b /\ t.aside = (files[x] # Null)
  BY <1>b, <1>c DEF Task, TaskSteps
<1>f. /\ prov' = prov /\ rows' = rows /\ phase' = phase /\ mode' = mode /\ ctx' = ctx
      /\ seen' = seen /\ work' = work /\ done' = done
  OBVIOUS
<1>h. task[x].pc = "planned"
  OBVIOUS
<1>z. faults \in Nat /\ faults' \in 0..MaxFaults /\ faults <= faults'
  BY <1>a, FaultStep
<1> HIDE DEF Land, b, t
<1>g. /\ files' \in [Slots -> Bytes \cup {Null}] /\ task' \in [Slots -> Task]
      /\ files'[x] = (IF files[x] = Null THEN b ELSE files[x]) /\ task'[x] = t
      /\ \A y \in Slots : y # x => files'[y] = files[y] /\ task'[y] = task[y]
  BY <1>c, <1>d, <1>e DEF MInv, MetaTypeOK
<1>1. MetaTypeOK'
  BY <1>f, <1>g, <1>z DEF MInv, MetaTypeOK
<1>2. RowsSound'
  <2> SUFFICES ASSUME NEW v \in Versions, rows[v].status = "downloaded"
               PROVE  Describes(rows[v], FileOf(v)')
    BY <1>f DEF MInv, RowsSound
  <2>1. FileOf(v)' = FileOf(v)
    BY <1>f, <1>g, FileThere DEF FileOf
  <2> QED BY <2>1, FileThere
<1>3. EditsSound'
  <2>1. ASSUME NEW y \in Slots, files'[y] # Null
        PROVE  files'[y].edit <= faults'
    <3>1. CASE files'[y] = b
      BY <3>1, <1>c, <1>z
    <3>2. CASE files'[y] = files[y]
      <4>1. files[y].edit \in Nat /\ files[y].edit <= faults
        BY <2>1, <3>2, MetaBoundsAssumption DEF MInv, EditsSound, MetaTypeOK, Bytes
      <4> QED BY <3>2, <4>1, <1>z, MetaBoundsAssumption
    <3> QED BY <1>g, <3>1, <3>2
  <2> QED BY <2>1, <1>f, <1>w DEF EditsSound
<1>4. TasksSound'
  <2> SUFFICES ASSUME NEW y \in Slots
               PROVE  /\ task'[y].pc # "none" => phase' = "passes"
                      /\ task'[y].pc \in {"landed", "deferred"} =>
                           /\ task'[y].bytes # Null /\ task'[y].bytes.edit = 0
                           /\ task'[y].bytes.cap = Null
                           /\ ~task'[y].aside => files'[y] # Null /\ files'[y].cap = Null
    BY DEF TasksSound
  <2>1. CASE y = x
    BY <2>1, <1>c, <1>e, <1>f, <1>g, <1>w
  <2>2. CASE y # x
    BY <2>2, <1>f, <1>g DEF MInv, TasksSound
  <2> QED BY <2>1, <2>2
<1>5. WorkSound'
  BY <1>f, <1>w DEF MInv, WorkSound, MetaTypeOK, Queue
<1>6. SteadySound'
  <2>1. \A y \in Slots : task'[y].pc # "none" => task[y].pc # "none"
    BY <1>g, <1>h
  <2>2. Steady' <=> Steady
    BY <1>f DEF Steady
  <2> QED BY <2>1, <2>2, <1>f DEF MInv, SteadySound
<1> QED BY <1>1, <1>2, <1>3, <1>4, <1>5, <1>6 DEF MInv

LEMMA TransferFailsKeeps ==
  ASSUME MInv, NEW x \in Slots, TransferFails(x)
  PROVE  MInv'
<1> USE DEF TransferFails
<1>w. phase = "passes" /\ work = Null
  BY DEF MInv, WorkSound, TasksSound
<1>t. NoTask \in Task /\ NoTask.pc = "none"
  BY ZeroTypes DEF NoTask, Task, TaskSteps
<1>z. faults \in Nat /\ faults' \in 0..MaxFaults /\ faults <= faults'
  BY FaultStep
<1>a. x[1] \in Versions /\ rows[x[1]] \in Row
  BY DEF Slots, MInv, MetaTypeOK
<1>b. ASSUME NEW v \in Versions
      PROVE  /\ rows'[v] \in Row /\ rows'[v].hash = rows[v].hash /\ rows'[v].path = rows[v].path
             /\ rows'[v].local = rows[v].local /\ rows'[v].rhash = rows[v].rhash
             /\ rows'[v].rout = rows[v].rout /\ rows'[v].deleted = rows[v].deleted
             /\ rows'[v] = rows[v] \/ rows'[v].status = "failed"
  BY <1>a, MarkFailedRow DEF MInv, MetaTypeOK
<1>c. rows' \in [Versions -> Row] /\ task' \in [Slots -> Task]
  BY <1>a, <1>t, MarkFailedRow DEF MInv, MetaTypeOK
<1>d. \A v \in Versions : FileOf(v)' = FileOf(v)
  BY <1>b DEF FileOf
<1>e. \A y \in Slots : task'[y] = task[y] \/ task'[y].pc = "none"
  BY <1>t DEF MInv, MetaTypeOK
<1>1. MetaTypeOK'
  BY <1>b, <1>c, <1>z DEF MInv, MetaTypeOK
<1>2. RowsSound'
  BY <1>b, <1>d DEF MInv, RowsSound, RowSound
<1>3. EditsSound'
  BY <1>z, SameEdits DEF MInv, EditsSound, MetaTypeOK
<1>4. TasksSound'
  BY <1>e, <1>w DEF MInv, TasksSound, MetaTypeOK
<1>5. WorkSound'
  BY <1>w DEF MInv, WorkSound, MetaTypeOK, Queue
<1>6. SteadySound'
  BY <1>b, <1>e DEF MInv, SteadySound, Steady, MetaTypeOK, Live, Slots
<1> QED BY <1>1, <1>2, <1>3, <1>4, <1>5, <1>6 DEF MInv

LEMMA FinalizeDownloadedKeeps ==
  ASSUME MInv, NEW x \in Slots, FinalizeDownloaded(x)
  PROVE  MInv'
<1> USE DEF FinalizeDownloaded
<1>w. phase = "passes" /\ work = Null
  BY DEF MInv, WorkSound, TasksSound
<1>t. NoTask \in Task /\ NoTask.pc = "none"
  BY ZeroTypes DEF NoTask, Task, TaskSteps
<1>z. faults \in Nat /\ faults' \in 0..MaxFaults /\ faults <= faults'
  BY FaultStep
<1>b. ASSUME Downloaded(x), NoFault
      PROVE  /\ rows' \in [Versions -> Row] /\ files' \in [Slots -> Bytes \cup {Null}]
             /\ RowsSound'
             /\ \A v \in Versions : rows'[v].hash = rows[v].hash
             /\ \A y \in Slots : y # x => files'[y] = files[y]
             /\ \A y \in Slots : files'[y] # Null => files[y] = files'[y] \/ files'[y].edit = 0
             /\ \A v \in Versions : v # x[1] => rows'[v] = rows[v]
  BY <1>b, DownloadedRows
<1>c. (Downloaded(x) /\ NoFault) \/ UNCHANGED <<rows, files>>
  OBVIOUS
<1>d. /\ task' \in [Slots -> Task]
      /\ task'[x].pc # "landed"
      /\ task'[x].pc = "deferred" => UNCHANGED files /\ task'[x].bytes = task[x].bytes /\ task'[x].aside = task[x].aside
      /\ \A y \in Slots : y # x => task'[y] = task[y]
  BY <1>t DEF MInv, MetaTypeOK, Task, TaskSteps
<1>1. MetaTypeOK'
  <2>1. rows' \in [Versions -> Row] /\ files' \in [Slots -> Bytes \cup {Null}]
    BY <1>b, <1>c DEF MInv, MetaTypeOK
  <2>2. \A v \in Versions : /\ rows'[v].rout # Null => rows'[v].rhash # Null
                            /\ rows'[v].status = "downloaded" => rows'[v].path # Null
    <3>1. CASE UNCHANGED <<rows, files>>
      BY <3>1 DEF MInv, MetaTypeOK
    <3>2. CASE RowsSound'
      BY <3>2, <2>1, NullIsNoValue DEF RowsSound, RowSound, Row
    <3> QED BY <3>1, <3>2, <1>b, <1>c
  <2> QED BY <2>1, <2>2, <1>d, <1>z DEF MInv, MetaTypeOK
<1>2. RowsSound'
  <2>1. CASE UNCHANGED <<rows, files>>
    BY <2>1 DEF MInv, RowsSound, FileOf
  <2> QED BY <2>1, <1>b
<1>3. EditsSound'
  <2>1. ASSUME NEW y \in Slots, files'[y] # Null
        PROVE  files'[y].edit <= faults'
    <3>1. CASE files'[y].edit = 0
      BY <3>1, <1>z
    <3>2. CASE files'[y] = files[y]
      <4>1. files[y].edit \in Nat /\ files[y].edit <= faults
        BY <2>1, <3>2, MetaBoundsAssumption DEF MInv, EditsSound, MetaTypeOK, Bytes
      <4> QED BY <3>2, <4>1, <1>z, MetaBoundsAssumption
    <3> QED BY <1>b, <1>c, <3>1, <3>2, <2>1
  <2> QED BY <2>1, <1>w DEF EditsSound
<1>4. TasksSound'
  BY <1>b, <1>c, <1>d, <1>w DEF MInv, TasksSound, MetaTypeOK
<1>5. WorkSound'
  BY <1>w DEF MInv, WorkSound, MetaTypeOK, Queue
<1>6. SteadySound'
  <2>1. x[1] \in Versions /\ \A v \in Versions : rows'[v].hash = rows[v].hash /\ (v # x[1] => rows'[v] = rows[v])
    BY <1>b, <1>c DEF Slots
  <2>2. ASSUME Steady
        PROVE  \A v \in Versions : Live(rows'[v]) => rows'[v].hash = prov.hash
    BY <2>1, <2>2, <1>w DEF MInv, SteadySound
  <2>3. Steady' <=> Steady
    BY DEF Steady
  <2> QED BY <2>1, <2>2, <2>3, <1>d, <1>w DEF MInv, SteadySound, Slots
<1> QED BY <1>1, <1>2, <1>3, <1>4, <1>5, <1>6 DEF MInv

LEMMA FlushPendingStateWriteKeeps ==
  ASSUME MInv, NEW x \in Slots, FlushPendingStateWrite(x)
  PROVE  MInv'
<1> USE DEF FlushPendingStateWrite
<1>w. phase = "passes" /\ work = Null
  BY DEF MInv, WorkSound, TasksSound
<1>t. NoTask \in Task /\ NoTask.pc = "none"
  BY ZeroTypes DEF NoTask, Task, TaskSteps
<1>z. faults \in Nat /\ faults' \in 0..MaxFaults /\ faults <= faults'
  BY FaultStep
<1>b. ASSUME Downloaded(x), NoFault
      PROVE  /\ rows' \in [Versions -> Row] /\ files' \in [Slots -> Bytes \cup {Null}]
             /\ RowsSound'
             /\ \A v \in Versions : rows'[v].hash = rows[v].hash
             /\ \A y \in Slots : y # x => files'[y] = files[y]
             /\ \A y \in Slots : files'[y] # Null => files[y] = files'[y] \/ files'[y].edit = 0
             /\ \A v \in Versions : v # x[1] => rows'[v] = rows[v]
  BY <1>b, DownloadedRows
<1>c. (Downloaded(x) /\ NoFault) \/ UNCHANGED <<rows, files>>
  OBVIOUS
<1>d. /\ task' \in [Slots -> Task] /\ task'[x].pc = "none"
      /\ \A y \in Slots : y # x => task'[y] = task[y]
  BY <1>t DEF MInv, MetaTypeOK
<1>1. MetaTypeOK'
  <2>1. rows' \in [Versions -> Row] /\ files' \in [Slots -> Bytes \cup {Null}]
    BY <1>b, <1>c DEF MInv, MetaTypeOK
  <2>2. \A v \in Versions : /\ rows'[v].rout # Null => rows'[v].rhash # Null
                            /\ rows'[v].status = "downloaded" => rows'[v].path # Null
    <3>1. CASE UNCHANGED <<rows, files>>
      BY <3>1 DEF MInv, MetaTypeOK
    <3>2. CASE RowsSound'
      BY <3>2, <2>1, NullIsNoValue DEF RowsSound, RowSound, Row
    <3> QED BY <3>1, <3>2, <1>b, <1>c
  <2> QED BY <2>1, <2>2, <1>d, <1>z DEF MInv, MetaTypeOK
<1>2. RowsSound'
  <2>1. CASE UNCHANGED <<rows, files>>
    BY <2>1 DEF MInv, RowsSound, FileOf
  <2> QED BY <2>1, <1>b
<1>3. EditsSound'
  <2>1. ASSUME NEW y \in Slots, files'[y] # Null
        PROVE  files'[y].edit <= faults'
    <3>1. CASE files'[y].edit = 0
      BY <3>1, <1>z
    <3>2. CASE files'[y] = files[y]
      <4>1. files[y].edit \in Nat /\ files[y].edit <= faults
        BY <2>1, <3>2, MetaBoundsAssumption DEF MInv, EditsSound, MetaTypeOK, Bytes
      <4> QED BY <3>2, <4>1, <1>z, MetaBoundsAssumption
    <3> QED BY <1>b, <1>c, <3>1, <3>2, <2>1
  <2> QED BY <2>1, <1>w DEF EditsSound
<1>4. TasksSound'
  BY <1>b, <1>c, <1>d, <1>w DEF MInv, TasksSound, MetaTypeOK
<1>5. WorkSound'
  BY <1>w DEF MInv, WorkSound, MetaTypeOK, Queue
<1>6. SteadySound'
  <2>1. x[1] \in Versions /\ \A v \in Versions : rows'[v].hash = rows[v].hash /\ (v # x[1] => rows'[v] = rows[v])
    BY <1>b, <1>c DEF Slots
  <2>2. ASSUME Steady
        PROVE  \A v \in Versions : Live(rows'[v]) => rows'[v].hash = prov.hash
    BY <2>1, <2>2, <1>w DEF MInv, SteadySound
  <2>3. Steady' <=> Steady
    BY DEF Steady
  <2> QED BY <2>1, <2>2, <2>3, <1>d, <1>w DEF MInv, SteadySound, Slots
<1> QED BY <1>1, <1>2, <1>3, <1>4, <1>5, <1>6 DEF MInv

LEMMA UpdateMetadataMarkerKeeps ==
  ASSUME MInv, NEW x \in Slots, UpdateMetadataMarker(x)
  PROVE  MInv'
<1> USE DEF UpdateMetadataMarker
<1>w. phase = "passes" /\ work = Null
  BY DEF MInv, WorkSound, TasksSound
<1>t. NoTask \in Task /\ NoTask.pc = "none"
  BY ZeroTypes DEF NoTask, Task, TaskSteps
<1>z. faults \in Nat /\ faults' \in 0..MaxFaults /\ faults <= faults'
  BY FaultStep
<1>a. x[1] \in Versions /\ rows[x[1]] \in Row
  BY DEF Slots, MInv, MetaTypeOK
<1>b. rows' \in [Versions -> Row] /\ \A v \in Versions : Alike(rows'[v], rows[v])
  <2>1. CASE rows' = rows
    BY <2>1 DEF Alike, MInv, MetaTypeOK
  <2>2. CASE rows' = [rows EXCEPT ![x[1]] = SetMarker(rows[x[1]])]
    BY <2>2, <1>a, SetMarkerRow DEF Alike, MInv, MetaTypeOK
  <2> QED BY <2>1, <2>2
<1>c. task' \in [Slots -> Task] /\ \A y \in Slots : task'[y] = task[y] \/ task'[y].pc = "none"
  BY <1>t DEF MInv, MetaTypeOK
<1>d. \A v \in Versions : FileOf(v)' = FileOf(v)
  BY <1>b DEF FileOf, Alike
<1>1. MetaTypeOK'
  BY <1>b, <1>c, <1>z DEF MInv, MetaTypeOK, Alike
<1>2. RowsSound'
  BY <1>b, <1>d DEF MInv, RowsSound, RowSound, Alike, Describes
<1>3. EditsSound'
  BY <1>z, SameEdits DEF MInv, EditsSound, MetaTypeOK
<1>4. TasksSound'
  BY <1>c, <1>w DEF MInv, TasksSound, MetaTypeOK
<1>5. WorkSound'
  BY <1>w DEF MInv, WorkSound, MetaTypeOK, Queue
<1>6. SteadySound'
  BY <1>b, <1>c DEF MInv, SteadySound, Steady, MetaTypeOK, Alike, Live, Slots
<1> QED BY <1>1, <1>2, <1>3, <1>4, <1>5, <1>6 DEF MInv

LEMMA SelectKeeps ==
  ASSUME MInv, NEW v \in Versions, Select(v)
  PROVE  MInv'
<1> USE DEF Select, Skip
<1> DEFINE r == rows[v]
           f == FileOf(v)
           start == [v |-> v, row |-> r, pre |-> f, out |-> f, step |-> "prepare",
                     failed |-> FALSE, nowrite |-> FALSE, embedded |-> FALSE,
                     recovered |-> FALSE]
           again == [v |-> v, row |-> r, pre |-> f, out |-> f, step |-> "finish",
                     failed |-> FALSE, nowrite |-> TRUE, embedded |-> TRUE,
                     recovered |-> TRUE]
<1>i. /\ prov' = prov /\ rows' = rows /\ files' = files /\ phase' = phase /\ mode' = mode
      /\ faults' = faults /\ ctx' = ctx /\ seen' = seen /\ task' = task
  OBVIOUS
<1>j. \A u \in Versions : FileOf(u)' = FileOf(u)
  BY <1>i DEF FileOf
<1>a. /\ phase = "drain" /\ r \in Row /\ r.status = "downloaded" /\ ~r.deleted
      /\ f = files[<<v, r.path>>] /\ f \in Bytes /\ f # Null
      /\ RowSound(r) /\ f.edit <= faults
  BY FileThere DEF Queued, Live, MInv, MetaTypeOK, RowsSound, EditsSound
<1>b. \/ work' = Null /\ done' = done \cup {v}
      \/ /\ done' = done /\ work' = start /\ ~Recovered(r, f) /\ ~Drifted(r, f)
         /\ Queue = "capture" => r.local # Null
      \/ /\ done' = done /\ work' = again /\ Recovered(r, f)
         /\ Queue = "capture" => r.local # Null
  OBVIOUS
<1> HIDE DEF Select, r, f
<1>1. MetaTypeOK'
  <2>1. start \in Work /\ again \in Work
    BY <1>a DEF Work, WorkSteps
  <2> QED BY <2>1, <1>b, <1>i DEF MInv, MetaTypeOK
<1>2. RowsSound'
  BY <1>i, <1>j DEF MInv, RowsSound
<1>3. EditsSound'
  BY <1>a, <1>b, <1>i DEF MInv, EditsSound, MetaTypeOK
<1>4. TasksSound'
  BY <1>i DEF MInv, TasksSound, MetaTypeOK
<1>5. WorkSound'
  <2>1. CASE work' = Null
    BY <2>1 DEF WorkSound
  <2>2. CASE work' = start /\ ~Drifted(r, f) /\ ~Recovered(r, f) /\ (Queue = "capture" => r.local # Null)
    <3>1. r.local # Null => f = r.local
      BY <2>2 DEF Drifted
    <3> QED BY <2>2, <3>1, <1>a, <1>i DEF WorkSound, Queue, r
  <2>3. CASE work' = again /\ Recovered(r, f) /\ (Queue = "capture" => r.local # Null)
    <3>1. r.local # Null => f.edit = r.local.edit
      BY <2>3, <1>a DEF Recovered, RowSound
    <3> QED BY <2>3, <3>1, <1>a, <1>i DEF WorkSound, Queue, r
  <2> QED BY <2>1, <2>2, <2>3, <1>b
<1>6. SteadySound'
  BY <1>i DEF MInv, SteadySound, Steady, MetaTypeOK
<1> QED BY <1>1, <1>2, <1>3, <1>4, <1>5, <1>6 DEF MInv

LEMMA PrepareEmbedKeeps ==
  ASSUME MInv, PrepareEmbed
  PROVE  MInv'
<1> USE DEF PrepareEmbed
<1>a. /\ work \in Work /\ work # Null /\ work.row \in Row /\ work.v \in Versions
      /\ work.pre \in Bytes /\ work.out \in Bytes
  BY DEF MInv, MetaTypeOK, Work
<1>b. /\ phase = "drain" /\ work.row = rows[work.v] /\ work.row.status = "downloaded"
      /\ ~work.row.deleted /\ work.row.path \in Passes /\ <<work.v, work.row.path>> \in Slots
      /\ RowSound(work.row) /\ Describes(work.row, files[<<work.v, work.row.path>>])
      /\ files[<<work.v, work.row.path>>] \in Bytes
  BY <1>a, FileThere DEF MInv, MetaTypeOK, WorkSound, RowsSound
<1>i. /\ prov' = prov /\ rows' = rows /\ files' = files /\ phase' = phase /\ mode' = mode
      /\ done' = done /\ ctx' = ctx /\ seen' = seen /\ task' = task
  OBVIOUS
<1>j. \A u \in Versions : FileOf(u)' = FileOf(u)
  BY <1>i DEF FileOf
<1>z. faults \in Nat /\ faults' \in 0..MaxFaults /\ faults <= faults'
  BY FaultStep
<1> DEFINE r == work.row
           f == files[<<work.v, work.row.path>>]
<1>c. /\ work.step = "prepare" /\ work.out = work.pre /\ (f = work.pre \/ f.edit > work.pre.edit)
  BY <1>a DEF MInv, WorkSound
<1>d. /\ work' \in Work /\ work' # Null /\ work'.v = work.v /\ work'.row = r /\ work'.pre = work.pre
      /\ \/ /\ work'.step = "finish" /\ work'.out = work.pre
            /\ work'.failed \/ r.hash \in Plain
         \/ /\ work'.step = (IF Queue = "capture" THEN "record" ELSE "publish")
            /\ f = work.pre /\ work'.out = Embedded(r, f)
            /\ work'.out.edit = f.edit /\ Current(work'.out, r.hash)
            /\ Queue = "ordinary" => work'.out.cap = f.cap
  <2>1. CASE /\ r.hash \in Plain
             /\ work' = [work EXCEPT !.step = "finish", !.nowrite = TRUE,
                                     !.embedded = Queue = "capture"]
    <3> HIDE DEF PrepareEmbed
    <3>1. "finish" \in WorkSteps /\ (Queue = "capture") \in BOOLEAN
      BY DEF WorkSteps
    <3> HIDE DEF r
    <3> QED BY <2>1, <3>1, <1>a, <1>c, NullAssumption DEF Work, r
  <2>2. CASE work' = [work EXCEPT !.step = "finish", !.failed = TRUE]
    BY <2>2, <1>a, <1>c, NullAssumption DEF Work, WorkSteps
  <2>3. CASE /\ f = work.pre
             /\ work' = [work EXCEPT !.out = Embedded(r, f),
                           !.step = IF Queue = "capture" THEN "record" ELSE "publish"]
    <3>1. /\ Embedded(r, f) \in Bytes /\ Embedded(r, f).edit = f.edit
          /\ Current(Embedded(r, f), r.hash)
          /\ Queue = "ordinary" => Embedded(r, f).cap = f.cap
      BY <1>a, <1>b DEF Embedded, Bytes, Row, Hashes, Current, Queue
    <3> HIDE DEF PrepareEmbed
    <3> QED BY <2>3, <3>1, <1>a, NullAssumption DEF Work, WorkSteps
  <2> QED BY <2>1, <2>2, <2>3 DEF NothingToWrite
<1> HIDE DEF PrepareEmbed, r, f
<1>1. MetaTypeOK'
  BY <1>d, <1>i, <1>z DEF MInv, MetaTypeOK
<1>2. RowsSound'
  BY <1>i, <1>j DEF MInv, RowsSound
<1>3. EditsSound'
  <2>1. ASSUME NEW b \in Bytes, b.edit <= faults PROVE b.edit <= faults'
    BY <2>1, <1>z, MetaBoundsAssumption DEF Bytes
  <2> QED BY <2>1, <1>a, <1>d, <1>i DEF MInv, EditsSound, MetaTypeOK
<1>4. TasksSound'
  BY <1>i DEF MInv, TasksSound, MetaTypeOK
<1>5. WorkSound'
  <2>1. r.hash \in Plain => Current(f, r.hash)
    BY DEF Current
  <2>2. /\ Queue = "capture" \/ Queue = "ordinary"
        /\ Queue = "capture" => r.local # Null
        /\ r.local # Null => work.pre = r.local /\ work.pre.edit = r.local.edit
    BY <1>a, <1>c DEF MInv, WorkSound, Queue, r
  <2>3. Queue' = Queue
    BY <1>i DEF Queue
  <2> QED BY <2>1, <2>2, <2>3, <1>a, <1>b, <1>c, <1>d, <1>i, NullIsNoValue DEF WorkSound, r, f
<1>6. SteadySound'
  BY <1>i DEF MInv, SteadySound, Steady, MetaTypeOK
<1> QED BY <1>1, <1>2, <1>3, <1>4, <1>5, <1>6 DEF MInv

LEMMA RecordKeeps ==
  ASSUME MInv, RecordCaptureRepairPrepared
  PROVE  MInv'
<1> USE DEF RecordCaptureRepairPrepared, Skip
<1>a. /\ work \in Work /\ work # Null /\ work.row \in Row /\ work.v \in Versions
      /\ work.pre \in Bytes /\ work.out \in Bytes
  BY DEF MInv, MetaTypeOK, Work
<1>b. /\ phase = "drain" /\ work.row = rows[work.v] /\ work.row.status = "downloaded"
      /\ ~work.row.deleted /\ work.row.path \in Passes /\ <<work.v, work.row.path>> \in Slots
      /\ RowSound(work.row) /\ Describes(work.row, files[<<work.v, work.row.path>>])
      /\ files[<<work.v, work.row.path>>] \in Bytes
  BY <1>a, FileThere DEF MInv, MetaTypeOK, WorkSound, RowsSound
<1>z. faults \in Nat /\ faults' \in 0..MaxFaults /\ faults <= faults'
  BY FaultStep
<1> DEFINE v == work.v
           r == work.row
           q == RecordPrepared(r, work.out)
           f == files[<<work.v, work.row.path>>]
<1>c. /\ Queue = "capture" /\ r.local # Null /\ work.pre = r.local /\ work.out.edit = work.pre.edit
      /\ f = work.pre \/ f.edit > work.pre.edit
      /\ Current(work.out, r.hash)
  BY <1>a DEF MInv, WorkSound
<1>d. /\ q \in Row /\ q.status = r.status /\ q.media = r.media /\ q.hash = r.hash
      /\ q.path = r.path /\ q.local = r.local /\ q.rhash = r.rhash /\ q.rout = work.out
      /\ q.deleted = r.deleted /\ q.marker = r.marker
  BY <1>a, RecordPreparedRow
<1>e. \/ /\ r.hash = r.rhash /\ rows' = [rows EXCEPT ![v] = q] /\ done' = done
         /\ work' = [work EXCEPT !.step = "publish", !.row = q]
      \/ /\ rows' = rows /\ done' = done \cup {v} /\ work' = Null
  <2>1. CASE /\ MayPrepare(rows[v], work.row)
             /\ rows' = [rows EXCEPT ![v] = RecordPrepared(@, work.out)]
             /\ work' = [work EXCEPT !.step = "publish", !.row.rout = work.out]
             /\ UNCHANGED done
    BY <2>1, <1>a, <1>b DEF MayPrepare, RecordPrepared, Work, Row, MInv, MetaTypeOK
  <2> QED BY <2>1
<1>i. /\ prov' = prov /\ files' = files /\ phase' = phase /\ mode' = mode
      /\ ctx' = ctx /\ seen' = seen /\ task' = task
  OBVIOUS
<1> HIDE DEF RecordCaptureRepairPrepared, q, r, v, f
<1>f. /\ rows' \in [Versions -> Row] /\ v \in Versions
      /\ \A u \in Versions : rows'[u] = rows[u] \/ (u = v /\ rows'[u] = q)
  BY <1>a, <1>d, <1>e DEF MInv, MetaTypeOK, v
<1>g. ASSUME rows'[v] = q, r.hash = r.rhash
      PROVE  RowSound(q) /\ Describes(q, f)
  <2>1. RowSound(q)
    BY <1>g, <1>b, <1>c, <1>d DEF RowSound, r
  <2>2. Describes(q, f)
    BY <1>a, <1>b, <1>c, <1>d DEF Describes, r, f, Bytes
  <2> QED BY <2>1, <2>2
<1>h. ASSUME NEW u \in Versions
      PROVE  /\ RowSound(rows'[u])
             /\ rows'[u].status = "downloaded" => Describes(rows'[u], FileOf(u)')
  <2>1. CASE rows'[u] = rows[u]
    BY <2>1, <1>i DEF MInv, RowsSound, FileOf
  <2>2. CASE rows'[u] # rows[u]
    <3>1. u = v /\ rows'[u] = q /\ r.hash = r.rhash
      BY <2>2, <1>e, <1>f
    <3>2. FileOf(u)' = f
      BY <3>1, <1>b, <1>d, <1>i, MetaSetsAssumption DEF FileOf, r, v, f
    <3> QED BY <3>1, <3>2, <1>g
  <2> QED BY <2>1, <2>2
<1>k. ASSUME work' # Null
      PROVE  /\ work' \in Work /\ work'.v = v /\ work'.row = q /\ work'.step = "publish"
             /\ work'.pre = work.pre /\ work'.out = work.out /\ rows'[v] = q
  BY <1>k, <1>a, <1>d, <1>e, <1>f DEF Work, WorkSteps, v, MInv, MetaTypeOK
<1>1. MetaTypeOK'
  <2>1. \A u \in Versions : /\ rows'[u].rout # Null => rows'[u].rhash # Null
                            /\ rows'[u].status = "downloaded" => rows'[u].path # Null
    BY <1>f, <1>h, NullIsNoValue DEF RowSound, Row
  <2>2. done' \in SUBSET Versions
    BY <1>e, <1>f DEF MInv, MetaTypeOK
  <2> QED BY <2>1, <2>2, <1>f, <1>i, <1>k, <1>z DEF MInv, MetaTypeOK
<1>2. RowsSound'
  BY <1>h DEF MInv, RowsSound
<1>3. EditsSound'
  <2>1. ASSUME NEW b \in Bytes, b.edit <= faults PROVE b.edit <= faults'
    BY <2>1, <1>z, MetaBoundsAssumption DEF Bytes
  <2> QED BY <2>1, <1>a, <1>k, <1>i DEF MInv, EditsSound, MetaTypeOK
<1>4. TasksSound'
  BY <1>i DEF MInv, TasksSound, MetaTypeOK
<1>5. WorkSound'
  <2>1. CASE work' = Null
    BY <2>1 DEF WorkSound
  <2>2. CASE work' # Null
    <3>1. Queue' = Queue
      BY <1>i DEF Queue
    <3> QED BY <2>2, <3>1, <1>b, <1>c, <1>d, <1>i, <1>k DEF WorkSound, Describes, r, v, f
  <2> QED BY <2>1, <2>2
<1>6. SteadySound'
  BY <1>b, <1>d, <1>f, <1>i DEF MInv, SteadySound, Steady, MetaTypeOK, r, v
<1> QED BY <1>1, <1>2, <1>3, <1>4, <1>5, <1>6 DEF MInv

LEMMA PublishEmbedKeeps ==
  ASSUME MInv, PublishEmbed
  PROVE  MInv'
<1> USE DEF PublishEmbed
<1>a. /\ work \in Work /\ work # Null /\ work.row \in Row /\ work.v \in Versions
      /\ work.pre \in Bytes /\ work.out \in Bytes
  BY DEF MInv, MetaTypeOK, Work
<1>b. /\ phase = "drain" /\ work.row = rows[work.v] /\ work.row.status = "downloaded"
      /\ ~work.row.deleted /\ work.row.path \in Passes /\ <<work.v, work.row.path>> \in Slots
      /\ RowSound(work.row) /\ Describes(work.row, files[<<work.v, work.row.path>>])
      /\ files[<<work.v, work.row.path>>] \in Bytes
  BY <1>a, FileThere DEF MInv, MetaTypeOK, WorkSound, RowsSound
<1>z. faults \in Nat /\ faults' \in 0..MaxFaults /\ faults <= faults'
  BY FaultStep
<1> DEFINE r == work.row
           x == <<work.v, work.row.path>>
<1>c. /\ Queue = "capture" \/ Queue = "ordinary"
      /\ work.out.edit = work.pre.edit /\ Current(work.out, r.hash)
      /\ files[x] = work.pre \/ files[x].edit > work.pre.edit
      /\ Queue = "capture" => r.rout = work.out /\ r.local # Null
      /\ Queue = "ordinary" => work.out.cap = work.pre.cap
      /\ r.local # Null => work.pre = r.local /\ work.pre.edit = r.local.edit
  BY <1>a DEF MInv, WorkSound, Queue
<1>d. \/ /\ files[x] = work.pre /\ files' = [files EXCEPT ![x] = work.out]
         /\ work' = [work EXCEPT !.step = "finish", !.embedded = Queue = "capture"]
      \/ /\ files' = files
         /\ work' = [work EXCEPT !.step = "finish", !.failed = TRUE, !.out = work.pre]
  BY DEF Stable
<1>i. /\ prov' = prov /\ rows' = rows /\ phase' = phase /\ mode' = mode /\ done' = done
      /\ ctx' = ctx /\ seen' = seen /\ task' = task
  OBVIOUS
<1> HIDE DEF PublishEmbed
<1>e. /\ work' \in Work /\ work' # Null /\ work'.v = work.v /\ work'.row = r /\ work'.pre = work.pre
      /\ work'.step = "finish"
      /\ \/ /\ files[x] = work.pre /\ files' = [files EXCEPT ![x] = work.out]
            /\ work'.out = work.out
         \/ files' = files /\ work'.failed /\ work'.out = work.pre
  <2>1. "finish" \in WorkSteps /\ (Queue = "capture") \in BOOLEAN
    BY DEF WorkSteps
  <2>2. CASE /\ files[x] = work.pre /\ files' = [files EXCEPT ![x] = work.out]
             /\ work' = [work EXCEPT !.step = "finish", !.embedded = Queue = "capture"]
    <3> HIDE DEF x
    <3>1. /\ work' \in Work /\ work'.v = work.v /\ work'.row = work.row /\ work'.pre = work.pre
          /\ work'.step = "finish" /\ work'.out = work.out
      BY <2>1, <2>2, <1>a DEF Work
    <3> QED BY <2>2, <3>1, NullAssumption
  <2>3. CASE /\ files' = files
             /\ work' = [work EXCEPT !.step = "finish", !.failed = TRUE, !.out = work.pre]
    <3> HIDE DEF x
    <3>1. /\ work' \in Work /\ work'.v = work.v /\ work'.row = work.row /\ work'.pre = work.pre
          /\ work'.step = "finish" /\ work'.out = work.pre /\ work'.failed
      BY <2>1, <2>3, <1>a DEF Work
    <3> QED BY <2>3, <3>1, NullAssumption
  <2> QED BY <1>d, <2>2, <2>3
<1>f. /\ files' \in [Slots -> Bytes \cup {Null}]
      /\ files'[x] = work'.out \/ (files'[x] = files[x] /\ work'.failed)
      /\ \A y \in Slots : y # x => files'[y] = files[y]
      /\ files'[x] \in Bytes /\ files'[x] # Null
  BY <1>a, <1>b, <1>e, NullIsNoValue DEF MInv, MetaTypeOK
<1>1. MetaTypeOK'
  BY <1>e, <1>f, <1>i, <1>z DEF MInv, MetaTypeOK
<1>2. RowsSound'
  <2> SUFFICES ASSUME NEW v \in Versions, rows[v].status = "downloaded"
               PROVE  Describes(rows[v], FileOf(v)')
    BY <1>i DEF MInv, RowsSound
  <2>1. FileOf(v)' = files'[<<v, rows[v].path>>] /\ <<v, rows[v].path>> \in Slots
    BY <1>i, FileThere DEF FileOf, MInv, RowsSound, RowSound
  <2>2. CASE files'[<<v, rows[v].path>>] = files[<<v, rows[v].path>>]
    BY <2>1, <2>2, FileThere
  <2>3. CASE files'[<<v, rows[v].path>>] # files[<<v, rows[v].path>>]
    <3>1. v = work.v /\ rows[v] = r /\ files'[x] = work.out /\ files[x] = work.pre
      BY <2>1, <2>3, <1>b, <1>e, <1>f
    <3>2. Describes(r, work.out)
      BY <3>1, <1>a, <1>b, <1>c, NullIsNoValue DEF Describes
    <3> QED BY <2>1, <3>1, <3>2
  <2> QED BY <2>2, <2>3
<1>3. EditsSound'
  <2>1. ASSUME NEW b \in Bytes, b.edit <= faults PROVE b.edit <= faults'
    BY <2>1, <1>z, MetaBoundsAssumption DEF Bytes
  <2>2. work.pre.edit <= faults /\ work.out.edit <= faults
    BY <1>a, <1>c DEF MInv, EditsSound
  <2>3. ASSUME NEW y \in Slots, files'[y] # Null
        PROVE  files'[y] \in Bytes /\ files'[y].edit <= faults
    <3>1. CASE files'[y] = files[y]
      BY <2>3, <3>1 DEF MInv, EditsSound, MetaTypeOK
    <3>2. CASE files'[y] = work.out
      BY <3>2, <2>2, <1>a
    <3> QED BY <3>1, <3>2, <1>e DEF MInv, MetaTypeOK
  <2> QED BY <2>1, <2>2, <2>3, <1>a, <1>e DEF EditsSound
<1>4. TasksSound'
  <2>1. \A y \in Slots : task[y].pc = "none"
    BY <1>b DEF MInv, TasksSound
  <2> QED BY <2>1, <1>i DEF TasksSound
<1>5. WorkSound'
  <2>1. Queue' = Queue
    BY <1>i DEF Queue
  <2>2. files'[x] = work'.out \/ files'[x].edit > work'.out.edit
    <3>1. CASE files' = [files EXCEPT ![x] = work.out] /\ work'.out = work.out
      <4>1. files'[x] = work.out
        BY <3>1, <1>b DEF MInv, MetaTypeOK
      <4> QED BY <3>1, <4>1
    <3>2. CASE files' = files /\ work'.out = work.pre
      BY <3>2, <1>c
    <3> QED BY <1>e, <3>1, <3>2
  <2>3. work'.failed \/ Current(files'[x], r.hash)
    BY <1>a, <1>b, <1>c, <1>e, <1>f DEF MInv, MetaTypeOK
  <2> QED BY <2>1, <2>2, <2>3, <1>b, <1>c, <1>e, <1>f, <1>i DEF WorkSound
<1>6. SteadySound'
  BY <1>i DEF MInv, SteadySound, Steady, MetaTypeOK
<1> QED BY <1>1, <1>2, <1>3, <1>4, <1>5, <1>6 DEF MInv

LEMMA FinishKeeps ==
  ASSUME MInv, FinishMetadataRewrite
  PROVE  MInv'
<1> USE DEF FinishMetadataRewrite, Skip
<1>a. /\ work \in Work /\ work # Null /\ work.row \in Row /\ work.v \in Versions
      /\ work.pre \in Bytes /\ work.out \in Bytes
  BY DEF MInv, MetaTypeOK, Work
<1>b. /\ phase = "drain" /\ work.row = rows[work.v] /\ work.row.status = "downloaded"
      /\ ~work.row.deleted /\ work.row.path \in Passes /\ <<work.v, work.row.path>> \in Slots
      /\ RowSound(work.row) /\ Describes(work.row, files[<<work.v, work.row.path>>])
      /\ files[<<work.v, work.row.path>>] \in Bytes
  BY <1>a, FileThere DEF MInv, MetaTypeOK, WorkSound, RowsSound
<1>z. faults \in Nat /\ faults' \in 0..MaxFaults /\ faults <= faults'
  BY FaultStep
<1> DEFINE v == work.v
           r == work.row
           f == files[<<work.v, work.row.path>>]
<1>c. f = work.out \/ f.edit > work.out.edit
  BY <1>a DEF MInv, WorkSound
<1>d. \/ rows' = rows
      \/ \E local \in {work.out, Null} : \E clears \in SUBSET {"ordinary", "capture"} :
           rows' = [rows EXCEPT ![v] = FinishRewrite(r, local, clears)]
  BY <1>b DEF Completed
<1>i. /\ prov' = prov /\ files' = files /\ phase' = phase /\ mode' = mode
      /\ ctx' = ctx /\ seen' = seen /\ task' = task /\ work' = Null /\ done' = done \cup {v}
  OBVIOUS
<1> HIDE DEF FinishMetadataRewrite, v, r, f
<1>e. ASSUME NEW u \in Versions
      PROVE  /\ rows'[u] \in Row /\ RowSound(rows'[u]) /\ rows'[u].hash = rows[u].hash
             /\ rows'[u].status = rows[u].status
             /\ rows'[u].status = "downloaded" => Describes(rows'[u], FileOf(u)')
  <2>1. rows[u] \in Row /\ RowSound(rows[u]) /\ v \in Versions
    BY <1>a DEF MInv, MetaTypeOK, RowsSound, v
  <2>2. CASE rows'[u] = rows[u]
    BY <2>1, <2>2, <1>i DEF MInv, RowsSound, FileOf
  <2>3. ASSUME NEW local \in {work.out, Null}, NEW clears \in SUBSET {"ordinary", "capture"},
               u = v, rows'[u] = FinishRewrite(r, local, clears)
        PROVE  /\ rows'[u] \in Row /\ RowSound(rows'[u]) /\ rows'[u].hash = rows[u].hash
               /\ rows'[u].status = rows[u].status
               /\ Describes(rows'[u], FileOf(u)')
    <3> DEFINE q == FinishRewrite(r, local, clears)
    <3>1. r \in Row /\ local \in Bytes \cup {Null} /\ r = rows[u]
      BY <2>3, <1>a, <1>b DEF r, v
    <3>2. /\ q \in Row /\ q.status = r.status /\ q.hash = r.hash
          /\ q.path = r.path /\ q.local = local /\ q.deleted = r.deleted
          /\ q.rhash = IF "capture" \in clears THEN Null ELSE r.rhash
          /\ q.rout = IF "capture" \in clears \/ r.local # local THEN Null ELSE r.rout
      BY <3>1, FinishRewriteRow
    <3> HIDE DEF q
    <3>3. RowSound(q)
      BY <3>1, <3>2, <2>1 DEF RowSound
    <3>4. FileOf(u)' = f
      BY <2>3, <3>2, <1>b, <1>i, MetaSetsAssumption DEF FileOf, f, r, v, q
    <3>5. Describes(q, f)
      BY <3>2, <1>a, <1>b, <1>c DEF Describes, f, r, Bytes
    <3> QED BY <2>3, <3>1, <3>2, <3>3, <3>4, <3>5 DEF q
  <2> QED BY <2>1, <2>2, <2>3, <1>d DEF MInv, MetaTypeOK
<1>f. rows' \in [Versions -> Row]
  BY <1>d, <1>e DEF MInv, MetaTypeOK
<1>1. MetaTypeOK'
  <2>1. \A u \in Versions : /\ rows'[u].rout # Null => rows'[u].rhash # Null
                            /\ rows'[u].status = "downloaded" => rows'[u].path # Null
    BY <1>e, NullIsNoValue DEF RowSound, Row
  <2>2. done' \in SUBSET Versions
    BY <1>a, <1>i DEF MInv, MetaTypeOK, v
  <2> QED BY <2>1, <2>2, <1>f, <1>i, <1>z DEF MInv, MetaTypeOK
<1>2. RowsSound'
  BY <1>e DEF MInv, RowsSound
<1>3. EditsSound'
  BY <1>i, <1>z, SameEdits DEF MInv, EditsSound, MetaTypeOK
<1>4. TasksSound'
  BY <1>i DEF MInv, TasksSound, MetaTypeOK
<1>5. WorkSound'
  BY <1>i DEF MInv, WorkSound, MetaTypeOK, Queue
<1>6. SteadySound'
  BY <1>b, <1>e, <1>i DEF MInv, SteadySound, Steady, MetaTypeOK
<1> QED BY <1>1, <1>2, <1>3, <1>4, <1>5, <1>6 DEF MInv

-----------------------------------------------------------------------------
(* Every step.                                                             *)

LEMMA InitMeta == Init => MInv
<1> SUFFICES ASSUME Init PROVE MInv
  OBVIOUS
<1>1. /\ EmptyRow \in Row /\ EmptyRow.rout = Null /\ EmptyRow.status # "downloaded"
      /\ EmptyRow.hash = 0 /\ EmptyRow.deleted \in BOOLEAN
  BY EmptyRowType DEF EmptyRow
<1>2. NoTask \in Task /\ NoTask.pc = "none"
  BY ZeroTypes DEF NoTask, Task, TaskSteps
<1>3. ctx \in [Versions -> Cached] /\ \A v \in Versions : ctx[v].hash = 0
  BY <1>1 DEF Init, Preload, Cached, Row
<1>4. MetaTypeOK
  BY <1>1, <1>2, <1>3, ZeroTypes DEF Init, MetaTypeOK, Slots, Modes
<1>5. RowsSound
  BY <1>1 DEF Init, RowsSound, RowSound
<1>6. EditsSound /\ TasksSound /\ WorkSound
  BY <1>2 DEF Init, EditsSound, TasksSound, WorkSound, Slots
<1>7. SteadySound
  BY <1>1, <1>3 DEF Init, SteadySound
<1> QED BY <1>4, <1>5, <1>6, <1>7 DEF MInv

LEMMA StutterKeeps == MInv /\ UNCHANGED vars => MInv'
BY DEF vars, MInv, MetaTypeOK, RowsSound, FileOf, EditsSound, TasksSound, WorkSound,
       Queue, SteadySound, Steady

LEMMA NextMeta == MInv /\ [Next]_vars => MInv'
<1> SUFFICES ASSUME MInv, [Next]_vars PROVE MInv'
  OBVIOUS
<1>a. DOMAIN files = Slots /\ DOMAIN task = Slots
  BY DEF MInv, MetaTypeOK
<1>1. CASE World
  BY <1>1, <1>a, ProviderEditsKeeps, ProviderReplacesKeeps, CrashKeeps, UserSavesKeeps DEF World
<1>2. CASE \E how \in Modes : StartCycle(how)
  BY <1>2, StartCycleKeeps
<1>3. CASE PassStep
  BY <1>3, <1>a, VisitKeeps, PlanKeeps, LandKeeps, TransferFailsKeeps, FinalizeDownloadedKeeps,
     UpdateMetadataMarkerKeeps, FlushPendingStateWriteKeeps, SourceDeletedKeeps DEF PassStep
<1>4. CASE DrainStep
  BY <1>4, StartDrainKeeps, EndCycleKeeps, SelectKeeps, PrepareEmbedKeeps, RecordKeeps,
     PublishEmbedKeeps, FinishKeeps DEF DrainStep
<1>5. CASE UNCHANGED vars
  BY <1>5, StutterKeeps
<1> QED BY <1>1, <1>2, <1>3, <1>4, <1>5 DEF Next

\* Whatever the provider, the user, a crash and every fault do: receipts are for
\* the metadata of their row, a downloaded row describes its file, and nothing but
\* the user changes a row or a file under a rewrite in progress.
THEOREM MetadataIsSound == Spec => []MInv
<1>1. MInv /\ [Next]_vars => MInv'
  BY NextMeta
<1> QED BY InitMeta, <1>1, PTL DEF Spec

\* The types of the rows, the files and everything a cycle keeps in memory; a
\* receipt that names an output says for which metadata.
THEOREM MetaTypes == Spec => []MetaTypeOK
<1>1. MInv => MetaTypeOK
  BY DEF MInv
<1> QED BY MetadataIsSound, <1>1, PTL

\* Bytes of a capture repair that the row does not know yet are named by its
\* receipt, for any number of versions, passes, crashes and provider changes
\* (record_capture_repair_prepared before publish_embed_metadata).
THEOREM ReceiptsNameOutput == Spec => []ReceiptNamesOutput
<1>1. MInv => ReceiptNamesOutput
  BY DEF MInv, RowsSound, Describes, ReceiptNamesOutput
<1> QED BY MetadataIsSound, <1>1, PTL

-----------------------------------------------------------------------------
(* What a drain may never do.                                              *)

\* The one step of a drain that writes a file keeps its number of edits.
LEMMA DrainFiles ==
  ASSUME MInv, DrainStep, NEW x \in Slots
  PROVE  \/ files'[x] = files[x]
         \/ /\ files[x] \in Bytes /\ files'[x] \in Bytes /\ files'[x].edit = files[x].edit
            /\ Current(files'[x], rows[x[1]].hash) /\ rows' = rows
<1>1. CASE PublishEmbed
  <2>1. /\ work \in Work /\ work # Null /\ work.row \in Row /\ work.v \in Versions
        /\ work.pre \in Bytes /\ work.out \in Bytes
    BY <1>1 DEF MInv, MetaTypeOK, Work, PublishEmbed
  <2>2. /\ work.row = rows[work.v] /\ work.out.edit = work.pre.edit
        /\ Current(work.out, work.row.hash)
    BY <1>1, <2>1 DEF MInv, WorkSound, PublishEmbed
  <2>3. \/ files' = files
        \/ /\ files[<<work.v, work.row.path>>] = work.pre
           /\ files' = [files EXCEPT ![<<work.v, work.row.path>>] = work.out]
    BY <1>1 DEF PublishEmbed, Stable
  <2>4. rows' = rows
    BY <1>1 DEF PublishEmbed
  <2>5. CASE x = <<work.v, work.row.path>> /\ files'[x] # files[x]
    <3>1. files[x] = work.pre /\ files'[x] = work.out /\ x[1] = work.v
      BY <2>3, <2>5 DEF MInv, MetaTypeOK
    <3> QED BY <3>1, <2>1, <2>2, <2>4
  <2>6. CASE x # <<work.v, work.row.path>>
    BY <2>3, <2>6 DEF MInv, MetaTypeOK
  <2> QED BY <2>5, <2>6
<1>2. CASE ~PublishEmbed
  BY <1>2 DEF DrainStep, StartDrain, EndCycle, Select, PrepareEmbed,
              RecordCaptureRepairPrepared, FinishMetadataRewrite
<1> QED BY <1>1, <1>2

\* A rewrite never replaces what the user saved, wherever between fingerprint,
\* preparation and publication that was (publish_embed_metadata).
THEOREM EditsSurviveRewrites == Spec => SavedStays
<1>1. ASSUME MInv, [Next]_vars
      PROVE  [\A x \in DOMAIN files :
                DrainStep /\ files[x] # Null => files'[x].edit >= files[x].edit]_vars
  <2> SUFFICES ASSUME NEW x \in Slots, DrainStep, files[x] # Null
               PROVE  files'[x].edit >= files[x].edit
    BY <1>1 DEF MInv, MetaTypeOK
  <2>1. files[x] \in Bytes
    BY <1>1 DEF MInv, MetaTypeOK
  <2>2. files'[x].edit = files[x].edit
    BY <1>1, DrainFiles
  <2> QED BY <2>1, <2>2, MetaBoundsAssumption DEF Bytes
<1> QED BY <1>1, MetadataIsSound, PTL DEF Spec, SavedStays

\* How a drain changes a row: a receipt, or the record of a rewrite, and the
\* marker goes only when the file has the metadata of the row.
LEMMA DrainRows ==
  ASSUME MInv, DrainStep, NEW v \in Versions
  PROVE  /\ rows'[v].status = rows[v].status /\ rows'[v].deleted = rows[v].deleted
         /\ rows'[v].hash = rows[v].hash /\ rows'[v].path = rows[v].path
         /\ \/ rows'[v].local = rows[v].local \/ rows'[v].local = Null
            \/ rows[v].local # Null => rows'[v].local.edit = rows[v].local.edit
         /\ \/ rows'[v].marker = rows[v].marker
            \/ Current(FileOf(v), rows[v].hash)
<1>1. CASE RecordCaptureRepairPrepared
  <2>1. /\ work \in Work /\ work.v \in Versions /\ work.out \in Bytes
        /\ rows \in [Versions -> Row]
    BY <1>1 DEF MInv, MetaTypeOK, Work, RecordCaptureRepairPrepared
  <2>2. rows' = rows \/ rows' = [rows EXCEPT ![work.v] = RecordPrepared(rows[work.v], work.out)]
    BY <1>1, <2>1 DEF RecordCaptureRepairPrepared
  <2>3. rows'[v] = rows[v] \/ rows'[v] = RecordPrepared(rows[v], work.out)
    BY <2>1, <2>2
  <2> QED BY <2>1, <2>3, RecordPreparedRow
<1>2. CASE FinishMetadataRewrite
  <2>1. /\ work \in Work /\ work # Null /\ work.row \in Row /\ work.v \in Versions
        /\ work.pre \in Bytes /\ work.out \in Bytes /\ rows \in [Versions -> Row]
    BY <1>2 DEF MInv, MetaTypeOK, Work, FinishMetadataRewrite
  <2>2. /\ work.row = rows[work.v] /\ work.row.status = "downloaded"
        /\ work.row.local # Null => work.out.edit = work.row.local.edit
        /\ ~work.failed /\ ~work.recovered =>
             Current(files[<<work.v, work.row.path>>], work.row.hash)
    BY <1>2, <2>1 DEF MInv, WorkSound, FinishMetadataRewrite
  <2>3. \/ rows' = rows
        \/ \E local \in {work.out, Null} : \E clears \in SUBSET {"ordinary", "capture"} :
             /\ rows' = [rows EXCEPT ![work.v] = FinishRewrite(rows[work.v], local, clears)]
             /\ "ordinary" \in clears => ~work.failed /\ ~work.recovered
    BY <1>2, <2>2 DEF FinishMetadataRewrite, Completed
  <2>4. CASE rows'[v] = rows[v]
    BY <2>4
  <2>5. ASSUME NEW local \in {work.out, Null}, NEW clears \in SUBSET {"ordinary", "capture"},
               v = work.v, rows'[v] = FinishRewrite(rows[v], local, clears),
               "ordinary" \in clears => ~work.failed /\ ~work.recovered
        PROVE  /\ rows'[v].status = rows[v].status /\ rows'[v].deleted = rows[v].deleted
               /\ rows'[v].hash = rows[v].hash /\ rows'[v].path = rows[v].path
               /\ rows'[v].local = Null
                  \/ (rows[v].local # Null => rows'[v].local.edit = rows[v].local.edit)
               /\ rows'[v].marker = rows[v].marker \/ Current(FileOf(v), rows[v].hash)
    <3>1. local \in Bytes \cup {Null} /\ rows[v] \in Row
      BY <2>1, <2>5
    <3>2. FileOf(v) = files[<<v, rows[v].path>>]
      BY <2>2, <2>5, FileThere
    <3> QED BY <2>2, <2>5, <3>1, <3>2, FinishRewriteRow DEF Row
  <2> QED BY <2>1, <2>3, <2>4, <2>5
<1>3. CASE ~RecordCaptureRepairPrepared /\ ~FinishMetadataRewrite
  BY <1>3 DEF DrainStep, StartDrain, EndCycle, Select, PrepareEmbed, PublishEmbed
<1> QED BY <1>1, <1>2, <1>3

\* A drain never records bytes the user has changed as bytes kei wrote
\* (run_pending_page, finish_metadata_rewrite).
THEOREM EditsAreNotBlessed == Spec => EditsNotBlessed
<1>1. ASSUME MInv, [Next]_vars
      PROVE  [\A v \in Versions :
                DrainStep /\ rows[v].local # Null /\ rows'[v].local # Null
                  => rows'[v].local.edit = rows[v].local.edit]_vars
  BY <1>1, DrainRows
<1> QED BY <1>1, MetadataIsSound, PTL DEF Spec, EditsNotBlessed

-----------------------------------------------------------------------------
(* Settled metadata.                                                       *)

LEMMA DrainSettles ==
  ASSUME MInv, DrainStep, NEW v \in Versions, Settled(v)
  PROVE  Settled(v)'
<1>1. /\ rows'[v].status = rows[v].status /\ rows'[v].deleted = rows[v].deleted
      /\ rows'[v].hash = rows[v].hash /\ rows'[v].path = rows[v].path
      /\ rows'[v].marker = rows[v].marker \/ Current(FileOf(v), rows[v].hash)
  BY DrainRows
<1>2. Live(rows'[v]) <=> Live(rows[v])
  BY <1>1 DEF Live
<1>3. CASE ~Live(rows[v])
  BY <1>2, <1>3 DEF Settled
<1>4. CASE Live(rows[v])
  <2> DEFINE x == <<v, rows[v].path>>
  <2>1. /\ x \in Slots /\ FileOf(v) = files[x] /\ FileOf(v) # Null /\ rows[v].path # Null
    BY <1>4, FileThere, MetaSetsAssumption DEF Live
  <2>2. FileOf(v)' = files'[x]
    BY <1>1, <2>1 DEF FileOf
  <2>3. Current(FileOf(v), rows[v].hash) \/ rows[v].marker
    BY <1>4, <2>1 DEF Settled
  <2>4. CASE files'[x] = files[x]
    BY <1>1, <2>1, <2>2, <2>3, <2>4 DEF Settled
  <2>5. CASE files'[x] # files[x]
    <3>1. Current(files'[x], rows[v].hash)
      BY <2>1, <2>5, DrainFiles
    <3> QED BY <1>1, <2>2, <3>1 DEF Settled
  <2> QED BY <2>4, <2>5
<1> QED BY <1>3, <1>4

LEMMA VisitSettles ==
  ASSUME MInv, NEW p \in Passes, Visit(p), NEW v \in Versions, Settled(v)
  PROVE  Settled(v)'
<1> DEFINE mark == Forced \/ Drift(prov.hash)
<1>1. /\ rows \in [Versions -> Row] /\ prov.hash \in Hashes /\ mark \in BOOLEAN
      /\ RepairRequested \in BOOLEAN
  BY DEF MInv, MetaTypeOK, Forced, Drift, RepairRequested
<1>2. /\ files' = files /\ phase = "passes"
      /\ \/ rows' = rows
         \/ /\ mark \/ RetryMarker
            /\ rows' = Refresh(rows, prov.hash, mark, RepairRequested)
  BY DEF Visit
<1> HIDE DEF mark
<1>3. CASE rows'[v] = rows[v]
  BY <1>2, <1>3 DEF Settled, FileOf
<1>4. CASE rows'[v] # rows[v]
  <2>1. rows' = Refresh(rows, prov.hash, mark, RepairRequested) /\ (mark \/ RetryMarker)
    BY <1>2, <1>4
  <2>2. /\ Live(rows[v]) /\ rows'[v].path = rows[v].path
        /\ rows'[v].hash = prov.hash /\ rows'[v].marker = (rows[v].marker \/ mark)
    BY <1>1, <1>4, <2>1, RefreshRow DEF MInv
  <2>3. FileOf(v)' = FileOf(v)
    BY <1>2, <2>2 DEF FileOf
  <2>4. CASE mark
    BY <2>2, <2>4 DEF Settled
  <2>5. CASE ~mark
    <3>1. Steady
      BY <2>1, <2>5 DEF mark, Steady, Drift, RetryMarker
    <3>2. rows[v].hash = prov.hash
      BY <1>2, <2>2, <3>1 DEF MInv, SteadySound
    <3>3. FileOf(v) # Null
      BY <2>2, FileThere DEF Live
    <3> QED BY <2>2, <2>3, <3>2, <3>3 DEF Settled
  <2> QED BY <2>4, <2>5
<1> QED BY <1>3, <1>4

\* Once the metadata of a file is settled, no refresh, no rewrite that fails in
\* any of its steps and no crash unsettles it (refresh_downloaded_asset_metadata,
\* finish_metadata_rewrite).
THEOREM SettledMetadataStays == Spec => SettledStays
<1>1. ASSUME MInv, [Next]_vars
      PROVE  [\A v \in Versions :
                /\ Settled(v)
                /\ DrainStep \/ Crash \/ SourceDeleted \/ \E p \in Passes : Visit(p)
                => Settled(v)']_vars
  <2> SUFFICES ASSUME NEW v \in Versions, Settled(v),
                      DrainStep \/ Crash \/ SourceDeleted \/ \E p \in Passes : Visit(p)
               PROVE  Settled(v)'
    OBVIOUS
  <2>1. CASE DrainStep
    BY <1>1, <2>1, DrainSettles
  <2>2. CASE Crash
    BY <2>2 DEF Crash, Settled, FileOf
  <2>3. CASE SourceDeleted
    <3>1. ~Live(rows'[v])
      BY <1>1, <2>3, SoftDeleteRow DEF MInv, SourceDeleted, Live
    <3> QED BY <3>1 DEF Settled
  <2>4. CASE \E p \in Passes : Visit(p)
    BY <1>1, <2>4, VisitSettles
  <2> QED BY <2>1, <2>2, <2>3, <2>4
<1> QED BY <1>1, MetadataIsSound, PTL DEF Spec, SettledStays
=============================================================================
