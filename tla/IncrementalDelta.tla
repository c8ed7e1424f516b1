-------------------------- MODULE IncrementalDelta --------------------------
(***************************************************************************)
(* The incremental sync of one library: the changes/zone producer with its *)
(* pairing buffer (icloud/photos/album.rs, asset.rs), the two readers of   *)
(* its events, collecting and streaming, the hydration of halves and of    *)
(* album members that the delta does not carry, the source-state updates   *)
(* of deleted records and the zone token that is stored at the end         *)
(* (download/mod.rs).  The CloudKit zone is external: every record has a   *)
(* state and the number of its last change, and a token is such a number.  *)
(***************************************************************************)
EXTENDS Integers, FiniteSets, Sequences

CONSTANTS Masters, Assets,
          MasterOf,    \* [Assets -> Masters], the masterRef field
          Setups,      \* the possible first states, with their configurations
          PageSize, ChannelCap, PipeCap,
          Faults,      \* what may go wrong
          MaxMishaps,  \* bound on how often
          Null

Rel(a) == <<a>>        \* the CPLContainerRelation of an asset in the selected album
Relations == {Rel(a) : a \in Assets}
Keys == Assets \cup Masters   \* the names rows are stored under
Records == Keys \cup Relations

(* A setup: the selected passes (album, unfiled, the limit of --recent or     *)
(* Null) with the bound maxClock on the changes of the zone, the assets in    *)
(* the zone, those in the album, those whose row is named after the master    *)
(* (state from before v0.24), and whether the album has a complete membership *)
(* snapshot.                                                                  *)
IsSetup(l) ==
    /\ l.config \in [album : BOOLEAN, unfiled : BOOLEAN, recent : Nat \cup {Null}, maxClock : Nat \ {0}]
    /\ l.config.album \/ l.config.unfiled
    /\ l.legacy \subseteq l.live /\ l.album \subseteq l.live /\ l.live \subseteq Assets
    /\ \A a, b \in l.legacy : MasterOf[a] = MasterOf[b] => a = b
    /\ l.snapshot \in BOOLEAN

ASSUME DeltaAssumption ==
    /\ IsFiniteSet(Masters) /\ IsFiniteSet(Assets)
    /\ Masters \cap Assets = {} /\ Keys \cap Relations = {}
    /\ MasterOf \in [Assets -> Masters]
    /\ {PageSize, ChannelCap, PipeCap} \subseteq Nat \ {0}
    /\ MaxMishaps \in Nat
    /\ Null \notin Nat \cup Records \cup {"created", "softDeleted"}
    /\ \A l \in Setups : IsSetup(l)

VARIABLES zone,      \* provider: record |-> [st, at]
          cfg,
          db,        \* rows, owner, mapped, members, snapshot, token
          run,       \* the task that reads the delta and applies it
          prod,      \* the task that pages over changes/zone
          channel,   \* its events, sent and unread
          pipe,      \* assets offered to the download pipeline (streaming)
          stopped,   \* the shutdown token
          mishaps

vars == <<zone, cfg, db, run, prod, channel, pipe, stopped, mishaps>>

Mishap(f) == f \in Faults /\ mishaps < MaxMishaps
Spend == mishaps' = mishaps + 1

-----------------------------------------------------------------------------
(* The zone. *)

clock == CHOOSE n \in 1 .. cfg.maxClock :
             /\ n = 1 \/ \E r \in Records : zone[r].at = n
             /\ \A r \in Records : zone[r].at <= n
Exists(r) == zone[r].st \notin {"absent", "gone"}
Alive(a) == zone[a].st \in {"live", "hidden"}
Family(m) == {a \in Assets : MasterOf[a] = m}

(* The n-th record of a change. *)
Changed(n, st) == [st |-> st, at |-> clock + n]
Change(n, z) ==
    /\ clock + n <= cfg.maxClock
    /\ zone' = z
    /\ UNCHANGED <<cfg, db, run, prod, channel, pipe, stopped, mishaps>>
ChangeAsset(a, st) == Change(1, [zone EXCEPT ![a] = Changed(1, st)])
ChangePhoto(a, st) == Change(2, [zone EXCEPT ![MasterOf[a]] = Changed(1, st), ![a] = Changed(2, st)])

(* The first asset of a master comes with it, in either order. *)
Upload(a) ==
    /\ zone[a].st = "absent"
    /\ \/ zone[MasterOf[a]].st = "live" /\ ChangeAsset(a, "live")
       \/ /\ zone[MasterOf[a]].st = "absent"
          /\ \/ ChangePhoto(a, "live")
             \/ Change(2, [zone EXCEPT ![a] = Changed(1, "live"), ![MasterOf[a]] = Changed(2, "live")])

(* Into Recently Deleted: both records, if no other asset needs the master. *)
Trash(a) ==
    /\ Alive(a)
    /\ IF \E b \in Family(MasterOf[a]) \ {a} : Alive(b)
       THEN ChangeAsset(a, "trashed")
       ELSE ChangePhoto(a, "trashed")

(* Only the asset is modified: its master keeps isDeleted = 1.  A photo that  *)
(* is restored before the deletion of its master is behind the token is left  *)
(* out: reconcile_reasons takes the two for a deletion.                       *)
Restore(a) ==
    /\ zone[a].st = "trashed"
    /\ zone[MasterOf[a]].at <= db.token
    /\ ChangeAsset(a, "live")

Hide(a) == zone[a].st = "live" /\ ChangeAsset(a, "hidden")
Unhide(a) == zone[a].st = "hidden" /\ ChangeAsset(a, "live")

(* The relation goes with the asset, the master with its last asset. *)
Purge(a) ==
    LET m == MasterOf[a]
        first == IF \E b \in Family(m) \ {a} : Exists(b) THEN 0 ELSE 1
        last == IF Exists(Rel(a)) THEN first + 2 ELSE first + 1
    IN  /\ zone[a].st = "trashed"
        /\ Change(last, [zone EXCEPT ![m] = IF first = 1 THEN Changed(1, "gone") ELSE @,
                                     ![a] = Changed(first + 1, "gone"),
                                     ![Rel(a)] = IF Exists(Rel(a)) THEN Changed(last, "gone") ELSE @])

AddToAlbum(a) == cfg.album /\ Exists(a) /\ ~Exists(Rel(a)) /\ ChangeAsset(Rel(a), "live")
RemoveFromAlbum(a) == Exists(Rel(a)) /\ ChangeAsset(Rel(a), "gone")

ZoneChange == \E a \in Assets :
    \/ Upload(a) \/ Trash(a) \/ Restore(a) \/ Hide(a) \/ Unhide(a)
    \/ Purge(a) \/ AddToAlbum(a) \/ RemoveFromAlbum(a)

-----------------------------------------------------------------------------
(* Events and the pairing buffer. *)

(* kind: "pair" (a complete asset), "asset" and "bare" (an asset record alone, *)
(* with and without masterRef), "master", "tomb", "rel", "bad", "err".  The    *)
(* rec of a pair is its asset, that of a relation the asset it names.          *)
Event(kind, rec, reason, id) ==
    [kind |-> kind, rec |-> rec, reason |-> reason, id |-> id, trashed |-> FALSE]
Nameless(kind) == Event(kind, Null, "created", Null)

(* classify_change_reason *)
Reason(st) == CASE st = "live" -> "created"
                [] st = "hidden" -> "hidden"
                [] st = "trashed" -> "softDeleted"
                [] OTHER -> "hardDeleted"

(* hardDeleted > softDeleted > hidden > created *)
Reconcile(x, y) ==
    CASE "hardDeleted" \in {x, y} -> "hardDeleted"
      [] "hardDeleted" \notin {x, y} /\ "softDeleted" \in {x, y} -> "softDeleted"
      [] {"hardDeleted", "softDeleted"} \cap {x, y} = {} /\ "hidden" \in {x, y} -> "hidden"
      [] OTHER -> "created"

Pair(item, masterReason, id) ==
    Event("pair", item.rec, Reconcile(masterReason, item.reason), id)
Group(items, m, reason) ==
    [i \in DOMAIN items |-> Pair(items[i], reason, IF i = 1 THEN m ELSE items[i].rec)]
Halves(items) == [i \in DOMAIN items |-> Event("asset", items[i].rec, items[i].reason, Null)]

(* pending_masters and paired_masters with their reasons, pending_assets *)
EmptyBuffer == [masters |-> [m \in Masters |-> Null], paired |-> [m \in Masters |-> Null],
                assets |-> [m \in Masters |-> <<>>]]

-----------------------------------------------------------------------------
(* The producer: pages, their records, events, and the token when everything *)
(* is sent.                                                                  *)

Off == [pc |-> "off", token |-> Null, buffer |-> EmptyBuffer, page |-> {}, todo |-> <<>>,
        more |-> FALSE, failed |-> FALSE]
Producer(token) == [Off EXCEPT !.pc = "page", !.token = token]

(* The oldest changes after the token, as they are now. *)
Delta == {r \in Records : zone[r].at > prod.token}
Page == {r \in Delta : Cardinality({q \in Delta : zone[q].at < zone[r].at}) < PageSize}

FetchPage ==
    /\ prod.pc = "page"
    /\ prod' = [prod EXCEPT !.pc = "send", !.more = (Page # Delta),
                    !.page = {[rec |-> r, st |-> zone[r].st, at |-> zone[r].at] : r \in Page}]
    /\ UNCHANGED <<zone, cfg, db, run, channel, pipe, stopped, mishaps>>

PageFails ==
    /\ prod.pc = "page" /\ Mishap("error") /\ Spend
    /\ prod' = [prod EXCEPT !.pc = "flush", !.failed = TRUE]
    /\ UNCHANGED <<zone, cfg, db, run, channel, pipe, stopped>>

(* process_records takes the records of a page one by one. *)
Oldest(x) == x \in prod.page /\ \A y \in prod.page : x.at <= y.at
Put(x, buffer, events) ==
    /\ prod.pc = "send" /\ prod.todo = <<>> /\ Oldest(x)
    /\ prod' = [prod EXCEPT !.page = @ \ {x}, !.token = x.at, !.buffer = buffer, !.todo = events]
    /\ UNCHANGED <<zone, cfg, db, run, channel, pipe, stopped>>

PutMaster(x) ==
    LET b == prod.buffer
        waiting == b.assets[x.rec]
    IN  /\ x.rec \in Masters /\ x.st # "gone"
        /\ IF waiting = <<>>
           THEN Put(x, [b EXCEPT !.masters[x.rec] = Reason(x.st)], <<>>)
           ELSE Put(x, [b EXCEPT !.paired[x.rec] = Reason(x.st), !.assets[x.rec] = <<>>],
                    Group(waiting, x.rec, Reason(x.st)))
        /\ UNCHANGED mishaps

PutAsset(x) ==
    LET b == prod.buffer
        m == MasterOf[x.rec]
        item == [rec |-> x.rec, reason |-> Reason(x.st)]
    IN  /\ x.rec \in Assets /\ x.st # "gone"
        /\ \/ /\ b.masters[m] # Null
              /\ Put(x, [b EXCEPT !.masters[m] = Null, !.paired[m] = b.masters[m]],
                     <<Pair(item, b.masters[m], m)>>)
           \/ /\ b.masters[m] = Null /\ b.paired[m] # Null
              /\ Put(x, b, <<Pair(item, b.paired[m], x.rec)>>)
           \/ /\ b.masters[m] = Null /\ b.paired[m] = Null
              /\ Put(x, [b EXCEPT !.assets[m] = Append(@, item)], <<>>)
        /\ UNCHANGED mishaps

(* A tombstone has no fields: a master or an asset. *)
PutTombstone(x) ==
    /\ x.rec \in Keys /\ x.st = "gone"
    /\ Put(x, prod.buffer, <<Event("tomb", x.rec, "hardDeleted", Null)>>)
    /\ UNCHANGED mishaps

PutRelation(x) ==
    /\ x.rec \in Relations
    /\ Put(x, prod.buffer, <<Event("rel", x.rec[1], Reason(x.st), Null)>>)
    /\ UNCHANGED mishaps

(* A record that has lost its name, or an asset that has lost its masterRef. *)
PutMalformed(x) ==
    /\ Mishap("odd") /\ Spend
    /\ \/ Put(x, prod.buffer, <<Nameless("bad")>>)
       \/ /\ x.rec \in Assets /\ x.st # "gone"
          /\ Put(x, prod.buffer, <<Event("bare", x.rec, Reason(x.st), Null)>>)

PutRecord == \E x \in prod.page :
    PutMaster(x) \/ PutAsset(x) \/ PutTombstone(x) \/ PutRelation(x) \/ PutMalformed(x)

SendUnbounded ==
    /\ prod.pc \in {"send", "flush"} /\ prod.todo # <<>>
    /\ channel' = Append(channel, Head(prod.todo))
    /\ prod' = [prod EXCEPT !.todo = Tail(@)]
    /\ UNCHANGED <<zone, cfg, db, run, pipe, stopped, mishaps>>

(* The channel is bounded: a full one blocks the producer. *)
SendEvent ==
    /\ prod.pc \in {"send", "flush"} /\ prod.todo # <<>> /\ Len(channel) < ChannelCap
    /\ channel' = Append(channel, Head(prod.todo))
    /\ prod' = [prod EXCEPT !.todo = Tail(@)]
    /\ UNCHANGED <<zone, cfg, db, run, pipe, stopped, mishaps>>

AfterPageEndless(p) == [p EXCEPT !.pc = "page"]

(* moreComing, or the halves that are left. *)
AfterPage(p) == [p EXCEPT !.pc = IF p.more THEN "page" ELSE "flush"]

EndPage ==
    /\ prod.pc = "send" /\ prod.page = {} /\ prod.todo = <<>>
    /\ prod' = AfterPage(prod)
    /\ UNCHANGED <<zone, cfg, db, run, channel, pipe, stopped, mishaps>>

(* Masters without an asset, assets without a master, and the error last. *)
Flushed(b) == b.masters = EmptyBuffer.masters /\ b.assets = EmptyBuffer.assets
Flush ==
    LET b == prod.buffer
    IN  /\ prod.pc = "flush" /\ prod.todo = <<>>
        /\ \/ \E m \in Masters :
                /\ b.masters[m] # Null
                /\ prod' = [prod EXCEPT !.buffer.masters[m] = Null,
                                        !.todo = <<Event("master", m, b.masters[m], Null)>>]
           \/ \E m \in Masters :
                /\ b.masters = EmptyBuffer.masters /\ b.assets[m] # <<>>
                /\ prod' = [prod EXCEPT !.buffer.assets[m] = <<>>, !.todo = Halves(b.assets[m])]
           \/ /\ Flushed(b) /\ prod.failed
              /\ prod' = [prod EXCEPT !.failed = FALSE, !.todo = <<Nameless("err")>>]
           \/ Flushed(b) /\ ~prod.failed /\ prod' = [prod EXCEPT !.pc = "done"]
        /\ UNCHANGED <<zone, cfg, db, run, channel, pipe, stopped, mishaps>>

ProducerStep == FetchPage \/ PageFails \/ PutRecord \/ SendEvent \/ EndPage \/ Flush

-----------------------------------------------------------------------------
(* The database: operators from its contents to its contents. *)

NoRow == [of |-> Null, status |-> "none", deleted |-> FALSE]
HasRow(d, k) == d.rows[k].status # "none"
FlagDeleted(d, ks) ==
    [d EXCEPT !.rows = [k \in Keys |-> IF k \in ks /\ HasRow(d, k)
                                       THEN [d.rows[k] EXCEPT !.deleted = TRUE]
                                       ELSE d.rows[k]]]
FamilyKeys(d, m) == {m} \cup (Family(m) \cap d.mapped)

(* apply_source_state_update: a pair by its state id, an asset record alone by *)
(* its own name first and then by its master's.                                *)
SoftDelete(d, e) ==
    CASE e.kind = "pair" -> FlagDeleted(d, {e.id})
      [] e.kind \in {"asset", "bare"} ->
             IF HasRow(d, e.rec) THEN FlagDeleted(d, {e.rec})
             ELSE IF e.kind = "asset" \/ e.rec \in d.mapped
                  THEN FlagDeleted(d, {MasterOf[e.rec]}) ELSE d
      [] OTHER -> FlagDeleted(d, {e.rec})

HardDeleteOfMasters(d, e) ==
    IF e.rec \in Masters THEN FlagDeleted(d, FamilyKeys(d, e.rec)) ELSE d

(* A tombstone has no type: a whole family, a row, or the row of its master. *)
HardDelete(d, e) ==
    LET family == IF e.rec \in Masters THEN FamilyKeys(d, e.rec) ELSE {e.rec}
    IN  IF \E k \in family : HasRow(d, k) THEN FlagDeleted(d, family)
        ELSE IF e.rec \in d.mapped THEN FlagDeleted(d, {MasterOf[e.rec]}) ELSE d

(* is_hidden is not modelled: no queue looks at it. *)
ApplySourceState(d, e) ==
    CASE e.reason = "softDeleted" -> SoftDelete(d, e)
      [] e.reason = "hardDeleted" -> HardDelete(d, e)
      [] OTHER -> d

Mapped(d, set) == [d EXCEPT !.mapped = @ \cup set]

(* upsert_seen_for_task; a version that is downloaded is not planned again. *)
UpsertSeen(d, item) ==
    IF d.rows[item.key].status = "downloaded" THEN d
    ELSE [d EXCEPT !.mapped = @ \cup {item.asset},
                   !.rows[item.key] = [of |-> item.asset, status |-> "pending",
                                       deleted |-> item.trashed]]

Transferred(d, ks) ==
    [d EXCEPT !.rows = [k \in Keys |-> IF k \in ks /\ HasRow(d, k)
                                       THEN [d.rows[k] EXCEPT !.status = "downloaded"]
                                       ELSE d.rows[k]]]

(* select_asset_state_record_name: a row named after the master belongs to its *)
(* recorded owner, or to the only mapped child that has no row of its own.  A  *)
(* run takes it once; a second event of the owner gets the asset's own name.   *)
(* ctx is what the run has preloaded.                                          *)
StateKey(d, ctx, a) ==
    LET m == MasterOf[a]
        mapped == Family(m) \cap ctx.mapped
    IN  IF /\ m \in ctx.stored \ ctx.claimed /\ a \notin ctx.stored
           /\ \/ d.owner[m] = a
              \/ /\ d.owner[m] = Null
                 /\ mapped = {} \/ mapped \ ctx.stored = {a}
        THEN m ELSE a
Claimed(d, key, a) == IF key = a THEN d ELSE [d EXCEPT !.owner[key] = a]
Taken(r, key) == [r EXCEPT !.claimed = @ \cup ({key} \cap Masters)]

-----------------------------------------------------------------------------
(* A run. *)

Streaming == cfg.unfiled /\ ~cfg.album /\ cfg.recent = Null
Idle == [pc |-> "idle", events |-> <<>>, at |-> 0, ready |-> <<>>, missing |-> {}, known |-> {},
         mapped |-> {}, stored |-> {}, claimed |-> {}, unsafe |-> FALSE, token |-> Null,
         purged |-> {}]

(* The context of the run is preloaded; `purged' only serves TombstonesLand: *)
(* the photos that are gone at the start.                                    *)
Opened(d) ==
    /\ run' = [Idle EXCEPT !.pc = "read", !.mapped = d.mapped,
                           !.stored = {k \in Keys : HasRow(d, k)},
                           !.purged = {a \in Assets : zone[a].st = "gone"}]
    /\ prod' = Producer(d.token)

Ended == run' = Idle /\ prod' = Off /\ channel' = <<>> /\ pipe' = <<>> /\ stopped' = FALSE

StartRun ==
    /\ run.pc = "idle"
    /\ IF cfg.album /\ ~db.snapshot
       THEN run' = [Idle EXCEPT !.pc = "backfill"] /\ UNCHANGED prod
       ELSE Opened(db)
    /\ UNCHANGED <<zone, cfg, db, channel, pipe, stopped, mishaps>>

InAlbum == {a \in Assets : Exists(Rel(a))}
(* The row named after a master is that of the asset it was written for and of *)
(* the asset that claimed it: siblings with one checksum have one original.    *)
Known(d, a) == \E k \in {a, MasterOf[a]} :
    /\ d.rows[k].of = a \/ (k # a /\ d.owner[k] = a)
    /\ d.rows[k].status = "downloaded" \/ (d.rows[k].status = "pending" /\ ~d.rows[k].deleted)
Wanted(a) == zone[a].st = "live" /\ (cfg.unfiled \/ (cfg.album /\ Exists(Rel(a))))

(* What a full enumeration of a set of assets leaves behind: the contract of *)
(* the other modules.                                                        *)
Enumerated(d, set) ==
    [d EXCEPT !.rows = [k \in Keys |->
                           IF k \in set /\ ~Known(d, k)
                           THEN [of |-> k, status |-> "pending", deleted |-> FALSE]
                           ELSE d.rows[k]],
              !.mapped = @ \cup set,
              !.members = IF cfg.album THEN InAlbum ELSE @,
              !.snapshot = cfg.album]

(* Targeted album backfill: a failure holds the token and ends the run. *)
Backfill ==
    /\ run.pc = "backfill"
    /\ \/ (stopped \/ Mishap("error")) /\ Ended /\ UNCHANGED db
          /\ IF stopped THEN UNCHANGED mishaps ELSE Spend
       \/ /\ ~stopped
          /\ db' = Enumerated(db, {a \in InAlbum : zone[a].st = "live"})
          /\ Opened(db') /\ UNCHANGED <<channel, pipe, stopped, mishaps>>
    /\ UNCHANGED <<zone, cfg>>

(* One database operation of the run fails, or none does. *)
Writes(good, bad) ==
    \/ good /\ UNCHANGED mishaps
    \/ Mishap("db") /\ bad /\ Spend

Fresh(e) == e.kind = "pair" /\ e.reason = "created"
Half(e) == e.kind \in {"asset", "bare"} /\ e.reason = "created"

(* The collecting reader keeps every event. *)
CollectEvent ==
    LET e == Head(channel)
    IN  /\ run.pc = "read" /\ ~Streaming /\ channel # <<>> /\ ~stopped
        /\ channel' = Tail(channel)
        /\ run' = IF e.kind = "err" THEN [run EXCEPT !.pc = "failed"]
                  ELSE [run EXCEPT !.events = Append(@, e), !.unsafe = @ \/ e.kind = "bad"]
        /\ UNCHANGED <<zone, cfg, db, prod, pipe, stopped, mishaps>>

(* The streaming reader applies and offers as it reads; it keeps relations and *)
(* the halves of new photos.                                                   *)
StreamKeeps(e) ==
    /\ e.kind = "rel" \/ Half(e)
    /\ run' = [run EXCEPT !.events = Append(@, e)]
    /\ UNCHANGED <<db, pipe, mishaps>>
StreamOffers(e) ==
    /\ Fresh(e) /\ Len(pipe) < PipeCap
    /\ pipe' = Append(pipe, [asset |-> e.rec, trashed |-> FALSE])
    /\ Writes(run' = run /\ db' = Mapped(db, {e.rec}),
              run' = [run EXCEPT !.unsafe = TRUE] /\ db' = db)
StreamApplies(e) ==
    LET mapped == IF e.kind = "pair" THEN Mapped(db, {e.rec}) ELSE db
    IN  /\ e.kind \notin {"rel", "bad", "err"} /\ ~Half(e) /\ ~Fresh(e)
        /\ Writes(run' = run /\ db' = ApplySourceState(mapped, e),
                  /\ run' = [run EXCEPT !.unsafe = TRUE]
                  /\ db' = mapped \/ (e.kind = "pair" /\ db' = ApplySourceState(db, e)))
        /\ UNCHANGED pipe
StreamBreaks(e) ==
    /\ \/ e.kind = "bad" /\ run' = [run EXCEPT !.unsafe = TRUE]
       \/ e.kind = "err" /\ run' = [run EXCEPT !.pc = "failed"]
    /\ UNCHANGED <<db, pipe, mishaps>>

StreamEvent ==
    LET e == Head(channel)
    IN  /\ run.pc = "read" /\ Streaming /\ channel # <<>> /\ ~stopped
        /\ channel' = Tail(channel)
        /\ StreamKeeps(e) \/ StreamOffers(e) \/ StreamApplies(e) \/ StreamBreaks(e)
        /\ UNCHANGED <<zone, cfg, prod, stopped>>

(* The shutdown is noticed at the next event.  The reader stops, but keeps the *)
(* receiver; only a reader whose pipeline is gone drops it.                    *)
BreakAtStop ==
    /\ run.pc = "read" /\ stopped /\ channel # <<>>
    /\ \/ channel' = Tail(channel) /\ UNCHANGED prod
          /\ run' = [run EXCEPT !.pc = IF Streaming THEN "hydrate" ELSE "await"]
       \/ /\ Streaming /\ Len(pipe) = PipeCap
          /\ channel' = <<>> /\ prod' = Off /\ run' = [run EXCEPT !.pc = "report"]
    /\ UNCHANGED <<zone, cfg, db, pipe, stopped, mishaps>>

EndOfDelta ==
    /\ run.pc = "read" /\ channel = <<>> /\ prod.pc = "done"
    /\ run' = [run EXCEPT !.pc = IF Streaming THEN "hydrate" ELSE "await"]
    /\ UNCHANGED <<zone, cfg, db, prod, channel, pipe, stopped, mishaps>>

ReceiveToken ==
    /\ run.pc = "await" /\ prod.pc = "done"
    /\ run' = [run EXCEPT !.pc = IF Streaming THEN "report" ELSE "map", !.token = prod.token]
    /\ prod' = Off /\ channel' = <<>>
    /\ UNCHANGED <<zone, cfg, db, pipe, stopped, mishaps>>

(* The collecting reader stores the masters of all pairs first. *)
MapPairs ==
    LET pairs == {a \in Assets : \E i \in DOMAIN run.events :
                     run.events[i].kind = "pair" /\ run.events[i].rec = a}
        next == [run EXCEPT !.pc = "hydrate", !.known = pairs]
    IN  /\ run.pc = "map"
        /\ Writes(run' = next /\ db' = Mapped(db, pairs),
                  /\ run' = [next EXCEPT !.unsafe = TRUE]
                  /\ \E a \in pairs : db' = Mapped(db, pairs \ {a}))
        /\ UNCHANGED <<zone, cfg, prod, channel, pipe, stopped>>

-----------------------------------------------------------------------------
(* The phases of the rest go over the kept events, each over those that       *)
(* concern it: halves are looked up, new photos get the names of their rows   *)
(* (or, streaming, are offered), relations and deletions are applied.         *)

Concerns(pc, e) ==
    \/ pc = "hydrate" /\ Half(e)
    \/ pc \in {"offer", "select"} /\ Fresh(e)
    \/ pc = "relate" /\ e.kind = "rel"
    \/ pc = "apply" /\ (Fresh(e) \/ (e.kind \notin {"rel", "bad"} /\ e.reason # "created"))
Left == {i \in DOMAIN run.events : i > run.at /\ Concerns(run.pc, run.events[i])}
Turn(pc, i) == run.pc = pc /\ i \in Left /\ \A j \in Left : i <= j

(* Assets added to the selected album that are not in the delta. *)
Missing ==
    IF cfg.album
    THEN {a \in Assets \ run.known : \E i \in DOMAIN run.events :
             /\ run.events[i].kind = "rel" /\ run.events[i].rec = a
             /\ run.events[i].reason = "created"}
    ELSE {}

(* --recent caps what is downloaded after the whole delta is known. *)
Capped(ready) ==
    IF cfg.recent # Null /\ Len(ready) > cfg.recent THEN SubSeq(ready, 1, cfg.recent) ELSE ready

NextPhase ==
    /\ Left = {}
    /\ \/ run.pc = "hydrate" /\ run' = [run EXCEPT !.pc = IF Streaming THEN "offer" ELSE "select", !.at = 0]
       \/ run.pc = "offer" /\ run' = [run EXCEPT !.pc = "relate", !.at = 0]
       \/ run.pc = "select" /\ run' = [run EXCEPT !.pc = "scan", !.at = 0, !.missing = Missing]
       \/ /\ run.pc = "scan" /\ run.missing = {}
          /\ run' = [run EXCEPT !.pc = "relate", !.at = 0]
       \/ run.pc = "relate" /\ run' = [run EXCEPT !.pc = IF Streaming THEN "await" ELSE "apply", !.at = 0]
       \/ run.pc = "apply" /\ run' = [run EXCEPT !.pc = "plan", !.at = 0, !.ready = Capped(@)]
       \/ /\ run.pc = "plan" /\ run.at = Len(run.ready)
          /\ run' = [run EXCEPT !.pc = "report", !.at = 0]
    /\ UNCHANGED <<zone, cfg, db, prod, channel, pipe, stopped, mishaps>>

-----------------------------------------------------------------------------
(* Hydration of what the delta does not carry. *)

FamilyGone(e) == ~Exists(MasterOf[e.rec])
Whole(e) == Exists(e.rec) /\ ~FamilyGone(e)

(* A bare record whose master is not on file is asked for its master first; if *)
(* it is gone by then, nothing is done about it.                               *)
LookupWrites(d, e) ==
    CASE Whole(e) -> Mapped(d, {e.rec})
      [] ~Exists(e.rec) /\ e.kind = "bare" /\ e.rec \notin d.mapped -> d
      [] OTHER -> IF FamilyGone(e) THEN FlagDeleted(d, FamilyKeys(d, MasterOf[e.rec]))
                  ELSE SoftDelete(d, e)
Hydrated(e) ==
    IF Whole(e)
    THEN [Event("pair", e.rec, "created", e.rec) EXCEPT !.trashed = (zone[e.rec].st = "trashed")]
    ELSE e

Hydrate == \E i \in DOMAIN run.events :
    LET e == run.events[i]
        next == [run EXCEPT !.at = i, !.events[i] = Hydrated(e)]
    IN  /\ Turn("hydrate", i)
        /\ Writes(run' = next /\ db' = LookupWrites(db, e),
                  /\ \/ run' = [next EXCEPT !.unsafe = TRUE]
                     \/ e.kind = "bare" /\ run' = [run EXCEPT !.at = i, !.unsafe = TRUE]
                  /\ UNCHANGED db)
        /\ UNCHANGED <<zone, cfg, prod, channel, pipe, stopped>>

(* The lookup fails: the halves that are left stay halves. *)
LookupFails ==
    /\ run.pc = "hydrate" /\ Left # {} /\ Mishap("error") /\ Spend
    /\ run' = [run EXCEPT !.at = Len(run.events), !.unsafe = TRUE]
    /\ UNCHANGED <<zone, cfg, db, prod, channel, pipe, stopped>>

(* Streaming: what was hydrated follows the pairs into the pipeline. *)
OfferHydrated == \E i \in DOMAIN run.events :
    /\ Turn("offer", i) /\ Len(pipe) < PipeCap
    /\ pipe' = Append(pipe, [asset |-> run.events[i].rec, trashed |-> run.events[i].trashed])
    /\ run' = [run EXCEPT !.at = i]
    /\ UNCHANGED <<zone, cfg, db, prod, channel, stopped, mishaps>>

(* select_asset_state_identity: a photo to download gets the name of its row.   *)
(* One whose claim of the master's row cannot be stored is no photo any longer. *)
Select == \E i \in DOMAIN run.events :
    LET e == run.events[i]
        key == StateKey(db, run, e.rec)
        next == [Taken(run, key) EXCEPT !.at = i]
    IN  /\ Turn("select", i)
        /\ Writes(/\ run' = [next EXCEPT !.events[i].id = key, !.known = @ \cup {e.rec}]
                  /\ db' = Claimed(db, key, e.rec),
                  /\ key # e.rec /\ UNCHANGED db
                  /\ run' = [next EXCEPT !.events[i].kind = "asset", !.unsafe = TRUE])
        /\ UNCHANGED <<zone, cfg, prod, channel, pipe, stopped>>

(* The zone is scanned from the beginning for the assets that are missing; one *)
(* that has gone since is not found.                                           *)
ScanMissing == \E a \in run.missing :
    LET whole == Exists(a) /\ Exists(MasterOf[a])
        key == StateKey(db, run, a)
        item == [asset |-> a, key |-> key, trashed |-> (zone[a].st = "trashed")]
        dropped == [run EXCEPT !.missing = @ \ {a}]
        found == [Taken(dropped, key) EXCEPT !.known = @ \cup {a}, !.ready = Append(@, item)]
    IN  /\ run.pc = "scan"
        /\ \/ ~whole /\ run' = dropped /\ UNCHANGED <<db, mishaps>>
           \/ /\ whole
              /\ Writes(run' = found /\ db' = Claimed(Mapped(db, {a}), key, a),
                        \/ run' = [found EXCEPT !.unsafe = TRUE] /\ db' = Claimed(db, key, a)
                        \/ /\ key # a /\ db' = Mapped(db, {a})
                           /\ run' = [Taken(dropped, key) EXCEPT !.unsafe = TRUE])
        /\ UNCHANGED <<zone, cfg, prod, channel, pipe, stopped>>

ScanFails ==
    /\ run.pc = "scan" /\ run.missing # {} /\ Mishap("error") /\ Spend
    /\ run' = [run EXCEPT !.missing = {}, !.unsafe = TRUE]
    /\ UNCHANGED <<zone, cfg, db, prod, channel, pipe, stopped>>

-----------------------------------------------------------------------------
(* Memberships, routing, rows. *)

MembersOnlyAdded(d, e) == [d EXCEPT !.members = @ \cup {e.rec}]

(* upsert_album_membership_delta, mark_album_membership_deleted *)
MembersAfter(d, e) ==
    [d EXCEPT !.members = IF e.reason = "created" THEN @ \cup {e.rec} ELSE @ \ {e.rec}]

(* The membership is kept all the same, but the token is not. *)
UnknownAsset(e) == e.reason = "created" /\ e.rec \notin run.known \cup db.mapped

Relate == \E i \in DOMAIN run.events :
    LET e == run.events[i]
        next == [run EXCEPT !.at = i, !.unsafe = @ \/ (cfg.album /\ UnknownAsset(e))]
    IN  /\ Turn("relate", i)
        /\ Writes(run' = next /\ db' = IF cfg.album THEN MembersAfter(db, e) ELSE db,
                  run' = [next EXCEPT !.unsafe = TRUE] /\ UNCHANGED db)
        /\ UNCHANGED <<zone, cfg, prod, channel, pipe, stopped>>

(* route_incremental_asset_to_passes *)
Routed(a) == cfg.unfiled \/ a \in db.members

Route == \E i \in DOMAIN run.events :
    LET e == run.events[i]
        item == [asset |-> e.rec, key |-> e.id, trashed |-> e.trashed]
        next == [run EXCEPT !.at = i]
    IN  /\ Turn("apply", i) /\ Fresh(e)
        /\ Writes(run' = IF Routed(e.rec) THEN [next EXCEPT !.ready = Append(@, item)] ELSE next,
                  run' = [next EXCEPT !.unsafe = TRUE])
        /\ UNCHANGED <<zone, cfg, db, prod, channel, pipe, stopped>>

Apply == \E i \in DOMAIN run.events :
    LET e == run.events[i]
        next == [run EXCEPT !.at = i]
    IN  /\ Turn("apply", i) /\ ~Fresh(e)
        /\ Writes(run' = next /\ db' = ApplySourceState(db, e),
                  run' = [next EXCEPT !.unsafe = TRUE] /\ UNCHANGED db)
        /\ UNCHANGED <<zone, cfg, prod, channel, pipe, stopped>>

PlanRow ==
    LET i == run.at + 1
        next == [run EXCEPT !.at = i]
    IN  /\ run.pc = "plan" /\ i <= Len(run.ready)
        /\ Writes(run' = next /\ db' = UpsertSeen(db, run.ready[i]),
                  run' = [next EXCEPT !.unsafe = TRUE] /\ UNCHANGED db)
        /\ UNCHANGED <<zone, cfg, prod, channel, pipe, stopped>>

(* The pipeline stores the row of an asset before its transfer, which may fail. *)
PipelineTakes ==
    LET photo == Head(pipe)
        key == StateKey(db, run, photo.asset)
        seen == UpsertSeen(Claimed(db, key, photo.asset),
                           [asset |-> photo.asset, key |-> key, trashed |-> photo.trashed])
    IN  /\ pipe # <<>> /\ ~stopped
        /\ pipe' = Tail(pipe)
        /\ Writes(run' = Taken(run, key) /\ db' \in {seen, Transferred(seen, {key})},
                  run' = [Taken(run, key) EXCEPT !.unsafe = TRUE] /\ UNCHANGED db)
        /\ UNCHANGED <<zone, cfg, prod, channel, stopped>>

AdvanceUnguarded == run.token # Null

(* source_checkpoint_decision *)
Advances == ~stopped /\ ~run.unsafe /\ run.token # Null

(* The transfers of a collecting run have ended, well or not. *)
Report ==
    /\ run.pc = "report" /\ (pipe = <<>> \/ stopped)
    /\ \E moved \in {{}, {run.ready[i].key : i \in DOMAIN run.ready}} :
          db' = [Transferred(db, moved) EXCEPT !.token = IF Advances THEN run.token ELSE @]
    /\ Ended
    /\ UNCHANGED <<zone, cfg, mishaps>>

(* classify_incremental_error: a transient failure ends the run, others fall *)
(* back to a full enumeration.                                               *)
Fail ==
    /\ run.pc = "failed" /\ (pipe = <<>> \/ stopped)
    /\ \/ UNCHANGED db
       \/ ~stopped /\ db' = [Enumerated(db, {a \in Assets : Wanted(a)}) EXCEPT !.token = clock]
    /\ Ended
    /\ UNCHANGED <<zone, cfg, mishaps>>

RunStep ==
    \/ StartRun \/ Backfill \/ CollectEvent \/ StreamEvent \/ BreakAtStop \/ EndOfDelta
    \/ ReceiveToken \/ MapPairs \/ NextPhase \/ Hydrate \/ LookupFails \/ OfferHydrated
    \/ Select \/ ScanMissing \/ ScanFails \/ Relate \/ Route \/ Apply
    \/ PlanRow \/ PipelineTakes \/ Report \/ Fail

-----------------------------------------------------------------------------
(* Signals and deaths. *)

Stop ==
    /\ Mishap("stop") /\ run.pc # "idle" /\ ~stopped /\ Spend
    /\ stopped' = TRUE
    /\ UNCHANGED <<zone, cfg, db, run, prod, channel, pipe>>

Crash ==
    /\ Mishap("crash") /\ run.pc # "idle" /\ Spend /\ Ended
    /\ UNCHANGED <<zone, cfg, db>>

(* The second signal or the watchdog ends a process that does not stop. *)
ForceExit ==
    /\ stopped /\ Ended
    /\ UNCHANGED <<zone, cfg, db, mishaps>>

LibraryZone(l) ==
    [r \in Records |->
        IF r \in l.live \cup {MasterOf[a] : a \in l.live} \cup {Rel(a) : a \in l.album}
        THEN [st |-> "live", at |-> 1] ELSE [st |-> "absent", at |-> 0]]
LibraryRows(l) ==
    [k \in Keys |->
        CASE k \in l.live \ l.legacy -> [of |-> k, status |-> "downloaded", deleted |-> FALSE]
          [] \E a \in l.legacy : MasterOf[a] = k ->
                [of |-> CHOOSE a \in l.legacy : MasterOf[a] = k, status |-> "downloaded",
                 deleted |-> FALSE]
          [] OTHER -> NoRow]

DeltaInit ==
    /\ \E l \in Setups :
          /\ cfg = l.config
          /\ zone = LibraryZone(l)
          /\ db = [rows |-> LibraryRows(l), owner |-> [m \in Masters |-> Null],
                   mapped |-> l.live \ l.legacy, token |-> 1,
                   members |-> IF l.config.album /\ l.snapshot THEN l.album ELSE {},
                   snapshot |-> l.config.album /\ l.snapshot]
    /\ run = Idle /\ prod = Off /\ channel = <<>> /\ pipe = <<>>
    /\ stopped = FALSE /\ mishaps = 0

DeltaNext == ZoneChange \/ ProducerStep \/ RunStep \/ Stop \/ Crash \/ ForceExit

DeltaSpec == DeltaInit /\ [][DeltaNext]_vars

(* The tasks of a process run, the watchdog fires, and watch mode starts the *)
(* next run.                                                                 *)
DeltaFairness == WF_vars(ProducerStep) /\ WF_vars(RunStep) /\ WF_vars(ForceExit)
DeltaFairSpec == DeltaSpec /\ DeltaFairness
-----------------------------------------------------------------------------
(* Properties. *)

Tokens == 1 .. clock
Reasons == {"created", "hidden", "softDeleted", "hardDeleted"}
States == {"absent", "live", "hidden", "trashed", "gone"}
Names == Keys \cup {Null}
Items == [rec : Assets, reason : Reasons]
Events == [kind : {"pair", "asset", "bare", "master", "tomb", "rel", "bad", "err"},
           rec : Names, reason : Reasons, id : Names, trashed : BOOLEAN]
Rows == [of : Assets \cup {Null}, status : {"none", "pending", "downloaded"}, deleted : BOOLEAN]
Photos == [asset : Assets, key : Keys, trashed : BOOLEAN]

Databases == [rows : [Keys -> Rows], owner : [Masters -> Assets \cup {Null}],
              mapped : SUBSET Assets, members : SUBSET Assets, snapshot : BOOLEAN, token : Nat]
Runs == [pc : {"idle", "backfill", "read", "await", "map", "hydrate", "offer", "select",
               "scan", "relate", "apply", "plan", "report", "failed"},
         events : Seq(Events), at : Nat, ready : Seq(Photos), missing : SUBSET Assets,
         known : SUBSET Assets, mapped : SUBSET Assets, stored : SUBSET Keys,
         claimed : SUBSET Masters, unsafe : BOOLEAN, token : Nat \cup {Null}, purged : SUBSET Assets]
Buffers == [masters : [Masters -> Reasons \cup {Null}], paired : [Masters -> Reasons \cup {Null}],
            assets : [Masters -> Seq(Items)]]
Producers == [pc : {"off", "page", "send", "flush", "done"}, token : Nat \cup {Null},
              buffer : Buffers, page : SUBSET [rec : Records, st : States, at : Nat],
              todo : Seq(Events), more : BOOLEAN, failed : BOOLEAN]

(* Every variable has its type, the stored, the received and the paging token  *)
(* are changes the zone has made, and both channels respect their bounds.      *)
DeltaTypeOK ==
    /\ zone \in [Records -> [st : States, at : 0 .. cfg.maxClock]]
    /\ cfg \in {l.config : l \in Setups} /\ stopped \in BOOLEAN /\ mishaps \in 0 .. MaxMishaps
    /\ db \in Databases /\ db.token \in Tokens
    /\ run \in Runs /\ run.token \in Tokens \cup {Null}
    /\ prod \in Producers /\ prod.token \in Tokens \cup {Null}
    /\ channel \in Seq(Events) /\ Len(channel) <= ChannelCap
    /\ pipe \in Seq([asset : Assets, trashed : BOOLEAN]) /\ Len(pipe) <= PipeCap

(* What the stored token claims is on record: every photo that the             *)
(* configuration selects and whose last change (with an album alone, also the  *)
(* last change of its membership) is behind the token has been downloaded or   *)
(* has a row that a later cycle will retry.  No order of pages, halves, album  *)
(* changes, failures, crashes and stops moves the token past a lost photo.     *)
DeltaTokenSound ==
    \A a \in Assets :
        Wanted(a) /\ zone[a].at <= db.token /\ (cfg.unfiled \/ zone[Rel(a)].at <= db.token)
        => Known(db, a)

(* With a complete snapshot, the stored memberships of the selected album are *)
(* those of the zone as far as the token claims to know it.                   *)
MembershipSound ==
    db.snapshot => \A a \in Assets :
        zone[Rel(a)].at <= db.token => (a \in db.members <=> Exists(Rel(a)))

(* A photo that stays selected is known for good once the zone is quiet, *)
(* whatever failed before.                                               *)
EventuallyKnown == <>[](\A a \in Assets : Wanted(a) => Known(db, a))

(* When a delta moves the token past a purge that was made before the run, no  *)
(* row of the photo waits for a download any more: a tombstone has no type and *)
(* names the asset or its master, and finds the row under whichever name it    *)
(* has.  A purge during the run may be applied before the row of an earlier    *)
(* event is stored, and is then lost on the row.                               *)
TombstonesLand ==
    [][run.pc = "report" /\ db'.token # db.token =>
          \A k \in Keys : LET row == db'.rows[k]
                          IN  (row.status = "pending" /\ ~row.deleted)
                              => ~(row.of \in run.purged /\ zone[row.of].at > db.token)]_vars
=============================================================================
