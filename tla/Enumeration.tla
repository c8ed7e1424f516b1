---------------------------- MODULE Enumeration ----------------------------
(***************************************************************************)
(* The full record stream of one album (icloud/photos/album.rs): a plan of *)
(* rank ranges, one fetcher task per range paging over /records/query, the *)
(* bounded channel to the consumer, the monitor that turns the fetchers'   *)
(* completions into one zone sync token, and the hydration of album        *)
(* members that live in other zones.  The provider's index is external: a  *)
(* sequence of ranks that may change between two pages.                    *)
(***************************************************************************)
EXTENDS Integers, FiniteSets, Sequences, SequencesExt, FiniteSetsExt

CONSTANTS Masters,      \* CPLMaster records
          Assets,       \* CPLAsset records
          MasterOf,     \* [Assets -> Masters], the masterRef field
          Foreign,      \* members of the album whose records are in other zones
          Layouts,      \* the provider's possible first indexes
          Requests,     \* the possible arguments of the stream
          PageSize, EmptyProbes, PairBuffer,
          MaxChanges,   \* bound on provider changes
          FaultSets,    \* what may go wrong in one behaviour
          Null

Ids == Assets \cup Masters

(* A rank lists at most one asset and one master, a record has one rank, and  *)
(* behind any rank the next asset is at most EmptyProbes ranks away.  (A page  *)
(* of few masters moves the offset by as many ranks, and a page that only     *)
(* repeats counts as an empty one: behind longer gaps the stream may end.)    *)
WellListed(idx) ==
    /\ idx \in Seq(SUBSET Ids)
    /\ \A i \in DOMAIN idx : \A r, s \in idx[i] : r # s => (r \in Assets <=> s \in Masters)
    /\ \A i, j \in DOMAIN idx : i # j => idx[i] \cap idx[j] = {}
    /\ \A b \in 0 .. Len(idx) : \A i \in DOMAIN idx :
           (i > b /\ idx[i] \cap Assets # {}) =>
               \E j \in DOMAIN idx : b < j /\ j <= b + EmptyProbes /\ idx[j] \cap Assets # {}

(* Null fields stand for None; `album' for an album with cross-zone sources. *)
ASSUME RecordsAssumption ==
    /\ IsFiniteSet(Assets) /\ IsFiniteSet(Masters) /\ IsFiniteSet(Foreign)
    /\ Assets \cap Masters = {} /\ Foreign \cap Ids = {}
    /\ Null \notin Ids \cup Foreign /\ Null \notin Nat
    /\ Null \notin {"incomplete", "bound", "eof"}
ASSUME EnumAssumption ==
    /\ MasterOf \in [Assets -> Masters]
    /\ PageSize \in Nat \ {0} /\ EmptyProbes \in Nat \ {0} /\ PairBuffer \in Nat \ {0}
    /\ MaxChanges \in Nat
    /\ \A idx \in Layouts : WellListed(idx)
    /\ \A r \in Requests : /\ r.limit \in Nat \cup {Null}
                           /\ r.count \in Nat \cup {Null}
                           /\ r.concurrency \in Nat
                           /\ r.album \in BOOLEAN

VARIABLES hist,       \* provider: every index it has had (rank |-> records); the length is the sync token
          req,        \* the arguments of the stream
          faults,     \* what may go wrong
          fetchers,   \* one task per planned range, keyed by the range's start
          owners,     \* range_record_owners: asset |-> the range that claimed it
          channel, got, errors,    \* sent and unread; read by the consumer; errors among them
          consumer,   \* "reading", "dropped" or "ended"
          suppressed, \* FetcherSyncTokenCapture.suppressed
          result      \* what the token receiver yields: <<>> until sent

vars == <<hist, req, faults, fetchers, owners, channel, got, errors, consumer, suppressed, result>>
provider == <<hist, req, faults>>
reader == <<got, errors, consumer>>

Faulty(x) == x \in faults
CeilDiv(a, b) == (a + b - 1) \div b
AtMost(a, b) == IF a <= b THEN a ELSE b

index == hist[Len(hist)]
Listed == UNION Range(index)
Downloadable(idx) == {a \in Assets : {a, MasterOf[a]} \subseteq UNION Range(idx)}

-----------------------------------------------------------------------------
(* The plan: count-partitioned ranges and one owner of the tail. *)

(* An end of Null is u64::MAX. *)
SingleRange(role) == {[start |-> 0, end |-> Null, role |-> role]}

(* The count is a scheduling hint: every range it yields ends at the count, *)
(* and the tail range starts there and has no end.                          *)
CountedRanges(total, concurrency) ==
    LET pages == CeilDiv(total, PageSize)
        number == IF total > 0 THEN AtMost(pages, 2 * concurrency) ELSE 1
        chunk == CeilDiv(CeilDiv(total, number), PageSize) * PageSize
    IN  {[start |-> i * chunk, end |-> AtMost((i + 1) * chunk, total), role |-> "data"] :
            i \in {j \in 0 .. number - 1 : j * chunk < total}}
        \cup {[start |-> total, end |-> Null, role |-> "tail"]}

Plan(r) == CASE r.limit # Null -> SingleRange("probe")
             [] r.limit = Null /\ (r.count = Null \/ r.concurrency <= 1) -> SingleRange("tail")
             [] OTHER -> CountedRanges(r.count, r.concurrency)

Fetcher(range) ==
    [pc |-> "loop", offset |-> range.start, end |-> range.end, role |-> range.role,
     masters |-> {}, assets |-> {}, paired |-> {}, emitted |-> {}, todo |-> {},
     sent |-> 0, page |-> 0, empties |-> 0, token |-> Null, incomplete |-> FALSE,
     limited |-> FALSE, completion |-> Null, gens |-> {}]

Starts == DOMAIN fetchers
Capacity == PageSize * Cardinality(Starts)
Ended(f) == fetchers[f].pc \in {"done", "gone", "panicked"}
AllEnded == \A f \in Starts : Ended(f)

EnumInit ==
    /\ \E idx \in Layouts : hist = <<idx>>
    /\ req \in Requests /\ faults \in FaultSets
    /\ fetchers = [s \in {r.start : r \in Plan(req)} |->
                       Fetcher(CHOOSE r \in Plan(req) : r.start = s)]
    /\ owners = [a \in Assets |-> Null]
    /\ channel = <<>> /\ got = {} /\ errors = FALSE /\ consumer = "reading"
    /\ suppressed = (req.limit # Null /\ req.count # Null /\ req.count > req.limit)
    /\ result = <<>>

-----------------------------------------------------------------------------
(* The provider. *)

Changed(idx) ==
    /\ WellListed(idx)
    /\ hist' = Append(hist, idx)
    /\ UNCHANGED <<req, faults, fetchers, owners, channel, reader, suppressed, result>>

MayChange == Faulty("change") /\ result = <<>> /\ Len(hist) <= MaxChanges

(* A deleted or hidden family leaves its ranks to the ones behind it, or an empty rank. *)
Removed(m) == [i \in DOMAIN index |-> {r \in index[i] : r # m /\ (r \in Assets => MasterOf[r] # m)}]
RemoveFamily(m) ==
    /\ MayChange /\ m \in Listed
    /\ \/ Changed(Removed(m))
       \/ Changed(SelectSeq(Removed(m), LAMBDA c : c # {}))

(* A new photo is listed by its date, so at any rank. *)
AddPhoto(a) ==
    /\ MayChange /\ {a, MasterOf[a]} \cap Listed = {}
    /\ \E i \in 1 .. Len(index) + 1 : Changed(InsertAt(index, i, {a, MasterOf[a]}))

-----------------------------------------------------------------------------
(* One fetcher: pages, pairs, sends. *)

Closed == consumer = "dropped"
MaySend == Closed \/ Len(channel) < Capacity
Send(item) == channel' = IF Closed THEN channel ELSE Append(channel, item)
Error == [asset |-> Null, id |-> Null]

Update(f, new) == fetchers' = [fetchers EXCEPT ![f] = new]

(* FetcherSyncTokenCapture.complete *)
Completed(me, token, completion) ==
    [me EXCEPT !.pc = "done", !.token = token, !.completion = completion]

(* The consumer has dropped the stream. *)
StopAtClosed(f) ==
    /\ fetchers[f].pc = "loop" /\ Closed
    /\ Update(f, Completed(fetchers[f], Null, "incomplete"))
    /\ UNCHANGED <<provider, owners, channel, reader, suppressed, result>>

AtEnd(me) == me.end # Null /\ me.offset >= me.end

EndRange(f) ==
    /\ fetchers[f].pc = "loop" /\ ~Closed /\ AtEnd(fetchers[f])
    /\ Update(f, [fetchers[f] EXCEPT !.pc = "finish"])
    /\ UNCHANGED <<provider, owners, channel, reader, suppressed, result>>

MayQuery(f) == fetchers[f].pc = "loop" /\ ~Closed /\ ~AtEnd(fetchers[f])

(* retry_post gives up, or the response does not parse. *)
QueryFails(f) ==
    /\ Faulty("error") /\ MayQuery(f) /\ MaySend
    /\ Send(Error)
    /\ Update(f, Completed(fetchers[f], Null, "incomplete"))
    /\ UNCHANGED <<provider, owners, reader, suppressed, result>>

(* records/query at startRank = offset; /records/query has no moreComing flag. *)
Page(offset) == UNION {index[i] : i \in DOMAIN index \cap (offset + 1 .. offset + PageSize)}

(* What a non-empty page does to the pairing buffers.  `cache' is what is left of *)
(* the paired masters when more than PairBuffer of them are remembered.           *)
Siblings(m, set) == {a \in set \cap Assets : MasterOf[a] = m}

(* The first of several siblings takes the master's name as its state id, the *)
(* others, and those that come after their family was paired, their own.  The *)
(* ones that waited come before those of the page, and these by their ranks.  *)
Rank(a) == IF a \in Listed THEN CHOOSE i \in DOMAIN index : a \in index[i] ELSE 0
Earliest(set) == CHOOSE a \in set : \A b \in set : Rank(a) <= Rank(b)
Named(waiting, fresh, m) ==
    LET first == Earliest(IF waiting # {} THEN waiting ELSE fresh)
    IN  {[asset |-> a, id |-> IF a = first THEN m ELSE a] : a \in waiting \cup fresh}
LateNamed(waiting, fresh, m) == {[asset |-> a, id |-> a] : a \in waiting \cup fresh}

CachesUnpruned(set) == {set}

(* prune_paired_master_cache *)
Caches(set) == {c \in SUBSET set : Cardinality(c) = AtMost(Cardinality(set), PairBuffer)}

AdvanceByRecords(pageMasters, pageAssets) ==
    IF pageMasters = {} /\ pageAssets = {} THEN 1
    ELSE Cardinality(pageMasters) + Cardinality(pageAssets)

Advance(pageMasters, pageAssets) ==
    IF pageMasters # {} THEN Cardinality(pageMasters)
    ELSE IF pageAssets = {} THEN 1 ELSE Cardinality(pageAssets)

Paired(me, records, cache, later) ==
    LET pm == records \cap Masters
        pa == records \cap Assets
        known == me.assets \cup pa
        matched == {m \in pm : Siblings(m, known) # {}}
        rest == {a \in pa : MasterOf[a] \notin pm}
        waited == {m \in me.masters : Siblings(m, rest) # {}}
        recent == {m \in cache \ waited : Siblings(m, rest) # {}}
        left == {a \in rest : MasterOf[a] \notin waited \cup recent}
    IN  [me EXCEPT !.pc = "emit",
                   !.offset = @ + Advance(pm, pa),
                   !.masters = ((@ \cup (pm \ matched)) \ waited),
                   !.assets = (@ \ {a \in @ : MasterOf[a] \in matched}) \cup left,
                   !.paired = later,
                   !.page = 0,
                   !.todo = UNION (
                       {Named(Siblings(m, me.assets), Siblings(m, pa), m) : m \in matched}
                       \cup {Named({}, Siblings(m, rest), m) : m \in waited}
                       \cup {LateNamed({}, Siblings(m, rest), m) : m \in recent})]

EmptiedUncounted(me) == me

(* An empty page is a gap or the end: probe one page further, EmptyProbes times. *)
Emptied(me) ==
    LET n == me.empties + 1
    IN  IF n >= EmptyProbes THEN [me EXCEPT !.empties = n, !.pc = "finish"]
        ELSE [me EXCEPT !.empties = n, !.offset = @ + PageSize]

FetchPage(f) ==
    /\ MayQuery(f)
    /\ \E token \in {Len(hist)} \cup IF Faulty("noToken") THEN {Null} ELSE {} :
       LET me == [fetchers[f] EXCEPT !.token = IF token = Null THEN @ ELSE token,
                                     !.gens = @ \cup {Len(hist)}]
           records == Page(me.offset)
           pm == records \cap Masters
           matched == {m \in pm : Siblings(m, me.assets \cup records) # {}}
           waited == {m \in me.masters : Siblings(m, records) # {} /\ m \notin pm}
       IN  IF records = {} THEN Update(f, Emptied(me))
           ELSE \E cache \in Caches(me.paired \cup matched) :
                \E later \in Caches(cache \cup waited) :
                    Update(f, Paired(me, records, cache, later))
    /\ UNCHANGED <<provider, owners, channel, reader, suppressed, result>>

(* should_emit_asset_record: only one range emits a record, the data ranges may repeat it. *)
ShouldEmit(f, a) ==
    /\ fetchers[f].role = "data" \/ a \notin fetchers[f].emitted
    /\ owners[a] \in {Null, f}

LimitReached(me) == req.limit # Null /\ me.sent >= req.limit

(* The records of a page in any order. *)
Emit(f, item) ==
    LET me == fetchers[f]
        next == [me EXCEPT !.todo = @ \ {item},
                           !.emitted = IF me.role = "data" THEN @ ELSE @ \cup {item.asset}]
        claimed == [owners EXCEPT ![item.asset] = IF @ = Null THEN f ELSE @]
    IN  /\ me.pc = "emit" /\ item \in me.todo
        /\ \/ /\ ~ShouldEmit(f, item.asset)
              /\ Update(f, next)
              /\ UNCHANGED <<owners, channel>>
           \/ /\ ShouldEmit(f, item.asset) /\ LimitReached(me)
              /\ owners' = claimed
              /\ Update(f, [next EXCEPT !.pc = "finish", !.limited = TRUE])
              /\ UNCHANGED channel
           \/ /\ ShouldEmit(f, item.asset) /\ ~LimitReached(me) /\ Closed
              /\ owners' = claimed
              /\ Update(f, [next EXCEPT !.pc = "gone"])
              /\ UNCHANGED channel
           \/ /\ ShouldEmit(f, item.asset) /\ ~LimitReached(me) /\ ~Closed /\ MaySend
              /\ owners' = claimed
              /\ \/ /\ Send(item)
                    /\ Update(f, [next EXCEPT !.sent = @ + 1, !.page = @ + 1])
                 \/ /\ Faulty("malformed")
                    /\ Send(Error)
                    /\ Update(f, [next EXCEPT !.incomplete = TRUE])
        /\ UNCHANGED <<provider, reader, suppressed, result>>

Unpaired(me) == Cardinality(me.masters) + Cardinality(me.assets)

EndPage(f) ==
    LET me == fetchers[f]
    IN  /\ me.pc = "emit" /\ me.todo = {}
        /\ \/ /\ Unpaired(me) > PairBuffer /\ MaySend
              /\ Send(Error)
              /\ Update(f, [me EXCEPT !.pc = "finish", !.incomplete = TRUE])
           \/ /\ Unpaired(me) <= PairBuffer
              /\ Update(f, IF me.page > 0 THEN [me EXCEPT !.pc = "loop", !.empties = 0]
                           ELSE [me EXCEPT !.empties = @ + 1,
                                           !.pc = IF me.empties + 1 >= EmptyProbes
                                                  THEN "finish" ELSE "loop"])
              /\ UNCHANGED channel
        /\ UNCHANGED <<provider, owners, reader, suppressed, result>>

(* A half of a pair that never met the other blocks the token of a single range. *)
Reportable(me) == ~me.limited /\ Cardinality(Starts) = 1 /\ Unpaired(me) > 0

Finish(f) ==
    LET me == fetchers[f]
    IN  /\ me.pc = "finish"
        /\ \/ Reportable(me) /\ MaySend /\ Send(Error)
           \/ ~Reportable(me) /\ UNCHANGED channel
        /\ suppressed' = (suppressed \/ me.limited)
        /\ Update(f, Completed(me, me.token,
                         IF me.incomplete \/ Reportable(me) THEN "incomplete"
                         ELSE IF me.limited THEN "bound" ELSE "eof"))
        /\ UNCHANGED <<provider, owners, reader, result>>

Panic(f) ==
    /\ Faulty("panic") /\ ~Ended(f)
    /\ Update(f, [fetchers[f] EXCEPT !.pc = "panicked"])
    /\ UNCHANGED <<provider, owners, channel, reader, suppressed, result>>

-----------------------------------------------------------------------------
(* The monitor: one token for the pass, or none. *)

Tokens == {fetchers[f].token : f \in Starts} \ {Null}

ResolveLatest ==
    IF \/ suppressed
       \/ \E f \in Starts : fetchers[f].completion \in {Null, "incomplete", "bound"}
       \/ Tokens = {}
    THEN Null ELSE CHOOSE t \in Tokens : \A u \in Tokens : u <= t

(* FetcherSyncTokenCapture.resolve *)
Resolve ==
    IF \/ suppressed
       \/ \E f \in Starts : fetchers[f].completion \in {Null, "incomplete", "bound"}
       \/ Cardinality(Tokens) # 1
    THEN Null ELSE CHOOSE t \in Tokens : TRUE

BaseToken == IF \E f \in Starts : fetchers[f].pc = "panicked" THEN Null ELSE Resolve

SendToken ==
    /\ AllEnded /\ result = <<>> /\ ~req.album
    /\ result' = <<BaseToken>>
    /\ UNCHANGED <<provider, fetchers, owners, channel, reader, suppressed>>

(* The relay of an album with cross-zone sources forwards the base stream, then *)
(* looks for the members that the owner zone did not list.                      *)
Seen == got \cup {item \in Range(channel) : item # Error}
RelayError == errors \/ Error \in Range(channel)
BaseSeen == Cardinality(UNION {{f} \X (1 .. fetchers[f].sent) : f \in Starts})
ShouldHydrate == req.limit = Null /\ req.count # Null /\ BaseSeen < req.count
Missing == (Downloadable(index) \cup Foreign) \ {item.asset : item \in Seen}
Answer(t) == result' = <<t>> /\ UNCHANGED channel
Hydrated(order) == [i \in DOMAIN order |-> [asset |-> order[i], id |-> order[i]]]

Hydrate ==
    /\ AllEnded /\ result = <<>> /\ req.album
    /\ \/ Closed /\ \E t \in {Null, BaseToken} : Answer(t)   \* noticed at a send only
       \/ ~Closed /\ RelayError /\ Answer(Null)
       \/ ~Closed /\ ~RelayError /\ (~ShouldHydrate \/ Missing = {}) /\ Answer(BaseToken)
       \/ /\ ~Closed /\ ~RelayError /\ ShouldHydrate
          /\ \E found \in SUBSET (Missing \cap Foreign) : \E order \in SetToSeqs(found) :
                \/ /\ Faulty("error")
                   /\ channel' = channel \o Hydrated(order) \o <<Error>>
                   /\ result' = <<Null>>
                \/ /\ Missing # {}
                   /\ channel' = channel \o Hydrated(order)
                   /\ result' = <<IF found = Missing THEN BaseToken ELSE Null>>
    /\ UNCHANGED <<provider, fetchers, owners, reader, suppressed>>

-----------------------------------------------------------------------------
(* The consumer reads, or drops the stream at a shutdown or a date bound. *)

Receive ==
    /\ consumer = "reading" /\ channel # <<>>
    /\ channel' = Tail(channel)
    /\ IF Head(channel) = Error THEN errors' = TRUE /\ UNCHANGED got
       ELSE got' = got \cup {Head(channel)} /\ UNCHANGED errors
    /\ UNCHANGED <<provider, fetchers, owners, consumer, suppressed, result>>

EndOfStream ==
    /\ consumer = "reading" /\ channel = <<>> /\ AllEnded
    /\ req.album => result # <<>>
    /\ consumer' = "ended"
    /\ UNCHANGED <<provider, fetchers, owners, channel, got, errors, suppressed, result>>

DropStream ==
    /\ Faulty("drop") /\ consumer = "reading"
    /\ consumer' = "dropped" /\ channel' = <<>>
    /\ UNCHANGED <<provider, fetchers, owners, got, errors, suppressed, result>>

FetcherStep(f) ==
    \/ StopAtClosed(f) \/ EndRange(f) \/ QueryFails(f) \/ FetchPage(f)
    \/ (\E item \in fetchers[f].todo : Emit(f, item)) \/ EndPage(f) \/ Finish(f)

Terminated == consumer # "reading" /\ result # <<>>

EnumNext ==
    \/ \E m \in Masters : RemoveFamily(m)
    \/ \E a \in Assets : AddPhoto(a)
    \/ \E f \in Starts : FetcherStep(f) \/ Panic(f)
    \/ SendToken \/ Hydrate \/ Receive \/ EndOfStream \/ DropStream
    \/ Terminated /\ UNCHANGED vars

EnumSpec == EnumInit /\ [][EnumNext]_vars

EnumFairness ==
    /\ WF_vars(\E f \in Starts : FetcherStep(f))
    /\ WF_vars(SendToken \/ Hydrate)
    /\ WF_vars(Receive \/ EndOfStream)

EnumFairSpec == EnumSpec /\ EnumFairness
-----------------------------------------------------------------------------
(* Properties. *)

Found == [asset : Assets, id : Ids]
Item == Found \cup [asset : Foreign, id : Foreign] \cup {Error}
Fetching ==
    [pc : {"loop", "emit", "finish", "done", "gone", "panicked"}, offset : Nat,
     end : Nat \cup {Null}, role : {"data", "tail", "probe"}, masters : SUBSET Masters,
     assets : SUBSET Assets, paired : SUBSET Masters, emitted : SUBSET Assets,
     todo : SUBSET Found, sent : Nat, page : Nat, empties : 0 .. EmptyProbes,
     token : Nat \cup {Null}, incomplete : BOOLEAN, limited : BOOLEAN,
     completion : {Null, "incomplete", "bound", "eof"}, gens : SUBSET Nat]

(* Every variable has its type, the channel never holds more than a page per  *)
(* fetcher besides what a hydration adds, and the pairing buffers stay within     *)
(* the bound that a page can overrun by its own records only.                 *)
EnumTypeOK ==
    /\ hist \in Seq(Seq(SUBSET Ids)) /\ req \in Requests /\ faults \in FaultSets
    /\ fetchers \in [Starts -> Fetching] /\ Starts \subseteq Nat
    /\ owners \in [Assets -> Starts \cup {Null}]
    /\ channel \in Seq(Item) /\ got \subseteq Item \ {Error}
    /\ errors \in BOOLEAN /\ suppressed \in BOOLEAN
    /\ consumer \in {"reading", "dropped", "ended"}
    /\ result \in {<<>>} \cup {<<t>> : t \in DOMAIN hist \cup {Null}}
    /\ Len(channel) <= Capacity + Cardinality(Foreign) + 1
    /\ \A f \in Starts :
          LET me == fetchers[f]
          IN  /\ me.offset >= f
              /\ me.token \in DOMAIN hist \cup {Null}
              /\ Cardinality(me.paired) <= PairBuffer
              /\ me.pc = "loop" => Unpaired(me) <= PairBuffer

Delivered == {item.asset : item \in got}

(* Every fetcher read all its pages from one snapshot of the index. *)
CoherentReads(f) == /\ Cardinality(fetchers[f].gens) <= 1
                    /\ fetchers[f].token = Null => fetchers[f].gens \subseteq Tokens
Whole(idx) == \A i \in DOMAIN idx : \A a \in Assets \cap idx[i] : MasterOf[a] \in idx[i]

(* A token that reaches a consumer who read the stream to its end claims only *)
(* assets that the stream delivered, if no fetcher saw the index change under *)
(* it: wrong counts, gaps, limits, halves of a pair on different pages,       *)
(* malformed records, crashed and failed tasks, and ranges that saw different *)
(* snapshots are all covered.  With an exact count it also claims the members *)
(* of the album in other zones.  Parallel ranges claim it for whole families, *)
(* and the members in other zones are claimed of one range without a limit.   *)
TokenCovers ==
    (consumer = "ended" /\ result # <<>> /\ result # <<Null>>) =>
        LET snapshot == hist[result[1]]
        IN  ((\A f \in Starts : CoherentReads(f)) /\ (Cardinality(Starts) = 1 \/ Whole(snapshot)))
            => /\ Downloadable(snapshot) \subseteq Delivered
               /\ (/\ req.album /\ req.limit = Null /\ Len(hist) = 1 /\ Cardinality(Starts) = 1
                   /\ req.count = Cardinality(Downloadable(snapshot) \cup Foreign))
                      => Foreign \subseteq Delivered

(* The stream never ends early in silence: a consumer without a limit that    *)
(* saw no error, no crashed task and no change of the index has every asset,  *)
(* whether or not there is a token to show for it.                            *)
NoSilentTruncation ==
    (/\ consumer = "ended" /\ ~errors /\ Len(hist) = 1 /\ req.limit = Null
     /\ \A f \in Starts : fetchers[f].pc # "panicked"
     /\ Cardinality(Starts) = 1 \/ Whole(index))
    => Downloadable(index) \subseteq Delivered

(* A listed master has an asset at its rank, and its other assets behind it. *)
FamiliesLed(idx) ==
    /\ \A i \in DOMAIN idx : \A m \in Masters \cap idx[i] :
           \E a \in Assets \cap idx[i] : MasterOf[a] = m
    /\ \A i, j \in DOMAIN idx : \A a \in Assets \cap idx[i] : MasterOf[a] \in idx[j] => j <= i

(* Two assets of one family never share the name they are stored under, on    *)
(* whatever pages they arrive and however often a page repeats them, if a     *)
(* master comes with the first of its assets.                                 *)
SiblingsDistinct ==
    (Len(hist) = 1 /\ FamiliesLed(index)) =>
        \A x, y \in got : x.id = y.id => x.asset = y.asset

(* The token is sent and the consumer is released, whatever fails. *)
StreamEnds == <>(result # <<>>) /\ <>(consumer # "reading")

=============================================================================
