----------------------------- MODULE Checkpoint -----------------------------
(***************************************************************************)
(* Provider checkpoints of kei: how run_cycle (sync_cycle.rs) moves the    *)
(* per-zone sync tokens, how a change of the eligibility configuration is  *)
(* staged and promoted, and how the watch loop (sync_loop.rs) uses the     *)
(* scoped changes/database token to skip cycles.                           *)
(*                                                                         *)
(* A zone's history at the provider is a row of numbered changes; a        *)
(* CloudKit token is the number of changes it covers.  The download engine *)
(* is abstract here: one run of a zone catalogues the eligible changes of  *)
(* its range and reports how it ended.                                     *)
(***************************************************************************)
EXTENDS Integers, FiniteSets

CONSTANTS
  Zones,        \* selected libraries (CloudKit zones)
  Configs,      \* eligibility configurations, identified with their hash
  NoHash,       \* no enum_config_hash row
  MaxChanges,   \* bound: changes a zone goes through at the provider
  MaxStarts,    \* bound: how often the process is started
  MaxDrifts,    \* bound: local files that are damaged
  Eligible,     \* Eligible[c]: the changes configuration c selects
  Faults        \* which misfortunes of AllFaults may happen

\* "db": a state write fails; "initialHash": the first hash write fails;
\* "expiry": the provider rejects old tokens; "precheck": changes/database is
\* paged, fails, or is overridden by local work; "engine": a library run does
\* not end well; "transfer": an asset is not transferred; "uncounted": the
\* clean-up pass lost sight of it and the outcome does not count it;
\* "earlyShutdown": a signal arrives while run_cycle is between two libraries.
AllFaults == {"db", "initialHash", "expiry", "drift", "exclude", "reset",
              "stale", "transfer", "engine", "precheck", "stop", "oneShot",
              "shutdown", "earlyShutdown", "uncounted"}

NoToken == -1
Cursor == NoToken..MaxChanges
Work == Zones \X (1..MaxChanges)

ASSUME ZonesAssumption == Zones # {}
ASSUME ConfigsAssumption == NoHash \notin Configs
ASSUME BoundsAssumption == /\ MaxChanges \in Nat /\ MaxStarts \in Nat
                           /\ MaxDrifts \in Nat
ASSUME EligibleAssumption == Eligible \in [Configs -> SUBSET Work]
ASSUME FaultsAssumption == Faults \subseteq AllFaults

VARIABLES
  head,       \* provider: number of changes of each zone
  horizon,    \* provider: tokens below this are rejected
  token,      \* metadata: sync_token:<zone>
  enumHash,   \* metadata: enum_config_hash
  pendHash,   \* metadata: pending_enum_config_hash
  pendToken,  \* metadata: pending_sync_token:<hash>:<zone>
  dbToken,    \* scoped_db_sync_tokens, one row per configuration
  status,     \* metadata: last_checkpoint_status
  rows,       \* assets table: the catalogue row of every change
  pc,         \* where the process is
  cfg,        \* configuration the process was started with
  watch,      \* is_watch_mode
  shutdown,   \* shutdown_token.is_cancelled()
  cycle,      \* library_states handed to run_cycle
  todo,       \* libraries run_cycle still has to visit
  stale,      \* libraries of this cycle with plan_is_stale
  hashOut,    \* EnumConfigHashOutcome of this cycle
  forcePath,  \* force_full_for_download_config_hash
  transSafe,  \* checkpoint_transition_state_safe
  dbSafe,     \* db_sync_token_advance_safe
  hold,       \* checkpoint_hold_action.is_some()
  dirty,      \* failed_count > 0 or stats.interrupted
  expired,    \* cycle_session_expired
  after,      \* db_sync_token_after_success of the pre-check
  run,        \* sync_result of the library being visited
  starts, drifts

provVars == <<head, horizon>>
metaVars == <<token, enumHash, pendHash, pendToken, dbToken, status>>
cycleVars == <<cycle, todo, stale, hashOut, forcePath, transSafe, dbSafe,
               hold, dirty, expired, after, run>>
vars == <<provVars, metaVars, rows, pc, cfg, watch, shutdown, cycleVars,
          starts, drifts>>

Statuses == {"none", "pending", "done", "excluded"}
HashOutcomes == {"Initial", "Unchanged", "Changed",
                 "ChangedTokenPurgeFailed", "ReadFailed"}
RunKinds == {"clean", "sessionExpired", "interrupted", "incomplete",
             "notDurable", "noToken"}
Runs == [zone : Zones, kind : RunKinds, tok : Cursor, full : BOOLEAN]
PCs == {"down", "loop", "hash", "path", "zones", "bridge", "decide",
        "promote", "finish", "sleep"}

NoVector == [z \in Zones |-> NoToken]
NoPending == [c \in Configs |-> NoVector]
NoRun == [zone |-> CHOOSE z \in Zones : TRUE, kind |-> "noToken",
          tok |-> NoToken, full |-> FALSE]

TypeOK ==
  /\ head \in [Zones -> 0..MaxChanges]
  /\ horizon \in [Zones -> 0..MaxChanges]
  /\ token \in [Zones -> Cursor]
  /\ enumHash \in Configs \cup {NoHash}
  /\ pendHash \in Configs \cup {NoHash}
  /\ pendToken \in [Configs -> [Zones -> Cursor]]
  /\ dbToken \in [Configs -> [Zones -> Cursor]]
  /\ status \in {"none", "current", "preserved"}
  /\ rows \in [Work -> Statuses]
  /\ pc \in PCs
  /\ cfg \in Configs
  /\ watch \in BOOLEAN /\ shutdown \in BOOLEAN
  /\ cycle \in SUBSET Zones /\ todo \in SUBSET Zones /\ stale \in SUBSET Zones
  /\ hashOut \in HashOutcomes
  /\ forcePath \in BOOLEAN /\ transSafe \in BOOLEAN /\ dbSafe \in BOOLEAN
  /\ hold \in BOOLEAN /\ dirty \in BOOLEAN /\ expired \in BOOLEAN
  /\ after \in [Zones -> Cursor]
  /\ run \in Runs
  /\ starts \in Nat /\ drifts \in Nat

IdleCycle ==
  /\ cycle' = {} /\ todo' = {} /\ stale' = {}
  /\ hashOut' = "Unchanged" /\ forcePath' = FALSE
  /\ transSafe' = TRUE /\ dbSafe' = TRUE
  /\ hold' = FALSE /\ dirty' = FALSE /\ expired' = FALSE
  /\ after' = NoVector /\ run' = NoRun

Init ==
  /\ head = [z \in Zones |-> 0] /\ horizon = [z \in Zones |-> 0]
  /\ token = NoVector /\ enumHash = NoHash /\ pendHash = NoHash
  /\ pendToken = NoPending /\ dbToken = NoPending
  /\ status = "none" /\ rows = [w \in Work |-> "none"]
  /\ pc = "down" /\ cfg \in Configs /\ watch = TRUE /\ shutdown = FALSE
  /\ cycle = {} /\ todo = {} /\ stale = {}
  /\ hashOut = "Unchanged" /\ forcePath = FALSE
  /\ transSafe = TRUE /\ dbSafe = TRUE
  /\ hold = FALSE /\ dirty = FALSE /\ expired = FALSE
  /\ after = NoVector /\ run = NoRun
  /\ starts = 0 /\ drifts = 0

-----------------------------------------------------------------------------
(* The provider and the user.                                              *)

ProviderChange(z) ==
  /\ head[z] < MaxChanges
  /\ head' = [head EXCEPT ![z] = @ + 1]
  /\ UNCHANGED <<horizon, metaVars, rows, pc, cfg, watch, shutdown, cycleVars,
                 starts, drifts>>

\* The provider stops accepting tokens that are older than its newest one.
TokenExpires(z) ==
  /\ "expiry" \in Faults
  /\ horizon[z] < head[z]
  /\ horizon' = [horizon EXCEPT ![z] = head[z]]
  /\ UNCHANGED <<head, metaVars, rows, pc, cfg, watch, shutdown, cycleVars,
                 starts, drifts>>

\* kei reconcile, in a process of its own and without a lock: the row of a
\* damaged file goes from downloaded to failed.
RunReconcile(w) ==
  /\ "drift" \in Faults
  /\ drifts < MaxDrifts
  /\ rows[w] = "done"
  /\ rows' = [rows EXCEPT ![w] = "pending"]
  /\ drifts' = drifts + 1
  /\ UNCHANGED <<provVars, metaVars, pc, cfg, watch, shutdown, cycleVars,
                 starts>>

\* kei reset sync-token, which takes no lock either: the per-zone tokens and
\* the scoped rows go, nothing else does.
RunResetSyncToken ==
  /\ "reset" \in Faults
  /\ token # NoVector
  /\ token' = NoVector
  /\ dbToken' = NoPending
  /\ UNCHANGED <<provVars, enumHash, pendHash, pendToken, status, rows, pc,
                 cfg, watch, shutdown, cycleVars, starts, drifts>>

\* kei sync; the bound on starts leaves a daemon as the last process.
RunSync(c, w) ==
  /\ pc = "down"
  /\ starts < MaxStarts
  /\ ~w => "oneShot" \in Faults /\ starts + 1 < MaxStarts
  /\ starts' = starts + 1
  /\ pc' = "loop" /\ cfg' = c /\ watch' = w /\ shutdown' = FALSE
  /\ UNCHANGED <<provVars, metaVars, rows, cycleVars, drifts>>

\* The process dies, or an error propagates out of run_sync.
Stop ==
  /\ "stop" \in Faults
  /\ pc # "down" /\ starts < MaxStarts
  /\ pc' = "down"
  /\ IdleCycle
  /\ UNCHANGED <<provVars, metaVars, rows, cfg, watch, shutdown, starts,
                 drifts>>

RequestShutdown ==
  /\ pc # "down" /\ starts < MaxStarts
  /\ IF pc \in {"hash", "path", "zones"} THEN "earlyShutdown" \in Faults
                                         ELSE "shutdown" \in Faults
  /\ ~shutdown
  /\ shutdown' = TRUE
  /\ UNCHANGED <<provVars, metaVars, rows, pc, cfg, watch, cycleVars,
                 starts, drifts>>

-----------------------------------------------------------------------------
(* The watch loop's pre-check.                                             *)

ChangedZones(since) == {z \in Zones : head[z] > since[z]}

BeginCycle(zs, vector) ==
  /\ pc' = "hash"
  /\ cycle' = zs /\ todo' = zs /\ after' = vector
  /\ \E st \in SUBSET zs :
       /\ st # {} => "stale" \in Faults
       /\ stale' = st
       /\ dbSafe' = (st = {})
  /\ UNCHANGED <<hashOut, forcePath, transSafe, hold, dirty, expired, run>>

\* Mutant: stores the token of the change after the last.
PrecheckTokenAhead == [z \in Zones |-> head[z] + 1]

PrecheckToken == head

\* Local metadata work adds zones to the ones the provider reports.
LocalWork == IF "precheck" \in Faults THEN SUBSET Zones ELSE {{}}

\* The token of a page that is not the last covers part of what happened.
PageTokens(since) ==
  {v \in [Zones -> Cursor] : \A z \in Zones : since[z] <= v[z] /\ v[z] <= head[z]}

CheckChangesDatabase ==
  /\ pc = "loop" /\ ~shutdown
  /\ \/ \* no scoped row for this configuration: bootstrap the token
        /\ watch /\ dbToken[cfg] = NoVector
        /\ BeginCycle(Zones, PrecheckToken)
        /\ UNCHANGED <<rows, drifts>>
     \/ \* the response lists every changed zone
        /\ watch /\ dbToken[cfg] # NoVector
        /\ ChangedZones(dbToken[cfg]) # {}
        /\ \E local \in LocalWork :
             BeginCycle(ChangedZones(dbToken[cfg]) \cup local, PrecheckToken)
        /\ UNCHANGED <<rows, drifts>>
     \/ \* more pages follow: every zone is synced
        /\ watch /\ dbToken[cfg] # NoVector /\ "precheck" \in Faults
        /\ \E v \in PageTokens(dbToken[cfg]) : BeginCycle(Zones, v)
        /\ UNCHANGED <<rows, drifts>>
     \/ \* request failed, row unusable, or not in watch mode
        /\ watch => "precheck" \in Faults
        /\ BeginCycle(Zones, NoVector)
        /\ UNCHANGED <<rows, drifts>>
     \/ \* the bounded drift probe found a damaged file
        /\ "drift" \in Faults /\ drifts < MaxDrifts
        /\ \E w \in Work : rows[w] = "done" /\ rows' = [rows EXCEPT ![w] = "pending"]
        /\ drifts' = drifts + 1
        /\ BeginCycle(Zones, NoVector)
     \/ \* nothing changed, but local metadata work is waiting
        /\ watch /\ dbToken[cfg] # NoVector
        /\ ChangedZones(dbToken[cfg]) = {}
        /\ \E local \in LocalWork \ {{}} : BeginCycle(local, NoVector)
        /\ UNCHANGED <<rows, drifts>>
     \/ \* nothing changed: SkipAll
        /\ watch /\ dbToken[cfg] # NoVector
        /\ ChangedZones(dbToken[cfg]) = {}
        /\ pc' = "sleep"
        /\ UNCHANGED <<cycleVars, rows, drifts>>
  /\ UNCHANGED <<provVars, metaVars, cfg, watch, shutdown, starts>>

-----------------------------------------------------------------------------
(* The two configuration hashes.                                           *)

\* Mutant: a changed hash does not count as drift.
MustForceFullIgnoringDrift == hashOut \in {"ChangedTokenPurgeFailed", "ReadFailed"}

MustForceFull == hashOut \in {"Changed", "ChangedTokenPurgeFailed",
                              "ReadFailed"}

DbMayFail == "db" \in Faults

CheckAndPersistEnumConfigHash ==
  /\ pc = "hash"
  /\ \/ /\ enumHash = cfg
        /\ hashOut' = "Unchanged"
        /\ \/ pendHash' = NoHash
           \/ DbMayFail /\ UNCHANGED pendHash
        /\ \/ pendToken' = NoPending
           \/ DbMayFail /\ UNCHANGED pendToken
        /\ UNCHANGED enumHash
     \/ /\ enumHash = NoHash
        /\ hashOut' = "Initial"
        /\ \/ enumHash' = cfg
           \/ "initialHash" \in Faults /\ UNCHANGED enumHash
        /\ UNCHANGED <<pendHash, pendToken>>
     \/ /\ enumHash \notin {NoHash, cfg}
        /\ pendToken' = IF pendHash = cfg THEN pendToken ELSE NoPending
        /\ \/ pendHash' = cfg /\ hashOut' = "Changed"
           \/ DbMayFail /\ hashOut' = "ChangedTokenPurgeFailed" /\ UNCHANGED pendHash
        /\ UNCHANGED enumHash
     \/ \* reading failed, or the superseded candidates could not be purged
        /\ DbMayFail
        /\ hashOut' \in {"ReadFailed"} \cup
             IF enumHash \notin {NoHash, cfg} /\ pendHash # cfg
             THEN {"ChangedTokenPurgeFailed"} ELSE {}
        /\ UNCHANGED <<enumHash, pendHash, pendToken>>
  /\ transSafe' = (hashOut' \notin {"ChangedTokenPurgeFailed", "ReadFailed"})
  /\ dbSafe' = (dbSafe /\ transSafe')
  /\ pc' = "path"
  /\ UNCHANGED <<provVars, token, dbToken, status, rows, cfg, watch, shutdown, cycle,
                 todo, stale, forcePath, hold, dirty, expired, after, run, starts, drifts>>

\* Only its effect on this module's state: the path hash itself and the
\* catalogue paths it guards are not modelled here.
CheckDownloadConfigHash ==
  /\ pc = "path"
  /\ \/ forcePath' = FALSE /\ UNCHANGED <<transSafe, dbSafe>>
     \/ DbMayFail /\ forcePath' = TRUE /\ UNCHANGED <<transSafe, dbSafe>>
     \/ DbMayFail /\ forcePath' = TRUE /\ transSafe' = FALSE /\ dbSafe' = FALSE
  /\ pc' = "zones"
  /\ UNCHANGED <<provVars, metaVars, rows, cfg, watch, shutdown, cycle, todo, stale,
                 hashOut, hold, dirty, expired, after, run, starts,
                 drifts>>

-----------------------------------------------------------------------------
(* The download engine, seen from run_cycle.                               *)

\* What a run that starts after change lo enumerates and selects.
Selected(z, lo) == {w \in Eligible[cfg] : w[1] = z /\ lo < w[2] /\ w[2] <= head[z]}

\* The catalogue after a run of zone z that enumerated seen: unfinished
\* eligible rows were tried again, late is what was not transferred, and the
\* targeted recovery took ineligible rows out of the queue if excl.
LandRows(z, seen, late, excl) ==
  [w \in Work |->
     IF w[1] # z \/ rows[w] = "done" THEN rows[w]
     ELSE IF w \in seen \/ (rows[w] = "pending" /\ w \in Eligible[cfg])
          THEN IF w \in late THEN "pending" ELSE "done"
     ELSE IF rows[w] = "pending" /\ excl THEN "excluded"
     ELSE rows[w]]

\* A run from token "from" (NoToken: full enumeration).  A rejected token and
\* an unsafe routing fall back to a full enumeration; a run that ended well,
\* or only lacks its token, has catalogued everything it enumerated.  A row
\* left over counts as a failure of the cycle, unless the clean-up pass could
\* not refresh its task.
Engine(z, from, r, late) ==
  /\ r.zone = z
  /\ from < horizon[z] => r.full
  /\ r.tok = IF r.kind = "noToken" THEN NoToken ELSE head[z]
  /\ late # {} => "transfer" \in Faults
  /\ r.kind # "clean" => "engine" \in Faults
  /\ \E seen \in SUBSET Selected(z, IF r.full THEN 0 ELSE from), excl \in BOOLEAN :
       /\ r.kind \in {"clean", "noToken"} => seen = Selected(z, IF r.full THEN 0 ELSE from)
       /\ excl => "exclude" \in Faults
       /\ rows' = LandRows(z, seen, late, excl)
  /\ \E counted \in BOOLEAN :
       /\ ~counted => "uncounted" \in Faults
       /\ dirty' = (\/ dirty
                    \/ r.kind \in {"interrupted", "incomplete", "notDurable"}
                    \/ counted /\ \E w \in Eligible[cfg] : w[1] = z /\ rows'[w] = "pending")

\* Mutant: an incomplete enumeration is no reason to keep the checkpoint.
MayAdvanceIncomplete(r) ==
  r.zone \notin stale /\ r.kind \in {"clean", "incomplete"} /\ r.tok # NoToken

\* source_checkpoint_decision: the reasons to keep the old checkpoint.
MayAdvance(r) ==
  /\ r.zone \notin stale
  /\ r.kind = "clean"
  /\ r.tok # NoToken

\* The mode chosen for a library: the token to continue from, or NoToken.
SyncMode(z) ==
  IF hashOut = "Changed" /\ pendToken[cfg][z] # NoToken THEN pendToken[cfg][z]
  ELSE IF MustForceFull \/ forcePath THEN NoToken
  ELSE token[z]

VisitLibrary(z, r, late) ==
  /\ pc = "zones" /\ ~shutdown
  /\ z \in todo
  /\ \E from \in {SyncMode(z), NoToken} : Engine(z, from, r, late)
  /\ run' = r
  /\ pc' = IF /\ hashOut = "Changed" /\ r.full /\ transSafe
              /\ token[z] # NoToken /\ MayAdvance(r)
           THEN "bridge" ELSE "decide"
  /\ UNCHANGED <<provVars, metaVars, cfg, watch, shutdown, cycle, todo, stale,
                 hashOut, forcePath, transSafe, dbSafe, hold, expired, after,
                 starts, drifts>>

\* sync_token_blocked: the run stands, its token does not count.
Blocked(r) == [zone |-> r.zone, kind |-> "noToken", tok |-> NoToken, full |-> r.full]

\* Mutant: asks whether the inventory was full, not whether the replay was.
BridgedRunOfInventory(r) ==
  IF r.kind = "clean" /\ run.full THEN Blocked(r)
  ELSE r

\* A replay that fell back to a full enumeration proves nothing.
BridgedRun(r) ==
  IF r.kind = "clean" /\ r.full THEN Blocked(r)
  ELSE r

\* Replay the preserved token after the inventory; only its token counts.
BridgeDelta(r, late) ==
  /\ pc = "bridge"
  /\ Engine(run.zone, token[run.zone], r, late)
  /\ run' = BridgedRun(r)
  /\ pc' = "decide"
  /\ UNCHANGED <<provVars, metaVars, cfg, watch, shutdown, cycle, todo, stale,
                 hashOut, forcePath, transSafe, dbSafe, hold, expired, after,
                 starts, drifts>>

-----------------------------------------------------------------------------
(* The checkpoint decision, and the end of the cycle.                      *)

\* Mutant: forgets the libraries that were held back before this one.
AdvancedStatusOfLast == "current"

AdvancedStatus == IF hold THEN "preserved" ELSE "current"

\* A zone of a cycle that reconciles a changed configuration only stages its
\* token; any other zone replaces its checkpoint in one transaction.
AdvanceCheckpoint ==
  LET z == run.zone IN
  /\ transSafe /\ ~shutdown /\ MayAdvance(run)
  /\ \/ /\ MustForceFull
        /\ pendToken' = [pendToken EXCEPT ![cfg][z] = run.tok]
        /\ UNCHANGED <<token, status, hold, dbSafe>>
     \/ /\ ~MustForceFull
        /\ token' = [token EXCEPT ![z] = run.tok]
        /\ status' = AdvancedStatus
        /\ UNCHANGED <<pendToken, hold, dbSafe>>
     \/ /\ DbMayFail
        /\ hold' = TRUE /\ dbSafe' = FALSE
        /\ UNCHANGED <<token, pendToken, status>>

PreserveCheckpoint ==
  /\ ~(transSafe /\ ~shutdown /\ MayAdvance(run))
  /\ hold' = TRUE /\ dbSafe' = FALSE
  /\ \/ status' = "preserved"
     \/ DbMayFail /\ UNCHANGED status
  /\ UNCHANGED <<token, pendToken>>

DecideCheckpoint ==
  /\ pc = "decide"
  /\ AdvanceCheckpoint \/ PreserveCheckpoint
  /\ expired' = (run.kind = "sessionExpired")
  /\ todo' = IF expired' THEN {} ELSE todo \ {run.zone}
  /\ run' = NoRun
  /\ pc' = "zones"
  /\ UNCHANGED <<provVars, enumHash, pendHash, dbToken, rows, cfg, watch, shutdown,
                 cycle, stale, hashOut, forcePath, transSafe, dirty, after, starts, drifts>>

LeaveLibraries ==
  /\ pc = "zones"
  /\ todo = {} \/ shutdown
  /\ todo' = {}
  /\ pc' = "promote"
  /\ UNCHANGED <<provVars, metaVars, rows, cfg, watch, shutdown, cycle, stale,
                 hashOut, forcePath, transSafe, dbSafe, hold, dirty, expired,
                 after, run, starts, drifts>>

\* Mutant: promotes although a library of the cycle was held back.
CanPromoteUnsafe == MustForceFull /\ ~expired /\ ~shutdown

\* All staged tokens and the new hash become active in one transaction.
CanPromote == MustForceFull /\ dbSafe /\ ~expired /\ ~shutdown

PromoteReconciliation ==
  /\ pc = "promote"
  /\ \/ /\ ~CanPromote
        /\ UNCHANGED <<token, enumHash, pendHash, pendToken, status, dbSafe>>
     \/ /\ CanPromote
        /\ \A z \in cycle : pendToken[cfg][z] # NoToken
        /\ token' = [z \in Zones |-> IF z \in cycle THEN pendToken[cfg][z] ELSE token[z]]
        /\ pendToken' = [pendToken EXCEPT ![cfg] =
             [z \in Zones |-> IF z \in cycle THEN NoToken ELSE pendToken[cfg][z]]]
        /\ enumHash' = cfg /\ pendHash' = NoHash /\ status' = "current"
        /\ UNCHANGED dbSafe
     \/ /\ CanPromote /\ DbMayFail
        /\ dbSafe' = FALSE
        /\ UNCHANGED <<token, enumHash, pendHash, pendToken, status>>
  /\ pc' = "finish"
  /\ UNCHANGED <<provVars, dbToken, rows, cfg, watch, shutdown, cycle, todo, stale,
                 hashOut, forcePath, transSafe, hold, dirty, expired, after,
                 run, starts, drifts>>

\* Mutants: the scoped token does not wait for every checkpoint, or for
\* every transfer.
MayStoreDbTokenHeld == after # NoVector /\ ~expired /\ ~dirty
MayStoreDbTokenDirty == after # NoVector /\ ~expired /\ dbSafe

MayStoreDbToken == after # NoVector /\ ~expired /\ ~dirty /\ dbSafe

FinishCycle ==
  /\ pc = "finish"
  /\ \/ /\ MayStoreDbToken
        /\ dbToken' = [dbToken EXCEPT ![cfg] = after]
     \/ /\ ~MayStoreDbToken \/ DbMayFail
        /\ UNCHANGED dbToken
  /\ pc' = IF expired THEN "loop" ELSE "sleep"
  /\ IdleCycle
  /\ UNCHANGED <<provVars, token, enumHash, pendHash, pendToken, status, rows,
                 cfg, watch, shutdown, starts, drifts>>

\* Sleep until the next watch tick, or leave the loop.
WatchSleep ==
  /\ \/ pc = "sleep" /\ pc' = IF shutdown \/ ~watch THEN "down" ELSE "loop"
     \/ pc = "loop" /\ shutdown /\ pc' = "down"
  /\ UNCHANGED <<provVars, metaVars, rows, cfg, watch, shutdown, cycleVars,
                 starts, drifts>>

-----------------------------------------------------------------------------
RunsOf(z) == {r \in Runs : r.zone = z /\ r.tok \in {NoToken, head[z]}}
LateSets(z) == SUBSET {w \in Work : w[1] = z /\ w[2] <= head[z]}

Environment ==
  \/ \E z \in Zones : ProviderChange(z) \/ TokenExpires(z)
  \/ \E w \in Work : RunReconcile(w)
  \/ RunResetSyncToken
  \/ \E c \in Configs, w \in BOOLEAN : RunSync(c, w)
  \/ Stop
  \/ RequestShutdown

Process ==
  \/ CheckChangesDatabase
  \/ CheckAndPersistEnumConfigHash
  \/ CheckDownloadConfigHash
  \/ \E z \in Zones : \E r \in RunsOf(z), late \in LateSets(z) :
        VisitLibrary(z, r, late)
  \/ \E r \in RunsOf(run.zone), late \in LateSets(run.zone) :
        BridgeDelta(r, late)
  \/ DecideCheckpoint
  \/ LeaveLibraries
  \/ PromoteReconciliation
  \/ FinishCycle
  \/ WatchSleep

Next == Environment \/ Process

Spec == Init /\ [][Next]_vars

\* The process keeps running; a library, a bridge and a plan refresh that are
\* tried again and again succeed once.
CleanVisit(z) ==
  \E r \in RunsOf(z) : r.kind = "clean" /\ VisitLibrary(z, r, {})
CleanBridge(z) ==
  \E r \in RunsOf(z) : /\ run.zone = z /\ r.kind = "clean" /\ ~r.full
                       /\ BridgeDelta(r, {})
FreshCycle == CheckChangesDatabase /\ stale' = {}

Fairness ==
  /\ WF_vars(Process)
  /\ WF_vars(\E c \in Configs, w \in BOOLEAN : RunSync(c, w))
  /\ SF_vars(FreshCycle)
  /\ \A z \in Zones : SF_vars(CleanVisit(z)) /\ SF_vars(CleanBridge(z))

FairSpec == Spec /\ Fairness

-----------------------------------------------------------------------------
(* Properties.                                                             *)

\* Every change of zone z up to t that configuration c selects has a row in
\* the catalogue.
HasRows(catalog, c, z, t) ==
  \A i \in 1..MaxChanges :
    i <= t /\ <<z, i>> \in Eligible[c] => catalog[<<z, i>>] # "none"
CatalogCovers(c, z, t) == HasRows(rows, c, z, t)

\* A zone token never claims more than the catalogue holds: everything the
\* active configuration selects up to the stored sync_token has a durable row,
\* so an incremental run from it (determine_sync_mode_decision) misses nothing.
NoLostWork ==
  enumHash # NoHash => \A z \in Zones : CatalogCovers(enumHash, z, token[z])

\* The same of the candidates that a reconciliation resumes from
\* (pending_zone_token_key), whatever configuration staged them.
PendingSound ==
  \A c \in Configs, z \in Zones : CatalogCovers(c, z, pendToken[c][z])

\* The scoped changes/database token, which lets the watch loop skip zones,
\* covers only changes that its configuration has catalogued.
DbTokenSound ==
  \A c \in Configs, z \in Zones : CatalogCovers(c, z, dbToken[c][z])

\* Without local damage and policy exclusion a change that the pre-check may
\* skip is not only catalogued but downloaded: check_changes_database does not
\* look at failed rows, so nobody would come back to it.
SkippedIsDone ==
  \A c \in Configs : \A w \in Eligible[c] :
     w[2] <= dbToken[c][w[1]] => rows[w] = "done"

\* Only kei reset sync-token takes a zone token back: neither an incremental
\* advance nor the promotion of staged candidates replaces a newer token.
TokensNeverRegress ==
  [][\A z \in Zones : token'[z] >= token[z] \/ token' = NoVector]_token

\* A cycle that held back a checkpoint ends with last_checkpoint_status
\* "preserved", also when a later library advanced.
HoldIsReported ==
  pc = "finish" /\ hold => status = "preserved"

-----------------------------------------------------------------------------
(* The inductive invariant behind NoLostWork and DbTokenSound.             *)

InCycle == pc \in {"hash", "path", "zones", "bridge", "decide", "promote", "finish"}
AfterHash == InCycle /\ pc # "hash"
EngineRan == pc \in {"bridge", "decide"} /\ run.kind = "clean"

\* No token is ahead of the provider.
Bounded ==
  \A z \in Zones : /\ token[z] <= head[z] /\ after[z] <= head[z]
                  /\ \A c \in Configs : pendToken[c][z] <= head[z] /\ dbToken[c][z] <= head[z]

\* Tokens are only active under a hash, and a cycle that does not reconcile
\* runs under the active one.
HashGuards ==
  /\ enumHash = NoHash => token = NoVector
  /\ AfterHash /\ ~MustForceFull => enumHash = cfg

\* The zones left out of a cycle are covered for its configuration too.
LeftOutCovered ==
  InCycle => \A z \in Zones \ cycle :
    CatalogCovers(cfg, z, token[z]) /\ CatalogCovers(cfg, z, after[z])

\* The run whose token may be stored covers that token, the one it replaces
\* and the pre-check's.
RunCovered ==
  /\ EngineRan => /\ CatalogCovers(cfg, run.zone, run.tok)
                  /\ run.tok <= head[run.zone]
                  /\ token[run.zone] <= run.tok
                  /\ after[run.zone] <= run.tok
  /\ pc = "bridge" => run.kind = "clean"

\* While the cycle is safe for the scoped token, the zones it is done with
\* are covered up to that token, and their candidates are not older than the
\* tokens they will replace.
VisitedCovered ==
  InCycle /\ dbSafe => \A z \in cycle \ todo :
    /\ CatalogCovers(cfg, z, after[z])
    /\ AfterHash /\ MustForceFull /\ pc # "finish" => token[z] <= pendToken[cfg][z]

CycleShape ==
  /\ pc \in {"promote", "finish"} => todo = {}
  /\ pc \in {"hash", "path"} => todo = cycle /\ ~shutdown
  /\ pc = "zones" /\ shutdown => ~dbSafe \/ todo = {}

IInv ==
  /\ TypeOK /\ NoLostWork /\ PendingSound /\ DbTokenSound
  /\ Bounded /\ HashGuards /\ LeftOutCovered /\ RunCovered
  /\ VisitedCovered /\ CycleShape

-----------------------------------------------------------------------------
(* Liveness.                                                               *)

LastDaemon == starts = MaxStarts /\ pc # "down"

\* Every change that the running configuration selects is downloaded in the end.
EventuallyMirrored ==
  \A w \in Work :
    (LastDaemon /\ w \in Eligible[cfg] /\ w[2] <= head[w[1]]) ~> rows[w] = "done"

\* A staged configuration is promoted in the end.
ReconciliationCompletes ==
  (LastDaemon /\ pendHash = cfg /\ enumHash # cfg) ~> enumHash = cfg
=============================================================================
