-------------------------- MODULE CheckpointProofs --------------------------
(***************************************************************************)
(* Proofs about Checkpoint, for any number of zones, configurations,       *)
(* changes and starts.                                                     *)
(***************************************************************************)
EXTENDS Checkpoint, TLAPS

USE DEF NoToken, Cursor

LEMMA NoRunType == NoRun \in Runs
  BY ZonesAssumption, BoundsAssumption DEF NoRun, Runs, RunKinds

LEMMA NoVectorType == NoVector \in [Zones -> Cursor] /\ NoPending \in [Configs -> [Zones -> Cursor]]
  BY BoundsAssumption DEF NoVector, NoPending

LEMMA LandRowsType ==
  ASSUME TypeOK, NEW z \in Zones, NEW seen, NEW late, NEW excl
  PROVE  LandRows(z, seen, late, excl) \in [Work -> Statuses]
  BY DEF TypeOK, LandRows, Statuses

LEMMA InitType == Init => TypeOK
<1> SUFFICES ASSUME Init PROVE TypeOK
  OBVIOUS
<1>1. /\ head \in [Zones -> 0..MaxChanges] /\ horizon \in [Zones -> 0..MaxChanges]
      /\ rows \in [Work -> Statuses]
  BY BoundsAssumption DEF Init, Statuses
<1>2. /\ token \in [Zones -> Cursor] /\ after \in [Zones -> Cursor]
      /\ pendToken \in [Configs -> [Zones -> Cursor]]
      /\ dbToken \in [Configs -> [Zones -> Cursor]] /\ run \in Runs
  BY NoVectorType, NoRunType DEF Init
<1> QED
  BY <1>1, <1>2 DEF Init, TypeOK, PCs, HashOutcomes

LEMMA EnvironmentType == TypeOK /\ Environment => TypeOK'
<1> SUFFICES ASSUME TypeOK, Environment PROVE TypeOK'
  OBVIOUS
<1>1. ASSUME NEW z \in Zones, ProviderChange(z) PROVE TypeOK'
  BY <1>1, BoundsAssumption DEF TypeOK, ProviderChange, metaVars, cycleVars
<1>2. ASSUME NEW z \in Zones, TokenExpires(z) PROVE TypeOK'
  BY <1>2 DEF TypeOK, TokenExpires, metaVars, cycleVars
<1>3. ASSUME NEW w \in Work, RunReconcile(w) PROVE TypeOK'
  BY <1>3 DEF TypeOK, RunReconcile, metaVars, cycleVars, provVars, Statuses
<1>4. CASE RunResetSyncToken
  <2>1. token' \in [Zones -> Cursor] /\ dbToken' \in [Configs -> [Zones -> Cursor]]
    BY <1>4, NoVectorType DEF RunResetSyncToken
  <2> QED
    BY <1>4, <2>1 DEF TypeOK, RunResetSyncToken, cycleVars, provVars
<1>5. ASSUME NEW c \in Configs, NEW w \in BOOLEAN, RunSync(c, w) PROVE TypeOK'
  <2>1. /\ watch' \in BOOLEAN /\ pc' \in PCs /\ cfg' \in Configs
        /\ shutdown' \in BOOLEAN /\ starts' = starts + 1
        /\ UNCHANGED <<provVars, metaVars, rows, cycleVars, drifts>>
    BY <1>5, Zenon DEF RunSync, PCs
  <2> QED
    BY <2>1 DEF TypeOK, metaVars, cycleVars, provVars
<1>6. CASE Stop
  BY <1>6, NoRunType, NoVectorType DEF TypeOK, Stop, IdleCycle, metaVars, provVars, PCs, HashOutcomes
<1>7. CASE RequestShutdown
  BY <1>7 DEF TypeOK, RequestShutdown, metaVars, cycleVars, provVars
<1> QED
  BY <1>1, <1>2, <1>3, <1>4, <1>5, <1>6, <1>7 DEF Environment

LEMMA EngineType ==
  ASSUME TypeOK, NEW z \in Zones, NEW from, NEW r \in Runs, NEW late,
         Engine(z, from, r, late)
  PROVE  rows' \in [Work -> Statuses] /\ dirty' \in BOOLEAN
<1>1. rows' \in [Work -> Statuses]
  BY LandRowsType DEF Engine
<1>2. dirty' \in BOOLEAN
  BY DEF Engine
<1> QED
  BY <1>1, <1>2

LEMMA BeginCycleType ==
  ASSUME TypeOK, NEW zs \in SUBSET Zones, NEW v \in [Zones -> Cursor], BeginCycle(zs, v)
  PROVE  /\ pc' \in PCs /\ cycle' \in SUBSET Zones /\ todo' \in SUBSET Zones
         /\ stale' \in SUBSET Zones /\ after' \in [Zones -> Cursor]
         /\ dbSafe' \in BOOLEAN
         /\ UNCHANGED <<hashOut, forcePath, transSafe, hold, dirty, expired, run>>
  BY DEF BeginCycle, PCs

LEMMA PrecheckType == TypeOK /\ CheckChangesDatabase => TypeOK'
<1> SUFFICES ASSUME TypeOK, CheckChangesDatabase PROVE TypeOK'
  OBVIOUS
<1> DEFINE Began == \E zs \in SUBSET Zones, v \in [Zones -> Cursor] : BeginCycle(zs, v)
<1>1. /\ head \in [Zones -> Cursor] /\ NoVector \in [Zones -> Cursor]
  BY NoVectorType, BoundsAssumption DEF TypeOK
<1>2. rows' \in [Work -> Statuses] /\ drifts' \in Nat
  BY DEF CheckChangesDatabase, TypeOK, Statuses
<1>3. Began \/ (pc' = "sleep" /\ UNCHANGED cycleVars)
  BY <1>1 DEF CheckChangesDatabase, PrecheckToken, PageTokens, LocalWork, ChangedZones
<1>4. UNCHANGED <<provVars, metaVars, cfg, watch, shutdown, starts>>
  BY DEF CheckChangesDatabase
<1>5. CASE Began
  <2> PICK zs \in SUBSET Zones, v \in [Zones -> Cursor] : BeginCycle(zs, v)
    BY <1>5
  <2>1. /\ pc' \in PCs /\ cycle' \in SUBSET Zones /\ todo' \in SUBSET Zones
        /\ stale' \in SUBSET Zones /\ after' \in [Zones -> Cursor]
        /\ dbSafe' \in BOOLEAN
        /\ UNCHANGED <<hashOut, forcePath, transSafe, hold, dirty, expired, run>>
    BY BeginCycleType
  <2> QED
    BY <1>2, <1>4, <2>1 DEF TypeOK, provVars, metaVars
<1>6. CASE pc' = "sleep" /\ UNCHANGED cycleVars
  BY <1>2, <1>4, <1>6 DEF TypeOK, provVars, metaVars, cycleVars, PCs
<1> QED
  BY <1>3, <1>5, <1>6

LEMMA HashesType ==
  TypeOK /\ (CheckAndPersistEnumConfigHash \/ CheckDownloadConfigHash) => TypeOK'
<1> SUFFICES ASSUME TypeOK, CheckAndPersistEnumConfigHash \/ CheckDownloadConfigHash PROVE TypeOK'
  OBVIOUS
<1>1. CASE CheckAndPersistEnumConfigHash
  <2>1. /\ enumHash' \in Configs \cup {NoHash} /\ pendHash' \in Configs \cup {NoHash}
        /\ pendToken' \in [Configs -> [Zones -> Cursor]]
    BY <1>1, NoVectorType DEF CheckAndPersistEnumConfigHash, TypeOK
  <2>2. hashOut' \in HashOutcomes
    BY <1>1 DEF CheckAndPersistEnumConfigHash, HashOutcomes
  <2>3. transSafe' \in BOOLEAN /\ dbSafe' \in BOOLEAN /\ pc' \in PCs
    BY <1>1 DEF CheckAndPersistEnumConfigHash, PCs
  <2> QED
    BY <1>1, <2>1, <2>2, <2>3 DEF CheckAndPersistEnumConfigHash, TypeOK, provVars
<1>2. CASE CheckDownloadConfigHash
  <2>1. /\ forcePath' \in BOOLEAN /\ transSafe' \in BOOLEAN /\ dbSafe' \in BOOLEAN
        /\ pc' \in PCs
    BY <1>2, Zenon DEF CheckDownloadConfigHash, TypeOK, PCs
  <2> QED
    BY <1>2, <2>1 DEF CheckDownloadConfigHash, TypeOK, provVars, metaVars
<1> QED
  BY <1>1, <1>2

LEMMA LibraryType ==
  ASSUME TypeOK, NEW z \in Zones, NEW r \in RunsOf(z), NEW late,
         VisitLibrary(z, r, late) \/ (run.zone = z /\ BridgeDelta(r, late))
  PROVE  TypeOK'
<1>0. r \in Runs
  BY DEF RunsOf
<1>1. rows' \in [Work -> Statuses] /\ dirty' \in BOOLEAN
  <2>1. \E from : Engine(z, from, r, late)
    BY DEF VisitLibrary, BridgeDelta
  <2> QED
    BY <1>0, <2>1, EngineType
<1>2. run' \in Runs /\ pc' \in PCs
  <2>1. Blocked(r) \in Runs
    BY <1>0, BoundsAssumption DEF Blocked, Runs, RunKinds
  <2>2. run' \in Runs
    BY <1>0, <2>1 DEF VisitLibrary, BridgeDelta, BridgedRun
  <2>3. pc' \in PCs
    BY DEF VisitLibrary, BridgeDelta, PCs
  <2> QED
    BY <2>2, <2>3
<1>3. UNCHANGED <<provVars, metaVars, cfg, watch, shutdown, cycle, todo, stale,
                  hashOut, forcePath, transSafe, dbSafe, hold, expired, after,
                  starts, drifts>>
  BY DEF VisitLibrary, BridgeDelta
<1> QED
  BY <1>1, <1>2, <1>3 DEF TypeOK, provVars, metaVars

LEMMA DecideType == TypeOK /\ DecideCheckpoint => TypeOK'
<1> SUFFICES ASSUME TypeOK, DecideCheckpoint PROVE TypeOK'
  OBVIOUS
<1>1. run.zone \in Zones /\ run.tok \in Cursor
  BY DEF TypeOK, Runs
<1>2. /\ token' \in [Zones -> Cursor] /\ pendToken' \in [Configs -> [Zones -> Cursor]]
      /\ status' \in {"none", "current", "preserved"}
  <2>0. /\ token \in [Zones -> Cursor] /\ pendToken \in [Configs -> [Zones -> Cursor]]
        /\ cfg \in Configs /\ status \in {"none", "current", "preserved"}
    BY DEF TypeOK
  <2>1. \/ UNCHANGED token
        \/ token' = [token EXCEPT ![run.zone] = run.tok]
    BY Zenon DEF DecideCheckpoint, AdvanceCheckpoint, PreserveCheckpoint
  <2>2. \/ UNCHANGED pendToken
        \/ pendToken' = [pendToken EXCEPT ![cfg][run.zone] = run.tok]
    BY Zenon DEF DecideCheckpoint, AdvanceCheckpoint, PreserveCheckpoint
  <2>3. UNCHANGED status \/ status' \in {"preserved", "current"}
    BY Zenon DEF DecideCheckpoint, AdvanceCheckpoint, PreserveCheckpoint, AdvancedStatus
  <2> QED
    BY <1>1, <2>0, <2>1, <2>2, <2>3
<1>3. hold' \in BOOLEAN /\ dbSafe' \in BOOLEAN
  BY Zenon DEF DecideCheckpoint, AdvanceCheckpoint, PreserveCheckpoint, TypeOK
<1>4. expired' \in BOOLEAN /\ todo' \in SUBSET Zones /\ run' \in Runs /\ pc' \in PCs
  BY NoRunType DEF DecideCheckpoint, TypeOK, PCs
<1> QED
  BY <1>2, <1>3, <1>4 DEF DecideCheckpoint, TypeOK, provVars

LEMMA EndOfCycleType ==
  TypeOK /\ (LeaveLibraries \/ PromoteReconciliation \/ FinishCycle \/ WatchSleep) => TypeOK'
<1> SUFFICES ASSUME TypeOK,
                    LeaveLibraries \/ PromoteReconciliation \/ FinishCycle \/ WatchSleep
             PROVE  TypeOK'
  OBVIOUS
<1>1. CASE LeaveLibraries
  BY <1>1 DEF LeaveLibraries, TypeOK, PCs, provVars, metaVars
<1>2. CASE PromoteReconciliation
  <2> DEFINE staged == [z \in Zones |-> IF z \in cycle THEN pendToken[cfg][z] ELSE token[z]]
             kept == [z \in Zones |-> IF z \in cycle THEN NoToken ELSE pendToken[cfg][z]]
  <2>0. staged \in [Zones -> Cursor] /\ kept \in [Zones -> Cursor]
    BY BoundsAssumption DEF TypeOK
  <2>1. /\ token' \in [Zones -> Cursor] /\ pendToken' \in [Configs -> [Zones -> Cursor]]
        /\ enumHash' \in Configs \cup {NoHash} /\ pendHash' \in Configs \cup {NoHash}
        /\ status' \in {"none", "current", "preserved"} /\ pc' \in PCs
    <3>1. token' = token \/ token' = staged
      BY <1>2 DEF PromoteReconciliation
    <3>2. pendToken' = pendToken \/ pendToken' = [pendToken EXCEPT ![cfg] = kept]
      BY <1>2 DEF PromoteReconciliation
    <3>3. /\ enumHash' \in {enumHash, cfg} /\ pendHash' \in {pendHash, NoHash}
          /\ status' \in {status, "current"} /\ pc' = "finish"
      BY <1>2 DEF PromoteReconciliation
    <3> HIDE DEF staged, kept
    <3> QED
      BY <2>0, <3>1, <3>2, <3>3 DEF TypeOK, PCs
  <2>2. dbSafe' \in BOOLEAN
    BY <1>2, Zenon DEF PromoteReconciliation, TypeOK
  <2> QED
    BY <1>2, <2>1, <2>2 DEF PromoteReconciliation, TypeOK, provVars
<1>3. CASE FinishCycle
  <2>1. dbToken' \in [Configs -> [Zones -> Cursor]] /\ pc' \in PCs
    BY <1>3 DEF FinishCycle, TypeOK, PCs
  <2>2. after' \in [Zones -> Cursor] /\ run' \in Runs
    BY <1>3, NoVectorType, NoRunType DEF FinishCycle, IdleCycle
  <2> QED
    BY <1>3, <2>1, <2>2 DEF FinishCycle, IdleCycle, TypeOK, HashOutcomes, provVars
<1>4. CASE WatchSleep
  BY <1>4 DEF WatchSleep, TypeOK, PCs, provVars, metaVars, cycleVars
<1> QED
  BY <1>1, <1>2, <1>3, <1>4

LEMMA StepType == TypeOK /\ [Next]_vars => TypeOK'
<1> SUFFICES ASSUME TypeOK, [Next]_vars PROVE TypeOK'
  OBVIOUS
<1>1. CASE Process
  <2>1. run.zone \in Zones
    BY DEF TypeOK, Runs
  <2> QED
    BY <1>1, <2>1, PrecheckType, HashesType, LibraryType, DecideType, EndOfCycleType DEF Process
<1>2. CASE UNCHANGED vars
  BY <1>2 DEF vars, TypeOK, provVars, metaVars, cycleVars
<1> QED
  BY <1>1, <1>2, EnvironmentType DEF Next

\* Every variable keeps its type, whatever fails and however often.
THEOREM TypeCorrect == Spec => []TypeOK
  BY InitType, StepType, PTL DEF Spec

-----------------------------------------------------------------------------
(* The inductive invariant.                                                *)

\* The hypotheses of the theorems: the first enum_config_hash write does not
\* fail, and no signal arrives between two libraries of a cycle.
Undisturbed == "initialHash" \notin Faults /\ "earlyShutdown" \notin Faults

Grow == \A w \in Work : rows[w] # "none" => rows'[w] # "none"
HeadGrows == \A z \in Zones : head[z] <= head'[z]

Persisted ==
  NoLostWork /\ PendingSound /\ DbTokenSound /\ Bounded /\ HashGuards
OfCycle == LeftOutCovered /\ RunCovered /\ VisitedCovered /\ CycleShape

LEMMA IInvSplit == IInv <=> TypeOK /\ Persisted /\ OfCycle
  BY DEF IInv, Persisted, OfCycle

LEMMA CoversNone ==
  ASSUME NEW R, NEW c, NEW z, NEW t, t = NoToken
  PROVE  HasRows(R, c, z, t)
  BY BoundsAssumption DEF HasRows

LEMMA CoversLess ==
  ASSUME NEW R, NEW c, NEW z, NEW t \in Int, NEW u \in Int, u <= t, HasRows(R, c, z, t)
  PROVE  HasRows(R, c, z, u)
  BY BoundsAssumption DEF HasRows

LEMMA CoversGrow ==
  ASSUME Grow, NEW c, NEW z \in Zones, NEW t, HasRows(rows, c, z, t)
  PROVE  HasRows(rows', c, z, t)
  BY DEF HasRows, Grow, Work

\* A run only adds rows.
LEMMA EngineGrows ==
  ASSUME TypeOK, NEW z \in Zones, NEW from, NEW r \in Runs, NEW late, Engine(z, from, r, late)
  PROVE  Grow
<1> PICK seen, excl : rows' = LandRows(z, seen, late, excl)
  BY DEF Engine
<1> QED
  BY DEF Grow, LandRows, TypeOK, Statuses

\* A clean run that starts where the catalogue is complete leaves it complete
\* up to the provider's newest change.
LEMMA EngineCovers ==
  ASSUME TypeOK, NEW z \in Zones, NEW from \in Cursor, NEW r \in Runs, NEW late,
         Engine(z, from, r, late), HasRows(rows, cfg, z, from), r.kind = "clean"
  PROVE  r.tok = head[z] /\ HasRows(rows', cfg, z, head[z])
<1> PICK seen, excl :
      seen = Selected(z, IF r.full THEN 0 ELSE from) /\ rows' = LandRows(z, seen, late, excl)
  BY DEF Engine
<1>1. Grow
  BY EngineGrows
<1>2. r.tok = head[z]
  BY DEF Engine
<1>3. ASSUME NEW i \in 1..MaxChanges, i <= head[z], <<z, i>> \in Eligible[cfg]
      PROVE  rows'[<<z, i>>] # "none"
  <2>1. <<z, i>> \in Work
    BY DEF Work
  <2>2. CASE r.full \/ from < i
    <3>1. <<z, i>> \in seen
      BY <1>3, <2>2 DEF Selected, TypeOK
    <3> QED
      BY <2>1, <3>1 DEF LandRows
  <2>3. CASE ~r.full /\ i <= from
    BY <1>1, <1>3, <2>1, <2>3 DEF HasRows, Grow
  <2> QED
    BY <2>2, <2>3, BoundsAssumption DEF Runs
<1> QED
  BY <1>2, <1>3 DEF HasRows

\* A step that changes no metadata keeps the claims about it.
LEMMA PersistedFrame ==
  ASSUME TypeOK, Persisted, Grow, HeadGrows, TypeOK',
         UNCHANGED <<token, enumHash, pendToken, dbToken>>
  PROVE  /\ NoLostWork' /\ PendingSound' /\ DbTokenSound'
         /\ enumHash' = NoHash => token' = NoVector'
         /\ \A z \in Zones : /\ token'[z] <= head'[z]
                            /\ \A c \in Configs : pendToken'[c][z] <= head'[z] /\ dbToken'[c][z] <= head'[z]
<1>1. NoLostWork' /\ PendingSound' /\ DbTokenSound'
  BY CoversGrow DEF Persisted, NoLostWork, PendingSound, DbTokenSound, CatalogCovers
<1>2. enumHash' = NoHash => token' = NoVector'
  BY DEF Persisted, HashGuards, NoVector
<1>3. ASSUME NEW z \in Zones, NEW c \in Configs
      PROVE  token'[z] <= head'[z] /\ pendToken'[c][z] <= head'[z] /\ dbToken'[c][z] <= head'[z]
  BY DEF Persisted, Bounded, HeadGrows, TypeOK
<1>4. ASSUME NEW z \in Zones PROVE token'[z] <= head'[z]
  BY DEF Persisted, Bounded, HeadGrows, TypeOK
<1> QED
  BY <1>1, <1>2, <1>3, <1>4

\* So does the rest of the invariant when the cycle does not move either.
LEMMA CycleFrame ==
  ASSUME IInv, Grow, HeadGrows, TypeOK',
         UNCHANGED <<token, enumHash, pendToken, dbToken, pc, cfg, cycle, todo, hashOut,
                     dbSafe, after, run>>,
         shutdown' => shutdown \/ pc \notin {"hash", "path", "zones"}
  PROVE  IInv'
<1>1. TypeOK /\ Persisted /\ OfCycle
  BY IInvSplit
<1>2. Persisted'
  <2>1. \A z \in Zones : after'[z] <= head'[z]
    BY <1>1 DEF Persisted, Bounded, HeadGrows, TypeOK
  <2>2. HashGuards'
    BY <1>1 DEF Persisted, HashGuards, AfterHash, InCycle, MustForceFull, NoVector
  <2> QED
    BY <1>1, <2>1, <2>2, PersistedFrame DEF Persisted, Bounded
<1>3. LeftOutCovered'
  BY <1>1, CoversGrow DEF OfCycle, LeftOutCovered, InCycle, CatalogCovers, TypeOK
<1>4. RunCovered'
  <2>1. run.zone \in Zones /\ run.tok \in Int
    BY <1>1 DEF TypeOK, Runs
  <2> QED
    BY <1>1, <2>1, CoversGrow DEF OfCycle, RunCovered, EngineRan, CatalogCovers, HeadGrows, TypeOK
<1>5. VisitedCovered'
  BY <1>1, CoversGrow DEF OfCycle, VisitedCovered, InCycle, AfterHash, MustForceFull, CatalogCovers, TypeOK
<1>6. CycleShape'
  BY <1>1 DEF OfCycle, CycleShape
<1> QED
  BY <1>2, <1>3, <1>4, <1>5, <1>6 DEF IInv, Persisted

\* Outside a cycle only the claims about the metadata are left.
LEMMA OutsideCycle ==
  ASSUME TypeOK', NoLostWork', PendingSound', DbTokenSound', Bounded',
         enumHash' = NoHash => token' = NoVector', pc' \in {"down", "loop", "sleep"}
  PROVE  IInv'
  BY DEF IInv, HashGuards, LeftOutCovered, RunCovered, VisitedCovered, CycleShape, InCycle,
         AfterHash, EngineRan

LEMMA IInvInit == Init => IInv
<1> SUFFICES ASSUME Init PROVE IInv
  OBVIOUS
<1>1. \A z \in Zones : token[z] = NoToken /\ after[z] = NoToken /\ head[z] = 0
  BY DEF Init, NoVector
<1>2. \A c \in Configs, z \in Zones : pendToken[c][z] = NoToken /\ dbToken[c][z] = NoToken
  BY DEF Init, NoPending, NoVector
<1>3. NoLostWork /\ PendingSound /\ DbTokenSound
  BY <1>1, <1>2, CoversNone DEF NoLostWork, PendingSound, DbTokenSound, CatalogCovers
<1>4. Bounded /\ HashGuards
  BY <1>1, <1>2 DEF Init, Bounded, HashGuards, AfterHash, InCycle
<1> QED
  BY <1>3, <1>4, InitType DEF Init, IInv, LeftOutCovered, RunCovered, VisitedCovered, CycleShape,
     InCycle, AfterHash, EngineRan

LEMMA IInvEnvironment ==
  ASSUME Undisturbed, IInv, Environment
  PROVE  IInv'
<1> USE DEF Grow, HeadGrows
<1>0. TypeOK' /\ TypeOK /\ Persisted /\ OfCycle
  BY EnvironmentType, IInvSplit
<1>1. ASSUME NEW z \in Zones, ProviderChange(z) PROVE IInv'
  <2>1. HeadGrows
    BY <1>0, <1>1 DEF ProviderChange, TypeOK
  <2> QED
    BY <1>0, <1>1, <2>1, CycleFrame DEF ProviderChange, metaVars, cycleVars
<1>2. ASSUME NEW z \in Zones, TokenExpires(z) PROVE IInv'
  <2>1. HeadGrows
    BY <1>0, <1>2 DEF TokenExpires, TypeOK
  <2> QED
    BY <1>0, <1>2, <2>1, CycleFrame DEF TokenExpires, metaVars, cycleVars
<1>3. ASSUME NEW w \in Work, RunReconcile(w) PROVE IInv'
  <2>1. Grow /\ HeadGrows
    BY <1>0, <1>3 DEF RunReconcile, TypeOK, provVars
  <2> QED
    BY <1>0, <1>3, <2>1, CycleFrame DEF RunReconcile, metaVars, cycleVars, provVars
<1>4. CASE RunResetSyncToken
  <2>1. \A z \in Zones : token'[z] = NoToken /\ \A c \in Configs : dbToken'[c][z] = NoToken
    BY <1>4 DEF RunResetSyncToken, NoVector, NoPending
  <2>2. NoLostWork' /\ DbTokenSound'
    BY <2>1, CoversNone DEF NoLostWork, DbTokenSound, CatalogCovers
  <2>3. PendingSound'
    BY <1>0, <1>4 DEF RunResetSyncToken, Persisted, PendingSound, CatalogCovers
  <2>4. Bounded'
    BY <1>0, <1>4, <2>1 DEF RunResetSyncToken, Persisted, Bounded, TypeOK, provVars, cycleVars
  <2>5. /\ UNCHANGED <<head, rows, enumHash, pendToken, pc, cfg, shutdown>>
        /\ UNCHANGED <<cycle, todo, hashOut, dbSafe, after, run>>
        /\ run.zone \in Zones /\ run.tok \in Cursor /\ token' = NoVector'
    BY <1>0, <1>4 DEF RunResetSyncToken, provVars, cycleVars, TypeOK, Runs, NoVector
  <2>6. HashGuards'
    BY <1>0, <2>5 DEF Persisted, HashGuards, AfterHash, InCycle, MustForceFull
  <2>7. LeftOutCovered'
    BY <1>0, <2>1, <2>5, CoversNone DEF OfCycle, LeftOutCovered, InCycle, CatalogCovers
  <2>8. RunCovered' /\ CycleShape'
    BY <1>0, <2>1, <2>5 DEF OfCycle, RunCovered, EngineRan, CycleShape, CatalogCovers
  <2>9. VisitedCovered'
    BY <1>0, <2>1, <2>5
    DEF OfCycle, VisitedCovered, InCycle, AfterHash, MustForceFull, CatalogCovers, TypeOK
  <2> QED
    BY <1>0, <2>2, <2>3, <2>4, <2>6, <2>7, <2>8, <2>9 DEF IInv
<1>5. ASSUME NEW c \in Configs, NEW w \in BOOLEAN, RunSync(c, w) PROVE IInv'
  <2>1. UNCHANGED <<provVars, metaVars, rows, cycleVars>> /\ pc' = "loop"
    BY <1>5 DEF RunSync
  <2>2. Grow /\ HeadGrows
    BY <1>0, <2>1 DEF TypeOK, provVars
  <2>3. \A z \in Zones : after'[z] <= head'[z]
    BY <1>0, <2>1 DEF Persisted, Bounded, provVars, cycleVars
  <2> QED
    BY <1>0, <2>1, <2>2, <2>3, PersistedFrame, OutsideCycle DEF Bounded, metaVars
<1>6. CASE Stop
  <2>1. UNCHANGED <<provVars, metaVars, rows>> /\ pc' = "down" /\ after' = NoVector
    BY <1>6 DEF Stop, IdleCycle
  <2>2. Grow /\ HeadGrows
    BY <1>0, <2>1 DEF TypeOK, provVars
  <2>3. \A z \in Zones : after'[z] <= head'[z]
    BY <1>0, <2>1 DEF TypeOK, NoVector, provVars
  <2> QED
    BY <1>0, <2>1, <2>2, <2>3, PersistedFrame, OutsideCycle DEF Bounded, metaVars
<1>7. CASE RequestShutdown
  <2>1. Grow /\ HeadGrows
    BY <1>0, <1>7 DEF RequestShutdown, TypeOK, provVars
  <2>2. pc \notin {"hash", "path", "zones"}
    BY <1>7 DEF RequestShutdown, Undisturbed
  <2> QED
    BY <1>0, <1>7, <2>1, <2>2, CycleFrame DEF RequestShutdown, metaVars, cycleVars, provVars
<1> QED
  BY <1>1, <1>2, <1>3, <1>4, <1>5, <1>6, <1>7 DEF Environment

\* A cycle begins: the zones it leaves out have not moved since the scoped
\* token, so that token's coverage is theirs.
LEMMA IInvBegin ==
  ASSUME IInv, TypeOK', Grow, pc' = "hash",
         UNCHANGED <<provVars, metaVars, cfg, shutdown>>, ~shutdown,
         NEW zs \in SUBSET Zones, NEW v \in [Zones -> Cursor], BeginCycle(zs, v),
         \A z \in Zones : v[z] <= head[z],
         \A z \in Zones \ zs : head[z] <= dbToken[cfg][z]
  PROVE  IInv'
<1>0. TypeOK /\ Persisted /\ HeadGrows
  BY IInvSplit DEF HeadGrows, provVars, TypeOK
<1>1. /\ cycle' = zs /\ todo' = zs /\ after' = v /\ run' = run
  BY DEF BeginCycle
<1>2. Persisted'
  <2>1. HashGuards'
    BY <1>0, PersistedFrame DEF HashGuards, AfterHash, metaVars
  <2> QED
    BY <1>0, <1>1, <2>1, PersistedFrame DEF Persisted, Bounded, metaVars, provVars
<1>3. LeftOutCovered'
  <2> SUFFICES ASSUME NEW z \in Zones, z \notin zs
      PROVE  HasRows(rows', cfg, z, token[z]) /\ HasRows(rows', cfg, z, v[z])
    BY <1>1 DEF LeftOutCovered, CatalogCovers, metaVars
  <2>1. token[z] \in Int /\ v[z] \in Int /\ dbToken[cfg][z] \in Int /\ head[z] \in Int
    BY <1>0 DEF TypeOK
  <2>2. token[z] <= dbToken[cfg][z] /\ v[z] <= dbToken[cfg][z]
    BY <1>0, <2>1 DEF Persisted, Bounded
  <2>3. HasRows(rows', cfg, z, dbToken[cfg][z])
    BY <1>0, CoversGrow DEF Persisted, DbTokenSound, CatalogCovers, TypeOK
  <2> QED
    BY <2>1, <2>2, <2>3, CoversLess
<1>4. RunCovered'
  BY DEF RunCovered, EngineRan
<1>5. VisitedCovered' /\ CycleShape'
  BY <1>1 DEF VisitedCovered, CycleShape
<1> QED
  BY <1>2, <1>3, <1>4, <1>5 DEF IInv, Persisted

LEMMA IInvPrecheck ==
  ASSUME IInv, CheckChangesDatabase
  PROVE  IInv'
<1>0. TypeOK /\ TypeOK' /\ Persisted
  BY IInvSplit, PrecheckType
<1>1. UNCHANGED <<provVars, metaVars, cfg, shutdown>> /\ ~shutdown
  BY DEF CheckChangesDatabase
<1>2. Grow /\ HeadGrows
  BY <1>0, <1>1 DEF CheckChangesDatabase, Grow, HeadGrows, TypeOK, provVars
<1>3. head \in [Zones -> Cursor] /\ NoVector \in [Zones -> Cursor]
  BY <1>0, NoVectorType, BoundsAssumption DEF TypeOK
<1> DEFINE Began == \E zs \in SUBSET Zones, v \in [Zones -> Cursor] :
                      /\ BeginCycle(zs, v)
                      /\ \A z \in Zones : v[z] <= head[z]
                      /\ \A z \in Zones \ zs : head[z] <= dbToken[cfg][z]
<1>4. Began \/ (pc' = "sleep" /\ UNCHANGED cycleVars)
  <2>1. \A z \in Zones : NoVector[z] <= head[z] /\ PrecheckToken[z] <= head[z]
    BY <1>0 DEF TypeOK, NoVector, PrecheckToken
  <2>2. \A z \in Zones \ ChangedZones(dbToken[cfg]) : head[z] <= dbToken[cfg][z]
    BY <1>0 DEF TypeOK, ChangedZones
  <2>3. ChangedZones(dbToken[cfg]) \in SUBSET Zones /\ PrecheckToken \in [Zones -> Cursor]
    BY <1>3 DEF ChangedZones, PrecheckToken
  <2>4. \A v \in PageTokens(dbToken[cfg]) : v \in [Zones -> Cursor] /\ \A z \in Zones : v[z] <= head[z]
    BY DEF PageTokens
  <2>5. LocalWork \subseteq SUBSET Zones
    BY DEF LocalWork
  <2>6. \/ \E local \in LocalWork : BeginCycle(ChangedZones(dbToken[cfg]) \cup local, PrecheckToken)
        \/ \E v \in PageTokens(dbToken[cfg]) \cup {PrecheckToken, NoVector} : BeginCycle(Zones, v)
        \/ /\ ChangedZones(dbToken[cfg]) = {}
           /\ \E local \in LocalWork : BeginCycle(local, NoVector)
        \/ pc' = "sleep" /\ UNCHANGED cycleVars
    BY DEF CheckChangesDatabase
  <2>7. ASSUME NEW local \in LocalWork, BeginCycle(ChangedZones(dbToken[cfg]) \cup local, PrecheckToken)
        PROVE  Began
    <3>1. ChangedZones(dbToken[cfg]) \cup local \in SUBSET Zones
      BY <2>3, <2>5
    <3>2. \A z \in Zones \ (ChangedZones(dbToken[cfg]) \cup local) : head[z] <= dbToken[cfg][z]
      BY <2>2
    <3> QED
      BY <2>1, <2>3, <2>7, <3>1, <3>2
  <2>8. ASSUME NEW v \in PageTokens(dbToken[cfg]) \cup {PrecheckToken, NoVector}, BeginCycle(Zones, v)
        PROVE  Began
    <3>1. v \in [Zones -> Cursor] /\ \A z \in Zones : v[z] <= head[z]
      BY <1>3, <2>1, <2>3, <2>4
    <3> QED
      BY <2>8, <3>1
  <2>9. ASSUME ChangedZones(dbToken[cfg]) = {}, NEW local \in LocalWork, BeginCycle(local, NoVector)
        PROVE  Began
    <3>1. \A z \in Zones \ local : head[z] <= dbToken[cfg][z]
      BY <2>2, <2>9
    <3> QED
      BY <1>3, <2>1, <2>5, <2>9, <3>1
  <2> QED
    BY <2>6, <2>7, <2>8, <2>9
<1>5. CASE Began
  <2> PICK zs \in SUBSET Zones, v \in [Zones -> Cursor] :
        /\ BeginCycle(zs, v)
        /\ \A z \in Zones : v[z] <= head[z]
        /\ \A z \in Zones \ zs : head[z] <= dbToken[cfg][z]
    BY <1>5
  <2>1. pc' = "hash"
    BY DEF BeginCycle
  <2> QED
    BY <1>0, <1>1, <1>2, <2>1, IInvBegin
<1>6. CASE pc' = "sleep" /\ UNCHANGED cycleVars
  <2>1. Bounded'
    BY <1>0, <1>1, <1>2, <1>6, PersistedFrame
    DEF Bounded, Persisted, metaVars, cycleVars, provVars
  <2> QED
    BY <1>0, <1>1, <1>2, <1>6, <2>1, PersistedFrame, OutsideCycle DEF metaVars
<1> QED
  BY <1>4, <1>5, <1>6

LEMMA IInvHashes ==
  ASSUME Undisturbed, IInv, CheckAndPersistEnumConfigHash \/ CheckDownloadConfigHash
  PROVE  IInv'
<1>0. TypeOK /\ TypeOK' /\ Persisted /\ OfCycle
  BY IInvSplit, HashesType
<1>1. /\ UNCHANGED <<head, token, dbToken, rows, cfg, shutdown, cycle, todo, after, run>>
      /\ todo = cycle /\ ~shutdown /\ pc \in {"hash", "path"} /\ pc' \in {"path", "zones"}
  BY <1>0 DEF CheckAndPersistEnumConfigHash, CheckDownloadConfigHash, OfCycle, CycleShape, provVars, metaVars
<1>2. pendToken' \in {pendToken, NoPending}
  BY DEF CheckAndPersistEnumConfigHash, CheckDownloadConfigHash, metaVars
<1>3. enumHash' = enumHash \/ (enumHash = NoHash /\ enumHash' = cfg)
  BY DEF CheckAndPersistEnumConfigHash, CheckDownloadConfigHash, metaVars
<1>4. HashGuards'
  <2>1. enumHash' = NoHash => token' = NoVector'
    BY <1>0, <1>1, <1>3 DEF Persisted, HashGuards, NoVector
  <2>2. CASE CheckAndPersistEnumConfigHash
    BY <1>1, <2>1, <2>2 DEF CheckAndPersistEnumConfigHash, Undisturbed, HashGuards, MustForceFull
  <2>3. CASE CheckDownloadConfigHash
    BY <1>0, <1>1, <2>1, <2>3
    DEF CheckDownloadConfigHash, Persisted, HashGuards, MustForceFull, AfterHash, InCycle, metaVars
  <2> QED
    BY <2>2, <2>3
<1>5. \A c \in Configs, z \in Zones : pendToken'[c][z] \in {pendToken[c][z], NoToken}
  BY <1>2 DEF NoPending, NoVector
<1>6. PendingSound'
  BY <1>0, <1>1, <1>5, CoversNone DEF Persisted, PendingSound, CatalogCovers
<1>7. NoLostWork'
  <2>1. CASE enumHash' = enumHash
    BY <1>0, <1>1, <2>1 DEF Persisted, NoLostWork, CatalogCovers
  <2>2. CASE enumHash = NoHash /\ enumHash' = cfg
    <3>1. \A z \in Zones : token'[z] = NoToken
      BY <1>0, <1>1, <2>2 DEF Persisted, HashGuards, NoVector
    <3> QED
      BY <3>1, CoversNone DEF NoLostWork, CatalogCovers
  <2> QED
    BY <1>3, <2>1, <2>2
<1>8. DbTokenSound'
  BY <1>0, <1>1 DEF Persisted, DbTokenSound, CatalogCovers
<1>9. Bounded'
  <2>1. ASSUME NEW z \in Zones, NEW c \in Configs PROVE pendToken'[c][z] <= head'[z]
    BY <1>0, <1>1, <1>5 DEF Persisted, Bounded, TypeOK
  <2> QED
    BY <1>0, <1>1, <2>1 DEF Persisted, Bounded
<1>10. OfCycle'
  BY <1>0, <1>1 DEF OfCycle, LeftOutCovered, RunCovered, VisitedCovered, CycleShape, InCycle,
     EngineRan, CatalogCovers
<1> QED
  BY <1>0, <1>4, <1>6, <1>7, <1>8, <1>9, <1>10 DEF IInv, OfCycle

\* The token a library continues from is covered for the configuration of
\* the cycle: an active token because the cycle does not reconcile, a staged
\* one because this configuration staged it.
LEMMA SyncModeCovered ==
  ASSUME IInv, pc = "zones", NEW z \in Zones
  PROVE  SyncMode(z) \in Cursor /\ HasRows(rows, cfg, z, SyncMode(z))
<1>0. TypeOK /\ Persisted
  BY IInvSplit
<1>1. SyncMode(z) \in Cursor
  BY <1>0, BoundsAssumption DEF SyncMode, TypeOK
<1>2. CASE SyncMode(z) = NoToken
  BY <1>1, <1>2, CoversNone
<1>3. CASE SyncMode(z) = pendToken[cfg][z]
  BY <1>0, <1>3 DEF Persisted, PendingSound, CatalogCovers, TypeOK
<1>4. CASE SyncMode(z) = token[z] /\ ~MustForceFull
  BY <1>0, <1>4, ConfigsAssumption
  DEF Persisted, HashGuards, AfterHash, InCycle, NoLostWork, CatalogCovers, TypeOK
<1> QED
  BY <1>1, <1>2, <1>3, <1>4 DEF SyncMode

LEMMA IInvVisit ==
  ASSUME IInv, NEW z \in Zones, NEW r \in RunsOf(z), NEW late, VisitLibrary(z, r, late)
  PROVE  IInv'
<1>0. TypeOK /\ TypeOK' /\ Persisted /\ OfCycle /\ r \in Runs /\ r.zone = z
  BY IInvSplit, LibraryType DEF RunsOf
<1>1. /\ UNCHANGED <<provVars, metaVars, cfg, shutdown, cycle, todo, hashOut, dbSafe, after>>
      /\ pc = "zones" /\ pc' \in {"bridge", "decide"} /\ run' = r
      /\ pc' = "bridge" => r.kind = "clean"
  BY DEF VisitLibrary, MayAdvance
<1>2. PICK from \in {SyncMode(z), NoToken} : Engine(z, from, r, late)
  BY DEF VisitLibrary
<1>3. from \in Cursor /\ HasRows(rows, cfg, z, from)
  BY <1>1, <1>2, SyncModeCovered, CoversNone, BoundsAssumption
<1>4. Grow /\ HeadGrows
  BY <1>0, <1>1, <1>2, EngineGrows DEF HeadGrows, provVars, TypeOK
<1>5. Persisted'
  <2>1. HashGuards'
    BY <1>0, <1>1 DEF Persisted, HashGuards, AfterHash, InCycle, MustForceFull, metaVars, NoVector
  <2> QED
    BY <1>0, <1>1, <1>4, <2>1, PersistedFrame DEF Persisted, Bounded, metaVars, provVars
<1>6. RunCovered'
  <2>1. ASSUME r.kind = "clean" PROVE r.tok = head[z] /\ HasRows(rows', cfg, z, head[z])
    BY <1>0, <1>2, <1>3, <2>1, EngineCovers
  <2> QED
    BY <1>0, <1>1, <2>1
    DEF RunCovered, EngineRan, CatalogCovers, Persisted, Bounded, provVars, metaVars, TypeOK
<1>7. LeftOutCovered'
  BY <1>0, <1>1, <1>4, CoversGrow
  DEF OfCycle, LeftOutCovered, InCycle, CatalogCovers, TypeOK, metaVars
<1>8. VisitedCovered'
  BY <1>0, <1>1, <1>4, CoversGrow
  DEF OfCycle, VisitedCovered, InCycle, AfterHash, MustForceFull, CatalogCovers, TypeOK, metaVars
<1>9. CycleShape'
  BY <1>1 DEF CycleShape
<1> QED
  BY <1>0, <1>5, <1>6, <1>7, <1>8, <1>9 DEF IInv, Persisted

LEMMA IInvBridge ==
  ASSUME IInv, NEW r \in RunsOf(run.zone), NEW late, BridgeDelta(r, late)
  PROVE  IInv'
<1> DEFINE z == run.zone
<1>0. /\ TypeOK /\ Persisted /\ OfCycle /\ r \in Runs /\ r.zone = z /\ z \in Zones
      /\ token[z] \in Cursor /\ run.tok \in Int
  BY IInvSplit DEF RunsOf, TypeOK, Runs
<1>1. /\ UNCHANGED <<provVars, metaVars, cfg, shutdown, cycle, todo, hashOut, dbSafe, after>>
      /\ pc = "bridge" /\ pc' = "decide" /\ run' = BridgedRun(r)
      /\ Engine(z, token[z], r, late)
  BY DEF BridgeDelta
<1>2. TypeOK'
  BY <1>0, LibraryType
<1>3. HasRows(rows, cfg, z, token[z])
  <2>1. HasRows(rows, cfg, z, run.tok) /\ token[z] <= run.tok
    BY <1>0, <1>1 DEF OfCycle, RunCovered, EngineRan, CatalogCovers
  <2> QED
    BY <1>0, <2>1, CoversLess
<1>4. Grow /\ HeadGrows
  BY <1>0, <1>1, EngineGrows DEF HeadGrows, provVars, TypeOK
<1>5. Persisted'
  <2>1. HashGuards'
    BY <1>0, <1>1 DEF Persisted, HashGuards, AfterHash, InCycle, MustForceFull, metaVars, NoVector
  <2> QED
    BY <1>0, <1>1, <1>2, <1>4, <2>1, PersistedFrame DEF Persisted, Bounded, metaVars, provVars
<1>6. RunCovered'
  <2>1. ASSUME r.kind = "clean" PROVE r.tok = head[z] /\ HasRows(rows', cfg, z, head[z])
    BY <1>0, <1>1, <1>3, <2>1, EngineCovers
  <2>2. run'.kind = "clean" => run' = r
    BY <1>1 DEF BridgedRun, Blocked
  <2> QED
    BY <1>0, <1>1, <2>1, <2>2
    DEF RunCovered, EngineRan, CatalogCovers, Persisted, Bounded, provVars, metaVars, TypeOK
<1>7. LeftOutCovered'
  BY <1>0, <1>1, <1>4, CoversGrow
  DEF OfCycle, LeftOutCovered, InCycle, CatalogCovers, TypeOK, metaVars
<1>8. VisitedCovered'
  BY <1>0, <1>1, <1>4, CoversGrow
  DEF OfCycle, VisitedCovered, InCycle, AfterHash, MustForceFull, CatalogCovers, TypeOK, metaVars
<1>9. CycleShape'
  BY <1>1 DEF CycleShape
<1> QED
  BY <1>2, <1>5, <1>6, <1>7, <1>8, <1>9 DEF IInv, Persisted

LEMMA IInvDecide ==
  ASSUME IInv, DecideCheckpoint
  PROVE  IInv'
<1> DEFINE z == run.zone
           Stored == /\ transSafe /\ ~shutdown /\ MayAdvance(run) /\ UNCHANGED dbSafe
                     /\ \/ /\ MustForceFull /\ token' = token
                           /\ pendToken' = [pendToken EXCEPT ![cfg][z] = run.tok]
                        \/ /\ ~MustForceFull /\ pendToken' = pendToken
                           /\ token' = [token EXCEPT ![z] = run.tok]
           Held == ~dbSafe' /\ UNCHANGED <<token, pendToken>>
<1>0. /\ TypeOK /\ TypeOK' /\ Persisted /\ OfCycle /\ z \in Zones /\ run.tok \in Int
  BY IInvSplit, DecideType DEF TypeOK, Runs
<1>1. /\ UNCHANGED <<provVars, enumHash, dbToken, rows, cfg, shutdown, cycle, hashOut, after>>
      /\ pc = "decide" /\ pc' = "zones"
      /\ todo' = IF run.kind = "sessionExpired" THEN {} ELSE todo \ {z}
  BY DEF DecideCheckpoint
<1>2. Stored \/ Held
  BY DEF DecideCheckpoint, AdvanceCheckpoint, PreserveCheckpoint
<1>3. CASE Stored
  <2>1. /\ run.kind = "clean" /\ HasRows(rows, cfg, z, run.tok) /\ run.tok <= head[z]
        /\ token[z] <= run.tok /\ after[z] <= run.tok
    BY <1>0, <1>1, <1>3 DEF MayAdvance, OfCycle, RunCovered, EngineRan, CatalogCovers
  <2>2. \A y \in Zones : token'[y] = token[y] \/ (y = z /\ token'[y] = run.tok /\ enumHash = cfg)
    BY <1>0, <1>1, <1>3 DEF TypeOK, Persisted, HashGuards, AfterHash, InCycle
  <2>3. \A c \in Configs, y \in Zones :
          pendToken'[c][y] = pendToken[c][y] \/ (c = cfg /\ y = z /\ pendToken'[c][y] = run.tok)
    BY <1>0, <1>3 DEF TypeOK
  <2>4. NoLostWork'
    BY <1>0, <1>1, <2>1, <2>2 DEF Persisted, NoLostWork, CatalogCovers
  <2>5. PendingSound'
    BY <1>0, <1>1, <2>1, <2>3 DEF Persisted, PendingSound, CatalogCovers
  <2>6. Bounded'
    <3>1. ASSUME NEW y \in Zones PROVE token'[y] <= head'[y]
      BY <1>0, <1>1, <2>1, <2>2 DEF Persisted, Bounded, provVars
    <3>2. ASSUME NEW y \in Zones, NEW c \in Configs PROVE pendToken'[c][y] <= head'[y]
      BY <1>0, <1>1, <2>1, <2>3 DEF Persisted, Bounded, provVars
    <3> QED
      BY <1>0, <1>1, <3>1, <3>2 DEF Persisted, Bounded, provVars
  <2>7. HashGuards'
    <3>1. enumHash' = NoHash => token' = NoVector'
      BY <1>0, <1>1, <1>3, ConfigsAssumption
      DEF Persisted, HashGuards, AfterHash, InCycle, NoVector, TypeOK
    <3> QED
      BY <1>0, <1>1, <3>1 DEF Persisted, HashGuards, AfterHash, InCycle, MustForceFull
  <2>8. LeftOutCovered'
    BY <1>0, <1>1, <2>1, <2>2 DEF OfCycle, LeftOutCovered, InCycle, CatalogCovers
  <2>9. VisitedCovered'
    <3> SUFFICES ASSUME dbSafe', NEW y \in cycle', y \notin todo'
                 PROVE  /\ HasRows(rows', cfg', y, after'[y])
                        /\ MustForceFull' => token'[y] <= pendToken'[cfg'][y]
      BY DEF VisitedCovered, CatalogCovers
    <3>1. y \in Zones /\ dbSafe /\ todo' = todo \ {z} /\ cfg \in Configs
      BY <1>0, <1>1, <1>3, <2>1 DEF TypeOK
    <3>2. CASE y = z
      <4>1. HasRows(rows, cfg, z, after[z])
        BY <1>0, <2>1, CoversLess DEF TypeOK
      <4>2. MustForceFull => token'[z] = token[z] /\ pendToken'[cfg][z] = run.tok
        BY <1>0, <1>3 DEF TypeOK
      <4> QED
        BY <1>1, <2>1, <3>1, <3>2, <4>1, <4>2 DEF MustForceFull
    <3>3. CASE y # z
      <4>1. /\ HasRows(rows, cfg, y, after[y])
            /\ MustForceFull => token[y] <= pendToken[cfg][y]
        BY <1>0, <1>1, <3>1, <3>3 DEF OfCycle, VisitedCovered, InCycle, AfterHash, CatalogCovers
      <4> QED
        BY <1>1, <2>2, <2>3, <3>1, <3>3, <4>1 DEF MustForceFull
    <3> QED
      BY <3>2, <3>3
  <2> QED
    BY <1>0, <1>1, <1>3, <2>4, <2>5, <2>6, <2>7, <2>8, <2>9
    DEF IInv, Persisted, DbTokenSound, CatalogCovers, RunCovered, EngineRan, CycleShape
<1>4. CASE Held
  <2>1. Grow /\ HeadGrows
    BY <1>0, <1>1 DEF Grow, HeadGrows, provVars, TypeOK
  <2>2. HashGuards'
    BY <1>0, <1>1, <1>4 DEF Persisted, HashGuards, AfterHash, InCycle, MustForceFull, NoVector
  <2>3. Persisted'
    BY <1>0, <1>1, <1>4, <2>1, <2>2, PersistedFrame DEF Persisted, Bounded, provVars
  <2>4. OfCycle'
    BY <1>0, <1>1, <1>4 DEF OfCycle, LeftOutCovered, RunCovered, EngineRan, VisitedCovered,
       CycleShape, InCycle, CatalogCovers
  <2> QED
    BY <1>0, <2>3, <2>4 DEF IInv, Persisted, OfCycle
<1> QED
  BY <1>2, <1>3, <1>4

LEMMA IInvLeave ==
  ASSUME IInv, LeaveLibraries
  PROVE  IInv'
<1>0. TypeOK /\ TypeOK' /\ Persisted /\ OfCycle
  BY IInvSplit, EndOfCycleType
<1>1. /\ UNCHANGED <<provVars, metaVars, rows, cfg, shutdown, cycle, hashOut, dbSafe, after, run>>
      /\ pc = "zones" /\ pc' = "promote" /\ todo' = {} /\ (todo = {} \/ shutdown)
  BY DEF LeaveLibraries
<1>2. Persisted'
  <2>1. Grow /\ HeadGrows
    BY <1>0, <1>1 DEF Grow, HeadGrows, provVars, TypeOK
  <2>2. HashGuards'
    BY <1>0, <1>1 DEF Persisted, HashGuards, AfterHash, InCycle, MustForceFull, metaVars, NoVector
  <2> QED
    BY <1>0, <1>1, <2>1, <2>2, PersistedFrame DEF Persisted, Bounded, provVars, metaVars
<1>3. LeftOutCovered' /\ RunCovered' /\ CycleShape'
  BY <1>0, <1>1 DEF OfCycle, LeftOutCovered, RunCovered, EngineRan, CycleShape, InCycle,
     CatalogCovers, metaVars
<1>4. dbSafe => todo = {}
  BY <1>0, <1>1 DEF OfCycle, CycleShape
<1>5. VisitedCovered'
  BY <1>0, <1>1, <1>4 DEF OfCycle, VisitedCovered, InCycle, AfterHash, MustForceFull,
     CatalogCovers, metaVars
<1> QED
  BY <1>0, <1>2, <1>3, <1>5 DEF IInv, Persisted

LEMMA IInvPromote ==
  ASSUME IInv, PromoteReconciliation
  PROVE  IInv'
<1> DEFINE staged == [z \in Zones |-> IF z \in cycle THEN pendToken[cfg][z] ELSE token[z]]
           kept == [z \in Zones |-> IF z \in cycle THEN NoToken ELSE pendToken[cfg][z]]
           Promoted == /\ token' = staged /\ pendToken' = [pendToken EXCEPT ![cfg] = kept]
                       /\ enumHash' = cfg
<1>0. TypeOK /\ TypeOK' /\ Persisted /\ OfCycle
  BY IInvSplit, EndOfCycleType
<1>1. /\ UNCHANGED <<provVars, dbToken, rows, cfg, shutdown, cycle, todo, hashOut, after, run>>
      /\ pc = "promote" /\ pc' = "finish" /\ (dbSafe' => dbSafe) /\ todo = {}
  <2>1. dbSafe' => dbSafe
    BY Zenon DEF PromoteReconciliation
  <2>2. pc = "promote" /\ todo = {}
    BY <1>0 DEF PromoteReconciliation, OfCycle, CycleShape
  <2> QED
    BY <2>1, <2>2 DEF PromoteReconciliation
<1>2. Promoted \/ UNCHANGED <<token, pendToken, enumHash>>
  BY DEF PromoteReconciliation
<1>3. OfCycle'
  <2>1. VisitedCovered'
    BY <1>0, <1>1 DEF OfCycle, VisitedCovered, InCycle, CatalogCovers
  <2>2. \A z \in Zones \ cycle : token'[z] = token[z]
    BY <1>2 DEF TypeOK
  <2>3. LeftOutCovered'
    BY <1>0, <1>1, <2>2 DEF OfCycle, LeftOutCovered, InCycle, CatalogCovers
  <2> QED
    BY <1>1, <2>1, <2>3 DEF OfCycle, RunCovered, EngineRan, CycleShape
<1>4. CASE UNCHANGED <<token, pendToken, enumHash>>
  <2>1. Grow /\ HeadGrows
    BY <1>0, <1>1 DEF Grow, HeadGrows, provVars, TypeOK
  <2>2. HashGuards'
    BY <1>0, <1>1, <1>4 DEF Persisted, HashGuards, AfterHash, InCycle, MustForceFull, NoVector
  <2> QED
    BY <1>0, <1>1, <1>3, <1>4, <2>1, <2>2, PersistedFrame DEF IInv, OfCycle, Persisted, Bounded, provVars
<1>5. CASE Promoted
  <2>0. cfg \in Configs
    BY <1>0 DEF TypeOK
  <2>1. \A z \in Zones :
          \/ z \in cycle /\ token'[z] = pendToken[cfg][z]
          \/ z \notin cycle /\ token'[z] = token[z]
    BY <1>5
  <2>2. \A c \in Configs, z \in Zones : pendToken'[c][z] \in {pendToken[c][z], NoToken}
    BY <1>0, <1>5 DEF TypeOK
  <2>3. NoLostWork'
    <3> SUFFICES ASSUME NEW z \in Zones PROVE HasRows(rows, cfg, z, token'[z])
      BY <1>1, <1>5 DEF NoLostWork, CatalogCovers
    <3> QED
      BY <1>0, <1>1, <2>0, <2>1 DEF Persisted, PendingSound, OfCycle, LeftOutCovered, InCycle, CatalogCovers
  <2>4. PendingSound' /\ DbTokenSound'
    BY <1>0, <1>1, <2>2, CoversNone DEF Persisted, PendingSound, DbTokenSound, CatalogCovers
  <2>5. Bounded'
    <3>1. ASSUME NEW z \in Zones PROVE token'[z] <= head'[z]
      BY <1>0, <1>1, <2>0, <2>1 DEF Persisted, Bounded, provVars
    <3>2. ASSUME NEW z \in Zones, NEW c \in Configs PROVE pendToken'[c][z] <= head'[z]
      <4>1. head'[z] = head[z] /\ head[z] \in Nat /\ pendToken[c][z] <= head[z]
        BY <1>0, <1>1 DEF Persisted, Bounded, TypeOK, provVars
      <4> QED
        BY <2>2, <4>1
    <3> QED
      BY <1>0, <1>1, <3>1, <3>2 DEF Persisted, Bounded, provVars
  <2>6. HashGuards'
    BY <1>1, <1>5, <2>0, ConfigsAssumption DEF HashGuards
  <2> QED
    BY <1>0, <1>3, <2>3, <2>4, <2>5, <2>6 DEF IInv, OfCycle
<1> QED
  BY <1>2, <1>4, <1>5

LEMMA IInvFinish ==
  ASSUME IInv, FinishCycle \/ WatchSleep
  PROVE  IInv'
<1>0. TypeOK /\ TypeOK' /\ Persisted /\ OfCycle
  BY IInvSplit, EndOfCycleType
<1>1. /\ UNCHANGED <<provVars, token, enumHash, pendToken, rows>>
      /\ pc' \in {"down", "loop", "sleep"} /\ after' \in {after, NoVector}
  BY DEF FinishCycle, IdleCycle, WatchSleep, metaVars, cycleVars
<1>2. \A c \in Configs, z \in Zones :
        \/ dbToken'[c][z] = dbToken[c][z]
        \/ /\ c = cfg /\ dbToken'[c][z] = after[z]
           /\ HasRows(rows, cfg, z, after[z])
  <2>1. CASE UNCHANGED dbToken
    BY <2>1
  <2>2. CASE pc = "finish" /\ MayStoreDbToken /\ dbToken' = [dbToken EXCEPT ![cfg] = after]
    <3>1. ASSUME NEW z \in Zones PROVE HasRows(rows, cfg, z, after[z])
      BY <1>0, <2>2 DEF OfCycle, LeftOutCovered, VisitedCovered, CycleShape, InCycle,
         CatalogCovers, MayStoreDbToken
    <3> QED
      BY <1>0, <2>2, <3>1 DEF TypeOK
  <2> QED
    BY <2>1, <2>2 DEF FinishCycle, WatchSleep, metaVars
<1>3. NoLostWork' /\ PendingSound' /\ DbTokenSound'
  BY <1>0, <1>1, <1>2 DEF Persisted, NoLostWork, PendingSound, DbTokenSound, CatalogCovers
<1>4. Bounded'
  <2>1. ASSUME NEW z \in Zones PROVE after'[z] <= head'[z]
    BY <1>0, <1>1 DEF Persisted, Bounded, NoVector, provVars, TypeOK
  <2>2. ASSUME NEW z \in Zones, NEW c \in Configs PROVE dbToken'[c][z] <= head'[z]
    BY <1>0, <1>1, <1>2 DEF Persisted, Bounded, provVars
  <2> QED
    BY <1>0, <1>1, <2>1, <2>2 DEF Persisted, Bounded, provVars
<1>5. enumHash' = NoHash => token' = NoVector'
  BY <1>0, <1>1 DEF Persisted, HashGuards, NoVector
<1> QED
  BY <1>0, <1>1, <1>3, <1>4, <1>5, OutsideCycle

LEMMA IInvStep ==
  ASSUME Undisturbed, IInv, [Next]_vars
  PROVE  IInv'
<1>1. CASE Process
  <2>1. run.zone \in Zones
    BY DEF IInv, TypeOK, Runs
  <2> QED
    BY <1>1, <2>1, IInvPrecheck, IInvHashes, IInvVisit, IInvBridge, IInvDecide, IInvLeave,
       IInvPromote, IInvFinish DEF Process
<1>2. CASE UNCHANGED vars
  <2>1. UNCHANGED <<head, rows, token, enumHash, pendToken, dbToken, pc, cfg, cycle, todo,
                    hashOut, dbSafe, after, run, shutdown>>
    BY <1>2 DEF vars, provVars, metaVars, cycleVars
  <2>2. TypeOK' /\ Grow /\ HeadGrows
    BY <1>2, <2>1, StepType DEF IInv, TypeOK, Grow, HeadGrows
  <2> QED
    BY <2>1, <2>2, CycleFrame
<1> QED
  BY <1>1, <1>2, IInvEnvironment DEF Next

-----------------------------------------------------------------------------
\* No stored zone token claims a change that the catalogue has no row for, as
\* long as the first hash write succeeds and no signal arrives between two
\* libraries; state writes, runs and the process may fail in any other way.
THEOREM NoWorkIsLost ==
  ASSUME Undisturbed
  PROVE  Spec => []NoLostWork
<1>1. IInv /\ [Next]_vars => IInv'
  BY IInvStep
<1>2. IInv => NoLostWork
  BY DEF IInv
<1> QED
  BY IInvInit, <1>1, <1>2, PTL DEF Spec

\* The same of the scoped changes/database token: the zones that the watch
\* loop skips because of it have nothing the catalogue does not know.
THEOREM DbTokenIsSound ==
  ASSUME Undisturbed
  PROVE  Spec => []DbTokenSound
<1>1. IInv /\ [Next]_vars => IInv'
  BY IInvStep
<1>2. IInv => DbTokenSound
  BY DEF IInv
<1> QED
  BY IInvInit, <1>1, <1>2, PTL DEF Spec

\* Between two resets no zone token is replaced by an older one: neither an
\* advance nor the promotion of a reconciliation goes back.
THEOREM TokensAdvance ==
  ASSUME Undisturbed
  PROVE  Spec => TokensNeverRegress
<1> DEFINE Forward == \A z \in Zones : token'[z] >= token[z] \/ token' = NoVector
<1>1. ASSUME IInv, [Next]_vars PROVE [Forward]_token
  <2>0. TypeOK /\ OfCycle
    BY <1>1, IInvSplit
  <2>1. CASE RunResetSyncToken
    BY <2>1 DEF RunResetSyncToken
  <2>2. CASE DecideCheckpoint
    <3>1. run.zone \in Zones /\ run.tok \in Int
      BY <2>0 DEF TypeOK, Runs
    <3>2. CASE MayAdvance(run) /\ token' = [token EXCEPT ![run.zone] = run.tok]
      <4>1. token[run.zone] <= run.tok
        BY <2>0, <2>2, <3>2 DEF DecideCheckpoint, MayAdvance, OfCycle, RunCovered, EngineRan
      <4> QED
        BY <2>0, <3>1, <3>2, <4>1 DEF TypeOK
    <3> QED
      BY <2>2, <3>2 DEF DecideCheckpoint, AdvanceCheckpoint, PreserveCheckpoint
  <2>3. CASE PromoteReconciliation
    <3>1. CASE /\ CanPromote
               /\ token' = [z \in Zones |-> IF z \in cycle THEN pendToken[cfg][z] ELSE token[z]]
      <4>1. pc = "promote" /\ todo = {} /\ dbSafe /\ MustForceFull
        BY <2>0, <2>3, <3>1 DEF PromoteReconciliation, OfCycle, CycleShape, CanPromote
      <4>2. \A z \in cycle : token[z] <= pendToken[cfg][z]
        BY <2>0, <4>1 DEF OfCycle, VisitedCovered, InCycle, AfterHash
      <4>3. \A z \in Zones : token[z] \in Int /\ pendToken[cfg][z] \in Int
        BY <2>0 DEF TypeOK
      <4> QED
        BY <3>1, <4>2, <4>3
    <3> QED
      BY <2>3, <3>1 DEF PromoteReconciliation
  <2>4. CASE UNCHANGED token
    BY <2>4
  <2>5. RunResetSyncToken \/ DecideCheckpoint \/ PromoteReconciliation \/ UNCHANGED token
    BY <1>1 DEF Next, Environment, Process, ProviderChange, TokenExpires, RunReconcile, RunSync,
       Stop, RequestShutdown, CheckChangesDatabase, CheckAndPersistEnumConfigHash,
       CheckDownloadConfigHash, VisitLibrary, BridgeDelta, LeaveLibraries, FinishCycle, WatchSleep,
       vars, metaVars
  <2> QED
    BY <2>1, <2>2, <2>3, <2>4, <2>5
<1>2. IInv /\ [Next]_vars => IInv'
  BY IInvStep
<1>3. IInv /\ [Next]_vars => [Forward]_token
  BY <1>1
<1> QED
  BY IInvInit, <1>2, <1>3, PTL DEF Spec, TokensNeverRegress
\* The catalogue as it can be at any moment of a cycle follows the whole
\* inductive invariant: the tokens that are stored, the candidates that are
\* staged and the runs that are under way are all covered by durable rows.
THEOREM CycleIsSound ==
  ASSUME Undisturbed
  PROVE  Spec => []IInv
<1>1. IInv /\ [Next]_vars => IInv'
  BY IInvStep
<1> QED
  BY IInvInit, <1>1, PTL DEF Spec

\* The candidates that a reconciliation resumes from (pending_sync_token) are
\* covered for the configuration that staged them.
THEOREM CandidatesAreSound ==
  ASSUME Undisturbed
  PROVE  Spec => []PendingSound
<1>1. IInv => PendingSound
  BY DEF IInv
<1> QED
  BY CycleIsSound, <1>1, PTL

-----------------------------------------------------------------------------
(* What a cycle that held back a checkpoint leaves behind.                 *)

\* Once a library is held back, the cycle is not safe for a promotion, which
\* would report "current", and every later advance keeps the report.
HoldKept == hold => InCycle /\ ~dbSafe /\ status = "preserved"

LEMMA HoldKeptStep ==
  ASSUME "db" \notin Faults, TypeOK, HoldKept, [Next]_vars
  PROVE  HoldKept'
<1> USE DEF HoldKept, InCycle
<1>1. CASE UNCHANGED <<hold, dbSafe, status, pc>>
  BY <1>1
<1>2. CASE \/ \E c \in Configs, w \in BOOLEAN : RunSync(c, w)
           \/ WatchSleep
  BY <1>2 DEF RunSync, WatchSleep, cycleVars
<1>3. CASE CheckChangesDatabase
  <2>1. pc = "loop" /\ hold' = hold
    BY <1>3 DEF CheckChangesDatabase, BeginCycle, cycleVars
  <2> QED
    BY <2>1
<1>4. CASE Stop \/ FinishCycle
  BY <1>4 DEF Stop, FinishCycle, IdleCycle
<1>5. CASE CheckAndPersistEnumConfigHash
  <2>1. hold' = hold /\ status' = status /\ (dbSafe' => dbSafe) /\ pc' = "path"
    BY <1>5, Zenon DEF CheckAndPersistEnumConfigHash
  <2> QED
    BY <2>1
<1>6. CASE CheckDownloadConfigHash
  <2>1. hold' = hold /\ status' = status /\ (dbSafe' => dbSafe) /\ pc' = "zones"
    BY <1>6 DEF CheckDownloadConfigHash, DbMayFail, metaVars
  <2> QED
    BY <2>1
<1>7. CASE DecideCheckpoint
  <2>1. pc' = "zones"
    BY <1>7 DEF DecideCheckpoint
  <2>2. CASE AdvanceCheckpoint
    BY <2>1, <2>2 DEF AdvanceCheckpoint, AdvancedStatus, DbMayFail
  <2>3. CASE PreserveCheckpoint
    BY <2>1, <2>3 DEF PreserveCheckpoint, DbMayFail
  <2> QED
    BY <1>7, <2>2, <2>3 DEF DecideCheckpoint
<1>8. CASE PromoteReconciliation
  <2>1. hold' = hold /\ pc' = "finish" /\ dbSafe' = dbSafe /\ (status' = status \/ dbSafe)
    BY <1>8 DEF PromoteReconciliation, CanPromote, DbMayFail
  <2> QED
    BY <2>1
<1>9. ASSUME NEW z \in Zones, NEW r, NEW late, VisitLibrary(z, r, late) \/ BridgeDelta(r, late)
      PROVE  HoldKept'
  <2>1. UNCHANGED <<hold, dbSafe, status>> /\ pc' \in {"bridge", "decide"}
    BY <1>9 DEF VisitLibrary, BridgeDelta, metaVars
  <2> QED
    BY <2>1
<1>10. CASE LeaveLibraries
  BY <1>10 DEF LeaveLibraries, metaVars
<1>11. run.zone \in Zones
  BY DEF TypeOK, Runs
<1>12. CASE Environment
  BY <1>1, <1>2, <1>4, <1>12 DEF Environment, ProviderChange, TokenExpires, RunReconcile,
     RunResetSyncToken, RequestShutdown, metaVars, cycleVars
<1>13. CASE Process
  BY <1>2, <1>3, <1>4, <1>5, <1>6, <1>7, <1>8, <1>9, <1>10, <1>11, <1>13 DEF Process
<1>14. CASE UNCHANGED vars
  BY <1>1, <1>14 DEF vars, metaVars, cycleVars
<1> QED
  BY <1>12, <1>13, <1>14 DEF Next

\* As long as the status row can be written, a cycle that held back a library
\* reports "preserved" at its end, whatever the libraries after it did.
THEOREM HoldsAreReported ==
  ASSUME "db" \notin Faults
  PROVE  Spec => []HoldIsReported
<1>1. Init => TypeOK /\ HoldKept
  BY InitType DEF Init, HoldKept
<1>2. (TypeOK /\ HoldKept) /\ [Next]_vars => (TypeOK /\ HoldKept)'
  BY StepType, HoldKeptStep
<1>3. TypeOK /\ HoldKept => HoldIsReported
  BY DEF HoldKept, HoldIsReported
<1> QED
  BY <1>1, <1>2, <1>3, PTL DEF Spec
-----------------------------------------------------------------------------
(* What the watch loop may skip.                                           *)

\* Nothing takes a finished row back, and a row that is left over is counted.
Counted == {"drift", "exclude", "uncounted"} \cap Faults = {}

DoneTo(catalog, c, z, t) ==
  \A w \in Eligible[c] : w[1] = z /\ w[2] <= t => catalog[w] = "done"

NoneExcluded == \A w \in Work : rows[w] # "excluded"
LeftOutDone == InCycle => \A z \in Zones \ cycle : DoneTo(rows, cfg, z, after[z])
RunDone == EngineRan /\ ~dirty => DoneTo(rows, cfg, run.zone, after[run.zone])
VisitedDone == InCycle /\ dbSafe /\ ~dirty => \A z \in cycle \ todo : DoneTo(rows, cfg, z, after[z])

\* What IInv says of the catalogued changes, said of the downloaded ones: it
\* holds of the zones a cycle leaves out, and of the ones it has visited
\* without a failure.
DInv == NoneExcluded /\ SkippedIsDone /\ LeftOutDone /\ RunDone /\ VisitedDone
Steady == \A w \in Work : rows[w] = "done" => rows'[w] = "done"

LEMMA DoneStays ==
  ASSUME Steady, NEW c \in Configs, NEW z, NEW t, DoneTo(rows, c, z, t)
  PROVE  DoneTo(rows', c, z, t)
  BY EligibleAssumption DEF DoneTo, Steady

LEMMA DoneLess ==
  ASSUME NEW R, NEW c \in Configs, NEW z, NEW t \in Int, NEW u \in Int, u <= t, DoneTo(R, c, z, t)
  PROVE  DoneTo(R, c, z, u)
<1> SUFFICES ASSUME NEW w \in Eligible[c], w[1] = z, w[2] <= u PROVE R[w] = "done"
  BY DEF DoneTo
<1>1. w[2] \in Int
  BY EligibleAssumption DEF Work
<1> QED
  BY <1>1 DEF DoneTo

LEMMA SkippedDone ==
  ASSUME SkippedIsDone, NEW c \in Configs, NEW z
  PROVE  DoneTo(rows, c, z, dbToken[c][z])
  BY DEF SkippedIsDone, DoneTo

LEMMA EngineSteady ==
  ASSUME Counted, TypeOK, NoneExcluded, NEW z \in Zones, NEW from, NEW r \in Runs, NEW late,
         Engine(z, from, r, late)
  PROVE  Steady /\ NoneExcluded'
<1> PICK seen, excl : rows' = LandRows(z, seen, late, excl) /\ (excl => "exclude" \in Faults)
  BY DEF Engine
<1>1. ~excl
  BY DEF Counted
<1> QED
  BY <1>1 DEF Steady, NoneExcluded, LandRows

\* Every step keeps the finished rows.
LEMMA StepSteady ==
  ASSUME Counted, TypeOK, NoneExcluded, [Next]_vars
  PROVE  Steady /\ NoneExcluded'
<1>1. CASE UNCHANGED rows
  BY <1>1 DEF Steady, NoneExcluded
<1>2. ASSUME NEW z \in Zones, NEW r \in RunsOf(z), NEW late,
             VisitLibrary(z, r, late) \/ (run.zone = z /\ BridgeDelta(r, late))
      PROVE  Steady /\ NoneExcluded'
  <2>1. r \in Runs /\ \E from : Engine(z, from, r, late)
    BY <1>2 DEF VisitLibrary, BridgeDelta, RunsOf
  <2> QED
    BY <2>1, EngineSteady
<1>3. run.zone \in Zones
  BY DEF TypeOK, Runs
<1>4. "drift" \notin Faults
  BY DEF Counted
<1>5. CASE Environment
  BY <1>1, <1>4, <1>5 DEF Environment, ProviderChange, TokenExpires, RunReconcile,
     RunResetSyncToken, RunSync, Stop, RequestShutdown
<1>6. CASE CheckChangesDatabase
  BY <1>1, <1>4, <1>6 DEF CheckChangesDatabase
<1>7. CASE Process /\ ~CheckChangesDatabase
  BY <1>1, <1>2, <1>3, <1>7 DEF Process, CheckAndPersistEnumConfigHash, CheckDownloadConfigHash,
     DecideCheckpoint, LeaveLibraries, PromoteReconciliation, FinishCycle, WatchSleep
<1>8. CASE UNCHANGED vars
  BY <1>1, <1>8 DEF vars
<1> QED
  BY <1>5, <1>6, <1>7, <1>8 DEF Next

\* A step that leaves the cycle and the scoped tokens alone.
LEMMA DoneFrame ==
  ASSUME TypeOK, DInv, Steady, NoneExcluded',
         UNCHANGED <<cfg, cycle, after, dbToken>>,
         InCycle' => InCycle,
         todo' = todo \/ (InCycle /\ dbSafe => todo = {}), 
         pc' \in {"bridge", "decide"} => pc' = pc /\ run' = run,
         dbSafe' => dbSafe, dirty => dirty'
  PROVE  DInv'
<1>0. cfg \in Configs /\ cycle \in SUBSET Zones
  BY DEF TypeOK
<1>1. SkippedIsDone'
  BY EligibleAssumption DEF DInv, SkippedIsDone, Steady
<1>2. LeftOutDone'
  BY <1>0, DoneStays DEF DInv, LeftOutDone
<1>3. RunDone'
  BY <1>0, DoneStays DEF DInv, RunDone, EngineRan
<1>4. VisitedDone'
  BY <1>0, DoneStays DEF DInv, VisitedDone
<1> QED
  BY <1>1, <1>2, <1>3, <1>4 DEF DInv

LEMMA DInvOutside ==
  ASSUME DInv, TypeOK, Steady, NoneExcluded', pc' \in {"down", "loop", "sleep"}, dbToken' = dbToken
  PROVE  DInv'
<1>1. SkippedIsDone'
  BY EligibleAssumption DEF DInv, SkippedIsDone, Steady
<1> QED
  BY <1>1 DEF DInv, LeftOutDone, RunDone, VisitedDone, InCycle, EngineRan

LEMMA DInvPrecheck ==
  ASSUME IInv, DInv, Steady, NoneExcluded', CheckChangesDatabase
  PROVE  DInv'
<1>0. TypeOK /\ Bounded /\ dbToken' = dbToken /\ cfg' = cfg /\ cfg \in Configs
  BY DEF IInv, TypeOK, CheckChangesDatabase, metaVars
<1>1. CASE pc' = "sleep"
  BY <1>0, <1>1, DInvOutside
<1>2. ASSUME NEW zs \in SUBSET Zones, NEW v, BeginCycle(zs, v),
             \A z \in Zones \ zs : v[z] \in Int /\ v[z] <= dbToken[cfg][z]
      PROVE  DInv'
  <2>1. pc' = "hash" /\ cycle' = zs /\ todo' = zs /\ after' = v
    BY <1>2 DEF BeginCycle
  <2>2. SkippedIsDone'
    BY <1>0, EligibleAssumption DEF DInv, SkippedIsDone, Steady
  <2>3. LeftOutDone'
    <3> SUFFICES ASSUME NEW z \in Zones, z \notin zs PROVE DoneTo(rows', cfg, z, v[z])
      BY <1>0, <2>1 DEF LeftOutDone
    <3>1. DoneTo(rows, cfg, z, dbToken[cfg][z]) /\ dbToken[cfg][z] \in Int
      BY <1>0, SkippedDone DEF DInv, TypeOK
    <3> QED
      BY <1>0, <1>2, <3>1, DoneLess, DoneStays
  <2>4. RunDone' /\ VisitedDone'
    BY <2>1 DEF RunDone, EngineRan, VisitedDone
  <2> QED
    BY <2>2, <2>3, <2>4 DEF DInv
<1>3. CASE \E zs \in SUBSET Zones : \E v : BeginCycle(zs, v)
              /\ \A z \in Zones \ zs : v[z] \in Int /\ v[z] <= dbToken[cfg][z]
  BY <1>2, <1>3
<1>4. \A z \in Zones : head[z] \in Int /\ dbToken[cfg][z] \in Int /\ dbToken[cfg][z] >= NoToken
  BY <1>0, BoundsAssumption DEF TypeOK
<1>5. \A zs \in SUBSET Zones : ChangedZones(dbToken[cfg]) \subseteq zs =>
        \A z \in Zones \ zs : /\ PrecheckToken[z] \in Int /\ PrecheckToken[z] <= dbToken[cfg][z]
                              /\ NoVector[z] \in Int /\ NoVector[z] <= dbToken[cfg][z]
  BY <1>4 DEF ChangedZones, PrecheckToken, NoVector
<1>6. /\ ChangedZones(dbToken[cfg]) \subseteq Zones
      /\ \A local \in LocalWork : local \subseteq Zones
  BY DEF ChangedZones, LocalWork
<1>7. \/ \E local \in LocalWork : BeginCycle(ChangedZones(dbToken[cfg]) \cup local, PrecheckToken)
      \/ \E v : BeginCycle(Zones, v)
      \/ /\ ChangedZones(dbToken[cfg]) = {}
         /\ \E local \in LocalWork : BeginCycle(local, NoVector)
      \/ pc' = "sleep"
  BY DEF CheckChangesDatabase
<1>8. ASSUME NEW local \in LocalWork, BeginCycle(ChangedZones(dbToken[cfg]) \cup local, PrecheckToken)
      PROVE  DInv'
  <2>1. ChangedZones(dbToken[cfg]) \cup local \in SUBSET Zones
    BY <1>6
  <2> QED
    BY <1>2, <1>5, <1>8, <2>1
<1>9. ASSUME NEW v, BeginCycle(Zones, v) PROVE DInv'
  BY <1>2, <1>9
<1>10. ASSUME ChangedZones(dbToken[cfg]) = {}, NEW local \in LocalWork, BeginCycle(local, NoVector)
       PROVE  DInv'
  BY <1>2, <1>5, <1>6, <1>10
<1> QED
  BY <1>1, <1>7, <1>8, <1>9, <1>10

\* A clean run whose rows are all counted has downloaded its zone up to the
\* token of the pre-check.
LEMMA DInvLibrary ==
  ASSUME Counted, IInv, IInv', DInv, Steady, NoneExcluded',
         NEW z \in Zones, NEW r \in RunsOf(z), NEW late,
         VisitLibrary(z, r, late) \/ (run.zone = z /\ BridgeDelta(r, late))
  PROVE  DInv'
<1>0. /\ TypeOK /\ TypeOK' /\ cfg \in Configs /\ r \in Runs /\ r.zone = z
      /\ UNCHANGED <<cfg, cycle, todo, dbSafe, after, dbToken>>
      /\ pc' \in {"bridge", "decide"} /\ pc \in {"zones", "bridge"}
  BY DEF IInv, TypeOK, RunsOf, VisitLibrary, BridgeDelta, metaVars
<1>1. PICK from : Engine(z, from, r, late)
  BY DEF VisitLibrary, BridgeDelta
<1>2. /\ dirty => dirty'
      /\ ~dirty' => \A w \in Eligible[cfg] : w[1] = z => rows'[w] # "pending"
  BY <1>1 DEF Engine, Counted
<1>3. run'.zone = z
  BY <1>0 DEF VisitLibrary, BridgeDelta, BridgedRun, Blocked
<1>4. RunDone'
  <2> SUFFICES ASSUME EngineRan', ~dirty', NEW w \in Eligible[cfg], w[1] = z, w[2] <= after[z]
               PROVE  rows'[w] = "done"
    BY <1>0, <1>3 DEF RunDone, DoneTo
  <2>1. /\ HasRows(rows', cfg, z, run'.tok) /\ after[z] <= run'.tok
        /\ run'.tok \in Int /\ after[z] \in Int
    BY <1>0, <1>3 DEF IInv, RunCovered, CatalogCovers, TypeOK, Runs
  <2>2. w \in Work /\ w = <<z, w[2]>> /\ w[2] \in 1..MaxChanges
    BY <1>0, EligibleAssumption DEF Work
  <2>3. w[2] <= run'.tok
    BY <2>1, <2>2, BoundsAssumption
  <2>4. rows'[w] # "none"
    BY <2>1, <2>2, <2>3 DEF HasRows
  <2>5. rows'[w] \in Statuses
    BY <1>0, <2>2 DEF TypeOK
  <2> QED
    BY <1>2, <2>2, <2>4, <2>5 DEF NoneExcluded, Statuses
<1>5. SkippedIsDone'
  BY <1>0, EligibleAssumption DEF DInv, SkippedIsDone, Steady
<1>6. LeftOutDone' /\ VisitedDone'
  <2>1. InCycle /\ cycle \in SUBSET Zones
    BY <1>0 DEF InCycle, TypeOK
  <2> QED
    BY <1>0, <1>2, <2>1, DoneStays DEF DInv, LeftOutDone, VisitedDone
<1> QED
  BY <1>4, <1>5, <1>6 DEF DInv

LEMMA DInvDecide ==
  ASSUME IInv, DInv, Steady, NoneExcluded', DecideCheckpoint
  PROVE  DInv'
<1>0. /\ TypeOK /\ cfg \in Configs /\ cycle \in SUBSET Zones /\ run.zone \in Zones
      /\ UNCHANGED <<cfg, cycle, dirty, after, dbToken>>
      /\ pc = "decide" /\ pc' = "zones"
  BY DEF IInv, TypeOK, Runs, DecideCheckpoint
<1>1. SkippedIsDone' /\ LeftOutDone' /\ RunDone'
  BY <1>0, EligibleAssumption, DoneStays
  DEF DInv, SkippedIsDone, Steady, LeftOutDone, InCycle, RunDone, EngineRan
<1>2. VisitedDone'
  <2> SUFFICES ASSUME dbSafe', ~dirty, NEW z \in cycle, z \notin todo'
               PROVE  DoneTo(rows', cfg, z, after[z])
    BY <1>0 DEF VisitedDone
  <2>1. dbSafe /\ run.kind = "clean"
    BY DEF DecideCheckpoint, AdvanceCheckpoint, PreserveCheckpoint, MayAdvance
  <2>2. todo' = todo \ {run.zone}
    BY <2>1 DEF DecideCheckpoint
  <2>3. CASE z = run.zone
    BY <1>0, <2>1, <2>3, DoneStays DEF DInv, RunDone, EngineRan
  <2>4. CASE z # run.zone
    BY <1>0, <2>1, <2>2, <2>4, DoneStays DEF DInv, VisitedDone, InCycle
  <2> QED
    BY <2>3, <2>4
<1> QED
  BY <1>1, <1>2 DEF DInv

LEMMA DInvFinish ==
  ASSUME IInv, DInv, Steady, NoneExcluded', FinishCycle
  PROVE  DInv'
<1>0. TypeOK /\ cfg \in Configs /\ rows' = rows /\ pc = "finish" /\ todo = {}
  BY DEF IInv, TypeOK, CycleShape, FinishCycle
<1>1. pc' \in {"loop", "sleep"}
  BY DEF FinishCycle
<1>2. SkippedIsDone'
  <2>1. CASE UNCHANGED dbToken
    BY <1>0, <2>1 DEF DInv, SkippedIsDone
  <2>2. CASE MayStoreDbToken /\ dbToken' = [dbToken EXCEPT ![cfg] = after]
    <3>1. \A z \in Zones : DoneTo(rows, cfg, z, after[z])
      BY <1>0, <2>2 DEF DInv, LeftOutDone, VisitedDone, InCycle, MayStoreDbToken
    <3>2. ASSUME NEW c \in Configs, NEW w \in Eligible[c], w[2] <= dbToken'[c][w[1]]
          PROVE  rows'[w] = "done"
      <4>1. w[1] \in Zones
        BY EligibleAssumption DEF Work
      <4>2. CASE c = cfg
        BY <1>0, <2>2, <3>1, <3>2, <4>1, <4>2 DEF TypeOK, DoneTo
      <4>3. CASE c # cfg
        BY <1>0, <2>2, <3>2, <4>3 DEF TypeOK, DInv, SkippedIsDone
      <4> QED
        BY <4>2, <4>3
    <3> QED
      BY <3>2 DEF SkippedIsDone
  <2> QED
    BY <2>1, <2>2 DEF FinishCycle
<1> QED
  BY <1>1, <1>2 DEF DInv, LeftOutDone, RunDone, VisitedDone, InCycle, EngineRan

LEMMA DInvReset ==
  ASSUME TypeOK, DInv, NoneExcluded', RunResetSyncToken
  PROVE  DInv'
<1>0. UNCHANGED <<rows, pc, cfg, cycleVars>> /\ dbToken' = NoPending
  BY DEF RunResetSyncToken
<1>1. ASSUME NEW c \in Configs, NEW w \in Eligible[c] PROVE ~(w[2] <= dbToken'[c][w[1]])
  <2>1. w[1] \in Zones /\ w[2] \in 1..MaxChanges
    BY EligibleAssumption DEF Work
  <2>2. dbToken'[c][w[1]] = NoToken
    BY <1>0, <2>1 DEF NoPending, NoVector
  <2> QED
    BY <2>1, <2>2, BoundsAssumption
<1>2. SkippedIsDone'
  BY <1>1 DEF SkippedIsDone
<1> QED
  BY <1>0, <1>2 DEF DInv, LeftOutDone, RunDone, VisitedDone, InCycle, EngineRan, DoneTo, cycleVars

LEMMA DInvStep ==
  ASSUME Undisturbed, Counted, IInv, DInv, [Next]_vars
  PROVE  DInv'
<1>0. TypeOK /\ Steady /\ NoneExcluded' /\ IInv' /\ run.zone \in Zones
  <2>1. TypeOK /\ NoneExcluded
    BY DEF IInv, DInv
  <2> QED
    BY <2>1, StepSteady, IInvStep DEF TypeOK, Runs
<1>1. CASE Environment
  <2>1. ASSUME NEW c \in Configs, NEW w \in BOOLEAN, RunSync(c, w) PROVE DInv'
    BY <1>0, <2>1, DInvOutside DEF RunSync, metaVars
  <2>2. CASE Stop
    BY <1>0, <2>2, DInvOutside DEF Stop, metaVars
  <2>3. ASSUME UNCHANGED <<metaVars, pc, cfg, cycleVars>> PROVE DInv'
    BY <1>0, <2>3, DoneFrame DEF metaVars, cycleVars, InCycle
  <2>4. "drift" \notin Faults
    BY DEF Counted
  <2> QED
    BY <1>0, <1>1, <2>1, <2>2, <2>3, <2>4, DInvReset
    DEF Environment, ProviderChange, TokenExpires, RunReconcile, RequestShutdown
<1>2. CASE CheckAndPersistEnumConfigHash
  <2>1. dbSafe' => dbSafe
    BY <1>2, Zenon DEF CheckAndPersistEnumConfigHash
  <2> QED
    BY <1>0, <1>2, <2>1, DoneFrame DEF CheckAndPersistEnumConfigHash, InCycle
<1>3. CASE CheckDownloadConfigHash
  <2>1. dbSafe' => dbSafe
    BY <1>3, Zenon DEF CheckDownloadConfigHash
  <2> QED
    BY <1>0, <1>3, <2>1, DoneFrame DEF CheckDownloadConfigHash, InCycle, metaVars
<1>4. CASE LeaveLibraries
  <2>1. dbSafe => todo = {}
    BY <1>4 DEF IInv, CycleShape, LeaveLibraries
  <2>2. /\ UNCHANGED <<cfg, cycle, after, dbToken, dbSafe, dirty>>
        /\ pc = "zones" /\ pc' = "promote"
    BY <1>4 DEF LeaveLibraries, metaVars
  <2> QED
    BY <1>0, <2>1, <2>2, DoneFrame DEF InCycle
<1>5. CASE PromoteReconciliation
  <2>1. dbSafe' => dbSafe
    BY <1>5, Zenon DEF PromoteReconciliation
  <2>2. /\ UNCHANGED <<cfg, cycle, todo, after, dbToken, dirty>>
        /\ pc = "promote" /\ pc' = "finish"
    BY <1>5 DEF PromoteReconciliation
  <2> QED
    BY <1>0, <2>1, <2>2, DoneFrame DEF InCycle
<1>6. CASE WatchSleep
  BY <1>0, <1>6, DInvOutside DEF WatchSleep, metaVars
<1>7. CASE UNCHANGED vars
  BY <1>0, <1>7, DoneFrame DEF vars, metaVars, cycleVars, InCycle
<1>8. CASE Process
  BY <1>0, <1>2, <1>3, <1>4, <1>5, <1>6, <1>8, DInvPrecheck, DInvLibrary, DInvDecide, DInvFinish
  DEF Process
<1> QED
  BY <1>1, <1>7, <1>8 DEF Next

\* A change that the pre-check may skip is downloaded, not only catalogued, as
\* long as nothing damages a local file, no policy excludes a row and a failed
\* transfer is counted: the watch loop would not come back to it.
THEOREM SkippedIsDownloaded ==
  ASSUME Undisturbed, Counted
  PROVE  Spec => []SkippedIsDone
<1>1. Init => IInv /\ DInv
  <2> SUFFICES ASSUME Init PROVE DInv
    BY IInvInit
  <2>1. ASSUME NEW c \in Configs, NEW w \in Eligible[c] PROVE ~(w[2] <= dbToken[c][w[1]])
    <3>1. w[1] \in Zones /\ w[2] \in 1..MaxChanges
      BY EligibleAssumption DEF Work
    <3>2. dbToken[c][w[1]] = NoToken
      BY <3>1 DEF Init, NoPending, NoVector
    <3> QED
      BY <3>1, <3>2, BoundsAssumption
  <2> QED
    BY <2>1 DEF Init, DInv, NoneExcluded, SkippedIsDone, LeftOutDone, RunDone, VisitedDone,
       InCycle, EngineRan
<1>2. (IInv /\ DInv) /\ [Next]_vars => (IInv /\ DInv)'
  BY IInvStep, DInvStep
<1>3. IInv /\ DInv => SkippedIsDone
  BY DEF DInv
<1> QED
  BY <1>1, <1>2, <1>3, PTL DEF Spec
=============================================================================
