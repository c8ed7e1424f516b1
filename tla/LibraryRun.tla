----------------------------- MODULE LibraryRun -----------------------------
(***************************************************************************)
(* What one library's download run promises the checkpoint protocol.  A    *)
(* run makes more and more of the assets known, may die at any point, and  *)
(* ends with a report; it reports "advance", the licence to store the new  *)
(* sync token, only once every asset the token would cover is known.       *)
(***************************************************************************)
CONSTANT Items

VARIABLES
  wanted,  \* the assets the provider lists and the configuration selects
  known,   \* the assets a later run finds again, by their row or their file
  report   \* what the last run said

runVars == <<wanted, known, report>>

RunTypeOK ==
  /\ wanted \in SUBSET Items
  /\ known \in SUBSET Items
  /\ report \in {"none", "hold", "advance"}

RunInit ==
  /\ wanted \in SUBSET Items
  /\ known = {}
  /\ report = "none"

\* A new run forgets the report of the one before, and no asset.
StartLibrary ==
  /\ report' = "none"
  /\ UNCHANGED <<wanted, known>>

Learn ==
  /\ known' \in SUBSET Items
  /\ known \subseteq known'
  /\ UNCHANGED <<wanted, report>>

ReportHold ==
  /\ report = "none"
  /\ report' = "hold"
  /\ known' \in SUBSET Items /\ known \subseteq known'
  /\ UNCHANGED wanted

ReportAdvance ==
  /\ report = "none"
  /\ wanted \subseteq known'
  /\ known' \in SUBSET Items /\ known \subseteq known'
  /\ report' = "advance"
  /\ UNCHANGED wanted

RunNext == StartLibrary \/ Learn \/ ReportHold \/ ReportAdvance
RunSpec == RunInit /\ [][RunNext]_runVars
=============================================================================
