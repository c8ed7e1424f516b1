------------------------- MODULE SessionLockProofs -------------------------
(***************************************************************************)
(* Proofs about SessionLock: any number of commands, tokens, generations   *)
(* and starts, with every fault.                                           *)
(***************************************************************************)
EXTENDS SessionLock, TLAPS

AuthSteps == {"inner", "login", "srp", "factor"}
LiveSteps == {"init", "cycle", "sleep", "validate", "relock", "reacquire"}
CommandConts == {"login", "code", "submit", "reset"}
Waiting == {"waitAuth", "waitReauth"}

\* Steps at which a process never holds the lock.
Unheld == \A p \in Procs :
  proc[p].pc \in {"off", "open", "strip", "clear", "snapshot", "poll"} => lock # p

\* Who waits for an authentication, by step.
ContShape ==
  /\ proc[Watch].cont \notin CommandConts
  /\ \A p \in Procs :
       LET q == proc[p] IN
       /\ q.pc = "validate" => q.cont \in {"idle", "reauth", "waitReauth"}
       /\ q.pc = "reacquire" => q.cont \in {"reauth", "waitReauth"}
       /\ q.pc \in {"snapshot", "poll"} => q.cont \in Waiting
       /\ q.pc = "clear" => q.cont \in {"lenient", "persisted"}
       /\ q.pc = "strip" => q.cont = "lenient"
       /\ q.cont = "reauth" => q.expired > 0
       /\ q.pc \in {"init", "cycle", "sleep"} => q.cont = "start"

\* What the watch process remembers of the generation is never newer than the
\* lock file's, and equal to it while the process holds the lock.
GenSound ==
  LET q == proc[Watch] IN
  /\ lock = Watch => q.base = gen
  /\ q.base = Null => q.pc \in {"off", "open"} /\ q.cont = "start" /\ q.live.gen = 0
  /\ q.base # Null =>
       /\ q.base <= gen /\ q.live.gen <= q.base
       /\ q.want # Null => q.want <= q.base
       /\ q.pc = "open" => q.want # Null
  /\ q.cont \in {"lenient", "persisted", "forced", "waitAuth"} => q.want # Null
  /\ lock = Watch /\ q.pc \in LiveSteps => q.live.gen = gen
  /\ q.live.gen <= gen
  /\ \A p \in Procs : proc[p].pc \in AuthSteps \cup {"discard", "remove"} => proc[p].sess.gen = gen
  /\ \A p \in Procs : proc[p].pc = "remove" => q.live.gen < gen

Fresh(s, since) == /\ s.tok = 0 \/ s.tok > since.tok
                   /\ s.trust = 0 \/ s.trust > since.trust
                   /\ s.jar = 0 \/ s.jar > since.tok

\* Sessions in memory that may still be written are from after the last reset.
FreshSound ==
  /\ files.session # Null =>
       /\ files.session.tok = 0 \/ files.session.tok > floor.tok
       /\ files.session.trust = 0 \/ files.session.trust > floor.trust
  /\ files.jar = 0 \/ files.jar > floor.tok
  /\ \A p \in Procs : proc[p].pc \in AuthSteps => Fresh(proc[p].sess, floor)
  /\ proc[Watch].live.gen = gen => Fresh(proc[Watch].live, floor)

\* The trust token in memory is the newest while it may be written.
TrustSound ==
  /\ floor.tok <= issued.tok /\ floor.trust <= issued.trust
  /\ files.session # Null => files.session.trust <= issued.trust
  /\ \A p \in Procs :
       /\ proc[p].sess.trust <= issued.trust /\ proc[p].live.trust <= issued.trust
       /\ proc[p].pc \in AuthSteps /\ files.session # Null
            => files.session.trust <= proc[p].sess.trust

SInv ==
  /\ SessTypeOK /\ OneTalker /\ Unheld /\ ContShape /\ TrustSound
  /\ ~torn => GenSound /\ FreshSound
-----------------------------------------------------------------------------
(* A step of one process.  Its new state n has to be good by itself; what     *)
(* is known of the others survives because nobody takes a lock that is held,  *)
(* and who writes the session file holds it.                                  *)

Results == {"failed", "factor", "contended", "reset"}
FileStates == [session : [tok : Issued, trust : Issued] \cup {Null}, jar : Issued,
               cache : {"none", "fresh", "old"}]
Pairs == [tok : Issued, trust : Issued]

Moves(p, n) ==
  /\ proc' = [proc EXCEPT ![p] = n]
  /\ lock' \in {lock, Null, p} /\ (lock' # lock => lock \in {Null, p})
  /\ files' \in FileStates /\ (files'.session # files.session => lock \in {Null, p})
  /\ gen' \in 0..MaxGen /\ floor' \in {floor, issued} /\ torn' \in BOOLEAN
  /\ touched' \in BOOLEAN /\ runs' \in 0..MaxRuns

\* ... that is not part of a reset.
StepOf(p, n) == Moves(p, n) /\ gen' = gen /\ floor' = floor /\ torn' = torn

Issues ==
  /\ issued' \in Pairs /\ issued.tok <= issued'.tok /\ issued.trust <= issued'.trust
  /\ files'.session # Null => files'.session.trust <= issued'.trust

GoodShape(p, n) ==
  /\ n \in Process
  /\ n.pc \in {"off", "open", "strip", "clear", "snapshot", "poll"} => lock' # p
  /\ n.pc \in Talking => lock' = p
  /\ p = Watch => n.cont \notin CommandConts
  /\ n.pc = "validate" => n.cont \in {"idle", "reauth", "waitReauth"}
  /\ n.pc = "reacquire" => n.cont \in {"reauth", "waitReauth"}
  /\ n.pc \in {"snapshot", "poll"} => n.cont \in Waiting
  /\ n.pc = "clear" => n.cont \in {"lenient", "persisted"}
  /\ n.pc = "strip" => n.cont = "lenient"
  /\ n.cont = "reauth" => n.expired > 0
  /\ n.pc \in {"init", "cycle", "sleep"} => n.cont = "start"

GoodTrust(n) ==
  /\ n.sess.trust <= issued'.trust /\ n.live.trust <= issued'.trust
  /\ n.pc \in AuthSteps /\ files'.session # Null => files'.session.trust <= n.sess.trust

WatchGen(n) ==
  /\ lock' = Watch => n.base = gen
  /\ n.base = Null => n.pc \in {"off", "open"} /\ n.cont = "start" /\ n.live.gen = 0
  /\ n.base # Null =>
       /\ n.base <= gen /\ n.live.gen <= n.base
       /\ n.want # Null => n.want <= n.base
       /\ n.pc = "open" => n.want # Null
  /\ n.cont \in {"lenient", "persisted", "forced", "waitAuth"} => n.want # Null
  /\ lock' = Watch /\ n.pc \in LiveSteps => n.live.gen = gen
  /\ n.live.gen \in {0, proc[Watch].live.gen} \/ lock = Watch

GoodGen(p, n) ==
  /\ p = Watch => WatchGen(n)
  /\ n.pc \in AuthSteps \cup {"discard"} => n.sess.gen = gen
  /\ n.pc # "remove"

GoodFresh(p, n) ==
  /\ files'.session # Null =>
       /\ files'.session.tok = 0 \/ files'.session.tok > floor.tok
       /\ files'.session.trust = 0 \/ files'.session.trust > floor.trust
  /\ files'.jar = 0 \/ files'.jar > floor.tok
  /\ n.pc \in AuthSteps => Fresh(n.sess, floor)
  /\ p = Watch /\ n.live.gen = gen => Fresh(n.live, floor)

LEMMA FrameShape ==
  ASSUME SInv, NEW p \in Procs, NEW n, Moves(p, n), Issues, GoodShape(p, n)
  PROVE  (SessTypeOK /\ OneTalker /\ Unheld /\ ContShape)'
<1>1. /\ proc' \in [Procs -> Process] /\ proc'[p] = n
      /\ \A r \in Procs \ {p} : proc'[r] = proc[r]
  BY DEF Moves, GoodShape, SInv, SessTypeOK
<1>2. /\ \A r \in Procs \ {p} : lock = r => lock' = r
      /\ \A r \in Procs \ {p} : lock # r => lock' # r
      /\ lock' \in Procs \cup {Null}
  BY ProcsAssumption DEF Moves, SInv, SessTypeOK, Procs
<1>3. Unheld'
  BY <1>1, <1>2 DEF Unheld, SInv, GoodShape
<1>4. OneTalker'
  BY <1>1, <1>2 DEF OneTalker, SInv, GoodShape
<1>5. ContShape'
  <2>1. proc'[Watch].cont \notin CommandConts
    BY <1>1 DEF ContShape, SInv, GoodShape, Procs
  <2> QED BY <1>1, <2>1 DEF ContShape, SInv, GoodShape
<1>6. SessTypeOK'
  <2>1. \A r \in Procs : proc'[r].pc = "off" => lock' # r
    BY <1>3 DEF Unheld
  <2> QED BY <1>1, <1>2, <2>1 DEF SessTypeOK, SInv, Moves, Issues, FileStates, Pairs
<1> QED BY <1>3, <1>4, <1>5, <1>6

LEMMA FrameTrust ==
  ASSUME SInv, NEW p \in Procs, NEW n, Moves(p, n), Issues, GoodShape(p, n), GoodTrust(n)
  PROVE  TrustSound'
<1>1. /\ proc' \in [Procs -> Process] /\ proc'[p] = n
      /\ \A r \in Procs \ {p} : proc'[r] = proc[r]
  BY DEF Moves, GoodShape, SInv, SessTypeOK
<1>2. ASSUME NEW r \in Procs, r # p
      PROVE  /\ proc'[r].sess.trust <= issued'.trust /\ proc'[r].live.trust <= issued'.trust
             /\ proc'[r].pc \in AuthSteps /\ files'.session # Null
                  => files'.session.trust <= proc'[r].sess.trust
  <2>1. proc'[r] = proc[r] /\ proc[r] \in Process
    BY <1>1, <1>2 DEF SInv, SessTypeOK
  <2>2. proc[r].sess.trust \in Nat /\ proc[r].live.trust \in Nat
        /\ issued.trust \in Nat /\ issued'.trust \in Nat
    BY <2>1, SessBoundsAssumption DEF Process, Session, Issued, SInv, SessTypeOK, Issues, Pairs
  <2>3. proc[r].pc \in AuthSteps => files'.session = files.session
    <3>1. proc[r].pc \in AuthSteps => lock = r
      BY DEF SInv, OneTalker, AuthSteps, Talking
    <3>2. r # Null
      BY ProcsAssumption DEF Procs
    <3> QED BY <3>1, <3>2, <1>2 DEF Moves
  <2> QED BY <2>1, <2>2, <2>3 DEF SInv, TrustSound, Issues
<1>3. floor'.tok <= issued'.tok /\ floor'.trust <= issued'.trust
  <2>1. /\ floor.tok \in Nat /\ floor.trust \in Nat /\ issued.tok \in Nat /\ issued.trust \in Nat
        /\ issued'.tok \in Nat /\ issued'.trust \in Nat
    BY SessBoundsAssumption DEF SInv, SessTypeOK, Issued, Issues, Pairs
  <2> QED BY <2>1 DEF SInv, TrustSound, Issues, Moves
<1>4. \A r \in Procs :
         /\ proc'[r].sess.trust <= issued'.trust /\ proc'[r].live.trust <= issued'.trust
         /\ proc'[r].pc \in AuthSteps /\ files'.session # Null
              => files'.session.trust <= proc'[r].sess.trust
  BY <1>1, <1>2 DEF GoodTrust
<1> QED BY <1>3, <1>4 DEF TrustSound, Issues

LEMMA FrameGen ==
  ASSUME SInv, NEW p \in Procs, NEW n, Moves(p, n), Issues, GoodShape(p, n),
         gen' = gen, ~torn, GoodGen(p, n)
  PROVE  GenSound'
<1>1. /\ proc' \in [Procs -> Process] /\ proc'[p] = n
      /\ \A r \in Procs \ {p} : proc'[r] = proc[r]
      /\ Watch \in Procs /\ gen \in Nat /\ proc'[Watch].live.gen \in Nat
      /\ proc[Watch].live.gen \in Nat /\ gen' = gen
  BY SessBoundsAssumption DEF Moves, GoodShape, SInv, SessTypeOK, Procs, Process, Session
<1>2. GenSound
  BY DEF SInv
<1>3. \A r \in Procs : proc'[r].pc \in AuthSteps \cup {"discard", "remove"} => proc'[r].sess.gen = gen
  BY <1>1, <1>2 DEF GenSound, GoodGen
<1>4. ASSUME NEW r \in Procs, proc'[r].pc = "remove" PROVE proc'[Watch].live.gen < gen
  <2>1. r # p /\ proc[r].pc = "remove" /\ proc[Watch].live.gen < gen
    BY <1>1, <1>2, <1>4 DEF GoodGen, GenSound
  <2>2. lock = r
    BY <2>1 DEF SInv, OneTalker, Talking
  <2>3. CASE p = Watch
    BY <2>1, <2>2, <2>3, <1>1 DEF GoodGen, WatchGen
  <2> QED BY <2>1, <2>3, <1>1
<1>5. /\ (lock' = Watch => proc'[Watch].base = gen)
      /\ (proc'[Watch].base = Null => /\ proc'[Watch].pc \in {"off", "open"}
                                     /\ proc'[Watch].cont = "start" /\ proc'[Watch].live.gen = 0)
      /\ (proc'[Watch].base # Null =>
            /\ proc'[Watch].base <= gen /\ proc'[Watch].live.gen <= proc'[Watch].base
            /\ proc'[Watch].want # Null => proc'[Watch].want <= proc'[Watch].base
            /\ proc'[Watch].pc = "open" => proc'[Watch].want # Null)
      /\ (proc'[Watch].cont \in {"lenient", "persisted", "forced", "waitAuth"} => proc'[Watch].want # Null)
      /\ (lock' = Watch /\ proc'[Watch].pc \in LiveSteps => proc'[Watch].live.gen = gen)
  <2>1. CASE p = Watch
    BY <2>1, <1>1 DEF GoodGen, WatchGen
  <2>2. CASE p # Watch
    <3>1. lock' = Watch => lock = Watch
      BY <2>2, ProcsAssumption DEF Moves, Procs
    <3>2. proc'[Watch] = proc[Watch]
      BY <2>2, <1>1
    <3> QED BY <1>2, <3>1, <3>2 DEF GenSound
  <2> QED BY <2>1, <2>2
<1>6. proc'[Watch].live.gen <= gen
  <2>1. proc'[Watch].base # Null => proc'[Watch].base \in Nat
    BY <1>1, SessBoundsAssumption DEF Process
  <2> QED BY <1>5, <1>1, <2>1
<1> QED BY <1>1, <1>3, <1>4, <1>5, <1>6 DEF GenSound

LEMMA FrameFresh ==
  ASSUME SInv, NEW p \in Procs, NEW n, StepOf(p, n), Issues, GoodShape(p, n),
         ~torn, GoodFresh(p, n)
  PROVE  FreshSound'
<1>1. /\ proc' \in [Procs -> Process] /\ proc'[p] = n
      /\ \A r \in Procs \ {p} : proc'[r] = proc[r]
      /\ Watch \in Procs /\ gen' = gen /\ floor' = floor
  BY DEF StepOf, Moves, GoodShape, SInv, SessTypeOK, Procs
<1>2. FreshSound
  BY DEF SInv
<1>3. \A r \in Procs : proc'[r].pc \in AuthSteps => Fresh(proc'[r].sess, floor)
  BY <1>1, <1>2 DEF FreshSound, GoodFresh, Fresh
<1>4. proc'[Watch].live.gen = gen => Fresh(proc'[Watch].live, floor)
  BY <1>1, <1>2 DEF FreshSound, GoodFresh, Fresh
<1> QED BY <1>1, <1>3, <1>4 DEF FreshSound, GoodFresh, Fresh

LEMMA Frame ==
  ASSUME SInv, NEW p \in Procs, NEW n, StepOf(p, n), Issues, GoodShape(p, n), GoodTrust(n),
         ~torn => GoodGen(p, n) /\ GoodFresh(p, n)
  PROVE  SInv'
<1>1. torn' = torn /\ gen' = gen /\ Moves(p, n)
  BY DEF StepOf
<1> QED BY <1>1, FrameShape, FrameTrust, FrameGen, FrameFresh DEF SInv
-----------------------------------------------------------------------------
(* Where a failed authentication leads.                                       *)

LEMMA OffType == Off \in Process /\ NoSession \in Session
  BY SessBoundsAssumption
  DEF Off, Process, NoSession, Session, Issued, Steps, Conts, MaxWaitTries, MaxReauthAttempts

AgainOk(q, f) ==
  /\ f \in Process
  /\ f.pc \in {"off", "snapshot", "open", "reacquire"}
  /\ f.pc = "off" => f = Off
  /\ f.pc # "off" => /\ f.live = q.live /\ f.base = q.base /\ f.cont = q.cont
                     /\ f.expired = q.expired
                     /\ q.cont \in Waiting => f.want = q.want
  /\ f.pc = "reacquire" => q.cont = "waitReauth"
  /\ f.pc = "snapshot" => q.cont \in Waiting
  /\ f.pc = "open" => q.cont # "waitReauth"

LEMMA AgainFacts ==
  ASSUME NEW q \in Process
  PROVE  AgainOk(q, Again(q))
<1> DEFINE left == AttemptsLeft(q)
<1> USE DEF AgainOk, Waiting
<1>1. CASE ~left /\ q.cont \in {"waitAuth", "waitReauth"}
  <2>1. Again(q) = [q EXCEPT !.pc = "snapshot"]
    BY <1>1 DEF Again
  <2> QED BY <1>1, <2>1 DEF Process, Steps
<1>2. CASE ~left /\ q.cont \notin {"waitAuth", "waitReauth"}
  <2>1. Again(q) = Off
    BY <1>2 DEF Again
  <2> QED BY <2>1, OffType DEF Off
<1>3. CASE left
  <2>1. q.tries + 1 \in 0..MaxWaitTries - 1
    BY <1>3, SessBoundsAssumption DEF AttemptsLeft, Limit, MaxWaitTries, MaxLockTries, Process
  <2>2. CASE q.cont = "waitReauth"
    <3>1. Again(q) = [q EXCEPT !.pc = "reacquire", !.tries = @ + 1]
      BY <1>3, <2>2 DEF Again
    <3> QED BY <2>1, <2>2, <3>1 DEF Process, Steps
  <2>3. CASE q.cont # "waitReauth"
    <3>1. Again(q) = [q EXCEPT !.pc = "open", !.tries = @ + 1, !.again = FALSE,
                               !.want = IF q.cont = "waitAuth" THEN @ ELSE Null]
      BY <1>3, <2>3 DEF Again
    <3> QED BY <2>1, <2>3, <3>1 DEF Process, Steps
  <2> QED BY <2>2, <2>3
<1> QED BY <1>1, <1>2, <1>3

FailPcs == {"off", "relock", "strip", "clear", "snapshot", "open", "reacquire"}

FailedOk(q, r, f) ==
  /\ f \in Process
  /\ f.pc \in FailPcs
  /\ f.pc = "off" => f = Off
  /\ f.pc # "off" => f.live = q.live /\ f.base = q.base
  /\ f.pc = "open" => q.cont # "waitReauth" /\ f.cont = q.cont
                      /\ (q.cont \notin CommandConts => q.cont = "waitAuth")
                      /\ (q.cont = "waitAuth" => f.want = q.want)
  /\ f.pc = "reacquire" => q.cont = "waitReauth" /\ f.cont = "waitReauth" /\ f.want = q.want
  /\ f.pc = "snapshot" => /\ f.cont \in Waiting
                          /\ f.cont = "waitReauth" => q.cont \in {"reauth", "waitReauth"}
                          /\ \/ f.want = q.want /\ (f.cont = "waitAuth" => q.cont \in {"persisted", "waitAuth"})
                             \/ q.cont = "start" /\ r = "factor" /\ f.want = q.sess.gen
  /\ f.pc = "clear" => r = "factor" /\ f.want = q.sess.gen /\ f.cont = "persisted"
  /\ f.pc = "strip" => f.want = q.want /\ f.cont = q.cont /\ q.cont = "lenient"
  /\ f.pc = "relock" => f.want = q.want /\ f.cont = q.cont /\ q.cont = "idle"
  /\ f.cont # "reauth"
  /\ q.cont \notin CommandConts => f.cont \notin CommandConts

LEMMA FailedFacts ==
  ASSUME NEW q \in Process, NEW r \in Results, q.cont = "reauth" => q.expired > 0
  PROVE  FailedOk(q, r, Failed(q, r))
<1> DEFINE to == Route(q.cont, r)
           waits == IF q.cont \in {"reauth", "waitReauth"} THEN "waitReauth" ELSE "waitAuth"
<1> USE DEF FailedOk, Results, FailPcs
<1>1. to \in {"relock", "strip", "clear", "snapshot", "again", "off"}
  BY DEF Route
<1>2. CASE to = "off"
  <2>1. Failed(q, r) = Off
    BY <1>2 DEF Failed
  <2> QED BY <2>1, OffType DEF Off, CommandConts
<1>3. CASE to = "again"
  <2>1. Failed(q, r) = Again(q)
    BY <1>3 DEF Failed
  <2>2. q.cont \in {"waitAuth", "waitReauth", "login", "code", "submit"}
    BY <1>3 DEF Route
  <2>3. AgainOk(q, Failed(q, r))
    BY <2>1, AgainFacts
  <2> QED BY <2>2, <2>3 DEF AgainOk, Waiting, CommandConts, Off
<1>4. CASE to = "clear"
  <2>1. /\ Failed(q, r) = [q EXCEPT !.pc = "clear", !.cont = "persisted", !.want = q.sess.gen]
        /\ r = "factor"
    BY <1>4 DEF Failed, Route
  <2> QED BY <2>1 DEF Process, Steps, Conts, Session, CommandConts
<1>5. CASE to = "snapshot"
  <2>1. Failed(q, r) = [q EXCEPT !.pc = "snapshot", !.cont = waits,
                                 !.want = IF q.cont = "start" THEN q.sess.gen ELSE @,
                                 !.expired = IF q.cont = "reauth" THEN @ - 1 ELSE @]
    BY <1>5 DEF Failed
  <2>2. /\ q.cont \in {"start", "reauth", "waitAuth", "waitReauth", "persisted"}
        /\ q.cont = "start" => r = "factor"
    BY <1>5 DEF Route
  <2>3. (IF q.cont = "reauth" THEN q.expired - 1 ELSE q.expired) \in 0..MaxReauthAttempts
    BY DEF Process, MaxReauthAttempts
  <2>4. /\ waits \in {"waitAuth", "waitReauth"}
        /\ waits = "waitAuth" => q.cont \in {"start", "persisted", "waitAuth"}
        /\ waits = "waitReauth" => q.cont \in {"reauth", "waitReauth"}
        /\ (IF q.cont = "start" THEN q.sess.gen ELSE q.want) \in 0..MaxGen \cup {Null}
    BY <2>2 DEF Process, Session
  <2> HIDE DEF waits
  <2>5. Failed(q, r) \in Process
    BY <2>1, <2>3, <2>4 DEF Process, Steps, Conts
  <2>6. /\ Failed(q, r).pc = "snapshot" /\ Failed(q, r).cont = waits
        /\ Failed(q, r).live = q.live /\ Failed(q, r).base = q.base
        /\ Failed(q, r).want = IF q.cont = "start" THEN q.sess.gen ELSE q.want
    BY <2>1 DEF Process
  <2> QED BY <2>2, <2>4, <2>5, <2>6 DEF CommandConts, Waiting
<1>6. CASE to \in {"relock", "strip"}
  <2>1. /\ Failed(q, r) = [q EXCEPT !.pc = to]
        /\ to = "relock" => q.cont = "idle"
        /\ to = "strip" => q.cont = "lenient"
    BY <1>6 DEF Failed, Route
  <2> QED BY <1>6, <2>1 DEF Process, Steps, CommandConts
<1> QED BY <1>1, <1>2, <1>3, <1>4, <1>5, <1>6

FreshFiles(fs) ==
  /\ fs.session # Null =>
       /\ fs.session.tok = 0 \/ fs.session.tok > floor.tok
       /\ fs.session.trust = 0 \/ fs.session.trust > floor.trust
  /\ fs.jar = 0 \/ fs.jar > floor.tok

\* What every step but a reset leaves alone.
NoReset == gen' = gen /\ floor' = floor /\ torn' = torn /\ runs' = runs

\* What a step of p may do to the files.
FilesBy(p) ==
  /\ files' \in FileStates /\ touched' \in BOOLEAN
  /\ files'.session # files.session => lock \in {Null, p}
  /\ ~torn => FreshFiles(files')

\* The facts about one process that the steps below start from.
LEMMA ProcessFacts ==
  ASSUME SInv, NEW p \in Procs
  PROVE  /\ proc[p] \in Process /\ p # Null /\ Watch \in Procs
         /\ proc[p].want # Null => proc[p].want \in Nat
         /\ proc[p].base # Null => proc[p].base \in Nat
         /\ {gen, proc[p].sess.gen, proc[p].live.gen} \subseteq Nat
         /\ Null \notin Nat
         /\ {proc[p].sess.trust, proc[p].live.trust, proc[p].sess.tok, proc[p].live.tok,
             proc[p].sess.jar, proc[p].live.jar} \subseteq Nat
         /\ {issued.tok, issued.trust, floor.tok, floor.trust} \subseteq Nat
         /\ files \in FileStates /\ issued \in Pairs /\ runs \in 0..MaxRuns /\ touched \in BOOLEAN
         /\ gen \in 0..MaxGen /\ torn \in BOOLEAN
<1>1. proc[p] \in Process
  BY DEF SInv, SessTypeOK
<1>2. 0..MaxGen \subseteq Nat /\ Issued \subseteq Nat
  BY SessBoundsAssumption DEF Issued
<1>3. /\ proc[p].want # Null => proc[p].want \in Nat
      /\ proc[p].base # Null => proc[p].base \in Nat
      /\ proc[p].sess \in Session /\ proc[p].live \in Session
  BY <1>1, <1>2 DEF Process
<1>4. /\ {proc[p].sess.gen, proc[p].live.gen} \subseteq Nat
      /\ {proc[p].sess.trust, proc[p].live.trust, proc[p].sess.tok, proc[p].live.tok,
          proc[p].sess.jar, proc[p].live.jar} \subseteq Nat
  BY <1>2, <1>3 DEF Session
<1>5. {issued.tok, issued.trust, floor.tok, floor.trust} \subseteq Nat /\ gen \in Nat
  BY <1>2 DEF SInv, SessTypeOK
<1>6. /\ p # Null /\ Watch \in Procs
      /\ files \in FileStates /\ issued \in Pairs /\ runs \in 0..MaxRuns /\ touched \in BOOLEAN
      /\ gen \in 0..MaxGen /\ torn \in BOOLEAN
  BY ProcsAssumption DEF Procs, SInv, SessTypeOK, FileStates, Pairs
<1> QED BY <1>1, <1>3, <1>4, <1>5, <1>6, NullAssumption

\* A failed authentication, also one that has removed the files.
LEMMA AuthFailsFacts ==
  ASSUME SInv, NEW p \in Procs, NEW r \in Results, AuthFails(p, r), FilesBy(p), Issues,
         gen' = gen, torn' = torn, runs' = runs, floor' \in {floor, issued},
         r = "factor" => proc[p].pc = "factor"
  PROVE  \E n : /\ Moves(p, n) /\ GoodShape(p, n) /\ GoodTrust(n) /\ (~torn => GoodGen(p, n))
               /\ n.pc \notin AuthSteps \cup {"remove"}
               /\ n.live \in {NoSession, proc[p].live}
               /\ proc' = [proc EXCEPT ![p] = n] /\ proc'[p] = n
<1> DEFINE q == proc[p]
           f == Failed(q, r)
           n == [f EXCEPT !.sess = NoSession, !.again = FALSE, !.loaded = FALSE]
<1>1. FailedOk(q, r, f)
  BY FailedFacts, ProcessFacts DEF SInv, ContShape
<1> HIDE DEF f
<1>2. /\ n \in Process /\ n.pc = f.pc /\ n.cont = f.cont /\ n.want = f.want /\ n.base = f.base
      /\ n.live = f.live /\ n.sess = NoSession /\ n.expired = f.expired
  BY <1>1, OffType DEF FailedOk, Process
<1>3. proc' = [proc EXCEPT ![p] = n] /\ lock' = Unlocked(p)
  BY DEF AuthFails, Becomes, f
<1> HIDE DEF n
<1>4. /\ lock' # p /\ lock' \in {lock, Null} /\ (lock' # lock => lock = p)
  BY <1>3, ProcessFacts DEF Unlocked
<1>5. Moves(p, n)
  <2>1. torn \in BOOLEAN
    BY DEF SInv, SessTypeOK
  <2> QED BY <1>3, <1>4, <2>1, ProcessFacts DEF Moves, FilesBy
<1>6. GoodShape(p, n)
  <2>1. n.pc \notin Talking /\ n.pc \notin {"validate", "poll", "init", "cycle", "sleep"}
    BY <1>1, <1>2 DEF FailedOk, FailPcs, Talking
  <2>2. p = Watch => q.cont \notin CommandConts
    BY DEF SInv, ContShape
  <2> QED BY <1>1, <1>2, <1>4, <2>1, <2>2 DEF GoodShape, FailedOk, FailPcs, Waiting
<1>7. GoodTrust(n)
  <2>1. n.pc \notin AuthSteps
    BY <1>1, <1>2 DEF FailedOk, FailPcs, AuthSteps
  <2>2. n.sess.trust = 0 /\ n.live.trust \in {0, q.live.trust}
    BY <1>1, <1>2 DEF FailedOk, NoSession, Off
  <2>3. q.live.trust <= issued.trust
    BY DEF SInv, TrustSound
  <2>4. issued'.trust \in Nat
    BY SessBoundsAssumption DEF Issues, Pairs, Issued
  <2> QED BY <2>1, <2>2, <2>3, <2>4, ProcessFacts DEF GoodTrust, Issues
<1>8. ASSUME ~torn PROVE GoodGen(p, n)
  <2>1. n.pc \notin AuthSteps \cup {"discard", "remove"}
    BY <1>1, <1>2 DEF FailedOk, FailPcs, AuthSteps
  <2>2. n = Off => n.live.gen = 0 /\ n.base = Null /\ n.pc = "off" /\ n.cont = "start" /\ n.want = Null
                   /\ n.live = NoSession
    BY DEF Off, NoSession
  <2>3. f = Off => /\ n.live.gen = 0 /\ n.base = Null /\ n.pc = "off" /\ n.cont = "start"
                   /\ n.live = NoSession
    BY <1>2 DEF Off, NoSession
  <2>4. GenSound
    BY <1>8 DEF SInv
  <2>5. ASSUME p = Watch PROVE WatchGen(n)
    <3>1. r = "factor" => q.sess.gen = gen /\ q.base = gen
      BY <2>4, <2>5 DEF GenSound, AuthSteps, SInv, OneTalker, Talking
    <3>2. CASE n.pc = "off"
      BY <1>1, <1>2, <1>4, <2>3, <2>5, <3>2 DEF FailedOk, WatchGen, LiveSteps
    <3>3. CASE n.pc # "off"
      <4>1. /\ n.live = q.live /\ n.base = q.base
        BY <1>1, <1>2, <3>3 DEF FailedOk
      <4>2. q.base # Null
        <5>1. q.base = Null => q.cont = "start" /\ r # "factor"
          BY <2>4, <2>5, ProcessFacts, <3>1 DEF GenSound
        <5> QED BY <5>1, <1>1, <1>2, <3>3 DEF FailedOk, FailPcs, CommandConts, Waiting
      <4>3. n.want # Null => n.want <= q.base
        <5>1. q.cont \notin CommandConts
          BY <2>5 DEF SInv, ContShape
        <5>2. n.want = q.want \/ (r = "factor" /\ n.want = q.sess.gen)
          BY <1>1, <1>2, <3>3, <5>1 DEF FailedOk, FailPcs
        <5> QED BY <2>4, <2>5, <3>1, <4>2, <5>2, ProcessFacts DEF GenSound
      <4>4. n.cont \in {"lenient", "persisted", "forced", "waitAuth"} => n.want # Null
        BY <1>1, <1>2, <2>4, <2>5, <3>3, ProcessFacts DEF FailedOk, FailPcs, GenSound, CommandConts, Waiting
      <4>5. n.pc = "open" => n.want # Null
        BY <1>1, <1>2, <2>4, <2>5, <4>4 DEF FailedOk, SInv, ContShape
      <4> QED BY <1>4, <2>4, <2>5, <4>1, <4>2, <4>3, <4>4, <4>5 DEF WatchGen, GenSound
    <3> QED BY <3>2, <3>3
  <2> QED BY <2>1, <2>5 DEF GoodGen
<1>9. n.live \in {NoSession, q.live} /\ n.pc \notin AuthSteps \cup {"remove"} /\ proc'[p] = n
  <2>1. f = Off => n.live = NoSession
    BY <1>2 DEF Off
  <2>2. proc'[p] = n
    BY <1>3 DEF SInv, SessTypeOK
  <2> QED BY <1>1, <1>2, <2>1, <2>2 DEF FailedOk, FailPcs, AuthSteps
<1> QED BY <1>3, <1>5, <1>6, <1>7, <1>8, <1>9

LEMMA AuthFailsSafe ==
  ASSUME SInv, NEW p \in Procs, NEW r \in Results, AuthFails(p, r), NoReset, FilesBy(p), Issues,
         r = "factor" => proc[p].pc = "factor"
  PROVE  SInv'
<1>1. PICK n : /\ Moves(p, n) /\ GoodShape(p, n) /\ GoodTrust(n) /\ (~torn => GoodGen(p, n))
               /\ n.pc \notin AuthSteps /\ n.live \in {NoSession, proc[p].live}
  BY AuthFailsFacts DEF NoReset
<1>2. ASSUME ~torn PROVE GoodFresh(p, n)
  <2>1. Fresh(NoSession, floor)
    BY DEF Fresh, NoSession
  <2>2. p = Watch /\ n.live.gen = gen => Fresh(n.live, floor)
    BY <1>1, <1>2, <2>1 DEF SInv, FreshSound
  <2> QED BY <1>1, <1>2, <2>2 DEF GoodFresh, FilesBy, FreshFiles
<1>3. StepOf(p, n)
  BY <1>1 DEF StepOf, NoReset
<1> QED BY <1>1, <1>2, <1>3, Frame

\* The watch process goes on with a live session of the current generation.
LEMMA LiveSafe ==
  ASSUME SInv, NEW n \in Process, StepOf(Watch, n), FilesBy(Watch), Issues,
         lock' = Watch, n.pc \in {"init", "cycle"}, n.sess = NoSession, n.want = Null,
         n.cont = "start", n.live.trust <= issued'.trust,
         ~torn => /\ n.live.gen = gen /\ n.base = gen /\ Fresh(n.live, floor)
                  /\ n.live.gen = proc[Watch].live.gen \/ lock = Watch
  PROVE  SInv'
<1>1. n.pc \notin AuthSteps \cup {"discard", "remove", "open", "off", "strip", "clear", "snapshot",
                                  "poll", "validate", "reacquire"}
      /\ "start" \notin CommandConts \cup {"lenient", "persisted", "forced", "waitAuth", "reauth"}
  BY DEF AuthSteps, CommandConts
<1>2. GoodShape(Watch, n)
  BY <1>1 DEF GoodShape
<1>3. NoSession.trust = 0 /\ issued'.trust \in Nat
  BY SessBoundsAssumption DEF NoSession, Issues, Pairs, Issued
<1>4. GoodTrust(n)
  BY <1>1, <1>3 DEF GoodTrust
<1>5. ASSUME ~torn PROVE GoodGen(Watch, n) /\ GoodFresh(Watch, n)
  <2>1. gen \in Nat /\ Null \notin Nat
    BY ProcessFacts, NullAssumption DEF Procs
  <2> QED BY <1>1, <1>5, <2>1 DEF GoodGen, WatchGen, GoodFresh, FilesBy, FreshFiles
<1> QED BY <1>2, <1>4, <1>5, Frame DEF Procs

LEMMA CyclingType ==
  ASSUME NEW q \in Process, NEW s \in Session
  PROVE  /\ Cycling(q, s) \in Process /\ Cycling(q, s).pc = "cycle" /\ Cycling(q, s).live = s
         /\ Cycling(q, s).sess = NoSession /\ Cycling(q, s).want = Null
         /\ Cycling(q, s).cont = "start" /\ Cycling(q, s).base = q.base
  BY OffType DEF Cycling, Process, Off, Steps

LEMMA OffSafe ==
  ASSUME SInv, NEW p \in Procs, StepOf(p, Off), FilesBy(p), Issues, lock' # p
  PROVE  SInv'
<1>1. /\ Off.pc = "off" /\ Off.cont = "start" /\ Off.want = Null /\ Off.base = Null
      /\ Off.sess = NoSession /\ Off.live = NoSession
      /\ NoSession.trust = 0 /\ NoSession.gen = 0 /\ Fresh(NoSession, floor)
  BY DEF Off, NoSession, Fresh
<1>2. GoodShape(p, Off)
  BY <1>1, OffType DEF GoodShape, Talking, CommandConts
<1>3. issued'.trust \in Nat
  BY SessBoundsAssumption DEF Issues, Pairs, Issued
<1>4. GoodTrust(Off)
  BY <1>1, <1>3 DEF GoodTrust, AuthSteps
<1>5. ASSUME ~torn PROVE GoodGen(p, Off) /\ GoodFresh(p, Off)
  BY <1>1, <1>5 DEF GoodGen, WatchGen, GoodFresh, FilesBy, FreshFiles, AuthSteps, LiveSteps
<1> QED BY <1>2, <1>4, <1>5, Frame

LEMMA AuthenticatedSafe ==
  ASSUME SInv, NEW p \in Procs, NEW s \in Session, Authenticated(p, s), NoReset, FilesBy(p), Issues,
         proc[p].pc \in AuthSteps, s.gen = proc[p].sess.gen, s.trust <= issued'.trust,
         ~torn => Fresh(s, floor)
  PROVE  SInv'
<1>1. lock = p
  BY DEF SInv, OneTalker, AuthSteps, Talking
<1>2. CASE p # Watch
  <2>1. proc' = [proc EXCEPT ![p] = Off] /\ lock' = Null
    BY <1>2 DEF Authenticated, Becomes
  <2>2. StepOf(p, Off)
    BY <1>1, <2>1, ProcessFacts DEF StepOf, Moves, NoReset, FilesBy
  <2> QED BY <2>1, <2>2, OffSafe, ProcessFacts
<1>3. CASE p = Watch
  <2> DEFINE q == proc[Watch]
             n == IF q.cont \in {"reauth", "waitReauth", "idle"} THEN Cycling(q, s)
                  ELSE [Off EXCEPT !.pc = "init", !.tty = q.tty, !.live = s,
                                   !.retried = q.retried, !.base = q.base]
  <2>1. proc' = [proc EXCEPT ![Watch] = n] /\ lock' = lock
    BY <1>3 DEF Authenticated, Becomes
  <2>2. /\ n \in Process /\ n.pc \in {"init", "cycle"} /\ n.live = s /\ n.sess = NoSession
        /\ n.want = Null /\ n.cont = "start" /\ n.base = q.base
    <3>1. q \in Process
      BY <1>3, ProcessFacts
    <3>2. CASE q.cont \in {"reauth", "waitReauth", "idle"}
      BY <3>1, <3>2, CyclingType
    <3>3. CASE q.cont \notin {"reauth", "waitReauth", "idle"}
      BY <3>1, <3>3, OffType DEF Process, Off, Steps
    <3> QED BY <3>2, <3>3
  <2> HIDE DEF n
  <2>3. StepOf(Watch, n)
    BY <1>3, <2>1, ProcessFacts DEF StepOf, Moves, NoReset, FilesBy
  <2>4. ~torn => s.gen = gen /\ q.base = gen
    BY <1>1, <1>3 DEF SInv, GenSound
  <2> QED BY <1>1, <1>3, <2>1, <2>2, <2>3, <2>4, LiveSafe
<1> QED BY <1>2, <1>3

Caches == {"none", "fresh", "old"}

LEMMA SavedFacts ==
  ASSUME SInv, NEW p \in Procs, lock = p, NEW s \in Session, NEW changed \in BOOLEAN,
         NEW cache \in Caches, Saved(s, changed, cache), ~torn => Fresh(s, floor)
  PROVE  /\ FilesBy(p)
         /\ files'.session = IF changed THEN [tok |-> s.tok, trust |-> s.trust] ELSE files.session
<1> DEFINE fs == [session |-> IF changed THEN [tok |-> s.tok, trust |-> s.trust] ELSE files.session,
                  jar |-> IF s.jar # 0 THEN s.jar ELSE files.jar,
                  cache |-> cache]
<1>1. files' = fs /\ touched' = (touched \/ fs # files)
  BY DEF Saved, Write
<1>2. touched' \in BOOLEAN
  BY <1>1, Zenon
<1>3. /\ fs.session = IF changed THEN [tok |-> s.tok, trust |-> s.trust] ELSE files.session
      /\ fs.jar = IF s.jar # 0 THEN s.jar ELSE files.jar
      /\ fs.cache = cache
  OBVIOUS
<1>4. fs \in FileStates
  BY ProcessFacts DEF FileStates, Session, Caches
<1>5. ~torn => FreshFiles(fs)
  <2>1. ~torn => FreshFiles(files)
    BY DEF SInv, FreshSound, FreshFiles
  <2> HIDE DEF fs
  <2> QED BY <1>3, <2>1 DEF FreshFiles, Fresh
<1> QED BY <1>1, <1>2, <1>3, <1>4, <1>5 DEF FilesBy

LEMMA KeptFacts ==
  ASSUME SInv, NEW p \in Procs, KeepFiles
  PROVE  FilesBy(p) /\ files' = files
<1>1. ~torn => FreshFiles(files)
  BY DEF SInv, FreshSound, FreshFiles
<1> QED BY <1>1, ProcessFacts DEF KeepFiles, FilesBy, FreshFiles

\* An authentication goes on with the session s.
LEMMA AuthGoesSafe ==
  ASSUME SInv, NEW p \in Procs, proc[p].pc \in AuthSteps, NEW s \in Session,
         NEW step \in AuthSteps \cup {"discard"},
         proc' = [proc EXCEPT ![p] = [proc[p] EXCEPT !.pc = step, !.sess = s]],
         lock' = lock, NoReset, FilesBy(p), Issues,
         s.gen = proc[p].sess.gen, s.trust <= issued'.trust,
         files'.session # Null => files'.session.trust <= s.trust,
         ~torn => Fresh(s, floor)
  PROVE  SInv'
<1> DEFINE q == proc[p]
           n == [q EXCEPT !.pc = step, !.sess = s]
<1>1. q \in Process /\ lock = p
  BY ProcessFacts DEF SInv, OneTalker, AuthSteps, Talking
<1>2. /\ n \in Process /\ n.pc = step /\ n.sess = s /\ n.cont = q.cont /\ n.want = q.want
      /\ n.live = q.live /\ n.base = q.base /\ n.expired = q.expired
  BY <1>1 DEF Process, Steps, AuthSteps
<1>3. proc' = [proc EXCEPT ![p] = n]
  OBVIOUS
<1> HIDE DEF n
<1>4. StepOf(p, n)
  BY <1>1, <1>3, ProcessFacts DEF StepOf, Moves, NoReset, FilesBy
<1>5. step \notin {"off", "open", "strip", "clear", "snapshot", "poll", "validate", "reacquire",
                   "init", "cycle", "sleep", "remove", "relock"}
  BY DEF AuthSteps
<1>6. GoodShape(p, n)
  BY <1>1, <1>2, <1>5 DEF GoodShape, SInv, ContShape
<1>7. GoodTrust(n)
  <2>1. q.live.trust <= issued'.trust
    <3>1. q.live.trust <= issued.trust /\ issued'.trust \in Nat
      BY SessBoundsAssumption DEF SInv, TrustSound, Issues, Pairs, Issued
    <3> QED BY <3>1, ProcessFacts DEF Issues
  <2> QED BY <1>2, <2>1 DEF GoodTrust
<1>8. ASSUME ~torn PROVE GoodGen(p, n) /\ GoodFresh(p, n)
  <2>1. GenSound /\ FreshSound
    BY <1>8 DEF SInv
  <2>2. q.sess.gen = gen
    BY <2>1 DEF GenSound
  <2>3. p = Watch => WatchGen(n)
    BY <1>1, <1>2, <1>5, <2>1 DEF GenSound, WatchGen, LiveSteps, AuthSteps
  <2>4. p = Watch /\ n.live.gen = gen => Fresh(n.live, floor)
    BY <1>2, <2>1 DEF FreshSound
  <2> QED BY <1>2, <1>5, <1>8, <2>2, <2>3, <2>4 DEF GoodGen, GoodFresh, FilesBy, FreshFiles
<1> QED BY <1>4, <1>6, <1>7, <1>8, Frame

LEMMA AuthFacts ==
  ASSUME SInv, NEW p \in Procs, proc[p].pc \in AuthSteps
  PROVE  /\ lock = p /\ proc[p].sess \in Session /\ proc[p].sess.trust <= issued.trust
         /\ files.session # Null => files.session.trust <= proc[p].sess.trust
         /\ ~torn => Fresh(proc[p].sess, floor)
  BY ProcessFacts DEF SInv, OneTalker, AuthSteps, Talking, TrustSound, FreshSound, Process

\* An answer that is saved, with nothing new issued.
LEMMA AnswerFacts ==
  ASSUME SInv, NEW p \in Procs, proc[p].pc \in AuthSteps, NEW s \in Session,
         NEW changed \in BOOLEAN, NEW cache \in Caches, Saved(s, changed, cache),
         s.trust = proc[p].sess.trust, ~torn => Fresh(s, floor), issued' = issued
  PROVE  /\ FilesBy(p) /\ Issues /\ s.trust <= issued'.trust
         /\ files'.session # Null => files'.session.trust <= s.trust
<1>1. /\ FilesBy(p)
      /\ files'.session = IF changed THEN [tok |-> s.tok, trust |-> s.trust] ELSE files.session
  BY SavedFacts, AuthFacts
<1>2. s.trust \in Nat /\ s.trust <= issued.trust
  BY AuthFacts, ProcessFacts
<1>3. files'.session # Null => files'.session.trust <= s.trust
  BY <1>1, <1>2, AuthFacts
<1>4. files'.session # Null => files'.session.trust <= issued.trust
  BY <1>1, <1>2 DEF SInv, TrustSound
<1> QED BY <1>1, <1>2, <1>3, <1>4, ProcessFacts DEF Issues

LEMMA KeptIssues ==
  ASSUME SInv, files'.session = files.session, issued' = issued
  PROVE  Issues
<1>1. Watch \in Procs
  BY DEF Procs
<1> QED BY <1>1, ProcessFacts DEF Issues, SInv, TrustSound

LEMMA StartSafe ==
  ASSUME SInv, NEW p \in Procs, NEW cont \in Conts, NEW tty \in BOOLEAN, Start(p, cont, tty)
  PROVE  SInv'
<1> DEFINE n == [Off EXCEPT !.pc = "open", !.cont = cont, !.tty = tty]
<1>1. /\ n \in Process /\ n.pc = "open" /\ n.cont = cont /\ n.want = Null /\ n.base = Null
      /\ n.sess = NoSession /\ n.live = NoSession /\ n.expired = 0
  BY OffType DEF Off, Process, Steps
<1>2. /\ proc[p].pc = "off" /\ proc' = [proc EXCEPT ![p] = n] /\ lock' = lock /\ gen' = gen
      /\ files' = files /\ issued' = issued /\ floor' = floor /\ touched' = touched /\ torn' = torn
      /\ runs' \in 0..MaxRuns
      /\ cont \in IF p = Watch THEN {"start"} ELSE CommandConts
  <2>1. runs < MaxRuns /\ runs' = runs + 1
    BY DEF Start
  <2>2. runs' \in 0..MaxRuns
    BY <2>1, ProcessFacts, SessBoundsAssumption
  <2> QED BY <2>2 DEF Start, Becomes, CommandConts
<1> HIDE DEF n
<1>3. FilesBy(p) /\ Issues
  BY <1>2, KeptFacts, KeptIssues DEF KeepFiles
<1>4. StepOf(p, n)
  BY <1>2, <1>3, ProcessFacts DEF StepOf, Moves, FilesBy
<1>5. lock # p
  BY <1>2 DEF SInv, Unheld
<1>6. GoodShape(p, n)
  BY <1>1, <1>2, <1>5 DEF GoodShape, Talking, CommandConts
<1>7. NoSession.trust = 0 /\ NoSession.gen = 0 /\ Fresh(NoSession, floor)
  BY DEF NoSession, Fresh
<1>8. GoodTrust(n)
  BY <1>1, <1>2, <1>7, ProcessFacts DEF GoodTrust, AuthSteps
<1>9. ~torn => GoodGen(p, n) /\ GoodFresh(p, n)
  BY <1>1, <1>2, <1>3, <1>5, <1>7 DEF GoodGen, WatchGen, GoodFresh, FilesBy, FreshFiles, AuthSteps, LiveSteps, CommandConts
<1> QED BY <1>3, <1>4, <1>6, <1>8, <1>9, Frame

LEMMA CrashSafe ==
  ASSUME SInv, NEW p \in Procs, Crash(p)
  PROVE  SInv'
<1>1. FilesBy(p) /\ Issues
  BY KeptFacts, KeptIssues DEF Crash, KeepFiles
<1>2. lock' \in {lock, Null} /\ (lock' # lock => lock = p) /\ lock' # p
  BY ProcessFacts DEF Crash, Unlocked
<1>3. StepOf(p, Off)
  BY <1>1, <1>2, ProcessFacts DEF StepOf, Moves, FilesBy, Crash, Becomes
<1> QED BY <1>1, <1>2, <1>3, OffSafe

LEMMA OpenSessionSafe ==
  ASSUME SInv, NEW p \in Procs, OpenSession(p)
  PROVE  SInv'
<1> DEFINE q == proc[p]  r == Acquire(q.want)
<1>1. /\ q.pc = "open" /\ q \in Process /\ NoReset
      /\ r \in {"contended", "reset", "ok"}
      /\ r = "ok" => lock = Null /\ (q.want # Null => gen = q.want)
  BY ProcessFacts DEF OpenSession, Acquire, NoReset
<1>2. FilesBy(p) /\ Issues /\ files' = files /\ issued' = issued
  BY KeptFacts, KeptIssues DEF OpenSession, KeepFiles
<1>3. CASE r # "ok" /\ AuthFails(p, r)
  BY <1>1, <1>2, <1>3, AuthFailsSafe DEF Results
<1>4. CASE r = "ok" /\ proc' = [proc EXCEPT ![p] = Off] /\ lock' = lock
  <2>1. StepOf(p, Off) /\ lock' # p
    BY <1>1, <1>2, <1>4, ProcessFacts DEF StepOf, Moves, FilesBy, NoReset
  <2> QED BY <1>2, <2>1, OffSafe
<1> DEFINE n == [q EXCEPT !.pc = IF q.cont = "reset" THEN "discard" ELSE "inner",
                          !.sess = Loaded,
                          !.base = IF @ = Null THEN gen ELSE @,
                          !.loaded = files.session # Null \/ files.jar # 0]
<1>5. CASE r = "ok" /\ lock' = p /\ proc' = [proc EXCEPT ![p] = n]
  <2>1. /\ Loaded \in Session /\ Loaded.gen = gen
        /\ files.session # Null => Loaded.trust = files.session.trust
        /\ files.session = Null => Loaded.trust = 0
        /\ Loaded.trust \in Nat /\ Loaded.trust <= issued.trust
        /\ ~torn => Fresh(Loaded, floor)
    <3>1. /\ Loaded \in Session /\ Loaded.gen = gen
          /\ Loaded.trust = (IF files.session = Null THEN 0 ELSE files.session.trust)
          /\ Loaded.tok = (IF files.session = Null THEN 0 ELSE files.session.tok)
          /\ Loaded.jar = files.jar
      BY ProcessFacts, SessBoundsAssumption DEF Loaded, Session, FileStates, Issued
    <3>2. files.session # Null => files.session.trust <= issued.trust
      BY DEF SInv, TrustSound
    <3>3. Loaded.trust \in Nat
      BY <3>1, SessBoundsAssumption DEF Session, Issued
    <3> QED BY <3>1, <3>2, <3>3, ProcessFacts DEF SInv, FreshSound, Fresh
  <2>2. /\ n \in Process /\ n.pc \in {"discard", "inner"} /\ n.sess = Loaded /\ n.want = q.want
        /\ n.cont = q.cont /\ n.live = q.live /\ n.expired = q.expired
        /\ n.base = IF q.base = Null THEN gen ELSE q.base
    <3> DEFINE step == IF q.cont = "reset" THEN "discard" ELSE "inner"
               base == IF q.base = Null THEN gen ELSE q.base
               found == files.session # Null \/ files.jar # 0
    <3>1. found \in BOOLEAN
      BY Zenon
    <3>2. step \in {"discard", "inner"} /\ base \in 0..MaxGen \cup {Null}
      BY <1>1, ProcessFacts DEF Process
    <3>3. n = [q EXCEPT !.pc = step, !.sess = Loaded, !.base = base, !.loaded = found]
      BY Zenon
    <3> HIDE DEF step, base, found, n
    <3>4. /\ n \in Process /\ n.pc = step /\ n.sess = Loaded /\ n.want = q.want
          /\ n.cont = q.cont /\ n.live = q.live /\ n.expired = q.expired /\ n.base = base
      BY <1>1, <2>1, <3>1, <3>2, <3>3 DEF Process, Steps
    <3> QED BY <3>2, <3>4 DEF base
  <2> HIDE DEF n
  <2>3. StepOf(p, n)
    BY <1>1, <1>2, <1>5, ProcessFacts DEF StepOf, Moves, FilesBy, NoReset
  <2>4. GoodShape(p, n)
    BY <1>5, <2>2 DEF GoodShape, SInv, ContShape
  <2>5. GoodTrust(n)
    <3>1. q.live.trust <= issued.trust
      BY DEF SInv, TrustSound
    <3> QED BY <1>2, <2>1, <2>2, <3>1, ProcessFacts DEF GoodTrust, FileStates
  <2>6. ASSUME ~torn PROVE GoodGen(p, n) /\ GoodFresh(p, n)
    <3>1. GenSound /\ FreshSound
      BY <2>6 DEF SInv
    <3>2. ASSUME p = Watch PROVE WatchGen(n)
      <4>1. n.base = gen /\ q.live.gen <= gen
        <5>1. q.base # Null => q.base = gen
          BY <1>1, <1>5, <3>1, <3>2, ProcessFacts DEF GenSound
        <5> QED BY <2>2, <3>1, <3>2, <5>1 DEF GenSound
      <4>2. q.want # Null => q.want = gen
        BY <1>1, <1>5
      <4> QED BY <2>2, <3>1, <3>2, <4>1, <4>2, ProcessFacts DEF WatchGen, GenSound, LiveSteps
    <3>3. p = Watch /\ n.live.gen = gen => Fresh(n.live, floor)
      BY <2>2, <3>1 DEF FreshSound
    <3> QED BY <1>2, <2>1, <2>2, <2>6, <3>2, <3>3 DEF GoodGen, GoodFresh, FilesBy, FreshFiles
  <2> QED BY <1>2, <2>3, <2>4, <2>5, <2>6, Frame
<1> QED BY <1>3, <1>4, <1>5 DEF OpenSession, Becomes

LEMMA GoesFacts ==
  ASSUME SInv, NEW p \in Procs, NEW step, Goes(p, step)
  PROVE  proc' = [proc EXCEPT ![p] = [proc[p] EXCEPT !.pc = step, !.sess = proc[p].sess]]
<1>1. [proc[p] EXCEPT !.pc = step] = [proc[p] EXCEPT !.pc = step, !.sess = proc[p].sess]
  BY ProcessFacts DEF Process
<1> QED BY <1>1 DEF Goes, Becomes

LEMMA ValidateTokenSafe ==
  ASSUME SInv, NEW p \in Procs, ValidateToken(p)
  PROVE  SInv'
<1> DEFINE q == proc[p]
<1>1. q.pc \in AuthSteps /\ NoReset /\ issued' = issued /\ "fresh" \in Caches /\ files.cache \in Caches
  BY ProcessFacts DEF ValidateToken, AuthSteps, NoReset, Caches, FileStates
<1>2. /\ lock = p /\ q.sess \in Session /\ q.sess.trust <= issued.trust
      /\ files.session # Null => files.session.trust <= q.sess.trust
      /\ ~torn => Fresh(q.sess, floor)
  BY <1>1, AuthFacts
<1>3. CASE Authenticated(p, q.sess) /\ KeepFiles
  <2>1. FilesBy(p) /\ Issues
    BY <1>1, <1>3, KeptFacts, KeptIssues
  <2> QED BY <1>1, <1>2, <1>3, <2>1, AuthenticatedSafe
<1>4. ASSUME NEW changed \in BOOLEAN,
             \/ Saved(q.sess, changed, "fresh") /\ Authenticated(p, q.sess)
             \/ Saved(q.sess, changed, files.cache) /\ Goes(p, "login") /\ UNCHANGED lock
             \/ Saved(q.sess, changed, files.cache) /\ AuthFails(p, "failed")
      PROVE  SInv'
  <2>1. /\ FilesBy(p) /\ Issues /\ q.sess.trust <= issued'.trust
        /\ files'.session # Null => files'.session.trust <= q.sess.trust
    BY <1>1, <1>2, <1>4, AnswerFacts
  <2>2. CASE Authenticated(p, q.sess)
    BY <1>1, <1>2, <2>1, <2>2, AuthenticatedSafe
  <2>3. CASE Goes(p, "login") /\ UNCHANGED lock
    <3>1. "login" \in AuthSteps \cup {"discard"}
      BY DEF AuthSteps
    <3>2. proc' = [proc EXCEPT ![p] = [proc[p] EXCEPT !.pc = "login", !.sess = proc[p].sess]]
      BY <2>3, GoesFacts
    <3> QED BY <1>1, <1>2, <2>1, <2>3, <3>1, <3>2, AuthGoesSafe
  <2>4. CASE AuthFails(p, "failed")
    BY <1>1, <2>1, <2>4, AuthFailsSafe DEF Results
  <2> QED BY <1>4, <2>2, <2>3, <2>4
<1> QED BY <1>3, <1>4 DEF ValidateToken

\* The jar of a session that /accountLogin accepted belongs to its token.
LEMMA JarOfToken ==
  ASSUME NEW s \in Session
  PROVE  /\ [s EXCEPT !.jar = s.tok] \in Session
         /\ [s EXCEPT !.jar = s.tok].trust = s.trust /\ [s EXCEPT !.jar = s.tok].gen = s.gen
         /\ Fresh(s, floor) => Fresh([s EXCEPT !.jar = s.tok], floor)
  BY DEF Session, Fresh

LEMMA AuthenticateWithTokenSafe ==
  ASSUME SInv, NEW p \in Procs, AuthenticateWithToken(p)
  PROVE  SInv'
<1> DEFINE q == proc[p]
           s == [q.sess EXCEPT !.jar = q.sess.tok]
           cache == IF q.cont = "code" THEN files.cache ELSE "fresh"
<1>1. q.pc \in AuthSteps /\ NoReset /\ issued' = issued /\ cache \in Caches /\ files.cache \in Caches
  BY ProcessFacts DEF AuthenticateWithToken, AuthSteps, NoReset, Caches, FileStates
<1>2. /\ lock = p /\ q.sess \in Session /\ q.sess.trust <= issued.trust
      /\ files.session # Null => files.session.trust <= q.sess.trust
      /\ ~torn => Fresh(q.sess, floor)
  BY <1>1, AuthFacts
<1>3. /\ s \in Session /\ s.trust = q.sess.trust /\ s.gen = q.sess.gen
      /\ ~torn => Fresh(s, floor)
  BY <1>2, JarOfToken
<1>4. PICK changed \in BOOLEAN :
       \/ Saved(s, changed, cache) /\ Authenticated(p, s)
       \/ /\ Saved(s, changed, files.cache)
          /\ Becomes(p, [q EXCEPT !.pc = "factor", !.sess = s]) /\ UNCHANGED lock
       \/ Saved(q.sess, changed, files.cache) /\ Goes(p, "srp") /\ UNCHANGED lock
       \/ Saved(q.sess, changed, files.cache) /\ AuthFails(p, "failed")
  BY Zenon DEF AuthenticateWithToken
<1> HIDE DEF s, cache
<1>5. CASE Saved(s, changed, cache) /\ Authenticated(p, s)
  BY <1>1, <1>2, <1>3, <1>5, AnswerFacts, AuthenticatedSafe
<1>6. CASE /\ Saved(s, changed, files.cache)
           /\ Becomes(p, [q EXCEPT !.pc = "factor", !.sess = s]) /\ UNCHANGED lock
  <2>1. "factor" \in AuthSteps \cup {"discard"}
    BY DEF AuthSteps
  <2>2. proc' = [proc EXCEPT ![p] = [q EXCEPT !.pc = "factor", !.sess = s]]
    BY <1>6 DEF Becomes
  <2> QED BY <1>1, <1>2, <1>3, <1>6, <2>1, <2>2, AnswerFacts, AuthGoesSafe
<1>7. CASE Saved(q.sess, changed, files.cache) /\ Goes(p, "srp") /\ UNCHANGED lock
  <2>1. "srp" \in AuthSteps \cup {"discard"}
    BY DEF AuthSteps
  <2>2. proc' = [proc EXCEPT ![p] = [proc[p] EXCEPT !.pc = "srp", !.sess = proc[p].sess]]
    BY <1>7, GoesFacts
  <2> QED BY <1>1, <1>2, <1>7, <2>1, <2>2, AnswerFacts, AuthGoesSafe
<1>8. CASE Saved(q.sess, changed, files.cache) /\ AuthFails(p, "failed")
  BY <1>1, <1>2, <1>8, AnswerFacts, AuthFailsSafe DEF Results
<1> QED BY <1>4, <1>5, <1>6, <1>7, <1>8

\* An answer that brings something new is saved with all the values in memory.
LEMMA NewAnswerFacts ==
  ASSUME SInv, NEW p \in Procs, proc[p].pc \in AuthSteps, NEW s \in Session,
         NEW cache \in Caches, Saved(s, TRUE, cache), ~torn => Fresh(s, floor),
         issued' \in Pairs, issued.tok <= issued'.tok, issued.trust <= issued'.trust,
         s.trust <= issued'.trust
  PROVE  /\ FilesBy(p) /\ Issues
         /\ files'.session # Null => files'.session.trust <= s.trust
<1>1. FilesBy(p) /\ files'.session = [tok |-> s.tok, trust |-> s.trust]
  BY SavedFacts, AuthFacts
<1>2. s.trust \in Nat
  BY SessBoundsAssumption DEF Session, Issued
<1> QED BY <1>1, <1>2 DEF Issues

LEMMA AuthenticateSrpSafe ==
  ASSUME SInv, NEW p \in Procs, AuthenticateSrp(p)
  PROVE  SInv'
<1> DEFINE q == proc[p]
           k == issued.tok + 1
           s == [q.sess EXCEPT !.tok = k, !.jar = k]
           cache == IF q.cont = "code" THEN files.cache ELSE "fresh"
<1>1. q.pc \in AuthSteps /\ NoReset /\ cache \in Caches /\ files.cache \in Caches
  BY ProcessFacts DEF AuthenticateSrp, AuthSteps, NoReset, Caches, FileStates
<1>2. /\ lock = p /\ q.sess \in Session /\ q.sess.trust <= issued.trust
      /\ files.session # Null => files.session.trust <= q.sess.trust
      /\ ~torn => Fresh(q.sess, floor)
  BY <1>1, AuthFacts
<1>3. CASE /\ \E changed \in BOOLEAN : IF changed THEN Saved(q.sess, TRUE, files.cache) ELSE KeepFiles
           /\ AuthFails(p, "failed") /\ UNCHANGED issued
  <2>1. CASE Saved(q.sess, TRUE, files.cache)
    <3>1. FilesBy(p) /\ Issues
      BY <1>1, <1>2, <1>3, <2>1, AnswerFacts
    <3> QED BY <1>1, <1>3, <3>1, AuthFailsSafe DEF Results
  <2>2. CASE KeepFiles
    <3>1. FilesBy(p) /\ Issues
      BY <1>3, <2>2, KeptFacts, KeptIssues
    <3> QED BY <1>1, <1>3, <3>1, AuthFailsSafe DEF Results
  <2> QED BY <1>3, <2>1, <2>2
<1>4. CASE /\ k <= MaxIssued /\ issued' = [issued EXCEPT !.tok = k]
           /\ \/ Saved(s, TRUE, files.cache) /\ AuthFails(p, "failed")
              \/ Saved(s, TRUE, cache) /\ Authenticated(p, s)
              \/ /\ Saved(s, TRUE, files.cache)
                 /\ Becomes(p, [q EXCEPT !.pc = "factor", !.sess = s]) /\ UNCHANGED lock
  <2>1. k \in Issued /\ k > floor.tok /\ k > issued.tok /\ k \in Nat
    <3>1. floor.tok <= issued.tok
      BY DEF SInv, TrustSound
    <3> QED BY <1>4, <3>1, ProcessFacts, SessBoundsAssumption DEF Issued
  <2> HIDE DEF k
  <2>2. /\ s \in Session /\ s.trust = q.sess.trust /\ s.gen = q.sess.gen
        /\ s.tok = k /\ s.jar = k
    BY <1>2, <2>1 DEF Session
  <2>3. ~torn => Fresh(s, floor)
    BY <1>2, <2>1, <2>2 DEF Fresh
  <2>4. /\ issued' \in Pairs /\ issued.tok <= issued'.tok /\ issued'.trust = issued.trust
        /\ issued.trust <= issued'.trust
    <3>1. issued'.tok = k /\ issued'.trust = issued.trust /\ issued' \in Pairs
      BY <1>4, <2>1, ProcessFacts DEF Pairs
    <3> QED BY <2>1, <3>1, ProcessFacts
  <2>5. s.trust <= issued'.trust
    BY <1>2, <2>2, <2>4
  <2> HIDE DEF s, cache
  <2>6. CASE Saved(s, TRUE, files.cache) /\ AuthFails(p, "failed")
    BY <1>1, <2>2, <2>3, <2>4, <2>5, <2>6, NewAnswerFacts, AuthFailsSafe DEF Results
  <2>7. CASE Saved(s, TRUE, cache) /\ Authenticated(p, s)
    BY <1>1, <2>2, <2>3, <2>4, <2>5, <2>7, NewAnswerFacts, AuthenticatedSafe
  <2>8. CASE /\ Saved(s, TRUE, files.cache)
             /\ Becomes(p, [q EXCEPT !.pc = "factor", !.sess = s]) /\ UNCHANGED lock
    <3>1. "factor" \in AuthSteps \cup {"discard"}
      BY DEF AuthSteps
    <3>2. proc' = [proc EXCEPT ![p] = [q EXCEPT !.pc = "factor", !.sess = s]]
      BY <2>8 DEF Becomes
    <3> QED BY <1>1, <2>2, <2>3, <2>4, <2>5, <2>8, <3>1, <3>2, NewAnswerFacts, AuthGoesSafe
  <2> QED BY <1>4, <2>6, <2>7, <2>8
<1> QED BY <1>3, <1>4, Zenon DEF AuthenticateSrp

LEMMA TwoFactorSafe ==
  ASSUME SInv, NEW p \in Procs, TwoFactor(p)
  PROVE  SInv'
<1> DEFINE q == proc[p]
           k == issued.trust + 1
           s == [q.sess EXCEPT !.trust = k]
<1>1. /\ q.pc = "factor" /\ q.pc \in AuthSteps /\ NoReset
      /\ "fresh" \in Caches /\ files.cache \in Caches
  BY ProcessFacts DEF TwoFactor, AuthSteps, NoReset, Caches, FileStates
<1>2. /\ lock = p /\ q.sess \in Session /\ q.sess.trust <= issued.trust
      /\ files.session # Null => files.session.trust <= q.sess.trust
      /\ ~torn => Fresh(q.sess, floor)
  BY <1>1, AuthFacts
<1>3. CASE AuthFails(p, "factor") /\ KeepFiles /\ UNCHANGED issued
  <2>1. FilesBy(p) /\ Issues
    BY <1>3, KeptFacts, KeptIssues
  <2> QED BY <1>1, <1>3, <2>1, AuthFailsSafe DEF Results
<1>4. CASE /\ \E changed \in BOOLEAN : Saved(q.sess, changed, files.cache)
           /\ Goes(p, "discard") /\ UNCHANGED <<lock, issued>>
  <2>1. "discard" \in AuthSteps \cup {"discard"}
    OBVIOUS
  <2>2. proc' = [proc EXCEPT ![p] = [proc[p] EXCEPT !.pc = "discard", !.sess = proc[p].sess]]
    BY <1>4, GoesFacts
  <2> QED BY <1>1, <1>2, <1>4, <2>1, <2>2, AnswerFacts, AuthGoesSafe
<1>5. CASE /\ \E changed \in BOOLEAN : Saved(q.sess, changed, files.cache)
           /\ AuthFails(p, "failed") /\ UNCHANGED issued
  BY <1>1, <1>2, <1>5, AnswerFacts, AuthFailsSafe DEF Results
<1>6. CASE /\ s.trust <= MaxIssued /\ issued' = [issued EXCEPT !.trust = s.trust]
           /\ \/ Saved(s, TRUE, "fresh") /\ Authenticated(p, s)
              \/ Saved(s, TRUE, files.cache) /\ AuthFails(p, "failed")
  <2>1. s.trust = k
    BY <1>2 DEF Session
  <2>2. k \in Issued /\ k > floor.trust /\ k > issued.trust /\ k \in Nat
    <3>1. floor.trust <= issued.trust
      BY DEF SInv, TrustSound
    <3> QED BY <1>6, <2>1, <3>1, ProcessFacts, SessBoundsAssumption DEF Issued
  <2> HIDE DEF k
  <2>3. /\ s \in Session /\ s.gen = q.sess.gen /\ s.tok = q.sess.tok /\ s.jar = q.sess.jar
    BY <1>2, <2>2 DEF Session
  <2>4. ~torn => Fresh(s, floor)
    BY <1>2, <2>1, <2>2, <2>3 DEF Fresh
  <2>5. issued'.tok = issued.tok /\ issued'.trust = k /\ issued' \in Pairs
    BY <1>6, <2>1, <2>2, ProcessFacts DEF Pairs
  <2>6. issued.tok <= issued'.tok /\ issued.trust <= issued'.trust /\ s.trust <= issued'.trust
    BY <2>1, <2>2, <2>5, ProcessFacts
  <2> HIDE DEF s
  <2>7. CASE Saved(s, TRUE, "fresh") /\ Authenticated(p, s)
    BY <1>1, <2>3, <2>4, <2>5, <2>6, <2>7, NewAnswerFacts, AuthenticatedSafe
  <2>8. CASE Saved(s, TRUE, files.cache) /\ AuthFails(p, "failed")
    BY <1>1, <2>3, <2>4, <2>5, <2>6, <2>8, NewAnswerFacts, AuthFailsSafe DEF Results
  <2> QED BY <1>6, <2>7, <2>8
<1> QED BY <1>3, <1>4, <1>5, <1>6, Zenon DEF TwoFactor

\* A step of the watch process that is not part of an authentication.
LEMMA WatchSafe ==
  ASSUME SInv, NEW n \in Process, StepOf(Watch, n), FilesBy(Watch), Issues, GoodShape(Watch, n),
         n.pc \notin AuthSteps \cup {"discard", "remove"},
         n.sess \in {proc[Watch].sess, NoSession}, n.live.trust <= issued'.trust,
         ~torn => WatchGen(n) /\ (n.live.gen = gen => Fresh(n.live, floor))
  PROVE  SInv'
<1>1. Watch \in Procs
  BY DEF Procs
<1>2. n.sess.trust <= issued'.trust
  <2>1. issued'.trust \in Nat /\ NoSession.trust = 0
    BY SessBoundsAssumption DEF NoSession, Issues, Pairs, Issued
  <2>2. proc[Watch].sess.trust <= issued.trust
    BY <1>1 DEF SInv, TrustSound
  <2> QED BY <1>1, <2>1, <2>2, ProcessFacts DEF Issues
<1>3. GoodTrust(n)
  BY <1>2 DEF GoodTrust
<1>4. ~torn => GoodGen(Watch, n) /\ GoodFresh(Watch, n)
  BY DEF GoodGen, GoodFresh, FilesBy, FreshFiles
<1> QED BY <1>1, <1>3, <1>4, Frame

\* The same, with the live session kept or dropped.
LEMMA WatchKeepsSafe ==
  ASSUME SInv, NEW n \in Process, StepOf(Watch, n), FilesBy(Watch), Issues, GoodShape(Watch, n),
         n.pc \notin AuthSteps \cup {"discard", "remove"},
         n.sess = proc[Watch].sess, n.live \in {proc[Watch].live, NoSession},
         ~torn => WatchGen(n)
  PROVE  SInv'
<1>1. Watch \in Procs
  BY DEF Procs
<1>2. n.live.trust <= issued'.trust
  <2>1. issued'.trust \in Nat /\ NoSession.trust = 0
    BY SessBoundsAssumption DEF NoSession, Issues, Pairs, Issued
  <2>2. proc[Watch].live.trust <= issued.trust
    BY <1>1 DEF SInv, TrustSound
  <2> QED BY <1>1, <2>1, <2>2, ProcessFacts DEF Issues
<1>3. ~torn /\ n.live.gen = gen => Fresh(n.live, floor)
  <2>1. Fresh(NoSession, floor)
    BY DEF Fresh, NoSession
  <2> QED BY <2>1 DEF SInv, FreshSound
<1> QED BY <1>2, <1>3, WatchSafe

\* What a watch process that holds the lock with a live session knows.
LEMMA HeldFacts ==
  ASSUME SInv, lock = Watch, proc[Watch].pc \in LiveSteps, ~torn
  PROVE  proc[Watch].live.gen = gen /\ proc[Watch].base = gen /\ Fresh(proc[Watch].live, floor)
  BY DEF SInv, GenSound, FreshSound

LEMMA CacheAgesSafe ==
  ASSUME SInv, CacheAges
  PROVE  SInv'
<1>1. /\ files'.session = files.session /\ files'.jar = files.jar /\ files' \in FileStates
      /\ UNCHANGED <<lock, gen, proc, issued, floor, touched, torn, runs>>
  BY ProcessFacts DEF CacheAges, FileStates, Procs
<1>2. SessTypeOK' /\ OneTalker' /\ Unheld' /\ ContShape'
  BY <1>1 DEF SInv, SessTypeOK, OneTalker, Unheld, ContShape, FileStates
<1>3. TrustSound'
  BY <1>1 DEF SInv, TrustSound
<1>4. ~torn => GenSound' /\ FreshSound'
  BY <1>1 DEF SInv, GenSound, FreshSound, Fresh
<1> QED BY <1>1, <1>2, <1>3, <1>4 DEF SInv

LEMMA ClearValidationCacheSafe ==
  ASSUME SInv, ClearValidationCache
  PROVE  SInv'
<1> DEFINE q == proc[Watch]
           n == [q EXCEPT !.pc = "open"]
<1>1. /\ q.pc = "clear" /\ q \in Process /\ proc' = [proc EXCEPT ![Watch] = n] /\ lock' = lock
      /\ NoReset /\ issued' = issued /\ Watch \in Procs
  BY ProcessFacts DEF ClearValidationCache, Goes, Becomes, NoReset, Procs
<1>2. /\ n \in Process /\ n.pc = "open" /\ n.cont = q.cont /\ n.want = q.want /\ n.live = q.live
      /\ n.base = q.base /\ n.sess = q.sess /\ n.expired = q.expired
  BY <1>1 DEF Process, Steps
<1> HIDE DEF n
<1>3. FilesBy(Watch) /\ files'.session = files.session
  <2>1. /\ files' = [files EXCEPT !.cache = "none"]
        /\ touched' = (touched \/ [files EXCEPT !.cache = "none"] # files)
    BY DEF ClearValidationCache, Write
  <2>2. touched' \in BOOLEAN
    BY <2>1, Zenon
  <2>3. files' \in FileStates /\ files'.session = files.session /\ files'.jar = files.jar
    BY <1>1, <2>1, ProcessFacts DEF FileStates
  <2> QED BY <2>2, <2>3 DEF FilesBy, FreshFiles, SInv, FreshSound
<1>4. Issues
  BY <1>1, <1>3, KeptIssues
<1>5. StepOf(Watch, n)
  BY <1>1, <1>3, ProcessFacts DEF StepOf, Moves, NoReset, FilesBy
<1>6. lock # Watch /\ q.cont \in {"lenient", "persisted"}
  BY <1>1 DEF SInv, Unheld, ContShape
<1>7. GoodShape(Watch, n)
  BY <1>1, <1>2, <1>6 DEF GoodShape, Talking, CommandConts
<1>8. ~torn => WatchGen(n)
  BY <1>1, <1>2, <1>6 DEF SInv, GenSound, WatchGen
<1> QED BY <1>2, <1>3, <1>4, <1>5, <1>7, <1>8, WatchKeepsSafe DEF AuthSteps

LEMMA InitPhotosServiceSafe ==
  ASSUME SInv, InitPhotosService
  PROVE  SInv'
<1> DEFINE q == proc[Watch]
<1>1. /\ q.pc = "init" /\ q \in Process /\ NoReset /\ Watch \in Procs /\ lock = Watch
      /\ issued' = issued /\ KeepFiles /\ "init" \in LiveSteps
  BY ProcessFacts DEF InitPhotosService, NoReset, Procs, SInv, OneTalker, Talking, LiveSteps
<1>2. FilesBy(Watch) /\ Issues
  BY <1>1, KeptFacts, KeptIssues
<1>3. q.live.trust <= issued'.trust /\ q.live \in Session
  BY <1>1 DEF SInv, TrustSound, Process
<1>4. CASE proc' = [proc EXCEPT ![Watch] = Cycling(q, q.live)] /\ lock' = lock
  <2>1. StepOf(Watch, Cycling(q, q.live))
    BY <1>1, <1>2, <1>4, ProcessFacts DEF StepOf, Moves, NoReset, FilesBy
  <2> QED BY <1>1, <1>2, <1>3, <1>4, <2>1, CyclingType, HeldFacts, LiveSafe
<1>5. CASE proc' = [proc EXCEPT ![Watch] = Off] /\ lock' = Null
  <2>1. StepOf(Watch, Off)
    BY <1>1, <1>2, <1>5, ProcessFacts DEF StepOf, Moves, NoReset, FilesBy
  <2> QED BY <1>1, <1>2, <1>5, <2>1, ProcessFacts, OffSafe
<1> DEFINE n == [q EXCEPT !.pc = "clear", !.cont = "lenient", !.retried = TRUE,
                          !.want = q.live.gen, !.live = NoSession]
<1>6. CASE proc' = [proc EXCEPT ![Watch] = n] /\ lock' = Null
  <2>1. /\ n \in Process /\ n.pc = "clear" /\ n.cont = "lenient" /\ n.want = q.live.gen
        /\ n.live = NoSession /\ n.base = q.base /\ n.sess = q.sess
    BY <1>1, <1>3, OffType DEF Process, Session, Steps, Conts
  <2> HIDE DEF n
  <2>2. StepOf(Watch, n)
    BY <1>1, <1>2, <1>6, ProcessFacts DEF StepOf, Moves, NoReset, FilesBy
  <2>3. GoodShape(Watch, n)
    BY <1>1, <1>6, <2>1, ProcessFacts DEF GoodShape, Talking, CommandConts
  <2>4. ~torn => WatchGen(n)
    <3>1. NoSession.gen = 0
      BY DEF NoSession
    <3> QED BY <1>1, <1>6, <2>1, <3>1, HeldFacts, ProcessFacts DEF WatchGen
  <2> QED BY <1>2, <2>1, <2>2, <2>3, <2>4, WatchKeepsSafe DEF AuthSteps
<1> QED BY <1>4, <1>5, <1>6 DEF InitPhotosService, Becomes

LEMMA StripSessionRoutingStateSafe ==
  ASSUME SInv, StripSessionRoutingState
  PROVE  SInv'
<1> DEFINE q == proc[Watch]
           n == [q EXCEPT !.pc = "open", !.cont = "forced"]
<1>1. /\ q.pc = "strip" /\ q \in Process /\ NoReset /\ Watch \in Procs /\ lock # Watch
      /\ lock' = lock /\ issued' = issued /\ q.cont = "lenient"
  BY ProcessFacts
  DEF StripSessionRoutingState, NoReset, Procs, SInv, Unheld, ContShape
<1>2. CASE proc' = [proc EXCEPT ![Watch] = Off] /\ KeepFiles
  <2>1. FilesBy(Watch) /\ Issues
    BY <1>1, <1>2, KeptFacts, KeptIssues
  <2>2. StepOf(Watch, Off)
    BY <1>1, <1>2, <2>1, ProcessFacts DEF StepOf, Moves, NoReset, FilesBy
  <2> QED BY <1>1, <2>1, <2>2, OffSafe
<1>3. CASE /\ Acquire(q.want) = "ok" /\ Write(Stripped(files))
           /\ proc' = [proc EXCEPT ![Watch] = n]
  <2>1. lock = Null
    BY <1>3 DEF Acquire
  <2>2. /\ Stripped(files) \in FileStates /\ Stripped(files).jar = files.jar
        /\ Stripped(files).session # Null =>
             /\ files.session # Null /\ Stripped(files).session.tok = 0
             /\ Stripped(files).session.trust = files.session.trust
    <3>1. files \in FileStates
      BY <1>1, ProcessFacts
    <3>2. CASE files.session = Null
      BY <3>1, <3>2 DEF Stripped
    <3>3. CASE files.session # Null
      <4>1. /\ files.session \in Pairs
            /\ Stripped(files) = [files EXCEPT !.session = [@ EXCEPT !.tok = 0], !.cache = "none"]
        BY <3>1, <3>3 DEF Stripped, FileStates, Pairs
      <4>2. /\ [files.session EXCEPT !.tok = 0] \in Pairs
            /\ [files.session EXCEPT !.tok = 0].tok = 0
            /\ [files.session EXCEPT !.tok = 0].trust = files.session.trust
        BY <4>1, SessBoundsAssumption DEF Pairs, Issued
      <4>3. /\ Stripped(files).session = [files.session EXCEPT !.tok = 0]
            /\ Stripped(files).jar = files.jar /\ Stripped(files).cache = "none"
            /\ Stripped(files) \in FileStates
        BY <3>1, <4>1, <4>2 DEF FileStates, Pairs
      <4> QED BY <3>3, <4>2, <4>3
    <3> QED BY <3>2, <3>3
  <2>3. files' = Stripped(files) /\ touched' \in BOOLEAN
    <3>1. files' = Stripped(files) /\ touched' = (touched \/ Stripped(files) # files)
      BY <1>3 DEF Write
    <3> QED BY <3>1, Zenon
  <2>4. FilesBy(Watch)
    BY <2>1, <2>2, <2>3 DEF FilesBy, FreshFiles, SInv, FreshSound
  <2>5. Issues
    <3>1. files'.session # Null => files'.session.trust <= issued.trust
      BY <2>2, <2>3 DEF SInv, TrustSound
    <3> QED BY <1>1, <3>1, ProcessFacts DEF Issues
  <2>6. /\ n \in Process /\ n.pc = "open" /\ n.cont = "forced" /\ n.want = q.want /\ n.live = q.live
        /\ n.base = q.base /\ n.sess = q.sess
    BY <1>1 DEF Process, Steps, Conts
  <2> HIDE DEF n
  <2>7. StepOf(Watch, n)
    BY <1>1, <1>3, <2>4, ProcessFacts DEF StepOf, Moves, NoReset, FilesBy
  <2>8. GoodShape(Watch, n)
    BY <1>1, <2>6 DEF GoodShape, Talking, CommandConts
  <2>9. ~torn => WatchGen(n)
    BY <1>1, <2>6 DEF SInv, GenSound, WatchGen
  <2> QED BY <2>4, <2>5, <2>6, <2>7, <2>8, <2>9, WatchKeepsSafe DEF AuthSteps
<1> QED BY <1>2, <1>3 DEF StripSessionRoutingState, Becomes

LEMMA RunCycleSafe ==
  ASSUME SInv, RunCycle
  PROVE  SInv'
<1> DEFINE q == proc[Watch]
           m == [q EXCEPT !.pc = "reacquire", !.cont = "reauth", !.expired = @ + 1]
           n == [q EXCEPT !.pc = "sleep", !.expired = 0]
<1>1. /\ q.pc = "cycle" /\ q \in Process /\ NoReset /\ Watch \in Procs /\ lock = Watch
      /\ issued' = issued /\ KeepFiles /\ "cycle" \in LiveSteps /\ q.cont = "start"
  BY ProcessFacts
  DEF RunCycle, NoReset, Procs, SInv, OneTalker, Talking, LiveSteps, ContShape
<1>2. FilesBy(Watch) /\ Issues
  BY <1>1, KeptFacts, KeptIssues
<1>3. CASE proc' = [proc EXCEPT ![Watch] = Off] /\ lock' = Null
  <2>1. StepOf(Watch, Off)
    BY <1>1, <1>2, <1>3, ProcessFacts DEF StepOf, Moves, NoReset, FilesBy
  <2> QED BY <1>1, <1>2, <1>3, <2>1, ProcessFacts, OffSafe
<1>4. CASE ~(q.expired + 1 >= MaxReauthAttempts) /\ proc' = [proc EXCEPT ![Watch] = m] /\ lock' = lock
  <2>1. q.expired + 1 \in 0..MaxReauthAttempts /\ q.expired + 1 > 0
    BY <1>1, <1>4 DEF Process, MaxReauthAttempts
  <2>2. /\ m \in Process /\ m.pc = "reacquire" /\ m.cont = "reauth" /\ m.want = q.want
        /\ m.live = q.live /\ m.base = q.base /\ m.sess = q.sess /\ m.expired > 0
    BY <1>1, <2>1 DEF Process, Steps, Conts
  <2> HIDE DEF m
  <2>3. StepOf(Watch, m)
    BY <1>1, <1>2, <1>4, ProcessFacts DEF StepOf, Moves, NoReset, FilesBy
  <2>4. GoodShape(Watch, m)
    BY <1>1, <1>4, <2>2 DEF GoodShape, Talking, CommandConts
  <2>5. ~torn => WatchGen(m)
    BY <1>1, <1>4, <2>2, HeldFacts, ProcessFacts DEF SInv, GenSound, WatchGen
  <2> QED BY <1>2, <2>2, <2>3, <2>4, <2>5, WatchKeepsSafe DEF AuthSteps
<1>5. CASE proc' = [proc EXCEPT ![Watch] = n] /\ (lock' = Null \/ lock' = lock)
  <2>1. /\ n \in Process /\ n.pc = "sleep" /\ n.cont = q.cont /\ n.want = q.want
        /\ n.live = q.live /\ n.base = q.base /\ n.sess = q.sess
    <3>1. 0 \in 0..MaxReauthAttempts
      BY DEF MaxReauthAttempts
    <3> QED BY <1>1, <3>1 DEF Process, Steps
  <2> HIDE DEF n
  <2>2. StepOf(Watch, n)
    BY <1>1, <1>2, <1>5, ProcessFacts DEF StepOf, Moves, NoReset, FilesBy
  <2>3. GoodShape(Watch, n)
    BY <1>1, <1>5, <2>1 DEF GoodShape, Talking, CommandConts
  <2>4. ~torn => WatchGen(n)
    BY <1>1, <1>5, <2>1, HeldFacts, ProcessFacts DEF SInv, GenSound, WatchGen
  <2> QED BY <1>2, <2>1, <2>2, <2>3, <2>4, WatchKeepsSafe DEF AuthSteps
<1>6. \/ /\ proc' = [proc EXCEPT ![Watch] = IF q.expired + 1 >= MaxReauthAttempts THEN Off ELSE m]
         /\ lock' = IF q.expired + 1 >= MaxReauthAttempts THEN Null ELSE lock
      \/ proc' = [proc EXCEPT ![Watch] = n] /\ (lock' = Null \/ lock' = lock)
      \/ proc' = [proc EXCEPT ![Watch] = Off] /\ lock' = Null
  BY Zenon DEF RunCycle, Becomes
<1> QED BY <1>3, <1>4, <1>5, <1>6

\* A live session that is taken up again is of the current generation.
LEMMA ReacquireFacts ==
  ASSUME SInv, Reacquire = "ok", proc[Watch].pc \in LiveSteps, ~torn
  PROVE  proc[Watch].live.gen = gen /\ proc[Watch].base = gen /\ Fresh(proc[Watch].live, floor)
<1>1. lock \in {Null, Watch} /\ (lock = Null => gen = proc[Watch].live.gen)
  BY DEF Reacquire
<1>2. CASE lock = Watch
  BY <1>2, HeldFacts
<1>3. CASE lock = Null
  <2>1. proc[Watch].base # Null
    BY DEF SInv, GenSound, LiveSteps
  <2>2. proc[Watch].base <= gen /\ proc[Watch].live.gen <= proc[Watch].base
    BY <2>1 DEF SInv, GenSound
  <2> QED BY <1>1, <1>3, <2>1, <2>2, ProcessFacts DEF Procs, SInv, FreshSound
<1> QED BY <1>1, <1>2, <1>3

\* The watch process waits for the answer to its validation.
LEMMA ValidateNextSafe ==
  ASSUME SInv, proc[Watch].pc \in LiveSteps, Reacquire = "ok", lock' = Watch,
         NEW cont \in {"idle", "reauth", "waitReauth"},
         cont = "reauth" => proc[Watch].expired > 0,
         proc' = [proc EXCEPT ![Watch] = [proc[Watch] EXCEPT !.pc = "validate", !.cont = cont]],
         NoReset, issued' = issued, KeepFiles
  PROVE  SInv'
<1> DEFINE q == proc[Watch]
           n == [q EXCEPT !.pc = "validate", !.cont = cont]
<1>1. q \in Process /\ Watch \in Procs /\ FilesBy(Watch) /\ Issues /\ lock \in {Null, Watch}
  BY ProcessFacts, KeptFacts, KeptIssues DEF Procs, Reacquire
<1>2. /\ n \in Process /\ n.pc = "validate" /\ n.cont = cont /\ n.want = q.want /\ n.live = q.live
      /\ n.base = q.base /\ n.sess = q.sess /\ n.expired = q.expired
  BY <1>1 DEF Process, Steps, Conts
<1>3. proc' = [proc EXCEPT ![Watch] = n]
  OBVIOUS
<1> HIDE DEF n
<1>4. StepOf(Watch, n)
  BY <1>1, <1>3, ProcessFacts DEF StepOf, Moves, NoReset, FilesBy
<1>5. GoodShape(Watch, n)
  BY <1>1, <1>2 DEF GoodShape, Talking, CommandConts
<1>6. ~torn => WatchGen(n)
  BY <1>1, <1>2, ReacquireFacts, ProcessFacts DEF SInv, GenSound, WatchGen
<1> QED BY <1>1, <1>2, <1>4, <1>5, <1>6, WatchKeepsSafe DEF AuthSteps

\* The watch process stops without a new session.
LEMMA StopsSafe ==
  ASSUME SInv, proc' = [proc EXCEPT ![Watch] = Off], lock' = Unlocked(Watch),
         NoReset, issued' = issued, KeepFiles
  PROVE  SInv'
<1>1. Watch \in Procs /\ Watch # Null /\ FilesBy(Watch) /\ Issues
  BY ProcessFacts, KeptFacts, KeptIssues DEF Procs
<1>2. StepOf(Watch, Off) /\ lock' # Watch
  BY <1>1, ProcessFacts DEF StepOf, Moves, NoReset, FilesBy, Unlocked
<1> QED BY <1>1, <1>2, OffSafe

LEMMA WakeSafe ==
  ASSUME SInv, Wake
  PROVE  SInv'
<1> DEFINE q == proc[Watch]
<1>1. q.pc \in LiveSteps /\ NoReset /\ issued' = issued /\ KeepFiles
  BY DEF Wake, LiveSteps, NoReset
<1>2. CASE /\ Reacquire = "ok" /\ lock' = Watch
           /\ proc' = [proc EXCEPT ![Watch] = [q EXCEPT !.pc = "validate", !.cont = "idle"]]
  BY <1>1, <1>2, ValidateNextSafe
<1>3. CASE proc' = [proc EXCEPT ![Watch] = Off] /\ lock' = Unlocked(Watch)
  BY <1>1, <1>3, StopsSafe
<1> QED BY <1>2, <1>3 DEF Wake, Becomes

LEMMA RelockAfterIdleSafe ==
  ASSUME SInv, RelockAfterIdle
  PROVE  SInv'
<1> DEFINE q == proc[Watch]
<1>1. /\ q.pc \in LiveSteps /\ NoReset /\ issued' = issued /\ KeepFiles
      /\ q \in Process /\ Watch \in Procs
  BY ProcessFacts DEF RelockAfterIdle, LiveSteps, NoReset, Procs
<1>2. CASE Reacquire = "ok" /\ lock' = Watch /\ proc' = [proc EXCEPT ![Watch] = Cycling(q, q.live)]
  <2>1. FilesBy(Watch) /\ Issues /\ lock \in {Null, Watch}
    BY <1>1, <1>2, KeptFacts, KeptIssues DEF Reacquire
  <2>2. StepOf(Watch, Cycling(q, q.live))
    BY <1>1, <1>2, <2>1, ProcessFacts DEF StepOf, Moves, NoReset, FilesBy
  <2>3. q.live.trust <= issued'.trust /\ q.live \in Session
    BY <1>1 DEF SInv, TrustSound, Process
  <2> QED BY <1>1, <1>2, <2>1, <2>2, <2>3, CyclingType, ReacquireFacts, LiveSafe
<1>3. CASE proc' = [proc EXCEPT ![Watch] = Off] /\ lock' = Unlocked(Watch)
  BY <1>1, <1>3, StopsSafe
<1> QED BY <1>2, <1>3 DEF RelockAfterIdle, Becomes

LEMMA AttemptReauthSafe ==
  ASSUME SInv, AttemptReauth
  PROVE  SInv'
<1> DEFINE q == proc[Watch]
<1>1. /\ q.pc = "reacquire" /\ q.pc \in LiveSteps /\ NoReset /\ issued' = issued /\ KeepFiles
      /\ q \in Process /\ Watch \in Procs
  BY ProcessFacts DEF AttemptReauth, LiveSteps, NoReset, Procs
<1>2. CASE Reacquire = "ok" /\ Goes(Watch, "validate") /\ lock' = Watch
  <2>1. q.cont \in {"reauth", "waitReauth"} /\ (q.cont = "reauth" => q.expired > 0)
    BY <1>1 DEF SInv, ContShape
  <2>2. [q EXCEPT !.pc = "validate"] = [q EXCEPT !.pc = "validate", !.cont = q.cont]
    BY <1>1 DEF Process
  <2>3. proc' = [proc EXCEPT ![Watch] = [q EXCEPT !.pc = "validate", !.cont = q.cont]]
    BY <1>2, <2>2 DEF Goes, Becomes
  <2> QED BY <1>1, <1>2, <2>1, <2>3, ValidateNextSafe
<1>3. CASE Reacquire # "ok" /\ AuthFails(Watch, Reacquire)
  <2>1. Reacquire \in Results /\ Reacquire # "factor"
    BY <1>3 DEF Reacquire, Results
  <2>2. FilesBy(Watch) /\ Issues
    BY <1>1, KeptFacts, KeptIssues
  <2> QED BY <1>1, <1>3, <2>1, <2>2, AuthFailsSafe
<1> QED BY <1>2, <1>3 DEF AttemptReauth

LEMMA ValidateSessionSafe ==
  ASSUME SInv, ValidateSession
  PROVE  SInv'
<1> DEFINE q == proc[Watch]
           s == [q.live EXCEPT !.jar = q.live.tok]
           replaced == [q EXCEPT !.pc = "open", !.want = q.live.gen, !.again = FALSE]
           f == Failed(q, "failed")
<1>1. /\ q.pc = "validate" /\ q \in Process /\ q.live \in Session /\ NoReset /\ Watch \in Procs
      /\ lock = Watch /\ issued' = issued /\ q.pc \in LiveSteps
      /\ q.cont \in {"idle", "reauth", "waitReauth"} /\ q.live.trust <= issued.trust
      /\ q.cont = "reauth" => q.expired > 0
  BY ProcessFacts
  DEF ValidateSession, NoReset, Procs, SInv, OneTalker, Talking, LiveSteps, ContShape, TrustSound,
      Process
<1>2. ASSUME NEW t \in {q.live, s}
      PROVE  /\ t \in Session /\ t.gen = q.live.gen /\ t.trust = q.live.trust
             /\ ~torn => Fresh(t, floor)
  BY <1>1, <1>2, HeldFacts, JarOfToken
<1>3. ASSUME NEW t \in {q.live, s}, NEW changed \in BOOLEAN, NEW cache \in Caches,
             Saved(t, changed, cache)
      PROVE  FilesBy(Watch) /\ Issues
  <2>1. t \in Session /\ t.trust = q.live.trust /\ (~torn => Fresh(t, floor))
    BY <1>2
  <2>2. /\ FilesBy(Watch)
        /\ files'.session = IF changed THEN [tok |-> t.tok, trust |-> t.trust] ELSE files.session
    BY <1>1, <1>3, <2>1, SavedFacts
  <2>3. files'.session # Null => files'.session.trust <= issued.trust
    BY <1>1, <2>1, <2>2 DEF SInv, TrustSound
  <2> QED BY <1>1, <2>2, <2>3, ProcessFacts DEF Issues
<1>4. files.cache \in Caches /\ "fresh" \in Caches
  BY <1>1, ProcessFacts DEF FileStates, Caches
<1>5. ASSUME NEW t \in {q.live, s}, proc' = [proc EXCEPT ![Watch] = Cycling(q, t)], lock' = lock,
             FilesBy(Watch), Issues
      PROVE  SInv'
  <2>1. /\ t \in Session /\ t.gen = q.live.gen /\ t.trust = q.live.trust
        /\ ~torn => Fresh(t, floor)
    BY <1>2
  <2>2. StepOf(Watch, Cycling(q, t))
    BY <1>1, <1>5, ProcessFacts DEF StepOf, Moves, NoReset, FilesBy
  <2> HIDE DEF s
  <2> QED BY <1>1, <1>5, <2>1, <2>2, CyclingType, HeldFacts, LiveSafe
<1>6. ASSUME NEW t \in {q.live, s}, proc' = [proc EXCEPT ![Watch] = [replaced EXCEPT !.live = t]],
             lock' = Null, FilesBy(Watch), Issues
      PROVE  SInv'
  <2> DEFINE n == [replaced EXCEPT !.live = t]
  <2>1. /\ t \in Session /\ t.gen = q.live.gen /\ t.trust = q.live.trust
        /\ ~torn => Fresh(t, floor)
    BY <1>2
  <2> HIDE DEF s
  <2>2. /\ n \in Process /\ n.pc = "open" /\ n.cont = q.cont /\ n.want = q.live.gen /\ n.live = t
        /\ n.base = q.base /\ n.sess = q.sess /\ n.expired = q.expired
    BY <1>1, <2>1 DEF Process, Session, Steps
  <2>3. proc' = [proc EXCEPT ![Watch] = n]
    BY <1>6
  <2> HIDE DEF n
  <2>4. StepOf(Watch, n)
    BY <1>1, <1>6, <2>3, ProcessFacts DEF StepOf, Moves, NoReset, FilesBy
  <2>5. GoodShape(Watch, n)
    BY <1>1, <1>6, <2>2, ProcessFacts DEF GoodShape, Talking, CommandConts
  <2>6. ~torn => WatchGen(n)
    BY <1>1, <1>6, <2>1, <2>2, HeldFacts, ProcessFacts DEF WatchGen
  <2>7. n.live.trust <= issued'.trust
    BY <1>1, <2>1, <2>2
  <2> QED BY <1>6, <2>1, <2>2, <2>4, <2>5, <2>6, <2>7, WatchSafe DEF AuthSteps
<1>7. ASSUME proc' = [proc EXCEPT ![Watch] = f], KeepFiles,
             lock' = IF f.pc = "off" THEN Null ELSE lock
      PROVE  SInv'
  <2>1. FilesBy(Watch) /\ Issues
    BY <1>1, <1>7, KeptFacts, KeptIssues
  <2>2. (q.cont = "idle" /\ f = [q EXCEPT !.pc = "relock"]) \/ f = Off
    <3>1. q.cont = "idle" => Route(q.cont, "failed") = "relock"
      BY DEF Route
    <3>2. q.cont # "idle" => Route(q.cont, "failed") = "off"
      BY <1>1 DEF Route
    <3> QED BY <3>1, <3>2 DEF Failed
  <2>3. CASE f = Off
    <3>1. lock' = Null
      BY <1>7, <2>3 DEF Off
    <3>2. StepOf(Watch, Off)
      BY <1>1, <1>7, <2>1, <2>3, <3>1, ProcessFacts DEF StepOf, Moves, NoReset, FilesBy
    <3> QED BY <1>1, <2>1, <3>1, <3>2, OffSafe, ProcessFacts
  <2>4. CASE q.cont = "idle" /\ f = [q EXCEPT !.pc = "relock"]
    <3>1. /\ f \in Process /\ f.pc = "relock" /\ f.cont = q.cont /\ f.want = q.want /\ f.live = q.live
          /\ f.base = q.base /\ f.sess = q.sess
      BY <1>1, <2>4 DEF Process, Steps
    <3> HIDE DEF f
    <3>2. lock' = lock
      BY <1>7, <3>1
    <3>3. StepOf(Watch, f)
      BY <1>1, <1>7, <2>1, <3>2, ProcessFacts DEF StepOf, Moves, NoReset, FilesBy
    <3>4. GoodShape(Watch, f)
      BY <1>1, <2>4, <3>1, <3>2 DEF GoodShape, Talking, CommandConts
    <3>5. ~torn => WatchGen(f)
      BY <1>1, <2>4, <3>1, <3>2, HeldFacts, ProcessFacts DEF WatchGen, SInv, GenSound
    <3> QED BY <2>1, <3>1, <3>3, <3>4, <3>5, WatchKeepsSafe DEF AuthSteps
  <2> QED BY <2>2, <2>3, <2>4
<1>8. \/ proc' = [proc EXCEPT ![Watch] = Cycling(q, q.live)] /\ KeepFiles /\ lock' = lock
      \/ \E changed \in BOOLEAN, t \in {q.live, s} :
           /\ Saved(t, changed, "fresh")
           /\ proc' = [proc EXCEPT ![Watch] = Cycling(q, t)] /\ lock' = lock
      \/ \E changed \in BOOLEAN, t \in {q.live, s} :
           /\ Saved(t, changed, files.cache)
           /\ proc' = [proc EXCEPT ![Watch] = [replaced EXCEPT !.live = t]] /\ lock' = Null
      \/ /\ proc' = [proc EXCEPT ![Watch] = f] /\ KeepFiles
         /\ lock' = IF f.pc = "off" THEN Null ELSE lock
  BY Zenon DEF ValidateSession, Becomes
<1> HIDE DEF s, replaced, f
<1>9. CASE proc' = [proc EXCEPT ![Watch] = Cycling(q, q.live)] /\ KeepFiles /\ lock' = lock
  <2>1. FilesBy(Watch) /\ Issues
    BY <1>1, <1>9, KeptFacts, KeptIssues
  <2> QED BY <1>5, <1>9, <2>1
<1> QED BY <1>3, <1>4, <1>5, <1>6, <1>7, <1>8, <1>9

LEMMA TakeSnapshotSafe ==
  ASSUME SInv, TakeSnapshot
  PROVE  SInv'
<1> DEFINE q == proc[Watch]
           n == [q EXCEPT !.pc = "poll"]
<1>1. /\ q.pc = "snapshot" /\ q \in Process /\ NoReset /\ Watch \in Procs /\ lock # Watch
      /\ lock' = lock /\ issued' = issued /\ files' = files /\ touched' = FALSE /\ q.cont \in Waiting
  BY ProcessFacts DEF TakeSnapshot, NoReset, Procs, SInv, Unheld, ContShape
<1>2. FilesBy(Watch) /\ Issues
  <2>1. Issues
    BY <1>1, KeptIssues
  <2> QED BY <1>1, <2>1, ProcessFacts DEF FilesBy, FreshFiles, SInv, FreshSound
<1>3. CASE proc' = [proc EXCEPT ![Watch] = Off]
  <2>1. StepOf(Watch, Off)
    BY <1>1, <1>2, <1>3, ProcessFacts DEF StepOf, Moves, NoReset, FilesBy
  <2> QED BY <1>1, <1>2, <2>1, OffSafe
<1>4. CASE proc' = [proc EXCEPT ![Watch] = n]
  <2>1. /\ n \in Process /\ n.pc = "poll" /\ n.cont = q.cont /\ n.want = q.want /\ n.live = q.live
        /\ n.base = q.base /\ n.sess = q.sess
    BY <1>1 DEF Process, Steps
  <2> HIDE DEF n
  <2>2. StepOf(Watch, n)
    BY <1>1, <1>2, <1>4, ProcessFacts DEF StepOf, Moves, NoReset, FilesBy
  <2>3. GoodShape(Watch, n)
    BY <1>1, <2>1 DEF GoodShape, Talking, CommandConts, Waiting
  <2>4. ~torn => WatchGen(n)
    BY <1>1, <2>1 DEF SInv, GenSound, WatchGen
  <2> QED BY <1>2, <2>1, <2>2, <2>3, <2>4, WatchKeepsSafe DEF AuthSteps
<1> QED BY <1>3, <1>4 DEF TakeSnapshot, Becomes, Goes

LEMMA PollSafe ==
  ASSUME SInv, Poll
  PROVE  SInv'
<1> DEFINE q == proc[Watch]
           step == IF q.cont = "waitReauth" THEN "reacquire" ELSE "open"
           n == [q EXCEPT !.pc = step, !.tries = 0]
<1>1. /\ q.pc = "poll" /\ q \in Process /\ NoReset /\ Watch \in Procs /\ lock # Watch
      /\ lock' = lock /\ issued' = issued /\ q.cont \in {"waitAuth", "waitReauth"}
  BY ProcessFacts DEF Poll, NoReset, Procs, SInv, Unheld, ContShape, Waiting
<1>2. CASE proc' = [proc EXCEPT ![Watch] = Off] /\ KeepFiles
  <2>1. FilesBy(Watch) /\ Issues
    BY <1>1, <1>2, KeptFacts, KeptIssues
  <2>2. StepOf(Watch, Off)
    BY <1>1, <1>2, <2>1, ProcessFacts DEF StepOf, Moves, NoReset, FilesBy
  <2> QED BY <1>1, <2>1, <2>2, OffSafe
<1>3. CASE Write([files EXCEPT !.cache = "none"]) /\ proc' = [proc EXCEPT ![Watch] = n]
  <2>1. FilesBy(Watch) /\ files'.session = files.session
    <3>1. /\ files' = [files EXCEPT !.cache = "none"]
          /\ touched' = (touched \/ [files EXCEPT !.cache = "none"] # files)
      BY <1>3 DEF Write
    <3>2. touched' \in BOOLEAN
      BY <3>1, Zenon
    <3>3. files' \in FileStates /\ files'.session = files.session /\ files'.jar = files.jar
      BY <1>1, <3>1, ProcessFacts DEF FileStates
    <3> QED BY <3>2, <3>3 DEF FilesBy, FreshFiles, SInv, FreshSound
  <2>2. Issues
    BY <1>1, <2>1, KeptIssues
  <2>3. /\ n \in Process /\ n.pc = step /\ n.cont = q.cont /\ n.want = q.want /\ n.live = q.live
        /\ n.base = q.base /\ n.sess = q.sess
    <3>1. 0 \in 0..MaxWaitTries - 1 /\ step \in Steps
      BY DEF MaxWaitTries, Steps
    <3> HIDE DEF step
    <3> QED BY <1>1, <3>1 DEF Process
  <2> HIDE DEF n
  <2>4. StepOf(Watch, n)
    BY <1>1, <1>3, <2>1, ProcessFacts DEF StepOf, Moves, NoReset, FilesBy
  <2>5. GoodShape(Watch, n)
    BY <1>1, <2>3 DEF GoodShape, Talking, CommandConts
  <2>6. ~torn => WatchGen(n)
    BY <1>1, <2>3 DEF SInv, GenSound, WatchGen
  <2> QED BY <2>1, <2>2, <2>3, <2>4, <2>5, <2>6, WatchKeepsSafe DEF AuthSteps
<1>4. \/ proc' = [proc EXCEPT ![Watch] = Off] /\ KeepFiles
      \/ Write([files EXCEPT !.cache = "none"]) /\ proc' = [proc EXCEPT ![Watch] = n]
  BY Zenon DEF Poll, Becomes
<1> QED BY <1>2, <1>3, <1>4
-----------------------------------------------------------------------------
(* A reset.                                                                   *)

\* While p holds the lock nobody else is authenticating.
LEMMA Alone ==
  ASSUME SInv, NEW p \in Procs, lock = p, NEW r \in Procs \ {p}
  PROVE  proc[r].pc \notin AuthSteps \cup {"discard", "remove"}
  BY DEF SInv, OneTalker, AuthSteps, Talking

LEMMA WriteLockGenerationSafe ==
  ASSUME SInv, NEW p \in Procs, WriteLockGeneration(p)
  PROVE  SInv'
<1> DEFINE q == proc[p]
           n == [q EXCEPT !.pc = "remove", !.sess.gen = gen + 1, !.base = gen + 1]
<1>1. /\ q.pc = "discard" /\ gen < MaxGen /\ q \in Process /\ lock = p /\ KeepFiles
      /\ issued' = issued /\ floor' = floor /\ runs' = runs /\ Watch \in Procs
  BY ProcessFacts DEF WriteLockGeneration, SInv, OneTalker, Talking
<1>2. FilesBy(p) /\ Issues /\ files' = files
  BY <1>1, KeptFacts, KeptIssues
<1>3. gen \in Nat /\ gen + 1 \in 0..MaxGen /\ 0 \in 0..MaxGen
  BY <1>1, ProcessFacts, SessBoundsAssumption
<1>4. CASE gen' = 0 /\ torn' = TRUE /\ proc' = [proc EXCEPT ![p] = Off] /\ lock' = Null
  <2>1. Moves(p, Off)
    BY <1>1, <1>2, <1>3, <1>4, ProcessFacts DEF Moves, FilesBy
  <2>2. /\ Off.pc = "off" /\ Off.cont = "start" /\ Off.sess = NoSession /\ Off.live = NoSession
        /\ NoSession.trust = 0
    BY DEF Off, NoSession
  <2>3. GoodShape(p, Off)
    BY <1>4, <2>2, OffType, ProcessFacts DEF GoodShape, Talking, CommandConts
  <2>4. GoodTrust(Off)
    BY <1>1, <2>2, ProcessFacts DEF GoodTrust, AuthSteps
  <2> QED BY <1>2, <1>4, <2>1, <2>3, <2>4, FrameShape, FrameTrust DEF SInv
<1>5. CASE gen' = gen + 1 /\ proc' = [proc EXCEPT ![p] = n] /\ lock' = lock /\ torn' = torn
  <2>1. /\ n \in Process /\ n.pc = "remove" /\ n.cont = q.cont /\ n.want = q.want /\ n.live = q.live
        /\ n.base = gen + 1 /\ n.sess.gen = gen + 1 /\ n.sess.trust = q.sess.trust
        /\ n.expired = q.expired
    <3> DEFINE t == [q.sess EXCEPT !.gen = gen + 1]
    <3>1. n = [q EXCEPT !.pc = "remove", !.sess = t, !.base = gen + 1]
      BY <1>1 DEF Process
    <3>2. q.sess \in Session
      BY <1>1 DEF Process
    <3>3. t \in Session /\ t.gen = gen + 1 /\ t.trust = q.sess.trust
      BY <1>3, <3>2 DEF Session
    <3> HIDE DEF t, n
    <3> QED BY <1>1, <1>3, <3>1, <3>3 DEF Process, Steps
  <2> HIDE DEF n
  <2>2. Moves(p, n)
    BY <1>1, <1>2, <1>3, <1>5, ProcessFacts DEF Moves, FilesBy
  <2>3. GoodShape(p, n)
    BY <1>1, <1>5, <2>1, ProcessFacts DEF GoodShape, SInv, ContShape
  <2>4. GoodTrust(n)
    <3>1. q.live.trust <= issued.trust /\ q.sess.trust <= issued.trust
      BY DEF SInv, TrustSound
    <3> QED BY <1>1, <2>1, <3>1 DEF GoodTrust, AuthSteps
  <2>5. SessTypeOK' /\ OneTalker' /\ Unheld' /\ ContShape' /\ TrustSound'
    BY <1>2, <2>2, <2>3, <2>4, FrameShape, FrameTrust
  <2>6. /\ proc'[p] = n /\ \A r \in Procs \ {p} : proc'[r] = proc[r]
    BY <1>5 DEF SInv, SessTypeOK
  <2>7. \A r \in Procs \ {p} : proc'[r].pc \notin AuthSteps \cup {"discard", "remove"}
    BY <1>1, <2>6, Alone
  <2>8. "remove" \notin AuthSteps \cup LiveSteps
    BY DEF AuthSteps, LiveSteps
  <2>9. ASSUME ~torn PROVE GenSound' /\ FreshSound'
    <3>1. GenSound /\ FreshSound
      BY <2>9 DEF SInv
    <3> DEFINE w == proc'[Watch]
    <3>2. /\ w.live = proc[Watch].live /\ w.want = proc[Watch].want /\ w.cont = proc[Watch].cont
          /\ p # Watch => w = proc[Watch]
          /\ p = Watch => w = n
      BY <1>1, <2>1, <2>6
    <3>3. w.live.gen < gen' /\ w.live.gen <= gen'
      BY <1>1, <1>3, <1>5, <3>1, <3>2, ProcessFacts DEF GenSound
    <3>4. /\ \A r \in Procs : proc'[r].pc \in AuthSteps \cup {"discard", "remove"}
                               => proc'[r].sess.gen = gen'
          /\ \A r \in Procs : proc'[r].pc \notin AuthSteps
      BY <1>5, <2>1, <2>6, <2>7, <2>8
    <3>5. /\ lock' = Watch => w.base = gen'
          /\ w.base = Null => w.pc \in {"off", "open"} /\ w.cont = "start" /\ w.live.gen = 0
          /\ w.base # Null =>
               /\ w.base <= gen' /\ w.live.gen <= w.base
               /\ w.want # Null => w.want <= w.base
               /\ w.pc = "open" => w.want # Null
          /\ lock' = Watch /\ w.pc \in LiveSteps => w.live.gen = gen'
      <4>1. CASE p = Watch
        <5>1. proc[Watch].base = gen
          BY <1>1, <3>1, <4>1 DEF GenSound
        <5>2. proc[Watch].want # Null => proc[Watch].want \in Nat /\ proc[Watch].want <= gen
          BY <1>1, <1>3, <3>1, <5>1, ProcessFacts DEF GenSound
        <5>3. proc[Watch].live.gen \in Nat
          BY <1>1, ProcessFacts
        <5> QED BY <1>3, <1>5, <2>1, <2>8, <3>2, <3>3, <4>1, <5>2, <5>3, NullAssumption
      <4>2. CASE p # Watch
        <5>1. lock' # Watch
          BY <1>1, <1>5, <4>2
        <5>2. proc[Watch].base # Null => proc[Watch].base \in Nat
          BY <1>1, ProcessFacts
        <5> QED BY <1>3, <1>5, <3>1, <3>2, <4>2, <5>1, <5>2 DEF GenSound
      <4> QED BY <4>1, <4>2
    <3>6. w.cont \in {"lenient", "persisted", "forced", "waitAuth"} => w.want # Null
      BY <3>1, <3>2 DEF GenSound
    <3>7. GenSound'
      BY <3>3, <3>4, <3>5, <3>6 DEF GenSound
    <3>8. FreshSound'
      <4>1. w.live.gen # gen'
        BY <1>3, <1>5, <3>2, <3>3, <1>1, ProcessFacts
      <4> QED BY <1>1, <1>2, <3>1, <3>4, <4>1 DEF FreshSound
    <3> QED BY <3>7, <3>8
  <2> QED BY <1>5, <2>5, <2>9 DEF SInv
<1>6. \/ gen' = gen + 1 /\ proc' = [proc EXCEPT ![p] = n] /\ lock' = lock /\ torn' = torn
      \/ gen' = 0 /\ torn' = TRUE /\ proc' = [proc EXCEPT ![p] = Off] /\ lock' = Null
  BY Zenon DEF WriteLockGeneration, Becomes
<1> QED BY <1>4, <1>5, <1>6

\* All files are gone: whatever had been issued is old now.
LEMMA RemovedSafe ==
  ASSUME SInv, NEW p \in Procs, proc[p].pc = "remove", NEW n, Moves(p, n), Issues,
         GoodShape(p, n), GoodTrust(n), ~torn => GoodGen(p, n),
         n.pc \notin AuthSteps, n.live \in {NoSession, proc[p].live},
         files'.session = Null, files'.jar = 0, gen' = gen, torn' = torn
  PROVE  SInv'
<1>1. SessTypeOK' /\ OneTalker' /\ Unheld' /\ ContShape' /\ TrustSound'
  BY FrameShape, FrameTrust
<1>2. ASSUME ~torn PROVE GenSound' /\ FreshSound'
  <2>1. GenSound'
    BY <1>2, FrameGen
  <2>2. lock = p
    BY DEF SInv, OneTalker, Talking
  <2>3. proc'[p] = n /\ \A r \in Procs \ {p} : proc'[r] = proc[r]
    BY DEF Moves, SInv, SessTypeOK
  <2>4. \A r \in Procs : proc'[r].pc \notin AuthSteps
    BY <2>2, <2>3, Alone
  <2>5. proc'[Watch].live.gen = gen => Fresh(proc'[Watch].live, floor')
    <3>1. proc[Watch].live.gen < gen /\ proc[Watch].live.gen \in Nat /\ gen \in Nat /\ Watch \in Procs
      BY <1>2, ProcessFacts DEF SInv, GenSound
    <3>2. Fresh(NoSession, floor')
      BY DEF Fresh, NoSession
    <3> QED BY <2>3, <3>1, <3>2
  <2> QED BY <2>1, <2>4, <2>5 DEF FreshSound
<1> QED BY <1>1, <1>2 DEF SInv

LEMMA RemoveFilesSafe ==
  ASSUME SInv, NEW p \in Procs, RemoveFiles(p)
  PROVE  SInv'
<1> DEFINE q == proc[p]
           Left(kept) == [f \in DOMAIN files |-> IF f \in kept THEN files[f] ELSE NoFiles[f]]
           n == [q EXCEPT !.pc = "open", !.want = q.sess.gen, !.again = TRUE,
                          !.sess = NoSession, !.loaded = FALSE]
<1>1. /\ q.pc = "remove" /\ q \in Process /\ lock = p /\ Watch \in Procs
      /\ gen' = gen /\ issued' = issued /\ torn' = torn /\ runs' = runs
  BY ProcessFacts DEF RemoveFiles, SInv, OneTalker, Talking
<1>2. PICK kept \in SUBSET {"session", "jar", "cache"} :
        /\ Write(Left(kept)) /\ floor' = IF kept = {} THEN issued ELSE floor
        /\ \/ /\ kept = {} /\ proc' = [proc EXCEPT ![p] = n] /\ lock' = Null
           \/ AuthFails(p, "failed")
  BY Zenon DEF RemoveFiles, Becomes
<1>3. /\ files' \in FileStates /\ files'.session \in {files.session, Null}
      /\ files'.jar \in {files.jar, 0}
      /\ kept = {} => files'.session = Null /\ files'.jar = 0
  <2>1. files \in FileStates /\ DOMAIN files = {"session", "jar", "cache"}
    <3>1. files \in FileStates
      BY ProcessFacts
    <3> QED BY <3>1 DEF FileStates
  <2>2. files' = [f \in {"session", "jar", "cache"} |-> IF f \in kept THEN files[f] ELSE NoFiles[f]]
    BY <1>2, <2>1 DEF Write
  <2>3. /\ files'.session = IF "session" \in kept THEN files.session ELSE Null
        /\ files'.jar = IF "jar" \in kept THEN files.jar ELSE 0
        /\ files'.cache = IF "cache" \in kept THEN files.cache ELSE "none"
    BY <2>2 DEF NoFiles
  <2>4. files' = [session |-> files'.session, jar |-> files'.jar, cache |-> files'.cache]
    BY <2>2
  <2>5. /\ files'.session \in Pairs \cup {Null} /\ files'.jar \in Issued
        /\ files'.cache \in {"none", "fresh", "old"}
    BY <2>1, <2>3, SessBoundsAssumption DEF FileStates, Pairs, Issued
  <2>6. files' \in FileStates
    BY <2>4, <2>5 DEF FileStates, Pairs
  <2> QED BY <2>3, <2>6
<1>4. touched' \in BOOLEAN
  <2>1. touched' = (touched \/ Left(kept) # files)
    BY <1>2 DEF Write
  <2> QED BY <2>1, Zenon
<1>5. FilesBy(p)
  BY <1>1, <1>3, <1>4 DEF FilesBy, FreshFiles, SInv, FreshSound
<1>6. Issues
  <2>1. files'.session # Null => files'.session.trust <= issued.trust
    BY <1>3 DEF SInv, TrustSound
  <2> QED BY <1>1, <2>1, ProcessFacts DEF Issues
<1>7. floor' \in {floor, issued}
  BY <1>2
<1> HIDE DEF Left
<1>8. CASE AuthFails(p, "failed")
  <2>1. CASE floor' = floor
    BY <1>1, <1>5, <1>6, <1>8, <2>1, AuthFailsSafe DEF Results, NoReset
  <2>2. CASE kept = {}
    <3>1. PICK m : /\ Moves(p, m) /\ GoodShape(p, m) /\ GoodTrust(m) /\ (~torn => GoodGen(p, m))
                   /\ m.pc \notin AuthSteps /\ m.live \in {NoSession, proc[p].live}
      BY <1>1, <1>5, <1>6, <1>7, <1>8, AuthFailsFacts DEF Results
    <3> QED BY <1>1, <1>3, <1>6, <2>2, <3>1, RemovedSafe
  <2> QED BY <1>2, <2>1, <2>2
<1>9. CASE kept = {} /\ proc' = [proc EXCEPT ![p] = n] /\ lock' = Null
  <2>1. /\ n \in Process /\ n.pc = "open" /\ n.cont = q.cont /\ n.want = q.sess.gen
        /\ n.live = q.live /\ n.base = q.base /\ n.sess = NoSession /\ n.expired = q.expired
    <3>1. q.sess.gen \in 0..MaxGen
      BY <1>1 DEF Process, Session
    <3> QED BY <1>1, <3>1, OffType DEF Process, Steps
  <2> HIDE DEF n
  <2>2. Moves(p, n)
    BY <1>1, <1>3, <1>4, <1>7, <1>9, ProcessFacts DEF Moves
  <2>3. GoodShape(p, n)
    BY <1>1, <1>9, <2>1, ProcessFacts DEF GoodShape, Talking, SInv, ContShape
  <2>4. GoodTrust(n)
    <3>1. q.live.trust <= issued.trust /\ NoSession.trust = 0
      BY DEF SInv, TrustSound, NoSession
    <3> QED BY <1>1, <2>1, <3>1, ProcessFacts DEF GoodTrust, AuthSteps
  <2>5. ASSUME ~torn PROVE GoodGen(p, n)
    <3>1. GenSound /\ q.sess.gen = gen
      BY <1>1, <2>5 DEF SInv, GenSound
    <3>2. p = Watch => WatchGen(n)
      BY <1>1, <1>9, <2>1, <3>1, ProcessFacts DEF WatchGen, GenSound
    <3> QED BY <2>1, <3>2 DEF GoodGen, AuthSteps
  <2> QED BY <1>1, <1>3, <1>6, <1>9, <2>1, <2>2, <2>3, <2>4, <2>5, RemovedSafe DEF AuthSteps
<1> QED BY <1>2, <1>8, <1>9
-----------------------------------------------------------------------------
(* The theorems.                                                              *)

LEMMA InitSafe ==
  ASSUME Init
  PROVE  SInv
<1>1. \A p \in Procs : proc[p] = Off
  BY DEF Init
<1>2. /\ Off.pc = "off" /\ Off.cont = "start" /\ Off.want = Null /\ Off.base = Null
      /\ Off.sess = NoSession /\ Off.live = NoSession /\ Off.expired = 0
      /\ NoSession.trust = 0 /\ NoSession.gen = 0 /\ Fresh(NoSession, floor)
  BY DEF Off, NoSession, Fresh
<1>3. /\ lock = Null /\ gen = 0 /\ files.session = Null /\ files.jar = 0 /\ files.cache = "none"
      /\ issued.tok = 0 /\ issued.trust = 0 /\ floor = issued /\ files = NoFiles
      /\ touched = FALSE /\ torn = FALSE /\ runs = 0
  BY DEF Init, NoFiles
<1>4. Watch \in Procs /\ \A p \in Procs : lock # p
  BY <1>3, ProcsAssumption DEF Procs
<1>5. SessTypeOK
  <2>1. 0 \in Issued /\ 0 \in 0..MaxGen /\ 0 \in 0..MaxRuns
    BY SessBoundsAssumption DEF Issued
  <2>2. proc \in [Procs -> Process]
    BY OffType DEF Init
  <2>3. files \in FileStates
    BY <1>3, <2>1 DEF NoFiles, FileStates
  <2>4. issued \in Pairs
    BY <2>1 DEF Init, Pairs
  <2> QED BY <1>3, <1>4, <2>1, <2>2, <2>3, <2>4 DEF SessTypeOK, FileStates, Pairs
<1>6. OneTalker /\ Unheld /\ ContShape
  BY <1>1, <1>2, <1>4 DEF OneTalker, Unheld, ContShape, Talking, CommandConts
<1>7. TrustSound
  BY <1>1, <1>2, <1>3 DEF TrustSound, AuthSteps
<1>8. GenSound
  BY <1>1, <1>2, <1>3, <1>4 DEF GenSound, AuthSteps, LiveSteps
<1>9. FreshSound
  BY <1>1, <1>2, <1>3, <1>4 DEF FreshSound, AuthSteps
<1> QED BY <1>5, <1>6, <1>7, <1>8, <1>9 DEF SInv

LEMMA AuthenticateSafe ==
  ASSUME SInv, NEW p \in Procs, Authenticate(p)
  PROVE  SInv'
  BY OpenSessionSafe, ValidateTokenSafe, AuthenticateWithTokenSafe, AuthenticateSrpSafe,
     TwoFactorSafe, WriteLockGenerationSafe, RemoveFilesSafe
  DEF Authenticate

LEMMA WatchStepSafe ==
  ASSUME SInv, WatchStep
  PROVE  SInv'
  BY InitPhotosServiceSafe, ClearValidationCacheSafe, StripSessionRoutingStateSafe, RunCycleSafe,
     WakeSafe, RelockAfterIdleSafe, AttemptReauthSafe, ValidateSessionSafe, TakeSnapshotSafe,
     PollSafe
  DEF WatchStep

LEMMA StutterSafe ==
  ASSUME SInv, UNCHANGED vars
  PROVE  SInv'
<1>1. SessTypeOK' /\ OneTalker' /\ Unheld' /\ ContShape' /\ TrustSound'
  BY DEF SInv, SessTypeOK, OneTalker, Unheld, ContShape, TrustSound, vars
<1>2. ~torn => GenSound' /\ FreshSound'
  BY DEF SInv, GenSound, FreshSound, Fresh, vars
<1> QED BY <1>1, <1>2 DEF SInv, vars

\* The whole invariant: whatever Apple answers, whichever process dies or is
\* reset, every step of every process keeps what the code relies on about the
\* lock, the generations, the trust tokens and the age of what is in memory.
THEOREM SessionInvariant == Spec => []SInv
<1>1. Init => SInv
  BY InitSafe
<1>2. SInv /\ [Next]_vars => SInv'
  <2> SUFFICES ASSUME SInv, [Next]_vars PROVE SInv'
    OBVIOUS
  <2>1. CASE \E p \in Procs, cont \in Conts, tty \in BOOLEAN : Start(p, cont, tty)
    BY <2>1, StartSafe
  <2>2. CASE \E p \in Procs : Crash(p) \/ Authenticate(p)
    BY <2>2, CrashSafe, AuthenticateSafe
  <2>3. CASE CacheAges
    BY <2>3, CacheAgesSafe
  <2>4. CASE WatchStep
    BY <2>4, WatchStepSafe
  <2>5. CASE UNCHANGED vars
    BY <2>5, StutterSafe
  <2> QED BY <2>1, <2>2, <2>3, <2>4, <2>5 DEF Next
<1> QED BY <1>1, <1>2, PTL DEF Spec

\* Every variable keeps its type, and a process that is off holds no lock.
THEOREM SessionTypes == Spec => []SessTypeOK
<1>1. SInv => SessTypeOK
  BY DEF SInv
<1> QED BY <1>1, SessionInvariant, PTL

\* Only the holder of the account lock talks to Apple with the session or writes
\* its files from memory, for any number of commands (session.rs, sync_loop.rs).
THEOREM OneTalkerHolds == Spec => []OneTalker
<1>1. SInv => OneTalker
  BY DEF SInv
<1> QED BY <1>1, SessionInvariant, PTL

\* After a reset nothing that was issued before it comes back to disk, for any
\* number of resets, tokens and processes, unless a process died inside the write
\* of the generation (session.rs: discard, write_lock_generation).
THEOREM ResetIsFinal == Spec => []ResetWins
<1>1. SInv => ResetWins
  BY DEF SInv, FreshSound, ResetWins
<1> QED BY <1>1, SessionInvariant, PTL

\* A watch process runs a cycle only under the generation it started with or made
\* itself: a reset by another process ends it (sync_loop.rs).
THEOREM ResetEndsWatch == Spec => []ResetStopsWatch
<1>1. SInv => ResetStopsWatch
  BY DEF SInv, OneTalker, Talking, Procs, GenSound, ResetStopsWatch
<1> QED BY <1>1, SessionInvariant, PTL
-----------------------------------------------------------------------------
(* A trust token stays on disk.                                               *)

TrustGrows == \/ files'.session = files.session
              \/ /\ files'.session # Null
                 /\ files.session # Null => files.session.trust <= files'.session.trust

LEMMA SavedGrows ==
  ASSUME SInv, NEW p \in Procs, proc[p].pc \in AuthSteps, NEW s \in Session,
         NEW changed \in BOOLEAN, NEW cache, Saved(s, changed, cache),
         proc[p].sess.trust <= s.trust
  PROVE  TrustGrows
<1>1. files'.session = IF changed THEN [tok |-> s.tok, trust |-> s.trust] ELSE files.session
  BY DEF Saved, Write
<1>2. s.trust \in Nat /\ s.tok \in Nat
  BY SessBoundsAssumption DEF Session, Issued
<1>3. [tok |-> s.tok, trust |-> s.trust] # Null
  BY <1>2, NullAssumption
<1>4. files.session # Null => files.session.trust <= s.trust
  <2>1. files.session # Null => files.session.trust \in Nat
    BY ProcessFacts, SessBoundsAssumption DEF FileStates, Issued
  <2> QED BY <1>2, <2>1, AuthFacts, ProcessFacts
<1> QED BY <1>1, <1>3, <1>4 DEF TrustGrows

LEMMA AuthGrows ==
  ASSUME SInv, NEW p \in Procs, Authenticate(p), proc[p].pc # "remove"
  PROVE  TrustGrows
<1> DEFINE q == proc[p]
<1>1. /\ q.sess \in Session /\ q.sess.trust \in Nat /\ q.sess.trust <= q.sess.trust
      /\ issued.trust \in Nat
  <2>1. q.sess.trust \in Nat /\ q.sess \in Session /\ issued.trust \in Nat
    BY ProcessFacts DEF Process
  <2> QED BY <2>1
<1>2. CASE OpenSession(p) \/ WriteLockGeneration(p)
  BY <1>2 DEF OpenSession, WriteLockGeneration, KeepFiles, TrustGrows
<1>3. CASE ValidateToken(p)
  <2>1. q.pc \in AuthSteps
    BY <1>3 DEF ValidateToken, AuthSteps
  <2>2. KeepFiles \/ \E changed \in BOOLEAN, cache \in {"fresh", files.cache} : Saved(q.sess, changed, cache)
    BY <1>3, Zenon DEF ValidateToken
  <2> QED BY <1>1, <2>1, <2>2, SavedGrows DEF KeepFiles, TrustGrows
<1>4. CASE AuthenticateWithToken(p)
  <2> DEFINE s == [q.sess EXCEPT !.jar = q.sess.tok]
             cache == IF q.cont = "code" THEN files.cache ELSE "fresh"
  <2>1. q.pc \in AuthSteps
    BY <1>4 DEF AuthenticateWithToken, AuthSteps
  <2>2. \E changed \in BOOLEAN, c \in {cache, files.cache}, t \in {q.sess, s} : Saved(t, changed, c)
    BY <1>4, Zenon DEF AuthenticateWithToken
  <2>3. s \in Session /\ q.sess.trust <= s.trust
    BY <1>1, JarOfToken
  <2> HIDE DEF s, cache
  <2> QED BY <1>1, <2>1, <2>2, <2>3, SavedGrows
<1>5. CASE AuthenticateSrp(p)
  <2> DEFINE k == issued.tok + 1
             s == [q.sess EXCEPT !.tok = k, !.jar = k]
             cache == IF q.cont = "code" THEN files.cache ELSE "fresh"
  <2>1. q.pc \in AuthSteps
    BY <1>5 DEF AuthenticateSrp, AuthSteps
  <2>2. \/ KeepFiles
        \/ Saved(q.sess, TRUE, files.cache)
        \/ k <= MaxIssued /\ \E c \in {cache, files.cache} : Saved(s, TRUE, c)
    BY <1>5, Zenon DEF AuthenticateSrp
  <2>3. CASE k <= MaxIssued /\ \E c \in {cache, files.cache} : Saved(s, TRUE, c)
    <3>1. k \in Issued
      BY <2>3, ProcessFacts, SessBoundsAssumption DEF Issued
    <3> HIDE DEF k, cache
    <3>2. s \in Session /\ s.trust = q.sess.trust
      BY <1>1, <3>1 DEF Session
    <3> HIDE DEF s
    <3> QED BY <1>1, <2>1, <2>3, <3>2, SavedGrows
  <2> QED BY <1>1, <2>1, <2>2, <2>3, SavedGrows DEF KeepFiles, TrustGrows
<1>6. CASE TwoFactor(p)
  <2> DEFINE k == issued.trust + 1
             s == [q.sess EXCEPT !.trust = k]
  <2>1. q.pc \in AuthSteps
    BY <1>6 DEF TwoFactor, AuthSteps
  <2>2. \/ KeepFiles
        \/ \E changed \in BOOLEAN : Saved(q.sess, changed, files.cache)
        \/ s.trust <= MaxIssued /\ \E c \in {"fresh", files.cache} : Saved(s, TRUE, c)
    BY <1>6, Zenon DEF TwoFactor
  <2>3. CASE s.trust <= MaxIssued /\ \E c \in {"fresh", files.cache} : Saved(s, TRUE, c)
    <3>1. s.trust = k
      BY <1>1 DEF Session
    <3>2. k \in Issued /\ k \in Nat /\ q.sess.trust <= k
      <4>1. q.sess.trust <= issued.trust
        BY <2>1, AuthFacts
      <4> QED BY <1>1, <2>3, <3>1, <4>1, SessBoundsAssumption DEF Issued
    <3> HIDE DEF k
    <3>3. s \in Session
      BY <1>1, <3>2 DEF Session
    <3> HIDE DEF s
    <3> QED BY <1>1, <2>1, <2>3, <3>1, <3>2, <3>3, SavedGrows
  <2> QED BY <1>1, <2>1, <2>2, <2>3, SavedGrows DEF KeepFiles, TrustGrows
<1>7. ~RemoveFiles(p)
  BY DEF RemoveFiles
<1> QED BY <1>2, <1>3, <1>4, <1>5, <1>6, <1>7 DEF Authenticate

LEMMA WatchGrows ==
  ASSUME SInv, WatchStep, proc[Watch].pc # "validate"
  PROVE  TrustGrows
<1>1. files \in FileStates /\ Watch \in Procs
  BY ProcessFacts DEF Procs
<1>2. CASE \/ InitPhotosService \/ RunCycle \/ Wake \/ RelockAfterIdle \/ AttemptReauth
           \/ TakeSnapshot
  BY <1>2 DEF InitPhotosService, RunCycle, Wake, RelockAfterIdle, AttemptReauth, TakeSnapshot,
              KeepFiles, TrustGrows
<1>3. CASE ClearValidationCache \/ Poll
  <2>1. KeepFiles \/ files' = [files EXCEPT !.cache = "none"]
    BY <1>3, Zenon DEF ClearValidationCache, Poll, Write
  <2> QED BY <1>1, <2>1 DEF KeepFiles, TrustGrows, FileStates
<1>4. CASE StripSessionRoutingState
  <2>1. KeepFiles \/ files' = Stripped(files)
    BY <1>4, Zenon DEF StripSessionRoutingState, Write
  <2>2. CASE files' = Stripped(files) /\ files.session # Null
    <3>1. files.session \in Pairs /\ files.session.trust \in Nat
      BY <1>1, <2>2, SessBoundsAssumption DEF FileStates, Pairs, Issued
    <3>2. files'.session = [files.session EXCEPT !.tok = 0]
      BY <1>1, <2>2, <3>1 DEF Stripped, FileStates
    <3>3. files'.session \in [tok : Nat, trust : Nat] /\ files'.session.trust = files.session.trust
      BY <3>1, <3>2, SessBoundsAssumption DEF Pairs, Issued
    <3> QED BY <3>1, <3>3, NullAssumption DEF TrustGrows
  <2>3. CASE files' = Stripped(files) /\ files.session = Null
    BY <2>3 DEF Stripped, TrustGrows
  <2> QED BY <2>1, <2>2, <2>3 DEF KeepFiles, TrustGrows
<1>5. ~ValidateSession
  BY DEF ValidateSession
<1> QED BY <1>2, <1>3, <1>4, <1>5 DEF WatchStep

LEMMA RemoveEnds ==
  ASSUME SInv, NEW p \in Procs, RemoveFiles(p)
  PROVE  proc'[p].pc # "remove"
<1> DEFINE q == proc[p]
           n == [q EXCEPT !.pc = "open", !.want = q.sess.gen, !.again = TRUE,
                          !.sess = NoSession, !.loaded = FALSE]
<1>1. proc' = [proc EXCEPT ![p] = n] \/ AuthFails(p, "failed")
  BY Zenon DEF RemoveFiles, Becomes
<1>2. q \in Process /\ proc \in [Procs -> Process] /\ (q.cont = "reauth" => q.expired > 0)
  BY DEF SInv, SessTypeOK, ContShape
<1>3. CASE proc' = [proc EXCEPT ![p] = n]
  BY <1>2, <1>3 DEF Process
<1>4. CASE AuthFails(p, "failed")
  <2> DEFINE f == Failed(q, "failed")
             m == [f EXCEPT !.sess = NoSession, !.again = FALSE, !.loaded = FALSE]
  <2>1. FailedOk(q, "failed", f)
    BY <1>2, FailedFacts DEF Results
  <2>2. proc' = [proc EXCEPT ![p] = m]
    BY <1>4 DEF AuthFails, Becomes
  <2> HIDE DEF f
  <2>3. m.pc = f.pc /\ f.pc # "remove"
    BY <2>1 DEF FailedOk, FailPcs, Process
  <2> QED BY <1>2, <2>2, <2>3
<1> QED BY <1>1, <1>3, <1>4

LEMMA ValidateEnds ==
  ASSUME SInv, ValidateSession
  PROVE  proc'[Watch].pc # "validate"
<1> DEFINE q == proc[Watch]
           s == [q.live EXCEPT !.jar = q.live.tok]
           replaced == [q EXCEPT !.pc = "open", !.want = q.live.gen, !.again = FALSE]
           f == Failed(q, "failed")
<1>1. /\ q \in Process /\ proc \in [Procs -> Process] /\ Watch \in Procs
      /\ q.cont = "reauth" => q.expired > 0
  BY DEF SInv, SessTypeOK, ContShape, Procs
<1>2. \/ \E t : proc' = [proc EXCEPT ![Watch] = Cycling(q, t)]
      \/ \E t : proc' = [proc EXCEPT ![Watch] = [replaced EXCEPT !.live = t]]
      \/ proc' = [proc EXCEPT ![Watch] = f]
  BY Zenon DEF ValidateSession, Becomes
<1>3. ASSUME NEW t PROVE Cycling(q, t).pc = "cycle" /\ [replaced EXCEPT !.live = t].pc = "open"
  BY <1>1 DEF Cycling, Off, Process
<1>4. f.pc # "validate"
  BY <1>1, FailedFacts DEF FailedOk, FailPcs, Results
<1> HIDE DEF f, replaced
<1> QED BY <1>1, <1>2, <1>3, <1>4

\* A trust token a login earned stays on disk until a newer one replaces it or a
\* reset discards it; the one exception is the first answer to a watch process
\* that was away (session.rs: extract_and_save; auth/mod.rs: validate_session).
THEOREM TrustIsKept == Spec => TrustKept
<1> DEFINE Kept == (files.session # Null /\ files.session.trust # 0
                    /\ (files'.session = Null \/ files'.session.trust < files.session.trust))
                   => \/ \E p \in Procs : proc[p].pc = "remove" /\ proc'[p].pc # "remove"
                      \/ proc[Watch].pc = "validate" /\ proc'[Watch].pc # "validate"
<1>1. SInv /\ SInv' /\ [Next]_vars => [Kept]_vars
  <2> SUFFICES ASSUME SInv, SInv', Next PROVE Kept
    OBVIOUS
  <2>1. ASSUME TrustGrows PROVE Kept
    <3>1. files.session # Null => files.session.trust \in Nat
      BY ProcessFacts, SessBoundsAssumption DEF Procs, FileStates, Issued
    <3>2. files'.session # Null => files'.session.trust \in Nat
      BY SessBoundsAssumption DEF SInv, SessTypeOK, Issued
    <3> QED BY <2>1, <3>1, <3>2 DEF TrustGrows
  <2> HIDE DEF Kept
  <2>2. CASE \E p \in Procs, cont \in Conts, tty \in BOOLEAN : Start(p, cont, tty)
    BY <2>1, <2>2 DEF Start, TrustGrows
  <2>3. CASE CacheAges
    <3>1. files'.session = files.session
      BY <2>3, ProcessFacts DEF CacheAges, Procs, FileStates
    <3> QED BY <2>1, <3>1 DEF TrustGrows
  <2>4. ASSUME NEW p \in Procs, Crash(p) \/ Authenticate(p) PROVE Kept
    <3>1. CASE Crash(p)
      BY <2>1, <3>1 DEF Crash, TrustGrows
    <3>2. CASE Authenticate(p) /\ proc[p].pc # "remove"
      BY <2>1, <3>2, AuthGrows
    <3>3. CASE Authenticate(p) /\ proc[p].pc = "remove"
      <4>1. RemoveFiles(p)
        BY <3>3 DEF Authenticate, OpenSession, ValidateToken, AuthenticateWithToken,
                    AuthenticateSrp, TwoFactor, WriteLockGeneration
      <4> QED BY <3>3, <4>1, RemoveEnds DEF Kept
    <3> QED BY <2>4, <3>1, <3>2, <3>3
  <2>5. CASE WatchStep
    <3>1. CASE proc[Watch].pc # "validate"
      BY <2>1, <2>5, <3>1, WatchGrows
    <3>2. CASE proc[Watch].pc = "validate"
      <4>1. ValidateSession
        BY <2>5, <3>2 DEF WatchStep, InitPhotosService, ClearValidationCache,
           StripSessionRoutingState, RunCycle, Wake, RelockAfterIdle, AttemptReauth,
           TakeSnapshot, Poll
      <4> QED BY <3>2, <4>1, ValidateEnds DEF Kept
    <3> QED BY <3>1, <3>2
  <2> QED BY <2>2, <2>3, <2>4, <2>5 DEF Next
<1>2. TrustKept <=> [][Kept]_vars
  BY DEF TrustKept
<1> QED BY <1>1, <1>2, SessionInvariant, PTL DEF Spec
=============================================================================
