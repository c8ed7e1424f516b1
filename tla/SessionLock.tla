---------------------------- MODULE SessionLock ----------------------------
(***************************************************************************)
(* The iCloud session of one account and the processes that share it: a    *)
(* watch process, which releases the account lock while it sleeps, waits   *)
(* for a 2FA code or hands its session to a replacement, and the commands  *)
(* kei login, login get-code, login submit-code and reset session          *)
(* (auth/session.rs, auth/mod.rs, sync_loop.rs, commands/service.rs).      *)
(*                                                                         *)
(* Apple is external: every answer the code tells apart may be given.  A   *)
(* session token and a trust token are numbered in the order of issue, a   *)
(* cookie jar by the token it belongs to, 0 is none.                       *)
(***************************************************************************)
EXTENDS Naturals, FiniteSets

CONSTANTS
  Null,
  Watch,       \* the watch process
  Commands,    \* command processes
  MaxIssued,   \* bound: session tokens, and trust tokens, Apple issues
  MaxGen,      \* bound: generation in the lock file
  MaxRuns,     \* bound: processes started
  SessFaults   \* which of AllSessFaults may happen

\* "crash": a process dies; "torn": it dies inside write_lock_generation;
\* "remove": a file cannot be removed; "unlock": the lock cannot be released.
AllSessFaults == {"crash", "torn", "remove", "unlock"}

ASSUME ProcsAssumption == IsFiniteSet(Commands) /\ Watch \notin Commands
                          /\ Null \notin Commands \cup {Watch}
ASSUME NullAssumption == Null \notin Nat \cup [tok : Nat, trust : Nat]
ASSUME SessBoundsAssumption == {MaxIssued, MaxGen, MaxRuns} \subseteq Nat
ASSUME SessFaultsAssumption == SessFaults \subseteq AllSessFaults

Procs == {Watch} \cup Commands
MaxReauthAttempts == 3
MaxWaitTries == 3      \* attempts of wait_and_retry_2fa after a change
MaxLockTries == 2      \* bound: attempts of retry_on_lock_contention (6 in the code)

VARIABLES
  lock,     \* holder of the exclusive file lock
  gen,      \* the generation in the lock file
  files,    \* session file, cookie jar and validation cache
  proc,     \* the processes
  issued,   \* tokens issued so far
  floor,    \* what had been issued when the last reset was complete
  touched,  \* the auth files changed since the watch process looked at them
  torn,     \* a process died while it wrote the generation
  runs      \* processes started

\* proc[p]: where the process is (pc) and what waits for its authentication
\* (cont); whether it may prompt; the generation a new session must find (want);
\* whether this is the clean retry (again) and files were loaded; the session
\* being authenticated and the live one; attempts so far; and, to state the
\* properties, the generation the process started with or made itself (base).

vars == <<lock, gen, files, proc, issued, floor, touched, torn, runs>>

Issued == 0..MaxIssued
Session == [tok : Issued, trust : Issued, jar : Issued, gen : 0..MaxGen]
NoSession == [tok |-> 0, trust |-> 0, jar |-> 0, gen |-> 0]
NoFiles == [session |-> Null, jar |-> 0, cache |-> "none"]
Conts == {"start", "lenient", "persisted", "forced", "waitAuth",
          "reauth", "waitReauth", "idle", "login", "code", "submit", "reset"}
Steps == {"off", "open", "inner", "login", "srp", "factor", "discard", "remove",
          "init", "cycle", "sleep", "clear", "strip", "reacquire", "validate",
          "relock", "snapshot", "poll"}
Off == [pc |-> "off", cont |-> "start", tty |-> FALSE, want |-> Null, again |-> FALSE,
        loaded |-> FALSE, sess |-> NoSession, live |-> NoSession, tries |-> 0,
        expired |-> 0, retried |-> FALSE, base |-> Null]

Process == [pc : Steps, cont : Conts, tty : BOOLEAN, want : 0..MaxGen \cup {Null},
            again : BOOLEAN, loaded : BOOLEAN, sess : Session, live : Session,
            tries : 0..MaxWaitTries - 1, expired : 0..MaxReauthAttempts,
            retried : BOOLEAN, base : 0..MaxGen \cup {Null}]

SessTypeOK ==
  /\ lock \in Procs \cup {Null}
  /\ gen \in 0..MaxGen
  /\ files \in [session : [tok : Issued, trust : Issued] \cup {Null}, jar : Issued,
                cache : {"none", "fresh", "old"}]
  /\ proc \in [Procs -> Process]
  /\ \A p \in Procs : proc[p].pc = "off" => lock # p
  /\ issued \in [tok : Issued, trust : Issued] /\ floor \in [tok : Issued, trust : Issued]
  /\ touched \in BOOLEAN /\ torn \in BOOLEAN /\ runs \in 0..MaxRuns

Init ==
  /\ lock = Null /\ gen = 0 /\ files = NoFiles
  /\ proc = [p \in Procs |-> Off]
  /\ issued = [tok |-> 0, trust |-> 0] /\ floor = issued
  /\ touched = FALSE /\ torn = FALSE /\ runs = 0
-----------------------------------------------------------------------------
Becomes(p, q) == proc' = [proc EXCEPT ![p] = q]
Goes(p, pc) == Becomes(p, [proc[p] EXCEPT !.pc = pc])
Unlocked(p) == IF lock = p THEN Null ELSE lock
Write(fs) == files' = fs /\ touched' = (touched \/ fs # files)
KeepFiles == UNCHANGED <<files, touched>>

\* extract_and_save: the session file is written when a header changed a value
\* (always with the whole map in memory), the jar whenever it differs.
Saved(s, changed, cache) ==
  Write([session |-> IF changed THEN [tok |-> s.tok, trust |-> s.trust] ELSE files.session,
         jar |-> IF s.jar # 0 THEN s.jar ELSE files.jar,
         cache |-> cache])

\* Where the caller of an authentication that failed with r goes on.
Route(cont, r) ==
  CASE cont = "idle" -> "relock"
    [] cont = "lenient" /\ r = "failed" -> "strip"
    [] cont \in {"lenient", "forced"} /\ r = "factor" -> "clear"
    [] cont \in {"start", "reauth", "waitAuth", "waitReauth"} /\ r = "factor" -> "snapshot"
    [] cont = "persisted" /\ r # "reset" -> "snapshot"
    [] cont \in {"waitAuth", "waitReauth"} /\ r = "contended" -> "again"
    [] cont \in {"login", "code", "submit"} /\ r = "contended" -> "again"
    [] OTHER -> "off"

Limit(q) == IF q.cont \in {"waitAuth", "waitReauth"} THEN MaxWaitTries ELSE MaxLockTries
AttemptsLeftLate(q) == q.tries < Limit(q)

AttemptsLeft(q) == q.tries + 1 < Limit(q)

\* One more attempt, or what follows the last one.
Again(q) ==
  LET left == AttemptsLeft(q)
  IN CASE ~left /\ q.cont \in {"waitAuth", "waitReauth"} -> [q EXCEPT !.pc = "snapshot"]
       [] ~left /\ q.cont \notin {"waitAuth", "waitReauth"} -> Off
       [] left /\ q.cont = "waitReauth" -> [q EXCEPT !.pc = "reacquire", !.tries = @ + 1]
       [] OTHER -> [q EXCEPT !.pc = "open", !.tries = @ + 1, !.again = FALSE,
                             !.want = IF q.cont = "waitAuth" THEN @ ELSE Null]

\* two_factor_generation: the generation of the session that needed the code.
Failed(q, r) ==
  LET to == Route(q.cont, r)
      waits == IF q.cont \in {"reauth", "waitReauth"} THEN "waitReauth" ELSE "waitAuth"
  IN CASE to = "off" -> Off
       [] to = "again" -> Again(q)
       [] to = "clear" -> [q EXCEPT !.pc = to, !.cont = "persisted", !.want = q.sess.gen]
       [] to = "snapshot" ->
            [q EXCEPT !.pc = to, !.cont = waits,
                      !.want = IF q.cont = "start" THEN q.sess.gen ELSE @,
                      !.expired = IF q.cont = "reauth" THEN @ - 1 ELSE @]
       [] OTHER -> [q EXCEPT !.pc = to]

\* A cycle of the watch process with this session.
Cycling(q, s) == [Off EXCEPT !.pc = "cycle", !.tty = q.tty, !.live = s, !.expired = q.expired,
                             !.base = q.base]

\* The caller takes over the authenticated session, a command ends with it.
Authenticated(p, s) ==
  LET q == proc[p] IN
  /\ Becomes(p, CASE p # Watch -> Off
                  [] p = Watch /\ q.cont \in {"reauth", "waitReauth", "idle"} -> Cycling(q, s)
                  [] OTHER -> [Off EXCEPT !.pc = "init", !.tty = q.tty, !.live = s,
                                          !.retried = q.retried, !.base = q.base])
  /\ lock' = IF p = Watch THEN lock ELSE Null

\* The session under construction is dropped, and its lock with it.
AuthFails(p, r) ==
  /\ Becomes(p, [Failed(proc[p], r) EXCEPT !.sess = NoSession, !.again = FALSE,
                                           !.loaded = FALSE])
  /\ lock' = Unlocked(p)
-----------------------------------------------------------------------------
(* Processes start, die, and time passes. *)

Start(p, cont, tty) ==
  /\ proc[p].pc = "off" /\ runs < MaxRuns
  /\ cont \in IF p = Watch THEN {"start"} ELSE {"login", "code", "submit", "reset"}
  /\ runs' = runs + 1
  /\ Becomes(p, [Off EXCEPT !.pc = "open", !.cont = cont, !.tty = tty])
  /\ UNCHANGED <<lock, gen, files, issued, floor, touched, torn>>

Crash(p) ==
  /\ "crash" \in SessFaults /\ proc[p].pc # "off"
  /\ Becomes(p, Off) /\ lock' = Unlocked(p)
  /\ UNCHANGED <<gen, files, issued, floor, touched, torn, runs>>

CacheAges ==
  /\ files.cache = "fresh"
  /\ files' = [files EXCEPT !.cache = "old"]
  /\ UNCHANGED <<lock, gen, proc, issued, floor, touched, torn, runs>>
-----------------------------------------------------------------------------
(* A session is opened and authenticated (auth/mod.rs). *)

AcquireAny(want) == IF lock # Null THEN "contended" ELSE "ok"

\* acquire_with_generation
Acquire(want) ==
  IF lock # Null THEN "contended"
  ELSE IF want # Null /\ gen # want THEN "reset" ELSE "ok"

Loaded == [tok |-> IF files.session = Null THEN 0 ELSE files.session.tok,
           trust |-> IF files.session = Null THEN 0 ELSE files.session.trust,
           jar |-> files.jar, gen |-> gen]

OpenSession(p) ==
  LET q == proc[p]  r == Acquire(q.want) IN
  /\ q.pc = "open"
  /\ \/ r # "ok" /\ AuthFails(p, r)
     \/ /\ r = "ok"
        /\ IF q.cont = "reset" /\ files = NoFiles
           THEN Becomes(p, Off) /\ UNCHANGED lock
           ELSE /\ lock' = p
                /\ Becomes(p, [q EXCEPT !.pc = IF q.cont = "reset" THEN "discard" ELSE "inner",
                                        !.sess = Loaded,
                                        !.base = IF @ = Null THEN gen ELSE @,
                                        !.loaded = files.session # Null \/ files.jar # 0])
  /\ KeepFiles /\ UNCHANGED <<gen, issued, floor, torn, runs>>

\* The validation cache, or /validate.
ValidateToken(p) ==
  LET q == proc[p] IN
  /\ q.pc = "inner" /\ q.sess.tok # 0
  /\ \/ /\ q.cont # "submit" /\ files.cache = "fresh"
        /\ Authenticated(p, q.sess) /\ KeepFiles
     \/ /\ q.cont = "submit" \/ files.cache # "fresh"
        /\ \E changed \in BOOLEAN :
          \/ Saved(q.sess, changed, "fresh") /\ Authenticated(p, q.sess)
          \/ Saved(q.sess, changed, files.cache) /\ Goes(p, "login") /\ UNCHANGED lock
          \/ Saved(q.sess, changed, files.cache) /\ AuthFails(p, "failed")
  /\ UNCHANGED <<gen, issued, floor, torn, runs>>

\* /accountLogin with the persisted token and trust token.
AuthenticateWithToken(p) ==
  LET q == proc[p]
      s == [q.sess EXCEPT !.jar = q.sess.tok] IN
  /\ q.pc = "login"
  /\ \E changed \in BOOLEAN :
       \/ Saved(s, changed, IF q.cont = "code" THEN files.cache ELSE "fresh")
          /\ Authenticated(p, s)
       \/ /\ Saved(s, changed, files.cache)
          /\ Becomes(p, [q EXCEPT !.pc = "factor", !.sess = s]) /\ UNCHANGED lock
       \/ Saved(q.sess, changed, files.cache) /\ Goes(p, "srp") /\ UNCHANGED lock
       \/ q.cont # "code" /\ Saved(q.sess, changed, files.cache) /\ AuthFails(p, "failed")
  /\ UNCHANGED <<gen, issued, floor, torn, runs>>

\* The password login mints a session token; /accountLogin follows at once.
AuthenticateSrp(p) ==
  LET q == proc[p]
      n == issued.tok + 1
      s == [q.sess EXCEPT !.tok = n, !.jar = n] IN
  /\ q.pc = "srp" \/ (q.pc = "inner" /\ q.sess.tok = 0)
  /\ \/ \* no password, or Apple rejects it
        /\ \E changed \in BOOLEAN : IF changed THEN Saved(q.sess, TRUE, files.cache) ELSE KeepFiles
        /\ AuthFails(p, "failed") /\ UNCHANGED issued
     \/ /\ n <= MaxIssued /\ issued' = [issued EXCEPT !.tok = n]
        /\ \/ Saved(s, TRUE, files.cache) /\ AuthFails(p, "failed")
           \/ Saved(s, TRUE, IF q.cont = "code" THEN files.cache ELSE "fresh")
              /\ Authenticated(p, s)
           \/ /\ Saved(s, TRUE, files.cache)
              /\ Becomes(p, [q EXCEPT !.pc = "factor", !.sess = s]) /\ UNCHANGED lock
  /\ UNCHANGED <<gen, floor, torn, runs>>

\* Apple wants a second factor.  A push that is refused with 403 discards what
\* was loaded from disk; a verified code earns a trust token.
TwoFactor(p) ==
  LET q == proc[p]
      prompts == q.cont \notin {"code", "submit"} /\ q.tty
      s == [q.sess EXCEPT !.trust = issued.trust + 1] IN
  /\ q.pc = "factor"
  /\ \/ /\ q.cont \notin {"code", "submit"} /\ ~q.tty
        /\ AuthFails(p, "factor") /\ KeepFiles /\ UNCHANGED issued
     \/ /\ q.cont = "code" \/ prompts
        /\ q.loaded /\ \E changed \in BOOLEAN : Saved(q.sess, changed, files.cache)
        /\ Goes(p, "discard") /\ UNCHANGED <<lock, issued>>
     \/ \* the code was sent, the push failed, or the codes were wrong
        /\ q.cont \in {"code", "submit"} \/ prompts
        /\ \E changed \in BOOLEAN : Saved(q.sess, changed, files.cache)
        /\ AuthFails(p, "failed") /\ UNCHANGED issued
     \/ /\ prompts \/ q.cont = "submit"
        /\ s.trust <= MaxIssued /\ issued' = [issued EXCEPT !.trust = s.trust]
        /\ \/ Saved(s, TRUE, "fresh") /\ Authenticated(p, s)
           \/ Saved(s, TRUE, files.cache) /\ AuthFails(p, "failed")
  /\ UNCHANGED <<gen, floor, torn, runs>>

\* discard: the generation is written before the first file is removed.
WriteLockGeneration(p) ==
  LET q == proc[p] IN
  /\ q.pc = "discard" /\ gen < MaxGen
  /\ \/ /\ gen' = gen + 1
        /\ Becomes(p, [q EXCEPT !.pc = "remove", !.sess.gen = gen + 1,
                               !.base = gen + 1])
        /\ UNCHANGED <<lock, torn>>
     \/ /\ "torn" \in SessFaults   \* after set_len(0): an empty file reads as 0
        /\ gen' = 0 /\ torn' = TRUE /\ Becomes(p, Off) /\ lock' = Null
  /\ KeepFiles /\ UNCHANGED <<issued, floor, runs>>

RemoveFiles(p) ==
  LET q == proc[p] IN
  /\ q.pc = "remove"
  /\ \E kept \in SUBSET {"session", "jar", "cache"} :
       /\ kept # {} => "remove" \in SessFaults
       /\ Write([f \in DOMAIN files |-> IF f \in kept THEN files[f] ELSE NoFiles[f]])
       /\ floor' = IF kept = {} THEN issued ELSE floor
       /\ IF kept = {} /\ q.cont # "reset" /\ ~q.again
          THEN /\ Becomes(p, [q EXCEPT !.pc = "open", !.want = q.sess.gen, !.again = TRUE,
                                       !.sess = NoSession, !.loaded = FALSE])
               /\ lock' = Null
          ELSE AuthFails(p, "failed")
  /\ UNCHANGED <<gen, issued, torn, runs>>
-----------------------------------------------------------------------------
(* The watch process (sync_loop.rs, commands/service.rs). *)

\* A stale-session answer to the first CloudKit calls is retried once.
InitPhotosService ==
  LET q == proc[Watch] IN
  /\ q.pc = "init"
  /\ \/ Becomes(Watch, Cycling(q, q.live)) /\ UNCHANGED lock
     \/ /\ Becomes(Watch, IF q.retried THEN Off
                          ELSE [q EXCEPT !.pc = "clear", !.cont = "lenient", !.retried = TRUE,
                                         !.want = q.live.gen, !.live = NoSession])
        /\ lock' = Null
  /\ KeepFiles /\ UNCHANGED <<gen, issued, floor, torn, runs>>

\* clear_validation_cache_for_reauth: without the lock.
ClearValidationCache ==
  /\ proc[Watch].pc = "clear"
  /\ Write([files EXCEPT !.cache = "none"])
  /\ Goes(Watch, "open")
  /\ UNCHANGED <<lock, gen, issued, floor, torn, runs>>

StrippedOfAll(fs) == IF fs.session = Null THEN fs
                     ELSE [fs EXCEPT !.session.tok = 0, !.session.trust = 0, !.cache = "none"]

\* The session token goes, the trust token stays.
Stripped(fs) == IF fs.session = Null THEN fs
                ELSE [fs EXCEPT !.session.tok = 0, !.cache = "none"]

StripSessionRoutingState ==
  LET q == proc[Watch] IN
  /\ q.pc = "strip"
  /\ IF Acquire(q.want) = "ok"
     THEN /\ Write(Stripped(files))
          /\ Becomes(Watch, [q EXCEPT !.pc = "open", !.cont = "forced"])
     ELSE Becomes(Watch, Off) /\ KeepFiles
  /\ UNCHANGED <<lock, gen, issued, floor, torn, runs>>

\* A cycle ends: the session expired, the next cycle follows an idle sleep
\* without the lock, or the process ends.
RunCycle ==
  LET q == proc[Watch] IN
  /\ q.pc = "cycle"
  /\ \/ /\ Becomes(Watch, IF q.expired + 1 >= MaxReauthAttempts THEN Off
                          ELSE [q EXCEPT !.pc = "reacquire", !.cont = "reauth",
                                         !.expired = @ + 1])
        /\ lock' = IF q.expired + 1 >= MaxReauthAttempts THEN Null ELSE lock
     \/ /\ Becomes(Watch, [q EXCEPT !.pc = "sleep", !.expired = 0])
        /\ lock' = Null \/ ("unlock" \in SessFaults /\ lock' = lock)
     \/ Becomes(Watch, Off) /\ lock' = Null
  /\ KeepFiles /\ UNCHANGED <<gen, issued, floor, torn, runs>>

ReacquireForgetful == IF lock \in {Null, Watch} THEN "ok" ELSE "contended"

\* SessionStateGuard::reacquire of the live session
Reacquire ==
  IF lock \notin {Null, Watch} THEN "contended"
  ELSE IF lock = Null /\ gen # proc[Watch].live.gen THEN "reset" ELSE "ok"

Wake ==
  LET q == proc[Watch] IN
  /\ q.pc = "sleep"
  /\ IF Reacquire = "ok"
     THEN Becomes(Watch, [q EXCEPT !.pc = "validate", !.cont = "idle"]) /\ lock' = Watch
     ELSE Becomes(Watch, Off) /\ lock' = Unlocked(Watch)
  /\ KeepFiles /\ UNCHANGED <<gen, issued, floor, torn, runs>>

RelockUnchecked ==
  /\ proc[Watch].pc = "relock" /\ Goes(Watch, "cycle")
  /\ KeepFiles /\ UNCHANGED <<lock, gen, issued, floor, torn, runs>>

\* After a failed re-authentication the cycle goes on with the old session.
RelockAfterIdle ==
  LET q == proc[Watch] IN
  /\ q.pc = "relock"
  /\ IF Reacquire = "ok" THEN Becomes(Watch, Cycling(q, q.live)) /\ lock' = Watch
                         ELSE Becomes(Watch, Off) /\ lock' = Unlocked(Watch)
  /\ KeepFiles /\ UNCHANGED <<gen, issued, floor, torn, runs>>

\* attempt_reauth
AttemptReauth ==
  /\ proc[Watch].pc = "reacquire"
  /\ IF Reacquire = "ok" THEN Goes(Watch, "validate") /\ lock' = Watch
                         ELSE AuthFails(Watch, Reacquire)
  /\ KeepFiles /\ UNCHANGED <<gen, issued, floor, torn, runs>>

RecentlyValidated(s) == s.tok # 0 /\ files.cache = "fresh"

\* validate_session with the session in memory; a session that is not valid is
\* replaced by one that is opened from disk.
ValidateSession ==
  LET q == proc[Watch]
      s == [q.live EXCEPT !.jar = q.live.tok]
      replaced == [q EXCEPT !.pc = "open", !.want = q.live.gen, !.again = FALSE] IN
  /\ q.pc = "validate"
  /\ \/ /\ RecentlyValidated(q.live)
        /\ Becomes(Watch, Cycling(q, q.live)) /\ KeepFiles /\ UNCHANGED lock
     \/ /\ ~RecentlyValidated(q.live)
        /\ \E changed \in BOOLEAN :
          \/ \* /validate accepts it, or /accountLogin without a second factor
             \E t \in {q.live, s} :
               /\ Saved(t, changed, "fresh")
               /\ Becomes(Watch, Cycling(q, t)) /\ UNCHANGED lock
          \/ \E t \in {q.live, s} :
               /\ Saved(t, changed, files.cache)
               /\ Becomes(Watch, [replaced EXCEPT !.live = t]) /\ lock' = Null
     \/ \* timeout: the lock stays
        /\ ~RecentlyValidated(q.live)
        /\ Becomes(Watch, Failed(q, "failed")) /\ KeepFiles
        /\ lock' = IF Failed(q, "failed").pc = "off" THEN Null ELSE lock
  /\ UNCHANGED <<gen, issued, floor, torn, runs>>

\* wait_for_2fa_submit_until: look at the files, then poll them.
TakeSnapshot ==
  LET q == proc[Watch] IN
  /\ q.pc = "snapshot"
  /\ IF files.session = Null THEN Becomes(Watch, Off) ELSE Goes(Watch, "poll")
  /\ touched' = FALSE
  /\ UNCHANGED <<lock, gen, files, issued, floor, torn, runs>>

Poll ==
  LET q == proc[Watch] IN
  /\ q.pc = "poll"
  /\ \/ \* the deadline, or the session file is gone
        Becomes(Watch, Off) /\ KeepFiles
     \/ /\ touched /\ files.session # Null
        /\ Write([files EXCEPT !.cache = "none"])
        /\ Becomes(Watch, [q EXCEPT !.pc = IF q.cont = "waitReauth" THEN "reacquire" ELSE "open",
                                    !.tries = 0])
  /\ UNCHANGED <<lock, gen, issued, floor, torn, runs>>

Authenticate(p) == \/ OpenSession(p) \/ ValidateToken(p) \/ AuthenticateWithToken(p)
                   \/ AuthenticateSrp(p) \/ TwoFactor(p)
                   \/ WriteLockGeneration(p) \/ RemoveFiles(p)

WatchStep == \/ InitPhotosService \/ ClearValidationCache \/ StripSessionRoutingState
             \/ RunCycle \/ Wake \/ RelockAfterIdle \/ AttemptReauth \/ ValidateSession
             \/ TakeSnapshot \/ Poll

Next ==
  \/ \E p \in Procs, cont \in Conts, tty \in BOOLEAN : Start(p, cont, tty)
  \/ \E p \in Procs : Crash(p) \/ Authenticate(p)
  \/ CacheAges
  \/ WatchStep

Spec == Init /\ [][Next]_vars
-----------------------------------------------------------------------------
(* What the lock and its generation are for. *)

\* Whoever talks to Apple with the account's session, or writes its files from
\* memory, holds the account lock: through the idle sleep, the hand-over to a
\* replacement session and every failure on the way (sync_loop.rs: "Stopping so
\* another kei process cannot use the same session at the same time").
Talking == {"inner", "login", "srp", "factor", "discard", "remove", "init", "cycle",
            "validate"}
OneTalker == \A p \in Procs : proc[p].pc \in Talking => lock = p

\* A reset wins: once kei reset session (or the clean retry of a login) has
\* removed the auth files, no token or cookie issued before it is on disk again,
\* whatever a process that slept, waited or handed its session over still has in
\* memory.  (Where no process died inside the write of the generation: an empty
\* lock file reads as generation 0, and a later reset can arrive at a number a
\* sleeping process remembers.)
ResetWins ==
  ~torn =>
    /\ files.session # Null =>
         /\ files.session.tok = 0 \/ files.session.tok > floor.tok
         /\ files.session.trust = 0 \/ files.session.trust > floor.trust
    /\ files.jar = 0 \/ files.jar > floor.tok

\* A reset by another process ends a watch process: it never runs a cycle under
\* a generation other than the one it started with or made itself, so it does not
\* log in again after kei reset session, not even when the reset falls into the
\* gap between a released session and its replacement.
ResetStopsWatch ==
  ~torn /\ proc[Watch].pc \in {"init", "cycle"} => proc[Watch].base = gen

\* A trust token that a login earned stays on disk until a newer one replaces it
\* or a reset discards it (session.rs: the session data on disk is what lets an
\* authentication survive a restart).  The exception is the first answer to a
\* watch process that was away: validate_session writes the session it has kept
\* in memory, whatever login submit-code has stored meanwhile.
TrustKept ==
  [][(files.session # Null /\ files.session.trust # 0
      /\ (files'.session = Null \/ files'.session.trust < files.session.trust))
       => \/ \E p \in Procs : proc[p].pc = "remove" /\ proc'[p].pc # "remove"
          \/ proc[Watch].pc = "validate" /\ proc'[Watch].pc # "validate"]_vars
=============================================================================
