---------------------- MODULE IncrementalDeltaProofs ----------------------
EXTENDS IncrementalDelta, FiniteSetTheorems, WellFoundedInduction, TLAPS
-----------------------------------------------------------------------------
(* The inductive invariant. *)

Elems(s) == {s[i] : i \in DOMAIN s}

(* The events that are sent and unread, and those still to be sent. *)
Flow == channel \o prod.todo

(* The change up to which the producer of the run has read. *)
Frontier == IF run.token # Null THEN run.token
            ELSE IF prod.token # Null THEN prod.token ELSE db.token

(* The token of this run will not be stored. *)
Doomed == \/ run.unsafe \/ stopped \/ run.pc = "failed" \/ prod.failed
          \/ \E e \in Elems(Flow) : e.kind \in {"bad", "err"}

(* An asset never outlives its master; one with a master that was trashed    *)
(* after the token is trashed; and no two changes have one number.           *)
ZoneOK ==
    /\ \A a \in Assets : Exists(a) => Exists(MasterOf[a])
    /\ \A a \in Assets : zone[MasterOf[a]].st = "trashed" /\ zone[MasterOf[a]].at > db.token => ~Alive(a)
    /\ \A m \in Masters : zone[m].st # "hidden"
    /\ \A a \in Assets : zone[Rel(a)].st \in {"absent", "live", "gone"}
    /\ \A r \in Records : zone[r].st = "absent" <=> zone[r].at = 0
    /\ \A q, r \in Records : zone[q].at = zone[r].at /\ zone[q].at > 1 => q = r

(* The phases after the last event. *)
Late == {"await", "map", "hydrate", "offer", "select", "scan", "relate", "apply", "plan", "report"}

ShapeOK ==
    /\ run.pc \in {"idle", "backfill"} =>
          run = [Idle EXCEPT !.pc = run.pc] /\ prod = Off /\ channel = <<>> /\ pipe = <<>>
    /\ run.pc = "idle" => ~stopped
    /\ run.pc \notin {"idle", "backfill"} /\ cfg.album => db.snapshot
    /\ db.snapshot => cfg.album
    /\ prod.pc = "off" => prod = Off
    /\ prod.pc # "off" => prod.token # Null /\ prod.token >= db.token /\ run.token = Null
    /\ run.token # Null => run.token >= db.token
    /\ prod.pc # "send" => prod.page = {}
    /\ prod.pc \in {"page", "done"} => prod.todo = <<>>
    /\ prod.pc = "done" => Flushed(prod.buffer)
    /\ prod.failed => prod.pc = "flush"
    /\ run.pc = "read" => prod.pc # "off"
    /\ run.pc \in {"map", "select", "scan", "apply", "plan"} => ~Streaming
    /\ run.pc = "offer" => Streaming
    /\ ~Streaming => pipe = <<>>
    /\ run.pc \in Late /\ ~stopped =>
          channel = <<>> /\ prod.pc \in {"done", "off"} /\ (prod.pc = "off" <=> run.token # Null)
    /\ run.pc \in Late \ {"await"} /\ ~Streaming => prod.pc = "off"
    /\ run.pc = "await" /\ ~stopped => prod.pc = "done"
    /\ Streaming => run.ready = <<>> /\ (run.token # Null => run.pc = "report")
    /\ run.pc \in {"read", "await", "map"} => run.at = 0

(* What is left of a page is a part of the zone as it was. *)
EntryOK(x) ==
    /\ x.at > prod.token /\ x.at <= zone[x.rec].at
    /\ x.at = zone[x.rec].at => x.st = zone[x.rec].st
    /\ x.st # "absent"
    /\ x.rec \in Masters => x.st # "hidden"
    /\ x.rec \in Relations => x.st \in {"live", "gone"}
    /\ x.rec \in Keys /\ x.st = "gone" => zone[x.rec].st = "gone" /\ zone[x.rec].at = x.at
    /\ x.rec \in Masters /\ x.st = "trashed" => zone[x.rec].st \in {"trashed", "gone"}
    /\ x.rec \in Assets /\ x.st # "gone" => x.rec \notin run.purged
Entry(r) == [rec |-> r, st |-> zone[r].st, at |-> zone[r].at]
PageOK ==
    /\ \A x \in prod.page : EntryOK(x)
    /\ \A x, y \in prod.page : x.at = y.at => x = y
    /\ \A r \in Records, x \in prod.page :
          zone[r].at > prod.token /\ zone[r].at <= x.at => Entry(r) \in prod.page

(* A deletion of a master that this run may read. *)
MasterGone(m) == zone[m].st = "gone" \/ (zone[m].st = "trashed" /\ zone[m].at > db.token)
ItemOK(x, m) ==
    /\ MasterOf[x.rec] = m /\ zone[x.rec].at > db.token /\ x.rec \notin run.purged
    /\ x.reason # "hardDeleted"
BufferOK ==
    \A m \in Masters :
        /\ prod.buffer.masters[m] \in {Null, "created", "softDeleted"}
        /\ prod.buffer.paired[m] \in {Null, "created", "softDeleted"}
        /\ "softDeleted" \in {prod.buffer.masters[m], prod.buffer.paired[m]} => MasterGone(m)
        /\ prod.buffer.masters[m] # Null \/ prod.buffer.paired[m] # Null => prod.buffer.assets[m] = <<>>
        /\ \A x \in Elems(prod.buffer.assets[m]) : ItemOK(x, m)

(* An event is about a change that the stored token is behind. *)
EventOK(e) ==
    /\ e.kind \in {"pair", "asset", "bare"} =>
          /\ e.rec \in Assets /\ zone[e.rec].at > db.token /\ e.rec \notin run.purged
          /\ e.reason # "hardDeleted"
    /\ e.kind = "pair" => e.id \in {e.rec, MasterOf[e.rec]}
    /\ e.kind = "tomb" => e.rec \in Keys /\ zone[e.rec].st = "gone" /\ e.reason = "hardDeleted"
    /\ e.kind = "master" => e.rec \in Masters /\ e.reason \in {"created", "softDeleted"}
    /\ e.kind = "rel" => e.rec \in Assets /\ zone[Rel(e.rec)].at > db.token
    /\ e.kind \in {"bad", "err"} => e.reason = "created"
FlowOK == \A e \in Elems(Flow) : EventOK(e) /\ ~e.trashed

(* What was in the bin when it was looked up is not claimed by the token. *)
TrashOK(a, trashed) ==
    trashed =>
        /\ run.pc \notin {"read", "failed"}
        /\ zone[a].st # "live" \/ (zone[a].at > db.token /\ (stopped \/ zone[a].at > Frontier))
(* A row that is named after the master is the owner's. *)
KeyOK(a, key) ==
    /\ key \in {a, MasterOf[a]}
    /\ key # a => db.owner[key] = a /\ HasRow(db, key)
Named(i) == \/ run.pc \in {"scan", "apply"} \/ (run.pc = "relate" /\ ~Streaming)
            \/ run.pc = "select" /\ i <= run.at
KeptOK ==
    \A i \in DOMAIN run.events :
        /\ EventOK(run.events[i]) /\ run.events[i].kind # "err"
        /\ run.events[i].kind = "bad" => run.unsafe
        /\ run.events[i].kind = "tomb" => ~Streaming
        /\ run.events[i].trashed =>
              run.events[i].kind \in {"pair", "asset"} /\ TrashOK(run.events[i].rec, TRUE)
        /\ Fresh(run.events[i]) /\ Named(i) => KeyOK(run.events[i].rec, run.events[i].id)
ReadyOK ==
    \A x \in Elems(run.ready) :
        x.asset \notin run.purged /\ KeyOK(x.asset, x.key) /\ TrashOK(x.asset, x.trashed)
PipeOK == \A x \in Elems(pipe) : x.asset \notin run.purged /\ TrashOK(x.asset, x.trashed)

(* Rows under an asset's name are its own, those under a master's are from a  *)
(* finished download.                                                         *)
RowsOK ==
    /\ \A a \in Assets : HasRow(db, a) => db.rows[a].of = a
    /\ \A m \in Masters : HasRow(db, m) => db.rows[m].status = "downloaded"
    /\ \A m \in Masters : db.owner[m] \in Family(m) \cup {Null}
    /\ \A k \in run.stored : HasRow(db, k)
    /\ \A a \in run.known : Streaming \/ run.pc \in {"read", "await", "map", "hydrate", "select"} => zone[a].at > db.token

(* The last relation of an asset that was read says what the zone says. *)
RelOf(e, a) == e.kind = "rel" /\ e.rec = a
Says(e, a) == RelOf(e, a) /\ (e.reason = "created" <=> Exists(Rel(a)))
RelLast(s, a, k) ==
    \E i \in DOMAIN s : i > k /\ Says(s[i], a) /\ \A j \in DOMAIN s : j > i => ~RelOf(s[j], a)
NoRel(s, a, k) == \A j \in DOMAIN s : j > k => ~RelOf(s[j], a)
Line == run.events \o Flow
Member(a) == a \in db.members <=> Exists(Rel(a))
RelationsOK ==
    cfg.album /\ ~Doomed => \A a \in Assets :
        zone[Rel(a)].at > db.token /\ zone[Rel(a)].at <= Frontier =>
          /\ run.pc \in {"read", "await", "map", "hydrate", "select", "scan"} => RelLast(Line, a, 0)
          /\ run.pc = "relate" => \/ RelLast(run.events, a, run.at)
                                  \/ Member(a) /\ NoRel(run.events, a, run.at)
          /\ run.pc \in {"apply", "plan", "report"} => Member(a)

(* The tombstone of a photo that was purged before the run is unread, or on *)
(* its way, or has found what it is about.                                  *)
Tomb(e, a) == e.kind = "tomb" /\ e.rec = a
Waiting(d, k) == d.rows[k].status = "pending" /\ ~d.rows[k].deleted
Unread(a) ==
    /\ run.pc = "read" /\ zone[a].at > Frontier
    /\ \/ prod.pc = "page"
       \/ prod.pc = "send" /\ (prod.more \/ \E x \in prod.page : x.rec = a)
TombKept(a) ==
    \E i \in DOMAIN run.events :
        /\ Tomb(run.events[i], a)
        /\ \/ run.pc \in {"read", "await", "map", "hydrate", "select", "scan", "relate"}
           \/ run.pc = "apply" /\ i > run.at
TombsOK ==
    /\ \A a \in run.purged : zone[a].st = "gone"
    /\ ~Doomed => \A a \in run.purged : zone[a].at > db.token =>
          \/ Unread(a) \/ (\E e \in Elems(Flow) : Tomb(e, a)) \/ TombKept(a) \/ ~Waiting(db, a)

SafeInv ==
    /\ DeltaTypeOK /\ ZoneOK /\ ShapeOK /\ PageOK /\ BufferOK /\ FlowOK /\ KeptOK /\ ReadyOK
    /\ PipeOK /\ RowsOK /\ RelationsOK /\ TombsOK /\ MembershipSound
-----------------------------------------------------------------------------
(* Sequences. *)

LEMMA MinBy ==
    ASSUME NEW R, IsWellFoundedOn(R, Nat), \A x, y \in Nat : y < x => <<y, x>> \in R,
           NEW S, S \subseteq Nat, S # {}
    PROVE  \E m \in S : \A n \in S : m <= n
<1>1. PICK x \in S : \A y \in S : <<y, x>> \notin R
  BY WFMin
<1>2. \A y \in S : ~(y < x)
  BY <1>1
<1>3. \A y \in S : x <= y
  BY <1>2
<1> QED BY <1>3

LEMMA MinNat ==
    ASSUME NEW S, S \subseteq Nat, S # {}
    PROVE  \E m \in S : \A n \in S : m <= n
<1> DEFINE R == OpToRel(<, Nat)
<1>1. IsWellFoundedOn(R, Nat)
  BY NatLessThanWellFounded
<1>2. \A x, y \in Nat : y < x => <<y, x>> \in R
  BY DEF OpToRel
<1> HIDE DEF R
<1> QED BY <1>1, <1>2, MinBy

LEMMA ConcatAt ==
    ASSUME NEW S, NEW s \in Seq(S), NEW t \in Seq(S)
    PROVE  /\ s \o t \in Seq(S) /\ Len(s \o t) = Len(s) + Len(t)
           /\ DOMAIN (s \o t) = 1 .. Len(s) + Len(t)
           /\ DOMAIN s = 1 .. Len(s) /\ DOMAIN t = 1 .. Len(t) /\ Len(s) \in Nat /\ Len(t) \in Nat
           /\ \A i \in DOMAIN s : i \in DOMAIN (s \o t) /\ (s \o t)[i] = s[i]
           /\ \A i \in DOMAIN t : i + Len(s) \in DOMAIN (s \o t) /\ (s \o t)[i + Len(s)] = t[i]
           /\ \A i \in DOMAIN (s \o t) : i > Len(s) => i - Len(s) \in DOMAIN t /\ (s \o t)[i] = t[i - Len(s)]
  OBVIOUS

LEMMA ElemsConcat ==
    ASSUME NEW S, NEW s \in Seq(S), NEW t \in Seq(S)
    PROVE  Elems(s \o t) = Elems(s) \cup Elems(t) /\ Elems(s) \subseteq S
<1>1. ASSUME NEW e \in Elems(s \o t) PROVE e \in Elems(s) \cup Elems(t)
  <2>1. PICK i \in DOMAIN (s \o t) : e = (s \o t)[i]
    BY DEF Elems
  <2>2. CASE i <= Len(s)
    <3>1. i \in DOMAIN s
      BY <2>2, <2>1, ConcatAt
    <3> QED BY <3>1, <2>1, ConcatAt DEF Elems
  <2>3. CASE i > Len(s)
    <3>1. i - Len(s) \in DOMAIN t /\ e = t[i - Len(s)]
      BY <2>1, <2>3, ConcatAt
    <3> QED BY <3>1 DEF Elems
  <2>4. i \in Int /\ Len(s) \in Nat
    BY ConcatAt
  <2> QED BY <2>2, <2>3, <2>4
<1>2. ASSUME NEW e \in Elems(s) PROVE e \in Elems(s \o t)
  <2>1. PICK i \in DOMAIN s : e = s[i]
    BY DEF Elems
  <2> QED BY <2>1, ConcatAt DEF Elems
<1>3. ASSUME NEW e \in Elems(t) PROVE e \in Elems(s \o t)
  <2>1. PICK i \in DOMAIN t : e = t[i]
    BY DEF Elems
  <2>2. i + Len(s) \in DOMAIN (s \o t) /\ e = (s \o t)[i + Len(s)]
    BY <2>1, ConcatAt
  <2> QED BY <2>2 DEF Elems
<1>4. Elems(s) \subseteq S
  BY DEF Elems
<1> QED BY <1>1, <1>2, <1>3, <1>4

LEMMA ElemsSmall ==
    /\ Elems(<<>>) = {}
    /\ \A x : Elems(<<x>>) = {x}
  BY DEF Elems

LEMMA HeadTail ==
    ASSUME NEW S, NEW s \in Seq(S), s # <<>>
    PROVE  /\ Head(s) \in S /\ Tail(s) \in Seq(S) /\ s = <<Head(s)>> \o Tail(s)
           /\ <<Head(s)>> \in Seq(S) /\ Len(Tail(s)) = Len(s) - 1 /\ Len(s) \in Nat \ {0}
           /\ Elems(s) = {Head(s)} \cup Elems(Tail(s))
<1>1. /\ Head(s) \in S /\ Tail(s) \in Seq(S) /\ s = <<Head(s)>> \o Tail(s)
      /\ <<Head(s)>> \in Seq(S) /\ Len(Tail(s)) = Len(s) - 1 /\ Len(s) \in Nat \ {0}
  OBVIOUS
<1>2. Elems(<<Head(s)>> \o Tail(s)) = Elems(<<Head(s)>>) \cup Elems(Tail(s))
  <2> DEFINE u == <<Head(s)>>
             v == Tail(s)
  <2>1. u \in Seq(S) /\ v \in Seq(S)
    BY <1>1
  <2> HIDE DEF u, v
  <2>2. Elems(u \o v) = Elems(u) \cup Elems(v)
    BY <2>1, ElemsConcat
  <2> QED BY <2>2 DEF u, v
<1> QED BY <1>1, <1>2, ElemsSmall

(* Sending the first event of the list leaves the line as it is. *)
LEMMA SendLine ==
    ASSUME NEW S, NEW s \in Seq(S), NEW t \in Seq(S), t # <<>>
    PROVE  Append(s, Head(t)) \o Tail(t) = s \o t /\ Append(s, Head(t)) \in Seq(S)
           /\ Len(Append(s, Head(t))) = Len(s) + 1
  OBVIOUS

(* Reading one takes it off the front. *)
LEMMA ReadLine ==
    ASSUME NEW S, NEW s \in Seq(S), NEW t \in Seq(S), s # <<>>
    PROVE  /\ Tail(s) \o t \in Seq(S)
           /\ \A y : y \in Elems(s \o t) <=> y = Head(s) \/ y \in Elems(Tail(s) \o t)
<1>1. s \o t = <<Head(s)>> \o (Tail(s) \o t)
  OBVIOUS
<1>2. <<Head(s)>> \in Seq(S) /\ Tail(s) \o t \in Seq(S)
  OBVIOUS
<1>3. Elems(<<Head(s)>> \o (Tail(s) \o t)) = Elems(<<Head(s)>>) \cup Elems(Tail(s) \o t)
  <2> DEFINE u == <<Head(s)>>
             v == Tail(s) \o t
  <2>1. u \in Seq(S) /\ v \in Seq(S)
    BY <1>2
  <2> HIDE DEF u, v
  <2>2. Elems(u \o v) = Elems(u) \cup Elems(v)
    BY <2>1, ElemsConcat
  <2> QED BY <2>2 DEF u, v
<1>4. Elems(s \o t) = {Head(s)} \cup Elems(Tail(s) \o t)
  BY <1>1, <1>3, ElemsSmall
<1>5. Tail(s) \o t \in Seq(S)
  BY <1>2
<1> QED BY <1>4, <1>5

LEMMA EmptyLine ==
    ASSUME NEW S, NEW s \in Seq(S)
    PROVE  s \o <<>> = s /\ <<>> \o s = s /\ <<>> \in Seq(S)
  OBVIOUS

LEMMA ElemsAt ==
    ASSUME NEW s, NEW i \in DOMAIN s
    PROVE  s[i] \in Elems(s)
  BY DEF Elems

LEMMA ElemsMore ==
    ASSUME NEW S, NEW s \in Seq(S), NEW e \in S
    PROVE  Append(s, e) \in Seq(S) /\ \A y : y \in Elems(Append(s, e)) <=> y \in Elems(s) \/ y = e
<1>0. Append(s, e) \in Seq(S)
  OBVIOUS
<1>1. Append(s, e) = s \o <<e>> /\ <<e>> \in Seq(S) /\ Append(s, e) \in Seq(S)
  OBVIOUS
<1>2. Elems(s \o <<e>>) = Elems(s) \cup Elems(<<e>>)
  <2> DEFINE u == <<e>>
  <2>1. u \in Seq(S)
    BY <1>1
  <2> HIDE DEF u
  <2>2. Elems(s \o u) = Elems(s) \cup Elems(u)
    BY <2>1, ElemsConcat
  <2> QED BY <2>2 DEF u
<1>3. Elems(Append(s, e)) = Elems(s) \cup {e}
  BY <1>1, <1>2, ElemsSmall
<1> QED BY <1>0, <1>3
-----------------------------------------------------------------------------
(* Constants, the clock, and what a change of the zone does. *)

LEMMA Consts ==
    /\ Masters \cap Assets = {} /\ Keys = Assets \cup Masters /\ Records = Keys \cup Relations
    /\ MasterOf \in [Assets -> Masters]
    /\ \A a \in Assets : Rel(a) \in Relations /\ Rel(a) \in Records /\ Rel(a) \notin Keys
                         /\ MasterOf[a] \in Masters /\ MasterOf[a] # a /\ a \in Family(MasterOf[a])
    /\ \A a, b \in Assets : Rel(a) = Rel(b) => a = b
    /\ \A r \in Relations : r[1] \in Assets /\ r = Rel(r[1])
    /\ \A k \in Keys : k \in Records /\ k \notin Relations
    /\ Null \notin Nat /\ Null \notin Keys /\ Null # "created" /\ Null # "softDeleted"
    /\ PageSize \in Nat \ {0} /\ ChannelCap \in Nat \ {0} /\ PipeCap \in Nat \ {0} /\ MaxMishaps \in Nat
  BY DeltaAssumption DEF Records, Keys, Relations, Rel, Family

LEMMA Configs ==
    ASSUME cfg \in {l.config : l \in Setups}
    PROVE  /\ cfg \in [album : BOOLEAN, unfiled : BOOLEAN, recent : Nat \cup {Null}, maxClock : Nat \ {0}]
           /\ cfg.album \/ cfg.unfiled
  BY DeltaAssumption DEF IsSetup

Places(n) == [Records -> [st : States, at : 0 .. n]]

LEMMA LastChange ==
    ASSUME NEW n \in Nat \ {0}, NEW z \in Places(n)
    PROVE  \E c \in 1 .. n : /\ c = 1 \/ \E r \in Records : z[r].at = c
                             /\ \A r \in Records : z[r].at <= c
<1> DEFINE S == {d \in 0 .. n : n - d = 1 \/ \E r \in Records : z[r].at = n - d}
<1>0. \A r \in Records : z[r].at \in 0 .. n
  BY DEF Places
<1>1. S \subseteq Nat /\ n - 1 \in S
  OBVIOUS
<1>2. PICK m \in S : \A d \in S : m <= d
  BY <1>1, MinNat
<1>3. m \in 0 .. n /\ m <= n - 1 /\ n - m \in 1 .. n
  BY <1>1, <1>2
<1>4. \A r \in Records : z[r].at <= n - m
  <2> TAKE r \in Records
  <2>1. n - z[r].at \in 0 .. n /\ n - (n - z[r].at) = z[r].at
    BY <1>0
  <2>2. n - z[r].at \in S
    BY <2>1
  <2>3. m <= n - z[r].at
    BY <2>2, <1>2
  <2> QED BY <2>3, <1>0, <1>3
<1>5. n - m = 1 \/ \E r \in Records : z[r].at = n - m
  BY <1>2
<1> QED BY <1>3, <1>4, <1>5

LEMMA Clock ==
    ASSUME zone \in Places(cfg.maxClock), cfg.maxClock \in Nat \ {0}
    PROVE  /\ clock \in 1 .. cfg.maxClock /\ clock \in Nat
           /\ clock = 1 \/ \E r \in Records : zone[r].at = clock
           /\ \A r \in Records : zone[r].at <= clock /\ zone[r].at \in Nat
<1>1. \E c \in 1 .. cfg.maxClock : /\ c = 1 \/ \E r \in Records : zone[r].at = c
                                   /\ \A r \in Records : zone[r].at <= c
  BY LastChange
<1>2. /\ clock \in 1 .. cfg.maxClock
      /\ clock = 1 \/ \E r \in Records : zone[r].at = clock
      /\ \A r \in Records : zone[r].at <= clock
  BY <1>1 DEF clock
<1> QED BY <1>2 DEF Places

LEMMA ClockNext ==
    ASSUME zone' \in Places(cfg'.maxClock), cfg'.maxClock \in Nat \ {0}
    PROVE  /\ clock' \in 1 .. cfg'.maxClock /\ clock' \in Nat
           /\ \A r \in Records : zone'[r].at <= clock'
<1>1. \E c \in 1 .. cfg'.maxClock : /\ c = 1 \/ \E r \in Records : zone'[r].at = c
                                    /\ \A r \in Records : zone'[r].at <= c
  BY LastChange
<1> QED BY <1>1 DEF clock

(* The states of a record and where they lead. *)
Moved(r) ==
    /\ zone'[r].at > clock /\ zone'[r].at <= cfg.maxClock /\ zone'[r].st \in States \ {"absent"}
    /\ r \in Masters => /\ zone'[r].st # "hidden" /\ zone[r].st # "gone"
                        /\ zone[r].st = "trashed" => zone'[r].st \in {"trashed", "gone"}
    /\ r \in Assets => zone[r].st # "gone"
    /\ r \in Relations => zone'[r].st \in {"live", "gone"}

LEMMA ZoneSteps ==
    ASSUME zone \in Places(cfg.maxClock), cfg.maxClock \in Nat \ {0}, db.token \in Nat, ZoneOK, ZoneChange
    PROVE  /\ zone' \in Places(cfg.maxClock)
           /\ \A r \in Records : zone'[r] = zone[r] \/ Moved(r)
           /\ \E r \in Records : zone'[r].at > clock
           /\ \A q, r \in Records : zone'[q].at = zone'[r].at /\ zone'[q].at > clock => q = r
           /\ \A a \in Assets : zone'[a].st \notin {"absent", "gone"} => zone'[MasterOf[a]].st \notin {"absent", "gone"}
           /\ \A a \in Assets : zone'[MasterOf[a]].st = "trashed" /\ zone'[MasterOf[a]].at > db.token
                                => zone'[a].st \notin {"live", "hidden"}
           /\ UNCHANGED <<cfg, db, run, prod, channel, pipe, stopped, mishaps>>
<1> DEFINE Goal ==
           /\ zone' \in Places(cfg.maxClock)
           /\ \A r \in Records : zone'[r] = zone[r] \/ Moved(r)
           /\ \E r \in Records : zone'[r].at > clock
           /\ \A q, r \in Records : zone'[q].at = zone'[r].at /\ zone'[q].at > clock => q = r
           /\ \A a \in Assets : zone'[a].st \notin {"absent", "gone"} => zone'[MasterOf[a]].st \notin {"absent", "gone"}
           /\ \A a \in Assets : zone'[MasterOf[a]].st = "trashed" /\ zone'[MasterOf[a]].at > db.token
                                => zone'[a].st \notin {"live", "hidden"}
<1>0. clock \in 1 .. cfg.maxClock /\ \A r \in Records : zone[r].at <= clock /\ zone[r].at \in Nat
  BY Clock
<1>1. PICK a \in Assets : \/ Upload(a) \/ Trash(a) \/ Restore(a) \/ Hide(a) \/ Unhide(a)
                          \/ Purge(a) \/ AddToAlbum(a) \/ RemoveFromAlbum(a)
  BY DEF ZoneChange
<1>2. UNCHANGED <<cfg, db, run, prod, channel, pipe, stopped, mishaps>>
  BY <1>1 DEF Upload, Trash, Restore, Hide, Unhide, Purge, AddToAlbum, RemoveFromAlbum,
              ChangeAsset, ChangePhoto, Change
<1> DEFINE m == MasterOf[a]
<1>3. a \in Records /\ m \in Masters /\ m \in Records /\ Rel(a) \in Records /\ Rel(a) \in Relations
      /\ a # m /\ Rel(a) # m /\ Rel(a) # a /\ a \notin Masters /\ a \notin Relations /\ m \notin Assets
      /\ m \notin Relations /\ Rel(a) \notin Masters /\ Rel(a) \notin Assets
  BY Consts
<1>4. \A st \in States, n \in 1 .. 3 : clock + n <= cfg.maxClock => Changed(n, st) \in [st : States, at : 0 .. cfg.maxClock]
  BY <1>0 DEF Changed
<1>5. \A r \in Records : zone[r] \in [st : States, at : 0 .. cfg.maxClock]
  BY DEF Places
<1>z. /\ \A b \in Assets : zone[b].st \notin {"absent", "gone"} => zone[MasterOf[b]].st \notin {"absent", "gone"}
      /\ \A b \in Assets : zone[MasterOf[b]].st = "trashed" /\ zone[MasterOf[b]].at > db.token => zone[b].st \notin {"live", "hidden"}
  BY DEF ZoneOK, Exists, Alive
<1> HIDE DEF m
<1>6. ASSUME NEW st \in {"live", "hidden", "trashed"}, zone[a].st # "gone", ChangeAsset(a, st),
             st # "trashed" => zone[m].st \notin {"absent", "gone"},
             st # "trashed" => ~(zone[m].st = "trashed" /\ zone[m].at > db.token),
             zone[m].st \notin {"absent", "gone"}
      PROVE  Goal
  <2>1. /\ zone' = [zone EXCEPT ![a] = [st |-> st, at |-> clock + 1]] /\ clock + 1 <= cfg.maxClock
    BY <1>6 DEF ChangeAsset, Change, Changed
  <2>2. zone'[a] = [st |-> st, at |-> clock + 1] /\ \A r \in Records : r # a => zone'[r] = zone[r]
    BY <2>1, <1>3 DEF Places
  <2>3. zone' \in Places(cfg.maxClock)
    BY <2>1, <1>0, <1>3 DEF Places, States
  <2>4. Moved(a) /\ zone'[a].at = clock + 1 /\ zone'[a].st = st
    BY <2>2, <2>1, <1>0, <1>3, <1>6 DEF Moved, States
  <2> QED BY <2>2, <2>3, <2>4, <1>0, <1>3, <1>6, <1>z, Consts DEF m
<1>7. ASSUME NEW st \in {"live", "gone"}, ChangeAsset(Rel(a), st) PROVE Goal
  <2>1. /\ zone' = [zone EXCEPT ![Rel(a)] = [st |-> st, at |-> clock + 1]] /\ clock + 1 <= cfg.maxClock
    BY <1>7 DEF ChangeAsset, Change, Changed
  <2>2. zone'[Rel(a)] = [st |-> st, at |-> clock + 1] /\ \A r \in Records : r # Rel(a) => zone'[r] = zone[r]
    BY <2>1, <1>3 DEF Places
  <2>3. zone' \in Places(cfg.maxClock)
    BY <2>1, <1>0, <1>3 DEF Places, States
  <2>4. Moved(Rel(a)) /\ zone'[Rel(a)].at = clock + 1
    BY <2>2, <2>1, <1>0, <1>3, <1>7 DEF Moved, States
  <2>5. \A b \in Assets : zone'[b] = zone[b] /\ zone'[MasterOf[b]] = zone[MasterOf[b]]
    BY <2>2, <1>3, Consts
  <2> QED BY <2>2, <2>3, <2>4, <2>5, <1>0, <1>3, <1>z
<1>8. ASSUME NEW i \in {1, 2}, NEW j \in {1, 2}, i # j, NEW st \in {"live", "trashed"},
             clock + 2 <= cfg.maxClock,
             zone' = [zone EXCEPT ![m] = [st |-> st, at |-> clock + i], ![a] = [st |-> st, at |-> clock + j]],
             zone[a].st # "gone", zone[m].st # "gone", zone[m].st = "trashed" => st = "trashed",
             st = "trashed" => \A b \in Family(m) \ {a} : ~Alive(b)
      PROVE  Goal
  <2>1. /\ zone'[m] = [st |-> st, at |-> clock + i] /\ zone'[a] = [st |-> st, at |-> clock + j]
        /\ \A r \in Records : r \notin {a, m} => zone'[r] = zone[r]
    BY <1>8, <1>3 DEF Places
  <2>2. zone' \in Places(cfg.maxClock)
    BY <1>8, <1>0, <1>3 DEF Places, States
  <2>3. Moved(a) /\ Moved(m) /\ zone'[m].at = clock + i /\ zone'[a].at = clock + j /\ zone'[m].st = st /\ zone'[a].st = st
    BY <2>1, <1>0, <1>3, <1>8 DEF Moved, States
  <2>4. \A b \in Assets : /\ b # a => zone'[b] = zone[b]
                          /\ MasterOf[b] # m => zone'[MasterOf[b]] = zone[MasterOf[b]]
                          /\ MasterOf[b] = m => b \in Family(m)
    BY <2>1, <1>3, Consts DEF Family
  <2>5. ASSUME NEW b \in Assets, zone'[b].st \notin {"absent", "gone"} PROVE zone'[MasterOf[b]].st \notin {"absent", "gone"}
    <3>1. CASE MasterOf[b] = m
      BY <3>1, <2>3
    <3>2. CASE MasterOf[b] # m
      <4>1. b # a
        BY <3>2 DEF m
      <4>2. zone'[b] = zone[b] /\ zone'[MasterOf[b]] = zone[MasterOf[b]]
        BY <4>1, <3>2, <2>4
      <4> QED BY <4>2, <2>5, <1>z
    <3> QED BY <3>1, <3>2
  <2>6. \A b \in Assets : zone'[MasterOf[b]].st = "trashed" /\ zone'[MasterOf[b]].at > db.token => zone'[b].st \notin {"live", "hidden"}
    <3> SUFFICES ASSUME NEW b \in Assets, zone'[MasterOf[b]].st = "trashed", zone'[MasterOf[b]].at > db.token
                 PROVE  zone'[b].st \notin {"live", "hidden"}
      OBVIOUS
    <3>1. CASE MasterOf[b] # m
      <4>1. b # a
        BY <3>1 DEF m
      <4> QED BY <3>1, <4>1, <2>4, <1>z
    <3>2. CASE MasterOf[b] = m
      <4>1. st = "trashed"
        BY <3>2, <2>3
      <4>2. CASE b = a
        BY <4>1, <4>2, <2>3
      <4>3. CASE b # a
        BY <4>1, <4>3, <3>2, <2>4, <1>8 DEF Alive
      <4> QED BY <4>2, <4>3
    <3> QED BY <3>1, <3>2
  <2>7. \A q, r \in Records : zone'[q].at = zone'[r].at /\ zone'[q].at > clock => q = r
    BY <2>1, <2>3, <1>0, <1>3, <1>8
  <2>8. \A r \in Records : zone'[r] = zone[r] \/ Moved(r)
    BY <2>1, <2>3
  <2>9. zone'[a].at > clock
    BY <2>3, <1>0, <1>8
  <2> QED BY <2>2, <2>5, <2>6, <2>7, <2>8, <2>9, <1>3
<1>9. ASSUME NEW i \in {0, 1}, zone[a].st = "trashed",
             i = 0 => \E b \in Family(m) \ {a} : Exists(b),
             i = 1 => \A b \in Family(m) \ {a} : ~Exists(b),
             NEW last \in {i + 1, i + 2}, clock + last <= cfg.maxClock, Exists(Rel(a)) <=> last = i + 2,
             zone' = [zone EXCEPT ![m] = IF i = 1 THEN [st |-> "gone", at |-> clock + 1] ELSE @,
                                  ![a] = [st |-> "gone", at |-> clock + (i + 1)],
                                  ![Rel(a)] = IF Exists(Rel(a)) THEN [st |-> "gone", at |-> clock + last] ELSE @]
      PROVE  Goal
  <2> DEFINE zm == IF i = 1 THEN [st |-> "gone", at |-> clock + 1] ELSE zone[m]
             za == [st |-> "gone", at |-> clock + (i + 1)]
             zr == IF Exists(Rel(a)) THEN [st |-> "gone", at |-> clock + last] ELSE zone[Rel(a)]
  <2>0. zone' = [zone EXCEPT ![m] = zm, ![a] = za, ![Rel(a)] = zr]
    BY <1>9, <1>3
  <2>1. /\ zone'[m] = zm /\ zone'[a] = za /\ zone'[Rel(a)] = zr
        /\ \A r \in Records : r \notin {a, m, Rel(a)} => zone'[r] = zone[r]
    <3> HIDE DEF zm, za, zr
    <3> QED BY <2>0, <1>3 DEF Places
  <2>2. zm \in [st : States, at : 0 .. cfg.maxClock] /\ za \in [st : States, at : 0 .. cfg.maxClock]
        /\ zr \in [st : States, at : 0 .. cfg.maxClock]
    BY <1>0, <1>3, <1>5, <1>9 DEF States
  <2>3. zone' \in Places(cfg.maxClock)
    <3> HIDE DEF zm, za, zr
    <3> QED BY <2>0, <2>2, <1>3 DEF Places
  <2>4. /\ za.at = clock + (i + 1) /\ za.st = "gone"
        /\ i = 1 => zm.at = clock + 1 /\ zm.st = "gone"
        /\ Exists(Rel(a)) => zr.at = clock + last /\ zr.st = "gone"
    OBVIOUS
  <2>5. zone[m].st # "gone"
    BY <1>z, <1>9 DEF m
  <2>6. Moved(a) /\ (i = 1 => Moved(m)) /\ (Exists(Rel(a)) => Moved(Rel(a)))
    BY <2>1, <2>4, <2>5, <1>0, <1>3, <1>9 DEF Moved, States
  <2>7. \A r \in Records : zone'[r] = zone[r] \/ Moved(r)
    BY <2>1, <2>6, <1>9
  <2>8. zone'[a].at > clock
    BY <2>1, <2>4, <1>0, <1>9
  <2>9. \A q, r \in Records : zone'[q].at = zone'[r].at /\ zone'[q].at > clock => q = r
    <3>1. \A q \in Records : zone'[q].at > clock =>
              \/ q = a /\ zone'[q].at = clock + (i + 1)
              \/ q = m /\ i = 1 /\ zone'[q].at = clock + 1
              \/ q = Rel(a) /\ last = i + 2 /\ zone'[q].at = clock + last
      <4> SUFFICES ASSUME NEW q \in Records, zone'[q].at > clock
                   PROVE  \/ q = a /\ zone'[q].at = clock + (i + 1)
                          \/ q = m /\ i = 1 /\ zone'[q].at = clock + 1
                          \/ q = Rel(a) /\ last = i + 2 /\ zone'[q].at = clock + last
        OBVIOUS
      <4>1. zone[q].at <= clock /\ zone[q].at \in Nat /\ zone'[q] # zone[q]
        BY <1>0
      <4>2. q \in {a, m, Rel(a)}
        BY <4>1, <2>1
      <4>3. CASE q = a
        BY <4>3, <2>1, <2>4
      <4>4. CASE q = m
        <5>1. i = 1
          BY <4>1, <4>4, <2>1
        <5> QED BY <5>1, <4>4, <2>1, <2>4
      <4>5. CASE q = Rel(a)
        <5>1. Exists(Rel(a))
          BY <4>1, <4>5, <2>1
        <5> QED BY <5>1, <4>5, <2>1, <2>4, <1>9
      <4> QED BY <4>2, <4>3, <4>4, <4>5
    <3> QED BY <3>1, <1>0, <1>9
  <2>10. \A b \in Assets : /\ b # a => zone'[b] = zone[b]
                           /\ MasterOf[b] # m => zone'[MasterOf[b]] = zone[MasterOf[b]]
                           /\ MasterOf[b] = m => b \in Family(m) /\ zone'[MasterOf[b]] = zm
    BY <2>1, <1>3, Consts DEF Family
  <2>11. ASSUME NEW b \in Assets, zone'[b].st \notin {"absent", "gone"} PROVE zone'[MasterOf[b]].st \notin {"absent", "gone"}
    <3>1. b # a
      BY <2>11, <2>1, <2>4
    <3>2. CASE MasterOf[b] # m
      BY <3>1, <3>2, <2>10, <2>11, <1>z
    <3>3. CASE MasterOf[b] = m
      <4>1. i = 0
        BY <3>1, <3>3, <2>10, <2>11, <1>9 DEF Exists
      <4> QED BY <4>1, <3>1, <3>3, <2>10, <2>11, <1>z
    <3> QED BY <3>2, <3>3
  <2>12. ASSUME NEW b \in Assets, zone'[MasterOf[b]].st = "trashed", zone'[MasterOf[b]].at > db.token
         PROVE  zone'[b].st \notin {"live", "hidden"}
    <3>1. CASE b = a
      BY <3>1, <2>1, <2>4
    <3>2. CASE b # a
      <4>1. zone'[MasterOf[b]] = zone[MasterOf[b]]
        BY <2>10, <2>12, <2>4, <1>9
      <4> QED BY <4>1, <3>2, <2>10, <2>12, <1>z
    <3> QED BY <3>1, <3>2
  <2> QED BY <2>3, <2>7, <2>8, <2>9, <2>11, <2>12, <1>3
<1>10. Goal
  <2>1. CASE Upload(a)
    <3>1. CASE zone[m].st = "live" /\ ChangeAsset(a, "live")
      <4>1. zone[a].st # "gone"
        BY <2>1 DEF Upload
      <4> QED BY <3>1, <4>1, <1>6
    <3>2. CASE zone[m].st = "absent" /\ ChangePhoto(a, "live")
      <4>1. /\ zone' = [zone EXCEPT ![m] = [st |-> "live", at |-> clock + 1], ![a] = [st |-> "live", at |-> clock + 2]]
            /\ clock + 2 <= cfg.maxClock
        BY <3>2 DEF ChangePhoto, Change, Changed, m
      <4>2. zone[a].st # "gone" /\ zone[m].st # "gone" /\ zone[m].st # "trashed"
        BY <2>1, <3>2 DEF Upload
      <4>3. 1 \in {1, 2} /\ 2 \in {1, 2} /\ 1 # 2 /\ "live" \in {"live", "trashed"} /\ "live" # "trashed"
        OBVIOUS
      <4> HIDE DEF Goal
      <4> QED BY <4>1, <4>2, <4>3, <1>8
    <3>3. CASE zone[m].st = "absent" /\ Change(2, [zone EXCEPT ![a] = Changed(1, "live"), ![m] = Changed(2, "live")])
      <4>1. [zone EXCEPT ![a] = Changed(1, "live"), ![m] = Changed(2, "live")]
            = [zone EXCEPT ![m] = Changed(2, "live"), ![a] = Changed(1, "live")]
        BY <1>3 DEF Places
      <4>2. /\ zone' = [zone EXCEPT ![m] = [st |-> "live", at |-> clock + 2], ![a] = [st |-> "live", at |-> clock + 1]]
            /\ clock + 2 <= cfg.maxClock
        BY <4>1, <3>3 DEF Change, Changed
      <4>3. zone[a].st # "gone" /\ zone[m].st # "gone" /\ zone[m].st # "trashed"
        BY <2>1, <3>3 DEF Upload
      <4>4. 1 \in {1, 2} /\ 2 \in {1, 2} /\ 2 # 1 /\ "live" \in {"live", "trashed"} /\ "live" # "trashed"
        OBVIOUS
      <4> HIDE DEF Goal
      <4> QED BY <4>2, <4>3, <4>4, <1>8
    <3> QED BY <2>1, <3>1, <3>2, <3>3 DEF Upload, m
  <2>2. CASE Trash(a)
    <3>1. zone[a].st \in {"live", "hidden"} /\ zone[m].st \notin {"absent", "gone"}
      BY <2>2, <1>z DEF Trash, Alive, m
    <3>2. CASE \E b \in Family(m) \ {a} : Alive(b)
      <4>1. ChangeAsset(a, "trashed")
        BY <2>2, <3>2 DEF Trash, m
      <4> QED BY <4>1, <3>1, <1>6
    <3>3. CASE ~ \E b \in Family(m) \ {a} : Alive(b)
      <4>1. ChangePhoto(a, "trashed")
        BY <2>2, <3>3 DEF Trash, m
      <4>2. /\ zone' = [zone EXCEPT ![m] = [st |-> "trashed", at |-> clock + 1], ![a] = [st |-> "trashed", at |-> clock + 2]]
            /\ clock + 2 <= cfg.maxClock
        BY <4>1 DEF ChangePhoto, Change, Changed, m
      <4>3. zone[a].st # "gone" /\ zone[m].st # "gone" /\ \A b \in Family(m) \ {a} : ~Alive(b)
        BY <3>1, <3>3
      <4>4. 1 \in {1, 2} /\ 2 \in {1, 2} /\ 1 # 2 /\ "trashed" \in {"live", "trashed"}
        OBVIOUS
      <4> HIDE DEF Goal
      <4> QED BY <4>2, <4>3, <4>4, <1>8
    <3> QED BY <3>2, <3>3
  <2>3. CASE Restore(a) \/ Hide(a) \/ Unhide(a)
    <3>1. /\ zone[a].st \in {"live", "hidden", "trashed"} /\ (ChangeAsset(a, "live") \/ ChangeAsset(a, "hidden"))
          /\ zone[a].st = "trashed" => zone[m].at <= db.token
      BY <2>3 DEF Restore, Hide, Unhide, m
    <3>2. zone[m].st \notin {"absent", "gone"} /\ ~(zone[m].st = "trashed" /\ zone[m].at > db.token)
      BY <3>1, <1>z, <1>0, <1>3 DEF m
    <3> HIDE DEF Goal
    <3> QED BY <3>1, <3>2, <1>6
  <2>4. CASE Purge(a)
    <3> DEFINE i == IF \E b \in Family(m) \ {a} : Exists(b) THEN 0 ELSE 1
               last == IF Exists(Rel(a)) THEN i + 2 ELSE i + 1
    <3>1. /\ zone[a].st = "trashed" /\ clock + last <= cfg.maxClock
          /\ zone' = [zone EXCEPT ![m] = IF i = 1 THEN [st |-> "gone", at |-> clock + 1] ELSE @,
                                  ![a] = [st |-> "gone", at |-> clock + (i + 1)],
                                  ![Rel(a)] = IF Exists(Rel(a)) THEN [st |-> "gone", at |-> clock + last] ELSE @]
      BY <2>4 DEF Purge, Change, Changed, m
    <3>2. /\ i \in {0, 1} /\ last \in {i + 1, i + 2} /\ (Exists(Rel(a)) <=> last = i + 2)
          /\ i = 0 => \E b \in Family(m) \ {a} : Exists(b)
          /\ i = 1 => \A b \in Family(m) \ {a} : ~Exists(b)
      OBVIOUS
    <3> HIDE DEF i, last
    <3> QED BY <3>1, <3>2, <1>9
  <2>5. CASE AddToAlbum(a) \/ RemoveFromAlbum(a)
    BY <2>5, <1>7 DEF AddToAlbum, RemoveFromAlbum
  <2> QED BY <1>1, <2>1, <2>2, <2>3, <2>4, <2>5
<1> QED BY <1>2, <1>10
-----------------------------------------------------------------------------
(* What the operators of the database keep. *)

(* Rows under an asset's name are its own, those under a master's are from a  *)
(* finished download.                                                         *)
Sound(d) ==
    /\ d \in Databases
    /\ \A a \in Assets : HasRow(d, a) => d.rows[a].of = a
    /\ \A m \in Masters : HasRow(d, m) => d.rows[m].status = "downloaded"
    /\ \A m \in Masters : d.owner[m] \in Family(m) \cup {Null}

(* From d to d2 only the photos of lose may cease to be known, and only the   *)
(* rows of wait may begin to wait for a download.                             *)
DbMove(d, d2, lose, wait) ==
    /\ Sound(d2) /\ d2.token = d.token /\ d2.snapshot = d.snapshot
    /\ \A k \in Keys : HasRow(d, k) => HasRow(d2, k)
    /\ \A m \in Masters : d.owner[m] # Null => d2.owner[m] = d.owner[m]
    /\ \A k \in Keys : Waiting(d2, k) => Waiting(d, k) \/ k \in wait
    /\ \A a \in Assets : Known(d, a) => a \in lose \/ Known(d2, a)
DbStep(d, d2, lose, wait) == DbMove(d, d2, lose, wait) /\ d2.members = d.members

LEMMA DbSame ==
    ASSUME NEW d, Sound(d), NEW lose, NEW wait
    PROVE  DbStep(d, d, lose, wait)
  BY DEF DbStep, DbMove

LEMMA DbTwice ==
    ASSUME NEW d, NEW d1, NEW d2, NEW lose, NEW wait, Sound(d), DbStep(d, d1, lose, wait), DbStep(d1, d2, lose, wait)
    PROVE  DbStep(d, d2, lose, wait)
<1>1. \A m \in Masters : d.owner[m] # Null => d2.owner[m] = d.owner[m]
  BY DEF DbStep, DbMove
<1> QED BY <1>1 DEF DbStep, DbMove

LEMMA DbWider ==
    ASSUME NEW d, NEW d2, NEW lose, NEW wait, NEW lose2, NEW wait2, DbStep(d, d2, lose, wait),
           lose \cap Assets \subseteq lose2, wait \subseteq wait2
    PROVE  DbStep(d, d2, lose2, wait2)
  BY DEF DbStep, DbMove

LEMMA RowType ==
    ASSUME NEW d, Sound(d), NEW k \in Keys
    PROVE  /\ d.rows[k] \in Rows /\ d.rows[k].status \in {"none", "pending", "downloaded"}
           /\ d.rows[k].of \in Assets \cup {Null} /\ d.rows[k].deleted \in BOOLEAN
  BY DEF Sound, Databases, Rows

(* A change of the rows alone: what it has to keep, row by row. *)
LEMMA RowsChange ==
    ASSUME NEW d, Sound(d), NEW rows \in [Keys -> Rows], NEW mapped \in SUBSET Assets, NEW lose, NEW wait,
           \A m \in Masters : rows[m].status = d.rows[m].status /\ rows[m].of = d.rows[m].of,
           \A a \in Assets : \/ rows[a].status = "none" /\ d.rows[a].status = "none"
                             \/ rows[a].of = a /\ rows[a].status # "none",
           \A a \in Assets : rows[a].status = "pending" /\ ~rows[a].deleted => Waiting(d, a) \/ a \in wait,
           \A a \in Assets : d.rows[a].status = "downloaded" => rows[a].status = "downloaded",
           \A a \in Assets : Waiting(d, a) /\ a \notin lose
                             => rows[a].status = "downloaded" \/ (rows[a].status = "pending" /\ ~rows[a].deleted)
    PROVE  DbStep(d, [d EXCEPT !.rows = rows, !.mapped = mapped], lose, wait)
<1> DEFINE d2 == [d EXCEPT !.rows = rows, !.mapped = mapped]
<1>1. /\ d2 \in Databases /\ d2.rows = rows /\ d2.owner = d.owner /\ d2.members = d.members
      /\ d2.snapshot = d.snapshot /\ d2.token = d.token
  BY DEF Sound, Databases
<1> HIDE DEF d2
<1>2. \A m \in Masters : m \in Keys /\ m \notin Assets
  BY Consts
<1>3. \A a \in Assets : a \in Keys
  BY Consts
<1>4. \A m \in Masters : HasRow(d2, m) => d2.rows[m].status = "downloaded"
  BY <1>1 DEF Sound, HasRow
<1>5. \A a \in Assets : HasRow(d2, a) => d2.rows[a].of = a
  BY <1>1 DEF HasRow
<1>6. Sound(d2)
  BY <1>1, <1>4, <1>5 DEF Sound
<1>7. \A k \in Keys : HasRow(d, k) => HasRow(d2, k)
  BY <1>1, <1>2, Consts DEF HasRow
<1>8. \A k \in Keys : Waiting(d2, k) => Waiting(d, k) \/ k \in wait
  <2> SUFFICES ASSUME NEW k \in Keys, Waiting(d2, k) PROVE Waiting(d, k) \/ k \in wait
    OBVIOUS
  <2>1. CASE k \in Assets
    BY <2>1, <1>1 DEF Waiting
  <2>2. CASE k \in Masters
    BY <2>2, <1>1, <1>4 DEF Waiting, HasRow
  <2> QED BY <2>1, <2>2, Consts
<1>9. ASSUME NEW a \in Assets, Known(d, a), a \notin lose PROVE Known(d2, a)
  <2>1. PICK k \in {a, MasterOf[a]} :
            /\ d.rows[k].of = a \/ (k # a /\ d.owner[k] = a)
            /\ d.rows[k].status = "downloaded" \/ (d.rows[k].status = "pending" /\ ~d.rows[k].deleted)
    BY <1>9 DEF Known
  <2>2. CASE k = a
    <3>1. d.rows[a].status # "none"
      BY <2>1, <2>2
    <3>2. rows[a].of = a
      BY <3>1
    <3>3. rows[a].status = "downloaded" \/ (rows[a].status = "pending" /\ ~rows[a].deleted)
      BY <2>1, <2>2, <1>9 DEF Waiting
    <3> QED BY <3>2, <3>3, <1>1 DEF Known
  <2>3. CASE k # a
    <3>1. k = MasterOf[a] /\ k \in Masters
      BY <2>1, <2>3, Consts
    <3>2. d.rows[k].status = "downloaded"
      BY <3>1, <2>1 DEF Sound, HasRow
    <3>3. d2.rows[k].status = "downloaded" /\ d2.rows[k].of = d.rows[k].of /\ d2.owner[k] = d.owner[k]
      BY <3>1, <3>2, <1>1
    <3> QED BY <3>1, <3>3, <2>1, <2>3 DEF Known
  <2> QED BY <2>2, <2>3
<1> QED BY <1>1, <1>6, <1>7, <1>8, <1>9 DEF DbStep, DbMove, d2

LEMMA EXCEPTMapped ==
    ASSUME NEW d \in Databases, NEW rows
    PROVE  [d EXCEPT !.rows = rows] = [d EXCEPT !.rows = rows, !.mapped = d.mapped]
  BY DEF Databases

LEMMA FlagStep ==
    ASSUME NEW d, Sound(d), NEW ks
    PROVE  /\ DbStep(d, FlagDeleted(d, ks), ks, {})
           /\ \A k \in ks \cap Keys : ~Waiting(FlagDeleted(d, ks), k)
<1> DEFINE rows == [k \in Keys |-> IF k \in ks /\ HasRow(d, k)
                                   THEN [d.rows[k] EXCEPT !.deleted = TRUE] ELSE d.rows[k]]
<1>1. FlagDeleted(d, ks) = [d EXCEPT !.rows = rows, !.mapped = d.mapped] /\ d.mapped \in SUBSET Assets
  BY EXCEPTMapped DEF FlagDeleted, Sound, Databases
<1>2. \A k \in Keys : /\ rows[k] \in Rows /\ rows[k].status = d.rows[k].status /\ rows[k].of = d.rows[k].of
                      /\ (k \in ks /\ HasRow(d, k)) => rows[k].deleted
                      /\ ~(k \in ks /\ HasRow(d, k)) => rows[k].deleted = d.rows[k].deleted
  BY RowType DEF Rows
<1>3. rows \in [Keys -> Rows]
  BY <1>2
<1> HIDE DEF rows
<1>4. \A k \in Keys : d.rows[k].status \in {"none", "pending", "downloaded"} /\ d.rows[k].deleted \in BOOLEAN
  BY RowType
<1>5. \A a \in Assets : a \in Keys /\ (HasRow(d, a) => d.rows[a].of = a)
  BY Consts DEF Sound
<1>6. \A m \in Masters : m \in Keys
  BY Consts
<1>7. \A a \in Assets : \/ rows[a].status = "none" /\ d.rows[a].status = "none"
                        \/ rows[a].of = a /\ rows[a].status # "none"
  BY <1>2, <1>5 DEF HasRow
<1>8. \A a \in Assets : rows[a].status = "pending" /\ ~rows[a].deleted => Waiting(d, a) \/ a \in {}
  <2> SUFFICES ASSUME NEW a \in Assets, rows[a].status = "pending", ~rows[a].deleted PROVE Waiting(d, a)
    OBVIOUS
  <2>1. a \in Keys /\ d.rows[a].status = "pending"
    BY <1>2, <1>5
  <2>2. ~(a \in ks)
    BY <2>1, <1>2 DEF HasRow
  <2>3. rows[a].deleted = d.rows[a].deleted
    BY <2>1, <2>2, <1>2
  <2> QED BY <2>1, <2>3 DEF Waiting
<1>9. \A a \in Assets : Waiting(d, a) /\ a \notin ks => rows[a].status = "pending" /\ ~rows[a].deleted
  BY <1>2, <1>5 DEF Waiting
<1>a. \A a \in Assets : Waiting(d, a) /\ a \notin ks
                          => rows[a].status = "downloaded" \/ (rows[a].status = "pending" /\ ~rows[a].deleted)
  BY <1>9
<1>b. \A m \in Masters : rows[m].status = d.rows[m].status /\ rows[m].of = d.rows[m].of
  BY <1>2, <1>6
<1>c. \A a \in Assets : d.rows[a].status = "downloaded" => rows[a].status = "downloaded"
  BY <1>2, <1>5
<1>10. DbStep(d, [d EXCEPT !.rows = rows, !.mapped = d.mapped], ks, {})
  BY <1>1, <1>3, <1>7, <1>8, <1>a, <1>b, <1>c, RowsChange
<1>11. FlagDeleted(d, ks).rows = rows
  BY <1>1 DEF Sound, Databases
<1>12. ASSUME NEW k \in ks \cap Keys PROVE ~Waiting(FlagDeleted(d, ks), k)
  BY <1>11, <1>2 DEF Waiting, HasRow
<1> QED BY <1>1, <1>10, <1>12

LEMMA TransferStep ==
    ASSUME NEW d, Sound(d), NEW ks
    PROVE  DbStep(d, Transferred(d, ks), {}, {})
<1> DEFINE rows == [k \in Keys |-> IF k \in ks /\ HasRow(d, k)
                                   THEN [d.rows[k] EXCEPT !.status = "downloaded"] ELSE d.rows[k]]
<1>1. Transferred(d, ks) = [d EXCEPT !.rows = rows, !.mapped = d.mapped] /\ d.mapped \in SUBSET Assets
  BY EXCEPTMapped DEF Transferred, Sound, Databases
<1>2. \A k \in Keys : /\ rows[k] \in Rows /\ rows[k].deleted = d.rows[k].deleted /\ rows[k].of = d.rows[k].of
                      /\ (k \in ks /\ HasRow(d, k)) => rows[k].status = "downloaded"
                      /\ ~(k \in ks /\ HasRow(d, k)) => rows[k].status = d.rows[k].status
  BY RowType DEF Rows
<1>3. rows \in [Keys -> Rows]
  BY <1>2
<1> HIDE DEF rows
<1>4. \A a \in Assets : a \in Keys /\ (HasRow(d, a) => d.rows[a].of = a)
  BY Consts DEF Sound
<1>5. \A m \in Masters : m \in Keys /\ (HasRow(d, m) => d.rows[m].status = "downloaded")
  BY Consts DEF Sound
<1>6. \A a \in Assets : \/ rows[a].status = "none" /\ d.rows[a].status = "none"
                        \/ rows[a].of = a /\ rows[a].status # "none"
  BY <1>2, <1>4 DEF HasRow
<1> DEFINE none == {}
<1>7. \A a \in Assets : rows[a].status = "pending" /\ ~rows[a].deleted => Waiting(d, a) \/ a \in none
  BY <1>2, <1>4 DEF HasRow, Waiting
<1>8. \A a \in Assets : Waiting(d, a) /\ a \notin none
                        => rows[a].status = "downloaded" \/ (rows[a].status = "pending" /\ ~rows[a].deleted)
  BY <1>2, <1>4 DEF Waiting
<1>9. \A m \in Masters : rows[m].status = d.rows[m].status /\ rows[m].of = d.rows[m].of
  BY <1>2, <1>5
<1>10. \A a \in Assets : d.rows[a].status = "downloaded" => rows[a].status = "downloaded"
  BY <1>2, <1>4
<1> HIDE DEF none
<1>11. DbStep(d, [d EXCEPT !.rows = rows, !.mapped = d.mapped], none, none)
  BY <1>1, <1>3, <1>6, <1>7, <1>8, <1>9, <1>10, RowsChange
<1> QED BY <1>1, <1>11 DEF none

LEMMA MapStep ==
    ASSUME NEW d, Sound(d), NEW set \in SUBSET Assets
    PROVE  DbStep(d, Mapped(d, set), {}, {})
<1> DEFINE d2 == Mapped(d, set)
<1>1. /\ d2 \in Databases /\ d2.rows = d.rows /\ d2.owner = d.owner /\ d2.members = d.members
      /\ d2.snapshot = d.snapshot /\ d2.token = d.token
  BY DEF Sound, Databases, Mapped
<1> HIDE DEF d2
<1>2. Sound(d2)
  BY <1>1 DEF Sound, HasRow
<1>3. \A a \in Assets : Known(d, a) => Known(d2, a)
  BY <1>1 DEF Known
<1> QED BY <1>1, <1>2, <1>3 DEF DbStep, DbMove, d2, HasRow, Waiting

(* The name that a photo's row gets, and the claim of the master's row. *)
LEMMA ClaimStep ==
    ASSUME NEW d, Sound(d), NEW ctx, \A k \in ctx.stored : HasRow(d, k), NEW a \in Assets, NEW key, key = StateKey(d, ctx, a)
    PROVE  /\ key \in {a, MasterOf[a]} /\ key \in Keys
           /\ DbStep(d, Claimed(d, key, a), {}, {})
           /\ key # a => Claimed(d, key, a).owner[key] = a /\ HasRow(Claimed(d, key, a), key)
<1>1. key \in {a, MasterOf[a]} /\ key \in Keys /\ MasterOf[a] \in Masters /\ a \in Family(MasterOf[a])
  BY Consts DEF StateKey
<1>2. key # a => key = MasterOf[a] /\ HasRow(d, key) /\ d.owner[key] \in {a, Null}
  BY <1>1 DEF StateKey
<1> DEFINE d2 == [d EXCEPT !.owner[key] = a]
<1>3. CASE key = a
  BY <1>3, <1>1, DbSame DEF Claimed
<1>4. CASE key # a
  <2>1. /\ d2 \in Databases /\ d2.rows = d.rows /\ d2.mapped = d.mapped /\ d2.members = d.members
        /\ d2.snapshot = d.snapshot /\ d2.token = d.token /\ d2.owner = [d.owner EXCEPT ![key] = a]
    BY <1>1, <1>2, <1>4 DEF Sound, Databases
  <2>2. d.owner \in [Masters -> Assets \cup {Null}]
    BY DEF Sound, Databases
  <2> HIDE DEF d2
  <2>3. d2.owner[key] = a /\ \A m \in Masters : m # key => d2.owner[m] = d.owner[m]
    BY <2>1, <2>2, <1>1, <1>2, <1>4
  <2>4. Sound(d2)
    BY <2>1, <2>3, <1>1, <1>2, <1>4 DEF Sound, HasRow
  <2>5. \A m \in Masters : d.owner[m] # Null => d2.owner[m] = d.owner[m]
    BY <2>3, <1>2, <1>4
  <2>6. \A b \in Assets : Known(d, b) => Known(d2, b)
    <3> SUFFICES ASSUME NEW b \in Assets, Known(d, b) PROVE Known(d2, b)
      OBVIOUS
    <3>1. MasterOf[b] \in Masters /\ b \in Keys /\ b # Null
      BY Consts
    <3>2. d.owner[MasterOf[b]] = b => d2.owner[MasterOf[b]] = b
      BY <3>1, <2>5
    <3> QED BY <3>2, <2>1 DEF Known
  <2> QED BY <1>1, <1>2, <1>4, <2>1, <2>3, <2>4, <2>5, <2>6 DEF DbStep, DbMove, d2, Claimed, HasRow, Waiting
<1> QED BY <1>3, <1>4

(* A photo whose row is stored is known, unless it was in the bin. *)
LEMMA UpsertStep ==
    ASSUME NEW d, Sound(d), NEW a \in Assets, NEW key \in {a, MasterOf[a]}, NEW trashed \in BOOLEAN,
           key # a => d.owner[key] = a /\ HasRow(d, key),
           NEW d2, d2 = UpsertSeen(d, [asset |-> a, key |-> key, trashed |-> trashed])
    PROVE  /\ DbStep(d, d2, IF trashed THEN {a} ELSE {}, {a})
           /\ ~trashed => Known(d2, a)
<1> DEFINE lose == IF trashed THEN {a} ELSE {}
           wait == {a}
<1>1. a \in Keys /\ key \in Keys /\ MasterOf[a] \in Masters /\ MasterOf[a] \notin Assets
      /\ \A m \in Masters : m \in Keys /\ m \notin Assets
  BY Consts
<1>2. CASE d.rows[key].status = "downloaded"
  <2>1. d2 = d
    BY <1>2 DEF UpsertSeen
  <2>2. Known(d, a)
    BY <1>1, <1>2 DEF Known, Sound, HasRow
  <2> QED BY <2>1, <2>2, DbSame
<1>3. CASE d.rows[key].status # "downloaded"
  <2>1. key = a
    BY <1>1, <1>3 DEF Sound
  <2> DEFINE row == [of |-> a, status |-> "pending", deleted |-> trashed]
             rows == [d.rows EXCEPT ![a] = row]
             mapped == d.mapped \cup {a}
  <2>2. d \in Databases /\ d.rows \in [Keys -> Rows] /\ d.mapped \in SUBSET Assets
    BY DEF Sound, Databases
  <2>3. row \in Rows /\ row.of = a /\ row.status = "pending" /\ row.deleted = trashed
    BY DEF Rows
  <2>4. d2 = [d EXCEPT !.rows = rows, !.mapped = mapped]
    BY <1>3, <2>1, <2>2 DEF UpsertSeen, Databases
  <2>5. rows \in [Keys -> Rows] /\ mapped \in SUBSET Assets
    BY <2>2, <2>3
  <2> HIDE DEF row
  <2>6. rows[a] = row /\ \A k \in Keys : k # a => rows[k] = d.rows[k]
    BY <2>2, <1>1
  <2> HIDE DEF rows, mapped
  <2>7. \A m \in Masters : rows[m].status = d.rows[m].status /\ rows[m].of = d.rows[m].of
    BY <2>6, <1>1
  <2>8. \A b \in Assets : b \in Keys /\ (HasRow(d, b) => d.rows[b].of = b)
    BY Consts DEF Sound
  <2>9. \A b \in Assets : \/ rows[b].status = "none" /\ d.rows[b].status = "none"
                          \/ rows[b].of = b /\ rows[b].status # "none"
    BY <2>3, <2>6, <2>8 DEF HasRow
  <2>10. \A b \in Assets : rows[b].status = "pending" /\ ~rows[b].deleted => Waiting(d, b) \/ b \in wait
    BY <2>6, <2>8 DEF Waiting
  <2>11. \A b \in Assets : d.rows[b].status = "downloaded" => rows[b].status = "downloaded"
    BY <2>6, <2>8, <2>1, <1>3
  <2>12. \A b \in Assets : Waiting(d, b) /\ b \notin lose
                          => rows[b].status = "downloaded" \/ (rows[b].status = "pending" /\ ~rows[b].deleted)
    BY <2>3, <2>6, <2>8 DEF Waiting
  <2>13. DbStep(d, d2, lose, wait)
    <3> HIDE DEF lose, wait
    <3>1. DbStep(d, [d EXCEPT !.rows = rows, !.mapped = mapped], lose, wait)
      BY <2>5, <2>7, <2>9, <2>10, <2>11, <2>12, RowsChange
    <3> QED BY <3>1, <2>4
  <2>14. d2.rows = rows
    BY <2>2, <2>4 DEF Databases
  <2>15. ~trashed => Known(d2, a)
    BY <2>3, <2>6, <2>14 DEF Known
  <2> QED BY <2>13, <2>15
<1> QED BY <1>2, <1>3

LEMMA FlagOne ==
    ASSUME NEW d, Sound(d), NEW k, NEW x, k = x \/ k \notin Assets
    PROVE  DbStep(d, FlagDeleted(d, {k}), {x}, {})
<1> DEFINE ks == {k}
           xs == {x}
           none == {}
<1>1. ks \cap Assets \subseteq xs /\ none \subseteq none
  OBVIOUS
<1>2. DbStep(d, FlagDeleted(d, ks), ks, none)
  BY FlagStep
<1> HIDE DEF ks, xs, none
<1>3. DbStep(d, FlagDeleted(d, ks), xs, none)
  BY <1>1, <1>2, DbWider
<1> QED BY <1>3 DEF ks, xs, none

LEMMA SoftStep ==
    ASSUME NEW d, Sound(d), NEW e, e.kind \in {"pair", "asset", "bare", "master"},
           e.kind = "pair" => e.rec \in Assets /\ e.id \in {e.rec, MasterOf[e.rec]},
           e.kind \in {"asset", "bare"} => e.rec \in Assets
    PROVE  DbStep(d, SoftDelete(d, e), {e.rec}, {})
<1>0. \A a \in Assets : MasterOf[a] \notin Assets
  BY Consts
<1>1. ASSUME NEW k, k = e.rec \/ k \notin Assets PROVE DbStep(d, FlagDeleted(d, {k}), {e.rec}, {})
  BY <1>1, FlagOne
<1>2. CASE e.kind = "pair"
  <2>1. SoftDelete(d, e) = FlagDeleted(d, {e.id})
    BY <1>2 DEF SoftDelete
  <2> QED BY <2>1, <1>0, <1>1, <1>2
<1>3. CASE e.kind \in {"asset", "bare"}
  <2>1. SoftDelete(d, e) \in {d, FlagDeleted(d, {e.rec}), FlagDeleted(d, {MasterOf[e.rec]})}
    BY <1>3 DEF SoftDelete
  <2> QED BY <1>0, <1>1, <1>3, <2>1, DbSame
<1>4. CASE e.kind = "master"
  <2>1. SoftDelete(d, e) = FlagDeleted(d, {e.rec})
    BY <1>4 DEF SoftDelete
  <2> QED BY <1>1, <2>1
<1> QED BY <1>2, <1>3, <1>4

(* A tombstone strikes the record it names and, of a master, its assets. *)
LEMMA HardStep ==
    ASSUME NEW d, Sound(d), NEW e, e.rec \in Keys
    PROVE  /\ DbStep(d, HardDelete(d, e), {e.rec} \cup Family(e.rec), {})
           /\ e.rec \in Assets => ~Waiting(HardDelete(d, e), e.rec)
<1> DEFINE family == IF e.rec \in Masters THEN FamilyKeys(d, e.rec) ELSE {e.rec}
           lose == {e.rec} \cup Family(e.rec)
<1>1. family \subseteq lose /\ (e.rec \in Assets => family = {e.rec})
  BY Consts DEF FamilyKeys
<1>2. d.mapped \subseteq Assets
  BY DEF Sound, Databases
<1> HIDE DEF family, lose
<1>3. CASE \E k \in family : HasRow(d, k)
  <2>1. HardDelete(d, e) = FlagDeleted(d, family)
    BY <1>3 DEF HardDelete, family
  <2>2. DbStep(d, HardDelete(d, e), family, {}) /\ \A k \in family \cap Keys : ~Waiting(HardDelete(d, e), k)
    BY <2>1, FlagStep
  <2> QED BY <2>2, <1>1, DbWider DEF lose
<1>4. CASE ~ \E k \in family : HasRow(d, k)
  <2>1. HardDelete(d, e) = IF e.rec \in d.mapped THEN FlagDeleted(d, {MasterOf[e.rec]}) ELSE d
    BY <1>4 DEF HardDelete, family
  <2>2. e.rec \in Assets => ~Waiting(d, e.rec)
    BY <1>1, <1>4 DEF HasRow, Waiting
  <2>3. DbStep(d, HardDelete(d, e), lose, {})
    <3>1. CASE e.rec \in d.mapped
      <4>1. {MasterOf[e.rec]} \cap Assets \subseteq lose
        BY <3>1, <1>2, Consts
      <4> QED BY <4>1, <3>1, <2>1, FlagStep, DbWider
    <3>2. CASE e.rec \notin d.mapped
      BY <3>2, <2>1, DbSame
    <3> QED BY <3>1, <3>2
  <2>4. e.rec \in Assets => ~Waiting(HardDelete(d, e), e.rec)
    BY <2>2, <2>3 DEF DbStep, DbMove
  <2> QED BY <2>3, <2>4 DEF lose
<1> QED BY <1>3, <1>4

(* The photos that an update of the source state strikes. *)
Struck(e) == CASE e.kind = "tomb" -> {e.rec} \cup Family(e.rec)
               [] e.kind # "tomb" /\ e.reason = "softDeleted" -> {e.rec}
               [] OTHER -> {}

LEMMA SourceStep ==
    ASSUME NEW d, Sound(d), NEW e, e.kind \in {"pair", "asset", "bare", "master", "tomb"}, EventOK(e)
    PROVE  /\ DbStep(d, ApplySourceState(d, e), Struck(e), {})
           /\ e.kind = "tomb" /\ e.rec \in Assets => ~Waiting(ApplySourceState(d, e), e.rec)
<1> DEFINE lose == Struck(e)
           none == {}
<1>1. CASE e.kind = "tomb"
  <2>1. ApplySourceState(d, e) = HardDelete(d, e) /\ e.rec \in Keys
    BY <1>1 DEF ApplySourceState, EventOK
  <2>2. lose = {e.rec} \cup Family(e.rec)
    BY <1>1 DEF Struck
  <2> QED BY <2>1, <2>2, HardStep
<1>2. CASE e.kind # "tomb"
  <2>1. e.reason # "hardDeleted"
    BY <1>2 DEF EventOK
  <2>2. CASE e.reason = "softDeleted"
    <3>1. ApplySourceState(d, e) = SoftDelete(d, e)
      BY <2>2 DEF ApplySourceState
    <3>2. DbStep(d, SoftDelete(d, e), {e.rec}, {})
      BY <1>2, SoftStep DEF EventOK
    <3>3. lose = {e.rec}
      BY <1>2, <2>2 DEF Struck
    <3> QED BY <3>1, <3>2, <3>3, <1>2
  <2>3. CASE e.reason # "softDeleted"
    <3>1. ApplySourceState(d, e) = d
      BY <2>1, <2>3 DEF ApplySourceState
    <3> QED BY <3>1, <1>2, DbSame
  <2> QED BY <2>2, <2>3
<1> QED BY <1>1, <1>2

(* What a lookup of a half finds out. *)
LEMMA LookupStep ==
    ASSUME NEW d, Sound(d), NEW e, e.kind \in {"asset", "bare"}, EventOK(e), ZoneOK
    PROVE  DbStep(d, LookupWrites(d, e), {a \in Assets : ~Exists(a)}, {})
<1> DEFINE lose == {a \in Assets : ~Exists(a)}
           none == {}
           ks == FamilyKeys(d, MasterOf[e.rec])
<1>0. e.rec \in Assets /\ MasterOf[e.rec] \in Masters /\ MasterOf[e.rec] \notin Assets
  BY Consts DEF EventOK
<1>1. CASE Whole(e)
  <2>1. LookupWrites(d, e) = Mapped(d, {e.rec}) /\ {e.rec} \in SUBSET Assets
    BY <1>0, <1>1 DEF LookupWrites, Whole
  <2>2. DbStep(d, Mapped(d, {e.rec}), {}, {})
    BY <2>1, MapStep
  <2>3. none \cap Assets \subseteq lose /\ none \subseteq none
    OBVIOUS
  <2> HIDE DEF lose
  <2> QED BY <2>1, <2>2, <2>3, DbWider DEF none
<1>2. CASE ~Whole(e) /\ FamilyGone(e)
  <2>1. LookupWrites(d, e) \in {d, FlagDeleted(d, ks)}
    BY <1>2 DEF LookupWrites
  <2>2. ks \cap Assets \subseteq lose /\ none \subseteq none
    BY <1>0, <1>2 DEF FamilyKeys, Family, FamilyGone, ZoneOK
  <2> HIDE DEF lose, ks
  <2>3. DbStep(d, FlagDeleted(d, ks), ks, none) /\ DbStep(d, d, lose, none)
    BY FlagStep, DbSame DEF none
  <2> HIDE DEF none
  <2>4. DbStep(d, FlagDeleted(d, ks), lose, none)
    BY <2>2, <2>3, DbWider
  <2>5. DbStep(d, LookupWrites(d, e), lose, none)
    BY <2>1, <2>3, <2>4
  <2> QED BY <2>5 DEF lose, none
<1>3. CASE ~Whole(e) /\ ~FamilyGone(e)
  <2> DEFINE one == {e.rec}
  <2>1. LookupWrites(d, e) \in {d, SoftDelete(d, e)}
    BY <1>3 DEF LookupWrites
  <2>2. one \cap Assets \subseteq lose /\ none \subseteq none
    BY <1>3 DEF Whole
  <2>3. DbStep(d, SoftDelete(d, e), one, none) /\ DbStep(d, d, lose, none)
    BY <1>0, SoftStep, DbSame
  <2> HIDE DEF lose, one, none
  <2>4. DbStep(d, SoftDelete(d, e), lose, none)
    BY <2>2, <2>3, DbWider
  <2>5. DbStep(d, LookupWrites(d, e), lose, none)
    BY <2>1, <2>3, <2>4
  <2> QED BY <2>5 DEF lose, none
<1> QED BY <1>1, <1>2, <1>3
-----------------------------------------------------------------------------
(* Types. *)

LEMMA Types ==
    ASSUME DeltaTypeOK
    PROVE  /\ zone \in Places(cfg.maxClock) /\ cfg.maxClock \in Nat \ {0}
           /\ cfg \in [album : BOOLEAN, unfiled : BOOLEAN, recent : Nat \cup {Null}, maxClock : Nat \ {0}]
           /\ cfg.album \/ cfg.unfiled
           /\ clock \in Nat \ {0} /\ clock <= cfg.maxClock
           /\ \A r \in Records : zone[r].at \in Nat /\ zone[r].at <= clock /\ zone[r].st \in States
           /\ stopped \in BOOLEAN /\ mishaps \in Nat
           /\ db \in Databases /\ db.token \in Nat \ {0} /\ db.token <= clock /\ db.token # Null
           /\ run \in Runs /\ prod \in Producers /\ prod.buffer \in Buffers
           /\ run.token # Null => run.token \in Nat /\ run.token <= clock
           /\ prod.token # Null => prod.token \in Nat /\ prod.token <= clock
           /\ run.events \in Seq(Events) /\ run.ready \in Seq(Photos) /\ run.at \in Nat
           /\ channel \in Seq(Events) /\ prod.todo \in Seq(Events) /\ Flow \in Seq(Events) /\ Line \in Seq(Events)
           /\ pipe \in Seq([asset : Assets, trashed : BOOLEAN]) /\ run.unsafe \in BOOLEAN
<1>1. zone \in Places(cfg.maxClock) /\ cfg \in {l.config : l \in Setups}
  BY DEF DeltaTypeOK, Places
<1>2. cfg \in [album : BOOLEAN, unfiled : BOOLEAN, recent : Nat \cup {Null}, maxClock : Nat \ {0}] /\ (cfg.album \/ cfg.unfiled)
  BY <1>1, Configs
<1>3. cfg.maxClock \in Nat \ {0}
  BY <1>2
<1>4. clock \in Nat \ {0} /\ clock <= cfg.maxClock /\ \A r \in Records : zone[r].at \in Nat /\ zone[r].at <= clock
  BY <1>1, <1>3, Clock
<1>5. \A r \in Records : zone[r].st \in States
  BY <1>1 DEF Places
<1>6. stopped \in BOOLEAN /\ mishaps \in Nat
  BY Consts DEF DeltaTypeOK
<1>7. db \in Databases /\ db.token \in Nat \ {0} /\ db.token <= clock /\ db.token # Null
  BY <1>4, Consts DEF DeltaTypeOK, Tokens
<1>8. run \in Runs /\ prod \in Producers /\ prod.buffer \in Buffers /\ prod.todo \in Seq(Events)
      /\ run.events \in Seq(Events) /\ run.ready \in Seq(Photos) /\ run.at \in Nat /\ run.unsafe \in BOOLEAN
  BY DEF DeltaTypeOK, Runs, Producers
<1>9. /\ run.token # Null => run.token \in Nat /\ run.token <= clock
      /\ prod.token # Null => prod.token \in Nat /\ prod.token <= clock
  BY <1>4 DEF DeltaTypeOK, Tokens
<1>10. channel \in Seq(Events) /\ pipe \in Seq([asset : Assets, trashed : BOOLEAN])
  BY DEF DeltaTypeOK
<1>11. Flow \in Seq(Events)
  BY <1>8, <1>10, ConcatAt DEF Flow
<1>12. Line \in Seq(Events)
  BY <1>8, <1>11, ConcatAt DEF Line
<1> QED BY <1>1, <1>2, <1>3, <1>4, <1>5, <1>6, <1>7, <1>8, <1>9, <1>10, <1>11, <1>12

LEMMA ClockStays ==
    ASSUME zone' = zone, cfg' = cfg
    PROVE  clock' = clock
  BY DEF clock

(* What a step that leaves the zone alone has to show. *)
LEMMA TypeFrame ==
    ASSUME DeltaTypeOK, zone' = zone, cfg' = cfg, stopped' \in BOOLEAN,
           mishaps' = mishaps \/ (Spend /\ mishaps < MaxMishaps),
           db' \in Databases, db'.token \in Tokens,
           run' \in Runs, run'.token \in Tokens \cup {Null},
           prod' \in Producers, prod'.token \in Tokens \cup {Null},
           channel' \in Seq(Events), Len(channel') <= ChannelCap,
           pipe' \in Seq([asset : Assets, trashed : BOOLEAN]), Len(pipe') <= PipeCap
    PROVE  DeltaTypeOK'
<1>1. clock' = clock
  BY ClockStays
<1>2. mishaps' \in 0 .. MaxMishaps
  BY Consts DEF Spend, DeltaTypeOK
<1> QED BY <1>1, <1>2 DEF DeltaTypeOK, Tokens

LEMMA IdleTypes == Idle \in Runs /\ Off \in Producers /\ EmptyBuffer \in Buffers /\ Idle.token = Null /\ Off.token = Null
<1>1. EmptyBuffer \in Buffers
  BY DEF EmptyBuffer, Buffers
<1>2. Off \in Producers
  BY <1>1 DEF Off, Producers
<1>3. Idle \in Runs
  BY DEF Idle, Runs
<1> QED BY <1>1, <1>2, <1>3 DEF Off, Idle

LEMMA EndedTypes ==
    ASSUME DeltaTypeOK, Ended, zone' = zone, cfg' = cfg, db' \in Databases, db'.token \in Tokens,
           mishaps' = mishaps \/ (Spend /\ mishaps < MaxMishaps)
    PROVE  DeltaTypeOK'
<1>1. run' \in Runs /\ run'.token = Null /\ prod' \in Producers /\ prod'.token = Null
  BY IdleTypes DEF Ended
<1> DEFINE S == [asset : Assets, trashed : BOOLEAN]
<1>e. \A T : <<>> \in Seq(T) /\ Len(<<>>) = 0
  OBVIOUS
<1>2. channel' \in Seq(Events) /\ Len(channel') = 0 /\ stopped' \in BOOLEAN /\ pipe' \in Seq(S) /\ Len(pipe') = 0
  <2> HIDE DEF S
  <2> QED BY <1>e DEF Ended
<1>3. 0 <= ChannelCap /\ 0 <= PipeCap
  BY Consts
<1> QED BY <1>1, <1>2, <1>3, TypeFrame

LEMMA EventTypes ==
    /\ \A kind \in {"pair", "asset", "bare", "master", "tomb", "rel", "bad", "err"}, rec \in Names, reason \in Reasons, id \in Names :
          Event(kind, rec, reason, id) \in Events
    /\ \A st : Reason(st) \in Reasons
    /\ \A x \in Reasons, y \in Reasons : Reconcile(x, y) \in Reasons
    /\ Null \in Names /\ Keys \subseteq Names /\ Assets \subseteq Names /\ Masters \subseteq Names
    /\ Nameless("bad") \in Events /\ Nameless("err") \in Events
<1>1. \A kind \in {"pair", "asset", "bare", "master", "tomb", "rel", "bad", "err"}, rec \in Names, reason \in Reasons, id \in Names :
          Event(kind, rec, reason, id) \in Events
  BY DEF Event, Events
<1>2. \A st : Reason(st) \in Reasons
  BY DEF Reason, Reasons
<1>3. \A x \in Reasons, y \in Reasons : Reconcile(x, y) \in Reasons
  BY DEF Reconcile, Reasons
<1>4. Null \in Names /\ Keys \subseteq Names /\ Assets \subseteq Names /\ Masters \subseteq Names
  BY Consts DEF Names
<1>5. Nameless("bad") \in Events /\ Nameless("err") \in Events
  BY <1>1, <1>4 DEF Nameless, Reasons
<1> QED BY <1>1, <1>2, <1>3, <1>4, <1>5

LEMMA GroupSeq ==
    ASSUME NEW items \in Seq(Items), NEW m \in Masters, NEW reason \in Reasons
    PROVE  /\ Group(items, m, reason) \in Seq(Events) /\ Halves(items) \in Seq(Events)
           /\ DOMAIN Group(items, m, reason) = DOMAIN items /\ DOMAIN Halves(items) = DOMAIN items
           /\ \A i \in DOMAIN items :
                 /\ items[i] \in Items
                 /\ Group(items, m, reason)[i] = Event("pair", items[i].rec, Reconcile(reason, items[i].reason),
                                                       IF i = 1 THEN m ELSE items[i].rec)
                 /\ Halves(items)[i] = Event("asset", items[i].rec, items[i].reason, Null)
           /\ items # <<>> => Group(items, m, reason) # <<>> /\ Halves(items) # <<>>
<1>1. DOMAIN items = 1 .. Len(items) /\ Len(items) \in Nat /\ \A i \in DOMAIN items : items[i] \in Items
  OBVIOUS
<1>2. \A i \in DOMAIN items : items[i].rec \in Names /\ items[i].reason \in Reasons /\ m \in Names
  BY <1>1, EventTypes DEF Items
<1>3. \A i \in DOMAIN items : Pair(items[i], reason, IF i = 1 THEN m ELSE items[i].rec) \in Events
  BY <1>2, EventTypes DEF Pair
<1>4. \A i \in DOMAIN items : Event("asset", items[i].rec, items[i].reason, Null) \in Events
  BY <1>2, EventTypes
<1>5. Group(items, m, reason) \in [1 .. Len(items) -> Events] /\ Halves(items) \in [1 .. Len(items) -> Events]
  BY <1>1, <1>3, <1>4 DEF Group, Halves
<1>6. Group(items, m, reason) \in Seq(Events) /\ Halves(items) \in Seq(Events)
  BY <1>1, <1>5
<1>7. \A i \in DOMAIN items :
         /\ Group(items, m, reason)[i] = Event("pair", items[i].rec, Reconcile(reason, items[i].reason),
                                               IF i = 1 THEN m ELSE items[i].rec)
         /\ Halves(items)[i] = Event("asset", items[i].rec, items[i].reason, Null)
  BY DEF Group, Halves, Pair
<1>8. items # <<>> => Group(items, m, reason) # <<>> /\ Halves(items) # <<>>
  BY <1>1, <1>5, <1>6
<1> QED BY <1>1, <1>5, <1>6, <1>7, <1>8

LEMMA BufferEdit ==
    ASSUME NEW b \in Buffers, NEW m \in Masters, NEW v \in Reasons \cup {Null}, NEW w \in Reasons \cup {Null}, NEW s \in Seq(Items)
    PROVE  /\ [b EXCEPT !.masters[m] = v] \in Buffers
           /\ [b EXCEPT !.masters[m] = v] = [b EXCEPT !.masters = [b.masters EXCEPT ![m] = v]]
           /\ [b EXCEPT !.assets[m] = s] \in Buffers
           /\ [b EXCEPT !.masters[m] = v, !.paired[m] = w] \in Buffers
           /\ [b EXCEPT !.paired[m] = v, !.assets[m] = s] \in Buffers
<1>1. b.masters \in [Masters -> Reasons \cup {Null}] /\ b.paired \in [Masters -> Reasons \cup {Null}]
      /\ b.assets \in [Masters -> Seq(Items)]
  BY DEF Buffers
<1> DEFINE f == [b.masters EXCEPT ![m] = v]
           g == [b.paired EXCEPT ![m] = v]
           g2 == [b.paired EXCEPT ![m] = w]
           h == [b.assets EXCEPT ![m] = s]
<1>2. f \in [Masters -> Reasons \cup {Null}] /\ g \in [Masters -> Reasons \cup {Null}]
      /\ g2 \in [Masters -> Reasons \cup {Null}] /\ h \in [Masters -> Seq(Items)]
  BY <1>1
<1>3. /\ [b EXCEPT !.masters[m] = v] = [b EXCEPT !.masters = f]
      /\ [b EXCEPT !.assets[m] = s] = [b EXCEPT !.assets = h]
      /\ [b EXCEPT !.masters[m] = v, !.paired[m] = w] = [b EXCEPT !.masters = f, !.paired = g2]
      /\ [b EXCEPT !.paired[m] = v, !.assets[m] = s] = [b EXCEPT !.paired = g, !.assets = h]
  BY DEF Buffers
<1> HIDE DEF f, g, g2, h
<1>4. /\ [b EXCEPT !.masters = f] \in Buffers /\ [b EXCEPT !.assets = h] \in Buffers
      /\ [b EXCEPT !.masters = f, !.paired = g2] \in Buffers /\ [b EXCEPT !.paired = g, !.assets = h] \in Buffers
  BY <1>2 DEF Buffers
<1> QED BY <1>3, <1>4 DEF f

(* What the producer does with one record: its events and its buffer. *)
LEMMA PutTypes ==
    ASSUME DeltaTypeOK, PutRecord
    PROVE  \E x \in prod.page, buffer \in Buffers, events \in Seq(Events) :
              /\ prod.pc = "send" /\ prod.todo = <<>> /\ Oldest(x)
              /\ prod' = [prod EXCEPT !.page = @ \ {x}, !.token = x.at, !.buffer = buffer, !.todo = events]
              /\ x \in [rec : Records, st : States, at : Nat]
              /\ UNCHANGED <<zone, cfg, db, run, channel, pipe, stopped>>
              /\ mishaps' = mishaps \/ (Spend /\ mishaps < MaxMishaps)
<1> DEFINE b == prod.buffer
<1>0. b \in Buffers /\ prod.page \subseteq [rec : Records, st : States, at : Nat]
  BY DEF DeltaTypeOK, Producers
<1>1. PICK x \in prod.page : PutMaster(x) \/ PutAsset(x) \/ PutTombstone(x) \/ PutRelation(x) \/ PutMalformed(x)
  BY DEF PutRecord
<1>2. x \in [rec : Records, st : States, at : Nat] /\ Reason(x.st) \in Reasons /\ \A e \in Events : <<e>> \in Seq(Events)
  BY <1>0, EventTypes
<1>3. ASSUME NEW buffer \in Buffers, NEW events \in Seq(Events), Put(x, buffer, events),
             mishaps' = mishaps \/ (Spend /\ mishaps < MaxMishaps)
      PROVE  \E buffer2 \in Buffers, events2 \in Seq(Events) :
              /\ prod.pc = "send" /\ prod.todo = <<>> /\ Oldest(x)
              /\ prod' = [prod EXCEPT !.page = @ \ {x}, !.token = x.at, !.buffer = buffer2, !.todo = events2]
              /\ x \in [rec : Records, st : States, at : Nat]
              /\ UNCHANGED <<zone, cfg, db, run, channel, pipe, stopped>>
              /\ mishaps' = mishaps \/ (Spend /\ mishaps < MaxMishaps)
  BY <1>2, <1>3 DEF Put
<1>4. SUFFICES \E buffer \in Buffers, events \in Seq(Events) :
                 Put(x, buffer, events) /\ (mishaps' = mishaps \/ (Spend /\ mishaps < MaxMishaps))
  BY <1>3
<1> HIDE DEF b
<1>5. b.masters \in [Masters -> Reasons \cup {Null}] /\ b.paired \in [Masters -> Reasons \cup {Null}]
      /\ b.assets \in [Masters -> Seq(Items)]
  BY <1>0 DEF Buffers
<1>6. CASE PutMaster(x)
  <2>1. x.rec \in Masters /\ mishaps' = mishaps
    BY <1>6 DEF PutMaster
  <2>2. CASE b.assets[x.rec] = <<>>
    <3>1. Put(x, [b EXCEPT !.masters[x.rec] = Reason(x.st)], <<>>)
      BY <1>6, <2>2 DEF PutMaster, b
    <3>2. [b EXCEPT !.masters[x.rec] = Reason(x.st)] \in Buffers /\ <<>> \in Seq(Events)
      <4>1. <<>> \in Seq(Items) /\ <<>> \in Seq(Events)
        OBVIOUS
      <4> QED BY <4>1, <1>0, <1>2, <2>1, BufferEdit
    <3> QED BY <3>1, <3>2, <2>1
  <2>3. CASE b.assets[x.rec] # <<>>
    <3>1. Put(x, [b EXCEPT !.paired[x.rec] = Reason(x.st), !.assets[x.rec] = <<>>], Group(b.assets[x.rec], x.rec, Reason(x.st)))
      BY <1>6, <2>3 DEF PutMaster, b
    <3>2. [b EXCEPT !.paired[x.rec] = Reason(x.st), !.assets[x.rec] = <<>>] \in Buffers
      <4>1. <<>> \in Seq(Items)
        OBVIOUS
      <4> QED BY <4>1, <1>0, <1>2, <2>1, BufferEdit
    <3>3. Group(b.assets[x.rec], x.rec, Reason(x.st)) \in Seq(Events)
      BY <1>2, <1>5, <2>1, GroupSeq
    <3> QED BY <3>1, <3>2, <3>3, <2>1
  <2> QED BY <2>2, <2>3
<1>7. CASE PutAsset(x)
  <2> DEFINE m == MasterOf[x.rec]
             item == [rec |-> x.rec, reason |-> Reason(x.st)]
  <2>1. x.rec \in Assets /\ mishaps' = mishaps
    BY <1>7 DEF PutAsset
  <2>2. m \in Masters /\ m \in Names /\ x.rec \in Names /\ item \in Items /\ item.rec = x.rec /\ item.reason \in Reasons
    BY <1>2, <2>1, Consts, EventTypes DEF Items
  <2>3. \A r \in Reasons, id \in Names : <<Pair(item, r, id)>> \in Seq(Events)
    BY <1>2, <2>2, EventTypes DEF Pair
  <2>4. CASE b.masters[m] # Null /\ Put(x, [b EXCEPT !.masters[m] = Null, !.paired[m] = b.masters[m]], <<Pair(item, b.masters[m], m)>>)
    <3>1. b.masters[m] \in Reasons
      BY <1>5, <2>2, <2>4
    <3>2. [b EXCEPT !.masters[m] = Null, !.paired[m] = b.masters[m]] \in Buffers
      BY <1>0, <2>2, <3>1 DEF Buffers
    <3> QED BY <2>1, <2>2, <2>3, <2>4, <3>1, <3>2
  <2>5. CASE b.paired[m] # Null /\ Put(x, b, <<Pair(item, b.paired[m], x.rec)>>)
    <3>1. b.paired[m] \in Reasons
      BY <1>5, <2>2, <2>5
    <3> QED BY <1>0, <2>1, <2>2, <2>3, <2>5, <3>1
  <2>6. CASE Put(x, [b EXCEPT !.assets[m] = Append(@, item)], <<>>)
    <3>1. Append(b.assets[m], item) \in Seq(Items)
      BY <1>5, <2>2
    <3>2. [b EXCEPT !.assets[m] = Append(@, item)] \in Buffers /\ <<>> \in Seq(Events)
      <4> DEFINE t == Append(b.assets[m], item)
      <4>1. [b EXCEPT !.assets[m] = Append(@, item)] = [b EXCEPT !.assets[m] = t]
        BY <1>0, <2>2 DEF Buffers
      <4>2. t \in Seq(Items)
        BY <3>1
      <4> HIDE DEF t
      <4>3. [b EXCEPT !.assets[m] = t] \in Buffers
        BY <4>2, <1>0, <2>2, BufferEdit
      <4>4. <<>> \in Seq(Events)
        OBVIOUS
      <4> QED BY <4>1, <4>3, <4>4
    <3> QED BY <2>1, <2>6, <3>2
  <2> QED BY <1>7, <2>4, <2>5, <2>6 DEF PutAsset, b
<1>8. CASE PutTombstone(x)
  <2>1. <<Event("tomb", x.rec, "hardDeleted", Null)>> \in Seq(Events) /\ mishaps' = mishaps
    BY <1>2, <1>8, EventTypes DEF PutTombstone, Reasons
  <2> QED BY <1>0, <1>8, <2>1 DEF PutTombstone, b
<1>9. CASE PutRelation(x)
  <2>1. x.rec[1] \in Names
    BY <1>9, Consts, EventTypes DEF PutRelation
  <2>2. <<Event("rel", x.rec[1], Reason(x.st), Null)>> \in Seq(Events) /\ mishaps' = mishaps
    BY <1>2, <1>9, <2>1, EventTypes DEF PutRelation
  <2> QED BY <1>0, <1>9, <2>2 DEF PutRelation, b
<1>10. CASE PutMalformed(x)
  <2>1. Spend /\ mishaps < MaxMishaps
    BY <1>10 DEF PutMalformed, Mishap
  <2>2. <<Nameless("bad")>> \in Seq(Events)
    BY <1>2, EventTypes
  <2>3. x.rec \in Assets => <<Event("bare", x.rec, Reason(x.st), Null)>> \in Seq(Events)
    BY <1>2, EventTypes
  <2> QED BY <1>0, <1>10, <2>1, <2>2, <2>3 DEF PutMalformed, b
<1> QED BY <1>1, <1>6, <1>7, <1>8, <1>9, <1>10

LEMMA ProducerTypes ==
    ASSUME SafeInv, ProducerStep
    PROVE  DeltaTypeOK'
<1>0. DeltaTypeOK /\ PageOK
  BY DEF SafeInv
<1>a. /\ db \in Databases /\ db.token \in Tokens /\ run \in Runs /\ run.token \in Tokens \cup {Null}
      /\ prod \in Producers /\ prod.token \in Tokens \cup {Null} /\ stopped \in BOOLEAN
      /\ channel \in Seq(Events) /\ Len(channel) <= ChannelCap
      /\ pipe \in Seq([asset : Assets, trashed : BOOLEAN]) /\ Len(pipe) <= PipeCap
  BY <1>0 DEF DeltaTypeOK
<1>1. CASE FetchPage
  <2>1. \A r \in Page : r \in Records /\ zone[r].st \in States /\ zone[r].at \in Nat
    BY <1>0, Types DEF Page, Delta
  <2>2. {[rec |-> r, st |-> zone[r].st, at |-> zone[r].at] : r \in Page} \subseteq [rec : Records, st : States, at : Nat]
    BY <2>1
  <2>3. prod' \in Producers /\ prod'.token = prod.token
    BY <1>1, <1>a, <2>2 DEF FetchPage, Producers
  <2> QED BY <1>0, <1>1, <1>a, <2>3, TypeFrame DEF FetchPage
<1>2. CASE PageFails
  <2>1. prod' \in Producers /\ prod'.token = prod.token
    BY <1>2, <1>a DEF PageFails, Producers
  <2> QED BY <1>0, <1>2, <1>a, <2>1, TypeFrame DEF PageFails, Mishap
<1>3. CASE PutRecord
  <2>1. PICK x \in prod.page, buffer \in Buffers, events \in Seq(Events) :
              /\ prod' = [prod EXCEPT !.page = @ \ {x}, !.token = x.at, !.buffer = buffer, !.todo = events]
              /\ x \in [rec : Records, st : States, at : Nat]
              /\ UNCHANGED <<zone, cfg, db, run, channel, pipe, stopped>>
              /\ mishaps' = mishaps \/ (Spend /\ mishaps < MaxMishaps)
              /\ prod.pc = "send"
    BY <1>0, <1>3, PutTypes
  <2>2. prod' \in Producers /\ prod'.token = x.at
    BY <1>a, <2>1 DEF Producers
  <2>3. x.at \in Tokens
    <3>1. x.at <= zone[x.rec].at /\ x.at > prod.token /\ x.rec \in Records /\ prod.token \in Nat \ {0}
      <4>1. EntryOK(x) /\ x.rec \in Records
        BY <1>0, <2>1 DEF PageOK
      <4>2. prod.token # Null
        BY <2>1 DEF SafeInv, ShapeOK
      <4>3. prod.token \in Nat \ {0}
        BY <4>2, <1>a, <1>0, Types DEF Tokens
      <4> QED BY <4>1, <4>3 DEF EntryOK
    <3>2. zone[x.rec].at \in Nat /\ zone[x.rec].at <= clock /\ clock \in Nat
      BY <1>0, <3>1, Types
    <3>3. x.at \in Nat
      BY <2>1
    <3> QED BY <3>1, <3>2, <3>3 DEF Tokens
  <2> QED BY <1>0, <1>a, <2>1, <2>2, <2>3, TypeFrame
<1>4. CASE SendEvent
  <2>1. Head(prod.todo) \in Events /\ Tail(prod.todo) \in Seq(Events)
    BY <1>0, <1>4, Types, HeadTail DEF SendEvent
  <2>2. prod' \in Producers /\ prod'.token = prod.token
    BY <1>4, <1>a, <2>1 DEF SendEvent, Producers
  <2>3. channel' \in Seq(Events) /\ Len(channel') = Len(channel) + 1 /\ Len(channel) < ChannelCap /\ Len(channel) \in Nat
    BY <1>4, <1>a, <2>1 DEF SendEvent
  <2>4. Len(channel') <= ChannelCap
    BY <2>3, Consts
  <2> QED BY <1>0, <1>4, <1>a, <2>2, <2>3, <2>4, TypeFrame DEF SendEvent
<1>5. CASE EndPage
  <2>1. prod' \in Producers /\ prod'.token = prod.token
    BY <1>5, <1>a DEF EndPage, AfterPage, Producers
  <2> QED BY <1>0, <1>5, <1>a, <2>1, TypeFrame DEF EndPage
<1>6. CASE Flush
  <2> DEFINE b == prod.buffer
  <2>0. b \in Buffers /\ Null \in Reasons \cup {Null} /\ <<>> \in Seq(Items) /\ \A e \in Events : <<e>> \in Seq(Events)
    BY <1>a DEF Producers
  <2>1. ASSUME NEW buffer \in Buffers, NEW todo \in Seq(Events), NEW pc \in {"flush", "done"}, NEW failed \in BOOLEAN,
               prod' = [prod EXCEPT !.buffer = buffer, !.todo = todo, !.pc = pc, !.failed = failed]
        PROVE  DeltaTypeOK'
    <3>1. prod' \in Producers /\ prod'.token = prod.token
      BY <1>a, <2>1 DEF Producers
    <3> QED BY <1>0, <1>6, <1>a, <3>1, TypeFrame DEF Flush
  <2>2. prod.pc = "flush" /\ prod.todo = <<>> /\ prod.todo \in Seq(Events) /\ prod.failed \in BOOLEAN /\ prod.pc \in {"flush", "done"}
    BY <1>6, <1>a DEF Flush, Producers
  <2>3. ASSUME NEW m \in Masters, b.masters[m] # Null,
               prod' = [prod EXCEPT !.buffer.masters[m] = Null, !.todo = <<Event("master", m, b.masters[m], Null)>>]
        PROVE  DeltaTypeOK'
    <3> DEFINE buffer == [b EXCEPT !.masters[m] = Null]
               todo == <<Event("master", m, b.masters[m], Null)>>
    <3>1. b.masters[m] \in Reasons
      BY <2>0, <2>3 DEF Buffers
    <3>2. todo \in Seq(Events)
      BY <2>0, <3>1, EventTypes
    <3>3. buffer \in Buffers
      BY <2>0, BufferEdit
    <3>4. prod' = [prod EXCEPT !.buffer = buffer, !.todo = todo, !.pc = "flush", !.failed = prod.failed]
      BY <2>3, <2>2, <1>a DEF Producers
    <3> HIDE DEF buffer, todo
    <3> QED BY <2>1, <2>2, <3>2, <3>3, <3>4
  <2>4. ASSUME NEW m \in Masters,
               prod' = [prod EXCEPT !.buffer.assets[m] = <<>>, !.todo = Halves(b.assets[m])]
        PROVE  DeltaTypeOK'
    <3> DEFINE buffer == [b EXCEPT !.assets[m] = <<>>]
               todo == Halves(b.assets[m])
    <3>2. todo \in Seq(Events)
      BY <2>0, GroupSeq, EventTypes DEF Buffers
    <3>3. buffer \in Buffers
      BY <2>0, BufferEdit
    <3>4. prod' = [prod EXCEPT !.buffer = buffer, !.todo = todo, !.pc = "flush", !.failed = prod.failed]
      BY <2>4, <2>2, <1>a DEF Producers
    <3> HIDE DEF buffer, todo
    <3> QED BY <2>1, <2>2, <3>2, <3>3, <3>4
  <2>5. CASE prod' = [prod EXCEPT !.failed = FALSE, !.todo = <<Nameless("err")>>]
    <3> DEFINE todo == <<Nameless("err")>>
    <3>1. todo \in Seq(Events)
      BY <2>0, EventTypes
    <3>2. prod' = [prod EXCEPT !.buffer = b, !.todo = todo, !.pc = "flush", !.failed = FALSE]
      BY <2>5, <2>2, <1>a DEF Producers
    <3> HIDE DEF todo
    <3> QED BY <2>0, <2>1, <2>2, <3>1, <3>2
  <2>6. CASE prod' = [prod EXCEPT !.pc = "done"]
    <3>1. prod' = [prod EXCEPT !.buffer = b, !.todo = prod.todo, !.pc = "done", !.failed = prod.failed]
      BY <2>6, <2>2, <1>a DEF Producers
    <3> QED BY <2>0, <2>1, <2>2, <3>1
  <2> QED BY <1>6, <2>3, <2>4, <2>5, <2>6 DEF Flush
<1> QED BY <1>1, <1>2, <1>3, <1>4, <1>5, <1>6 DEF ProducerStep
-----------------------------------------------------------------------------
(* What the steps of a run do to the database. *)

LEMMA SoundDb ==
    ASSUME SafeInv
    PROVE  Sound(db) /\ \A k \in run.stored : HasRow(db, k)
  BY DEF SafeInv, RowsOK, Sound, DeltaTypeOK

LEMMA HeadEvent ==
    ASSUME SafeInv, channel # <<>>
    PROVE  /\ Head(channel) \in Events /\ Tail(channel) \in Seq(Events) /\ Head(channel) \in Elems(Flow)
           /\ EventOK(Head(channel)) /\ ~Head(channel).trashed
           /\ Len(Tail(channel)) = Len(channel) - 1 /\ Len(channel) \in Nat \ {0}
<1>1. channel \in Seq(Events) /\ prod.todo \in Seq(Events)
  BY Types DEF SafeInv
<1>2. /\ Head(channel) \in Events /\ Tail(channel) \in Seq(Events)
      /\ Len(Tail(channel)) = Len(channel) - 1 /\ Len(channel) \in Nat \ {0}
  BY <1>1, HeadTail
<1>3. Head(channel) \in Elems(Flow)
  <2>1. Head(channel) \in Elems(channel)
    BY <1>1, HeadTail
  <2>2. Elems(Flow) = Elems(channel) \cup Elems(prod.todo)
    BY <1>1, ElemsConcat DEF Flow
  <2> QED BY <2>1, <2>2
<1> QED BY <1>2, <1>3 DEF SafeInv, FlowOK

LEMMA KeptEvent ==
    ASSUME SafeInv, NEW i \in DOMAIN run.events
    PROVE  /\ run.events[i] \in Events /\ EventOK(run.events[i]) /\ run.events[i].kind # "err"
           /\ DOMAIN run.events = 1 .. Len(run.events) /\ i \in Nat \ {0}
<1>1. run.events \in Seq(Events)
  BY Types DEF SafeInv
<1>2. run.events[i] \in Events /\ DOMAIN run.events = 1 .. Len(run.events) /\ i \in Nat \ {0}
  BY <1>1
<1>3. EventOK(run.events[i]) /\ run.events[i].kind # "err"
  BY DEF SafeInv, KeptOK
<1> QED BY <1>2, <1>3

Soft(e, a) == e.rec = a /\ e.reason = "softDeleted"

(* The photos that a step may make unknown. *)
LoseOK(a) ==
    zone[a].st = "live" =>
        /\ zone[a].at > db.token
        /\ \/ stopped \/ zone[a].at > Frontier \/ run.pc = "apply"
           \/ run.pc = "read" /\ channel # <<>> /\ Soft(Head(channel), a)

Effect == \E lose, wait :
    /\ DbMove(db, db', lose, wait) /\ wait \cap run.purged = {}
    /\ \A a \in lose \cap Assets : LoseOK(a)

LEMMA EffectOf ==
    ASSUME NEW lose, NEW wait, DbStep(db, db', lose, wait), wait \cap run.purged = {},
           \A a \in lose \cap Assets : LoseOK(a)
    PROVE  Effect /\ db'.members = db.members
  BY DEF Effect, DbStep

LEMMA NoEffect ==
    ASSUME SafeInv, db' = db
    PROVE  Effect /\ db'.members = db.members
<1> DEFINE none == {}
<1>1. DbStep(db, db', none, none)
  BY SoundDb, DbSame
<1>2. none \cap run.purged = {} /\ \A a \in none \cap Assets : LoseOK(a)
  OBVIOUS
<1> HIDE DEF none
<1> QED BY <1>1, <1>2, EffectOf

LEMMA PlainEffect ==
    ASSUME DbStep(db, db', {}, {})
    PROVE  Effect /\ db'.members = db.members
<1> DEFINE none == {}
<1>1. DbStep(db, db', none, none)
  OBVIOUS
<1>2. none \cap run.purged = {} /\ \A a \in none \cap Assets : LoseOK(a)
  OBVIOUS
<1> HIDE DEF none
<1> QED BY <1>1, <1>2, EffectOf

LEMMA StruckOK ==
    ASSUME SafeInv, NEW e, EventOK(e), e.kind \in {"pair", "asset", "bare", "master", "tomb"},
           run.pc = "apply" \/ (run.pc = "read" /\ channel # <<>> /\ e = Head(channel)),
           NEW a \in Assets, a \in Struck(e)
    PROVE  LoseOK(a)
<1>0. a \in Records /\ MasterOf[a] \in Masters /\ a \notin Masters
  BY Consts
<1>1. CASE e.kind = "tomb"
  <2>1. zone[e.rec].st = "gone" /\ (e.rec = a \/ e.rec = MasterOf[a])
    BY <1>1 DEF EventOK, Struck, Family
  <2>2. zone[a].st # "live"
    BY <2>1 DEF SafeInv, ZoneOK, Exists
  <2> QED BY <2>2 DEF LoseOK
<1>2. CASE e.kind # "tomb"
  <2>1. e.reason = "softDeleted" /\ e.rec = a
    BY <1>2 DEF Struck
  <2>2. zone[a].at > db.token
    BY <1>0, <1>2, <2>1 DEF EventOK
  <2> QED BY <2>1, <2>2 DEF LoseOK, Soft
<1> QED BY <1>1, <1>2

LEMMA SourceEffect ==
    ASSUME SafeInv, NEW e, EventOK(e), e.kind \in {"pair", "asset", "bare", "master", "tomb"},
           run.pc = "apply" \/ (run.pc = "read" /\ channel # <<>> /\ e = Head(channel)),
           NEW d, DbStep(db, d, {}, {}), db' = ApplySourceState(d, e)
    PROVE  Effect /\ db'.members = db.members
<1> DEFINE lose == Struck(e)
           none == {}
<1>1. Sound(db) /\ Sound(d)
  BY SoundDb DEF DbStep, DbMove
<1>2. DbStep(d, db', lose, none)
  BY <1>1, SourceStep
<1>3. none \cap Assets \subseteq lose /\ none \subseteq none /\ none \cap run.purged = {}
  OBVIOUS
<1>4. \A a \in lose \cap Assets : LoseOK(a)
  BY StruckOK
<1>5. DbStep(db, d, none, none)
  OBVIOUS
<1> HIDE DEF lose, none
<1>6. DbStep(db, d, lose, none)
  BY <1>3, <1>5, DbWider
<1>7. DbStep(db, db', lose, none)
  BY <1>1, <1>2, <1>6, DbTwice
<1> QED BY <1>3, <1>4, <1>7, EffectOf

LEMMA StreamEffect ==
    ASSUME SafeInv, StreamEvent
    PROVE  Effect /\ db'.members = db.members
<1> DEFINE e == Head(channel)
<1>0. channel # <<>> /\ run.pc = "read" /\ (StreamKeeps(e) \/ StreamOffers(e) \/ StreamApplies(e) \/ StreamBreaks(e))
  BY DEF StreamEvent
<1>1. e \in Events /\ EventOK(e) /\ Sound(db)
  BY <1>0, HeadEvent, SoundDb
<1>2. CASE StreamKeeps(e) \/ StreamBreaks(e)
  BY <1>2, NoEffect DEF StreamKeeps, StreamBreaks
<1>m. e.kind = "pair" => {e.rec} \in SUBSET Assets
  BY <1>1 DEF EventOK
<1>3. CASE StreamOffers(e)
  <2>1. db' = Mapped(db, {e.rec}) \/ db' = db
    BY <1>3 DEF StreamOffers, Writes
  <2>2. e.kind = "pair"
    BY <1>3 DEF StreamOffers, Fresh
  <2> QED BY <2>1, <2>2, <1>m, <1>1, MapStep, NoEffect, PlainEffect
<1>4. CASE StreamApplies(e)
  <2> DEFINE mapped == IF e.kind = "pair" THEN Mapped(db, {e.rec}) ELSE db
  <2>1. DbStep(db, mapped, {}, {}) /\ DbStep(db, db, {}, {})
    BY <1>1, <1>m, MapStep, DbSame
  <2>2. e.kind \in {"pair", "asset", "bare", "master", "tomb"}
    BY <1>1, <1>4 DEF StreamApplies, Events
  <2>3. db' = ApplySourceState(mapped, e) \/ db' = mapped \/ db' = ApplySourceState(db, e)
    BY <1>4 DEF StreamApplies, Writes
  <2> HIDE DEF mapped
  <2>4. CASE db' = ApplySourceState(mapped, e)
    BY <2>4, <2>1, <2>2, <1>0, <1>1, SourceEffect
  <2>5. CASE db' = ApplySourceState(db, e)
    BY <2>5, <2>1, <2>2, <1>0, <1>1, SourceEffect
  <2> QED BY <2>1, <2>3, <2>4, <2>5, PlainEffect
<1> QED BY <1>0, <1>2, <1>3, <1>4

LEMMA ApplyEffect ==
    ASSUME SafeInv, Apply
    PROVE  Effect /\ db'.members = db.members
<1>1. PICK i \in DOMAIN run.events : /\ Turn("apply", i) /\ ~Fresh(run.events[i])
                                     /\ db' = ApplySourceState(db, run.events[i]) \/ db' = db
  BY DEF Apply, Writes
<1> DEFINE e == run.events[i]
<1>2. e \in Events /\ EventOK(e) /\ e.kind # "err" /\ run.pc = "apply"
  BY <1>1, KeptEvent DEF Turn
<1>3. e.kind \notin {"rel", "bad"}
  BY <1>1 DEF Turn, Left, Concerns
<1>4. e.kind \in {"pair", "asset", "bare", "master", "tomb"}
  BY <1>2, <1>3 DEF Events
<1>5. DbStep(db, db, {}, {})
  BY SoundDb, DbSame
<1> QED BY <1>1, <1>2, <1>4, <1>5, SourceEffect, NoEffect

LEMMA HydrateEffect ==
    ASSUME SafeInv, Hydrate
    PROVE  Effect /\ db'.members = db.members
<1>1. PICK i \in DOMAIN run.events : Turn("hydrate", i) /\ (db' = LookupWrites(db, run.events[i]) \/ db' = db)
  BY DEF Hydrate, Writes
<1> DEFINE e == run.events[i]
           lose == {a \in Assets : ~Exists(a)}
           none == {}
<1>2. EventOK(e) /\ e.kind \in {"asset", "bare"}
  BY <1>1, KeptEvent DEF Turn, Left, Concerns, Half
<1>3. DbStep(db, LookupWrites(db, e), lose, none)
  BY <1>2, SoundDb, LookupStep DEF SafeInv
<1>4. \A a \in lose \cap Assets : LoseOK(a)
  BY DEF LoseOK, Exists
<1>5. none \cap run.purged = {}
  OBVIOUS
<1> HIDE DEF lose, none
<1> QED BY <1>1, <1>3, <1>4, <1>5, EffectOf, NoEffect

LEMMA ClaimEffect ==
    ASSUME SafeInv, NEW a \in Assets, NEW ctx, ctx.stored = run.stored, NEW key, key = StateKey(db, ctx, a),
           NEW d, Sound(d), DbStep(db, d, {}, {}), d.owner = db.owner
    PROVE  /\ key \in {a, MasterOf[a]} /\ key \in Keys
           /\ DbStep(db, Claimed(d, key, a), {}, {})
           /\ key # a => Claimed(d, key, a).owner[key] = a /\ HasRow(Claimed(d, key, a), key)
<1> DEFINE none == {}
           d2 == Claimed(d, key, a)
<1>1. \A k \in ctx.stored : HasRow(d, k)
  BY SoundDb, Types DEF DbStep, DbMove, SafeInv, Runs
<1>2. key = StateKey(d, ctx, a)
  BY DEF StateKey
<1>3. /\ key \in {a, MasterOf[a]} /\ key \in Keys
      /\ DbStep(d, d2, none, none)
      /\ key # a => d2.owner[key] = a /\ HasRow(d2, key)
  BY <1>1, <1>2, ClaimStep
<1>4. Sound(db) /\ DbStep(db, d, none, none)
  BY SoundDb
<1> HIDE DEF none, d2
<1>5. DbStep(db, d2, none, none)
  BY <1>3, <1>4, DbTwice
<1> QED BY <1>3, <1>5 DEF none, d2

LEMMA SelectEffect ==
    ASSUME SafeInv, Select
    PROVE  Effect /\ db'.members = db.members
<1>1. PICK i \in DOMAIN run.events : Turn("select", i) /\ (db' = Claimed(db, StateKey(db, run, run.events[i].rec), run.events[i].rec) \/ db' = db)
  BY DEF Select, Writes
<1>2. run.events[i].rec \in Assets
  BY <1>1, KeptEvent DEF Turn, Left, Concerns, Fresh, EventOK
<1>3. Sound(db) /\ DbStep(db, db, {}, {})
  BY SoundDb, DbSame
<1>4. DbStep(db, Claimed(db, StateKey(db, run, run.events[i].rec), run.events[i].rec), {}, {})
  BY <1>2, <1>3, ClaimEffect
<1> QED BY <1>1, <1>4, PlainEffect, NoEffect

LEMMA ScanEffect ==
    ASSUME SafeInv, ScanMissing
    PROVE  Effect /\ db'.members = db.members
<1>1. PICK a \in run.missing : LET key == StateKey(db, run, a)
                               IN  db' \in {db, Claimed(Mapped(db, {a}), key, a), Claimed(db, key, a), Mapped(db, {a})}
  BY DEF ScanMissing, Writes
<1> DEFINE key == StateKey(db, run, a)
<1>2. a \in Assets /\ {a} \in SUBSET Assets
  BY Types DEF SafeInv, Runs
<1>3. Sound(db) /\ DbStep(db, db, {}, {}) /\ DbStep(db, Mapped(db, {a}), {}, {}) /\ Sound(Mapped(db, {a}))
  BY <1>2, SoundDb, DbSame, MapStep DEF DbStep, DbMove
<1>4. Mapped(db, {a}).owner = db.owner
  BY <1>3 DEF Mapped, Sound, Databases
<1>5. DbStep(db, Claimed(db, key, a), {}, {}) /\ DbStep(db, Claimed(Mapped(db, {a}), key, a), {}, {})
  BY <1>2, <1>3, <1>4, ClaimEffect
<1> QED BY <1>1, <1>3, <1>5, PlainEffect

LEMMA MapEffect ==
    ASSUME SafeInv, MapPairs
    PROVE  Effect /\ db'.members = db.members
<1>1. \E set \in SUBSET Assets : db' = Mapped(db, set)
  <2> DEFINE pairs == {a \in Assets : \E i \in DOMAIN run.events : run.events[i].kind = "pair" /\ run.events[i].rec = a}
  <2>1. db' = Mapped(db, pairs) \/ \E a \in pairs : db' = Mapped(db, pairs \ {a})
    BY DEF MapPairs, Writes
  <2>2. pairs \in SUBSET Assets /\ \A a \in pairs : pairs \ {a} \in SUBSET Assets
    OBVIOUS
  <2> QED BY <2>1, <2>2
<1> QED BY <1>1, SoundDb, MapStep, PlainEffect

LEMMA PlanEffect ==
    ASSUME SafeInv, PlanRow
    PROVE  /\ Effect /\ db'.members = db.members
           /\ run'.unsafe \/ (~run.ready[run.at + 1].trashed => Known(db', run.ready[run.at + 1].asset))
<1> DEFINE i == run.at + 1
           x == run.ready[i]
           lose == IF x.trashed THEN {x.asset} ELSE {}
           wait == {x.asset}
<1>1. run.pc = "plan" /\ i \in DOMAIN run.ready /\ (db' = UpsertSeen(db, x) \/ (db' = db /\ run'.unsafe))
  <2>1. run \in Runs /\ run.ready \in Seq(Photos) /\ run.at \in Nat
    BY Types DEF SafeInv
  <2>2. run.pc = "plan" /\ i \in DOMAIN run.ready
    BY <2>1 DEF PlanRow
  <2>3. db' = UpsertSeen(db, x) \/ (db' = db /\ run' = [[run EXCEPT !.at = i] EXCEPT !.unsafe = TRUE])
    BY DEF PlanRow, Writes
  <2> HIDE DEF i
  <2>4. [[run EXCEPT !.at = i] EXCEPT !.unsafe = TRUE].unsafe
    BY <2>1 DEF Runs
  <2> QED BY <2>2, <2>3, <2>4
<1>2. x \in Photos /\ x \in Elems(run.ready)
  BY <1>1, Types, ElemsAt DEF SafeInv
<1>3. x = [asset |-> x.asset, key |-> x.key, trashed |-> x.trashed] /\ x.asset \in Assets /\ x.trashed \in BOOLEAN
  BY <1>2 DEF Photos
<1>4. x.asset \notin run.purged /\ KeyOK(x.asset, x.key) /\ TrashOK(x.asset, x.trashed)
  BY <1>2 DEF SafeInv, ReadyOK
<1>5. wait \cap run.purged = {} /\ \A a \in lose \cap Assets : LoseOK(a)
  BY <1>4 DEF TrashOK, LoseOK
<1> HIDE DEF x
<1>6. CASE db' = UpsertSeen(db, x)
  <2>1. DbStep(db, db', lose, wait) /\ (~x.trashed => Known(db', x.asset))
    BY <1>3, <1>4, <1>6, SoundDb, UpsertStep DEF KeyOK
  <2> HIDE DEF lose, wait
  <2> QED BY <2>1, <1>5, EffectOf DEF x
<1> QED BY <1>1, <1>6, NoEffect

LEMMA PipelineEffect ==
    ASSUME SafeInv, PipelineTakes
    PROVE  /\ Effect /\ db'.members = db.members /\ pipe # <<>> /\ Head(pipe) \in Elems(pipe)
           /\ StateKey(db, run, Head(pipe).asset) \in Keys
           /\ run'.unsafe \/ (~Head(pipe).trashed => Known(db', Head(pipe).asset))
<1> DEFINE x == Head(pipe)
           a == x.asset
           key == StateKey(db, run, a)
           d1 == Claimed(db, key, a)
           seen == UpsertSeen(d1, [asset |-> a, key |-> key, trashed |-> x.trashed])
           lose == IF x.trashed THEN {a} ELSE {}
           wait == {a}
           none == {}
           S == [asset : Assets, trashed : BOOLEAN]
<1>1. pipe # <<>> /\ (db' \in {seen, Transferred(seen, {key})} \/ (db' = db /\ run'.unsafe))
  BY Types DEF PipelineTakes, Writes, Taken, SafeInv, Runs
<1>2. x \in S /\ x \in Elems(pipe)
  <2>1. pipe \in Seq(S)
    BY Types DEF SafeInv
  <2> HIDE DEF S
  <2> QED BY <2>1, <1>1, HeadTail
<1>3. a \in Assets /\ x.trashed \in BOOLEAN /\ a \notin run.purged /\ TrashOK(a, x.trashed)
  BY <1>2 DEF SafeInv, PipeOK
<1>4. wait \cap run.purged = {} /\ none \cap Assets \subseteq lose /\ none \subseteq wait /\ \A b \in lose \cap Assets : LoseOK(b)
  BY <1>3 DEF TrashOK, LoseOK
<1>5. Sound(db) /\ DbStep(db, db, {}, {})
  BY SoundDb, DbSame
<1> HIDE DEF x, a
<1>6. /\ key \in {a, MasterOf[a]} /\ key \in Keys /\ DbStep(db, d1, none, none)
      /\ key # a => d1.owner[key] = a /\ HasRow(d1, key)
  BY <1>3, <1>5, ClaimEffect
<1>7. Sound(d1)
  BY <1>6 DEF DbStep, DbMove
<1> HIDE DEF key, d1
<1>8. DbStep(d1, seen, lose, wait) /\ (~x.trashed => Known(seen, a))
  BY <1>3, <1>6, <1>7, UpsertStep
<1>9. Sound(seen)
  BY <1>8 DEF DbStep, DbMove
<1> HIDE DEF seen
<1>10. DbStep(seen, Transferred(seen, {key}), none, none)
  BY <1>9, TransferStep
<1>11. ~x.trashed => Known(Transferred(seen, {key}), a)
  BY <1>3, <1>8, <1>10 DEF DbStep, DbMove, none
<1> HIDE DEF lose, wait, none
<1>12. DbStep(db, d1, lose, wait) /\ DbStep(seen, Transferred(seen, {key}), lose, wait)
  BY <1>4, <1>6, <1>10, DbWider
<1>13. DbStep(db, seen, lose, wait)
  BY <1>5, <1>8, <1>12, DbTwice
<1>14. DbStep(db, Transferred(seen, {key}), lose, wait)
  BY <1>5, <1>12, <1>13, DbTwice
<1>15. CASE db' \in {seen, Transferred(seen, {key})}
  BY <1>15, <1>1, <1>2, <1>4, <1>6, <1>8, <1>11, <1>13, <1>14, EffectOf DEF x, a, key
<1>16. CASE db' = db /\ run'.unsafe
  BY <1>16, <1>1, <1>2, <1>6, NoEffect DEF x, a, key
<1> QED BY <1>1, <1>15, <1>16

LEMMA RelateEffect ==
    ASSUME SafeInv, Relate
    PROVE  Effect
<1>1. PICK i \in DOMAIN run.events : Turn("relate", i) /\ db' \in {db, MembersAfter(db, run.events[i])}
  BY DEF Relate, Writes
<1> DEFINE e == run.events[i]
           d2 == MembersAfter(db, e)
           none == {}
<1>2. e.rec \in Assets /\ Sound(db)
  BY <1>1, KeptEvent, SoundDb DEF Turn, Left, Concerns, EventOK
<1>3. /\ d2 \in Databases /\ d2.rows = db.rows /\ d2.owner = db.owner
      /\ d2.snapshot = db.snapshot /\ d2.token = db.token
  BY <1>2 DEF Sound, Databases, MembersAfter
<1> HIDE DEF d2
<1>4. Sound(d2)
  BY <1>2, <1>3 DEF Sound, HasRow
<1>5. \A a \in Assets : Known(db, a) => Known(d2, a)
  BY <1>3 DEF Known
<1>6. DbMove(db, d2, none, none)
  BY <1>3, <1>4, <1>5 DEF DbMove, HasRow, Waiting
<1>7. none \cap run.purged = {} /\ \A a \in none \cap Assets : LoseOK(a)
  OBVIOUS
<1> HIDE DEF none
<1>8. CASE db' = d2
  BY <1>6, <1>7, <1>8 DEF Effect
<1> QED BY <1>1, <1>8, NoEffect DEF d2
-----------------------------------------------------------------------------
(* The steps in the middle of a run: they keep its context, and the type. *)

MidStep ==
    \/ CollectEvent \/ StreamEvent \/ BreakAtStop \/ EndOfDelta \/ ReceiveToken \/ MapPairs \/ NextPhase
    \/ Hydrate \/ LookupFails \/ OfferHydrated \/ Select \/ ScanMissing \/ ScanFails \/ Relate \/ Route
    \/ Apply \/ PlanRow \/ PipelineTakes

(* They change neither the zone nor the configuration, and forget no failure. *)
MidRun ==
    /\ run' \in Runs /\ run'.purged = run.purged /\ run'.stored = run.stored /\ (run.unsafe => run'.unsafe)
    /\ run'.token = run.token \/ ReceiveToken
MidFrame ==
    /\ MidRun /\ zone' = zone /\ cfg' = cfg /\ stopped' = stopped
    /\ mishaps' = mishaps \/ (Spend /\ mishaps < MaxMishaps)

LEMMA WritesSpend ==
    ASSUME NEW good \in BOOLEAN, NEW bad \in BOOLEAN, Writes(good, bad)
    PROVE  /\ good \/ bad
           /\ mishaps' = mishaps \/ (Spend /\ mishaps < MaxMishaps)
  BY DEF Writes, Mishap

LEMMA CollectFrame ==
    ASSUME SafeInv, CollectEvent
    PROVE  MidFrame
<1> DEFINE e == Head(channel)
<1>1. run \in Runs /\ e \in Events
  BY Types, HeadEvent DEF SafeInv, CollectEvent
<1>2. run' = [run EXCEPT !.pc = "failed"] \/ run' = [run EXCEPT !.events = Append(run.events, e), !.unsafe = run.unsafe \/ e.kind = "bad"]
  BY <1>1 DEF CollectEvent, Runs
<1>3. Append(run.events, e) \in Seq(Events) /\ (run.unsafe \/ e.kind = "bad") \in BOOLEAN
  BY <1>1 DEF Runs
<1> HIDE DEF e
<1>4. MidRun
  BY <1>1, <1>2, <1>3 DEF MidRun, Runs
<1> QED BY <1>4 DEF MidFrame, CollectEvent

LEMMA StreamFrame ==
    ASSUME SafeInv, StreamEvent
    PROVE  MidFrame
<1> DEFINE e == Head(channel)
<1>1. run \in Runs /\ e \in Events /\ Append(run.events, e) \in Seq(Events)
  BY Types, HeadEvent DEF SafeInv, StreamEvent
<1>2. StreamKeeps(e) \/ StreamOffers(e) \/ StreamApplies(e) \/ StreamBreaks(e)
  BY DEF StreamEvent
<1>3. \/ run' = run \/ run' = [run EXCEPT !.pc = "failed"] \/ run' = [run EXCEPT !.unsafe = TRUE]
      \/ run' = [run EXCEPT !.events = Append(run.events, e)]
  BY <1>1, <1>2 DEF StreamKeeps, StreamOffers, StreamApplies, StreamBreaks, Writes
<1>4. mishaps' = mishaps \/ (Spend /\ mishaps < MaxMishaps)
  BY <1>2 DEF StreamKeeps, StreamOffers, StreamApplies, StreamBreaks, Writes, Mishap
<1> HIDE DEF e
<1>5. MidRun
  BY <1>1, <1>3 DEF MidRun, Runs
<1> QED BY <1>4, <1>5 DEF MidFrame, StreamEvent

LEMMA PassFrame ==
    ASSUME SafeInv, BreakAtStop \/ EndOfDelta \/ ReceiveToken
    PROVE  MidFrame
<1>1. run \in Runs
  BY Types DEF SafeInv
<1>2. CASE BreakAtStop \/ EndOfDelta
  <2>1. \E pc \in {"hydrate", "await", "report"} : run' = [run EXCEPT !.pc = pc]
    BY <1>2 DEF BreakAtStop, EndOfDelta
  <2>2. MidRun
    BY <1>1, <2>1 DEF MidRun, Runs
  <2> QED BY <1>2, <2>2 DEF MidFrame, BreakAtStop, EndOfDelta
<1>3. CASE ReceiveToken
  <2>1. prod.token \in Nat \cup {Null}
    BY Types DEF SafeInv, Producers
  <2>2. \E pc \in {"report", "map"} : run' = [run EXCEPT !.pc = pc, !.token = prod.token]
    BY <1>3 DEF ReceiveToken
  <2>3. MidRun
    BY <1>1, <1>3, <2>1, <2>2 DEF MidRun, Runs
  <2> QED BY <1>3, <2>3 DEF MidFrame, ReceiveToken
<1> QED BY <1>2, <1>3

LEMMA MapFrame ==
    ASSUME SafeInv, MapPairs
    PROVE  MidFrame
<1> DEFINE pairs == {a \in Assets : \E i \in DOMAIN run.events : run.events[i].kind = "pair" /\ run.events[i].rec = a}
<1>1. run \in Runs /\ pairs \in SUBSET Assets
  BY Types DEF SafeInv
<1>2. /\ \/ run' = [run EXCEPT !.pc = "hydrate", !.known = pairs]
         \/ run' = [run EXCEPT !.pc = "hydrate", !.known = pairs, !.unsafe = TRUE]
      /\ mishaps' = mishaps \/ (Spend /\ mishaps < MaxMishaps)
  BY <1>1 DEF MapPairs, Writes, Mishap, Runs
<1> HIDE DEF pairs
<1>3. MidRun
  BY <1>1, <1>2 DEF MidRun, Runs
<1> QED BY <1>2, <1>3 DEF MidFrame, MapPairs

LEMMA CappedSeq ==
    ASSUME DeltaTypeOK
    PROVE  /\ Capped(run.ready) \in Seq(Photos) /\ Elems(Capped(run.ready)) \subseteq Elems(run.ready)
           /\ DOMAIN Capped(run.ready) \subseteq DOMAIN run.ready
           /\ \A i \in DOMAIN Capped(run.ready) : Capped(run.ready)[i] = run.ready[i]
           /\ (cfg.recent = Null \/ Len(run.ready) <= cfg.recent) => Capped(run.ready) = run.ready
<1>1. run.ready \in Seq(Photos) /\ cfg.recent \in Nat \cup {Null}
  BY Types
<1>2. CASE cfg.recent # Null /\ Len(run.ready) > cfg.recent
  <2>1. Capped(run.ready) = SubSeq(run.ready, 1, cfg.recent)
    BY <1>2 DEF Capped
  <2>2. cfg.recent \in Nat /\ DOMAIN run.ready = 1 .. Len(run.ready) /\ Len(run.ready) \in Nat /\ cfg.recent <= Len(run.ready)
    BY <1>1, <1>2
  <2>3. /\ SubSeq(run.ready, 1, cfg.recent) \in Seq(Photos)
        /\ DOMAIN SubSeq(run.ready, 1, cfg.recent) = 1 .. cfg.recent
        /\ \A i \in 1 .. cfg.recent : SubSeq(run.ready, 1, cfg.recent)[i] = run.ready[i]
    BY <1>1, <2>2
  <2>4. 1 .. cfg.recent \subseteq DOMAIN run.ready
    BY <2>2
  <2>5. Elems(Capped(run.ready)) \subseteq Elems(run.ready)
    BY <2>1, <2>3, <2>4 DEF Elems
  <2>6. ~(cfg.recent = Null \/ Len(run.ready) <= cfg.recent)
    BY <1>2, <2>2
  <2> QED BY <2>1, <2>3, <2>4, <2>5, <2>6
<1>3. CASE ~(cfg.recent # Null /\ Len(run.ready) > cfg.recent)
  BY <1>1, <1>3 DEF Capped
<1> QED BY <1>2, <1>3

LEMMA PhaseFrame ==
    ASSUME SafeInv, NextPhase
    PROVE  MidFrame
<1>1. run \in Runs /\ Capped(run.ready) \in Seq(Photos) /\ Missing \in SUBSET Assets
  BY Types, CappedSeq DEF SafeInv, Missing
<1>2. \/ run' = [run EXCEPT !.pc = "scan", !.at = 0, !.missing = Missing]
      \/ run' = [run EXCEPT !.pc = "plan", !.at = 0, !.ready = Capped(run.ready)]
      \/ \E pc \in {"offer", "select", "relate", "await", "apply", "report"} : run' = [run EXCEPT !.pc = pc, !.at = 0]
  BY <1>1 DEF NextPhase, Runs
<1>3. MidRun
  <2>1. CASE run' = [run EXCEPT !.pc = "scan", !.at = 0, !.missing = Missing]
    BY <1>1, <2>1 DEF MidRun, Runs
  <2>2. CASE run' = [run EXCEPT !.pc = "plan", !.at = 0, !.ready = Capped(run.ready)]
    BY <1>1, <2>2 DEF MidRun, Runs
  <2>3. CASE \E pc \in {"offer", "select", "relate", "await", "apply", "report"} : run' = [run EXCEPT !.pc = pc, !.at = 0]
    <3>1. PICK pc \in {"offer", "select", "relate", "await", "apply", "report"} : run' = [run EXCEPT !.pc = pc, !.at = 0]
      BY <2>3
    <3>2. pc \in {"idle", "backfill", "read", "await", "map", "hydrate", "offer", "select",
                  "scan", "relate", "apply", "plan", "report", "failed"}
      OBVIOUS
    <3> QED BY <1>1, <3>1, <3>2 DEF MidRun, Runs
  <2> QED BY <1>2, <2>1, <2>2, <2>3
<1> QED BY <1>3 DEF MidFrame, NextPhase

LEMMA HydrateFrame ==
    ASSUME SafeInv, Hydrate
    PROVE  /\ MidFrame
           /\ \E i \in DOMAIN run.events :
                 /\ Turn("hydrate", i) /\ run'.at = i /\ run'.pc = run.pc
                 /\ run'.events \in {run.events, [run.events EXCEPT ![i] = Hydrated(run.events[i])]}
                 /\ Hydrated(run.events[i]) \in Events
                 /\ ~run'.unsafe => db' = LookupWrites(db, run.events[i]) /\ run'.events = [run.events EXCEPT ![i] = Hydrated(run.events[i])]
                 /\ run'.known = run.known /\ run'.ready = run.ready /\ run'.missing = run.missing
<1>1. run \in Runs /\ run.events \in Seq(Events)
  BY Types DEF SafeInv
<1>2. PICK i \in DOMAIN run.events :
         /\ Turn("hydrate", i) /\ (mishaps' = mishaps \/ (Spend /\ mishaps < MaxMishaps))
         /\ \/ run' = [run EXCEPT !.at = i, !.events[i] = Hydrated(run.events[i])] /\ db' = LookupWrites(db, run.events[i])
            \/ run' = [run EXCEPT !.at = i, !.events[i] = Hydrated(run.events[i]), !.unsafe = TRUE]
            \/ run' = [run EXCEPT !.at = i, !.unsafe = TRUE]
  BY <1>1 DEF Hydrate, Writes, Mishap, Runs
<1> DEFINE e == run.events[i]
           events == [run.events EXCEPT ![i] = Hydrated(e)]
<1>3. e \in Events /\ e.rec \in Assets /\ i \in Nat
  BY <1>1, <1>2, KeptEvent DEF Turn, Left, Concerns, Half, EventOK
<1>4. Event("pair", e.rec, "created", e.rec) \in Events
  BY <1>3, EventTypes DEF Reasons
<1>5. Hydrated(e) \in Events
  BY <1>3, <1>4 DEF Hydrated, Events
<1>6. events \in Seq(Events)
  BY <1>1, <1>5
<1>7. \/ run' = [run EXCEPT !.at = i, !.events = events] /\ db' = LookupWrites(db, e)
      \/ run' = [run EXCEPT !.at = i, !.events = events, !.unsafe = TRUE]
      \/ run' = [run EXCEPT !.at = i, !.unsafe = TRUE]
  BY <1>1, <1>2 DEF Runs
<1> HIDE DEF e, events
<1>a. ASSUME run' = [run EXCEPT !.at = i, !.events = events] /\ db' = LookupWrites(db, e)
     PROVE  /\ MidRun /\ run'.at = i /\ run'.pc = run.pc /\ run'.events \in {run.events, events}
            /\ run'.known = run.known /\ run'.ready = run.ready /\ run'.missing = run.missing
            /\ ~run'.unsafe => db' = LookupWrites(db, e) /\ run'.events = events
  BY <1>1, <1>3, <1>6, <1>a DEF MidRun, Runs
<1>b. ASSUME run' = [run EXCEPT !.at = i, !.events = events, !.unsafe = TRUE]
     PROVE  /\ MidRun /\ run'.at = i /\ run'.pc = run.pc /\ run'.events \in {run.events, events}
            /\ run'.known = run.known /\ run'.ready = run.ready /\ run'.missing = run.missing
            /\ ~run'.unsafe => db' = LookupWrites(db, e) /\ run'.events = events
  BY <1>1, <1>3, <1>6, <1>b DEF MidRun, Runs
<1>c. ASSUME run' = [run EXCEPT !.at = i, !.unsafe = TRUE]
     PROVE  /\ MidRun /\ run'.at = i /\ run'.pc = run.pc /\ run'.events \in {run.events, events}
            /\ run'.known = run.known /\ run'.ready = run.ready /\ run'.missing = run.missing
            /\ ~run'.unsafe => db' = LookupWrites(db, e) /\ run'.events = events
  BY <1>1, <1>3, <1>c DEF MidRun, Runs
<1>8. /\ MidRun /\ run'.at = i /\ run'.pc = run.pc /\ run'.events \in {run.events, events}
      /\ run'.known = run.known /\ run'.ready = run.ready /\ run'.missing = run.missing
      /\ ~run'.unsafe => db' = LookupWrites(db, e) /\ run'.events = events
  BY <1>7, <1>a, <1>b, <1>c
<1> QED BY <1>2, <1>5, <1>8 DEF MidFrame, Hydrate, e, events

LEMMA FailFrame ==
    ASSUME SafeInv, LookupFails \/ ScanFails
    PROVE  MidFrame /\ run'.unsafe
<1>1. run \in Runs /\ Len(run.events) \in Nat
  BY Types DEF SafeInv
<1>2. MidRun /\ run'.unsafe
  BY <1>1 DEF LookupFails, ScanFails, MidRun, Runs
<1> QED BY <1>2 DEF MidFrame, LookupFails, ScanFails, Mishap

LEMMA IndexFrame ==
    ASSUME SafeInv, OfferHydrated \/ Route \/ Relate \/ Apply
    PROVE  /\ MidFrame
           /\ \E i \in DOMAIN run.events :
                 /\ Turn(run.pc, i) /\ run'.at = i /\ run'.pc = run.pc /\ run'.events = run.events
                 /\ run'.known = run.known /\ run'.missing = run.missing
                 /\ run'.ready = run.ready \/ (Route /\ run'.ready = Append(run.ready, [asset |-> run.events[i].rec,
                           key |-> run.events[i].id, trashed |-> run.events[i].trashed]))
<1>1. run \in Runs /\ run.events \in Seq(Events) /\ run.ready \in Seq(Photos) /\ run.unsafe \in BOOLEAN
  BY Types DEF SafeInv
<1>2. CASE OfferHydrated
  <2>1. PICK i \in DOMAIN run.events : Turn("offer", i) /\ run' = [run EXCEPT !.at = i]
    BY <1>2 DEF OfferHydrated
  <2>2. i \in Nat
    BY <1>1
  <2>3. MidRun /\ run'.at = i /\ run'.pc = run.pc /\ run'.events = run.events /\ run'.known = run.known
        /\ run'.ready = run.ready /\ run'.missing = run.missing
    BY <1>1, <2>1, <2>2 DEF MidRun, Runs
  <2> QED BY <1>2, <2>1, <2>3 DEF MidFrame, OfferHydrated, Turn
<1>3. CASE Route
  <2>1. PICK i \in DOMAIN run.events :
           LET e == run.events[i]
               item == [asset |-> e.rec, key |-> e.id, trashed |-> e.trashed]
               next == [run EXCEPT !.at = i]
           IN  /\ Turn("apply", i) /\ Fresh(e)
               /\ Writes(run' = IF Routed(e.rec) THEN [next EXCEPT !.ready = Append(@, item)] ELSE next,
                         run' = [next EXCEPT !.unsafe = TRUE])
    BY <1>3 DEF Route
  <2> DEFINE e == run.events[i]
             item == [asset |-> e.rec, key |-> e.id, trashed |-> e.trashed]
             ready == Append(run.ready, item)
  <2>2. i \in Nat /\ e \in Events /\ e.rec \in Assets /\ e.id \in Keys
    BY <1>1, <2>1, KeptEvent, Consts DEF Fresh, EventOK
  <2>3. item \in Photos
    BY <2>2 DEF Photos, Events
  <2>4. ready \in Seq(Photos)
    BY <1>1, <2>3
  <2>5. /\ mishaps' = mishaps \/ (Spend /\ mishaps < MaxMishaps)
        /\ \/ run' = [run EXCEPT !.at = i] \/ run' = [run EXCEPT !.at = i, !.unsafe = TRUE]
           \/ run' = [run EXCEPT !.at = i, !.ready = ready]
    BY <1>1, <2>1 DEF Writes, Mishap, Runs
  <2> HIDE DEF ready
  <2>6. MidRun /\ run'.at = i /\ run'.pc = run.pc /\ run'.events = run.events /\ run'.known = run.known
        /\ (run'.ready = run.ready \/ run'.ready = ready) /\ run'.missing = run.missing
    <3>1. CASE run' = [run EXCEPT !.at = i] \/ run' = [run EXCEPT !.at = i, !.unsafe = TRUE]
      BY <1>1, <2>2, <3>1 DEF MidRun, Runs
    <3>2. CASE run' = [run EXCEPT !.at = i, !.ready = ready]
      BY <1>1, <2>2, <2>4, <3>2 DEF MidRun, Runs
    <3> QED BY <2>5, <3>1, <3>2
  <2> QED BY <1>3, <2>1, <2>5, <2>6 DEF MidFrame, Route, Turn, ready
<1>4. CASE Relate
  <2>1. PICK i \in DOMAIN run.events :
           LET e == run.events[i]
               next == [run EXCEPT !.at = i, !.unsafe = @ \/ (cfg.album /\ UnknownAsset(e))]
           IN  /\ Turn("relate", i)
               /\ Writes(run' = next /\ db' = IF cfg.album THEN MembersAfter(db, e) ELSE db,
                         run' = [next EXCEPT !.unsafe = TRUE] /\ UNCHANGED db)
    BY <1>4 DEF Relate
  <2> DEFINE unsafe == run.unsafe \/ (cfg.album /\ UnknownAsset(run.events[i]))
  <2>2. i \in Nat /\ unsafe \in BOOLEAN /\ (run.unsafe => unsafe)
    BY <1>1
  <2>5. /\ mishaps' = mishaps \/ (Spend /\ mishaps < MaxMishaps)
        /\ run' = [run EXCEPT !.at = i, !.unsafe = unsafe] \/ run' = [run EXCEPT !.at = i, !.unsafe = TRUE]
    BY <1>1, <2>1 DEF Writes, Mishap, Runs
  <2> HIDE DEF unsafe
  <2>6. MidRun /\ run'.at = i /\ run'.pc = run.pc /\ run'.events = run.events /\ run'.known = run.known
        /\ run'.ready = run.ready /\ run'.missing = run.missing
    BY <1>1, <2>2, <2>5 DEF MidRun, Runs
  <2> QED BY <1>4, <2>1, <2>5, <2>6 DEF MidFrame, Relate, Turn
<1>5. CASE Apply
  <2>1. PICK i \in DOMAIN run.events :
           /\ Turn("apply", i) /\ (mishaps' = mishaps \/ (Spend /\ mishaps < MaxMishaps))
           /\ run' = [run EXCEPT !.at = i] \/ run' = [run EXCEPT !.at = i, !.unsafe = TRUE]
    BY <1>1, <1>5 DEF Apply, Writes, Mishap, Runs
  <2>2. i \in Nat
    BY <1>1
  <2>6. MidRun /\ run'.at = i /\ run'.pc = run.pc /\ run'.events = run.events /\ run'.known = run.known
        /\ run'.ready = run.ready /\ run'.missing = run.missing
    BY <1>1, <2>1, <2>2 DEF MidRun, Runs
  <2> QED BY <1>5, <2>1, <2>6 DEF MidFrame, Apply, Turn
<1> QED BY <1>2, <1>3, <1>4, <1>5

LEMMA SelectFrame ==
    ASSUME SafeInv, Select
    PROVE  /\ MidFrame
           /\ \E i \in DOMAIN run.events :
                 LET e == run.events[i]
                     key == StateKey(db, run, e.rec)
                 IN  /\ Turn("select", i) /\ run'.at = i /\ run'.pc = run.pc /\ e.rec \in Assets /\ key \in Keys
                     /\ run'.ready = run.ready /\ run'.missing = run.missing
                     /\ \/ /\ run'.events = [run.events EXCEPT ![i] = [e EXCEPT !.id = key]]
                           /\ run'.known = run.known \cup {e.rec} /\ db' = Claimed(db, key, e.rec)
                        \/ /\ run'.events = [run.events EXCEPT ![i] = [e EXCEPT !.kind = "asset"]]
                           /\ run'.known = run.known /\ db' = db /\ run'.unsafe
<1>1. run \in Runs /\ run.events \in Seq(Events) /\ run.claimed \in SUBSET Masters
  BY Types DEF SafeInv, Runs
<1>2. PICK i \in DOMAIN run.events :
         LET e == run.events[i]
             key == StateKey(db, run, e.rec)
             next == [Taken(run, key) EXCEPT !.at = i]
         IN  /\ Turn("select", i)
             /\ Writes(/\ run' = [next EXCEPT !.events[i].id = key, !.known = @ \cup {e.rec}]
                       /\ db' = Claimed(db, key, e.rec),
                       /\ key # e.rec /\ UNCHANGED db
                       /\ run' = [next EXCEPT !.events[i].kind = "asset", !.unsafe = TRUE])
  BY DEF Select
<1> DEFINE e == run.events[i]
           key == StateKey(db, run, e.rec)
           claimed == run.claimed \cup ({key} \cap Masters)
           known == run.known \cup {e.rec}
           named == [run.events EXCEPT ![i] = [e EXCEPT !.id = key]]
           lost == [run.events EXCEPT ![i] = [e EXCEPT !.kind = "asset"]]
<1>3. e \in Events /\ e.rec \in Assets /\ i \in Nat
  BY <1>1, <1>2, KeptEvent DEF Turn, Left, Concerns, Fresh, EventOK
<1>4. Sound(db) /\ DbStep(db, db, {}, {})
  BY SoundDb, DbSame
<1>5. key \in Keys /\ key \in Names
  BY <1>3, <1>4, ClaimEffect, EventTypes
<1>6. /\ mishaps' = mishaps \/ (Spend /\ mishaps < MaxMishaps)
      /\ \/ run' = [run EXCEPT !.claimed = claimed, !.at = i, !.events = named, !.known = known] /\ db' = Claimed(db, key, e.rec)
         \/ run' = [run EXCEPT !.claimed = claimed, !.at = i, !.events = lost, !.unsafe = TRUE] /\ db' = db
  BY <1>1, <1>2 DEF Writes, Mishap, Runs, Taken
<1>7. [e EXCEPT !.id = key] \in Events /\ [e EXCEPT !.kind = "asset"] \in Events
  BY <1>3, <1>5 DEF Events
<1>8. named \in Seq(Events) /\ lost \in Seq(Events)
  BY <1>1, <1>7
<1>9. claimed \in SUBSET Masters /\ known \in SUBSET Assets
  BY <1>1, <1>3 DEF Runs
<1> HIDE DEF e, key, claimed, known, named, lost
<1>10. CASE run' = [run EXCEPT !.claimed = claimed, !.at = i, !.events = named, !.known = known] /\ db' = Claimed(db, key, e.rec)
  <2>1. MidRun /\ run'.at = i /\ run'.pc = run.pc /\ run'.ready = run.ready /\ run'.missing = run.missing
        /\ run'.events = named /\ run'.known = known
    BY <1>1, <1>3, <1>8, <1>9, <1>10 DEF MidRun, Runs
  <2> QED BY <1>2, <1>3, <1>5, <1>6, <1>10, <2>1 DEF MidFrame, Select, e, key, known, named
<1>11. CASE run' = [run EXCEPT !.claimed = claimed, !.at = i, !.events = lost, !.unsafe = TRUE] /\ db' = db
  <2>1. MidRun /\ run'.at = i /\ run'.pc = run.pc /\ run'.ready = run.ready /\ run'.missing = run.missing
        /\ run'.events = lost /\ run'.known = run.known /\ run'.unsafe
    BY <1>1, <1>3, <1>8, <1>9, <1>11 DEF MidRun, Runs
  <2> QED BY <1>2, <1>3, <1>5, <1>6, <1>11, <2>1 DEF MidFrame, Select, e, key, lost
<1> QED BY <1>6, <1>10, <1>11

LEMMA ScanFrame ==
    ASSUME SafeInv, ScanMissing
    PROVE  /\ MidFrame
           /\ \E a \in run.missing :
                 LET key == StateKey(db, run, a)
                     item == [asset |-> a, key |-> key, trashed |-> (zone[a].st = "trashed")]
                 IN  /\ run.pc = "scan" /\ run'.pc = "scan" /\ run'.at = run.at /\ run'.events = run.events
                     /\ a \in Assets /\ key \in Keys /\ run'.missing = run.missing \ {a}
                     /\ \/ ~(Exists(a) /\ Exists(MasterOf[a])) /\ run'.ready = run.ready /\ db' = db
                        \/ /\ Exists(a) /\ run'.ready = Append(run.ready, item) /\ item \in Photos
                           /\ db' \in {Claimed(Mapped(db, {a}), key, a), Claimed(db, key, a)}
                        \/ run'.ready = run.ready /\ run'.unsafe
<1>1. run \in Runs /\ run.ready \in Seq(Photos) /\ run.claimed \in SUBSET Masters /\ run.missing \in SUBSET Assets
  BY Types DEF SafeInv, Runs
<1>2. PICK a \in run.missing :
          LET whole == Exists(a) /\ Exists(MasterOf[a])
              key == StateKey(db, run, a)
              item == [asset |-> a, key |-> key, trashed |-> (zone[a].st = "trashed")]
              dropped == [run EXCEPT !.missing = @ \ {a}]
              found == [Taken(dropped, key) EXCEPT !.known = @ \cup {a}, !.ready = Append(@, item)]
          IN  /\ run.pc = "scan"
              /\ \/ ~whole /\ run' = dropped /\ UNCHANGED <<db, mishaps>>
                 \/ /\ whole
                    /\ Writes(run' = found /\ db' = Claimed(Mapped(db, {a}), key, a),
                              \/ run' = [found EXCEPT !.unsafe = TRUE] /\ db' = Claimed(db, key, a)
                              \/ /\ key # a /\ db' = Mapped(db, {a})
                                 /\ run' = [Taken(dropped, key) EXCEPT !.unsafe = TRUE])
  BY DEF ScanMissing
<1> DEFINE key == StateKey(db, run, a)
           item == [asset |-> a, key |-> key, trashed |-> (zone[a].st = "trashed")]
           claimed == run.claimed \cup ({key} \cap Masters)
           known == run.known \cup {a}
           missing == run.missing \ {a}
           ready == Append(run.ready, item)
<1>3. a \in Assets
  BY <1>1
<1>4. Sound(db) /\ DbStep(db, db, {}, {})
  BY SoundDb, DbSame
<1>5. key \in Keys
  BY <1>3, <1>4, ClaimEffect
<1>6. item \in Photos
  BY <1>3, <1>5 DEF Photos
<1>7. ready \in Seq(Photos)
  BY <1>1, <1>6
<1>8. claimed \in SUBSET Masters /\ known \in SUBSET Assets /\ missing \in SUBSET Assets
  BY <1>1, <1>3 DEF Runs
<1>9. /\ mishaps' = mishaps \/ (Spend /\ mishaps < MaxMishaps)
      /\ \/ ~(Exists(a) /\ Exists(MasterOf[a])) /\ run' = [run EXCEPT !.missing = missing] /\ db' = db
         \/ /\ Exists(a) /\ db' = Claimed(Mapped(db, {a}), key, a)
            /\ run' = [run EXCEPT !.missing = missing, !.claimed = claimed, !.known = known, !.ready = ready]
         \/ /\ Exists(a) /\ db' = Claimed(db, key, a)
            /\ run' = [run EXCEPT !.missing = missing, !.claimed = claimed, !.known = known, !.ready = ready, !.unsafe = TRUE]
         \/ run' = [run EXCEPT !.missing = missing, !.claimed = claimed, !.unsafe = TRUE]
  BY <1>1, <1>2 DEF Writes, Mishap, Runs, Taken
<1> HIDE DEF key, item, claimed, known, missing, ready
<1>10. CASE ~(Exists(a) /\ Exists(MasterOf[a])) /\ run' = [run EXCEPT !.missing = missing] /\ db' = db
  <2>1. MidRun /\ run'.pc = run.pc /\ run'.at = run.at /\ run'.events = run.events /\ run'.missing = missing /\ run'.ready = run.ready
    BY <1>1, <1>8, <1>10 DEF MidRun, Runs
  <2> QED BY <1>2, <1>3, <1>5, <1>9, <1>10, <2>1 DEF MidFrame, ScanMissing, key, missing
<1>11. CASE /\ Exists(a) /\ db' \in {Claimed(Mapped(db, {a}), key, a), Claimed(db, key, a)}
            /\ \/ run' = [run EXCEPT !.missing = missing, !.claimed = claimed, !.known = known, !.ready = ready]
               \/ run' = [run EXCEPT !.missing = missing, !.claimed = claimed, !.known = known, !.ready = ready, !.unsafe = TRUE]
  <2>1. MidRun /\ run'.pc = run.pc /\ run'.at = run.at /\ run'.events = run.events /\ run'.missing = missing /\ run'.ready = ready
    <3>1. CASE run' = [run EXCEPT !.missing = missing, !.claimed = claimed, !.known = known, !.ready = ready]
      BY <1>1, <1>7, <1>8, <3>1 DEF MidRun, Runs
    <3>2. CASE run' = [run EXCEPT !.missing = missing, !.claimed = claimed, !.known = known, !.ready = ready, !.unsafe = TRUE]
      BY <1>1, <1>7, <1>8, <3>2 DEF MidRun, Runs
    <3> QED BY <1>11, <3>1, <3>2
  <2> QED BY <1>2, <1>3, <1>5, <1>6, <1>9, <1>11, <2>1 DEF MidFrame, ScanMissing, key, missing, ready, item
<1>12. CASE run' = [run EXCEPT !.missing = missing, !.claimed = claimed, !.unsafe = TRUE]
  <2>1. MidRun /\ run'.pc = run.pc /\ run'.at = run.at /\ run'.events = run.events /\ run'.missing = missing /\ run'.ready = run.ready
        /\ run'.unsafe
    BY <1>1, <1>8, <1>12 DEF MidRun, Runs
  <2> QED BY <1>2, <1>3, <1>5, <1>9, <1>12, <2>1 DEF MidFrame, ScanMissing, key, missing
<1> QED BY <1>9, <1>10, <1>11, <1>12

LEMMA PlanFrame ==
    ASSUME SafeInv, PlanRow
    PROVE  /\ MidFrame /\ run.pc = "plan" /\ run'.pc = "plan" /\ run'.at = run.at + 1 /\ run.at + 1 \in DOMAIN run.ready
           /\ run'.ready = run.ready /\ run'.events = run.events /\ run'.known = run.known /\ run'.missing = run.missing
           /\ db' = db => run'.unsafe \/ db' = UpsertSeen(db, run.ready[run.at + 1])
<1>1. run \in Runs /\ run.at + 1 \in Nat /\ run.ready \in Seq(Photos) /\ run.at \in Nat
  BY Types DEF SafeInv
<1>2. /\ run.pc = "plan" /\ run.at + 1 <= Len(run.ready)
      /\ mishaps' = mishaps \/ (Spend /\ mishaps < MaxMishaps)
      /\ \/ run' = [run EXCEPT !.at = run.at + 1] /\ db' = UpsertSeen(db, run.ready[run.at + 1])
         \/ run' = [run EXCEPT !.at = run.at + 1, !.unsafe = TRUE]
  BY <1>1 DEF PlanRow, Writes, Mishap, Runs
<1>3. run.at + 1 \in DOMAIN run.ready
  BY <1>1, <1>2
<1>4. MidRun /\ run'.pc = run.pc /\ run'.at = run.at + 1 /\ run'.ready = run.ready /\ run'.events = run.events
      /\ run'.known = run.known /\ run'.missing = run.missing /\ (run'.unsafe \/ db' = UpsertSeen(db, run.ready[run.at + 1]))
  BY <1>1, <1>2 DEF MidRun, Runs
<1> QED BY <1>2, <1>3, <1>4 DEF MidFrame, PlanRow

LEMMA PipeFrame ==
    ASSUME SafeInv, PipelineTakes
    PROVE  /\ MidFrame /\ run'.pc = run.pc /\ run'.at = run.at /\ run'.ready = run.ready /\ run'.events = run.events
           /\ run'.known = run.known /\ run'.missing = run.missing /\ pipe' = Tail(pipe)
<1> DEFINE key == StateKey(db, run, Head(pipe).asset)
           claimed == run.claimed \cup ({key} \cap Masters)
<1>1. run \in Runs /\ claimed \in SUBSET Masters
  BY Types DEF SafeInv, Runs
<1>2. /\ mishaps' = mishaps \/ (Spend /\ mishaps < MaxMishaps)
      /\ run' = [run EXCEPT !.claimed = claimed] \/ run' = [run EXCEPT !.claimed = claimed, !.unsafe = TRUE]
  BY <1>1 DEF PipelineTakes, Writes, Mishap, Runs, Taken
<1> HIDE DEF claimed
<1>3. MidRun /\ run'.pc = run.pc /\ run'.at = run.at /\ run'.ready = run.ready /\ run'.events = run.events
           /\ run'.known = run.known /\ run'.missing = run.missing
  BY <1>1, <1>2 DEF MidRun, Runs
<1> QED BY <1>2, <1>3 DEF MidFrame, PipelineTakes
-----------------------------------------------------------------------------
(* Every step keeps the types. *)

LEMMA Mid ==
    ASSUME SafeInv, MidStep
    PROVE  /\ MidFrame /\ Effect /\ (db'.members = db.members \/ Relate)
           /\ db' \in Databases /\ db'.token = db.token /\ db'.snapshot = db.snapshot /\ Sound(db')
<1>1. CASE CollectEvent \/ BreakAtStop \/ EndOfDelta \/ ReceiveToken \/ NextPhase \/ LookupFails \/ OfferHydrated
           \/ ScanFails \/ Route
  <2>1. MidFrame
    BY <1>1, CollectFrame, PassFrame, PhaseFrame, FailFrame, IndexFrame
  <2>2. db' = db
    BY <1>1 DEF CollectEvent, BreakAtStop, EndOfDelta, ReceiveToken, NextPhase, LookupFails, OfferHydrated, ScanFails, Route
  <2> QED BY <2>1, <2>2, NoEffect, SoundDb DEF Sound
<1>2. CASE StreamEvent \/ MapPairs \/ Hydrate \/ Select \/ ScanMissing \/ Relate \/ Apply \/ PlanRow \/ PipelineTakes
  <2>1. MidFrame
    BY <1>2, StreamFrame, MapFrame, HydrateFrame, SelectFrame, ScanFrame, IndexFrame, PlanFrame, PipeFrame
  <2>2. Effect /\ (db'.members = db.members \/ Relate)
    BY <1>2, StreamEffect, MapEffect, HydrateEffect, SelectEffect, ScanEffect, RelateEffect, ApplyEffect, PlanEffect, PipelineEffect
  <2>3. db'.token = db.token /\ db'.snapshot = db.snapshot /\ Sound(db')
    BY <2>2 DEF Effect, DbMove
  <2> QED BY <2>1, <2>2, <2>3 DEF Sound
<1> QED BY <1>1, <1>2 DEF MidStep

LEMMA MidPipes ==
    ASSUME SafeInv, MidStep
    PROVE  /\ prod' = prod \/ (prod' = Off /\ (BreakAtStop \/ ReceiveToken))
           /\ \/ channel' = channel \/ (channel' = <<>> /\ (BreakAtStop \/ ReceiveToken))
              \/ channel # <<>> /\ channel' = Tail(channel) /\ (CollectEvent \/ StreamEvent \/ BreakAtStop)
           /\ \/ pipe' = pipe \/ (PipelineTakes /\ pipe # <<>> /\ pipe' = Tail(pipe))
              \/ /\ OfferHydrated \/ (StreamEvent /\ StreamOffers(Head(channel)))
                 /\ \E x \in [asset : Assets, trashed : BOOLEAN] : pipe' = Append(pipe, x) /\ Len(pipe) < PipeCap
<1>1. CASE CollectEvent \/ BreakAtStop \/ EndOfDelta \/ ReceiveToken \/ NextPhase \/ LookupFails \/ ScanFails \/ Route
  BY <1>1 DEF CollectEvent, BreakAtStop, EndOfDelta, ReceiveToken, NextPhase, LookupFails, ScanFails, Route
<1>2. CASE MapPairs \/ Hydrate \/ Select \/ ScanMissing \/ Relate \/ Apply \/ PlanRow \/ PipelineTakes
  BY <1>2 DEF MapPairs, Hydrate, Select, ScanMissing, Relate, Apply, PlanRow, PipelineTakes
<1>3. CASE StreamEvent
  <2> DEFINE e == Head(channel)
  <2>1. /\ prod' = prod /\ channel # <<>> /\ channel' = Tail(channel)
        /\ StreamKeeps(e) \/ StreamOffers(e) \/ StreamApplies(e) \/ StreamBreaks(e)
    BY <1>3 DEF StreamEvent
  <2>2. CASE StreamOffers(e)
    <3>1. [asset |-> e.rec, trashed |-> FALSE] \in [asset : Assets, trashed : BOOLEAN]
      BY <2>1, <2>2, HeadEvent DEF StreamOffers, Fresh, EventOK
    <3> QED BY <1>3, <2>1, <2>2, <3>1 DEF StreamOffers
  <2>3. CASE ~StreamOffers(e)
    BY <1>3, <2>1, <2>3 DEF StreamKeeps, StreamApplies, StreamBreaks
  <2> QED BY <2>2, <2>3
<1>4. CASE OfferHydrated
  <2>1. PICK i \in DOMAIN run.events : /\ Turn("offer", i) /\ Len(pipe) < PipeCap
                                       /\ pipe' = Append(pipe, [asset |-> run.events[i].rec, trashed |-> run.events[i].trashed])
    BY <1>4 DEF OfferHydrated
  <2>2. [asset |-> run.events[i].rec, trashed |-> run.events[i].trashed] \in [asset : Assets, trashed : BOOLEAN]
    BY <2>1, KeptEvent DEF Turn, Left, Concerns, Fresh, EventOK, Events
  <2> QED BY <1>4, <2>1, <2>2 DEF OfferHydrated
<1> QED BY <1>1, <1>2, <1>3, <1>4 DEF MidStep

LEMMA MidTypes ==
    ASSUME SafeInv, MidStep
    PROVE  DeltaTypeOK'
<1> DEFINE S == [asset : Assets, trashed : BOOLEAN]
<1>0. DeltaTypeOK
  BY DEF SafeInv
<1>1. MidFrame /\ db' \in Databases /\ db'.token = db.token
  BY Mid
<1>2. /\ db.token \in Tokens /\ run.token \in Tokens \cup {Null} /\ prod.token \in Tokens \cup {Null}
      /\ prod \in Producers /\ channel \in Seq(Events) /\ Len(channel) <= ChannelCap /\ stopped \in BOOLEAN
      /\ pipe \in Seq(S) /\ Len(pipe) <= PipeCap
  BY <1>0 DEF DeltaTypeOK
<1>3. run'.token \in Tokens \cup {Null}
  <2>1. CASE ReceiveToken
    <3>1. run'.token = prod.token
      BY <1>0, <2>1, Types DEF ReceiveToken, Runs
    <3> QED BY <1>2, <3>1
  <2> QED BY <1>1, <1>2, <2>1 DEF MidFrame, MidRun
<1>4. prod' \in Producers /\ prod'.token \in Tokens \cup {Null}
  BY <1>2, MidPipes, IdleTypes
<1>5. channel' \in Seq(Events) /\ Len(channel') <= ChannelCap
  <2>1. <<>> \in Seq(Events) /\ Len(<<>>) = 0 /\ 0 <= ChannelCap
    BY Consts
  <2>2. CASE channel # <<>> /\ channel' = Tail(channel)
    <3>1. channel' \in Seq(Events) /\ Len(channel') = Len(channel) - 1 /\ Len(channel) \in Nat
      BY <1>2, <2>2, HeadTail
    <3> QED BY <1>2, <3>1, Consts
  <2> QED BY <1>2, <2>1, <2>2, MidPipes
<1>6. pipe' \in Seq(S) /\ Len(pipe') <= PipeCap
  <2>1. pipe' = pipe \/ (pipe # <<>> /\ pipe' = Tail(pipe)) \/ \E x \in S : pipe' = Append(pipe, x) /\ Len(pipe) < PipeCap
    BY MidPipes
  <2> HIDE DEF S
  <2>2. CASE pipe # <<>> /\ pipe' = Tail(pipe)
    <3>1. pipe' \in Seq(S) /\ Len(pipe') = Len(pipe) - 1 /\ Len(pipe) \in Nat
      BY <1>2, <2>2, HeadTail
    <3> QED BY <1>2, <3>1, Consts
  <2>3. CASE \E x \in S : pipe' = Append(pipe, x) /\ Len(pipe) < PipeCap
    <3>1. pipe' \in Seq(S) /\ Len(pipe') = Len(pipe) + 1 /\ Len(pipe) \in Nat /\ Len(pipe) < PipeCap
      BY <1>2, <2>3
    <3> QED BY <3>1, Consts
  <2> QED BY <1>2, <2>1, <2>2, <2>3
<1> QED BY <1>0, <1>1, <1>2, <1>3, <1>4, <1>5, <1>6, TypeFrame DEF MidFrame, MidRun

(* What a full enumeration leaves behind. *)
LEMMA EnumStep ==
    ASSUME DeltaTypeOK, NEW d, Sound(d), NEW set \in SUBSET Assets, NEW d2, d2 = Enumerated(d, set)
    PROVE  /\ Sound(d2) /\ d2.token = d.token /\ d2.snapshot = cfg.album /\ (cfg.album => d2.members = InAlbum)
           /\ \A a \in Assets : Known(d, a) \/ a \in set => Known(d2, a)
<1> DEFINE rows == [k \in Keys |-> IF k \in set /\ ~Known(d, k)
                                   THEN [of |-> k, status |-> "pending", deleted |-> FALSE] ELSE d.rows[k]]
           members == IF cfg.album THEN InAlbum ELSE d.members
           mapped == d.mapped \cup set
<1>1. d \in Databases /\ \A k \in Keys : d.rows[k] \in Rows
  BY DEF Sound, Databases
<1>2. \A k \in Keys : rows[k] \in Rows
  BY <1>1 DEF Rows
<1>3. rows \in [Keys -> Rows] /\ members \in SUBSET Assets /\ mapped \in SUBSET Assets /\ cfg.album \in BOOLEAN
  BY <1>1, <1>2, Types DEF Databases, InAlbum
<1>4. d2 = [d EXCEPT !.rows = rows, !.mapped = mapped, !.members = members, !.snapshot = cfg.album]
  BY <1>1 DEF Enumerated, Databases
<1>5. \A k \in Keys : /\ k \in set /\ ~Known(d, k) => rows[k].of = k /\ rows[k].status = "pending" /\ ~rows[k].deleted
                      /\ ~(k \in set /\ ~Known(d, k)) => rows[k] = d.rows[k]
  OBVIOUS
<1>m. members = IF cfg.album THEN InAlbum ELSE d.members
  OBVIOUS
<1> HIDE DEF rows, members, mapped
<1>6. d2 \in Databases /\ d2.rows = rows /\ d2.owner = d.owner /\ d2.members = members /\ d2.snapshot = cfg.album /\ d2.token = d.token
  BY <1>1, <1>3, <1>4 DEF Databases
<1>7. \A a \in Assets : a \in Keys /\ a \notin Masters /\ MasterOf[a] \in Masters
  BY Consts
<1>8. \A m \in Masters : m \in Keys /\ m \notin set
  BY Consts
<1>9. \A m \in Masters : d2.rows[m] = d.rows[m]
  BY <1>5, <1>6, <1>8
<1>10. \A a \in Assets : HasRow(d2, a) => d2.rows[a].of = a
  <2> SUFFICES ASSUME NEW a \in Assets, HasRow(d2, a) PROVE d2.rows[a].of = a
    OBVIOUS
  <2>1. CASE a \in set /\ ~Known(d, a)
    BY <2>1, <1>5, <1>6, <1>7
  <2>2. CASE ~(a \in set /\ ~Known(d, a))
    BY <2>2, <1>5, <1>6, <1>7 DEF HasRow, Sound
  <2> QED BY <2>1, <2>2
<1>11. Sound(d2)
  BY <1>6, <1>9, <1>10 DEF Sound, HasRow
<1>12. ASSUME NEW a \in Assets, Known(d, a) PROVE Known(d2, a)
  <2>1. d2.rows[a] = d.rows[a] /\ d2.rows[MasterOf[a]] = d.rows[MasterOf[a]] /\ d2.owner = d.owner
    BY <1>5, <1>6, <1>7, <1>9, <1>12
  <2> QED BY <1>12, <2>1 DEF Known
<1>13. ASSUME NEW a \in Assets, a \in set, ~Known(d, a) PROVE Known(d2, a)
  <2>1. d2.rows[a].of = a /\ d2.rows[a].status = "pending" /\ ~d2.rows[a].deleted
    BY <1>5, <1>6, <1>7, <1>13
  <2> QED BY <2>1 DEF Known
<1> QED BY <1>6, <1>11, <1>12, <1>13, <1>m

(* What the start of a run is. *)
OpenedRun(d) ==
    [Idle EXCEPT !.pc = "read", !.mapped = d.mapped, !.stored = {k \in Keys : HasRow(d, k)},
                 !.purged = {a \in Assets : zone[a].st = "gone"}]

OpenedOK(d, r, p) ==
    /\ r \in Runs /\ r.pc = "read" /\ r.events = <<>> /\ r.at = 0 /\ r.ready = <<>> /\ r.missing = {} /\ r.known = {}
    /\ r.stored = {k \in Keys : HasRow(d, k)} /\ ~r.unsafe /\ r.token = Null
    /\ r.purged = {a \in Assets : zone[a].st = "gone"}
    /\ p \in Producers /\ p.pc = "page" /\ p.token = d.token /\ p.buffer = EmptyBuffer /\ p.page = {} /\ p.todo = <<>>
    /\ p.more = FALSE /\ ~p.failed

LEMMA OpenedTypes ==
    ASSUME NEW d, Sound(d)
    PROVE  OpenedOK(d, OpenedRun(d), Producer(d.token))
<1> DEFINE r == OpenedRun(d)
           p == Producer(d.token)
<1>1. Idle \in Runs /\ Off \in Producers /\ EmptyBuffer \in Buffers
  BY IdleTypes
<1>2. d.mapped \in SUBSET Assets /\ d.token \in Nat
  BY DEF Sound, Databases
<1>3. /\ r \in Runs /\ r.pc = "read" /\ r.events = <<>> /\ r.at = 0 /\ r.ready = <<>> /\ r.missing = {} /\ r.known = {}
      /\ r.stored = {k \in Keys : HasRow(d, k)} /\ ~r.unsafe /\ r.token = Null
      /\ r.purged = {a \in Assets : zone[a].st = "gone"}
  BY <1>1, <1>2 DEF OpenedRun, Idle, Runs
<1>4. /\ p \in Producers /\ p.pc = "page" /\ p.token = d.token /\ p.buffer = EmptyBuffer /\ p.page = {} /\ p.todo = <<>>
      /\ p.more = FALSE /\ ~p.failed
  BY <1>1, <1>2 DEF Producer, Off, Producers
<1> HIDE DEF r, p
<1>5. OpenedOK(d, r, p)
  BY <1>3, <1>4 DEF OpenedOK
<1> QED BY <1>5 DEF r, p
-----------------------------------------------------------------------------
(* Between two runs, and at the start of one. *)

QuietRun(pc) == [Idle EXCEPT !.pc = pc]

LEMMA QuietFields ==
    ASSUME NEW pc \in {"idle", "backfill"}
    PROVE  LET r == QuietRun(pc)
           IN  /\ r \in Runs /\ r.pc = pc /\ r.events = <<>> /\ r.ready = <<>> /\ r.at = 0 /\ r.missing = {} /\ r.known = {}
               /\ r.stored = {} /\ ~r.unsafe /\ r.token = Null /\ r.purged = {}
  BY IdleTypes DEF QuietRun, Idle, Runs

LEMMA OffFields ==
    /\ Off.pc = "off" /\ Off.token = Null /\ Off.buffer = EmptyBuffer /\ Off.page = {} /\ Off.todo = <<>>
    /\ ~Off.more /\ ~Off.failed
    /\ \A m \in Masters : EmptyBuffer.masters[m] = Null /\ EmptyBuffer.paired[m] = Null /\ EmptyBuffer.assets[m] = <<>>
    /\ Flushed(EmptyBuffer)
  BY DEF Off, EmptyBuffer, Flushed

LEMMA IdleIsQuiet == Idle = QuietRun("idle")
  BY IdleTypes DEF QuietRun, Idle, Runs

LEMMA NothingAt ==
    /\ DOMAIN (<<>>) = {} /\ Elems(<<>>) = {} /\ <<>> \o <<>> = <<>>
  BY DEF Elems

LEMMA EmptyPage ==
    ASSUME prod'.page = {}, prod'.buffer = EmptyBuffer
    PROVE  PageOK' /\ BufferOK'
<1>1. PageOK'
  BY DEF PageOK
<1>2. ASSUME NEW m \in Masters
      PROVE  /\ prod'.buffer.masters[m] = Null /\ prod'.buffer.paired[m] = Null
             /\ prod'.buffer.assets[m] = <<>> /\ Elems(prod'.buffer.assets[m]) = {}
  BY <1>2, OffFields, NothingAt
<1>3. Null # "softDeleted"
  BY Consts
<1>4. BufferOK'
  BY <1>2, <1>3 DEF BufferOK
<1> QED BY <1>1, <1>4

LEMMA ZoneStays ==
    ASSUME SafeInv, zone' = zone, db'.token >= db.token, db'.token \in Nat
    PROVE  ZoneOK'
<1>1. db.token \in Nat /\ \A a \in Assets : MasterOf[a] \in Records /\ zone[MasterOf[a]].at \in Nat
  BY Types, Consts DEF SafeInv
<1>2. \A a \in Assets : zone[MasterOf[a]].st = "trashed" /\ zone[MasterOf[a]].at > db'.token => ~Alive(a)
  BY <1>1 DEF SafeInv, ZoneOK
<1> QED BY <1>2 DEF SafeInv, ZoneOK, Exists, Alive

LEMMA QuietInv ==
    ASSUME SafeInv, zone' = zone, cfg' = cfg, NEW pc \in {"idle", "backfill"}, run' = QuietRun(pc), prod' = Off,
           channel' = <<>>, pipe' = <<>>, stopped' \in BOOLEAN, pc = "idle" => ~stopped',
           mishaps' = mishaps \/ (Spend /\ mishaps < MaxMishaps),
           Sound(db'), db'.token \in Tokens, db'.token >= db.token, db'.snapshot => cfg.album, MembershipSound'
    PROVE  SafeInv'
<1>0. DeltaTypeOK /\ clock \in Nat /\ db'.token \in Nat
  BY Types DEF SafeInv, Tokens
<1>1. /\ run' \in Runs /\ run'.pc = pc /\ run'.events = <<>> /\ run'.ready = <<>> /\ run'.at = 0 /\ run'.missing = {} /\ run'.known = {}
      /\ run'.stored = {} /\ ~run'.unsafe /\ run'.token = Null /\ run'.purged = {}
  BY QuietFields
<1>2. /\ prod'.pc = "off" /\ prod'.token = Null /\ prod'.buffer = EmptyBuffer /\ prod'.page = {} /\ prod'.todo = <<>>
      /\ ~prod'.more /\ ~prod'.failed
  BY OffFields
<1>3. DeltaTypeOK'
  <2> DEFINE S == [asset : Assets, trashed : BOOLEAN]
  <2>1. channel' \in Seq(Events) /\ Len(channel') <= ChannelCap
    BY Consts
  <2>2. pipe' \in Seq(S) /\ Len(pipe') <= PipeCap
    <3> HIDE DEF S
    <3> QED BY Consts
  <2>3. db' \in Databases /\ prod' \in Producers
    BY IdleTypes DEF Sound
  <2> QED BY <1>0, <1>1, <1>2, <2>1, <2>2, <2>3, TypeFrame
<1>4. ZoneOK'
  BY <1>0, ZoneStays
<1>5. ShapeOK'
  <2>1. run' = [Idle EXCEPT !.pc = run'.pc]
    BY <1>1 DEF QuietRun
  <2>2. /\ run'.pc \notin Late /\ run'.pc \notin {"read", "await", "map", "select", "scan", "apply", "plan", "offer"}
        /\ run'.pc \in {"idle", "backfill"} /\ run'.pc = "idle" => ~stopped'
    BY <1>1 DEF Late
  <2>3. prod' = Off /\ channel' = <<>> /\ pipe' = <<>> /\ cfg' = cfg
    OBVIOUS
  <2>4. (db'.snapshot => cfg'.album) /\ Streaming' = Streaming
    BY DEF Streaming
  <2> QED BY <1>1, <1>2, <2>1, <2>2, <2>3, <2>4 DEF ShapeOK
<1>6. PageOK' /\ BufferOK'
  BY <1>2, EmptyPage
<1>7. Flow' = <<>> /\ Elems(Flow') = {}
  BY <1>2, NothingAt DEF Flow
<1>8. FlowOK' /\ KeptOK' /\ ReadyOK' /\ PipeOK'
  BY <1>1, <1>7, NothingAt DEF FlowOK, KeptOK, ReadyOK, PipeOK
<1>9. RowsOK'
  BY <1>1 DEF RowsOK, Sound
<1>10. Frontier' = db'.token
  BY <1>1, <1>2 DEF Frontier
<1>11. RelationsOK' /\ TombsOK'
  <2>1. \A a \in Assets : zone[Rel(a)].at \in Nat
    BY <1>0, Types, Consts
  <2> QED BY <1>0, <1>1, <1>10, <2>1 DEF RelationsOK, TombsOK
<1> QED BY <1>3, <1>4, <1>5, <1>6, <1>8, <1>9, <1>11 DEF SafeInv

LEMMA OpenInv ==
    ASSUME SafeInv, zone' = zone, cfg' = cfg, run' = OpenedRun(db'), prod' = Producer(db'.token),
           channel' = <<>>, pipe' = <<>>, ~stopped', stopped' \in BOOLEAN, mishaps' = mishaps,
           Sound(db'), db'.token = db.token, cfg.album => db'.snapshot, db'.snapshot => cfg.album, MembershipSound'
    PROVE  SafeInv'
<1>0. /\ DeltaTypeOK /\ clock \in Nat /\ db.token \in Nat \ {0} /\ db.token \in Tokens /\ db.token # Null
      /\ \A r \in Records : zone[r].at \in Nat
  BY Types DEF SafeInv, DeltaTypeOK
<1>1. /\ run' \in Runs /\ run'.pc = "read" /\ run'.events = <<>> /\ run'.at = 0 /\ run'.ready = <<>> /\ run'.missing = {} /\ run'.known = {}
      /\ run'.stored = {k \in Keys : HasRow(db', k)} /\ ~run'.unsafe /\ run'.token = Null
      /\ run'.purged = {a \in Assets : zone[a].st = "gone"}
      /\ prod' \in Producers /\ prod'.pc = "page" /\ prod'.token = db'.token /\ prod'.buffer = EmptyBuffer /\ prod'.page = {}
      /\ prod'.todo = <<>> /\ prod'.more = FALSE /\ ~prod'.failed
  <2> DEFINE d == db'
  <2>1. OpenedOK(d, OpenedRun(d), Producer(d.token))
    <3> HIDE DEF d
    <3>1. Sound(d)
      BY DEF d
    <3> QED BY <3>1, OpenedTypes
  <2>2. OpenedOK(d, run', prod')
    BY <2>1
  <2> QED BY <2>2 DEF OpenedOK
<1>3. DeltaTypeOK'
  <2> DEFINE S == [asset : Assets, trashed : BOOLEAN]
  <2>1. channel' \in Seq(Events) /\ Len(channel') <= ChannelCap
    BY Consts
  <2>2. pipe' \in Seq(S) /\ Len(pipe') <= PipeCap
    <3> HIDE DEF S
    <3> QED BY Consts
  <2>3. db' \in Databases
    BY DEF Sound
  <2> QED BY <1>0, <1>1, <2>1, <2>2, <2>3, TypeFrame
<1>4. ZoneOK'
  BY <1>0, ZoneStays
<1>5. ShapeOK'
  <2>1. run'.pc \notin Late /\ run'.pc \notin {"idle", "backfill"}
    BY <1>1 DEF Late
  <2>2. db'.token >= db'.token
    BY <1>0
  <2> QED BY <1>0, <1>1, <2>1, <2>2 DEF ShapeOK
<1>6. PageOK' /\ BufferOK'
  BY <1>1, EmptyPage
<1>7. Flow' = <<>> /\ Elems(Flow') = {}
  BY <1>1, NothingAt DEF Flow
<1>8. FlowOK' /\ KeptOK' /\ ReadyOK' /\ PipeOK'
  BY <1>1, <1>7, NothingAt DEF FlowOK, KeptOK, ReadyOK, PipeOK
<1>9. RowsOK'
  BY <1>1 DEF RowsOK, Sound
<1>10. Frontier' = db'.token
  BY <1>0, <1>1 DEF Frontier
<1>11. RelationsOK'
  <2>1. \A a \in Assets : zone[Rel(a)].at \in Nat
    BY <1>0, Consts
  <2> QED BY <1>0, <1>10, <2>1 DEF RelationsOK
<1>12. TombsOK'
  BY <1>1, <1>10 DEF TombsOK, Unread
<1> QED BY <1>3, <1>4, <1>5, <1>6, <1>8, <1>9, <1>11, <1>12 DEF SafeInv

LEMMA MembersStay ==
    ASSUME SafeInv, zone' = zone, db'.token = db.token, db'.snapshot = db.snapshot, db'.members = db.members
    PROVE  MembershipSound'
  BY DEF SafeInv, MembershipSound, Exists

LEMMA MembersRead ==
    ASSUME SafeInv, zone' = zone, cfg.album => db'.members = InAlbum, db'.snapshot => cfg.album
    PROVE  MembershipSound'
  BY DEF MembershipSound, Exists, InAlbum

LEMMA StartInv ==
    ASSUME SafeInv, StartRun
    PROVE  SafeInv'
<1>0. /\ Sound(db) /\ db.token \in Tokens /\ db.token \in Nat /\ (db.snapshot => cfg.album) /\ stopped \in BOOLEAN
  BY SoundDb, Types DEF SafeInv, ShapeOK, DeltaTypeOK
<1>1. run.pc = "idle" /\ prod = Off /\ channel = <<>> /\ pipe = <<>> /\ ~stopped
  BY DEF StartRun, SafeInv, ShapeOK
<1>2. MembershipSound' /\ UNCHANGED <<zone, cfg, db, channel, pipe, stopped, mishaps>>
  BY MembersStay DEF StartRun
<1>3. CASE cfg.album /\ ~db.snapshot
  <2>1. run' = QuietRun("backfill") /\ prod' = Off
    BY <1>1, <1>3 DEF StartRun, QuietRun
  <2> QED BY <1>0, <1>1, <1>2, <2>1, QuietInv
<1>4. CASE ~(cfg.album /\ ~db.snapshot)
  <2>1. run' = OpenedRun(db') /\ prod' = Producer(db'.token)
    BY <1>2, <1>4 DEF StartRun, Opened, OpenedRun
  <2> QED BY <1>0, <1>1, <1>2, <1>4, <2>1, OpenInv
<1> QED BY <1>3, <1>4

LEMMA EndInv ==
    ASSUME SafeInv, Ended, zone' = zone, cfg' = cfg, mishaps' = mishaps \/ (Spend /\ mishaps < MaxMishaps),
           Sound(db'), db'.token \in Tokens, db'.token >= db.token, db'.snapshot => cfg.album, MembershipSound'
    PROVE  SafeInv'
<1>1. run' = QuietRun("idle") /\ prod' = Off /\ channel' = <<>> /\ pipe' = <<>> /\ stopped' = FALSE
  BY IdleIsQuiet DEF Ended
<1> QED BY <1>1, QuietInv

LEMMA BackfillInv ==
    ASSUME SafeInv, Backfill
    PROVE  SafeInv'
<1>0. /\ Sound(db) /\ db.token \in Tokens /\ db.token \in Nat /\ db.token >= db.token /\ (db.snapshot => cfg.album)
      /\ stopped \in BOOLEAN
  BY SoundDb, Types DEF SafeInv, ShapeOK, DeltaTypeOK
<1>1. zone' = zone /\ cfg' = cfg /\ channel = <<>> /\ pipe = <<>>
  BY DEF Backfill, SafeInv, ShapeOK
<1>2. CASE Ended /\ db' = db /\ (mishaps' = mishaps \/ (Spend /\ mishaps < MaxMishaps))
  BY <1>0, <1>1, <1>2, MembersStay, EndInv
<1>3. CASE ~stopped /\ db' = Enumerated(db, {a \in InAlbum : zone[a].st = "live"})
           /\ Opened(db') /\ UNCHANGED <<channel, pipe, stopped, mishaps>>
  <2> DEFINE set == {a \in InAlbum : zone[a].st = "live"}
  <2>1. set \in SUBSET Assets /\ db' = Enumerated(db, set)
    BY <1>3 DEF InAlbum
  <2> HIDE DEF set
  <2>2. Sound(db') /\ db'.token = db.token /\ db'.snapshot = cfg.album /\ (cfg.album => db'.members = InAlbum)
    BY <1>0, <2>1, EnumStep DEF SafeInv
  <2>3. MembershipSound'
    BY <1>1, <2>2, MembersRead
  <2>4. run' = OpenedRun(db') /\ prod' = Producer(db'.token)
    BY <1>3 DEF Opened, OpenedRun
  <2> QED BY <1>0, <1>1, <1>3, <2>2, <2>3, <2>4, OpenInv
<1> QED BY <1>2, <1>3 DEF Backfill, Mishap

LEMMA StopInv ==
    ASSUME SafeInv, Stop
    PROVE  SafeInv'
<1>1. UNCHANGED <<zone, cfg, db, run, prod, channel, pipe>> /\ stopped' = TRUE /\ run.pc # "idle"
      /\ Spend /\ mishaps < MaxMishaps
  BY DEF Stop, Mishap
<1>2. DeltaTypeOK'
  <2>1. /\ DeltaTypeOK /\ db \in Databases /\ db.token \in Tokens /\ run \in Runs /\ run.token \in Tokens \cup {Null}
        /\ prod \in Producers /\ prod.token \in Tokens \cup {Null} /\ channel \in Seq(Events) /\ Len(channel) <= ChannelCap
        /\ pipe \in Seq([asset : Assets, trashed : BOOLEAN]) /\ Len(pipe) <= PipeCap
    BY DEF SafeInv, DeltaTypeOK
  <2> QED BY <1>1, <2>1, TypeFrame
<1>3. Doomed'
  BY <1>1 DEF Doomed
<1>4. ZoneOK' /\ ShapeOK' /\ PageOK' /\ BufferOK'
  <2>1. ZoneOK' /\ PageOK' /\ BufferOK'
    BY <1>1 DEF SafeInv, ZoneOK, Exists, Alive, PageOK, EntryOK, Entry, BufferOK, MasterGone, ItemOK
  <2>2. ShapeOK'
    BY <1>1 DEF SafeInv, ShapeOK, Streaming, Flushed
  <2> QED BY <2>1, <2>2
<1>5. Flow' = Flow
  BY <1>1 DEF Flow
<1>6. FlowOK'
  BY <1>1, <1>5 DEF SafeInv, FlowOK, EventOK
<1>7. Frontier' = Frontier
  BY <1>1 DEF Frontier
<1>8. \A a, t : TrashOK(a, t) => TrashOK(a, t)'
  BY <1>1, <1>7 DEF TrashOK
<1>9. \A a, k : KeyOK(a, k) => KeyOK(a, k)'
  BY <1>1 DEF KeyOK, HasRow
<1>10. ReadyOK' /\ PipeOK'
  BY <1>1, <1>8, <1>9 DEF SafeInv, ReadyOK, PipeOK
<1>11. KeptOK'
  <2>1. \A i \in DOMAIN run.events : (EventOK(run.events[i]) => EventOK(run.events[i])') /\ Named(i)' = Named(i)
    BY <1>1 DEF EventOK, Named, Streaming
  <2>2. Streaming' = Streaming
    BY <1>1 DEF Streaming
  <2> QED BY <1>1, <1>8, <1>9, <2>1, <2>2 DEF SafeInv, KeptOK, Fresh
<1>12. RowsOK' /\ MembershipSound'
  BY <1>1 DEF SafeInv, RowsOK, HasRow, MembershipSound, Exists, Streaming
<1>13. RelationsOK' /\ TombsOK'
  BY <1>1, <1>3 DEF SafeInv, RelationsOK, TombsOK
<1> QED BY <1>2, <1>4, <1>6, <1>10, <1>11, <1>12, <1>13 DEF SafeInv
-----------------------------------------------------------------------------
(* The end of a run, and the first state. *)

LEMMA TokenMove ==
    ASSUME NEW d, Sound(d), NEW t \in Nat, NEW d2, d2 = [d EXCEPT !.token = t]
    PROVE  /\ Sound(d2) /\ d2.token = t /\ d2.snapshot = d.snapshot /\ d2.members = d.members
           /\ d2.rows = d.rows /\ d2.owner = d.owner
<1>1. /\ d2 \in Databases /\ d2.token = t /\ d2.snapshot = d.snapshot /\ d2.members = d.members
      /\ d2.rows = d.rows /\ d2.owner = d.owner
  BY DEF Sound, Databases
<1> QED BY <1>1 DEF Sound, HasRow

(* A run that may store its token has read everything and lost nothing. *)
LEMMA ReportClean ==
    ASSUME SafeInv, run.pc = "report", Advances
    PROVE  ~Doomed /\ Frontier = run.token /\ Flow = <<>> /\ run.token \in Tokens /\ run.token >= db.token
<1>1. ~stopped /\ ~run.unsafe /\ run.token # Null /\ run.pc \in Late
  BY DEF Advances, Late
<1>2. channel = <<>> /\ prod = Off
  BY <1>1 DEF SafeInv, ShapeOK
<1>3. Flow = <<>> /\ Elems(Flow) = {} /\ ~prod.failed
  BY <1>2, OffFields, NothingAt DEF Flow
<1> QED BY <1>1, <1>3 DEF Doomed, Frontier, SafeInv, DeltaTypeOK, ShapeOK

LEMMA ReportDb ==
    ASSUME SafeInv, Report
    PROVE  /\ Sound(db') /\ db'.snapshot = db.snapshot /\ db'.members = db.members
           /\ \A k \in Keys : Waiting(db', k) => Waiting(db, k)
           /\ db'.token = IF Advances THEN run.token ELSE db.token
<1>1. PICK moved : db' = [Transferred(db, moved) EXCEPT !.token = IF Advances THEN run.token ELSE @]
  BY DEF Report
<1> DEFINE d == Transferred(db, moved)
           t == IF Advances THEN run.token ELSE db.token
           none == {}
<1>2. DbStep(db, d, none, none)
  BY SoundDb, TransferStep
<1> HIDE DEF none
<1>3. /\ Sound(d) /\ d.token = db.token /\ d.snapshot = db.snapshot /\ d.members = db.members
      /\ \A k \in Keys : Waiting(d, k) => Waiting(db, k) \/ k \in none
  BY <1>2 DEF DbStep, DbMove
<1>4. \A k \in Keys : Waiting(d, k) => Waiting(db, k)
  BY <1>3 DEF none
<1> HIDE DEF d
<1>5. t \in Nat
  BY Types, ReportClean DEF SafeInv, Report, Tokens
<1>6. db' = [d EXCEPT !.token = t]
  BY <1>1, <1>3 DEF d
<1> HIDE DEF t
<1>7. Sound(db') /\ db'.token = t /\ db'.snapshot = d.snapshot /\ db'.members = d.members /\ db'.rows = d.rows
  BY <1>3, <1>5, <1>6, TokenMove
<1>8. \A k \in Keys : Waiting(db', k) => Waiting(db, k)
  BY <1>4, <1>7 DEF Waiting
<1> QED BY <1>3, <1>7, <1>8 DEF t

LEMMA ReportInv ==
    ASSUME SafeInv, Report
    PROVE  SafeInv'
<1>1. run.pc = "report" /\ Ended /\ zone' = zone /\ cfg' = cfg /\ mishaps' = mishaps
  BY DEF Report
<1>2. /\ Sound(db') /\ db'.snapshot = db.snapshot /\ db'.members = db.members
      /\ db'.token = IF Advances THEN run.token ELSE db.token
  BY ReportDb
<1>3. db.token \in Tokens /\ db.token \in Nat /\ (db.snapshot => cfg.album) /\ db.token >= db.token
      /\ \A a \in Assets : zone[Rel(a)].at \in Nat
  <2>1. db.token \in Tokens /\ (db.snapshot => cfg.album) /\ DeltaTypeOK
    BY DEF SafeInv, DeltaTypeOK, ShapeOK
  <2>2. db.token \in Nat /\ \A r \in Records : zone[r].at \in Nat
    BY <2>1, Types
  <2> QED BY <2>1, <2>2, Consts
<1>4. CASE ~Advances
  <2>1. MembershipSound'
    BY <1>1, <1>2, <1>4, MembersStay
  <2> QED BY <1>1, <1>2, <1>3, <1>4, <2>1, EndInv
<1>5. CASE Advances
  <2>1. ~Doomed /\ Frontier = run.token /\ run.token \in Tokens /\ run.token >= db.token
    BY <1>1, <1>5, ReportClean
  <2>2. ASSUME db.snapshot, NEW a \in Assets, zone[Rel(a)].at <= run.token
        PROVE  Member(a)
    <3>1. CASE zone[Rel(a)].at > db.token
      BY <1>1, <1>3, <2>1, <2>2, <3>1 DEF SafeInv, RelationsOK
    <3>2. CASE zone[Rel(a)].at <= db.token
      BY <2>2, <3>2 DEF SafeInv, MembershipSound, Member
    <3> QED BY <1>3, <3>1, <3>2
  <2>3. MembershipSound'
    BY <1>1, <1>2, <1>5, <2>2 DEF MembershipSound, Member, Exists
  <2> QED BY <1>1, <1>2, <1>3, <1>5, <2>1, <2>3, EndInv
<1> QED BY <1>4, <1>5

LEMMA FailInv ==
    ASSUME SafeInv, Fail
    PROVE  SafeInv'
<1>1. Ended /\ zone' = zone /\ cfg' = cfg /\ mishaps' = mishaps
  BY DEF Fail
<1>2. /\ Sound(db) /\ db.token \in Tokens /\ db.token \in Nat /\ db.token >= db.token /\ (db.snapshot => cfg.album)
      /\ clock \in Nat /\ clock \in Tokens /\ clock >= db.token
  <2>1. Sound(db) /\ db.token \in Tokens /\ (db.snapshot => cfg.album) /\ DeltaTypeOK
    BY SoundDb DEF SafeInv, DeltaTypeOK, ShapeOK
  <2>2. db.token \in Nat /\ clock \in Nat \ {0} /\ db.token <= clock
    BY <2>1, Types
  <2> QED BY <2>1, <2>2 DEF Tokens
<1>3. CASE db' = db
  BY <1>1, <1>2, <1>3, MembersStay, EndInv
<1>4. CASE db' = [Enumerated(db, {a \in Assets : Wanted(a)}) EXCEPT !.token = clock]
  <2> DEFINE set == {a \in Assets : Wanted(a)}
             d == Enumerated(db, set)
  <2>1. set \in SUBSET Assets /\ db' = [d EXCEPT !.token = clock]
    BY <1>4
  <2> HIDE DEF set
  <2>2. Sound(d) /\ d.snapshot = cfg.album /\ (cfg.album => d.members = InAlbum)
    BY <1>2, <2>1, EnumStep DEF SafeInv
  <2> HIDE DEF d
  <2>3. Sound(db') /\ db'.token = clock /\ db'.snapshot = d.snapshot /\ db'.members = d.members
    BY <1>2, <2>1, <2>2, TokenMove
  <2>4. MembershipSound'
    BY <1>1, <2>2, <2>3, MembersRead
  <2> QED BY <1>1, <1>2, <2>2, <2>3, <2>4, EndInv
<1> QED BY <1>3, <1>4 DEF Fail

LEMMA DeathInv ==
    ASSUME SafeInv, Crash \/ ForceExit
    PROVE  SafeInv'
<1>1. Ended /\ zone' = zone /\ cfg' = cfg /\ db' = db /\ (mishaps' = mishaps \/ (Spend /\ mishaps < MaxMishaps))
  BY DEF Crash, ForceExit, Mishap
<1>2. /\ Sound(db) /\ db.token \in Tokens /\ db.token \in Nat /\ db.token >= db.token /\ (db.snapshot => cfg.album)
  BY SoundDb, Types DEF SafeInv, ShapeOK, DeltaTypeOK
<1> QED BY <1>1, <1>2, MembersStay, EndInv
-----------------------------------------------------------------------------
(* The first states. *)

LEMMA FirstRows ==
    ASSUME NEW l \in Setups
    PROVE  /\ LibraryRows(l) \in [Keys -> Rows]
           /\ \A a \in Assets : LibraryRows(l)[a].status # "none" => LibraryRows(l)[a].of = a
           /\ \A m \in Masters : LibraryRows(l)[m].status # "none" => LibraryRows(l)[m].status = "downloaded"
<1>1. l.legacy \subseteq l.live /\ l.live \subseteq Assets
  BY DeltaAssumption DEF IsSetup
<1> DEFINE rows == LibraryRows(l)
<1>2. ASSUME NEW k \in Keys
      PROVE  /\ rows[k] \in Rows /\ (k \in Assets /\ rows[k].status # "none" => rows[k].of = k)
             /\ (k \in Masters /\ rows[k].status # "none" => rows[k].status = "downloaded")
  <2>1. CASE k \in l.live \ l.legacy
    <3>1. rows[k] = [of |-> k, status |-> "downloaded", deleted |-> FALSE]
      <4>1. ~\E a \in l.legacy : MasterOf[a] = k
        BY <1>1, <2>1, Consts
      <4> QED BY <2>1, <4>1, Zenon DEF LibraryRows
    <3> QED BY <1>1, <2>1, <3>1 DEF Rows
  <2>2. CASE k \notin l.live \ l.legacy /\ \E a \in l.legacy : MasterOf[a] = k
    <3> DEFINE a == CHOOSE a \in l.legacy : MasterOf[a] = k
    <3>1. a \in Assets /\ k \notin Assets
      BY <1>1, <2>2, Consts
    <3> HIDE DEF a
    <3>2. rows[k] = [of |-> a, status |-> "downloaded", deleted |-> FALSE]
      BY <2>2 DEF LibraryRows, a
    <3> QED BY <3>1, <3>2 DEF Rows
  <2>3. CASE k \notin l.live \ l.legacy /\ ~\E a \in l.legacy : MasterOf[a] = k
    <3>1. rows[k] = NoRow
      BY <2>3 DEF LibraryRows
    <3> QED BY <3>1 DEF Rows, NoRow
  <2> QED BY <2>1, <2>2, <2>3
<1>3. LibraryRows(l) \in [Keys -> Rows]
  BY <1>2 DEF LibraryRows
<1> QED BY <1>2, <1>3, Consts

LEMMA FirstZone ==
    ASSUME NEW l \in Setups, zone = LibraryZone(l), cfg = l.config
    PROVE  /\ zone \in Places(cfg.maxClock) /\ cfg.maxClock \in Nat \ {0}
           /\ \A r \in Records : \/ zone[r].st = "live" /\ zone[r].at = 1
                                 \/ zone[r].st = "absent" /\ zone[r].at = 0
           /\ \A a \in Assets : Exists(a) => Exists(MasterOf[a])
           /\ \A a \in Assets : a \in l.album <=> Exists(Rel(a))
<1>1. l.live \subseteq Assets /\ l.album \subseteq l.live /\ cfg.maxClock \in Nat \ {0}
  BY DeltaAssumption DEF IsSetup
<1> DEFINE there == l.live \cup {MasterOf[a] : a \in l.live} \cup {Rel(a) : a \in l.album}
<1>2. \A r \in Records : zone[r] = IF r \in there THEN [st |-> "live", at |-> 1] ELSE [st |-> "absent", at |-> 0]
  BY DEF LibraryZone
<1>3. /\ \A a \in Assets : a \in there => MasterOf[a] \in there
      /\ \A a \in Assets : a \in l.album <=> Rel(a) \in there
  <2>1. ASSUME NEW a \in Assets, a \in there PROVE MasterOf[a] \in there
    BY <1>1, <2>1, Consts
  <2>2. ASSUME NEW a \in Assets, Rel(a) \in there PROVE a \in l.album
    BY <1>1, <2>2, Consts
  <2> QED BY <2>1, <2>2
<1> HIDE DEF there
<1>4. \A r \in Records : \/ r \in there /\ zone[r] = [st |-> "live", at |-> 1]
                         \/ r \notin there /\ zone[r] = [st |-> "absent", at |-> 0]
  BY <1>2
<1>5. zone \in Places(cfg.maxClock)
  <2>1. \A r \in Records : zone[r] \in [st : States, at : 0 .. cfg.maxClock]
    BY <1>1, <1>4 DEF States
  <2> QED BY <2>1 DEF Places, LibraryZone
<1>6. \A r \in Records : Exists(r) <=> r \in there
  BY <1>4 DEF Exists
<1>7. \A a \in Assets : a \in Records /\ MasterOf[a] \in Records /\ Rel(a) \in Records
  BY Consts
<1> QED BY <1>1, <1>3, <1>4, <1>5, <1>6, <1>7

LEMMA InitInv ==
    ASSUME DeltaInit
    PROVE  SafeInv
<1>1. PICK l \in Setups :
          /\ cfg = l.config
          /\ zone = LibraryZone(l)
          /\ db = [rows |-> LibraryRows(l), owner |-> [m \in Masters |-> Null],
                   mapped |-> l.live \ l.legacy, token |-> 1,
                   members |-> IF l.config.album /\ l.snapshot THEN l.album ELSE {},
                   snapshot |-> l.config.album /\ l.snapshot]
  BY DEF DeltaInit
<1>2. run = Idle /\ prod = Off /\ channel = <<>> /\ pipe = <<>> /\ stopped = FALSE /\ mishaps = 0
  BY DEF DeltaInit
<1>3. /\ zone \in Places(cfg.maxClock) /\ cfg.maxClock \in Nat \ {0}
      /\ \A r \in Records : \/ zone[r].st = "live" /\ zone[r].at = 1
                            \/ zone[r].st = "absent" /\ zone[r].at = 0
      /\ \A a \in Assets : Exists(a) => Exists(MasterOf[a])
      /\ \A a \in Assets : a \in l.album <=> Exists(Rel(a))
  BY <1>1, FirstZone
<1>4. clock \in Nat /\ 1 \in Tokens
  BY <1>3, Clock DEF Tokens
<1>5. /\ l.live \subseteq Assets /\ l.album \subseteq Assets /\ l.snapshot \in BOOLEAN /\ l.config.album \in BOOLEAN
  BY DeltaAssumption DEF IsSetup
<1>6. /\ run \in Runs /\ run.pc = "idle" /\ run.events = <<>> /\ run.ready = <<>> /\ run.at = 0 /\ run.missing = {} /\ run.known = {}
      /\ run.stored = {} /\ ~run.unsafe /\ run.token = Null /\ run.purged = {} /\ run = [Idle EXCEPT !.pc = "idle"]
  BY <1>2, QuietFields, IdleIsQuiet DEF QuietRun
<1>7. /\ prod.pc = "off" /\ prod.token = Null /\ prod.buffer = EmptyBuffer /\ prod.page = {} /\ prod.todo = <<>>
      /\ ~prod.more /\ ~prod.failed
  BY <1>2, OffFields
<1>8. /\ db \in Databases /\ db.rows = LibraryRows(l) /\ db.token = 1 /\ db.owner = [m \in Masters |-> Null]
      /\ db.snapshot = (cfg.album /\ l.snapshot) /\ (db.snapshot => db.members = l.album)
  <2> DEFINE rows == LibraryRows(l)
             mapped == l.live \ l.legacy
             members == IF l.config.album /\ l.snapshot THEN l.album ELSE {}
             snapshot == l.config.album /\ l.snapshot
             owner == [m \in Masters |-> Null]
  <2>1. /\ rows \in [Keys -> Rows] /\ mapped \in SUBSET Assets /\ members \in SUBSET Assets /\ snapshot \in BOOLEAN
        /\ owner \in [Masters -> Assets \cup {Null}] /\ (snapshot => members = l.album)
    BY <1>5, FirstRows
  <2>2. db = [rows |-> rows, owner |-> owner, mapped |-> mapped, token |-> 1, members |-> members, snapshot |-> snapshot]
    BY <1>1
  <2>3. snapshot = (cfg.album /\ l.snapshot)
    BY <1>1
  <2> HIDE DEF rows, mapped, members, snapshot, owner
  <2>4. db \in Databases /\ db.rows = rows /\ db.token = 1 /\ db.owner = owner /\ db.snapshot = snapshot /\ db.members = members
    BY <2>1, <2>2 DEF Databases
  <2> QED BY <2>1, <2>3, <2>4 DEF rows, owner
<1>9. DeltaTypeOK
  <2> DEFINE S == [asset : Assets, trashed : BOOLEAN]
  <2>1. channel \in Seq(Events) /\ Len(channel) <= ChannelCap
    BY <1>2, Consts
  <2>2. pipe \in Seq(S) /\ Len(pipe) <= PipeCap
    <3> HIDE DEF S
    <3> QED BY <1>2, Consts
  <2>3. prod \in Producers /\ cfg \in {k.config : k \in Setups} /\ mishaps \in 0 .. MaxMishaps /\ stopped \in BOOLEAN
    <3>1. prod \in Producers /\ stopped \in BOOLEAN
      BY <1>2, IdleTypes
    <3>3. MaxMishaps \in Nat
      BY DeltaAssumption
    <3>4. mishaps \in 0 .. MaxMishaps
      BY <1>2, <3>3
    <3>2. cfg \in {k.config : k \in Setups}
      BY <1>1
    <3> QED BY <3>1, <3>2, <3>4
  <2>4. zone \in [Records -> [st : States, at : 0 .. cfg.maxClock]]
    BY <1>3 DEF Places
  <2> QED BY <1>4, <1>6, <1>7, <1>8, <2>1, <2>2, <2>3, <2>4 DEF DeltaTypeOK
<1>10. ZoneOK
  <2>1. \A r \in Records : zone[r].at \in {0, 1} /\ zone[r].st \in {"live", "absent"} /\ (zone[r].st = "absent" <=> zone[r].at = 0)
    BY <1>3
  <2>2. \A a \in Assets : a \in Records /\ MasterOf[a] \in Records /\ Rel(a) \in Records
    BY Consts
  <2>3. \A m \in Masters : m \in Records
    BY Consts
  <2> QED BY <1>3, <2>1, <2>2, <2>3 DEF ZoneOK
<1>11. ShapeOK
  <2>1. run.pc \notin Late
    BY <1>6 DEF Late
  <2> QED BY <1>2, <1>6, <1>7, <1>8, <2>1 DEF ShapeOK
<1>12. PageOK
  BY <1>7 DEF PageOK
<1>13. BufferOK
  <2>1. ASSUME NEW m \in Masters
        PROVE  /\ prod.buffer.masters[m] = Null /\ prod.buffer.paired[m] = Null
               /\ prod.buffer.assets[m] = <<>> /\ Elems(prod.buffer.assets[m]) = {}
    BY <1>7, <2>1, OffFields, NothingAt
  <2> QED BY <2>1, Consts DEF BufferOK
<1>14. Flow = <<>> /\ Elems(Flow) = {}
  BY <1>2, <1>7, NothingAt DEF Flow
<1>15. FlowOK /\ KeptOK /\ ReadyOK /\ PipeOK
  BY <1>2, <1>6, <1>14, NothingAt DEF FlowOK, KeptOK, ReadyOK, PipeOK
<1>16. RowsOK
  BY <1>6, <1>8, FirstRows DEF RowsOK, HasRow
<1>17. RelationsOK /\ TombsOK
  BY <1>6 DEF RelationsOK, TombsOK
<1>18. MembershipSound
  BY <1>3, <1>8 DEF MembershipSound
<1> QED BY <1>9, <1>10, <1>11, <1>12, <1>13, <1>15, <1>16, <1>17, <1>18 DEF SafeInv
-----------------------------------------------------------------------------
(* A change of the zone: what it moves is after everything that was read. *)

LEMMA FrontierType ==
    ASSUME SafeInv
    PROVE  Frontier \in Nat /\ Frontier <= clock /\ Frontier >= db.token
<1>1. /\ clock \in Nat /\ db.token \in Nat /\ db.token <= clock
      /\ run.token # Null => run.token \in Nat /\ run.token <= clock
      /\ prod.token # Null => prod.token \in Nat /\ prod.token <= clock
  BY Types DEF SafeInv
<1>2. /\ prod.pc = "off" => prod = Off
      /\ prod.pc # "off" => prod.token >= db.token
      /\ run.token # Null => run.token >= db.token
  BY DEF SafeInv, ShapeOK
<1>3. prod.token # Null => prod.token >= db.token
  BY <1>2, OffFields
<1> QED BY <1>1, <1>2, <1>3 DEF Frontier

LEMMA ZoneMove ==
    ASSUME SafeInv, ZoneChange
    PROVE  /\ zone' \in Places(cfg.maxClock)
           /\ \A r \in Records : zone'[r] = zone[r] \/ Moved(r)
           /\ \A r \in Records : zone'[r].at \in Nat /\ zone'[r].at >= zone[r].at
           /\ \A r \in Records : zone'[r].at <= clock => zone'[r] = zone[r]
           /\ \A r \in Keys : zone[r].st = "gone" => zone'[r] = zone[r]
           /\ clock' \in Nat /\ clock' > clock
           /\ UNCHANGED <<cfg, db, run, prod, channel, pipe, stopped, mishaps>>
<1>1. /\ zone \in Places(cfg.maxClock) /\ cfg.maxClock \in Nat \ {0} /\ db.token \in Nat /\ clock \in Nat
      /\ \A r \in Records : zone[r].at \in Nat /\ zone[r].at <= clock
  BY Types DEF SafeInv
<1>2. /\ zone' \in Places(cfg.maxClock)
      /\ \A r \in Records : zone'[r] = zone[r] \/ Moved(r)
      /\ \E r \in Records : zone'[r].at > clock
      /\ UNCHANGED <<cfg, db, run, prod, channel, pipe, stopped, mishaps>>
  BY <1>1, ZoneSteps DEF SafeInv
<1>3. \A r \in Records : zone'[r].at \in Nat
  BY <1>1, <1>2 DEF Places
<1>4. clock' \in Nat /\ \A r \in Records : zone'[r].at <= clock'
  BY <1>1, <1>2, ClockNext
<1>5. \A r \in Records : Moved(r) => zone'[r].at > clock
  BY DEF Moved
<1>6. \A r \in Keys : r \in Records /\ (Moved(r) => zone[r].st # "gone")
  BY Consts DEF Moved
<1> HIDE DEF Moved
<1>7. clock' > clock
  BY <1>1, <1>2, <1>3, <1>4
<1>8. \A r \in Records : zone'[r].at >= zone[r].at /\ (zone'[r].at <= clock => zone'[r] = zone[r])
  BY <1>1, <1>2, <1>3, <1>5
<1> QED BY <1>2, <1>3, <1>4, <1>6, <1>7, <1>8

LEMMA ZoneInv ==
    ASSUME SafeInv, ZoneChange
    PROVE  SafeInv'
<1>1. /\ \A r \in Records : zone'[r] = zone[r] \/ Moved(r)
      /\ \A r \in Records : zone'[r].at \in Nat /\ zone'[r].at >= zone[r].at
      /\ \A r \in Records : zone'[r].at <= clock => zone'[r] = zone[r]
      /\ \A r \in Keys : zone[r].st = "gone" => zone'[r] = zone[r]
      /\ clock' \in Nat /\ clock' > clock /\ zone' \in Places(cfg.maxClock)
  BY ZoneMove
<1>2. cfg' = cfg /\ db' = db /\ run' = run /\ prod' = prod /\ channel' = channel /\ pipe' = pipe /\ stopped' = stopped /\ mishaps' = mishaps
  BY ZoneMove
<1>3. /\ DeltaTypeOK /\ clock \in Nat \ {0} /\ db.token \in Nat /\ db.token <= clock
      /\ \A r \in Records : zone[r].at \in Nat /\ zone[r].at <= clock
  BY Types DEF SafeInv
<1>4. Frontier \in Nat /\ Frontier <= clock /\ Frontier' = Frontier
  BY <1>2, FrontierType DEF Frontier
<1>5. Flow' = Flow /\ Line' = Line /\ Doomed' = Doomed /\ Streaming' = Streaming
  BY <1>2 DEF Flow, Line, Doomed, Streaming
<1>6. \A a \in Assets : a \in Records /\ a \in Keys /\ MasterOf[a] \in Records /\ Rel(a) \in Records /\ MasterOf[a] \in Masters
  BY Consts
<1>7. \A m \in Masters : m \in Records /\ m \in Keys
  BY Consts
<1>8. DeltaTypeOK'
  <2>1. \A t \in Tokens \cup {Null} : t \in Tokens' \cup {Null}
    BY <1>1, <1>3 DEF Tokens
  <2>2. \A t \in Tokens : t \in Tokens'
    BY <1>1, <1>3 DEF Tokens
  <2>3. zone' \in [Records -> [st : States, at : 0 .. cfg.maxClock]]
    BY <1>1 DEF Places
  <2> QED BY <1>2, <1>3, <2>1, <2>2, <2>3 DEF DeltaTypeOK
<1>9. ZoneOK'
  <2>1. ZoneOK /\ zone \in Places(cfg.maxClock) /\ cfg.maxClock \in Nat \ {0}
    BY Types DEF SafeInv
  <2>2. /\ \A q, r \in Records : zone'[q].at = zone'[r].at /\ zone'[q].at > clock => q = r
        /\ \A a \in Assets : zone'[a].st \notin {"absent", "gone"} => zone'[MasterOf[a]].st \notin {"absent", "gone"}
        /\ \A a \in Assets : zone'[MasterOf[a]].st = "trashed" /\ zone'[MasterOf[a]].at > db.token
                                => zone'[a].st \notin {"live", "hidden"}
    BY <1>3, <2>1, ZoneSteps
  <2>3. \A m \in Masters : zone'[m].st # "hidden"
    BY <1>1, <1>7, <2>1 DEF ZoneOK, Moved
  <2>4. \A a \in Assets : zone'[Rel(a)].st \in {"absent", "live", "gone"}
    BY <1>1, <1>6, <2>1, Consts DEF ZoneOK, Moved
  <2>5. \A r \in Records : zone'[r].st = "absent" <=> zone'[r].at = 0
    <3> SUFFICES ASSUME NEW r \in Records PROVE zone'[r].st = "absent" <=> zone'[r].at = 0
      OBVIOUS
    <3>1. CASE zone'[r] = zone[r]
      BY <2>1, <3>1 DEF ZoneOK
    <3>2. CASE Moved(r)
      BY <1>1, <1>3, <3>2 DEF Moved
    <3> QED BY <1>1, <3>1, <3>2
  <2>6. \A q, r \in Records : zone'[q].at = zone'[r].at /\ zone'[q].at > 1 => q = r
    <3> SUFFICES ASSUME NEW q \in Records, NEW r \in Records, zone'[q].at = zone'[r].at, zone'[q].at > 1 PROVE q = r
      OBVIOUS
    <3>1. CASE zone'[q].at > clock
      BY <2>2, <3>1
    <3>2. CASE zone'[q].at <= clock
      <4>1. zone'[q] = zone[q] /\ zone'[r] = zone[r]
        BY <1>1, <3>2
      <4> QED BY <2>1, <4>1 DEF ZoneOK
    <3> QED BY <1>1, <1>3, <3>1, <3>2
  <2> QED BY <1>2, <2>2, <2>3, <2>4, <2>5, <2>6 DEF ZoneOK, Exists, Alive
<1>10. ShapeOK'
  BY <1>2, <1>5 DEF SafeInv, ShapeOK, Flushed
<1>11. PageOK'
  <2>0. PageOK /\ \A x \in prod.page : x.rec \in Records /\ x.at \in Nat
    BY <1>3, Types DEF SafeInv, Producers
  <2>1. ASSUME NEW x \in prod.page PROVE EntryOK(x)' /\ x.at <= clock
    <3>1. EntryOK(x) /\ x.rec \in Records /\ x.at \in Nat /\ x.at <= zone[x.rec].at
      BY <2>0, <2>1 DEF PageOK, EntryOK
    <3>2. x.at <= zone'[x.rec].at /\ x.at <= clock /\ (x.at = zone'[x.rec].at => zone'[x.rec] = zone[x.rec])
      BY <1>1, <1>3, <3>1
    <3>3. x.rec \in Keys /\ x.st = "gone" => zone'[x.rec] = zone[x.rec]
      BY <1>1, <3>1 DEF EntryOK
    <3>4. x.rec \in Masters /\ x.st = "trashed" => zone'[x.rec].st \in {"trashed", "gone"}
      BY <1>1, <3>1 DEF EntryOK, Moved
    <3> QED BY <1>2, <3>1, <3>2, <3>3, <3>4 DEF EntryOK
  <2>2. ASSUME NEW r \in Records, NEW x \in prod.page, zone'[r].at > prod.token, zone'[r].at <= x.at
        PROVE  Entry(r)' \in prod.page
    <3>1. zone'[r] = zone[r]
      BY <1>1, <1>3, <2>0, <2>1, <2>2
    <3> QED BY <2>0, <2>2, <3>1 DEF PageOK, Entry
  <2> QED BY <1>2, <2>0, <2>1, <2>2 DEF PageOK
<1>12. BufferOK'
  <2>1. ASSUME NEW m \in Masters, MasterGone(m) PROVE MasterGone(m)'
    BY <1>1, <1>2, <1>3, <1>7, <2>1 DEF MasterGone, Moved
  <2>2. ASSUME NEW m \in Masters, NEW x \in Elems(prod.buffer.assets[m]) PROVE ItemOK(x, m)'
    <3>1. ItemOK(x, m)
      BY <2>2 DEF SafeInv, BufferOK
    <3>2. x \in Items
      BY <1>3, <2>2, Types DEF Buffers, Elems
    <3>3. x.rec \in Records
      BY <1>6, <3>2 DEF Items
    <3> QED BY <1>1, <1>2, <1>3, <3>1, <3>3 DEF ItemOK
  <2> QED BY <1>2, <2>1, <2>2 DEF SafeInv, BufferOK
<1>13. ASSUME NEW e, EventOK(e) PROVE EventOK(e)'
  <2>1. e.kind \in {"pair", "asset", "bare"} => e.rec \in Assets /\ zone'[e.rec].at > db.token
    BY <1>1, <1>3, <1>6, <1>13 DEF EventOK
  <2>2. e.kind = "tomb" => e.rec \in Keys /\ zone'[e.rec].st = "gone"
    BY <1>1, <1>13 DEF EventOK
  <2>3. e.kind = "rel" => e.rec \in Assets /\ zone'[Rel(e.rec)].at > db.token
    BY <1>1, <1>3, <1>6, <1>13 DEF EventOK
  <2> QED BY <1>2, <1>13, <2>1, <2>2, <2>3 DEF EventOK
<1>14. FlowOK'
  BY <1>5, <1>13 DEF SafeInv, FlowOK
<1>15. ASSUME NEW a \in Assets, NEW t, TrashOK(a, t) PROVE TrashOK(a, t)'
  <2>1. CASE zone'[a] = zone[a]
    BY <1>2, <1>4, <1>15, <2>1 DEF TrashOK
  <2>2. CASE zone'[a].at > clock
    <3>1. zone'[a].at > db.token /\ zone'[a].at > Frontier
      BY <1>1, <1>3, <1>4, <1>6, <2>2
    <3> QED BY <1>2, <1>4, <1>15, <3>1 DEF TrashOK
  <2> QED BY <1>1, <1>3, <1>6, <2>1, <2>2
<1>16. KeptOK'
  <2>1. \A i \in DOMAIN run.events : EventOK(run.events[i])' /\ Named(i)' = Named(i)
    BY <1>2, <1>5, <1>13 DEF SafeInv, KeptOK, Named
  <2>2. ASSUME NEW i \in DOMAIN run.events, run.events[i].trashed PROVE TrashOK(run.events[i].rec, TRUE)'
    <3>1. run.events[i].rec \in Assets /\ TrashOK(run.events[i].rec, TRUE)
      BY <2>2 DEF SafeInv, KeptOK, EventOK
    <3>2. \A a \in Assets : TrashOK(a, TRUE) => TrashOK(a, TRUE)'
      BY <1>15
    <3> QED BY <1>2, <3>1, <3>2 DEF TrashOK
  <2>3. \A a, k : KeyOK(a, k) => KeyOK(a, k)'
    BY <1>2 DEF KeyOK, HasRow
  <2> QED BY <1>2, <1>5, <2>1, <2>2, <2>3 DEF SafeInv, KeptOK, Fresh
<1>17. ReadyOK' /\ PipeOK'
  <2>1. /\ \A x \in Elems(run.ready) : x.asset \in Assets
        /\ \A x \in Elems(pipe) : x.asset \in Assets
    <3> DEFINE S == [asset : Assets, trashed : BOOLEAN]
    <3>1. run.ready \in Seq(Photos) /\ pipe \in Seq(S)
      BY <1>3, Types
    <3>2. \A x \in S : x.asset \in Assets
      OBVIOUS
    <3>3. \A x \in Elems(run.ready) : x \in Photos
      BY <3>1 DEF Elems
    <3>4. \A x \in Elems(pipe) : x \in S
      <4> HIDE DEF S
      <4> QED BY <3>1 DEF Elems
    <3> HIDE DEF S
    <3> QED BY <3>2, <3>3, <3>4 DEF Photos
  <2>2. \A a, k : KeyOK(a, k) => KeyOK(a, k)'
    BY <1>2 DEF KeyOK, HasRow
  <2> QED BY <1>2, <1>15, <2>1, <2>2 DEF SafeInv, ReadyOK, PipeOK
<1>18. RowsOK'
  <2>1. run.known \subseteq Assets
    BY <1>3, Types DEF Runs
  <2>2. \A a \in run.known : Streaming \/ run.pc \in {"read", "await", "map", "hydrate", "select"} => zone'[a].at > db.token
    BY <1>1, <1>3, <1>6, <2>1 DEF SafeInv, RowsOK
  <2> QED BY <1>2, <1>5, <2>2 DEF SafeInv, RowsOK, HasRow
<1>19. RelationsOK'
  <2>1. ASSUME NEW a \in Assets, zone'[Rel(a)].at <= Frontier
        PROVE  zone'[Rel(a)] = zone[Rel(a)] /\ Exists(Rel(a))' = Exists(Rel(a))
    <3>1. zone'[Rel(a)] = zone[Rel(a)]
      BY <1>1, <1>3, <1>4, <1>6, <2>1
    <3> QED BY <3>1 DEF Exists, Rel
  <2> SUFFICES ASSUME cfg.album, ~Doomed, NEW a \in Assets, zone'[Rel(a)].at > db.token, zone'[Rel(a)].at <= Frontier
               PROVE  /\ run.pc \in {"read", "await", "map", "hydrate", "select", "scan"} => RelLast(Line, a, 0)'
                      /\ run.pc = "relate" => \/ RelLast(run.events, a, run.at)'
                                              \/ Member(a)' /\ NoRel(run.events, a, run.at)'
                      /\ run.pc \in {"apply", "plan", "report"} => Member(a)'
    BY <1>2, <1>4, <1>5 DEF RelationsOK
  <2>2. zone'[Rel(a)] = zone[Rel(a)] /\ Exists(Rel(a))' = Exists(Rel(a))
    BY <2>1
  <2>3. /\ run.pc \in {"read", "await", "map", "hydrate", "select", "scan"} => RelLast(Line, a, 0)
        /\ run.pc = "relate" => \/ RelLast(run.events, a, run.at)
                                \/ Member(a) /\ NoRel(run.events, a, run.at)
        /\ run.pc \in {"apply", "plan", "report"} => Member(a)
    BY <2>2 DEF SafeInv, RelationsOK
  <2>4. /\ RelLast(Line, a, 0) => RelLast(Line, a, 0)'
        /\ RelLast(run.events, a, run.at) => RelLast(run.events, a, run.at)'
        /\ Member(a) => Member(a)'
        /\ NoRel(run.events, a, run.at) => NoRel(run.events, a, run.at)'
    BY <1>2, <1>5, <2>2 DEF RelLast, Says, Member, NoRel, RelOf
  <2> QED BY <2>3, <2>4
<1>20. TombsOK'
  <2>1. \A a \in run.purged : zone'[a] = zone[a] /\ zone[a].st = "gone"
    <3>1. run.purged \subseteq Assets
      BY <1>3, Types DEF Runs
    <3> QED BY <1>1, <1>6, <3>1 DEF SafeInv, TombsOK
  <2>2. \A a \in run.purged : /\ Unread(a) => Unread(a)'
                              /\ TombKept(a) => TombKept(a)'
                              /\ ~Waiting(db, a) => ~Waiting(db, a)'
    BY <1>2, <1>4, <2>1 DEF Unread, TombKept, Waiting, Tomb
  <2> QED BY <1>2, <1>5, <2>1, <2>2 DEF SafeInv, TombsOK, Tomb
<1>21. MembershipSound'
  <2>1. ASSUME NEW a \in Assets, zone'[Rel(a)].at <= db.token
        PROVE  zone'[Rel(a)] = zone[Rel(a)]
    BY <1>1, <1>3, <1>6, <2>1
  <2> QED BY <1>2, <2>1 DEF SafeInv, MembershipSound, Exists
<1> QED BY <1>8, <1>9, <1>10, <1>11, <1>12, <1>14, <1>16, <1>17, <1>18, <1>19, <1>20, <1>21 DEF SafeInv
-----------------------------------------------------------------------------
(* The steps of the producer. *)

LEMMA ProducerRuns ==
    ASSUME SafeInv, prod.pc \in {"page", "send", "flush"}
    PROVE  /\ stopped \/ run.pc \in {"read", "failed"}
           /\ run.token = Null /\ Frontier = prod.token /\ prod.token \in Nat /\ prod.token >= db.token
           /\ ~Doomed => run.pc = "read" /\ ~stopped
<1>1. run \in Runs /\ prod.pc # "off" /\ prod.pc # "done"
  BY Types DEF SafeInv
<1>2. prod.token # Null /\ prod.token >= db.token /\ run.token = Null
  BY <1>1 DEF SafeInv, ShapeOK
<1>3. prod # Off
  BY <1>1, OffFields
<1>4. stopped \/ run.pc \in {"read", "failed"}
  <2>1. run.pc \notin {"idle", "backfill"} /\ (run.pc \in Late => stopped)
    BY <1>1, <1>3 DEF SafeInv, ShapeOK
  <2> QED BY <1>1, <2>1 DEF Runs, Late
<1>5. prod.token \in Nat
  BY <1>2, Types DEF SafeInv
<1> QED BY <1>2, <1>4, <1>5 DEF Frontier, Doomed

(* What they leave alone. *)
LEMMA ProducerFrame ==
    ASSUME SafeInv, ProducerStep
    PROVE  /\ UNCHANGED <<zone, cfg, db, run, pipe, stopped>>
           /\ prod.pc \in {"page", "send", "flush"}
           /\ ZoneOK' /\ KeptOK' /\ ReadyOK' /\ PipeOK' /\ RowsOK' /\ MembershipSound'
<1>1. UNCHANGED <<zone, cfg, db, run, pipe, stopped>> /\ prod.pc \in {"page", "send", "flush"}
  BY DEF ProducerStep, FetchPage, PageFails, PutRecord, PutMaster, PutAsset, PutTombstone, PutRelation,
         PutMalformed, Put, SendEvent, EndPage, Flush
<1>2. stopped \/ run.pc \in {"read", "failed"}
  BY <1>1, ProducerRuns
<1>3. \A a, t : TrashOK(a, t) => TrashOK(a, t)'
  BY <1>1, <1>2 DEF TrashOK
<1>4. \A a, k : KeyOK(a, k) => KeyOK(a, k)'
  BY <1>1 DEF KeyOK, HasRow
<1>5. ZoneOK' /\ RowsOK' /\ MembershipSound'
  BY <1>1 DEF SafeInv, ZoneOK, Exists, Alive, RowsOK, HasRow, MembershipSound, Streaming
<1>6. ReadyOK' /\ PipeOK'
  BY <1>1, <1>3, <1>4 DEF SafeInv, ReadyOK, PipeOK
<1>7. KeptOK'
  <2>1. \A i \in DOMAIN run.events : (EventOK(run.events[i]) => EventOK(run.events[i])') /\ Named(i)' = Named(i)
    BY <1>1 DEF EventOK, Named, Streaming
  <2>2. Streaming' = Streaming
    BY <1>1 DEF Streaming
  <2> QED BY <1>1, <1>3, <1>4, <2>1, <2>2 DEF SafeInv, KeptOK, Fresh
<1> QED BY <1>1, <1>5, <1>6, <1>7

(* A step that only moves the producer between its pages. *)
LEMMA SameLine ==
    ASSUME SafeInv, UNCHANGED <<zone, cfg, db, run, stopped>>, Flow' = Flow, Frontier' = Frontier, prod'.failed = prod.failed
    PROVE  FlowOK' /\ RelationsOK' /\ Doomed' = Doomed
<1>1. FlowOK'
  BY DEF SafeInv, FlowOK, EventOK
<1>2. Doomed' = Doomed /\ Line' = Line
  BY DEF Doomed, Line
<1>3. RelationsOK'
  BY <1>2 DEF SafeInv, RelationsOK, RelLast, Says, RelOf, Member, NoRel, Exists
<1> QED BY <1>1, <1>2, <1>3

LEMMA FiniteDelta == IsFiniteSet(Records)
<1>1. IsFiniteSet(Masters) /\ IsFiniteSet(Assets)
  BY DeltaAssumption
<1>2. IsFiniteSet(Relations)
  <2> DEFINE f == [a \in Assets |-> Rel(a)]
  <2>1. f \in Surjection(Assets, Relations)
    BY DEF Surjection, Relations
  <2> QED BY <1>1, <2>1, FS_Surjection
<1>3. IsFiniteSet(Assets \cup Masters)
  BY <1>1, FS_Union
<1> QED BY <1>2, <1>3, FS_Union DEF Records, Keys

LEMMA FetchInv ==
    ASSUME SafeInv, FetchPage
    PROVE  SafeInv'
<1>0. DeltaTypeOK' /\ DeltaTypeOK /\ ProducerStep
  BY ProducerTypes DEF ProducerStep, SafeInv
<1>1. /\ UNCHANGED <<zone, cfg, db, run, pipe, stopped>>
      /\ ZoneOK' /\ KeptOK' /\ ReadyOK' /\ PipeOK' /\ RowsOK' /\ MembershipSound'
  BY <1>0, ProducerFrame
<1>2. /\ Frontier = prod.token /\ prod.token \in Nat /\ prod.token >= db.token /\ run.token = Null
      /\ db.token \in Nat \ {0} /\ \A r \in Records : zone[r].at \in Nat /\ zone[r].st \in States
  BY <1>0, ProducerRuns, Types DEF FetchPage
<1> DEFINE page == {[rec |-> r, st |-> zone[r].st, at |-> zone[r].at] : r \in Page}
<1>3. /\ prod.pc = "page" /\ prod'.pc = "send" /\ prod'.more = (Page # Delta) /\ prod'.page = page /\ prod'.token = prod.token
      /\ prod'.buffer = prod.buffer /\ prod'.todo = prod.todo /\ prod'.failed = prod.failed /\ channel' = channel
  BY <1>0, Types DEF FetchPage, Producers
<1>4. page = {Entry(r) : r \in Page} /\ Page \subseteq Delta /\ Delta \subseteq Records
  BY DEF Entry, Page, Delta
<1> HIDE DEF page
<1>5. Flow' = Flow /\ Frontier' = Frontier
  BY <1>1, <1>3 DEF Flow, Frontier
<1>6. FlowOK' /\ RelationsOK' /\ Doomed' = Doomed
  BY <1>1, <1>3, <1>5, SameLine
<1>7. ShapeOK'
  <2>1. prod.pc # "off" /\ prod' # Off
    BY <1>3, OffFields
  <2>2. run.pc \notin {"idle", "backfill"}
    BY <1>3, OffFields DEF SafeInv, ShapeOK
  <2> QED BY <1>1, <1>3, <2>1, <2>2 DEF SafeInv, ShapeOK, Streaming, Late
<1>8. BufferOK'
  BY <1>1, <1>3 DEF SafeInv, BufferOK, MasterGone, ItemOK
<1>9. PageOK'
  <2>0. ZoneOK /\ \A a \in run.purged : zone[a].st = "gone"
    BY DEF SafeInv, TombsOK
  <2>1. ASSUME NEW r \in Page, NEW x, x = Entry(r) PROVE EntryOK(x)'
    <3>1. r \in Records /\ zone[r].at > prod.token /\ x.rec = r /\ x.st = zone[r].st /\ x.at = zone[r].at
      BY <1>4, <2>1 DEF Entry, Delta
    <3>2. x.st # "absent"
      BY <1>2, <2>0, <3>1 DEF ZoneOK
    <3>3. /\ x.rec \in Masters => x.st # "hidden"
          /\ x.rec \in Relations => x.st \in {"live", "gone"}
      BY <2>0, <3>1, <3>2, Consts DEF ZoneOK
    <3>4. x.rec \in Assets /\ x.st # "gone" => x.rec \notin run.purged
      BY <2>0, <3>1
    <3> QED BY <1>1, <1>2, <1>3, <3>1, <3>2, <3>3, <3>4 DEF EntryOK
  <2>2. ASSUME NEW q \in Page, NEW r \in Page, Entry(q).at = Entry(r).at PROVE Entry(q) = Entry(r)
    <3>1. q \in Records /\ r \in Records /\ zone[q].at = zone[r].at /\ zone[q].at > prod.token
      BY <1>4, <2>2 DEF Entry, Delta
    <3>2. zone[q].at > 1
      BY <1>2, <3>1
    <3> QED BY <2>0, <3>1, <3>2 DEF ZoneOK
  <2>3. ASSUME NEW r \in Records, NEW q \in Page, zone[r].at > prod.token, zone[r].at <= zone[q].at
        PROVE  r \in Page
    <3> DEFINE S == {p \in Delta : zone[p].at < zone[r].at}
               T == {p \in Delta : zone[p].at < zone[q].at}
    <3>1. q \in Records /\ r \in Delta /\ Cardinality(T) < PageSize
      BY <1>4, <2>3 DEF Page, Delta
    <3>2. S \subseteq T
      BY <1>2, <1>4, <2>3, <3>1
    <3>3. IsFiniteSet(T)
      BY <1>4, FiniteDelta, FS_Subset
    <3>4. IsFiniteSet(S) /\ Cardinality(S) <= Cardinality(T)
      BY <3>2, <3>3, FS_Subset
    <3>5. Cardinality(S) \in Nat /\ Cardinality(T) \in Nat /\ PageSize \in Nat
      BY <3>3, <3>4, FS_CardinalityType, Consts
    <3>6. Cardinality(S) < PageSize
      BY <3>1, <3>4, <3>5
    <3> QED BY <3>1, <3>6 DEF Page
  <2>4. \A x \in page : \E r \in Page : x = Entry(r) /\ x.at = zone[r].at
    BY <1>4 DEF Entry
  <2>5. \A x \in page : EntryOK(x)'
    BY <2>1, <2>4
  <2>6. \A x, y \in page : x.at = y.at => x = y
    BY <1>4, <2>2
  <2>7. \A r \in Records, x \in page : zone[r].at > prod.token /\ zone[r].at <= x.at => Entry(r) \in page
    BY <1>4, <2>3, <2>4
  <2> QED BY <1>1, <1>3, <2>5, <2>6, <2>7 DEF PageOK, Entry
<1>10. TombsOK'
  <2>1. ASSUME NEW a \in run.purged, Unread(a) PROVE Unread(a)'
    <3>1. a \in Records
      BY <1>0, Types, Consts DEF Runs
    <3>2. run.pc = "read" /\ zone[a].at > Frontier /\ a \in Delta
      BY <1>2, <2>1, <3>1 DEF Unread, Delta
    <3>3. Page # Delta \/ (Entry(a) \in page /\ Entry(a).rec = a)
      BY <1>4, <3>2 DEF Entry
    <3>4. prod'.more \/ \E x \in prod'.page : x.rec = a
      BY <1>3, <3>3
    <3> QED BY <1>1, <1>3, <1>5, <3>2, <3>4 DEF Unread
  <2>2. \A a \in run.purged : TombKept(a) => TombKept(a)'
    BY <1>1 DEF TombKept, Tomb
  <2> QED BY <1>1, <1>5, <1>6, <2>1, <2>2 DEF SafeInv, TombsOK, Tomb, Waiting
<1> QED BY <1>0, <1>1, <1>6, <1>7, <1>8, <1>9, <1>10 DEF SafeInv

LEMMA PageFailsInv ==
    ASSUME SafeInv, PageFails
    PROVE  SafeInv'
<1>0. DeltaTypeOK' /\ DeltaTypeOK /\ ProducerStep
  BY ProducerTypes DEF ProducerStep, SafeInv
<1>1. /\ UNCHANGED <<zone, cfg, db, run, pipe, stopped>>
      /\ ZoneOK' /\ KeptOK' /\ ReadyOK' /\ PipeOK' /\ RowsOK' /\ MembershipSound'
  BY <1>0, ProducerFrame
<1>2. /\ prod.pc = "page" /\ prod'.pc = "flush" /\ prod'.more = prod.more /\ prod'.page = prod.page /\ prod'.token = prod.token
      /\ prod'.buffer = prod.buffer /\ prod'.todo = prod.todo /\ prod'.failed /\ channel' = channel
  BY <1>0, Types DEF PageFails, Producers
<1>3. Flow' = Flow /\ Doomed'
  BY <1>2 DEF Flow, Doomed
<1>4. FlowOK'
  BY <1>1, <1>3 DEF SafeInv, FlowOK, EventOK
<1>5. ShapeOK'
  <2>1. prod.pc # "off" /\ prod' # Off
    BY <1>2, OffFields
  <2>2. run.pc \notin {"idle", "backfill"}
    BY <1>2, OffFields DEF SafeInv, ShapeOK
  <2> QED BY <1>1, <1>2, <2>1, <2>2 DEF SafeInv, ShapeOK, Streaming, Late
<1>6. PageOK' /\ BufferOK'
  BY <1>1, <1>2 DEF SafeInv, ShapeOK, PageOK, BufferOK, MasterGone, ItemOK
<1>7. RelationsOK' /\ TombsOK'
  BY <1>1, <1>3 DEF SafeInv, RelationsOK, TombsOK
<1> QED BY <1>0, <1>1, <1>4, <1>5, <1>6, <1>7 DEF SafeInv

LEMMA SendInv ==
    ASSUME SafeInv, SendEvent
    PROVE  SafeInv'
<1>0. DeltaTypeOK' /\ DeltaTypeOK /\ ProducerStep
  BY ProducerTypes DEF ProducerStep, SafeInv
<1>1. /\ UNCHANGED <<zone, cfg, db, run, pipe, stopped>>
      /\ ZoneOK' /\ KeptOK' /\ ReadyOK' /\ PipeOK' /\ RowsOK' /\ MembershipSound'
  BY <1>0, ProducerFrame
<1>2. /\ prod.pc \in {"send", "flush"} /\ prod'.pc = prod.pc /\ prod'.more = prod.more /\ prod'.page = prod.page /\ prod'.token = prod.token
      /\ prod'.buffer = prod.buffer /\ prod'.todo = Tail(prod.todo) /\ prod'.failed = prod.failed
      /\ channel' = Append(channel, Head(prod.todo)) /\ prod.todo # <<>>
  BY <1>0, Types DEF SendEvent, Producers
<1>3. Flow' = Flow /\ Frontier' = Frontier
  <2>1. channel \in Seq(Events) /\ prod.todo \in Seq(Events)
    BY <1>0, Types
  <2> QED BY <1>1, <1>2, <2>1, SendLine DEF Flow, Frontier
<1>4. FlowOK' /\ RelationsOK' /\ Doomed' = Doomed
  BY <1>1, <1>2, <1>3, SameLine
<1>5. ShapeOK'
  <2>1. prod.pc # "off" /\ prod' # Off
    BY <1>2, OffFields
  <2>2. run.pc \notin {"idle", "backfill"} /\ (run.pc \in Late => stopped)
    BY <1>2, OffFields DEF SafeInv, ShapeOK
  <2>3. run.pc \in Late \ {"await"} /\ ~Streaming => prod.pc = "off"
    BY DEF SafeInv, ShapeOK
  <2> QED BY <1>1, <1>2, <2>1, <2>2, <2>3 DEF SafeInv, ShapeOK, Streaming, Late
<1>6. PageOK' /\ BufferOK'
  BY <1>1, <1>2 DEF SafeInv, PageOK, EntryOK, Entry, BufferOK, MasterGone, ItemOK
<1>7. TombsOK'
  <2>1. \A a \in run.purged : (Unread(a) => Unread(a)') /\ (TombKept(a) => TombKept(a)')
    BY <1>1, <1>2, <1>3 DEF TombKept, Tomb, Unread
  <2> QED BY <1>1, <1>3, <1>4, <2>1 DEF SafeInv, TombsOK, Tomb, Waiting
<1> QED BY <1>0, <1>1, <1>4, <1>5, <1>6, <1>7 DEF SafeInv

LEMMA EndPageInv ==
    ASSUME SafeInv, EndPage
    PROVE  SafeInv'
<1>0. DeltaTypeOK' /\ DeltaTypeOK /\ ProducerStep
  BY ProducerTypes DEF ProducerStep, SafeInv
<1>1. /\ UNCHANGED <<zone, cfg, db, run, pipe, stopped>>
      /\ ZoneOK' /\ KeptOK' /\ ReadyOK' /\ PipeOK' /\ RowsOK' /\ MembershipSound'
  BY <1>0, ProducerFrame
<1>2. /\ prod.pc = "send" /\ prod'.pc = (IF prod.more THEN "page" ELSE "flush") /\ prod'.more = prod.more /\ prod'.page = prod.page
      /\ prod'.token = prod.token /\ prod'.buffer = prod.buffer /\ prod'.todo = prod.todo /\ prod'.failed = prod.failed
      /\ channel' = channel /\ prod.page = {} /\ prod.todo = <<>> /\ prod.more \in BOOLEAN
  BY <1>0, Types DEF EndPage, AfterPage, Producers
<1>3. Flow' = Flow /\ Frontier' = Frontier
  BY <1>1, <1>2 DEF Flow, Frontier
<1>4. FlowOK' /\ RelationsOK' /\ Doomed' = Doomed
  BY <1>1, <1>2, <1>3, SameLine
<1>5. ShapeOK'
  <2>1. prod.pc # "off" /\ prod' # Off /\ prod'.pc \in {"page", "flush"}
    BY <1>2, OffFields
  <2>2. run.pc \notin {"idle", "backfill"} /\ (run.pc \in Late => stopped)
    BY <1>2, OffFields DEF SafeInv, ShapeOK
  <2>3. run.pc \in Late \ {"await"} /\ ~Streaming => prod.pc = "off"
    BY DEF SafeInv, ShapeOK
  <2>4. ~prod.failed
    BY <1>2 DEF SafeInv, ShapeOK
  <2> QED BY <1>1, <1>2, <2>1, <2>2, <2>3, <2>4 DEF SafeInv, ShapeOK, Streaming, Late
<1>6. PageOK' /\ BufferOK'
  BY <1>1, <1>2 DEF SafeInv, PageOK, EntryOK, Entry, BufferOK, MasterGone, ItemOK
<1>7. TombsOK'
  <2>1. \A a \in run.purged : (Unread(a) => Unread(a)') /\ (TombKept(a) => TombKept(a)')
    BY <1>1, <1>2, <1>3 DEF TombKept, Tomb, Unread
  <2> QED BY <1>1, <1>3, <1>4, <2>1 DEF SafeInv, TombsOK, Tomb, Waiting
<1> QED BY <1>0, <1>1, <1>4, <1>5, <1>6, <1>7 DEF SafeInv
-----------------------------------------------------------------------------
(* The records of a page, one by one, and the rest of the buffer. *)

RelSame(s, a) == \A e \in Elems(s) : ~RelOf(e, a)

LEMMA RelKeep ==
    ASSUME NEW s \in Seq(Events), NEW t \in Seq(Events), NEW a, RelLast(s, a, 0), RelSame(t, a)
    PROVE  RelLast(s \o t, a, 0)
<1>1. PICK i \in DOMAIN s : i > 0 /\ Says(s[i], a) /\ \A j \in DOMAIN s : j > i => ~RelOf(s[j], a)
  BY DEF RelLast
<1>2. /\ DOMAIN (s \o t) = 1 .. Len(s) + Len(t) /\ DOMAIN s = 1 .. Len(s) /\ Len(s) \in Nat /\ Len(t) \in Nat
      /\ \A j \in DOMAIN s : j \in DOMAIN (s \o t) /\ (s \o t)[j] = s[j]
      /\ \A j \in DOMAIN (s \o t) : j > Len(s) => j - Len(s) \in DOMAIN t /\ (s \o t)[j] = t[j - Len(s)]
  BY ConcatAt
<1>3. ASSUME NEW j \in DOMAIN (s \o t), j > i PROVE ~RelOf((s \o t)[j], a)
  <2>1. CASE j \in DOMAIN s
    BY <1>1, <1>2, <1>3, <2>1
  <2>2. CASE j \notin DOMAIN s
    <3>1. j > Len(s)
      BY <1>2, <2>2
    <3>2. (s \o t)[j] \in Elems(t)
      BY <1>2, <3>1, ElemsAt
    <3> QED BY <3>2 DEF RelSame
  <2> QED BY <2>1, <2>2
<1> QED BY <1>1, <1>2, <1>3 DEF RelLast

LEMMA RelNew ==
    ASSUME NEW s \in Seq(Events), NEW e \in Events, NEW a, Says(e, a)
    PROVE  RelLast(s \o <<e>>, a, 0)
<1> DEFINE t == <<e>>
           n == Len(s) + 1
<1>1. t \in Seq(Events) /\ Len(t) = 1 /\ t[1] = e /\ DOMAIN t = {1}
  OBVIOUS
<1> HIDE DEF t
<1>2. Len(s) \in Nat /\ DOMAIN (s \o t) = 1 .. n /\ n > 0 /\ n \in DOMAIN (s \o t) /\ (s \o t)[n] = e
  BY <1>1, ConcatAt
<1>3. \A j \in DOMAIN (s \o t) : ~(j > n)
  BY <1>2
<1>4. RelLast(s \o t, a, 0)
  BY <1>2, <1>3 DEF RelLast
<1> QED BY <1>4 DEF t

(* New events go to the end of the line. *)
LEMMA LineGroups ==
    ASSUME NEW S, NEW s \in Seq(S), NEW t \in Seq(S), NEW u \in Seq(S)
    PROVE  s \o (t \o u) = (s \o t) \o u
<1>1. /\ s \o (t \o u) \in Seq(S) /\ (s \o t) \o u \in Seq(S)
      /\ Len(s \o (t \o u)) = Len((s \o t) \o u)
  OBVIOUS
<1>2. \A i \in 1 .. Len(s \o (t \o u)) : (s \o (t \o u))[i] = ((s \o t) \o u)[i]
  OBVIOUS
<1> QED BY <1>1, <1>2

LEMMA LineGrows ==
    ASSUME DeltaTypeOK, run' = run, channel' = channel, prod.todo = <<>>, NEW events \in Seq(Events), prod'.todo = events
    PROVE  /\ Flow = channel /\ Flow' = Flow \o events /\ Line' = Line \o events
           /\ Elems(Flow') = Elems(Flow) \cup Elems(events)
<1>1. channel \in Seq(Events) /\ run.events \in Seq(Events)
  BY Types
<1>2. Flow = channel /\ Flow' = channel \o events
  BY <1>1, EmptyLine DEF Flow
<1>3. Elems(channel \o events) = Elems(channel) \cup Elems(events)
  BY <1>1, ElemsConcat
<1>4. run.events \o (channel \o events) = (run.events \o channel) \o events
  <2> DEFINE s == run.events
             c == channel
  <2>1. s \in Seq(Events) /\ c \in Seq(Events)
    BY <1>1
  <2> HIDE DEF s, c
  <2>2. s \o (c \o events) = (s \o c) \o events
    BY <2>1, LineGroups
  <2> QED BY <2>2 DEF s, c
<1> QED BY <1>2, <1>3, <1>4 DEF Line

BufGood(b) ==
    \A m \in Masters :
        /\ b.masters[m] \in {Null, "created", "softDeleted"}
        /\ b.paired[m] \in {Null, "created", "softDeleted"}
        /\ "softDeleted" \in {b.masters[m], b.paired[m]} => MasterGone(m)
        /\ b.masters[m] # Null \/ b.paired[m] # Null => b.assets[m] = <<>>
        /\ \A x \in Elems(b.assets[m]) : ItemOK(x, m)

(* What a record adds to the line. *)
Adds(x, events) ==
    /\ \A e \in Elems(events) : EventOK(e) /\ ~e.trashed
    /\ \A e \in Elems(events) : e.kind = "rel" => x.rec = Rel(e.rec) /\ e.reason = Reason(x.st) /\ events = <<e>>
    /\ x.rec \in Relations => \E e \in Elems(events) : e.kind \in {"rel", "bad"}
    /\ x.rec \in Assets /\ x.st = "gone" => \E e \in Elems(events) : e.kind = "bad" \/ Tomb(e, x.rec)

LEMMA Reasonable ==
    /\ Reason("live") = "created" /\ Reason("hidden") = "hidden" /\ Reason("trashed") = "softDeleted"
    /\ Reason("gone") = "hardDeleted"
    /\ \A st \in {"live", "hidden", "trashed"} : Reason(st) \in Reasons \ {"hardDeleted"}
    /\ \A x, y \in Reasons \ {"hardDeleted"} : Reconcile(x, y) \in Reasons \ {"hardDeleted"}
    /\ \A x, y \in Reasons : Reconcile(x, y) = "created" <=> x = "created" /\ y = "created"
    /\ \A x, y \in Reasons \ {"hardDeleted"} : Reconcile(x, y) = "softDeleted" <=> "softDeleted" \in {x, y}
<1>1. /\ Reason("live") = "created" /\ Reason("hidden") = "hidden" /\ Reason("trashed") = "softDeleted"
      /\ Reason("gone") = "hardDeleted"
  BY DEF Reason
<1>2. \A x, y \in Reasons \ {"hardDeleted"} : Reconcile(x, y) \in Reasons \ {"hardDeleted"}
  BY DEF Reasons, Reconcile
<1>3. \A x, y \in Reasons : Reconcile(x, y) = "created" <=> x = "created" /\ y = "created"
  BY DEF Reasons, Reconcile
<1>4. \A x, y \in Reasons \ {"hardDeleted"} : Reconcile(x, y) = "softDeleted" <=> "softDeleted" \in {x, y}
  BY DEF Reasons, Reconcile
<1> QED BY <1>1, <1>2, <1>3, <1>4 DEF Reasons

LEMMA EntryFacts ==
    ASSUME SafeInv, prod.pc = "send", NEW x \in prod.page
    PROVE  /\ x.rec \in Records /\ x.st \in States \ {"absent"} /\ x.at \in Nat /\ EntryOK(x)
           /\ x.at > prod.token /\ x.at > db.token /\ zone[x.rec].at > db.token /\ zone[x.rec].at >= x.at
           /\ zone[x.rec].at \in Nat /\ prod.token \in Nat
<1>1. x.rec \in Records /\ x.st \in States /\ x.at \in Nat /\ \A r \in Records : zone[r].at \in Nat
  BY Types DEF SafeInv, Producers
<1>2. EntryOK(x)
  BY DEF SafeInv, PageOK
<1>3. prod.token \in Nat /\ prod.token >= db.token /\ db.token \in Nat
  BY ProducerRuns, Types DEF SafeInv
<1> QED BY <1>1, <1>2, <1>3 DEF EntryOK

LEMMA OneEvent ==
    ASSUME NEW e \in Events
    PROVE  <<e>> \in Seq(Events) /\ Elems(<<e>>) = {e}
  BY ElemsSmall

LEMMA PutMasterOK ==
    ASSUME SafeInv, NEW x \in prod.page, PutMaster(x)
    PROVE  \E buffer, events : Put(x, buffer, events) /\ events \in Seq(Events) /\ BufGood(buffer) /\ Adds(x, events)
<1> DEFINE b == prod.buffer
           m == x.rec
           items == b.assets[m]
           reason == Reason(x.st)
<1>1. m \in Masters /\ x.st # "gone" /\ prod.pc = "send" /\ m \notin Assets /\ m \notin Relations
  BY Consts DEF PutMaster, Put
<1>2. x.st \in {"live", "trashed"} /\ zone[m].at > db.token /\ (x.st = "trashed" => zone[m].st \in {"trashed", "gone"})
  BY <1>1, EntryFacts DEF EntryOK, States
<1>3. reason \in {"created", "softDeleted"} /\ (reason = "softDeleted" => MasterGone(m)) /\ reason # Null
  BY <1>2, Reasonable, Consts DEF MasterGone
<1>4. b \in Buffers /\ b.masters \in [Masters -> Reasons \cup {Null}] /\ b.paired \in [Masters -> Reasons \cup {Null}]
      /\ b.assets \in [Masters -> Seq(Items)] /\ items \in Seq(Items)
  BY <1>1, Types DEF SafeInv, Buffers
<1>5. BufGood(b)
  BY DEF SafeInv, BufferOK, BufGood
<1>6. CASE items = <<>>
  <2> DEFINE b2 == [b EXCEPT !.masters[m] = reason]
             none == <<>>
  <2>1. Put(x, b2, none)
    BY <1>6 DEF PutMaster
  <2>2. b2.masters = [b.masters EXCEPT ![m] = reason] /\ b2.paired = b.paired /\ b2.assets = b.assets
    BY <1>4 DEF Buffers
  <2> HIDE DEF b2
  <2>3. ASSUME NEW n \in Masters
        PROVE  /\ b2.masters[n] \in {Null, "created", "softDeleted"}
               /\ b2.paired[n] \in {Null, "created", "softDeleted"}
               /\ "softDeleted" \in {b2.masters[n], b2.paired[n]} => MasterGone(n)
               /\ b2.masters[n] # Null \/ b2.paired[n] # Null => b2.assets[n] = <<>>
               /\ \A y \in Elems(b2.assets[n]) : ItemOK(y, n)
    <3>1. CASE n = m
      BY <1>3, <1>4, <1>5, <1>6, <2>2, <3>1 DEF BufGood
    <3>2. CASE n # m
      BY <1>4, <1>5, <2>2, <3>2 DEF BufGood
    <3> QED BY <3>1, <3>2
  <2>4. BufGood(b2)
    BY <2>3 DEF BufGood
  <2>5. none \in Seq(Events) /\ Elems(none) = {}
    BY ElemsSmall
  <2> HIDE DEF none
  <2>6. Adds(x, none)
    BY <1>1, <2>5 DEF Adds
  <2> QED BY <2>1, <2>4, <2>5, <2>6
<1>7. CASE items # <<>>
  <2> DEFINE b2 == [b EXCEPT !.paired[m] = reason, !.assets[m] = <<>>]
             events == Group(items, m, reason)
  <2>1. Put(x, b2, events)
    BY <1>7 DEF PutMaster
  <2>2. b2.masters = b.masters /\ b2.paired = [b.paired EXCEPT ![m] = reason] /\ b2.assets = [b.assets EXCEPT ![m] = <<>>]
    BY <1>4 DEF Buffers
  <2> HIDE DEF b2
  <2>3. ASSUME NEW n \in Masters
        PROVE  /\ b2.masters[n] \in {Null, "created", "softDeleted"}
               /\ b2.paired[n] \in {Null, "created", "softDeleted"}
               /\ "softDeleted" \in {b2.masters[n], b2.paired[n]} => MasterGone(n)
               /\ b2.masters[n] # Null \/ b2.paired[n] # Null => b2.assets[n] = <<>>
               /\ \A y \in Elems(b2.assets[n]) : ItemOK(y, n)
    <3>1. CASE n = m
      <4>1. b2.masters[n] = b.masters[n] /\ b2.paired[n] = reason /\ b2.assets[n] = <<>> /\ Elems(b2.assets[n]) = {}
        BY <1>4, <2>2, <3>1, ElemsSmall
      <4> QED BY <1>3, <1>5, <3>1, <4>1 DEF BufGood
    <3>2. CASE n # m
      BY <1>4, <1>5, <2>2, <3>2 DEF BufGood
    <3> QED BY <3>1, <3>2
  <2>4. BufGood(b2)
    BY <2>3 DEF BufGood
  <2>5. /\ events \in Seq(Events) /\ DOMAIN events = DOMAIN items
        /\ \A i \in DOMAIN items : items[i] \in Items /\ events[i] = Event("pair", items[i].rec, Reconcile(reason, items[i].reason),
                                                                       IF i = 1 THEN m ELSE items[i].rec)
    BY <1>1, <1>3, <1>4, GroupSeq DEF Reasons
  <2> HIDE DEF events
  <2>6. ASSUME NEW e \in Elems(events) PROVE EventOK(e) /\ ~e.trashed /\ e.kind # "rel"
    <3>1. PICK i \in DOMAIN items : e = events[i]
      BY <2>5, <2>6 DEF Elems
    <3>2. ItemOK(items[i], m) /\ items[i].rec \in Assets /\ items[i].reason \in Reasons
      BY <1>1, <1>5, <2>5, ElemsAt DEF BufGood, Items
    <3>3. Reconcile(reason, items[i].reason) # "hardDeleted"
      BY <1>3, <3>2, Reasonable DEF ItemOK, Reasons
    <3>4. /\ e.kind = "pair" /\ e.rec = items[i].rec /\ e.reason = Reconcile(reason, items[i].reason)
          /\ e.id \in {m, items[i].rec} /\ ~e.trashed
      <4> DEFINE id == IF i = 1 THEN m ELSE items[i].rec
      <4>1. id \in {m, items[i].rec} /\ e = Event("pair", items[i].rec, Reconcile(reason, items[i].reason), id)
        BY <2>5, <3>1
      <4> HIDE DEF id
      <4> QED BY <4>1 DEF Event
    <3> QED BY <3>2, <3>3, <3>4 DEF EventOK, ItemOK
  <2>7. Adds(x, events)
    BY <1>1, <2>6 DEF Adds
  <2> QED BY <2>1, <2>4, <2>5, <2>7
<1> QED BY <1>6, <1>7

LEMMA PutAssetOK ==
    ASSUME SafeInv, NEW x \in prod.page, PutAsset(x)
    PROVE  \E buffer, events : Put(x, buffer, events) /\ events \in Seq(Events) /\ BufGood(buffer) /\ Adds(x, events)
<1> DEFINE b == prod.buffer
           m == MasterOf[x.rec]
           item == [rec |-> x.rec, reason |-> Reason(x.st)]
<1>1. x.rec \in Assets /\ x.st # "gone" /\ prod.pc = "send" /\ m \in Masters /\ x.rec \notin Relations
  BY Consts DEF PutAsset, Put
<1>2. x.st \in {"live", "hidden", "trashed"} /\ zone[x.rec].at > db.token /\ x.rec \notin run.purged
  BY <1>1, EntryFacts DEF EntryOK, States
<1>3. Reason(x.st) \in Reasons \ {"hardDeleted"}
  BY <1>2, Reasonable
<1>4. b \in Buffers /\ b.masters \in [Masters -> Reasons \cup {Null}] /\ b.paired \in [Masters -> Reasons \cup {Null}]
      /\ b.assets \in [Masters -> Seq(Items)] /\ b.assets[m] \in Seq(Items)
  BY <1>1, Types DEF SafeInv, Buffers
<1>5. BufGood(b)
  BY DEF SafeInv, BufferOK, BufGood
<1>6. item \in Items /\ item.rec = x.rec /\ item.reason = Reason(x.st) /\ ItemOK(item, m)
  BY <1>1, <1>2, <1>3 DEF Items, ItemOK
<1> HIDE DEF item
<1>7. ASSUME NEW reason \in {"created", "softDeleted"}, NEW id \in {m, x.rec}
      PROVE  <<Pair(item, reason, id)>> \in Seq(Events) /\ Adds(x, <<Pair(item, reason, id)>>)
  <2> DEFINE e == Pair(item, reason, id)
  <2>1. e.kind = "pair" /\ e.rec = x.rec /\ e.reason = Reconcile(reason, Reason(x.st)) /\ e.id = id /\ ~e.trashed
    BY <1>6 DEF Pair, Event
  <2>2. Reconcile(reason, Reason(x.st)) \in Reasons \ {"hardDeleted"}
    BY <1>3, Reasonable DEF Reasons
  <2>3. e \in Events
    BY <1>1, <1>6, <2>2, EventTypes DEF Pair
  <2> HIDE DEF e
  <2>4. EventOK(e)
    BY <1>1, <1>2, <2>1, <2>2 DEF EventOK
  <2> DEFINE es == <<e>>
  <2>5. es \in Seq(Events) /\ Elems(es) = {e}
    BY <2>3, OneEvent
  <2> HIDE DEF es
  <2>6. Adds(x, es)
    BY <1>1, <2>1, <2>4, <2>5 DEF Adds
  <2> QED BY <2>5, <2>6 DEF es, e
<1>8. CASE b.masters[m] # Null
  <2> DEFINE b2 == [b EXCEPT !.masters[m] = Null, !.paired[m] = b.masters[m]]
             events == <<Pair(item, b.masters[m], m)>>
  <2>1. Put(x, b2, events)
    BY <1>8 DEF PutAsset, item
  <2>2. b2.masters = [b.masters EXCEPT ![m] = Null] /\ b2.paired = [b.paired EXCEPT ![m] = b.masters[m]] /\ b2.assets = b.assets
    BY <1>4 DEF Buffers
  <2> HIDE DEF b2
  <2>3. BufGood(b2)
    <3>1. ASSUME NEW n \in Masters
          PROVE  /\ b2.masters[n] \in {Null, "created", "softDeleted"}
                 /\ b2.paired[n] \in {Null, "created", "softDeleted"}
                 /\ "softDeleted" \in {b2.masters[n], b2.paired[n]} => MasterGone(n)
                 /\ b2.masters[n] # Null \/ b2.paired[n] # Null => b2.assets[n] = <<>>
                 /\ \A y \in Elems(b2.assets[n]) : ItemOK(y, n)
      <4>1. CASE n = m
        <5>1. b2.masters[n] = Null /\ b2.paired[n] = b.masters[m] /\ b2.assets[n] = b.assets[m]
          BY <1>1, <1>4, <2>2, <4>1
        <5> QED BY <1>1, <1>5, <1>8, <4>1, <5>1, Consts DEF BufGood
      <4>2. CASE n # m
        BY <1>4, <1>5, <2>2, <4>2 DEF BufGood
      <4> QED BY <4>1, <4>2
    <3> QED BY <3>1 DEF BufGood
  <2>4. b.masters[m] \in {"created", "softDeleted"}
    BY <1>1, <1>5, <1>8 DEF BufGood
  <2>5. events \in Seq(Events) /\ Adds(x, events)
    BY <1>7, <2>4
  <2> QED BY <2>1, <2>3, <2>5
<1>9. CASE b.masters[m] = Null /\ b.paired[m] # Null
  <2>1. Put(x, b, <<Pair(item, b.paired[m], x.rec)>>)
    BY <1>9 DEF PutAsset, item
  <2>2. b.paired[m] \in {"created", "softDeleted"}
    BY <1>1, <1>5, <1>9 DEF BufGood
  <2>3. <<Pair(item, b.paired[m], x.rec)>> \in Seq(Events) /\ Adds(x, <<Pair(item, b.paired[m], x.rec)>>)
    BY <1>7, <2>2
  <2> QED BY <1>5, <2>1, <2>3
<1>10. CASE b.masters[m] = Null /\ b.paired[m] = Null
  <2> DEFINE s == Append(b.assets[m], item)
             b2 == [b EXCEPT !.assets[m] = s]
             none == <<>>
  <2>1. Put(x, b2, none)
    BY <1>10 DEF PutAsset, item
  <2>2. s \in Seq(Items) /\ Elems(s) = Elems(b.assets[m]) \cup {item}
    <3>1. \A w \in Seq(Items), y \in Items : Append(w, y) \in Seq(Items) /\ \A z : z \in Elems(Append(w, y)) <=> z \in Elems(w) \/ z = y
      BY ElemsMore
    <3>2. b.assets[m] \in Seq(Items) /\ item \in Items
      BY <1>4, <1>6
    <3> QED BY <3>1, <3>2
  <2> HIDE DEF s
  <2>3. b2.masters = b.masters /\ b2.paired = b.paired /\ b2.assets = [b.assets EXCEPT ![m] = s]
    BY <1>4 DEF Buffers
  <2> HIDE DEF b2
  <2>4. BufGood(b2)
    <3>1. ASSUME NEW n \in Masters
          PROVE  /\ b2.masters[n] \in {Null, "created", "softDeleted"}
                 /\ b2.paired[n] \in {Null, "created", "softDeleted"}
                 /\ "softDeleted" \in {b2.masters[n], b2.paired[n]} => MasterGone(n)
                 /\ b2.masters[n] # Null \/ b2.paired[n] # Null => b2.assets[n] = <<>>
                 /\ \A y \in Elems(b2.assets[n]) : ItemOK(y, n)
      <4>1. CASE n = m
        <5>1. b2.masters[n] = Null /\ b2.paired[n] = Null /\ b2.assets[n] = s
          BY <1>1, <1>4, <1>10, <2>3, <4>1
        <5> QED BY <1>1, <1>5, <1>6, <2>2, <4>1, <5>1, Consts DEF BufGood
      <4>2. CASE n # m
        BY <1>4, <1>5, <2>3, <4>2 DEF BufGood
      <4> QED BY <4>1, <4>2
    <3> QED BY <3>1 DEF BufGood
  <2>5. none \in Seq(Events) /\ Elems(none) = {}
    BY ElemsSmall
  <2> HIDE DEF none
  <2>6. Adds(x, none)
    BY <1>1, <2>5 DEF Adds
  <2> QED BY <2>1, <2>4, <2>5, <2>6
<1> QED BY <1>8, <1>9, <1>10
-----------------------------------------------------------------------------
(* The other records, and the step as a whole. *)

LEMMA AddsOne ==
    ASSUME NEW x, NEW e \in Events, EventOK(e), ~e.trashed,
           e.kind = "rel" => x.rec = Rel(e.rec) /\ e.reason = Reason(x.st),
           x.rec \in Relations => e.kind \in {"rel", "bad"},
           x.rec \in Assets /\ x.st = "gone" => e.kind = "bad" \/ Tomb(e, x.rec)
    PROVE  <<e>> \in Seq(Events) /\ Adds(x, <<e>>)
<1> DEFINE es == <<e>>
<1>1. es \in Seq(Events) /\ Elems(es) = {e} /\ es = <<e>>
  BY OneEvent
<1> HIDE DEF es
<1>2. Adds(x, es)
  BY <1>1 DEF Adds
<1> QED BY <1>1, <1>2

LEMMA PutOK ==
    ASSUME SafeInv, NEW x \in prod.page, PutMaster(x) \/ PutAsset(x) \/ PutTombstone(x) \/ PutRelation(x) \/ PutMalformed(x)
    PROVE  \E buffer, events : Put(x, buffer, events) /\ events \in Seq(Events) /\ BufGood(buffer) /\ Adds(x, events)
<1> DEFINE b == prod.buffer
<1>0. prod.pc = "send"
  BY DEF PutMaster, PutAsset, PutTombstone, PutRelation, PutMalformed, Put
<1>1. /\ x.rec \in Records /\ x.st \in States \ {"absent"} /\ EntryOK(x) /\ zone[x.rec].at > db.token
  BY <1>0, EntryFacts
<1>2. BufGood(b)
  BY DEF SafeInv, BufferOK, BufGood
<1>3. CASE PutTombstone(x)
  <2> DEFINE e == Event("tomb", x.rec, "hardDeleted", Null)
  <2>1. Put(x, b, <<e>>) /\ x.rec \in Keys /\ x.st = "gone"
    BY <1>3 DEF PutTombstone
  <2>2. e \in Events /\ e.kind = "tomb" /\ e.rec = x.rec /\ e.reason = "hardDeleted" /\ ~e.trashed
    <3>1. e \in Events
      BY <2>1, EventTypes DEF Reasons
    <3> QED BY <3>1 DEF Event
  <2> HIDE DEF e
  <2>3. EventOK(e) /\ x.rec \notin Relations /\ Tomb(e, x.rec)
    BY <1>1, <2>1, <2>2, Consts DEF EventOK, EntryOK, Tomb
  <2>4. <<e>> \in Seq(Events) /\ Adds(x, <<e>>)
    BY <2>2, <2>3, AddsOne
  <2> QED BY <1>2, <2>1, <2>4
<1>4. CASE PutRelation(x)
  <2> DEFINE e == Event("rel", x.rec[1], Reason(x.st), Null)
  <2>1. Put(x, b, <<e>>) /\ x.rec \in Relations /\ x.rec[1] \in Assets /\ x.rec = Rel(x.rec[1]) /\ x.rec \notin Assets
    BY <1>4, Consts DEF PutRelation
  <2>2. e \in Events /\ e.kind = "rel" /\ e.rec = x.rec[1] /\ e.reason = Reason(x.st) /\ ~e.trashed
    <3>1. e \in Events
      BY <2>1, EventTypes
    <3> QED BY <3>1 DEF Event
  <2> HIDE DEF e
  <2>3. EventOK(e)
    BY <1>1, <2>1, <2>2 DEF EventOK
  <2>4. <<e>> \in Seq(Events) /\ Adds(x, <<e>>)
    BY <2>1, <2>2, <2>3, AddsOne
  <2> QED BY <1>2, <2>1, <2>4
<1>5. CASE PutMalformed(x) /\ Put(x, b, <<Nameless("bad")>>)
  <2> DEFINE e == Nameless("bad")
  <2>1. e \in Events /\ e.kind = "bad" /\ e.reason = "created" /\ ~e.trashed
    <3>1. e \in Events
      BY EventTypes
    <3> QED BY <3>1 DEF Nameless, Event
  <2>2. Put(x, b, <<e>>)
    BY <1>5
  <2> HIDE DEF e
  <2>3. EventOK(e)
    BY <2>1 DEF EventOK
  <2>4. <<e>> \in Seq(Events) /\ Adds(x, <<e>>)
    BY <2>1, <2>3, AddsOne
  <2> QED BY <1>2, <2>2, <2>4
<1>6. CASE x.rec \in Assets /\ x.st # "gone" /\ Put(x, b, <<Event("bare", x.rec, Reason(x.st), Null)>>)
  <2> DEFINE e == Event("bare", x.rec, Reason(x.st), Null)
  <2>1. e \in Events /\ e.kind = "bare" /\ e.rec = x.rec /\ e.reason = Reason(x.st) /\ ~e.trashed
    <3>1. e \in Events
      BY <1>6, EventTypes
    <3> QED BY <3>1 DEF Event
  <2>2. Put(x, b, <<e>>) /\ x.rec \notin Relations
    BY <1>6, Consts
  <2>3. Reason(x.st) # "hardDeleted" /\ x.rec \notin run.purged
    BY <1>1, <1>6, Reasonable DEF States, EntryOK
  <2> HIDE DEF e
  <2>4. EventOK(e)
    BY <1>1, <1>6, <2>1, <2>3 DEF EventOK
  <2>5. <<e>> \in Seq(Events) /\ Adds(x, <<e>>)
    BY <1>6, <2>1, <2>2, <2>4, AddsOne
  <2> QED BY <1>2, <2>2, <2>5
<1> QED BY <1>3, <1>4, <1>5, <1>6, PutMasterOK, PutAssetOK DEF PutMalformed

(* The window: what the zone changed up to the oldest record is that record. *)
LEMMA PutWindow ==
    ASSUME SafeInv, prod.pc = "send", NEW x, Oldest(x), NEW r \in Records, zone[r].at > prod.token, zone[r].at <= x.at
    PROVE  x = Entry(r) /\ x.rec = r /\ x.st = zone[r].st /\ x.at = zone[r].at
<1>1. x \in prod.page /\ x.at \in Nat /\ zone[r].at \in Nat
  <2>1. x \in prod.page
    BY DEF Oldest
  <2> QED BY <2>1, EntryFacts, Types DEF SafeInv
<1>2. Entry(r) \in prod.page /\ Entry(r).at = zone[r].at
  BY <1>1 DEF SafeInv, PageOK, Entry
<1>3. x.at <= Entry(r).at
  BY <1>2 DEF Oldest
<1>4. x.at = Entry(r).at
  BY <1>1, <1>2, <1>3
<1>5. x = Entry(r)
  BY <1>1, <1>2, <1>4 DEF SafeInv, PageOK
<1> QED BY <1>5 DEF Entry

LEMMA PutInv ==
    ASSUME SafeInv, PutRecord
    PROVE  SafeInv'
<1>0. DeltaTypeOK' /\ DeltaTypeOK /\ ProducerStep
  BY ProducerTypes DEF ProducerStep, SafeInv
<1>1. /\ UNCHANGED <<zone, cfg, db, run, pipe, stopped>>
      /\ ZoneOK' /\ KeptOK' /\ ReadyOK' /\ PipeOK' /\ RowsOK' /\ MembershipSound'
  BY <1>0, ProducerFrame
<1>2. PICK x, buffer, events : x \in prod.page /\ Put(x, buffer, events) /\ events \in Seq(Events) /\ BufGood(buffer) /\ Adds(x, events)
  BY PutOK DEF PutRecord
<1>3. /\ prod.pc = "send" /\ prod.todo = <<>> /\ Oldest(x) /\ channel' = channel
      /\ prod'.pc = prod.pc /\ prod'.page = prod.page \ {x} /\ prod'.token = x.at /\ prod'.buffer = buffer
      /\ prod'.todo = events /\ prod'.more = prod.more /\ prod'.failed = prod.failed
  BY <1>0, <1>2, Types DEF Put, Producers
<1>4. /\ x.rec \in Records /\ x.st \in States \ {"absent"} /\ x.at \in Nat /\ EntryOK(x)
      /\ x.at > prod.token /\ x.at > db.token /\ zone[x.rec].at >= x.at /\ zone[x.rec].at \in Nat /\ prod.token \in Nat
  BY <1>2, <1>3, EntryFacts
<1>5. /\ Flow' = Flow \o events /\ Line' = Line \o events /\ Elems(Flow') = Elems(Flow) \cup Elems(events)
  BY <1>0, <1>1, <1>2, <1>3, LineGrows
<1>6. /\ run.token = Null /\ Frontier = prod.token /\ db.token \in Nat /\ \A r \in Records : zone[r].at \in Nat
      /\ ~Doomed => run.pc = "read" /\ ~stopped
  BY <1>0, <1>3, ProducerRuns, Types
<1>7. Frontier' = x.at
  <2>1. x.at # Null
    BY <1>4, Consts
  <2> QED BY <1>1, <1>3, <1>6, <2>1 DEF Frontier
<1>8. Doomed => Doomed'
  BY <1>1, <1>3, <1>5 DEF Doomed
<1>9. ShapeOK'
  <2>1. prod.pc # "off" /\ prod' # Off /\ x.at >= db.token /\ x.at # Null
    BY <1>3, <1>4, <1>6, OffFields, Consts
  <2>2. run.pc \notin {"idle", "backfill"} /\ (run.pc \in Late => stopped)
    BY <1>3, OffFields DEF SafeInv, ShapeOK
  <2>3. run.pc \in Late \ {"await"} /\ ~Streaming => prod.pc = "off"
    BY DEF SafeInv, ShapeOK
  <2>4. ~prod.failed
    BY <1>3 DEF SafeInv, ShapeOK
  <2> QED BY <1>1, <1>3, <1>6, <2>1, <2>2, <2>3, <2>4 DEF SafeInv, ShapeOK, Streaming, Late
<1>10. PageOK'
  <2>1. PageOK /\ \A y \in prod.page : y.at \in Nat /\ EntryOK(y)
    BY <1>3, EntryFacts DEF SafeInv
  <2>2. ASSUME NEW y \in prod'.page PROVE y \in prod.page /\ y.at > x.at
    <3>1. y \in prod.page /\ y # x /\ x.at <= y.at
      BY <1>3, <2>2 DEF Oldest
    <3>2. x.at # y.at
      BY <1>2, <2>1, <3>1 DEF PageOK
    <3> QED BY <1>4, <2>1, <3>1, <3>2
  <2>3. ASSUME NEW y \in prod'.page PROVE EntryOK(y)'
    <3>1. EntryOK(y) /\ y.at > x.at
      BY <2>1, <2>2, <2>3
    <3> QED BY <1>1, <1>3, <3>1 DEF EntryOK
  <2>4. ASSUME NEW r \in Records, NEW y \in prod'.page, zone[r].at > x.at, zone[r].at <= y.at
        PROVE  Entry(r) \in prod'.page
    <3>1. Entry(r) \in prod.page
      BY <1>4, <1>6, <2>1, <2>2, <2>4 DEF PageOK
    <3>2. Entry(r).at # x.at
      BY <1>4, <1>6, <2>4 DEF Entry
    <3> QED BY <1>3, <3>1, <3>2
  <2> QED BY <1>1, <1>3, <2>1, <2>2, <2>3, <2>4 DEF PageOK, Entry
<1>11. BufferOK'
  BY <1>1, <1>2, <1>3 DEF BufferOK, BufGood, MasterGone, ItemOK
<1>12. FlowOK'
  <2>1. \A e \in Elems(Flow') : EventOK(e) /\ ~e.trashed
    BY <1>2, <1>5 DEF SafeInv, FlowOK, Adds
  <2> QED BY <1>1, <2>1 DEF FlowOK, EventOK
<1>13. RelationsOK'
  <2> SUFFICES ASSUME cfg.album, ~Doomed', NEW a \in Assets, zone[Rel(a)].at > db.token, zone[Rel(a)].at <= x.at
               PROVE  run.pc = "read" /\ RelLast(Line, a, 0)'
    <3>1. Line' = Line' /\ run' = run /\ zone' = zone /\ cfg' = cfg /\ db' = db
      BY <1>1
    <3> QED BY <1>7, <3>1 DEF RelationsOK
  <2>1. ~Doomed /\ run.pc = "read"
    BY <1>6, <1>8
  <2>2. Rel(a) \in Records /\ Rel(a) \in Relations
    BY Consts
  <2>3. Line \in Seq(Events)
    BY <1>0, Types
  <2>4. RelLast(Line \o events, a, 0)
    <3>1. CASE zone[Rel(a)].at <= prod.token
      <4>1. RelLast(Line, a, 0)
        BY <1>6, <2>1, <3>1 DEF SafeInv, RelationsOK
      <4>2. x.rec # Rel(a)
        BY <1>4, <3>1
      <4>3. RelSame(events, a)
        BY <1>2, <4>2 DEF RelSame, RelOf, Adds
      <4> QED BY <1>2, <2>3, <4>1, <4>3, RelKeep
    <3>2. CASE zone[Rel(a)].at > prod.token
      <4>1. x.rec = Rel(a) /\ x.st = zone[Rel(a)].st
        BY <1>3, <2>2, <3>2, PutWindow
      <4>2. PICK e \in Elems(events) : e.kind \in {"rel", "bad"}
        BY <1>2, <2>2, <4>1 DEF Adds
      <4>3. e.kind # "bad"
        BY <1>5 DEF Doomed
      <4>4. e.kind = "rel" /\ events = <<e>> /\ Rel(e.rec) = Rel(a) /\ e.reason = Reason(x.st) /\ EventOK(e)
        BY <1>2, <4>1, <4>2, <4>3 DEF Adds
      <4>5. e.rec = a
        BY <4>4, Consts DEF EventOK
      <4>6. x.st \in {"live", "gone"}
        BY <1>4, <2>2, <4>1 DEF EntryOK
      <4>7. e.reason = "created" <=> Exists(Rel(a))
        BY <4>1, <4>4, <4>6, Reasonable DEF Exists
      <4>8. Says(e, a) /\ e \in Events
        <5>1. e \in Events
          BY <1>2, <4>2 DEF Elems
        <5> QED BY <4>4, <4>5, <4>7, <5>1 DEF Says, RelOf
      <4> QED BY <2>3, <4>4, <4>8, RelNew
    <3> QED BY <1>4, <1>6, <2>2, <3>1, <3>2
  <2>5. (\A e : Says(e, a)' = Says(e, a)) /\ (\A e : RelOf(e, a)' = RelOf(e, a))
    BY <1>1 DEF Says, RelOf, Exists
  <2> QED BY <1>5, <2>1, <2>4, <2>5 DEF RelLast
<1>14. TombsOK'
  <2>1. ASSUME ~Doomed', NEW a \in run.purged, zone[a].at > db.token, Unread(a)
        PROVE  Unread(a)' \/ \E e \in Elems(Flow') : Tomb(e, a)
    <3>1. a \in Records /\ a \in Assets /\ run.pc = "read" /\ zone[a].at > prod.token
          /\ (prod.more \/ \E y \in prod.page : y.rec = a)
      BY <1>0, <1>3, <1>6, <2>1, Types, Consts DEF Runs, Unread
    <3>2. CASE x.rec = a
      <4>1. x.st = "gone"
        BY <1>4, <3>1, <3>2 DEF EntryOK
      <4>2. PICK e \in Elems(events) : e.kind = "bad" \/ Tomb(e, a)
        BY <1>2, <3>1, <3>2, <4>1 DEF Adds
      <4>3. e.kind # "bad" /\ e \in Elems(Flow')
        BY <1>5, <2>1 DEF Doomed
      <4> QED BY <4>2, <4>3
    <3>3. CASE x.rec # a
      <4>1. ~(zone[a].at <= x.at)
        BY <1>3, <3>1, <3>3, PutWindow
      <4>2. zone[a].at > x.at
        BY <1>4, <1>6, <3>1, <4>1
      <4>3. prod'.more \/ \E y \in prod'.page : y.rec = a
        BY <1>3, <3>1, <3>3
      <4> QED BY <1>1, <1>3, <1>7, <3>1, <4>2, <4>3 DEF Unread
    <3> QED BY <3>2, <3>3
  <2>2. \A a \in run.purged : TombKept(a) => TombKept(a)'
    BY <1>1 DEF TombKept, Tomb
  <2>3. \A a \in run.purged : (\E e \in Elems(Flow) : Tomb(e, a)) => \E e \in Elems(Flow') : Tomb(e, a)
    BY <1>5
  <2>4. /\ \A a \in run.purged : zone[a].st = "gone"
        /\ ~Doomed => \A a \in run.purged : zone[a].at > db.token =>
              \/ Unread(a) \/ (\E e \in Elems(Flow) : Tomb(e, a)) \/ TombKept(a) \/ ~Waiting(db, a)
    BY DEF SafeInv, TombsOK
  <2> QED BY <1>1, <1>8, <2>1, <2>2, <2>3, <2>4 DEF TombsOK, Tomb, Waiting
<1> QED BY <1>0, <1>1, <1>9, <1>10, <1>11, <1>12, <1>13, <1>14 DEF SafeInv
-----------------------------------------------------------------------------
(* The rest of the buffer. *)

(* The events of a flush are no relations, and about what the buffer held. *)
FlushAdds(events) == \A e \in Elems(events) : EventOK(e) /\ ~e.trashed /\ e.kind # "rel"

LEMMA FlushOK ==
    ASSUME SafeInv, Flush
    PROVE  \/ \E b \in Buffers, events \in Seq(Events), failed \in BOOLEAN :
                 /\ prod' = [prod EXCEPT !.buffer = b, !.todo = events, !.failed = failed]
                 /\ BufGood(b) /\ FlushAdds(events) /\ (failed => prod.failed)
                 /\ prod.failed => failed \/ \E e \in Elems(events) : e.kind = "err"
           \/ Flushed(prod.buffer) /\ ~prod.failed /\ prod' = [prod EXCEPT !.pc = "done"]
<1> DEFINE b == prod.buffer
           Goal == \E b2 \in Buffers, events \in Seq(Events), failed \in BOOLEAN :
                 /\ prod' = [prod EXCEPT !.buffer = b2, !.todo = events, !.failed = failed]
                 /\ BufGood(b2) /\ FlushAdds(events) /\ (failed => prod.failed)
                 /\ prod.failed => failed \/ \E e \in Elems(events) : e.kind = "err"
<1>1. b \in Buffers /\ b.masters \in [Masters -> Reasons \cup {Null}] /\ b.paired \in [Masters -> Reasons \cup {Null}]
      /\ b.assets \in [Masters -> Seq(Items)] /\ prod \in Producers /\ prod.failed \in BOOLEAN
  BY Types DEF SafeInv, Buffers, Producers
<1>2. BufGood(b)
  BY DEF SafeInv, BufferOK, BufGood
<1>3. ASSUME NEW m \in Masters, b.masters[m] # Null,
             prod' = [prod EXCEPT !.buffer.masters[m] = Null, !.todo = <<Event("master", m, b.masters[m], Null)>>]
      PROVE  Goal
  <2> DEFINE e == Event("master", m, b.masters[m], Null)
             es == <<e>>
             b2 == [b EXCEPT !.masters = [b.masters EXCEPT ![m] = Null]]
             n2 == [b.masters EXCEPT ![m] = Null]
  <2>1. b.masters[m] \in {"created", "softDeleted"}
    BY <1>2, <1>3 DEF BufGood
  <2>2. e \in Events /\ e.kind = "master" /\ e.rec = m /\ e.reason = b.masters[m] /\ ~e.trashed
    <3>1. e \in Events
      BY <1>3, <2>1, EventTypes DEF Reasons
    <3> QED BY <3>1 DEF Event
  <2>3. prod' = [prod EXCEPT !.buffer = b2, !.todo = es, !.failed = prod.failed]
    BY <1>1, <1>3 DEF Producers, Buffers
  <2> HIDE DEF e
  <2>4. es \in Seq(Events) /\ Elems(es) = {e}
    BY <2>2, OneEvent
  <2> HIDE DEF es
  <2>5. EventOK(e)
    BY <2>1, <2>2 DEF EventOK
  <2>6. n2 \in [Masters -> Reasons \cup {Null}] /\ n2[m] = Null /\ \A n \in Masters : n # m => n2[n] = b.masters[n]
    BY <1>1
  <2>7. b2 = [b EXCEPT !.masters = n2]
    OBVIOUS
  <2> HIDE DEF n2
  <2>8. b2 \in Buffers /\ b2.masters = n2 /\ b2.paired = b.paired /\ b2.assets = b.assets
    BY <1>1, <2>6, <2>7 DEF Buffers
  <2> HIDE DEF b2
  <2>9. BufGood(b2)
    <3>1. ASSUME NEW n \in Masters
          PROVE  /\ b2.masters[n] \in {Null, "created", "softDeleted"}
                 /\ b2.paired[n] \in {Null, "created", "softDeleted"}
                 /\ "softDeleted" \in {b2.masters[n], b2.paired[n]} => MasterGone(n)
                 /\ b2.masters[n] # Null \/ b2.paired[n] # Null => b2.assets[n] = <<>>
                 /\ \A y \in Elems(b2.assets[n]) : ItemOK(y, n)
      <4>1. CASE n = m
        BY <1>2, <2>6, <2>8, <4>1, Consts DEF BufGood
      <4>2. CASE n # m
        BY <1>2, <2>6, <2>8, <4>2 DEF BufGood
      <4> QED BY <4>1, <4>2
    <3> QED BY <3>1 DEF BufGood
  <2>10. FlushAdds(es)
    BY <2>2, <2>4, <2>5 DEF FlushAdds
  <2> QED BY <1>1, <2>3, <2>4, <2>8, <2>9, <2>10
<1>4. ASSUME NEW m \in Masters, b.assets[m] # <<>>,
             prod' = [prod EXCEPT !.buffer.assets[m] = <<>>, !.todo = Halves(b.assets[m])]
      PROVE  Goal
  <2> DEFINE items == b.assets[m]
             es == Halves(items)
             n2 == [b.assets EXCEPT ![m] = <<>>]
             b2 == [b EXCEPT !.assets = n2]
  <2>1. items \in Seq(Items)
    BY <1>1
  <2>2. es \in Seq(Events) /\ DOMAIN es = DOMAIN items
        /\ \A i \in DOMAIN items : items[i] \in Items /\ es[i] = Event("asset", items[i].rec, items[i].reason, Null)
    <3> HIDE DEF items
    <3>1. "created" \in Reasons
      BY DEF Reasons
    <3> QED BY <1>4, <2>1, <3>1, GroupSeq
  <2>3. prod' = [prod EXCEPT !.buffer = b2, !.todo = es, !.failed = prod.failed]
    BY <1>1, <1>4 DEF Producers, Buffers
  <2> HIDE DEF es
  <2>4. ASSUME NEW e \in Elems(es) PROVE EventOK(e) /\ ~e.trashed /\ e.kind # "rel"
    <3>1. PICK i \in DOMAIN items : e = es[i]
      BY <2>2, <2>4 DEF Elems
    <3>2. ItemOK(items[i], m) /\ items[i].rec \in Assets
      BY <1>2, <2>2, ElemsAt DEF BufGood, Items
    <3>3. e.kind = "asset" /\ e.rec = items[i].rec /\ e.reason = items[i].reason /\ ~e.trashed
      <4>1. e = Event("asset", items[i].rec, items[i].reason, Null)
        BY <2>2, <3>1
      <4> QED BY <4>1 DEF Event
    <3> QED BY <3>2, <3>3 DEF EventOK, ItemOK
  <2>5. n2 \in [Masters -> Seq(Items)] /\ n2[m] = <<>> /\ \A n \in Masters : n # m => n2[n] = b.assets[n]
    BY <1>1
  <2> HIDE DEF n2
  <2>6. b2 \in Buffers /\ b2.masters = b.masters /\ b2.paired = b.paired /\ b2.assets = n2
    BY <1>1, <2>5 DEF Buffers
  <2> HIDE DEF b2
  <2>7. BufGood(b2)
    <3>1. ASSUME NEW n \in Masters
          PROVE  /\ b2.masters[n] \in {Null, "created", "softDeleted"}
                 /\ b2.paired[n] \in {Null, "created", "softDeleted"}
                 /\ "softDeleted" \in {b2.masters[n], b2.paired[n]} => MasterGone(n)
                 /\ b2.masters[n] # Null \/ b2.paired[n] # Null => b2.assets[n] = <<>>
                 /\ \A y \in Elems(b2.assets[n]) : ItemOK(y, n)
      <4>1. CASE n = m
        <5>1. b2.assets[n] = <<>> /\ Elems(b2.assets[n]) = {}
          BY <2>5, <2>6, <4>1, ElemsSmall
        <5> QED BY <1>2, <2>6, <4>1, <5>1 DEF BufGood
      <4>2. CASE n # m
        BY <1>2, <2>5, <2>6, <4>2 DEF BufGood
      <4> QED BY <4>1, <4>2
    <3> QED BY <3>1 DEF BufGood
  <2>8. FlushAdds(es)
    BY <2>4 DEF FlushAdds
  <2> QED BY <1>1, <2>2, <2>3, <2>6, <2>7, <2>8
<1>5. ASSUME prod.failed, prod' = [prod EXCEPT !.failed = FALSE, !.todo = <<Nameless("err")>>]
      PROVE  Goal
  <2> DEFINE e == Nameless("err")
             es == <<e>>
  <2>1. e \in Events /\ e.kind = "err" /\ e.reason = "created" /\ ~e.trashed
    <3>1. e \in Events
      BY EventTypes
    <3> QED BY <3>1 DEF Nameless, Event
  <2>2. prod' = [prod EXCEPT !.buffer = b, !.todo = es, !.failed = FALSE]
    BY <1>1, <1>5 DEF Producers
  <2> HIDE DEF e
  <2>3. es \in Seq(Events) /\ Elems(es) = {e}
    BY <2>1, OneEvent
  <2> HIDE DEF es
  <2>4. EventOK(e)
    BY <2>1 DEF EventOK
  <2>5. FlushAdds(es)
    BY <2>1, <2>3, <2>4 DEF FlushAdds
  <2> QED BY <1>1, <1>2, <2>1, <2>2, <2>3, <2>5
<1> HIDE DEF Goal
<1>6. Goal \/ (Flushed(prod.buffer) /\ ~prod.failed /\ prod' = [prod EXCEPT !.pc = "done"])
  BY <1>3, <1>4, <1>5 DEF Flush
<1> QED BY <1>6 DEF Goal

LEMMA FlushInv ==
    ASSUME SafeInv, Flush
    PROVE  SafeInv'
<1>0. DeltaTypeOK' /\ DeltaTypeOK /\ ProducerStep
  BY ProducerTypes DEF ProducerStep, SafeInv
<1>1. /\ UNCHANGED <<zone, cfg, db, run, pipe, stopped>>
      /\ ZoneOK' /\ KeptOK' /\ ReadyOK' /\ PipeOK' /\ RowsOK' /\ MembershipSound'
  BY <1>0, ProducerFrame
<1>2. prod.pc = "flush" /\ prod.todo = <<>> /\ channel' = channel /\ prod \in Producers /\ prod.page = {}
  BY <1>0, Types DEF Flush, SafeInv, ShapeOK
<1>3. /\ run.token = Null /\ Frontier = prod.token
      /\ ~Doomed => run.pc = "read" /\ ~stopped
  BY <1>2, ProducerRuns
<1>4. run.pc \notin {"idle", "backfill"} /\ (run.pc \in Late => stopped)
      /\ (run.pc \in Late \ {"await"} /\ ~Streaming => prod.pc = "off")
  BY <1>2, OffFields DEF SafeInv, ShapeOK
<1>5. CASE Flushed(prod.buffer) /\ ~prod.failed /\ prod' = [prod EXCEPT !.pc = "done"]
  <2>1. /\ prod'.pc = "done" /\ prod'.more = prod.more /\ prod'.page = prod.page /\ prod'.token = prod.token
        /\ prod'.buffer = prod.buffer /\ prod'.todo = prod.todo /\ prod'.failed = prod.failed
    BY <1>2, <1>5 DEF Producers
  <2>2. Flow' = Flow /\ Frontier' = Frontier
    BY <1>1, <1>2, <2>1 DEF Flow, Frontier
  <2>3. FlowOK' /\ RelationsOK' /\ Doomed' = Doomed
    BY <1>1, <1>2, <2>1, <2>2, SameLine
  <2>4. ShapeOK'
    <3>1. prod' # Off
      BY <2>1, OffFields
    <3> QED BY <1>1, <1>2, <1>4, <1>5, <2>1, <3>1 DEF SafeInv, ShapeOK, Streaming, Late
  <2>5. PageOK' /\ BufferOK'
    BY <1>1, <2>1 DEF SafeInv, PageOK, EntryOK, Entry, BufferOK, MasterGone, ItemOK
  <2>6. TombsOK'
    <3>1. \A a \in run.purged : ~Unread(a) /\ (TombKept(a) => TombKept(a)')
      BY <1>1, <1>2 DEF TombKept, Tomb, Unread
    <3> QED BY <1>1, <2>2, <2>3, <3>1 DEF SafeInv, TombsOK, Tomb, Waiting
  <2> QED BY <1>0, <1>1, <2>3, <2>4, <2>5, <2>6 DEF SafeInv
<1>6. ASSUME NEW b \in Buffers, NEW events \in Seq(Events), NEW failed \in BOOLEAN,
             prod' = [prod EXCEPT !.buffer = b, !.todo = events, !.failed = failed],
             BufGood(b), FlushAdds(events), failed => prod.failed,
             prod.failed => failed \/ \E e \in Elems(events) : e.kind = "err"
      PROVE  SafeInv'
  <2>1. /\ prod'.pc = prod.pc /\ prod'.more = prod.more /\ prod'.page = prod.page /\ prod'.token = prod.token
        /\ prod'.buffer = b /\ prod'.todo = events /\ prod'.failed = failed
    BY <1>2, <1>6 DEF Producers
  <2>2. Flow' = Flow \o events /\ Line' = Line \o events /\ Elems(Flow') = Elems(Flow) \cup Elems(events)
    BY <1>0, <1>1, <1>2, <1>6, <2>1, LineGrows
  <2>3. Frontier' = Frontier /\ (Doomed => Doomed')
    BY <1>1, <1>6, <2>1, <2>2 DEF Frontier, Doomed
  <2>4. FlowOK'
    <3>1. \A e \in Elems(Flow') : EventOK(e) /\ ~e.trashed
      BY <1>6, <2>2 DEF SafeInv, FlowOK, FlushAdds
    <3> QED BY <1>1, <3>1 DEF FlowOK, EventOK
  <2>5. ShapeOK'
    <3>1. prod' # Off /\ prod'.pc = "flush"
      BY <1>2, <2>1, OffFields
    <3> QED BY <1>1, <1>2, <1>4, <2>1, <3>1 DEF SafeInv, ShapeOK, Streaming, Late
  <2>6. PageOK' /\ BufferOK'
    BY <1>1, <1>2, <1>6, <2>1 DEF PageOK, BufferOK, BufGood, MasterGone, ItemOK
  <2>7. RelationsOK'
    <3> SUFFICES ASSUME cfg.album, ~Doomed', NEW a \in Assets, zone[Rel(a)].at > db.token, zone[Rel(a)].at <= Frontier
                 PROVE  run.pc = "read" /\ RelLast(Line, a, 0)'
      BY <1>1, <2>3 DEF RelationsOK
    <3>1. ~Doomed /\ run.pc = "read" /\ Line \in Seq(Events)
      BY <1>0, <1>3, <2>3, Types
    <3>2. RelLast(Line, a, 0)
      BY <3>1 DEF SafeInv, RelationsOK
    <3>3. RelSame(events, a)
      BY <1>6 DEF RelSame, RelOf, FlushAdds
    <3>4. RelLast(Line \o events, a, 0)
      BY <1>6, <3>1, <3>2, <3>3, RelKeep
    <3>5. (\A e : Says(e, a)' = Says(e, a)) /\ (\A e : RelOf(e, a)' = RelOf(e, a))
      BY <1>1 DEF Says, RelOf, Exists
    <3> QED BY <2>2, <3>1, <3>4, <3>5 DEF RelLast
  <2>8. TombsOK'
    <3>1. \A a \in run.purged : ~Unread(a) /\ (TombKept(a) => TombKept(a)')
      BY <1>1, <1>2 DEF TombKept, Tomb, Unread
    <3>2. \A a \in run.purged : (\E e \in Elems(Flow) : Tomb(e, a)) => \E e \in Elems(Flow') : Tomb(e, a)
      BY <2>2
    <3> QED BY <1>1, <2>3, <3>1, <3>2 DEF SafeInv, TombsOK, Tomb, Waiting
  <2> QED BY <1>0, <1>1, <2>4, <2>5, <2>6, <2>7, <2>8 DEF SafeInv
<1> QED BY <1>5, <1>6, FlushOK

LEMMA ProducerInv ==
    ASSUME SafeInv, ProducerStep
    PROVE  SafeInv'
  BY FetchInv, PageFailsInv, PutInv, SendInv, EndPageInv, FlushInv DEF ProducerStep
-----------------------------------------------------------------------------
(* The steps in the middle of a run, field by field. *)

LEMMA CollectRun ==
    ASSUME SafeInv, CollectEvent
    PROVE  LET e == Head(channel)
           IN  /\ run.pc = "read" /\ ~Streaming /\ channel # <<>> /\ ~stopped /\ channel' = Tail(channel)
               /\ db' = db /\ prod' = prod /\ pipe' = pipe
               /\ run'.at = run.at /\ run'.ready = run.ready /\ run'.missing = run.missing /\ run'.known = run.known
               /\ run'.token = run.token
               /\ \/ e.kind = "err" /\ run'.pc = "failed" /\ run'.events = run.events
                  \/ /\ e.kind # "err" /\ run'.pc = "read" /\ run'.events = Append(run.events, e)
                     /\ e.kind = "bad" => run'.unsafe
<1>1. run \in Runs
  BY Types DEF SafeInv
<1> QED BY <1>1 DEF CollectEvent, Runs

LEMMA StreamRun ==
    ASSUME SafeInv, StreamEvent
    PROVE  LET e == Head(channel)
           IN  /\ run.pc = "read" /\ Streaming /\ channel # <<>> /\ ~stopped /\ channel' = Tail(channel)
               /\ prod' = prod
               /\ run'.at = run.at /\ run'.ready = run.ready /\ run'.missing = run.missing /\ run'.known = run.known
               /\ run'.token = run.token
               /\ \/ /\ e.kind = "rel" \/ Half(e)
                     /\ run'.pc = "read" /\ run'.events = Append(run.events, e) /\ db' = db /\ pipe' = pipe
                  \/ /\ Fresh(e) /\ run'.pc = "read" /\ run'.events = run.events
                     /\ pipe' = Append(pipe, [asset |-> e.rec, trashed |-> FALSE])
                  \/ /\ e.kind \notin {"rel", "bad", "err"} /\ ~Half(e) /\ ~Fresh(e)
                     /\ run'.pc = "read" /\ run'.events = run.events /\ pipe' = pipe
                     /\ run'.unsafe \/ db' = ApplySourceState(IF e.kind = "pair" THEN Mapped(db, {e.rec}) ELSE db, e)
                  \/ e.kind = "bad" /\ run'.pc = "read" /\ run'.unsafe /\ run'.events = run.events /\ pipe' = pipe /\ db' = db
                  \/ e.kind = "err" /\ run'.pc = "failed" /\ run'.events = run.events /\ pipe' = pipe /\ db' = db
<1>1. run \in Runs
  BY Types DEF SafeInv
<1> DEFINE e == Head(channel)
<1>2. run.pc = "read" /\ Streaming /\ channel # <<>> /\ ~stopped /\ channel' = Tail(channel) /\ prod' = prod
  BY DEF StreamEvent
<1>3. CASE StreamKeeps(e)
  BY <1>1, <1>2, <1>3 DEF StreamKeeps, Runs
<1>4. CASE StreamOffers(e)
  BY <1>1, <1>2, <1>4 DEF StreamOffers, Writes, Runs
<1>5. CASE StreamApplies(e)
  BY <1>1, <1>2, <1>5 DEF StreamApplies, Writes, Runs
<1>6. CASE StreamBreaks(e)
  BY <1>1, <1>2, <1>6 DEF StreamBreaks, Runs
<1> QED BY <1>3, <1>4, <1>5, <1>6 DEF StreamEvent

LEMMA PassRun ==
    ASSUME SafeInv, BreakAtStop \/ EndOfDelta \/ ReceiveToken
    PROVE  /\ db' = db /\ pipe' = pipe /\ run'.events = run.events /\ run'.at = run.at /\ run'.ready = run.ready
           /\ run'.missing = run.missing /\ run'.known = run.known /\ run'.unsafe = run.unsafe
           /\ \/ /\ run.pc = "read" /\ stopped /\ channel # <<>> /\ run'.token = run.token
                 /\ \/ channel' = Tail(channel) /\ prod' = prod /\ run'.pc = IF Streaming THEN "hydrate" ELSE "await"
                    \/ Streaming /\ channel' = <<>> /\ prod' = Off /\ run'.pc = "report"
              \/ /\ run.pc = "read" /\ channel = <<>> /\ prod.pc = "done" /\ channel' = channel /\ prod' = prod
                 /\ run'.pc = (IF Streaming THEN "hydrate" ELSE "await") /\ run'.token = run.token
              \/ /\ run.pc = "await" /\ prod.pc = "done" /\ channel' = <<>> /\ prod' = Off
                 /\ run'.pc = (IF Streaming THEN "report" ELSE "map") /\ run'.token = prod.token
<1>1. run \in Runs
  BY Types DEF SafeInv
<1>2. CASE BreakAtStop
  BY <1>1, <1>2 DEF BreakAtStop, Runs
<1>3. CASE EndOfDelta
  BY <1>1, <1>3 DEF EndOfDelta, Runs
<1>4. CASE ReceiveToken
  BY <1>1, <1>4 DEF ReceiveToken, Runs
<1> QED BY <1>2, <1>3, <1>4

LEMMA MapRun ==
    ASSUME SafeInv, MapPairs
    PROVE  /\ run.pc = "map" /\ run'.pc = "hydrate" /\ run'.events = run.events /\ run'.at = run.at /\ run'.ready = run.ready
           /\ run'.missing = run.missing /\ run'.token = run.token
           /\ run'.known = {a \in Assets : \E i \in DOMAIN run.events : run.events[i].kind = "pair" /\ run.events[i].rec = a}
           /\ UNCHANGED <<prod, channel, pipe>>
<1>1. run \in Runs
  BY Types DEF SafeInv
<1> DEFINE pairs == {a \in Assets : \E i \in DOMAIN run.events : run.events[i].kind = "pair" /\ run.events[i].rec = a}
           next == [run EXCEPT !.pc = "hydrate", !.known = pairs]
<1>2. run.pc = "map" /\ UNCHANGED <<prod, channel, pipe>> /\ run' \in {next, [next EXCEPT !.unsafe = TRUE]}
  BY DEF MapPairs, Writes
<1> HIDE DEF pairs
<1>3. /\ run'.pc = "hydrate" /\ run'.events = run.events /\ run'.at = run.at /\ run'.ready = run.ready
      /\ run'.missing = run.missing /\ run'.token = run.token /\ run'.known = pairs
  BY <1>1, <1>2 DEF Runs
<1> QED BY <1>2, <1>3 DEF pairs

LEMMA PhaseRun ==
    ASSUME SafeInv, NextPhase
    PROVE  /\ Left = {} /\ run'.events = run.events /\ run'.known = run.known /\ run'.unsafe = run.unsafe /\ run'.token = run.token
           /\ run'.at = 0 /\ UNCHANGED <<db, prod, channel, pipe>>
           /\ run'.pc # "apply" \/ run.pc = "relate"
           /\ \/ /\ run'.ready = run.ready /\ run'.missing = run.missing
                 /\ \/ run.pc = "hydrate" /\ run'.pc = IF Streaming THEN "offer" ELSE "select"
                    \/ run.pc = "offer" /\ run'.pc = "relate"
                    \/ run.pc = "scan" /\ run.missing = {} /\ run'.pc = "relate"
                    \/ run.pc = "relate" /\ run'.pc = IF Streaming THEN "await" ELSE "apply"
                    \/ run.pc = "plan" /\ run.at = Len(run.ready) /\ run'.pc = "report"
              \/ run.pc = "select" /\ run'.pc = "scan" /\ run'.missing = Missing /\ run'.ready = run.ready
              \/ run.pc = "apply" /\ run'.pc = "plan" /\ run'.missing = run.missing /\ run'.ready = Capped(run.ready)
<1>1. run \in Runs
  BY Types DEF SafeInv
<1>2. CASE run.pc = "hydrate" /\ run' = [run EXCEPT !.pc = IF Streaming THEN "offer" ELSE "select", !.at = 0]
  BY <1>1, <1>2 DEF NextPhase, Runs
<1>3. CASE run.pc = "offer" /\ run' = [run EXCEPT !.pc = "relate", !.at = 0]
  BY <1>1, <1>3 DEF NextPhase, Runs
<1>4. CASE run.pc = "select" /\ run' = [run EXCEPT !.pc = "scan", !.at = 0, !.missing = Missing]
  <2> DEFINE set == Missing
  <2>1. run' = [run EXCEPT !.pc = "scan", !.at = 0, !.missing = set]
    BY <1>4
  <2> HIDE DEF set
  <2>2. run'.missing = set /\ run'.pc = "scan" /\ run'.at = 0 /\ run'.events = run.events /\ run'.known = run.known
        /\ run'.unsafe = run.unsafe /\ run'.ready = run.ready /\ run'.token = run.token
    BY <1>1, <2>1 DEF Runs
  <2> QED BY <1>4, <2>2 DEF NextPhase, set
<1>5. CASE run.pc = "scan" /\ run.missing = {} /\ run' = [run EXCEPT !.pc = "relate", !.at = 0]
  BY <1>1, <1>5 DEF NextPhase, Runs
<1>6. CASE run.pc = "relate" /\ run' = [run EXCEPT !.pc = IF Streaming THEN "await" ELSE "apply", !.at = 0]
  BY <1>1, <1>6 DEF NextPhase, Runs
<1>7. CASE run.pc = "apply" /\ run' = [run EXCEPT !.pc = "plan", !.at = 0, !.ready = Capped(run.ready)]
  <2> DEFINE s == Capped(run.ready)
  <2>1. run' = [run EXCEPT !.pc = "plan", !.at = 0, !.ready = s]
    BY <1>7
  <2> HIDE DEF s
  <2>2. run'.ready = s /\ run'.pc = "plan" /\ run'.at = 0 /\ run'.events = run.events /\ run'.known = run.known
        /\ run'.unsafe = run.unsafe /\ run'.missing = run.missing /\ run'.token = run.token
    BY <1>1, <2>1 DEF Runs
  <2> QED BY <1>7, <2>2 DEF NextPhase, s
<1>8. CASE run.pc = "plan" /\ run.at = Len(run.ready) /\ run' = [run EXCEPT !.pc = "report", !.at = 0]
  BY <1>1, <1>8 DEF NextPhase, Runs
<1> QED BY <1>2, <1>3, <1>4, <1>5, <1>6, <1>7, <1>8 DEF NextPhase

LEMMA FailRun ==
    ASSUME SafeInv, LookupFails \/ ScanFails
    PROVE  /\ run'.pc = run.pc /\ run.pc \in {"hydrate", "scan"} /\ run'.events = run.events /\ run'.ready = run.ready /\ run'.known = run.known
           /\ run'.unsafe /\ UNCHANGED <<db, prod, channel, pipe>> /\ run'.token = run.token
           /\ run.pc = "scan" => run'.at = run.at
<1>1. run \in Runs
  BY Types DEF SafeInv
<1>2. CASE LookupFails
  BY <1>1, <1>2 DEF LookupFails, Runs
<1>3. CASE ScanFails
  BY <1>1, <1>3 DEF ScanFails, Runs
<1> QED BY <1>2, <1>3

(* What all of them do to the fields that the shape speaks of. *)
LEMMA MidPhase ==
    ASSUME SafeInv, MidStep
    PROVE  \/ /\ run'.pc = run.pc /\ prod' = prod /\ run'.token = run.token
              /\ channel' = channel \/ run.pc = "read"
              /\ run'.at = run.at \/ run.pc \notin {"read", "await", "map"}
              /\ pipe' = pipe \/ Streaming
              /\ run'.ready = run.ready \/ ~Streaming
           \/ /\ run.pc = "read" /\ run'.pc = "failed" /\ prod' = prod /\ run'.token = run.token
              /\ run'.at = run.at /\ pipe' = pipe /\ run'.ready = run.ready
           \/ BreakAtStop \/ EndOfDelta \/ ReceiveToken \/ MapPairs \/ NextPhase
<1>1. CASE CollectEvent
  BY <1>1, CollectRun
<1>2. CASE StreamEvent
  BY <1>2, StreamRun
<1>3. CASE BreakAtStop \/ EndOfDelta \/ ReceiveToken \/ MapPairs \/ NextPhase
  BY <1>3
<1>4. CASE Hydrate
  BY <1>4, HydrateFrame DEF Hydrate, Turn, MidFrame, MidRun, ReceiveToken
<1>5. CASE LookupFails \/ ScanFails
  BY <1>5, FailRun
<1>6. CASE OfferHydrated \/ Route \/ Relate \/ Apply
  <2>1. PICK i \in DOMAIN run.events :
           /\ Turn(run.pc, i) /\ run'.at = i /\ run'.pc = run.pc
           /\ run'.ready = run.ready \/ Route
    BY <1>6, IndexFrame
  <2>2. run.pc \in {"offer", "apply", "relate"} /\ prod' = prod /\ channel' = channel /\ (pipe' = pipe \/ run.pc = "offer")
        /\ (Route => run.pc = "apply")
    BY <1>6 DEF OfferHydrated, Route, Relate, Apply, Turn
  <2>3. run'.token = run.token
    BY <1>6, <2>2, IndexFrame DEF MidFrame, MidRun, ReceiveToken
  <2>4. (run.pc = "offer" => Streaming) /\ (run.pc = "apply" => ~Streaming)
    BY DEF SafeInv, ShapeOK
  <2> QED BY <2>1, <2>2, <2>3, <2>4
<1>7. CASE Select
  <2>1. run'.pc = run.pc /\ run.pc = "select" /\ run'.ready = run.ready /\ run'.token = run.token
    BY <1>7, SelectFrame DEF Turn, MidFrame, MidRun, ReceiveToken
  <2> QED BY <1>7, <2>1 DEF Select
<1>8. CASE ScanMissing
  <2>1. run'.pc = run.pc /\ run.pc = "scan" /\ run'.at = run.at /\ run'.token = run.token
    BY <1>8, ScanFrame DEF MidFrame, MidRun, ReceiveToken
  <2>2. ~Streaming
    BY <2>1 DEF SafeInv, ShapeOK
  <2> QED BY <1>8, <2>1, <2>2 DEF ScanMissing
<1>9. CASE PlanRow
  <2>1. run'.pc = run.pc /\ run.pc = "plan" /\ run'.ready = run.ready /\ run'.token = run.token
    BY <1>9, PlanFrame DEF MidFrame, MidRun, ReceiveToken
  <2> QED BY <1>9, <2>1 DEF PlanRow
<1>10. CASE PipelineTakes
  <2>1. run'.pc = run.pc /\ run'.ready = run.ready /\ run'.at = run.at /\ (run'.token = run.token \/ ReceiveToken)
    BY <1>10, PipeFrame DEF MidFrame, MidRun
  <2>2. Streaming /\ prod' = prod /\ channel' = channel
    BY <1>10 DEF SafeInv, ShapeOK, PipelineTakes
  <2> QED BY <2>1, <2>2
<1> QED BY <1>1, <1>2, <1>3, <1>4, <1>5, <1>6, <1>7, <1>8, <1>9, <1>10 DEF MidStep
-----------------------------------------------------------------------------
(* The shape, the flow and the database in the middle of a run. *)

LEMMA MidActive ==
    ASSUME SafeInv, MidStep
    PROVE  run.pc \notin {"idle", "backfill"}
<1>1. run.pc \in {"idle", "backfill"} => pipe = <<>>
  BY DEF SafeInv, ShapeOK
<1> QED BY <1>1 DEF MidStep, CollectEvent, StreamEvent, BreakAtStop, EndOfDelta, ReceiveToken, MapPairs, NextPhase, Hydrate,
           LookupFails, OfferHydrated, Select, ScanMissing, ScanFails, Relate, Route, Apply, PlanRow, PipelineTakes, Turn

LEMMA MidShape ==
    ASSUME SafeInv, MidStep
    PROVE  ShapeOK'
<1>1. zone' = zone /\ cfg' = cfg /\ stopped' = stopped /\ db'.token = db.token /\ db'.snapshot = db.snapshot /\ Streaming' = Streaming
  BY Mid DEF MidFrame, Streaming
<1>2. run.pc \notin {"idle", "backfill"} /\ ShapeOK
  BY MidActive DEF SafeInv
<1>3. db.token \in Nat /\ run \in Runs
  BY Types DEF SafeInv
<1>4. CASE /\ run'.pc = run.pc /\ prod' = prod /\ run'.token = run.token
           /\ channel' = channel \/ run.pc = "read"
           /\ run'.at = run.at \/ run.pc \notin {"read", "await", "map"}
           /\ pipe' = pipe \/ Streaming
           /\ run'.ready = run.ready \/ ~Streaming
  BY <1>1, <1>2, <1>4 DEF ShapeOK, Late
<1>5. CASE /\ run.pc = "read" /\ run'.pc = "failed" /\ prod' = prod /\ run'.token = run.token
           /\ run'.at = run.at /\ pipe' = pipe /\ run'.ready = run.ready
  BY <1>1, <1>2, <1>5 DEF ShapeOK, Late
<1>6. CASE BreakAtStop \/ EndOfDelta \/ ReceiveToken
  <2>0. pipe' = pipe /\ run'.at = run.at /\ run'.ready = run.ready
    BY <1>6, PassRun
  <2>1. CASE /\ run.pc = "read" /\ stopped /\ channel # <<>> /\ run'.token = run.token
             /\ channel' = Tail(channel) /\ prod' = prod /\ run'.pc = IF Streaming THEN "hydrate" ELSE "await"
    <3>1. CASE Streaming
      BY <1>1, <1>2, <2>0, <2>1, <3>1 DEF ShapeOK, Late
    <3>2. CASE ~Streaming
      BY <1>1, <1>2, <2>0, <2>1, <3>2 DEF ShapeOK, Late
    <3> QED BY <3>1, <3>2
  <2>2. CASE /\ run.pc = "read" /\ stopped /\ run'.token = run.token
             /\ Streaming /\ channel' = <<>> /\ prod' = Off /\ run'.pc = "report"
    <3>1. run.token = Null
      BY <1>2, <2>2 DEF ShapeOK
    <3> QED BY <1>1, <1>2, <2>0, <2>2, <3>1, OffFields DEF ShapeOK, Late
  <2>3. CASE /\ run.pc = "read" /\ channel = <<>> /\ prod.pc = "done" /\ channel' = channel /\ prod' = prod
             /\ run'.pc = (IF Streaming THEN "hydrate" ELSE "await") /\ run'.token = run.token
    <3>1. run.token = Null
      BY <1>2, <2>3 DEF ShapeOK
    <3>2. CASE Streaming
      BY <1>1, <1>2, <2>0, <2>3, <3>1, <3>2 DEF ShapeOK, Late
    <3>3. CASE ~Streaming
      BY <1>1, <1>2, <2>0, <2>3, <3>1, <3>3 DEF ShapeOK, Late
    <3> QED BY <3>2, <3>3
  <2>4. CASE /\ run.pc = "await" /\ prod.pc = "done" /\ channel' = <<>> /\ prod' = Off
             /\ run'.pc = (IF Streaming THEN "report" ELSE "map") /\ run'.token = prod.token
    <3>1. prod.token # Null /\ prod.token >= db.token
      BY <1>2, <2>4 DEF ShapeOK
    <3>2. CASE Streaming
      BY <1>1, <1>2, <2>0, <2>4, <3>1, <3>2, OffFields DEF ShapeOK, Late
    <3>3. CASE ~Streaming
      BY <1>1, <1>2, <2>0, <2>4, <3>1, <3>3, OffFields DEF ShapeOK, Late
    <3> QED BY <3>2, <3>3
  <2> QED BY <1>6, <2>1, <2>2, <2>3, <2>4, PassRun
<1>7. CASE MapPairs
  <2>1. /\ run.pc = "map" /\ run'.pc = "hydrate" /\ run'.ready = run.ready
        /\ run'.token = run.token /\ UNCHANGED <<prod, channel, pipe>>
    BY <1>7, MapRun
  <2> QED BY <1>1, <1>2, <2>1 DEF ShapeOK, Late
<1>8. CASE NextPhase
  <2>1. /\ run'.token = run.token /\ run'.at = 0 /\ UNCHANGED <<prod, channel, pipe>>
    BY <1>8, PhaseRun
  <2>2. \/ run.pc = "hydrate" /\ run'.pc = (IF Streaming THEN "offer" ELSE "select") /\ run'.ready = run.ready
        \/ run.pc = "offer" /\ run'.pc = "relate" /\ run'.ready = run.ready
        \/ run.pc = "scan" /\ run'.pc = "relate" /\ run'.ready = run.ready
        \/ run.pc = "relate" /\ run'.pc = (IF Streaming THEN "await" ELSE "apply") /\ run'.ready = run.ready
        \/ run.pc = "plan" /\ run'.pc = "report" /\ run'.ready = run.ready
        \/ run.pc = "select" /\ run'.pc = "scan" /\ run'.ready = run.ready
        \/ run.pc = "apply" /\ run'.pc = "plan"
    BY <1>8, PhaseRun
  <2>3. run.pc \in {"apply", "plan", "select", "scan"} => ~Streaming
    BY <1>2 DEF ShapeOK
  <2>4. Streaming /\ run.pc = "relate" => run.token = Null /\ (stopped \/ prod.pc = "done")
    BY <1>2 DEF ShapeOK, Late
  <2>5. run.pc \in Late /\ run'.pc \in Late
    BY <2>2 DEF Late
  <2>6. Streaming => run'.ready = run.ready /\ run'.pc \notin {"select", "scan", "apply", "plan", "map", "report"}
    BY <2>2, <2>3
  <2>7. ~Streaming => run'.pc \notin {"offer", "await", "read", "map"} /\ run.pc # "await"
    BY <1>2, <2>2 DEF ShapeOK
  <2>8. run'.pc \notin {"idle", "backfill", "read", "map"} /\ (run'.pc = "offer" => Streaming) /\ (run'.pc = "await" => Streaming /\ run.pc = "relate")
    BY <2>2
  <2>9. Streaming => (run.token # Null => run.pc = "report")
    BY <1>2 DEF ShapeOK
  <2>10. Streaming => run.token = Null
    BY <2>2, <2>9
  <2> QED BY <1>1, <1>2, <2>1, <2>4, <2>5, <2>6, <2>7, <2>8, <2>10 DEF ShapeOK
<1> QED BY <1>4, <1>5, <1>6, <1>7, <1>8, MidPhase

(* What was sent and is unread only shrinks; the frontier stays. *)
LEMMA MidFlow ==
    ASSUME SafeInv, MidStep
    PROVE  /\ Elems(Flow') \subseteq Elems(Flow) /\ Flow' \in Seq(Events)
           /\ prod' = prod /\ channel' = channel => Flow' = Flow
           /\ channel # <<>> /\ channel' = Tail(channel) /\ prod' = prod => Elems(Flow) = {Head(channel)} \cup Elems(Flow')
<1>1. channel \in Seq(Events) /\ prod.todo \in Seq(Events) /\ Flow = channel \o prod.todo
  BY Types DEF SafeInv, Flow
<1>2. prod' = prod /\ channel' = channel => Flow' = Flow
  BY DEF Flow
<1>3. CASE channel # <<>> /\ channel' = Tail(channel) /\ prod' = prod
  <2> DEFINE c == channel
             t == prod.todo
  <2>1. c \in Seq(Events) /\ t \in Seq(Events) /\ c # <<>>
    BY <1>1, <1>3
  <2>2. Flow = c \o t /\ Flow' = Tail(c) \o t
    BY <1>3 DEF Flow
  <2> HIDE DEF c, t
  <2>3. Tail(c) \o t \in Seq(Events) /\ \A y : y \in Elems(c \o t) <=> y = Head(c) \/ y \in Elems(Tail(c) \o t)
    BY <2>1, ReadLine
  <2>4. Flow' \in Seq(Events) /\ \A y : y \in Elems(Flow) <=> y = Head(channel) \/ y \in Elems(Flow')
    BY <2>2, <2>3 DEF c
  <2>5. Elems(Flow') \subseteq Elems(Flow)
    BY <2>4
  <2>6. Elems(Flow) = {Head(channel)} \cup Elems(Flow')
    BY <2>4
  <2> QED BY <1>2, <2>4, <2>5, <2>6
<1>4. CASE prod' = prod /\ channel' = channel
  <2>1. Flow \in Seq(Events)
    BY Types DEF SafeInv
  <2>2. Flow' = Flow
    BY <1>2, <1>4
  <2>3. channel # <<>> => channel # Tail(channel)
    <3>1. ASSUME channel # <<>> PROVE Len(Tail(channel)) = Len(channel) - 1 /\ Len(channel) \in Nat
      BY <1>1, <3>1
    <3> QED BY <3>1
  <2> QED BY <1>4, <2>1, <2>2, <2>3
<1>5. CASE prod' = Off /\ (BreakAtStop \/ ReceiveToken)
  <2>1. channel' = <<>>
    BY <1>5, OffFields DEF BreakAtStop, ReceiveToken, SafeInv, ShapeOK
  <2>2. Flow' = <<>>
    BY <1>5, <2>1, OffFields, NothingAt DEF Flow
  <2>3. prod' # prod
    BY <1>5, OffFields DEF BreakAtStop, ReceiveToken, SafeInv, ShapeOK
  <2>4. Flow' \in Seq(Events) /\ Elems(Flow') = {}
    BY <2>2, NothingAt
  <2> QED BY <2>3, <2>4
<1>6. CASE prod' = prod /\ channel' = <<>> /\ (BreakAtStop \/ ReceiveToken)
  <2>1. channel' = Tail(channel) /\ channel # <<>>
    BY <1>6, OffFields DEF BreakAtStop, ReceiveToken, SafeInv, ShapeOK
  <2> QED BY <1>3, <1>6, <2>1
<1> QED BY <1>3, <1>4, <1>5, <1>6, MidPipes

LEMMA MidFrontier ==
    ASSUME SafeInv, MidStep
    PROVE  Frontier' = Frontier \/ (stopped /\ BreakAtStop)
<1>1. db'.token = db.token /\ (run'.token = run.token \/ ReceiveToken)
  BY Mid DEF MidFrame, MidRun
<1>2. CASE ReceiveToken
  <2>1. run'.token = prod.token /\ prod.token # Null /\ run.token = Null
    <3>1. run.pc = "await" /\ prod.pc = "done" /\ run \in Runs /\ run'.token = prod.token
      BY <1>2, Types DEF ReceiveToken, SafeInv, Runs
    <3> QED BY <3>1 DEF SafeInv, ShapeOK
  <2> QED BY <2>1 DEF Frontier
<1>3. CASE BreakAtStop
  BY <1>3 DEF BreakAtStop
<1>4. CASE ~ReceiveToken /\ ~BreakAtStop
  <2>1. prod' = prod
    BY <1>4, MidPipes
  <2> QED BY <1>1, <1>4, <2>1 DEF Frontier
<1> QED BY <1>2, <1>3, <1>4

LEMMA MidDoomed ==
    ASSUME SafeInv, MidStep, Doomed
    PROVE  Doomed'
<1>1. stopped' = stopped /\ (run.unsafe => run'.unsafe)
  BY Mid DEF MidFrame, MidRun
<1>2. CASE stopped \/ run.unsafe
  BY <1>1, <1>2 DEF Doomed
<1>3. CASE ~stopped /\ run.pc = "failed"
  <2>1. run'.pc = "failed"
    BY <1>3, MidPhase DEF BreakAtStop, EndOfDelta, ReceiveToken, MapPairs, NextPhase
  <2> QED BY <2>1 DEF Doomed
<1>4. CASE ~stopped /\ prod.failed
  <2>1. prod.pc = "flush"
    BY <1>4 DEF SafeInv, ShapeOK
  <2>2. prod' = prod
    BY <1>4, <2>1, MidPipes DEF BreakAtStop, ReceiveToken
  <2> QED BY <1>4, <2>2 DEF Doomed
<1>5. CASE ~stopped /\ \E e \in Elems(Flow) : e.kind \in {"bad", "err"}
  <2>1. PICK e \in Elems(Flow) : e.kind \in {"bad", "err"}
    BY <1>5
  <2>2. CASE ReceiveToken
    <3>1. run.pc = "await" /\ prod.pc = "done" /\ run.pc \in Late
      BY <2>2 DEF ReceiveToken, Late
    <3>2. channel = <<>> /\ prod.todo = <<>>
      BY <1>5, <3>1 DEF SafeInv, ShapeOK
    <3>3. Elems(Flow) = {}
      BY <3>2, NothingAt DEF Flow
    <3> QED BY <2>1, <3>3
  <2>3. CASE CollectEvent
    <3>1. channel # <<>> /\ channel' = Tail(channel) /\ prod' = prod
      BY <2>3, CollectRun
    <3>2. Elems(Flow) = {Head(channel)} \cup Elems(Flow')
      BY <3>1, MidFlow
    <3>3. CASE e = Head(channel)
      BY <2>1, <2>3, <3>3, CollectRun DEF Doomed
    <3>4. CASE e \in Elems(Flow')
      BY <2>1, <3>4 DEF Doomed
    <3> QED BY <3>2, <3>3, <3>4
  <2>4. CASE StreamEvent
    <3>1. channel # <<>> /\ channel' = Tail(channel) /\ prod' = prod
      BY <2>4, StreamRun
    <3>2. Elems(Flow) = {Head(channel)} \cup Elems(Flow')
      BY <3>1, MidFlow
    <3>3. CASE e = Head(channel)
      <4>1. run'.unsafe \/ run'.pc = "failed"
        BY <2>1, <2>4, <3>3, StreamRun DEF Half, Fresh
      <4> QED BY <4>1 DEF Doomed
    <3>4. CASE e \in Elems(Flow')
      BY <2>1, <3>4 DEF Doomed
    <3> QED BY <3>2, <3>3, <3>4
  <2>5. CASE ~ReceiveToken /\ ~CollectEvent /\ ~StreamEvent
    <3>1. ~BreakAtStop
      BY <1>5 DEF BreakAtStop
    <3>2. Flow' = Flow
      BY <2>5, <3>1, MidPipes DEF Flow
    <3> QED BY <2>1, <3>2 DEF Doomed
  <2> QED BY <2>2, <2>3, <2>4, <2>5
<1> QED BY <1>2, <1>3, <1>4, <1>5 DEF Doomed
-----------------------------------------------------------------------------
(* The parts that a step in the middle of a run leaves alone. *)

LEMMA SameEvents ==
    ASSUME zone' = zone, db'.token = db.token, run'.purged = run.purged, NEW e
    PROVE  EventOK(e)' <=> EventOK(e)
  BY DEF EventOK

LEMMA MidQuiet ==
    ASSUME SafeInv, MidStep
    PROVE  ZoneOK' /\ PageOK' /\ BufferOK' /\ FlowOK'
<1>1. zone' = zone /\ db'.token = db.token /\ run'.purged = run.purged
  BY Mid DEF MidFrame, MidRun
<1>2. db.token \in Nat
  BY Types DEF SafeInv
<1>3. ZoneOK'
  <2>1. db'.token >= db.token /\ db'.token \in Nat
    BY <1>1, <1>2
  <2> QED BY <1>1, <2>1, ZoneStays
<1>4. PageOK' /\ BufferOK'
  <2>1. CASE prod' = Off
    BY <2>1, EmptyPage, OffFields
  <2>2. CASE prod' = prod
    <3>1. PageOK /\ BufferOK
      BY DEF SafeInv
    <3>2. PageOK'
      BY <1>1, <2>2, <3>1 DEF PageOK, EntryOK, Entry
    <3>3. BufferOK'
      BY <1>1, <2>2, <3>1 DEF BufferOK, ItemOK, MasterGone
    <3> QED BY <3>2, <3>3
  <2> QED BY <2>1, <2>2, MidPipes
<1>5. FlowOK'
  <2>1. Elems(Flow') \subseteq Elems(Flow)
    BY MidFlow
  <2>2. \A e \in Elems(Flow) : EventOK(e) /\ ~e.trashed
    BY DEF SafeInv, FlowOK
  <2>3. ASSUME NEW e \in Elems(Flow') PROVE EventOK(e)' /\ ~e.trashed
    BY <1>1, <2>1, <2>2, SameEvents
  <2> QED BY <2>3 DEF FlowOK
<1> QED BY <1>3, <1>4, <1>5

(* A name that is given stays; so does what was found in the bin. *)
LEMMA MidKey ==
    ASSUME SafeInv, MidStep, NEW a \in Assets, NEW k, KeyOK(a, k)
    PROVE  KeyOK(a, k)'
<1>1. PICK lose, wait : DbMove(db, db', lose, wait)
  BY Mid DEF Effect
<1>2. CASE k = a
  BY <1>2 DEF KeyOK
<1>3. CASE k # a
  <2>1. k \in Masters /\ k \in Keys /\ k = MasterOf[a] /\ db.owner[k] = a /\ HasRow(db, k) /\ a # Null
    BY <1>3, Consts DEF KeyOK
  <2>2. db'.owner[k] = db.owner[k] /\ HasRow(db', k)
    BY <1>1, <2>1 DEF DbMove
  <2> QED BY <2>1, <2>2 DEF KeyOK, HasRow
<1> QED BY <1>2, <1>3

LEMMA MidTrash ==
    ASSUME SafeInv, MidStep, NEW a \in Assets, NEW trashed, TrashOK(a, trashed)
    PROVE  TrashOK(a, trashed)'
<1>1. zone' = zone /\ db'.token = db.token /\ stopped' = stopped
  BY Mid DEF MidFrame
<1>2. CASE trashed
  <2>1. run.pc \notin {"read", "failed"}
    BY <1>2 DEF TrashOK
  <2>2. run'.pc \notin {"read", "failed"}
    <3>1. CASE BreakAtStop \/ EndOfDelta \/ ReceiveToken
      BY <2>1, <3>1, PassRun
    <3>2. CASE MapPairs
      BY <3>2, MapRun
    <3>3. CASE NextPhase
      BY <3>3, PhaseRun
    <3> QED BY <2>1, <3>1, <3>2, <3>3, MidPhase
  <2>3. Frontier' = Frontier \/ stopped
    BY MidFrontier
  <2> QED BY <1>1, <1>2, <2>2, <2>3 DEF TrashOK
<1>3. CASE ~trashed
  BY <1>3 DEF TrashOK
<1> QED BY <1>2, <1>3

(* The known photos of a run are those of its delta, as long as the scan adds none. *)
LEMMA MidKnown ==
    ASSUME SafeInv, MidStep, NEW a \in run'.known, Streaming \/ run'.pc \in {"read", "await", "map", "hydrate", "select"}
    PROVE  zone[a].at > db.token
<1>1. Streaming' = Streaming
  BY Mid DEF MidFrame, Streaming
<1>2. \A b \in run.known : Streaming \/ run.pc \in {"read", "await", "map", "hydrate", "select"} => zone[b].at > db.token
  BY DEF SafeInv, RowsOK
<1>3. CASE a \in run.known /\ (Streaming \/ run.pc \in {"read", "await", "map", "hydrate", "select"})
  BY <1>2, <1>3
<1>4. CASE MapPairs
  <2>1. PICK i \in DOMAIN run.events : run.events[i].kind = "pair" /\ run.events[i].rec = a
    BY <1>4, MapRun
  <2> QED BY <2>1, KeptEvent DEF EventOK
<1>5. CASE Select
  <2>1. PICK i \in DOMAIN run.events : Turn("select", i) /\ (run'.known = run.known \cup {run.events[i].rec} \/ run'.known = run.known)
    BY <1>5, SelectFrame
  <2>2. run.pc = "select" /\ Fresh(run.events[i])
    BY <2>1 DEF Turn, Left, Concerns
  <2>3. CASE a = run.events[i].rec
    BY <2>2, <2>3, KeptEvent DEF EventOK, Fresh
  <2> QED BY <1>3, <2>1, <2>2, <2>3
<1>6. CASE run.pc \in {"read", "await", "map", "hydrate", "select"} /\ run'.known = run.known
  BY <1>3, <1>6
<1>7. CASE CollectEvent
  BY <1>6, <1>7, CollectRun
<1>8. CASE StreamEvent
  BY <1>6, <1>8, StreamRun
<1>9. CASE BreakAtStop \/ EndOfDelta \/ ReceiveToken
  BY <1>6, <1>9, PassRun
<1>10. CASE NextPhase
  BY <1>3, <1>6, <1>10, PhaseRun
<1>11. CASE LookupFails \/ ScanFails
  BY <1>3, <1>11, FailRun
<1>12. CASE Hydrate
  <2>1. run'.known = run.known /\ run.pc = "hydrate"
    BY <1>12, HydrateFrame DEF Turn
  <2> QED BY <1>6, <2>1
<1>13. CASE OfferHydrated \/ Route \/ Relate \/ Apply
  BY <1>3, <1>13, IndexFrame
<1>14. CASE ScanMissing
  BY <1>14, ScanFrame DEF SafeInv, ShapeOK
<1>15. CASE PlanRow
  BY <1>3, <1>15, PlanFrame
<1>16. CASE PipelineTakes
  BY <1>3, <1>16, PipeFrame
<1> QED BY <1>4, <1>5, <1>7, <1>8, <1>9, <1>10, <1>11, <1>12, <1>13, <1>14, <1>15, <1>16 DEF MidStep

LEMMA MidRows ==
    ASSUME SafeInv, MidStep
    PROVE  RowsOK'
<1>1. zone' = zone /\ cfg' = cfg /\ db'.token = db.token /\ run'.stored = run.stored /\ Sound(db')
  BY Mid DEF MidFrame, MidRun
<1>2. PICK lose, wait : DbMove(db, db', lose, wait)
  BY Mid DEF Effect
<1>3. run.stored \subseteq Keys
  <2>1. run \in Runs
    BY Types DEF SafeInv
  <2> QED BY <2>1 DEF Runs
<1>4. \A k \in run.stored : HasRow(db', k)
  BY <1>2, <1>3, SoundDb DEF DbMove
<1>5. \A a \in run'.known : (Streaming \/ run'.pc \in {"read", "await", "map", "hydrate", "select"}) => zone'[a].at > db'.token
  BY <1>1, MidKnown
<1>6. Streaming' = Streaming
  BY <1>1 DEF Streaming
<1> QED BY <1>1, <1>4, <1>5, <1>6 DEF RowsOK, Sound, HasRow, Family
-----------------------------------------------------------------------------
(* The events that a run has kept. *)

KeptCore(e) ==
    /\ EventOK(e) /\ e.kind # "err"
    /\ e.kind = "bad" => run.unsafe
    /\ e.kind = "tomb" => ~Streaming
    /\ e.trashed => e.kind \in {"pair", "asset"} /\ TrashOK(e.rec, TRUE)
Keyed(e) == Fresh(e) => KeyOK(e.rec, e.id)

LEMMA KeptParts ==
    KeptOK <=> \A i \in DOMAIN run.events : KeptCore(run.events[i]) /\ (Named(i) => Keyed(run.events[i]))
  BY DEF KeptOK, KeptCore, Keyed

LEMMA KeptPartsNext ==
    ASSUME \A i \in DOMAIN run'.events : KeptCore(run.events[i])' /\ (Named(i)' => Keyed(run.events[i])')
    PROVE  KeptOK'
  BY DEF KeptOK, KeptCore, Keyed

LEMMA CoreStays ==
    ASSUME SafeInv, MidStep, NEW e, KeptCore(e)
    PROVE  KeptCore(e)' /\ (Keyed(e) => Keyed(e)')
<1>1. zone' = zone /\ db'.token = db.token /\ run'.purged = run.purged /\ (run.unsafe => run'.unsafe) /\ Streaming' = Streaming
  BY Mid DEF MidFrame, MidRun, Streaming
<1>2. EventOK(e)' /\ EventOK(e)
  BY <1>1, SameEvents DEF KeptCore
<1>3. e.trashed => e.kind \in {"pair", "asset"} /\ TrashOK(e.rec, TRUE)'
  <2>1. ASSUME e.trashed PROVE e.kind \in {"pair", "asset"} /\ e.rec \in Assets /\ TrashOK(e.rec, TRUE)
    BY <1>2, <2>1 DEF KeptCore, EventOK
  <2> QED BY <2>1, MidTrash
<1>4. KeptCore(e)'
  BY <1>1, <1>2, <1>3 DEF KeptCore
<1>5. ASSUME Keyed(e) PROVE Keyed(e)'
  <2>1. ASSUME Fresh(e) PROVE KeyOK(e.rec, e.id)'
    <3>1. e.rec \in Assets /\ KeyOK(e.rec, e.id)
      BY <1>2, <1>5, <2>1 DEF EventOK, Fresh, Keyed
    <3> QED BY <3>1, MidKey
  <2> QED BY <2>1 DEF Keyed
<1> QED BY <1>4, <1>5

LEMMA KeptSame ==
    ASSUME SafeInv, MidStep, run'.events = run.events,
           \A i \in DOMAIN run.events : Fresh(run.events[i]) /\ Named(i)' => Named(i)
    PROVE  KeptOK'
<1>1. ASSUME NEW i \in DOMAIN run'.events PROVE KeptCore(run.events[i])' /\ (Named(i)' => Keyed(run.events[i])')
  <2>1. PICK e : e = run.events[i]
    OBVIOUS
  <2>2. i \in DOMAIN run.events /\ KeptCore(e) /\ (Named(i) => Keyed(e))
    BY <2>1, KeptParts DEF SafeInv
  <2>3. KeptCore(e)' /\ (Keyed(e) => Keyed(e)')
    BY <2>2, CoreStays
  <2>4. Named(i)' => Keyed(e)
    BY <2>1, <2>2 DEF Keyed
  <2>5. e = run'.events[i]
    BY <2>1
  <2> QED BY <2>3, <2>4, <2>5 DEF KeptCore, Keyed
<1> QED BY <1>1, KeptPartsNext

(* A reader adds an event to the end. *)
LEMMA KeptMore ==
    ASSUME SafeInv, MidStep, NEW e \in Events, KeptCore(e)', run'.events = Append(run.events, e), run'.pc = "read"
    PROVE  KeptOK'
<1>1. run.events \in Seq(Events) /\ DOMAIN run.events = 1 .. Len(run.events) /\ Len(run.events) \in Nat
  BY Types DEF SafeInv
<1>2. ASSUME NEW i \in DOMAIN run'.events PROVE KeptCore(run.events[i])' /\ (Named(i)' => Keyed(run.events[i])')
  <2>1. ~Named(i)'
    BY DEF Named
  <2>2. CASE i \in DOMAIN run.events
    <3>1. PICK f : f = run.events[i]
      OBVIOUS
    <3>2. KeptCore(f)
      BY <2>2, <3>1, KeptParts DEF SafeInv
    <3>3. KeptCore(f)'
      BY <3>2, CoreStays
    <3>4. f = run'.events[i]
      BY <1>1, <2>2, <3>1
    <3> QED BY <2>1, <3>3, <3>4 DEF KeptCore
  <2>3. CASE i \notin DOMAIN run.events
    <3>1. run'.events[i] = e
      BY <1>1, <2>3
    <3> QED BY <2>1, <3>1 DEF KeptCore
  <2> QED BY <2>2, <2>3
<1> QED BY <1>2, KeptPartsNext

LEMMA KeptRead ==
    ASSUME SafeInv, CollectEvent \/ StreamEvent
    PROVE  KeptOK'
<1>0. MidStep
  BY DEF MidStep
<1> DEFINE e == Head(channel)
<1>1. channel # <<>>
  BY DEF CollectEvent, StreamEvent
<1>2. e \in Events /\ EventOK(e) /\ ~e.trashed
  BY <1>1, HeadEvent
<1>3. CASE run'.events = run.events /\ run'.pc \in {"read", "failed"}
  BY <1>0, <1>3, KeptSame DEF Named
<1>4. CASE CollectEvent /\ e.kind # "err"
  <2>1. ~Streaming /\ run'.pc = "read" /\ run'.events = Append(run.events, e) /\ (e.kind = "bad" => run'.unsafe)
    BY <1>4, CollectRun
  <2>2. zone' = zone /\ db'.token = db.token /\ run'.purged = run.purged /\ Streaming' = Streaming
    BY <1>0, Mid DEF MidFrame, MidRun, Streaming
  <2> HIDE DEF e
  <2>3. PICK f : f = e
    OBVIOUS
  <2>4. KeptCore(f)'
    BY <1>2, <1>4, <2>1, <2>2, <2>3, SameEvents DEF KeptCore
  <2>5. f \in Events /\ run'.events = Append(run.events, f)
    BY <1>2, <2>1, <2>3
  <2> QED BY <1>0, <2>1, <2>4, <2>5, KeptMore
<1>5. CASE StreamEvent /\ run'.events # run.events
  <2>1. (e.kind = "rel" \/ Half(e)) /\ run'.pc = "read" /\ run'.events = Append(run.events, e)
    BY <1>5, StreamRun
  <2>2. zone' = zone /\ db'.token = db.token /\ run'.purged = run.purged /\ Streaming' = Streaming
    BY <1>0, Mid DEF MidFrame, MidRun, Streaming
  <2> HIDE DEF e
  <2>3. PICK f : f = e
    OBVIOUS
  <2>4. KeptCore(f)'
    BY <1>2, <2>1, <2>2, <2>3, SameEvents DEF KeptCore, Half
  <2>5. f \in Events /\ run'.events = Append(run.events, f)
    BY <1>2, <2>1, <2>3
  <2> QED BY <1>0, <2>1, <2>4, <2>5, KeptMore
<1>6. CASE CollectEvent /\ e.kind = "err"
  BY <1>3, <1>6, CollectRun
<1>7. CASE StreamEvent /\ run'.events = run.events
  BY <1>3, <1>7, StreamRun
<1> QED BY <1>4, <1>5, <1>6, <1>7

(* A half that is looked up becomes a pair, or stays. *)
LEMMA KeptHydrate ==
    ASSUME SafeInv, Hydrate
    PROVE  KeptOK'
<1>0. MidStep
  BY DEF MidStep
<1>1. PICK i \in DOMAIN run.events :
           /\ Turn("hydrate", i) /\ run'.pc = run.pc
           /\ run'.events \in {run.events, [run.events EXCEPT ![i] = Hydrated(run.events[i])]}
  BY HydrateFrame
<1>2. run'.pc = "hydrate" /\ run.pc = "hydrate" /\ Half(run.events[i])
  BY <1>1 DEF Turn, Left, Concerns
<1>3. CASE run'.events = run.events
  BY <1>0, <1>2, <1>3, KeptSame DEF Named
<1>4. CASE run'.events = [run.events EXCEPT ![i] = Hydrated(run.events[i])]
  <2>1. ASSUME NEW j \in DOMAIN run'.events PROVE KeptCore(run.events[j])' /\ (Named(j)' => Keyed(run.events[j])')
    <3>1. PICK f : f = run.events[j]
      OBVIOUS
    <3>2. j \in DOMAIN run.events /\ KeptCore(f)
      BY <1>4, <3>1, KeptParts DEF SafeInv
    <3>3. KeptCore(f)' /\ ~Named(j)'
      BY <1>0, <1>2, <3>2, CoreStays DEF Named
    <3>4. CASE j # i \/ ~Whole(f)
      <4>1. f = run'.events[j]
        BY <1>4, <3>1, <3>2, <3>4 DEF Hydrated
      <4> QED BY <3>3, <4>1 DEF KeptCore
    <3>5. CASE j = i /\ Whole(f)
      <4> DEFINE h == [Event("pair", f.rec, "created", f.rec) EXCEPT !.trashed = (zone[f.rec].st = "trashed")]
      <4>1. PICK g : g = h
        OBVIOUS
      <4>2. run'.events[j] = g
        BY <1>4, <3>1, <3>2, <3>5, <4>1 DEF Hydrated
      <4>3. g.kind = "pair" /\ g.rec = f.rec /\ g.reason = "created" /\ g.id = f.rec /\ g.trashed = (zone[f.rec].st = "trashed")
        BY <4>1 DEF Event
      <4>4. f.rec \in Assets /\ zone[f.rec].at > db.token /\ f.rec \notin run.purged
        BY <1>2, <3>1, <3>2, <3>5 DEF KeptCore, EventOK, Half
      <4>5. EventOK(g)
        BY <4>3, <4>4 DEF EventOK
      <4>6. zone' = zone /\ db'.token = db.token /\ run'.purged = run.purged
        BY <1>0, Mid DEF MidFrame, MidRun
      <4>7. EventOK(g)'
        BY <4>5, <4>6, SameEvents
      <4>8. g.trashed => TrashOK(g.rec, TRUE)'
        BY <1>2, <4>3, <4>6 DEF TrashOK
      <4>9. KeptCore(g)'
        BY <4>3, <4>7, <4>8 DEF KeptCore
      <4> QED BY <3>3, <4>2, <4>9 DEF KeptCore
    <3> QED BY <3>4, <3>5
  <2> QED BY <2>1, KeptPartsNext
<1> QED BY <1>1, <1>3, <1>4

(* A photo gets its name; the ones before it have theirs. *)
LEMMA KeptSelect ==
    ASSUME SafeInv, Select
    PROVE  KeptOK'
<1>0. MidStep
  BY DEF MidStep
<1>1. PICK i \in DOMAIN run.events :
          LET e == run.events[i]
              key == StateKey(db, run, e.rec)
          IN  /\ Turn("select", i) /\ run'.at = i /\ run'.pc = run.pc /\ e.rec \in Assets
              /\ \/ /\ run'.events = [run.events EXCEPT ![i] = [e EXCEPT !.id = key]]
                    /\ db' = Claimed(db, key, e.rec)
                 \/ run'.events = [run.events EXCEPT ![i] = [e EXCEPT !.kind = "asset"]] /\ run'.unsafe
  BY SelectFrame
<1>2. run.pc = "select" /\ run'.pc = "select" /\ Fresh(run.events[i]) /\ \A j \in Left : i <= j
  BY <1>1 DEF Turn, Left, Concerns
<1>3. run.events[i] \in Events /\ DOMAIN run.events = 1 .. Len(run.events) /\ run.at \in Nat /\ Len(run.events) \in Nat
  BY Types DEF SafeInv
<1>4. zone' = zone /\ db'.token = db.token /\ run'.purged = run.purged /\ Streaming' = Streaming
  BY <1>0, Mid DEF MidFrame, MidRun, Streaming
<1>5. DOMAIN run'.events = DOMAIN run.events /\ \A j \in DOMAIN run.events : j # i => run'.events[j] = run.events[j]
  BY <1>1
<1>6. ASSUME NEW j \in DOMAIN run.events, j # i PROVE KeptCore(run.events[j])' /\ (Named(j)' => Keyed(run.events[j])')
  <2>1. PICK f : f = run.events[j]
    OBVIOUS
  <2>2. KeptCore(f) /\ (Named(j) => Keyed(f))
    BY <2>1, KeptParts DEF SafeInv
  <2>3. KeptCore(f)' /\ (Keyed(f) => Keyed(f)')
    BY <1>0, <2>2, CoreStays
  <2>4. Named(j)' /\ Fresh(f) => Named(j)
    <3>1. ASSUME j > run.at, Fresh(f) PROVE i <= j
      BY <1>2, <2>1, <3>1 DEF Left, Concerns
    <3>2. Named(j)' => j <= i
      BY <1>1, <1>2 DEF Named
    <3>3. j <= run.at => Named(j)
      BY <1>2 DEF Named
    <3> QED BY <1>3, <1>6, <3>1, <3>2, <3>3
  <2>5. Named(j)' => Keyed(f)
    BY <2>2, <2>4 DEF Keyed
  <2>6. f = run'.events[j]
    BY <1>5, <1>6, <2>1
  <2> QED BY <2>3, <2>5, <2>6 DEF KeptCore, Keyed
<1>7. KeptCore(run.events[i])' /\ Keyed(run.events[i])'
  <2>1. PICK f, k : f = run.events[i] /\ k = StateKey(db, run, f.rec)
    OBVIOUS
  <2>2. KeptCore(f) /\ Fresh(f) /\ f \in Events /\ f.rec \in Assets
    BY <1>1, <1>2, <1>3, <2>1, KeptParts DEF SafeInv
  <2>3. KeptCore(f)'
    BY <1>0, <2>2, CoreStays
  <2>4. CASE run'.events = [run.events EXCEPT ![i] = [f EXCEPT !.id = k]] /\ db' = Claimed(db, k, f.rec)
    <3>1. Sound(db) /\ DbStep(db, db, {}, {})
      BY SoundDb, DbSame
    <3>2. k \in {f.rec, MasterOf[f.rec]} /\ (k # f.rec => db'.owner[k] = f.rec /\ HasRow(db', k))
      BY <2>1, <2>2, <2>4, <3>1, ClaimEffect
    <3>3. PICK g : g = [f EXCEPT !.id = k]
      OBVIOUS
    <3>4. g.kind = f.kind /\ g.rec = f.rec /\ g.reason = f.reason /\ g.id = k /\ g.trashed = f.trashed
      BY <2>2, <3>3 DEF Events
    <3>5. KeptCore(g)'
      BY <2>3, <3>2, <3>4 DEF KeptCore, EventOK
    <3>6. Keyed(g)'
      BY <3>2, <3>4 DEF Keyed, KeyOK, HasRow
    <3>7. run'.events[i] = g
      BY <2>4, <3>3
    <3> QED BY <3>5, <3>6, <3>7 DEF KeptCore, Keyed
  <2>5. CASE run'.events = [run.events EXCEPT ![i] = [f EXCEPT !.kind = "asset"]]
    <3>1. PICK g : g = [f EXCEPT !.kind = "asset"]
      OBVIOUS
    <3>2. g.kind = "asset" /\ g.rec = f.rec /\ g.reason = f.reason /\ g.trashed = f.trashed
      BY <2>2, <3>1 DEF Events
    <3>3. KeptCore(g)' /\ ~Fresh(g)
      BY <2>2, <2>3, <3>2 DEF KeptCore, EventOK, Fresh
    <3>4. run'.events[i] = g
      BY <2>5, <3>1
    <3> QED BY <3>3, <3>4 DEF KeptCore, Keyed, Fresh
  <2> QED BY <1>1, <2>1, <2>4, <2>5
<1>8. ASSUME NEW j \in DOMAIN run'.events PROVE KeptCore(run.events[j])' /\ (Named(j)' => Keyed(run.events[j])')
  BY <1>5, <1>6, <1>7
<1> QED BY <1>8, KeptPartsNext
-----------------------------------------------------------------------------
(* The kept events, the photos that are ready and those in the pipeline. *)

LEMMA MidKept ==
    ASSUME SafeInv, MidStep
    PROVE  KeptOK'
<1>0. Streaming' = Streaming /\ run.at \in Nat
  <2>1. run.at \in Nat
    BY Types DEF SafeInv
  <2> QED BY <2>1, Mid DEF MidFrame, Streaming
<1>1. CASE run'.events = run.events /\ run'.pc = run.pc /\ (run'.at = run.at \/ run.pc # "select")
  <2>1. \A i \in DOMAIN run.events : Named(i)' => Named(i)
    BY <1>0, <1>1 DEF Named
  <2> QED BY <1>1, <2>1, KeptSame
<1>2. CASE run'.events = run.events /\ run'.pc \notin {"select", "scan", "relate", "apply"}
  <2>1. \A i \in DOMAIN run.events : ~Named(i)'
    BY <1>2 DEF Named
  <2> QED BY <1>2, <2>1, KeptSame
<1>3. CASE CollectEvent \/ StreamEvent
  BY <1>3, KeptRead
<1>4. CASE BreakAtStop \/ EndOfDelta \/ ReceiveToken
  BY <1>2, <1>4, PassRun
<1>5. CASE MapPairs
  BY <1>2, <1>5, MapRun
<1>6. CASE NextPhase
  <2>1. Left = {} /\ run'.events = run.events /\ run'.at = 0
    BY <1>6, PhaseRun
  <2>2. CASE run.pc = "hydrate" /\ run'.pc = IF Streaming THEN "offer" ELSE "select"
    <3>1. \A i \in DOMAIN run.events : i \in Nat \ {0}
      BY KeptEvent
    <3>2. \A i \in DOMAIN run.events : ~Named(i)'
      BY <2>1, <2>2, <3>1 DEF Named
    <3> QED BY <2>1, <3>2, KeptSame
  <2>3. CASE run.pc = "offer" /\ run'.pc = "relate"
    <3>1. Streaming
      BY <2>3 DEF SafeInv, ShapeOK
    <3>2. \A i \in DOMAIN run.events : ~Named(i)'
      BY <1>0, <2>3, <3>1 DEF Named
    <3> QED BY <2>1, <3>2, KeptSame
  <2>4. CASE run.pc = "select" /\ run'.pc = "scan"
    <3>1. ASSUME NEW i \in DOMAIN run.events, Fresh(run.events[i]) PROVE Named(i)
      <4>1. ~(i > run.at)
        BY <2>1, <2>4, <3>1 DEF Left, Concerns
      <4>2. i \in Nat
        BY KeptEvent
      <4> QED BY <1>0, <2>4, <4>1, <4>2 DEF Named
    <3> QED BY <2>1, <3>1, KeptSame
  <2>5. CASE run.pc \in {"scan", "relate"} /\ run'.pc \in {"relate", "apply"}
    <3>1. \A i \in DOMAIN run.events : Named(i)' => Named(i)
      <4>1. run.pc = "scan" \/ (run.pc = "relate" /\ ~Streaming)
        BY <2>5, <1>6, PhaseRun
      <4> QED BY <4>1 DEF Named
    <3> QED BY <2>1, <3>1, KeptSame
  <2>6. CASE run'.pc \in {"await", "plan", "report"}
    BY <1>2, <2>1, <2>6
  <2> QED BY <1>6, <2>2, <2>3, <2>4, <2>5, <2>6, PhaseRun
<1>7. CASE Hydrate
  BY <1>7, KeptHydrate
<1>8. CASE Select
  BY <1>8, KeptSelect
<1>9. CASE LookupFails \/ ScanFails
  BY <1>1, <1>9, FailRun
<1>10. CASE OfferHydrated \/ Route \/ Relate \/ Apply
  <2>1. run.pc # "select"
    BY <1>10 DEF OfferHydrated, Route, Relate, Apply, Turn
  <2> QED BY <1>1, <1>10, <2>1, IndexFrame
<1>11. CASE ScanMissing
  BY <1>1, <1>11, ScanFrame
<1>12. CASE PlanRow
  BY <1>1, <1>12, PlanFrame
<1>13. CASE PipelineTakes
  BY <1>1, <1>13, PipeFrame
<1> QED BY <1>3, <1>4, <1>5, <1>6, <1>7, <1>8, <1>9, <1>10, <1>11, <1>12, <1>13 DEF MidStep

LEMMA RouteRun ==
    ASSUME SafeInv, Route
    PROVE  \E i \in DOMAIN run.events :
              /\ Turn("apply", i) /\ Fresh(run.events[i]) /\ run.pc = "apply" /\ run'.at = i /\ run'.pc = "apply" /\ db' = db
              /\ run'.ready = run.ready \/ run'.ready = Append(run.ready, [asset |-> run.events[i].rec,
                        key |-> run.events[i].id, trashed |-> run.events[i].trashed])
              /\ run'.unsafe \/ run'.ready # run.ready \/ ~Routed(run.events[i].rec)
<1>1. run \in Runs /\ run.ready \in Seq(Photos)
  BY Types DEF SafeInv
<1>2. PICK i \in DOMAIN run.events :
          LET e == run.events[i]
              item == [asset |-> e.rec, key |-> e.id, trashed |-> e.trashed]
              next == [run EXCEPT !.at = i]
          IN  /\ Turn("apply", i) /\ Fresh(e) /\ db' = db
              /\ \/ run' = IF Routed(e.rec) THEN [next EXCEPT !.ready = Append(@, item)] ELSE next
                 \/ run' = [next EXCEPT !.unsafe = TRUE]
  BY DEF Route, Writes
<1>3. PICK e, item : e = run.events[i] /\ item = [asset |-> e.rec, key |-> e.id, trashed |-> e.trashed]
  OBVIOUS
<1>4. run.pc = "apply" /\ Turn("apply", i) /\ Fresh(e) /\ db' = db
  BY <1>2, <1>3 DEF Turn
<1>5. CASE Routed(e.rec) /\ run' = [run EXCEPT !.at = i, !.ready = Append(run.ready, item)]
  <2>1. run'.ready = Append(run.ready, item) /\ run'.at = i /\ run'.pc = run.pc
    BY <1>1, <1>5 DEF Runs
  <2>2. Len(Append(run.ready, item)) = Len(run.ready) + 1 /\ Len(run.ready) \in Nat
    BY <1>1
  <2>3. run'.ready # run.ready
    BY <2>1, <2>2
  <2> QED BY <1>3, <1>4, <2>1, <2>3
<1>6. CASE ~Routed(e.rec) /\ run' = [run EXCEPT !.at = i]
  BY <1>1, <1>3, <1>4, <1>6 DEF Runs
<1>7. CASE run' = [run EXCEPT !.at = i, !.unsafe = TRUE]
  BY <1>1, <1>3, <1>4, <1>7 DEF Runs
<1> QED BY <1>2, <1>3, <1>5, <1>6, <1>7

(* A photo is made ready by the route of an event or by the scan. *)
ReadyItem(x) == x.asset \notin run.purged /\ KeyOK(x.asset, x.key) /\ TrashOK(x.asset, x.trashed)

LEMMA ReadyStays ==
    ASSUME SafeInv, MidStep, NEW x, x.asset \in Assets, ReadyItem(x)
    PROVE  ReadyItem(x)'
<1>1. run'.purged = run.purged
  BY Mid DEF MidFrame, MidRun
<1>2. KeyOK(x.asset, x.key)' /\ TrashOK(x.asset, x.trashed)'
  BY MidKey, MidTrash DEF ReadyItem
<1> QED BY <1>1, <1>2 DEF ReadyItem

LEMMA ReadyOld ==
    ASSUME SafeInv, MidStep, NEW x \in Elems(run.ready)
    PROVE  ReadyItem(x)' /\ x.asset \in Assets
<1>1. x \in Photos
  <2>1. run.ready \in Seq(Photos)
    BY Types DEF SafeInv
  <2> QED BY <2>1 DEF Elems
<1>2. x.asset \in Assets /\ ReadyItem(x)
  BY <1>1 DEF Photos, SafeInv, ReadyOK, ReadyItem
<1> QED BY <1>2, ReadyStays

LEMMA ReadyMore ==
    ASSUME SafeInv, MidStep, NEW x \in Photos, ReadyItem(x)', run'.ready = Append(run.ready, x)
    PROVE  ReadyOK'
<1>1. run.ready \in Seq(Photos)
  BY Types DEF SafeInv
<1>2. \A y : y \in Elems(run'.ready) <=> y \in Elems(run.ready) \/ y = x
  <2>1. PICK s : s = run.ready
    OBVIOUS
  <2>2. \A y : y \in Elems(Append(s, x)) <=> y \in Elems(s) \/ y = x
    BY <1>1, <2>1, ElemsMore
  <2> QED BY <2>1, <2>2
<1>3. ASSUME NEW y \in Elems(run'.ready) PROVE ReadyItem(y)'
  BY <1>2, <1>3, ReadyOld
<1> QED BY <1>3 DEF ReadyOK, ReadyItem

LEMMA MidReady ==
    ASSUME SafeInv, MidStep
    PROVE  ReadyOK'
<1>1. CASE Elems(run'.ready) \subseteq Elems(run.ready)
  <2>1. ASSUME NEW y \in Elems(run'.ready) PROVE ReadyItem(y)'
    BY <1>1, <2>1, ReadyOld
  <2> QED BY <2>1 DEF ReadyOK, ReadyItem
<1>2. CASE Route
  <2>1. PICK i \in DOMAIN run.events :
           /\ Fresh(run.events[i])
           /\ run'.ready = run.ready \/ run'.ready = Append(run.ready, [asset |-> run.events[i].rec,
                     key |-> run.events[i].id, trashed |-> run.events[i].trashed])
    BY <1>2, RouteRun
  <2>2. run.pc = "apply"
    BY <1>2 DEF Route, Turn
  <2>3. CASE run'.ready # run.ready
    <3>1. PICK e : e = run.events[i]
      OBVIOUS
    <3>2. PICK x : x = [asset |-> e.rec, key |-> e.id, trashed |-> e.trashed]
      OBVIOUS
    <3>3. e \in Events /\ KeptCore(e) /\ Named(i) /\ Keyed(e) /\ Fresh(e)
      BY <2>1, <2>2, <2>3, <3>1, KeptEvent, KeptParts DEF SafeInv, Named
    <3>4. e.rec \in Assets /\ e.rec \notin run.purged /\ KeyOK(e.rec, e.id) /\ e.trashed \in BOOLEAN /\ TrashOK(e.rec, e.trashed)
      BY <3>3 DEF KeptCore, EventOK, Keyed, Fresh, Events, TrashOK
    <3>5. e.id \in Keys
      BY <3>4, Consts DEF KeyOK
    <3>6. x \in Photos /\ x.asset \in Assets /\ ReadyItem(x)
      BY <3>2, <3>4, <3>5 DEF Photos, ReadyItem
    <3>7. run'.ready = Append(run.ready, x)
      BY <2>1, <2>3, <3>1, <3>2
    <3> QED BY <3>6, <3>7, ReadyStays, ReadyMore
  <2> QED BY <1>1, <2>3
<1>3. CASE ScanMissing
  <2>1. PICK a \in run.missing :
          LET key == StateKey(db, run, a)
              item == [asset |-> a, key |-> key, trashed |-> (zone[a].st = "trashed")]
          IN  /\ run.pc = "scan" /\ run'.pc = "scan" /\ a \in Assets /\ key \in Keys
              /\ \/ run'.ready = run.ready
                 \/ /\ Exists(a) /\ run'.ready = Append(run.ready, item) /\ item \in Photos
                    /\ db' \in {Claimed(Mapped(db, {a}), key, a), Claimed(db, key, a)}
    BY <1>3, ScanFrame
  <2>2. CASE run'.ready # run.ready
    <3>1. PICK key : key = StateKey(db, run, a)
      OBVIOUS
    <3>2. PICK x : x = [asset |-> a, key |-> key, trashed |-> (zone[a].st = "trashed")]
      OBVIOUS
    <3>3. Exists(a) /\ run'.ready = Append(run.ready, x) /\ x \in Photos /\ db' \in {Claimed(Mapped(db, {a}), key, a), Claimed(db, key, a)}
      BY <2>1, <2>2, <3>1, <3>2
    <3>4. \E d : Sound(d) /\ DbStep(db, d, {}, {}) /\ d.owner = db.owner /\ db' = Claimed(d, key, a)
      <4>1. Sound(db) /\ DbStep(db, db, {}, {}) /\ db \in Databases
        BY SoundDb, DbSame DEF Sound
      <4>2. {a} \in SUBSET Assets
        BY <2>1
      <4>3. DbStep(db, Mapped(db, {a}), {}, {}) /\ Sound(Mapped(db, {a})) /\ Mapped(db, {a}).owner = db.owner
        BY <4>1, <4>2, MapStep DEF DbStep, DbMove, Mapped, Databases
      <4> QED BY <3>3, <4>1, <4>3
    <3>5. key \in {a, MasterOf[a]} /\ (key # a => db'.owner[key] = a /\ HasRow(db', key))
      <4>1. PICK d : Sound(d) /\ DbStep(db, d, {}, {}) /\ d.owner = db.owner /\ db' = Claimed(d, key, a)
        BY <3>4
      <4> QED BY <2>1, <3>1, <4>1, ClaimEffect
    <3>6. a \notin run.purged
      BY <3>3 DEF SafeInv, TombsOK, Exists
    <3>7. zone' = zone /\ run'.purged = run.purged
      BY Mid DEF MidFrame, MidRun
    <3>8. x.asset = a /\ x.key = key /\ x.trashed = (zone[a].st = "trashed")
      BY <3>2
    <3>9. KeyOK(x.asset, x.key)'
      BY <3>5, <3>8 DEF KeyOK, HasRow
    <3>10. TrashOK(x.asset, x.trashed)'
      BY <2>1, <3>7, <3>8 DEF TrashOK
    <3>11. ReadyItem(x)'
      BY <3>6, <3>7, <3>8, <3>9, <3>10 DEF ReadyItem
    <3> QED BY <3>3, <3>11, ReadyMore
  <2> QED BY <1>1, <2>2
<1>4. CASE NextPhase
  <2>1. run'.ready = run.ready \/ run'.ready = Capped(run.ready)
    BY <1>4, PhaseRun
  <2>2. Elems(Capped(run.ready)) \subseteq Elems(run.ready)
    BY CappedSeq DEF SafeInv
  <2> QED BY <1>1, <2>1, <2>2
<1>5. CASE run'.ready = run.ready
  BY <1>1, <1>5
<1>6. CASE CollectEvent
  BY <1>5, <1>6, CollectRun
<1>7. CASE StreamEvent
  BY <1>5, <1>7, StreamRun
<1>8. CASE BreakAtStop \/ EndOfDelta \/ ReceiveToken
  BY <1>5, <1>8, PassRun
<1>9. CASE MapPairs
  BY <1>5, <1>9, MapRun
<1>10. CASE Hydrate
  BY <1>5, <1>10, HydrateFrame
<1>11. CASE LookupFails \/ ScanFails
  BY <1>5, <1>11, FailRun
<1>12. CASE OfferHydrated \/ Relate \/ Apply
  <2> QED BY <1>2, <1>5, <1>12, IndexFrame
<1>13. CASE Select
  BY <1>5, <1>13, SelectFrame
<1>14. CASE PlanRow
  BY <1>5, <1>14, PlanFrame
<1>15. CASE PipelineTakes
  BY <1>5, <1>15, PipeFrame
<1> QED BY <1>2, <1>3, <1>4, <1>6, <1>7, <1>8, <1>9, <1>10, <1>11, <1>12, <1>13, <1>14, <1>15 DEF MidStep
-----------------------------------------------------------------------------
(* The pipeline and the memberships. *)

LEMMA PhotoStays ==
    ASSUME SafeInv, MidStep, NEW x \in Elems(pipe)
    PROVE  x.asset \notin run'.purged /\ TrashOK(x.asset, x.trashed)'
<1>1. x.asset \in Assets
  <2>1. pipe \in Seq([asset : Assets, trashed : BOOLEAN])
    BY Types DEF SafeInv
  <2>2. PICK S : S = [asset : Assets, trashed : BOOLEAN]
    OBVIOUS
  <2>3. pipe \in Seq(S)
    BY <2>1, <2>2
  <2>4. x \in S
    BY <2>3 DEF Elems
  <2> QED BY <2>2, <2>4
<1>2. x.asset \notin run.purged /\ TrashOK(x.asset, x.trashed)
  BY DEF SafeInv, PipeOK
<1>3. run'.purged = run.purged
  BY Mid DEF MidFrame, MidRun
<1> QED BY <1>1, <1>2, <1>3, MidTrash

LEMMA PipeMore ==
    ASSUME SafeInv, MidStep, NEW x \in [asset : Assets, trashed : BOOLEAN], pipe' = Append(pipe, x),
           x.asset \notin run'.purged, TrashOK(x.asset, x.trashed)'
    PROVE  PipeOK'
<1>1. PICK s : s = pipe
  OBVIOUS
<1>2. s \in Seq([asset : Assets, trashed : BOOLEAN])
  BY <1>1, Types DEF SafeInv
<1>3. \A y : y \in Elems(Append(s, x)) <=> y \in Elems(s) \/ y = x
  <2>1. PICK S : S = [asset : Assets, trashed : BOOLEAN]
    OBVIOUS
  <2>2. s \in Seq(S) /\ x \in S
    BY <1>2, <2>1
  <2> QED BY <2>2, ElemsMore
<1>4. ASSUME NEW y \in Elems(pipe') PROVE y.asset \notin run'.purged /\ TrashOK(y.asset, y.trashed)'
  BY <1>1, <1>3, <1>4, PhotoStays
<1> QED BY <1>4 DEF PipeOK

LEMMA MidPipe ==
    ASSUME SafeInv, MidStep
    PROVE  PipeOK'
<1>1. run'.purged = run.purged
  BY Mid DEF MidFrame, MidRun
<1>2. CASE Elems(pipe') \subseteq Elems(pipe)
  BY <1>2, PhotoStays DEF PipeOK
<1>3. CASE pipe # <<>> /\ pipe' = Tail(pipe)
  <2>1. PICK s : s = pipe
    OBVIOUS
  <2>2. s \in Seq([asset : Assets, trashed : BOOLEAN]) /\ s # <<>>
    BY <1>3, <2>1, Types DEF SafeInv
  <2>3. Elems(s) = {Head(s)} \cup Elems(Tail(s))
    BY <2>2, HeadTail
  <2> QED BY <1>2, <1>3, <2>1, <2>3
<1>4. CASE OfferHydrated
  <2>1. PICK i \in DOMAIN run.events :
           /\ Turn("offer", i) /\ pipe' = Append(pipe, [asset |-> run.events[i].rec, trashed |-> run.events[i].trashed])
    BY <1>4 DEF OfferHydrated
  <2>2. PICK e, x : e = run.events[i] /\ x = [asset |-> e.rec, trashed |-> e.trashed]
    OBVIOUS
  <2>3. e \in Events /\ KeptCore(e) /\ Fresh(e)
    BY <2>1, <2>2, KeptEvent, KeptParts DEF SafeInv, Turn, Left, Concerns
  <2>4. e.rec \in Assets /\ e.rec \notin run.purged /\ e.trashed \in BOOLEAN /\ TrashOK(e.rec, e.trashed)
    BY <2>3 DEF KeptCore, EventOK, Fresh, Events, TrashOK
  <2>5. TrashOK(e.rec, e.trashed)'
    BY <2>4, MidTrash
  <2>6. x \in [asset : Assets, trashed : BOOLEAN] /\ x.asset = e.rec /\ x.trashed = e.trashed
    BY <2>2, <2>4
  <2>7. pipe' = Append(pipe, x)
    BY <2>1, <2>2
  <2>8. x.asset \notin run'.purged /\ TrashOK(x.asset, x.trashed)'
    BY <1>1, <2>4, <2>5, <2>6 DEF TrashOK
  <2> QED BY <2>6, <2>7, <2>8, PipeMore
<1>5. CASE StreamEvent /\ StreamOffers(Head(channel))
  <2>1. PICK e, x : e = Head(channel) /\ x = [asset |-> e.rec, trashed |-> FALSE]
    OBVIOUS
  <2>2. channel # <<>> /\ Fresh(e) /\ pipe' = Append(pipe, x)
    BY <1>5, <2>1 DEF StreamEvent, StreamOffers
  <2>3. e.rec \in Assets /\ e.rec \notin run.purged
    BY <2>1, <2>2, HeadEvent DEF EventOK, Fresh
  <2>4. x \in [asset : Assets, trashed : BOOLEAN] /\ x.asset = e.rec /\ x.trashed = FALSE
    BY <2>1, <2>3
  <2>5. x.asset \notin run'.purged /\ TrashOK(x.asset, x.trashed)'
    BY <1>1, <2>3, <2>4 DEF TrashOK
  <2> QED BY <2>2, <2>4, <2>5, PipeMore
<1>6. CASE pipe' = pipe
  BY <1>2, <1>6
<1> QED BY <1>3, <1>4, <1>5, <1>6, MidPipes

LEMMA RelateRun ==
    ASSUME SafeInv, Relate
    PROVE  \E i \in DOMAIN run.events :
              LET e == run.events[i]
              IN  /\ Turn("relate", i) /\ e.kind = "rel" /\ e.rec \in Assets /\ zone[Rel(e.rec)].at > db.token
                  /\ run.pc = "relate" /\ run'.at = i /\ run'.pc = "relate" /\ run'.events = run.events
                  /\ \/ db' = db /\ (run'.unsafe \/ ~cfg.album)
                     \/ /\ cfg.album /\ db'.token = db.token /\ db'.snapshot = db.snapshot
                        /\ db'.members = IF e.reason = "created" THEN db.members \cup {e.rec} ELSE db.members \ {e.rec}
<1>1. run \in Runs /\ db \in Databases
  BY Types DEF SafeInv
<1>2. PICK i \in DOMAIN run.events :
          LET e == run.events[i]
              next == [run EXCEPT !.at = i, !.unsafe = @ \/ (cfg.album /\ UnknownAsset(e))]
          IN  /\ Turn("relate", i)
              /\ \/ run' = next /\ db' = IF cfg.album THEN MembersAfter(db, e) ELSE db
                 \/ run' = [next EXCEPT !.unsafe = TRUE] /\ db' = db
  BY DEF Relate, Writes
<1>3. PICK e : e = run.events[i]
  OBVIOUS
<1>4. e.kind = "rel" /\ e.rec \in Assets /\ zone[Rel(e.rec)].at > db.token /\ run.pc = "relate"
  BY <1>2, <1>3, KeptEvent DEF Turn, Left, Concerns, EventOK
<1>5. run'.at = i /\ run'.pc = "relate" /\ run'.events = run.events /\ (db' = db => run'.unsafe \/ ~cfg.album \/ db' = MembersAfter(db, e))
  BY <1>1, <1>2, <1>3, <1>4 DEF Runs
<1>6. db' = db \/ (cfg.album /\ db' = MembersAfter(db, e))
  BY <1>2, <1>3
<1>7. CASE cfg.album /\ db' = MembersAfter(db, e)
  <2>1. /\ db'.token = db.token /\ db'.snapshot = db.snapshot
        /\ db'.members = IF e.reason = "created" THEN db.members \cup {e.rec} ELSE db.members \ {e.rec}
    BY <1>1, <1>7 DEF MembersAfter, Databases
  <2> QED BY <1>2, <1>3, <1>4, <1>5, <1>7, <2>1
<1>8. CASE db' = db /\ ~(cfg.album /\ db' = MembersAfter(db, e))
  <2>1. run'.unsafe \/ ~cfg.album
    BY <1>5, <1>8
  <2> QED BY <1>2, <1>3, <1>4, <1>5, <1>8, <2>1
<1> QED BY <1>6, <1>7, <1>8

LEMMA MidMembers ==
    ASSUME SafeInv, MidStep
    PROVE  MembershipSound'
<1>1. zone' = zone /\ db'.token = db.token /\ db'.snapshot = db.snapshot /\ (db'.members = db.members \/ Relate)
  BY Mid DEF MidFrame
<1>2. CASE db'.members = db.members
  BY <1>1, <1>2, MembersStay
<1>3. CASE Relate /\ db'.members # db.members
  <2>1. PICK x \in Assets : zone[Rel(x)].at > db.token /\ db'.members \in {db.members \cup {x}, db.members \ {x}}
    BY <1>3, RelateRun
  <2>2. ASSUME NEW a \in Assets, db.snapshot, zone[Rel(a)].at <= db.token PROVE a \in db'.members <=> Exists(Rel(a))
    <3>1. a # x
      <4>1. zone[Rel(x)].at \in Nat /\ db.token \in Nat
        BY Types, Consts DEF SafeInv
      <4> QED BY <2>1, <2>2, <4>1
    <3>2. a \in db.members <=> Exists(Rel(a))
      BY <2>2 DEF SafeInv, MembershipSound
    <3> QED BY <2>1, <3>1, <3>2
  <2> QED BY <1>1, <2>2 DEF MembershipSound, Exists
<1> QED BY <1>1, <1>2, <1>3
-----------------------------------------------------------------------------
(* The relations on their way to the stored memberships. *)

Window(a) == zone[Rel(a)].at > db.token /\ zone[Rel(a)].at <= Frontier
Before == {"read", "await", "map", "hydrate", "select", "scan"}
RelAt(a) ==
    /\ run.pc \in Before => RelLast(Line, a, 0)
    /\ run.pc = "relate" => \/ RelLast(run.events, a, run.at)
                            \/ Member(a) /\ NoRel(run.events, a, run.at)
    /\ run.pc \in {"apply", "plan", "report"} => Member(a)

LEMMA RelParts ==
    RelationsOK <=> (cfg.album /\ ~Doomed => \A a \in Assets : Window(a) => RelAt(a))
  BY DEF RelationsOK, Window, RelAt, Before

LEMMA RelPartsNext ==
    ASSUME cfg'.album /\ ~Doomed' => \A a \in Assets : Window(a)' => RelAt(a)'
    PROVE  RelationsOK'
  BY DEF RelationsOK, Window, RelAt, Before

LEMMA RelStays ==
    ASSUME zone' = zone, NEW s, NEW a, NEW k
    PROVE  (RelLast(s, a, k)' <=> RelLast(s, a, k)) /\ (NoRel(s, a, k)' <=> NoRel(s, a, k))
  BY DEF RelLast, NoRel, Says, RelOf, Exists

(* Events that are no relations may change. *)
LEMMA RelLike ==
    ASSUME NEW s, NEW t, DOMAIN t = DOMAIN s, NEW a, NEW k,
           \A j \in DOMAIN s : t[j] = s[j] \/ (s[j].kind # "rel" /\ t[j].kind # "rel"),
           RelLast(s, a, k)
    PROVE  RelLast(t, a, k)
<1>1. PICK i \in DOMAIN s : i > k /\ Says(s[i], a) /\ \A j \in DOMAIN s : j > i => ~RelOf(s[j], a)
  BY DEF RelLast
<1>2. t[i] = s[i]
  BY <1>1 DEF Says, RelOf
<1>3. \A j \in DOMAIN t : j > i => ~RelOf(t[j], a)
  BY <1>1 DEF RelOf
<1> QED BY <1>1, <1>2, <1>3 DEF RelLast

LEMMA LateLine ==
    ASSUME SafeInv, ~stopped, run.pc \in Late
    PROVE  Flow = <<>> /\ Line = run.events
<1>1. channel = <<>> /\ prod.pc \in {"done", "off"} /\ (prod.pc = "off" => prod = Off)
  BY DEF SafeInv, ShapeOK
<1>2. prod.todo = <<>>
  BY <1>1, OffFields DEF SafeInv, ShapeOK
<1>3. Flow = <<>>
  BY <1>1, <1>2, NothingAt DEF Flow
<1>4. run.events \in Seq(Events)
  BY Types DEF SafeInv
<1>5. run.events \o <<>> = run.events
  BY <1>4, EmptyLine
<1> QED BY <1>3, <1>5 DEF Line

(* The head of the channel moves from one end of the line to the other. *)
LineBefore(s, c, u) == s \o (c \o u)
LineAfter(s, c, u) == Append(s, Head(c)) \o (Tail(c) \o u)

LEMMA CollectLine ==
    ASSUME NEW S, NEW s \in Seq(S), NEW c \in Seq(S), NEW u \in Seq(S), c # <<>>
    PROVE  LineAfter(s, c, u) = LineBefore(s, c, u)
  BY DEF LineBefore, LineAfter

(* What a step that does not doom the run starts from. *)
LEMMA RelStart ==
    ASSUME SafeInv, MidStep, cfg.album, ~Doomed', NEW a \in Assets, Window(a)'
    PROVE  /\ RelAt(a) /\ ~Streaming /\ ~stopped /\ run'.pc # "failed" /\ ~run'.unsafe /\ pipe = <<>> /\ zone' = zone
           /\ run.pc \in Late => Flow = <<>> /\ Line = run.events
<1>1. zone' = zone /\ cfg' = cfg /\ stopped' = stopped /\ db'.token = db.token
  BY Mid DEF MidFrame
<1>2. ~Doomed
  BY MidDoomed
<1>3. ~stopped /\ run'.pc # "failed" /\ ~run'.unsafe
  BY <1>1 DEF Doomed
<1>4. Frontier' = Frontier
  BY <1>3, MidFrontier
<1>5. Window(a)
  BY <1>1, <1>4 DEF Window
<1>6. RelAt(a)
  BY <1>2, <1>5, RelParts DEF SafeInv
<1>7. ~Streaming /\ pipe = <<>>
  BY DEF Streaming, SafeInv, ShapeOK
<1> QED BY <1>1, <1>3, <1>6, <1>7, LateLine

LEMMA RelSameLine ==
    ASSUME zone' = zone, NEW a \in Assets, RelAt(a), Line' = Line, run.pc \in Before, run'.pc \in Before
    PROVE  RelAt(a)'
<1>1. PICK s : s = Line
  OBVIOUS
<1>2. RelLast(s, a, 0)'
  BY <1>1, RelStays DEF RelAt
<1>3. RelLast(Line, a, 0)'
  BY <1>1, <1>2 DEF RelLast, Says
<1> QED BY <1>3 DEF RelAt, Before

LEMMA RelSameMembers ==
    ASSUME zone' = zone, NEW a \in Assets, RelAt(a), db'.members = db.members, run.pc \in {"apply", "plan", "report"}, run'.pc \in {"apply", "plan", "report"}
    PROVE  RelAt(a)'
  BY DEF RelAt, Before, Member, Exists

LEMMA RelRelate ==
    ASSUME SafeInv, Relate, zone' = zone, cfg.album, ~run'.unsafe, NEW a \in Assets, RelAt(a)
    PROVE  RelAt(a)'
<1>1. PICK i \in DOMAIN run.events :
         LET e == run.events[i]
         IN  /\ Turn("relate", i) /\ e.kind = "rel" /\ e.rec \in Assets
             /\ run.pc = "relate" /\ run'.at = i /\ run'.pc = "relate" /\ run'.events = run.events
             /\ db'.members = IF e.reason = "created" THEN db.members \cup {e.rec} ELSE db.members \ {e.rec}
  BY RelateRun
<1>2. PICK s, k : s = run.events /\ k = run.at
  OBVIOUS
<1>3. s \in Seq(Events) /\ DOMAIN s = 1 .. Len(s) /\ Len(s) \in Nat /\ k \in Nat /\ i \in DOMAIN s /\ i > k
  BY <1>1, <1>2, Types DEF SafeInv, Turn, Left
<1>4. \A j \in DOMAIN s : j > k /\ RelOf(s[j], a) => i <= j
  BY <1>1, <1>2 DEF Turn, Left, Concerns, RelOf
<1>5. RelLast(s, a, k) \/ (Member(a) /\ NoRel(s, a, k))
  BY <1>1, <1>2 DEF RelAt
<1>6. CASE s[i].rec # a
  <2>1. Member(a)' <=> Member(a)
    BY <1>1, <1>2, <1>6 DEF Member, Exists
  <2>2. CASE RelLast(s, a, k)
    <3>1. PICK w \in DOMAIN s : w > k /\ Says(s[w], a) /\ \A j \in DOMAIN s : j > w => ~RelOf(s[j], a)
      BY <2>2 DEF RelLast
    <3>2. i <= w /\ i # w
      BY <1>4, <1>6, <3>1 DEF Says, RelOf
    <3>3. w > i
      BY <1>3, <3>2
    <3>4. RelLast(s, a, i)
      BY <3>1, <3>3 DEF RelLast
    <3> QED BY <1>1, <1>2, <3>4, RelStays DEF RelAt, Before
  <2>3. CASE Member(a) /\ NoRel(s, a, k)
    <3>1. NoRel(s, a, i)
      BY <1>3, <2>3 DEF NoRel
    <3> QED BY <1>1, <1>2, <2>1, <2>3, <3>1, RelStays DEF RelAt, Before
  <2> QED BY <1>5, <2>2, <2>3
<1>7. CASE s[i].rec = a
  <2>1. RelOf(s[i], a)
    BY <1>1, <1>2, <1>7 DEF RelOf
  <2>2. RelLast(s, a, k)
    BY <1>3, <1>5, <2>1 DEF NoRel
  <2>3. PICK w \in DOMAIN s : w > k /\ Says(s[w], a) /\ \A j \in DOMAIN s : j > w => ~RelOf(s[j], a)
    BY <2>2 DEF RelLast
  <2>4. i <= w
    BY <1>4, <2>3 DEF Says
  <2>5. CASE w = i
    <3>1. Member(a)'
      BY <1>1, <1>2, <1>7, <2>3, <2>5 DEF Member, Says, Exists
    <3>2. NoRel(s, a, i)
      BY <2>3, <2>5 DEF NoRel
    <3> QED BY <1>1, <1>2, <3>1, <3>2, RelStays DEF RelAt, Before
  <2>6. CASE w # i
    <3>1. w > i
      BY <1>3, <2>4, <2>6
    <3>2. RelLast(s, a, i)
      BY <2>3, <3>1 DEF RelLast
    <3> QED BY <1>1, <1>2, <3>2, RelStays DEF RelAt, Before
  <2> QED BY <2>5, <2>6
<1> QED BY <1>6, <1>7

(* Lookups and names are about photos. *)
LEMMA RelOther ==
    ASSUME SafeInv, Hydrate \/ Select, zone' = zone, ~stopped, ~run'.unsafe, NEW a \in Assets, RelAt(a)
    PROVE  RelAt(a)'
<1>1. \E i, x :
         /\ i \in DOMAIN run.events /\ run.events[i].kind # "rel" /\ x.kind # "rel" /\ run'.events = [run.events EXCEPT ![i] = x] /\ run'.pc = run.pc
         /\ run.pc \in {"hydrate", "select"}
  <2>1. CASE Hydrate
    <3>1. PICK i \in DOMAIN run.events :
              /\ Turn("hydrate", i) /\ run'.pc = run.pc
              /\ run'.events = [run.events EXCEPT ![i] = Hydrated(run.events[i])]
      BY <2>1, HydrateFrame
    <3>2. run.pc = "hydrate" /\ Half(run.events[i])
      BY <3>1 DEF Turn, Left, Concerns
    <3>3. PICK x : x = Hydrated(run.events[i])
      OBVIOUS
    <3>4. x.kind # "rel"
      BY <3>2, <3>3 DEF Hydrated, Event, Half
    <3> QED BY <3>1, <3>2, <3>3, <3>4 DEF Half
  <2>2. CASE Select
    <3>1. PICK i, k :
              /\ i \in DOMAIN run.events /\ Turn("select", i) /\ run'.pc = run.pc /\ run'.events = [run.events EXCEPT ![i] = [run.events[i] EXCEPT !.id = k]]
      BY <2>2, SelectFrame
    <3>2. run.pc = "select" /\ Fresh(run.events[i]) /\ run.events[i] \in Events
      BY <3>1, KeptEvent DEF Turn, Left, Concerns
    <3>3. PICK x : x = [run.events[i] EXCEPT !.id = k]
      OBVIOUS
    <3>4. x.kind = run.events[i].kind
      BY <3>2, <3>3 DEF Events
    <3> QED BY <3>1, <3>2, <3>3, <3>4 DEF Fresh
  <2> QED BY <2>1, <2>2
<1>2. PICK i, x :
         /\ i \in DOMAIN run.events /\ run.events[i].kind # "rel" /\ x.kind # "rel" /\ run'.events = [run.events EXCEPT ![i] = x] /\ run'.pc = run.pc
         /\ run.pc \in {"hydrate", "select"}
  BY <1>1
<1>3. PICK s, t : s = run.events /\ t = run'.events
  OBVIOUS
<1>4. Line = s /\ Flow = <<>>
  BY <1>2, <1>3, LateLine DEF Late
<1>5. Line' = t
  <2>1. run.pc # "read" /\ MidStep
    BY <1>2 DEF MidStep
  <2>2. channel' = channel /\ prod' = prod
    BY DEF Hydrate, Select
  <2>3. Flow' = <<>>
    BY <1>4, <2>2 DEF Flow
  <2>4. t \in Seq(Events)
    <3>1. run' \in Runs
      BY <2>1, Mid DEF MidFrame, MidRun
    <3> QED BY <1>3, <3>1 DEF Runs
  <2>5. t \o <<>> = t
    BY <2>4, EmptyLine
  <2> QED BY <1>3, <2>3, <2>5 DEF Line
<1>6. RelLast(s, a, 0)
  BY <1>2, <1>4 DEF RelAt, Before
<1>7. DOMAIN t = DOMAIN s /\ \A j \in DOMAIN s : t[j] = s[j] \/ (s[j].kind # "rel" /\ t[j].kind # "rel")
  BY <1>2, <1>3
<1>8. RelLast(t, a, 0)
  BY <1>6, <1>7, RelLike
<1>9. RelLast(t, a, 0)'
  BY <1>8, RelStays
<1>10. RelLast(Line, a, 0)'
  BY <1>5, <1>9 DEF RelLast, Says
<1> QED BY <1>2, <1>10 DEF RelAt, Before

LEMMA MidRelations ==
    ASSUME SafeInv, MidStep
    PROVE  RelationsOK'
<1> SUFFICES ASSUME cfg'.album, ~Doomed', NEW a \in Assets, Window(a)' PROVE RelAt(a)'
  BY RelPartsNext
<1>1. cfg' = cfg /\ cfg.album
  BY Mid DEF MidFrame
<1>2. RelAt(a) /\ ~Streaming /\ ~stopped /\ run'.pc # "failed" /\ ~run'.unsafe /\ pipe = <<>> /\ zone' = zone
      /\ (run.pc \in Late => Flow = <<>> /\ Line = run.events)
  BY <1>1, RelStart
<1>3. run.events \in Seq(Events) /\ channel \in Seq(Events) /\ prod.todo \in Seq(Events)
  BY Types DEF SafeInv
<1>4. CASE CollectEvent
  <2>1. run.pc = "read" /\ channel # <<>> /\ run'.pc = "read" /\ run'.events = Append(run.events, Head(channel)) /\ channel' = Tail(channel) /\ prod' = prod
    BY <1>2, <1>4, CollectRun
  <2>2. LineAfter(run.events, channel, prod.todo) = LineBefore(run.events, channel, prod.todo)
    BY <1>3, <2>1, CollectLine
  <2>3. Line = LineBefore(run.events, channel, prod.todo)
    BY DEF Line, Flow, LineBefore
  <2>4. Line' = LineAfter(run.events, channel, prod.todo)
    BY <2>1 DEF Line, Flow, LineAfter
  <2>5. Line' = Line
    BY <2>2, <2>3, <2>4
  <2> QED BY <1>2, <2>1, <2>5, RelSameLine DEF Before
<1>5. CASE run'.events = run.events /\ channel' = channel /\ prod' = prod /\ run.pc \in Before /\ run'.pc \in Before
  <2>1. Line' = Line
    BY <1>5 DEF Line, Flow
  <2> QED BY <1>2, <1>5, <2>1, RelSameLine
<1>6. CASE EndOfDelta
  <2>1. run'.events = run.events /\ channel' = channel /\ prod' = prod /\ run.pc = "read" /\ run'.pc = "await"
    BY <1>2, <1>6, PassRun DEF EndOfDelta
  <2> QED BY <1>5, <2>1 DEF Before
<1>7. CASE ReceiveToken
  <2>1. run.pc = "await" /\ run'.pc = "map" /\ run'.events = run.events /\ channel' = <<>> /\ prod' = Off
    <3>1. run.pc = "await"
      BY <1>7 DEF ReceiveToken
    <3> QED BY <1>2, <1>7, <3>1, PassRun
  <2>2. Flow' = <<>>
    BY <2>1, OffFields, NothingAt DEF Flow
  <2>3. Line' = run.events
    BY <1>3, <2>1, <2>2, EmptyLine DEF Line
  <2>4. Line = run.events
    BY <1>2, <2>1 DEF Late
  <2>5. Line' = Line
    BY <2>3, <2>4
  <2> QED BY <1>2, <2>1, <2>5, RelSameLine DEF Before
<1>8. CASE MapPairs
  BY <1>5, <1>8, MapRun DEF Before
<1>9. CASE NextPhase
  <2>1. Left = {} /\ run'.events = run.events /\ run'.at = 0 /\ UNCHANGED <<db, prod, channel>>
    BY <1>9, PhaseRun
  <2>2. CASE run.pc \in {"hydrate", "select"}
    BY <1>2, <1>5, <1>9, <2>1, <2>2, PhaseRun DEF Before
  <2>3. CASE run.pc = "scan" /\ run'.pc = "relate"
    <3>1. PICK s : s = run.events
      OBVIOUS
    <3>2. RelLast(s, a, 0)
      BY <1>2, <2>3, <3>1 DEF RelAt, Before, Late
    <3> QED BY <1>2, <2>1, <2>3, <3>1, <3>2, RelStays DEF RelAt, Before
  <2>4. CASE run.pc = "relate" /\ run'.pc = "apply"
    <3>1. ~RelLast(run.events, a, run.at)
      BY <2>1, <2>4 DEF RelLast, Left, Concerns, Says, RelOf
    <3>2. Member(a)
      BY <1>2, <2>4, <3>1 DEF RelAt
    <3> QED BY <1>2, <2>1, <2>4, <3>2 DEF RelAt, Before, Member, Exists
  <2>5. CASE run.pc \in {"apply", "plan"} /\ run'.pc \in {"plan", "report"}
    BY <1>2, <2>1, <2>5, RelSameMembers
  <2>6. run.pc # "offer"
    BY <1>2 DEF SafeInv, ShapeOK
  <2> QED BY <1>2, <1>9, <2>2, <2>3, <2>4, <2>5, <2>6, PhaseRun
<1>10. CASE Hydrate \/ Select
  BY <1>2, <1>10, RelOther
<1>11. CASE LookupFails \/ ScanFails
  BY <1>2, <1>11, FailRun
<1>12. CASE OfferHydrated
  BY <1>2, <1>12 DEF OfferHydrated, Turn, SafeInv, ShapeOK
<1>13. CASE Relate
  BY <1>1, <1>2, <1>13, RelRelate
<1>14. CASE Route \/ Apply
  <2>1. run.pc = "apply" /\ run'.pc = run.pc
    BY <1>14, IndexFrame DEF Route, Apply, Turn
  <2>2. db'.members = db.members
    BY <1>14, ApplyEffect DEF Route
  <2> QED BY <1>2, <2>1, <2>2, RelSameMembers
<1>15. CASE ScanMissing
  <2>1. run.pc = "scan" /\ run'.pc = "scan" /\ run'.events = run.events
    BY <1>15, ScanFrame
  <2> QED BY <1>5, <1>15, <2>1 DEF Before, ScanMissing
<1>16. CASE PlanRow
  BY <1>2, <1>16, PlanFrame, PlanEffect, RelSameMembers
<1>17. CASE StreamEvent \/ BreakAtStop \/ PipelineTakes
  BY <1>2, <1>17 DEF StreamEvent, BreakAtStop, PipelineTakes
<1> QED BY <1>4, <1>6, <1>7, <1>8, <1>9, <1>10, <1>11, <1>12, <1>13, <1>14, <1>15, <1>16, <1>17 DEF MidStep
-----------------------------------------------------------------------------
(* The tombstones on their way to the rows. *)

LEMMA ApplyRun ==
    ASSUME SafeInv, Apply
    PROVE  \E i \in DOMAIN run.events :
              /\ Turn("apply", i) /\ ~Fresh(run.events[i]) /\ run.pc = "apply" /\ run'.at = i /\ run'.pc = "apply"
              /\ run'.events = run.events /\ run'.ready = run.ready
              /\ run'.unsafe \/ db' = ApplySourceState(db, run.events[i])
<1>1. run \in Runs
  BY Types DEF SafeInv
<1>2. PICK i \in DOMAIN run.events :
          /\ Turn("apply", i) /\ ~Fresh(run.events[i])
          /\ \/ run' = [run EXCEPT !.at = i] /\ db' = ApplySourceState(db, run.events[i])
             \/ run' = [run EXCEPT !.at = i, !.unsafe = TRUE]
  BY DEF Apply, Writes
<1>3. run.pc = "apply"
  BY <1>2 DEF Turn
<1>4. CASE run' = [run EXCEPT !.at = i] /\ db' = ApplySourceState(db, run.events[i])
  BY <1>1, <1>2, <1>3, <1>4 DEF Runs
<1>5. CASE run' = [run EXCEPT !.at = i, !.unsafe = TRUE]
  BY <1>1, <1>2, <1>3, <1>5 DEF Runs
<1> QED BY <1>2, <1>4, <1>5

TombAt(a) == Unread(a) \/ (\E e \in Elems(Flow) : Tomb(e, a)) \/ TombKept(a) \/ ~Waiting(db, a)

LEMMA TombStart ==
    ASSUME SafeInv, MidStep, ~Doomed', NEW a \in run.purged, zone[a].at > db.token
    PROVE  /\ TombAt(a) /\ ~stopped /\ run'.pc # "failed" /\ ~run'.unsafe /\ Frontier' = Frontier /\ zone' = zone /\ Streaming' = Streaming
           /\ ~Waiting(db, a) => ~Waiting(db', a)
           /\ a \in Assets /\ a \in Keys
<1>1. zone' = zone /\ cfg' = cfg /\ stopped' = stopped
  BY Mid DEF MidFrame
<1>2. ~Doomed
  BY MidDoomed
<1>3. ~stopped /\ run'.pc # "failed" /\ ~run'.unsafe
  BY <1>1 DEF Doomed
<1>4. Frontier' = Frontier
  BY <1>3, MidFrontier
<1>5. TombAt(a)
  BY <1>2 DEF SafeInv, TombsOK, TombAt
<1>6. a \in Assets /\ a \in Keys
  <2>1. run \in Runs
    BY Types DEF SafeInv
  <2> QED BY <2>1, Consts DEF Runs
<1>7. ~Waiting(db, a) => ~Waiting(db', a)
  BY <1>6, Mid DEF Effect, DbMove
<1>8. Streaming' = Streaming
  BY <1>1 DEF Streaming
<1> QED BY <1>1, <1>3, <1>4, <1>5, <1>6, <1>7, <1>8

LEMMA TombUnread ==
    ASSUME SafeInv, MidStep, ~stopped, run'.pc # "failed", Frontier' = Frontier, zone' = zone, NEW a \in Assets, Unread(a)
    PROVE  Unread(a)'
<1>1. run.pc = "read" /\ prod.pc \in {"page", "send"}
  BY DEF Unread
<1>2. run'.pc = run.pc /\ prod' = prod
  <2>1. ~BreakAtStop /\ ~EndOfDelta /\ ~ReceiveToken /\ ~MapPairs
    BY <1>1 DEF BreakAtStop, EndOfDelta, ReceiveToken, MapPairs
  <2>2. ~NextPhase
    BY <1>1 DEF NextPhase
  <2> QED BY <2>1, <2>2, MidPhase
<1> QED BY <1>2 DEF Unread

LEMMA TombFlow ==
    ASSUME SafeInv, MidStep, ~stopped, run'.pc # "failed", ~run'.unsafe, NEW a \in Assets,
           NEW e \in Elems(Flow), Tomb(e, a)
    PROVE  (\E f \in Elems(Flow') : Tomb(f, a)) \/ TombKept(a)' \/ ~Waiting(db', a)
<1>1. CASE Flow' = Flow
  BY <1>1
<1>2. CASE ReceiveToken
  <2>1. run.pc \in Late
    BY <1>2 DEF ReceiveToken, Late
  <2>2. Flow = <<>>
    BY <2>1, LateLine
  <2> QED BY <2>2, NothingAt
<1>3. CASE CollectEvent
  <2>1. /\ channel # <<>> /\ channel' = Tail(channel) /\ prod' = prod /\ run'.pc = "read"
        /\ run'.events = Append(run.events, Head(channel))
    BY <1>3, CollectRun
  <2>2. Elems(Flow) = {Head(channel)} \cup Elems(Flow')
    BY <2>1, MidFlow
  <2>3. CASE e = Head(channel)
    <3>1. run.events \in Seq(Events)
      BY Types DEF SafeInv
    <3>2. Len(run.events) + 1 \in DOMAIN run'.events /\ run'.events[Len(run.events) + 1] = e
      BY <2>1, <2>3, <3>1
    <3> QED BY <2>1, <3>2 DEF TombKept
  <2> QED BY <2>2, <2>3
<1>4. CASE StreamEvent
  <2>1. channel # <<>> /\ channel' = Tail(channel) /\ prod' = prod
    BY <1>4, StreamRun
  <2>2. Elems(Flow) = {Head(channel)} \cup Elems(Flow')
    BY <2>1, MidFlow
  <2>3. CASE e = Head(channel)
    <3>1. e.kind = "tomb" /\ e.rec = a /\ db' = ApplySourceState(db, e)
      BY <1>4, <2>3, StreamRun DEF Tomb, Half, Fresh
    <3>2. EventOK(e) /\ Sound(db)
      BY <2>1, <2>3, HeadEvent, SoundDb
    <3> QED BY <3>1, <3>2, SourceStep
  <2> QED BY <2>2, <2>3
<1>5. CASE ~ReceiveToken /\ ~CollectEvent /\ ~StreamEvent
  <2>1. ~BreakAtStop
    BY DEF BreakAtStop
  <2>2. Flow' = Flow
    BY <1>5, <2>1, MidPipes DEF Flow
  <2> QED BY <1>1, <2>2
<1> QED BY <1>2, <1>3, <1>4, <1>5

TombPhases == {"read", "await", "map", "hydrate", "select", "scan", "relate"}

LEMMA TombKeep ==
    ASSUME SafeInv, MidStep, ~stopped, run'.pc # "failed", ~run'.unsafe, NEW a \in Assets, TombKept(a)
    PROVE  TombKept(a)' \/ ~Waiting(db', a)
<1>1. PICK i \in DOMAIN run.events :
          /\ Tomb(run.events[i], a)
          /\ run.pc \in TombPhases \/ (run.pc = "apply" /\ i > run.at)
  BY DEF TombKept, TombPhases
<1>2. run.events[i].kind = "tomb" /\ run.events[i].rec = a /\ EventOK(run.events[i]) /\ ~Streaming
  BY <1>1 DEF Tomb, SafeInv, KeptOK
<1>3. DOMAIN run.events = 1 .. Len(run.events) /\ Len(run.events) \in Nat /\ i \in Nat \ {0} /\ run.at \in Nat
  <2>1. run.events \in Seq(Events) /\ run.at \in Nat
    BY Types DEF SafeInv
  <2> QED BY <2>1
<1>4. pipe = <<>> /\ run.pc # "offer"
  BY <1>2 DEF SafeInv, ShapeOK
<1>5. run.pc = "apply" => i \in Left
  BY <1>1, <1>2 DEF Left, Concerns, EventOK, TombPhases
<1>6. CASE i \in DOMAIN run'.events /\ run'.events[i] = run.events[i] /\ run'.pc \in TombPhases
  BY <1>1, <1>6 DEF TombKept, TombPhases, Tomb
<1>7. CASE CollectEvent
  <2>1. run'.pc = "read" /\ run'.events = Append(run.events, Head(channel))
    BY <1>7, CollectRun
  <2>2. run.events \in Seq(Events)
    BY Types DEF SafeInv
  <2>3. i \in DOMAIN run'.events /\ run'.events[i] = run.events[i]
    BY <1>3, <2>1, <2>2
  <2> QED BY <1>6, <2>1, <2>3 DEF TombPhases
<1>8. CASE EndOfDelta \/ ReceiveToken
  <2>1. run'.events = run.events /\ run'.pc \in {"await", "map"}
    BY <1>2, <1>8, PassRun DEF EndOfDelta, ReceiveToken
  <2> QED BY <1>6, <2>1 DEF TombPhases
<1>9. CASE MapPairs
  BY <1>6, <1>9, MapRun DEF TombPhases
<1>10. CASE NextPhase
  <2>1. Left = {} /\ run'.events = run.events /\ run'.at = 0
    BY <1>10, PhaseRun
  <2>2. run.pc # "apply" /\ run.pc # "plan"
    BY <1>1, <1>5, <2>1 DEF TombPhases
  <2>3. CASE run'.pc \in TombPhases
    BY <1>6, <2>1, <2>3
  <2>4. CASE run'.pc = "apply"
    BY <1>1, <1>3, <2>1, <2>4 DEF TombKept, Tomb
  <2> QED BY <1>2, <1>4, <1>10, <2>2, <2>3, <2>4, PhaseRun DEF TombPhases
<1>11. CASE Hydrate
  <2>1. PICK j \in DOMAIN run.events : Turn("hydrate", j) /\ run'.pc = run.pc /\ run'.events = [run.events EXCEPT ![j] = Hydrated(run.events[j])]
    BY <1>11, HydrateFrame
  <2>2. j # i /\ run'.pc = "hydrate"
    BY <1>2, <2>1 DEF Turn, Left, Concerns, Half
  <2>3. i \in DOMAIN run'.events /\ run'.events[i] = run.events[i]
    BY <2>1, <2>2
  <2> QED BY <1>6, <2>2, <2>3 DEF TombPhases
<1>12. CASE Select
  <2>1. PICK j \in DOMAIN run.events : Turn("select", j) /\ run'.pc = run.pc /\ \E x : run'.events = [run.events EXCEPT ![j] = x]
    BY <1>12, SelectFrame
  <2>2. j # i /\ run'.pc = "select"
    BY <1>2, <2>1 DEF Turn, Left, Concerns, Fresh
  <2>3. i \in DOMAIN run'.events /\ run'.events[i] = run.events[i]
    BY <2>1, <2>2
  <2> QED BY <1>6, <2>2, <2>3 DEF TombPhases
<1>13. CASE LookupFails \/ ScanFails
  BY <1>13, FailRun
<1>14. CASE ScanMissing
  BY <1>6, <1>14, ScanFrame DEF TombPhases
<1>15. CASE Relate
  BY <1>6, <1>15, RelateRun DEF TombPhases
<1>16. CASE Route
  <2>1. PICK j \in DOMAIN run.events : Turn("apply", j) /\ Fresh(run.events[j]) /\ run.pc = "apply" /\ run'.at = j /\ run'.pc = "apply"
    BY <1>16, RouteRun
  <2>2. j <= i /\ j # i
    BY <1>2, <1>5, <2>1 DEF Turn, Fresh
  <2>3. i > j
    BY <1>3, <2>2
  <2>4. run'.events = run.events
    BY <1>16, IndexFrame
  <2> QED BY <1>1, <2>1, <2>3, <2>4 DEF TombKept
<1>17. CASE Apply
  <2>1. PICK j \in DOMAIN run.events : Turn("apply", j) /\ run.pc = "apply" /\ run'.at = j /\ run'.pc = "apply"
                                       /\ run'.events = run.events /\ db' = ApplySourceState(db, run.events[j])
    BY <1>17, ApplyRun
  <2>2. j <= i
    BY <1>5, <2>1 DEF Turn
  <2>3. CASE j = i
    BY <1>2, <2>1, <2>3, SoundDb, SourceStep
  <2>4. CASE j # i
    <3>1. i > j
      BY <1>3, <2>2, <2>4
    <3> QED BY <1>1, <2>1, <3>1 DEF TombKept
  <2> QED BY <2>3, <2>4
<1>18. CASE StreamEvent \/ BreakAtStop \/ OfferHydrated \/ PipelineTakes \/ PlanRow
  BY <1>1, <1>2, <1>4, <1>18 DEF StreamEvent, BreakAtStop, OfferHydrated, Turn, PipelineTakes, PlanRow, TombPhases
<1> QED BY <1>7, <1>8, <1>9, <1>10, <1>11, <1>12, <1>13, <1>14, <1>15, <1>16, <1>17, <1>18 DEF MidStep

LEMMA MidTombs ==
    ASSUME SafeInv, MidStep
    PROVE  TombsOK'
<1>1. zone' = zone /\ db'.token = db.token /\ run'.purged = run.purged
  BY Mid DEF MidFrame, MidRun
<1>2. \A a \in run'.purged : zone'[a].st = "gone"
  BY <1>1 DEF SafeInv, TombsOK
<1>3. ASSUME ~Doomed', NEW a \in run'.purged, zone'[a].at > db'.token
      PROVE  Unread(a)' \/ (\E e \in Elems(Flow') : Tomb(e, a)) \/ TombKept(a)' \/ ~Waiting(db', a)
  <2>1. a \in run.purged /\ zone[a].at > db.token
    BY <1>1, <1>3
  <2>2. TombAt(a) /\ ~stopped /\ run'.pc # "failed" /\ ~run'.unsafe /\ Frontier' = Frontier /\ zone' = zone /\ a \in Assets
        /\ (~Waiting(db, a) => ~Waiting(db', a))
    BY <1>3, <2>1, TombStart
  <2>3. CASE Unread(a)
    BY <2>2, <2>3, TombUnread
  <2>4. CASE \E e \in Elems(Flow) : Tomb(e, a)
    <3>1. PICK e \in Elems(Flow) : Tomb(e, a)
      BY <2>4
    <3> QED BY <2>2, <3>1, TombFlow
  <2>5. CASE TombKept(a)
    BY <2>2, <2>5, TombKeep
  <2>6. CASE ~Waiting(db, a)
    BY <2>2, <2>6
  <2> QED BY <2>2, <2>3, <2>4, <2>5, <2>6 DEF TombAt
<1> QED BY <1>2, <1>3 DEF TombsOK, Waiting

LEMMA MidInv ==
    ASSUME SafeInv, MidStep
    PROVE  SafeInv'
  BY MidTypes, MidQuiet, MidShape, MidKept, MidReady, MidPipe, MidRows, MidRelations, MidTombs, MidMembers DEF SafeInv

-----------------------------------------------------------------------------
(* The invariant. *)

LEMMA StutterInv ==
    ASSUME SafeInv, UNCHANGED vars
    PROVE  SafeInv'
<1>1. /\ zone' = zone /\ cfg' = cfg /\ db' = db /\ run' = run /\ prod' = prod /\ channel' = channel /\ pipe' = pipe
      /\ stopped' = stopped /\ mishaps' = mishaps
  BY DEF vars
<1>2. DeltaTypeOK' = DeltaTypeOK
  <2>1. clock' = clock
    BY <1>1, ClockStays
  <2> QED BY <1>1, <2>1 DEF DeltaTypeOK, Tokens
<1>3. ZoneOK' = ZoneOK /\ ShapeOK' = ShapeOK
  BY <1>1 DEF ZoneOK, ShapeOK, Exists, Alive, Late, Streaming
<1>4. PageOK' = PageOK /\ BufferOK' = BufferOK
  BY <1>1 DEF PageOK, BufferOK, EntryOK, Entry, ItemOK, MasterGone
<1>5. Flow' = Flow /\ Frontier' = Frontier /\ Line' = Line /\ Doomed' = Doomed /\ Streaming' = Streaming
  BY <1>1 DEF Flow, Frontier, Line, Doomed, Streaming
<1>6. FlowOK' = FlowOK
  BY <1>1, <1>5 DEF FlowOK, EventOK
<1>7. KeptOK' = KeptOK
  BY <1>1, <1>5 DEF KeptOK, EventOK, TrashOK, KeyOK, Named, HasRow
<1>8. ReadyOK' = ReadyOK /\ PipeOK' = PipeOK
  BY <1>1, <1>5 DEF ReadyOK, PipeOK, TrashOK, KeyOK, HasRow
<1>9. RowsOK' = RowsOK
  BY <1>1, <1>5 DEF RowsOK, HasRow
<1>10. RelationsOK' = RelationsOK
  BY <1>1, <1>5 DEF RelationsOK, RelLast, NoRel, Says, Member, Exists
<1>11. TombsOK' = TombsOK
  BY <1>1, <1>5 DEF TombsOK, Unread, TombKept, Waiting
<1>12. MembershipSound' = MembershipSound
  BY <1>1 DEF MembershipSound, Exists
<1> QED BY <1>2, <1>3, <1>4, <1>6, <1>7, <1>8, <1>9, <1>10, <1>11, <1>12 DEF SafeInv

LEMMA NextInv ==
    ASSUME SafeInv, [DeltaNext]_vars
    PROVE  SafeInv'
<1>1. CASE ZoneChange
  BY <1>1, ZoneInv
<1>2. CASE ProducerStep
  BY <1>2, ProducerInv
<1>3. CASE RunStep
  <2>1. StartRun \/ Backfill \/ Report \/ Fail \/ MidStep
    BY <1>3 DEF RunStep, MidStep
  <2> QED BY <2>1, StartInv, BackfillInv, ReportInv, FailInv, MidInv
<1>4. CASE Stop \/ Crash \/ ForceExit
  BY <1>4, StopInv, DeathInv
<1>5. CASE UNCHANGED vars
  BY <1>5, StutterInv
<1> QED BY <1>1, <1>2, <1>3, <1>4, <1>5 DEF DeltaNext
-----------------------------------------------------------------------------
(* The theorems about every behaviour. *)

LEMMA Invariance == DeltaSpec => []SafeInv
<1>1. DeltaInit => SafeInv
  BY InitInv
<1>2. SafeInv /\ [DeltaNext]_vars => SafeInv'
  BY NextInv
<1> QED BY <1>1, <1>2, PTL DEF DeltaSpec

(* Every variable has its type in every reachable state, the stored, the     *)
(* received and the paging token are changes that the zone has made, and the *)
(* producer's channel and the pipeline's respect their capacities.           *)
THEOREM DeltaTypes == DeltaSpec => []DeltaTypeOK
<1>1. SafeInv => DeltaTypeOK
  BY DEF SafeInv
<1> QED BY <1>1, Invariance, PTL

(* The stored memberships of an album with a complete snapshot are those of  *)
(* the zone, as far as the stored token claims to know it, in whatever order *)
(* additions, removals, purges, pages, failures, stops and crashes come.     *)
THEOREM Memberships == DeltaSpec => []MembershipSound
<1>1. SafeInv => MembershipSound
  BY DEF SafeInv
<1> QED BY <1>1, Invariance, PTL

(* The token moves at the report only with the tombstones applied. *)
LEMMA ReportLands ==
    ASSUME SafeInv, Report, db'.token # db.token, NEW k \in Keys, Waiting(db', k)
    PROVE  ~(db'.rows[k].of \in run.purged /\ zone[db'.rows[k].of].at > db.token)
<1>1. Advances /\ run.pc = "report" /\ Sound(db') /\ Waiting(db, k)
  BY ReportDb DEF Report
<1>2. ~Doomed /\ Flow = <<>>
  BY <1>1, ReportClean
<1>3. k \in Assets /\ db'.rows[k].of = k
  BY <1>1, Consts DEF Sound, Waiting, HasRow
<1>4. ASSUME k \in run.purged, zone[k].at > db.token PROVE FALSE
  <2>1. Unread(k) \/ (\E e \in Elems(Flow) : Tomb(e, k)) \/ TombKept(k) \/ ~Waiting(db, k)
    BY <1>2, <1>4 DEF SafeInv, TombsOK
  <2>2. ~Unread(k) /\ ~TombKept(k)
    BY <1>1 DEF Unread, TombKept
  <2> QED BY <1>1, <1>2, <2>1, <2>2, NothingAt
<1> QED BY <1>3, <1>4

LEMMA TokenHeld ==
    ASSUME SafeInv, [DeltaNext]_vars, run.pc = "report", db'.token # db.token
    PROVE  Report
<1>1. CASE ZoneChange
  BY <1>1, ZoneMove
<1>2. CASE ProducerStep
  BY <1>2, ProducerFrame
<1>3. CASE RunStep
  BY <1>3, Mid DEF RunStep, MidStep, StartRun, Backfill, Fail
<1>4. CASE Stop \/ Crash \/ ForceExit \/ UNCHANGED vars
  BY <1>4 DEF Stop, Crash, ForceExit, vars
<1> QED BY <1>1, <1>2, <1>3, <1>4 DEF DeltaNext

(* When the report of a delta moves the token past a purge that was made     *)
(* before the run, no row of that photo waits for a download any more,       *)
(* whether its tombstone was streamed or collected, and whichever name its   *)
(* row has.                                                                  *)
THEOREM Tombstones == DeltaSpec => TombstonesLand
<1>1. ASSUME SafeInv, [DeltaNext]_vars
      PROVE  [run.pc = "report" /\ db'.token # db.token =>
                 \A k \in Keys : LET row == db'.rows[k]
                                 IN  (row.status = "pending" /\ ~row.deleted)
                                     => ~(row.of \in run.purged /\ zone[row.of].at > db.token)]_vars
  <2>1. ASSUME run.pc = "report", db'.token # db.token, NEW k \in Keys, Waiting(db', k)
        PROVE  ~(db'.rows[k].of \in run.purged /\ zone[db'.rows[k].of].at > db.token)
    BY <1>1, <2>1, TokenHeld, ReportLands
  <2> QED BY <2>1 DEF Waiting
<1>2. SafeInv /\ [DeltaNext]_vars =>
          [run.pc = "report" /\ db'.token # db.token =>
              \A k \in Keys : LET row == db'.rows[k]
                              IN  (row.status = "pending" /\ ~row.deleted)
                                  => ~(row.of \in run.purged /\ zone[row.of].at > db.token)]_vars
  BY <1>1
<1> QED BY <1>2, Invariance, PTL DEF DeltaSpec, TombstonesLand

-----------------------------------------------------------------------------
(* A live photo whose last change was read is on its way to a row. *)

(* In the pairing buffer, with no deletion after it. *)
BufferOf(a) == prod.buffer.assets[MasterOf[a]]
SoftSent(s, a) == \E e \in Elems(s) : Soft(e, a)
SoftBuffered(a) == SoftSent(BufferOf(a), a)
Last(s, i, a) == i \in DOMAIN s /\ s[i].rec = a /\ s[i].reason = "created"
                 /\ \A j \in DOMAIN s : j > i => ~Soft(s[j], a)
BufLast(s, a) == \E i \in DOMAIN s : Last(s, i, a)
Buffered(a) == BufLast(BufferOf(a), a)

(* In an event: halves are looked up, and a pair may be followed by a deletion. *)
FreshLast(s, a) == \E i \in DOMAIN s : s[i].kind = "pair" /\ Last(s, i, a)
HalfSent(s, a) == \E e \in Elems(s) : e.rec = a /\ Half(e)
Queued(a) == HalfSent(Flow, a) \/ (FreshLast(Flow, a) /\ ~SoftBuffered(a))

(* Kept by the reader, in a phase that still comes to it. *)
Keeps(i) ==
    \/ /\ run.pc = "read" \/ (run.pc \in {"await", "map"} /\ ~Streaming)
       /\ Half(run.events[i]) \/ Fresh(run.events[i])
    \/ run.pc = "hydrate" /\ (Fresh(run.events[i]) \/ (Half(run.events[i]) /\ i > run.at))
    \/ /\ run.pc \in {"select", "scan"} \/ (run.pc = "relate" /\ ~Streaming)
       /\ Fresh(run.events[i])
    \/ run.pc \in {"offer", "apply"} /\ Fresh(run.events[i]) /\ i > run.at
Kept(a) == \E i \in DOMAIN run.events : run.events[i].rec = a /\ Keeps(i)
Listed(a) == \E i \in DOMAIN run.ready :
    /\ run.ready[i].asset = a
    /\ run.pc \in {"scan", "relate", "apply"} \/ (run.pc = "plan" /\ i > run.at)
Piped(a) == \E x \in Elems(pipe) : x.asset = a

(* On record.  A streaming run may still read an earlier deletion of the photo. *)
Streamed(a) == /\ Streaming /\ ~SoftBuffered(a) /\ ~SoftSent(Flow, a)
               /\ Known(db, a) \/ Piped(a)
Planned(a) == run.pc \in {"plan", "report"} /\ Known(db, a)

(* Or it is in no pass: its membership was read and is none. *)
Chosen(a) == cfg.unfiled \/ (Exists(Rel(a)) /\ zone[Rel(a)].at <= Frontier)
Passed(a) == run.pc \in {"apply", "plan", "report"} /\ ~Chosen(a)

Due(a) == zone[a].st = "live" /\ zone[a].at > db.token /\ zone[a].at <= Frontier
CoverAt(a) == Buffered(a) \/ Queued(a) \/ Kept(a) \/ Listed(a) \/ Streamed(a) \/ Planned(a) \/ Passed(a)
CoverOK == ~Doomed => \A a \in Assets : Due(a) => CoverAt(a)

(* So is an old photo that was added to the album. *)
Added(a) == zone[a].st = "live" /\ zone[a].at <= db.token /\ Exists(Rel(a)) /\ Window(a)
AddedAt(a) == \/ run.pc \in {"read", "await", "map", "hydrate", "select"}
              \/ run.pc = "scan" /\ a \in run.missing
              \/ Listed(a) \/ Planned(a)
AddedOK == ~Doomed /\ cfg.album /\ ~cfg.unfiled => \A a \in Assets : Added(a) => AddedAt(a)

CoverInv == SafeInv /\ CoverOK /\ AddedOK /\ DeltaTokenSound

-----------------------------------------------------------------------------
(* Pairs and deletions in a sequence. *)

LEMMA SoftConcat ==
    ASSUME NEW S, NEW s \in Seq(S), NEW t \in Seq(S), NEW a
    PROVE  /\ SoftSent(s \o t, a) <=> SoftSent(s, a) \/ SoftSent(t, a)
           /\ HalfSent(s \o t, a) <=> HalfSent(s, a) \/ HalfSent(t, a)
<1>1. Elems(s \o t) = Elems(s) \cup Elems(t)
  BY ElemsConcat
<1> QED BY <1>1 DEF SoftSent, HalfSent

LEMMA LastKeep ==
    ASSUME NEW S, NEW s \in Seq(S), NEW t \in Seq(S), NEW a, NEW i, Last(s, i, a), ~SoftSent(t, a)
    PROVE  Last(s \o t, i, a) /\ i \in DOMAIN (s \o t) /\ (s \o t)[i] = s[i]
<1>1. i \in DOMAIN s /\ i \in DOMAIN (s \o t) /\ (s \o t)[i] = s[i] /\ i \in Nat
  BY ConcatAt DEF Last
<1>2. ASSUME NEW j \in DOMAIN (s \o t), j > i
      PROVE  ~Soft((s \o t)[j], a)
  <2>1. j \in Nat /\ Len(s) \in Nat /\ DOMAIN s = 1 .. Len(s) /\ DOMAIN (s \o t) = 1 .. Len(s) + Len(t) /\ Len(t) \in Nat
    BY ConcatAt
  <2>2. CASE j <= Len(s)
    <3>1. j \in DOMAIN s
      BY <2>1, <2>2
    <3>2. (s \o t)[j] = s[j]
      BY <3>1, ConcatAt
    <3> QED BY <3>1, <3>2, <1>2 DEF Last
  <2>3. CASE j > Len(s)
    <3>1. j - Len(s) \in DOMAIN t /\ (s \o t)[j] = t[j - Len(s)]
      BY <2>3, ConcatAt
    <3>2. t[j - Len(s)] \in Elems(t)
      BY <3>1, ElemsAt
    <3> QED BY <3>1, <3>2 DEF SoftSent
  <2> QED BY <2>1, <2>2, <2>3
<1> HIDE DEF Soft
<1> QED BY <1>1, <1>2 DEF Last

LEMMA LastShift ==
    ASSUME NEW S, NEW s \in Seq(S), NEW t \in Seq(S), NEW a, NEW i, Last(t, i, a)
    PROVE  /\ Last(s \o t, i + Len(s), a) /\ i + Len(s) \in DOMAIN (s \o t) /\ (s \o t)[i + Len(s)] = t[i]
<1>1. /\ i \in DOMAIN t /\ i + Len(s) \in DOMAIN (s \o t) /\ (s \o t)[i + Len(s)] = t[i]
      /\ i \in Nat \ {0} /\ Len(s) \in Nat
  BY ConcatAt DEF Last
<1>2. ASSUME NEW j \in DOMAIN (s \o t), j > i + Len(s)
      PROVE  ~Soft((s \o t)[j], a)
  <2>1. j \in Nat /\ j > Len(s) /\ j - Len(s) > i
    BY <1>1, <1>2, ConcatAt
  <2>2. j - Len(s) \in DOMAIN t /\ (s \o t)[j] = t[j - Len(s)]
    BY <2>1, ConcatAt
  <2> QED BY <2>1, <2>2 DEF Last
<1> QED BY <1>1, <1>2 DEF Last

LEMMA FreshConcat ==
    ASSUME NEW s \in Seq(Events), NEW t \in Seq(Events), NEW a
    PROVE  /\ FreshLast(s, a) /\ ~SoftSent(t, a) => FreshLast(s \o t, a)
           /\ FreshLast(t, a) => FreshLast(s \o t, a)
<1>1. ASSUME FreshLast(s, a), ~SoftSent(t, a)
      PROVE  FreshLast(s \o t, a)
  <2>1. PICK i \in DOMAIN s : s[i].kind = "pair" /\ Last(s, i, a)
    BY <1>1 DEF FreshLast
  <2>2. Last(s \o t, i, a) /\ i \in DOMAIN (s \o t) /\ (s \o t)[i] = s[i]
    BY <1>1, <2>1, LastKeep
  <2> QED BY <2>1, <2>2 DEF FreshLast
<1>2. ASSUME FreshLast(t, a)
      PROVE  FreshLast(s \o t, a)
  <2>1. PICK i \in DOMAIN t : t[i].kind = "pair" /\ Last(t, i, a)
    BY <1>2 DEF FreshLast
  <2>2. Last(s \o t, i + Len(s), a) /\ i + Len(s) \in DOMAIN (s \o t) /\ (s \o t)[i + Len(s)] = t[i]
    BY <2>1, LastShift
  <2> QED BY <2>1, <2>2 DEF FreshLast
<1> QED BY <1>1, <1>2

(* The first event is the pair, and no deletion follows, or the rest has one. *)
LEMMA FreshHead ==
    ASSUME NEW e \in Events, NEW t \in Seq(Events), NEW a, FreshLast(<<e>> \o t, a)
    PROVE  (Fresh(e) /\ e.rec = a /\ ~SoftSent(t, a)) \/ FreshLast(t, a)
<1> DEFINE s == <<e>>
           u == s \o t
<1>1. s \in Seq(Events) /\ Len(s) = 1 /\ s[1] = e /\ DOMAIN s = {1}
  OBVIOUS
<1>2. PICK i \in DOMAIN u : u[i].kind = "pair" /\ Last(u, i, a)
  BY DEF FreshLast
<1>3. /\ DOMAIN u = 1 .. 1 + Len(t) /\ Len(t) \in Nat /\ DOMAIN t = 1 .. Len(t) /\ u[1] = e
      /\ \A k \in DOMAIN t : k + 1 \in DOMAIN u /\ u[k + 1] = t[k]
      /\ \A k \in DOMAIN u : k > 1 => k - 1 \in DOMAIN t /\ u[k] = t[k - 1]
  <2>0. s \in Seq(Events)
    BY <1>1
  <2> HIDE DEF s
  <2>1. /\ DOMAIN u = 1 .. Len(s) + Len(t) /\ Len(t) \in Nat /\ DOMAIN t = 1 .. Len(t)
        /\ \A k \in DOMAIN s : k \in DOMAIN u /\ u[k] = s[k]
        /\ \A k \in DOMAIN t : k + Len(s) \in DOMAIN u /\ u[k + Len(s)] = t[k]
        /\ \A k \in DOMAIN u : k > Len(s) => k - Len(s) \in DOMAIN t /\ u[k] = t[k - Len(s)]
    BY <2>0, ConcatAt
  <2> HIDE DEF u
  <2> QED BY <1>1, <2>1
<1> HIDE DEF s, u
<1>4. CASE i = 1
  <2>1. ASSUME NEW x \in Elems(t), Soft(x, a)
        PROVE  FALSE
    <3>1. PICK k \in DOMAIN t : t[k] = x
      BY DEF Elems
    <3>2. k + 1 \in DOMAIN u /\ u[k + 1] = x /\ k + 1 > 1
      BY <3>1, <1>3
    <3> QED BY <3>2, <2>1, <1>2, <1>4 DEF Last
  <2> QED BY <2>1, <1>2, <1>3, <1>4 DEF Last, Fresh, SoftSent
<1>5. CASE i > 1
  <2>1. i - 1 \in DOMAIN t /\ u[i] = t[i - 1] /\ i \in Nat
    BY <1>3, <1>5
  <2>2. ASSUME NEW j \in DOMAIN t, j > i - 1
        PROVE  ~Soft(t[j], a)
    <3>1. j + 1 \in DOMAIN u /\ u[j + 1] = t[j] /\ j + 1 > i
      BY <1>3, <2>1, <2>2
    <3> QED BY <3>1, <1>2 DEF Last
  <2> QED BY <2>1, <2>2, <1>2 DEF FreshLast, Last
<1> QED BY <1>2, <1>3, <1>4, <1>5

LEMMA FreshNone ==
    ASSUME NEW a
    PROVE  ~FreshLast(<<>>, a) /\ ~HalfSent(<<>>, a) /\ ~SoftSent(<<>>, a)
  BY NothingAt DEF FreshLast, HalfSent, SoftSent

LEMMA FreshOne ==
    ASSUME NEW e \in Events, NEW a, e.kind = "pair", e.rec = a, e.reason = "created"
    PROVE  FreshLast(<<e>>, a)
  BY DEF FreshLast, Last

-----------------------------------------------------------------------------
(* The producer loses no photo between its pages, its buffer and its events. *)

(* From buffered items s to s2, with events sent. *)
Gains(s2, events, a) == BufLast(s2, a) \/ HalfSent(events, a) \/ (FreshLast(events, a) /\ ~SoftSent(s2, a))
Carries(s, s2, events, a) ==
    /\ SoftSent(s2, a) \/ SoftSent(events, a) => SoftSent(s, a)
    /\ BufLast(s, a) => Gains(s2, events, a)

LEMMA CarrySame ==
    ASSUME NEW s, NEW events, NEW a, \A e \in Elems(events) : ~Soft(e, a)
    PROVE  Carries(s, s, events, a)
  BY DEF Carries, Gains, SoftSent

LEMMA CarryItem ==
    ASSUME NEW s \in Seq(Items), NEW item \in Items, NEW a, item.rec # a
    PROVE  Carries(s, Append(s, item), <<>>, a)
<1> DEFINE t == <<item>>
           u == s \o t
           v == Append(s, item)
<1>1. t \in Seq(Items) /\ v = u
  OBVIOUS
<1>2. Elems(t) = {item}
  BY ElemsSmall
<1> HIDE DEF t
<1>3. ~SoftSent(t, a)
  BY <1>2 DEF SoftSent, Soft
<1>4. SoftSent(u, a) <=> SoftSent(s, a)
  BY <1>1, <1>3, SoftConcat
<1>5. BufLast(s, a) => BufLast(u, a)
  BY <1>1, <1>3, LastKeep DEF BufLast
<1> HIDE DEF u, v
<1>6. Carries(s, u, <<>>, a)
  BY <1>4, <1>5, FreshNone DEF Carries, Gains
<1> QED BY <1>1, <1>6 DEF v

(* The assets that waited for their master. *)
LEMMA CarryGroup ==
    ASSUME NEW s \in Seq(Items), NEW m \in Masters, NEW a
    PROVE  Carries(s, <<>>, Group(s, m, "created"), a)
<1> DEFINE es == Group(s, m, "created")
           none == <<>>
<1>1. /\ es \in Seq(Events) /\ DOMAIN es = DOMAIN s
      /\ \A i \in DOMAIN s : s[i] \in Items /\ es[i] = Event("pair", s[i].rec, Reconcile("created", s[i].reason), IF i = 1 THEN m ELSE s[i].rec)
  <2>1. "created" \in Reasons
    BY DEF Reasons
  <2> QED BY <2>1, GroupSeq
<1> HIDE DEF es
<1>2. ASSUME NEW i \in DOMAIN s
      PROVE  /\ es[i].kind = "pair" /\ es[i].rec = s[i].rec
             /\ es[i].reason = "created" <=> s[i].reason = "created"
             /\ es[i].reason = "softDeleted" => s[i].reason = "softDeleted"
  <2> DEFINE id == IF i = 1 THEN m ELSE s[i].rec
             reason == Reconcile("created", s[i].reason)
  <2>1. es[i] = Event("pair", s[i].rec, reason, id) /\ s[i].reason \in Reasons
    BY <1>1 DEF Items
  <2>2. /\ reason = "created" <=> s[i].reason = "created"
        /\ reason = "softDeleted" => s[i].reason = "softDeleted"
    BY <2>1, Reasonable DEF Reconcile, Reasons
  <2> HIDE DEF id, reason
  <2> QED BY <2>1, <2>2 DEF Event
<1>3. SoftSent(es, a) => SoftSent(s, a)
  BY <1>1, <1>2 DEF SoftSent, Soft, Elems
<1>4. BufLast(s, a) => FreshLast(es, a)
  BY <1>1, <1>2 DEF BufLast, FreshLast, Last, Soft
<1>5. ~SoftSent(none, a)
  BY FreshNone
<1> HIDE DEF none
<1>6. Carries(s, none, es, a)
  BY <1>3, <1>4, <1>5 DEF Carries, Gains
<1> QED BY <1>6 DEF none, es

LEMMA CarryHalves ==
    ASSUME NEW s \in Seq(Items), NEW a
    PROVE  Carries(s, <<>>, Halves(s), a)
<1> DEFINE es == Halves(s)
           none == <<>>
<1>1. /\ DOMAIN es = DOMAIN s
      /\ \A i \in DOMAIN s : es[i] = Event("asset", s[i].rec, s[i].reason, Null)
  BY DEF Halves
<1> HIDE DEF es
<1>2. \A i \in DOMAIN s : es[i].kind = "asset" /\ es[i].rec = s[i].rec /\ es[i].reason = s[i].reason
  BY <1>1 DEF Event
<1>3. SoftSent(es, a) => SoftSent(s, a)
  BY <1>1, <1>2 DEF SoftSent, Soft, Elems
<1>4. BufLast(s, a) => HalfSent(es, a)
  BY <1>1, <1>2, ElemsAt DEF BufLast, HalfSent, Half, Last
<1>5. ~SoftSent(none, a)
  BY FreshNone
<1> HIDE DEF none
<1>6. Carries(s, none, es, a)
  BY <1>3, <1>4, <1>5 DEF Carries, Gains
<1> QED BY <1>6 DEF none, es

LEMMA PutFields ==
    ASSUME SafeInv, NEW x, NEW buffer, NEW events, Put(x, buffer, events)
    PROVE  /\ prod'.buffer = buffer /\ prod'.todo = events /\ prod'.token = x.at /\ prod'.failed = prod.failed
           /\ channel' = channel /\ prod.todo = <<>> /\ prod.pc = "send" /\ Oldest(x)
           /\ UNCHANGED <<zone, cfg, db, run, pipe, stopped>>
<1>1. prod \in Producers
  BY Types DEF SafeInv
<1> QED BY <1>1 DEF Put, Producers

(* A photo that was read before. *)
LEMMA CarryMaster ==
    ASSUME SafeInv, NEW x \in prod.page, PutMaster(x), NEW a \in Assets, zone[a].st = "live"
    PROVE  Carries(BufferOf(a), prod'.buffer.assets[MasterOf[a]], prod'.todo, a)
<1> DEFINE b == prod.buffer
           m == x.rec
           items == b.assets[m]
           reason == Reason(x.st)
           n == MasterOf[a]
<1>1. m \in Masters /\ x.st # "gone" /\ prod.pc = "send" /\ n \in Masters
  BY Consts DEF PutMaster, Put
<1>2. x.st \in {"live", "trashed"} /\ (x.st = "trashed" => zone[m].st \in {"trashed", "gone"} /\ zone[m].at > db.token)
  BY <1>1, EntryFacts DEF EntryOK, States
<1>3. m = n => reason = "created"
  <2>1. ASSUME m = n, x.st = "trashed" PROVE FALSE
    BY <1>1, <1>2, <2>1 DEF SafeInv, ZoneOK, Exists, Alive
  <2> QED BY <1>2, <2>1, Reasonable
<1>4. b \in Buffers /\ b.assets \in [Masters -> Seq(Items)] /\ items \in Seq(Items)
  BY <1>1, Types DEF SafeInv, Buffers
<1>5. CASE items = <<>>
  <2>1. Put(x, [b EXCEPT !.masters[m] = reason], <<>>)
    BY <1>5 DEF PutMaster
  <2>2. [b EXCEPT !.masters[m] = reason].assets = b.assets
    BY <1>4 DEF Buffers
  <2>3. prod'.buffer.assets = b.assets /\ prod'.todo = <<>>
    BY <2>1, <2>2, PutFields
  <2> QED BY <2>3, CarrySame, ElemsSmall DEF BufferOf
<1>6. CASE items # <<>>
  <2> DEFINE b2 == [b EXCEPT !.paired[m] = reason, !.assets[m] = <<>>]
             es == Group(items, m, reason)
  <2>1. Put(x, b2, es)
    BY <1>6 DEF PutMaster
  <2>2. b2.assets = [b.assets EXCEPT ![m] = <<>>]
    BY <1>4 DEF Buffers
  <2>3. prod'.buffer.assets = [b.assets EXCEPT ![m] = <<>>] /\ prod'.todo = es
    <3> HIDE DEF b2, es
    <3> QED BY <2>1, <2>2, PutFields
  <2>4. CASE m = n
    <3>1. prod'.buffer.assets[n] = <<>> /\ BufferOf(a) = items
      BY <1>1, <1>4, <2>3, <2>4 DEF BufferOf
    <3>2. es = Group(items, m, "created")
      BY <1>3, <2>4
    <3> HIDE DEF items
    <3> QED BY <1>1, <1>4, <2>3, <3>1, <3>2, CarryGroup
  <2>5. CASE m # n
    <3>1. prod'.buffer.assets[n] = BufferOf(a)
      BY <1>1, <1>4, <2>3, <2>5 DEF BufferOf
    <3>2. ASSUME NEW e \in Elems(es) PROVE e.rec # a
      <4>0. reason \in Reasons
        BY EventTypes
      <4>1. DOMAIN es = DOMAIN items /\ \A i \in DOMAIN items : es[i].rec = items[i].rec
        BY DEF Group, Pair, Event
      <4>2. PICK i \in DOMAIN items : e = es[i]
        BY <3>2, <4>1 DEF Elems
      <4>3. MasterOf[items[i].rec] = m
        BY <1>1, ElemsAt DEF SafeInv, BufferOK, ItemOK
      <4> QED BY <2>5, <4>1, <4>2, <4>3
    <3> HIDE DEF es
    <3> QED BY <2>3, <3>1, <3>2, CarrySame DEF Soft
  <2> QED BY <2>4, <2>5
<1> QED BY <1>5, <1>6

LEMMA CarryAsset ==
    ASSUME SafeInv, NEW x \in prod.page, PutAsset(x), NEW a \in Assets, x.rec # a
    PROVE  Carries(BufferOf(a), prod'.buffer.assets[MasterOf[a]], prod'.todo, a)
<1> DEFINE b == prod.buffer
           m == MasterOf[x.rec]
           item == [rec |-> x.rec, reason |-> Reason(x.st)]
           n == MasterOf[a]
<1>1. x.rec \in Assets /\ m \in Masters /\ n \in Masters
  BY Consts DEF PutAsset
<1>2. b \in Buffers /\ b.assets \in [Masters -> Seq(Items)] /\ b.assets[m] \in Seq(Items) /\ BufferOf(a) = b.assets[n]
  BY <1>1, Types DEF SafeInv, Buffers, BufferOf
<1>3. item \in Items /\ item.rec = x.rec
  BY <1>1, EventTypes DEF Items
<1> HIDE DEF item
<1>4. ASSUME NEW reason, NEW id
      PROVE  \A e \in Elems(<<Pair(item, reason, id)>>) : ~Soft(e, a)
  <2> DEFINE e == Pair(item, reason, id)
  <2>1. e.rec = x.rec
    BY <1>3 DEF Pair, Event
  <2> HIDE DEF e
  <2>2. Elems(<<e>>) = {e}
    BY ElemsSmall
  <2> QED BY <2>1, <2>2 DEF Soft, e
<1>5. CASE b.masters[m] # Null
  <2> DEFINE b2 == [b EXCEPT !.masters[m] = Null, !.paired[m] = b.masters[m]]
             es == <<Pair(item, b.masters[m], m)>>
  <2>1. Put(x, b2, es)
    BY <1>5 DEF PutAsset, item
  <2>2. b2.assets = b.assets
    BY <1>2 DEF Buffers
  <2>3. \A e \in Elems(es) : ~Soft(e, a)
    BY <1>4
  <2> HIDE DEF b2, es
  <2> QED BY <1>2, <2>1, <2>2, <2>3, PutFields, CarrySame
<1>6. CASE b.masters[m] = Null /\ b.paired[m] # Null
  <2> DEFINE es == <<Pair(item, b.paired[m], x.rec)>>
  <2>1. Put(x, b, es)
    BY <1>6 DEF PutAsset, item
  <2>2. \A e \in Elems(es) : ~Soft(e, a)
    BY <1>4
  <2> HIDE DEF es
  <2> QED BY <1>2, <2>1, <2>2, PutFields, CarrySame
<1>7. CASE b.masters[m] = Null /\ b.paired[m] = Null
  <2> DEFINE s == Append(b.assets[m], item)
             b2 == [b EXCEPT !.assets[m] = s]
             none == <<>>
  <2>1. Put(x, b2, none)
    BY <1>7 DEF PutAsset, item
  <2>2. b2.assets = [b.assets EXCEPT ![m] = s]
    BY <1>2 DEF Buffers
  <2>3. Carries(b.assets[m], s, none, a)
    BY <1>2, <1>3, CarryItem
  <2>4. Elems(none) = {}
    BY ElemsSmall
  <2> HIDE DEF s, none
  <2>5. prod'.buffer.assets = [b.assets EXCEPT ![m] = s] /\ prod'.todo = none
    <3> HIDE DEF b2
    <3> QED BY <2>1, <2>2, PutFields
  <2>6. CASE m = n
    BY <1>1, <1>2, <2>3, <2>5, <2>6
  <2>7. CASE m # n
    BY <1>1, <1>2, <2>4, <2>5, <2>7, CarrySame
  <2> QED BY <2>6, <2>7
<1> QED BY <1>5, <1>6, <1>7

LEMMA CarryOther ==
    ASSUME SafeInv, NEW x \in prod.page, PutTombstone(x) \/ PutRelation(x) \/ PutMalformed(x), NEW a \in Assets, x.rec # a
    PROVE  Carries(BufferOf(a), prod'.buffer.assets[MasterOf[a]], prod'.todo, a)
<1>1. PICK e : /\ Put(x, prod.buffer, <<e>>)
               /\ ~Soft(e, a)
  <2>1. CASE PutTombstone(x)
    <3> DEFINE e == Event("tomb", x.rec, "hardDeleted", Null)
    <3>1. e.reason = "hardDeleted"
      BY DEF Event
    <3> QED BY <2>1, <3>1 DEF PutTombstone, Soft
  <2>2. CASE PutRelation(x)
    <3> DEFINE e == Event("rel", x.rec[1], Reason(x.st), Null)
    <3>1. x.rec \in Relations /\ prod.pc = "send" /\ Put(x, prod.buffer, <<e>>)
      BY <2>2 DEF PutRelation, Put
    <3>2. x.st \in {"live", "gone"}
      BY <3>1, EntryFacts DEF EntryOK
    <3>3. e.reason = Reason(x.st) /\ Reason(x.st) # "softDeleted"
      <4>1. Reason(x.st) # "softDeleted"
        BY <3>2, Reasonable
      <4> QED BY <4>1 DEF Event
    <3> HIDE DEF e
    <3> QED BY <3>1, <3>3 DEF Soft
  <2>3. CASE PutMalformed(x)
    <3> DEFINE e == Nameless("bad")
               f == Event("bare", x.rec, Reason(x.st), Null)
    <3>1. e.reason = "created" /\ f.rec = x.rec
      BY DEF Nameless, Event
    <3>2. Put(x, prod.buffer, <<e>>) \/ Put(x, prod.buffer, <<f>>)
      BY <2>3 DEF PutMalformed
    <3> HIDE DEF e, f
    <3> QED BY <3>1, <3>2 DEF Soft
  <2> QED BY <2>1, <2>2, <2>3
<1> DEFINE es == <<e>>
<1>2. Elems(es) = {e}
  BY ElemsSmall
<1>3. Put(x, prod.buffer, es)
  BY <1>1
<1> HIDE DEF es
<1>4. prod'.buffer = prod.buffer /\ prod'.todo = es
  BY <1>3, PutFields
<1> QED BY <1>1, <1>2, <1>4, CarrySame DEF BufferOf

(* The photo that is read. *)
LEMMA GainsNew ==
    ASSUME SafeInv, NEW x \in prod.page, PutMaster(x) \/ PutAsset(x) \/ PutTombstone(x) \/ PutRelation(x) \/ PutMalformed(x),
           NEW a \in Assets, zone[a].st = "live", x.rec = a, x.st = "live"
    PROVE  \/ Gains(prod'.buffer.assets[MasterOf[a]], prod'.todo, a)
           \/ \E e \in Elems(prod'.todo) : e.kind = "bad"
<1> DEFINE b == prod.buffer
           m == MasterOf[a]
           item == [rec |-> a, reason |-> "created"]
<1>1. m \in Masters /\ a \notin Masters /\ a \notin Relations /\ a \in Keys
  BY Consts
<1>2. b \in Buffers /\ b.assets \in [Masters -> Seq(Items)] /\ b.assets[m] \in Seq(Items)
  BY <1>1, Types DEF SafeInv, Buffers, BufferOf
<1>3. item \in Items /\ item.rec = a /\ item.reason = "created" /\ Reason(x.st) = "created" /\ [rec |-> x.rec, reason |-> Reason(x.st)] = item
  BY Reasonable DEF Items, Reasons
<1> HIDE DEF item
<1>4. ~MasterGone(m)
  BY <1>1 DEF SafeInv, ZoneOK, MasterGone, Exists, Alive
<1>5. ASSUME NEW id \in Names
      PROVE  FreshLast(<<Pair(item, "created", id)>>, a)
  <2> DEFINE e == Pair(item, "created", id)
  <2>1. e = Event("pair", a, "created", id)
    <3>1. Reconcile("created", "created") = "created"
      BY Reasonable DEF Reasons
    <3> QED BY <1>3, <3>1 DEF Pair
  <2>2. e \in Events
    BY <2>1, EventTypes DEF Reasons
  <2>3. e.kind = "pair" /\ e.rec = a /\ e.reason = "created"
    BY <2>1 DEF Event
  <2> HIDE DEF e
  <2>4. FreshLast(<<e>>, a)
    BY <2>2, <2>3, FreshOne
  <2> QED BY <2>4 DEF e
<1>6. CASE PutAsset(x)
  <2>1. CASE b.masters[m] # Null
    <3> DEFINE b2 == [b EXCEPT !.masters[m] = Null, !.paired[m] = b.masters[m]]
               es == <<Pair(item, b.masters[m], m)>>
    <3>1. Put(x, b2, es)
      BY <1>3, <1>6, <2>1 DEF PutAsset
    <3>2. b2.assets = b.assets
      BY <1>2 DEF Buffers
    <3>3. b.masters[m] = "created" /\ b.assets[m] = <<>>
      BY <1>1, <1>4, <2>1 DEF SafeInv, BufferOK
    <3>4. FreshLast(es, a)
      BY <1>1, <1>5, <3>3, EventTypes
    <3> HIDE DEF b2, es
    <3>5. prod'.buffer.assets[m] = <<>> /\ prod'.todo = es
      BY <3>1, <3>2, <3>3, PutFields
    <3> QED BY <3>4, <3>5, FreshNone DEF Gains
  <2>2. CASE b.masters[m] = Null /\ b.paired[m] # Null
    <3> DEFINE es == <<Pair(item, b.paired[m], x.rec)>>
    <3>1. Put(x, b, es)
      BY <1>3, <1>6, <2>2 DEF PutAsset
    <3>2. b.paired[m] = "created" /\ b.assets[m] = <<>>
      BY <1>1, <1>4, <2>2 DEF SafeInv, BufferOK
    <3>3. FreshLast(es, a)
      BY <1>1, <1>5, <3>2, EventTypes
    <3> HIDE DEF es
    <3>4. prod'.buffer.assets[m] = <<>> /\ prod'.todo = es
      BY <3>1, <3>2, PutFields
    <3> QED BY <3>3, <3>4, FreshNone DEF Gains
  <2>3. CASE b.masters[m] = Null /\ b.paired[m] = Null
    <3> DEFINE s == Append(b.assets[m], item)
               b2 == [b EXCEPT !.assets[m] = s]
    <3>1. Put(x, b2, <<>>)
      BY <1>3, <1>6, <2>3 DEF PutAsset
    <3>2. b2.assets = [b.assets EXCEPT ![m] = s]
      BY <1>2 DEF Buffers
    <3>3. BufLast(s, a)
      <4>1. PICK t : t = b.assets[m]
        OBVIOUS
      <4>2. t \in Seq(Items) /\ s = Append(t, item)
        BY <1>2, <4>1
      <4>3. /\ Len(t) + 1 \in DOMAIN s /\ s[Len(t) + 1] = item /\ Len(t) \in Nat
            /\ \A j \in DOMAIN s : ~(j > Len(t) + 1)
        BY <1>3, <4>2
      <4> HIDE DEF s
      <4> QED BY <1>3, <4>3 DEF BufLast, Last
    <3> HIDE DEF s
    <3>4. prod'.buffer.assets = [b.assets EXCEPT ![m] = s]
      <4> HIDE DEF b2
      <4> QED BY <3>1, <3>2, PutFields
    <3> QED BY <1>1, <1>2, <3>3, <3>4 DEF Gains
  <2> QED BY <2>1, <2>2, <2>3
<1>7. CASE PutMalformed(x)
  <2> DEFINE e == Nameless("bad")
             f == Event("bare", x.rec, Reason(x.st), Null)
  <2>1. e.kind = "bad" /\ f.rec = a /\ f.reason = "created" /\ f.kind = "bare"
    BY <1>3 DEF Nameless, Event
  <2>2. Put(x, prod.buffer, <<e>>) \/ Put(x, prod.buffer, <<f>>)
    BY <1>7 DEF PutMalformed
  <2> HIDE DEF e, f
  <2>3. prod'.todo = <<e>> \/ prod'.todo = <<f>>
    BY <2>2, PutFields
  <2>4. Elems(<<e>>) = {e} /\ Elems(<<f>>) = {f}
    BY ElemsSmall
  <2> QED BY <2>1, <2>3, <2>4 DEF Gains, HalfSent, Half
<1>8. ~PutMaster(x) /\ ~PutTombstone(x) /\ ~PutRelation(x)
  BY <1>1 DEF PutMaster, PutTombstone, PutRelation
<1> QED BY <1>6, <1>7, <1>8

(* What the line carries, the run will come to. *)
LEMMA CoverGrows ==
    ASSUME SafeInv, UNCHANGED <<zone, cfg, db, run, pipe, stopped>>, channel' = channel, prod.todo = <<>>, prod'.todo \in Seq(Events),
           NEW a \in Assets, run.pc = "read"
    PROVE  /\ Gains(prod'.buffer.assets[MasterOf[a]], prod'.todo, a) => CoverAt(a)'
           /\ Carries(BufferOf(a), prod'.buffer.assets[MasterOf[a]], prod'.todo, a) /\ CoverAt(a) => CoverAt(a)'
<1> DEFINE events == prod'.todo
           s == BufferOf(a)
           s2 == prod'.buffer.assets[MasterOf[a]]
           flow2 == Flow \o events
<1>1. Flow' = flow2 /\ Flow \in Seq(Events)
  BY Types, LineGrows DEF SafeInv
<1>2. /\ SoftSent(flow2, a) <=> SoftSent(Flow, a) \/ SoftSent(events, a)
      /\ HalfSent(flow2, a) <=> HalfSent(Flow, a) \/ HalfSent(events, a)
      /\ FreshLast(Flow, a) /\ ~SoftSent(events, a) => FreshLast(flow2, a)
      /\ FreshLast(events, a) => FreshLast(flow2, a)
  BY <1>1, SoftConcat, FreshConcat
<1>3. /\ BufferOf(a)' = s2 /\ (Buffered(a)' <=> BufLast(s2, a)) /\ (SoftBuffered(a)' <=> SoftSent(s2, a))
  BY DEF BufferOf, Buffered, BufLast, SoftBuffered, SoftSent, Last, Soft
<1>4. Queued(a)' <=> HalfSent(flow2, a) \/ (FreshLast(flow2, a) /\ ~SoftSent(s2, a))
  BY <1>1, <1>3 DEF Queued, HalfSent, FreshLast, Last, Soft, Half
<1>5. ASSUME Gains(s2, events, a) PROVE CoverAt(a)'
  BY <1>2, <1>3, <1>4, <1>5 DEF Gains, CoverAt
<1>6. ASSUME Carries(s, s2, events, a), CoverAt(a) PROVE CoverAt(a)'
  <2>1. CASE Buffered(a)
    BY <1>5, <1>6, <2>1 DEF Buffered, Carries
  <2>2. CASE Queued(a)
    BY <1>2, <1>4, <1>6, <2>2 DEF Queued, CoverAt, Carries, SoftBuffered
  <2>3. CASE Kept(a)
    <3>1. Kept(a)'
      BY <2>3 DEF Kept, Keeps, Half, Fresh, Streaming
    <3> QED BY <3>1 DEF CoverAt
  <2>4. CASE Streamed(a)
    <3>1. SoftSent(Flow, a)' <=> SoftSent(flow2, a)
      BY <1>1 DEF SoftSent, Soft
    <3>2. Streamed(a)'
      BY <1>2, <1>3, <1>6, <2>4, <3>1 DEF Streamed, Carries, SoftBuffered, Streaming, Known, Piped
    <3> QED BY <3>2 DEF CoverAt
  <2> QED BY <1>6, <2>1, <2>2, <2>3, <2>4 DEF CoverAt, Listed, Planned, Passed
<1> QED BY <1>5, <1>6

(* Nothing moves but the producer between its pages. *)
LEMMA CoverSame ==
    ASSUME UNCHANGED <<zone, cfg, db, run, pipe>>, Flow' = Flow, prod'.buffer = prod.buffer, Frontier' = Frontier, NEW a
    PROVE  /\ CoverAt(a)' <=> CoverAt(a)
           /\ Due(a)' <=> Due(a)
<1>1. (SoftBuffered(a)' <=> SoftBuffered(a)) /\ (Buffered(a)' <=> Buffered(a)) /\ (SoftSent(Flow, a)' <=> SoftSent(Flow, a))
  BY DEF SoftBuffered, Buffered, BufferOf, SoftSent, Soft, BufLast, Last
<1>2. Queued(a)' <=> Queued(a)
  BY <1>1 DEF Queued, HalfSent, FreshLast, Last, Soft, Half
<1>3. Kept(a)' <=> Kept(a)
  BY DEF Kept, Keeps, Half, Fresh, Streaming
<1>4. Streamed(a)' <=> Streamed(a)
  BY <1>1 DEF Streamed, Streaming, Known, Piped
<1>5. (Listed(a)' <=> Listed(a)) /\ (Planned(a)' <=> Planned(a)) /\ (Passed(a)' <=> Passed(a))
  BY DEF Listed, Planned, Passed, Chosen, Known, Exists
<1> QED BY <1>1, <1>2, <1>3, <1>4, <1>5 DEF CoverAt, Due

LEMMA SameCover ==
    ASSUME CoverInv, UNCHANGED <<zone, cfg, db, run, pipe, stopped>>, Flow' = Flow, prod'.buffer = prod.buffer,
           Frontier' = Frontier, Doomed' = Doomed
    PROVE  CoverOK'
<1>1. \A a : (CoverAt(a)' <=> CoverAt(a)) /\ (Due(a)' <=> Due(a))
  BY CoverSame
<1> QED BY <1>1 DEF CoverInv, CoverOK

LEMMA PutCover ==
    ASSUME CoverInv, PutRecord
    PROVE  CoverOK'
<1>0. SafeInv /\ DeltaTypeOK
  BY DEF CoverInv, SafeInv
<1>1. PICK x \in prod.page : PutMaster(x) \/ PutAsset(x) \/ PutTombstone(x) \/ PutRelation(x) \/ PutMalformed(x)
  BY DEF PutRecord
<1>2. PICK buffer, events : Put(x, buffer, events) /\ events \in Seq(Events)
  BY <1>0, <1>1, PutOK
<1>3. /\ prod'.buffer = buffer /\ prod'.todo = events /\ prod'.token = x.at /\ prod'.failed = prod.failed
      /\ channel' = channel /\ prod.todo = <<>> /\ prod.pc = "send" /\ Oldest(x)
      /\ UNCHANGED <<zone, cfg, db, run, pipe, stopped>>
  BY <1>0, <1>2, PutFields
<1>4. x.at \in Nat /\ x.at > prod.token /\ x.at # Null /\ zone[x.rec].at >= x.at
  BY <1>0, <1>3, EntryFacts, Consts
<1>5. run.token = Null /\ Frontier = prod.token /\ prod.token \in Nat /\ prod.token >= db.token /\ (stopped \/ run.pc \in {"read", "failed"})
  BY <1>0, <1>3, ProducerRuns
<1>6. Frontier' = x.at
  BY <1>3, <1>4, <1>5 DEF Frontier
<1>7. Elems(Flow') = Elems(Flow) \cup Elems(events)
  BY <1>0, <1>2, <1>3, LineGrows
<1> SUFFICES ASSUME ~Doomed', NEW a \in Assets, Due(a)' PROVE CoverAt(a)'
  BY DEF CoverOK
<1>8. ~Doomed /\ run.pc = "read"
  BY <1>3, <1>5, <1>7 DEF Doomed
<1>9. zone[a].st = "live" /\ zone[a].at > db.token /\ zone[a].at <= x.at /\ zone[a].at \in Nat /\ a \in Records
  BY <1>0, <1>3, <1>6, Types, Consts DEF Due
<1>10. CASE zone[a].at <= prod.token
  <2>1. CoverAt(a)
    BY <1>5, <1>8, <1>9, <1>10 DEF CoverInv, CoverOK, Due
  <2>2. x.rec # a
    BY <1>4, <1>5, <1>9, <1>10
  <2>3. Carries(BufferOf(a), prod'.buffer.assets[MasterOf[a]], prod'.todo, a)
    BY <1>0, <1>1, <1>9, <2>2, CarryMaster, CarryAsset, CarryOther
  <2> QED BY <1>0, <1>2, <1>3, <1>8, <2>1, <2>3, CoverGrows
<1>11. CASE zone[a].at > prod.token
  <2>1. x.rec = a /\ x.st = "live"
    BY <1>0, <1>3, <1>9, <1>11, PutWindow
  <2>2. \/ Gains(prod'.buffer.assets[MasterOf[a]], prod'.todo, a)
        \/ \E e \in Elems(prod'.todo) : e.kind = "bad"
    BY <1>0, <1>1, <1>9, <2>1, GainsNew
  <2>3. ~\E e \in Elems(prod'.todo) : e.kind = "bad"
    BY <1>3, <1>7 DEF Doomed
  <2> QED BY <1>0, <1>2, <1>3, <1>8, <2>2, <2>3, CoverGrows
<1> QED BY <1>5, <1>9, <1>10, <1>11

LEMMA CarryFlush ==
    ASSUME SafeInv, Flush, NEW a \in Assets
    PROVE  \/ prod' = [prod EXCEPT !.pc = "done"]
           \/ \E e \in Elems(prod'.todo) : e.kind = "err"
           \/ Carries(BufferOf(a), prod'.buffer.assets[MasterOf[a]], prod'.todo, a)
<1> DEFINE b == prod.buffer
           n == MasterOf[a]
           none == <<>>
<1>1. prod \in Producers /\ b \in Buffers /\ b.assets \in [Masters -> Seq(Items)] /\ n \in Masters /\ BufferOf(a) = b.assets[n]
  BY Types, Consts DEF SafeInv, Buffers, BufferOf
<1>2. ASSUME NEW m \in Masters,
             prod' = [prod EXCEPT !.buffer.masters[m] = Null, !.todo = <<Event("master", m, b.masters[m], Null)>>]
      PROVE  Carries(BufferOf(a), prod'.buffer.assets[n], prod'.todo, a)
  <2> DEFINE e == Event("master", m, b.masters[m], Null)
             es == <<e>>
  <2>1. prod'.buffer.assets = b.assets /\ prod'.todo = es
    BY <1>1, <1>2 DEF Producers, Buffers
  <2>2. e.rec = m /\ m # a
    BY Consts DEF Event
  <2> HIDE DEF e
  <2>3. Elems(es) = {e}
    BY ElemsSmall
  <2> HIDE DEF es
  <2> QED BY <1>1, <2>1, <2>2, <2>3, CarrySame DEF Soft
<1>3. ASSUME NEW m \in Masters, prod' = [prod EXCEPT !.buffer.assets[m] = <<>>, !.todo = Halves(b.assets[m])]
      PROVE  Carries(BufferOf(a), prod'.buffer.assets[n], prod'.todo, a)
  <2> DEFINE es == Halves(b.assets[m])
  <2>1. prod'.buffer.assets = [b.assets EXCEPT ![m] = <<>>] /\ prod'.todo = es
    BY <1>1, <1>3 DEF Producers, Buffers
  <2>2. CASE m = n
    <3>1. prod'.buffer.assets[n] = <<>> /\ b.assets[m] = BufferOf(a) /\ BufferOf(a) \in Seq(Items)
      BY <1>1, <2>1, <2>2
    <3> QED BY <2>1, <3>1, CarryHalves
  <2>3. CASE m # n
    <3>1. prod'.buffer.assets[n] = BufferOf(a)
      BY <1>1, <2>1, <2>3
    <3>2. ASSUME NEW e \in Elems(es) PROVE e.rec # a
      <4>1. DOMAIN es = DOMAIN b.assets[m] /\ \A i \in DOMAIN b.assets[m] : es[i].rec = b.assets[m][i].rec
        BY DEF Halves, Event
      <4>2. PICK i \in DOMAIN b.assets[m] : e = es[i]
        BY <3>2, <4>1 DEF Elems
      <4>3. MasterOf[b.assets[m][i].rec] = m
        BY ElemsAt DEF SafeInv, BufferOK, ItemOK
      <4> QED BY <2>3, <4>1, <4>2, <4>3
    <3> HIDE DEF es
    <3> QED BY <2>1, <3>1, <3>2, CarrySame DEF Soft
  <2> QED BY <2>2, <2>3
<1>4. ASSUME prod' = [prod EXCEPT !.failed = FALSE, !.todo = <<Nameless("err")>>]
      PROVE  \E e \in Elems(prod'.todo) : e.kind = "err"
  <2> DEFINE e == Nameless("err")
  <2>1. prod'.todo = <<e>>
    BY <1>1, <1>4 DEF Producers
  <2>2. e.kind = "err"
    BY DEF Nameless, Event
  <2> HIDE DEF e
  <2> QED BY <2>1, <2>2, ElemsSmall
<1> QED BY <1>2, <1>3, <1>4 DEF Flush

LEMMA FlushCover ==
    ASSUME CoverInv, Flush
    PROVE  CoverOK'
<1>0. SafeInv /\ DeltaTypeOK /\ DeltaTypeOK' /\ ProducerStep
  BY ProducerTypes DEF CoverInv, SafeInv, ProducerStep
<1>1. prod.pc = "flush" /\ prod.todo = <<>> /\ channel' = channel /\ UNCHANGED <<zone, cfg, db, run, pipe, stopped>> /\ prod \in Producers
  BY <1>0, Types DEF Flush
<1>2. run.token = Null /\ Frontier = prod.token /\ (stopped \/ run.pc \in {"read", "failed"})
  BY <1>0, <1>1, ProducerRuns
<1>3. prod'.todo \in Seq(Events)
  BY <1>0 DEF DeltaTypeOK, Producers
<1>4. CASE prod' = [prod EXCEPT !.pc = "done"]
  <2>1. prod'.buffer = prod.buffer /\ prod'.todo = prod.todo /\ prod'.token = prod.token /\ prod'.failed = prod.failed
    BY <1>1, <1>4 DEF Producers
  <2>2. Flow' = Flow /\ Frontier' = Frontier
    BY <1>1, <2>1 DEF Flow, Frontier
  <2>3. Doomed' = Doomed
    BY <1>1, <2>1, <2>2 DEF Doomed
  <2> QED BY <1>1, <2>1, <2>2, <2>3, SameCover
<1>5. CASE prod' # [prod EXCEPT !.pc = "done"]
  <2>1. PICK b \in Buffers, events \in Seq(Events), failed \in BOOLEAN :
           /\ prod' = [prod EXCEPT !.buffer = b, !.todo = events, !.failed = failed]
           /\ prod.failed => failed \/ \E e \in Elems(events) : e.kind = "err"
    BY <1>0, <1>5, FlushOK
  <2>2. prod'.todo = events /\ prod'.token = prod.token /\ prod'.failed = failed
    BY <1>1, <2>1 DEF Producers
  <2>3. Elems(Flow') = Elems(Flow) \cup Elems(events)
    BY <1>0, <1>1, <2>1, <2>2, LineGrows
  <2>4. Frontier' = Frontier
    BY <1>1, <2>2 DEF Frontier
  <2> SUFFICES ASSUME ~Doomed', NEW a \in Assets, Due(a)' PROVE CoverAt(a)'
    BY DEF CoverOK
  <2>5. ~Doomed /\ run.pc = "read" /\ ~\E e \in Elems(events) : e.kind = "err"
    BY <1>1, <1>2, <2>1, <2>2, <2>3 DEF Doomed
  <2>6. CoverAt(a)
    BY <1>1, <2>4, <2>5 DEF CoverInv, CoverOK, Due
  <2>7. Carries(BufferOf(a), prod'.buffer.assets[MasterOf[a]], prod'.todo, a)
    BY <1>0, <1>5, <2>2, <2>5, CarryFlush
  <2> QED BY <1>0, <1>1, <1>3, <2>5, <2>6, <2>7, CoverGrows
<1> QED BY <1>4, <1>5

LEMMA ProducerCover ==
    ASSUME CoverInv, ProducerStep
    PROVE  CoverInv'
<1>1. SafeInv /\ SafeInv' /\ DeltaTypeOK /\ prod \in Producers
  BY ProducerInv, Types DEF CoverInv, SafeInv
<1>2. UNCHANGED <<zone, cfg, db, run, pipe, stopped>> /\ prod.pc \in {"page", "send", "flush"}
  BY <1>1, ProducerFrame
<1>3. (stopped \/ run.pc \in {"read", "failed"})
  BY <1>1, <1>2, ProducerRuns
<1>4. AddedOK'
  BY <1>2, <1>3 DEF AddedOK, Doomed, AddedAt
<1>5. DeltaTokenSound'
  BY <1>2 DEF CoverInv, DeltaTokenSound, Wanted, Known, Exists
<1>6. CoverOK'
  <2>1. CASE FetchPage \/ EndPage
    <3>1. /\ prod'.buffer = prod.buffer /\ prod'.todo = prod.todo /\ prod'.token = prod.token /\ prod'.failed = prod.failed
          /\ channel' = channel
      BY <1>1, <2>1 DEF FetchPage, EndPage, AfterPage, Producers
    <3>2. Flow' = Flow /\ Frontier' = Frontier
      BY <1>2, <3>1 DEF Flow, Frontier
    <3>3. Doomed' = Doomed
      BY <1>2, <3>1, <3>2 DEF Doomed
    <3> QED BY <1>2, <3>1, <3>2, <3>3, SameCover
  <2>2. CASE SendEvent
    <3>1. /\ prod'.buffer = prod.buffer /\ prod'.todo = Tail(prod.todo) /\ prod'.token = prod.token /\ prod'.failed = prod.failed
          /\ channel' = Append(channel, Head(prod.todo)) /\ prod.todo # <<>> /\ channel \in Seq(Events) /\ prod.todo \in Seq(Events)
      BY <1>1, <2>2, Types DEF SendEvent, Producers
    <3>2. Flow' = Flow /\ Frontier' = Frontier
      BY <1>2, <3>1, SendLine DEF Flow, Frontier
    <3>3. Doomed' = Doomed
      BY <1>2, <3>1, <3>2 DEF Doomed
    <3> QED BY <1>2, <3>1, <3>2, <3>3, SameCover
  <2>3. CASE PageFails
    <3>1. prod'.failed
      BY <1>1, <2>3 DEF PageFails, Producers
    <3> QED BY <3>1 DEF CoverOK, Doomed
  <2> QED BY <2>1, <2>2, <2>3, PutCover, FlushCover DEF ProducerStep
<1> QED BY <1>1, <1>4, <1>5, <1>6 DEF CoverInv

-----------------------------------------------------------------------------
(* The zone, the beginning and the end of a run. *)

LEMMA ZoneCover ==
    ASSUME CoverInv, ZoneChange
    PROVE  CoverInv'
<1>1. SafeInv /\ SafeInv' /\ DeltaTypeOK
  BY ZoneInv DEF CoverInv, SafeInv
<1>2. UNCHANGED <<cfg, db, run, prod, channel, pipe, stopped>> /\ \A r \in Records : zone'[r].at <= clock => zone'[r] = zone[r]
  BY <1>1, ZoneMove
<1>3. Frontier \in Nat /\ Frontier <= clock /\ Frontier >= db.token /\ clock \in Nat /\ db.token \in Nat
      /\ \A r \in Records : zone'[r].at \in Nat
  BY <1>1, FrontierType, Types, ZoneMove
<1>4. Flow' = Flow /\ Frontier' = Frontier
  BY <1>2 DEF Flow, Frontier
<1>5. Doomed' = Doomed
  BY <1>2, <1>4 DEF Doomed
<1>6. \A r \in Records : zone'[r].at <= Frontier => zone'[r] = zone[r]
  BY <1>2, <1>3
<1>7. \A a \in Assets : a \in Records /\ Rel(a) \in Records
  BY Consts
<1>8. ASSUME NEW a \in Assets, Due(a)' PROVE Due(a) /\ (CoverAt(a) => CoverAt(a)')
  <2>1. Due(a)
    BY <1>2, <1>4, <1>6, <1>7, <1>8 DEF Due
  <2>2. (SoftBuffered(a)' <=> SoftBuffered(a)) /\ (Buffered(a)' <=> Buffered(a)) /\ (SoftSent(Flow, a)' <=> SoftSent(Flow, a))
    BY <1>2, <1>4 DEF SoftBuffered, Buffered, BufferOf, SoftSent, Soft, BufLast, Last
  <2>3. Queued(a)' <=> Queued(a)
    BY <1>4, <2>2 DEF Queued, HalfSent, FreshLast, Last, Soft, Half
  <2>4. Kept(a)' <=> Kept(a)
    BY <1>2 DEF Kept, Keeps, Half, Fresh, Streaming
  <2>5. Streamed(a)' <=> Streamed(a)
    BY <1>2, <2>2 DEF Streamed, Streaming, Known, Piped
  <2>6. (Listed(a)' <=> Listed(a)) /\ (Planned(a)' <=> Planned(a))
    BY <1>2 DEF Listed, Planned, Known
  <2>7. Passed(a) => Passed(a)'
    BY <1>2, <1>4, <1>6, <1>7 DEF Passed, Chosen, Exists
  <2> QED BY <2>1, <2>2, <2>3, <2>4, <2>5, <2>6, <2>7 DEF CoverAt
<1>9. CoverOK'
  BY <1>5, <1>8 DEF CoverInv, CoverOK
<1>10. AddedOK'
  <2>1. ASSUME NEW a \in Assets, Added(a)' PROVE Added(a)
    <3>1. zone'[Rel(a)] = zone[Rel(a)]
      BY <1>4, <1>6, <1>7, <2>1 DEF Added, Window
    <3>2. zone'[a].at <= Frontier
      BY <1>2, <1>3, <1>7, <2>1 DEF Added
    <3>3. zone'[a] = zone[a]
      BY <1>6, <1>7, <3>2
    <3> QED BY <1>2, <1>4, <2>1, <3>1, <3>3 DEF Added, Window, Exists
  <2>2. \A a : AddedAt(a)' <=> AddedAt(a)
    BY <1>2 DEF AddedAt, Listed, Planned, Known
  <2> QED BY <1>2, <1>5, <2>1, <2>2 DEF CoverInv, AddedOK
<1>11. DeltaTokenSound'
  <2>1. \A r \in Records : zone'[r].at <= db.token => zone'[r] = zone[r]
    BY <1>3, <1>6
  <2>2. ASSUME NEW a \in Assets, Wanted(a)', zone'[a].at <= db.token, cfg.unfiled \/ zone'[Rel(a)].at <= db.token
        PROVE  Known(db, a)
    <3>1. zone'[a] = zone[a] /\ (cfg.unfiled \/ zone'[Rel(a)] = zone[Rel(a)])
      BY <1>7, <2>1, <2>2
    <3> QED BY <1>2, <2>2, <3>1 DEF CoverInv, DeltaTokenSound, Wanted, Exists
  <2> QED BY <1>2, <2>2 DEF DeltaTokenSound, Known
<1> QED BY <1>1, <1>9, <1>10, <1>11 DEF CoverInv

(* At both ends nothing was read beyond the stored token. *)
LEMMA EmptyWindow ==
    ASSUME SafeInv', Frontier' = db'.token, DeltaTokenSound'
    PROVE  CoverInv'
<1>1. db'.token \in Nat /\ \A r \in Records : zone'[r].at \in Nat
  BY DEF SafeInv, DeltaTypeOK, Databases
<1>2. \A a \in Assets : ~Due(a)' /\ ~Added(a)'
  BY <1>1, Consts DEF Due, Added, Window
<1> QED BY <1>2 DEF CoverInv, CoverOK, AddedOK

LEMMA KnownSound ==
    ASSUME CoverInv, zone' = zone, cfg' = cfg, db'.token = db.token, \A a \in Assets : Known(db, a) => Known(db', a)
    PROVE  DeltaTokenSound'
  BY DEF CoverInv, DeltaTokenSound, Wanted, Exists

LEMMA EndedFrontier ==
    ASSUME Ended
    PROVE  Frontier' = db'.token
<1>1. run'.token = Null /\ prod'.token = Null
  BY IdleTypes DEF Ended
<1> QED BY <1>1 DEF Frontier

LEMMA StartCover ==
    ASSUME CoverInv, StartRun
    PROVE  CoverInv'
<1>1. SafeInv /\ SafeInv' /\ zone' = zone /\ cfg' = cfg /\ db' = db
  BY StartInv DEF CoverInv, StartRun
<1>2. DeltaTokenSound'
  BY <1>1, KnownSound
<1>3. CASE cfg.album /\ ~db.snapshot
  <2>1. run' = QuietRun("backfill") /\ prod' = Off
    BY <1>1, <1>3 DEF StartRun, QuietRun, SafeInv, ShapeOK
  <2>2. run'.token = Null /\ prod'.token = Null
    BY <2>1, QuietFields, OffFields
  <2>3. Frontier' = db'.token
    BY <2>2 DEF Frontier
  <2> QED BY <1>1, <1>2, <2>3, EmptyWindow
<1>4. CASE ~(cfg.album /\ ~db.snapshot)
  <2>1. run' = OpenedRun(db) /\ prod' = Producer(db.token) /\ Sound(db)
    BY <1>1, <1>4, SoundDb DEF StartRun, Opened, OpenedRun
  <2>2. run'.token = Null /\ prod'.token = db'.token
    BY <1>1, <2>1, OpenedTypes DEF OpenedOK
  <2>3. Frontier' = db'.token
    BY <2>2 DEF Frontier
  <2> QED BY <1>1, <1>2, <2>3, EmptyWindow
<1> QED BY <1>3, <1>4

LEMMA BackfillCover ==
    ASSUME CoverInv, Backfill
    PROVE  CoverInv'
<1>1. SafeInv /\ SafeInv' /\ zone' = zone /\ cfg' = cfg /\ Sound(db) /\ DeltaTypeOK
  BY BackfillInv, SoundDb DEF CoverInv, Backfill, SafeInv
<1>2. CASE Ended /\ db' = db
  BY <1>1, <1>2, KnownSound, EndedFrontier, EmptyWindow
<1>3. CASE db' = Enumerated(db, {a \in InAlbum : zone[a].st = "live"}) /\ Opened(db')
  <2> DEFINE set == {a \in InAlbum : zone[a].st = "live"}
  <2>1. set \in SUBSET Assets /\ db' = Enumerated(db, set)
    BY <1>3 DEF InAlbum
  <2> HIDE DEF set
  <2>2. Sound(db') /\ db'.token = db.token /\ \A a \in Assets : Known(db, a) \/ a \in set => Known(db', a)
    BY <1>1, <2>1, EnumStep
  <2>3. DeltaTokenSound'
    BY <1>1, <2>2, KnownSound
  <2>4. run' = OpenedRun(db') /\ prod' = Producer(db'.token)
    BY <1>3 DEF Opened, OpenedRun
  <2>5. run'.token = Null /\ prod'.token = db'.token
    <3>1. PICK d : d = db'
      OBVIOUS
    <3>2. Sound(d) /\ run' = OpenedRun(d) /\ prod' = Producer(d.token)
      BY <2>2, <2>4, <3>1
    <3> QED BY <3>1, <3>2, OpenedTypes DEF OpenedOK
  <2>6. Frontier' = db'.token
    BY <2>5 DEF Frontier
  <2> QED BY <1>1, <2>3, <2>6, EmptyWindow
<1> QED BY <1>2, <1>3 DEF Backfill

LEMMA FailCover ==
    ASSUME CoverInv, Fail
    PROVE  CoverInv'
<1>1. SafeInv /\ SafeInv' /\ zone' = zone /\ cfg' = cfg /\ Ended /\ Sound(db) /\ DeltaTypeOK
  BY FailInv, SoundDb DEF CoverInv, Fail, SafeInv
<1>2. CASE db' = db
  BY <1>1, <1>2, KnownSound, EndedFrontier, EmptyWindow
<1>3. CASE db' = [Enumerated(db, {a \in Assets : Wanted(a)}) EXCEPT !.token = clock]
  <2> DEFINE set == {a \in Assets : Wanted(a)}
             d == Enumerated(db, set)
  <2>1. set \in SUBSET Assets /\ db' = [d EXCEPT !.token = clock] /\ clock \in Nat
    BY <1>1, <1>3, Types
  <2>2. \A a \in Assets : Wanted(a) => a \in set
    OBVIOUS
  <2> HIDE DEF set
  <2>3. Sound(d) /\ \A a \in Assets : Known(db, a) \/ a \in set => Known(d, a)
    BY <1>1, <2>1, EnumStep
  <2> HIDE DEF d
  <2>4. db'.rows = d.rows /\ db'.owner = d.owner
    BY <2>1, <2>3, TokenMove
  <2>5. \A a \in Assets : Wanted(a) => Known(db', a)
    BY <2>2, <2>3, <2>4 DEF Known
  <2>6. DeltaTokenSound'
    BY <1>1, <2>5 DEF DeltaTokenSound, Wanted, Exists
  <2> QED BY <1>1, <2>6, EndedFrontier, EmptyWindow
<1> QED BY <1>2, <1>3 DEF Fail

LEMMA DeathCover ==
    ASSUME CoverInv, Crash \/ ForceExit
    PROVE  CoverInv'
<1>1. SafeInv /\ SafeInv' /\ zone' = zone /\ cfg' = cfg /\ Ended /\ db' = db
  BY DeathInv DEF CoverInv, Crash, ForceExit
<1> QED BY <1>1, KnownSound, EndedFrontier, EmptyWindow

LEMMA StopCover ==
    ASSUME CoverInv, Stop
    PROVE  CoverInv'
<1>1. SafeInv /\ SafeInv' /\ zone' = zone /\ cfg' = cfg /\ db' = db /\ stopped'
  BY StopInv DEF CoverInv, Stop
<1>2. DeltaTokenSound'
  BY <1>1, KnownSound
<1> QED BY <1>1, <1>2 DEF CoverInv, CoverOK, AddedOK, Doomed

(* The token of a run that ends well claims what the run has put on record. *)
LEMMA ReportKnown ==
    ASSUME CoverInv, Report, Advances, NEW a \in Assets, Wanted(a), zone[a].at <= run.token,
           cfg.unfiled \/ zone[Rel(a)].at <= run.token
    PROVE  Known(db, a)
<1>0. SafeInv /\ DeltaTypeOK /\ run.pc = "report" /\ ~stopped /\ pipe = <<>> /\ prod = Off
  BY DEF CoverInv, SafeInv, Report, Advances, ShapeOK
<1>1. ~Doomed /\ Frontier = run.token /\ Flow = <<>> /\ run.token \in Nat /\ run.token >= db.token
  BY <1>0, ReportClean, Types DEF Advances
<1>2. a \in Records /\ Rel(a) \in Records /\ zone[a].at \in Nat /\ zone[Rel(a)].at \in Nat /\ db.token \in Nat
  BY <1>0, Types, Consts
<1>3. CASE zone[a].at > db.token
  <2>1. CoverAt(a)
    BY <1>1, <1>3 DEF CoverInv, CoverOK, Due, Wanted
  <2>2. ~Buffered(a)
    <3>1. BufferOf(a) = <<>>
      BY <1>0, OffFields, Consts DEF BufferOf
    <3> QED BY <3>1, NothingAt DEF Buffered, BufLast
  <2>3. ~Queued(a)
    BY <1>1, FreshNone DEF Queued
  <2>4. ~Kept(a) /\ ~Listed(a)
    BY <1>0 DEF Kept, Keeps, Listed
  <2>5. ~Piped(a)
    BY <1>0, ElemsSmall DEF Piped
  <2>6. Chosen(a)
    BY <1>1 DEF Chosen, Wanted
  <2> QED BY <2>1, <2>2, <2>3, <2>4, <2>5, <2>6 DEF CoverAt, Streamed, Planned, Passed
<1>4. CASE zone[a].at <= db.token /\ (cfg.unfiled \/ zone[Rel(a)].at <= db.token)
  BY <1>4 DEF CoverInv, DeltaTokenSound
<1>5. CASE zone[a].at <= db.token /\ ~cfg.unfiled /\ zone[Rel(a)].at > db.token
  <2>1. cfg.album /\ Added(a)
    BY <1>1, <1>5 DEF Wanted, Added, Window
  <2>2. AddedAt(a)
    BY <1>1, <1>5, <2>1 DEF CoverInv, AddedOK
  <2> QED BY <1>0, <2>2 DEF AddedAt, Listed, Planned
<1> QED BY <1>2, <1>3, <1>4, <1>5

LEMMA ReportCover ==
    ASSUME CoverInv, Report
    PROVE  CoverInv'
<1>1. SafeInv /\ SafeInv' /\ zone' = zone /\ cfg' = cfg /\ Ended /\ Sound(db) /\ db.token \in Nat
  BY ReportInv, SoundDb, Types DEF CoverInv, Report, SafeInv
<1>2. \A a \in Assets : Known(db, a) => Known(db', a)
  <2>1. PICK moved : db' = [Transferred(db, moved) EXCEPT !.token = IF Advances THEN run.token ELSE @]
    BY DEF Report
  <2> DEFINE d == Transferred(db, moved)
             t == IF Advances THEN run.token ELSE d.token
             none == {}
  <2>2. DbStep(db, d, none, none)
    BY <1>1, TransferStep
  <2>3. Sound(d) /\ d.token = db.token /\ \A a \in Assets : Known(db, a) => Known(d, a)
    BY <2>2 DEF DbStep, DbMove
  <2> HIDE DEF d
  <2>4. t \in Nat
    <3>1. Advances => run.token \in Nat
      BY <1>1, Types DEF Advances, SafeInv
    <3> QED BY <1>1, <2>3, <3>1
  <2>5. db' = [d EXCEPT !.token = t]
    BY <2>1 DEF d
  <2> HIDE DEF t
  <2>6. db'.rows = d.rows /\ db'.owner = d.owner
    BY <2>3, <2>4, <2>5, TokenMove
  <2> QED BY <2>3, <2>6 DEF Known
<1>3. db'.token = IF Advances THEN run.token ELSE db.token
  BY <1>1, ReportDb
<1>4. DeltaTokenSound'
  <2>1. CASE ~Advances
    BY <1>1, <1>2, <1>3, <2>1, KnownSound
  <2>2. CASE Advances
    <3>1. \A a \in Assets : Wanted(a) /\ zone[a].at <= run.token /\ (cfg.unfiled \/ zone[Rel(a)].at <= run.token) => Known(db', a)
      BY <1>2, <2>2, ReportKnown
    <3>2. db'.token = run.token
      BY <1>3, <2>2
    <3> QED BY <1>1, <3>1, <3>2 DEF DeltaTokenSound, Wanted, Exists
  <2> QED BY <2>1, <2>2
<1> QED BY <1>1, <1>4, EndedFrontier, EmptyWindow

LEMMA InitCover ==
    ASSUME DeltaInit
    PROVE  CoverInv
<1>1. SafeInv /\ DeltaTypeOK
  BY InitInv DEF SafeInv
<1>2. PICK l \in Setups : cfg = l.config /\ zone = LibraryZone(l) /\ db.rows = LibraryRows(l) /\ db.token = 1
  BY DEF DeltaInit
<1>3. l.legacy \subseteq l.live /\ l.live \subseteq Assets /\ l.album \subseteq l.live
      /\ \A a, b \in l.legacy : MasterOf[a] = MasterOf[b] => a = b
  BY DeltaAssumption DEF IsSetup
<1>4. run = Idle /\ prod = Off
  BY DEF DeltaInit
<1>5. Frontier = db.token
  BY <1>4, IdleTypes DEF Frontier
<1>6. ASSUME NEW a \in Assets, zone[a].st = "live" PROVE Known(db, a)
  <2>1. a \in l.live
    <3> DEFINE there == l.live \cup {MasterOf[b] : b \in l.live} \cup {Rel(b) : b \in l.album}
    <3>1. zone[a] = IF a \in there THEN [st |-> "live", at |-> 1] ELSE [st |-> "absent", at |-> 0]
      BY <1>2, Consts DEF LibraryZone
    <3>2. a \in there
      <4> HIDE DEF there
      <4> QED BY <1>6, <3>1
    <3> QED BY <1>3, <3>2, Consts
  <2>2. CASE a \notin l.legacy
    <3>1. LibraryRows(l)[a] = [of |-> a, status |-> "downloaded", deleted |-> FALSE]
      <4>1. a \in l.live \ l.legacy /\ a \in Keys
        BY <2>1, <2>2, Consts
      <4>2. ~\E b \in l.legacy : MasterOf[b] = a
        BY <1>3, Consts
      <4> QED BY <4>1, <4>2, Zenon DEF LibraryRows
    <3> QED BY <1>2, <3>1 DEF Known
  <2>3. CASE a \in l.legacy
    <3> DEFINE m == MasterOf[a]
               c == CHOOSE b \in l.legacy : MasterOf[b] = m
    <3>1. m \in Keys /\ m \notin l.live \ l.legacy /\ c = a
      BY <1>3, <2>3, Consts
    <3>2. LibraryRows(l)[m] = [of |-> c, status |-> "downloaded", deleted |-> FALSE]
      BY <2>3, <3>1 DEF LibraryRows
    <3> HIDE DEF m, c
    <3>3. db.rows[m].of = a /\ db.rows[m].status = "downloaded"
      BY <1>2, <3>1, <3>2
    <3> QED BY <3>3 DEF Known, m
  <2> QED BY <2>2, <2>3
<1>7. DeltaTokenSound
  BY <1>6 DEF DeltaTokenSound, Wanted
<1>8. db.token \in Nat /\ \A r \in Records : zone[r].at \in Nat
  BY <1>1, Types
<1>9. \A a \in Assets : ~Due(a) /\ ~Added(a)
  BY <1>5, <1>8, Consts DEF Due, Added, Window
<1> QED BY <1>1, <1>7, <1>9 DEF CoverInv, CoverOK, AddedOK

-----------------------------------------------------------------------------
(* The steps in the middle of a run hand every photo on. *)

(* A step after which the token of the run may still be stored. *)
GoodStep ==
    /\ SafeInv /\ MidStep /\ ~stopped /\ run'.pc # "failed" /\ ~run'.unsafe
    /\ zone' = zone /\ cfg' = cfg /\ Frontier' = Frontier /\ db'.token = db.token
Live(a) == zone[a].st = "live" /\ zone[a].at <= Frontier

LEMMA GoodOnly ==
    ASSUME SafeInv, MidStep, ~Doomed'
    PROVE  GoodStep /\ ~Doomed
<1>1. zone' = zone /\ cfg' = cfg /\ stopped' = stopped /\ db'.token = db.token
  BY Mid DEF MidFrame
<1>2. ~Doomed
  BY MidDoomed
<1>3. ~stopped /\ run'.pc # "failed" /\ ~run'.unsafe
  BY <1>1 DEF Doomed
<1>4. Frontier' = Frontier
  BY <1>3, MidFrontier
<1> QED BY <1>1, <1>2, <1>3, <1>4 DEF GoodStep

LEMMA GoodSame ==
    ASSUME GoodStep
    PROVE  /\ Streaming' = Streaming
           /\ \A a : Due(a)' = Due(a) /\ Added(a)' = Added(a) /\ Chosen(a)' = Chosen(a)
<1>1. zone' = zone /\ cfg' = cfg /\ Frontier' = Frontier /\ db'.token = db.token
  BY DEF GoodStep
<1>2. \A a : Exists(Rel(a))' = Exists(Rel(a))
  BY <1>1 DEF Exists
<1> QED BY <1>1, <1>2 DEF Streaming, Due, Added, Window, Chosen

LEMMA GoodTypes ==
    ASSUME SafeInv
    PROVE  /\ run.events \in Seq(Events) /\ DOMAIN run.events = 1 .. Len(run.events) /\ Len(run.events) \in Nat
           /\ run.ready \in Seq(Photos) /\ DOMAIN run.ready = 1 .. Len(run.ready) /\ Len(run.ready) \in Nat
           /\ run.at \in Nat
<1>1. run.events \in Seq(Events) /\ run.ready \in Seq(Photos) /\ run.at \in Nat
  BY Types DEF SafeInv
<1> QED BY <1>1

(* A known photo stays known. *)
LEMMA KnownKeeps ==
    ASSUME SafeInv, MidStep, NEW a \in Assets, zone[a].st = "live", Known(db, a), zone[a].at \in Nat
    PROVE  \/ Known(db', a)
           \/ /\ zone[a].at > db.token
              /\ \/ stopped \/ zone[a].at > Frontier \/ run.pc = "apply"
                 \/ run.pc = "read" /\ channel # <<>> /\ Soft(Head(channel), a)
<1>1. PICK lose, wait : DbMove(db, db', lose, wait) /\ \A b \in lose \cap Assets : LoseOK(b)
  BY Mid DEF Effect
<1>2. Known(db', a) \/ a \in lose
  BY <1>1 DEF DbMove
<1> QED BY <1>1, <1>2 DEF LoseOK

LEMMA MidSound ==
    ASSUME CoverInv, MidStep
    PROVE  DeltaTokenSound'
<1>1. SafeInv /\ zone' = zone /\ cfg' = cfg /\ db'.token = db.token /\ db.token \in Nat
  BY Mid, Types DEF CoverInv, SafeInv, MidFrame
<1>2. ASSUME NEW a \in Assets, zone[a].st = "live", zone[a].at <= db.token, Known(db, a)
      PROVE  Known(db', a)
  <2>1. zone[a].at \in Nat
    BY <1>1, Types, Consts DEF SafeInv
  <2> QED BY <1>1, <1>2, <2>1, KnownKeeps
<1> QED BY <1>1, <1>2 DEF CoverInv, DeltaTokenSound, Wanted, Exists

LEMMA SoftNever ==
    ASSUME prod' = Off, NEW a \in Assets
    PROVE  ~Buffered(a)' /\ ~SoftBuffered(a)'
<1>1. BufferOf(a)' = <<>>
  BY OffFields, Consts DEF BufferOf
<1> QED BY <1>1, NothingAt DEF Buffered, BufLast, SoftBuffered, SoftSent

(* Nothing is left in the buffer after the last event. *)
LEMMA LateBuffer ==
    ASSUME SafeInv, ~stopped, run.pc \in Late, NEW a \in Assets
    PROVE  ~Buffered(a) /\ ~SoftBuffered(a)
<1>1. prod.pc \in {"done", "off"}
  BY DEF SafeInv, ShapeOK
<1>2. prod = Off \/ Flushed(prod.buffer)
  BY <1>1 DEF SafeInv, ShapeOK
<1>3. BufferOf(a) = <<>>
  BY <1>2, OffFields, Consts DEF BufferOf, Flushed
<1> QED BY <1>3, NothingAt DEF Buffered, BufLast, SoftBuffered, SoftSent

LEMMA GoodBuffer ==
    ASSUME GoodStep, NEW a \in Assets
    PROVE  (Buffered(a) => Buffered(a)') /\ (SoftBuffered(a)' => SoftBuffered(a))
<1>1. CASE prod' = prod
  BY <1>1 DEF Buffered, BufLast, Last, Soft, SoftBuffered, SoftSent, BufferOf
<1>2. CASE prod' = Off /\ ReceiveToken
  <2>1. run.pc \in Late
    BY <1>2 DEF ReceiveToken, Late
  <2> QED BY <1>2, <2>1, SoftNever, LateBuffer DEF GoodStep
<1>3. ~BreakAtStop
  BY DEF GoodStep, BreakAtStop
<1> QED BY <1>1, <1>2, <1>3, MidPipes DEF GoodStep

(* The reader takes an event off the line. *)
LEMMA TakeLine ==
    ASSUME SafeInv, channel # <<>>, channel' = Tail(channel), prod' = prod
    PROVE  /\ Head(channel) \in Events /\ Flow' \in Seq(Events) /\ Flow = <<Head(channel)>> \o Flow'
           /\ Elems(Flow) = {Head(channel)} \cup Elems(Flow')
<1> DEFINE c == channel
           t == prod.todo
           u == Tail(c)
<1>1. c \in Seq(Events) /\ t \in Seq(Events) /\ c # <<>> /\ Flow = c \o t /\ Flow' = u \o t
  BY Types DEF SafeInv, Flow
<1> HIDE DEF c, t, u
<1>2. Head(c) \in Events /\ u \in Seq(Events) /\ c = <<Head(c)>> \o u /\ <<Head(c)>> \in Seq(Events)
  BY <1>1, HeadTail DEF u
<1>3. <<Head(c)>> \o (u \o t) = (<<Head(c)>> \o u) \o t
  BY <1>1, <1>2, LineGroups
<1>4. u \o t \in Seq(Events)
  BY <1>1, <1>2, ConcatAt
<1> DEFINE h == <<Head(c)>>
           v == u \o t
<1>5. h \in Seq(Events) /\ v \in Seq(Events) /\ Elems(h) = {Head(c)}
  BY <1>2, <1>4, ElemsSmall
<1>6. Flow = h \o v /\ Flow' = v
  BY <1>1, <1>2, <1>3
<1> HIDE DEF h, v
<1>7. Elems(Flow) = {Head(c)} \cup Elems(v)
  BY <1>5, <1>6, ElemsConcat
<1> QED BY <1>2, <1>4, <1>5, <1>6, <1>7 DEF c, h

LEMMA KeptNew ==
    ASSUME SafeInv, NEW e \in Events, run'.events = Append(run.events, e), run'.pc = "read", Half(e) \/ Fresh(e)
    PROVE  Kept(e.rec)'
<1>1. run.events \in Seq(Events)
  BY GoodTypes
<1>2. Len(run.events) + 1 \in DOMAIN run'.events /\ run'.events[Len(run.events) + 1] = e
  BY <1>1
<1>3. PICK k : k = Len(run.events) + 1
  OBVIOUS
<1> QED BY <1>2, <1>3 DEF Kept, Keeps, Half, Fresh

LEMMA QueuedStays ==
    ASSUME GoodStep, NEW a \in Assets, Queued(a)
    PROVE  Queued(a)' \/ Kept(a)' \/ Streamed(a)'
<1>0. SafeInv /\ MidStep /\ ~stopped /\ run'.pc # "failed" /\ ~run'.unsafe
  BY DEF GoodStep
<1>1. CASE Flow' = Flow
  BY <1>1, GoodBuffer DEF Queued, HalfSent, FreshLast, Last, Soft, Half
<1>2. CASE ReceiveToken
  <2>1. run.pc \in Late
    BY <1>2 DEF ReceiveToken, Late
  <2>2. Flow = <<>>
    BY <1>0, <2>1, LateLine
  <2> QED BY <2>2, FreshNone DEF Queued
<1>3. CASE CollectEvent \/ StreamEvent
  <2> DEFINE e == Head(channel)
  <2>1. channel # <<>> /\ channel' = Tail(channel) /\ prod' = prod /\ run'.pc = "read"
    BY <1>0, <1>3, CollectRun, StreamRun
  <2>2. e \in Events /\ Flow' \in Seq(Events) /\ Flow = <<e>> \o Flow' /\ Elems(Flow) = {e} \cup Elems(Flow')
    BY <1>0, <2>1, TakeLine
  <2>3. Half(e) \/ Fresh(e) => \/ run'.events = Append(run.events, e)
                               \/ Fresh(e) /\ Streaming /\ pipe' = Append(pipe, [asset |-> e.rec, trashed |-> FALSE])
    BY <1>0, <1>3, CollectRun, StreamRun DEF Half, Fresh
  <2> HIDE DEF e
  <2>4. ASSUME Half(e), e.rec = a PROVE Kept(a)'
    BY <1>0, <2>1, <2>2, <2>3, <2>4, KeptNew DEF Half, Fresh
  <2>5. ASSUME Fresh(e), e.rec = a, ~SoftSent(Flow', a), ~SoftBuffered(a) PROVE Kept(a)' \/ Streamed(a)'
    <3>1. CASE run'.events = Append(run.events, e)
      BY <1>0, <2>1, <2>2, <2>5, <3>1, KeptNew
    <3>2. CASE Streaming /\ pipe' = Append(pipe, [asset |-> e.rec, trashed |-> FALSE])
      <4> DEFINE S == [asset : Assets, trashed : BOOLEAN]
                 x == [asset |-> e.rec, trashed |-> FALSE]
      <4>1. x \in S /\ x.asset = a /\ pipe \in Seq(S) /\ pipe' = Append(pipe, x)
        BY <1>0, <2>5, <3>2, Types DEF SafeInv
      <4> HIDE DEF S, x
      <4>2. x \in Elems(pipe')
        <5>1. \A s \in Seq(S), y \in S : y \in Elems(Append(s, y))
          BY ElemsMore
        <5> QED BY <4>1, <5>1
      <4>3. Piped(a)'
        BY <4>1, <4>2 DEF Piped
      <4>4. ~SoftBuffered(a)' /\ Streaming' /\ ~SoftSent(Flow, a)'
        BY <2>5, <3>2, GoodBuffer, GoodSame DEF SoftSent, Soft
      <4> QED BY <4>3, <4>4 DEF Streamed
    <3> QED BY <2>3, <2>5, <3>1, <3>2
  <2>6. CASE HalfSent(Flow, a)
    <3>1. PICK f \in Elems(Flow) : f.rec = a /\ Half(f)
      BY <2>6 DEF HalfSent
    <3>2. CASE f \in Elems(Flow')
      BY <3>1, <3>2 DEF Queued, HalfSent, Half
    <3> QED BY <2>2, <2>4, <3>1, <3>2
  <2>7. CASE FreshLast(Flow, a) /\ ~SoftBuffered(a)
    <3>1. PICK v : v = Flow'
      OBVIOUS
    <3>2. (Fresh(e) /\ e.rec = a /\ ~SoftSent(v, a)) \/ FreshLast(v, a)
      BY <2>2, <2>7, <3>1, FreshHead
    <3>3. CASE FreshLast(v, a)
      <4>1. ~SoftBuffered(a)'
        BY <2>7, GoodBuffer
      <4>2. FreshLast(Flow, a)'
        BY <3>1, <3>3 DEF FreshLast, Last, Soft
      <4> QED BY <4>1, <4>2 DEF Queued
    <3> QED BY <2>5, <2>7, <3>1, <3>2, <3>3
  <2> QED BY <2>6, <2>7 DEF Queued
<1>4. CASE ~ReceiveToken /\ ~CollectEvent /\ ~StreamEvent
  <2>1. ~BreakAtStop
    BY <1>0 DEF BreakAtStop
  <2>2. Flow' = Flow
    BY <1>0, <1>4, <2>1, MidPipes DEF Flow
  <2> QED BY <1>1, <2>2
<1> QED BY <1>2, <1>3, <1>4

LEMMA KeptAt ==
    ASSUME NEW a, NEW i, i \in DOMAIN run'.events, run'.events[i].rec = a, Keeps(i)'
    PROVE  Kept(a)'
  BY DEF Kept

(* What the phases read of an event. *)
LEMMA KeepsNext ==
    ASSUME cfg' = cfg, NEW i, run'.events[i].kind = run.events[i].kind, run'.events[i].reason = run.events[i].reason, Keeps(i),
           \/ run'.pc = run.pc /\ run'.at = run.at
           \/ run'.pc = run.pc /\ run.pc \in {"read", "select", "scan", "relate"}
           \/ run'.pc = run.pc /\ i > run'.at
    PROVE  Keeps(i)'
<1>1. (Half(run.events[i])' <=> Half(run.events[i])) /\ (Fresh(run.events[i])' <=> Fresh(run.events[i]))
  BY DEF Half, Fresh
<1>2. Streaming' = Streaming
  BY DEF Streaming
<1> HIDE DEF Half, Fresh
<1> QED BY <1>1, <1>2 DEF Keeps

LEMMA PhaseKeeps ==
    ASSUME GoodStep, NextPhase, NEW i \in DOMAIN run.events, Keeps(i)
    PROVE  Keeps(i)'
<1>0. SafeInv /\ run'.pc # "failed" /\ cfg' = cfg
  BY DEF GoodStep
<1>1. Left = {} /\ run'.events = run.events /\ run'.at = 0 /\ i > 0 /\ i \in Nat
  BY <1>0, PhaseRun, KeptEvent
<1>2. (Half(run.events[i])' <=> Half(run.events[i])) /\ (Fresh(run.events[i])' <=> Fresh(run.events[i])) /\ Streaming' = Streaming
  BY <1>0, <1>1 DEF Half, Fresh, Streaming
<1>3. i \notin Left
  BY <1>1
<1>4. CASE run.pc = "hydrate" /\ run'.pc = IF Streaming THEN "offer" ELSE "select"
  <2>1. Fresh(run.events[i])
    BY <1>3, <1>4 DEF Keeps, Left, Concerns
  <2> QED BY <1>1, <1>2, <1>4, <2>1 DEF Keeps
<1>5. CASE run.pc = "offer"
  BY <1>3, <1>5 DEF Keeps, Left, Concerns
<1>6. CASE run.pc = "select" /\ run'.pc = "scan"
  BY <1>2, <1>6 DEF Keeps
<1>7. CASE run.pc = "scan" /\ run'.pc = "relate"
  <2>1. ~Streaming
    BY <1>0, <1>7 DEF SafeInv, ShapeOK
  <2> QED BY <1>2, <1>7, <2>1 DEF Keeps
<1>8. CASE run.pc = "relate" /\ run'.pc = IF Streaming THEN "await" ELSE "apply"
  BY <1>1, <1>2, <1>8 DEF Keeps
<1>9. CASE run.pc = "apply"
  BY <1>3, <1>9 DEF Keeps, Left, Concerns
<1>10. CASE run.pc = "plan"
  BY <1>10 DEF Keeps
<1> QED BY <1>0, <1>4, <1>5, <1>6, <1>7, <1>8, <1>9, <1>10, PhaseRun

LEMMA RouteKeeps ==
    ASSUME GoodStep, Route, NEW a \in Assets, Live(a), NEW i \in DOMAIN run.events, run.events[i].rec = a, Keeps(i)
    PROVE  Kept(a)' \/ Listed(a)' \/ Passed(a)'
<1>0. SafeInv /\ ~run'.unsafe /\ cfg' = cfg /\ DeltaTypeOK /\ ~stopped /\ zone' = zone /\ Frontier' = Frontier
  BY DEF GoodStep, SafeInv
<1>1. PICK j \in DOMAIN run.events :
         /\ Turn("apply", j) /\ run.pc = "apply" /\ run'.at = j /\ run'.pc = "apply" /\ db' = db
         /\ run'.ready = run.ready \/ run'.ready = Append(run.ready, [asset |-> run.events[j].rec,
                        key |-> run.events[j].id, trashed |-> run.events[j].trashed])
         /\ run'.unsafe \/ run'.ready # run.ready \/ ~Routed(run.events[j].rec)
  BY <1>0, RouteRun
<1>2. run'.events = run.events
  BY <1>0, IndexFrame
<1>3. i \in Left /\ i \in Nat /\ j \in Nat
  BY <1>0, <1>1, KeptEvent DEF Keeps, Left, Concerns
<1>4. CASE i # j
  <2>1. i > j
    BY <1>1, <1>3, <1>4 DEF Turn
  <2> QED BY <1>0, <1>1, <1>2, <2>1, KeepsNext, KeptAt
<1>5. CASE i = j /\ run'.ready # run.ready
  <2> DEFINE x == [asset |-> run.events[j].rec, key |-> run.events[j].id, trashed |-> run.events[j].trashed]
  <2>1. x.asset = a /\ run'.ready = Append(run.ready, x)
    BY <1>1, <1>5
  <2> HIDE DEF x
  <2>2. Len(run.ready) + 1 \in DOMAIN run'.ready /\ run'.ready[Len(run.ready) + 1] = x
    BY <1>0, <2>1, GoodTypes
  <2> QED BY <1>1, <2>1, <2>2 DEF Listed
<1>6. CASE i = j /\ ~Routed(a)
  <2>1. ~cfg.unfiled /\ a \notin db.members
    BY <1>6 DEF Routed
  <2>2. cfg.album /\ db.snapshot
    BY <1>0, <1>1, <2>1, Types DEF SafeInv, ShapeOK
  <2>3. ASSUME Exists(Rel(a)), zone[Rel(a)].at <= Frontier PROVE FALSE
    <3>1. zone[Rel(a)].at \in Nat /\ db.token \in Nat
      BY <1>0, Types, Consts
    <3>2. CASE zone[Rel(a)].at <= db.token
      BY <2>1, <2>2, <2>3, <3>2 DEF SafeInv, MembershipSound, GoodStep
    <3>3. CASE zone[Rel(a)].at > db.token
      <4>1. ~Doomed
        <5>1. Flow = <<>> /\ prod.pc \in {"done", "off"}
          BY <1>0, <1>1, LateLine DEF Late, SafeInv, ShapeOK
        <5>2. ~prod.failed /\ Elems(Flow) = {}
          BY <1>0, <5>1, NothingAt DEF SafeInv, ShapeOK
        <5>3. ~run.unsafe
          BY <1>0, Mid DEF GoodStep, MidFrame, MidRun
        <5> QED BY <1>0, <1>1, <5>2, <5>3 DEF Doomed
      <4>2. RelAt(a)
        BY <1>0, <2>2, <2>3, <3>3, <4>1, RelParts DEF Window, SafeInv
      <4> QED BY <1>1, <2>1, <2>3, <4>2 DEF RelAt, Member
    <3> QED BY <3>1, <3>2, <3>3
  <2>4. ~Chosen(a)'
    BY <2>1, <2>3, GoodSame DEF Chosen
  <2> QED BY <1>1, <2>4 DEF Passed
<1> QED BY <1>0, <1>1, <1>4, <1>5, <1>6

LEMMA OfferKeeps ==
    ASSUME GoodStep, OfferHydrated, NEW a \in Assets, NEW i \in DOMAIN run.events, run.events[i].rec = a, Keeps(i)
    PROVE  Kept(a)' \/ Streamed(a)'
<1>0. SafeInv /\ ~stopped /\ cfg' = cfg
  BY DEF GoodStep
<1>1. PICK j \in DOMAIN run.events : /\ Turn("offer", j) /\ run' = [run EXCEPT !.at = j]
                                     /\ pipe' = Append(pipe, [asset |-> run.events[j].rec, trashed |-> run.events[j].trashed])
                                     /\ prod' = prod /\ channel' = channel
  BY DEF OfferHydrated
<1>2. run.pc = "offer" /\ run'.pc = "offer" /\ run'.at = j /\ run'.events = run.events
  <2>1. run \in Runs
    BY <1>0, Types DEF SafeInv
  <2> QED BY <1>1, <2>1 DEF Turn, Runs
<1>3. i \in Left /\ i \in Nat /\ j \in Nat
  BY <1>0, <1>2, KeptEvent DEF Keeps, Left, Concerns
<1>4. CASE i # j
  <2>1. i > j
    BY <1>1, <1>3, <1>4 DEF Turn
  <2> QED BY <1>0, <1>2, <2>1, KeepsNext, KeptAt
<1>5. CASE i = j
  <2> DEFINE S == [asset : Assets, trashed : BOOLEAN]
             x == [asset |-> run.events[j].rec, trashed |-> run.events[j].trashed]
  <2>1. x \in S /\ x.asset = a /\ pipe \in Seq(S) /\ pipe' = Append(pipe, x)
    <3>1. run.events[j] \in Events
      BY <1>0, KeptEvent
    <3> QED BY <1>0, <1>1, <1>5, <3>1, Types DEF SafeInv, Events
  <2> HIDE DEF S, x
  <2>2. x \in Elems(pipe')
    <3>1. \A s \in Seq(S), y \in S : y \in Elems(Append(s, y))
      BY ElemsMore
    <3> QED BY <2>1, <3>1
  <2>3. Piped(a)'
    BY <2>1, <2>2 DEF Piped
  <2>4. ~SoftBuffered(a) /\ Flow = <<>> /\ Streaming
    BY <1>0, <1>2, LateBuffer, LateLine DEF Late, SafeInv, ShapeOK
  <2>5. Flow' = Flow
    BY <1>1 DEF Flow
  <2>6. ~SoftBuffered(a)' /\ Streaming' /\ ~SoftSent(Flow, a)'
    BY <2>4, <2>5, GoodBuffer, GoodSame, NothingAt DEF SoftSent
  <2> QED BY <2>3, <2>6 DEF Streamed
<1> QED BY <1>4, <1>5

LEMMA HydrateKeeps ==
    ASSUME GoodStep, Hydrate, NEW a \in Assets, Live(a), NEW i \in DOMAIN run.events, run.events[i].rec = a, Keeps(i)
    PROVE  Kept(a)'
<1>0. SafeInv /\ ~stopped /\ cfg' = cfg /\ ~run'.unsafe
  BY DEF GoodStep
<1>1. PICK j \in DOMAIN run.events : /\ Turn("hydrate", j) /\ run'.at = j /\ run'.pc = run.pc
                                     /\ run'.events = [run.events EXCEPT ![j] = Hydrated(run.events[j])]
  BY <1>0, HydrateFrame
<1>2. run.pc = "hydrate" /\ i \in Nat /\ j \in Nat /\ j \in Left
  BY <1>0, <1>1, KeptEvent DEF Turn
<1>3. CASE i # j
  <2>1. run'.events[i] = run.events[i] /\ i \in DOMAIN run'.events
    BY <1>1, <1>3
  <2>2. Fresh(run.events[i]) \/ (Half(run.events[i]) /\ i > j)
    BY <1>1, <1>2, <1>3 DEF Keeps, Left, Concerns, Turn
  <2>3. Keeps(i)'
    BY <1>1, <1>2, <2>1, <2>2 DEF Keeps, Half, Fresh
  <2> QED BY <2>1, <2>3, KeptAt
<1>4. CASE i = j
  <2> DEFINE e == run.events[j]
  <2>1. e.rec = a /\ Whole(e)
    BY <1>4 DEF Live, SafeInv, ZoneOK, Whole, FamilyGone, Exists, GoodStep
  <2>2. Hydrated(e).kind = "pair" /\ Hydrated(e).rec = a /\ Hydrated(e).reason = "created"
    BY <2>1 DEF Hydrated, Event
  <2>3. run'.events[i] = Hydrated(e) /\ i \in DOMAIN run'.events
    BY <1>1, <1>4
  <2> HIDE DEF e
  <2>4. Keeps(i)'
    BY <1>1, <1>2, <2>2, <2>3 DEF Keeps, Fresh
  <2> QED BY <2>2, <2>3, <2>4, KeptAt
<1> QED BY <1>3, <1>4

LEMMA SelectKeeps ==
    ASSUME GoodStep, Select, NEW a \in Assets, NEW i \in DOMAIN run.events, run.events[i].rec = a, Keeps(i)
    PROVE  Kept(a)'
<1>0. SafeInv /\ cfg' = cfg /\ ~run'.unsafe
  BY DEF GoodStep
<1>1. PICK j \in DOMAIN run.events : /\ Turn("select", j) /\ run'.at = j /\ run'.pc = run.pc
                                     /\ \E key : run'.events = [run.events EXCEPT ![j] = [run.events[j] EXCEPT !.id = key]]
  BY <1>0, SelectFrame
<1>2. PICK key : run'.events = [run.events EXCEPT ![j] = [run.events[j] EXCEPT !.id = key]]
  BY <1>1
<1>3. run.pc = "select" /\ run.events[j] \in Events
  BY <1>0, <1>1, KeptEvent DEF Turn
<1>4. i \in DOMAIN run'.events /\ run'.events[i].rec = run.events[i].rec /\ run'.events[i].kind = run.events[i].kind
      /\ run'.events[i].reason = run.events[i].reason
  <2> DEFINE f == [run.events[j] EXCEPT !.id = key]
  <2>1. f.rec = run.events[j].rec /\ f.kind = run.events[j].kind /\ f.reason = run.events[j].reason
    BY <1>3 DEF Events
  <2>2. run'.events = [run.events EXCEPT ![j] = f]
    BY <1>2
  <2> HIDE DEF f
  <2> QED BY <2>1, <2>2
<1> QED BY <1>0, <1>1, <1>3, <1>4, KeepsNext, KeptAt

LEMMA KeptStays ==
    ASSUME GoodStep, NEW a \in Assets, Live(a), Kept(a)
    PROVE  Kept(a)' \/ Listed(a)' \/ Streamed(a)' \/ Passed(a)'
<1>0. SafeInv /\ MidStep /\ ~stopped /\ cfg' = cfg /\ ~run'.unsafe /\ run'.pc # "failed" /\ run.events \in Seq(Events)
  BY GoodTypes DEF GoodStep
<1>1. PICK i \in DOMAIN run.events : run.events[i].rec = a /\ Keeps(i)
  BY DEF Kept
<1>2. i \in Nat \ {0}
  BY <1>0, KeptEvent
<1>3. CASE CollectEvent \/ StreamEvent
  <2>1. run.pc = "read" /\ run'.pc = "read"
        /\ (run'.events = run.events \/ run'.events = Append(run.events, Head(channel)))
    BY <1>0, <1>3, CollectRun, StreamRun
  <2>2. i \in DOMAIN run'.events /\ run'.events[i] = run.events[i]
    BY <1>0, <2>1
  <2> QED BY <1>0, <1>1, <2>1, <2>2, KeepsNext, KeptAt
<1>4. CASE EndOfDelta \/ ReceiveToken
  <2>1. run'.events = run.events /\ run'.at = run.at
    BY <1>0, <1>4, PassRun
  <2>2. \/ run.pc = "read" /\ run'.pc = IF Streaming THEN "hydrate" ELSE "await"
        \/ run.pc = "await" /\ run'.pc = IF Streaming THEN "report" ELSE "map"
    BY <1>0, <1>4, PassRun DEF EndOfDelta, ReceiveToken
  <2>3. run.at = 0
    BY <1>0, <2>2 DEF SafeInv, ShapeOK
  <2>4. Keeps(i)'
    BY <1>1, <1>2, <2>1, <2>2, <2>3, GoodSame DEF Keeps, Half, Fresh
  <2> QED BY <1>1, <2>1, <2>4, KeptAt
<1>5. CASE MapPairs
  <2>1. run'.events = run.events /\ run'.at = run.at /\ run.pc = "map" /\ run'.pc = "hydrate"
    BY <1>0, <1>5, MapRun
  <2>2. run.at = 0
    BY <1>0, <2>1 DEF SafeInv, ShapeOK
  <2>3. Keeps(i)'
    BY <1>1, <1>2, <2>1, <2>2 DEF Keeps, Half, Fresh
  <2> QED BY <1>1, <2>1, <2>3, KeptAt
<1>6. CASE NextPhase
  <2>1. run'.events = run.events
    BY <1>0, <1>6, PhaseRun
  <2> QED BY <1>1, <1>6, <2>1, PhaseKeeps, KeptAt
<1>7. CASE Hydrate
  BY <1>1, <1>7, HydrateKeeps
<1>8. CASE OfferHydrated
  BY <1>1, <1>8, OfferKeeps
<1>9. CASE Select
  BY <1>1, <1>9, SelectKeeps
<1>10. CASE Route
  BY <1>1, <1>10, RouteKeeps
<1>11. CASE ScanMissing
  <2>1. run.pc = "scan" /\ run'.pc = "scan" /\ run'.events = run.events
    BY <1>0, <1>11, ScanFrame
  <2> QED BY <1>0, <1>1, <2>1, KeepsNext, KeptAt
<1>12. CASE Relate
  <2>1. run.pc = "relate" /\ run'.pc = "relate" /\ run'.events = run.events
    BY <1>0, <1>12, RelateRun
  <2> QED BY <1>0, <1>1, <2>1, KeepsNext, KeptAt
<1>13. CASE Apply
  <2>1. PICK j \in DOMAIN run.events : Turn("apply", j) /\ ~Fresh(run.events[j]) /\ run.pc = "apply" /\ run'.at = j
                                       /\ run'.pc = "apply" /\ run'.events = run.events
    BY <1>0, <1>13, ApplyRun
  <2>2. Fresh(run.events[i]) /\ i \in Left /\ i # j /\ j \in Nat
    BY <1>0, <1>1, <2>1, KeptEvent DEF Keeps, Left, Concerns
  <2>3. i > j
    BY <1>2, <2>1, <2>2 DEF Turn
  <2> QED BY <1>0, <1>1, <2>1, <2>3, KeepsNext, KeptAt
<1>14. CASE PipelineTakes
  <2>1. run'.pc = run.pc /\ run'.at = run.at /\ run'.events = run.events
    BY <1>0, <1>14, PipeFrame
  <2> QED BY <1>0, <1>1, <2>1, KeepsNext, KeptAt
<1>15. CASE LookupFails \/ ScanFails
  BY <1>0, <1>15, FailRun
<1>16. CASE PlanRow
  BY <1>1, <1>16 DEF PlanRow, Keeps
<1>17. CASE BreakAtStop
  BY <1>0, <1>17 DEF BreakAtStop
<1> QED BY <1>0, <1>3, <1>4, <1>5, <1>6, <1>7, <1>8, <1>9, <1>10, <1>11, <1>12, <1>13, <1>14, <1>15, <1>16, <1>17 DEF MidStep

(* The result of --recent is the whole delta. *)
Uncut == cfg.recent = Null \/ Len(run.ready) <= cfg.recent

LEMMA ListedAt ==
    ASSUME NEW a, NEW i, i \in DOMAIN run'.ready, run'.ready[i].asset = a,
           run'.pc \in {"scan", "relate", "apply"} \/ (run'.pc = "plan" /\ i > run'.at)
    PROVE  Listed(a)'
  BY DEF Listed

LEMMA ListedStays ==
    ASSUME GoodStep, Uncut, NEW a \in Assets, Live(a), Listed(a)
    PROVE  Listed(a)' \/ Planned(a)'
<1>0. SafeInv /\ MidStep /\ ~stopped /\ ~run'.unsafe /\ run'.pc # "failed"
  BY DEF GoodStep
<1>1. PICK i \in DOMAIN run.ready : /\ run.ready[i].asset = a
                                    /\ run.pc \in {"scan", "relate", "apply"} \/ (run.pc = "plan" /\ i > run.at)
  BY DEF Listed
<1>2. run.ready \in Seq(Photos) /\ DOMAIN run.ready = 1 .. Len(run.ready) /\ Len(run.ready) \in Nat /\ run.at \in Nat /\ i \in Nat \ {0}
  BY <1>0, GoodTypes
<1>3. ~Streaming
  BY <1>0, <1>2 DEF SafeInv, ShapeOK
<1>4. ASSUME run'.ready = run.ready, run'.pc = run.pc, run'.at = run.at \/ run.pc # "plan" PROVE Listed(a)'
  BY <1>1, <1>4, ListedAt
<1>5. CASE ScanMissing
  <2>1. PICK x : run.pc = "scan" /\ run'.pc = "scan" /\ (run'.ready = run.ready \/ run'.ready = Append(run.ready, x))
    BY <1>0, <1>5, ScanFrame
  <2>2. i \in DOMAIN run'.ready /\ run'.ready[i] = run.ready[i]
    BY <1>2, <2>1
  <2> QED BY <1>1, <2>1, <2>2, ListedAt
<1>6. CASE Route
  <2>1. PICK x : run'.pc = "apply" /\ (run'.ready = run.ready \/ run'.ready = Append(run.ready, x))
    BY <1>0, <1>6, RouteRun
  <2>2. i \in DOMAIN run'.ready /\ run'.ready[i] = run.ready[i]
    BY <1>2, <2>1
  <2> QED BY <1>1, <2>1, <2>2, ListedAt
<1>7. CASE Relate
  <2>1. run.pc = "relate" /\ run'.pc = "relate"
    BY <1>0, <1>7, RelateRun
  <2>2. run'.ready = run.ready
    BY <1>0, <1>7, <2>1, IndexFrame DEF Route, Turn
  <2> QED BY <1>4, <2>1, <2>2
<1>8. CASE Apply
  <2>1. run.pc = "apply" /\ run'.pc = "apply" /\ run'.ready = run.ready
    BY <1>0, <1>8, ApplyRun
  <2> QED BY <1>4, <2>1
<1>9. CASE NextPhase
  <2>1. run.pc = "apply" => Capped(run.ready) = run.ready
    BY <1>0, CappedSeq DEF Uncut, SafeInv
  <2>2. run'.ready = run.ready /\ run'.at = 0
        /\ \/ run.pc = "scan" /\ run'.pc = "relate"
           \/ run.pc = "relate" /\ run'.pc = "apply"
           \/ run.pc = "apply" /\ run'.pc = "plan"
    BY <1>0, <1>1, <1>2, <1>3, <1>9, <2>1, PhaseRun
  <2> QED BY <1>1, <1>2, <2>2, ListedAt
<1>10. CASE PlanRow
  <2>1. run.pc = "plan" /\ run'.pc = "plan" /\ run'.at = run.at + 1 /\ run'.ready = run.ready
    BY <1>0, <1>10, PlanFrame
  <2>2. CASE i > run.at + 1
    BY <1>1, <2>1, <2>2, ListedAt
  <2>3. CASE i = run.at + 1
    <3>1. run.ready[i] \in Elems(run.ready) /\ run.ready[i].asset = a
      BY <1>1, <1>2, ElemsAt
    <3>2. TrashOK(a, run.ready[i].trashed)
      BY <1>0, <3>1 DEF SafeInv, ReadyOK
    <3>3. ~run.ready[i].trashed
      <4>1. zone[a].at \in Nat /\ Frontier \in Nat
        BY <1>0, Types, FrontierType, Consts DEF SafeInv
      <4> QED BY <1>0, <3>2, <4>1 DEF TrashOK, Live
    <3>4. Known(db', a)
      BY <1>0, <1>10, <2>3, <3>1, <3>3, PlanEffect
    <3> QED BY <2>1, <3>4 DEF Planned
  <2> QED BY <1>1, <1>2, <2>1, <2>2, <2>3
<1>11. CASE PipelineTakes
  BY <1>0, <1>4, <1>11, PipeFrame
<1>12. CASE LookupFails \/ ScanFails
  BY <1>0, <1>12, FailRun
<1>13. CASE CollectEvent \/ StreamEvent \/ BreakAtStop \/ EndOfDelta \/ ReceiveToken \/ MapPairs
  BY <1>0, <1>1, <1>13, CollectRun, StreamRun, PassRun, MapRun
<1>14. CASE Hydrate \/ OfferHydrated \/ Select
  BY <1>1, <1>14 DEF Hydrate, OfferHydrated, Select, Turn
<1> QED BY <1>0, <1>5, <1>6, <1>7, <1>8, <1>9, <1>10, <1>11, <1>12, <1>13, <1>14 DEF MidStep

LEMMA StreamedStays ==
    ASSUME GoodStep, NEW a \in Assets, Live(a), Streamed(a)
    PROVE  Streamed(a)'
<1>0. SafeInv /\ MidStep /\ ~stopped /\ ~run'.unsafe /\ Streaming
  BY DEF GoodStep, Streamed
<1>1. zone[a].at \in Nat /\ Frontier \in Nat
  BY <1>0, Types, FrontierType, Consts DEF SafeInv
<1>2. Streaming' /\ ~SoftBuffered(a)'
  BY <1>0, GoodBuffer, GoodSame DEF Streamed
<1>3. ~SoftSent(Flow, a)'
  BY <1>0, MidFlow DEF Streamed, SoftSent, Soft
<1>4. CASE Known(db, a)
  <2>1. run.pc # "apply"
    BY <1>0 DEF SafeInv, ShapeOK
  <2>2. ASSUME channel # <<>> PROVE ~Soft(Head(channel), a)
    <3> DEFINE c == channel
               t == prod.todo
    <3>1. c \in Seq(Events) /\ t \in Seq(Events) /\ c # <<>> /\ Flow = c \o t
      BY <1>0, <2>2, Types DEF SafeInv, Flow
    <3> HIDE DEF c, t
    <3>2. Head(c) \in Elems(c \o t)
      BY <3>1, ReadLine
    <3> QED BY <3>1, <3>2 DEF c, Streamed, SoftSent
  <2>3. Known(db', a)
    BY <1>0, <1>1, <1>4, <2>1, <2>2, KnownKeeps DEF Live
  <2> QED BY <1>2, <1>3, <2>3 DEF Streamed
<1>5. CASE Piped(a)
  <2>1. PICK x \in Elems(pipe) : x.asset = a
    BY <1>5 DEF Piped
  <2>2. x \in Elems(pipe') \/ (PipelineTakes /\ pipe # <<>> /\ x = Head(pipe))
    <3> DEFINE S == [asset : Assets, trashed : BOOLEAN]
               q == pipe
    <3>1. q \in Seq(S) /\ x \in Elems(q)
      BY <1>0, <2>1, Types DEF SafeInv
    <3>2. \/ pipe' = q
          \/ PipelineTakes /\ q # <<>> /\ pipe' = Tail(q)
          \/ \E y \in S : pipe' = Append(q, y)
      BY <1>0, MidPipes
    <3> HIDE DEF S, q
    <3>3. q # <<>> => x = Head(q) \/ x \in Elems(Tail(q))
      BY <3>1, HeadTail
    <3>4. \A y \in S : x \in Elems(Append(q, y))
      BY <3>1, ElemsMore
    <3> QED BY <3>1, <3>2, <3>3, <3>4 DEF q
  <2>3. CASE x \in Elems(pipe')
    BY <1>2, <1>3, <2>1, <2>3 DEF Streamed, Piped
  <2>4. CASE PipelineTakes /\ pipe # <<>> /\ x = Head(pipe)
    <3>1. TrashOK(a, x.trashed)
      BY <1>0, <2>1 DEF SafeInv, PipeOK
    <3>2. ~x.trashed
      BY <1>0, <1>1, <3>1 DEF TrashOK, Live
    <3>3. Known(db', a)
      BY <1>0, <2>1, <2>4, <3>2, PipelineEffect
    <3> QED BY <1>2, <1>3, <3>3 DEF Streamed
  <2> QED BY <2>2, <2>3, <2>4
<1> QED BY <1>4, <1>5 DEF Streamed

LEMMA PlannedStays ==
    ASSUME GoodStep, NEW a \in Assets, Live(a)
    PROVE  (Planned(a) => Planned(a)') /\ (Passed(a) => Passed(a)')
<1>0. SafeInv /\ MidStep /\ ~stopped /\ run'.pc # "failed"
  BY DEF GoodStep
<1>1. zone[a].at \in Nat /\ Frontier \in Nat
  BY <1>0, Types, FrontierType, Consts DEF SafeInv
<1>2. ASSUME run.pc \in {"apply", "plan", "report"}
      PROVE  run'.pc = run.pc \/ run'.pc \in {"plan", "report"}
  BY <1>0, <1>2, MidPhase, PassRun, MapRun, PhaseRun
<1>3. ASSUME run.pc \in {"plan", "report"}
      PROVE  run'.pc \in {"plan", "report"}
  BY <1>2, <1>3
<1>4. ASSUME Planned(a) PROVE Planned(a)'
  <2>1. Known(db', a)
    BY <1>0, <1>1, <1>4, KnownKeeps DEF Planned, Live
  <2> QED BY <1>3, <1>4, <2>1 DEF Planned
<1>5. ASSUME Passed(a) PROVE Passed(a)'
  BY <1>2, <1>5, GoodSame DEF Passed
<1> QED BY <1>4, <1>5

(* A new membership puts an old photo on the list. *)
LEMMA AddedMissing ==
    ASSUME SafeInv, ~Doomed, cfg.album, run.pc = "select", NEW a \in Assets, Added(a)
    PROVE  a \in Missing
<1>1. zone[a].at \in Nat /\ db.token \in Nat /\ DeltaTypeOK /\ ~stopped
  BY Types, Consts DEF SafeInv, Doomed
<1>2. a \notin run.known
  BY <1>1 DEF SafeInv, RowsOK, Added
<1>3. RelAt(a)
  BY RelParts DEF Added, SafeInv
<1>4. RelLast(run.events, a, 0)
  BY <1>1, <1>3, LateLine DEF RelAt, Before, Late
<1>5. PICK i \in DOMAIN run.events : Says(run.events[i], a)
  BY <1>4 DEF RelLast
<1> QED BY <1>2, <1>5 DEF Missing, Says, RelOf, Added

LEMMA ScanAdded ==
    ASSUME GoodStep, ScanMissing, NEW a \in Assets, zone[a].st = "live", a \in run.missing
    PROVE  AddedAt(a)'
<1>0. SafeInv /\ ~run'.unsafe
  BY DEF GoodStep
<1>1. PICK b \in run.missing :
         LET item == [asset |-> b, key |-> StateKey(db, run, b), trashed |-> (zone[b].st = "trashed")]
         IN  /\ run'.pc = "scan" /\ run'.missing = run.missing \ {b}
             /\ \/ ~(Exists(b) /\ Exists(MasterOf[b]))
                \/ run'.ready = Append(run.ready, item)
  BY <1>0, ScanFrame
<1>2. CASE a # b
  BY <1>1, <1>2 DEF AddedAt
<1>3. CASE a = b
  <2> DEFINE x == [asset |-> b, key |-> StateKey(db, run, b), trashed |-> (zone[b].st = "trashed")]
  <2>1. Exists(a) /\ Exists(MasterOf[a])
    <3>1. Exists(a)
      BY DEF Exists
    <3> QED BY <1>0, <3>1 DEF SafeInv, ZoneOK
  <2>2. x.asset = a /\ run'.ready = Append(run.ready, x)
    BY <1>1, <1>3, <2>1
  <2> HIDE DEF x
  <2>3. Len(run.ready) + 1 \in DOMAIN run'.ready /\ run'.ready[Len(run.ready) + 1] = x
    BY <1>0, <2>2, GoodTypes
  <2> QED BY <1>1, <2>2, <2>3, ListedAt DEF AddedAt
<1> QED BY <1>2, <1>3

LEMMA AddedStays ==
    ASSUME GoodStep, ~Doomed, Uncut, cfg.album, NEW a \in Assets, Added(a), AddedAt(a)
    PROVE  AddedAt(a)'
<1>0. SafeInv /\ MidStep /\ ~stopped /\ run'.pc # "failed" /\ ~run'.unsafe /\ ~Streaming
  BY DEF GoodStep, Streaming
<1>1. Live(a)
  <2>1. zone[a].at \in Nat /\ Frontier \in Nat /\ db.token \in Nat /\ db.token <= Frontier
    BY <1>0, Types, FrontierType, Consts DEF SafeInv
  <2> QED BY <2>1 DEF Live, Added
<1>2. CASE run.pc \in {"read", "await", "map", "hydrate", "select"}
  <2>1. \/ run'.pc \in {"read", "await", "map", "hydrate", "select"}
        \/ run.pc = "select" /\ run'.pc = "scan" /\ run'.missing = Missing
    BY <1>0, <1>2, MidPhase, PassRun, MapRun, PhaseRun
  <2>2. run.pc = "select" => a \in Missing
    BY <1>0, AddedMissing
  <2> QED BY <2>1, <2>2 DEF AddedAt
<1>3. CASE run.pc = "scan" /\ a \in run.missing
  <2>1. CASE ScanMissing
    BY <1>3, <2>1, ScanAdded DEF Added
  <2>2. CASE LookupFails \/ ScanFails
    BY <1>0, <2>2, FailRun
  <2>3. CASE CollectEvent \/ StreamEvent \/ BreakAtStop \/ EndOfDelta \/ ReceiveToken \/ MapPairs
    BY <1>0, <1>3, <2>3, CollectRun, StreamRun, PassRun, MapRun
  <2>4. CASE NextPhase
    BY <1>0, <1>3, <2>4, PhaseRun
  <2>5. CASE Hydrate \/ OfferHydrated \/ Select \/ Relate \/ Route \/ Apply
    BY <1>3, <2>5 DEF Hydrate, OfferHydrated, Select, Relate, Route, Apply, Turn
  <2>6. CASE PlanRow
    BY <1>0, <1>3, <2>6, PlanFrame
  <2>7. CASE PipelineTakes
    BY <1>0, <2>7, PipelineEffect DEF SafeInv, ShapeOK
  <2> QED BY <1>0, <2>1, <2>2, <2>3, <2>4, <2>5, <2>6, <2>7 DEF MidStep
<1>4. CASE Listed(a)
  BY <1>1, <1>4, ListedStays DEF AddedAt
<1>5. CASE Planned(a)
  BY <1>1, <1>5, PlannedStays DEF AddedAt
<1> QED BY <1>2, <1>3, <1>4, <1>5 DEF AddedAt

LEMMA MidCover ==
    ASSUME CoverInv, Uncut, MidStep
    PROVE  CoverInv'
<1>1. SafeInv /\ SafeInv' /\ DeltaTokenSound'
  BY MidInv, MidSound DEF CoverInv
<1>2. ASSUME ~Doomed', NEW a \in Assets, Due(a)'
      PROVE  CoverAt(a)'
  <2>1. GoodStep /\ ~Doomed
    BY <1>1, <1>2, GoodOnly
  <2>2. Due(a)
    BY <1>2, <2>1, GoodSame
  <2>3. CoverAt(a) /\ Live(a)
    BY <2>1, <2>2 DEF CoverInv, CoverOK, Due, Live
  <2> QED BY <2>1, <2>3, GoodBuffer, QueuedStays, KeptStays, ListedStays, StreamedStays, PlannedStays DEF CoverAt
<1>3. ASSUME ~Doomed', cfg'.album, ~cfg'.unfiled, NEW a \in Assets, Added(a)'
      PROVE  AddedAt(a)'
  <2>1. GoodStep /\ ~Doomed
    BY <1>1, <1>3, GoodOnly
  <2>2. Added(a) /\ cfg' = cfg
    BY <1>3, <2>1, GoodSame DEF GoodStep
  <2>3. AddedAt(a)
    BY <1>3, <2>1, <2>2 DEF CoverInv, AddedOK
  <2> QED BY <1>3, <2>1, <2>2, <2>3, AddedStays
<1>4. CoverOK'
  BY <1>2 DEF CoverOK
<1>5. AddedOK'
  BY <1>3 DEF AddedOK
<1> QED BY <1>1, <1>4, <1>5 DEF CoverInv

LEMMA StutterCover ==
    ASSUME CoverInv, UNCHANGED vars
    PROVE  CoverInv'
<1>1. /\ zone' = zone /\ cfg' = cfg /\ db' = db /\ run' = run /\ prod' = prod /\ channel' = channel /\ pipe' = pipe
      /\ stopped' = stopped
  BY DEF vars
<1>2. SafeInv /\ SafeInv'
  BY StutterInv DEF CoverInv
<1>3. Flow' = Flow /\ Frontier' = Frontier
  BY <1>1 DEF Flow, Frontier
<1>4. Doomed' = Doomed
  BY <1>1, <1>3 DEF Doomed
<1>5. CoverOK'
  BY <1>1, <1>3, <1>4, SameCover
<1>6. AddedOK'
  BY <1>1, <1>3, <1>4 DEF CoverInv, AddedOK, Added, AddedAt, Listed, Planned, Window, Exists, Known
<1>7. DeltaTokenSound'
  BY <1>1, KnownSound
<1> QED BY <1>2, <1>5, <1>6, <1>7 DEF CoverInv

LEMMA NextCover ==
    ASSUME CoverInv, Uncut, [DeltaNext]_vars
    PROVE  CoverInv'
<1>1. CASE ZoneChange
  BY <1>1, ZoneCover
<1>2. CASE ProducerStep
  BY <1>2, ProducerCover
<1>3. CASE RunStep
  <2>1. StartRun \/ Backfill \/ Report \/ Fail \/ MidStep
    BY <1>3 DEF RunStep, MidStep
  <2> QED BY <2>1, StartCover, BackfillCover, ReportCover, FailCover, MidCover
<1>4. CASE Stop \/ Crash \/ ForceExit
  BY <1>4, StopCover, DeathCover
<1>5. CASE UNCHANGED vars
  BY <1>5, StutterCover
<1> QED BY <1>1, <1>2, <1>3, <1>4, <1>5 DEF DeltaNext

(* As long as --recent cuts no photo from a delta, the stored token claims    *)
(* nothing that is not on record: in every reachable state each photo that    *)
(* the configuration selects, and whose last change (with an album alone also *)
(* that of its membership) is behind the token, is downloaded or has a row    *)
(* that a later cycle retries.  This covers records of a pair on two pages,   *)
(* full channels, failed lookups and writes, stops, forced exits and crashes  *)
(* at any point.                                                              *)
THEOREM TokenSound == DeltaSpec /\ []Uncut => []DeltaTokenSound
<1>1. DeltaInit => CoverInv
  BY InitCover
<1>2. CoverInv /\ Uncut /\ [DeltaNext]_vars => CoverInv'
  BY NextCover
<1>3. CoverInv => DeltaTokenSound
  BY DEF CoverInv
<1> QED BY <1>1, <1>2, <1>3, PTL DEF DeltaSpec

LEMMA ConfigHeld ==
    ASSUME SafeInv, [DeltaNext]_vars
    PROVE  cfg' = cfg
<1>1. CASE ZoneChange
  BY <1>1, ZoneMove
<1>2. CASE ProducerStep
  BY <1>2, ProducerFrame
<1>3. CASE RunStep
  <2>1. CASE MidStep
    BY <2>1, Mid DEF MidFrame
  <2>2. CASE StartRun \/ Backfill \/ Report \/ Fail
    BY <2>2 DEF StartRun, Backfill, Report, Fail
  <2> QED BY <1>3, <2>1, <2>2 DEF RunStep, MidStep
<1>4. CASE Stop \/ Crash \/ ForceExit \/ UNCHANGED vars
  BY <1>4 DEF Stop, Crash, ForceExit, vars
<1> QED BY <1>1, <1>2, <1>3, <1>4 DEF DeltaNext

(* Without --recent nothing is assumed: with every album and unfiled choice,  *)
(* and whether the delta is streamed or collected, the stored token never     *)
(* claims a photo that is not on record.                                      *)
THEOREM TokenSoundUnlimited == DeltaSpec /\ cfg.recent = Null => []DeltaTokenSound
<1>1. SafeInv /\ cfg.recent = Null /\ [DeltaNext]_vars => (cfg.recent = Null)'
  BY ConfigHeld
<1>2. cfg.recent = Null => Uncut
  BY DEF Uncut
<1> QED BY <1>1, <1>2, Invariance, TokenSound, PTL DEF DeltaSpec
=============================================================================
