------------------------- MODULE EnumerationProofs -------------------------
(***************************************************************************)
(* The type invariant, the coverage of the token, the absence of a silent  *)
(* truncation and the names of siblings, for every index, plan, page size  *)
(* and number of changes.                                                  *)
(***************************************************************************)
EXTENDS Enumeration, FiniteSetTheorems, TLAPS

-----------------------------------------------------------------------------
(* The inductive invariant. *)

(* Asset a is at rank i of snapshot t. *)
Lists(t, i, a) == i \in DOMAIN hist[t] /\ a \in hist[t][i]

Within(me, i) == me.end = Null \/ i <= me.end
InTodo(me, a) == \E item \in me.todo : item.asset = a
Pending(me, a) == a \in me.assets \/ InTodo(me, a)

(* A task that cannot report the end of its range. *)
Broken(me) == \/ me.incomplete \/ me.limited
              \/ me.pc \in {"gone", "panicked"}
              \/ me.completion \in {"incomplete", "bound"}

(* The plan covers every rank, by ranges that do not overlap. *)
PlanInv ==
    /\ IsFiniteSet(Starts) /\ Starts # {}
    /\ \A i \in Nat \ {0} : \E f \in Starts : f < i /\ Within(fetchers[f], i)
    /\ \A f, g \in Starts : f < g => fetchers[f].end # Null /\ fetchers[f].end <= g

HistInv == hist # <<>> /\ \A t \in DOMAIN hist : WellListed(hist[t])

(* A task that has not read a page. *)
Fresh(f) ==
    LET me == fetchers[f]
    IN  /\ me.offset = f /\ me.empties = 0 /\ me.page = 0 /\ me.assets = {} /\ me.masters = {}
        /\ me.emitted = {} /\ me.todo = {} /\ me.pc # "emit"
        /\ me.pc = "loop" \/ AtEnd(me) \/ Broken(me)
        /\ \A a \in Assets : owners[a] # f

(* How far a task is, and what it has to show for it. *)
TaskInv(f) ==
    LET me == fetchers[f]
    IN  /\ me.pc \in {"loop", "emit"} => me.empties < EmptyProbes
        /\ me.completion # Null <=> me.pc = "done"
        /\ me.completion = "eof" =>
               ~me.incomplete /\ ~me.limited /\ (Cardinality(Starts) = 1 => me.assets = {})
        /\ me.completion = "bound" => me.limited
        /\ me.limited => req.limit # Null
        /\ me.pc = "gone" => Closed
        /\ (me.incomplete \/ me.completion = "incomplete") => RelayError \/ Closed
        /\ me.token # Null => me.token \in me.gens
        /\ me.gens \subseteq DOMAIN hist
        /\ me.gens = {} => Fresh(f)
        /\ \A a \in me.emitted : owners[a] # Null

(* What was claimed was sent. *)
SentInv ==
    \A a \in Assets : owners[a] # Null =>
        \/ \E item \in Seen : item.asset = a
        \/ Broken(fetchers[owners[a]])
        \/ Closed

FlowInv ==
    /\ consumer = "ended" => channel = <<>> /\ AllEnded /\ (req.album => result # <<>>)
    /\ result # <<>> => AllEnded /\ result \in {<<Null>>, <<BaseToken>>}
    /\ result = <<>> => Len(channel) <= Capacity

(* A task holds only records of its own ranks and of the page that reaches over its end. *)
Bounds(f, t) ==
    \A i \in Nat, a \in Assets :
        (/\ Lists(t, i, a)
         /\ owners[a] = f \/ a \in fetchers[f].emitted \/ Pending(fetchers[f], a)) =>
            f < i /\ (fetchers[f].end = Null \/ i < fetchers[f].end + PageSize)

(* Between two pages: every asset up to the offset is claimed or waits for its  *)
(* master, and none that lies behind b was emitted, where b is as many ranks    *)
(* behind the next page's end as pages went by without an emission.             *)
LoopTrail(f, t) ==
    LET me == fetchers[f]
    IN  \E b \in Nat :
          /\ f + PageSize <= b + 1 /\ b + me.empties + 1 <= me.offset + PageSize
          /\ \A i \in Nat, a \in Assets : Lists(t, i, a) =>
                /\ f < i /\ i <= me.offset => owners[a] # Null \/ a \in me.assets
                /\ a \in me.assets => i <= me.offset + PageSize
                /\ b < i /\ Within(me, i) => /\ owners[a] # f /\ a \notin me.emitted
                                             /\ i <= me.offset => a \in me.assets

(* Within a page that was read at offset o. *)
EmitTrail(f, t) ==
    LET me == fetchers[f]
    IN  \E b, o \in Nat :
          /\ f + PageSize <= b + 1 /\ b + me.empties + 1 <= o + PageSize
          /\ f <= o /\ o < me.offset /\ me.offset <= o + PageSize
          /\ \A i \in Nat, a \in Assets : Lists(t, i, a) =>
                /\ f < i /\ i <= o + PageSize => owners[a] # Null \/ Pending(me, a)
                /\ Pending(me, a) => i <= o + PageSize
                /\ Within(me, i) /\ (i > o + PageSize \/ (me.page = 0 /\ b < i)) =>
                       owners[a] # f /\ a \notin me.emitted
                /\ Within(me, i) /\ me.page = 0 /\ b < i /\ i <= o + PageSize => Pending(me, a)

(* At the end of the range nothing is left, unless a half waits for the other. *)
EndTrail(f, t) ==
    fetchers[f].assets = {} =>
        \A i \in Nat, a \in Assets :
            Lists(t, i, a) /\ f < i /\ Within(fetchers[f], i) => owners[a] # Null

Trail(f, t) ==
    /\ Bounds(f, t)
    /\ Whole(hist[t]) => fetchers[f].assets = {}
    /\ ~Broken(fetchers[f]) =>
          /\ fetchers[f].pc = "loop" => LoopTrail(f, t)
          /\ fetchers[f].pc = "emit" => EmitTrail(f, t)
          /\ fetchers[f].pc \in {"finish", "done"} => EndTrail(f, t)

Coherent(t) == \A f \in Starts : fetchers[f].gens \subseteq {t}
TrailInv == \A t \in DOMAIN hist : Coherent(t) => \A f \in Starts : Trail(f, t)

(* The name of an asset is its own, or its master's at whose rank it is. *)
GoodName(item) ==
    \/ item.id = item.asset
    \/ /\ item.asset \in Assets /\ item.id = MasterOf[item.asset]
       /\ \E i \in DOMAIN index : {item.asset, item.id} \subseteq index[i]

NameInv ==
    (Len(hist) = 1 /\ FamiliesLed(index)) =>
        /\ \A f \in Starts :
              /\ fetchers[f].masters = {}
              /\ \A item \in fetchers[f].todo : GoodName(item)
              /\ \A a \in fetchers[f].assets : \A i \in DOMAIN index :
                     MasterOf[a] \in index[i] => i <= fetchers[f].offset
        /\ \A item \in Seen : GoodName(item)

(* What a pass over one snapshot holds is in it. *)
ListedInv ==
    Len(hist) = 1 =>
        \A f \in Starts :
          /\ fetchers[f].masters \cup fetchers[f].assets \cup fetchers[f].paired \subseteq Listed
          /\ fetchers[f].emitted \subseteq Downloadable(index)
          /\ \A item \in fetchers[f].todo : item.asset \in Downloadable(index)
          /\ Cardinality(Starts) = 1 =>
                 fetchers[f].role # "data" /\ fetchers[f].sent <= Cardinality(fetchers[f].emitted)

ForeignInv ==
    (/\ result # <<>> /\ result # <<Null>> /\ ~Closed
     /\ req.album /\ req.limit = Null /\ Len(hist) = 1 /\ Cardinality(Starts) = 1
     /\ req.count = Cardinality(Downloadable(index) \cup Foreign)) =>
        \A x \in Foreign : \E item \in Seen : item.asset = x

EnumInv ==
    /\ EnumTypeOK /\ PlanInv /\ HistInv
    /\ \A f \in Starts : TaskInv(f)
    /\ SentInv /\ FlowInv /\ TrailInv /\ NameInv /\ ListedInv /\ ForeignInv

-----------------------------------------------------------------------------
(* Arithmetic of the plan. *)

LEMMA DivBounds ==
    ASSUME NEW a \in Nat, NEW b \in Nat \ {0}
    PROVE  /\ a \div b \in Nat
           /\ b * (a \div b) <= a /\ a < b * (a \div b) + b
<1>1. /\ a \div b \in Int /\ a % b \in 0 .. b - 1 /\ a = b * (a \div b) + (a % b)
  BY SMT
<1>2. a \div b >= 0
  BY SMT
<1> QED BY <1>1, <1>2

LEMMA MulMono ==
    ASSUME NEW i \in Nat, NEW j \in Nat, NEW c \in Nat, i <= j
    PROVE  i * c \in Nat /\ j * c \in Nat /\ i * c <= j * c
<1>1. PICK d \in Nat : j = i + d
  <2>1. j - i \in Nat /\ j = i + (j - i)
    OBVIOUS
  <2> QED BY <2>1
<1> QED BY <1>1, SMT

LEMMA CeilDivBounds ==
    ASSUME NEW a \in Nat, NEW b \in Nat \ {0}
    PROVE  /\ CeilDiv(a, b) \in Nat
           /\ a <= CeilDiv(a, b) * b /\ (a > 0 => CeilDiv(a, b) > 0)
<1>1. a + b - 1 \in Nat /\ CeilDiv(a, b) = (a + b - 1) \div b
  BY DEF CeilDiv
<1> DEFINE q == (a + b - 1) \div b
<1>3. q \in Nat /\ b * q <= a + b - 1 /\ a + b - 1 < b * q + b
  BY <1>1, DivBounds
<1> HIDE DEF q
<1>4. b * q \in Nat /\ b * q = q * b
  BY <1>3
<1>5. a <= q * b
  BY <1>3, <1>4
<1>6. a > 0 => q > 0
  BY <1>3, <1>5
<1> QED BY <1>1, <1>3, <1>5, <1>6 DEF q

(* What build_enumeration_plan promises: ranges that start apart, cover every *)
(* rank and do not overlap.                                                   *)
GoodPlan(plan) ==
    /\ \A r \in plan : /\ r.start \in Nat /\ r.end \in Nat \cup {Null}
                       /\ r.role \in {"data", "tail", "probe"}
                       /\ r.role = "data" => \E s \in plan : s.start # r.start
    /\ \A r, s \in plan : r.start = s.start => r = s
    /\ \A r, s \in plan : r.start < s.start => r.end # Null /\ r.end <= s.start
    /\ \A i \in Nat \ {0} : \E r \in plan : r.start < i /\ (r.end = Null \/ i <= r.end)
    /\ IsFiniteSet({r.start : r \in plan})

LEMMA SingleIsGood ==
    ASSUME NEW role \in {"tail", "probe"}
    PROVE  GoodPlan(SingleRange(role))
<1> DEFINE r0 == [start |-> 0, end |-> Null, role |-> role]
<1>1. /\ SingleRange(role) = {r0} /\ r0.start = 0 /\ r0.end = Null /\ r0.role = role
      /\ {r.start : r \in {r0}} = {0}
  BY DEF SingleRange
<1> HIDE DEF r0
<1>2. IsFiniteSet({0})
  BY FS_Singleton
<1>3. Null \notin Nat
  BY RecordsAssumption
<1> QED BY <1>1, <1>2, <1>3 DEF GoodPlan

LEMMA CountedIsGood ==
    ASSUME NEW total \in Nat, NEW concurrency \in Nat, concurrency > 1
    PROVE  GoodPlan(CountedRanges(total, concurrency))
<1>0. PageSize \in Nat \ {0} /\ Null \notin Nat
  BY EnumAssumption, RecordsAssumption
<1> DEFINE pages == CeilDiv(total, PageSize)
           number == IF total > 0 THEN AtMost(pages, 2 * concurrency) ELSE 1
           share == CeilDiv(total, number)
           chunk == CeilDiv(share, PageSize) * PageSize
           Js == {j \in 0 .. number - 1 : j * chunk < total}
           D(i) == [start |-> i * chunk, end |-> AtMost((i + 1) * chunk, total), role |-> "data"]
           tl == [start |-> total, end |-> Null, role |-> "tail"]
           plan == {D(i) : i \in Js} \cup {tl}
<1>1. plan = CountedRanges(total, concurrency)
  BY DEF CountedRanges
<1>2. pages \in Nat /\ (total > 0 => pages > 0)
  BY <1>0, CeilDivBounds
<1>3. number \in Nat \ {0}
  BY <1>2 DEF AtMost
<1>4. share \in Nat /\ total <= share * number /\ (total > 0 => share > 0)
  <2> HIDE DEF number
  <2> QED BY <1>3, CeilDivBounds
<1>5. CeilDiv(share, PageSize) \in Nat /\ chunk \in Nat /\ share <= chunk
  <2> HIDE DEF share
  <2>1. CeilDiv(share, PageSize) \in Nat /\ share <= chunk
    BY <1>0, <1>4, CeilDivBounds
  <2> QED BY <2>1, <1>0
<1> HIDE DEF number, share, chunk
<1>6. total <= number * chunk
  <2>1. share * number <= chunk * number
    BY <1>3, <1>4, <1>5, MulMono
  <2>2. share * number \in Nat /\ chunk * number \in Nat /\ chunk * number = number * chunk
    BY <1>3, <1>4, <1>5
  <2> QED BY <2>1, <2>2, <1>4
<1>7. \A i \in Js : /\ i \in Nat /\ i * chunk \in Nat /\ (i + 1) * chunk \in Nat
                    /\ i * chunk < total /\ i * chunk < (i + 1) * chunk
  <2> TAKE i \in Js
  <2>1. i \in Nat /\ i * chunk < total /\ i * chunk \in Nat /\ (i + 1) * chunk = i * chunk + chunk
    BY <1>3, <1>5
  <2>2. chunk > 0
    BY <2>1, <1>4, <1>5
  <2> QED BY <2>1, <2>2, <1>5
<1>8. \A i \in Js : /\ D(i).start = i * chunk /\ D(i).end = AtMost((i + 1) * chunk, total)
                    /\ D(i).role = "data" /\ D(i).end \in Nat /\ D(i).end <= total
                    /\ D(i).end <= (i + 1) * chunk
  BY <1>7 DEF AtMost
<1>9. tl.start = total /\ tl.end = Null /\ tl.role = "tail"
  OBVIOUS
<1>10. \A i, j \in Js : i < j => (i + 1) * chunk <= j * chunk
  <2> SUFFICES ASSUME NEW i \in Js, NEW j \in Js, i < j PROVE (i + 1) * chunk <= j * chunk
    OBVIOUS
  <2>1. i + 1 \in Nat /\ j \in Nat /\ i + 1 <= j
    BY <1>7
  <2> QED BY <2>1, <1>5, MulMono
<1>11. \A i, j \in Js : D(i).start = D(j).start => i = j
  BY <1>7, <1>8, <1>10
<1>12. \A i \in Nat \ {0} : \E r \in plan : r.start < i /\ (r.end = Null \/ i <= r.end)
  <2> TAKE i \in Nat \ {0}
  <2>1. CASE i > total
    BY <2>1, <1>9
  <2>2. CASE i <= total
    <3>0. chunk \in Nat \ {0} /\ i - 1 \in Nat
      BY <2>2, <1>4, <1>5
    <3> DEFINE j == (i - 1) \div chunk
    <3>1. j \in Nat /\ chunk * j <= i - 1 /\ i - 1 < chunk * j + chunk
      BY <3>0, DivBounds
    <3> HIDE DEF j
    <3>2. j * chunk = chunk * j /\ j * chunk \in Nat /\ (j + 1) * chunk = j * chunk + chunk
      BY <3>0, <3>1
    <3>3. j * chunk < i /\ i <= (j + 1) * chunk /\ (j + 1) * chunk \in Nat
      BY <3>0, <3>1, <3>2
    <3>4. j < number
      <4> SUFFICES ASSUME number <= j PROVE FALSE
        BY <3>1, <1>3
      <4>1. number * chunk <= j * chunk /\ number * chunk \in Nat
        BY <3>0, <3>1, <1>3, MulMono
      <4> QED BY <4>1, <3>1, <3>2, <3>3, <1>6, <2>2
    <3>5. j \in Js
      BY <3>1, <3>2, <3>3, <3>4, <1>3, <2>2
    <3>6. i <= D(j).end
      BY <3>3, <3>5, <1>8, <2>2 DEF AtMost
    <3> QED BY <3>3, <3>5, <3>6, <1>8
  <2> QED BY <2>1, <2>2
<1>13. IsFiniteSet({r.start : r \in plan})
  <2>1. {r.start : r \in plan} \subseteq 0 .. total
    BY <1>7, <1>8, <1>9
  <2>2. IsFiniteSet(0 .. total)
    BY FS_Interval
  <2> QED BY <2>1, <2>2, FS_Subset
<1>14. \A r, s \in plan : r.start = s.start => r = s
  BY <1>7, <1>8, <1>9, <1>11
<1>15. \A r, s \in plan : r.start < s.start => r.end # Null /\ r.end <= s.start
  <2> SUFFICES ASSUME NEW r \in plan, NEW s \in plan, r.start < s.start
               PROVE  r.end # Null /\ r.end <= s.start
    OBVIOUS
  <2>1. CASE r = tl
    BY <2>1, <1>7, <1>8, <1>9
  <2>2. ASSUME NEW i \in Js, r = D(i), s = tl PROVE r.end # Null /\ r.end <= s.start
    BY <2>2, <1>8, <1>9, <1>0
  <2>3. ASSUME NEW i \in Js, r = D(i), NEW j \in Js, s = D(j) PROVE r.end # Null /\ r.end <= s.start
    <3>1. i < j
      <4> SUFFICES ASSUME j <= i PROVE FALSE
        BY <1>7
      <4>1. j * chunk <= i * chunk
        BY <1>5, <1>7, MulMono
      <4> QED BY <4>1, <2>3, <1>7, <1>8
    <3>2. (i + 1) * chunk <= j * chunk
      BY <3>1, <1>10
    <3> QED BY <3>2, <2>3, <1>0, <1>7, <1>8
  <2> QED BY <2>1, <2>2, <2>3
<1>16. \A r \in plan : /\ r.start \in Nat /\ r.end \in Nat \cup {Null}
                       /\ r.role \in {"data", "tail", "probe"}
                       /\ r.role = "data" => \E s \in plan : s.start # r.start
  <2>1. ASSUME NEW i \in Js PROVE tl.start # D(i).start
    BY <1>7, <1>8, <1>9
  <2>2. tl \in plan
    OBVIOUS
  <2> QED BY <2>1, <2>2, <1>7, <1>8, <1>9
<1> HIDE DEF plan
<1> QED BY <1>1, <1>12, <1>13, <1>14, <1>15, <1>16 DEF GoodPlan

LEMMA PlanIsGood == ASSUME NEW r \in Requests PROVE GoodPlan(Plan(r))
<1>1. /\ r.limit \in Nat \cup {Null} /\ r.count \in Nat \cup {Null} /\ r.concurrency \in Nat
  BY EnumAssumption
<1>2. CASE r.limit # Null
  BY <1>2, SingleIsGood DEF Plan
<1>3. CASE r.limit = Null /\ (r.count = Null \/ r.concurrency <= 1)
  BY <1>3, SingleIsGood DEF Plan
<1>4. CASE r.limit = Null /\ r.count # Null /\ ~(r.concurrency <= 1)
  <2>1. Plan(r) = CountedRanges(r.count, r.concurrency)
    BY <1>4 DEF Plan
  <2> QED BY <2>1, <1>1, <1>4, CountedIsGood
<1> QED BY <1>2, <1>3, <1>4

-----------------------------------------------------------------------------
(* The first state. *)

LEMMA RangeOfAppend ==
    ASSUME NEW S, NEW s \in Seq(S), NEW x \in S
    PROVE  /\ Range(Append(s, x)) = Range(s) \cup {x}
           /\ Append(s, x) \in Seq(S) /\ Len(Append(s, x)) = Len(s) + 1
<1>1. /\ Append(s, x) \in Seq(S) /\ Len(Append(s, x)) = Len(s) + 1
      /\ DOMAIN Append(s, x) = 1 .. Len(s) + 1 /\ DOMAIN s = 1 .. Len(s) /\ Len(s) \in Nat
      /\ \A i \in 1 .. Len(s) : Append(s, x)[i] = s[i]
      /\ Append(s, x)[Len(s) + 1] = x
  OBVIOUS
<1> DEFINE u == Append(s, x)
<1> HIDE DEF u
<1>2. Range(u) \subseteq Range(s) \cup {x}
  BY <1>1 DEF Range, u
<1>3. Range(s) \cup {x} \subseteq Range(u)
  BY <1>1 DEF Range, u
<1> QED BY <1>1, <1>2, <1>3 DEF u

LEMMA InitInv == EnumInit => EnumInv
<1> SUFFICES ASSUME EnumInit PROVE EnumInv
  OBVIOUS
<1> USE DEF EnumInit
<1> DEFINE plan == Plan(req)
           R(s) == CHOOSE r \in plan : r.start = s
<1>0. /\ req \in Requests /\ faults \in FaultSets
      /\ PageSize \in Nat \ {0} /\ EmptyProbes \in Nat \ {0} /\ PairBuffer \in Nat \ {0}
      /\ req.limit \in Nat \cup {Null} /\ req.count \in Nat \cup {Null}
      /\ Null \notin Nat /\ Null \notin Ids \cup Foreign
      /\ Null \notin {"incomplete", "bound", "eof"} /\ IsFiniteSet(Foreign)
  BY EnumAssumption, RecordsAssumption
<1>1. GoodPlan(plan)
  BY PlanIsGood
<1>2. PICK idx \in Layouts : hist = <<idx>>
  OBVIOUS
<1>3. WellListed(idx) /\ idx \in Seq(SUBSET Ids)
  BY EnumAssumption DEF WellListed
<1>4. hist \in Seq(Seq(SUBSET Ids)) /\ Len(hist) = 1 /\ DOMAIN hist = {1} /\ hist[1] = idx /\ index = idx
  BY <1>2, <1>3 DEF index
<1> HIDE DEF plan
<1>5. Starts = {r.start : r \in plan}
  BY DEF Starts, plan
<1>6. \A s \in Starts : R(s) \in plan /\ R(s).start = s /\ fetchers[s] = Fetcher(R(s))
  BY <1>5 DEF Starts, plan
<1>7. \A s \in Starts :
         LET me == fetchers[s]
         IN  /\ me.pc = "loop" /\ me.offset = s /\ me.end = R(s).end /\ me.role = R(s).role
             /\ me.masters = {} /\ me.assets = {} /\ me.paired = {} /\ me.emitted = {} /\ me.todo = {}
             /\ me.sent = 0 /\ me.page = 0 /\ me.empties = 0 /\ me.token = Null
             /\ me.incomplete = FALSE /\ me.limited = FALSE /\ me.completion = Null /\ me.gens = {}
             /\ me.offset \in Nat /\ me \in Fetching
  <2> TAKE s \in Starts
  <2>1. R(s) \in plan /\ R(s).start = s /\ R(s).start \in Nat /\ R(s).end \in Nat \cup {Null}
        /\ R(s).role \in {"data", "tail", "probe"}
    BY <1>1, <1>6 DEF GoodPlan
  <2>2. fetchers[s] = Fetcher(R(s))
    BY <1>6
  <2> HIDE DEF R, EnumInit
  <2>3. Fetcher(R(s)) \in Fetching
    BY <2>1, <1>0 DEF Fetcher, Fetching
  <2> QED BY <2>1, <2>2, <2>3 DEF Fetcher
<1>8. Starts \subseteq Nat /\ IsFiniteSet(Starts) /\ Starts # {} /\ Cardinality(Starts) \in Nat
  <2>1. Starts \subseteq Nat /\ IsFiniteSet(Starts)
    BY <1>1, <1>5 DEF GoodPlan
  <2>2. \E r \in plan : r.start < 1
    BY <1>1 DEF GoodPlan
  <2> QED BY <2>1, <2>2, <1>5, FS_CardinalityType
<1>9. Cardinality({}) = 0
  BY FS_EmptySet
<1>10. /\ owners = [a \in Assets |-> Null] /\ channel = <<>> /\ got = {} /\ errors = FALSE
       /\ consumer = "reading" /\ suppressed \in BOOLEAN /\ result = <<>>
  OBVIOUS
<1>11. Capacity \in Nat /\ Cardinality(Foreign) \in Nat
  BY <1>0, <1>8, FS_CardinalityType DEF Capacity
<1>12. Range(channel) = {} /\ Seen = {}
  <2>1. DOMAIN channel = {}
    BY <1>10
  <2> QED BY <2>1, <1>10 DEF Range, Seen
<1>13. EnumTypeOK
  <2>1. fetchers \in [Starts -> Fetching]
    <3>1. fetchers = [s \in Starts |-> fetchers[s]]
      BY <1>5 DEF Starts
    <3> QED BY <3>1, <1>7
  <2>2. \A f \in Starts :
          LET me == fetchers[f]
          IN  /\ me.offset >= f /\ me.token \in DOMAIN hist \cup {Null}
              /\ Cardinality(me.paired) <= PairBuffer
              /\ me.pc = "loop" => Unpaired(me) <= PairBuffer
    <3> HIDE DEF EnumInit
    <3> TAKE f \in Starts
    <3>1. /\ fetchers[f].offset = f /\ f \in Nat /\ fetchers[f].token = Null
          /\ fetchers[f].paired = {} /\ fetchers[f].masters = {} /\ fetchers[f].assets = {}
      BY <1>7, <1>8
    <3> QED BY <3>1, <1>0, <1>9 DEF Unpaired
  <2>3. Len(channel) <= Capacity + Cardinality(Foreign) + 1 /\ channel \in Seq(Item)
    BY <1>10, <1>11
  <2> HIDE DEF EnumInit
  <2> QED BY <2>1, <2>2, <2>3, <1>0, <1>4, <1>8, <1>10 DEF EnumTypeOK
<1> HIDE DEF EnumInit
<1>14. PlanInv
  <2>1. \A i \in Nat \ {0} : \E f \in Starts : f < i /\ Within(fetchers[f], i)
    <3> TAKE i \in Nat \ {0}
    <3>1. PICK r \in plan : r.start < i /\ (r.end = Null \/ i <= r.end)
      BY <1>1 DEF GoodPlan
    <3>2. r.start \in Starts /\ R(r.start) = r
      <4>1. r.start \in Starts
        BY <1>5
      <4>2. R(r.start) \in plan /\ R(r.start).start = r.start
        BY <4>1, <1>6
      <4> HIDE DEF R
      <4> QED BY <4>1, <4>2, <1>1 DEF GoodPlan
    <3> HIDE DEF R
    <3> QED BY <3>1, <3>2, <1>7 DEF Within
  <2>2. \A f, g \in Starts : f < g => fetchers[f].end # Null /\ fetchers[f].end <= g
    <3> HIDE DEF R
    <3> QED BY <1>1, <1>6, <1>7 DEF GoodPlan
  <2> QED BY <2>1, <2>2, <1>8 DEF PlanInv
<1>15. HistInv
  BY <1>2, <1>3, <1>4 DEF HistInv
<1>16. ASSUME NEW f \in Starts PROVE TaskInv(f)
  BY <1>0, <1>7, <1>8, <1>10 DEF TaskInv, Fresh
<1>17. SentInv /\ FlowInv /\ ForeignInv
  BY <1>10, <1>11 DEF SentInv, FlowInv, ForeignInv
<1>18. TrailInv
  <2> SUFFICES ASSUME NEW t \in DOMAIN hist, NEW f \in Starts PROVE Trail(f, t)
    BY DEF TrailInv
  <2> DEFINE me == fetchers[f]
  <2>1. /\ me.pc = "loop" /\ me.offset = f /\ me.assets = {} /\ me.emitted = {} /\ me.todo = {}
        /\ me.empties = 0 /\ f \in Nat /\ PageSize \in Nat \ {0} /\ \A a \in Assets : owners[a] # f
    BY <1>0, <1>7, <1>8, <1>10
  <2> HIDE DEF me
  <2>2. Bounds(f, t)
    BY <2>1 DEF Bounds, Pending, InTodo, me
  <2>3. LoopTrail(f, t)
    <3>1. f + PageSize - 1 \in Nat
      BY <2>1
    <3>2. /\ f + PageSize <= (f + PageSize - 1) + 1
          /\ (f + PageSize - 1) + me.empties + 1 <= me.offset + PageSize
      BY <2>1
    <3>3. \A i \in Nat, a \in Assets :
            /\ ~(f < i /\ i <= me.offset) /\ a \notin me.assets
            /\ owners[a] # f /\ a \notin me.emitted
            /\ ~(f + PageSize - 1 < i /\ i <= me.offset)
      BY <2>1
    <3> QED BY <3>1, <3>2, <3>3 DEF LoopTrail, me
  <2> QED BY <2>1, <2>2, <2>3 DEF Trail, me
<1>19. NameInv
  BY <1>7, <1>12 DEF NameInv
<1>20. ListedInv
  <2>1. ASSUME Cardinality(Starts) = 1, NEW f \in Starts, fetchers[f].role = "data" PROVE FALSE
    <3>1. PICK x : Starts = {x}
      BY <2>1, <1>8, FS_Singleton
    <3>2. R(f) \in plan /\ R(f).role = "data" /\ R(f).start = f
      BY <2>1, <1>6, <1>7
    <3> HIDE DEF R
    <3>3. PICK s \in plan : s.start # f
      BY <3>2, <1>1 DEF GoodPlan
    <3> QED BY <3>1, <3>2, <3>3, <1>5
  <2>2. \A f \in Starts :
          /\ fetchers[f].masters = {} /\ fetchers[f].assets = {} /\ fetchers[f].paired = {}
          /\ fetchers[f].emitted = {} /\ fetchers[f].todo = {} /\ fetchers[f].sent = 0
    BY <1>7
  <2>3. 0 <= Cardinality({})
    BY <1>9
  <2> QED BY <2>1, <2>2, <2>3 DEF ListedInv
<1> QED BY <1>13, <1>14, <1>15, <1>16, <1>17, <1>18, <1>19, <1>20 DEF EnumInv

-----------------------------------------------------------------------------
(* Pages and pairs. *)

LEMMA IndexFacts ==
    ASSUME EnumTypeOK, HistInv
    PROVE  /\ Len(hist) \in DOMAIN hist /\ Len(hist) \in Nat /\ DOMAIN hist \subseteq Nat
           /\ index = hist[Len(hist)] /\ WellListed(index)
           /\ index \in Seq(SUBSET Ids) /\ DOMAIN index \subseteq Nat \ {0}
<1>1. hist \in Seq(Seq(SUBSET Ids)) /\ hist # <<>>
  BY DEF EnumTypeOK, HistInv
<1>2. Len(hist) \in Nat /\ DOMAIN hist = 1 .. Len(hist) /\ Len(hist) > 0
  BY <1>1
<1>3. WellListed(index) /\ index = hist[Len(hist)]
  BY <1>2 DEF HistInv, index
<1>4. index \in Seq(SUBSET Ids)
  BY <1>3 DEF WellListed
<1> QED BY <1>2, <1>3, <1>4

LEMMA PageFacts ==
    ASSUME EnumTypeOK, HistInv, NEW o \in Nat
    PROVE  /\ Page(o) \subseteq Ids /\ IsFiniteSet(Page(o))
           /\ \A r : r \in Page(o) <=>
                  \E i \in DOMAIN index : o < i /\ i <= o + PageSize /\ r \in index[i]
<1>1. PageSize \in Nat /\ index \in Seq(SUBSET Ids) /\ DOMAIN index \subseteq Nat \ {0}
      /\ IsFiniteSet(Assets) /\ IsFiniteSet(Masters)
  BY IndexFacts, EnumAssumption, RecordsAssumption
<1>2. \A r : r \in Page(o) <=>
                  \E i \in DOMAIN index : o < i /\ i <= o + PageSize /\ r \in index[i]
  BY <1>1 DEF Page
<1>3. Page(o) \subseteq Ids
  BY <1>1, <1>2
<1>4. IsFiniteSet(Ids)
  BY <1>1, FS_Union DEF Ids
<1> QED BY <1>2, <1>3, <1>4, FS_Subset

(* A page holds at most one record of a kind per rank. *)
LEMMA PageOfAKind ==
    ASSUME EnumTypeOK, HistInv, NEW o \in Nat,
           NEW S, S \subseteq Page(o), S \subseteq Assets \/ S \subseteq Masters
    PROVE  IsFiniteSet(S) /\ Cardinality(S) \in Nat /\ Cardinality(S) <= PageSize
<1>1. PageSize \in Nat \ {0} /\ WellListed(index) /\ DOMAIN index \subseteq Nat \ {0}
      /\ Assets \cap Masters = {}
  BY IndexFacts, EnumAssumption, RecordsAssumption
<1> DEFINE T == o + 1 .. o + PageSize
           rank == [r \in S |-> CHOOSE i \in DOMAIN index : i \in T /\ r \in index[i]]
<1>2. \A r \in S : rank[r] \in DOMAIN index /\ rank[r] \in T /\ r \in index[rank[r]]
  <2> TAKE r \in S
  <2>1. \E i \in DOMAIN index : i \in T /\ r \in index[i]
    BY <1>1, PageFacts
  <2> QED BY <2>1
<1> HIDE DEF rank
<1>3. rank \in [S -> T]
  BY <1>2 DEF rank
<1>4. \A r, s \in S : rank[r] = rank[s] => r = s
  <2> SUFFICES ASSUME NEW r \in S, NEW s \in S, rank[r] = rank[s], r # s PROVE FALSE
    OBVIOUS
  <2>1. r \in Assets <=> s \in Masters
    BY <1>1, <1>2 DEF WellListed
  <2> QED BY <2>1, <1>1
<1>5. rank \in Injection(S, T)
  BY <1>3, <1>4 DEF Injection, IsInjective
<1>6. IsFiniteSet(T) /\ Cardinality(T) = PageSize
  BY <1>1, FS_Interval
<1> QED BY <1>5, <1>6, FS_Injection, FS_CardinalityType

LEMMA AdvanceBounds ==
    ASSUME EnumTypeOK, HistInv, NEW o \in Nat, Page(o) # {}
    PROVE  Advance(Page(o) \cap Masters, Page(o) \cap Assets) \in 1 .. PageSize
<1> DEFINE pm == Page(o) \cap Masters
           pa == Page(o) \cap Assets
<1>1. /\ IsFiniteSet(pm) /\ Cardinality(pm) \in Nat /\ Cardinality(pm) <= PageSize
      /\ IsFiniteSet(pa) /\ Cardinality(pa) \in Nat /\ Cardinality(pa) <= PageSize
      /\ PageSize \in Nat \ {0}
  BY PageOfAKind, EnumAssumption
<1>2. /\ pm # {} => Cardinality(pm) > 0
      /\ pa # {} => Cardinality(pa) > 0
  BY <1>1, FS_EmptySet
<1> HIDE DEF pm, pa
<1>3. Advance(pm, pa) \in 1 .. PageSize
  BY <1>1, <1>2 DEF Advance
<1> QED BY <1>3 DEF pm, pa

LEMMA NamedItems ==
    ASSUME NEW w, NEW fresh, NEW m
    PROVE  /\ \A x \in Named(w, fresh, m) : /\ x \in [asset : w \cup fresh, id : {m} \cup w \cup fresh]
                                            /\ x.id \in {m, x.asset}
           /\ \A a \in w \cup fresh : \E x \in Named(w, fresh, m) : x.asset = a
           /\ \A x \in LateNamed(w, fresh, m) : /\ x \in [asset : w \cup fresh, id : w \cup fresh]
                                                /\ x.id = x.asset
           /\ \A a \in w \cup fresh : \E x \in LateNamed(w, fresh, m) : x.asset = a
<1> DEFINE first == Earliest(IF w # {} THEN w ELSE fresh)
           I(a) == [asset |-> a, id |-> IF a = first THEN m ELSE a]
           J(a) == [asset |-> a, id |-> a]
<1>1. Named(w, fresh, m) = {I(a) : a \in w \cup fresh} /\ LateNamed(w, fresh, m) = {J(a) : a \in w \cup fresh}
  BY DEF Named, LateNamed
<1> HIDE DEF first
<1>2. \A a \in w \cup fresh : /\ I(a) \in [asset : w \cup fresh, id : {m} \cup w \cup fresh]
                              /\ I(a).asset = a /\ I(a).id \in {m, a}
                              /\ J(a) \in [asset : w \cup fresh, id : w \cup fresh]
                              /\ J(a).asset = a /\ J(a).id = a
  OBVIOUS
<1> HIDE DEF I, J
<1> QED BY <1>1, <1>2

LEMMA NamedFresh ==
    ASSUME NEW fresh, NEW m
    PROVE  /\ \A x \in Named({}, fresh, m) : /\ x \in [asset : fresh, id : {m} \cup fresh]
                                             /\ x.id \in {m, x.asset}
           /\ \A a \in fresh : \E x \in Named({}, fresh, m) : x.asset = a
           /\ \A x \in LateNamed({}, fresh, m) : x \in [asset : fresh, id : fresh] /\ x.id = x.asset
           /\ \A a \in fresh : \E x \in LateNamed({}, fresh, m) : x.asset = a
<1> DEFINE w == {}
<1>1. w \cup fresh = fresh /\ {m} \cup w \cup fresh = {m} \cup fresh
  OBVIOUS
<1> HIDE DEF w
<1>2. /\ \A x \in Named(w, fresh, m) : /\ x \in [asset : fresh, id : {m} \cup fresh]
                                       /\ x.id \in {m, x.asset}
      /\ \A a \in fresh : \E x \in Named(w, fresh, m) : x.asset = a
      /\ \A x \in LateNamed(w, fresh, m) : x \in [asset : fresh, id : fresh] /\ x.id = x.asset
      /\ \A a \in fresh : \E x \in LateNamed(w, fresh, m) : x.asset = a
  BY <1>1, NamedItems
<1> QED BY <1>2 DEF w

(* The records of a page and the assets that waited are pending after it, no  *)
(* others, and what is to be emitted has met its master.                      *)
PairedWell(me, records, cache, later, new) ==
    /\ new \in Fetching /\ new.pc = "emit" /\ new.page = 0 /\ new.paired = later
    /\ new.offset = me.offset + Advance(records \cap Masters, records \cap Assets)
    /\ new.end = me.end /\ new.role = me.role /\ new.emitted = me.emitted
    /\ new.sent = me.sent /\ new.empties = me.empties /\ new.token = me.token
    /\ new.incomplete = me.incomplete /\ new.limited = me.limited
    /\ new.completion = me.completion /\ new.gens = me.gens
    /\ \A a \in Assets : Pending(new, a) <=> a \in me.assets \cup records
    /\ \A a \in new.assets : a \in me.assets \/ (a \in records /\ MasterOf[a] \notin records)
    /\ \A item \in new.todo : MasterOf[item.asset] \in records \cup me.masters \cup cache
    /\ \A m \in new.masters : m \in me.masters \/
           (m \in records /\ \A a \in records \cap Assets : MasterOf[a] # m)

LEMMA Pairing ==
    ASSUME NEW me \in Fetching, NEW records \in SUBSET Ids,
           NEW cache \in SUBSET Masters, NEW later \in SUBSET Masters,
           Advance(records \cap Masters, records \cap Assets) \in Nat
    PROVE  PairedWell(me, records, cache, later, Paired(me, records, cache, later))
<1> DEFINE pm == records \cap Masters
           pa == records \cap Assets
           known == me.assets \cup pa
           matched == {m \in pm : Siblings(m, known) # {}}
           rest == {a \in pa : MasterOf[a] \notin pm}
           waited == {m \in me.masters : Siblings(m, rest) # {}}
           recent == {m \in cache \ waited : Siblings(m, rest) # {}}
           left == {a \in rest : MasterOf[a] \notin waited \cup recent}
           N1 == {Named(Siblings(m, me.assets), Siblings(m, pa), m) : m \in matched}
           N2 == {Named({}, Siblings(m, rest), m) : m \in waited}
           N3 == {LateNamed({}, Siblings(m, rest), m) : m \in recent}
           new == Paired(me, records, cache, later)
           masters1 == (me.masters \cup (pm \ matched)) \ waited
           assets1 == (me.assets \ {a \in me.assets : MasterOf[a] \in matched}) \cup left
           offset1 == me.offset + Advance(pm, pa)
<1>1. new = [me EXCEPT !.pc = "emit", !.offset = offset1, !.masters = masters1,
                       !.assets = assets1, !.paired = later, !.page = 0,
                       !.todo = UNION (N1 \cup N2 \cup N3)]
  BY DEF Paired
<1>2. MasterOf \in [Assets -> Masters] /\ Assets \cap Masters = {}
  BY EnumAssumption, RecordsAssumption
<1>3. \A m, S : Siblings(m, S) = {a \in S \cap Assets : MasterOf[a] = m}
  BY DEF Siblings
<1>4. /\ me.masters \in SUBSET Masters /\ me.assets \in SUBSET Assets
      /\ pm \in SUBSET Masters /\ pa \in SUBSET Assets
  BY DEF Fetching
<1>5. masters1 \in SUBSET Masters /\ assets1 \in SUBSET Assets /\ offset1 \in Nat
  BY <1>4 DEF Fetching
<1>6. \A item \in UNION (N1 \cup N2 \cup N3) :
        item \in Found /\ item.asset \in known /\ MasterOf[item.asset] \in pm \cup me.masters \cup cache
  <2>1. ASSUME NEW m \in matched, NEW item \in Named(Siblings(m, me.assets), Siblings(m, pa), m)
        PROVE  item \in Found /\ item.asset \in known /\ MasterOf[item.asset] = m
    <3>1. Siblings(m, me.assets) \cup Siblings(m, pa) \subseteq known \cap Assets /\ m \in Ids
          /\ \A a \in Siblings(m, me.assets) \cup Siblings(m, pa) : MasterOf[a] = m
      BY <1>3, <1>4 DEF Ids
    <3>2. item \in [asset : Siblings(m, me.assets) \cup Siblings(m, pa),
                   id : {m} \cup Siblings(m, me.assets) \cup Siblings(m, pa)]
      BY NamedItems
    <3> QED BY <3>1, <3>2 DEF Found, Ids
  <2>2. ASSUME NEW m \in waited, NEW item \in Named({}, Siblings(m, rest), m)
        PROVE  item \in Found /\ item.asset \in known /\ MasterOf[item.asset] = m
    <3>1. Siblings(m, rest) \subseteq known \cap Assets /\ m \in Ids
          /\ \A a \in Siblings(m, rest) : MasterOf[a] = m
      BY <1>3, <1>4 DEF Ids
    <3>2. item \in [asset : Siblings(m, rest), id : {m} \cup Siblings(m, rest)]
      BY NamedFresh
    <3> QED BY <3>1, <3>2 DEF Found, Ids
  <2>3. ASSUME NEW m \in recent, NEW item \in LateNamed({}, Siblings(m, rest), m)
        PROVE  item \in Found /\ item.asset \in known /\ MasterOf[item.asset] = m
    <3>1. Siblings(m, rest) \subseteq known \cap Assets /\ \A a \in Siblings(m, rest) : MasterOf[a] = m
      BY <1>3, <1>4
    <3>2. item \in [asset : Siblings(m, rest), id : Siblings(m, rest)]
      BY NamedFresh
    <3> QED BY <3>1, <3>2 DEF Found, Ids
  <2>4. matched \subseteq pm /\ waited \subseteq me.masters /\ recent \subseteq cache
    OBVIOUS
  <2> TAKE item \in UNION (N1 \cup N2 \cup N3)
  <2>5. \/ \E m \in matched : item \in Named(Siblings(m, me.assets), Siblings(m, pa), m)
        \/ \E m \in waited : item \in Named({}, Siblings(m, rest), m)
        \/ \E m \in recent : item \in LateNamed({}, Siblings(m, rest), m)
    OBVIOUS
  <2> HIDE DEF matched, waited, recent, pm, known
  <2>6. CASE \E m \in matched : item \in Named(Siblings(m, me.assets), Siblings(m, pa), m)
    BY <2>1, <2>4, <2>6
  <2>7. CASE \E m \in waited : item \in Named({}, Siblings(m, rest), m)
    BY <2>2, <2>4, <2>7
  <2>8. CASE \E m \in recent : item \in LateNamed({}, Siblings(m, rest), m)
    BY <2>3, <2>4, <2>8
  <2> QED BY <2>5, <2>6, <2>7, <2>8
<1>7. UNION (N1 \cup N2 \cup N3) \in SUBSET Found
  BY <1>6
<1>8. \A a \in known : a \in assets1 \/ \E item \in UNION (N1 \cup N2 \cup N3) : item.asset = a
  <2> SUFFICES ASSUME NEW a \in known, a \notin assets1
               PROVE  \E item \in UNION (N1 \cup N2 \cup N3) : item.asset = a
    OBVIOUS
  <2> DEFINE m == MasterOf[a]
  <2>0. a \in Assets /\ m \in Masters
    BY <1>2, <1>4
  <2>1. CASE m \in pm
    <3>1. m \in matched /\ a \in Siblings(m, me.assets) \cup Siblings(m, pa)
      BY <2>0, <2>1, <1>3
    <3>2. \E x \in Named(Siblings(m, me.assets), Siblings(m, pa), m) : x.asset = a
      BY <3>1, NamedItems
    <3> QED BY <3>1, <3>2
  <2>2. CASE m \notin pm
    <3>1. m \in waited \cup recent /\ a \in Siblings(m, rest)
      BY <2>0, <2>2, <1>3
    <3> DEFINE sib == Siblings(m, rest)
    <3>0. a \in sib
      BY <3>1
    <3> HIDE DEF m, sib
    <3>2. CASE m \in waited
      <4>1. \E x \in Named({}, sib, m) : x.asset = a
        BY <3>0, NamedFresh
      <4>2. Named({}, sib, m) \subseteq UNION (N1 \cup N2 \cup N3)
        BY <3>2 DEF sib
      <4> QED BY <4>2, <3>2, <4>1
    <3>3. CASE m \in recent
      <4>1. \E x \in LateNamed({}, sib, m) : x.asset = a
        BY <3>0, NamedFresh
      <4>2. LateNamed({}, sib, m) \subseteq UNION (N1 \cup N2 \cup N3)
        BY <3>3 DEF sib
      <4> QED BY <4>2, <3>3, <4>1
    <3> QED BY <3>1, <3>2, <3>3
  <2> QED BY <2>1, <2>2
<1>9. assets1 \subseteq known /\ \A a \in assets1 : a \in me.assets \/ (a \in records /\ MasterOf[a] \notin records)
  BY <1>2, <1>4
<1>10. \A m \in masters1 : m \in me.masters \/
                     (m \in records /\ \A a \in records \cap Assets : MasterOf[a] # m)
  BY <1>3, <1>4
<1> DEFINE todo1 == UNION (N1 \cup N2 \cup N3)
<1> HIDE DEF todo1, masters1, assets1, offset1, new
<1>11. new = [me EXCEPT !.pc = "emit", !.offset = offset1, !.masters = masters1,
                       !.assets = assets1, !.paired = later, !.page = 0, !.todo = todo1]
  BY <1>1 DEF todo1
<1>12. new \in Fetching
  BY <1>5, <1>7, <1>11 DEF Fetching, todo1
<1>13. /\ new.pc = "emit" /\ new.page = 0 /\ new.paired = later /\ new.offset = offset1
       /\ new.masters = masters1 /\ new.assets = assets1 /\ new.todo = todo1
       /\ new.end = me.end /\ new.role = me.role /\ new.emitted = me.emitted
       /\ new.sent = me.sent /\ new.empties = me.empties /\ new.token = me.token
       /\ new.incomplete = me.incomplete /\ new.limited = me.limited
       /\ new.completion = me.completion /\ new.gens = me.gens
  BY <1>11 DEF Fetching
<1>14. \A a \in Assets : Pending(new, a) <=> a \in me.assets \cup records
  <2>1. \A a \in Assets : Pending(new, a) => a \in me.assets \cup records
    BY <1>6, <1>9, <1>13 DEF Pending, InTodo, todo1
  <2>2. \A a \in Assets : a \in me.assets \cup records => Pending(new, a)
    BY <1>8, <1>13 DEF Pending, InTodo, todo1
  <2> QED BY <2>1, <2>2
<1>15. \A item \in new.todo : MasterOf[item.asset] \in records \cup me.masters \cup cache
  BY <1>6, <1>13 DEF todo1
<1> QED BY <1>9, <1>10, <1>12, <1>13, <1>14, <1>15 DEF PairedWell, new, offset1

-----------------------------------------------------------------------------
(* The steps of a task. *)

(* What every step of task f leaves alone. *)
Moves(f) ==
    LET me == fetchers[f]
        new == fetchers'[f]
    IN  /\ ~Ended(f)
        /\ fetchers' = [fetchers EXCEPT ![f] = new]
        /\ new \in Fetching /\ new.end = me.end /\ new.role = me.role
        /\ me.offset <= new.offset /\ me.gens \subseteq new.gens
        /\ new.token \in DOMAIN hist \cup {Null}
        /\ Cardinality(new.paired) <= PairBuffer
        /\ new.pc = "loop" => Unpaired(new) <= PairBuffer
        /\ UNCHANGED <<hist, req, faults, got, errors, consumer, result>>
        /\ suppressed' \in BOOLEAN
        /\ \/ owners' = owners
           \/ \E a \in Assets : owners[a] = Null /\ owners' = [owners EXCEPT ![a] = f]
        /\ \/ channel' = channel
           \/ ~Closed /\ Len(channel) < Capacity /\ \E x \in Item : channel' = Append(channel, x)

(* What a step outside of a page keeps of the pairing. *)
Keeps(me, new) ==
    /\ new.masters = me.masters /\ new.assets = me.assets /\ new.paired = me.paired
    /\ new.emitted = me.emitted /\ new.todo = me.todo /\ new.sent = me.sent /\ new.page = me.page

LEMMA ConstFacts ==
    /\ PageSize \in Nat \ {0} /\ EmptyProbes \in Nat \ {0} /\ PairBuffer \in Nat \ {0}
    /\ Null \notin Nat /\ Null \notin Ids /\ Null \notin Foreign /\ Foreign \cap Ids = {}
    /\ Null \notin {"incomplete", "bound", "eof"}
    /\ IsFiniteSet(Assets) /\ IsFiniteSet(Masters) /\ IsFiniteSet(Foreign)
    /\ MasterOf \in [Assets -> Masters] /\ Assets \cap Masters = {} /\ Ids = Assets \cup Masters
BY EnumAssumption, RecordsAssumption DEF Ids

LEMMA TaskType ==
    ASSUME EnumTypeOK, NEW f \in Starts
    PROVE  /\ fetchers[f] \in Fetching /\ f \in Nat /\ fetchers[f].offset >= f
           /\ fetchers[f].token \in DOMAIN hist \cup {Null}
           /\ Cardinality(fetchers[f].paired) <= PairBuffer
           /\ fetchers[f].pc = "loop" => Unpaired(fetchers[f]) <= PairBuffer
           /\ channel \in Seq(Item) /\ suppressed \in BOOLEAN
           /\ owners \in [Assets -> Starts \cup {Null}]
           /\ fetchers \in [Starts -> Fetching] /\ Starts = DOMAIN fetchers
BY DEF EnumTypeOK, Starts

LEMMA SendFacts ==
    ASSUME NEW x \in Item, MaySend, Send(x)
    PROVE  /\ \/ channel' = channel
              \/ ~Closed /\ Len(channel) < Capacity /\ \E y \in Item : channel' = Append(channel, y)
           /\ Closed \/ channel' = Append(channel, x)
BY DEF MaySend, Send

LEMMA ErrorIsItem == Error \in Item
BY DEF Item

(* The task stops where it is. *)
LEMMA StopEffect ==
    ASSUME EnumTypeOK, NEW f \in Starts, StopAtClosed(f) \/ QueryFails(f) \/ Panic(f)
    PROVE  LET me == fetchers[f]
               new == fetchers'[f]
           IN  /\ Moves(f) /\ Keeps(me, new)
               /\ new.offset = me.offset /\ new.empties = me.empties /\ new.gens = me.gens
               /\ new.incomplete = me.incomplete /\ new.limited = me.limited
               /\ owners' = owners
               /\ \/ /\ new.pc = "done" /\ new.token = Null /\ new.completion = "incomplete"
                     /\ Closed \/ channel' = Append(channel, Error)
                  \/ /\ new.pc = "panicked" /\ new.token = me.token /\ new.completion = me.completion
                     /\ channel' = channel
<1> DEFINE me == fetchers[f]
           new == fetchers'[f]
<1>0. me \in Fetching
  BY TaskType
<1> USE TaskType, ErrorIsItem
<1>1. CASE StopAtClosed(f)
  <2>1. /\ new = [me EXCEPT !.pc = "done", !.token = Null, !.completion = "incomplete"]
        /\ fetchers' = [fetchers EXCEPT ![f] = new] /\ me.pc = "loop" /\ Closed
        /\ UNCHANGED <<hist, req, faults, owners, channel, got, errors, consumer, suppressed, result>>
    BY <1>1 DEF StopAtClosed, Update, Completed, provider, reader, Starts
  <2> HIDE DEF new
  <2>2. new \in Fetching
    <3> HIDE DEF me
    <3> QED BY <1>0, <2>1 DEF Fetching
  <2>3. /\ Keeps(me, new) /\ new.offset = me.offset /\ new.empties = me.empties /\ new.gens = me.gens
        /\ new.incomplete = me.incomplete /\ new.limited = me.limited
        /\ new.pc = "done" /\ new.token = Null /\ new.completion = "incomplete"
        /\ new.end = me.end /\ new.role = me.role /\ me.offset \in Nat
    BY <2>1 DEF Fetching, Keeps
  <2>4. Moves(f)
    BY <2>1, <2>2, <2>3 DEF Moves, Keeps, Ended, new
  <2> QED BY <2>1, <2>3, <2>4 DEF new
<1>2. CASE QueryFails(f)
  <2>1. /\ new = [me EXCEPT !.pc = "done", !.token = Null, !.completion = "incomplete"]
        /\ fetchers' = [fetchers EXCEPT ![f] = new] /\ me.pc = "loop" /\ MaySend /\ Send(Error)
        /\ UNCHANGED <<hist, req, faults, owners, got, errors, consumer, suppressed, result>>
    BY <1>2 DEF QueryFails, MayQuery, Update, Completed, provider, reader, Starts
  <2> HIDE DEF new
  <2>2. new \in Fetching
    <3> HIDE DEF me
    <3> QED BY <1>0, <2>1 DEF Fetching
  <2>3. /\ Keeps(me, new) /\ new.offset = me.offset /\ new.empties = me.empties /\ new.gens = me.gens
        /\ new.incomplete = me.incomplete /\ new.limited = me.limited
        /\ new.pc = "done" /\ new.token = Null /\ new.completion = "incomplete"
        /\ new.end = me.end /\ new.role = me.role /\ me.offset \in Nat
    BY <2>1 DEF Fetching, Keeps
  <2>5. /\ \/ channel' = channel
           \/ ~Closed /\ Len(channel) < Capacity /\ \E y \in Item : channel' = Append(channel, y)
        /\ Closed \/ channel' = Append(channel, Error)
    BY <2>1, SendFacts
  <2>4. Moves(f)
    BY <2>1, <2>2, <2>3, <2>5 DEF Moves, Keeps, Ended, new
  <2> QED BY <2>1, <2>3, <2>4, <2>5 DEF new
<1>3. CASE Panic(f)
  <2>1. /\ new = [me EXCEPT !.pc = "panicked"] /\ ~Ended(f)
        /\ fetchers' = [fetchers EXCEPT ![f] = new]
        /\ UNCHANGED <<hist, req, faults, owners, channel, got, errors, consumer, suppressed, result>>
    BY <1>3 DEF Panic, Update, provider, reader, Starts
  <2> HIDE DEF new
  <2>2. new \in Fetching
    <3> HIDE DEF me
    <3> QED BY <1>0, <2>1 DEF Fetching
  <2>3. /\ Keeps(me, new) /\ new.offset = me.offset /\ new.empties = me.empties /\ new.gens = me.gens
        /\ new.incomplete = me.incomplete /\ new.limited = me.limited
        /\ new.pc = "panicked" /\ new.token = me.token /\ new.completion = me.completion
        /\ new.end = me.end /\ new.role = me.role /\ me.offset \in Nat
    BY <2>1 DEF Fetching, Keeps
  <2>4. Moves(f)
    BY <2>1, <2>2, <2>3 DEF Moves, Keeps, new
  <2> QED BY <2>1, <2>3, <2>4 DEF new
<1> QED BY <1>1, <1>2, <1>3

LEMMA EndRangeEffect ==
    ASSUME EnumTypeOK, NEW f \in Starts, EndRange(f)
    PROVE  LET me == fetchers[f]
               new == fetchers'[f]
           IN  /\ Moves(f) /\ Keeps(me, new) /\ me.pc = "loop" /\ AtEnd(me)
               /\ new.offset = me.offset /\ new.empties = me.empties /\ new.gens = me.gens
               /\ new.incomplete = me.incomplete /\ new.limited = me.limited
               /\ new.pc = "finish" /\ new.token = me.token /\ new.completion = me.completion
               /\ owners' = owners /\ channel' = channel
<1> DEFINE me == fetchers[f]
           new == fetchers'[f]
<1>0. me \in Fetching
  BY TaskType
<1> USE TaskType
<1>1. /\ new = [me EXCEPT !.pc = "finish"] /\ fetchers' = [fetchers EXCEPT ![f] = new]
      /\ me.pc = "loop" /\ AtEnd(me)
      /\ UNCHANGED <<hist, req, faults, owners, channel, got, errors, consumer, suppressed, result>>
  BY DEF EndRange, Update, provider, reader, Starts
<1> HIDE DEF new
<1>2. new \in Fetching
  <2> HIDE DEF me
  <2> QED BY <1>0, <1>1 DEF Fetching
<1>3. /\ Keeps(me, new) /\ new.offset = me.offset /\ new.empties = me.empties /\ new.gens = me.gens
      /\ new.incomplete = me.incomplete /\ new.limited = me.limited
      /\ new.pc = "finish" /\ new.token = me.token /\ new.completion = me.completion
      /\ new.end = me.end /\ new.role = me.role /\ me.offset \in Nat
  BY <1>1 DEF Fetching, Keeps
<1>4. Moves(f)
  BY <1>1, <1>2, <1>3 DEF Moves, Keeps, Ended, new
<1> QED BY <1>1, <1>3, <1>4 DEF new

LEMMA FinishEffect ==
    ASSUME EnumTypeOK, NEW f \in Starts, Finish(f)
    PROVE  LET me == fetchers[f]
               new == fetchers'[f]
           IN  /\ Moves(f) /\ Keeps(me, new) /\ me.pc = "finish"
               /\ new.offset = me.offset /\ new.empties = me.empties /\ new.gens = me.gens
               /\ new.incomplete = me.incomplete /\ new.limited = me.limited
               /\ new.pc = "done" /\ new.token = me.token
               /\ new.completion = IF me.incomplete \/ Reportable(me) THEN "incomplete"
                                   ELSE IF me.limited THEN "bound" ELSE "eof"
               /\ owners' = owners
               /\ IF Reportable(me) THEN Closed \/ channel' = Append(channel, Error)
                                    ELSE channel' = channel
<1> DEFINE me == fetchers[f]
           new == fetchers'[f]
           end == IF me.incomplete \/ Reportable(me) THEN "incomplete"
                  ELSE IF me.limited THEN "bound" ELSE "eof"
<1>0. me \in Fetching
  BY TaskType
<1> USE TaskType, ErrorIsItem
<1>1. /\ new = [me EXCEPT !.pc = "done", !.token = me.token, !.completion = end]
      /\ fetchers' = [fetchers EXCEPT ![f] = new] /\ me.pc = "finish"
      /\ suppressed' = (suppressed \/ me.limited)
      /\ UNCHANGED <<hist, req, faults, owners, got, errors, consumer, result>>
  BY DEF Finish, Update, Completed, provider, reader, Starts
<1>2. IF Reportable(me) THEN MaySend /\ Send(Error) ELSE channel' = channel
  BY DEF Finish
<1>3. end \in {"incomplete", "bound", "eof"}
  OBVIOUS
<1> HIDE DEF new, end
<1>4. new \in Fetching
  <2> HIDE DEF me
  <2> QED BY <1>0, <1>1, <1>3 DEF Fetching
<1>5. /\ Keeps(me, new) /\ new.offset = me.offset /\ new.empties = me.empties /\ new.gens = me.gens
      /\ new.incomplete = me.incomplete /\ new.limited = me.limited
      /\ new.pc = "done" /\ new.token = me.token /\ new.completion = end
      /\ new.end = me.end /\ new.role = me.role /\ me.offset \in Nat
  BY <1>1 DEF Fetching, Keeps
<1>6. /\ \/ channel' = channel
         \/ ~Closed /\ Len(channel) < Capacity /\ \E y \in Item : channel' = Append(channel, y)
      /\ IF Reportable(me) THEN Closed \/ channel' = Append(channel, Error) ELSE channel' = channel
  BY <1>2, SendFacts
<1>7. suppressed' \in BOOLEAN
  BY <1>1 DEF Fetching
<1>8. Moves(f)
  BY <1>1, <1>4, <1>5, <1>6, <1>7 DEF Moves, Keeps, Ended, new
<1> QED BY <1>1, <1>5, <1>6, <1>8 DEF new, end

LEMMA CacheFacts ==
    ASSUME NEW S \in SUBSET Masters, NEW c \in Caches(S)
    PROVE  c \in SUBSET S /\ Cardinality(c) <= PairBuffer
<1>1. IsFiniteSet(S) /\ Cardinality(S) \in Nat /\ PairBuffer \in Nat
  BY ConstFacts, FS_Subset, FS_CardinalityType
<1> QED BY <1>1 DEF Caches, AtMost

(* The answer to a query, before its records are looked at. *)
Answered(me, token) == [me EXCEPT !.token = IF token = Null THEN @ ELSE token,
                                  !.gens = @ \cup {Len(hist)}]

LEMMA AnsweredFacts ==
    ASSUME EnumTypeOK, HistInv, NEW f \in Starts, NEW token \in {Len(hist), Null}
    PROVE  LET me == fetchers[f]
               got1 == Answered(me, token)
           IN  /\ got1 \in Fetching /\ Keeps(me, got1) /\ got1.pc = me.pc
               /\ got1.offset = me.offset /\ got1.empties = me.empties
               /\ got1.incomplete = me.incomplete /\ got1.limited = me.limited
               /\ got1.completion = me.completion /\ got1.end = me.end /\ got1.role = me.role
               /\ got1.gens = me.gens \cup {Len(hist)}
               /\ got1.token = (IF token = Null THEN me.token ELSE token)
               /\ got1.token \in DOMAIN hist \cup {Null}
<1> DEFINE me == fetchers[f]
           tk == IF token = Null THEN me.token ELSE token
           got1 == Answered(me, token)
<1>1. me \in Fetching /\ me.token \in DOMAIN hist \cup {Null}
  BY TaskType
<1>2. Len(hist) \in DOMAIN hist /\ Len(hist) \in Nat /\ DOMAIN hist \subseteq Nat
  BY IndexFacts
<1>3. tk \in DOMAIN hist \cup {Null} /\ tk \in Nat \cup {Null}
  BY <1>1, <1>2
<1>4. got1 = [me EXCEPT !.token = tk, !.gens = me.gens \cup {Len(hist)}]
  BY DEF Answered
<1> HIDE DEF me, tk, got1
<1>5. got1 \in Fetching
  BY <1>1, <1>2, <1>3, <1>4 DEF Fetching
<1>6. /\ Keeps(me, got1) /\ got1.pc = me.pc
      /\ got1.offset = me.offset /\ got1.empties = me.empties
      /\ got1.incomplete = me.incomplete /\ got1.limited = me.limited
      /\ got1.completion = me.completion /\ got1.end = me.end /\ got1.role = me.role
      /\ got1.gens = me.gens \cup {Len(hist)} /\ got1.token = tk
  BY <1>1, <1>4 DEF Fetching, Keeps
<1> QED BY <1>3, <1>5, <1>6 DEF me, tk, got1

LEMMA FetchFacts ==
    ASSUME EnumTypeOK, HistInv, NEW f \in Starts, FetchPage(f)
    PROVE  LET me == fetchers[f]
               new == fetchers'[f]
           IN  /\ me.pc = "loop" /\ ~Closed /\ ~AtEnd(me)
               /\ fetchers' = [fetchers EXCEPT ![f] = new]
               /\ UNCHANGED <<hist, req, faults, owners, channel, got, errors, consumer, suppressed, result>>
               /\ \E token \in {Len(hist), Null} :
                    LET now == Answered(me, token)
                    IN  IF Page(me.offset) = {} THEN new = Emptied(now)
                        ELSE \E cache, later \in SUBSET Masters :
                               /\ cache \subseteq me.paired \cup Page(me.offset)
                               /\ later \subseteq me.paired \cup Page(me.offset) \cup me.masters
                               /\ Cardinality(later) <= PairBuffer
                               /\ new = Paired(now, Page(me.offset), cache, later)
<1> DEFINE me == fetchers[f]
           new == fetchers'[f]
           records == Page(me.offset)
           pm == records \cap Masters
           matched == {m \in pm : Siblings(m, me.assets \cup records) # {}}
           waited == {m \in me.masters : Siblings(m, records) # {} /\ m \notin pm}
<1>1. PICK token \in {Len(hist)} \cup IF Faulty("noToken") THEN {Null} ELSE {} :
        LET now == Answered(me, token)
            rec == Page(now.offset)
            pm1 == rec \cap Masters
            matched1 == {m \in pm1 : Siblings(m, now.assets \cup rec) # {}}
            waited1 == {m \in now.masters : Siblings(m, rec) # {} /\ m \notin pm1}
        IN  IF rec = {} THEN Update(f, Emptied(now))
            ELSE \E cache \in Caches(now.paired \cup matched1) :
                 \E later \in Caches(cache \cup waited1) :
                    Update(f, Paired(now, rec, cache, later))
  BY DEF FetchPage, Answered
<1>2. token \in {Len(hist), Null}
  OBVIOUS
<1> DEFINE now == Answered(me, token)
<1>3. now.offset = me.offset /\ now.assets = me.assets /\ now.masters = me.masters /\ now.paired = me.paired
  BY <1>2, AnsweredFacts DEF Keeps
<1>4. me \in Fetching /\ me.paired \in SUBSET Masters /\ me.masters \in SUBSET Masters
  BY TaskType DEF Fetching
<1>5. IF records = {} THEN Update(f, Emptied(now))
      ELSE \E cache \in Caches(me.paired \cup matched) : \E later \in Caches(cache \cup waited) :
                    Update(f, Paired(now, records, cache, later))
  <2> HIDE DEF now
  <2> QED BY <1>1, <1>3 DEF now
<1>6. /\ me.pc = "loop" /\ ~Closed /\ ~AtEnd(me)
      /\ UNCHANGED <<hist, req, faults, owners, channel, got, errors, consumer, suppressed, result>>
  BY DEF FetchPage, MayQuery, provider, reader
<1>7. f \in DOMAIN fetchers
  BY DEF Starts
<1> HIDE DEF now, records
<1>8. CASE records = {}
  <2>1. fetchers' = [fetchers EXCEPT ![f] = Emptied(now)]
    BY <1>5, <1>8 DEF Update
  <2>2. new = Emptied(now) /\ fetchers' = [fetchers EXCEPT ![f] = new]
    BY <2>1, <1>7
  <2> QED BY <2>2, <1>2, <1>6, <1>8 DEF now, records
<1>9. CASE records # {}
  <2>1. PICK cache \in Caches(me.paired \cup matched) : \E later \in Caches(cache \cup waited) :
                    Update(f, Paired(now, records, cache, later))
    BY <1>5, <1>9
  <2>2. matched \subseteq Masters \cap records /\ waited \subseteq me.masters
    OBVIOUS
  <2> HIDE DEF matched, waited
  <2>3. cache \in SUBSET (me.paired \cup matched)
    BY <2>2, <1>4, CacheFacts
  <2>4. PICK later \in Caches(cache \cup waited) : Update(f, Paired(now, records, cache, later))
    BY <2>1
  <2>5. later \in SUBSET (cache \cup waited) /\ Cardinality(later) <= PairBuffer
    BY <2>2, <2>3, <1>4, CacheFacts
  <2>6. fetchers' = [fetchers EXCEPT ![f] = Paired(now, records, cache, later)]
    BY <2>4 DEF Update
  <2>7. new = Paired(now, records, cache, later) /\ fetchers' = [fetchers EXCEPT ![f] = new]
    BY <2>6, <1>7
  <2>8. /\ cache \in SUBSET Masters /\ later \in SUBSET Masters
        /\ cache \subseteq me.paired \cup records /\ later \subseteq me.paired \cup records \cup me.masters
    BY <2>2, <2>3, <2>5, <1>4
  <2> QED BY <2>5, <2>7, <2>8, <1>2, <1>6, <1>9 DEF now, records
<1> QED BY <1>8, <1>9

(* An empty page. *)
LEMMA EmptyPageEffect ==
    ASSUME EnumTypeOK, HistInv, NEW f \in Starts, TaskInv(f), FetchPage(f), Page(fetchers[f].offset) = {}
    PROVE  LET me == fetchers[f]
               new == fetchers'[f]
           IN  /\ Moves(f) /\ Keeps(me, new) /\ me.pc = "loop" /\ ~Closed /\ ~AtEnd(me)
               /\ new.empties = me.empties + 1 /\ new.gens = me.gens \cup {Len(hist)}
               /\ new.incomplete = me.incomplete /\ new.limited = me.limited
               /\ new.completion = me.completion /\ new.token \in {me.token, Len(hist)}
               /\ IF new.empties >= EmptyProbes THEN new.pc = "finish" /\ new.offset = me.offset
                  ELSE new.pc = "loop" /\ new.offset = me.offset + PageSize
               /\ owners' = owners /\ channel' = channel
<1> DEFINE me == fetchers[f]
           new == fetchers'[f]
<1>1. PICK token \in {Len(hist), Null} : new = Emptied(Answered(me, token))
  BY FetchFacts
<1>2. /\ me.pc = "loop" /\ ~Closed /\ ~AtEnd(me)
      /\ fetchers' = [fetchers EXCEPT ![f] = new]
      /\ UNCHANGED <<hist, req, faults, owners, channel, got, errors, consumer, suppressed, result>>
  BY FetchFacts
<1> DEFINE now == Answered(me, token)
<1>3. /\ now \in Fetching /\ Keeps(me, now) /\ now.pc = "loop"
      /\ now.offset = me.offset /\ now.empties = me.empties
      /\ now.incomplete = me.incomplete /\ now.limited = me.limited
      /\ now.completion = me.completion /\ now.end = me.end /\ now.role = me.role
      /\ now.gens = me.gens \cup {Len(hist)} /\ now.token \in {me.token, Len(hist)}
      /\ now.token \in DOMAIN hist \cup {Null}
  BY <1>2, AnsweredFacts
<1>4. /\ me \in Fetching /\ Cardinality(me.paired) <= PairBuffer /\ Unpaired(me) <= PairBuffer
      /\ suppressed \in BOOLEAN
  BY <1>2, TaskType
<1>5. me.empties < EmptyProbes /\ me.empties \in Nat /\ me.offset \in Nat
      /\ EmptyProbes \in Nat /\ PageSize \in Nat
  BY <1>2, <1>4, ConstFacts DEF TaskInv, Fetching
<1> HIDE DEF now, new, me
<1>6. new = IF me.empties + 1 >= EmptyProbes
            THEN [now EXCEPT !.empties = me.empties + 1, !.pc = "finish"]
            ELSE [now EXCEPT !.empties = me.empties + 1, !.offset = me.offset + PageSize]
  BY <1>1, <1>3 DEF Emptied, now
<1>7. new \in Fetching
  <2>1. me.empties + 1 \in 0 .. EmptyProbes /\ me.offset + PageSize \in Nat
    BY <1>5
  <2>2. CASE me.empties + 1 >= EmptyProbes
    BY <2>1, <2>2, <1>3, <1>6 DEF Fetching
  <2>3. CASE ~(me.empties + 1 >= EmptyProbes)
    BY <2>1, <2>3, <1>3, <1>6 DEF Fetching
  <2> QED BY <2>2, <2>3
<1>8. /\ Keeps(now, new) /\ new.empties = me.empties + 1 /\ new.gens = now.gens
      /\ new.incomplete = now.incomplete /\ new.limited = now.limited
      /\ new.completion = now.completion /\ new.token = now.token
      /\ new.end = now.end /\ new.role = now.role
      /\ IF me.empties + 1 >= EmptyProbes THEN new.pc = "finish" /\ new.offset = me.offset
         ELSE new.pc = "loop" /\ new.offset = me.offset + PageSize
  BY <1>3, <1>6 DEF Fetching, Keeps
<1>9. Keeps(me, new)
  BY <1>3, <1>8 DEF Keeps
<1>10. Cardinality(new.paired) <= PairBuffer /\ Unpaired(new) <= PairBuffer
  BY <1>4, <1>9 DEF Keeps, Unpaired
<1>11. ~Ended(f)
  BY <1>2 DEF Ended, me
<1>12. me.offset <= new.offset /\ me.gens \subseteq new.gens
  BY <1>3, <1>5, <1>8
<1>13. Moves(f)
  BY <1>2, <1>3, <1>4, <1>7, <1>8, <1>10, <1>11, <1>12 DEF Moves, me, new
<1> QED BY <1>2, <1>3, <1>8, <1>9, <1>13 DEF me, new

(* A page with records. *)
LEMMA FullPageEffect ==
    ASSUME EnumTypeOK, HistInv, NEW f \in Starts, FetchPage(f), Page(fetchers[f].offset) # {}
    PROVE  LET me == fetchers[f]
               new == fetchers'[f]
               records == Page(me.offset)
           IN  /\ Moves(f) /\ me.pc = "loop" /\ ~Closed /\ ~AtEnd(me)
               /\ new.pc = "emit" /\ new.page = 0 /\ new.empties = me.empties
               /\ new.gens = me.gens \cup {Len(hist)} /\ new.token \in {me.token, Len(hist)}
               /\ me.offset < new.offset /\ new.offset <= me.offset + PageSize
               /\ new.incomplete = me.incomplete /\ new.limited = me.limited
               /\ new.completion = me.completion /\ new.sent = me.sent /\ new.emitted = me.emitted
               /\ \A a \in Assets : Pending(new, a) <=> a \in me.assets \cup records
               /\ \A a \in new.assets : a \in me.assets \/ (a \in records /\ MasterOf[a] \notin records)
               /\ \A item \in new.todo : MasterOf[item.asset] \in records \cup me.masters \cup me.paired
               /\ \A m \in new.masters : m \in me.masters \/
                     (m \in records /\ \A a \in records \cap Assets : MasterOf[a] # m)
               /\ new.paired \subseteq me.paired \cup records \cup me.masters
               /\ owners' = owners /\ channel' = channel
               /\ \E now \in Fetching, cache, later \in SUBSET Masters :
                     /\ now.assets = me.assets /\ now.masters = me.masters
                     /\ new = Paired(now, records, cache, later)
<1> DEFINE me == fetchers[f]
           new == fetchers'[f]
           records == Page(me.offset)
<1>1. PICK token \in {Len(hist), Null}, cache \in SUBSET Masters, later \in SUBSET Masters :
         /\ cache \subseteq me.paired \cup records
         /\ later \subseteq me.paired \cup records \cup me.masters
         /\ Cardinality(later) <= PairBuffer
         /\ new = Paired(Answered(me, token), records, cache, later)
  BY FetchFacts
<1>2. /\ me.pc = "loop" /\ ~Closed /\ ~AtEnd(me)
      /\ fetchers' = [fetchers EXCEPT ![f] = new]
      /\ UNCHANGED <<hist, req, faults, owners, channel, got, errors, consumer, suppressed, result>>
  BY FetchFacts
<1> DEFINE now == Answered(me, token)
<1>3. /\ now \in Fetching /\ Keeps(me, now) /\ now.pc = "loop"
      /\ now.offset = me.offset /\ now.empties = me.empties
      /\ now.incomplete = me.incomplete /\ now.limited = me.limited
      /\ now.completion = me.completion /\ now.end = me.end /\ now.role = me.role
      /\ now.gens = me.gens \cup {Len(hist)} /\ now.token \in {me.token, Len(hist)}
      /\ now.token \in DOMAIN hist \cup {Null}
  BY <1>2, AnsweredFacts
<1>4. me \in Fetching /\ suppressed \in BOOLEAN /\ me.offset \in Nat /\ PageSize \in Nat
  BY TaskType, ConstFacts DEF Fetching
<1>5. records \in SUBSET Ids /\ Advance(records \cap Masters, records \cap Assets) \in 1 .. PageSize
  BY <1>4, PageFacts, AdvanceBounds
<1> DEFINE adv == Advance(records \cap Masters, records \cap Assets)
<1>6. adv \in Nat /\ adv > 0 /\ adv <= PageSize
  BY <1>4, <1>5
<1> HIDE DEF now, me, records, adv, new
<1>7. /\ new \in Fetching /\ new.pc = "emit" /\ new.page = 0 /\ new.paired = later
      /\ new.offset = now.offset + adv
      /\ new.end = now.end /\ new.role = now.role /\ new.emitted = now.emitted
      /\ new.sent = now.sent /\ new.empties = now.empties /\ new.token = now.token
      /\ new.incomplete = now.incomplete /\ new.limited = now.limited
      /\ new.completion = now.completion /\ new.gens = now.gens
      /\ \A a \in Assets : Pending(new, a) <=> a \in now.assets \cup records
      /\ \A a \in new.assets : a \in now.assets \/ (a \in records /\ MasterOf[a] \notin records)
      /\ \A item \in new.todo : MasterOf[item.asset] \in records \cup now.masters \cup cache
      /\ \A m \in new.masters : m \in now.masters \/
            (m \in records /\ \A a \in records \cap Assets : MasterOf[a] # m)
  <2>1. new = Paired(now, records, cache, later)
    BY <1>1 DEF now
  <2>2. Advance(records \cap Masters, records \cap Assets) \in Nat
    BY <1>6 DEF adv
  <2>3. now \in Fetching /\ records \in SUBSET Ids
    BY <1>3, <1>5
  <2>4. PairedWell(now, records, cache, later, new)
    BY <2>1, <2>2, <2>3, Pairing
  <2> QED BY <2>4 DEF PairedWell, adv
<1>8. now.assets = me.assets /\ now.masters = me.masters /\ now.emitted = me.emitted /\ now.sent = me.sent
  BY <1>3 DEF Keeps
<1>9. me.offset < new.offset /\ new.offset <= me.offset + PageSize /\ me.offset <= new.offset
  BY <1>3, <1>4, <1>6, <1>7
<1>10. ~Ended(f)
  BY <1>2 DEF Ended, me
<1>11. me.gens \subseteq new.gens
  BY <1>3, <1>7
<1>12. Moves(f)
  BY <1>1, <1>2, <1>3, <1>4, <1>7, <1>9, <1>10, <1>11 DEF Moves, me, new
<1>13. \A item \in new.todo : MasterOf[item.asset] \in records \cup me.masters \cup me.paired
  BY <1>1, <1>7, <1>8
<1>14. \A a \in Assets : Pending(new, a) <=> a \in me.assets \cup records
  BY <1>7, <1>8
<1>15. \E now1 \in Fetching, c, l \in SUBSET Masters :
                     /\ now1.assets = me.assets /\ now1.masters = me.masters
                     /\ new = Paired(now1, records, c, l)
  BY <1>1, <1>3, <1>8 DEF now
<1> QED BY <1>1, <1>2, <1>3, <1>7, <1>8, <1>9, <1>12, <1>13, <1>14, <1>15 DEF me, new, records

(* One record of a page: skipped, over the limit, unsendable, sent or malformed. *)
LEMMA EmitEffect ==
    ASSUME EnumTypeOK, NEW f \in Starts, NEW item \in fetchers[f].todo, Emit(f, item)
    PROVE  LET me == fetchers[f]
               new == fetchers'[f]
           IN  /\ Moves(f) /\ me.pc = "emit" /\ item \in Found
               /\ new.todo = me.todo \ {item}
               /\ new.emitted = (IF me.role = "data" THEN me.emitted ELSE me.emitted \cup {item.asset})
               /\ new.masters = me.masters /\ new.assets = me.assets /\ new.paired = me.paired
               /\ new.offset = me.offset /\ new.empties = me.empties /\ new.gens = me.gens
               /\ new.token = me.token /\ new.completion = me.completion
               /\ IF ShouldEmit(f, item.asset)
                  THEN /\ owners' = [owners EXCEPT ![item.asset] = f]
                       /\ \/ /\ new.pc = "finish" /\ new.limited /\ req.limit # Null
                             /\ new.incomplete = me.incomplete
                             /\ new.sent = me.sent /\ new.page = me.page /\ channel' = channel
                          \/ /\ new.pc = "gone" /\ Closed
                             /\ new.limited = me.limited /\ new.incomplete = me.incomplete
                             /\ new.sent = me.sent /\ new.page = me.page /\ channel' = channel
                          \/ /\ new.pc = "emit" /\ ~Closed
                             /\ new.limited = me.limited /\ new.incomplete = me.incomplete
                             /\ new.sent = me.sent + 1 /\ new.page = me.page + 1
                             /\ channel' = Append(channel, item)
                          \/ /\ new.pc = "emit" /\ ~Closed /\ new.limited = me.limited /\ new.incomplete
                             /\ new.sent = me.sent /\ new.page = me.page
                             /\ channel' = Append(channel, Error)
                  ELSE /\ new.pc = "emit" /\ owners' = owners /\ channel' = channel
                       /\ new.limited = me.limited /\ new.incomplete = me.incomplete
                       /\ new.sent = me.sent /\ new.page = me.page
<1> DEFINE me == fetchers[f]
           new == fetchers'[f]
           em == IF me.role = "data" THEN me.emitted ELSE me.emitted \cup {item.asset}
           next == [me EXCEPT !.todo = @ \ {item},
                              !.emitted = IF me.role = "data" THEN @ ELSE @ \cup {item.asset}]
           claimed == [owners EXCEPT ![item.asset] = IF @ = Null THEN f ELSE @]
<1>0. /\ me \in Fetching /\ me.offset \in Nat /\ f \in DOMAIN fetchers
      /\ me.token \in DOMAIN hist \cup {Null}
      /\ Cardinality(me.paired) <= PairBuffer /\ channel \in Seq(Item) /\ suppressed \in BOOLEAN
      /\ owners \in [Assets -> Starts \cup {Null}]
  BY TaskType DEF Fetching, Starts
<1>1. item \in Found /\ item \in Item /\ item.asset \in Assets /\ Error \in Item
  BY <1>0 DEF Fetching, Found, Item
<1>2. /\ me.pc = "emit" /\ UNCHANGED <<hist, req, faults, got, errors, consumer, suppressed, result>>
  BY DEF Emit, provider, reader
<1>3. \/ /\ ~ShouldEmit(f, item.asset) /\ Update(f, next) /\ owners' = owners /\ channel' = channel
      \/ /\ ShouldEmit(f, item.asset) /\ LimitReached(me) /\ owners' = claimed /\ channel' = channel
         /\ Update(f, [next EXCEPT !.pc = "finish", !.limited = TRUE])
      \/ /\ ShouldEmit(f, item.asset) /\ Closed /\ owners' = claimed /\ channel' = channel
         /\ Update(f, [next EXCEPT !.pc = "gone"])
      \/ /\ ShouldEmit(f, item.asset) /\ ~Closed /\ MaySend /\ owners' = claimed /\ Send(item)
         /\ Update(f, [next EXCEPT !.sent = @ + 1, !.page = @ + 1])
      \/ /\ ShouldEmit(f, item.asset) /\ ~Closed /\ MaySend /\ owners' = claimed /\ Send(Error)
         /\ Update(f, [next EXCEPT !.incomplete = TRUE])
  BY DEF Emit
<1>4. ShouldEmit(f, item.asset) => /\ claimed = [owners EXCEPT ![item.asset] = f]
                                   /\ claimed = owners \/ owners[item.asset] = Null
  BY <1>0, <1>1 DEF ShouldEmit
<1>5. em \in SUBSET Assets
  BY <1>0, <1>1 DEF Fetching
<1>6. \A n : Update(f, n) => new = n /\ fetchers' = [fetchers EXCEPT ![f] = new]
  BY <1>0 DEF Update
<1>7. ~Ended(f)
  BY <1>2 DEF Ended
<1> HIDE DEF me, claimed, em
<1>8. /\ next \in Fetching /\ next.todo = me.todo \ {item} /\ next.emitted = em
      /\ next.masters = me.masters /\ next.assets = me.assets /\ next.paired = me.paired
      /\ next.offset = me.offset /\ next.empties = me.empties /\ next.gens = me.gens
      /\ next.token = me.token /\ next.completion = me.completion
      /\ next.end = me.end /\ next.role = me.role
      /\ next.pc = "emit" /\ next.limited = me.limited /\ next.incomplete = me.incomplete
      /\ next.sent = me.sent /\ next.page = me.page
  <2>1. next = [me EXCEPT !.todo = me.todo \ {item}, !.emitted = em]
    BY DEF em
  <2> HIDE DEF next
  <2>2. next \in Fetching
    BY <2>1, <1>0, <1>5 DEF Fetching
  <2> QED BY <2>1, <2>2, <1>0, <1>2 DEF Fetching, me
<1> HIDE DEF next, new
<1> DEFINE Rest == /\ new.todo = next.todo /\ new.emitted = next.emitted
                   /\ new.masters = next.masters /\ new.assets = next.assets /\ new.paired = next.paired
                   /\ new.offset = next.offset /\ new.empties = next.empties /\ new.gens = next.gens
                   /\ new.token = next.token /\ new.completion = next.completion
                   /\ new.end = next.end /\ new.role = next.role
<1>9. ASSUME new \in Fetching, Rest, new.pc # "loop", fetchers' = [fetchers EXCEPT ![f] = new],
             owners' = owners \/ (owners' = claimed /\ ShouldEmit(f, item.asset)),
             \/ channel' = channel
             \/ ~Closed /\ Len(channel) < Capacity /\ \E x \in Item : channel' = Append(channel, x)
      PROVE  Moves(f)
  <2>1. /\ new.end = me.end /\ new.role = me.role /\ me.offset <= new.offset /\ me.gens \subseteq new.gens
        /\ new.token \in DOMAIN hist \cup {Null} /\ Cardinality(new.paired) <= PairBuffer
    BY <1>0, <1>8, <1>9 DEF me
  <2>2. \/ owners' = owners
        \/ \E a \in Assets : owners[a] = Null /\ owners' = [owners EXCEPT ![a] = f]
    BY <1>1, <1>4, <1>9
  <2> QED BY <2>1, <2>2, <1>0, <1>2, <1>7, <1>9 DEF Moves, me, new
<1>10. CASE /\ ~ShouldEmit(f, item.asset) /\ Update(f, next) /\ owners' = owners /\ channel' = channel
  <2>1. new = next /\ fetchers' = [fetchers EXCEPT ![f] = new]
    BY <1>6, <1>10
  <2>2. Moves(f)
    BY <2>1, <1>8, <1>9, <1>10
  <2> QED BY <2>1, <2>2, <1>1, <1>2, <1>8, <1>10 DEF me, new, em
<1>11. CASE /\ ShouldEmit(f, item.asset) /\ LimitReached(me) /\ owners' = claimed /\ channel' = channel
            /\ Update(f, [next EXCEPT !.pc = "finish", !.limited = TRUE])
  <2>1. new = [next EXCEPT !.pc = "finish", !.limited = TRUE] /\ fetchers' = [fetchers EXCEPT ![f] = new]
    BY <1>6, <1>11
  <2>2. new \in Fetching
    BY <2>1, <1>8 DEF Fetching
  <2>3. /\ Rest /\ new.pc = "finish" /\ new.limited = TRUE /\ new.incomplete = next.incomplete
        /\ new.sent = next.sent /\ new.page = next.page
    BY <2>1, <1>8 DEF Fetching
  <2>4. req.limit # Null
    BY <1>11 DEF LimitReached
  <2>5. Moves(f)
    BY <2>1, <2>2, <2>3, <1>9, <1>11
  <2> QED BY <2>3, <2>4, <2>5, <1>1, <1>2, <1>4, <1>8, <1>11 DEF me, new, em
<1>12. CASE /\ ShouldEmit(f, item.asset) /\ Closed /\ owners' = claimed /\ channel' = channel
            /\ Update(f, [next EXCEPT !.pc = "gone"])
  <2>1. new = [next EXCEPT !.pc = "gone"] /\ fetchers' = [fetchers EXCEPT ![f] = new]
    BY <1>6, <1>12
  <2>2. new \in Fetching
    BY <2>1, <1>8 DEF Fetching
  <2>3. /\ Rest /\ new.pc = "gone" /\ new.limited = next.limited /\ new.incomplete = next.incomplete
        /\ new.sent = next.sent /\ new.page = next.page
    BY <2>1, <1>8 DEF Fetching
  <2>4. Moves(f)
    BY <2>1, <2>2, <2>3, <1>9, <1>12
  <2> QED BY <2>3, <2>4, <1>1, <1>2, <1>4, <1>8, <1>12 DEF me, new, em
<1>13. CASE /\ ShouldEmit(f, item.asset) /\ ~Closed /\ MaySend /\ owners' = claimed /\ Send(item)
            /\ Update(f, [next EXCEPT !.sent = @ + 1, !.page = @ + 1])
  <2>1. /\ new = [next EXCEPT !.sent = next.sent + 1, !.page = next.page + 1]
        /\ fetchers' = [fetchers EXCEPT ![f] = new]
    BY <1>6, <1>13
  <2>2. new \in Fetching
    <3>1. next.sent + 1 \in Nat /\ next.page + 1 \in Nat /\ next \in Fetching
      BY <1>8 DEF Fetching
    <3> QED BY <2>1, <3>1 DEF Fetching
  <2>3. /\ Rest /\ new.pc = "emit" /\ new.limited = next.limited /\ new.incomplete = next.incomplete
        /\ new.sent = next.sent + 1 /\ new.page = next.page + 1
    BY <2>1, <1>8 DEF Fetching
  <2>4. /\ channel' = Append(channel, item)
        /\ \/ channel' = channel
           \/ ~Closed /\ Len(channel) < Capacity /\ \E x \in Item : channel' = Append(channel, x)
    BY <1>1, <1>13, SendFacts
  <2>5. Moves(f)
    BY <2>1, <2>2, <2>3, <2>4, <1>9, <1>13
  <2> QED BY <2>3, <2>4, <2>5, <1>1, <1>2, <1>4, <1>8, <1>13 DEF me, new, em
<1>14. CASE /\ ShouldEmit(f, item.asset) /\ ~Closed /\ MaySend /\ owners' = claimed /\ Send(Error)
            /\ Update(f, [next EXCEPT !.incomplete = TRUE])
  <2>1. new = [next EXCEPT !.incomplete = TRUE] /\ fetchers' = [fetchers EXCEPT ![f] = new]
    BY <1>6, <1>14
  <2>2. new \in Fetching
    BY <2>1, <1>8 DEF Fetching
  <2>3. /\ Rest /\ new.pc = "emit" /\ new.limited = next.limited /\ new.incomplete = TRUE
        /\ new.sent = next.sent /\ new.page = next.page
    BY <2>1, <1>8 DEF Fetching
  <2>4. /\ channel' = Append(channel, Error)
        /\ \/ channel' = channel
           \/ ~Closed /\ Len(channel) < Capacity /\ \E x \in Item : channel' = Append(channel, x)
    BY <1>1, <1>14, SendFacts
  <2>5. Moves(f)
    BY <2>1, <2>2, <2>3, <2>4, <1>9, <1>14
  <2> QED BY <2>3, <2>4, <2>5, <1>1, <1>2, <1>4, <1>8, <1>14 DEF me, new, em
<1> QED BY <1>3, <1>10, <1>11, <1>12, <1>13, <1>14

LEMMA EndPageEffect ==
    ASSUME EnumTypeOK, NEW f \in Starts, TaskInv(f), EndPage(f)
    PROVE  LET me == fetchers[f]
               new == fetchers'[f]
           IN  /\ Moves(f) /\ Keeps(me, new) /\ me.pc = "emit" /\ me.todo = {}
               /\ new.offset = me.offset /\ new.gens = me.gens /\ new.token = me.token
               /\ new.completion = me.completion /\ new.limited = me.limited
               /\ owners' = owners
               /\ \/ /\ new.pc = "finish" /\ new.incomplete /\ new.empties = me.empties
                     /\ Closed \/ channel' = Append(channel, Error)
                  \/ /\ channel' = channel /\ new.incomplete = me.incomplete
                     /\ IF me.page > 0 THEN new.pc = "loop" /\ new.empties = 0
                        ELSE /\ new.empties = me.empties + 1
                             /\ new.pc = IF me.empties + 1 >= EmptyProbes THEN "finish" ELSE "loop"
<1> DEFINE me == fetchers[f]
           new == fetchers'[f]
<1>0. /\ me \in Fetching /\ me.offset \in Nat /\ f \in DOMAIN fetchers
      /\ me.token \in DOMAIN hist \cup {Null}
      /\ Cardinality(me.paired) <= PairBuffer /\ suppressed \in BOOLEAN /\ Error \in Item
  BY TaskType, ErrorIsItem DEF Fetching, Starts
<1>1. /\ me.pc = "emit" /\ me.todo = {}
      /\ UNCHANGED <<hist, req, faults, owners, got, errors, consumer, suppressed, result>>
  BY DEF EndPage, provider, reader
<1>2. /\ me.empties < EmptyProbes /\ me.empties \in Nat /\ EmptyProbes \in Nat
      /\ me.empties + 1 \in 0 .. EmptyProbes /\ 0 \in 0 .. EmptyProbes
  BY <1>0, <1>1, ConstFacts DEF TaskInv, Fetching
<1>3. \/ /\ MaySend /\ Send(Error) /\ Update(f, [me EXCEPT !.pc = "finish", !.incomplete = TRUE])
      \/ /\ Unpaired(me) <= PairBuffer /\ channel' = channel /\ me.page > 0
         /\ Update(f, [me EXCEPT !.pc = "loop", !.empties = 0])
      \/ /\ Unpaired(me) <= PairBuffer /\ channel' = channel /\ ~(me.page > 0)
         /\ Update(f, [me EXCEPT !.empties = @ + 1,
                                 !.pc = IF me.empties + 1 >= EmptyProbes THEN "finish" ELSE "loop"])
  BY DEF EndPage
<1>4. \A n : Update(f, n) => new = n /\ fetchers' = [fetchers EXCEPT ![f] = new]
  BY <1>0 DEF Update
<1>5. ~Ended(f)
  BY <1>1 DEF Ended
<1> HIDE DEF me, new
<1> DEFINE Rest == /\ Keeps(me, new) /\ new.offset = me.offset /\ new.gens = me.gens /\ new.token = me.token
                   /\ new.completion = me.completion /\ new.limited = me.limited
                   /\ new.end = me.end /\ new.role = me.role
<1>6. ASSUME new \in Fetching, Rest, new.pc = "loop" => Unpaired(me) <= PairBuffer,
             fetchers' = [fetchers EXCEPT ![f] = new],
             \/ channel' = channel
             \/ ~Closed /\ Len(channel) < Capacity /\ \E x \in Item : channel' = Append(channel, x)
      PROVE  Moves(f)
  <2>1. Cardinality(new.paired) <= PairBuffer /\ Unpaired(new) = Unpaired(me)
    BY <1>0, <1>6 DEF Keeps, Unpaired
  <2>2. me.offset <= new.offset /\ me.gens \subseteq new.gens /\ new.token \in DOMAIN hist \cup {Null}
    BY <1>0, <1>6
  <2> QED BY <2>1, <2>2, <1>0, <1>1, <1>5, <1>6 DEF Moves, me, new
<1>7. CASE MaySend /\ Send(Error) /\ Update(f, [me EXCEPT !.pc = "finish", !.incomplete = TRUE])
  <2>1. new = [me EXCEPT !.pc = "finish", !.incomplete = TRUE] /\ fetchers' = [fetchers EXCEPT ![f] = new]
    BY <1>4, <1>7 DEF me
  <2>2. new \in Fetching
    BY <2>1, <1>0 DEF Fetching
  <2>3. Rest /\ new.pc = "finish" /\ new.incomplete = TRUE /\ new.empties = me.empties
    BY <2>1, <1>0 DEF Fetching, Keeps
  <2>4. /\ Closed \/ channel' = Append(channel, Error)
        /\ \/ channel' = channel
           \/ ~Closed /\ Len(channel) < Capacity /\ \E x \in Item : channel' = Append(channel, x)
    BY <1>0, <1>7, SendFacts
  <2>5. Moves(f)
    BY <2>1, <2>2, <2>3, <2>4, <1>6
  <2> QED BY <2>3, <2>4, <2>5, <1>1 DEF me, new
<1>8. CASE /\ Unpaired(me) <= PairBuffer /\ channel' = channel /\ me.page > 0
           /\ Update(f, [me EXCEPT !.pc = "loop", !.empties = 0])
  <2>1. new = [me EXCEPT !.pc = "loop", !.empties = 0] /\ fetchers' = [fetchers EXCEPT ![f] = new]
    BY <1>4, <1>8 DEF me
  <2>2. new \in Fetching
    BY <2>1, <1>0, <1>2 DEF Fetching
  <2>3. Rest /\ new.pc = "loop" /\ new.incomplete = me.incomplete /\ new.empties = 0
    BY <2>1, <1>0 DEF Fetching, Keeps
  <2>4. Moves(f)
    BY <2>1, <2>2, <2>3, <1>6, <1>8
  <2> QED BY <2>3, <2>4, <1>1, <1>8 DEF me, new
<1>9. CASE /\ Unpaired(me) <= PairBuffer /\ channel' = channel /\ ~(me.page > 0)
           /\ Update(f, [me EXCEPT !.empties = @ + 1,
                                   !.pc = IF me.empties + 1 >= EmptyProbes THEN "finish" ELSE "loop"])
  <2> DEFINE pc1 == IF me.empties + 1 >= EmptyProbes THEN "finish" ELSE "loop"
  <2>1. /\ new = [me EXCEPT !.empties = me.empties + 1, !.pc = pc1]
        /\ fetchers' = [fetchers EXCEPT ![f] = new]
    BY <1>4, <1>9 DEF me
  <2>0. pc1 \in {"finish", "loop"}
    OBVIOUS
  <2> HIDE DEF pc1
  <2>2. new \in Fetching
    BY <2>0, <2>1, <1>0, <1>2 DEF Fetching
  <2>3. Rest /\ new.pc = pc1 /\ new.incomplete = me.incomplete /\ new.empties = me.empties + 1
    BY <2>1, <1>0 DEF Fetching, Keeps
  <2>4. Moves(f)
    BY <2>1, <2>2, <2>3, <1>6, <1>9
  <2> QED BY <2>3, <2>4, <1>1, <1>9 DEF me, new, pc1
<1> QED BY <1>3, <1>7, <1>8, <1>9 DEF me

-----------------------------------------------------------------------------
(* What follows from the shape of a step alone. *)

LEMMA MoveFacts ==
    ASSUME EnumTypeOK, PlanInv, FlowInv, NEW f \in Starts, Moves(f)
    PROVE  /\ Starts' = Starts /\ Capacity' = Capacity /\ index' = index /\ Closed' = Closed
           /\ \A g \in Starts : g # f => fetchers'[g] = fetchers[g]
           /\ \A g \in Starts : /\ fetchers'[g] \in Fetching
                                /\ fetchers'[g].end = fetchers[g].end /\ fetchers'[g].role = fetchers[g].role
                                /\ fetchers[g].offset <= fetchers'[g].offset
                                /\ fetchers[g].gens \subseteq fetchers'[g].gens
           /\ Seen \subseteq Seen' /\ (RelayError => RelayError')
           /\ result = <<>> /\ consumer # "ended"
           /\ \A a \in Assets : owners'[a] = owners[a] \/ (owners[a] = Null /\ owners'[a] = f)
           /\ owners' \in [Assets -> Starts \cup {Null}]
<1>1. /\ fetchers \in [Starts -> Fetching] /\ Starts = DOMAIN fetchers /\ channel \in Seq(Item)
      /\ owners \in [Assets -> Starts \cup {Null}]
  BY TaskType
<1>2. fetchers' = [fetchers EXCEPT ![f] = fetchers'[f]]
  BY DEF Moves
<1>3. Starts' = Starts
  BY <1>1, <1>2 DEF Starts
<1>4. \A g \in Starts : g # f => fetchers'[g] = fetchers[g]
  <2> DEFINE new == fetchers'[f]
  <2>1. fetchers' = [fetchers EXCEPT ![f] = new]
    BY <1>2
  <2> HIDE DEF new
  <2> QED BY <2>1, <1>1
<1>5. \A g \in Starts : /\ fetchers'[g] \in Fetching
                        /\ fetchers'[g].end = fetchers[g].end /\ fetchers'[g].role = fetchers[g].role
                        /\ fetchers[g].offset <= fetchers'[g].offset
                        /\ fetchers[g].gens \subseteq fetchers'[g].gens
  <2>1. \A g \in Starts : fetchers[g] \in Fetching /\ fetchers[g].offset \in Nat
    BY <1>1 DEF Fetching
  <2>2. /\ fetchers'[f] \in Fetching
        /\ fetchers'[f].end = fetchers[f].end /\ fetchers'[f].role = fetchers[f].role
        /\ fetchers[f].offset <= fetchers'[f].offset /\ fetchers[f].gens \subseteq fetchers'[f].gens
    BY DEF Moves
  <2> TAKE g \in Starts
  <2>3. CASE g = f
    BY <2>2, <2>3
  <2>4. CASE g # f
    <3>1. fetchers[g].offset <= fetchers[g].offset
      BY <2>1
    <3> QED BY <2>1, <2>4, <3>1, <1>4
  <2> QED BY <2>3, <2>4
<1>6. /\ hist' = hist /\ consumer' = consumer /\ got' = got /\ errors' = errors /\ result' = result
  BY DEF Moves
<1>7. index' = index /\ Closed' = Closed /\ Capacity' = Capacity
  BY <1>3, <1>6 DEF index, Closed, Capacity
<1>8. Range(channel) \subseteq Range(channel')
  <2>1. CASE channel' = channel
    BY <2>1
  <2>2. ASSUME NEW x \in Item, channel' = Append(channel, x) PROVE Range(channel) \subseteq Range(channel')
    <3>1. Range(Append(channel, x)) = Range(channel) \cup {x}
      BY <1>1, RangeOfAppend
    <3> QED BY <2>2, <3>1
  <2> QED BY <2>1, <2>2 DEF Moves
<1>9. Seen \subseteq Seen' /\ (RelayError => RelayError')
  BY <1>6, <1>8 DEF Seen, RelayError, Error
<1>10. result = <<>> /\ consumer # "ended"
  BY DEF Moves, FlowInv, AllEnded
<1>11. \A a \in Assets : owners'[a] = owners[a] \/ (owners[a] = Null /\ owners'[a] = f)
  BY <1>1 DEF Moves
<1>12. owners' \in [Assets -> Starts \cup {Null}]
  BY <1>1 DEF Moves
<1> QED BY <1>3, <1>4, <1>5, <1>7, <1>9, <1>10, <1>11, <1>12

LEMMA MoveType ==
    ASSUME EnumTypeOK, PlanInv, HistInv, FlowInv, NEW f \in Starts, Moves(f)
    PROVE  EnumTypeOK' /\ PlanInv' /\ HistInv' /\ FlowInv' /\ ForeignInv'
<1> USE MoveFacts
<1>0. /\ hist' = hist /\ req' = req /\ faults' = faults /\ got' = got /\ errors' = errors
      /\ consumer' = consumer /\ result' = result /\ result = <<>> /\ Starts' = Starts
      /\ suppressed' \in BOOLEAN /\ Capacity' = Capacity
  BY DEF Moves
<1>1. PageSize \in Nat /\ Cardinality(Foreign) \in Nat /\ Cardinality(Starts) \in Nat /\ Capacity \in Nat
  BY ConstFacts, FS_CardinalityType DEF PlanInv, Capacity
<1>2. channel \in Seq(Item) /\ Len(channel) \in Nat /\ Len(channel) <= Capacity
  BY <1>0, TaskType DEF FlowInv
<1>3. channel' \in Seq(Item) /\ Len(channel') <= Capacity
  <2>1. CASE channel' = channel
    BY <2>1, <1>2
  <2>2. ASSUME NEW x \in Item, Len(channel) < Capacity, channel' = Append(channel, x)
        PROVE  channel' \in Seq(Item) /\ Len(channel') <= Capacity
    <3>1. Append(channel, x) \in Seq(Item) /\ Len(Append(channel, x)) = Len(channel) + 1
      BY <1>2, RangeOfAppend
    <3> QED BY <2>2, <3>1, <1>1, <1>2
  <2> QED BY <2>1, <2>2 DEF Moves
<1>4. fetchers' \in [Starts -> Fetching]
  <2>1. DOMAIN fetchers' = Starts /\ fetchers' = [fetchers EXCEPT ![f] = fetchers'[f]]
        /\ fetchers \in [Starts -> Fetching] /\ fetchers'[f] \in Fetching
    BY TaskType DEF Moves, Starts
  <2> DEFINE new == fetchers'[f]
  <2>2. fetchers' = [fetchers EXCEPT ![f] = new] /\ new \in Fetching
    BY <2>1
  <2> HIDE DEF new
  <2> QED BY <2>1, <2>2
<1>5. \A g \in Starts :
         /\ fetchers'[g].offset >= g
         /\ fetchers'[g].token \in DOMAIN hist \cup {Null}
         /\ Cardinality(fetchers'[g].paired) <= PairBuffer
         /\ fetchers'[g].pc = "loop" => Unpaired(fetchers'[g]) <= PairBuffer
  <2> TAKE g \in Starts
  <2>1. /\ fetchers[g].offset >= g /\ fetchers[g].offset \in Nat /\ g \in Nat
        /\ fetchers'[g].offset \in Nat /\ fetchers[g].offset <= fetchers'[g].offset
    BY TaskType DEF Fetching
  <2>2. CASE g = f
    BY <2>1, <2>2 DEF Moves
  <2>3. CASE g # f
    <3>1. fetchers'[g] = fetchers[g]
      BY <2>3
    <3> QED BY <2>1, <3>1, TaskType
  <2> QED BY <2>2, <2>3
<1>6. EnumTypeOK'
  <2>1. /\ hist \in Seq(Seq(SUBSET Ids)) /\ req \in Requests /\ faults \in FaultSets /\ Starts \subseteq Nat
        /\ got \subseteq Item \ {Error} /\ errors \in BOOLEAN /\ consumer \in {"reading", "dropped", "ended"}
        /\ result \in {<<>>} \cup {<<t>> : t \in DOMAIN hist \cup {Null}}
    BY DEF EnumTypeOK
  <2>2. Len(channel') <= Capacity' + Cardinality(Foreign) + 1
    BY <1>0, <1>1, <1>3
  <2>3. owners' \in [Assets -> Starts \cup {Null}]
    OBVIOUS
  <2>4. \A g \in Starts' :
          LET me == fetchers'[g]
          IN  /\ me.offset >= g /\ me.token \in DOMAIN hist' \cup {Null}
              /\ Cardinality(me.paired) <= PairBuffer
              /\ me.pc = "loop" => Unpaired(me) <= PairBuffer
    BY <1>0, <1>5
  <2> QED BY <2>1, <2>2, <2>3, <2>4, <1>0, <1>3, <1>4 DEF EnumTypeOK, Unpaired, Error
<1>7. PlanInv'
  <2>1. \A g \in Starts : fetchers'[g].end = fetchers[g].end
    OBVIOUS
  <2>2. \A i \in Nat \ {0} : \E g \in Starts' : g < i /\ Within(fetchers'[g], i)
    <3> TAKE i \in Nat \ {0}
    <3>1. PICK g \in Starts : g < i /\ Within(fetchers[g], i)
      BY DEF PlanInv
    <3> QED BY <3>1, <2>1, <1>0 DEF Within
  <2>3. \A g, h \in Starts' : g < h => fetchers'[g].end # Null /\ fetchers'[g].end <= h
    BY <2>1, <1>0 DEF PlanInv
  <2>4. IsFiniteSet(Starts') /\ Starts' # {}
    BY <1>0 DEF PlanInv
  <2> QED BY <2>2, <2>3, <2>4 DEF PlanInv, Within
<1>8. HistInv'
  BY <1>0 DEF HistInv
<1>9. FlowInv' /\ ForeignInv'
  <2>1. consumer # "ended"
    OBVIOUS
  <2> QED BY <2>1, <1>0, <1>3 DEF FlowInv, ForeignInv
<1> QED BY <1>6, <1>7, <1>8, <1>9

-----------------------------------------------------------------------------
(* The tasks, and what was claimed. *)

LEMMA OtherTask ==
    ASSUME EnumTypeOK, PlanInv, FlowInv, NEW f \in Starts, Moves(f),
           NEW g \in Starts, g # f, TaskInv(g)
    PROVE  TaskInv(g)'
<1>1. /\ fetchers'[g] = fetchers[g] /\ Starts' = Starts /\ Closed' = Closed /\ (RelayError => RelayError')
      /\ hist' = hist /\ req' = req
      /\ \A a \in Assets : owners'[a] = owners[a] \/ (owners[a] = Null /\ owners'[a] = f)
  BY MoveFacts DEF Moves
<1>2. f \in Nat /\ Null \notin Nat /\ fetchers[g].emitted \subseteq Assets
  BY TaskType, ConstFacts DEF Fetching
<1>3. Fresh(g) => Fresh(g)'
  BY <1>1 DEF Fresh, AtEnd, Broken
<1>4. \A a \in fetchers[g].emitted : owners'[a] # Null
  BY <1>1, <1>2 DEF TaskInv
<1>5. /\ (fetchers[g].incomplete \/ fetchers[g].completion = "incomplete") => RelayError' \/ Closed'
      /\ fetchers[g].pc = "gone" => Closed'
      /\ fetchers[g].gens = {} => Fresh(g)'
  BY <1>1, <1>3 DEF TaskInv
<1> QED BY <1>1, <1>4, <1>5 DEF TaskInv

LEMMA ErrorSent ==
    ASSUME EnumTypeOK, channel' = Append(channel, Error), errors' = errors
    PROVE  RelayError'
<1>1. channel \in Seq(Item) /\ Error \in Item
  BY ErrorIsItem DEF EnumTypeOK
<1>2. Range(Append(channel, Error)) = Range(channel) \cup {Error}
  BY <1>1, RangeOfAppend
<1> QED BY <1>2 DEF RelayError, Error

(* The fields of TaskInv that a step of f must show. *)
LEMMA OwnTask ==
    ASSUME EnumTypeOK, PlanInv, FlowInv, NEW f \in Starts, Moves(f), TaskInv(f),
           LET new == fetchers'[f]
           IN  /\ new.pc \in {"loop", "emit"} => new.empties < EmptyProbes
               /\ new.completion # Null <=> new.pc = "done"
               /\ new.completion = "eof" =>
                      ~new.incomplete /\ ~new.limited /\ (Cardinality(Starts) = 1 => new.assets = {})
               /\ new.completion = "bound" => new.limited
               /\ new.limited => req.limit # Null
               /\ new.pc = "gone" => Closed
               /\ (new.incomplete \/ new.completion = "incomplete") => RelayError' \/ Closed
               /\ new.token # Null => new.token \in new.gens
               /\ new.gens \subseteq DOMAIN hist
               /\ new.gens = {} => Fresh(f)'
               /\ \A a \in new.emitted : owners'[a] # Null
    PROVE  TaskInv(f)'
<1>1. Starts' = Starts /\ Closed' = Closed /\ hist' = hist /\ req' = req
  BY MoveFacts DEF Moves
<1> QED BY <1>1 DEF TaskInv

LEMMA FreshKeeps ==
    ASSUME NEW f \in Starts, Moves(f), Fresh(f), Keeps(fetchers[f], fetchers'[f]), owners' = owners,
           fetchers'[f].offset = fetchers[f].offset, fetchers'[f].empties = fetchers[f].empties,
           fetchers'[f].pc # "emit",
           fetchers'[f].pc = "loop" \/ AtEnd(fetchers'[f]) \/ Broken(fetchers'[f])
    PROVE  Fresh(f)'
BY DEF Fresh, Keeps, AtEnd, Broken

LEMMA StopTask ==
    ASSUME EnumTypeOK, PlanInv, FlowInv, NEW f \in Starts, TaskInv(f),
           StopAtClosed(f) \/ QueryFails(f) \/ Panic(f)
    PROVE  TaskInv(f)'
<1> DEFINE me == fetchers[f]
           new == fetchers'[f]
<1>1. /\ Moves(f) /\ Keeps(me, new)
      /\ new.offset = me.offset /\ new.empties = me.empties /\ new.gens = me.gens
      /\ new.incomplete = me.incomplete /\ new.limited = me.limited
      /\ owners' = owners
      /\ \/ /\ new.pc = "done" /\ new.token = Null /\ new.completion = "incomplete"
            /\ Closed \/ channel' = Append(channel, Error)
         \/ /\ new.pc = "panicked" /\ new.token = me.token /\ new.completion = me.completion
            /\ channel' = channel
  BY StopEffect
<1>2. errors' = errors /\ ~Ended(f) /\ Null \notin {"incomplete", "bound", "eof"}
  BY <1>1, ConstFacts DEF Moves
<1>3. me.completion = Null
  BY <1>2 DEF TaskInv, Ended
<1>4. (new.incomplete \/ new.completion = "incomplete") => RelayError' \/ Closed
  <2>1. me.incomplete => RelayError' \/ Closed
    BY <1>1, MoveFacts DEF TaskInv
  <2>2. CASE new.pc = "done"
    BY <2>2, <1>1, <1>2, ErrorSent
  <2>3. CASE new.pc = "panicked"
    BY <2>1, <2>3, <1>1, <1>2, <1>3
  <2> QED BY <2>2, <2>3, <1>1
<1>5. new.gens = {} => Fresh(f)'
  <2>1. Broken(new) /\ new.pc # "emit"
    BY <1>1 DEF Broken
  <2> QED BY <2>1, <1>1, FreshKeeps DEF TaskInv
<1>6. \A a \in new.emitted : owners'[a] # Null
  BY <1>1 DEF Keeps, TaskInv
<1>7. new.limited => req.limit # Null
  BY <1>1 DEF TaskInv
<1>8. new.token # Null => new.token \in new.gens
  BY <1>1 DEF TaskInv
<1>9. new.gens \subseteq DOMAIN hist
  BY <1>1 DEF TaskInv
<1> QED BY <1>1, <1>2, <1>3, <1>4, <1>5, <1>6, <1>7, <1>8, <1>9, OwnTask

LEMMA EndRangeTask ==
    ASSUME EnumTypeOK, PlanInv, FlowInv, NEW f \in Starts, TaskInv(f), EndRange(f)
    PROVE  TaskInv(f)'
<1> DEFINE me == fetchers[f]
           new == fetchers'[f]
<1>1. /\ Moves(f) /\ Keeps(me, new) /\ me.pc = "loop" /\ AtEnd(me)
      /\ new.offset = me.offset /\ new.empties = me.empties /\ new.gens = me.gens
      /\ new.incomplete = me.incomplete /\ new.limited = me.limited
      /\ new.pc = "finish" /\ new.token = me.token /\ new.completion = me.completion
      /\ owners' = owners /\ channel' = channel
  BY EndRangeEffect
<1>2. Null \notin {"incomplete", "bound", "eof"} /\ new.end = me.end
  BY <1>1, ConstFacts DEF Moves
<1>3. me.completion = Null
  BY <1>1 DEF TaskInv
<1>4. (new.incomplete \/ new.completion = "incomplete") => RelayError' \/ Closed
  BY <1>1, <1>2, <1>3, MoveFacts DEF TaskInv
<1>5. new.gens = {} => Fresh(f)'
  <2>1. AtEnd(new)
    BY <1>1, <1>2 DEF AtEnd
  <2> QED BY <2>1, <1>1, FreshKeeps DEF TaskInv
<1>6. \A a \in new.emitted : owners'[a] # Null
  BY <1>1 DEF Keeps, TaskInv
<1>7. /\ new.limited => req.limit # Null
      /\ new.token # Null => new.token \in new.gens
      /\ new.gens \subseteq DOMAIN hist
  BY <1>1 DEF TaskInv
<1> QED BY <1>1, <1>2, <1>3, <1>4, <1>5, <1>6, <1>7, OwnTask

LEMMA FinishTask ==
    ASSUME EnumTypeOK, PlanInv, FlowInv, NEW f \in Starts, TaskInv(f), Finish(f)
    PROVE  TaskInv(f)'
<1> DEFINE me == fetchers[f]
           new == fetchers'[f]
<1>1. /\ Moves(f) /\ Keeps(me, new) /\ me.pc = "finish"
      /\ new.offset = me.offset /\ new.empties = me.empties /\ new.gens = me.gens
      /\ new.incomplete = me.incomplete /\ new.limited = me.limited
      /\ new.pc = "done" /\ new.token = me.token
      /\ new.completion = IF me.incomplete \/ Reportable(me) THEN "incomplete"
                          ELSE IF me.limited THEN "bound" ELSE "eof"
      /\ owners' = owners
      /\ IF Reportable(me) THEN Closed \/ channel' = Append(channel, Error) ELSE channel' = channel
  BY FinishEffect
<1>2. Null \notin {"incomplete", "bound", "eof"} /\ new.end = me.end /\ errors' = errors
  BY <1>1, ConstFacts DEF Moves
<1>3. (new.completion = "eof" /\ Cardinality(Starts) = 1) => new.assets = {}
  <2> SUFFICES ASSUME new.completion = "eof", Cardinality(Starts) = 1 PROVE me.assets = {}
    BY <1>1 DEF Keeps
  <2>1. ~Reportable(me) /\ ~me.limited
    BY <1>1
  <2>2. ~(Unpaired(me) > 0)
    BY <2>1 DEF Reportable
  <2>3. me.masters \in SUBSET Masters /\ me.assets \in SUBSET Assets
    BY TaskType DEF Fetching
  <2>4. /\ IsFiniteSet(me.assets) /\ Cardinality(me.assets) \in Nat /\ Cardinality(me.masters) \in Nat
    BY <2>3, ConstFacts, FS_Subset, FS_CardinalityType
  <2>5. Cardinality(me.assets) = 0
    BY <2>2, <2>4 DEF Unpaired
  <2> QED BY <2>4, <2>5, FS_EmptySet
<1>4. (new.incomplete \/ new.completion = "incomplete") => RelayError' \/ Closed
  <2>1. me.incomplete => RelayError' \/ Closed
    BY <1>1, MoveFacts DEF TaskInv
  <2>2. Reportable(me) => RelayError' \/ Closed
    BY <1>1, <1>2, ErrorSent
  <2> QED BY <2>1, <2>2, <1>1
<1>5. new.gens = {} => Fresh(f)'
  <2> SUFFICES ASSUME new.gens = {} PROVE Fresh(f)'
    OBVIOUS
  <2>1. Fresh(f)
    BY <1>1 DEF TaskInv
  <2>2. AtEnd(me) \/ me.incomplete \/ me.limited \/ me.completion \in {"incomplete", "bound"}
    BY <2>1, <1>1 DEF Fresh, Broken
  <2>3. me.completion = Null
    BY <1>1 DEF TaskInv
  <2>4. AtEnd(new) \/ Broken(new)
    BY <2>2, <2>3, <1>1, <1>2 DEF AtEnd, Broken
  <2> QED BY <2>1, <2>4, <1>1, FreshKeeps
<1>6. \A a \in new.emitted : owners'[a] # Null
  BY <1>1 DEF Keeps, TaskInv
<1>7. /\ new.limited => req.limit # Null
      /\ new.token # Null => new.token \in new.gens
      /\ new.gens \subseteq DOMAIN hist
  BY <1>1 DEF TaskInv
<1>8. /\ new.completion = "eof" => ~new.incomplete /\ ~new.limited
      /\ new.completion = "bound" => new.limited
      /\ new.completion # Null
  BY <1>1, <1>2
<1> QED BY <1>1, <1>3, <1>4, <1>5, <1>6, <1>7, <1>8, OwnTask

LEMMA FetchTask ==
    ASSUME EnumTypeOK, PlanInv, HistInv, FlowInv, NEW f \in Starts, TaskInv(f), FetchPage(f)
    PROVE  TaskInv(f)'
<1> DEFINE me == fetchers[f]
           new == fetchers'[f]
<1>1. /\ Moves(f) /\ me.pc = "loop" /\ new.pc \in {"loop", "emit", "finish"}
      /\ new.pc \in {"loop", "emit"} => new.empties < EmptyProbes
      /\ new.gens = me.gens \cup {Len(hist)} /\ new.token \in {me.token, Len(hist)}
      /\ new.incomplete = me.incomplete /\ new.limited = me.limited /\ new.completion = me.completion
      /\ new.emitted = me.emitted /\ owners' = owners
  <2>0. me.pc = "loop" => me.empties < EmptyProbes
    BY DEF TaskInv
  <2>1. CASE Page(me.offset) = {}
    <3>1. new.empties \in Nat /\ EmptyProbes \in Nat
      BY <2>1, EmptyPageEffect, ConstFacts DEF Moves, Fetching
    <3> QED BY <2>0, <2>1, <3>1, EmptyPageEffect DEF Keeps
  <2>2. CASE Page(me.offset) # {}
    BY <2>0, <2>2, FullPageEffect
  <2> QED BY <2>1, <2>2
<1>2. Null \notin {"incomplete", "bound", "eof"}
  BY ConstFacts
<1>3. me.completion = Null
  BY <1>1 DEF TaskInv
<1>4. (new.incomplete \/ new.completion = "incomplete") => RelayError' \/ Closed
  BY <1>1, <1>2, <1>3, MoveFacts DEF TaskInv
<1>5. Len(hist) \in DOMAIN hist
  BY IndexFacts
<1>6. /\ new.token # Null => new.token \in new.gens
      /\ new.gens \subseteq DOMAIN hist /\ new.gens # {}
  BY <1>1, <1>5 DEF TaskInv
<1>7. /\ new.limited => req.limit # Null
      /\ \A a \in new.emitted : owners'[a] # Null
  BY <1>1 DEF TaskInv
<1> QED BY <1>1, <1>2, <1>3, <1>4, <1>6, <1>7, OwnTask

LEMMA EmitTask ==
    ASSUME EnumTypeOK, PlanInv, FlowInv, NEW f \in Starts, TaskInv(f),
           NEW item \in fetchers[f].todo, Emit(f, item)
    PROVE  TaskInv(f)'
<1> DEFINE me == fetchers[f]
           new == fetchers'[f]
<1>1. /\ Moves(f) /\ me.pc = "emit" /\ item \in Found
      /\ new.emitted = (IF me.role = "data" THEN me.emitted ELSE me.emitted \cup {item.asset})
      /\ new.empties = me.empties /\ new.gens = me.gens
      /\ new.token = me.token /\ new.completion = me.completion
      /\ new.pc \in {"emit", "finish", "gone"}
  BY EmitEffect
<1>2. /\ Null \notin {"incomplete", "bound", "eof"} /\ Null \notin Nat /\ f \in Nat /\ errors' = errors
      /\ me.emitted \subseteq Assets /\ item.asset \in Assets /\ owners \in [Assets -> Starts \cup {Null}]
  BY <1>1, ConstFacts, TaskType DEF Moves, Fetching, Found
<1>3. me.completion = Null /\ me.empties < EmptyProbes /\ me.gens # {}
  BY <1>1 DEF TaskInv, Fresh
<1>4. (new.incomplete \/ new.completion = "incomplete") => RelayError' \/ Closed
  <2>1. me.incomplete => RelayError' \/ Closed
    BY <1>1, MoveFacts DEF TaskInv
  <2>2. new.incomplete = me.incomplete \/ channel' = Append(channel, Error)
    BY EmitEffect
  <2>3. channel' = Append(channel, Error) => RelayError'
    BY <1>2, ErrorSent
  <2> QED BY <2>1, <2>2, <2>3, <1>1, <1>2, <1>3
<1>5. \A a \in new.emitted : owners'[a] # Null
  <2>1. \A a \in Assets : owners'[a] = owners[a] \/ (owners[a] = Null /\ owners'[a] = f)
    BY <1>1, MoveFacts
  <2>2. \A a \in me.emitted : owners'[a] # Null
    BY <2>1, <1>2 DEF TaskInv
  <2>3. me.role # "data" => owners'[item.asset] # Null
    <3>1. CASE ShouldEmit(f, item.asset)
      <4>1. owners' = [owners EXCEPT ![item.asset] = f]
        BY <3>1, EmitEffect
      <4> QED BY <4>1, <1>2
    <3>2. CASE ~ShouldEmit(f, item.asset)
      <4>1. owners' = owners
        BY <3>2, EmitEffect
      <4>2. me.role # "data" => item.asset \in me.emitted \/ owners[item.asset] # Null
        BY <3>2 DEF ShouldEmit
      <4> QED BY <4>1, <4>2, <2>2
    <3> QED BY <3>1, <3>2
  <2> QED BY <2>2, <2>3, <1>1
<1>6. new.limited => req.limit # Null
  <2>1. new.limited = me.limited \/ req.limit # Null
    BY EmitEffect
  <2> QED BY <2>1 DEF TaskInv
<1>7. new.pc = "gone" => Closed
  BY EmitEffect
<1>8. /\ new.token # Null => new.token \in new.gens
      /\ new.gens \subseteq DOMAIN hist
  BY <1>1 DEF TaskInv
<1> QED BY <1>1, <1>2, <1>3, <1>4, <1>5, <1>6, <1>7, <1>8, OwnTask

LEMMA EndPageTask ==
    ASSUME EnumTypeOK, PlanInv, FlowInv, NEW f \in Starts, TaskInv(f), EndPage(f)
    PROVE  TaskInv(f)'
<1> DEFINE me == fetchers[f]
           new == fetchers'[f]
<1>1. /\ Moves(f) /\ Keeps(me, new) /\ me.pc = "emit"
      /\ new.gens = me.gens /\ new.token = me.token
      /\ new.completion = me.completion /\ new.limited = me.limited
      /\ owners' = owners /\ new.pc \in {"loop", "finish"}
  BY EndPageEffect
<1>2. Null \notin {"incomplete", "bound", "eof"} /\ errors' = errors /\ EmptyProbes \in Nat \ {0}
      /\ me.empties \in Nat
  BY <1>1, ConstFacts, TaskType DEF Moves, Fetching
<1>3. me.completion = Null /\ me.gens # {}
  BY <1>1 DEF TaskInv, Fresh
<1>4. (new.incomplete \/ new.completion = "incomplete") => RelayError' \/ Closed
  <2>1. me.incomplete => RelayError' \/ Closed
    BY <1>1, MoveFacts DEF TaskInv
  <2>2. new.incomplete = me.incomplete \/ Closed \/ channel' = Append(channel, Error)
    BY EndPageEffect
  <2>3. channel' = Append(channel, Error) => RelayError'
    BY <1>2, ErrorSent
  <2> QED BY <2>1, <2>2, <2>3, <1>1, <1>2, <1>3
<1>5. new.pc \in {"loop", "emit"} => new.empties < EmptyProbes
  BY <1>1, <1>2, EndPageEffect
<1>6. \A a \in new.emitted : owners'[a] # Null
  BY <1>1 DEF Keeps, TaskInv
<1>7. /\ new.limited => req.limit # Null
      /\ new.token # Null => new.token \in new.gens
      /\ new.gens \subseteq DOMAIN hist
  BY <1>1 DEF TaskInv
<1> QED BY <1>1, <1>2, <1>3, <1>4, <1>5, <1>6, <1>7, OwnTask

LEMMA BrokenStays ==
    ASSUME EnumTypeOK, PlanInv, FlowInv, NEW f \in Starts, TaskInv(f), Moves(f),
           fetchers[f].incomplete => fetchers'[f].incomplete,
           fetchers[f].limited => fetchers'[f].limited
    PROVE  \A g \in Starts : Broken(fetchers[g]) => Broken(fetchers'[g])
<1> TAKE g \in Starts
<1>1. CASE g = f
  <2>1. /\ fetchers[f].pc \notin {"gone", "panicked", "done"} /\ fetchers[f].completion = Null
        /\ Null \notin {"incomplete", "bound", "eof"}
    BY ConstFacts DEF Moves, Ended, TaskInv
  <2> QED BY <2>1, <1>1 DEF Broken
<1>2. CASE g # f
  BY <1>2, MoveFacts
<1> QED BY <1>1, <1>2

(* A step that claims nothing. *)
LEMMA SentKept ==
    ASSUME EnumTypeOK, PlanInv, FlowInv, SentInv, NEW f \in Starts, TaskInv(f), Moves(f),
           fetchers[f].incomplete => fetchers'[f].incomplete,
           fetchers[f].limited => fetchers'[f].limited, owners' = owners
    PROVE  SentInv'
<1>1. Seen \subseteq Seen' /\ Closed' = Closed /\ owners \in [Assets -> Starts \cup {Null}]
  BY MoveFacts, TaskType
<1>2. \A g \in Starts : Broken(fetchers[g]) => Broken(fetchers'[g])
  BY BrokenStays
<1> SUFFICES ASSUME NEW a \in Assets, owners[a] # Null
             PROVE  \/ \E item \in Seen' : item.asset = a
                    \/ Broken(fetchers'[owners[a]])
                    \/ Closed'
  BY DEF SentInv, Broken
<1>3. owners[a] \in Starts
  BY <1>1
<1> QED BY <1>1, <1>2, <1>3 DEF SentInv

LEMMA EmitSent ==
    ASSUME EnumTypeOK, PlanInv, FlowInv, SentInv, NEW f \in Starts, TaskInv(f),
           NEW item \in fetchers[f].todo, Emit(f, item)
    PROVE  SentInv'
<1> DEFINE me == fetchers[f]
           new == fetchers'[f]
<1>1. /\ Moves(f) /\ item \in Found /\ item.asset \in Assets
      /\ me.incomplete => new.incomplete
      /\ me.limited => new.limited
  BY EmitEffect DEF Found
<1>2. CASE ~ShouldEmit(f, item.asset)
  <2>1. owners' = owners
    BY <1>2, EmitEffect
  <2> QED BY <2>1, <1>1, SentKept
<1>3. CASE ShouldEmit(f, item.asset)
  <2>1. /\ owners' = [owners EXCEPT ![item.asset] = f]
        /\ new.limited \/ Closed \/ new.incomplete \/ channel' = Append(channel, item)
    BY <1>3, EmitEffect
  <2>2. /\ Seen \subseteq Seen' /\ Closed' = Closed /\ owners \in [Assets -> Starts \cup {Null}]
        /\ channel \in Seq(Item) /\ item \in Item
    BY <1>1, MoveFacts, TaskType DEF Item
  <2>3. \A g \in Starts : Broken(fetchers[g]) => Broken(fetchers'[g])
    BY <1>1, BrokenStays
  <2>4. channel' = Append(channel, item) => item \in Seen'
    <3>1. Range(Append(channel, item)) = Range(channel) \cup {item}
      BY <2>2, RangeOfAppend
    <3>2. item # Error
      BY <1>1, ConstFacts DEF Error, Found
    <3> QED BY <3>1, <3>2 DEF Seen, Error
  <2> SUFFICES ASSUME NEW a \in Assets, owners'[a] # Null
               PROVE  \/ \E x \in Seen' : x.asset = a
                      \/ Broken(fetchers'[owners'[a]])
                      \/ Closed'
    BY DEF SentInv, Broken
  <2>5. CASE a = item.asset
    <3>1. owners'[a] = f
      BY <2>1, <2>2, <2>5
    <3>2. new.limited \/ new.incomplete => Broken(new)
      BY DEF Broken
    <3> QED BY <2>1, <2>2, <2>4, <2>5, <3>1, <3>2
  <2>6. CASE a # item.asset
    <3>1. owners'[a] = owners[a] /\ owners[a] \in Starts
      BY <2>1, <2>2, <2>6
    <3> QED BY <2>2, <2>3, <3>1 DEF SentInv
  <2> QED BY <2>5, <2>6
<1> QED BY <1>2, <1>3

(* A step of a task keeps the invariant of the tasks and of the claims. *)
LEMMA StepTasks ==
    ASSUME EnumTypeOK, PlanInv, HistInv, FlowInv, SentInv, \A g \in Starts : TaskInv(g),
           NEW f \in Starts, FetcherStep(f) \/ Panic(f)
    PROVE  Moves(f) /\ SentInv' /\ \A g \in Starts : TaskInv(g)'
<1>0. TaskInv(f)
  OBVIOUS
<1>1. Moves(f) /\ SentInv' /\ TaskInv(f)'
  <2>1. CASE StopAtClosed(f) \/ QueryFails(f) \/ Panic(f)
    <3>1. /\ Moves(f) /\ owners' = owners /\ fetchers'[f].incomplete = fetchers[f].incomplete
          /\ fetchers'[f].limited = fetchers[f].limited
      BY <2>1, StopEffect
    <3> QED BY <2>1, <3>1, <1>0, SentKept, StopTask
  <2>2. CASE EndRange(f)
    <3>1. /\ Moves(f) /\ owners' = owners /\ fetchers'[f].incomplete = fetchers[f].incomplete
          /\ fetchers'[f].limited = fetchers[f].limited
      BY <2>2, EndRangeEffect
    <3> QED BY <2>2, <3>1, <1>0, SentKept, EndRangeTask
  <2>3. CASE FetchPage(f)
    <3>1. /\ Moves(f) /\ owners' = owners /\ fetchers'[f].incomplete = fetchers[f].incomplete
          /\ fetchers'[f].limited = fetchers[f].limited
      BY <2>3, <1>0, EmptyPageEffect, FullPageEffect
    <3> QED BY <2>3, <3>1, <1>0, SentKept, FetchTask
  <2>4. ASSUME NEW item \in fetchers[f].todo, Emit(f, item) PROVE Moves(f) /\ SentInv' /\ TaskInv(f)'
    BY <2>4, <1>0, EmitEffect, EmitSent, EmitTask
  <2>5. CASE EndPage(f)
    <3>1. /\ Moves(f) /\ owners' = owners /\ (fetchers[f].incomplete => fetchers'[f].incomplete)
          /\ fetchers'[f].limited = fetchers[f].limited
      BY <2>5, <1>0, EndPageEffect
    <3> QED BY <2>5, <3>1, <1>0, SentKept, EndPageTask
  <2>6. CASE Finish(f)
    <3>1. /\ Moves(f) /\ owners' = owners /\ fetchers'[f].incomplete = fetchers[f].incomplete
          /\ fetchers'[f].limited = fetchers[f].limited
      BY <2>6, FinishEffect
    <3> QED BY <2>6, <3>1, <1>0, SentKept, FinishTask
  <2> QED BY <2>1, <2>2, <2>3, <2>4, <2>5, <2>6 DEF FetcherStep
<1>2. ASSUME NEW g \in Starts, g # f PROVE TaskInv(g)'
  BY <1>1, <1>2, OtherTask
<1> QED BY <1>1, <1>2

-----------------------------------------------------------------------------
(* The trails. *)

LEMMA OtherTrail ==
    ASSUME EnumTypeOK, PlanInv, FlowInv, NEW f \in Starts, Moves(f),
           NEW g \in Starts, g # f, NEW t \in DOMAIN hist, Trail(g, t)
    PROVE  Trail(g, t)'
<1>1. /\ fetchers'[g] = fetchers[g] /\ hist' = hist
      /\ \A a \in Assets : owners'[a] = owners[a] \/ (owners[a] = Null /\ owners'[a] = f)
  BY MoveFacts DEF Moves
<1>2. f \in Nat /\ g \in Nat /\ Null \notin Nat
  BY TaskType, ConstFacts
<1>3. \A a \in Assets : /\ owners[a] # Null => owners'[a] # Null
                        /\ owners'[a] = g => owners[a] = g
  BY <1>1, <1>2
<1>4. \A i, a : Lists(t, i, a)' <=> Lists(t, i, a)
  BY <1>1 DEF Lists
<1> DEFINE me == fetchers[g]
<1>5. \A a : Pending(me, a)' <=> Pending(me, a)
  BY <1>1 DEF Pending, InTodo
<1>6. Bounds(g, t)'
  BY <1>1, <1>3, <1>4, <1>5 DEF Trail, Bounds
<1>7. LoopTrail(g, t) => LoopTrail(g, t)'
  <2> SUFFICES ASSUME LoopTrail(g, t) PROVE LoopTrail(g, t)'
    OBVIOUS
  <2>1. PICK b \in Nat :
          /\ g + PageSize <= b + 1 /\ b + me.empties + 1 <= me.offset + PageSize
          /\ \A i \in Nat, a \in Assets : Lists(t, i, a) =>
                /\ g < i /\ i <= me.offset => owners[a] # Null \/ a \in me.assets
                /\ a \in me.assets => i <= me.offset + PageSize
                /\ b < i /\ Within(me, i) => /\ owners[a] # g /\ a \notin me.emitted
                                             /\ i <= me.offset => a \in me.assets
    BY DEF LoopTrail
  <2>2. \A i \in Nat, a \in Assets : Lists(t, i, a)' =>
                /\ g < i /\ i <= me.offset => owners'[a] # Null \/ a \in me.assets
                /\ a \in me.assets => i <= me.offset + PageSize
                /\ b < i /\ Within(me, i) => /\ owners'[a] # g /\ a \notin me.emitted
                                             /\ i <= me.offset => a \in me.assets
    BY <2>1, <1>3, <1>4
  <2> QED BY <2>1, <2>2, <1>1 DEF LoopTrail, Within
<1>8. EmitTrail(g, t) => EmitTrail(g, t)'
  <2> SUFFICES ASSUME EmitTrail(g, t) PROVE EmitTrail(g, t)'
    OBVIOUS
  <2>1. PICK b \in Nat, o \in Nat :
          /\ g + PageSize <= b + 1 /\ b + me.empties + 1 <= o + PageSize
          /\ g <= o /\ o < me.offset /\ me.offset <= o + PageSize
          /\ \A i \in Nat, a \in Assets : Lists(t, i, a) =>
                /\ g < i /\ i <= o + PageSize => owners[a] # Null \/ Pending(me, a)
                /\ Pending(me, a) => i <= o + PageSize
                /\ Within(me, i) /\ (i > o + PageSize \/ (me.page = 0 /\ b < i)) =>
                       owners[a] # g /\ a \notin me.emitted
                /\ Within(me, i) /\ me.page = 0 /\ b < i /\ i <= o + PageSize => Pending(me, a)
    BY DEF EmitTrail
  <2>2. \A i \in Nat, a \in Assets : Lists(t, i, a)' =>
                /\ g < i /\ i <= o + PageSize => owners'[a] # Null \/ Pending(me, a)
                /\ Pending(me, a) => i <= o + PageSize
                /\ Within(me, i) /\ (i > o + PageSize \/ (me.page = 0 /\ b < i)) =>
                       owners'[a] # g /\ a \notin me.emitted
                /\ Within(me, i) /\ me.page = 0 /\ b < i /\ i <= o + PageSize => Pending(me, a)
    BY <2>1, <1>3, <1>4
  <2> QED BY <2>1, <2>2, <1>1 DEF EmitTrail, Within, Pending, InTodo
<1>9. EndTrail(g, t) => EndTrail(g, t)'
  BY <1>1, <1>3, <1>4 DEF EndTrail, Within
<1>10. Broken(me)' <=> Broken(me)
  BY <1>1 DEF Broken
<1> QED BY <1>1, <1>6, <1>7, <1>8, <1>9, <1>10 DEF Trail, Whole, Broken

(* f holds asset a, or held it. *)
Held(f, a) == owners[a] = f \/ a \in fetchers[f].emitted \/ Pending(fetchers[f], a)

LEMMA BoundsKept ==
    ASSUME NEW f \in Starts, Moves(f), NEW t \in DOMAIN hist, Bounds(f, t),
           \A a \in Assets : Held(f, a)' => Held(f, a)
    PROVE  Bounds(f, t)'
<1>1. hist' = hist /\ fetchers'[f].end = fetchers[f].end
  BY DEF Moves
<1>2. \A i, a : Lists(t, i, a)' <=> Lists(t, i, a)
  BY <1>1 DEF Lists
<1> SUFFICES ASSUME NEW i \in Nat, NEW a \in Assets, Lists(t, i, a)', Held(f, a)'
             PROVE  f < i /\ (fetchers'[f].end = Null \/ i < fetchers'[f].end + PageSize)
  BY DEF Bounds, Held
<1>3. Lists(t, i, a) /\ Held(f, a)
  BY <1>2
<1> QED BY <1>1, <1>3 DEF Bounds, Held

(* Steps that leave the pairing alone. *)
LEMMA KeptTrail ==
    ASSUME NEW f \in Starts, Moves(f), NEW t \in DOMAIN hist, Trail(f, t),
           Keeps(fetchers[f], fetchers'[f]), owners' = owners
    PROVE  Bounds(f, t)' /\ (Whole(hist[t])' => fetchers'[f].assets = {})
<1>1. \A a \in Assets : Held(f, a)' => Held(f, a)
  BY DEF Held, Pending, InTodo, Keeps
<1>2. Bounds(f, t)'
  BY <1>1, BoundsKept DEF Trail
<1> QED BY <1>2 DEF Trail, Keeps, Moves, Whole

LEMMA StopTrail ==
    ASSUME EnumTypeOK, NEW f \in Starts, NEW t \in DOMAIN hist, Trail(f, t),
           StopAtClosed(f) \/ QueryFails(f) \/ Panic(f)
    PROVE  Trail(f, t)'
<1>1. /\ Moves(f) /\ Keeps(fetchers[f], fetchers'[f]) /\ owners' = owners
      /\ fetchers'[f].pc = "panicked" \/ fetchers'[f].completion = "incomplete"
  BY StopEffect
<1>2. Broken(fetchers'[f])
  BY <1>1 DEF Broken
<1> QED BY <1>1, <1>2, KeptTrail DEF Trail, Broken

LEMMA EndRangeTrail ==
    ASSUME EnumTypeOK, HistInv, NEW f \in Starts, NEW t \in DOMAIN hist, Trail(f, t), EndRange(f)
    PROVE  Trail(f, t)'
<1> DEFINE me == fetchers[f]
           new == fetchers'[f]
<1>1. /\ Moves(f) /\ Keeps(me, new) /\ me.pc = "loop" /\ AtEnd(me)
      /\ new.offset = me.offset /\ new.incomplete = me.incomplete /\ new.limited = me.limited
      /\ new.pc = "finish" /\ new.completion = me.completion
      /\ owners' = owners /\ hist' = hist /\ new.end = me.end /\ new.assets = me.assets
  BY EndRangeEffect DEF Moves, Keeps
<1>2. Bounds(f, t)' /\ (Whole(hist[t])' => new.assets = {})
  BY <1>1, KeptTrail
<1>3. ASSUME ~Broken(new) PROVE EndTrail(f, t)'
  <2>1. ~Broken(me) /\ LoopTrail(f, t)
    BY <1>1, <1>3 DEF Broken, Trail
  <2>2. me.offset \in Nat /\ me.end \in Nat /\ me.end <= me.offset
    BY <1>1, TaskType DEF AtEnd, Fetching
  <2>3. \A i \in Nat, a \in Assets : Lists(t, i, a) /\ f < i /\ i <= me.offset =>
           owners[a] # Null \/ a \in me.assets
    BY <2>1 DEF LoopTrail
  <2> SUFFICES ASSUME me.assets = {}, NEW i \in Nat, NEW a \in Assets, Lists(t, i, a), f < i, Within(me, i)
               PROVE  owners[a] # Null
    BY <1>1 DEF EndTrail, Lists, Within
  <2>4. i <= me.offset
    BY <2>2, ConstFacts DEF Within
  <2> QED BY <2>3, <2>4
<1> QED BY <1>1, <1>2, <1>3 DEF Trail, Broken

LEMMA FinishTrail ==
    ASSUME EnumTypeOK, NEW f \in Starts, NEW t \in DOMAIN hist, TaskInv(f), Trail(f, t), Finish(f)
    PROVE  Trail(f, t)'
<1> DEFINE me == fetchers[f]
           new == fetchers'[f]
<1>1. /\ Moves(f) /\ Keeps(me, new) /\ me.pc = "finish" /\ new.pc = "done"
      /\ new.incomplete = me.incomplete /\ new.limited = me.limited
      /\ owners' = owners /\ hist' = hist /\ new.end = me.end /\ new.assets = me.assets
  BY FinishEffect DEF Moves, Keeps
<1>2. Bounds(f, t)' /\ (Whole(hist[t])' => new.assets = {})
  BY <1>1, KeptTrail
<1>3. ASSUME ~Broken(new) PROVE EndTrail(f, t)'
  <2>0. me.completion \notin {"incomplete", "bound"}
    <3>1. me.completion = Null
      BY <1>1 DEF TaskInv
    <3> QED BY <3>1, ConstFacts
  <2>1. EndTrail(f, t)
    BY <2>0, <1>1, <1>3 DEF Broken, Trail
  <2> QED BY <2>1, <1>1 DEF EndTrail, Lists, Within
<1> QED BY <1>1, <1>2, <1>3 DEF Trail, Broken

LEMMA RankFacts ==
    ASSUME EnumTypeOK, HistInv, NEW t \in DOMAIN hist
    PROVE  /\ \A i, j \in Nat, a \in Assets : Lists(t, i, a) /\ Lists(t, j, a) => i = j
           /\ \A b, i \in Nat, a \in Assets : Lists(t, i, a) /\ b < i =>
                  \E j \in Nat, c \in Assets : Lists(t, j, c) /\ b < j /\ j <= b + EmptyProbes
<1> DEFINE idx == hist[t]
<1>1. WellListed(idx) /\ idx \in Seq(SUBSET Ids)
  BY DEF HistInv, WellListed
<1>2. DOMAIN idx = 1 .. Len(idx) /\ Len(idx) \in Nat
  BY <1>1
<1>3. \A i, j \in DOMAIN idx : i # j => idx[i] \cap idx[j] = {}
  BY <1>1 DEF WellListed
<1>4. \A b \in 0 .. Len(idx) : \A i \in DOMAIN idx :
           (i > b /\ idx[i] \cap Assets # {}) =>
               \E j \in DOMAIN idx : b < j /\ j <= b + EmptyProbes /\ idx[j] \cap Assets # {}
  BY <1>1 DEF WellListed
<1>5. \A i, a : Lists(t, i, a) <=> i \in DOMAIN idx /\ a \in idx[i]
  BY DEF Lists
<1> HIDE DEF idx
<1>6. \A i, j \in Nat, a \in Assets : Lists(t, i, a) /\ Lists(t, j, a) => i = j
  BY <1>3, <1>5
<1>7. ASSUME NEW b \in Nat, NEW i \in Nat, NEW a \in Assets, Lists(t, i, a), b < i
      PROVE  \E j \in Nat, c \in Assets : Lists(t, j, c) /\ b < j /\ j <= b + EmptyProbes
  <2>1. i \in DOMAIN idx /\ idx[i] \cap Assets # {} /\ b \in 0 .. Len(idx)
    BY <1>2, <1>5, <1>7
  <2>2. PICK j \in DOMAIN idx : b < j /\ j <= b + EmptyProbes /\ idx[j] \cap Assets # {}
    BY <2>1, <1>4, <1>7
  <2> QED BY <2>2, <1>2, <1>5
<1> QED BY <1>6, <1>7

(* A page is what the current snapshot lists at its ranks. *)
LEMMA PageListed ==
    ASSUME EnumTypeOK, HistInv, NEW t \in DOMAIN hist, t = Len(hist), NEW o \in Nat
    PROVE  /\ \A i \in Nat, a \in Assets : Lists(t, i, a) /\ o < i /\ i <= o + PageSize => a \in Page(o)
           /\ \A i \in Nat, a \in Assets : Lists(t, i, a) /\ a \in Page(o) => o < i /\ i <= o + PageSize
<1>1. \A r : r \in Page(o) <=> \E i \in DOMAIN index : o < i /\ i <= o + PageSize /\ r \in index[i]
  BY PageFacts
<1>2. index = hist[t] /\ DOMAIN index \subseteq Nat
  BY IndexFacts
<1>3. \A i, a : Lists(t, i, a) <=> i \in DOMAIN index /\ a \in index[i]
  BY <1>2 DEF Lists
<1>4. ASSUME NEW i \in Nat, NEW a \in Assets, Lists(t, i, a), a \in Page(o)
      PROVE  o < i /\ i <= o + PageSize
  <2>1. PICK j \in DOMAIN index : o < j /\ j <= o + PageSize /\ a \in index[j]
    BY <1>1, <1>4
  <2>2. Lists(t, j, a) /\ j \in Nat
    BY <2>1, <1>2, <1>3
  <2>3. i = j
    BY <2>2, <1>4, RankFacts
  <2> QED BY <2>1, <2>3
<1> QED BY <1>1, <1>3, <1>4

(* What the page was read from is the snapshot of a coherent pass. *)
LEMMA EmptyPageTrail ==
    ASSUME EnumTypeOK, HistInv, NEW f \in Starts, TaskInv(f), FetchPage(f), Page(fetchers[f].offset) = {},
           NEW t \in DOMAIN hist, t = Len(hist), Trail(f, t)
    PROVE  Trail(f, t)'
<1> DEFINE me == fetchers[f]
           new == fetchers'[f]
<1>1. /\ Moves(f) /\ Keeps(me, new) /\ me.pc = "loop" /\ ~AtEnd(me)
      /\ new.empties = me.empties + 1
      /\ new.incomplete = me.incomplete /\ new.limited = me.limited /\ new.completion = me.completion
      /\ IF new.empties >= EmptyProbes THEN new.pc = "finish" /\ new.offset = me.offset
         ELSE new.pc = "loop" /\ new.offset = me.offset + PageSize
      /\ owners' = owners /\ hist' = hist /\ new.end = me.end /\ new.assets = me.assets
      /\ new.emitted = me.emitted
  BY EmptyPageEffect DEF Moves, Keeps
<1>2. Bounds(f, t)' /\ (Whole(hist[t])' => new.assets = {})
  BY <1>1, KeptTrail
<1>3. ASSUME ~Broken(new)
      PROVE  (new.pc = "loop" => LoopTrail(f, t)') /\ (new.pc = "finish" => EndTrail(f, t)')
  <2>1. ~Broken(me) /\ LoopTrail(f, t)
    BY <1>1, <1>3 DEF Broken, Trail
  <2> DEFINE o == me.offset
             n == me.empties
  <2>2. o \in Nat /\ n \in Nat /\ PageSize \in Nat \ {0} /\ EmptyProbes \in Nat \ {0} /\ f \in Nat
        /\ (me.end = Null \/ me.end \in Nat)
    BY TaskType, ConstFacts DEF Fetching
  <2>3. PICK b \in Nat :
          /\ f + PageSize <= b + 1 /\ b + n + 1 <= o + PageSize
          /\ \A i \in Nat, a \in Assets : Lists(t, i, a) =>
                /\ f < i /\ i <= o => owners[a] # Null \/ a \in me.assets
                /\ a \in me.assets => i <= o + PageSize
                /\ b < i /\ Within(me, i) => /\ owners[a] # f /\ a \notin me.emitted
                                             /\ i <= o => a \in me.assets
    BY <2>1 DEF LoopTrail
  <2>4. \A i \in Nat, a \in Assets : Lists(t, i, a) => ~(o < i /\ i <= o + PageSize)
    BY <2>2, PageListed
  <2> HIDE DEF o, n
  <2>5. CASE n + 1 < EmptyProbes
    <3>1. f + PageSize <= b + 1 /\ b + (n + 1) + 1 <= (o + PageSize) + PageSize /\ o + PageSize \in Nat
      BY <2>2, <2>3
    <3>2. \A i \in Nat, a \in Assets : Lists(t, i, a) =>
                /\ f < i /\ i <= o + PageSize => owners[a] # Null \/ a \in me.assets
                /\ a \in me.assets => i <= (o + PageSize) + PageSize
                /\ b < i /\ Within(me, i) => /\ owners[a] # f /\ a \notin me.emitted
                                             /\ i <= o + PageSize => a \in me.assets
      <4> SUFFICES ASSUME NEW i \in Nat, NEW a \in Assets, Lists(t, i, a)
                   PROVE  /\ f < i /\ i <= o + PageSize => owners[a] # Null \/ a \in me.assets
                          /\ a \in me.assets => i <= (o + PageSize) + PageSize
                          /\ b < i /\ Within(me, i) => /\ owners[a] # f /\ a \notin me.emitted
                                                       /\ i <= o + PageSize => a \in me.assets
        OBVIOUS
      <4>1. i <= o + PageSize => i <= o
        BY <2>2, <2>4
      <4>2. i <= o + PageSize => i <= (o + PageSize) + PageSize
        BY <2>2
      <4> QED BY <4>1, <4>2, <2>3
    <3>3. new.pc = "loop" /\ new.offset = o + PageSize /\ new.empties = n + 1
      BY <1>1, <2>2, <2>5 DEF o, n
    <3> QED BY <3>1, <3>2, <3>3, <1>1 DEF LoopTrail, Lists, Within
  <2>6. CASE n + 1 >= EmptyProbes
    <3>1. new.pc = "finish"
      BY <1>1, <2>6 DEF n
    <3> SUFFICES ASSUME me.assets = {}, NEW i \in Nat, NEW a \in Assets, Lists(t, i, a), f < i, Within(me, i)
                 PROVE  owners[a] # Null
      BY <3>1, <1>1 DEF EndTrail, Lists, Within
    <3>2. CASE i <= o
      BY <3>2, <2>3
    <3>3. CASE i > o
      <4>1. i > o + PageSize /\ b < i /\ b + EmptyProbes <= o + PageSize
        BY <3>3, <2>2, <2>3, <2>4, <2>6
      <4>2. PICK j \in Nat, c \in Assets : Lists(t, j, c) /\ b < j /\ j <= b + EmptyProbes
        BY <4>1, RankFacts
      <4>3. j <= o + PageSize /\ j < i
        BY <4>1, <4>2, <2>2
      <4>4. j <= o /\ Within(me, j)
        BY <4>2, <4>3, <2>2, <2>4 DEF Within
      <4> QED BY <4>2, <4>4, <2>3
    <3> QED BY <3>2, <3>3, <2>2
  <2> QED BY <2>2, <2>5, <2>6
<1>4. new.pc \in {"loop", "finish"}
  BY <1>1
<1> QED BY <1>2, <1>3, <1>4 DEF Trail, Broken

LEMMA FullPageTrail ==
    ASSUME EnumTypeOK, HistInv, NEW f \in Starts, FetchPage(f), Page(fetchers[f].offset) # {},
           NEW t \in DOMAIN hist, t = Len(hist), Trail(f, t)
    PROVE  Trail(f, t)'
<1> DEFINE me == fetchers[f]
           new == fetchers'[f]
           o == me.offset
           records == Page(o)
<1>1. /\ Moves(f) /\ me.pc = "loop" /\ ~AtEnd(me)
      /\ new.pc = "emit" /\ new.page = 0 /\ new.empties = me.empties
      /\ o < new.offset /\ new.offset <= o + PageSize
      /\ new.incomplete = me.incomplete /\ new.limited = me.limited
      /\ new.completion = me.completion /\ new.emitted = me.emitted
      /\ \A a \in Assets : Pending(new, a) <=> a \in me.assets \cup records
      /\ \A a \in new.assets : a \in me.assets \/ (a \in records /\ MasterOf[a] \notin records)
      /\ owners' = owners /\ hist' = hist /\ new.end = me.end
  BY FullPageEffect DEF Moves
<1>2. /\ o \in Nat /\ me.empties \in Nat /\ PageSize \in Nat \ {0} /\ f \in Nat /\ f <= o
      /\ (me.end = Null \/ me.end \in Nat) /\ new.assets \in SUBSET Assets /\ new.offset \in Nat
      /\ Null \notin Nat
  <2>1. new \in Fetching
    BY <1>1 DEF Moves
  <2> QED BY <2>1, TaskType, ConstFacts DEF Fetching
<1>3. /\ \A i \in Nat, a \in Assets : Lists(t, i, a) /\ o < i /\ i <= o + PageSize => a \in records
      /\ \A i \in Nat, a \in Assets : Lists(t, i, a) /\ a \in records => o < i /\ i <= o + PageSize
  BY <1>2, PageListed
<1>4. \A i, a : Lists(t, i, a)' <=> Lists(t, i, a)
  BY <1>1 DEF Lists
<1> HIDE DEF o, records
<1>5. Bounds(f, t)'
  <2> SUFFICES ASSUME NEW i \in Nat, NEW a \in Assets, Lists(t, i, a),
                      owners[a] = f \/ a \in me.emitted \/ Pending(new, a)
               PROVE  f < i /\ (me.end = Null \/ i < me.end + PageSize)
    BY <1>1, <1>4 DEF Bounds, Pending, InTodo
  <2>1. CASE owners[a] = f \/ a \in me.emitted \/ a \in me.assets
    BY <2>1 DEF Trail, Bounds, Pending
  <2>2. CASE a \in records
    BY <2>2, <1>1, <1>2, <1>3 DEF AtEnd, o
  <2> QED BY <2>1, <2>2, <1>1
<1>6. Whole(hist[t])' => new.assets = {}
  <2> SUFFICES ASSUME Whole(hist[t]), NEW a \in new.assets PROVE FALSE
    BY <1>1 DEF Whole
  <2>1. a \in Assets /\ a \in records /\ MasterOf[a] \notin records
    BY <1>1, <1>2 DEF Trail
  <2>2. \A r : r \in records <=> \E i \in DOMAIN index : o < i /\ i <= o + PageSize /\ r \in index[i]
    BY <1>2, PageFacts DEF records
  <2>3. hist[t] = index
    BY IndexFacts
  <2> QED BY <2>1, <2>2, <2>3 DEF Whole
<1>7. ASSUME ~Broken(new) PROVE EmitTrail(f, t)'
  <2>1. ~Broken(me) /\ LoopTrail(f, t)
    BY <1>1, <1>7 DEF Broken, Trail
  <2>2. PICK b \in Nat :
          /\ f + PageSize <= b + 1 /\ b + me.empties + 1 <= o + PageSize
          /\ \A i \in Nat, a \in Assets : Lists(t, i, a) =>
                /\ f < i /\ i <= o => owners[a] # Null \/ a \in me.assets
                /\ a \in me.assets => i <= o + PageSize
                /\ b < i /\ Within(me, i) => /\ owners[a] # f /\ a \notin me.emitted
                                             /\ i <= o => a \in me.assets
    BY <2>1 DEF LoopTrail, o
  <2>3. ASSUME NEW i \in Nat, NEW a \in Assets, Lists(t, i, a)
        PROVE  /\ f < i /\ i <= o + PageSize => owners[a] # Null \/ Pending(new, a)
               /\ Pending(new, a) => i <= o + PageSize
               /\ Within(me, i) /\ (i > o + PageSize \/ b < i) => owners[a] # f /\ a \notin me.emitted
               /\ Within(me, i) /\ b < i /\ i <= o + PageSize => Pending(new, a)
    <3>1. Pending(new, a) <=> a \in me.assets \/ a \in records
      BY <1>1
    <3>2. i > o + PageSize => b < i
      BY <1>2, <2>2
    <3>3. /\ f < i /\ i <= o => owners[a] # Null \/ a \in me.assets
          /\ a \in me.assets => i <= o + PageSize
          /\ b < i /\ Within(me, i) => /\ owners[a] # f /\ a \notin me.emitted
                                       /\ i <= o => a \in me.assets
      BY <2>2, <2>3
    <3>4. /\ o < i /\ i <= o + PageSize => a \in records
          /\ a \in records => o < i /\ i <= o + PageSize
          /\ o < i \/ i <= o
      BY <1>2, <1>3, <2>3
    <3> QED BY <3>1, <3>2, <3>3, <3>4
  <2> QED BY <2>2, <2>3, <1>1, <1>2, <1>4 DEF EmitTrail, Within, Pending, InTodo
<1> QED BY <1>1, <1>5, <1>6, <1>7 DEF Trail, Broken

(* A record that another range claimed, or that was emitted before, lies where *)
(* the last emission of f may have been.                                       *)
LEMMA SkippedBehind ==
    ASSUME EnumTypeOK, PlanInv, NEW f \in Starts, NEW t \in DOMAIN hist,
           \A g \in Starts : Bounds(g, t),
           NEW b \in Nat, f + PageSize <= b + 1,
           NEW i \in Nat, NEW x \in Assets, Lists(t, i, x), Within(fetchers[f], i), b < i,
           ~ShouldEmit(f, x), owners[x] # f /\ x \notin fetchers[f].emitted
    PROVE  FALSE
<1>1. owners[x] \in Starts /\ owners[x] # f
  BY TaskType DEF ShouldEmit
<1> DEFINE g == owners[x]
<1>2. f \in Nat /\ g \in Nat /\ PageSize \in Nat /\ Null \notin Nat
  BY <1>1, TaskType, ConstFacts
<1>3. g < i /\ (fetchers[g].end = Null \/ i < fetchers[g].end + PageSize)
  BY <1>1 DEF Bounds
<1>4. /\ fetchers[g].end \in Nat \cup {Null} /\ fetchers[f].end \in Nat \cup {Null}
  BY <1>1, TaskType DEF Fetching
<1>5. CASE g < f
  <2>1. fetchers[g].end # Null /\ fetchers[g].end <= f
    BY <1>1, <1>5 DEF PlanInv
  <2> QED BY <2>1, <1>2, <1>3, <1>4
<1>6. CASE f < g
  <2>1. fetchers[f].end # Null /\ fetchers[f].end <= g
    BY <1>1, <1>6 DEF PlanInv
  <2> QED BY <2>1, <1>2, <1>3, <1>4 DEF Within
<1> QED BY <1>1, <1>2, <1>5, <1>6

LEMMA EmitTrailKept ==
    ASSUME EnumTypeOK, PlanInv, NEW f \in Starts, TaskInv(f),
           NEW item \in fetchers[f].todo, Emit(f, item),
           NEW t \in DOMAIN hist, \A g \in Starts : Bounds(g, t), Trail(f, t)
    PROVE  Trail(f, t)'
<1> DEFINE me == fetchers[f]
           new == fetchers'[f]
           x == item.asset
<1>1. /\ Moves(f) /\ me.pc = "emit" /\ item \in Found /\ new.todo = me.todo \ {item}
      /\ new.emitted = (IF me.role = "data" THEN me.emitted ELSE me.emitted \cup {x})
      /\ new.assets = me.assets /\ new.offset = me.offset /\ new.empties = me.empties
      /\ new.completion = me.completion
      /\ IF ShouldEmit(f, x)
         THEN /\ owners' = [owners EXCEPT ![x] = f]
              /\ \/ new.pc = "finish" /\ new.limited
                 \/ new.pc = "gone"
                 \/ /\ new.pc = "emit" /\ new.limited = me.limited /\ new.incomplete = me.incomplete
                    /\ new.page = me.page + 1
                 \/ new.pc = "emit" /\ new.incomplete
         ELSE /\ new.pc = "emit" /\ owners' = owners
              /\ new.limited = me.limited /\ new.incomplete = me.incomplete /\ new.page = me.page
      /\ hist' = hist /\ new.end = me.end
  BY EmitEffect DEF Moves
<1>2. /\ x \in Assets /\ owners \in [Assets -> Starts \cup {Null}] /\ f \in Nat /\ Null \notin Nat
      /\ me.page \in Nat /\ me.offset \in Nat /\ me.empties \in Nat /\ PageSize \in Nat \ {0}
  BY <1>1, TaskType, ConstFacts DEF Found, Fetching
<1>3. Pending(me, x) /\ \A a : /\ Pending(new, a) => Pending(me, a)
                               /\ a # x => (Pending(new, a) <=> Pending(me, a))
                               /\ a # x => (a \in new.emitted <=> a \in me.emitted)
  BY <1>1 DEF Pending, InTodo
<1>4. \A a \in Assets : a # x => owners'[a] = owners[a]
  BY <1>1, <1>2
<1>5. \A i, a : Lists(t, i, a)' <=> Lists(t, i, a)
  BY <1>1 DEF Lists
<1>6. Bounds(f, t)'
  <2>1. \A a \in Assets : Held(f, a)' => Held(f, a)
    <3> TAKE a \in Assets
    <3>1. CASE a = x
      BY <3>1, <1>3 DEF Held
    <3>2. CASE a # x
      BY <3>2, <1>3, <1>4 DEF Held, Pending, InTodo
    <3> QED BY <3>1, <3>2
  <2> QED BY <2>1, <1>1, BoundsKept DEF Trail
<1>7. Whole(hist[t])' => new.assets = {}
  BY <1>1 DEF Trail, Whole
<1>8. ASSUME ~Broken(new) PROVE new.pc = "emit" /\ EmitTrail(f, t)'
  <2>1. /\ new.pc = "emit" /\ ~Broken(me)
        /\ new.page = (IF ShouldEmit(f, x) THEN me.page + 1 ELSE me.page)
    BY <1>1, <1>8 DEF Broken
  <2>2. PICK b \in Nat, o \in Nat :
          /\ f + PageSize <= b + 1 /\ b + me.empties + 1 <= o + PageSize
          /\ f <= o /\ o < me.offset /\ me.offset <= o + PageSize
          /\ \A i \in Nat, a \in Assets : Lists(t, i, a) =>
                /\ f < i /\ i <= o + PageSize => owners[a] # Null \/ Pending(me, a)
                /\ Pending(me, a) => i <= o + PageSize
                /\ Within(me, i) /\ (i > o + PageSize \/ (me.page = 0 /\ b < i)) =>
                       owners[a] # f /\ a \notin me.emitted
                /\ Within(me, i) /\ me.page = 0 /\ b < i /\ i <= o + PageSize => Pending(me, a)
    BY <2>1, <1>1 DEF Trail, EmitTrail
  <2>3. owners'[x] # Null
    BY <1>1, <1>2 DEF ShouldEmit, TaskInv
  <2>4. ASSUME NEW i \in Nat, NEW a \in Assets, Lists(t, i, a)
        PROVE  /\ f < i /\ i <= o + PageSize => owners'[a] # Null \/ Pending(new, a)
               /\ Pending(new, a) => i <= o + PageSize
               /\ Within(me, i) /\ (i > o + PageSize \/ (new.page = 0 /\ b < i)) =>
                      owners'[a] # f /\ a \notin new.emitted
               /\ Within(me, i) /\ new.page = 0 /\ b < i /\ i <= o + PageSize => Pending(new, a)
    <3>1. /\ f < i /\ i <= o + PageSize => owners[a] # Null \/ Pending(me, a)
          /\ Pending(me, a) => i <= o + PageSize
          /\ Within(me, i) /\ (i > o + PageSize \/ (me.page = 0 /\ b < i)) =>
                 owners[a] # f /\ a \notin me.emitted
          /\ Within(me, i) /\ me.page = 0 /\ b < i /\ i <= o + PageSize => Pending(me, a)
      BY <2>2, <2>4
    <3>2. new.page = 0 => ~ShouldEmit(f, x) /\ me.page = 0
      BY <2>1, <1>2
    <3>3. CASE a # x
      BY <3>1, <3>2, <3>3, <1>3, <1>4
    <3>4. CASE a = x
      <4>1. i <= o + PageSize /\ ~(i > o + PageSize)
        BY <3>1, <3>4, <1>2, <1>3
      <4>2. ASSUME Within(me, i), new.page = 0, b < i PROVE FALSE
        <5>1. ~ShouldEmit(f, x) /\ owners[x] # f /\ x \notin me.emitted
          BY <3>1, <3>2, <3>4, <4>2
        <5> QED BY <5>1, <4>2, <3>4, <2>2, <2>4, <1>2, SkippedBehind
      <4> QED BY <4>1, <4>2, <2>3, <3>4
    <3> QED BY <3>3, <3>4
  <2> QED BY <2>1, <2>2, <2>4, <1>1, <1>5 DEF EmitTrail, Within, Pending, InTodo
<1> QED BY <1>6, <1>7, <1>8 DEF Trail, Broken

LEMMA EndPageTrail ==
    ASSUME EnumTypeOK, HistInv, NEW f \in Starts, TaskInv(f), EndPage(f),
           NEW t \in DOMAIN hist, Trail(f, t)
    PROVE  Trail(f, t)'
<1> DEFINE me == fetchers[f]
           new == fetchers'[f]
<1>1. /\ Moves(f) /\ Keeps(me, new) /\ me.pc = "emit" /\ me.todo = {}
      /\ new.offset = me.offset /\ new.completion = me.completion /\ new.limited = me.limited
      /\ owners' = owners /\ hist' = hist /\ new.end = me.end /\ new.assets = me.assets
      /\ new.emitted = me.emitted
      /\ \/ new.incomplete
         \/ /\ new.incomplete = me.incomplete
            /\ IF me.page > 0 THEN new.pc = "loop" /\ new.empties = 0
               ELSE /\ new.empties = me.empties + 1
                    /\ new.pc = IF me.empties + 1 >= EmptyProbes THEN "finish" ELSE "loop"
  BY EndPageEffect DEF Moves, Keeps
<1>2. Bounds(f, t)' /\ (Whole(hist[t])' => new.assets = {})
  BY <1>1, KeptTrail
<1>3. ASSUME ~Broken(new)
      PROVE  /\ new.pc \in {"loop", "finish"}
             /\ new.pc = "loop" => LoopTrail(f, t)'
             /\ new.pc = "finish" => EndTrail(f, t)'
  <2>1. /\ ~Broken(me)
        /\ IF me.page > 0 THEN new.pc = "loop" /\ new.empties = 0
           ELSE /\ new.empties = me.empties + 1
                /\ new.pc = IF me.empties + 1 >= EmptyProbes THEN "finish" ELSE "loop"
    BY <1>1, <1>3 DEF Broken
  <2>2. /\ me.offset \in Nat /\ me.empties \in Nat /\ me.page \in Nat /\ PageSize \in Nat \ {0}
        /\ EmptyProbes \in Nat \ {0} /\ f \in Nat /\ (me.end = Null \/ me.end \in Nat)
    BY TaskType, ConstFacts DEF Fetching
  <2>3. \A a : Pending(me, a) <=> a \in me.assets
    BY <1>1 DEF Pending, InTodo
  <2>4. PICK b \in Nat, o \in Nat :
          /\ f + PageSize <= b + 1 /\ b + me.empties + 1 <= o + PageSize
          /\ f <= o /\ o < me.offset /\ me.offset <= o + PageSize
          /\ \A i \in Nat, a \in Assets : Lists(t, i, a) =>
                /\ f < i /\ i <= o + PageSize => owners[a] # Null \/ a \in me.assets
                /\ a \in me.assets => i <= o + PageSize
                /\ Within(me, i) /\ (i > o + PageSize \/ (me.page = 0 /\ b < i)) =>
                       owners[a] # f /\ a \notin me.emitted
                /\ Within(me, i) /\ me.page = 0 /\ b < i /\ i <= o + PageSize => a \in me.assets
    BY <2>1, <2>3, <1>1 DEF Trail, EmitTrail
  <2> DEFINE P(c, i, a) == /\ f < i /\ i <= me.offset => owners[a] # Null \/ a \in me.assets
                           /\ a \in me.assets => i <= me.offset + PageSize
                           /\ c < i /\ Within(me, i) => /\ owners[a] # f /\ a \notin me.emitted
                                                        /\ i <= me.offset => a \in me.assets
  <2>5. ASSUME NEW i \in Nat, NEW a \in Assets, Lists(t, i, a)
        PROVE  /\ me.page = 0 => P(b, i, a)
               /\ P(o + PageSize, i, a)
    <3>1. /\ f < i /\ i <= o + PageSize => owners[a] # Null \/ a \in me.assets
          /\ a \in me.assets => i <= o + PageSize
          /\ Within(me, i) /\ (i > o + PageSize \/ (me.page = 0 /\ b < i)) =>
                 owners[a] # f /\ a \notin me.emitted
          /\ Within(me, i) /\ me.page = 0 /\ b < i /\ i <= o + PageSize => a \in me.assets
      BY <2>4, <2>5
    <3>2. /\ i <= me.offset => i <= o + PageSize
          /\ i <= o + PageSize => i <= me.offset + PageSize
          /\ o + PageSize < i => i > o + PageSize /\ ~(i <= me.offset)
      BY <2>2, <2>4
    <3> QED BY <3>1, <3>2
  <2>6. CASE me.page > 0
    <3>1. /\ o + PageSize \in Nat /\ f + PageSize <= (o + PageSize) + 1
          /\ (o + PageSize) + 0 + 1 <= me.offset + PageSize
      BY <2>2, <2>4
    <3> DEFINE c == o + PageSize
    <3> HIDE DEF c
    <3>2. \A i \in Nat, a \in Assets : Lists(t, i, a) => P(c, i, a)
      BY <2>5 DEF c
    <3>3. c \in Nat /\ f + PageSize <= c + 1 /\ c + new.empties + 1 <= new.offset + PageSize
      BY <3>1, <2>1, <2>6, <1>1 DEF c
    <3>4. LoopTrail(f, t)'
      BY <3>2, <3>3, <1>1 DEF LoopTrail, Lists, Within
    <3> QED BY <3>4, <2>1, <2>6
  <2>7. CASE me.page = 0 /\ me.empties + 1 < EmptyProbes
    <3>1. b + (me.empties + 1) + 1 <= me.offset + PageSize
      BY <2>2, <2>4
    <3>2. \A i \in Nat, a \in Assets : Lists(t, i, a) => P(b, i, a)
      BY <2>5, <2>7
    <3>3. b + new.empties + 1 <= new.offset + PageSize /\ new.pc = "loop"
      BY <3>1, <2>1, <2>2, <2>7, <1>1
    <3>4. LoopTrail(f, t)'
      BY <3>2, <3>3, <2>4, <1>1 DEF LoopTrail, Lists, Within
    <3> QED BY <3>3, <3>4
  <2>8. CASE me.page = 0 /\ me.empties + 1 >= EmptyProbes
    <3>1. new.pc = "finish"
      BY <2>1, <2>8
    <3> SUFFICES ASSUME me.assets = {}, NEW i \in Nat, NEW a \in Assets, Lists(t, i, a), f < i, Within(me, i)
                 PROVE  owners[a] # Null
      BY <3>1, <1>1 DEF EndTrail, Lists, Within
    <3>2. CASE i <= o + PageSize
      BY <3>2, <2>4
    <3>3. CASE i > o + PageSize
      <4>1. b < i /\ b + EmptyProbes <= o + PageSize
        BY <3>3, <2>2, <2>4, <2>8
      <4>2. PICK j \in Nat, c \in Assets : Lists(t, j, c) /\ b < j /\ j <= b + EmptyProbes
        BY <4>1, RankFacts
      <4>3. j <= o + PageSize /\ j < i
        BY <4>1, <4>2, <3>3, <2>2
      <4>4. Within(me, j)
        BY <4>3, <2>2 DEF Within
      <4> QED BY <4>2, <4>3, <4>4, <2>4, <2>8
    <3> QED BY <3>2, <3>3, <2>2
  <2> QED BY <2>2, <2>6, <2>7, <2>8
<1> QED BY <1>2, <1>3 DEF Trail, Broken

LEMMA StepMoves ==
    ASSUME EnumTypeOK, HistInv, NEW f \in Starts, TaskInv(f), FetcherStep(f) \/ Panic(f)
    PROVE  Moves(f)
<1>1. CASE StopAtClosed(f) \/ QueryFails(f) \/ Panic(f)
  BY <1>1, StopEffect
<1>2. CASE EndRange(f)
  BY <1>2, EndRangeEffect
<1>3. CASE FetchPage(f)
  <2>1. CASE Page(fetchers[f].offset) = {}
    BY <1>3, <2>1, EmptyPageEffect
  <2>2. CASE Page(fetchers[f].offset) # {}
    BY <1>3, <2>2, FullPageEffect
  <2> QED BY <2>1, <2>2
<1>4. ASSUME NEW item \in fetchers[f].todo, Emit(f, item) PROVE Moves(f)
  BY <1>4, EmitEffect
<1>5. CASE EndPage(f)
  BY <1>5, EndPageEffect
<1>6. CASE Finish(f)
  BY <1>6, FinishEffect
<1> QED BY <1>1, <1>2, <1>3, <1>4, <1>5, <1>6 DEF FetcherStep

LEMMA StepTrails ==
    ASSUME EnumTypeOK, PlanInv, HistInv, FlowInv, \A f \in Starts : TaskInv(f), TrailInv,
           NEW f \in Starts, FetcherStep(f) \/ Panic(f)
    PROVE  TrailInv'
<1>1. Moves(f) /\ TaskInv(f)
  BY StepMoves
<1>2. Starts' = Starts /\ hist' = hist /\ \A g \in Starts : fetchers[g].gens \subseteq fetchers'[g].gens
  BY <1>1, MoveFacts DEF Moves
<1> SUFFICES ASSUME NEW t \in DOMAIN hist, Coherent(t)', NEW g \in Starts PROVE Trail(g, t)'
  BY <1>2 DEF TrailInv
<1>3. \A h \in Starts : Trail(h, t) /\ Bounds(h, t)
  <2>1. Coherent(t)
    BY <1>2 DEF Coherent
  <2> QED BY <2>1 DEF TrailInv, Trail
<1>4. CASE g # f
  BY <1>1, <1>3, <1>4, OtherTrail
<1>5. Trail(f, t)'
  <2>1. CASE StopAtClosed(f) \/ QueryFails(f) \/ Panic(f)
    BY <1>3, <2>1, StopTrail
  <2>2. CASE EndRange(f)
    BY <1>3, <2>2, EndRangeTrail
  <2>3. CASE FetchPage(f)
    <3>1. Len(hist) \in fetchers'[f].gens
      <4>1. CASE Page(fetchers[f].offset) = {}
        BY <1>1, <2>3, <4>1, EmptyPageEffect
      <4>2. CASE Page(fetchers[f].offset) # {}
        <5>1. fetchers'[f].gens = fetchers[f].gens \cup {Len(hist)}
          BY <2>3, <4>2, FullPageEffect
        <5> QED BY <5>1
      <4> QED BY <4>1, <4>2
    <3>2. t = Len(hist)
      BY <3>1, <1>2 DEF Coherent
    <3>3. CASE Page(fetchers[f].offset) = {}
      BY <1>1, <1>3, <2>3, <3>2, <3>3, EmptyPageTrail
    <3>4. CASE Page(fetchers[f].offset) # {}
      BY <1>3, <2>3, <3>2, <3>4, FullPageTrail
    <3> QED BY <3>3, <3>4
  <2>4. ASSUME NEW item \in fetchers[f].todo, Emit(f, item) PROVE Trail(f, t)'
    BY <1>1, <1>3, <2>4, EmitTrailKept
  <2>5. CASE EndPage(f)
    BY <1>1, <1>3, <2>5, EndPageTrail
  <2>6. CASE Finish(f)
    BY <1>1, <1>3, <2>6, FinishTrail
  <2> QED BY <2>1, <2>2, <2>3, <2>4, <2>5, <2>6 DEF FetcherStep
<1> QED BY <1>4, <1>5

-----------------------------------------------------------------------------
(* Names, and what a pass over one snapshot holds. *)

LEMMA SeenFacts ==
    ASSUME EnumTypeOK, got' = got
    PROVE  /\ channel' = channel \/ channel' = Append(channel, Error) => Seen' = Seen
           /\ \A x \in Item : channel' = Append(channel, x) => Seen' \subseteq Seen \cup {x}
<1>1. channel \in Seq(Item) /\ Error \in Item
  BY ErrorIsItem DEF EnumTypeOK
<1>2. \A x \in Item : channel' = Append(channel, x) => Range(channel') = Range(channel) \cup {x}
  <2> TAKE x \in Item
  <2>1. Range(Append(channel, x)) = Range(channel) \cup {x}
    BY <1>1, RangeOfAppend
  <2> QED BY <2>1
<1>3. channel' = channel => Seen' = Seen
  BY DEF Seen, Error
<1>4. channel' = Append(channel, Error) => Seen' = Seen
  BY <1>1, <1>2 DEF Seen, Error
<1>5. \A x \in Item : channel' = Append(channel, x) => Seen' \subseteq Seen \cup {x}
  BY <1>2 DEF Seen, Error
<1> QED BY <1>3, <1>4, <1>5

(* A step that looks at no record. *)
Quiet(f) == Moves(f) /\ Keeps(fetchers[f], fetchers'[f]) /\ Seen' = Seen

LEMMA QuietSteps ==
    ASSUME EnumTypeOK, HistInv, NEW f \in Starts, TaskInv(f),
           \/ StopAtClosed(f) \/ QueryFails(f) \/ Panic(f) \/ EndRange(f) \/ EndPage(f) \/ Finish(f)
           \/ FetchPage(f) /\ Page(fetchers[f].offset) = {}
    PROVE  Quiet(f)
<1>1. /\ Moves(f) /\ Keeps(fetchers[f], fetchers'[f])
      /\ Closed \/ channel' = channel \/ channel' = Append(channel, Error)
  <2>1. CASE StopAtClosed(f) \/ QueryFails(f) \/ Panic(f)
    BY <2>1, StopEffect
  <2>2. CASE EndRange(f)
    BY <2>2, EndRangeEffect
  <2>3. CASE EndPage(f)
    BY <2>3, EndPageEffect
  <2>4. CASE Finish(f)
    BY <2>4, FinishEffect
  <2>5. CASE FetchPage(f) /\ Page(fetchers[f].offset) = {}
    BY <2>5, EmptyPageEffect
  <2> QED BY <2>1, <2>2, <2>3, <2>4, <2>5
<1>2. got' = got /\ (channel' = channel \/ channel' = Append(channel, Error))
  BY <1>1 DEF Moves
<1>3. Seen' = Seen
  BY <1>2, SeenFacts
<1> QED BY <1>1, <1>3 DEF Quiet

(* NameInv and ListedInv follow from what they say of f and of what was sent. *)
NamesOf(f, me) ==
    /\ me.masters = {}
    /\ \A item \in me.todo : GoodName(item)
    /\ \A a \in me.assets : \A i \in DOMAIN index : MasterOf[a] \in index[i] => i <= me.offset

ListsOf(me) ==
    /\ me.masters \cup me.assets \cup me.paired \subseteq Listed
    /\ me.emitted \subseteq Downloadable(index)
    /\ \A item \in me.todo : item.asset \in Downloadable(index)
    /\ Cardinality(Starts) = 1 => me.role # "data" /\ me.sent <= Cardinality(me.emitted)

LEMMA NamesKept ==
    ASSUME EnumTypeOK, PlanInv, FlowInv, NEW f \in Starts, Moves(f), NameInv,
           (Len(hist) = 1 /\ FamiliesLed(index)) =>
               NamesOf(f, fetchers'[f]) /\ \A item \in Seen' : GoodName(item)
    PROVE  NameInv'
<1>1. /\ index' = index /\ hist' = hist /\ Starts' = Starts
      /\ \A g \in Starts : g # f => fetchers'[g] = fetchers[g]
  BY MoveFacts DEF Moves
<1>2. \A item : GoodName(item)' <=> GoodName(item)
  BY <1>1 DEF GoodName
<1>3. FamiliesLed(index') <=> FamiliesLed(index)
  BY <1>1
<1> SUFFICES ASSUME Len(hist) = 1, FamiliesLed(index)
             PROVE  /\ \A g \in Starts : NamesOf(g, fetchers'[g])
                    /\ \A item \in Seen' : GoodName(item)
  BY <1>1, <1>2, <1>3 DEF NameInv, NamesOf, FamiliesLed
<1>4. \A g \in Starts : NamesOf(g, fetchers[g])
  BY DEF NameInv, NamesOf
<1> QED BY <1>1, <1>4

LEMMA ListsKept ==
    ASSUME EnumTypeOK, PlanInv, FlowInv, NEW f \in Starts, Moves(f), ListedInv,
           Len(hist) = 1 => ListsOf(fetchers'[f])
    PROVE  ListedInv'
<1>1. /\ index' = index /\ hist' = hist /\ Starts' = Starts
      /\ \A g \in Starts : g # f => fetchers'[g] = fetchers[g]
  BY MoveFacts DEF Moves
<1>2. Listed' = Listed /\ Downloadable(index)' = Downloadable(index)
  BY <1>1 DEF Listed, Downloadable
<1> SUFFICES ASSUME Len(hist) = 1, NEW g \in Starts PROVE ListsOf(fetchers'[g])
  BY <1>1, <1>2 DEF ListedInv, ListsOf
<1>3. \A h \in Starts : ListsOf(fetchers[h])
  BY DEF ListedInv, ListsOf
<1> QED BY <1>1, <1>3

LEMMA QuietNames ==
    ASSUME EnumTypeOK, PlanInv, HistInv, FlowInv, NEW f \in Starts, Quiet(f), NameInv, ListedInv
    PROVE  NameInv' /\ ListedInv'
<1> DEFINE me == fetchers[f]
           new == fetchers'[f]
<1>1. /\ Moves(f) /\ Seen' = Seen /\ new.role = me.role /\ me.offset <= new.offset
      /\ new.masters = me.masters /\ new.assets = me.assets /\ new.paired = me.paired
      /\ new.emitted = me.emitted /\ new.todo = me.todo /\ new.sent = me.sent
  BY DEF Quiet, Keeps, Moves
<1>2. me.offset \in Nat /\ new.offset \in Nat /\ DOMAIN index \subseteq Nat
  BY <1>1, TaskType, IndexFacts DEF Moves, Fetching
<1>3. (Len(hist) = 1 /\ FamiliesLed(index)) => NamesOf(f, new) /\ \A item \in Seen' : GoodName(item)
  <2> SUFFICES ASSUME Len(hist) = 1, FamiliesLed(index)
               PROVE  NamesOf(f, new) /\ \A item \in Seen' : GoodName(item)
    OBVIOUS
  <2>1. NamesOf(f, me) /\ \A item \in Seen : GoodName(item)
    BY DEF NameInv, NamesOf
  <2>2. \A a \in me.assets : \A i \in DOMAIN index : MasterOf[a] \in index[i] => i <= new.offset
    BY <2>1, <1>1, <1>2 DEF NamesOf
  <2> QED BY <2>1, <2>2, <1>1 DEF NamesOf
<1>4. Len(hist) = 1 => ListsOf(new)
  BY <1>1 DEF ListedInv, ListsOf
<1> QED BY <1>1, <1>3, <1>4, NamesKept, ListsKept

LEMMA EmitNames ==
    ASSUME EnumTypeOK, PlanInv, HistInv, FlowInv, NEW f \in Starts, NEW item \in fetchers[f].todo,
           Emit(f, item), NameInv, ListedInv
    PROVE  NameInv' /\ ListedInv'
<1> DEFINE me == fetchers[f]
           new == fetchers'[f]
           x == item.asset
<1>1. /\ Moves(f) /\ item \in Found /\ new.todo = me.todo \ {item}
      /\ new.emitted = (IF me.role = "data" THEN me.emitted ELSE me.emitted \cup {x})
      /\ new.masters = me.masters /\ new.assets = me.assets /\ new.paired = me.paired
      /\ new.offset = me.offset /\ new.role = me.role /\ got' = got
      /\ \/ ShouldEmit(f, x) /\ new.sent = me.sent + 1 /\ channel' = Append(channel, item)
         \/ new.sent = me.sent /\ (channel' = channel \/ channel' = Append(channel, Error))
  BY EmitEffect DEF Moves
<1>2. Seen' \subseteq Seen \cup {item}
  <2>1. item \in Item
    BY <1>1 DEF Item
  <2> QED BY <2>1, <1>1, SeenFacts
<1>3. (Len(hist) = 1 /\ FamiliesLed(index)) => NamesOf(f, new) /\ \A y \in Seen' : GoodName(y)
  <2> SUFFICES ASSUME Len(hist) = 1, FamiliesLed(index)
               PROVE  NamesOf(f, new) /\ \A y \in Seen' : GoodName(y)
    OBVIOUS
  <2>1. NamesOf(f, me) /\ \A y \in Seen : GoodName(y)
    BY DEF NameInv, NamesOf
  <2> QED BY <2>1, <1>1, <1>2 DEF NamesOf
<1>4. ASSUME Len(hist) = 1 PROVE ListsOf(new)
  <2>1. ListsOf(me)
    BY <1>4 DEF ListedInv, ListsOf
  <2>2. x \in Downloadable(index)
    BY <2>1 DEF ListsOf
  <2>3. ASSUME Cardinality(Starts) = 1 PROVE new.role # "data" /\ new.sent <= Cardinality(new.emitted)
    <3>1. me.role # "data" /\ me.sent <= Cardinality(me.emitted) /\ me.sent \in Nat
      BY <2>1, <2>3, TaskType DEF ListsOf, Fetching
    <3>2. IsFiniteSet(me.emitted) /\ Cardinality(me.emitted) \in Nat
      <4>1. me.emitted \in SUBSET Assets
        BY TaskType DEF Fetching
      <4> QED BY <4>1, ConstFacts, FS_Subset, FS_CardinalityType
    <3>3. /\ Cardinality(me.emitted \cup {x}) = IF x \in me.emitted THEN Cardinality(me.emitted)
                                               ELSE Cardinality(me.emitted) + 1
      BY <3>2, FS_AddElement
    <3>4. ShouldEmit(f, x) => x \notin me.emitted
      BY <3>1 DEF ShouldEmit
    <3>5. new.emitted = me.emitted \cup {x}
      BY <3>1, <1>1
    <3>6. me.sent <= Cardinality(new.emitted) /\ (ShouldEmit(f, x) => me.sent + 1 <= Cardinality(new.emitted))
      BY <3>1, <3>2, <3>3, <3>4, <3>5
    <3> QED BY <3>1, <3>6, <1>1
  <2> QED BY <2>1, <2>2, <2>3, <1>1 DEF ListsOf
<1> QED BY <1>1, <1>3, <1>4, NamesKept, ListsKept

(* The first of a family's records on a page is the one at its master's rank. *)
LEMMA LedEarliest ==
    ASSUME EnumTypeOK, HistInv, FamiliesLed(index), NEW o \in Nat, NEW m \in Masters, m \in Page(o)
    PROVE  LET a == Earliest(Siblings(m, Page(o) \cap Assets))
           IN  \E i \in DOMAIN index : {a, m} \subseteq index[i]
<1> DEFINE fresh == Siblings(m, Page(o) \cap Assets)
           a == Earliest(fresh)
<1>1. \A r : r \in Page(o) <=> \E i \in DOMAIN index : o < i /\ i <= o + PageSize /\ r \in index[i]
  BY PageFacts
<1>2. WellListed(index) /\ DOMAIN index \subseteq Nat
  BY IndexFacts
<1>3. PICK i \in DOMAIN index : o < i /\ i <= o + PageSize /\ m \in index[i]
  BY <1>1
<1>4. PICK c \in Assets \cap index[i] : MasterOf[c] = m
  BY <1>3 DEF FamiliesLed
<1>5. c \in fresh
  BY <1>1, <1>3, <1>4 DEF Siblings
<1>6. \A b \in fresh : b \in Assets /\ MasterOf[b] = m /\ b \in Page(o)
  BY DEF Siblings
<1>7. \A b \in fresh : Rank(b) \in DOMAIN index /\ b \in index[Rank(b)]
  <2> TAKE b \in fresh
  <2>1. \E j \in DOMAIN index : b \in index[j]
    BY <1>1, <1>6
  <2>2. b \in Listed
    BY <2>1 DEF Listed, Range
  <2> QED BY <2>1, <2>2 DEF Rank
<1>8. \A b \in fresh : i <= Rank(b)
  <2>1. \A j, k \in DOMAIN index : \A b \in Assets \cap index[j] : MasterOf[b] \in index[k] => k <= j
    BY DEF FamiliesLed
  <2> TAKE b \in fresh
  <2>2. Rank(b) \in DOMAIN index /\ b \in Assets \cap index[Rank(b)] /\ MasterOf[b] \in index[i]
    BY <1>3, <1>6, <1>7
  <2> QED BY <2>1, <2>2
<1>9. Rank(c) = i
  <2>1. \A j, k \in DOMAIN index : j # k => index[j] \cap index[k] = {}
    BY <1>2 DEF WellListed
  <2> QED BY <2>1, <1>4, <1>5, <1>7
<1> HIDE DEF fresh
<1>10. a \in fresh /\ \A b \in fresh : Rank(a) <= Rank(b)
  BY <1>5, <1>8, <1>9 DEF Earliest
<1>11. Rank(a) = i
  BY <1>2, <1>5, <1>7, <1>8, <1>9, <1>10
<1>12. {a, m} \subseteq index[i]
  BY <1>3, <1>7, <1>10, <1>11
<1> QED BY <1>12 DEF fresh

LEMMA NamedByFirst ==
    ASSUME NEW fresh, NEW m
    PROVE  \A x \in Named({}, fresh, m) :
               x.asset \in fresh /\ (x.id = x.asset \/ (x.asset = Earliest(fresh) /\ x.id = m))
<1> DEFINE first == Earliest(fresh)
           I(a) == [asset |-> a, id |-> IF a = first THEN m ELSE a]
<1>1. Named({}, fresh, m) = {I(a) : a \in {} \cup fresh}
  BY DEF Named
<1>2. {} \cup fresh = fresh
  OBVIOUS
<1> HIDE DEF first
<1>3. \A a \in fresh : I(a).asset = a /\ (I(a).id = a \/ (a = first /\ I(a).id = m))
  OBVIOUS
<1> HIDE DEF I
<1>4. Named({}, fresh, m) = {I(a) : a \in fresh}
  BY <1>1, <1>2
<1> QED BY <1>3, <1>4 DEF first

LEMMA FullPageTodo ==
    ASSUME EnumTypeOK, HistInv, FamiliesLed(index), NEW o \in Nat,
           NEW now \in Fetching, now.masters = {},
           \A a \in now.assets : \A i \in DOMAIN index : MasterOf[a] \in index[i] => i <= o,
           NEW cache, NEW later, NEW item \in Paired(now, Page(o), cache, later).todo
    PROVE  GoodName(item)
<1> DEFINE records == Page(o)
           pm == records \cap Masters
           pa == records \cap Assets
           known == now.assets \cup pa
           matched == {m \in pm : Siblings(m, known) # {}}
           rest == {a \in pa : MasterOf[a] \notin pm}
           waited == {m \in now.masters : Siblings(m, rest) # {}}
           recent == {m \in cache \ waited : Siblings(m, rest) # {}}
           left == {a \in rest : MasterOf[a] \notin waited \cup recent}
           N1 == {Named(Siblings(m, now.assets), Siblings(m, pa), m) : m \in matched}
           N2 == {Named({}, Siblings(m, rest), m) : m \in waited}
           N3 == {LateNamed({}, Siblings(m, rest), m) : m \in recent}
           todo1 == UNION (N1 \cup N2 \cup N3)
<1>1. item \in todo1
  BY DEF Paired, Fetching
<1>2. waited = {}
  OBVIOUS
<1>3. N2 = {}
  BY <1>2
<1>4. \/ \E m \in matched : item \in Named(Siblings(m, now.assets), Siblings(m, pa), m)
      \/ \E m \in recent : item \in LateNamed({}, Siblings(m, rest), m)
  BY <1>1, <1>3
<1>5. ASSUME NEW m \in recent, item \in LateNamed({}, Siblings(m, rest), m) PROVE GoodName(item)
  BY <1>5, NamedFresh DEF GoodName
<1>6. ASSUME NEW m \in matched, item \in Named(Siblings(m, now.assets), Siblings(m, pa), m)
      PROVE  GoodName(item)
  <2>1. m \in Masters /\ m \in Page(o)
    OBVIOUS
  <2>2. PICK i \in DOMAIN index : o < i /\ m \in index[i]
    BY <2>1, PageFacts
  <2>3. Siblings(m, now.assets) = {}
    <3>1. DOMAIN index \subseteq Nat
      BY IndexFacts
    <3> QED BY <2>2, <3>1 DEF Siblings
  <2> DEFINE fresh == Siblings(m, pa)
  <2>4. item \in Named({}, fresh, m)
    BY <1>6, <2>3
  <2>5. fresh \subseteq Assets /\ \A a \in fresh : MasterOf[a] = m
    BY DEF Siblings
  <2>6. LET a == Earliest(fresh) IN \E j \in DOMAIN index : {a, m} \subseteq index[j]
    BY <2>1, LedEarliest
  <2> HIDE DEF fresh
  <2>7. item.asset \in fresh /\ (item.id = item.asset \/ (item.asset = Earliest(fresh) /\ item.id = m))
    BY <2>4, NamedByFirst
  <2> QED BY <2>5, <2>6, <2>7 DEF GoodName
<1> HIDE DEF matched, recent
<1> QED BY <1>4, <1>5, <1>6

LEMMA FullPageNames ==
    ASSUME EnumTypeOK, PlanInv, HistInv, FlowInv, NEW f \in Starts,
           FetchPage(f), Page(fetchers[f].offset) # {}, NameInv, ListedInv
    PROVE  NameInv' /\ ListedInv'
<1> DEFINE me == fetchers[f]
           new == fetchers'[f]
           o == me.offset
           records == Page(o)
<1>1. /\ Moves(f) /\ me.offset < new.offset /\ new.sent = me.sent /\ new.emitted = me.emitted
      /\ \A a \in Assets : Pending(new, a) <=> a \in me.assets \cup records
      /\ \A a \in new.assets : a \in me.assets \/ (a \in records /\ MasterOf[a] \notin records)
      /\ \A item \in new.todo : MasterOf[item.asset] \in records \cup me.masters \cup me.paired
      /\ \A m \in new.masters : m \in me.masters \/
            (m \in records /\ \A a \in records \cap Assets : MasterOf[a] # m)
      /\ new.paired \subseteq me.paired \cup records \cup me.masters
      /\ channel' = channel /\ got' = got /\ new.role = me.role
  BY FullPageEffect DEF Moves
<1>2. PICK now \in Fetching, cache \in SUBSET Masters, later \in SUBSET Masters :
         now.assets = me.assets /\ now.masters = me.masters /\ new = Paired(now, records, cache, later)
  BY FullPageEffect
<1>3. /\ me \in Fetching /\ new \in Fetching /\ o \in Nat /\ new.offset \in Nat
      /\ DOMAIN index \subseteq Nat /\ PageSize \in Nat /\ MasterOf \in [Assets -> Masters]
  BY <1>1, TaskType, IndexFacts, ConstFacts DEF Moves, Fetching
<1>4. Seen' = Seen
  BY <1>1, SeenFacts
<1>5. \A r : r \in records <=> \E i \in DOMAIN index : o < i /\ i <= o + PageSize /\ r \in index[i]
  BY <1>3, PageFacts
<1>6. ASSUME Len(hist) = 1, FamiliesLed(index)
      PROVE  NamesOf(f, new) /\ \A item \in Seen' : GoodName(item)
  <2>1. NamesOf(f, me) /\ \A item \in Seen : GoodName(item)
    BY <1>6 DEF NameInv, NamesOf
  <2>2. new.masters = {}
    <3> SUFFICES ASSUME NEW m \in new.masters PROVE FALSE
      OBVIOUS
    <3>1. m \in records /\ \A a \in records \cap Assets : MasterOf[a] # m
      BY <2>1, <1>1 DEF NamesOf
    <3>2. PICK i \in DOMAIN index : o < i /\ i <= o + PageSize /\ m \in index[i]
      BY <3>1, <1>5
    <3>3. m \in Masters
      BY <1>3 DEF Fetching
    <3>4. PICK c \in Assets \cap index[i] : MasterOf[c] = m
      BY <3>2, <3>3, <1>6 DEF FamiliesLed
    <3>5. c \in records
      BY <3>2, <3>4, <1>5
    <3> QED BY <3>1, <3>4, <3>5
  <2>3. \A a \in new.assets : \A i \in DOMAIN index : MasterOf[a] \in index[i] => i <= new.offset
    <3> SUFFICES ASSUME NEW a \in new.assets, NEW i \in DOMAIN index, MasterOf[a] \in index[i]
                 PROVE  i <= new.offset
      OBVIOUS
    <3>1. CASE a \in me.assets
      <4>1. i <= o
        BY <3>1, <2>1 DEF NamesOf
      <4> QED BY <4>1, <1>1, <1>3
    <3>2. CASE a \in records /\ MasterOf[a] \notin records
      <4>1. a \in Assets
        BY <1>3 DEF Fetching
      <4>2. PICK j \in DOMAIN index : o < j /\ j <= o + PageSize /\ a \in index[j]
        BY <3>2, <1>5
      <4>3. i <= j
        BY <4>1, <4>2, <1>6 DEF FamiliesLed
      <4>4. ~(o < i /\ i <= o + PageSize)
        BY <3>2, <1>5
      <4> QED BY <4>2, <4>3, <4>4, <1>1, <1>3
    <3> QED BY <3>1, <3>2, <1>1
  <2>4. \A item \in new.todo : GoodName(item)
    <3>1. /\ now.masters = {}
          /\ \A a \in now.assets : \A i \in DOMAIN index : MasterOf[a] \in index[i] => i <= o
      BY <2>1, <1>2 DEF NamesOf
    <3> QED BY <3>1, <1>2, <1>3, <1>6, FullPageTodo
  <2> QED BY <2>1, <2>2, <2>3, <2>4, <1>4 DEF NamesOf
<1>7. ASSUME Len(hist) = 1 PROVE ListsOf(new)
  <2>1. ListsOf(me)
    BY <1>7 DEF ListedInv, ListsOf
  <2>2. records \subseteq Listed
    BY <1>5 DEF Listed, Range
  <2>3. me.masters \subseteq Listed /\ me.assets \subseteq Listed /\ me.paired \subseteq Listed
    BY <2>1 DEF ListsOf
  <2> HIDE DEF new, me, records
  <2>4. new.masters \cup new.assets \cup new.paired \subseteq Listed
    BY <2>2, <2>3, <1>1
  <2>5. \A item \in new.todo : item.asset \in Downloadable(index)
    <3> TAKE item \in new.todo
    <3>1. item.asset \in Assets
      BY <1>3 DEF Fetching, Found
    <3>2. Pending(new, item.asset)
      BY DEF Pending, InTodo
    <3>3. item.asset \in Listed /\ MasterOf[item.asset] \in Listed
      BY <3>1, <3>2, <2>2, <2>3, <1>1
    <3> QED BY <3>1, <3>3 DEF Downloadable, Listed
  <2> QED BY <2>1, <2>4, <2>5, <1>1 DEF ListsOf
<1> QED BY <1>1, <1>6, <1>7, NamesKept, ListsKept

LEMMA StepNames ==
    ASSUME EnumTypeOK, PlanInv, HistInv, FlowInv, \A g \in Starts : TaskInv(g), NameInv, ListedInv,
           NEW f \in Starts, FetcherStep(f) \/ Panic(f)
    PROVE  NameInv' /\ ListedInv'
<1>1. TaskInv(f)
  OBVIOUS
<1>2. CASE \/ StopAtClosed(f) \/ QueryFails(f) \/ Panic(f) \/ EndRange(f) \/ EndPage(f) \/ Finish(f)
           \/ FetchPage(f) /\ Page(fetchers[f].offset) = {}
  BY <1>1, <1>2, QuietSteps, QuietNames
<1>3. CASE FetchPage(f) /\ Page(fetchers[f].offset) # {}
  BY <1>3, FullPageNames
<1>4. ASSUME NEW item \in fetchers[f].todo, Emit(f, item) PROVE NameInv' /\ ListedInv'
  BY <1>4, EmitNames
<1> QED BY <1>2, <1>3, <1>4 DEF FetcherStep

LEMMA TaskStepInv ==
    ASSUME EnumInv, NEW f \in Starts, FetcherStep(f) \/ Panic(f)
    PROVE  EnumInv'
<1>1. /\ EnumTypeOK /\ PlanInv /\ HistInv /\ SentInv /\ FlowInv /\ TrailInv /\ NameInv /\ ListedInv
      /\ \A g \in Starts : TaskInv(g)
  BY DEF EnumInv
<1>2. Moves(f) /\ SentInv' /\ \A g \in Starts : TaskInv(g)'
  BY <1>1, StepTasks
<1>3. Starts' = Starts
  BY <1>1, <1>2, MoveFacts
<1>4. EnumTypeOK' /\ PlanInv' /\ HistInv' /\ FlowInv' /\ ForeignInv'
  BY <1>1, <1>2, MoveType
<1>5. TrailInv'
  BY <1>1, StepTrails
<1>6. NameInv' /\ ListedInv'
  BY <1>1, StepNames
<1> QED BY <1>2, <1>3, <1>4, <1>5, <1>6 DEF EnumInv

-----------------------------------------------------------------------------
(* The steps that move no task. *)

LEMMA SameTrail ==
    ASSUME NEW f \in Starts, NEW t \in DOMAIN hist, hist'[t] = hist[t],
           UNCHANGED <<fetchers, owners>>, Trail(f, t)
    PROVE  Trail(f, t)'
<1>1. \A i, a : Lists(t, i, a)' <=> Lists(t, i, a)
  BY DEF Lists
<1>2. Bounds(f, t)' <=> Bounds(f, t)
  BY <1>1 DEF Bounds, Pending, InTodo
<1>3. LoopTrail(f, t)' <=> LoopTrail(f, t)
  BY <1>1 DEF LoopTrail, Within
<1>4. EmitTrail(f, t)' <=> EmitTrail(f, t)
  BY <1>1 DEF EmitTrail, Within, Pending, InTodo
<1>5. EndTrail(f, t)' <=> EndTrail(f, t)
  BY <1>1 DEF EndTrail, Within
<1> QED BY <1>2, <1>3, <1>4, <1>5 DEF Trail, Broken, Whole

(* A task that has read nothing is right about every snapshot. *)
LEMMA FreshTrail ==
    ASSUME EnumTypeOK, NEW f \in Starts, Fresh(f), UNCHANGED <<fetchers, owners>>, NEW t
    PROVE  Trail(f, t)'
<1> DEFINE me == fetchers[f]
<1>1. /\ me.offset = f /\ me.empties = 0 /\ me.assets = {} /\ me.emitted = {} /\ me.todo = {}
      /\ me.pc # "emit" /\ (me.pc = "loop" \/ AtEnd(me) \/ Broken(me))
      /\ \A a \in Assets : owners[a] # f
  BY DEF Fresh
<1>2. f \in Nat /\ PageSize \in Nat \ {0} /\ Null \notin Nat /\ me.end \in Nat \cup {Null}
  BY TaskType, ConstFacts DEF Fetching
<1>3. Bounds(f, t)'
  BY <1>1 DEF Bounds, Pending, InTodo
<1>4. LoopTrail(f, t)'
  <2> DEFINE b == f + PageSize - 1
  <2>1. b \in Nat /\ f + PageSize <= b + 1 /\ b + me.empties + 1 <= me.offset + PageSize
    BY <1>1, <1>2
  <2>2. \A i \in Nat, a \in Assets :
          /\ ~(f < i /\ i <= me.offset) /\ a \notin me.assets
          /\ owners[a] # f /\ a \notin me.emitted /\ ~(b < i /\ i <= me.offset)
    BY <1>1, <1>2
  <2> HIDE DEF b
  <2> QED BY <2>1, <2>2 DEF LoopTrail
<1>5. me.pc # "loop" /\ ~Broken(me) => EndTrail(f, t)'
  BY <1>1, <1>2 DEF EndTrail, AtEnd, Within
<1> QED BY <1>1, <1>3, <1>4, <1>5 DEF Trail, Broken

LEMMA ChangedInv ==
    ASSUME EnumInv, NEW idx, Changed(idx), result = <<>>
    PROVE  EnumInv'
<1>1. /\ EnumTypeOK /\ PlanInv /\ HistInv /\ SentInv /\ FlowInv /\ TrailInv
      /\ \A g \in Starts : TaskInv(g)
  BY DEF EnumInv
<1>2. /\ WellListed(idx) /\ hist' = Append(hist, idx) /\ idx \in Seq(SUBSET Ids)
      /\ UNCHANGED <<req, faults, fetchers, owners, channel, got, errors, consumer, suppressed, result>>
  BY DEF Changed, reader, WellListed
<1>3. /\ hist \in Seq(Seq(SUBSET Ids)) /\ Len(hist) \in Nat /\ Len(hist) > 0 /\ DOMAIN hist = 1 .. Len(hist)
  BY <1>1 DEF EnumTypeOK, HistInv
<1>4. /\ hist' \in Seq(Seq(SUBSET Ids)) /\ Len(hist') = Len(hist) + 1 /\ DOMAIN hist' = 1 .. Len(hist) + 1
      /\ \A t \in DOMAIN hist : hist'[t] = hist[t]
      /\ hist'[Len(hist) + 1] = idx /\ hist' # <<>> /\ DOMAIN hist \subseteq DOMAIN hist'
  BY <1>2, <1>3
<1>5. /\ Starts' = Starts /\ Capacity' = Capacity /\ Closed' = Closed /\ Seen' = Seen
      /\ (RelayError' <=> RelayError)
  BY <1>2 DEF Starts, Capacity, Closed, Seen, RelayError, Error
<1>6. EnumTypeOK'
  <2>1. \A f \in Starts :
          LET me == fetchers[f]
          IN  /\ me.offset >= f /\ me.token \in DOMAIN hist' \cup {Null}
              /\ Cardinality(me.paired) <= PairBuffer
              /\ me.pc = "loop" => Unpaired(me) <= PairBuffer
    BY <1>1, <1>4 DEF EnumTypeOK
  <2> QED BY <2>1, <1>1, <1>2, <1>4, <1>5 DEF EnumTypeOK, Unpaired, Error
<1>7. PlanInv'
  BY <1>1, <1>2, <1>5 DEF PlanInv, Within
<1>8. HistInv'
  <2> SUFFICES ASSUME NEW t \in DOMAIN hist' PROVE WellListed(hist'[t])
    BY <1>4 DEF HistInv
  <2>1. CASE t \in DOMAIN hist
    BY <2>1, <1>1, <1>4 DEF HistInv
  <2>2. CASE t = Len(hist) + 1
    BY <2>2, <1>2, <1>4
  <2> QED BY <2>1, <2>2, <1>3, <1>4
<1>9. ASSUME NEW f \in Starts PROVE TaskInv(f)'
  <2>1. TaskInv(f) /\ fetchers' = fetchers /\ owners' = owners /\ req' = req
    BY <1>1, <1>2
  <2>2. Fresh(f) => Fresh(f)'
    BY <2>1 DEF Fresh, AtEnd, Broken
  <2>3. fetchers[f].gens \subseteq DOMAIN hist'
    BY <2>1, <1>4 DEF TaskInv
  <2> QED BY <2>1, <2>2, <2>3, <1>5 DEF TaskInv
<1>10. SentInv'
  BY <1>1, <1>2, <1>5 DEF SentInv, Broken
<1>11. FlowInv'
  BY <1>1, <1>2, <1>5 DEF FlowInv, AllEnded, Ended
<1>12. TrailInv'
  <2> SUFFICES ASSUME NEW t \in DOMAIN hist', Coherent(t)', NEW f \in Starts PROVE Trail(f, t)'
    BY <1>5 DEF TrailInv
  <2>1. Coherent(t)
    BY <1>2, <1>5 DEF Coherent
  <2>2. CASE t \in DOMAIN hist
    <3>1. Trail(f, t)
      BY <2>1, <2>2, <1>1 DEF TrailInv
    <3> QED BY <3>1, <2>2, <1>2, <1>4, SameTrail
  <2>3. CASE t \notin DOMAIN hist
    <3>1. fetchers[f].gens = {}
      BY <2>1, <2>3, <1>1 DEF Coherent, TaskInv
    <3>2. Fresh(f)
      BY <3>1, <1>1 DEF TaskInv
    <3> QED BY <3>2, <1>1, <1>2, FreshTrail
  <2> QED BY <2>2, <2>3
<1>13. NameInv' /\ ListedInv' /\ ForeignInv'
  <2>1. Len(hist') # 1
    BY <1>3, <1>4
  <2> QED BY <2>1 DEF NameInv, ListedInv, ForeignInv
<1> QED BY <1>5, <1>6, <1>7, <1>8, <1>9, <1>10, <1>11, <1>12, <1>13 DEF EnumInv

(* What a step of the monitor or of the consumer keeps, if what was sent and an *)
(* error among it are kept for a consumer that still reads.                     *)
LEMMA StillInv ==
    ASSUME EnumInv, UNCHANGED <<hist, req, faults, fetchers, owners, suppressed>>, Closed => Closed',
           Closed' \/ (Seen \subseteq Seen' /\ (RelayError => RelayError')),
           \A item \in Seen' : item \in Seen \/ item.id = item.asset
    PROVE  /\ PlanInv' /\ HistInv' /\ SentInv' /\ TrailInv' /\ NameInv' /\ ListedInv'
           /\ \A f \in Starts' : TaskInv(f)'
           /\ Starts' = Starts /\ Capacity' = Capacity /\ index' = index
           /\ BaseToken' = BaseToken /\ (AllEnded' <=> AllEnded)
<1>1. /\ EnumTypeOK /\ PlanInv /\ HistInv /\ SentInv /\ FlowInv /\ TrailInv /\ NameInv /\ ListedInv
      /\ \A g \in Starts : TaskInv(g)
  BY DEF EnumInv
<1>2. Starts' = Starts /\ Capacity' = Capacity /\ index' = index
  BY DEF Starts, Capacity, index
<1>3. BaseToken' = BaseToken /\ (AllEnded' <=> AllEnded)
  BY DEF BaseToken, Resolve, Tokens, AllEnded, Ended, Starts
<1>4. PlanInv' /\ HistInv'
  BY <1>1, <1>2 DEF PlanInv, HistInv, Within
<1>5. \A f \in Starts : TaskInv(f)'
  <2> TAKE f \in Starts
  <2>1. TaskInv(f)
    BY <1>1
  <2>2. Fresh(f) => Fresh(f)'
    BY DEF Fresh, AtEnd, Broken
  <2> QED BY <2>1, <2>2, <1>2 DEF TaskInv
<1>6. SentInv'
  BY <1>1 DEF SentInv, Broken
<1>7. TrailInv'
  <2> SUFFICES ASSUME NEW t \in DOMAIN hist, Coherent(t)', NEW f \in Starts PROVE Trail(f, t)'
    BY <1>2 DEF TrailInv
  <2>1. Coherent(t)
    BY <1>2 DEF Coherent
  <2>2. Trail(f, t)
    BY <2>1, <1>1 DEF TrailInv
  <2> QED BY <2>2, SameTrail
<1>8. NameInv'
  <2>1. \A item : GoodName(item)' <=> GoodName(item)
    BY <1>2 DEF GoodName
  <2>2. \A item : item.id = item.asset => GoodName(item)
    BY DEF GoodName
  <2>3. FamiliesLed(index') <=> FamiliesLed(index)
    BY <1>2
  <2> SUFFICES ASSUME Len(hist) = 1, FamiliesLed(index)
               PROVE  /\ \A f \in Starts : NamesOf(f, fetchers[f])
                      /\ \A item \in Seen' : GoodName(item)
    BY <1>2, <2>1, <2>3 DEF NameInv, NamesOf, FamiliesLed
  <2>4. /\ \A f \in Starts : NamesOf(f, fetchers[f])
        /\ \A item \in Seen : GoodName(item)
    BY <1>1 DEF NameInv, NamesOf
  <2> QED BY <2>2, <2>4
<1>9. ListedInv'
  <2>1. Listed' = Listed /\ Downloadable(index)' = Downloadable(index)
    BY <1>2 DEF Listed, Downloadable
  <2> QED BY <2>1, <1>1, <1>2 DEF ListedInv
<1> QED BY <1>2, <1>3, <1>4, <1>5, <1>6, <1>7, <1>8, <1>9

LEMMA TypeStill ==
    ASSUME EnumTypeOK, UNCHANGED <<hist, req, faults, fetchers, owners, suppressed>>,
           channel' \in Seq(Item), Len(channel') <= Capacity + Cardinality(Foreign) + 1,
           got' \subseteq Item \ {Error}, errors' \in BOOLEAN,
           consumer' \in {"reading", "dropped", "ended"},
           result' \in {<<>>} \cup {<<t>> : t \in DOMAIN hist \cup {Null}}
    PROVE  EnumTypeOK'
<1>1. Starts' = Starts /\ Capacity' = Capacity
  BY DEF Starts, Capacity
<1> QED BY <1>1 DEF EnumTypeOK, Unpaired, Error

LEMMA TokenType ==
    ASSUME EnumTypeOK
    PROVE  BaseToken \in DOMAIN hist \cup {Null}
<1>1. Tokens \subseteq DOMAIN hist
  BY DEF Tokens, EnumTypeOK
<1>2. Cardinality(Tokens) = 1 => Tokens # {}
  BY FS_EmptySet
<1>3. Resolve \in DOMAIN hist \cup {Null}
  BY <1>1, <1>2 DEF Resolve
<1> QED BY <1>3 DEF BaseToken

LEMMA RangeOfConcat ==
    ASSUME NEW S, NEW s \in Seq(S), NEW u \in Seq(S)
    PROVE  /\ s \o u \in Seq(S) /\ Len(s \o u) = Len(s) + Len(u)
           /\ Range(s \o u) = Range(s) \cup Range(u)
<1> DEFINE v == s \o u
<1>1. /\ v \in Seq(S) /\ Len(v) = Len(s) + Len(u) /\ Len(s) \in Nat /\ Len(u) \in Nat
      /\ DOMAIN v = 1 .. Len(s) + Len(u) /\ DOMAIN s = 1 .. Len(s) /\ DOMAIN u = 1 .. Len(u)
      /\ \A i \in 1 .. Len(s) + Len(u) : v[i] = IF i <= Len(s) THEN s[i] ELSE u[i - Len(s)]
  OBVIOUS
<1> HIDE DEF v
<1>2. Range(v) \subseteq Range(s) \cup Range(u)
  <2> SUFFICES ASSUME NEW i \in DOMAIN v PROVE v[i] \in Range(s) \cup Range(u)
    BY DEF Range
  <2>1. CASE i <= Len(s)
    BY <2>1, <1>1 DEF Range
  <2>2. CASE ~(i <= Len(s))
    <3>1. i - Len(s) \in DOMAIN u /\ v[i] = u[i - Len(s)]
      BY <2>2, <1>1
    <3> QED BY <3>1 DEF Range
  <2> QED BY <2>1, <2>2
<1>3. Range(s) \subseteq Range(v)
  <2> SUFFICES ASSUME NEW i \in DOMAIN s PROVE s[i] \in Range(v)
    BY DEF Range
  <2>1. i \in DOMAIN v /\ v[i] = s[i]
    BY <1>1
  <2> QED BY <2>1 DEF Range
<1>4. Range(u) \subseteq Range(v)
  <2> SUFFICES ASSUME NEW i \in DOMAIN u PROVE u[i] \in Range(v)
    BY DEF Range
  <2>1. i + Len(s) \in DOMAIN v /\ v[i + Len(s)] = u[i]
    BY <1>1
  <2> QED BY <2>1 DEF Range
<1> QED BY <1>1, <1>2, <1>3, <1>4 DEF v

LEMMA RangeOfTail ==
    ASSUME NEW S, NEW s \in Seq(S), s # <<>>
    PROVE  /\ Tail(s) \in Seq(S) /\ Len(Tail(s)) = Len(s) - 1 /\ Head(s) \in S
           /\ Range(s) = Range(Tail(s)) \cup {Head(s)}
<1> DEFINE v == Tail(s)
<1>1. /\ v \in Seq(S) /\ Len(v) = Len(s) - 1 /\ Len(s) \in Nat /\ Len(s) > 0 /\ Head(s) \in S
      /\ DOMAIN v = 1 .. Len(s) - 1 /\ DOMAIN s = 1 .. Len(s) /\ Head(s) = s[1]
      /\ \A i \in 1 .. Len(s) - 1 : v[i] = s[i + 1]
  OBVIOUS
<1> HIDE DEF v
<1>2. Range(s) \subseteq Range(v) \cup {Head(s)}
  <2> SUFFICES ASSUME NEW i \in DOMAIN s PROVE s[i] \in Range(v) \cup {Head(s)}
    BY DEF Range
  <2>1. CASE i = 1
    BY <2>1, <1>1
  <2>2. CASE i # 1
    <3>1. i - 1 \in DOMAIN v /\ v[i - 1] = s[i]
      BY <2>2, <1>1
    <3> QED BY <3>1 DEF Range
  <2> QED BY <2>1, <2>2
<1>3. Range(v) \subseteq Range(s)
  <2> SUFFICES ASSUME NEW i \in DOMAIN v PROVE v[i] \in Range(s)
    BY DEF Range
  <2>1. i + 1 \in DOMAIN s /\ v[i] = s[i + 1]
    BY <1>1
  <2> QED BY <2>1 DEF Range
<1>4. Head(s) \in Range(s)
  BY <1>1 DEF Range
<1> QED BY <1>1, <1>2, <1>3, <1>4 DEF v

LEMMA SendTokenInv ==
    ASSUME EnumInv, SendToken
    PROVE  EnumInv'
<1>1. /\ AllEnded /\ result = <<>> /\ ~req.album /\ result' = <<BaseToken>>
      /\ UNCHANGED <<hist, req, faults, fetchers, owners, channel, got, errors, consumer, suppressed>>
  BY DEF SendToken, provider, reader
<1>2. EnumTypeOK /\ FlowInv
  BY DEF EnumInv
<1>3. Closed' = Closed /\ Seen' = Seen /\ RelayError' = RelayError
  BY <1>1 DEF Closed, Seen, RelayError, Error
<1>4. /\ PlanInv' /\ HistInv' /\ SentInv' /\ TrailInv' /\ NameInv' /\ ListedInv'
      /\ \A f \in Starts' : TaskInv(f)'
      /\ BaseToken' = BaseToken /\ (AllEnded' <=> AllEnded)
  BY <1>1, <1>3, StillInv
<1>5. EnumTypeOK'
  <2>1. result' \in {<<>>} \cup {<<t>> : t \in DOMAIN hist \cup {Null}}
    BY <1>1, <1>2, TokenType
  <2> QED BY <2>1, <1>1, <1>2, TypeStill DEF EnumTypeOK
<1>6. FlowInv' /\ ForeignInv'
  BY <1>1, <1>2, <1>4 DEF FlowInv, ForeignInv
<1> QED BY <1>4, <1>5, <1>6 DEF EnumInv

LEMMA ReceiveInv ==
    ASSUME EnumInv, Receive
    PROVE  EnumInv'
<1>1. /\ consumer = "reading" /\ channel # <<>> /\ channel' = Tail(channel)
      /\ IF Head(channel) = Error THEN errors' = TRUE /\ got' = got
         ELSE got' = got \cup {Head(channel)} /\ errors' = errors
      /\ UNCHANGED <<hist, req, faults, fetchers, owners, consumer, suppressed, result>>
  BY DEF Receive, provider
<1>2. EnumTypeOK /\ FlowInv /\ ForeignInv /\ PlanInv
  BY DEF EnumInv
<1>3. channel \in Seq(Item) /\ got \subseteq Item \ {Error} /\ errors \in BOOLEAN /\ Len(channel) \in Nat
  BY <1>2 DEF EnumTypeOK
<1>4. /\ Tail(channel) \in Seq(Item) /\ Len(Tail(channel)) = Len(channel) - 1 /\ Head(channel) \in Item
      /\ Range(channel) = Range(Tail(channel)) \cup {Head(channel)}
  BY <1>1, <1>3, RangeOfTail
<1>5. Seen' = Seen
  BY <1>1, <1>4 DEF Seen, Error
<1>6. (RelayError => RelayError') /\ Closed' = Closed
  BY <1>1, <1>4 DEF RelayError, Closed, Error
<1>7. /\ PlanInv' /\ HistInv' /\ SentInv' /\ TrailInv' /\ NameInv' /\ ListedInv'
      /\ \A f \in Starts' : TaskInv(f)'
      /\ BaseToken' = BaseToken /\ (AllEnded' <=> AllEnded)
      /\ Starts' = Starts /\ Capacity' = Capacity /\ index' = index
  BY <1>1, <1>5, <1>6, StillInv
<1>8. Capacity \in Nat /\ Cardinality(Foreign) \in Nat
  BY <1>2, ConstFacts, FS_CardinalityType DEF PlanInv, Capacity
<1>9. EnumTypeOK'
  <2>1. got' \subseteq Item \ {Error} /\ errors' \in BOOLEAN /\ channel' \in Seq(Item)
    BY <1>1, <1>3, <1>4
  <2>2. Len(channel') <= Capacity + Cardinality(Foreign) + 1
    BY <1>1, <1>2, <1>3, <1>4, <1>8 DEF EnumTypeOK
  <2> QED BY <2>1, <2>2, <1>1, <1>2, TypeStill DEF EnumTypeOK
<1>10. FlowInv'
  <2>1. result = <<>> => Len(channel') <= Capacity
    BY <1>1, <1>2, <1>3, <1>4, <1>8 DEF FlowInv
  <2> QED BY <2>1, <1>1, <1>2, <1>7 DEF FlowInv
<1>11. ForeignInv'
  BY <1>1, <1>2, <1>5, <1>6, <1>7 DEF ForeignInv, Downloadable
<1> QED BY <1>7, <1>9, <1>10, <1>11 DEF EnumInv

LEMMA EndOfStreamInv ==
    ASSUME EnumInv, EndOfStream
    PROVE  EnumInv'
<1>1. /\ consumer = "reading" /\ channel = <<>> /\ AllEnded /\ (req.album => result # <<>>)
      /\ consumer' = "ended"
      /\ UNCHANGED <<hist, req, faults, fetchers, owners, channel, got, errors, suppressed, result>>
  BY DEF EndOfStream, provider
<1>2. EnumTypeOK /\ FlowInv /\ ForeignInv
  BY DEF EnumInv
<1>3. ~Closed /\ ~Closed' /\ Seen' = Seen /\ RelayError' = RelayError
  BY <1>1 DEF Closed, Seen, RelayError, Error
<1>4. /\ PlanInv' /\ HistInv' /\ SentInv' /\ TrailInv' /\ NameInv' /\ ListedInv'
      /\ \A f \in Starts' : TaskInv(f)'
      /\ BaseToken' = BaseToken /\ (AllEnded' <=> AllEnded)
      /\ Starts' = Starts /\ Capacity' = Capacity /\ index' = index
  BY <1>1, <1>3, StillInv
<1>5. EnumTypeOK'
  BY <1>1, <1>2, TypeStill DEF EnumTypeOK
<1>6. FlowInv'
  BY <1>1, <1>2, <1>4 DEF FlowInv
<1>7. ForeignInv'
  BY <1>1, <1>2, <1>3, <1>4 DEF ForeignInv, Downloadable
<1> QED BY <1>4, <1>5, <1>6, <1>7 DEF EnumInv

LEMMA DropStreamInv ==
    ASSUME EnumInv, DropStream
    PROVE  EnumInv'
<1>1. /\ consumer = "reading" /\ consumer' = "dropped" /\ channel' = <<>>
      /\ UNCHANGED <<hist, req, faults, fetchers, owners, got, errors, suppressed, result>>
  BY DEF DropStream, provider
<1>2. EnumTypeOK /\ FlowInv /\ PlanInv
  BY DEF EnumInv
<1>3. Closed' /\ Seen' \subseteq Seen
  <2>1. Range(channel') = {}
    BY <1>1 DEF Range
  <2> QED BY <2>1, <1>1 DEF Closed, Seen, Error
<1>4. /\ PlanInv' /\ HistInv' /\ SentInv' /\ TrailInv' /\ NameInv' /\ ListedInv'
      /\ \A f \in Starts' : TaskInv(f)'
      /\ BaseToken' = BaseToken /\ (AllEnded' <=> AllEnded) /\ Capacity' = Capacity
  BY <1>1, <1>3, StillInv
<1>5. Capacity \in Nat /\ Cardinality(Foreign) \in Nat
  BY <1>2, ConstFacts, FS_CardinalityType DEF PlanInv, Capacity
<1>6. EnumTypeOK'
  <2>1. channel' \in Seq(Item) /\ Len(channel') <= Capacity + Cardinality(Foreign) + 1
    BY <1>1, <1>5
  <2> QED BY <2>1, <1>1, <1>2, TypeStill DEF EnumTypeOK
<1>7. FlowInv' /\ ForeignInv'
  BY <1>1, <1>2, <1>3, <1>4, <1>5 DEF FlowInv, ForeignInv
<1> QED BY <1>4, <1>6, <1>7 DEF EnumInv

(* What a hydration sends. *)
LEMMA HydratedFacts ==
    ASSUME NEW found \in SUBSET Foreign, NEW order \in SetToSeqs(found)
    PROVE  /\ Hydrated(order) \in Seq(Item) /\ Len(Hydrated(order)) \in Nat
           /\ Len(Hydrated(order)) <= Cardinality(Foreign)
           /\ \A item \in Range(Hydrated(order)) : item # Error /\ item.id = item.asset
           /\ \A x \in found : \E item \in Range(Hydrated(order)) : item.asset = x
<1> DEFINE n == Cardinality(found)
           D == 1 .. n
           h == Hydrated(order)
<1>1. /\ IsFiniteSet(found) /\ n \in Nat /\ n <= Cardinality(Foreign) /\ Null \notin Foreign
  BY ConstFacts, FS_Subset, FS_CardinalityType
<1>2. order \in [D -> found] /\ \A i, j \in D : i # j => order[i] # order[j]
  BY DEF SetToSeqs
<1>3. \A x \in found : \E i \in D : order[i] = x
  <2>1. order \in Injection(D, found)
    BY <1>2 DEF Injection, IsInjective
  <2>2. IsFiniteSet(D) /\ Cardinality(D) = n
    BY <1>1, FS_Interval
  <2>3. order \in Surjection(D, found)
    <3> HIDE DEF D
    <3> QED BY <1>1, <2>1, <2>2, FS_Injection
  <2> QED BY <2>3 DEF Surjection
<1>4. DOMAIN h = D /\ \A i \in D : h[i] = [asset |-> order[i], id |-> order[i]]
  BY <1>2 DEF Hydrated
<1>5. \A i \in D : order[i] \in Foreign /\ h[i] \in Item /\ h[i].asset = order[i] /\ h[i].id = order[i]
  <2> TAKE i \in D
  <2>1. order[i] \in Foreign
    BY <1>2
  <2> QED BY <2>1, <1>4 DEF Item
<1>6. h \in Seq(Item) /\ Len(h) = n
  <2>1. h = [i \in D |-> h[i]]
    BY <1>4 DEF Hydrated
  <2> HIDE DEF h
  <2>2. h \in [1 .. n -> Item]
    BY <2>1, <1>5
  <2> QED BY <2>2, <1>1
<1>7. \A item \in Range(h) : \E i \in D : item = h[i]
  BY <1>4 DEF Range
<1>8. \A i \in D : h[i] \in Range(h)
  BY <1>4 DEF Range
<1> HIDE DEF h, D, n
<1>9. \A item \in Range(h) : item # Error /\ item.id = item.asset
  BY <1>1, <1>5, <1>7 DEF Error
<1>10. \A x \in found : \E item \in Range(h) : item.asset = x
  BY <1>3, <1>5, <1>8
<1> QED BY <1>1, <1>6, <1>9, <1>10 DEF h, n

(* A single range that sent as many records as the album has members left none *)
(* in another zone.                                                            *)
LEMMA NoForeignLeft ==
    ASSUME EnumInv, Len(hist) = 1, Cardinality(Starts) = 1, req.limit = Null,
           req.count = Cardinality(Downloadable(index) \cup Foreign), ~ShouldHydrate
    PROVE  Foreign = {}
<1> DEFINE D == Downloadable(index)
<1>1. EnumTypeOK /\ PlanInv /\ ListedInv
  BY DEF EnumInv
<1>2. D \subseteq Assets /\ IsFiniteSet(Assets) /\ IsFiniteSet(Foreign) /\ D \cap Foreign = {} /\ Null \notin Nat
  BY ConstFacts DEF Downloadable
<1> HIDE DEF D
<1>3. IsFiniteSet(D) /\ Cardinality(D) \in Nat /\ Cardinality(Foreign) \in Nat
  BY <1>2, FS_Subset, FS_CardinalityType
<1>4. Cardinality(D \cup Foreign) = Cardinality(D) + Cardinality(Foreign)
  <2>1. Cardinality(D \cup Foreign) = Cardinality(D) + Cardinality(Foreign) - Cardinality(D \cap Foreign)
    BY <1>2, <1>3, FS_Union
  <2>2. Cardinality(D \cap Foreign) = 0
    BY <1>2, FS_EmptySet
  <2> QED BY <2>1, <2>2, <1>3
<1>5. PICK f : Starts = {f}
  BY <1>1, FS_Singleton DEF PlanInv
<1> DEFINE me == fetchers[f]
<1>6. me.sent \in Nat /\ me.emitted \in SUBSET Assets
  BY <1>1, <1>5, TaskType DEF Fetching
<1>7. BaseSeen = me.sent
  <2> DEFINE n == me.sent
             S == {f}
             T == 1 .. n
  <2>1. UNION {{g} \X (1 .. fetchers[g].sent) : g \in Starts} = S \X T
    BY <1>5
  <2>2. IsFiniteSet(S) /\ Cardinality(S) = 1
    BY FS_Singleton
  <2>3. IsFiniteSet(T) /\ Cardinality(T) = n
    <3>1. 1 \in Int /\ n \in Int /\ n \in Nat
      BY <1>6
    <3> HIDE DEF n
    <3>2. IsFiniteSet(T) /\ Cardinality(T) = IF 1 > n THEN 0 ELSE n - 1 + 1
      BY <3>1, FS_Interval
    <3> QED BY <3>1, <3>2
  <2> HIDE DEF S, T
  <2>4. Cardinality(S \X T) = Cardinality(S) * Cardinality(T)
    BY <2>2, <2>3, FS_Product
  <2>5. Cardinality(S \X T) = 1 * n /\ n \in Nat
    BY <2>2, <2>3, <2>4, <1>6
  <2>6. BaseSeen = Cardinality(S \X T)
    BY <2>1 DEF BaseSeen
  <2> HIDE DEF n
  <2>7. BaseSeen = n
    BY <2>5, <2>6
  <2> QED BY <2>7 DEF n
<1>8. me.emitted \subseteq D /\ me.sent <= Cardinality(me.emitted)
  BY <1>1, <1>5 DEF ListedInv, D
<1>9. Cardinality(me.emitted) \in Nat /\ Cardinality(me.emitted) <= Cardinality(D)
  BY <1>3, <1>8, FS_Subset, FS_CardinalityType
<1>10. ~(BaseSeen < req.count) /\ req.count = Cardinality(D) + Cardinality(Foreign)
  BY <1>2, <1>3, <1>4 DEF ShouldHydrate, D
<1>11. Cardinality(Foreign) = 0
  BY <1>3, <1>6, <1>7, <1>8, <1>9, <1>10
<1> QED BY <1>2, <1>11, FS_EmptySet

LEMMA HydrateInv ==
    ASSUME EnumInv, Hydrate
    PROVE  EnumInv'
<1>1. /\ AllEnded /\ result = <<>> /\ req.album
      /\ UNCHANGED <<hist, req, faults, fetchers, owners, got, errors, consumer, suppressed>>
  BY DEF Hydrate, provider, reader
<1>2. EnumTypeOK /\ FlowInv /\ PlanInv
  BY DEF EnumInv
<1>3. /\ channel \in Seq(Item) /\ Len(channel) \in Nat /\ Len(channel) <= Capacity /\ consumer # "ended"
      /\ Capacity \in Nat /\ Cardinality(Foreign) \in Nat /\ IsFiniteSet(Foreign)
  BY <1>1, <1>2, ConstFacts, FS_CardinalityType DEF EnumTypeOK, FlowInv, PlanInv, Capacity
<1> DEFINE Claims == /\ ~Closed /\ req.limit = Null /\ Len(hist) = 1 /\ Cardinality(Starts) = 1
                     /\ req.count = Cardinality(Downloadable(index) \cup Foreign)
<1>4. /\ channel' \in Seq(Item) /\ Len(channel') <= Capacity + Cardinality(Foreign) + 1
      /\ result' \in {<<Null>>, <<BaseToken>>}
      /\ Seen \subseteq Seen' /\ (RelayError => RelayError')
      /\ \A item \in Seen' : item \in Seen \/ item.id = item.asset
      /\ (Claims /\ result' # <<Null>>) => \A x \in Foreign : \E item \in Seen' : item.asset = x
  <2>1. ASSUME channel' = channel, result' \in {<<Null>>, <<BaseToken>>},
               (~Closed /\ result' # <<Null>>) => ~ShouldHydrate \/ Missing = {}
        PROVE  <1>4!:
    <3>1. Seen' = Seen /\ RelayError' = RelayError
      BY <1>1, <2>1 DEF Seen, RelayError, Error
    <3>2. (Claims /\ result' # <<Null>>) => \A x \in Foreign : \E item \in Seen : item.asset = x
      <4> SUFFICES ASSUME Claims, result' # <<Null>>, NEW x \in Foreign
                   PROVE  \E item \in Seen : item.asset = x
        OBVIOUS
      <4>1. CASE ~ShouldHydrate
        BY <4>1, NoForeignLeft
      <4>2. CASE Missing = {}
        BY <4>2 DEF Missing
      <4> QED BY <4>1, <4>2, <2>1
    <3> QED BY <3>1, <3>2, <1>3, <2>1
  <2>2. ASSUME NEW found \in SUBSET (Missing \cap Foreign), NEW order \in SetToSeqs(found),
               \/ channel' = channel \o Hydrated(order) \o <<Error>> /\ result' = <<Null>>
               \/ /\ channel' = channel \o Hydrated(order)
                  /\ result' = <<IF found = Missing THEN BaseToken ELSE Null>>
        PROVE  <1>4!:
    <3> DEFINE h == Hydrated(order)
               c == channel \o h
               e == <<Error>>
    <3>1. /\ h \in Seq(Item) /\ Len(h) \in Nat /\ Len(h) <= Cardinality(Foreign)
          /\ \A item \in Range(h) : item # Error /\ item.id = item.asset
          /\ \A x \in found : \E item \in Range(h) : item.asset = x
      BY HydratedFacts
    <3> HIDE DEF h
    <3>2. c \in Seq(Item) /\ Len(c) = Len(channel) + Len(h) /\ Range(c) = Range(channel) \cup Range(h)
      BY <1>3, <3>1, RangeOfConcat
    <3> HIDE DEF c
    <3>3. e \in Seq(Item) /\ Len(e) = 1 /\ Range(e) = {Error}
      BY ErrorIsItem DEF Range
    <3> HIDE DEF e
    <3>4. c \o e \in Seq(Item) /\ Len(c \o e) = Len(c) + Len(e) /\ Range(c \o e) = Range(c) \cup Range(e)
      <4>1. c \in Seq(Item) /\ e \in Seq(Item)
        BY <3>2, <3>3
      <4> QED BY <4>1, RangeOfConcat
    <3>5. \/ channel' = c \o e /\ result' = <<Null>>
          \/ channel' = c /\ result' = <<IF found = Missing THEN BaseToken ELSE Null>>
      BY <2>2 DEF c, e, h
    <3>6. /\ channel' \in Seq(Item) /\ Len(channel') <= Capacity + Cardinality(Foreign) + 1
          /\ Range(channel) \cup Range(h) \subseteq Range(channel')
          /\ Range(channel') \subseteq Range(channel) \cup Range(h) \cup {Error}
      <4>1. CASE channel' = c
        <5>1. Len(channel') <= Capacity + Cardinality(Foreign) + 1
          BY <4>1, <1>3, <3>1, <3>2
        <5> QED BY <4>1, <5>1, <3>2
      <4>2. CASE channel' = c \o e
        <5>1. Len(channel') <= Capacity + Cardinality(Foreign) + 1
          BY <4>2, <1>3, <3>1, <3>2, <3>3, <3>4
        <5>2. Range(channel') = Range(channel) \cup Range(h) \cup {Error}
          BY <4>2, <3>2, <3>3, <3>4
        <5> QED BY <4>2, <5>1, <5>2, <3>4
      <4> QED BY <4>1, <4>2, <3>5
    <3>7. /\ Seen' = Seen \cup Range(h) /\ (RelayError => RelayError')
      BY <1>1, <3>1, <3>6 DEF Seen, RelayError, Error
    <3>8. result' # <<Null>> => \A x \in Foreign : \E item \in Seen' : item.asset = x
      <4> SUFFICES ASSUME result' # <<Null>>, NEW x \in Foreign PROVE \E item \in Seen' : item.asset = x
        OBVIOUS
      <4>1. found = Missing
        BY <3>5
      <4>2. CASE x \in Missing
        BY <4>1, <4>2, <3>1, <3>7
      <4>3. CASE x \notin Missing
        BY <4>3, <3>7 DEF Missing
      <4> QED BY <4>2, <4>3
    <3>9. result' \in {<<Null>>, <<BaseToken>>}
      BY <3>5
    <3> QED BY <3>1, <3>6, <3>7, <3>8, <3>9
  <2>3. CASE Closed /\ \E t \in {Null, BaseToken} : Answer(t)
    <3>1. channel' = channel /\ result' \in {<<Null>>, <<BaseToken>>}
      BY <2>3 DEF Answer
    <3> QED BY <2>1, <2>3, <3>1
  <2>4. CASE ~Closed /\ RelayError /\ Answer(Null)
    <3>1. channel' = channel /\ result' = <<Null>>
      BY <2>4 DEF Answer
    <3> QED BY <2>1, <3>1
  <2>5. CASE ~Closed /\ ~RelayError /\ (~ShouldHydrate \/ Missing = {}) /\ Answer(BaseToken)
    <3>1. channel' = channel /\ result' = <<BaseToken>>
      BY <2>5 DEF Answer
    <3> QED BY <2>1, <2>5, <3>1
  <2>6. CASE \E found \in SUBSET (Missing \cap Foreign) : \E order \in SetToSeqs(found) :
                \/ channel' = channel \o Hydrated(order) \o <<Error>> /\ result' = <<Null>>
                \/ /\ channel' = channel \o Hydrated(order)
                   /\ result' = <<IF found = Missing THEN BaseToken ELSE Null>>
    BY <2>2, <2>6
  <2> QED BY <2>3, <2>4, <2>5, <2>6 DEF Hydrate
<1>5. Closed' = Closed
  BY <1>1 DEF Closed
<1>6. /\ PlanInv' /\ HistInv' /\ SentInv' /\ TrailInv' /\ NameInv' /\ ListedInv'
      /\ \A f \in Starts' : TaskInv(f)'
      /\ BaseToken' = BaseToken /\ (AllEnded' <=> AllEnded)
      /\ Starts' = Starts /\ Capacity' = Capacity /\ index' = index
  BY <1>1, <1>4, <1>5, StillInv
<1>7. EnumTypeOK'
  <2>1. result' \in {<<>>} \cup {<<t>> : t \in DOMAIN hist \cup {Null}}
    BY <1>2, <1>4, TokenType
  <2> QED BY <2>1, <1>1, <1>2, <1>4, TypeStill DEF EnumTypeOK
<1>8. FlowInv'
  <2>1. result' # <<>>
    BY <1>4
  <2> QED BY <2>1, <1>1, <1>3, <1>4, <1>6 DEF FlowInv
<1>9. ForeignInv'
  BY <1>1, <1>4, <1>5, <1>6 DEF ForeignInv, Downloadable
<1> QED BY <1>6, <1>7, <1>8, <1>9 DEF EnumInv

-----------------------------------------------------------------------------
(* The results. *)

LEMMA EnumStep == EnumInv /\ [EnumNext]_vars => EnumInv'
<1> SUFFICES ASSUME EnumInv, [EnumNext]_vars PROVE EnumInv'
  OBVIOUS
<1>1. ASSUME NEW m \in Masters, RemoveFamily(m) PROVE EnumInv'
  <2>1. result = <<>> /\ \E idx : Changed(idx)
    BY <1>1 DEF RemoveFamily, MayChange
  <2> QED BY <2>1, ChangedInv
<1>2. ASSUME NEW a \in Assets, AddPhoto(a) PROVE EnumInv'
  <2>1. result = <<>> /\ \E idx : Changed(idx)
    BY <1>2 DEF AddPhoto, MayChange
  <2> QED BY <2>1, ChangedInv
<1>3. ASSUME NEW f \in Starts, FetcherStep(f) \/ Panic(f) PROVE EnumInv'
  BY <1>3, TaskStepInv
<1>4. CASE SendToken
  BY <1>4, SendTokenInv
<1>5. CASE Hydrate
  BY <1>5, HydrateInv
<1>6. CASE Receive
  BY <1>6, ReceiveInv
<1>7. CASE EndOfStream
  BY <1>7, EndOfStreamInv
<1>8. CASE DropStream
  BY <1>8, DropStreamInv
<1>9. CASE UNCHANGED vars
  <2>1. UNCHANGED <<hist, req, faults, fetchers, owners, channel, got, errors, consumer, suppressed, result>>
    BY <1>9 DEF vars
  <2>2. EnumTypeOK /\ FlowInv /\ ForeignInv
    BY DEF EnumInv
  <2>3. Closed' = Closed /\ Seen' = Seen /\ RelayError' = RelayError
    BY <2>1 DEF Closed, Seen, RelayError, Error
  <2>4. /\ PlanInv' /\ HistInv' /\ SentInv' /\ TrailInv' /\ NameInv' /\ ListedInv'
        /\ \A f \in Starts' : TaskInv(f)'
        /\ BaseToken' = BaseToken /\ (AllEnded' <=> AllEnded)
        /\ Starts' = Starts /\ Capacity' = Capacity /\ index' = index
    BY <2>1, <2>3, StillInv
  <2>5. EnumTypeOK'
    BY <2>1, <2>2, TypeStill DEF EnumTypeOK
  <2>6. FlowInv' /\ ForeignInv'
    BY <2>1, <2>2, <2>3, <2>4 DEF FlowInv, ForeignInv, Downloadable
  <2> QED BY <2>4, <2>5, <2>6 DEF EnumInv
<1> QED BY <1>1, <1>2, <1>3, <1>4, <1>5, <1>6, <1>7, <1>8, <1>9 DEF EnumNext

(* If every range reports its end, every asset of the snapshot was delivered. *)
LEMMA AllDelivered ==
    ASSUME EnumInv, NEW t \in DOMAIN hist, Coherent(t), consumer = "ended",
           \A f \in Starts : fetchers[f].completion = "eof",
           Cardinality(Starts) = 1 \/ Whole(hist[t])
    PROVE  Downloadable(hist[t]) \subseteq Delivered
<1>1. EnumTypeOK /\ PlanInv /\ HistInv /\ SentInv /\ FlowInv /\ TrailInv /\ \A f \in Starts : TaskInv(f)
  BY DEF EnumInv
<1>2. Null \notin {"incomplete", "bound", "eof"} /\ ~Closed
  BY ConstFacts DEF Closed
<1>3. ASSUME NEW f \in Starts PROVE ~Broken(fetchers[f]) /\ EndTrail(f, t) /\ fetchers[f].assets = {}
  <2> DEFINE me == fetchers[f]
  <2>1. TaskInv(f) /\ Trail(f, t)
    BY <1>1 DEF TrailInv
  <2>2. me.completion = "eof" /\ me.pc = "done" /\ ~me.incomplete /\ ~me.limited
    BY <2>1, <1>2 DEF TaskInv
  <2>3. ~Broken(me)
    BY <2>2 DEF Broken
  <2>4. me.assets = {}
    BY <2>1, <2>2 DEF TaskInv, Trail
  <2> QED BY <2>1, <2>2, <2>3, <2>4 DEF Trail
<1> SUFFICES ASSUME NEW a \in Downloadable(hist[t]) PROVE a \in Delivered
  OBVIOUS
<1>4. a \in Assets /\ a \in UNION Range(hist[t])
  BY DEF Downloadable
<1>5. PICK i \in DOMAIN hist[t] : a \in hist[t][i]
  BY <1>4 DEF Range
<1>6. i \in Nat \ {0} /\ Lists(t, i, a)
  <2>1. hist[t] \in Seq(SUBSET Ids)
    BY <1>1 DEF HistInv, WellListed
  <2> QED BY <2>1, <1>5 DEF Lists
<1>7. PICK f \in Starts : f < i /\ Within(fetchers[f], i)
  BY <1>1, <1>6 DEF PlanInv
<1>8. owners[a] # Null
  BY <1>3, <1>4, <1>6, <1>7 DEF EndTrail
<1>9. owners[a] \in Starts
  BY <1>1, <1>4, <1>8, TaskType
<1>10. \E item \in Seen : item.asset = a
  BY <1>1, <1>2, <1>3, <1>4, <1>8, <1>9 DEF SentInv
<1>11. Seen = got
  <2>1. channel = <<>>
    BY <1>1 DEF FlowInv
  <2>2. Range(channel) = {}
    BY <2>1 DEF Range
  <2> QED BY <2>2 DEF Seen
<1> QED BY <1>10, <1>11 DEF Delivered

LEMMA InvCovers == EnumInv => TokenCovers
<1> SUFFICES ASSUME EnumInv, consumer = "ended", result # <<>>, result # <<Null>>,
                    \A f \in Starts : CoherentReads(f),
                    Cardinality(Starts) = 1 \/ Whole(hist[result[1]])
             PROVE  LET snapshot == hist[result[1]]
                    IN  /\ Downloadable(snapshot) \subseteq Delivered
                        /\ (/\ req.album /\ req.limit = Null /\ Len(hist) = 1 /\ Cardinality(Starts) = 1
                            /\ req.count = Cardinality(Downloadable(snapshot) \cup Foreign))
                               => Foreign \subseteq Delivered
  BY DEF TokenCovers
<1> DEFINE t == BaseToken
<1>1. EnumTypeOK /\ FlowInv /\ HistInv /\ ForeignInv /\ \A f \in Starts : TaskInv(f)
  BY DEF EnumInv
<1>2. result = <<t>> /\ t # Null /\ result[1] = t /\ channel = <<>> /\ ~Closed
  BY <1>1 DEF FlowInv, Closed
<1>3. t = Resolve
  BY <1>2 DEF BaseToken
<1>4. /\ \A f \in Starts : fetchers[f].completion \notin {Null, "incomplete", "bound"}
      /\ Cardinality(Tokens) = 1 /\ t = CHOOSE u \in Tokens : TRUE
  BY <1>2, <1>3 DEF Resolve
<1> HIDE DEF t
<1>5. \A f \in Starts : fetchers[f].completion = "eof"
  <2> TAKE f \in Starts
  <2>1. fetchers[f].completion \in {Null, "incomplete", "bound", "eof"}
    BY <1>1, TaskType DEF Fetching
  <2> QED BY <2>1, <1>4
<1>6. t \in DOMAIN hist /\ DOMAIN hist = 1 .. Len(hist) /\ Len(hist) \in Nat /\ IsFiniteSet(DOMAIN hist)
  <2>1. t \in DOMAIN hist
    BY <1>1, <1>2, TokenType DEF t
  <2>2. hist \in Seq(Seq(SUBSET Ids))
    BY <1>1 DEF EnumTypeOK
  <2>3. DOMAIN hist = 1 .. Len(hist) /\ Len(hist) \in Nat
    BY <2>2
  <2>4. IsFiniteSet(1 .. Len(hist))
    BY <2>3, FS_Interval
  <2> QED BY <2>1, <2>3, <2>4
<1>7. Tokens = {t}
  <2>1. IsFiniteSet(Tokens)
    <3>1. Tokens \in SUBSET DOMAIN hist
      BY <1>1 DEF Tokens, EnumTypeOK
    <3> QED BY <3>1, <1>6, FS_Subset
  <2>2. PICK u : Tokens = {u}
    BY <2>1, <1>4, FS_Singleton
  <2> QED BY <2>2, <1>4
<1>8. Coherent(t)
  <2> SUFFICES ASSUME NEW f \in Starts PROVE fetchers[f].gens \subseteq {t}
    BY DEF Coherent
  <2> DEFINE me == fetchers[f]
  <2>1. CASE me.token = Null
    BY <2>1, <1>7 DEF CoherentReads
  <2>2. CASE me.token # Null
    <3>1. me.token = t
      BY <2>2, <1>7 DEF Tokens
    <3>2. t \in me.gens /\ me.gens \in SUBSET DOMAIN hist
      BY <2>2, <3>1, <1>1 DEF TaskInv
    <3>3. IsFiniteSet(me.gens) /\ Cardinality(me.gens) \in Nat /\ Cardinality(me.gens) <= 1
      BY <3>2, <1>6, FS_Subset, FS_CardinalityType DEF CoherentReads
    <3>4. Cardinality(me.gens) = 1
      BY <3>2, <3>3, FS_EmptySet
    <3>5. PICK u : me.gens = {u}
      BY <3>3, <3>4, FS_Singleton
    <3> QED BY <3>2, <3>5
  <2> QED BY <2>1, <2>2
<1>9. Downloadable(hist[t]) \subseteq Delivered
  BY <1>2, <1>5, <1>6, <1>8, AllDelivered
<1>10. ASSUME req.album, req.limit = Null, Len(hist) = 1, Cardinality(Starts) = 1,
              req.count = Cardinality(Downloadable(hist[t]) \cup Foreign)
       PROVE  Foreign \subseteq Delivered
  <2>1. hist[t] = index
    BY <1>6, <1>10 DEF index
  <2>2. \A x \in Foreign : \E item \in Seen : item.asset = x
    BY <2>1, <1>1, <1>2, <1>10 DEF ForeignInv
  <2>3. Range(channel) = {}
    BY <1>2 DEF Range
  <2>4. Seen = got
    BY <2>3 DEF Seen
  <2> QED BY <2>2, <2>4 DEF Delivered
<1> QED BY <1>2, <1>9, <1>10

LEMMA InvTruncation == EnumInv => NoSilentTruncation
<1> SUFFICES ASSUME EnumInv, consumer = "ended", ~errors, Len(hist) = 1, req.limit = Null,
                    \A f \in Starts : fetchers[f].pc # "panicked",
                    Cardinality(Starts) = 1 \/ Whole(index)
             PROVE  Downloadable(index) \subseteq Delivered
  BY DEF NoSilentTruncation
<1>1. EnumTypeOK /\ FlowInv /\ HistInv /\ \A f \in Starts : TaskInv(f)
  BY DEF EnumInv
<1>2. channel = <<>> /\ AllEnded /\ ~Closed /\ Null \notin {"incomplete", "bound", "eof"}
  BY <1>1, ConstFacts DEF FlowInv, Closed
<1>3. ~RelayError
  <2>1. Range(channel) = {}
    BY <1>2 DEF Range
  <2> QED BY <2>1 DEF RelayError
<1>4. 1 \in DOMAIN hist /\ DOMAIN hist = {1} /\ index = hist[1]
  <2>1. hist \in Seq(Seq(SUBSET Ids))
    BY <1>1 DEF EnumTypeOK
  <2> QED BY <2>1 DEF index
<1>5. \A f \in Starts : fetchers[f].completion = "eof"
  <2> TAKE f \in Starts
  <2> DEFINE me == fetchers[f]
  <2>1. me.completion \in {Null, "incomplete", "bound", "eof"}
    BY <1>1, TaskType DEF Fetching
  <2>2. me.pc = "done"
    BY <1>1, <1>2 DEF AllEnded, Ended, TaskInv
  <2> QED BY <2>1, <2>2, <1>1, <1>2, <1>3 DEF TaskInv
<1>6. Coherent(1)
  BY <1>1, <1>4 DEF Coherent, TaskInv
<1> QED BY <1>4, <1>5, <1>6, AllDelivered

LEMMA InvSiblings == EnumInv => SiblingsDistinct
<1> SUFFICES ASSUME EnumInv, Len(hist) = 1, FamiliesLed(index), NEW x \in got, NEW y \in got, x.id = y.id
             PROVE  x.asset = y.asset
  BY DEF SiblingsDistinct
<1>1. EnumTypeOK /\ HistInv /\ NameInv
  BY DEF EnumInv
<1>2. GoodName(x) /\ GoodName(y)
  BY <1>1 DEF NameInv, Seen
<1>3. x.asset \in Assets \cup Foreign /\ y.asset \in Assets \cup Foreign
  BY <1>1 DEF EnumTypeOK, Item, Found
<1>4. /\ Assets \cap Masters = {} /\ MasterOf \in [Assets -> Masters] /\ Foreign \cap Masters = {}
  BY ConstFacts
<1>5. CASE x.id = x.asset \/ y.id = y.asset
  BY <1>2, <1>3, <1>4, <1>5 DEF GoodName
<1>6. CASE x.id # x.asset /\ y.id # y.asset
  <2>1. /\ x.asset \in Assets /\ y.asset \in Assets
        /\ \E i \in DOMAIN index : {x.asset, x.id} \subseteq index[i]
        /\ \E j \in DOMAIN index : {y.asset, x.id} \subseteq index[j]
    BY <1>2, <1>6 DEF GoodName
  <2>2. PICK i \in DOMAIN index : {x.asset, x.id} \subseteq index[i]
    BY <2>1
  <2>3. PICK j \in DOMAIN index : {y.asset, x.id} \subseteq index[j]
    BY <2>1
  <2>4. WellListed(index)
    BY <1>1, IndexFacts
  <2>5. i = j
    BY <2>2, <2>3, <2>4 DEF WellListed
  <2> QED BY <2>1, <2>2, <2>3, <2>4, <2>5, <1>4 DEF WellListed
<1> QED BY <1>5, <1>6

LEMMA EnumInvHolds == EnumSpec => []EnumInv
<1> QED BY InitInv, EnumStep, PTL DEF EnumSpec

(* The queues of the stream stay within their bounds: the channel within a    *)
(* page per fetcher and what a hydration adds, the pairing buffers of a task  *)
(* that asks for a page within the limit (album.rs, spawn_fetcher), whatever  *)
(* the provider answers, fails or changes.                                    *)
THEOREM EnumTypes == EnumSpec => []EnumTypeOK
<1>1. EnumInv => EnumTypeOK
  BY DEF EnumInv
<1> QED BY EnumInvHolds, <1>1, PTL

(* A sync token that the consumer of a finished stream may store claims only  *)
(* what the stream delivered: FetcherSyncTokenCapture.resolve gives no token  *)
(* for a pass that lost a page, a half of a pair, a record or a task, or that *)
(* a limit cut, for any index, plan, page size and number of changes.         *)
THEOREM TokensCover == EnumSpec => []TokenCovers
<1> QED BY EnumInvHolds, InvCovers, PTL

(* Without a token too, a stream that ended without an error has delivered    *)
(* every asset of the index: neither a wrong count, a gap, a repeated page    *)
(* nor a range claimed by another task lets a fetcher stop short.             *)
THEOREM NothingIsCutOff == EnumSpec => []NoSilentTruncation
<1> QED BY EnumInvHolds, InvTruncation, PTL

(* Two assets of one family are never handed over under one state id, on      *)
(* whatever pages they arrive, where a master comes with its first asset.     *)
THEOREM SiblingNames == EnumSpec => []SiblingsDistinct
<1> QED BY EnumInvHolds, InvSiblings, PTL

=============================================================================
