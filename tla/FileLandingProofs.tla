------------------------ MODULE FileLandingProofs ------------------------
(***************************************************************************)
(* Proofs about FileLanding: one task for the .part path, any size of the  *)
(* file, any number of inodes, edits and failures, with every fault.       *)
(***************************************************************************)
EXTENDS FileLanding, TLAPS

\* What the proofs ask of the instance: one task owns the .part path.  A second
\* one resumes the file that the first is still writing.
Alone == \A t, u \in Tasks : t = u

-----------------------------------------------------------------------------
(* The inductive invariant.                                                *)

Prefix(n) == [i \in 1..n |-> i]
IsPrefix(c) == \E n \in 0..Size : c = Prefix(n)
IsGood(c) == IsWhole(c) \/ IsEdit(c)

\* What a final path and the .part path may hold.
FinalKind(c) == IsGood(c) \/ c = Damaged \/ c = Nothing
PartKind(c) == IsPrefix(c) \/ FinalKind(c)

\* A damaged file is never taken for a recent .part file.
Contents ==
  /\ PartKind(At(part))
  /\ part \in recent => At(part) # Damaged
  /\ \A t \in Tasks : /\ FinalKind(At(target[t]))
                      /\ target[t] # NoFile => At(target[t]) # Nothing
                      /\ target[t] \in recent => At(target[t]) # Damaged

\* What a task remembers.
Memory == \A t \in Tasks :
  /\ sum[t] = Nothing \/ IsGood(sum[t])
  /\ row[t] = Nothing \/ IsGood(row[t])
  /\ mine[t] = Nothing \/ IsEdit(mine[t])
  /\ want[t] = Nothing \/ want[t] = Damaged
  /\ pc[t] \in Exchanging \cup {"exchange"} => want[t] = Damaged /\ IsWhole(seen[t])

\* The transfer: what is resumed is a prefix of the provider's file, and what is
\* written is the .part file and nothing else.
Transfer == \A t \in Tasks :
  /\ pc[t] = "fetch" /\ off[t] > 0 =>
       /\ part # NoFile /\ Len(At(part)) = off[t]
       /\ off[t] < Size => At(part) = Prefix(off[t])
  /\ pc[t] = "append" => /\ part # NoFile /\ At(part) = Prefix(off[t])
                         /\ 0 < off[t] /\ off[t] < Size
  /\ pc[t] = "unlink" => off[t] = 0
  /\ pc[t] = "create" => off[t] = 0
  /\ pc[t] = "write" => /\ part # NoFile /\ fd[t] = part /\ target[t] # part
                        /\ off[t] \in 0..Size /\ At(part) = Prefix(off[t])

\* Publication: the .part file is complete, and what it is published over, or
\* recorded from, is no longer the damaged file.
Publication == \A t \in Tasks :
  /\ pc[t] = "embed" => part # NoFile /\ At(part) = Whole
  /\ pc[t] \in {"stamp", "publish", "exchange"} => part # NoFile /\ IsWhole(At(part))
  /\ pc[t] # "idle" /\ want[t] = Nothing => At(target[t]) # Damaged
  /\ pc[t] \in {"compare", "dedup", "displaced", "tidy", "record"} => At(target[t]) # Damaged
  /\ pc[t] \in Exchanging => part # NoFile /\ FinalKind(At(part)) /\ At(part) # Nothing

LInv == LandTypeOK /\ Contents /\ Memory /\ Transfer /\ Publication /\ EditStays

-----------------------------------------------------------------------------
(* Contents.                                                               *)

\* What the contents are: sequences of known lengths that differ.
LEMMA Small ==
  /\ Nothing \in Seq(Int) /\ Len(Nothing) = 0
  /\ Damaged \in Seq(Int) /\ Len(Damaged) = 1 /\ Damaged[1] = 0
  /\ Damaged # Nothing
BY DEF Nothing, Damaged

LEMMA Prefixes ==
  ASSUME NEW n \in 0..Size
  PROVE  /\ Prefix(n) \in Seq(Int) /\ Len(Prefix(n)) = n
         /\ \A i \in 1..n : Prefix(n)[i] = i
         /\ Prefix(n) # Damaged
         /\ n < Size => Append(Prefix(n), n + 1) = Prefix(n + 1)
<1>1. Prefix(n) \in Seq(Int) /\ Len(Prefix(n)) = n
  BY SizeAssumption DEF Prefix
<1>2. \A i \in 1..n : Prefix(n)[i] = i
  BY DEF Prefix
<1>3. Prefix(n) # Damaged
  <2>1. CASE n = 1
    BY <2>1, <1>2, Small
  <2>2. CASE n # 1
    BY <2>2, <1>1, Small
  <2> QED BY <2>1, <2>2
<1>4. ASSUME n < Size
      PROVE  Append(Prefix(n), n + 1) = Prefix(n + 1)
  BY <1>4, <1>1, SizeAssumption DEF Prefix
<1> QED BY <1>1, <1>2, <1>3, <1>4

LEMMA WholeIsPrefix == Prefix(0) = Nothing /\ Prefix(Size) = Whole
<1>1. Prefix(Size) = Whole
  BY DEF Prefix, Whole
<1>2. Prefix(0) = Nothing
  BY SizeAssumption, Prefixes DEF Nothing
<1> QED BY <1>1, <1>2

LEMMA Wholes ==
  ASSUME NEW c, IsWhole(c)
  PROVE  /\ c \in Seq(Int) /\ Len(c) \in {Size, Size + 1}
         /\ c[1] = 1
         /\ c # Nothing /\ c # Damaged
<1>1. Whole \in Seq(Int) /\ Len(Whole) = Size /\ Whole[1] = 1
  <2>1. Size \in 0..Size /\ 1 \in 1..Size
    BY SizeAssumption
  <2>2. Prefix(Size) \in Seq(Int) /\ Len(Prefix(Size)) = Size /\ Prefix(Size)[1] = 1
    BY <2>1, Prefixes
  <2> QED BY <2>2, WholeIsPrefix
<1>2. /\ Append(Whole, 0) \in Seq(Int) /\ Len(Append(Whole, 0)) = Size + 1
      /\ Append(Whole, 0)[1] = 1
  BY <1>1, SizeAssumption
<1>3. /\ c \in Seq(Int) /\ Len(c) \in {Size, Size + 1} /\ c[1] = 1
  BY <1>1, <1>2 DEF IsWhole
<1> QED BY <1>3, Small, SizeAssumption

LEMMA Edits ==
  ASSUME NEW c, IsEdit(c)
  PROVE  /\ c \in Seq(Int) /\ Len(c) = Size
         /\ c[1] < 0
         /\ c # Nothing /\ c # Damaged
<1>1. PICK k \in 1..MaxEdits : c = Edit(k)
  BY DEF IsEdit
<1>2. k \in Int /\ k > 0
  BY LandBoundsAssumption
<1>3. c = [i \in 1..Size |-> -k]
  BY <1>1 DEF Edit
<1>4. c \in Seq(Int) /\ Len(c) = Size
  BY <1>2, <1>3, SizeAssumption
<1>5. c[1] < 0
  BY <1>2, <1>3, SizeAssumption
<1> QED BY <1>4, <1>5, Small, SizeAssumption

\* A prefix that may still grow is nothing a final path holds.
LEMMA Unfinished ==
  ASSUME NEW n \in 1..(Size - 1)
  PROVE  ~FinalKind(Prefix(n))
<1>1. n \in 0..Size /\ n < Size /\ n > 0
  BY SizeAssumption
<1>2. Len(Prefix(n)) = n /\ Prefix(n) # Damaged
  BY <1>1, Prefixes
<1>3. ~IsWhole(Prefix(n)) /\ ~IsEdit(Prefix(n)) /\ Prefix(n) # Nothing
  BY <1>1, <1>2, Wholes, Edits, Small, SizeAssumption
<1> QED BY <1>2, <1>3 DEF FinalKind, IsGood

\* The facts above, for a path whose contents are of a known kind.
LEMMA Kinds ==
  /\ \A c : IsWhole(c) => /\ c \in Seq(Int) /\ Len(c) >= Size /\ Len(c) <= Size + 1
                          /\ ~IsEdit(c) /\ c # Nothing /\ c # Damaged
  /\ \A c : IsEdit(c) => /\ c \in Seq(Int) /\ Len(c) = Size
                         /\ c # Nothing /\ c # Damaged
  /\ \A c : PartKind(c) => c \in Seq(Int) /\ Len(c) <= Size + 1
  /\ IsWhole(Whole) /\ IsWhole(Append(Whole, 0))
<1>1. ASSUME NEW c, IsWhole(c)
      PROVE  /\ c \in Seq(Int) /\ Len(c) >= Size /\ Len(c) <= Size + 1
             /\ ~IsEdit(c) /\ c # Nothing /\ c # Damaged
  <2>1. c \in Seq(Int) /\ Len(c) \in {Size, Size + 1} /\ c[1] = 1
        /\ c # Nothing /\ c # Damaged
    BY <1>1, Wholes
  <2>2. ~IsEdit(c)
    BY <2>1, Edits
  <2> QED BY <2>1, <2>2, SizeAssumption
<1>2. ASSUME NEW c, IsEdit(c)
      PROVE  c \in Seq(Int) /\ Len(c) = Size /\ c # Nothing /\ c # Damaged
  BY <1>2, Edits
<1>3. ASSUME NEW c, PartKind(c)
      PROVE  c \in Seq(Int) /\ Len(c) <= Size + 1
  <2>1. CASE IsPrefix(c)
    BY <2>1, Prefixes, SizeAssumption DEF IsPrefix
  <2>2. CASE IsWhole(c) \/ IsEdit(c)
    BY <2>2, <1>1, <1>2, SizeAssumption
  <2>3. CASE c = Damaged \/ c = Nothing
    <3>1. Len(c) \in {0, 1} /\ c \in Seq(Int)
      BY <2>3, Small
    <3> QED BY <3>1, SizeAssumption
  <2> QED BY <1>3, <2>1, <2>2, <2>3 DEF PartKind, FinalKind, IsGood
<1>4. IsWhole(Whole) /\ IsWhole(Append(Whole, 0))
  BY DEF IsWhole
<1> QED BY <1>1, <1>2, <1>3, <1>4

\* A new file is none of those that are open or have a name.
LEMMA NewFile ==
  ASSUME Free # {}
  PROVE  /\ NewInode \in Inodes /\ NewInode # NoFile /\ NewInode # part
         /\ \A t \in Tasks : NewInode # target[t] /\ NewInode # fd[t]
<1>1. NewInode \in Free
  BY DEF NewInode
<1> QED BY <1>1, LandBoundsAssumption DEF Free, Used, Inodes, NoFile

-----------------------------------------------------------------------------
(* Every step keeps the invariant.                                         *)

\* What the paths hold is a sequence of bounded length.
LEMMA AtTypes ==
  ASSUME LInv, NEW t \in Tasks
  PROVE  At(part) \in Seq(Int) /\ At(target[t]) \in Seq(Int)
<1>1. PartKind(At(part)) /\ PartKind(At(target[t]))
  BY DEF LInv, Contents, PartKind
<1> QED BY <1>1, Kinds

LEMMA BeginKeeps ==
  ASSUME Alone, LInv, NEW t \in Tasks, Begin(t)
  PROVE  LInv'
<1> USE DEF Begin, Go, files, world
<1>0. At(target[t]) \in {Nothing, Damaged}
  <2>1. FinalKind(At(target[t]))
    BY DEF LInv, Contents
  <2>2. CASE target[t] = NoFile
    BY <2>2 DEF At
  <2>3. CASE Len(At(target[t])) < Size
    BY <2>1, <2>3, Kinds, SizeAssumption DEF FinalKind, IsGood
  <2> QED BY <2>2, <2>3
<1>1. At(part)' = At(part) /\ \A u \in Tasks : At(target[u])' = At(target[u])
  BY DEF At
<1>2. LandTypeOK'
  BY <1>1, <1>0, Small, ModesAssumption DEF LInv, LandTypeOK, Steps
<1>3. Contents'
  BY <1>1 DEF LInv, Contents, LandTypeOK
<1>4. Memory'
  BY <1>1, <1>0 DEF LInv, Memory, LandTypeOK, Exchanging
<1>5. Transfer'
  BY <1>1 DEF LInv, Transfer, LandTypeOK, Alone
<1>6. Publication'
  BY <1>1, <1>0, Small DEF LInv, Publication, LandTypeOK, Alone, Exchanging
<1>7. EditStays'
  BY <1>1 DEF LInv, EditStays, LandTypeOK, Alone, Exchanging
<1> QED BY <1>2, <1>3, <1>4, <1>5, <1>6, <1>7 DEF LInv

LEMMA StatKeeps ==
  ASSUME Alone, LInv, NEW t \in Tasks, Stat(t)
  PROVE  LInv'
<1> USE DEF Stat, Go, files, ledger, world
<1>1. At(part)' = At(part) /\ \A u \in Tasks : At(target[u])' = At(target[u])
  BY DEF At
<1>2. LandTypeOK'
  BY <1>1, Small DEF LInv, LandTypeOK, Steps, At
<1>3. Contents'
  BY <1>1 DEF LInv, Contents, LandTypeOK
<1>4. Memory'
  BY <1>1 DEF LInv, Memory, LandTypeOK, Exchanging
<1>5. Transfer'
  <2>1. ASSUME part \in recent, Len(At(part)) > 0
        PROVE  /\ part # NoFile
               /\ Len(At(part)) < Size => At(part) = Prefix(Len(At(part)))
    <3>1. part # NoFile /\ At(part) # Damaged /\ PartKind(At(part))
      BY <2>1, Small DEF LInv, Contents, At
    <3>2. CASE IsPrefix(At(part))
      BY <3>1, <3>2, Prefixes DEF IsPrefix
    <3>3. CASE ~IsPrefix(At(part))
      BY <2>1, <3>1, <3>3, Kinds, Small, SizeAssumption DEF PartKind, FinalKind, IsGood
    <3> QED BY <3>1, <3>2, <3>3
  <2> QED BY <1>1, <2>1 DEF LInv, Transfer, LandTypeOK, Alone
<1>6. Publication'
  BY <1>1 DEF LInv, Publication, LandTypeOK, Alone, Exchanging
<1>7. EditStays'
  BY <1>1 DEF LInv, EditStays, LandTypeOK, Alone, Exchanging
<1> QED BY <1>2, <1>3, <1>4, <1>5, <1>6, <1>7 DEF LInv

LEMMA FetchKeeps ==
  ASSUME Alone, LInv, NEW t \in Tasks, Fetch(t)
  PROVE  LInv'
<1> USE DEF Fetch, RangeRefused, Fails, Go, ledger
<1>0. PartKind(Nothing) /\ NoFile \notin recent
  BY DEF PartKind, FinalKind, LInv, LandTypeOK, Inodes, NoFile
<1>1. /\ \/ At(part)' = At(part) /\ part' = part
         \/ At(part)' = Nothing /\ part' = NoFile
      /\ \A u \in Tasks : At(target[u])' = At(target[u])
  BY DEF At
<1>2. LandTypeOK'
  <2>1. part' \in Entries /\ failures' \in Nat
    BY DEF LInv, LandTypeOK, Entries
  <2>2. pc' \in [Tasks -> Steps]
    BY DEF LInv, LandTypeOK, Steps
  <2>3. off' \in [Tasks -> Nat]
    <3>1. off' = off \/ off' = [off EXCEPT ![t] = 0]
      OBVIOUS
    <3>2. off \in [Tasks -> Nat]
      BY DEF LInv, LandTypeOK
    <3> HIDE DEF Fetch
    <3> QED BY <3>1, <3>2
  <2> QED BY <2>1, <2>2, <2>3 DEF LInv, LandTypeOK, Entries
<1>3. Contents'
  BY <1>1, <1>0, Small DEF LInv, Contents, LandTypeOK
<1>4. Memory'
  BY <1>1 DEF LInv, Memory, LandTypeOK, Exchanging
<1>5. Transfer'
  BY <1>1 DEF LInv, Transfer, LandTypeOK, Alone
<1>6. Publication'
  BY <1>1 DEF LInv, Publication, LandTypeOK, Alone, Exchanging
<1>7. EditStays'
  BY <1>1 DEF LInv, EditStays, LandTypeOK, Alone, Exchanging
<1> QED BY <1>2, <1>3, <1>4, <1>5, <1>6, <1>7 DEF LInv

LEMMA UnlinkKeeps ==
  ASSUME Alone, LInv, NEW t \in Tasks, Unlink(t)
  PROVE  LInv'
<1> USE DEF Unlink, Go, ledger, task, world
<1>0. PartKind(Nothing) /\ NoFile \notin recent
  BY DEF PartKind, FinalKind, LInv, LandTypeOK, Inodes, NoFile
<1>1. /\ \/ At(part)' = At(part) /\ part' = part
         \/ At(part)' = Nothing /\ part' = NoFile
      /\ \A u \in Tasks : At(target[u])' = At(target[u])
  BY DEF At
<1>2. LandTypeOK'
  BY <1>1 DEF LInv, LandTypeOK, Steps, Entries
<1>3. Contents'
  BY <1>1, <1>0, Small DEF LInv, Contents, LandTypeOK
<1>4. Memory'
  BY <1>1 DEF LInv, Memory, LandTypeOK, Exchanging
<1>5. Transfer'
  BY <1>1 DEF LInv, Transfer, LandTypeOK, Alone
<1>6. Publication'
  BY <1>1 DEF LInv, Publication, LandTypeOK, Alone, Exchanging
<1>7. EditStays'
  BY <1>1 DEF LInv, EditStays, LandTypeOK, Alone, Exchanging
<1> QED BY <1>2, <1>3, <1>4, <1>5, <1>6, <1>7 DEF LInv

LEMMA CreateKeeps ==
  ASSUME Alone, LInv, NEW t \in Tasks, Create(t)
  PROVE  LInv'
<1> USE DEF Create, Go, ledger, world
<1>0. PartKind(Nothing) /\ NoFile \notin recent
  BY DEF PartKind, FinalKind, LInv, LandTypeOK, Inodes, NoFile
<1>n. Free # {} => /\ NewInode \in Inodes /\ NewInode # NoFile /\ NewInode # part
                     /\ \A u \in Tasks : NewInode # target[u] /\ NewInode # fd[u]
  BY NewFile
<1>1. /\ \/ At(part)' = At(part) /\ part' = part /\ recent' = recent
         \/ At(part)' = Nothing
      /\ \A u \in Tasks : At(target[u])' = At(target[u])
  BY <1>n DEF LInv, LandTypeOK, Entries, At
<1>2. LandTypeOK'
  <2>1. CASE part = NoFile
    <3>1. /\ part' = NewInode /\ bytes' = [bytes EXCEPT ![NewInode] = Nothing]
          /\ recent' = recent \cup {NewInode} /\ fd' = [fd EXCEPT ![t] = NewInode]
          /\ NewInode \in Inodes
      BY <2>1, <1>n
    <3>2. bytes' \in [Inodes -> Seq(Int)] /\ \A i \in Inodes : Len(bytes'[i]) <= Size + 1
      BY <3>1, Small, SizeAssumption DEF LInv, LandTypeOK
    <3>3. part' \in Entries /\ fd' \in [Tasks -> Entries] /\ recent' \in SUBSET Inodes
      BY <3>1 DEF LInv, LandTypeOK, Entries
    <3> QED BY <3>2, <3>3 DEF LInv, LandTypeOK, Steps
  <2>2. CASE part # NoFile
    BY <2>2 DEF LInv, LandTypeOK, Steps
  <2> QED BY <2>1, <2>2
<1>3. Contents'
  BY <1>1, <1>0, Small DEF LInv, Contents, LandTypeOK
<1>4. Memory'
  BY <1>1 DEF LInv, Memory, LandTypeOK, Exchanging
<1>5. Transfer'
  BY <1>1, <1>n, WholeIsPrefix, SizeAssumption, Small DEF LInv, Transfer, LandTypeOK, Alone, At
<1>6. Publication'
  BY <1>1 DEF LInv, Publication, LandTypeOK, Alone, Exchanging
<1>7. EditStays'
  BY <1>1, <1>n DEF LInv, EditStays, LandTypeOK, Alone, Exchanging
<1> QED BY <1>2, <1>3, <1>4, <1>5, <1>6, <1>7 DEF LInv

LEMMA OpenAppendKeeps ==
  ASSUME Alone, LInv, NEW t \in Tasks, OpenAppend(t)
  PROVE  LInv'
<1> USE DEF OpenAppend, Go, files, ledger, world
<1>1. At(part)' = At(part) /\ \A u \in Tasks : At(target[u])' = At(target[u])
  BY DEF At
<1>2. LandTypeOK'
  BY <1>1 DEF LInv, LandTypeOK, Steps
<1>3. Contents'
  BY <1>1 DEF LInv, Contents, LandTypeOK
<1>4. Memory'
  BY <1>1 DEF LInv, Memory, LandTypeOK, Exchanging
<1>5. Transfer'
  BY <1>1, Unfinished, SizeAssumption DEF LInv, Transfer, LandTypeOK, Alone, Contents
<1>6. Publication'
  BY <1>1 DEF LInv, Publication, LandTypeOK, Alone, Exchanging
<1>7. EditStays'
  BY <1>1 DEF LInv, EditStays, LandTypeOK, Alone, Exchanging
<1> QED BY <1>2, <1>3, <1>4, <1>5, <1>6, <1>7 DEF LInv

LEMMA WriteChunkKeeps ==
  ASSUME Alone, LInv, NEW t \in Tasks, WriteChunk(t)
  PROVE  LInv'
<1> USE DEF WriteChunk, ledger, world
<1>a. /\ fd[t] = part /\ part \in Inodes /\ part # NoFile /\ target[t] # part
      /\ off[t] \in 0..Size /\ off[t] < Size /\ bytes[part] = Prefix(off[t])
  BY DEF LInv, LandTypeOK, Entries, Transfer, At
<1>b. /\ off[t] + 1 \in 0..Size
      /\ Len(Prefix(off[t])) = off[t]
      /\ Append(Prefix(off[t]), off[t] + 1) = Prefix(off[t] + 1)
      /\ Prefix(off[t] + 1) \in Seq(Int) /\ Len(Prefix(off[t] + 1)) = off[t] + 1
      /\ Prefix(off[t] + 1) # Damaged
  <2>1. off[t] + 1 \in 0..Size
    BY <1>a, SizeAssumption
  <2>2. /\ Len(Prefix(off[t])) = off[t]
        /\ Append(Prefix(off[t]), off[t] + 1) = Prefix(off[t] + 1)
    BY <1>a, Prefixes
  <2>3. /\ Prefix(off[t] + 1) \in Seq(Int) /\ Len(Prefix(off[t] + 1)) = off[t] + 1
        /\ Prefix(off[t] + 1) # Damaged
    BY <2>1, Prefixes
  <2> QED BY <2>1, <2>2, <2>3
<1>c. off'[t] = off[t] + 1 /\ bytes' = [bytes EXCEPT ![part] = Prefix(off[t] + 1)]
  <2>1. off'[t] = off[t] + 1
    BY DEF LInv, LandTypeOK
  <2>2. Written(bytes[part], off'[t], app[t]) = Prefix(off[t] + 1)
    <3> HIDE DEF WriteChunk
    <3>1. off'[t] > Len(bytes[part])
      BY <1>a, <1>b, <2>1, SizeAssumption
    <3>2. Append(bytes[part], off'[t]) = Prefix(off[t] + 1)
      BY <1>a, <1>b, <2>1
    <3> QED BY <3>1, <3>2 DEF Written
  <2>3. bytes' = [bytes EXCEPT ![part] = Written(bytes[part], off'[t], app[t])]
    BY <1>a DEF LInv, LandTypeOK
  <2> QED BY <2>1, <2>2, <2>3
<1>1. /\ At(part)' = Prefix(off[t] + 1) /\ PartKind(At(part)') /\ At(part)' # Damaged
      /\ \A u \in Tasks : At(target[u])' = At(target[u])
  BY <1>a, <1>b, <1>c DEF LInv, LandTypeOK, Alone, At, PartKind, IsPrefix
<1>2. LandTypeOK'
  <2>1. bytes' \in [Inodes -> Seq(Int)] /\ \A i \in Inodes : Len(bytes'[i]) <= Size + 1
    BY <1>a, <1>b, <1>c, SizeAssumption DEF LInv, LandTypeOK
  <2>2. off' \in [Tasks -> Nat] /\ recent' \in SUBSET Inodes
    BY <1>a DEF LInv, LandTypeOK
  <2> QED BY <2>1, <2>2 DEF LInv, LandTypeOK
<1>3. Contents'
  BY <1>1, <1>a DEF LInv, Contents, LandTypeOK, Alone
<1>4. Memory'
  BY <1>1 DEF LInv, Memory, LandTypeOK, Exchanging
<1>5. Transfer'
  BY <1>1, <1>a, <1>b DEF LInv, Transfer, LandTypeOK, Alone
<1>6. Publication'
  BY <1>1 DEF LInv, Publication, LandTypeOK, Alone, Exchanging
<1>7. EditStays'
  BY <1>1 DEF LInv, EditStays, LandTypeOK, Alone, Exchanging
<1> QED BY <1>2, <1>3, <1>4, <1>5, <1>6, <1>7 DEF LInv

LEMMA BreakOffKeeps ==
  ASSUME Alone, LInv, NEW t \in Tasks, BreakOff(t)
  PROVE  LInv'
<1> USE DEF BreakOff, Fails, Go, ledger
<1>0. PartKind(Nothing) /\ NoFile \notin recent
  BY DEF PartKind, FinalKind, LInv, LandTypeOK, Inodes, NoFile
<1>1. /\ \/ At(part)' = At(part) /\ part' = part
         \/ At(part)' = Nothing /\ part' = NoFile
      /\ \A u \in Tasks : At(target[u])' = At(target[u])
  BY DEF At
<1>2. LandTypeOK'
  <2>1. part' \in Entries /\ failures' \in Nat
    BY DEF LInv, LandTypeOK, Entries
  <2>2. pc' \in [Tasks -> Steps]
    BY DEF LInv, LandTypeOK, Steps
  <2>3. off' \in [Tasks -> Nat]
    <3>1. off' = off \/ off' = [off EXCEPT ![t] = 0]
      OBVIOUS
    <3>2. off \in [Tasks -> Nat]
      BY DEF LInv, LandTypeOK
    <3> HIDE DEF Fetch
    <3> QED BY <3>1, <3>2
  <2> QED BY <2>1, <2>2, <2>3 DEF LInv, LandTypeOK, Entries
<1>3. Contents'
  BY <1>1, <1>0, Small DEF LInv, Contents, LandTypeOK
<1>4. Memory'
  BY <1>1 DEF LInv, Memory, LandTypeOK, Exchanging
<1>5. Transfer'
  BY <1>1 DEF LInv, Transfer, LandTypeOK, Alone
<1>6. Publication'
  BY <1>1 DEF LInv, Publication, LandTypeOK, Alone, Exchanging
<1>7. EditStays'
  BY <1>1 DEF LInv, EditStays, LandTypeOK, Alone, Exchanging
<1> QED BY <1>2, <1>3, <1>4, <1>5, <1>6, <1>7 DEF LInv

LEMMA VerifyKeeps ==
  ASSUME Alone, LInv, NEW t \in Tasks, Verify(t)
  PROVE  LInv'
<1> USE DEF Verify, Go, files, ledger, world
<1>1. At(part)' = At(part) /\ \A u \in Tasks : At(target[u])' = At(target[u])
  BY DEF At
<1>2. LandTypeOK'
  BY <1>1 DEF LInv, LandTypeOK, Steps, Entries
<1>3. Contents'
  BY <1>1 DEF LInv, Contents, LandTypeOK
<1>4. Memory'
  BY <1>1 DEF LInv, Memory, LandTypeOK, Exchanging
<1>5. Transfer'
  BY <1>1 DEF LInv, Transfer, LandTypeOK, Alone
<1>6. Publication'
  BY <1>1, WholeIsPrefix, Kinds DEF LInv, Publication, LandTypeOK, Alone, Exchanging, Transfer
<1>7. EditStays'
  BY <1>1 DEF LInv, EditStays, LandTypeOK, Alone, Exchanging
<1> QED BY <1>2, <1>3, <1>4, <1>5, <1>6, <1>7 DEF LInv

LEMMA EmbedKeeps ==
  ASSUME Alone, LInv, NEW t \in Tasks, Embed(t)
  PROVE  LInv'
<1> USE DEF Embed, Go, ledger, task, world
<1>n. Free # {} => /\ NewInode \in Inodes /\ NewInode # NoFile /\ NewInode # part
                     /\ \A u \in Tasks : NewInode # target[u] /\ NewInode # fd[u]
  BY NewFile
<1>1. /\ IsWhole(At(part)') /\ part' # NoFile /\ part # NoFile
      /\ \A u \in Tasks : At(target[u])' = At(target[u])
  BY <1>n, Kinds DEF LInv, LandTypeOK, Publication, Entries, At
<1>2. LandTypeOK'
  BY <1>1, <1>n, Kinds, SizeAssumption DEF LInv, LandTypeOK, Steps, Entries, Publication
<1>3. Contents'
  BY <1>1, Kinds DEF LInv, Contents, LandTypeOK, PartKind, FinalKind, IsGood
<1>4. Memory'
  BY <1>1 DEF LInv, Memory, LandTypeOK, Exchanging
<1>5. Transfer'
  BY <1>1 DEF LInv, Transfer, LandTypeOK, Alone
<1>6. Publication'
  BY <1>1 DEF LInv, Publication, LandTypeOK, Alone, Exchanging
<1>7. EditStays'
  BY <1>1 DEF LInv, EditStays, LandTypeOK, Alone, Exchanging
<1> QED BY <1>2, <1>3, <1>4, <1>5, <1>6, <1>7 DEF LInv

LEMMA StampKeeps ==
  ASSUME Alone, LInv, NEW t \in Tasks, Stamp(t)
  PROVE  LInv'
<1> USE DEF Stamp, Go, ledger, task, world
<1>1. At(part)' = At(part) /\ \A u \in Tasks : At(target[u])' = At(target[u])
  BY DEF At
<1>2. LandTypeOK'
  BY <1>1 DEF LInv, LandTypeOK, Steps
<1>3. Contents'
  BY <1>1 DEF LInv, Contents, LandTypeOK
<1>4. Memory'
  BY <1>1 DEF LInv, Memory, LandTypeOK, Exchanging
<1>5. Transfer'
  BY <1>1 DEF LInv, Transfer, LandTypeOK, Alone
<1>6. Publication'
  BY <1>1 DEF LInv, Publication, LandTypeOK, Alone, Exchanging
<1>7. EditStays'
  BY <1>1 DEF LInv, EditStays, LandTypeOK, Alone, Exchanging
<1> QED BY <1>2, <1>3, <1>4, <1>5, <1>6, <1>7 DEF LInv

LEMMA PublishNoReplaceKeeps ==
  ASSUME Alone, LInv, NEW t \in Tasks, PublishNoReplace(t)
  PROVE  LInv'
<1> USE DEF PublishNoReplace, Go, ledger, task, world
<1>0. PartKind(Nothing) /\ NoFile \notin recent
  BY DEF PartKind, FinalKind, LInv, LandTypeOK, Inodes, NoFile
<1>1. /\ \/ At(part)' = At(part) /\ part' = part
         \/ At(part)' = Nothing /\ part' = NoFile
      /\ \A u \in Tasks : \/ At(target[u])' = At(target[u]) /\ target'[u] = target[u]
                          \/ IsWhole(At(target[u])')
  BY DEF LInv, LandTypeOK, Publication, Alone, At
<1>2. LandTypeOK'
  BY <1>1 DEF LInv, LandTypeOK, Steps, Entries
<1>3. Contents'
  BY <1>1, <1>0, Kinds DEF LInv, Contents, LandTypeOK, FinalKind, IsGood
<1>4. Memory'
  BY <1>1 DEF LInv, Memory, LandTypeOK, Exchanging
<1>5. Transfer'
  BY <1>1 DEF LInv, Transfer, LandTypeOK, Alone
<1>6. Publication'
  BY <1>1, Kinds DEF LInv, Publication, LandTypeOK, Alone, Exchanging
<1>7. EditStays'
  BY <1>1 DEF LInv, EditStays, LandTypeOK, Alone, Exchanging, At
<1> QED BY <1>2, <1>3, <1>4, <1>5, <1>6, <1>7 DEF LInv

LEMMA CompareKeeps ==
  ASSUME Alone, LInv, NEW t \in Tasks, Compare(t)
  PROVE  LInv'
<1> USE DEF Compare, Go, files, ledger, task, world
<1>1. At(part)' = At(part) /\ \A u \in Tasks : At(target[u])' = At(target[u])
  BY DEF At
<1>2. LandTypeOK'
  BY <1>1 DEF LInv, LandTypeOK, Steps
<1>3. Contents'
  BY <1>1 DEF LInv, Contents, LandTypeOK
<1>4. Memory'
  BY <1>1 DEF LInv, Memory, LandTypeOK, Exchanging
<1>5. Transfer'
  BY <1>1 DEF LInv, Transfer, LandTypeOK, Alone
<1>6. Publication'
  BY <1>1 DEF LInv, Publication, LandTypeOK, Alone, Exchanging
<1>7. EditStays'
  BY <1>1 DEF LInv, EditStays, LandTypeOK, Alone, Exchanging
<1> QED BY <1>2, <1>3, <1>4, <1>5, <1>6, <1>7 DEF LInv

LEMMA TidyKeeps ==
  ASSUME Alone, LInv, NEW t \in Tasks, Tidy(t)
  PROVE  LInv'
<1> USE DEF Tidy, Go, ledger, task, world
<1>0. PartKind(Nothing) /\ NoFile \notin recent
  BY DEF PartKind, FinalKind, LInv, LandTypeOK, Inodes, NoFile
<1>1. /\ \/ At(part)' = At(part) /\ part' = part
         \/ At(part)' = Nothing /\ part' = NoFile
      /\ \A u \in Tasks : At(target[u])' = At(target[u])
  BY DEF At
<1>2. LandTypeOK'
  BY <1>1 DEF LInv, LandTypeOK, Steps, Entries
<1>3. Contents'
  BY <1>1, <1>0, Small DEF LInv, Contents, LandTypeOK
<1>4. Memory'
  BY <1>1 DEF LInv, Memory, LandTypeOK, Exchanging
<1>5. Transfer'
  BY <1>1 DEF LInv, Transfer, LandTypeOK, Alone
<1>6. Publication'
  BY <1>1 DEF LInv, Publication, LandTypeOK, Alone, Exchanging
<1>7. EditStays'
  BY <1>1 DEF LInv, EditStays, LandTypeOK, Alone, Exchanging
<1> QED BY <1>2, <1>3, <1>4, <1>5, <1>6, <1>7 DEF LInv

LEMMA CheckTargetKeeps ==
  ASSUME Alone, LInv, NEW t \in Tasks, CheckTarget(t)
  PROVE  LInv'
<1> USE DEF CheckTarget, Go, files, ledger, world
<1>1. At(part)' = At(part) /\ \A u \in Tasks : At(target[u])' = At(target[u])
  BY DEF At
<1>2. LandTypeOK'
  BY <1>1, AtTypes DEF LInv, LandTypeOK, Steps
<1>3. Contents'
  BY <1>1 DEF LInv, Contents, LandTypeOK
<1>4. Memory'
  BY <1>1 DEF LInv, Memory, LandTypeOK, Exchanging, Publication
<1>5. Transfer'
  BY <1>1 DEF LInv, Transfer, LandTypeOK, Alone
<1>6. Publication'
  BY <1>1 DEF LInv, Publication, LandTypeOK, Alone, Exchanging
<1>7. EditStays'
  BY <1>1 DEF LInv, EditStays, LandTypeOK, Alone, Exchanging
<1> QED BY <1>2, <1>3, <1>4, <1>5, <1>6, <1>7 DEF LInv

LEMMA ExchangeKeeps ==
  ASSUME Alone, LInv, NEW t \in Tasks, Exchange(t)
  PROVE  LInv'
<1> USE DEF Exchange, Exchangeable, Swap, Go, ledger, task, world
<1>1. \/ /\ At(part)' = At(target[t]) /\ part' = target[t] /\ At(target[t])' = At(part)
         /\ target'[t] = part /\ part # NoFile /\ part' # NoFile
      \/ /\ At(part)' = At(part) /\ part' = part /\ target' = target
         /\ At(target[t])' = At(target[t])
  BY DEF LInv, LandTypeOK, At
<1>2. LandTypeOK'
  <2>1. part' \in Entries /\ target' \in [Tasks -> Entries]
    <3>1. CASE Exchangeable(t)
      <4>1. part' = target[t] /\ target' = [target EXCEPT ![t] = part]
        BY <3>1
      <4>2. part \in Entries /\ target \in [Tasks -> Entries]
        BY DEF LInv, LandTypeOK
      <4> QED BY <4>1, <4>2
    <3>2. CASE ~Exchangeable(t)
      BY <3>2 DEF LInv, LandTypeOK
    <3> QED BY <3>1, <3>2
  <2>2. pc' \in [Tasks -> Steps]
    BY DEF LInv, LandTypeOK, Steps
  <2> QED BY <2>1, <2>2 DEF LInv, LandTypeOK
<1>3. Contents'
  BY <1>1, Kinds DEF LInv, Contents, LandTypeOK, PartKind, FinalKind, IsGood, Publication, Alone
<1>4. Memory'
  BY <1>1 DEF LInv, Memory, LandTypeOK, Exchanging
<1>5. Transfer'
  BY <1>1 DEF LInv, Transfer, LandTypeOK, Alone
<1>6. Publication'
  BY <1>1, Kinds DEF LInv, Publication, LandTypeOK, Alone, Exchanging, Contents
<1>7. EditStays'
  BY <1>1 DEF LInv, EditStays, LandTypeOK, Alone, Exchanging, Contents
<1> QED BY <1>2, <1>3, <1>4, <1>5, <1>6, <1>7 DEF LInv

LEMMA CheckDisplacedKeeps ==
  ASSUME Alone, LInv, NEW t \in Tasks, CheckDisplaced(t)
  PROVE  LInv'
<1> USE DEF CheckDisplaced, Go, files, ledger, task, world
<1>1. At(part)' = At(part) /\ \A u \in Tasks : At(target[u])' = At(target[u])
  BY DEF At
<1>2. LandTypeOK'
  BY <1>1 DEF LInv, LandTypeOK, Steps
<1>3. Contents'
  BY <1>1 DEF LInv, Contents, LandTypeOK
<1>4. Memory'
  BY <1>1 DEF LInv, Memory, LandTypeOK, Exchanging
<1>5. Transfer'
  BY <1>1 DEF LInv, Transfer, LandTypeOK, Alone
<1>6. Publication'
  BY <1>1 DEF LInv, Publication, LandTypeOK, Alone, Exchanging
<1>7. EditStays'
  BY <1>1, Kinds DEF LInv, EditStays, LandTypeOK, Alone, Exchanging, Memory
<1> QED BY <1>2, <1>3, <1>4, <1>5, <1>6, <1>7 DEF LInv

LEMMA RestoreIfUnchangedKeeps ==
  ASSUME Alone, LInv, NEW t \in Tasks, RestoreIfUnchanged(t)
  PROVE  LInv'
<1> USE DEF RestoreIfUnchanged, Retain, Go, files, ledger, task
<1>1. At(part)' = At(part) /\ \A u \in Tasks : At(target[u])' = At(target[u])
  BY DEF At
<1>2. LandTypeOK'
  BY <1>1 DEF LInv, LandTypeOK, Steps
<1>3. Contents'
  BY <1>1 DEF LInv, Contents, LandTypeOK
<1>4. Memory'
  BY <1>1 DEF LInv, Memory, LandTypeOK, Exchanging
<1>5. Transfer'
  BY <1>1 DEF LInv, Transfer, LandTypeOK, Alone
<1>6. Publication'
  BY <1>1 DEF LInv, Publication, LandTypeOK, Alone, Exchanging
<1>7. EditStays'
  BY <1>1, Kinds DEF LInv, EditStays, LandTypeOK, Alone, Exchanging, Memory
<1> QED BY <1>2, <1>3, <1>4, <1>5, <1>6, <1>7 DEF LInv

LEMMA SwapBackKeeps ==
  ASSUME Alone, LInv, NEW t \in Tasks, SwapBack(t)
  PROVE  LInv'
<1> USE DEF SwapBack, Retain, Exchangeable, Swap, Go, ledger, task
<1>1. \/ /\ At(part)' = At(target[t]) /\ part' = target[t] /\ At(target[t])' = At(part)
         /\ target'[t] = part /\ part # NoFile /\ part' # NoFile
      \/ /\ At(part)' = At(part) /\ part' = part /\ target' = target
         /\ At(target[t])' = At(target[t])
  BY DEF LInv, LandTypeOK, At
<1>2. LandTypeOK'
  <2>1. part' \in Entries /\ target' \in [Tasks -> Entries]
    <3>1. CASE Exchangeable(t)
      <4>1. part' = target[t] /\ target' = [target EXCEPT ![t] = part]
        BY <3>1
      <4>2. part \in Entries /\ target \in [Tasks -> Entries]
        BY DEF LInv, LandTypeOK
      <4> QED BY <4>1, <4>2
    <3>2. CASE ~Exchangeable(t)
      BY <3>2 DEF LInv, LandTypeOK
    <3> QED BY <3>1, <3>2
  <2>2. pc' \in [Tasks -> Steps] /\ parked' \in BOOLEAN
    BY DEF LInv, LandTypeOK, Steps
  <2> QED BY <2>1, <2>2 DEF LInv, LandTypeOK
<1>3. Contents'
  BY <1>1 DEF LInv, Contents, LandTypeOK, PartKind, Alone, Publication, Exchanging
<1>4. Memory'
  BY <1>1 DEF LInv, Memory, LandTypeOK, Exchanging
<1>5. Transfer'
  BY <1>1 DEF LInv, Transfer, LandTypeOK, Alone
<1>6. Publication'
  BY <1>1, Small DEF LInv, Publication, LandTypeOK, Alone, Exchanging, Memory, Exchanging, Contents
<1>7. EditStays'
  BY <1>1 DEF LInv, EditStays, LandTypeOK, Alone, Exchanging
<1> QED BY <1>2, <1>3, <1>4, <1>5, <1>6, <1>7 DEF LInv

LEMMA CheckRestoredKeeps ==
  ASSUME Alone, LInv, NEW t \in Tasks, CheckRestored(t)
  PROVE  LInv'
<1> USE DEF CheckRestored, Retain, Go, files, ledger, task
<1>1. At(part)' = At(part) /\ \A u \in Tasks : At(target[u])' = At(target[u])
  BY DEF At
<1>2. LandTypeOK'
  BY <1>1 DEF LInv, LandTypeOK, Steps
<1>3. Contents'
  BY <1>1 DEF LInv, Contents, LandTypeOK
<1>4. Memory'
  BY <1>1 DEF LInv, Memory, LandTypeOK, Exchanging
<1>5. Transfer'
  BY <1>1 DEF LInv, Transfer, LandTypeOK, Alone
<1>6. Publication'
  BY <1>1 DEF LInv, Publication, LandTypeOK, Alone, Exchanging
<1>7. EditStays'
  BY <1>1, Kinds DEF LInv, EditStays, LandTypeOK, Alone, Exchanging, Memory
<1> QED BY <1>2, <1>3, <1>4, <1>5, <1>6, <1>7 DEF LInv

LEMMA RecordKeeps ==
  ASSUME Alone, LInv, NEW t \in Tasks, Record(t)
  PROVE  LInv'
<1> USE DEF Record, Go, files, ledger, world
<1>1. At(part)' = At(part) /\ \A u \in Tasks : At(target[u])' = At(target[u])
  BY DEF At
<1>2. LandTypeOK'
  BY <1>1, Small DEF LInv, LandTypeOK, Steps, At, Entries
<1>3. Contents'
  BY <1>1 DEF LInv, Contents, LandTypeOK
<1>4. Memory'
  BY <1>1 DEF LInv, Memory, LandTypeOK, Exchanging, Contents, FinalKind, Publication, Alone
<1>5. Transfer'
  BY <1>1 DEF LInv, Transfer, LandTypeOK, Alone
<1>6. Publication'
  BY <1>1 DEF LInv, Publication, LandTypeOK, Alone, Exchanging
<1>7. EditStays'
  BY <1>1 DEF LInv, EditStays, LandTypeOK, Alone, Exchanging
<1> QED BY <1>2, <1>3, <1>4, <1>5, <1>6, <1>7 DEF LInv

LEMMA RetireKeeps ==
  ASSUME Alone, LInv, NEW t \in Tasks, Retire(t)
  PROVE  LInv'
<1> USE DEF Retire, Go, files, task, world
<1>1. At(part)' = At(part) /\ \A u \in Tasks : At(target[u])' = At(target[u])
  BY DEF At
<1>2. LandTypeOK'
  BY <1>1 DEF LInv, LandTypeOK, Steps
<1>3. Contents'
  BY <1>1 DEF LInv, Contents, LandTypeOK
<1>4. Memory'
  BY <1>1 DEF LInv, Memory, LandTypeOK, Exchanging
<1>5. Transfer'
  BY <1>1 DEF LInv, Transfer, LandTypeOK, Alone
<1>6. Publication'
  BY <1>1 DEF LInv, Publication, LandTypeOK, Alone, Exchanging
<1>7. EditStays'
  BY <1>1 DEF LInv, EditStays, LandTypeOK, Alone, Exchanging
<1> QED BY <1>2, <1>3, <1>4, <1>5, <1>6, <1>7 DEF LInv

LEMMA UserSavesKeeps ==
  ASSUME Alone, LInv, NEW t \in Tasks, UserSaves(t)
  PROVE  LInv'
<1> USE DEF UserSaves, ledger, task
<1>n. Free # {} => /\ NewInode \in Inodes /\ NewInode # NoFile /\ NewInode # part
                     /\ \A u \in Tasks : NewInode # target[u] /\ NewInode # fd[u]
  BY NewFile
<1>1. /\ At(part)' = At(part) /\ At(target[t])' = Edit(edits') /\ IsEdit(Edit(edits'))
      /\ target'[t] # NoFile /\ target'[t] # part
  BY <1>n, LandBoundsAssumption DEF LInv, LandTypeOK, At, IsEdit
<1>2. LandTypeOK'
  <2>1. Edit(edits') \in Seq(Int) /\ Len(Edit(edits')) <= Size + 1
    BY <1>1, Kinds, SizeAssumption
  <2>2. bytes' \in [Inodes -> Seq(Int)] /\ \A i \in Inodes : Len(bytes'[i]) <= Size + 1
    BY <1>n, <2>1 DEF LInv, LandTypeOK
  <2>3. target' \in [Tasks -> Entries] /\ recent' \in SUBSET Inodes
    BY <1>n DEF LInv, LandTypeOK, Entries
  <2> QED BY <2>1, <2>2, <2>3 DEF LInv, LandTypeOK
<1>3. Contents'
  BY <1>1, <1>n, Kinds DEF LInv, Contents, LandTypeOK, FinalKind, IsGood, Alone
<1>4. Memory'
  BY <1>1, Kinds DEF LInv, Memory, LandTypeOK, Exchanging
<1>5. Transfer'
  BY <1>1 DEF LInv, Transfer, LandTypeOK, Alone
<1>6. Publication'
  BY <1>1, Kinds DEF LInv, Publication, LandTypeOK, Alone, Exchanging
<1>7. EditStays'
  BY <1>1, Kinds DEF LInv, EditStays, LandTypeOK, Alone, Exchanging
<1> QED BY <1>2, <1>3, <1>4, <1>5, <1>6, <1>7 DEF LInv

LEMMA UserDeletesKeeps ==
  ASSUME Alone, LInv, NEW t \in Tasks, UserDeletes(t)
  PROVE  LInv'
<1> USE DEF UserDeletes, ledger, task
<1>1. At(part)' = At(part) /\ At(target[t])' = Nothing /\ target'[t] = NoFile
  BY DEF LInv, LandTypeOK, At
<1>2. LandTypeOK'
  BY <1>1, Small DEF LInv, LandTypeOK, Steps, Entries
<1>3. Contents'
  BY <1>1 DEF LInv, Contents, LandTypeOK, FinalKind, Alone, Inodes, NoFile
<1>4. Memory'
  BY <1>1 DEF LInv, Memory, LandTypeOK, Exchanging
<1>5. Transfer'
  BY <1>1 DEF LInv, Transfer, LandTypeOK, Alone
<1>6. Publication'
  BY <1>1, Small DEF LInv, Publication, LandTypeOK, Alone, Exchanging
<1>7. EditStays'
  BY <1>1 DEF LInv, EditStays, LandTypeOK, Alone, Exchanging
<1> QED BY <1>2, <1>3, <1>4, <1>5, <1>6, <1>7 DEF LInv

LEMMA HourPassesKeeps ==
  ASSUME Alone, LInv, HourPasses
  PROVE  LInv'
<1> USE DEF HourPasses, ledger, task, world
<1>1. At(part)' = At(part) /\ \A u \in Tasks : At(target[u])' = At(target[u])
  BY DEF At
<1>2. LandTypeOK'
  BY <1>1 DEF LInv, LandTypeOK, Steps
<1>3. Contents'
  BY <1>1 DEF LInv, Contents, LandTypeOK
<1>4. Memory'
  BY <1>1 DEF LInv, Memory, LandTypeOK, Exchanging
<1>5. Transfer'
  BY <1>1 DEF LInv, Transfer, LandTypeOK, Alone
<1>6. Publication'
  BY <1>1 DEF LInv, Publication, LandTypeOK, Alone, Exchanging
<1>7. EditStays'
  BY <1>1 DEF LInv, EditStays, LandTypeOK, Alone, Exchanging
<1> QED BY <1>2, <1>3, <1>4, <1>5, <1>6, <1>7 DEF LInv

LEMMA SyncCompletesKeeps ==
  ASSUME Alone, LInv, SyncCompletes
  PROVE  LInv'
<1> USE DEF SyncCompletes, files, task, world
<1>1. At(part)' = At(part) /\ \A u \in Tasks : At(target[u])' = At(target[u])
  BY DEF At
<1>2. LandTypeOK'
  BY <1>1 DEF LInv, LandTypeOK, Steps
<1>3. Contents'
  BY <1>1 DEF LInv, Contents, LandTypeOK
<1>4. Memory'
  BY <1>1 DEF LInv, Memory, LandTypeOK, Exchanging
<1>5. Transfer'
  BY <1>1 DEF LInv, Transfer, LandTypeOK, Alone
<1>6. Publication'
  BY <1>1 DEF LInv, Publication, LandTypeOK, Alone, Exchanging
<1>7. EditStays'
  BY <1>1 DEF LInv, EditStays, LandTypeOK, Alone, Exchanging
<1> QED BY <1>2, <1>3, <1>4, <1>5, <1>6, <1>7 DEF LInv

LEMMA CleanupKeeps ==
  ASSUME Alone, LInv, CleanupOrphanPartFiles
  PROVE  LInv'
<1> USE DEF CleanupOrphanPartFiles, Quiet, task, world
<1>0. PartKind(Nothing) /\ NoFile \notin recent
  BY DEF PartKind, FinalKind, LInv, LandTypeOK, Inodes, NoFile
<1>1. /\ \/ At(part)' = At(part) /\ part' = part
         \/ At(part)' = Nothing /\ part' = NoFile
      /\ \A u \in Tasks : At(target[u])' = At(target[u])
  BY DEF At
<1>2. LandTypeOK'
  BY <1>1 DEF LInv, LandTypeOK, Steps, Entries
<1>3. Contents'
  BY <1>1, <1>0, Small DEF LInv, Contents, LandTypeOK
<1>4. Memory'
  BY <1>1 DEF LInv, Memory, LandTypeOK, Exchanging
<1>5. Transfer'
  BY <1>1 DEF LInv, Transfer, LandTypeOK, Alone
<1>6. Publication'
  BY <1>1 DEF LInv, Publication, LandTypeOK, Alone, Exchanging
<1>7. EditStays'
  BY <1>1 DEF LInv, EditStays, LandTypeOK, Alone, Exchanging
<1> QED BY <1>2, <1>3, <1>4, <1>5, <1>6, <1>7 DEF LInv

LEMMA CrashKeeps ==
  ASSUME Alone, LInv, Crash
  PROVE  LInv'
<1> USE DEF Crash, Fails, files, ledger
<1>1. At(part)' = At(part) /\ \A u \in Tasks : At(target[u])' = At(target[u])
  BY DEF At
<1>2. LandTypeOK'
  BY <1>1 DEF LInv, LandTypeOK, Steps, Entries
<1>3. Contents'
  BY <1>1 DEF LInv, Contents, LandTypeOK
<1>4. Memory'
  BY <1>1 DEF LInv, Memory, LandTypeOK, Exchanging
<1>5. Transfer'
  BY <1>1 DEF LInv, Transfer, LandTypeOK, Alone
<1>6. Publication'
  BY <1>1 DEF LInv, Publication, LandTypeOK, Alone, Exchanging
<1>7. EditStays'
  BY <1>1 DEF LInv, EditStays, LandTypeOK, Alone, Exchanging
<1> QED BY <1>2, <1>3, <1>4, <1>5, <1>6, <1>7 DEF LInv

-----------------------------------------------------------------------------
(* The theorems.                                                           *)

LEMMA InitLands == Init => LInv
<1> SUFFICES ASSUME Init PROVE LInv
  OBVIOUS
<1>1. At(part) = Nothing /\ part = NoFile /\ recent = {}
  BY DEF Init, At
<1>2. \A t \in Tasks : target[t] \in {NoFile, 1}
  <2>1. target \in [Tasks -> {NoFile} \cup (IF "repair" \in LandFaults THEN {1} ELSE {})]
    BY DEF Init
  <2>2. {NoFile} \cup (IF "repair" \in LandFaults THEN {1} ELSE {}) \subseteq {NoFile, 1}
    OBVIOUS
  <2> QED BY <2>1, <2>2
<1>3. 1 \in Inodes /\ NoFile # 1 /\ bytes[1] = Damaged
  BY LandBoundsAssumption DEF Init, Inodes, NoFile
<1>4. \A t \in Tasks : At(target[t]) = IF target[t] = NoFile THEN Nothing ELSE Damaged
  BY <1>2, <1>3 DEF At
<1>5. LandTypeOK
  <2>1. part \in Entries /\ target \in [Tasks -> Entries]
    BY <1>2, <1>3 DEF Init, Entries
  <2>2. bytes \in [Inodes -> Seq(Int)] /\ \A i \in Inodes : Len(bytes[i]) <= Size + 1
    <3>1. \A i \in Inodes : bytes[i] = Nothing \/ bytes[i] = Damaged
      BY DEF Init
    <3>2. \A i \in Inodes : bytes[i] \in Seq(Int) /\ Len(bytes[i]) \in {0, 1}
      BY <3>1, Small
    <3>3. ASSUME NEW i \in Inodes PROVE Len(bytes[i]) <= Size + 1
      <4>1. \A n \in {0, 1} : n <= Size + 1
        BY SizeAssumption
      <4> QED BY <3>2, <4>1
    <3>4. bytes = [i \in Inodes |-> bytes[i]]
      BY DEF Init
    <3> QED BY <3>2, <3>3, <3>4
  <2> QED BY <2>1, <2>2, Small DEF Init, LandTypeOK, Entries, Steps
<1>6. Contents
  BY <1>1, <1>4, Small DEF Contents, PartKind, FinalKind
<1>7. Memory /\ Transfer /\ Publication /\ EditStays
  BY DEF Init, Memory, Transfer, Publication, EditStays, Exchanging
<1> QED BY <1>5, <1>6, <1>7 DEF LInv

LEMMA NextLands ==
  ASSUME Alone, LInv, [Next]_vars
  PROVE  LInv'
<1>1. ASSUME NEW t \in Tasks, Land(t)
      PROVE  LInv'
  BY <1>1, BeginKeeps, StatKeeps, FetchKeeps, UnlinkKeeps, CreateKeeps, OpenAppendKeeps,
     WriteChunkKeeps, BreakOffKeeps, VerifyKeeps, EmbedKeeps, StampKeeps,
     PublishNoReplaceKeeps, CompareKeeps, TidyKeeps, CheckTargetKeeps, ExchangeKeeps,
     CheckDisplacedKeeps, RestoreIfUnchangedKeeps, SwapBackKeeps, CheckRestoredKeeps,
     RecordKeeps, RetireKeeps DEF Land
<1>2. ASSUME NEW t \in Tasks, UserSaves(t) \/ UserDeletes(t)
      PROVE  LInv'
  BY <1>2, UserSavesKeeps, UserDeletesKeeps
<1>3. CASE HourPasses \/ SyncCompletes \/ CleanupOrphanPartFiles \/ Crash
  BY <1>3, HourPassesKeeps, SyncCompletesKeeps, CleanupKeeps, CrashKeeps
<1>4. CASE UNCHANGED vars
  BY <1>4 DEF LInv, LandTypeOK, Contents, Memory, Transfer, Publication, EditStays, At,
     vars, files, ledger, task, world
<1> QED BY <1>1, <1>2, <1>3, <1>4 DEF Next

\* The inductive invariant of the landing of a file.
THEOREM LandingIsSound ==
  ASSUME Alone
  PROVE  Spec => []LInv
<1>1. Init => LInv
  BY InitLands
<1>2. LInv /\ [Next]_vars => LInv'
  BY NextLands
<1> QED BY <1>1, <1>2, PTL DEF Spec

\* Types, and no file longer than the provider's file with its metadata: no
\* attempt of download_single_task appends to, or embeds into, a complete file.
THEOREM LandingTypes ==
  ASSUME Alone
  PROVE  Spec => []LandTypeOK
<1>1. LInv => LandTypeOK
  BY DEF LInv
<1> QED BY <1>1, LandingIsSound, PTL

\* Neither a publication without replacement nor the conditional exchange of a
\* repair takes from the final path what the user saved there.
THEOREM UserEditsStay ==
  ASSUME Alone
  PROVE  Spec => []EditStays
<1>1. LInv => EditStays
  BY DEF LInv
<1> QED BY <1>1, LandingIsSound, PTL

\* What a row records is the provider's complete file, or the user's: resumed,
\* stale, displaced and foreign .part files are never recorded.
THEOREM RowsAreWhole ==
  ASSUME Alone
  PROVE  Spec => []RowIsWhole
<1>1. LInv => RowIsWhole
  BY DEF LInv, Memory, RowIsWhole, IsGood
<1> QED BY <1>1, LandingIsSound, PTL
=============================================================================
