---------------------------- MODULE FileLanding ----------------------------
(***************************************************************************)
(* How one download reaches its final path (download/file.rs on Linux): a  *)
(* claimed .part file that may be resumed, an optional metadata rewrite of *)
(* it, publication without overwriting or, for a repair, an exchange with  *)
(* exactly the bytes that were authorised, and the clean-up of what a      *)
(* crash leaves behind.  The user may save or delete the final file at any *)
(* moment.                                                                 *)
(*                                                                         *)
(* Paths are directory entries that point to inodes, since a writer keeps  *)
(* its handle when an entry is removed or exchanged.  Tasks with the same  *)
(* checksum and directory share one .part path (temp_download_path) and    *)
(* have a final path each.                                                 *)
(***************************************************************************)
EXTENDS Integers, Sequences, FiniteSets

CONSTANTS
  Tasks,         \* downloads in flight with this checksum and directory
  Size,          \* chunks of the provider's file
  EmbedModes,    \* whether metadata is embedded (needs_embed)
  MaxInodes,     \* bound: files that exist at the same time
  MaxEdits,      \* bound: what the user does to the final files
  MaxFailures,   \* bound: requests that fail, interruptions and crashes
  LandFaults     \* which misfortunes of AllLandFaults may happen

\* "repair": a final file is damaged and kei sync --repair-truncated is used;
\* "http": a request fails or its body is an error document; "break": a
\* transfer breaks off; "link": the file system has no RENAME_NOREPLACE;
\* "db": the retirement of a claim is not stored.
AllLandFaults == {"repair", "http", "break", "link", "db", "crash"}

Inodes == 1..MaxInodes
NoFile == 0

ASSUME TasksAssumption == Tasks # {} /\ IsFiniteSet(Tasks)
ASSUME SizeAssumption == Size \in Nat /\ Size >= 2
ASSUME ModesAssumption == EmbedModes \subseteq BOOLEAN /\ EmbedModes # {}
ASSUME LandBoundsAssumption == /\ MaxInodes \in Nat \ {0} /\ MaxEdits \in Nat
                               /\ MaxFailures \in Nat
ASSUME LandFaultsAssumption == LandFaults \subseteq AllLandFaults

\* Chunk i of the provider's file is i, metadata is 0, and what the user saves
\* is negative.  An edit is not shorter than the provider's file: a shorter one
\* cannot be told from a truncated file.
Nothing == <<>>
Whole == [i \in 1..Size |-> i]
Damaged == <<0>>
Edit(k) == [i \in 1..Size |-> -k]
IsEdit(c) == \E k \in 1..MaxEdits : c = Edit(k)
IsWhole(c) == c = Whole \/ c = Append(Whole, 0)

VARIABLES
  part,      \* directory entry of the .part path
  target,    \* directory entry of each final path
  bytes,     \* contents of the inodes
  recent,    \* inodes modified within STALE_PART_FILE_SECS
  claim,     \* owned_temp_files has the .part path
  aged,      \* a sync has completed since it was claimed
  row,       \* local_checksum of the downloaded rows
  pc,        \* where each task is
  want,      \* FinalPublication::ReplaceTruncated of a task, or Nothing
  embed,     \* needs_embed
  fd, app,   \* handle of the .part file, opened for appending
  off,       \* resume_offset, then bytes_written
  seen,      \* fingerprint of the replacement
  sum,       \* checksum of the landed file
  mine,      \* what the user last saved at a final path
  parked,    \* history: an exchange ended without putting everything back
  edits, failures

files == <<part, target, bytes, recent>>
ledger == <<claim, aged, row>>
task == <<want, embed, fd, app, off, seen, sum>>
world == <<mine, parked, edits, failures>>
vars == <<files, ledger, pc, task, world>>

Steps == {"idle", "stat", "fetch", "unlink", "create", "append", "write", "embed",
          "stamp", "publish", "compare", "dedup", "tidy", "exchange", "displaced",
          "restore", "swapback", "restored", "record", "retire"}
Exchanging == {"displaced", "restore", "swapback", "restored"}
Entries == Inodes \cup {NoFile}

\* Types.  No file is longer than the provider's file with its metadata: no
\* attempt appends to, or embeds into, what another one has completed.
LandTypeOK ==
  /\ part \in Entries
  /\ target \in [Tasks -> Entries]
  /\ bytes \in [Inodes -> Seq(Int)] /\ \A i \in Inodes : Len(bytes[i]) <= Size + 1
  /\ recent \in SUBSET Inodes
  /\ claim \in BOOLEAN /\ aged \in BOOLEAN
  /\ row \in [Tasks -> Seq(Int)]
  /\ pc \in [Tasks -> Steps]
  /\ want \in [Tasks -> Seq(Int)]
  /\ embed \in [Tasks -> BOOLEAN] /\ app \in [Tasks -> BOOLEAN]
  /\ fd \in [Tasks -> Entries]
  /\ off \in [Tasks -> Nat]
  /\ seen \in [Tasks -> Seq(Int)] /\ sum \in [Tasks -> Seq(Int)]
  /\ mine \in [Tasks -> Seq(Int)]
  /\ parked \in BOOLEAN
  /\ edits \in Nat /\ failures \in Nat

\* What a path holds; an absent file has no bytes.
At(entry) == IF entry = NoFile THEN Nothing ELSE bytes[entry]

Used == {part} \cup {target[t] : t \in Tasks} \cup {fd[t] : t \in Tasks}
Free == Inodes \ Used
NewInode == CHOOSE i \in Free : TRUE

Init ==
  /\ part = NoFile
  /\ bytes = [i \in Inodes |-> IF i = 1 THEN Damaged ELSE Nothing]
  /\ target \in [Tasks -> {NoFile} \cup (IF "repair" \in LandFaults THEN {1} ELSE {})]
  /\ \A t, u \in Tasks : t # u /\ target[t] = target[u] => target[t] = NoFile
  /\ recent = {} /\ claim = FALSE /\ aged = FALSE
  /\ row = [t \in Tasks |-> Nothing]
  /\ pc = [t \in Tasks |-> "idle"]
  /\ want = [t \in Tasks |-> Nothing] /\ embed = [t \in Tasks |-> FALSE]
  /\ fd = [t \in Tasks |-> NoFile] /\ app = [t \in Tasks |-> FALSE]
  /\ off = [t \in Tasks |-> 0]
  /\ seen = [t \in Tasks |-> Nothing] /\ sum = [t \in Tasks |-> Nothing]
  /\ mine = [t \in Tasks |-> Nothing] /\ parked = FALSE
  /\ edits = 0 /\ failures = 0

Go(t, step) == pc' = [pc EXCEPT ![t] = step]

\* A failure: the task gives up, or its retry loop begins again.
Fails == failures < MaxFailures /\ failures' = failures + 1

-----------------------------------------------------------------------------
(* The user, the clock, and the runs around a download.                    *)

UserSaves(t) ==
  /\ edits < MaxEdits /\ Free # {}
  /\ edits' = edits + 1
  /\ target' = [target EXCEPT ![t] = NewInode]
  /\ bytes' = [bytes EXCEPT ![NewInode] = Edit(edits')]
  /\ recent' = recent \cup {NewInode}
  /\ mine' = [mine EXCEPT ![t] = Edit(edits')]
  /\ UNCHANGED <<part, ledger, pc, task, parked, failures>>

UserDeletes(t) ==
  /\ edits < MaxEdits /\ target[t] # NoFile
  /\ edits' = edits + 1
  /\ target' = [target EXCEPT ![t] = NoFile]
  /\ mine' = [mine EXCEPT ![t] = Nothing]
  /\ UNCHANGED <<part, bytes, recent, ledger, pc, task, parked, failures>>

HourPasses ==
  /\ recent # {}
  /\ recent' = {}
  /\ UNCHANGED <<part, target, bytes, ledger, pc, task, world>>

Quiet == \A t \in Tasks : pc[t] = "idle"

\* A later sync completes; the claim is then older than last_sync_completed.
SyncCompletes ==
  /\ Quiet /\ claim /\ ~aged
  /\ aged' = TRUE
  /\ UNCHANGED <<files, claim, row, pc, task, world>>

\* cleanup_orphan_part_files: an owned file that was modified after that sync is
\* kept and loses its claim, one modified in the last ten minutes is left alone
\* for now, any other is removed.
CleanupOrphanPartFiles ==
  /\ Quiet /\ claim /\ aged
  /\ claim' = FALSE /\ aged' = FALSE
  /\ part' \in {part, NoFile}
  /\ UNCHANGED <<target, bytes, recent, row, pc, task, world>>

Crash ==
  /\ "crash" \in LandFaults /\ ~Quiet
  /\ Fails
  /\ pc' = [t \in Tasks |-> "idle"]
  /\ fd' = [t \in Tasks |-> NoFile]
  /\ parked' = (parked \/ \E t \in Tasks : pc[t] \in Exchanging)
  /\ UNCHANGED <<files, ledger, want, embed, app, off, seen, sum, mine, edits>>

-----------------------------------------------------------------------------
(* The transfer.                                                           *)

\* Planning gives a task a free final path, or the recorded one together with
\* the truncated bytes it may replace; the claim comes before any write.
Begin(t) ==
  /\ pc[t] = "idle"
  /\ \/ target[t] = NoFile
     \/ "repair" \in LandFaults /\ Len(At(target[t])) < Size
  /\ want' = [want EXCEPT ![t] = At(target[t])]
  /\ \E e \in EmbedModes : embed' = [embed EXCEPT ![t] = e]
  /\ sum' = [sum EXCEPT ![t] = Nothing] /\ seen' = [seen EXCEPT ![t] = Nothing]
  /\ claim' = TRUE /\ aged' = FALSE
  /\ Go(t, "stat")
  /\ UNCHANGED <<files, row, fd, app, off, world>>

\* Mutant: resumes a .part file of any age.
StatAnyAge(t) ==
  /\ pc[t] = "stat"
  /\ off' = [off EXCEPT ![t] = Len(At(part))]
  /\ Go(t, "fetch")
  /\ UNCHANGED <<files, ledger, want, embed, fd, app, seen, sum, world>>

Stat(t) ==
  /\ pc[t] = "stat"
  /\ off' = [off EXCEPT ![t] = IF part \in recent THEN Len(At(part)) ELSE 0]
  /\ Go(t, "fetch")
  /\ UNCHANGED <<files, ledger, want, embed, fd, app, seen, sum, world>>

\* Mutant: takes a refused range for a complete download.
RangeRefusedIsComplete(t) == Go(t, IF embed[t] THEN "embed" ELSE "publish")

\* 416 is an error like any other.
RangeRefused(t) == Go(t, "retire")

\* 206 continues, 200 starts over, and a range past the end is refused.
Fetch(t) ==
  /\ pc[t] = "fetch"
  /\ \/ /\ 0 < off[t] /\ off[t] < Size
        /\ Go(t, "append")
        /\ UNCHANGED <<part, off, failures>>
     \/ /\ off[t] < Size
        /\ off[t] = 0 \/ "http" \in LandFaults
        /\ off' = [off EXCEPT ![t] = 0]
        /\ Go(t, "unlink")
        /\ UNCHANGED <<part, failures>>
     \/ /\ off[t] >= Size
        /\ RangeRefused(t)
        /\ UNCHANGED <<part, off, failures>>
     \/ \* a failed request, or an error document, which also removes the part
        /\ "http" \in LandFaults /\ Fails
        /\ part' \in {part, NoFile}
        /\ Go(t, "stat") \/ Go(t, "retire")
        /\ UNCHANGED off
  /\ UNCHANGED <<target, bytes, recent, ledger, want, embed, fd, app, seen, sum,
                 mine, parked, edits>>

Unlink(t) ==
  /\ pc[t] = "unlink"
  /\ part' = NoFile
  /\ Go(t, "create")
  /\ UNCHANGED <<target, bytes, recent, ledger, task, world>>

\* create_new refuses a .part file that has appeared since.
Create(t) ==
  /\ pc[t] = "create"
  /\ \/ /\ part = NoFile /\ Free # {}
        /\ part' = NewInode
        /\ bytes' = [bytes EXCEPT ![NewInode] = Nothing]
        /\ recent' = recent \cup {NewInode}
        /\ fd' = [fd EXCEPT ![t] = NewInode]
        /\ Go(t, "write")
     \/ /\ part # NoFile
        /\ Go(t, "retire")
        /\ UNCHANGED <<part, bytes, recent, fd>>
  /\ app' = [app EXCEPT ![t] = FALSE]
  /\ UNCHANGED <<target, ledger, want, embed, off, seen, sum, world>>

OpenAppend(t) ==
  /\ pc[t] = "append"
  /\ fd' = [fd EXCEPT ![t] = part]
  /\ app' = [app EXCEPT ![t] = TRUE]
  /\ Go(t, IF part = NoFile THEN "retire" ELSE "write")
  /\ UNCHANGED <<files, ledger, want, embed, off, seen, sum, world>>

\* A handle opened for appending writes at the end, the other one where it is.
Written(c, n, appending) ==
  IF appending \/ n > Len(c) THEN Append(c, n) ELSE [c EXCEPT ![n] = n]

WriteChunk(t) ==
  /\ pc[t] = "write" /\ off[t] < Size
  /\ off' = [off EXCEPT ![t] = @ + 1]
  /\ bytes' = [bytes EXCEPT ![fd[t]] = Written(@, off'[t], app[t])]
  /\ recent' = recent \cup {fd[t]}
  /\ UNCHANGED <<part, target, ledger, pc, want, embed, fd, app, seen, sum, world>>

\* A connection that breaks and an interruption keep the .part file; a short
\* body and a full disk remove it.
BreakOff(t) ==
  /\ pc[t] = "write" /\ "break" \in LandFaults /\ Fails
  /\ part' \in {part, NoFile}
  /\ fd' = [fd EXCEPT ![t] = NoFile]
  /\ Go(t, "stat") \/ Go(t, "retire")
  /\ UNCHANGED <<target, bytes, recent, ledger, want, embed, app, off, seen, sum,
                 mine, parked, edits>>

\* Lengths are compared with bytes_written; the path is opened again to look at
\* its first bytes.
Verify(t) ==
  /\ pc[t] = "write" /\ off[t] = Size
  /\ fd' = [fd EXCEPT ![t] = NoFile]
  /\ Go(t, IF At(part) = Nothing THEN "retire"
           ELSE IF embed[t] THEN "embed" ELSE "publish")
  /\ UNCHANGED <<files, ledger, want, embed, app, off, seen, sum, world>>

-----------------------------------------------------------------------------
(* Metadata and publication.                                               *)

\* The embedded metadata is prepared in a sibling file that takes the place of
\* the .part file; a failure leaves it as it was.
Embed(t) ==
  /\ pc[t] = "embed"
  /\ \/ /\ part # NoFile /\ Free # {}
        /\ part' = NewInode
        /\ bytes' = [bytes EXCEPT ![NewInode] = Append(At(part), 0)]
        /\ recent' = recent \cup {NewInode}
     \/ UNCHANGED <<part, bytes, recent>>
  /\ Go(t, IF part = NoFile THEN "retire" ELSE "stamp")
  /\ UNCHANGED <<target, ledger, task, world>>

\* set_file_mtime: the file looks as old as the photo.
Stamp(t) ==
  /\ pc[t] = "stamp"
  /\ recent' = recent \ {part}
  /\ Go(t, "publish")
  /\ UNCHANGED <<part, target, bytes, ledger, task, world>>

\* RENAME_NOREPLACE, or a hard link followed by the removal of the .part path.
PublishNoReplace(t) ==
  /\ pc[t] = "publish" /\ want[t] = Nothing
  /\ \/ /\ part # NoFile /\ target[t] = NoFile
        /\ target' = [target EXCEPT ![t] = part]
        /\ \/ part' = NoFile /\ Go(t, "record")
           \/ "link" \in LandFaults /\ UNCHANGED part /\ Go(t, "tidy")
     \/ /\ target[t] # NoFile
        /\ Go(t, "compare")
        /\ UNCHANGED <<part, target>>
     \/ /\ part = NoFile /\ target[t] = NoFile
        /\ Go(t, "retire")
        /\ UNCHANGED <<part, target>>
  /\ UNCHANGED <<bytes, recent, ledger, task, world>>

\* Only identical bytes are deduplicated.
Compare(t) ==
  /\ pc[t] = "compare"
  /\ Go(t, IF part # NoFile /\ target[t] # NoFile /\ At(part) = At(target[t])
           THEN "dedup" ELSE "retire")
  /\ UNCHANGED <<files, ledger, task, world>>

\* The redundant, linked or displaced .part file goes; only the first of the
\* three must exist.
Tidy(t) ==
  /\ pc[t] \in {"dedup", "tidy"}
  /\ part' = NoFile
  /\ Go(t, IF pc[t] = "dedup" /\ part = NoFile THEN "retire" ELSE "record")
  /\ UNCHANGED <<target, bytes, recent, ledger, task, world>>

CheckTarget(t) ==
  /\ pc[t] = "publish" /\ want[t] # Nothing
  /\ seen' = [seen EXCEPT ![t] = At(part)]
  /\ Go(t, IF At(target[t]) = want[t] /\ part # NoFile THEN "exchange" ELSE "retire")
  /\ UNCHANGED <<files, ledger, want, embed, fd, app, off, sum, world>>

\* RENAME_EXCHANGE needs both entries.
Swap(t) ==
  /\ part' = target[t]
  /\ target' = [target EXCEPT ![t] = part]
Exchangeable(t) == part # NoFile /\ target[t] # NoFile

Exchange(t) ==
  /\ pc[t] = "exchange"
  /\ \/ Exchangeable(t) /\ Swap(t) /\ Go(t, "displaced")
     \/ ~Exchangeable(t) /\ Go(t, "retire") /\ UNCHANGED <<part, target>>
  /\ UNCHANGED <<bytes, recent, ledger, task, world>>

\* Mutant: trusts the check that was made before the exchange.
CheckDisplacedTrusting(t) ==
  /\ pc[t] = "displaced"
  /\ Go(t, "tidy")
  /\ UNCHANGED <<files, ledger, task, world>>

CheckDisplaced(t) ==
  /\ pc[t] = "displaced"
  /\ Go(t, IF At(part) = want[t] THEN "tidy" ELSE "restore")
  /\ UNCHANGED <<files, ledger, task, world>>

\* ConditionalPublishMustRetainPaths: what was displaced stays where it is.
Retain(t) == parked' = TRUE /\ Go(t, "retire")

RestoreIfUnchanged(t) ==
  /\ pc[t] = "restore"
  /\ \/ At(target[t]) = seen[t] /\ Go(t, "swapback") /\ UNCHANGED parked
     \/ At(target[t]) # seen[t] /\ Retain(t)
  /\ UNCHANGED <<files, ledger, task, mine, edits, failures>>

SwapBack(t) ==
  /\ pc[t] = "swapback"
  /\ \/ Exchangeable(t) /\ Swap(t) /\ Go(t, "restored") /\ UNCHANGED parked
     \/ ~Exchangeable(t) /\ Retain(t) /\ UNCHANGED <<part, target>>
  /\ UNCHANGED <<bytes, recent, ledger, task, mine, edits, failures>>

CheckRestored(t) ==
  /\ pc[t] = "restored"
  /\ \/ At(part) = seen[t] /\ Go(t, "retire") /\ UNCHANGED parked
     \/ At(part) # seen[t] /\ Retain(t)
  /\ UNCHANGED <<files, ledger, task, mine, edits, failures>>

\* The checksum of the final path is taken after publication.
Record(t) ==
  /\ pc[t] = "record"
  /\ sum' = [sum EXCEPT ![t] = At(target[t])]
  /\ Go(t, "retire")
  /\ UNCHANGED <<files, ledger, want, embed, fd, app, off, seen, world>>

\* The claim is retired however the task ended; only then does the row change.
Retire(t) ==
  /\ pc[t] = "retire"
  /\ \/ /\ claim' = FALSE /\ aged' = FALSE
        /\ row' = [row EXCEPT ![t] = IF sum[t] = Nothing THEN @ ELSE sum[t]]
     \/ "db" \in LandFaults /\ UNCHANGED <<claim, aged, row>>
  /\ Go(t, "idle")
  /\ UNCHANGED <<files, task, world>>

-----------------------------------------------------------------------------
Land(t) ==
  \/ Begin(t) \/ Stat(t) \/ Fetch(t) \/ Unlink(t) \/ Create(t) \/ OpenAppend(t)
  \/ WriteChunk(t) \/ BreakOff(t) \/ Verify(t) \/ Embed(t) \/ Stamp(t)
  \/ PublishNoReplace(t) \/ Compare(t) \/ Tidy(t) \/ CheckTarget(t) \/ Exchange(t)
  \/ CheckDisplaced(t) \/ RestoreIfUnchanged(t) \/ SwapBack(t) \/ CheckRestored(t)
  \/ Record(t) \/ Retire(t)

Next ==
  \/ \E t \in Tasks : Land(t) \/ UserSaves(t) \/ UserDeletes(t)
  \/ HourPasses \/ SyncCompletes \/ CleanupOrphanPartFiles \/ Crash

Spec == Init /\ [][Next]_vars

\* A task that can go on does, a later run tries again, and time passes.
FairSpec == Spec /\ (\A t \in Tasks : WF_vars(Land(t))) /\ WF_vars(HourPasses)

-----------------------------------------------------------------------------
(* Properties.                                                             *)

\* What the user saved at a final path after planning is never replaced.  While
\* an exchange is being checked it is at the final or at the .part path; after
\* it, also where the exchange had to be undone, it is at the final path.  (An
\* exchange that could not be undone or was cut off by a crash leaves it at the
\* .part path, without a promise about the attempts that follow.)
EditStays ==
  \A t \in Tasks : mine[t] # Nothing /\ ~parked =>
    \/ At(target[t]) = mine[t]
    \/ pc[t] \in Exchanging /\ At(part) = mine[t]

\* A row that says "downloaded" describes the provider's complete file, with or
\* without embedded metadata, or what the user has put in its place, and never
\* a file pieced together from a resumed, displaced or foreign .part file.
RowIsWhole ==
  \A t \in Tasks : row[t] # Nothing => IsWhole(row[t]) \/ IsEdit(row[t])

\* A missing file is there again in the end: a .part file that cannot be
\* resumed does not stand in the way for ever.
Lands == \A t \in Tasks : target[t] = NoFile ~> target[t] # NoFile
=============================================================================
