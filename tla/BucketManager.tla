---------------------------- MODULE BucketManager ----------------------------
(***************************************************************************)
(* How a node keeps its bucket files: the bucket manager                   *)
(* (bucket/BucketManagerImpl.cpp) with its worker merges and its garbage   *)
(* collection, the last steps of closing a ledger                          *)
(* (ledger/LedgerManagerImpl.cpp), the publish queue                       *)
(* (history/HistoryManagerImpl.cpp) and the works that publish a           *)
(* checkpoint to the history archive (historywork/).                       *)
(*                                                                         *)
(*   disk     what survives a crash: the bucket files, and the database as *)
(*            of its last commit                                           *)
(*   mem      the process: the bucket list, the database as this session   *)
(*            sees it (an open transaction included), mSharedBuckets,      *)
(*            mLiveFutures (tasks), mFinishedMerges, the reference counts  *)
(*            of mPublishQueueBuckets, where closeLedger is (phase),       *)
(*            mPublishWork, and the ledger whose state the list has        *)
(*   archive  the history archive: its state file, its bucket files and    *)
(*            the checkpoints it has had the state of                      *)
(*   used     how many crashes, archive failures and catchups there were,  *)
(*            the first ledger, and the ledgers this node did not close    *)
(*                                                                         *)
(* The main thread runs one callback at a time; worker threads finish      *)
(* merges at any moment, between any two steps of it.                      *)
(***************************************************************************)
EXTENDS BucketList, FiniteSets

CONSTANTS
    Freq,         \* getCheckpointFrequency()
    InitialLcl,   \* the ledgers a run may begin at
    MaxCloses,    \* bound on the ledgers after the initial one
    MaxCrashes,   \* bound on crashes and shutdowns
    MaxFailures,  \* bound on failures of the archive
    MaxCatchups   \* bound on catchups by buckets

ASSUME BucketManagerAssumption ==
    /\ Freq \in Nat \ {0}
    /\ InitialLcl \subseteq Nat \ {0}
    /\ MaxCloses \in Nat /\ MaxCrashes \in Nat
    /\ MaxFailures \in Nat /\ MaxCatchups \in Nat

VARIABLES disk, mem, archive, used

vars == <<disk, mem, archive, used>>

\* publishCheckpointOnLedgerClose
IsCheckpoint(ledger) == (ledger + 1) % Freq = 0

\* The last ledger of the run.
LastLedger == used.first + MaxCloses

Checkpoints ==
    {n \in {i + k : i \in InitialLcl, k \in 1 .. MaxCloses} : IsCheckpoint(n)}

EmptyList == [i \in Level |-> EmptyLevel]

NoWork == [phase |-> "none"]

-----------------------------------------------------------------------------
(* Buckets in memory.                                                      *)

\* The merges a list waits for.
MergesOf(list) ==
    {MergeKey(list[i].next) : i \in {j \in Level : isMerging(list[j].next)}}

\* The buckets that something besides mSharedBuckets points to: the list,
\* its futures, the inputs of running merges, and the outputs of the finished
\* merges whose futures are still unresolved.
Held(m) ==
    (allBuckets(m.list)
        \cup (UNION {{k[1], k[2]} : k \in m.tasks})
        \cup {OutputOf(k) : k \in MergesOf(m.list) \ m.tasks}) \ {{}}

\* Mutant: leaves out the last closed ledger as the database has it.
getListedBuckets(m) == allBuckets(m.list) \cup DOMAIN m.refs

\* The buckets the bucket list, the last closed ledger or the publish queue
\* names, with the finished merges of those only the publish queue names.
getReferencedBuckets(m) ==
    LET named == allBuckets(m.list) \cup allBuckets(m.db.has)
        queued == DOMAIN m.refs
        outputs == {OutputOf(k) : k \in {l \in m.finished :
                        {l[1], l[2]} \cap (queued \ named) # {}}}
    IN named \cup queued \cup outputs

\* Mutant: forgets what is not referenced without looking at use_count.
UnreferencedInUse(m) == m.shared \ getReferencedBuckets(m)

\* The shared buckets forgetUnreferencedBuckets drops, and removes the files of.
Unreferenced(m) == m.shared \ (getReferencedBuckets(m) \cup Held(m))

forgetUnreferencedBuckets(m) ==
    LET dropped == Unreferenced(m)
    IN [m EXCEPT !.shared = @ \ dropped,
                 !.finished = {k \in @ : OutputOf(k) \notin dropped}]

\* The futures of finished merges become outputs.
resolveAnyReadyFutures(list, tasks) ==
    [i \in Level |->
        IF isMerging(list[i].next) /\ MergeKey(list[i].next) \notin tasks
        THEN [list[i] EXCEPT !.next = FutureOutput(resolve(@))]
        ELSE list[i]]

\* Starts the merges keys, but for those that run or have finished.
startMerges(m, keys) == [m EXCEPT !.tasks = @ \cup (keys \ m.finished)]

\* mPublishQueueBuckets
addBuckets(refs, buckets) ==
    [b \in DOMAIN refs \cup buckets |->
        (IF b \in DOMAIN refs THEN refs[b] ELSE 0) + (IF b \in buckets THEN 1 ELSE 0)]

\* A count that reaches zero is erased.
removeBuckets(refs, buckets) ==
    LET left(b) == refs[b] - (IF b \in buckets THEN 1 ELSE 0)
    IN [b \in {d \in DOMAIN refs : left(d) # 0} |-> left(b)]

\* The reference counts of the rows of the publish queue.
loadBucketsReferencedByPublishQueue(queue) ==
    LET buckets == UNION {allBuckets(queue[c]) : c \in DOMAIN queue}
    IN [b \in buckets |->
            Cardinality({c \in DOMAIN queue : b \in allBuckets(queue[c])})]

-----------------------------------------------------------------------------
(* Publishing.                                                             *)

\* The state published for a saved list: prepareForPublish clears its futures.
prepareForPublish(has) == [i \in Level |-> [has[i] EXCEPT !.next = FutureClear]]

\* Mutant: leaves the snaps out.
differingCurrs(has, other) == {has[i].curr : i \in Level} \ (allBuckets(other) \cup {{}})

\* The buckets of has that a state other does not name.
differingBuckets(has, other) == allBuckets(has) \ allBuckets(other)

\* Publishes the oldest queued checkpoint, unless one is being published.
publishQueuedHistory(m) ==
    IF m.work # NoWork \/ DOMAIN m.db.queue = {} THEN m
    ELSE LET c == CHOOSE d \in DOMAIN m.db.queue : \A e \in DOMAIN m.db.queue : d <= e
         IN [m EXCEPT !.work = [phase |-> "resolve", ledger |-> c,
                                has |-> m.db.queue[c], files |-> {}, put |-> {}]]

\* The publish queue without checkpoint c.
Dequeued(queue, c) == [d \in DOMAIN queue \ {c} |-> queue[d]]

-----------------------------------------------------------------------------
(* Starting the process.                                                   *)

\* checkForMissingBucketsFiles for the last closed ledger and for the rows of
\* the publish queue: a node that misses one does not start.
MissingBuckets ==
    (allBuckets(disk.db.has)
        \cup UNION {allBuckets(disk.db.queue[c]) : c \in DOMAIN disk.db.queue})
    \ disk.files

\* The bucket list is set to has and its merges are restarted.
assumeState(m, has, ledger) ==
    LET list == restartMerges(has, ledger)
    IN startMerges([m EXCEPT !.list = list, !.ledger = ledger,
                             !.shared = @ \cup allBuckets(list)],
                   MergesOf(list))

\* The files cleanupStaleFiles leaves.
KeptFiles(m, files) == files \cap (getReferencedBuckets(m) \cup m.shared)

\* The process as it is right after loadLastKnownLedger.
Loaded(db) ==
    assumeState([up |-> TRUE, phase |-> "idle", list |-> db.has, ledger |-> db.lcl, db |-> db,
                 shared |-> {}, tasks |-> {}, finished |-> {},
                 refs |-> loadBucketsReferencedByPublishQueue(db.queue),
                 work |-> NoWork, posted |-> FALSE],
                db.has, db.lcl)

Down == [Loaded([lcl |-> 0, has |-> EmptyList, queue |-> <<>>]) EXCEPT !.up = FALSE]

\* A node that has closed InitialLcl and whose merges are all resolved.
Init ==
    \E n \in InitialLcl :
        LET has == resolveAnyReadyFutures(restartMerges(ListAt(n), n), {})
            db == [lcl |-> n, has |-> has, queue |-> <<>>]
        IN /\ disk = [files |-> allBuckets(has), db |-> db]
           /\ mem = Loaded(db)
           /\ archive = [has |-> EmptyList, files |-> {}, published |-> {}]
           /\ used = [crashes |-> 0, failures |-> 0, catchups |-> 0,
                     first |-> n, skipped |-> 1 .. n]

\* ApplicationImpl::start: loads the last closed ledger, removes stale files
\* and takes up publishing.
Restart ==
    /\ ~mem.up
    /\ MissingBuckets = {}
    /\ LET m == Loaded(disk.db)
       IN /\ mem' = publishQueuedHistory(m)
          /\ disk' = [disk EXCEPT !.files = KeptFiles(m, @)]
    /\ UNCHANGED <<archive, used>>

Crash ==
    /\ mem.up
    /\ used.crashes < MaxCrashes
    /\ mem' = Down
    /\ used' = [used EXCEPT !.crashes = @ + 1]
    /\ UNCHANGED <<disk, archive>>

\* The main thread is between two callbacks.
Idle == mem.up /\ mem.phase \in {"idle", "assumed"}

\* gracefulStop: the bucket manager collects its garbage before it ends.
Shutdown ==
    /\ Idle
    /\ used.crashes < MaxCrashes
    /\ disk' = [disk EXCEPT !.files = @ \ Unreferenced(mem)]
    /\ mem' = Down
    /\ used' = [used EXCEPT !.crashes = @ + 1]
    /\ UNCHANGED archive

-----------------------------------------------------------------------------
(* Closing a ledger.                                                       *)

\* addBatch blocks until the merges of the levels that commit are done.
MustWait(ledger) ==
    \E i \in Level :
        /\ commits(ledger, i)
        /\ isMerging(mem.list[i].next)
        /\ MergeKey(mem.list[i].next) \in mem.tasks

\* The ledger is applied and its changes go to the bucket list, in a bucket of
\* their own that is merged into level 0 at once.
AddBatch ==
    /\ mem.up /\ mem.phase = "idle"
    /\ mem.db.lcl < LastLedger
    /\ LET ledger == mem.db.lcl + 1
           list == addBatch(mem.list, ledger)
           started == {MergeKey(list[i].next) : i \in {j \in Level : commits(ledger, j)}}
           level0 == <<list[0].curr \ {ledger}, {ledger}>>
           new == {{ledger}, list[0].curr}
       IN /\ ~MustWait(ledger)
          /\ mem' = [startMerges(mem, started) EXCEPT
                        !.list = list, !.ledger = ledger, !.phase = "batched",
                        !.shared = @ \cup new, !.finished = @ \cup {level0}]
          /\ disk' = [disk EXCEPT !.files = @ \cup new]
    /\ UNCHANGED <<archive, used>>

\* Adds the state list of a checkpoint to the publish queue.
queueCurrentHistory(m, ledger, list) ==
    [m EXCEPT !.db.queue = [c \in DOMAIN @ \cup {ledger} |->
                                IF c = ledger THEN list ELSE @[c]],
              !.refs = addBuckets(@, allBuckets(list))]

\* Step 1: the ledger and its bucket list are stored, and a checkpoint queued,
\* in the open transaction.
StoreLedger ==
    /\ mem.phase = "batched"
    /\ LET ledger == mem.db.lcl + 1
           list == resolveAnyReadyFutures(mem.list, mem.tasks)
           stored == [mem EXCEPT !.list = list, !.phase = "stored",
                                 !.db.lcl = ledger, !.db.has = list]
       IN mem' = IF IsCheckpoint(ledger)
                 THEN queueCurrentHistory(stored, ledger, list)
                 ELSE stored
    /\ UNCHANGED <<disk, archive, used>>

\* Step 2: the transaction commits.
CommitLedger ==
    /\ mem.phase = "stored"
    /\ disk' = [disk EXCEPT !.db = mem.db]
    /\ mem' = [mem EXCEPT !.phase = "committed"]
    /\ UNCHANGED <<archive, used>>

\* Steps 3 and 4: publishing is started, then unreferenced buckets forgotten.
FinishClose ==
    /\ mem.phase = "committed"
    /\ LET m == publishQueuedHistory([mem EXCEPT !.phase = "idle"])
       IN /\ mem' = forgetUnreferencedBuckets(m)
          /\ disk' = [disk EXCEPT !.files = @ \ Unreferenced(m)]
    /\ UNCHANGED <<archive, used>>

\* A worker finishes a merge; adoptFileAsBucket renames its file into place.
FinishMerge(key) ==
    /\ key \in mem.tasks
    /\ mem' = [mem EXCEPT !.tasks = @ \ {key}, !.shared = @ \cup {OutputOf(key)},
                          !.finished = @ \cup {key}]
    /\ disk' = [disk EXCEPT !.files = @ \cup {OutputOf(key)}]
    /\ UNCHANGED <<archive, used>>

-----------------------------------------------------------------------------
(* Catching up by buckets.                                                 *)

\* The buckets of checkpoint c are downloaded and applied, and the bucket list
\* assumes its state: ApplyBucketsWork.
ApplyBuckets(c) ==
    /\ mem.up /\ mem.phase = "idle"
    /\ used.catchups < MaxCatchups
    /\ c \in mem.db.lcl + 1 .. LastLedger
    /\ LET has == ListAt(c)
           m == assumeState([mem EXCEPT !.phase = "assumed",
                                        !.shared = @ \cup allBuckets(has)], has, c)
       IN /\ mem' = m
          /\ disk' = [disk EXCEPT !.files = KeptFiles(m, @ \cup allBuckets(has))]
    /\ used' = [used EXCEPT !.catchups = @ + 1]
    /\ UNCHANGED archive

\* setLastClosedLedger stores the ledger caught up to.
SetLastClosedLedger ==
    /\ mem.phase = "assumed"
    /\ LET db == [mem.db EXCEPT !.lcl = mem.ledger, !.has = mem.list]
       IN /\ mem' = [mem EXCEPT !.phase = "idle", !.db = db]
          /\ disk' = [disk EXCEPT !.db = db]
    /\ used' = [used EXCEPT !.skipped = @ \cup (mem.db.lcl + 1 .. mem.ledger)]
    /\ UNCHANGED archive

-----------------------------------------------------------------------------
(* The works of a publish, a sequence that runs between ledger closes.     *)

Working(phase) == Idle /\ mem.work.phase = phase

\* ResolveSnapshotWork waits for the ledger after the checkpoint; then
\* WriteSnapshotWork writes the history files.
ResolveSnapshot ==
    /\ Working("resolve")
    /\ mem.db.lcl > mem.work.ledger
    /\ mem' = [mem EXCEPT !.work.phase = "get"]
    /\ UNCHANGED <<disk, archive, used>>

\* PutSnapshotFilesWork reads the archive's state and picks the files to send.
GetArchiveState ==
    /\ Working("get")
    /\ LET files == differingBuckets(prepareForPublish(mem.work.has), archive.has)
       IN mem' = [mem EXCEPT !.work.phase = "files", !.work.files = files,
                             !.shared = @ \cup files]
    /\ UNCHANGED <<disk, archive, used>>

\* PutFilesWork sends them from the bucket directory.
PutFiles ==
    /\ Working("files")
    /\ mem.work.files \subseteq disk.files
    /\ archive' = [archive EXCEPT !.files = @ \cup mem.work.files]
    /\ mem' = [mem EXCEPT !.work.phase = "state"]
    /\ UNCHANGED <<disk, used>>

\* PutHistoryArchiveStateWork puts the state into the checkpoint's own file and
\* into the well-known one that is the archive's state, in either order.
PutStateFile(file) ==
    /\ Working("state")
    /\ file \in {"checkpoint", "well-known"} \ mem.work.put
    /\ archive' = IF file = "checkpoint"
                  THEN [archive EXCEPT !.published = @ \cup {mem.work.ledger}]
                  ELSE [archive EXCEPT !.has = prepareForPublish(mem.work.has)]
    /\ mem' = [mem EXCEPT !.work.put = @ \cup {file}]
    /\ UNCHANGED <<disk, used>>

\* Mutant: a failed publish stays mPublishWork.
historyPublishedKept(db, refs, success) ==
    /\ disk' = [disk EXCEPT !.db = db]
    /\ mem' = [mem EXCEPT !.db = db, !.refs = refs, !.posted = TRUE,
                          !.work = IF success THEN NoWork
                                   ELSE [@ EXCEPT !.phase = "failed"]]

\* The end of a publish, which leaves the rows db and the counts refs; looking
\* for the next checkpoint is posted.
historyPublished(db, refs, success) ==
    /\ disk' = [disk EXCEPT !.db = db]
    /\ mem' = [mem EXCEPT !.db = db, !.refs = refs, !.posted = TRUE, !.work = NoWork]

PublishSucceeds ==
    /\ Working("state")
    /\ mem.work.put = {"checkpoint", "well-known"}
    /\ historyPublished([mem.db EXCEPT !.queue = Dequeued(@, mem.work.ledger)],
                        removeBuckets(mem.refs, allBuckets(mem.work.has)), TRUE)
    /\ UNCHANGED <<archive, used>>

PublishFails ==
    /\ Idle /\ mem.work.phase \in {"get", "files", "state"}
    /\ used.failures < MaxFailures
    /\ historyPublished(mem.db, mem.refs, FALSE)
    /\ used' = [used EXCEPT !.failures = @ + 1]
    /\ UNCHANGED archive

\* The posted callback.
PublishNext ==
    /\ Idle /\ mem.posted
    /\ mem' = [publishQueuedHistory(mem) EXCEPT !.posted = FALSE]
    /\ UNCHANGED <<disk, archive, used>>

-----------------------------------------------------------------------------

CloseStep == AddBatch \/ StoreLedger \/ CommitLedger \/ FinishClose \/ SetLastClosedLedger

Merge == \E key \in mem.tasks : FinishMerge(key)

PublishStep ==
    \/ ResolveSnapshot \/ GetArchiveState \/ PutFiles
    \/ \E file \in {"checkpoint", "well-known"} : PutStateFile(file)
    \/ PublishSucceeds \/ PublishNext

Fault ==
    \/ Crash \/ Shutdown \/ PublishFails
    \/ \E c \in Checkpoints : ApplyBuckets(c)

Progress == PublishStep \/ Merge \/ CloseStep \/ Restart

Next == Progress \/ Fault

Spec == Init /\ [][Next]_vars

\* Weak fairness of Progress: threads run what is posted to them, and a node
\* that died is started again.  ENABLED Progress, spelled out:
CanProgress ==
    \/ ~mem.up /\ MissingBuckets = {}
    \/ mem.tasks # {}
    \/ mem.up /\ mem.phase # "idle"
    \/ mem.up /\ mem.db.lcl < LastLedger
    \/ mem.posted
    \/ mem.work.phase = "resolve" /\ mem.db.lcl > mem.work.ledger
    \/ mem.work.phase \in {"get", "state"}
    \/ mem.work.phase = "files" /\ mem.work.files \subseteq disk.files

\* and the steps of Progress, which leave the counts of faults alone:
FairSpec ==
    /\ Spec
    /\ \/ []<>~CanProgress
       \/ []<><<UNCHANGED <<used.crashes, used.failures, used.catchups>>>>_vars

-----------------------------------------------------------------------------

\* Whenever the process dies, every bucket that the committed last closed
\* ledger or a row of the publish queue names is in the bucket directory, so
\* that loadLastKnownLedger never finds the directory corrupt.
RestartSafe == MissingBuckets = {}

\* Every bucket that the list, a future or a running merge points to has its
\* file: forgetUnreferencedBuckets and cleanupStaleFiles never remove the file
\* of a bucket in use, and a publish finds every file it picked.
InUseOnDisk ==
    /\ Held(mem) \subseteq disk.files
    /\ mem.work.phase = "files" => mem.work.files \subseteq disk.files

\* The buckets of the list depend on its ledger alone: not on when merges
\* finish, nor on crashes, restarted merges or a catchup before it, so that all
\* nodes have the same bucketListHash in the header.
ListDetermined ==
    mem.up => prepareForPublish(mem.list) = ListAt(mem.ledger)

\* Publishing may stop after any step and start over.  The archive has every
\* bucket its state names, though only those are sent that the archive's previous
\* state does not name (differingBuckets); a checkpoint that the node closed is in
\* the publish queue until the archive has had its state, and none is lost by a
\* crash after the commit; and the oldest goes first, so that the state of the
\* archive never goes back.
PublishSafe ==
    /\ allBuckets(archive.has) \subseteq archive.files
    /\ \A c \in Checkpoints :
          c <= disk.db.lcl =>
              c \in DOMAIN disk.db.queue \cup archive.published \cup used.skipped
    /\ \A c \in DOMAIN disk.db.queue : \A d \in archive.published : d <= c

\* Every queued checkpoint is published once the ledger after it is closed.
EventuallyPublished ==
    \A c \in Checkpoints :
        /\ c \in DOMAIN disk.db.queue
        /\ c # LastLedger
        ~> c \in archive.published

=============================================================================
