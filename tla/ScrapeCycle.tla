----------------------------- MODULE ScrapeCycle -----------------------------
(***************************************************************************)
(* BoardArchiver.Execute and PerformScrape: one process that repeatedly    *)
(* reads the boards, lets a pool of workers poll threads and download      *)
(* media, and keeps the download queue in a SQLite cache (SqliteStateStore)*)
(* so that a later process can resume it.                                  *)
(*                                                                         *)
(* A download is a QueuedImageDownload, identified by its Guid.  What a    *)
(* poll does to the backend is in ThreadArchive; here it succeeds or fails *)
(* and yields fresh downloads.                                             *)
(***************************************************************************)
EXTENDS Naturals, Sequences, FiniteSets, Functions

CONSTANTS
  Threads,      \* threads the board listings may name
  Images,       \* Guids of the downloads that may ever be created
  Workers,      \* one per proxy connection (ProxyProvider.ProxyCount)
  ThumbOnly,    \* downloads whose FullImageUri is null
  LoopArchive,  \* ~SourceConfig.SingleScan
  NoThread,     \* a worker that polls nothing
  MaxBoots      \* bound: how many processes are started one after another

ASSUME ScrapeAssumption ==
  /\ ThumbOnly \subseteq Images
  /\ LoopArchive \in BOOLEAN
  /\ NoThread \notin Threads
  /\ MaxBoots \in Nat \ {0}

VARIABLES
  (* the process, lost when it ends *)
  phase,           \* where Execute / PerformScrape stands
  firstRun,        \* Execute's local of that name
  cancelled,       \* token.IsCancellationRequested
  threadQueue,     \* threads the enumerator has not handed out yet
  requeuedThreads, \* threads whose poll failed in this cycle
  loading,         \* cache rows fetched by GetDownloadQueue, not yet enqueued
  imageQueue,      \* enqueuedImages
  requeuedImages,  \* downloads that failed in this cycle
  pc,              \* each worker's place in its loop
  polling,         \* the thread a worker polls
  downloading,     \* the download a worker works on, as a set of at most one
  batch,           \* downloads the worker's poll returned
  toEnqueue,       \* those of batch still to be put on imageQueue
  addedRows,       \* rows a failed SaveChanges left in the EF context
  (* what outlives it *)
  store,           \* rows of the cache table QueuedImageDownloads
  settled,         \* downloads ProcessFileDownload has accepted
  issued,          \* Guids handed out so far
  boots            \* processes started so far

queues     == <<threadQueue, requeuedThreads, imageQueue, requeuedImages>>
workerVars == <<pc, polling, downloading, batch, toEnqueue>>
disk       == <<store, settled, issued>>
vars == <<phase, firstRun, cancelled, queues, loading, workerVars, addedRows,
          disk, boots>>

Phases == {"boards", "start", "load", "scrape", "wait", "stopped"}
Places == {"top", "threads", "last", "download", "cooldown", "poll", "deliver",
           "exited", "faulted"}

TypeOK ==
  /\ phase \in Phases
  /\ firstRun \in BOOLEAN
  /\ cancelled \in BOOLEAN
  /\ threadQueue \subseteq Threads
  /\ requeuedThreads \subseteq Threads
  /\ loading \subseteq Images
  /\ imageQueue \in Seq(Images)
  /\ requeuedImages \in Seq(Images)
  /\ pc \in [Workers -> Places]
  /\ polling \in [Workers -> Threads \cup {NoThread}]
  /\ downloading \in [Workers -> SUBSET Images]
  /\ batch \in [Workers -> SUBSET Images]
  /\ toEnqueue \in [Workers -> SUBSET Images]
  /\ addedRows \subseteq Images
  /\ store \subseteq Images
  /\ settled \subseteq Images
  /\ issued \subseteq Images
  /\ boots \in 1..MaxBoots

Nothing == [w \in Workers |-> {}]

Init ==
  /\ phase = "boards"
  /\ firstRun = TRUE
  /\ cancelled = FALSE
  /\ threadQueue = {} /\ requeuedThreads = {} /\ loading = {}
  /\ imageQueue = <<>> /\ requeuedImages = <<>>
  /\ pc = [w \in Workers |-> "exited"]
  /\ polling = [w \in Workers |-> NoThread]
  /\ downloading = Nothing /\ batch = Nothing /\ toEnqueue = Nothing
  /\ addedRows = {}
  /\ store = {} /\ settled = {} /\ issued = {}
  /\ boots = 1

\* A process ends: only the disk keeps what it knew.
ProcessEnds ==
  /\ phase' = "stopped"
  /\ firstRun' = TRUE
  /\ cancelled' = FALSE
  /\ threadQueue' = {} /\ requeuedThreads' = {} /\ loading' = {}
  /\ imageQueue' = <<>> /\ requeuedImages' = <<>>
  /\ pc' = [w \in Workers |-> "exited"]
  /\ polling' = [w \in Workers |-> NoThread]
  /\ downloading' = Nothing /\ batch' = Nothing /\ toEnqueue' = Nothing
  /\ addedRows' = {}
  /\ UNCHANGED <<disk, boots>>

-----------------------------------------------------------------------------
(* Execute, between two scrapes. *)

\* The last process is left alone, so that liveness says something of it.
MayBeDisturbed == boots < MaxBoots

\* Execute 111-118: which threads the listings name is free here.  Outside
\* loop mode only the first pass reads them; later ones take what failed.
ReadBoards ==
  /\ phase = "boards"
  /\ ~cancelled
  /\ phase' = "start"
  /\ threadQueue' \in IF firstRun \/ LoopArchive
                        THEN SUBSET Threads ELSE {requeuedThreads}
  /\ UNCHANGED <<firstRun, cancelled, requeuedThreads, loading, imageQueue,
                 requeuedImages, workerVars, addedRows, disk, boots>>

\* The loop test of Execute, ReadBoards' ThrowIfCancellationRequested and
\* PerformScrape's early return all end the process without another write.
StopWhenCancelled ==
  /\ phase \in {"boards", "start"}
  /\ cancelled
  /\ ProcessEnds

\* PerformScrape up to the first await: imageQueue keeps additionalImages.
StartScrape ==
  /\ phase = "start"
  /\ ~cancelled
  /\ requeuedThreads' = {}
  /\ requeuedImages' = <<>>
  /\ loading' = IF firstRun THEN store ELSE {}
  /\ phase' = "load"
  /\ UNCHANGED <<firstRun, cancelled, threadQueue, imageQueue, workerVars,
                 addedRows, disk, boots>>

LoadRow(j) ==
  /\ phase = "load"
  /\ j \in loading
  /\ loading' = loading \ {j}
  /\ imageQueue' = Append(imageQueue, j)
  /\ UNCHANGED <<phase, firstRun, cancelled, threadQueue, requeuedThreads,
                 requeuedImages, workerVars, addedRows, disk, boots>>

StartWorkers ==
  /\ phase = "load"
  /\ loading = {}
  /\ phase' = "scrape"
  /\ pc' = [w \in Workers |-> "top"]
  /\ UNCHANGED <<firstRun, cancelled, queues, loading, polling, downloading,
                 batch, toEnqueue, addedRows, disk, boots>>

-----------------------------------------------------------------------------
(* A worker: CheckImages, CheckThreads, CheckImages, or finish. *)

Goto(w, place) == pc' = [pc EXCEPT ![w] = place]

Outside == <<phase, firstRun, cancelled, loading, boots>>

\* Only the top of the loop looks at the token.
WorkerStops(w) ==
  /\ phase = "scrape"
  /\ pc[w] = "top"
  /\ cancelled
  /\ Goto(w, "exited")
  /\ UNCHANGED <<Outside, queues, polling, downloading, batch, toEnqueue,
                 addedRows, disk>>

\* CheckImages.  Dereferencing a null FullImageUri (line 322) happens after
\* the dequeue and before DownloadEnqueuedImage's try.
TakeImage(w) ==
  /\ phase = "scrape"
  /\ \/ pc[w] = "top" /\ ~cancelled
     \/ pc[w] = "last"
  /\ imageQueue # <<>>
  /\ imageQueue' = Tail(imageQueue)
  /\ LET j == Head(imageQueue)
     IN  IF j \in ThumbOnly
           THEN Goto(w, "faulted") /\ UNCHANGED downloading
           ELSE /\ Goto(w, "download")
                /\ downloading' = [downloading EXCEPT ![w] = {j}]
  /\ UNCHANGED <<Outside, threadQueue, requeuedThreads, requeuedImages, polling,
                 batch, toEnqueue, addedRows, disk>>

NoImageAtTop(w) ==
  /\ phase = "scrape"
  /\ pc[w] = "top"
  /\ ~cancelled
  /\ imageQueue = <<>>
  /\ Goto(w, "threads")
  /\ UNCHANGED <<Outside, queues, polling, downloading, batch, toEnqueue,
                 addedRows, disk>>

TakeThread(w, t) ==
  /\ phase = "scrape"
  /\ pc[w] = "threads"
  /\ t \in threadQueue
  /\ threadQueue' = threadQueue \ {t}
  /\ polling' = [polling EXCEPT ![w] = t]
  /\ Goto(w, "poll")
  /\ UNCHANGED <<Outside, requeuedThreads, imageQueue, requeuedImages,
                 downloading, batch, toEnqueue, addedRows, disk>>

NoThreadLeft(w) ==
  /\ phase = "scrape"
  /\ pc[w] = "threads"
  /\ threadQueue = {}
  /\ Goto(w, "last")
  /\ UNCHANGED <<Outside, queues, polling, downloading, batch, toEnqueue,
                 addedRows, disk>>

WorkerFinishes(w) ==
  /\ phase = "scrape"
  /\ pc[w] = "last"
  /\ imageQueue = <<>>
  /\ Goto(w, "exited")
  /\ UNCHANGED <<Outside, queues, polling, downloading, batch, toEnqueue,
                 addedRows, disk>>

\* DownloadEnqueuedImage: the backend took the files ...
DownloadOk(w) ==
  /\ phase = "scrape"
  /\ pc[w] = "download"
  /\ settled' = settled \cup downloading[w]
  /\ downloading' = [downloading EXCEPT ![w] = {}]
  /\ Goto(w, "cooldown")
  /\ UNCHANGED <<Outside, queues, polling, batch, toEnqueue, addedRows, store,
                 issued>>

\* Mutant of DownloadFails: the failure is logged and not requeued.
DownloadFailsUnqueued(w) ==
  /\ phase = "scrape"
  /\ pc[w] = "download"
  /\ downloading' = [downloading EXCEPT ![w] = {}]
  /\ Goto(w, "cooldown")
  /\ UNCHANGED <<Outside, queues, polling, batch, toEnqueue, addedRows, disk>>

\* ... or anything on the way threw.
DownloadFails(w) ==
  /\ phase = "scrape"
  /\ pc[w] = "download"
  /\ \E j \in downloading[w] : requeuedImages' = Append(requeuedImages, j)
  /\ downloading' = [downloading EXCEPT ![w] = {}]
  /\ Goto(w, "cooldown")
  /\ UNCHANGED <<Outside, threadQueue, requeuedThreads, imageQueue, polling,
                 batch, toEnqueue, addedRows, disk>>

\* The 100 ms delay carries the token: unless it has already elapsed, a
\* cancellation makes it throw out of the worker.
Cooldown(w) ==
  /\ phase = "scrape"
  /\ pc[w] = "cooldown"
  /\ \E place \in {"top"} \cup (IF cancelled THEN {"faulted"} ELSE {}) :
        Goto(w, place)
  /\ UNCHANGED <<Outside, queues, polling, downloading, batch, toEnqueue,
                 addedRows, disk>>

\* Mutant of PollFails: the thread is forgotten before it is requeued.
PollFailsForgetful(w) ==
  /\ phase = "scrape"
  /\ pc[w] = "poll"
  /\ polling' = [polling EXCEPT ![w] = NoThread]
  /\ requeuedThreads' = requeuedThreads \cup {polling'[w]}
  /\ Goto(w, "top")
  /\ UNCHANGED <<Outside, threadQueue, imageQueue, requeuedImages, downloading,
                 batch, toEnqueue, addedRows, disk>>

PollFails(w) ==
  /\ phase = "scrape"
  /\ pc[w] = "poll"
  /\ requeuedThreads' = requeuedThreads \cup {polling[w]}
  /\ polling' = [polling EXCEPT ![w] = NoThread]
  /\ Goto(w, "top")
  /\ UNCHANGED <<Outside, threadQueue, imageQueue, requeuedImages, downloading,
                 batch, toEnqueue, addedRows, disk>>

\* J: the downloads ConsumeThread asks for, each with a Guid of its own.
PollOk(w, J) ==
  /\ phase = "scrape"
  /\ pc[w] = "poll"
  /\ J \subseteq Images \ issued
  /\ issued' = issued \cup J
  /\ polling' = [polling EXCEPT ![w] = NoThread]
  /\ batch' = [batch EXCEPT ![w] = J]
  /\ toEnqueue' = [toEnqueue EXCEPT ![w] = J]
  /\ Goto(w, IF J = {} THEN "top" ELSE "deliver")
  /\ UNCHANGED <<Outside, queues, downloading, addedRows, store, settled>>

EnqueueDownload(w, j) ==
  /\ phase = "scrape"
  /\ pc[w] = "deliver"
  /\ j \in toEnqueue[w]
  /\ toEnqueue' = [toEnqueue EXCEPT ![w] = @ \ {j}]
  /\ imageQueue' = Append(imageQueue, j)
  /\ UNCHANGED <<Outside, threadQueue, requeuedThreads, requeuedImages, pc,
                 polling, downloading, batch, addedRows, disk>>

\* Mutant of InsertToDownloadQueue: the worker leaves after its batch.
InsertAndLeave(w) ==
  /\ phase = "scrape"
  /\ pc[w] = "deliver"
  /\ toEnqueue[w] = {}
  /\ store' = store \cup addedRows \cup batch[w]
  /\ addedRows' = {}
  /\ batch' = [batch EXCEPT ![w] = {}]
  /\ Goto(w, "exited")
  /\ UNCHANGED <<Outside, queues, polling, downloading, toEnqueue, settled,
                 issued>>

\* InsertToDownloadQueue: AddRange, SaveChanges, Detach.
InsertToDownloadQueue(w) ==
  /\ phase = "scrape"
  /\ pc[w] = "deliver"
  /\ toEnqueue[w] = {}
  /\ store' = store \cup addedRows \cup batch[w]
  /\ addedRows' = {}
  /\ batch' = [batch EXCEPT ![w] = {}]
  /\ Goto(w, "top")
  /\ UNCHANGED <<Outside, queues, polling, downloading, toEnqueue, settled,
                 issued>>

\* SaveChanges throws: Detach is skipped, AsyncProxyCall swallows the rest.
InsertFails(w) ==
  /\ phase = "scrape"
  /\ pc[w] = "deliver"
  /\ toEnqueue[w] = {}
  /\ addedRows' = addedRows \cup batch[w]
  /\ batch' = [batch EXCEPT ![w] = {}]
  /\ Goto(w, "top")
  /\ UNCHANGED <<Outside, queues, polling, downloading, toEnqueue, disk>>

-----------------------------------------------------------------------------
(* The end of a scrape, and of a process. *)

AllExited  == \A w \in Workers : pc[w] = "exited"
AllDone    == \A w \in Workers : pc[w] \in {"exited", "faulted"}

\* Task.WhenAll rethrows once every worker is done: no write, no next cycle.
WorkerFaultEndsRun ==
  /\ phase = "scrape"
  /\ AllDone
  /\ ~AllExited
  /\ ProcessEnds

\* Mutant of WriteDownloadQueue: the failed downloads are added too late.
WriteWithoutRequeued ==
  /\ phase = "scrape"
  /\ AllExited
  /\ imageQueue' = imageQueue \o requeuedImages
  /\ requeuedImages' = <<>>
  /\ store' = Range(imageQueue) \cup addedRows
  /\ addedRows' = {}
  /\ phase' = "wait"
  /\ UNCHANGED <<firstRun, cancelled, threadQueue, requeuedThreads, loading,
                 workerVars, settled, issued, boots>>

\* WriteDownloadQueue deletes the rows whose Guid is not in the queue and adds
\* those that are new; the context also saves what an earlier failure left.
WriteDownloadQueue ==
  /\ phase = "scrape"
  /\ AllExited
  /\ imageQueue' = imageQueue \o requeuedImages
  /\ requeuedImages' = <<>>
  /\ store' = Range(imageQueue') \cup addedRows
  /\ addedRows' = {}
  /\ phase' = "wait"
  /\ UNCHANGED <<firstRun, cancelled, threadQueue, requeuedThreads, loading,
                 workerVars, settled, issued, boots>>

WriteFails ==
  /\ phase = "scrape"
  /\ AllExited
  /\ MayBeDisturbed
  /\ ProcessEnds

\* Mutant of NextCycle: firstRun stays, the cache is read again.
NextCycleStillFirst ==
  /\ phase = "wait"
  /\ ~cancelled
  /\ LoopArchive \/ requeuedThreads # {} \/ imageQueue # <<>>
  /\ phase' = "boards"
  /\ UNCHANGED <<firstRun, cancelled, queues, loading, workerVars, addedRows,
                 disk, boots>>

\* The end of Execute's loop body and the loop test: the cancelled token also
\* makes the last await of PerformScrape throw.
NextCycle ==
  /\ phase = "wait"
  /\ ~cancelled
  /\ LoopArchive \/ requeuedThreads # {} \/ imageQueue # <<>>
  /\ phase' = "boards"
  /\ firstRun' = FALSE
  /\ UNCHANGED <<cancelled, queues, loading, workerVars, addedRows, disk,
                 boots>>

\* Mutant of LastCycle: a single scan does not wait for failed downloads.
LastCycleTooEarly ==
  /\ phase = "wait"
  /\ \/ cancelled
     \/ ~LoopArchive /\ requeuedThreads = {}
  /\ ProcessEnds

LastCycle ==
  /\ phase = "wait"
  /\ \/ cancelled
     \/ ~LoopArchive /\ requeuedThreads = {} /\ imageQueue = <<>>
  /\ ProcessEnds

\* The user presses Q, or a signal arrives.
Cancel ==
  /\ phase # "stopped"
  /\ MayBeDisturbed
  /\ cancelled' = TRUE
  /\ UNCHANGED <<phase, firstRun, queues, loading, workerVars, addedRows, disk,
                 boots>>

Crash ==
  /\ phase # "stopped"
  /\ MayBeDisturbed
  /\ ProcessEnds

Restart ==
  /\ phase = "stopped"
  /\ boots < MaxBoots
  /\ boots' = boots + 1
  /\ phase' = "boards"
  /\ UNCHANGED <<firstRun, cancelled, queues, loading, workerVars, addedRows,
                 disk>>

\* A single scan may be over for good.
Over ==
  /\ phase = "stopped"
  /\ boots = MaxBoots
  /\ UNCHANGED vars

WorkerStep(w) ==
  \/ WorkerStops(w) \/ TakeImage(w) \/ NoImageAtTop(w)
  \/ \E t \in Threads : TakeThread(w, t)
  \/ NoThreadLeft(w) \/ WorkerFinishes(w)
  \/ DownloadOk(w) \/ DownloadFails(w) \/ Cooldown(w)
  \/ PollFails(w)
  \/ \E J \in SUBSET Images : PollOk(w, J)
  \/ \E j \in Images : EnqueueDownload(w, j)
  \/ InsertToDownloadQueue(w) \/ InsertFails(w)

CycleStep ==
  \/ ReadBoards \/ StopWhenCancelled \/ StartScrape
  \/ \E j \in Images : LoadRow(j)
  \/ StartWorkers
  \/ WorkerFaultEndsRun \/ WriteDownloadQueue \/ WriteFails
  \/ NextCycle \/ LastCycle

Next ==
  \/ CycleStep
  \/ \E w \in Workers : WorkerStep(w)
  \/ Cancel \/ Crash \/ Restart \/ Over

Spec == Init /\ [][Next]_vars

-----------------------------------------------------------------------------
(* Fairness.  The runtime runs every worker and the main loop (weak); a     *)
(* download that is tried again and again succeeds (strong: network and     *)
(* backend are assumed to recover); a process that ended is started again.  *)
(* No poll has to succeed, and failures may happen whenever they can.       *)

Fairness ==
  /\ WF_vars(CycleStep)
  /\ \A w \in Workers : WF_vars(WorkerStep(w))
  /\ \A j \in Images :
        SF_vars(\E w \in Workers : j \in downloading[w] /\ DownloadOk(w))
  /\ WF_vars(Restart)

FairSpec == Spec /\ Fairness

-----------------------------------------------------------------------------
(* Properties *)

\* The downloads this process still has to deal with, wherever they are.
InHand ==
  Range(imageQueue) \cup Range(requeuedImages) \cup loading
    \cup (UNION {downloading[w] : w \in Workers})
    \cup (UNION {toEnqueue[w] : w \in Workers})

\* Downloads that are in the cache, or that this process was asked for and has
\* yet to write there.
Known == store \cup addedRows \cup UNION {batch[w] : w \in Workers}

\* From the moment the cache has been read on the process answers for it.
CacheRead == phase \in {"load", "scrape", "wait"} \/ ~firstRun

\* Between the cache read and the end of the process, every download that is
\* in the cache or was asked for by a poll, and is not settled, is queued, in
\* a worker's hands or on the list of failures ("Log it and requeue the image",
\* BoardArchiver.cs:251): no failure, late insert or worker exit drops it.
NoDownloadDropped == CacheRead => Known \ settled \subseteq InHand

\* No download has two owners: it is never in two places of the queue, and no
\* two workers download it at once (they would race on the same backend rows).
OneOwner ==
  LET queued == imageQueue \o requeuedImages
      mine(w) == downloading[w] \cup toEnqueue[w]
  IN  /\ IsInjective(queued)
      /\ \A w \in Workers :
           /\ mine(w) \cap (Range(queued) \cup loading) = {}
           /\ \A v \in Workers \ {w} : mine(v) \cap mine(w) = {}

\* When the workers have all left their loop, and nobody pressed Q, nothing is
\* left over: a worker that saw both queues empty does not leave another
\* worker's late batch behind.
PoolDrains ==
  phase = "scrape" /\ AllExited /\ ~cancelled
    => threadQueue = {} /\ imageQueue = <<>>

\* Whatever ends a process leaves every download it asked for, and did not
\* settle, in the cache ("ensure that unsaved state is at least kept somewhere
\* in the chance that Hayden is forcibly closed", ARCHITECTURE.md:33).
UnsavedStateKept == phase = "stopped" => issued \ settled \subseteq store

\* The cache is a DownloadLedger: rows disappear from it only once settled,
\* through inserts, failed inserts, rewrites, crashes and restarts.
Ledger == INSTANCE DownloadLedger WITH ledger <- store
ImplementsLedger == Ledger!Spec

\* Every download in the cache is settled in the end, however often it fails
\* and although earlier processes were killed or cancelled.
CacheDrains == Ledger!Drains

=============================================================================
