-------------------------- MODULE ScrapeCycleProofs --------------------------
(***************************************************************************)
(* Theorems about ScrapeCycle, for any number of threads, downloads,       *)
(* workers and processes: types, no download is dropped, and the cache is  *)
(* a DownloadLedger.                                                       *)
(***************************************************************************)
EXTENDS ScrapeCycle, SequenceTheorems, TLAPS

-----------------------------------------------------------------------------
(* The queue is a sequence; what counts is its range. *)

\* An empty queue holds nothing.
LEMMA EmptyRange == Range(<< >>) = {}
BY DEF Range

\* Appending adds one element.
LEMMA AppendRange ==
  ASSUME NEW S, NEW s \in Seq(S), NEW e \in S
  PROVE  /\ Append(s, e) \in Seq(S)
         /\ Range(Append(s, e)) = Range(s) \cup {e}
<1>1. /\ Append(s, e) \in Seq(S)
      /\ Len(Append(s, e)) = Len(s) + 1
      /\ \A i \in 1 .. Len(s) : Append(s, e)[i] = s[i]
      /\ Append(s, e)[Len(s) + 1] = e
  BY AppendProperties
<1>2. Len(s) \in Nat
  BY LenProperties
<1>3. Range(s) = {s[i] : i \in 1 .. Len(s)}
  BY RangeEquality
<1>4. Range(Append(s, e)) = {Append(s, e)[i] : i \in 1 .. Len(s) + 1}
  BY <1>1, RangeEquality
<1>5. 1 .. Len(s) + 1 = 1 .. Len(s) \cup {Len(s) + 1}
  BY <1>2
<1>6. QED
  BY <1>1, <1>3, <1>4, <1>5

\* Taking the head off loses nothing but the head.
LEMMA HeadTailRange ==
  ASSUME NEW S, NEW s \in Seq(S), s # << >>
  PROVE  /\ Head(s) \in S
         /\ Tail(s) \in Seq(S)
         /\ Range(s) = {Head(s)} \cup Range(Tail(s))
<1>1. /\ Head(s) \in S
      /\ Tail(s) \in Seq(S)
      /\ Len(Tail(s)) = Len(s) - 1
      /\ \A i \in 1 .. Len(Tail(s)) : Tail(s)[i] = s[i + 1]
  BY HeadTailProperties
<1>2. Len(s) \in Nat \ {0}
  BY EmptySeq
<1>3. Range(s) = {s[i] : i \in 1 .. Len(s)}
  BY RangeEquality
<1>4. Range(Tail(s)) = {Tail(s)[i] : i \in 1 .. Len(Tail(s))}
  BY <1>1, RangeEquality
<1>5. Head(s) = s[1]
  BY <1>2
<1>6. ASSUME NEW x \in Range(s), x # s[1]
      PROVE  x \in Range(Tail(s))
  <2>1. PICK i \in 1 .. Len(s) : x = s[i]
    BY <1>3, <1>6
  <2>2. i - 1 \in 1 .. Len(Tail(s)) /\ (i - 1) + 1 = i
    BY <1>1, <1>2, <1>6, <2>1
  <2>3. Tail(s)[i - 1] = x
    BY <1>1, <2>1, <2>2
  <2>4. QED
    BY <1>4, <2>2, <2>3
<1>7. ASSUME NEW x \in Range(Tail(s))
      PROVE  x \in Range(s)
  <2>1. PICK i \in 1 .. Len(Tail(s)) : x = Tail(s)[i]
    BY <1>4, <1>7
  <2>2. i + 1 \in 1 .. Len(s) /\ Tail(s)[i] = s[i + 1]
    BY <1>1, <1>2, <2>1
  <2>3. QED
    BY <1>3, <2>1, <2>2
<1>8. s[1] \in Range(s)
  BY <1>2, <1>3
<1>9. QED
  BY <1>1, <1>5, <1>6, <1>7, <1>8

-----------------------------------------------------------------------------
(* The inductive invariant. *)

\* Each variable is used only while its owner is at the place that uses it.
Tidy ==
  /\ phase # "scrape" => \A w \in Workers : pc[w] = "exited"
  /\ phase # "scrape" => requeuedImages = << >>
  /\ phase # "load" => loading = {}
  /\ phase = "stopped" => firstRun
  /\ phase \in {"boards", "start", "stopped"} /\ firstRun => addedRows = {}
  /\ \A w \in Workers :
       /\ pc[w] = "poll" => polling[w] \in Threads
       /\ pc[w] # "download" => downloading[w] = {}
       /\ pc[w] # "deliver" => batch[w] = {} /\ toEnqueue[w] = {}
       /\ \A i, j \in downloading[w] : i = j

\* NoDownloadDropped, except while a worker has died on a null FullImageUri:
\* then no later step of the process writes the cache.
Kept ==
  CacheRead /\ (ThumbOnly = {} \/ \A w \in Workers : pc[w] # "faulted")
    => Known \ settled \subseteq InHand

IInv == TypeOK /\ Tidy /\ Kept

-----------------------------------------------------------------------------
(* Types. *)

\* The initial state is well typed.
LEMMA InitTypes == Init => TypeOK
<1> SUFFICES ASSUME Init PROVE TypeOK
  OBVIOUS
<1> USE DEF Init, TypeOK, Nothing, Phases, Places
<1>1. imageQueue \in Seq(Images) /\ requeuedImages \in Seq(Images)
  BY EmptySeq
<1>2. boots \in 1..MaxBoots
  BY ScrapeAssumption
<1>3. QED
  BY <1>1, <1>2

\* Ending a process resets everything to typed values.
LEMMA ProcessEndsTypes == TypeOK /\ ProcessEnds => TypeOK'
<1> SUFFICES ASSUME TypeOK, ProcessEnds PROVE TypeOK'
  OBVIOUS
<1> USE DEF ProcessEnds, TypeOK, Nothing, Phases, Places, disk
<1>1. imageQueue' \in Seq(Images) /\ requeuedImages' \in Seq(Images)
  BY EmptySeq
<1>2. QED
  BY <1>1

\* Every step of a worker keeps the types.
LEMMA WorkerTypes ==
  ASSUME TypeOK, Tidy, NEW w \in Workers, WorkerStep(w)
  PROVE  TypeOK'
<1> USE DEF TypeOK, Phases, Places, Goto, Outside, queues, disk
<1>1. CASE WorkerStops(w)
  BY <1>1 DEF WorkerStops
<1>2. CASE TakeImage(w)
  <2>1. imageQueue' \in Seq(Images) /\ {Head(imageQueue)} \in SUBSET Images
    BY <1>2, HeadTailRange DEF TakeImage
  <2>2. CASE Head(imageQueue) \in ThumbOnly
    BY <1>2, <2>1, <2>2 DEF TakeImage
  <2>3. CASE Head(imageQueue) \notin ThumbOnly
    BY <1>2, <2>1, <2>3 DEF TakeImage
  <2>4. QED
    BY <2>2, <2>3
<1>3. CASE NoImageAtTop(w)
  BY <1>3 DEF NoImageAtTop
<1>4. CASE \E t \in Threads : TakeThread(w, t)
  BY <1>4 DEF TakeThread
<1>5. CASE NoThreadLeft(w)
  BY <1>5 DEF NoThreadLeft
<1>6. CASE WorkerFinishes(w)
  BY <1>6 DEF WorkerFinishes
<1>7. CASE DownloadOk(w)
  BY <1>7 DEF DownloadOk
<1>8. CASE DownloadFails(w)
  <2>1. PICK j \in downloading[w] : requeuedImages' = Append(requeuedImages, j)
    BY <1>8 DEF DownloadFails
  <2>2. requeuedImages' \in Seq(Images)
    BY <2>1, AppendRange
  <2>3. QED
    BY <1>8, <2>2 DEF DownloadFails
<1>9. CASE Cooldown(w)
  BY <1>9 DEF Cooldown
<1>10. CASE PollFails(w)
  <2>1. polling[w] \in Threads
    BY <1>10 DEF PollFails, Tidy
  <2>2. QED
    BY <1>10, <2>1 DEF PollFails
<1>11. CASE \E J \in SUBSET Images : PollOk(w, J)
  BY <1>11 DEF PollOk
<1>12. CASE \E j \in Images : EnqueueDownload(w, j)
  <2>1. PICK j \in Images : EnqueueDownload(w, j)
    BY <1>12
  <2>2. imageQueue' \in Seq(Images)
    BY <2>1, AppendRange DEF EnqueueDownload
  <2>3. QED
    BY <2>1, <2>2 DEF EnqueueDownload
<1>13. CASE InsertToDownloadQueue(w)
  BY <1>13 DEF InsertToDownloadQueue
<1>14. CASE InsertFails(w)
  BY <1>14 DEF InsertFails
<1>15. QED
  BY <1>1, <1>2, <1>3, <1>4, <1>5, <1>6, <1>7, <1>8, <1>9, <1>10, <1>11, <1>12,
     <1>13, <1>14 DEF WorkerStep

\* Every step of the main loop keeps the types.
LEMMA CycleTypes == ASSUME TypeOK, CycleStep PROVE TypeOK'
<1> USE DEF TypeOK, Phases, Places, workerVars, queues, disk
<1>1. CASE ReadBoards
  BY <1>1 DEF ReadBoards
<1>2. CASE StopWhenCancelled
  BY <1>2, ProcessEndsTypes DEF StopWhenCancelled
<1>3. CASE StartScrape
  BY <1>3, EmptySeq DEF StartScrape
<1>4. CASE \E j \in Images : LoadRow(j)
  <2>1. PICK j \in Images : LoadRow(j)
    BY <1>4
  <2>2. imageQueue' \in Seq(Images)
    BY <2>1, AppendRange DEF LoadRow
  <2>3. QED
    BY <2>1, <2>2 DEF LoadRow
<1>5. CASE StartWorkers
  BY <1>5 DEF StartWorkers
<1>6. CASE WorkerFaultEndsRun
  BY <1>6, ProcessEndsTypes DEF WorkerFaultEndsRun
<1>7. CASE WriteDownloadQueue
  <2>1. imageQueue' \in Seq(Images) /\ requeuedImages' \in Seq(Images)
    BY <1>7, ConcatProperties, EmptySeq DEF WriteDownloadQueue
  <2>2. Range(imageQueue') \subseteq Images
    BY <2>1, RangeOfSeq
  <2>3. QED
    BY <1>7, <2>1, <2>2 DEF WriteDownloadQueue
<1>8. CASE WriteFails
  BY <1>8, ProcessEndsTypes DEF WriteFails
<1>9. CASE NextCycle
  BY <1>9 DEF NextCycle
<1>10. CASE LastCycle
  BY <1>10, ProcessEndsTypes DEF LastCycle
<1>11. QED
  BY <1>1, <1>2, <1>3, <1>4, <1>5, <1>6, <1>7, <1>8, <1>9, <1>10 DEF CycleStep

\* Every step keeps the types.
LEMMA NextTypes == ASSUME TypeOK, Tidy, [Next]_vars PROVE TypeOK'
<1>1. CASE CycleStep
  BY <1>1, CycleTypes
<1>2. CASE \E w \in Workers : WorkerStep(w)
  BY <1>2, WorkerTypes
<1>3. CASE Cancel
  BY <1>3 DEF Cancel, TypeOK, queues, workerVars, disk
<1>4. CASE Crash
  BY <1>4, ProcessEndsTypes DEF Crash
<1>5. CASE Restart
  <2>1. boots' \in 1 .. MaxBoots
    BY <1>5, ScrapeAssumption DEF Restart, TypeOK
  <2>2. QED
    BY <1>5, <2>1 DEF Restart, TypeOK, Phases, queues, workerVars, disk
<1>6. CASE UNCHANGED vars
  BY <1>6 DEF vars, TypeOK, queues, workerVars, disk
<1>7. QED
  BY <1>1, <1>2, <1>3, <1>4, <1>5, <1>6 DEF Next, Over

-----------------------------------------------------------------------------
(* Tidiness. *)

\* Nothing is in use at first.
LEMMA InitTidy == Init => Tidy
BY DEF Init, Tidy, Nothing

\* ... nor when a process has ended.
LEMMA ProcessEndsTidy == ProcessEnds => Tidy'
BY DEF ProcessEnds, Tidy, Nothing

\* Every step of a worker keeps its own variables tidy and leaves the others'.
LEMMA WorkerTidy ==
  ASSUME TypeOK, Tidy, NEW w \in Workers, WorkerStep(w)
  PROVE  Tidy'
<1>1. phase = "scrape" /\ phase' = "scrape" /\ loading' = {} /\ firstRun' = firstRun
  BY DEF WorkerStep, WorkerStops, TakeImage, NoImageAtTop, TakeThread,
     NoThreadLeft, WorkerFinishes, DownloadOk, DownloadFails, Cooldown,
     PollFails, PollOk, EnqueueDownload, InsertToDownloadQueue, InsertFails,
     Outside, Tidy
<1>2. SUFFICES ASSUME NEW v \in Workers
               PROVE  /\ pc'[v] = "poll" => polling'[v] \in Threads
                      /\ pc'[v] # "download" => downloading'[v] = {}
                      /\ pc'[v] # "deliver" => batch'[v] = {} /\ toEnqueue'[v] = {}
                      /\ \A i, j \in downloading'[v] : i = j
  BY <1>1 DEF Tidy
<1>3. /\ pc[v] = "poll" => polling[v] \in Threads
      /\ pc[v] # "download" => downloading[v] = {}
      /\ pc[v] # "deliver" => batch[v] = {} /\ toEnqueue[v] = {}
      /\ \A i, j \in downloading[v] : i = j
  BY DEF Tidy
<1>4. /\ pc \in [Workers -> Places]
      /\ polling \in [Workers -> Threads \cup {NoThread}]
      /\ downloading \in [Workers -> SUBSET Images]
      /\ batch \in [Workers -> SUBSET Images]
      /\ toEnqueue \in [Workers -> SUBSET Images]
  BY DEF TypeOK
<1> USE DEF Goto, Outside, queues, disk
<1>5. CASE WorkerStops(w)
  BY <1>3, <1>4, <1>5 DEF WorkerStops
<1>6. CASE TakeImage(w)
  <2>1. CASE Head(imageQueue) \in ThumbOnly
    BY <1>3, <1>4, <1>6, <2>1 DEF TakeImage
  <2>2. CASE Head(imageQueue) \notin ThumbOnly
    BY <1>3, <1>4, <1>6, <2>2 DEF TakeImage
  <2>3. QED
    BY <2>1, <2>2
<1>7. CASE NoImageAtTop(w)
  BY <1>3, <1>4, <1>7 DEF NoImageAtTop
<1>8. CASE \E t \in Threads : TakeThread(w, t)
  BY <1>3, <1>4, <1>8 DEF TakeThread
<1>9. CASE NoThreadLeft(w)
  BY <1>3, <1>4, <1>9 DEF NoThreadLeft
<1>10. CASE WorkerFinishes(w)
  BY <1>3, <1>4, <1>10 DEF WorkerFinishes
<1>11. CASE DownloadOk(w)
  BY <1>3, <1>4, <1>11 DEF DownloadOk
<1>12. CASE DownloadFails(w)
  BY <1>3, <1>4, <1>12 DEF DownloadFails
<1>13. CASE Cooldown(w)
  BY <1>3, <1>4, <1>13 DEF Cooldown
<1>14. CASE PollFails(w)
  BY <1>3, <1>4, <1>14 DEF PollFails
<1>15. CASE \E J \in SUBSET Images : PollOk(w, J)
  <2>1. PICK J \in SUBSET Images : PollOk(w, J)
    BY <1>15
  <2>2. CASE J = {}
    BY <1>3, <1>4, <2>1, <2>2 DEF PollOk
  <2>3. CASE J # {}
    BY <1>3, <1>4, <2>1, <2>3 DEF PollOk
  <2>4. QED
    BY <2>2, <2>3
<1>16. CASE \E j \in Images : EnqueueDownload(w, j)
  BY <1>3, <1>4, <1>16 DEF EnqueueDownload
<1>17. CASE InsertToDownloadQueue(w)
  BY <1>3, <1>4, <1>17 DEF InsertToDownloadQueue
<1>18. CASE InsertFails(w)
  BY <1>3, <1>4, <1>18 DEF InsertFails
<1>19. QED
  BY <1>5, <1>6, <1>7, <1>8, <1>9, <1>10, <1>11, <1>12, <1>13, <1>14, <1>15,
     <1>16, <1>17, <1>18 DEF WorkerStep

\* Every step keeps everything tidy.
LEMMA NextTidy == ASSUME TypeOK, Tidy, [Next]_vars PROVE Tidy'
<1> USE DEF queues, workerVars, disk
<1>1. CASE \E w \in Workers : WorkerStep(w)
  BY <1>1, WorkerTidy
<1>2. CASE ReadBoards
  BY <1>2 DEF ReadBoards, Tidy
<1>3. CASE StartScrape
  BY <1>3 DEF StartScrape, Tidy
<1>4. CASE \E j \in Images : LoadRow(j)
  BY <1>4 DEF LoadRow, Tidy
<1>5. CASE StartWorkers
  BY <1>5 DEF StartWorkers, Tidy
<1>6. CASE WriteDownloadQueue
  BY <1>6 DEF WriteDownloadQueue, AllExited, Tidy
<1>7. CASE NextCycle
  BY <1>7 DEF NextCycle, Tidy
<1>8. CASE StopWhenCancelled \/ WorkerFaultEndsRun \/ WriteFails \/ LastCycle \/ Crash
  BY <1>8, ProcessEndsTidy
     DEF StopWhenCancelled, WorkerFaultEndsRun, WriteFails, LastCycle, Crash
<1>9. CASE Cancel
  BY <1>9 DEF Cancel, Tidy
<1>10. CASE Restart
  <2>1. addedRows = {}
    BY <1>10 DEF Restart, Tidy
  <2>2. QED
    BY <1>10, <2>1 DEF Restart, Tidy
<1>11. CASE UNCHANGED vars
  BY <1>11 DEF vars, Tidy
<1>12. QED
  BY <1>1, <1>2, <1>3, <1>4, <1>5, <1>6, <1>7, <1>8, <1>9, <1>10, <1>11
     DEF Next, CycleStep, Over

-----------------------------------------------------------------------------
(* No download is dropped. *)

Queued(j) ==
  j \in Range(imageQueue) \/ j \in Range(requeuedImages) \/ j \in loading

Held(j) == \E w \in Workers : j \in downloading[w] \/ j \in toEnqueue[w]

Asked(j) ==
  j \in store \/ j \in addedRows \/ \E w \in Workers : j \in batch[w]

Unfaulted == ThumbOnly = {} \/ \A w \in Workers : pc[w] # "faulted"

\* Kept, download by download.
LEMMA KeptByElement ==
  /\ Kept <=> (CacheRead /\ Unfaulted =>
       \A j : Asked(j) /\ j \notin settled => Queued(j) \/ Held(j))
  /\ Kept' <=> (CacheRead' /\ Unfaulted' =>
       \A j : Asked(j)' /\ j \notin settled' => Queued(j)' \/ Held(j)')
<1>1. \A j : j \in InHand <=> Queued(j) \/ Held(j)
  BY DEF InHand, Queued, Held
<1>2. \A j : j \in Known <=> Asked(j)
  BY DEF Known, Asked
<1>3. \A j : j \in InHand' <=> Queued(j)' \/ Held(j)'
  BY DEF InHand, Queued, Held
<1>4. \A j : j \in Known' <=> Asked(j)'
  BY DEF Known, Asked
<1>5. QED
  BY <1>1, <1>2, <1>3, <1>4 DEF Kept, Unfaulted

\* A process that ended answers for nothing.
LEMMA ProcessEndsKept == ProcessEnds => Kept'
BY DEF ProcessEnds, Kept, CacheRead

\* A step of a worker moves downloads between the queue, its own hands and the
\* list of failures, or settles them.
LEMMA WorkerKept ==
  ASSUME TypeOK, Tidy, Kept, NEW w \in Workers, WorkerStep(w)
  PROVE  Kept'
<1>1. phase = "scrape" /\ pc[w] # "faulted"
  BY DEF WorkerStep, WorkerStops, TakeImage, NoImageAtTop, TakeThread,
     NoThreadLeft, WorkerFinishes, DownloadOk, DownloadFails, Cooldown,
     PollFails, PollOk, EnqueueDownload, InsertToDownloadQueue, InsertFails
<1>2. ASSUME NEW v \in Workers, pc'[v] # "faulted" PROVE pc[v] # "faulted"
  <2>1. CASE v = w
    BY <1>1, <2>1
  <2>2. CASE v # w
    <3>1. pc'[v] = pc[v]
      BY <2>2 DEF WorkerStep, WorkerStops, TakeImage, NoImageAtTop, TakeThread,
         NoThreadLeft, WorkerFinishes, DownloadOk, DownloadFails, Cooldown,
         PollFails, PollOk, EnqueueDownload, InsertToDownloadQueue, InsertFails,
         Goto, TypeOK
    <3>2. QED
      BY <1>2, <3>1
  <2>3. QED
    BY <2>1, <2>2
<1>3. SUFFICES ASSUME Unfaulted', NEW j, Asked(j)', j \notin settled'
               PROVE  Queued(j)' \/ Held(j)'
  BY KeptByElement
<1>4. Asked(j) /\ j \notin settled => Queued(j) \/ Held(j)
  BY <1>1, <1>2, <1>3, KeptByElement DEF Unfaulted, CacheRead
<1>5. /\ pc \in [Workers -> Places]
      /\ downloading \in [Workers -> SUBSET Images]
      /\ batch \in [Workers -> SUBSET Images]
      /\ toEnqueue \in [Workers -> SUBSET Images]
      /\ imageQueue \in Seq(Images)
      /\ requeuedImages \in Seq(Images)
  BY DEF TypeOK
<1>6. /\ pc[w] # "download" => downloading[w] = {}
      /\ pc[w] # "deliver" => batch[w] = {} /\ toEnqueue[w] = {}
      /\ \A i, k \in downloading[w] : i = k
  BY DEF Tidy
<1> USE DEF Goto, Outside, queues, disk, Queued, Held, Asked
<1>7. CASE \/ WorkerStops(w) \/ NoImageAtTop(w) \/ NoThreadLeft(w)
           \/ WorkerFinishes(w) \/ Cooldown(w) \/ PollFails(w)
           \/ \E t \in Threads : TakeThread(w, t)
  BY <1>3, <1>4, <1>7 DEF WorkerStops, NoImageAtTop, NoThreadLeft, WorkerFinishes,
     Cooldown, PollFails, TakeThread
<1>8. CASE TakeImage(w)
  <2>1. Head(imageQueue) \notin ThumbOnly
    BY <1>3, <1>5, <1>8 DEF TakeImage, Unfaulted
  <2>2. Range(imageQueue) = {Head(imageQueue)} \cup Range(imageQueue')
    BY <1>5, <1>8, HeadTailRange DEF TakeImage
  <2>3. downloading' = [downloading EXCEPT ![w] = {Head(imageQueue)}]
    BY <1>8, <2>1 DEF TakeImage
  <2>4. downloading[w] = {}
    BY <1>6, <1>8 DEF TakeImage
  <2>5. Queued(j) \/ Held(j)
    BY <1>3, <1>4, <1>8 DEF TakeImage
  <2>6. QED
    BY <1>5, <1>8, <2>2, <2>3, <2>4, <2>5 DEF TakeImage
<1>9. CASE DownloadOk(w)
  BY <1>3, <1>4, <1>5, <1>9 DEF DownloadOk
<1>10. CASE DownloadFails(w)
  <2>1. PICK i \in downloading[w] : requeuedImages' = Append(requeuedImages, i)
    BY <1>10 DEF DownloadFails
  <2>2. Range(requeuedImages') = Range(requeuedImages) \cup {i}
    BY <1>5, <2>1, AppendRange
  <2>3. downloading[w] = {i}
    BY <1>6, <2>1
  <2>4. Queued(j) \/ Held(j)
    BY <1>3, <1>4, <1>10 DEF DownloadFails
  <2>5. QED
    BY <1>5, <1>10, <2>2, <2>3, <2>4 DEF DownloadFails
<1>11. CASE \E J \in SUBSET Images : PollOk(w, J)
  <2>1. PICK J \in SUBSET Images : PollOk(w, J)
    BY <1>11
  <2>2. toEnqueue[w] = {} /\ batch[w] = {}
    BY <1>6, <2>1 DEF PollOk
  <2>3. QED
    BY <1>3, <1>4, <1>5, <2>1, <2>2 DEF PollOk
<1>12. CASE \E i \in Images : EnqueueDownload(w, i)
  <2>1. PICK i \in Images : EnqueueDownload(w, i)
    BY <1>12
  <2>2. Range(imageQueue') = Range(imageQueue) \cup {i}
    BY <1>5, <2>1, AppendRange DEF EnqueueDownload
  <2>3. QED
    BY <1>3, <1>4, <1>5, <2>1, <2>2 DEF EnqueueDownload
<1>13. CASE InsertToDownloadQueue(w)
  BY <1>3, <1>4, <1>5, <1>13 DEF InsertToDownloadQueue
<1>14. CASE InsertFails(w)
  BY <1>3, <1>4, <1>5, <1>14 DEF InsertFails
<1>15. QED
  BY <1>7, <1>8, <1>9, <1>10, <1>11, <1>12, <1>13, <1>14 DEF WorkerStep

\* The rewritten queue holds what was in hand when every worker has left.
LEMMA WriteKeepsQueue ==
  ASSUME TypeOK, Tidy, WriteDownloadQueue
  PROVE  /\ \A j : Queued(j) \/ Held(j) => j \in Range(imageQueue')
         /\ \A j : Asked(j)' <=> j \in store'
         /\ store' = Range(imageQueue') \cup addedRows
<1>1. Range(imageQueue') = Range(imageQueue) \cup Range(requeuedImages)
  BY RangeConcatenation DEF WriteDownloadQueue, TypeOK
<1>2. loading = {}
  BY DEF WriteDownloadQueue, Tidy
<1>3. \A w \in Workers : downloading[w] = {} /\ toEnqueue[w] = {} /\ batch[w] = {}
  BY DEF WriteDownloadQueue, AllExited, Tidy
<1>4. QED
  BY <1>1, <1>2, <1>3 DEF WriteDownloadQueue, Queued, Held, Asked, workerVars

\* A step of the main loop reads the cache, hands the queue over or ends.
LEMMA CycleKept ==
  ASSUME TypeOK, Tidy, Kept, CycleStep
  PROVE  Kept'
<1> USE DEF workerVars, queues, disk
<1>1. CASE StopWhenCancelled \/ WorkerFaultEndsRun \/ WriteFails \/ LastCycle
  BY <1>1, ProcessEndsKept
     DEF StopWhenCancelled, WorkerFaultEndsRun, WriteFails, LastCycle
<1>2. CASE ReadBoards
  BY <1>2, KeptByElement
     DEF ReadBoards, CacheRead, Unfaulted, Queued, Held, Asked
<1>3. CASE StartScrape
  <2>1. SUFFICES ASSUME NEW j, Asked(j)', j \notin settled', Unfaulted'
                 PROVE  Queued(j)' \/ Held(j)'
    BY KeptByElement
  <2>2. /\ requeuedImages = << >> /\ loading = {}
        /\ \A w \in Workers : batch[w] = {}
    BY <1>3 DEF StartScrape, Tidy
  <2>3. CASE firstRun
    <3>1. addedRows = {}
      BY <1>3, <2>3 DEF StartScrape, Tidy
    <3>2. QED
      BY <1>3, <2>1, <2>2, <2>3, <3>1 DEF StartScrape, Asked, Queued
  <2>4. CASE ~firstRun
    BY <1>3, <2>1, <2>2, <2>4, KeptByElement
       DEF StartScrape, CacheRead, Unfaulted, Queued, Held, Asked
  <2>5. QED
    BY <2>3, <2>4
<1>4. CASE \E i \in Images : LoadRow(i)
  <2>1. PICK i \in Images : LoadRow(i)
    BY <1>4
  <2>2. Range(imageQueue') = Range(imageQueue) \cup {i}
    BY <2>1, AppendRange DEF LoadRow, TypeOK
  <2>3. QED
    BY <2>1, <2>2, KeptByElement
       DEF LoadRow, CacheRead, Unfaulted, Queued, Held, Asked
<1>5. CASE StartWorkers
  <2>1. Unfaulted
    BY <1>5 DEF StartWorkers, Tidy, Unfaulted
  <2>2. QED
    BY <1>5, <2>1, KeptByElement
       DEF StartWorkers, CacheRead, Queued, Held, Asked
<1>6. CASE WriteDownloadQueue
  <2>1. CacheRead /\ Unfaulted
    BY <1>6 DEF WriteDownloadQueue, AllExited, CacheRead, Unfaulted
  <2>2. SUFFICES ASSUME NEW j, Asked(j)', j \notin settled'
                 PROVE  Queued(j)'
    BY KeptByElement
  <2>3. j \in Range(imageQueue') \/ j \in addedRows
    BY <1>6, <2>2, WriteKeepsQueue
  <2>4. j \notin settled
    BY <1>6, <2>2 DEF WriteDownloadQueue
  <2>5. QED
    BY <1>6, <2>1, <2>3, <2>4, KeptByElement, WriteKeepsQueue DEF Queued, Asked
<1>7. CASE NextCycle
  BY <1>7, KeptByElement
     DEF NextCycle, CacheRead, Unfaulted, Queued, Held, Asked
<1>8. QED
  BY <1>1, <1>2, <1>3, <1>4, <1>5, <1>6, <1>7 DEF CycleStep

\* Every step keeps what is in hand.
LEMMA NextKept == ASSUME TypeOK, Tidy, Kept, [Next]_vars PROVE Kept'
<1>1. CASE CycleStep
  BY <1>1, CycleKept
<1>2. CASE \E w \in Workers : WorkerStep(w)
  BY <1>2, WorkerKept
<1>3. CASE Cancel \/ UNCHANGED vars
  BY <1>3, KeptByElement
     DEF Cancel, vars, CacheRead, Unfaulted, Queued, Held, Asked, queues,
         workerVars, disk
<1>4. CASE Crash
  BY <1>4, ProcessEndsKept DEF Crash
<1>5. CASE Restart
  BY <1>5 DEF Restart, Kept, CacheRead, Tidy
<1>6. QED
  BY <1>1, <1>2, <1>3, <1>4, <1>5 DEF Next, Over

-----------------------------------------------------------------------------
(* The theorems. *)

\* The invariant is inductive.
THEOREM Invariance == Spec => []IInv
<1>1. Init => IInv
  <2>1. Init => Kept
    BY DEF Init, Kept, CacheRead
  <2>2. QED
    BY <2>1, InitTypes, InitTidy DEF IInv
<1>2. IInv /\ [Next]_vars => IInv'
  BY NextTypes, NextTidy, NextKept DEF IInv
<1>3. QED
  BY <1>1, <1>2, PTL DEF Spec

\* Every variable stays in its type, whatever fails, dies or is cancelled.
THEOREM TypeCorrect == Spec => []TypeOK
<1>1. IInv => TypeOK
  BY DEF IInv
<1>2. QED
  BY <1>1, Invariance, PTL

\* With no thumbnail-only downloads (which kill the worker that takes one), no
\* failure, late insert, worker exit or cancellation drops a download.
THEOREM NothingDropped ==
  ASSUME ThumbOnly = {}
  PROVE  Spec => []NoDownloadDropped
<1>1. IInv => NoDownloadDropped
  BY DEF IInv, Kept, NoDownloadDropped
<1>2. QED
  BY <1>1, Invariance, PTL

\* A step of the archiver is a rewrite of the ledger that drops settled rows
\* only, a settlement, or nothing to the ledger.
LEMMA StepSimulation ==
  ASSUME IInv, [Next]_vars
  PROVE  [Ledger!Next]_(Ledger!vars)
<1> USE DEF Ledger!Next, Ledger!vars, Ledger!Rewrite, Ledger!Settle
<1>1. CASE WriteDownloadQueue
  <2>1. CacheRead /\ Unfaulted
    BY <1>1 DEF WriteDownloadQueue, AllExited, CacheRead, Unfaulted
  <2>2. ASSUME NEW j \in store, j \notin store' PROVE j \in settled
    BY <1>1, <2>1, <2>2, KeptByElement, WriteKeepsQueue DEF IInv, Asked
  <2>3. store' \in SUBSET Images
    BY NextTypes DEF IInv, TypeOK
  <2>4. settled' = settled
    BY <1>1 DEF WriteDownloadQueue
  <2>5. QED
    BY <2>2, <2>3, <2>4
<1>2. CASE \E w \in Workers : InsertToDownloadQueue(w)
  <2>1. store' \in SUBSET Images
    BY NextTypes DEF IInv, TypeOK
  <2>2. store \subseteq store' /\ settled' = settled
    BY <1>2 DEF InsertToDownloadQueue
  <2>3. QED
    BY <2>1, <2>2
<1>3. CASE \E w \in Workers : DownloadOk(w)
  <2>1. PICK w \in Workers : DownloadOk(w)
    BY <1>3
  <2>2. store' = store /\ settled' = settled \cup downloading[w]
    BY <2>1 DEF DownloadOk
  <2>3. \A i, j \in downloading[w] : i = j
    BY DEF IInv, Tidy
  <2>4. downloading[w] \subseteq Images
    BY DEF IInv, TypeOK
  <2>5. CASE downloading[w] = {}
    BY <2>2, <2>5
  <2>6. CASE downloading[w] # {}
    <3>1. PICK j \in downloading[w] : downloading[w] = {j}
      BY <2>3, <2>6
    <3>2. j \in Images
      BY <2>4
    <3>3. QED
      BY <2>2, <3>1, <3>2
  <2>7. QED
    BY <2>5, <2>6
<1>4. CASE ~ WriteDownloadQueue
           /\ ~ (\E w \in Workers : InsertToDownloadQueue(w) \/ DownloadOk(w))
  <2>1. UNCHANGED <<store, settled>>
    BY <1>4 DEF Next, CycleStep, WorkerStep, vars, disk, ProcessEnds, ReadBoards,
       StopWhenCancelled, StartScrape, LoadRow, StartWorkers, WorkerFaultEndsRun,
       WriteFails, NextCycle, LastCycle, WorkerStops, TakeImage, NoImageAtTop,
       TakeThread, NoThreadLeft, WorkerFinishes, DownloadFails, Cooldown,
       PollFails, PollOk, EnqueueDownload, InsertFails, Cancel, Crash, Restart,
       Over
  <2>2. QED
    BY <2>1
<1>5. QED
  BY <1>1, <1>2, <1>3, <1>4

\* The cache implements the ledger: a row leaves it only once its download is
\* settled, through inserts, failed inserts, rewrites, crashes and restarts.
THEOREM LedgerImplemented == Spec => ImplementsLedger
<1>1. Init => Ledger!Init
  BY DEF Init, Ledger!Init
<1>2. IInv /\ [Next]_vars => [Ledger!Next]_(Ledger!vars)
  BY StepSimulation
<1>3. QED
  BY <1>1, <1>2, Invariance, PTL DEF Spec, ImplementsLedger, Ledger!Spec

-----------------------------------------------------------------------------
(* Every download has one owner. *)

\* What a worker has in its hands.
Mine(w) == downloading[w] \cup toEnqueue[w]

\* The queue, the list of failures, the rows being loaded and each worker's
\* hands have nothing in common, and no queue has a download twice.
Apart ==
  /\ IsInjective(imageQueue) /\ IsInjective(requeuedImages)
  /\ Range(imageQueue) \cap Range(requeuedImages) = {}
  /\ loading \cap (Range(imageQueue) \cup Range(requeuedImages)) = {}
  /\ \A w \in Workers :
       /\ Mine(w) \cap (Range(imageQueue) \cup Range(requeuedImages)) = {}
       /\ Mine(w) \cap loading = {}
       /\ \A v \in Workers \ {w} : Mine(v) \cap Mine(w) = {}

\* A Guid is issued before it is anywhere, so that a poll's are new.
Issued ==
  /\ Range(imageQueue) \cup Range(requeuedImages) \cup loading \subseteq issued
  /\ store \cup addedRows \subseteq issued
  /\ \A w \in Workers : Mine(w) \cup batch[w] \subseteq issued

\* The cache is read into an empty queue.
ReadOnce ==
  firstRun /\ phase \in {"boards", "start", "stopped"} => imageQueue = << >>

Owned == Apart /\ Issued /\ ReadOnce

\* The sequences of an empty and of a concatenated queue.
LEMMA EmptyInjective == IsInjective(<< >>) /\ Range(<< >>) = {}
BY EmptyRange DEF IsInjective

\* A new element keeps a sequence free of repetitions.
LEMMA AppendKeepsInjective ==
  ASSUME NEW A, NEW s \in Seq(A), NEW e \in A, IsInjective(s), e \notin Range(s)
  PROVE  /\ IsInjective(Append(s, e))
         /\ Range(Append(s, e)) = Range(s) \cup {e}
<1> DEFINE t == Append(s, e)
<1>1. /\ DOMAIN t = 1 .. Len(s) + 1
      /\ \A i \in 1 .. Len(s) : t[i] = s[i]
      /\ t[Len(s) + 1] = e
      /\ DOMAIN s = 1 .. Len(s) /\ Len(s) \in Nat
  OBVIOUS
<1>2. \A i \in 1 .. Len(s) : s[i] # e
  BY <1>1 DEF Range
<1>3. \A a, b \in 1 .. Len(s) : s[a] = s[b] => a = b
  BY <1>1 DEF IsInjective
<1> HIDE DEF t
<1>4. \A a, b \in 1 .. Len(s) + 1 : t[a] = t[b] => a = b
  BY <1>1, <1>2, <1>3
<1>5. IsInjective(t)
  BY <1>1, <1>4 DEF IsInjective
<1>6. QED
  BY <1>5, AppendRange DEF t

\* The head of such a sequence is not in its tail.
LEMMA TailInjective ==
  ASSUME NEW A, NEW s \in Seq(A), s # << >>, IsInjective(s)
  PROVE  /\ IsInjective(Tail(s))
         /\ Head(s) \notin Range(Tail(s))
<1>1. /\ DOMAIN s = 1 .. Len(s) /\ Len(s) \in Nat \ {0}
      /\ Head(s) = s[1]
      /\ DOMAIN Tail(s) = 1 .. Len(s) - 1
      /\ \A i \in 1 .. Len(s) - 1 : Tail(s)[i] = s[i + 1]
  BY EmptySeq
<1>2. IsInjective(Tail(s))
  BY <1>1 DEF IsInjective
<1>3. \A i \in 1 .. Len(s) - 1 : Tail(s)[i] # s[1]
  BY <1>1 DEF IsInjective
<1>4. QED
  BY <1>1, <1>2, <1>3 DEF Range

\* Two such sequences without a common element, one after the other.
LEMMA ConcatInjective ==
  ASSUME NEW A, NEW s \in Seq(A), NEW t \in Seq(A),
         IsInjective(s), IsInjective(t), Range(s) \cap Range(t) = {}
  PROVE  /\ IsInjective(s \o t)
         /\ Range(s \o t) = Range(s) \cup Range(t)
<1>1. /\ DOMAIN (s \o t) = 1 .. Len(s) + Len(t)
      /\ \A i \in 1 .. Len(s) : (s \o t)[i] = s[i]
      /\ \A i \in Len(s) + 1 .. Len(s) + Len(t) : (s \o t)[i] = t[i - Len(s)]
      /\ DOMAIN s = 1 .. Len(s) /\ Len(s) \in Nat
      /\ DOMAIN t = 1 .. Len(t) /\ Len(t) \in Nat
  BY ConcatProperties
<1>2. \A i \in 1 .. Len(s), j \in 1 .. Len(t) : s[i] # t[j]
  BY <1>1 DEF Range
<1>3. ASSUME NEW a \in 1 .. Len(s) + Len(t), NEW b \in 1 .. Len(s) + Len(t),
             (s \o t)[a] = (s \o t)[b]
      PROVE  a = b
  <2>1. CASE a \in 1 .. Len(s) /\ b \in 1 .. Len(s)
    BY <1>1, <1>3, <2>1 DEF IsInjective
  <2>2. CASE a \notin 1 .. Len(s) /\ b \notin 1 .. Len(s)
    <3>1. a - Len(s) \in 1 .. Len(t) /\ b - Len(s) \in 1 .. Len(t)
      BY <1>1, <2>2
    <3>2. t[a - Len(s)] = t[b - Len(s)]
      BY <1>1, <1>3, <2>2
    <3>3. a - Len(s) = b - Len(s)
      BY <1>1, <3>1, <3>2 DEF IsInjective
    <3>4. QED
      BY <1>1, <3>3
  <2>3. CASE a \in 1 .. Len(s) /\ b \notin 1 .. Len(s)
    <3>1. b - Len(s) \in 1 .. Len(t) /\ (s \o t)[b] = t[b - Len(s)]
      BY <1>1, <2>3
    <3>2. QED
      BY <1>1, <1>2, <1>3, <2>3, <3>1
  <2>4. CASE a \notin 1 .. Len(s) /\ b \in 1 .. Len(s)
    <3>1. a - Len(s) \in 1 .. Len(t) /\ (s \o t)[a] = t[a - Len(s)]
      BY <1>1, <2>4
    <3>2. QED
      BY <1>1, <1>2, <1>3, <2>4, <3>1
  <2>5. QED
    BY <2>1, <2>2, <2>3, <2>4
<1>4. IsInjective(s \o t)
  BY <1>1, <1>3 DEF IsInjective
<1>5. QED
  BY <1>4, RangeConcatenation

\* A worker's step leaves every other worker's hands alone and moves what was
\* in its own hands or in the queues, or was not issued yet.
LEMMA HandsKeep ==
  ASSUME Owned, NEW w \in Workers, NEW F,
         phase' = "scrape", loading' = {},
         IsInjective(imageQueue'), IsInjective(requeuedImages'),
         Range(imageQueue') \cap Range(requeuedImages') = {},
         Mine(w)' \cap (Range(imageQueue') \cup Range(requeuedImages')) = {},
         Mine(w)' \cup Range(imageQueue') \cup Range(requeuedImages')
           \subseteq Mine(w) \cup Range(imageQueue) \cup Range(requeuedImages) \cup F,
         F \cap issued = {}, issued' = issued \cup F,
         store' \cup addedRows' \cup batch'[w] \subseteq issued',
         \A v \in Workers \ {w} : Mine(v)' = Mine(v) /\ batch'[v] = batch[v]
  PROVE  Owned'
<1>1. \A v \in Workers \ {w} :
        /\ Mine(v) \cap (Mine(w) \cup Range(imageQueue) \cup Range(requeuedImages)) = {}
        /\ Mine(v) \cup batch[v] \subseteq issued
        /\ \A u \in Workers \ {v} : Mine(u) \cap Mine(v) = {}
  BY DEF Owned, Apart, Issued
<1>2. /\ Range(imageQueue) \cup Range(requeuedImages) \subseteq issued
      /\ Mine(w) \cup batch[w] \subseteq issued
  BY DEF Owned, Issued
<1>3. \A v \in Workers \ {w} :
        Mine(v)' \cap (Mine(w)' \cup Range(imageQueue') \cup Range(requeuedImages')) = {}
  BY <1>1
<1>4. \A v \in Workers : \A u \in Workers \ {v} : Mine(u)' \cap Mine(v)' = {}
  <2>1. SUFFICES ASSUME NEW v \in Workers, NEW u \in Workers, u # v
                 PROVE  Mine(u)' \cap Mine(v)' = {}
    OBVIOUS
  <2>2. CASE v = w
    BY <1>3, <2>1, <2>2
  <2>3. CASE u = w
    BY <1>3, <2>1, <2>3
  <2>4. CASE u # w /\ v # w
    BY <1>1, <2>1, <2>4
  <2>5. QED
    BY <2>2, <2>3, <2>4
<1>5. Apart'
  BY <1>3, <1>4 DEF Apart
<1>6. Issued'
  BY <1>1, <1>2 DEF Issued
<1>7. ReadOnce'
  BY DEF ReadOnce
<1>8. QED
  BY <1>5, <1>6, <1>7 DEF Owned

\* What every step of a worker leaves alone.
LEMMA WorkerLeaves ==
  ASSUME TypeOK, Tidy, NEW w \in Workers, WorkerStep(w)
  PROVE  /\ phase = "scrape" /\ phase' = "scrape" /\ loading = {} /\ loading' = {}
         /\ \A v \in Workers \ {w} : Mine(v)' = Mine(v) /\ batch'[v] = batch[v]
<1>1. phase = "scrape" /\ phase' = "scrape" /\ loading = {} /\ loading' = {}
  BY DEF WorkerStep, WorkerStops, TakeImage, NoImageAtTop, TakeThread,
     NoThreadLeft, WorkerFinishes, DownloadOk, DownloadFails, Cooldown,
     PollFails, PollOk, EnqueueDownload, InsertToDownloadQueue, InsertFails,
     Outside, Tidy
<1>2. ASSUME NEW v \in Workers \ {w}
      PROVE  /\ downloading'[v] = downloading[v] /\ toEnqueue'[v] = toEnqueue[v]
             /\ batch'[v] = batch[v]
  BY DEF WorkerStep, WorkerStops, TakeImage, NoImageAtTop, TakeThread,
     NoThreadLeft, WorkerFinishes, DownloadOk, DownloadFails, Cooldown,
     PollFails, PollOk, EnqueueDownload, InsertToDownloadQueue, InsertFails,
     TypeOK
<1>3. QED
  BY <1>1, <1>2 DEF Mine

\* A worker's step gives no download a second owner.
LEMMA WorkerOwned ==
  ASSUME TypeOK, Tidy, Owned, NEW w \in Workers, WorkerStep(w)
  PROVE  Owned'
<1>1. /\ phase' = "scrape" /\ loading' = {}
      /\ \A v \in Workers \ {w} : Mine(v)' = Mine(v) /\ batch'[v] = batch[v]
  BY WorkerLeaves
<1>2. /\ IsInjective(imageQueue) /\ IsInjective(requeuedImages)
      /\ Range(imageQueue) \cap Range(requeuedImages) = {}
      /\ Mine(w) \cap (Range(imageQueue) \cup Range(requeuedImages)) = {}
      /\ Range(imageQueue) \cup Range(requeuedImages) \subseteq issued
      /\ Mine(w) \cup batch[w] \subseteq issued
      /\ store \cup addedRows \subseteq issued
  BY DEF Owned, Apart, Issued
<1>3. /\ imageQueue \in Seq(Images) /\ requeuedImages \in Seq(Images)
      /\ downloading \in [Workers -> SUBSET Images]
      /\ batch \in [Workers -> SUBSET Images]
      /\ toEnqueue \in [Workers -> SUBSET Images]
  BY DEF TypeOK
<1>4. /\ pc[w] # "download" => downloading[w] = {}
      /\ pc[w] # "deliver" => batch[w] = {} /\ toEnqueue[w] = {}
      /\ \A i, k \in downloading[w] : i = k
  BY DEF Tidy
<1>5. CASE \/ WorkerStops(w) \/ NoImageAtTop(w) \/ NoThreadLeft(w)
           \/ WorkerFinishes(w) \/ Cooldown(w) \/ PollFails(w)
           \/ (\E t \in Threads : TakeThread(w, t))
           \/ DownloadOk(w) \/ InsertToDownloadQueue(w) \/ InsertFails(w)
  <2>1. /\ imageQueue' = imageQueue /\ requeuedImages' = requeuedImages
        /\ issued' = issued
    BY <1>5 DEF WorkerStops, NoImageAtTop, NoThreadLeft, WorkerFinishes, Cooldown,
       PollFails, TakeThread, DownloadOk, InsertToDownloadQueue, InsertFails,
       queues, disk
  <2>2. Mine(w)' \subseteq Mine(w)
    BY <1>3, <1>5 DEF WorkerStops, NoImageAtTop, NoThreadLeft, WorkerFinishes,
       Cooldown, PollFails, TakeThread, DownloadOk, InsertToDownloadQueue,
       InsertFails, Mine
  <2>3. store' \cup addedRows' \cup batch'[w] \subseteq issued
    BY <1>2, <1>3, <1>5 DEF WorkerStops, NoImageAtTop, NoThreadLeft,
       WorkerFinishes, Cooldown, PollFails, TakeThread, DownloadOk,
       InsertToDownloadQueue, InsertFails, disk
  <2> DEFINE None == {}
  <2>4. /\ Mine(w)' \cup Range(imageQueue') \cup Range(requeuedImages')
             \subseteq Mine(w) \cup Range(imageQueue) \cup Range(requeuedImages)
                         \cup None
        /\ Mine(w)' \cap (Range(imageQueue') \cup Range(requeuedImages')) = {}
        /\ None \cap issued = {} /\ issued' = issued \cup None
    BY <1>2, <2>1, <2>2
  <2>5. /\ IsInjective(imageQueue') /\ IsInjective(requeuedImages')
        /\ Range(imageQueue') \cap Range(requeuedImages') = {}
    BY <1>2, <2>1
  <2> HIDE DEF None
  <2>6. QED
    BY <1>1, <2>1, <2>3, <2>4, <2>5, HandsKeep
<1>6. CASE TakeImage(w)
  <2>1. /\ imageQueue # << >> /\ imageQueue' = Tail(imageQueue)
        /\ requeuedImages' = requeuedImages /\ issued' = issued
        /\ store' = store /\ addedRows' = addedRows /\ batch' = batch
        /\ toEnqueue' = toEnqueue
        /\ pc[w] \in {"top", "last"}
    BY <1>6 DEF TakeImage, disk
  <2>2. /\ Range(imageQueue) = {Head(imageQueue)} \cup Range(imageQueue')
        /\ IsInjective(imageQueue') /\ Head(imageQueue) \notin Range(imageQueue')
    BY <1>2, <1>3, <2>1, HeadTailRange, TailInjective
  <2>3. Mine(w)' \subseteq {Head(imageQueue)}
    <3>1. downloading[w] = {} /\ toEnqueue[w] = {}
      BY <1>4, <2>1
    <3>2. \/ downloading' = downloading
          \/ downloading' = [downloading EXCEPT ![w] = {Head(imageQueue)}]
      BY <1>6 DEF TakeImage
    <3>3. QED
      BY <1>3, <2>1, <3>1, <3>2 DEF Mine
  <2> DEFINE None == {}
  <2>4. /\ Mine(w)' \cup Range(imageQueue') \cup Range(requeuedImages')
             \subseteq Mine(w) \cup Range(imageQueue) \cup Range(requeuedImages)
                         \cup None
        /\ Mine(w)' \cap (Range(imageQueue') \cup Range(requeuedImages')) = {}
        /\ None \cap issued = {} /\ issued' = issued \cup None
        /\ store' \cup addedRows' \cup batch'[w] \subseteq issued'
    BY <1>2, <2>1, <2>2, <2>3
  <2>5. /\ IsInjective(requeuedImages')
        /\ Range(imageQueue') \cap Range(requeuedImages') = {}
    BY <1>2, <2>1, <2>2
  <2> HIDE DEF None
  <2>6. QED
    BY <1>1, <2>2, <2>4, <2>5, HandsKeep
<1>7. CASE DownloadFails(w)
  <2>1. PICK j \in downloading[w] : requeuedImages' = Append(requeuedImages, j)
    BY <1>7 DEF DownloadFails
  <2>2. /\ imageQueue' = imageQueue /\ issued' = issued
        /\ store' = store /\ addedRows' = addedRows /\ batch' = batch
        /\ toEnqueue' = toEnqueue /\ toEnqueue[w] = {}
        /\ downloading' = [downloading EXCEPT ![w] = {}]
    BY <1>4, <1>7 DEF DownloadFails, disk
  <2>3. j \in Images /\ j \in Mine(w) /\ Mine(w)' = {}
    BY <1>3, <2>1, <2>2 DEF Mine
  <2>4. /\ IsInjective(requeuedImages')
        /\ Range(requeuedImages') = Range(requeuedImages) \cup {j}
    <3>1. j \notin Range(requeuedImages)
      BY <1>2, <2>3
    <3>2. QED
      BY <1>2, <1>3, <2>1, <2>3, <3>1, AppendKeepsInjective
  <2> DEFINE None == {}
  <2>5. /\ Mine(w)' \cup Range(imageQueue') \cup Range(requeuedImages')
             \subseteq Mine(w) \cup Range(imageQueue) \cup Range(requeuedImages)
                         \cup None
        /\ Mine(w)' \cap (Range(imageQueue') \cup Range(requeuedImages')) = {}
        /\ Range(imageQueue') \cap Range(requeuedImages') = {}
        /\ None \cap issued = {} /\ issued' = issued \cup None
        /\ store' \cup addedRows' \cup batch'[w] \subseteq issued'
        /\ IsInjective(imageQueue')
    BY <1>2, <2>2, <2>3, <2>4
  <2> HIDE DEF None
  <2>6. QED
    BY <1>1, <2>4, <2>5, HandsKeep
<1>8. CASE \E J \in SUBSET Images : PollOk(w, J)
  <2>1. PICK J \in SUBSET Images : PollOk(w, J)
    BY <1>8
  <2>2. /\ imageQueue' = imageQueue /\ requeuedImages' = requeuedImages
        /\ store' = store /\ addedRows' = addedRows
        /\ issued' = issued \cup J /\ J \cap issued = {}
        /\ downloading' = downloading /\ downloading[w] = {}
        /\ toEnqueue' = [toEnqueue EXCEPT ![w] = J]
        /\ batch' = [batch EXCEPT ![w] = J]
    BY <1>4, <2>1 DEF PollOk, queues
  <2>3. Mine(w)' = J /\ batch'[w] = J
    BY <1>3, <2>2 DEF Mine
  <2>4. /\ Mine(w)' \cup Range(imageQueue') \cup Range(requeuedImages')
             \subseteq Mine(w) \cup Range(imageQueue) \cup Range(requeuedImages)
                         \cup J
        /\ Mine(w)' \cap (Range(imageQueue') \cup Range(requeuedImages')) = {}
        /\ Range(imageQueue') \cap Range(requeuedImages') = {}
        /\ store' \cup addedRows' \cup batch'[w] \subseteq issued'
        /\ IsInjective(imageQueue') /\ IsInjective(requeuedImages')
    BY <1>2, <2>2, <2>3
  <2>5. QED
    BY <1>1, <2>2, <2>4, HandsKeep
<1>9. CASE \E i \in Images : EnqueueDownload(w, i)
  <2>1. PICK i \in Images : EnqueueDownload(w, i)
    BY <1>9
  <2>2. /\ imageQueue' = Append(imageQueue, i) /\ i \in toEnqueue[w]
        /\ requeuedImages' = requeuedImages /\ issued' = issued
        /\ store' = store /\ addedRows' = addedRows /\ batch' = batch
        /\ downloading' = downloading /\ downloading[w] = {}
        /\ toEnqueue' = [toEnqueue EXCEPT ![w] = @ \ {i}]
    BY <1>4, <2>1 DEF EnqueueDownload, disk
  <2>3. i \in Mine(w) /\ Mine(w)' = Mine(w) \ {i}
    BY <1>3, <2>2 DEF Mine
  <2>4. /\ IsInjective(imageQueue')
        /\ Range(imageQueue') = Range(imageQueue) \cup {i}
    <3>1. i \notin Range(imageQueue)
      BY <1>2, <2>3
    <3>2. QED
      BY <1>2, <1>3, <2>2, <3>1, AppendKeepsInjective
  <2> DEFINE None == {}
  <2>5. /\ Mine(w)' \cup Range(imageQueue') \cup Range(requeuedImages')
             \subseteq Mine(w) \cup Range(imageQueue) \cup Range(requeuedImages)
                         \cup None
        /\ Mine(w)' \cap (Range(imageQueue') \cup Range(requeuedImages')) = {}
        /\ Range(imageQueue') \cap Range(requeuedImages') = {}
        /\ None \cap issued = {} /\ issued' = issued \cup None
        /\ store' \cup addedRows' \cup batch'[w] \subseteq issued'
        /\ IsInjective(requeuedImages')
    BY <1>2, <2>2, <2>3, <2>4
  <2> HIDE DEF None
  <2>6. QED
    BY <1>1, <2>4, <2>5, HandsKeep
<1>10. QED
  BY <1>5, <1>6, <1>7, <1>8, <1>9 DEF WorkerStep

\* A process that ended holds nothing.
LEMMA ProcessEndsOwned == ASSUME Issued, ProcessEnds PROVE Owned'
<1>1. /\ imageQueue' = << >> /\ requeuedImages' = << >> /\ loading' = {}
      /\ addedRows' = {} /\ store' = store /\ issued' = issued
      /\ \A w \in Workers : Mine(w)' = {} /\ batch'[w] = {}
  BY DEF ProcessEnds, Nothing, Mine, disk
<1>2. Apart'
  BY <1>1, EmptyInjective DEF Apart
<1>3. Issued'
  BY <1>1, EmptyInjective DEF Issued
<1>4. ReadOnce'
  BY <1>1 DEF ReadOnce
<1>5. QED
  BY <1>2, <1>3, <1>4 DEF Owned

\* Neither does a step that moves no download.
LEMMA StillOwned ==
  ASSUME Owned, ReadOnce',
         UNCHANGED <<imageQueue, requeuedImages, loading, downloading, toEnqueue,
                     batch, addedRows, store, issued>>
  PROVE  Owned'
<1>1. Apart'
  BY DEF Owned, Apart, Mine
<1>2. Issued'
  BY DEF Owned, Issued, Mine
<1>3. QED
  BY <1>1, <1>2 DEF Owned

\* The cache is read into an empty queue, each row is queued once, and the queue
\* is rewritten when no worker holds anything.
LEMMA CycleOwned == ASSUME TypeOK, Tidy, Owned, CycleStep PROVE Owned'
<1>1. CASE StopWhenCancelled \/ WorkerFaultEndsRun \/ WriteFails \/ LastCycle
  BY <1>1, ProcessEndsOwned
     DEF StopWhenCancelled, WorkerFaultEndsRun, WriteFails, LastCycle, Owned
<1>2. CASE ReadBoards
  <2>1. ReadOnce'
    BY <1>2 DEF ReadBoards, Owned, ReadOnce
  <2>2. QED
    BY <1>2, <2>1, StillOwned DEF ReadBoards, workerVars, disk
<1>3. CASE StartScrape
  <2>1. /\ imageQueue' = imageQueue /\ requeuedImages' = << >>
        /\ loading' = IF firstRun THEN store ELSE {}
        /\ UNCHANGED <<downloading, toEnqueue, batch, addedRows, store, issued>>
        /\ phase = "start" /\ phase' = "load"
    BY <1>3 DEF StartScrape, workerVars, disk
  <2>2. firstRun => imageQueue = << >>
    BY <2>1 DEF Owned, ReadOnce
  <2>3. \A w \in Workers : Mine(w) = {} /\ Mine(w)' = {}
    BY <2>1 DEF Tidy, Mine
  <2>4. loading' \cap Range(imageQueue') = {}
    BY <2>1, <2>2, EmptyInjective
  <2>5. Apart'
    BY <2>1, <2>3, <2>4, EmptyInjective DEF Owned, Apart
  <2>6. Issued'
    BY <2>1, <2>3, EmptyInjective DEF Owned, Issued
  <2>7. ReadOnce'
    BY <2>1 DEF ReadOnce
  <2>8. QED
    BY <2>5, <2>6, <2>7 DEF Owned
<1>4. CASE \E j \in Images : LoadRow(j)
  <2>1. PICK j \in Images : LoadRow(j)
    BY <1>4
  <2>2. /\ phase = "load" /\ phase' = "load"
        /\ j \in loading /\ loading' = loading \ {j}
        /\ imageQueue' = Append(imageQueue, j) /\ requeuedImages' = requeuedImages
        /\ UNCHANGED <<downloading, toEnqueue, batch, addedRows, store, issued>>
    BY <2>1 DEF LoadRow, workerVars, disk
  <2>3. \A w \in Workers : Mine(w) = {} /\ Mine(w)' = {}
    BY <2>2 DEF Tidy, Mine
  <2>4. /\ IsInjective(imageQueue')
        /\ Range(imageQueue') = Range(imageQueue) \cup {j}
    <3>1. IsInjective(imageQueue) /\ j \notin Range(imageQueue)
      BY <2>2 DEF Owned, Apart
    <3>2. QED
      BY <2>2, <3>1, AppendKeepsInjective DEF TypeOK
  <2>5. Apart'
    BY <2>2, <2>3, <2>4 DEF Owned, Apart
  <2>6. Issued'
    BY <2>2, <2>3, <2>4 DEF Owned, Issued
  <2>7. ReadOnce'
    BY <2>2 DEF ReadOnce
  <2>8. QED
    BY <2>5, <2>6, <2>7 DEF Owned
<1>5. CASE StartWorkers
  <2>1. ReadOnce'
    BY <1>5 DEF StartWorkers, ReadOnce
  <2>2. QED
    BY <1>5, <2>1, StillOwned DEF StartWorkers, queues, disk
<1>6. CASE WriteDownloadQueue
  <2>1. /\ imageQueue' = imageQueue \o requeuedImages /\ requeuedImages' = << >>
        /\ store' = Range(imageQueue') \cup addedRows /\ addedRows' = {}
        /\ UNCHANGED <<downloading, toEnqueue, batch, loading, issued>>
        /\ phase = "scrape" /\ phase' = "wait"
    BY <1>6 DEF WriteDownloadQueue, workerVars
  <2>2. \A w \in Workers : Mine(w) = {} /\ Mine(w)' = {}
    BY <1>6, <2>1 DEF WriteDownloadQueue, AllExited, Tidy, Mine
  <2>3. loading' = {}
    BY <2>1 DEF Tidy
  <2>4. /\ IsInjective(imageQueue')
        /\ Range(imageQueue') = Range(imageQueue) \cup Range(requeuedImages)
    BY <2>1, ConcatInjective DEF TypeOK, Owned, Apart
  <2>5. Apart'
    BY <2>1, <2>2, <2>3, <2>4, EmptyInjective DEF Apart
  <2>6. Issued'
    BY <2>1, <2>2, <2>3, <2>4, EmptyInjective DEF Owned, Issued
  <2>7. ReadOnce'
    BY <2>1 DEF ReadOnce
  <2>8. QED
    BY <2>5, <2>6, <2>7 DEF Owned
<1>7. CASE NextCycle
  <2>1. ReadOnce'
    BY <1>7 DEF NextCycle, ReadOnce
  <2>2. QED
    BY <1>7, <2>1, StillOwned DEF NextCycle, queues, workerVars, disk
<1>8. QED
  BY <1>1, <1>2, <1>3, <1>4, <1>5, <1>6, <1>7 DEF CycleStep

\* Every step gives no download a second owner.
LEMMA NextOwned == ASSUME TypeOK, Tidy, Owned, [Next]_vars PROVE Owned'
<1>1. CASE CycleStep
  BY <1>1, CycleOwned
<1>2. CASE \E w \in Workers : WorkerStep(w)
  BY <1>2, WorkerOwned
<1>3. CASE Crash
  BY <1>3, ProcessEndsOwned DEF Crash, Owned
<1>4. CASE Cancel \/ Restart \/ UNCHANGED vars
  <2>1. ReadOnce'
    BY <1>4 DEF Cancel, Restart, vars, queues, Owned, ReadOnce
  <2>2. QED
    BY <1>4, <2>1, StillOwned DEF Cancel, Restart, vars, queues, workerVars, disk
<1>5. QED
  BY <1>1, <1>2, <1>3, <1>4 DEF Next, Over

\* A download is never in two places of the queue, and no two workers have it
\* at once: through failures, requeues, reloads of the cache and restarts.
THEOREM SingleOwner == Spec => []OneOwner
<1>1. Init => Owned
  <2>1. ASSUME Init
        PROVE  /\ imageQueue = << >> /\ requeuedImages = << >> /\ loading = {}
               /\ store = {} /\ addedRows = {}
               /\ \A w \in Workers : Mine(w) = {} /\ batch[w] = {}
    BY <2>1 DEF Init, Nothing, Mine
  <2>2. QED
    BY <2>1, EmptyInjective DEF Owned, Apart, Issued, ReadOnce
<1>2. IInv /\ Owned /\ [Next]_vars => Owned'
  BY NextOwned DEF IInv
<1>3. IInv /\ Owned => OneOwner
  <2>1. SUFFICES ASSUME IInv, Owned PROVE OneOwner
    OBVIOUS
  <2>2. /\ IsInjective(imageQueue \o requeuedImages)
        /\ Range(imageQueue \o requeuedImages)
             = Range(imageQueue) \cup Range(requeuedImages)
    BY <2>1, ConcatInjective DEF IInv, TypeOK, Owned, Apart
  <2>3. \A w \in Workers :
          /\ Mine(w) \cap (Range(imageQueue \o requeuedImages) \cup loading) = {}
          /\ \A v \in Workers \ {w} : Mine(v) \cap Mine(w) = {}
    BY <2>1, <2>2 DEF Owned, Apart
  <2>4. QED
    BY <2>2, <2>3 DEF OneOwner, Mine
<1>4. QED
  BY <1>1, <1>2, <1>3, Invariance, PTL DEF Spec

-----------------------------------------------------------------------------
(* The pool leaves nothing behind. *)

\* A worker makes its last look at the images only once no thread is left.
Spent ==
  phase = "scrape" /\ (\E w \in Workers : pc[w] = "last") => threadQueue = {}

\* A worker that leaves saw both queues empty, or the cancellation.
LEMMA WorkerDrains ==
  ASSUME TypeOK, Spent, PoolDrains, NEW w \in Workers, WorkerStep(w)
  PROVE  Spent' /\ PoolDrains'
<1>1. /\ phase = "scrape" /\ cancelled' = cancelled
      /\ threadQueue' \subseteq threadQueue
      /\ pc[w] # "exited"
  BY DEF WorkerStep, WorkerStops, TakeImage, NoImageAtTop, TakeThread,
     NoThreadLeft, WorkerFinishes, DownloadOk, DownloadFails, Cooldown,
     PollFails, PollOk, EnqueueDownload, InsertToDownloadQueue, InsertFails,
     Outside, queues
<1>2. \A v \in Workers \ {w} : pc'[v] = pc[v]
  BY DEF WorkerStep, WorkerStops, TakeImage, NoImageAtTop, TakeThread,
     NoThreadLeft, WorkerFinishes, DownloadOk, DownloadFails, Cooldown,
     PollFails, PollOk, EnqueueDownload, InsertToDownloadQueue, InsertFails,
     Goto, TypeOK
<1>3. CASE NoThreadLeft(w)
  <2>1. threadQueue' = {} /\ pc'[w] = "last"
    BY <1>3 DEF NoThreadLeft, Goto, TypeOK, queues
  <2>2. QED
    BY <2>1 DEF Spent, PoolDrains, AllExited
<1>4. CASE WorkerStops(w)
  <2>1. pc'[w] = "exited" /\ cancelled'
    BY <1>1, <1>4 DEF WorkerStops, Goto, TypeOK
  <2>2. QED
    BY <1>1, <1>2, <2>1 DEF Spent, PoolDrains
<1>5. CASE WorkerFinishes(w)
  <2>1. pc'[w] = "exited" /\ pc[w] = "last" /\ imageQueue' = << >>
    BY <1>5 DEF WorkerFinishes, Goto, TypeOK, queues
  <2>2. threadQueue' = {}
    BY <1>1, <2>1 DEF Spent
  <2>3. QED
    BY <2>1, <2>2 DEF Spent, PoolDrains
<1>6. CASE ~ NoThreadLeft(w) /\ ~ WorkerStops(w) /\ ~ WorkerFinishes(w)
  <2>1. pc'[w] \notin {"exited", "last"} \/ pc'[w] = pc[w]
    BY <1>6 DEF WorkerStep, TakeImage, NoImageAtTop, TakeThread, DownloadOk,
       DownloadFails, Cooldown, PollFails, PollOk, EnqueueDownload,
       InsertToDownloadQueue, InsertFails, Goto, TypeOK
  <2>2. pc'[w] # "exited"
    BY <1>1, <2>1
  <2>3. QED
    BY <1>1, <1>2, <2>1, <2>2 DEF Spent, PoolDrains, AllExited
<1>7. QED
  BY <1>3, <1>4, <1>5, <1>6

\* Outside the scrape there is nothing to say, and a scrape starts with workers
\* that are at the top of their loop.
LEMMA NextDrains ==
  ASSUME Workers # {}, TypeOK, Spent, PoolDrains, [Next]_vars
  PROVE  Spent' /\ PoolDrains'
<1>1. CASE \E w \in Workers : WorkerStep(w)
  BY <1>1, WorkerDrains
<1>2. CASE StartWorkers
  <2>1. \A w \in Workers : pc'[w] = "top"
    BY <1>2 DEF StartWorkers
  <2>2. QED
    BY <2>1 DEF Spent, PoolDrains, AllExited
<1>3. CASE Cancel \/ UNCHANGED vars
  <2>1. /\ UNCHANGED <<phase, threadQueue, imageQueue, pc>>
        /\ cancelled' \/ cancelled' = cancelled
    BY <1>3 DEF Cancel, vars, queues, workerVars
  <2>2. QED
    BY <2>1 DEF Spent, PoolDrains, AllExited
<1>4. CASE (CycleStep /\ ~ StartWorkers) \/ Crash \/ Restart
  <2>1. phase' # "scrape"
    BY <1>4 DEF CycleStep, ProcessEnds, ReadBoards, StopWhenCancelled, StartScrape,
       LoadRow, WorkerFaultEndsRun, WriteDownloadQueue, WriteFails, NextCycle,
       LastCycle, Crash, Restart
  <2>2. QED
    BY <2>1 DEF Spent, PoolDrains
<1>5. QED
  BY <1>1, <1>2, <1>3, <1>4 DEF Next, Over

\* Once every worker has left its loop, and nobody cancelled, no thread and no
\* download is left over.  This needs a worker: a pool whose every connection
\* failed its test at startup (ConfigProxyProvider) starts none, and leaves all.
THEOREM PoolEmpty == ASSUME Workers # {} PROVE Spec => []PoolDrains
<1>1. Init => Spent /\ PoolDrains
  BY DEF Init, Spent, PoolDrains
<1>2. TypeOK /\ Spent /\ PoolDrains /\ [Next]_vars => Spent' /\ PoolDrains'
  BY NextDrains
<1>3. QED
  BY <1>1, <1>2, TypeCorrect, PTL DEF Spec

=============================================================================
