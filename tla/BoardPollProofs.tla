--------------------------- MODULE BoardPollProofs ---------------------------
(***************************************************************************)
(* The safety of BoardPoll, for any number of threads, filters, clocks and *)
(* processes.                                                              *)
(***************************************************************************)
EXTENDS BoardPoll, WellFoundedInduction, TLAPS

\* A board that has a thread has a newest one (the Max of LastTimestamp).
LEMMA HasMaximum ==
  ASSUME NEW n \in Nat, NEW T \in SUBSET (0..n), T # {}
  PROVE  Max(T) \in T /\ \A y \in T : Max(T) >= y
<1> DEFINE Above == {m \in 0..n : \A y \in T : y <= m}
<1>1. n \in Above /\ Above \subseteq Nat
  OBVIOUS
<1>2. PICK x \in Above : \A y \in Above : ~(<<y, x>> \in OpToRel(<, Nat))
  BY <1>1, NatLessThanWellFounded, WFMin, Zenon
<1>3. \A y \in Above : ~(y < x)
  BY <1>1, <1>2 DEF OpToRel
<1>4. x \in T
  <2>1. SUFFICES ASSUME x \notin T PROVE FALSE
    OBVIOUS
  <2>2. PICK z \in T : TRUE
    OBVIOUS
  <2>3. x > 0 /\ \A y \in T : y <= x - 1
    BY <2>1, <2>2
  <2>4. x - 1 \in Above
    BY <2>3
  <2>5. QED
    BY <1>3, <2>3, <2>4
<1>5. \A y \in T : x >= y
  OBVIOUS
<1>6. QED
  BY <1>4, <1>5 DEF Max

-----------------------------------------------------------------------------
(* The inductive invariant. *)

\* What a process knows before its first cycle, and between two.
Resting ==
  /\ phase # "scrape" => queue = {}
  /\ phase = "ended" => firstRun
  /\ firstRun /\ phase # "scrape" =>
       lastCheck = MinValue /\ blacklist = {} /\ skipped = {}

\* Nothing on the site is later than now.
Clocked ==
  \A t \in Threads : modified[t] <= now

\* What is tracked, queued or stored has been on the board, and passed
\* the filter of the listing if it is there still.
Appeared ==
  \A t \in tracked \cup queue \cup stored :
    state[t] # "new" /\ (state[t] = "live" => t \notin Unlisted)

\* Once the first cycle has read the archive, a stored thread that is live, or
\* archived without the flag, is followed (FallenIsFollowed holds when it falls).
Followed ==
  ReadArchive /\ (~firstRun \/ phase = "scrape") =>
    \A t \in stored \ closed :
      state[t] \in {"live", "archived"} => t \in tracked \cup skipped

IInv ==
  /\ TypeOK
  /\ Resting
  /\ Clocked
  /\ Appeared
  /\ Followed
  /\ ChangeIsListedAgain
  /\ RejectedIsNotPolled

-----------------------------------------------------------------------------
(* The site's steps. *)

\* A second passes.
LEMMA TickKeeps ==
  ASSUME IInv, Tick
  PROVE  IInv'
<1> USE DEF processVars, backendVars
<1>1. now \in Nat /\ now' = now + 1 /\ now' \in Times
      /\ modified \in [Threads -> Nat]
  BY PollAssumption DEF IInv, TypeOK, Times, Tick
<1>2. lastCheck' \in (0..now') \cup {MinValue}
  BY <1>1 DEF Tick, IInv, TypeOK
<1>3. TypeOK' /\ Resting'
  BY <1>1, <1>2 DEF Tick, IInv, TypeOK, Resting
<1>4. Clocked'
  BY <1>1 DEF Tick, IInv, Clocked
<1>5. Appeared' /\ Followed'
  BY DEF Tick, IInv, Appeared, Followed
<1>6. ChangeIsListedAgain' /\ RejectedIsNotPolled'
  BY DEF Tick, IInv, ChangeIsListedAgain, RejectedIsNotPolled, Live
<1>7. QED
  BY <1>3, <1>4, <1>5, <1>6 DEF IInv

\* A change bears the present second, which is not before the last check.
LEMMA ChangeKeeps ==
  ASSUME IInv, NEW t \in Threads, Post(t) \/ Edit(t)
  PROVE  IInv'
<1> USE DEF processVars, backendVars
<1>1. /\ now \in Nat /\ now \in Times
      /\ lastCheck = MinValue \/ (lastCheck \in Nat /\ lastCheck <= now)
      /\ modified \in [Threads -> Times] /\ Times \subseteq Nat
  BY PollAssumption DEF IInv, TypeOK, Times
<1>2. /\ state' = [state EXCEPT ![t] = "live"]
      /\ state[t] \in {"new", "live"}
      /\ modified' = [modified EXCEPT ![t] = now]
      /\ unseen' = unseen \cup {t} /\ dropped' = dropped \ {t}
      /\ now' = now
      /\ UNCHANGED <<processVars, backendVars, boots>>
  BY DEF Post, Edit, Changed, IInv, TypeOK
<1>3. posted' \in [Threads -> Times]
  BY <1>1 DEF Post, Edit, IInv, TypeOK
<1>4. TypeOK'
  BY <1>1, <1>2, <1>3 DEF IInv, TypeOK
<1>5. Resting' /\ RejectedIsNotPolled'
  BY <1>2 DEF IInv, Resting, RejectedIsNotPolled
<1>6. /\ \A u \in Threads : u # t => modified'[u] = modified[u]
      /\ modified'[t] = now
      /\ \A u \in Threads : u # t => state'[u] = state[u]
      /\ state'[t] = "live"
  BY <1>2 DEF IInv, TypeOK
<1>7. Clocked'
  BY <1>1, <1>2, <1>6 DEF IInv, Clocked
<1>8. Appeared'
  BY <1>2, <1>6 DEF IInv, TypeOK, Appeared
<1>9. Followed'
  BY <1>2, <1>6 DEF IInv, TypeOK, Followed, Appeared
<1>10. ChangeIsListedAgain'
  <2>1. SUFFICES ASSUME NEW u \in Threads, u \in Live', u \in unseen',
                        u \notin dropped \ {t},
                        u \notin blacklist \cup Unlisted
                 PROVE  \/ u \in queue
                        \/ firstRun /\ phase # "scrape"
                        \/ lastCheck = MinValue
                        \/ modified'[u] >= lastCheck
    BY <1>2 DEF ChangeIsListedAgain, Live
  <2>2. CASE u = t
    BY <1>1, <1>6, <2>2
  <2>3. CASE u # t
    BY <1>2, <1>6, <2>1, <2>3 DEF IInv, ChangeIsListedAgain, Live
  <2>4. QED
    BY <2>2, <2>3
<1>11. QED
  BY <1>4, <1>5, <1>7, <1>8, <1>9, <1>10 DEF IInv

\* A stored thread that falls off the board was followed while it was live.
LEMMA FallKeeps ==
  ASSUME IInv, NEW t \in Threads, NEW how \in {"archived", "gone"},
         FallsOff(t, how)
  PROVE  IInv'
<1> USE DEF processVars, backendVars
<1>1. /\ state' = [state EXCEPT ![t] = how]
      /\ state[t] \in {"live", "archived"}
      /\ UNCHANGED <<now, posted, modified, processVars, backendVars, unseen,
                     dropped, boots>>
  BY DEF FallsOff
<1>2. TypeOK' /\ Resting' /\ Clocked' /\ RejectedIsNotPolled'
  BY <1>1 DEF IInv, TypeOK, Resting, Clocked, RejectedIsNotPolled
<1>3. /\ \A u \in Threads : u # t => state'[u] = state[u]
      /\ state'[t] = how
  BY <1>1 DEF IInv, TypeOK
<1>4. Live' = Live \ {t}
  BY <1>3 DEF Live
<1>5. Appeared'
  BY <1>1, <1>3 DEF IInv, TypeOK, Appeared
<1>6. Followed'
  BY <1>1, <1>3 DEF IInv, TypeOK, Followed
<1>7. ChangeIsListedAgain'
  BY <1>1, <1>4 DEF IInv, ChangeIsListedAgain
<1>8. QED
  BY <1>2, <1>5, <1>6, <1>7 DEF IInv

-----------------------------------------------------------------------------
(* A listing. *)

\* The sets a listing is made of.
LEMMA ListingSets ==
  ASSUME IInv, phase = "idle", NEW archive \in {FromArchive, {}}
  PROVE  /\ Examined \subseteq Live
         /\ Examined \cap (blacklist \cup Unlisted) = {}
         /\ ChangedSinceCheck \subseteq Examined
         /\ tracked \subseteq TrackedByListing
         /\ TrackedByListing \subseteq tracked \cup Examined
         /\ Missing \subseteq TrackedByListing
         /\ archive \subseteq Archived
         /\ archive \cap blacklist \subseteq stored
         /\ PassedOver \subseteq Live
         /\ ~firstRun => archive = {}
BY DEF Examined, Listed, ChangedSinceCheck, TrackedByListing, Missing,
       FromArchive, ArchiveUnknown, ArchiveMaybeLive, PassedOver, IInv, Resting

\* The listing's newest change is no later than now.
LEMMA LastTimestampTyped ==
  ASSUME IInv, Live # {}
  PROVE  LastTimestamp \in 0..now
<1> DEFINE T == {modified[t] : t \in Live}
<1>1. T # {} /\ T \in SUBSET (0..MaxTime) /\ MaxTime \in Nat
  <2>1. \A t \in Live : modified[t] \in 0..MaxTime
    BY DEF IInv, TypeOK, Times, Live
  <2>2. MaxTime \in Nat
    BY PollAssumption
  <2>3. QED
    BY <2>1, <2>2
<1>2. Max(T) \in T
  <2> HIDE DEF T
  <2>1. QED
    BY <1>1, HasMaximum
<1>3. \A x \in T : x \in 0..now
  BY PollAssumption DEF IInv, TypeOK, Times, Clocked, Live
<1>4. QED
  BY <1>2, <1>3 DEF LastTimestamp

\* What a listing queues and tracks, with or without the board or the archive,
\* from which the threads it follows, rejects and lists again can be read off.
LEMMA ListingKeeps ==
  ASSUME IInv, phase = "idle", phase' = "scrape",
         NEW archive \in {FromArchive, {}},
         UNCHANGED <<siteVars, firstRun, blacklist, backendVars, unseen, boots>>,
         lastCheck' \in (0..now) \cup {MinValue},
         requeued' = {},
         queue' \subseteq TrackedByListing \cup Examined \cup archive,
         queue' \cap blacklist \subseteq tracked',
         dropped' \subseteq Threads, skipped' \subseteq Threads,
         ~firstRun => skipped' = skipped,
         tracked \subseteq tracked',
         tracked' \subseteq TrackedByListing \cup archive,
         firstRun => Live \cap stored \subseteq tracked' \cup skipped',
         firstRun /\ ReadArchive =>
           (Archived \cap stored) \ closed \subseteq tracked' \cup skipped',
         \A t \in (Live \cap unseen) \ (dropped' \cup blacklist \cup Unlisted) :
           t \in queue' \/ lastCheck' = MinValue \/ modified[t] >= lastCheck'
  PROVE  IInv'
<1> USE DEF siteVars, backendVars
<1>1. Live' = Live
  BY DEF Live
<1>2. /\ TrackedByListing \subseteq tracked \cup Live
      /\ archive \subseteq Archived
      /\ Examined \subseteq Live
      /\ Examined \cap Unlisted = {}
      /\ TrackedByListing \subseteq tracked \cup Examined
  BY ListingSets
<1>3. TypeOK'
  BY <1>2 DEF IInv, TypeOK, Live, Archived
<1>4. Resting' /\ Clocked'
  BY DEF IInv, Resting, Clocked
<1>5. Appeared'
  <2>1. \A t \in tracked' \cup queue' \cup stored :
          t \in tracked \cup stored \/ t \in Examined \/ t \in archive
    BY <1>2
  <2>2. \A t \in Examined : state[t] = "live" /\ t \notin Unlisted
    BY <1>2 DEF Live
  <2>3. \A t \in archive : state[t] = "archived"
    BY <1>2 DEF Archived
  <2>4. QED
    BY <2>1, <2>2, <2>3 DEF IInv, Appeared
<1>6. Followed'
  <2>1. SUFFICES ASSUME ReadArchive, NEW t \in stored \ closed,
                        state[t] \in {"live", "archived"}
                 PROVE  t \in tracked' \cup skipped'
    BY DEF Followed
  <2>2. CASE ~firstRun
    BY <2>1, <2>2 DEF IInv, Followed
  <2>3. CASE firstRun
    <3>1. t \in Threads
      BY <2>1 DEF IInv, TypeOK
    <3>2. CASE state[t] = "live"
      BY <2>1, <2>3, <3>1, <3>2 DEF Live
    <3>3. CASE state[t] = "archived"
      BY <2>1, <2>3, <3>1, <3>3 DEF Archived
    <3>4. QED
      BY <2>1, <3>2, <3>3
  <2>4. QED
    BY <2>2, <2>3
<1>7. ChangeIsListedAgain'
  BY <1>1 DEF ChangeIsListedAgain
<1>8. RejectedIsNotPolled'
  BY DEF RejectedIsNotPolled
<1>9. QED
  BY <1>3, <1>4, <1>5, <1>6, <1>7, <1>8 DEF IInv

\* The board's listing: what changed is queued or given up, and a first run
\* takes up or skips every stored thread.
LEMMA ReadBoardsKeeps ==
  ASSUME IInv, ReadBoards
  PROVE  IInv'
<1>1. phase = "idle" /\ Live # {} /\ phase' = "scrape"
  BY DEF ReadBoards
<1>2. lastCheck' \in (0..now) \cup {MinValue}
  BY <1>1, LastTimestampTyped DEF ReadBoards
<1>3. PICK archive \in {FromArchive, {}} :
        /\ queue' = ChangedSinceCheck \cup Missing \cup archive
        /\ tracked' = TrackedByListing \cup (archive \cap stored)
        /\ skipped' = IF firstRun
                        THEN PassedOver \cup (ArchiveMaybeLive \ archive)
                        ELSE skipped
  BY DEF ReadBoards
<1>4. /\ queue' \cap blacklist \subseteq tracked'
      /\ tracked \subseteq tracked'
      /\ tracked' \subseteq TrackedByListing \cup archive
      /\ queue' \subseteq TrackedByListing \cup Examined \cup archive
  BY <1>1, <1>3, ListingSets
<1>5. firstRun => Live \cap stored \subseteq tracked' \cup skipped'
  <2>1. firstRun => blacklist = {}
    BY <1>1 DEF IInv, Resting
  <2>2. \A t \in Live \cap stored : t \notin Unlisted
    BY DEF IInv, Appeared, Live
  <2>3. firstRun => Examined \cap stored \subseteq tracked'
    BY <1>3 DEF TrackedByListing
  <2>4. firstRun => Live \cap stored \subseteq Listed
    BY <2>1, <2>2 DEF Listed
  <2>5. firstRun => Listed \subseteq Examined \cup skipped'
    BY <1>3 DEF Examined, PassedOver
  <2>6. QED
    BY <2>3, <2>4, <2>5
<1>6. firstRun /\ ReadArchive =>
        (Archived \cap stored) \ closed \subseteq tracked' \cup skipped'
  BY <1>3 DEF ArchiveMaybeLive
<1>7. ASSUME NEW t \in (Live \cap unseen) \ (dropped' \cup blacklist \cup Unlisted)
      PROVE  t \in queue'
  <2>1. t \in Listed /\ t \notin PassedOver /\ t \notin dropped
    BY <1>7 DEF Listed, ReadBoards
  <2>2. CASE firstRun
    BY <1>3, <2>1, <2>2 DEF Examined, ChangedSinceCheck, PassedOver
  <2>3. CASE ~firstRun /\ lastCheck = MinValue
    BY <1>3, <2>1, <2>3 DEF Examined, PassedOver
  <2>4. CASE ~firstRun /\ lastCheck # MinValue
    <3>1. t \notin queue
      BY <1>1 DEF IInv, Resting
    <3>2. modified[t] >= lastCheck
      BY <1>7, <2>1, <2>4, <3>1 DEF IInv, ChangeIsListedAgain
    <3>3. modified[t] \in Nat /\ lastCheck \in Nat
      BY PollAssumption, <1>7 DEF IInv, TypeOK, Times, Live
    <3>4. t \in ChangedSinceCheck
      BY <2>1, <2>4, <3>2, <3>3 DEF ChangedSinceCheck, Examined
    <3>5. QED
      BY <1>3, <3>4
  <2>5. QED
    BY <2>2, <2>3, <2>4
<1>8. skipped' \subseteq Threads /\ dropped' \subseteq Threads
  BY <1>1, <1>3, ListingSets
     DEF ReadBoards, IInv, TypeOK, Live, ArchiveMaybeLive, Archived
<1>9. ~firstRun => skipped' = skipped
  BY <1>3
<1>10. UNCHANGED <<siteVars, firstRun, blacklist, backendVars, unseen, boots>>
       /\ requeued' = {}
  BY DEF ReadBoards
<1>11. QED
  BY <1>1, <1>2, <1>4, <1>5, <1>6, <1>7, <1>8, <1>9, <1>10, ListingKeeps

\* A listing that could not be had queues the archive alone; the time of the
\* last check stays.
LEMMA BoardNotReadKeeps ==
  ASSUME IInv, BoardNotRead
  PROVE  IInv'
<1>1. phase = "idle" /\ queue = {} /\ phase' = "scrape"
  BY DEF BoardNotRead, IInv, Resting
<1>2. lastCheck' = lastCheck /\ lastCheck \in (0..now) \cup {MinValue}
  BY DEF BoardNotRead, IInv, TypeOK
<1>3. PICK archive \in {FromArchive, {}} :
        /\ queue' = archive
        /\ tracked' = tracked \cup (archive \cap stored)
        /\ skipped' = IF firstRun
                        THEN (Live \cap stored) \cup (ArchiveMaybeLive \ archive)
                        ELSE skipped
  BY DEF BoardNotRead
<1>4. /\ queue' \cap blacklist \subseteq tracked'
      /\ tracked \subseteq tracked'
      /\ tracked' \subseteq TrackedByListing \cup archive
      /\ queue' \subseteq TrackedByListing \cup Examined \cup archive
  BY <1>1, <1>3, ListingSets
<1>5. firstRun => Live \cap stored \subseteq tracked' \cup skipped'
  BY <1>3
<1>6. firstRun /\ ReadArchive =>
        (Archived \cap stored) \ closed \subseteq tracked' \cup skipped'
  BY <1>3 DEF ArchiveMaybeLive
<1>7. ASSUME NEW t \in (Live \cap unseen) \ (dropped' \cup blacklist \cup Unlisted)
      PROVE  lastCheck = MinValue \/ modified[t] >= lastCheck
  <2>1. CASE firstRun
    BY <1>1, <2>1 DEF IInv, Resting
  <2>2. CASE ~firstRun
    BY <1>1, <1>7, <2>2 DEF BoardNotRead, IInv, ChangeIsListedAgain
  <2>3. QED
    BY <2>1, <2>2
<1>8. skipped' \subseteq Threads /\ dropped' \subseteq Threads
  BY <1>3 DEF BoardNotRead, IInv, TypeOK, Live, ArchiveMaybeLive, Archived
<1>9. ~firstRun => skipped' = skipped
  BY <1>3
<1>10. UNCHANGED <<siteVars, firstRun, blacklist, backendVars, unseen, boots>>
       /\ requeued' = {}
  BY DEF BoardNotRead
<1>11. QED
  BY <1>1, <1>2, <1>4, <1>5, <1>6, <1>7, <1>8, <1>9, <1>10, ListingKeeps

-----------------------------------------------------------------------------
(* A poll, and the ends of a cycle and of a process. *)

\* A poll of t: t leaves the queue, and whatever its outcome, t is followed or
\* need not be, and its changes are stored, given up or rejected.
LEMMA PollKeeps ==
  ASSUME IInv, TypeOK', NEW t \in Threads, Polls(t),
         tracked' \subseteq tracked \cup {t}, tracked \subseteq tracked' \cup {t},
         blacklist' \subseteq blacklist \cup {t},
         blacklist \subseteq blacklist' \cup {t},
         closed' \subseteq closed \cup {t}, closed \subseteq closed' \cup {t},
         stored' \subseteq stored \cup {t},
         skipped \subseteq skipped',
         unseen' \subseteq unseen,
         dropped \subseteq dropped' \cup {t},
         /\ ReadArchive
         /\ t \in stored' \ closed'
         /\ state[t] \in {"live", "archived"}
         => t \in tracked' \cup skipped',
         state[t] = "live" => t \notin unseen' \ (dropped' \cup blacklist')
  PROVE  IInv'
<1> USE DEF Polls, siteVars
<1>1. phase = "scrape" /\ t \in queue /\ queue' = queue \ {t}
  OBVIOUS
<1>2. Live' = Live
  BY DEF Live
<1>3. Resting' /\ Clocked'
  BY <1>1 DEF IInv, Resting, Clocked
<1>4. Appeared'
  BY <1>1 DEF IInv, Appeared
<1>5. Followed'
  <2>1. SUFFICES ASSUME ReadArchive, NEW u \in stored' \ closed',
                        state[u] \in {"live", "archived"}
                 PROVE  u \in tracked' \cup skipped'
    BY DEF Followed
  <2>2. CASE u = t
    BY <2>1, <2>2
  <2>3. CASE u # t
    <3>1. u \in stored \ closed
      BY <2>1, <2>3
    <3>2. u \in tracked \cup skipped
      BY <1>1, <2>1, <3>1 DEF IInv, Followed
    <3>3. QED
      BY <2>3, <3>2
  <2>4. QED
    BY <2>2, <2>3
<1>6. ChangeIsListedAgain'
  <2>1. SUFFICES ASSUME NEW u \in Live, u \in unseen', u \notin dropped',
                        u \notin blacklist' \cup Unlisted
                 PROVE  \/ u \in queue'
                        \/ lastCheck = MinValue
                        \/ modified[u] >= lastCheck
    BY <1>2 DEF ChangeIsListedAgain
  <2>2. u # t
    BY <2>1 DEF Live
  <2>3. u \in (Live \cap unseen) \ (dropped \cup blacklist \cup Unlisted)
    BY <2>1, <2>2
  <2>4. QED
    BY <1>1, <2>2, <2>3 DEF IInv, ChangeIsListedAgain
<1>7. RejectedIsNotPolled'
  BY <1>1 DEF IInv, RejectedIsNotPolled
<1>8. QED
  BY <1>3, <1>4, <1>5, <1>6, <1>7 DEF IInv

\* What was posted is a time.
LEMMA PostedIsStamp ==
  ASSUME IInv, NEW t \in Threads
  PROVE  [lastPost EXCEPT ![t] = posted[t]] \in [Threads -> Stamps]
BY DEF IInv, TypeOK, Stamps

\* Each answer of the site is such a poll.
LEMMA AnswersKeep ==
  ASSUME IInv, NEW t \in Threads, PollStep(t) \/ PollMalformed(t)
  PROVE  IInv'
<1> USE DEF HandleThreadRemoval
<1>1. Polls(t) /\ phase = "scrape"
  BY DEF PollStep, PollUnwanted, PollLive, PollArchived, PollNotFound,
         PollMalformed, Polls
<1>2. ReadArchive /\ t \in stored \ closed /\ state[t] \in {"live", "archived"}
        => t \in tracked \cup skipped
  BY <1>1 DEF IInv, Followed
<1>3. CASE PollUnwanted(t)
  <2>1. TypeOK'
    BY <1>1, <1>3 DEF PollUnwanted, Polls, siteVars, backendVars, IInv, TypeOK
  <2>2. QED
    BY <1>1, <1>2, <1>3, <2>1, PollKeeps DEF PollUnwanted, backendVars
<1>4. CASE PollLive(t) \/ PollArchived(t)
  <2>1. TypeOK'
    BY <1>1, <1>4, PostedIsStamp
       DEF PollLive, PollArchived, Stores, Polls, siteVars, IInv, TypeOK
  <2>2. t \in tracked' \cup closed' /\ unseen' = unseen \ {t}
    BY <1>4 DEF PollLive, PollArchived, Stores
  <2>3. QED
    BY <1>1, <1>4, <2>1, <2>2, PollKeeps DEF PollLive, PollArchived, Stores
<1>5. CASE PollNotFound(t)
  <2>1. TypeOK'
    BY <1>1, <1>5 DEF PollNotFound, Polls, siteVars, IInv, TypeOK
  <2>2. QED
    BY <1>1, <1>5, <2>1, PollKeeps DEF PollNotFound
<1>6. CASE PollMalformed(t)
  <2>1. TypeOK'
    BY <1>1, <1>6 DEF PollMalformed, Polls, siteVars, IInv, TypeOK
  <2>2. t \in skipped' \/ (UNCHANGED <<tracked, closed, skipped>>)
    BY <1>6 DEF PollMalformed
  <2>3. QED
    BY <1>1, <1>2, <1>6, <2>1, <2>2, PollKeeps DEF PollMalformed
<1>7. QED
  BY <1>3, <1>4, <1>5, <1>6 DEF PollStep

\* ... and so is each way for a poll to fail.
LEMMA FailuresKeep ==
  ASSUME IInv, NEW t \in Threads, PollFails(t)
  PROVE  IInv'
<1> USE DEF HandleThreadRemoval
<1>1. Polls(t) /\ phase = "scrape" /\ t \in dropped' /\ unseen' = unseen
      /\ requeued' = requeued \cup {t} /\ dropped' = dropped \cup {t}
  BY DEF PollFails, Polls
<1>2. ReadArchive /\ t \in stored \ closed /\ state[t] \in {"live", "archived"}
        => t \in tracked \cup skipped
  BY <1>1 DEF IInv, Followed
<1>3. CASE UNCHANGED <<tracked, blacklist, skipped, backendVars>>
  <2>1. TypeOK'
    BY <1>1, <1>3 DEF Polls, siteVars, backendVars, IInv, TypeOK
  <2>2. QED
    BY <1>1, <1>2, <1>3, <2>1, PollKeeps DEF backendVars
<1>4. CASE ConsumeThrows(t)
  <2>1. TypeOK'
    BY <1>1, <1>4 DEF ConsumeThrows, Polls, siteVars, IInv, TypeOK
  <2>2. t \in tracked'
    BY <1>4 DEF ConsumeThrows
  <2>3. QED
    BY <1>1, <1>4, <2>1, <2>2, PollKeeps DEF ConsumeThrows
<1>5. CASE UntrackThrows(t)
  <2>1. TypeOK'
    BY <1>1, <1>5, PostedIsStamp
       DEF UntrackThrows, Polls, siteVars, backendVars, IInv, TypeOK
  <2>2. t \in skipped' \/ t \in closed' \/ state[t] = "gone"
    BY <1>5 DEF UntrackThrows
  <2>3. QED
    BY <1>1, <1>5, <2>1, <2>2, PollKeeps DEF UntrackThrows, backendVars
<1>6. QED
  BY <1>3, <1>4, <1>5 DEF PollFails

\* When the queue is empty, what still has to be polled passes the next
\* comparison of times.
LEMMA CycleEndsKeeps ==
  ASSUME IInv, CycleEnds
  PROVE  IInv'
<1> USE DEF CycleEnds, siteVars, backendVars
<1>1. Live' = Live
  BY DEF Live
<1>2. TypeOK' /\ Resting' /\ Clocked' /\ Appeared' /\ RejectedIsNotPolled'
  BY DEF IInv, TypeOK, Resting, Clocked, Appeared, RejectedIsNotPolled
<1>3. Followed'
  BY DEF IInv, Followed
<1>4. ChangeIsListedAgain'
  BY <1>1 DEF IInv, ChangeIsListedAgain
<1>5. QED
  BY <1>2, <1>3, <1>4 DEF IInv

\* A process that ended or starts knows nothing, and will read everything.
LEMMA ProcessKeeps ==
  ASSUME IInv, ProcessEnds \/ Restart
  PROVE  IInv'
<1> USE DEF siteVars, backendVars
<1>1. /\ phase' \in {"idle", "ended"} /\ firstRun' /\ lastCheck' = MinValue
      /\ blacklist' = {} /\ queue' = {} /\ skipped' = {} /\ boots' \in 1..MaxBoots
      /\ tracked' \subseteq tracked /\ stored' = stored
      /\ UNCHANGED <<now, modified, state>>
  <2>1. CASE ProcessEnds
    BY <2>1 DEF ProcessEnds, IInv, TypeOK
  <2>2. CASE Restart
    <3>1. /\ phase = "ended" /\ firstRun /\ lastCheck = MinValue
          /\ blacklist = {} /\ queue = {} /\ skipped = {}
      BY <2>2 DEF Restart, IInv, Resting
    <3>2. boots' \in 1..MaxBoots
      BY <2>2, PollAssumption DEF Restart, IInv, TypeOK
    <3>3. QED
      BY <2>2, <3>1, <3>2 DEF Restart
  <2>3. QED
    BY <2>1, <2>2
<1>2. TypeOK'
  BY <1>1 DEF ProcessEnds, Restart, IInv, TypeOK
<1>3. Resting' /\ Clocked'
  BY <1>1 DEF IInv, Resting, Clocked
<1>4. Appeared' /\ Followed'
  BY <1>1 DEF IInv, Appeared, Followed
<1>5. ChangeIsListedAgain' /\ RejectedIsNotPolled'
  BY <1>1 DEF ChangeIsListedAgain, RejectedIsNotPolled
<1>6. QED
  BY <1>2, <1>3, <1>4, <1>5 DEF IInv

-----------------------------------------------------------------------------
(* The theorems. *)

\* The invariant is inductive.
THEOREM Invariance == Spec => []IInv
<1>1. Init => IInv
  <2> SUFFICES ASSUME Init PROVE IInv
    OBVIOUS
  <2>1. 0 \in Times /\ 1 \in Times /\ Times \subseteq Nat /\ 1 \in 1..MaxBoots
    BY PollAssumption DEF Times
  <2>2. TypeOK
    BY <2>1 DEF Init, Never, Stamps, TypeOK
  <2>3. Resting /\ Clocked /\ Appeared /\ Followed
    BY <2>1 DEF Init, Never, Resting, Clocked, Appeared, Followed
  <2>4. ChangeIsListedAgain /\ RejectedIsNotPolled
    BY DEF Init, ChangeIsListedAgain, RejectedIsNotPolled
  <2>5. QED
    BY <2>2, <2>3, <2>4 DEF IInv
<1>2. IInv /\ [Next]_vars => IInv'
  <2> SUFFICES ASSUME IInv, [Next]_vars PROVE IInv'
    OBVIOUS
  <2>1. CASE SiteStep
    BY <2>1, TickKeeps, ChangeKeeps, FallKeeps DEF SiteStep
  <2>2. CASE ReadBoards \/ BoardNotRead
    BY <2>2, ReadBoardsKeeps, BoardNotReadKeeps
  <2>3. CASE \E t \in Threads : PollStep(t) \/ PollMalformed(t) \/ PollFails(t)
    BY <2>3, AnswersKeep, FailuresKeep
  <2>4. CASE CycleEnds
    BY <2>4, CycleEndsKeeps
  <2>5. CASE EmptyBoardEndsRun \/ Dies \/ Restart
    BY <2>5, ProcessKeeps DEF EmptyBoardEndsRun, Dies
  <2>6. CASE UNCHANGED vars
    <3> USE <2>6 DEF vars, siteVars, processVars, backendVars
    <3>1. Live' = Live
      BY DEF Live
    <3>2. TypeOK' /\ Resting' /\ Clocked' /\ Appeared' /\ Followed'
      BY DEF IInv, TypeOK, Resting, Clocked, Appeared, Followed
    <3>3. ChangeIsListedAgain' /\ RejectedIsNotPolled'
      BY <3>1 DEF IInv, ChangeIsListedAgain, RejectedIsNotPolled
    <3>4. QED
      BY <3>2, <3>3 DEF IInv
  <2>7. QED
    BY <2>1, <2>2, <2>3, <2>4, <2>5, <2>6 DEF Next
<1>3. QED
  BY <1>1, <1>2, PTL DEF Spec

\* Every variable keeps its type; the time of the last check is a second the
\* site has reached, or the one of DateTime.MinValue.
THEOREM TypeCorrect == Spec => []TypeOK
<1>1. IInv => TypeOK
  BY DEF IInv
<1>2. QED
  BY <1>1, Invariance, PTL

\* No change is lost between the listings of a process that has had one,
\* whatever bears the same second and whatever the cast makes of MinValue.
THEOREM ChangesAreListed == Spec => []ChangeIsListedAgain
<1>1. IInv => ChangeIsListedAgain
  BY DEF IInv
<1>2. QED
  BY <1>1, Invariance, PTL

\* A stored thread that fell off the board is followed until it is flagged, over
\* polls that fail at any commit, unless the process never began to track it.
THEOREM FallenFollowed == Spec => []FallenIsFollowed
<1>1. IInv => FallenIsFollowed
  BY DEF IInv, TypeOK, Followed, FallenIsFollowed, Archived
<1>2. QED
  BY <1>1, Invariance, PTL

\* A rejected thread is polled again only while it is tracked.
THEOREM RejectedNotPolled == Spec => []RejectedIsNotPolled
<1>1. IInv => RejectedIsNotPolled
  BY DEF IInv
<1>2. QED
  BY <1>1, Invariance, PTL

=============================================================================
