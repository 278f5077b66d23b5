------------------------------ MODULE BoardPoll ------------------------------
(***************************************************************************)
(* Which threads BoardArchiver polls: ReadBoards, GetBoardThreads and      *)
(* GetArchivedBoardThreads with the tracked threads, the blacklist and the *)
(* time of the last check, and how the outcome of a poll feeds back into   *)
(* them.  One board, in loop mode; boards share nothing but locks.         *)
(*                                                                         *)
(* Times are the site's Unix timestamps: whole seconds, so that several    *)
(* changes can bear the same one.  What a successful poll stores is in     *)
(* ThreadArchive; here it stores all that the thread has.                  *)
(*                                                                         *)
(* A board never checked and a thread row never finished bear              *)
(* DateTime.MinValue.  GetGMTTimestamp casts its negative seconds to uint, *)
(* and C# leaves the result open: 0 where the cast saturates, the year     *)
(* 2042 where it wraps round, which is beyond MaxTime.                     *)
(***************************************************************************)
EXTENDS Naturals, FiniteSets, FiniteSetsExt

CONSTANTS
  Threads,      \* thread numbers
  Unlisted,     \* threads that fail ThreadFilter in the listing already
  Unwanted,     \* threads that fail it when polled
  ReadArchive,  \* SourceConfig.ReadArchive and the site has an archive
  MinValue,     \* what the build makes of DateTime.MinValue as a timestamp
  MaxTime,      \* bound: timestamps
  MaxBoots      \* bound: processes started one after another

ASSUME PollAssumption ==
  /\ Threads \subseteq Nat \ {0}
  /\ Unlisted \subseteq Threads
  /\ Unwanted \subseteq Threads
  /\ ReadArchive \in BOOLEAN
  /\ MaxTime \in Nat \ {0}
  /\ MinValue \in {0, MaxTime + 1}
  /\ MaxBoots \in Nat \ {0}

VARIABLES
  (* the site *)
  now,
  state,      \* per thread: "new" (not yet there), "live", "archived", "gone"
  posted,     \* time of the newest post
  modified,   \* PageThread.LastModified
  (* the process *)
  phase,      \* "idle": about to read the boards; "scrape": in PerformScrape;
              \* "ended": no process
  firstRun,
  lastCheck,  \* LastBoardCheckTimes[board]
  tracked,    \* keys of TrackedThreads
  blacklist,  \* ThreadIdBlacklist
  queue,      \* threads to be polled in this cycle
  requeued,   \* requeuedThreads
  skipped,    \* history: threads of the backend it did not begin to track, or
              \* dropped from TrackedThreads while they were there
  (* the backend *)
  stored,     \* threads CheckExistingThreads reports
  lastPost,   \* ExistingThreadInfo.LastPostTime as a timestamp
  closed,     \* threads flagged as archived
  (* history *)
  unseen,     \* threads with a change no successful poll has stored
  dropped,    \* threads whose last change was given up: a poll failed or was
              \* answered by a malformed thread, or a listing passed it over
  boots

siteVars    == <<now, state, posted, modified>>
processVars == <<phase, firstRun, lastCheck, tracked, blacklist, queue,
                 requeued, skipped>>
backendVars == <<stored, lastPost, closed>>
vars == <<siteVars, processVars, backendVars, unseen, dropped, boots>>

Times == 0..MaxTime
Stamps == Times \cup {MinValue}

TypeOK ==
  /\ now \in Times
  /\ state \in [Threads -> {"new", "live", "archived", "gone"}]
  /\ posted \in [Threads -> Times]
  /\ modified \in [Threads -> Times]
  /\ phase \in {"idle", "scrape", "ended"}
  /\ firstRun \in BOOLEAN
  /\ lastCheck \in (0..now) \cup {MinValue}
  /\ tracked \subseteq Threads
  /\ blacklist \subseteq Threads
  /\ queue \subseteq Threads
  /\ requeued \subseteq Threads
  /\ skipped \subseteq Threads
  /\ stored \subseteq Threads
  /\ lastPost \in [Threads -> Stamps]
  /\ closed \subseteq Threads
  /\ unseen \subseteq Threads
  /\ dropped \subseteq Threads
  /\ boots \in 1..MaxBoots

Never == [t \in Threads |-> 0]

Init ==
  /\ now = 1
  /\ state = [t \in Threads |-> "new"]
  /\ posted = Never /\ modified = Never
  /\ phase = "idle"
  /\ firstRun = TRUE
  /\ lastCheck = MinValue
  /\ tracked = {} /\ blacklist = {} /\ queue = {} /\ requeued = {}
  /\ skipped = {}
  /\ stored = {} /\ lastPost = [t \in Threads |-> MinValue]
  /\ closed = {} /\ unseen = {} /\ dropped = {}
  /\ boots = 1

-----------------------------------------------------------------------------
(* The site. *)

Tick ==
  /\ now < MaxTime
  /\ now' = now + 1
  /\ UNCHANGED <<state, posted, modified, processVars, backendVars, unseen,
                 dropped, boots>>

Changed(t) ==
  /\ modified' = [modified EXCEPT ![t] = now]
  /\ unseen' = unseen \cup {t}
  /\ dropped' = dropped \ {t}
  /\ UNCHANGED <<now, processVars, backendVars, boots>>

\* A new thread or a reply.
Post(t) ==
  /\ state[t] \in {"new", "live"}
  /\ state' = [state EXCEPT ![t] = "live"]
  /\ posted' = [posted EXCEPT ![t] = now]
  /\ Changed(t)

\* A post is edited, marked or removed.
Edit(t) ==
  /\ state[t] = "live"
  /\ UNCHANGED <<state, posted>>
  /\ Changed(t)

FallsOff(t, how) ==
  /\ \/ state[t] = "live"     /\ how \in {"archived", "gone"}
     \/ state[t] = "archived" /\ how = "gone"
  /\ state' = [state EXCEPT ![t] = how]
  /\ UNCHANGED <<now, posted, modified, processVars, backendVars, unseen,
                 dropped, boots>>

-----------------------------------------------------------------------------
(* ReadBoards. *)

Live == {t \in Threads : state[t] = "live"}
Archived == {t \in Threads : state[t] = "archived"}

\* Mutant of Listed: the blacklist is not asked.
ListedAll == Live \ Unlisted

\* The listing without the threads the filters reject.
Listed == (Live \ blacklist) \ Unlisted

\* "threads that we 100% know haven't been changed since they were archived"
UnchangedSinceStored == {t \in stored : modified[t] <= lastPost[t]}

Examined == IF firstRun THEN Listed \ UnchangedSinceStored ELSE Listed

\* Mutant of TrackedByListing: a first run tracks nothing before it polls.
TrackedBefore == tracked

\* A first run tracks what the backend has and takes every thread.
TrackedByListing == tracked \cup (IF firstRun THEN Examined \cap stored ELSE {})

\* Mutant of ChangedSinceCheck: a change in the last second counts as seen.
ChangedAfterCheck ==
  IF firstRun THEN Examined ELSE {t \in Examined : modified[t] > lastCheck}

ChangedSinceCheck ==
  IF firstRun THEN Examined ELSE {t \in Examined : ~(modified[t] < lastCheck)}

\* Mutant of Missing: the missing threads pass the comparison of times too.
MissingAndModified ==
  {t \in TrackedByListing \ Examined : ~(modified[t] < lastCheck)}

Missing == TrackedByListing \ Examined

\* GetArchivedBoardThreads, in a first run: unknown threads beyond the newest
\* one flagged as archived, and stored ones without the flag, which are tracked.
Watermark == Max({0} \cup (Archived \cap stored \cap closed))
ArchiveUnknown == {t \in (Archived \ stored) \ blacklist : t > Watermark}
ArchiveMaybeLive == (Archived \cap stored) \ closed
FromArchive ==
  IF firstRun /\ ReadArchive THEN ArchiveUnknown \cup ArchiveMaybeLive ELSE {}

\* Mutant of LastTimestamp: the second after the newest change.
NextTimestamp == Max({modified[t] : t \in Live}) + 1

LastTimestamp == Max({modified[t] : t \in Live})

\* A first run passes over what it takes for unchanged; a process that has never
\* had the listing compares with MinValue.
PassedOver ==
  IF firstRun THEN Listed \cap UnchangedSinceStored
  ELSE IF lastCheck = MinValue THEN Examined \ ChangedSinceCheck ELSE {}

\* The archive's listing may not be had either; that is logged, and no later
\* cycle reads it.
ReadBoards ==
  /\ phase = "idle"
  /\ Live # {}
  /\ phase' = "scrape"
  /\ lastCheck' = LastTimestamp
  /\ dropped' = dropped \cup PassedOver
  /\ requeued' = {}
  /\ \E archive \in {FromArchive, {}} :
       /\ queue' = ChangedSinceCheck \cup Missing \cup archive
       /\ tracked' = TrackedByListing \cup (archive \cap stored)
       /\ skipped' = IF firstRun
                       THEN PassedOver \cup (ArchiveMaybeLive \ archive)
                       ELSE skipped
  /\ UNCHANGED <<siteVars, firstRun, blacklist, backendVars, unseen, boots>>

\* The site answers 304 or 404: lastCheck stays, and the archive is read
\* nevertheless.
BoardNotRead ==
  /\ phase = "idle"
  /\ phase' = "scrape"
  /\ requeued' = {}
  /\ \E archive \in {FromArchive, {}} :
       /\ queue' = archive
       /\ tracked' = tracked \cup (archive \cap stored)
       /\ skipped' = IF firstRun
                       THEN (Live \cap stored) \cup (ArchiveMaybeLive \ archive)
                       ELSE skipped
  /\ UNCHANGED <<siteVars, firstRun, lastCheck, blacklist, backendVars, unseen,
                 dropped, boots>>

-----------------------------------------------------------------------------
(* ThreadUpdateTask, by what the site answers. *)

Polls(t) ==
  /\ phase = "scrape"
  /\ t \in queue
  /\ queue' = queue \ {t}
  /\ UNCHANGED <<siteVars, phase, firstRun, lastCheck, boots>>

Exists(t) == state[t] \in {"live", "archived"}

HandleThreadRemoval(t) ==
  /\ tracked' = tracked \ {t}
  /\ blacklist' = blacklist \ {t}

\* Blacklisted, and tracked as before.
PollUnwanted(t) ==
  /\ Polls(t)
  /\ Exists(t) /\ t \in Unwanted
  /\ blacklist' = blacklist \cup {t}
  /\ UNCHANGED <<tracked, requeued, skipped, backendVars, unseen, dropped>>

Stores(t) ==
  /\ stored' = stored \cup {t}
  /\ lastPost' = [lastPost EXCEPT ![t] = posted[t]]
  /\ unseen' = unseen \ {t}
  /\ dropped' = dropped \ {t}
  /\ UNCHANGED <<requeued, skipped>>

PollLive(t) ==
  /\ Polls(t)
  /\ state[t] = "live" /\ t \notin Unwanted
  /\ tracked' = tracked \cup {t}
  /\ Stores(t)
  /\ UNCHANGED <<blacklist, closed>>

\* ... and ThreadUntracked(deleted: false).
PollArchived(t) ==
  /\ Polls(t)
  /\ state[t] = "archived" /\ t \notin Unwanted
  /\ HandleThreadRemoval(t)
  /\ closed' = closed \cup {t}
  /\ Stores(t)

\* ... and ThreadUntracked(deleted: true).
PollNotFound(t) ==
  /\ Polls(t)
  /\ state[t] = "gone"
  /\ HandleThreadRemoval(t)
  /\ closed' = closed \ {t}
  /\ UNCHANGED <<requeued, skipped, stored, lastPost, unseen, dropped>>

\* A thread without a post, or a first post without a number, is taken for a
\* deleted one, also while the site lists it; unless the board has a filter,
\* which a thread without text does not pass.
PollMalformed(t) ==
  /\ Polls(t)
  /\ Exists(t)
  /\ dropped' = dropped \cup {t}
  /\ \/ /\ HandleThreadRemoval(t)
        /\ closed' = closed \ {t}
        /\ skipped' = skipped \cup {t}
     \/ /\ Unwanted # {}
        /\ blacklist' = blacklist \cup {t}
        /\ UNCHANGED <<tracked, closed, skipped>>
  /\ UNCHANGED <<requeued, stored, lastPost, unseen>>

\* ConsumeThread throws, the thread being tracked by then.  Its posts may be
\* there, without a date of the last one if it is new; an archived one is
\* inserted with the flag.
ConsumeThrows(t) ==
  /\ Exists(t) /\ t \notin Unwanted
  /\ tracked' = tracked \cup {t}
  /\ \/ UNCHANGED <<stored, closed>>
     \/ /\ stored' \in {stored, stored \cup {t}}
        /\ closed' = closed \cup ({t} \cap (Archived \ stored))
  /\ UNCHANGED <<blacklist, skipped, lastPost>>

\* ThreadUntracked throws, the thread being dropped by then: an archived one
\* that UpdateThread has flagged, one that is gone, or a malformed one.
UntrackThrows(t) ==
  /\ HandleThreadRemoval(t)
  /\ \/ /\ state[t] = "archived" /\ t \notin Unwanted
        /\ stored' = stored \cup {t}
        /\ lastPost' = [lastPost EXCEPT ![t] = posted[t]]
        /\ closed' = closed \cup {t}
        /\ UNCHANGED skipped
     \/ state[t] = "gone" /\ UNCHANGED <<skipped, backendVars>>
     \/ Exists(t) /\ skipped' = skipped \cup {t} /\ UNCHANGED backendVars

\* The site does not answer, or what comes after its answer throws.
PollFails(t) ==
  /\ Polls(t)
  /\ requeued' = requeued \cup {t}
  /\ dropped' = dropped \cup {t}
  /\ \/ UNCHANGED <<tracked, blacklist, skipped, backendVars>>
     \/ ConsumeThrows(t)
     \/ UntrackThrows(t)
  /\ UNCHANGED unseen

\* The loop keeps requeued as queuedThreads, which the next ReadBoards replaces.
CycleEnds ==
  /\ phase = "scrape"
  /\ queue = {}
  /\ phase' = "idle"
  /\ firstRun' = FALSE
  /\ UNCHANGED <<siteVars, lastCheck, tracked, blacklist, queue, requeued,
                 skipped, backendVars, unseen, dropped, boots>>

ProcessEnds ==
  /\ phase' = "ended"
  /\ firstRun' = TRUE
  /\ lastCheck' = MinValue
  /\ tracked' = {} /\ blacklist' = {} /\ queue' = {} /\ requeued' = {}
  /\ skipped' = {}
  /\ dropped' = {}
  /\ UNCHANGED <<siteVars, backendVars, unseen, boots>>

\* MaxAsync throws on a listing without threads, and nothing catches it.
EmptyBoardEndsRun ==
  /\ phase = "idle"
  /\ Live = {}
  /\ ProcessEnds

Dies ==
  /\ phase # "ended"
  /\ boots < MaxBoots
  /\ ProcessEnds

Restart ==
  /\ phase = "ended"
  /\ boots < MaxBoots
  /\ boots' = boots + 1
  /\ phase' = "idle"
  /\ UNCHANGED <<siteVars, firstRun, lastCheck, tracked, blacklist, queue,
                 requeued, skipped, backendVars, unseen, dropped>>

SiteStep ==
  \/ Tick
  \/ \E t \in Threads : Post(t) \/ Edit(t)
  \/ \E t \in Threads, how \in {"archived", "gone"} : FallsOff(t, how)

PollStep(t) ==
  PollUnwanted(t) \/ PollLive(t) \/ PollArchived(t) \/ PollNotFound(t)

Next ==
  \/ SiteStep
  \/ ReadBoards \/ BoardNotRead
  \/ \E t \in Threads : PollStep(t) \/ PollMalformed(t) \/ PollFails(t)
  \/ CycleEnds
  \/ EmptyBoardEndsRun
  \/ Dies \/ Restart

Spec == Init /\ [][Next]_vars

\* The loop never rests, a cycle polls all of its queue; the listing is had, and
\* the poll of a thread the filter lets pass succeeds, again and again.
Fairness ==
  /\ WF_vars(CycleEnds \/ \E t \in Threads :
                            PollStep(t) \/ PollMalformed(t) \/ PollFails(t))
  /\ SF_vars(ReadBoards \/ EmptyBoardEndsRun)
  /\ \A t \in Threads \ Unwanted : SF_vars(PollStep(t))

FairSpec == Spec /\ Fairness

-----------------------------------------------------------------------------
(* Properties. *)

\* No change is lost between listings: a live thread that changed after it was
\* last stored is in this cycle's queue or passes the next listing's comparison
\* of times, also when the change bears the second of the last check.  Excepted
\* are changes given up (failed and malformed polls, threads passed over), and a
\* process that never had the listing, whose next one compares with MinValue.
\* BoardArchiverTests.cs:92-94 and :151-153 expect less: that a listing whose
\* times are those of the last one lists nothing, which is ChangedAfterCheck.
ChangeIsListedAgain ==
  \A t \in (Live \cap unseen) \ (dropped \cup blacklist \cup Unlisted) :
    \/ t \in queue
    \/ firstRun /\ phase # "scrape"
    \/ lastCheck = MinValue
    \/ modified[t] >= lastCheck

\* A stored thread that fell off the board is followed until it is flagged as
\* archived: it is tracked, so that the next listing misses it, whatever polls
\* of it failed.  Excepted are threads the process did not begin to track, as
\* the first run passed them over or had no listing that named them, and
\* threads dropped for a malformed answer.
FallenIsFollowed ==
  phase = "idle" /\ ~firstRun /\ ReadArchive =>
    (Archived \cap stored) \ closed \subseteq tracked \cup skipped

\* A thread the filters rejected is polled again only while it is tracked.
RejectedIsNotPolled == queue \cap blacklist \subseteq tracked

\* TrackedThreads does not keep threads for ever: one that fell off the board
\* is noticed as missing, polled and forgotten.
FallenIsForgotten ==
  \A t \in Threads \ Unwanted :
    (t \in tracked /\ state[t] \in {"archived", "gone"}) ~> t \notin tracked

\* ARCHITECTURE.md:82: "If any of the above errored, requeue them to be
\* downloaded next board loop".
RequeuedIsPolledNextLoop ==
  [][ReadBoards => requeued \subseteq queue']_vars

\* BoardArchiver.cs:748: "Skip threads that we 100% know haven't been changed
\* since they were archived."  Of a thread whose newest post the backend dates:
\* one never stored to the end bears MinValue, and is skipped if that is late.
SkipsOnlyUnchanged ==
  phase = "idle" /\ firstRun =>
    \A t \in Listed \cap UnchangedSinceStored \cap unseen : lastPost[t] = MinValue

=============================================================================
