---------------------------- MODULE ThreadArchive ----------------------------
(***************************************************************************)
(* One thread of an imageboard, the tracker that notices its changes       *)
(* (BoardArchiver.ThreadUpdateTask with TrackedThread), and the Hayden     *)
(* database backend that stores them (HaydenThreadConsumer).  The backend  *)
(* commits a poll in several SaveChanges calls; the database may refuse    *)
(* any of them and the process may die between two.  The archiver loops    *)
(* (SourceConfig.SingleScan is off) and reads the archive listing.         *)
(*                                                                         *)
(* A post's text is a version number: a moderator's edit raises it.  The   *)
(* site never brings a removed post back and serves no stale snapshots.    *)
(* When the thread is listed and when a filter keeps it out are in          *)
(* BoardPoll; here a listing may name it at any time, or never.            *)
(***************************************************************************)
EXTENDS Naturals, FiniteSets, TrackedThread

CONSTANTS
  Posts,          \* post numbers
  OP,             \* the opening post, in every snapshot of the thread
  WithMedia,      \* posts with an attached file
  Padded,         \* posts whose text TrimAndNullify changes
  Authoritative,  \* ConsumerConfig.ConsolidationMode
  DbMayFail,      \* the database may refuse a SaveChanges
  MaxVersion,     \* bound: versions of one post
  MaxBoots        \* bound: processes started one after another

ASSUME ArchiveAssumption ==
  /\ OP \in Posts
  /\ WithMedia \subseteq Posts
  /\ Padded \subseteq Posts
  /\ {Authoritative, DbMayFail} \subseteq BOOLEAN
  /\ MaxVersion \in Nat \ {0}
  /\ MaxBoots \in Nat \ {0}

VARIABLES
  (* the site *)
  site,       \* posts of the thread: version, and whether marked as deleted
  siteState,  \* "live", "archived", "gone" (404)
  removed,    \* posts that were removed or marked at some time
  (* the process *)
  firstRun,   \* Execute's local of that name
  queued,     \* the thread is in this cycle's thread queue
  tracked,    \* TrackedThreads has the thread
  hashes,     \* its PostHashes
  pc,         \* the next SaveChanges of ConsumeThread / ThreadUntracked
  info,       \* the ThreadUpdateInfo being consumed
  asked,      \* imageDownloads: posts whose file ConsumeThread asks for
  missed,     \* a ConsumeThread of this process failed
  (* the backend *)
  threadRow,  \* the row in Threads, as a set of at most one
  rows,       \* Posts: version and IsDeleted
  mappings,   \* posts with a row in FileMappings
  filed,      \* ... whose file is there
  wanted,     \* downloads handed to the image queue
  torn,       \* a consume failed, or died on a thread first seen archived
  boots

siteVars    == <<site, siteState, removed>>
trackerVars == <<firstRun, queued, tracked, hashes>>
processVars == <<trackerVars, pc, info, asked, missed>>
backendVars == <<threadRow, rows, mappings, filed, wanted>>
vars == <<siteVars, processVars, backendVars, torn, boots>>

Versions  == 1..MaxVersion
SitePost  == [ver : Versions, marked : BOOLEAN]
Row       == [ver : Versions, deleted : BOOLEAN]
ThreadRow == [deleted : BOOLEAN, archived : BOOLEAN]

PartialFunctions(S, T) == UNION {[D -> T] : D \in SUBSET S}

Snapshot == [posts : PartialFunctions(Posts, SitePost), archived : BOOLEAN]

\* The hash of a row that differs from every hash of the site's post.
UnlikeSite == 0
Hashes == Versions \cup {UnlikeSite}

Info == [isNew : BOOLEAN, new : SUBSET Posts, updated : SUBSET Posts,
         deleted : SUBSET Posts, snap : Snapshot]
NoInfo == [isNew |-> FALSE, new |-> {}, updated |-> {}, deleted |-> {},
           snap |-> [posts |-> << >>, archived |-> FALSE]]

Stages == {"idle", "insertThread", "insertPosts", "images", "consolidate",
           "updateThread", "untrackArchived", "untrackDeleted"}

TypeOK ==
  /\ site \in PartialFunctions(Posts, SitePost)
  /\ siteState \in {"live", "archived", "gone"}
  /\ removed \subseteq Posts
  /\ firstRun \in BOOLEAN
  /\ queued \in BOOLEAN
  /\ tracked \in BOOLEAN
  /\ hashes \in PartialFunctions(Posts, Hashes)
  /\ pc \in Stages
  /\ info \in Info
  /\ asked \subseteq Posts
  /\ missed \in BOOLEAN
  /\ threadRow \in {{}} \cup {{r} : r \in ThreadRow}
  /\ rows \in PartialFunctions(Posts, Row)
  /\ mappings \subseteq Posts
  /\ filed \subseteq Posts
  /\ wanted \subseteq Posts
  /\ torn \in BOOLEAN
  /\ boots \in 1..MaxBoots

Init ==
  /\ site = [p \in {OP} |-> [ver |-> 1, marked |-> FALSE]]
  /\ siteState = "live"
  /\ removed = {}
  /\ firstRun = TRUE
  /\ queued = FALSE
  /\ tracked = FALSE
  /\ hashes = << >>
  /\ pc = "idle"
  /\ info = NoInfo
  /\ asked = {}
  /\ missed = FALSE
  /\ threadRow = {}
  /\ rows = << >>
  /\ mappings = {} /\ filed = {} /\ wanted = {}
  /\ torn = FALSE
  /\ boots = 1

-----------------------------------------------------------------------------
(* The site. *)

AddPost(p) ==
  /\ siteState = "live"
  /\ p \notin (DOMAIN site \cup removed)
  /\ site' = [q \in DOMAIN site \cup {p} |->
               IF q = p THEN [ver |-> 1, marked |-> FALSE] ELSE site[q]]
  /\ UNCHANGED <<siteState, removed, processVars, backendVars, torn, boots>>

EditPost(p) ==
  /\ siteState = "live"
  /\ p \in DOMAIN site
  /\ site[p].ver < MaxVersion
  /\ site' = [site EXCEPT ![p].ver = @ + 1]
  /\ UNCHANGED <<siteState, removed, processVars, backendVars, torn, boots>>

\* Some sources (other archives) keep a deleted post and mark it.
MarkPost(p) ==
  /\ siteState = "live"
  /\ p \in DOMAIN site
  /\ site' = [site EXCEPT ![p].marked = TRUE]
  /\ removed' = removed \cup {p}
  /\ UNCHANGED <<siteState, processVars, backendVars, torn, boots>>

RemovePost(p) ==
  /\ siteState = "live"
  /\ p \in DOMAIN site \ {OP}
  /\ site' = [q \in DOMAIN site \ {p} |-> site[q]]
  /\ removed' = removed \cup {p}
  /\ UNCHANGED <<siteState, processVars, backendVars, torn, boots>>

\* An archived thread is pruned some days later.
ThreadEnds(how) ==
  /\ <<siteState, how>> \in
       {<<"live", "archived">>, <<"live", "gone">>, <<"archived", "gone">>}
  /\ siteState' = how
  /\ UNCHANGED <<site, removed, processVars, backendVars, torn, boots>>

-----------------------------------------------------------------------------
(* ThreadUpdateTask up to the call of ConsumeThread. *)

\* CheckExistingThreads reports a thread only through its undeleted posts.
LiveRows == {p \in DOMAIN rows : ~rows[p].deleted}
BackendKnows == threadRow # {} /\ LiveRows # {}

\* The hash counts the post's files: those with a mapping.
BackendHashes ==
  [p \in LiveRows |-> IF p \in Padded \/ p \in WithMedia \ mappings
                       THEN UnlikeSite ELSE rows[p].ver]

\* The board's listing names the thread, or the tracker knows it and misses it.
ListThread ==
  /\ pc = "idle" /\ ~queued
  /\ siteState = "live" \/ tracked
  /\ queued' = TRUE
  /\ UNCHANGED <<siteVars, firstRun, tracked, hashes, pc, info, asked, missed,
                 backendVars, torn, boots>>

\* The archive's listing names it: tracked anew when the backend has it.  It is
\* read in the first cycle of a process only.
ListArchived ==
  /\ pc = "idle" /\ ~queued
  /\ firstRun /\ siteState = "archived"
  /\ BackendKnows => \A r \in threadRow : ~r.archived
  /\ queued' = TRUE
  /\ IF BackendKnows
       THEN tracked' = TRUE /\ hashes' = BackendHashes
       ELSE UNCHANGED <<tracked, hashes>>
  /\ UNCHANGED <<siteVars, firstRun, pc, info, asked, missed, backendVars,
                 torn, boots>>

FirstCycleEnds ==
  /\ pc = "idle" /\ ~queued
  /\ firstRun
  /\ firstRun' = FALSE
  /\ UNCHANGED <<siteVars, queued, tracked, hashes, pc, info, asked, missed,
                 backendVars, torn, boots>>

Snap == [posts |-> site, archived |-> siteState = "archived"]

\* What a poll is compared with: the tracker, else the backend, else nothing.
Found == ~tracked /\ BackendKnows
Remembered == IF tracked THEN hashes
              ELSE IF Found THEN BackendHashes ELSE << >>
Polled == [p \in DOMAIN site |-> site[p].ver]

PollOk ==
  /\ pc = "idle" /\ queued
  /\ siteState # "gone"
  /\ queued' = FALSE
  /\ tracked' = TRUE
  /\ hashes' = NextHashes(Remembered, Polled)
  /\ IF HasChanges(Remembered, Polled) \/ siteState = "archived"
       THEN /\ info' = [isNew   |-> ~tracked /\ ~Found,
                        new     |-> NewPosts(Remembered, Polled),
                        updated |-> UpdatedPosts(Remembered, Polled),
                        deleted |-> DeletedPosts(Remembered, Polled),
                        snap    |-> Snap]
            /\ pc' = IF tracked \/ Found THEN "insertPosts" ELSE "insertThread"
       ELSE UNCHANGED <<info, pc>>
  /\ UNCHANGED <<siteVars, firstRun, asked, missed, backendVars, torn, boots>>

\* HandleThreadRemoval comes before ThreadUntracked.
TakenForDeleted ==
  /\ pc = "idle" /\ queued
  /\ queued' = FALSE
  /\ tracked' = FALSE
  /\ hashes' = << >>
  /\ pc' = "untrackDeleted"
  /\ UNCHANGED <<siteVars, firstRun, info, asked, missed, backendVars, torn,
                 boots>>

PollNotFound == siteState = "gone" /\ TakenForDeleted

\* A thread without a post, or a first post without a number, counts as deleted.
PollMalformed == siteState # "gone" /\ TakenForDeleted

\* The site or CheckExistingThreads throws.
PollFails ==
  /\ pc = "idle" /\ queued
  /\ queued' = FALSE
  /\ UNCHANGED <<siteVars, firstRun, tracked, hashes, pc, info, asked, missed,
                 backendVars, torn, boots>>

-----------------------------------------------------------------------------
(* ConsumeThread, one action per SaveChanges. *)

ConsumeVars == <<info, asked, missed, torn>>

InsertThread ==
  /\ pc = "insertThread"
  /\ threadRow = {}
  /\ threadRow' = {[deleted  |-> info.snap.posts[OP].marked,
                    archived |-> info.snap.archived]}
  /\ pc' = "insertPosts"
  /\ UNCHANGED <<siteVars, trackerVars, ConsumeVars, rows, mappings, filed,
                 wanted, boots>>

\* Mutant of Inserted: every post that comes marked is skipped.
InsertedUnmarked == {p \in info.new : ~info.snap.posts[p].marked}

\* New posts that come marked and are already there are skipped, unless the
\* thread is new.
Inserted ==
  IF info.isNew THEN info.new
  ELSE {p \in info.new : ~(info.snap.posts[p].marked /\ p \in DOMAIN rows)}

InsertPosts ==
  /\ pc = "insertPosts"
  /\ Inserted \cap DOMAIN rows = {}
  /\ rows' = [p \in DOMAIN rows \cup Inserted |->
                IF p \in Inserted
                  THEN [ver     |-> info.snap.posts[p].ver,
                        deleted |-> info.snap.posts[p].marked]
                  ELSE rows[p]]
  /\ pc' = "images"
  /\ UNCHANGED <<siteVars, trackerVars, ConsumeVars, threadRow, mappings,
                 filed, wanted, boots>>

\* Mutant of ProcessImages: only new posts get a mapping.
MapNewPosts ==
  /\ pc = "images"
  /\ LET media == (DOMAIN info.snap.posts \cap WithMedia) \ filed
     IN  mappings' = mappings \cup (media \cap info.new) /\ asked' = media
  /\ pc' = "consolidate"
  /\ UNCHANGED <<siteVars, trackerVars, info, missed, torn, threadRow, rows,
                 filed, wanted, boots>>

\* Mutant of ProcessImages: it goes over the new posts only.
ProcessNewImages ==
  /\ pc = "images"
  /\ LET media == (info.new \cap WithMedia) \ filed
     IN  mappings' = mappings \cup media /\ asked' = media
  /\ pc' = "consolidate"
  /\ UNCHANGED <<siteVars, trackerVars, info, missed, torn, threadRow, rows,
                 filed, wanted, boots>>

\* ProcessImages goes over the whole thread, not only its new posts.
ProcessImages ==
  /\ pc = "images"
  /\ LET media == (DOMAIN info.snap.posts \cap WithMedia) \ filed
     IN  mappings' = mappings \cup media /\ asked' = media
  /\ pc' = "consolidate"
  /\ UNCHANGED <<siteVars, trackerVars, info, missed, torn, threadRow, rows,
                 filed, wanted, boots>>

\* Mutant of Consolidated: deletions are not written.
ConsolidatedUpdates == IF Authoritative THEN info.updated ELSE {}

\* FirstAsync throws for a post the backend does not have.
Consolidated == IF Authoritative THEN info.updated \cup info.deleted ELSE {}

\* Mutant of Consolidate: a modification counts up from what is stored.
ConsolidateCounting ==
  /\ pc = "consolidate"
  /\ Consolidated \subseteq DOMAIN rows
  /\ rows' = [p \in DOMAIN rows |->
                IF p \in Consolidated \cap info.updated
                  THEN [ver |-> rows[p].ver + 1, deleted |-> FALSE]
                ELSE IF p \in Consolidated
                  THEN [rows[p] EXCEPT !.deleted = TRUE]
                ELSE rows[p]]
  /\ pc' = "updateThread"
  /\ UNCHANGED <<siteVars, trackerVars, ConsumeVars, threadRow, mappings, filed,
                 wanted, boots>>

\* Mutant of Consolidate: a deleted post's row is removed.
ConsolidateRemoving ==
  /\ pc = "consolidate"
  /\ Consolidated \subseteq DOMAIN rows
  /\ rows' = [p \in DOMAIN rows \ (Consolidated \cap info.deleted) |->
                IF p \in Consolidated
                  THEN [ver |-> info.snap.posts[p].ver, deleted |-> FALSE]
                ELSE rows[p]]
  /\ pc' = "updateThread"
  /\ UNCHANGED <<siteVars, trackerVars, ConsumeVars, threadRow, mappings, filed,
                 wanted, boots>>

Consolidate ==
  /\ pc = "consolidate"
  /\ Consolidated \subseteq DOMAIN rows
  /\ rows' = [p \in DOMAIN rows |->
                IF p \in Consolidated \cap info.updated
                  THEN [ver |-> info.snap.posts[p].ver, deleted |-> FALSE]
                ELSE IF p \in Consolidated
                  THEN [rows[p] EXCEPT !.deleted = TRUE]
                ELSE rows[p]]
  /\ pc' = "updateThread"
  /\ UNCHANGED <<siteVars, trackerVars, ConsumeVars, threadRow, mappings,
                 filed, wanted, boots>>

\* UpdateThread does nothing when the row is not there.
SetThreadRow(deleted, archived) ==
  threadRow' = {[deleted |-> deleted, archived |-> archived] : r \in threadRow}

\* The poll is over: its downloads go to the image queue.
PollDone ==
  /\ pc' = "idle"
  /\ info' = NoInfo
  /\ asked' = {}
  /\ wanted' = wanted \cup asked

\* ... and ThreadUpdateTask drops an archived thread before telling the backend.
UpdateThread ==
  /\ pc = "updateThread"
  /\ SetThreadRow(FALSE, info.snap.archived)
  /\ IF info.snap.archived
       THEN /\ tracked' = FALSE
            /\ hashes' = << >>
            /\ pc' = "untrackArchived"
            /\ UNCHANGED <<info, asked, wanted>>
       ELSE PollDone /\ UNCHANGED <<tracked, hashes>>
  /\ UNCHANGED <<siteVars, firstRun, queued, missed, torn, rows, mappings,
                 filed, boots>>

ThreadUntracked ==
  /\ pc \in {"untrackArchived", "untrackDeleted"}
  /\ SetThreadRow(pc = "untrackDeleted", pc = "untrackArchived")
  /\ PollDone
  /\ UNCHANGED <<siteVars, trackerVars, missed, torn, rows, mappings, filed,
                 boots>>

\* A key that exists, a row that does not, or the database.
StageFails ==
  \/ pc = "insertThread" /\ threadRow # {}
  \/ pc = "insertPosts" /\ Inserted \cap DOMAIN rows # {}
  \/ pc = "consolidate" /\ ~(Consolidated \subseteq DOMAIN rows)
  \/ pc # "idle" /\ DbMayFail

\* The exception ends the poll; the tracker keeps the new hashes.
ConsumeFails ==
  /\ StageFails
  /\ pc' = "idle"
  /\ info' = NoInfo
  /\ asked' = {}
  /\ missed' = TRUE
  /\ torn' = TRUE
  /\ UNCHANGED <<siteVars, trackerVars, backendVars, boots>>

\* ProcessFileDownload finds the mapping and files the download.
FileDownloaded(p) ==
  /\ p \in wanted \cap mappings
  /\ wanted' = wanted \ {p}
  /\ filed' = filed \cup {p}
  /\ UNCHANGED <<siteVars, processVars, threadRow, rows, mappings, torn,
                 boots>>

Crash ==
  /\ boots < MaxBoots
  /\ boots' = boots + 1
  /\ firstRun' = TRUE
  /\ queued' = FALSE
  /\ tracked' = FALSE
  /\ hashes' = << >>
  /\ pc' = "idle"
  /\ info' = NoInfo
  /\ asked' = {}
  /\ missed' = FALSE
  /\ torn' = (torn \/ (pc # "idle" /\ info.isNew /\ info.snap.archived))
  /\ UNCHANGED <<siteVars, backendVars>>

ConsumeStep ==
  \/ InsertThread \/ InsertPosts \/ ProcessImages \/ Consolidate
  \/ UpdateThread \/ ThreadUntracked

SiteStep ==
  \/ \E p \in Posts : AddPost(p) \/ EditPost(p) \/ MarkPost(p) \/ RemovePost(p)
  \/ \E how \in {"archived", "gone"} : ThreadEnds(how)

Next ==
  \/ SiteStep
  \/ ListThread \/ ListArchived \/ FirstCycleEnds
  \/ PollOk \/ PollNotFound \/ PollMalformed \/ PollFails
  \/ ConsumeStep
  \/ ConsumeFails
  \/ \E p \in Posts : FileDownloaded(p)
  \/ Crash

Spec == Init /\ [][Next]_vars

-----------------------------------------------------------------------------
(* Properties. *)

\* Between two polls the tracker and the backend agree: a post the tracker
\* remembers is stored with the text of its hash (or is flagged as deleted),
\* and a post it has forgotten is flagged.  A consume that failed in this
\* process is the exception the TODO in ThreadUpdateTask names; one that failed
\* in an earlier process can have stored posts without their thread, which
\* CheckExistingThreads never reports.
TrackerMatchesBackend ==
  pc = "idle" /\ tracked /\ ~missed =>
    /\ DOMAIN hashes \subseteq DOMAIN rows
    /\ Authoritative => \A p \in DOMAIN hashes :
         hashes[p] \in {rows[p].ver, UnlikeSite} \/ rows[p].deleted
    /\ Authoritative /\ ~torn =>
         \A p \in DOMAIN rows \ DOMAIN hashes : rows[p].deleted

\* No post is flagged as deleted that the site never removed or marked, through
\* crashes, failed consumes and re-tracking from the backend.
NoFalseDeletion == \A p \in DOMAIN rows : rows[p].deleted => p \in removed

\* Every download on its way has the mapping row that ProcessFileDownload
\* fetches with FirstAsync, which throws without one.
DownloadsAreMapped == wanted \subseteq mappings

\* Once a thread is flagged as archived nothing polls it again, so by then the
\* backend has every post of it, with its last text and a mapping for its file.
ArchivedIsComplete ==
  /\ pc = "idle" /\ ~torn
  /\ siteState = "archived" /\ \E r \in threadRow : r.archived
  => \A p \in DOMAIN site :
      /\ p \in DOMAIN rows
      /\ Authoritative => rows[p].ver = site[p].ver \/ site[p].marked
      /\ p \in WithMedia => p \in mappings

\* An archived text is never replaced by an earlier one and never vanishes.
NothingForgotten ==
  [][\A p \in DOMAIN rows :
       p \in DOMAIN rows' /\ rows'[p].ver >= rows[p].ver]_vars

\* IThreadConsumer.cs:104 of ThreadUpdateInfo.IsNewThread: "True if this thread
\* is the first time Hayden has encountered it (and it does not exist in the
\* backend), otherwise false."
NewThreadIsNotInBackend == pc = "insertThread" => threadRow = {}

\* The thread is flagged as archived, by a poll that has stored all of it: a
\* thread first seen archived is flagged before its posts are inserted.
Pending ==
  info.isNew /\ pc \in {"insertPosts", "images", "consolidate", "updateThread"}

FlaggedArchived == \E r \in threadRow : r.archived

Closed == FlaggedArchived /\ ~Pending

Record == INSTANCE ThreadRecord WITH
  shown  <- Polled, state <- siteState,
  stored <- rows,   mapped <- mappings,
  closed <- Closed, broken <- torn

\* Through every order of polls, commits, failed commits and crashes the backend
\* is a record of the thread: it stores what the site has shown, in the order of
\* its versions, and a thread flagged as archived without a failure is complete
\* and never written to again.
ImplementsRecord == Record!Spec

=============================================================================
