------------------------- MODULE ThreadArchiveProofs -------------------------
(***************************************************************************)
(* The safety of ThreadArchive, for every thread, every set of posts with  *)
(* a file and every order of polls, commits, failures and crashes.         *)
(***************************************************************************)
EXTENDS ThreadArchive, TrackedThreadProofs, TLAPS

\* The commits of ConsumeThread, and the untracking of an archived thread.
Consuming == {"insertThread", "insertPosts", "images", "consolidate",
              "updateThread", "untrackArchived"}

\* The posts of the poll being consumed.
Poll == info.snap.posts

\* Outside of a consume no poll is remembered.
Quiet ==
  /\ pc \in {"idle", "untrackDeleted"} => info = NoInfo /\ asked = {}
  /\ pc = "untrackDeleted" => ~tracked

-----------------------------------------------------------------------------
(* What is known of the site. *)

\* Whatever the archiver has of the thread was on the site.
Seen ==
  /\ OP \in DOMAIN site
  /\ \A p \in DOMAIN site : site[p].marked <=> p \in removed
  /\ \A p \in DOMAIN rows \cup DOMAIN hashes \cup DOMAIN Poll :
       p \in DOMAIN site \cup removed
  /\ \A p \in DOMAIN rows \cap DOMAIN site : rows[p].ver <= site[p].ver

\* A download on its way, or filed, or about to be asked for.
Mapped == wanted \cup asked \cup filed \subseteq mappings

-----------------------------------------------------------------------------
(* The poll that is being consumed. *)

Changes ==
  /\ OP \in DOMAIN Poll
  /\ info.new \cup info.updated \subseteq DOMAIN Poll
  /\ pc = "insertThread" => info.isNew
  /\ info.isNew => info.new = DOMAIN Poll
  /\ info.deleted \subseteq removed
  /\ info.snap.archived => siteState # "live" /\ Poll = site

\* Versions only grow: stored before polled before the site's own.
Grows ==
  /\ DOMAIN rows \cap DOMAIN site \subseteq DOMAIN Poll
  /\ \A p \in DOMAIN Poll \cap DOMAIN site : Poll[p].ver <= site[p].ver
  /\ \A p \in DOMAIN Poll \cap DOMAIN rows : rows[p].ver <= Poll[p].ver
  /\ \A p \in DOMAIN Poll : Poll[p].marked => p \in removed

Remembers ==
  /\ pc # "untrackArchived" =>
       tracked /\ hashes = [p \in DOMAIN Poll |-> Poll[p].ver]
  /\ pc = "untrackArchived" => info.snap.archived /\ ~tracked
  /\ pc \in {"consolidate", "updateThread", "untrackArchived"} =>
       DOMAIN Poll \cap WithMedia \subseteq mappings

Consumes == pc \in Consuming => Changes /\ Grows /\ Remembers

\* The stored post has the polled text, or is flagged.
Stored(p) == p \in DOMAIN rows /\ (rows[p].ver = Poll[p].ver \/ rows[p].deleted)

\* Before the new posts are inserted, before the changes are written, after.
Inserts ==
  pc \in {"insertThread", "insertPosts"} =>
    /\ ~info.isNew => DOMAIN Poll \ info.new \subseteq DOMAIN rows
    /\ \A p \in info.new \cap DOMAIN rows : info.isNew \/ rows[p].deleted
    /\ Authoritative =>
         \A p \in DOMAIN Poll \ (info.new \cup info.updated) : Stored(p)

Writes ==
  pc \in {"images", "consolidate"} =>
    /\ DOMAIN Poll \subseteq DOMAIN rows
    /\ Authoritative => \A p \in DOMAIN Poll \ info.updated : Stored(p)

Written ==
  pc \in {"updateThread", "untrackArchived"} =>
    /\ DOMAIN Poll \subseteq DOMAIN rows
    /\ Authoritative => \A p \in DOMAIN Poll : Stored(p)

\* A post the poll no longer has is flagged, or is about to be.
Flags ==
  Authoritative /\ pc \in Consuming \ {"untrackArchived"} =>
    \A p \in DOMAIN rows \ DOMAIN Poll :
      rows[p].deleted \/ (pc # "updateThread" /\ p \in info.deleted)

\* A post of the thread that the tracker has forgotten.
Forgotten ==
  pc = "idle" /\ tracked =>
    \A p \in (DOMAIN rows \cap DOMAIN site) \ DOMAIN hashes : rows[p].deleted

Progress ==
  /\ ~missed => Inserts /\ Writes /\ Written /\ Forgotten
  /\ ~torn => Flags

-----------------------------------------------------------------------------
(* The thread's own row. *)

Rooted ==
  /\ missed => torn
  /\ ~torn /\ DOMAIN rows # {} => threadRow # {}
  /\ ~torn /\ pc # "insertThread" /\ (tracked \/ pc \in Consuming)
       => threadRow # {}

Complete ==
  \A p \in DOMAIN site :
    /\ p \in DOMAIN rows
    /\ Authoritative => rows[p].ver = site[p].ver \/ site[p].marked
    /\ p \in WithMedia => p \in mappings

Archived ==
  /\ FlaggedArchived => siteState # "live"
  /\ FlaggedArchived /\ pc \in Consuming => info.snap.archived
  /\ ~torn /\ siteState = "archived" /\ FlaggedArchived /\ ~Pending => Complete

\* A thread that was closed without a failure is not consumed again: the archive's
\* listing names it only when the backend does not know its posts, and the insert
\* of its row then fails.
Final ==
  /\ pc # "idle" => ~queued
  /\ Closed /\ ~torn =>
       /\ pc \in {"idle", "insertThread", "untrackArchived", "untrackDeleted"}
       /\ pc # "insertThread" => ~tracked
       /\ queued /\ siteState # "gone" => ~BackendKnows

IInv ==
  /\ TypeOK
  /\ Quiet
  /\ Seen
  /\ NoFalseDeletion
  /\ Mapped
  /\ Consumes
  /\ Progress
  /\ TrackerMatchesBackend
  /\ Rooted
  /\ Archived

-----------------------------------------------------------------------------
(* Partial functions, which site, rows, hashes and a snapshot are. *)

\* A function whose arguments and values are typed is a partial function.
LEMMA PartialIntro ==
  ASSUME NEW A, NEW B, NEW f, f = [x \in DOMAIN f |-> f[x]],
         DOMAIN f \subseteq A, \A x \in DOMAIN f : f[x] \in B
  PROVE  f \in PartialFunctions(A, B)
<1>1. f \in [DOMAIN f -> B]
  OBVIOUS
<1>2. QED
  BY <1>1 DEF PartialFunctions

\* ... and the converse.
LEMMA PartialElim ==
  ASSUME NEW A, NEW B, NEW f \in PartialFunctions(A, B)
  PROVE  /\ f = [x \in DOMAIN f |-> f[x]]
         /\ DOMAIN f \subseteq A
         /\ \A x \in DOMAIN f : f[x] \in B
<1>1. PICK D \in SUBSET A : f \in [D -> B]
  BY DEF PartialFunctions
<1>2. QED
  BY <1>1

\* The empty function is a partial function.
LEMMA EmptyPartial ==
  ASSUME NEW A, NEW B
  PROVE  << >> \in PartialFunctions(A, B) /\ DOMAIN << >> = {}
<1>1. DOMAIN << >> = {} /\ << >> = [x \in DOMAIN << >> |-> << >>[x]]
  OBVIOUS
<1>2. QED
  BY <1>1, PartialIntro

-----------------------------------------------------------------------------
(* Types. *)

\* The values of a typed snapshot of the site, now or after a step.
LEMMA SitePostValues ==
  ASSUME NEW f \in PartialFunctions(Posts, SitePost)
  PROVE  /\ f = [p \in DOMAIN f |-> f[p]]
         /\ DOMAIN f \subseteq Posts
         /\ \A p \in DOMAIN f : /\ f[p] \in SitePost
                                /\ f[p].ver \in Versions /\ f[p].ver \in Nat
                                /\ f[p].marked \in BOOLEAN
<1>1. Versions \subseteq Nat
  BY ArchiveAssumption DEF Versions
<1>2. \A r \in SitePost : r.ver \in Versions /\ r.marked \in BOOLEAN
  BY DEF SitePost
<1>3. QED
  BY <1>1, <1>2, PartialElim

\* The values of a typed table of posts.
LEMMA RowValues ==
  ASSUME NEW f \in PartialFunctions(Posts, Row)
  PROVE  /\ f = [p \in DOMAIN f |-> f[p]]
         /\ DOMAIN f \subseteq Posts
         /\ \A p \in DOMAIN f : /\ f[p] \in Row
                                /\ f[p].ver \in Versions /\ f[p].ver \in Nat
                                /\ f[p].deleted \in BOOLEAN
<1>1. Versions \subseteq Nat
  BY ArchiveAssumption DEF Versions
<1>2. \A r \in Row : r.ver \in Versions /\ r.deleted \in BOOLEAN
  BY DEF Row
<1>3. QED
  BY <1>1, <1>2, PartialElim

\* What TypeOK says of each function and each of its values.
LEMMA Values ==
  ASSUME TypeOK
  PROVE  /\ site = [p \in DOMAIN site |-> site[p]]
         /\ DOMAIN site \subseteq Posts
         /\ \A p \in DOMAIN site :
              /\ site[p] \in SitePost
              /\ site[p].ver \in Nat /\ site[p].ver \in Versions
              /\ site[p].marked \in BOOLEAN
         /\ rows = [p \in DOMAIN rows |-> rows[p]]
         /\ DOMAIN rows \subseteq Posts
         /\ \A p \in DOMAIN rows :
              /\ rows[p] \in Row
              /\ rows[p].ver \in Nat /\ rows[p].ver \in Versions
              /\ rows[p].deleted \in BOOLEAN
         /\ Poll = [p \in DOMAIN Poll |-> Poll[p]]
         /\ DOMAIN Poll \subseteq Posts
         /\ \A p \in DOMAIN Poll :
              /\ Poll[p] \in SitePost
              /\ Poll[p].ver \in Nat /\ Poll[p].ver \in Versions
              /\ Poll[p].marked \in BOOLEAN
         /\ hashes = [p \in DOMAIN hashes |-> hashes[p]]
         /\ DOMAIN hashes \subseteq Posts
<1>1. /\ site \in PartialFunctions(Posts, SitePost)
      /\ rows \in PartialFunctions(Posts, Row)
      /\ Poll \in PartialFunctions(Posts, SitePost)
      /\ hashes \in PartialFunctions(Posts, Hashes)
  BY DEF TypeOK, Info, Snapshot, Poll
<1>2. hashes = [p \in DOMAIN hashes |-> hashes[p]] /\ DOMAIN hashes \subseteq Posts
  BY <1>1, PartialElim
<1>3. QED
  BY <1>1, <1>2, SitePostValues, RowValues

\* No poll is a typed poll.
LEMMA NoInfoTyped == NoInfo \in Info
<1>1. << >> \in PartialFunctions(Posts, SitePost)
  BY EmptyPartial
<1>2. [posts |-> << >>, archived |-> FALSE] \in Snapshot
  BY <1>1 DEF Snapshot
<1>3. QED
  BY <1>2 DEF NoInfo, Info

\* What is restored from the backend is a typed memory.
LEMMA BackendHashesTyped ==
  ASSUME TypeOK
  PROVE  /\ BackendHashes \in PartialFunctions(Posts, Hashes)
         /\ DOMAIN BackendHashes = LiveRows
         /\ LiveRows \subseteq Posts
<1>1. DOMAIN BackendHashes = LiveRows /\ LiveRows \subseteq Posts
  BY Values DEF BackendHashes, LiveRows
<1>2. \A p \in LiveRows : BackendHashes[p] \in Hashes
  BY Values DEF BackendHashes, LiveRows, Hashes
<1>3. BackendHashes = [p \in DOMAIN BackendHashes |-> BackendHashes[p]]
  BY DEF BackendHashes
<1>4. QED
  BY <1>1, <1>2, <1>3, PartialIntro

\* The initial state is well typed.
LEMMA InitTypes == Init => TypeOK
<1> SUFFICES ASSUME Init PROVE TypeOK
  OBVIOUS
<1>1. site \in PartialFunctions(Posts, SitePost)
  <2>1. /\ DOMAIN site = {OP} /\ site = [p \in DOMAIN site |-> site[p]]
        /\ site[OP] = [ver |-> 1, marked |-> FALSE]
    BY DEF Init
  <2>2. [ver |-> 1, marked |-> FALSE] \in SitePost
    BY ArchiveAssumption DEF SitePost, Versions
  <2>3. QED
    BY <2>1, <2>2, ArchiveAssumption, PartialIntro
<1>2. /\ hashes \in PartialFunctions(Posts, Hashes)
      /\ rows \in PartialFunctions(Posts, Row)
  BY EmptyPartial DEF Init
<1>3. boots \in 1..MaxBoots
  BY ArchiveAssumption DEF Init
<1>4. QED
  BY <1>1, <1>2, <1>3, NoInfoTyped DEF Init, TypeOK, Stages

\* Every step of the site keeps the types.
LEMMA SiteTypes ==
  ASSUME TypeOK, SiteStep
  PROVE  TypeOK'
<1> USE DEF processVars, trackerVars, backendVars
<1>1. ASSUME NEW p \in Posts, AddPost(p)
      PROVE  TypeOK'
  <2>1. [ver |-> 1, marked |-> FALSE] \in SitePost
    BY ArchiveAssumption DEF SitePost, Versions
  <2>2. /\ DOMAIN site' = DOMAIN site \cup {p}
        /\ site' = [q \in DOMAIN site' |-> site'[q]]
        /\ \A q \in DOMAIN site' : site'[q]
             = IF q = p THEN [ver |-> 1, marked |-> FALSE] ELSE site[q]
    BY <1>1 DEF AddPost
  <2>3. DOMAIN site' \subseteq Posts
        /\ \A q \in DOMAIN site' : site'[q] \in SitePost
    BY <2>1, <2>2, Values
  <2>4. site' \in PartialFunctions(Posts, SitePost)
    BY <2>2, <2>3, PartialIntro
  <2>5. QED
    BY <1>1, <2>4 DEF AddPost, TypeOK
<1>2. ASSUME NEW p \in Posts, EditPost(p)
      PROVE  TypeOK'
  <2>1. site[p].ver + 1 \in Versions
    BY <1>2, Values, ArchiveAssumption DEF EditPost, Versions
  <2>2. [site[p] EXCEPT !.ver = @ + 1] \in SitePost
    BY <1>2, <2>1, Values DEF EditPost, SitePost
  <2>3. DOMAIN site' = DOMAIN site
        /\ \A q \in DOMAIN site : site'[q]
             = IF q = p THEN [site[p] EXCEPT !.ver = @ + 1] ELSE site[q]
    BY <1>2 DEF EditPost
  <2>4. site' = [q \in DOMAIN site' |-> site'[q]]
    BY <1>2 DEF EditPost
  <2>5. site' \in PartialFunctions(Posts, SitePost)
    BY <2>2, <2>3, <2>4, Values, PartialIntro
  <2>6. QED
    BY <1>2, <2>5 DEF EditPost, TypeOK
<1>3. ASSUME NEW p \in Posts, MarkPost(p)
      PROVE  TypeOK'
  <2>1. [site[p] EXCEPT !.marked = TRUE] \in SitePost
    BY <1>3, Values DEF MarkPost, SitePost
  <2>2. DOMAIN site' = DOMAIN site
        /\ \A q \in DOMAIN site : site'[q]
             = IF q = p THEN [site[p] EXCEPT !.marked = TRUE] ELSE site[q]
    BY <1>3 DEF MarkPost
  <2>3. site' = [q \in DOMAIN site' |-> site'[q]]
    BY <1>3 DEF MarkPost
  <2>4. site' \in PartialFunctions(Posts, SitePost)
    BY <2>1, <2>2, <2>3, Values, PartialIntro
  <2>5. QED
    BY <1>3, <2>4 DEF MarkPost, TypeOK
<1>4. ASSUME NEW p \in Posts, RemovePost(p)
      PROVE  TypeOK'
  <2>1. /\ DOMAIN site' = DOMAIN site \ {p}
        /\ site' = [q \in DOMAIN site' |-> site'[q]]
        /\ \A q \in DOMAIN site' : site'[q] = site[q]
    BY <1>4 DEF RemovePost
  <2>2. DOMAIN site' \subseteq Posts
        /\ \A q \in DOMAIN site' : site'[q] \in SitePost
    BY <2>1, Values
  <2>3. site' \in PartialFunctions(Posts, SitePost)
    BY <2>1, <2>2, PartialIntro
  <2>4. QED
    BY <1>4, <2>3 DEF RemovePost, TypeOK
<1>5. ASSUME NEW how \in {"archived", "gone"}, ThreadEnds(how)
      PROVE  TypeOK'
  BY <1>5 DEF ThreadEnds, TypeOK
<1>6. QED
  BY <1>1, <1>2, <1>3, <1>4, <1>5 DEF SiteStep

\* The poll is compared with a typed memory, and remembered.
LEMMA PollIsRemembered ==
  ASSUME TypeOK
  PROVE  /\ Polled \in PartialFunctions(Posts, Hashes)
         /\ DOMAIN Polled = DOMAIN site
         /\ \A p \in DOMAIN site : Polled[p] = site[p].ver
         /\ NextHashes(Remembered, Polled) = Polled
         /\ Remembered = [p \in DOMAIN Remembered |-> Remembered[p]]
         /\ DOMAIN Remembered \subseteq Posts
<1>1. /\ DOMAIN Polled = DOMAIN site
      /\ Polled = [p \in DOMAIN Polled |-> Polled[p]]
      /\ \A p \in DOMAIN site : Polled[p] = site[p].ver
  BY DEF Polled
<1>2. \A p \in DOMAIN site : Polled[p] \in Hashes
  BY <1>1, Values DEF Hashes
<1>3. Polled \in PartialFunctions(Posts, Hashes)
  BY <1>1, <1>2, Values, PartialIntro
<1>4. NextHashes(Remembered, Polled) = Polled
  BY <1>1, RemembersThePoll
<1>5. Remembered \in PartialFunctions(Posts, Hashes)
  BY EmptyPartial, BackendHashesTyped DEF Remembered, TypeOK
<1>6. QED
  BY <1>1, <1>3, <1>4, <1>5, PartialElim

\* Setting the thread's row sets it where there is one.
LEMMA RowIsSet ==
  ASSUME NEW deleted \in BOOLEAN, NEW archived \in BOOLEAN, TypeOK,
         SetThreadRow(deleted, archived)
  PROVE  /\ threadRow' \in {{}} \cup {{r} : r \in ThreadRow}
         /\ threadRow' = {} <=> threadRow = {}
         /\ \A r \in threadRow' : r.archived = archived
<1>1. [deleted |-> deleted, archived |-> archived] \in ThreadRow
  BY DEF ThreadRow
<1>2. CASE threadRow = {}
  BY <1>2 DEF SetThreadRow
<1>3. CASE threadRow # {}
  <2>1. threadRow' = {[deleted |-> deleted, archived |-> archived]}
    BY <1>3 DEF SetThreadRow
  <2>2. QED
    BY <1>1, <1>3, <2>1
<1>4. QED
  BY <1>2, <1>3

\* Every step of the archiver keeps the types.
LEMMA ProcessTypes ==
  ASSUME TypeOK, Consumes, [Next]_vars, ~SiteStep
  PROVE  TypeOK'
<1> USE DEF siteVars, trackerVars, processVars, backendVars, ConsumeVars,
            Stages
<1>1. CASE ListThread
  BY <1>1 DEF ListThread, TypeOK
<1>2. CASE ListArchived
  BY <1>2, BackendHashesTyped DEF ListArchived, TypeOK
<1>3. CASE FirstCycleEnds
  BY <1>3 DEF FirstCycleEnds, TypeOK
<1>4. CASE PollOk
  <2>1. hashes' \in PartialFunctions(Posts, Hashes)
    BY <1>4, PollIsRemembered DEF PollOk
  <2>2. Snap \in Snapshot
    BY DEF Snap, Snapshot, TypeOK
  <2>3. /\ NewPosts(Remembered, Polled) \subseteq Posts
        /\ UpdatedPosts(Remembered, Polled) \subseteq Posts
        /\ DeletedPosts(Remembered, Polled) \subseteq Posts
    BY PollIsRemembered, Values DEF NewPosts, UpdatedPosts, DeletedPosts
  <2>4. (~tracked /\ ~Found) \in BOOLEAN
    OBVIOUS
  <2>5. [isNew   |-> ~tracked /\ ~Found,
         new     |-> NewPosts(Remembered, Polled),
         updated |-> UpdatedPosts(Remembered, Polled),
         deleted |-> DeletedPosts(Remembered, Polled),
         snap    |-> Snap] \in Info
    BY <2>2, <2>3, <2>4 DEF Info
  <2>6. info' \in Info
    BY <1>4, <2>5 DEF PollOk, TypeOK
  <2>7. pc' \in Stages
    BY <1>4 DEF PollOk, TypeOK
  <2>8. QED
    BY <1>4, <2>1, <2>6, <2>7 DEF PollOk, TypeOK
<1>5. CASE TakenForDeleted
  <2>1. hashes' \in PartialFunctions(Posts, Hashes)
    BY <1>5, EmptyPartial DEF TakenForDeleted
  <2>2. QED
    BY <1>5, <2>1 DEF TakenForDeleted, TypeOK
<1>6. CASE InsertThread
  <2>1. Poll[OP].marked \in BOOLEAN
    BY <1>6, Values DEF InsertThread, Consumes, Consuming, Changes
  <2>2. info.snap.archived \in BOOLEAN
    BY DEF TypeOK, Info, Snapshot
  <2>3. threadRow' \in {{}} \cup {{r} : r \in ThreadRow}
    BY <1>6, <2>1, <2>2 DEF InsertThread, ThreadRow, Poll
  <2>4. QED
    BY <1>6, <2>3 DEF InsertThread, TypeOK
<1>7. CASE InsertPosts
  <2>1. Inserted \subseteq DOMAIN Poll
    BY <1>7 DEF InsertPosts, Consumes, Consuming, Changes, Inserted
  <2>2. \A p \in Inserted :
          [ver |-> Poll[p].ver, deleted |-> Poll[p].marked] \in Row
    BY <2>1, Values DEF Row
  <2>3. /\ DOMAIN rows' = DOMAIN rows \cup Inserted
        /\ rows' = [p \in DOMAIN rows' |-> rows'[p]]
        /\ \A p \in DOMAIN rows' :
             rows'[p] = IF p \in Inserted
                        THEN [ver |-> Poll[p].ver, deleted |-> Poll[p].marked]
                        ELSE rows[p]
    BY <1>7 DEF InsertPosts, Poll
  <2>4. DOMAIN rows' \subseteq Posts /\ \A p \in DOMAIN rows' : rows'[p] \in Row
    BY <2>1, <2>2, <2>3, Values
  <2>5. rows' \in PartialFunctions(Posts, Row)
    BY <2>3, <2>4, PartialIntro
  <2>6. QED
    BY <1>7, <2>5 DEF InsertPosts, TypeOK
<1>8. CASE ProcessImages
  BY <1>8, Values DEF ProcessImages, TypeOK, Poll
<1>9. CASE Consolidate
  <2>1. \A p \in Consolidated \cap info.updated :
          [ver |-> Poll[p].ver, deleted |-> FALSE] \in Row
    BY <1>9, Values DEF Consolidate, Consumes, Consuming, Changes, Row
  <2>2. \A p \in DOMAIN rows : [rows[p] EXCEPT !.deleted = TRUE] \in Row
    BY Values DEF Row
  <2>3. /\ DOMAIN rows' = DOMAIN rows
        /\ rows' = [p \in DOMAIN rows' |-> rows'[p]]
        /\ \A p \in DOMAIN rows' :
             rows'[p] = IF p \in Consolidated \cap info.updated
                          THEN [ver |-> Poll[p].ver, deleted |-> FALSE]
                        ELSE IF p \in Consolidated
                          THEN [rows[p] EXCEPT !.deleted = TRUE]
                        ELSE rows[p]
    BY <1>9 DEF Consolidate, Poll
  <2>4. rows' \in PartialFunctions(Posts, Row)
    BY <2>1, <2>2, <2>3, Values, PartialIntro
  <2>5. QED
    BY <1>9, <2>4 DEF Consolidate, TypeOK
<1>10. CASE UpdateThread
  <2>1. info.snap.archived \in BOOLEAN
    BY DEF TypeOK, Info, Snapshot
  <2>2. threadRow' \in {{}} \cup {{r} : r \in ThreadRow}
    BY <1>10, <2>1, RowIsSet DEF UpdateThread
  <2>3. info' \in Info /\ hashes' \in PartialFunctions(Posts, Hashes)
    BY <1>10, NoInfoTyped, EmptyPartial DEF UpdateThread, PollDone, TypeOK
  <2>4. QED
    BY <1>10, <2>2, <2>3 DEF UpdateThread, PollDone, TypeOK
<1>11. CASE ThreadUntracked
  <2>1. threadRow' \in {{}} \cup {{r} : r \in ThreadRow}
    BY <1>11, RowIsSet DEF ThreadUntracked
  <2>2. QED
    BY <1>11, <2>1, NoInfoTyped DEF ThreadUntracked, PollDone, TypeOK
<1>12. CASE ConsumeFails
  BY <1>12, NoInfoTyped DEF ConsumeFails, TypeOK
<1>13. ASSUME NEW p \in Posts, FileDownloaded(p)
       PROVE  TypeOK'
  BY <1>13 DEF FileDownloaded, TypeOK
<1>14. CASE Crash
  <2>1. boots' \in 1..MaxBoots
    BY <1>14, ArchiveAssumption DEF Crash, TypeOK
  <2>2. QED
    BY <1>14, <2>1, NoInfoTyped, EmptyPartial DEF Crash, TypeOK
<1>15. CASE UNCHANGED vars
  BY <1>15 DEF vars, TypeOK
<1>16. CASE PollFails
  BY <1>16 DEF PollFails, TypeOK
<1>17. QED
  BY <1>1, <1>2, <1>3, <1>4, <1>5, <1>6, <1>7, <1>8, <1>9, <1>10, <1>11,
     <1>12, <1>13, <1>14, <1>15, <1>16
     DEF Next, ConsumeStep, PollNotFound, PollMalformed

-----------------------------------------------------------------------------
(* The site. *)

\* What a step of the site may do to its posts.
SiteGrows ==
  /\ OP \in DOMAIN site'
  /\ removed \subseteq removed'
  /\ DOMAIN site \subseteq DOMAIN site' \cup removed'
  /\ \A p \in DOMAIN site' \ DOMAIN site : p \notin removed
  /\ \A p \in DOMAIN site' : site'[p].marked <=> p \in removed'
  /\ \A p \in DOMAIN site \cap DOMAIN site' : site[p].ver <= site'[p].ver
  /\ siteState # "live" =>
       site' = site /\ removed' = removed /\ siteState' # "live"
  /\ siteState' = "archived" => siteState \in {"archived", "live"}
  /\ siteState' = siteState \/ site' = site

\* Every step of the site is of that kind.
LEMMA SiteOnlyGrows ==
  ASSUME TypeOK, Seen, SiteStep
  PROVE  /\ SiteGrows
         /\ UNCHANGED <<processVars, backendVars, torn, boots>>
<1> USE DEF Seen
<1>1. ASSUME NEW p \in Posts, AddPost(p)
      PROVE  SiteGrows
  BY <1>1, Values DEF AddPost, SiteGrows
<1>2. ASSUME NEW p \in Posts, EditPost(p)
      PROVE  SiteGrows
  <2>1. /\ DOMAIN site' = DOMAIN site
        /\ siteState = "live" /\ siteState' = siteState /\ removed' = removed
    BY <1>2 DEF EditPost
  <2>2. \A q \in DOMAIN site : /\ site'[q].marked = site[q].marked
                               /\ site[q].ver <= site'[q].ver
    BY <1>2, Values DEF EditPost, SitePost
  <2>3. QED
    BY <2>1, <2>2, Values DEF SiteGrows
<1>3. ASSUME NEW p \in Posts, MarkPost(p)
      PROVE  SiteGrows
  <2>1. /\ DOMAIN site' = DOMAIN site /\ p \in DOMAIN site
        /\ siteState = "live" /\ siteState' = siteState
        /\ removed' = removed \cup {p}
    BY <1>3 DEF MarkPost
  <2>2. \A q \in DOMAIN site :
          /\ q = p => site'[q].marked
          /\ q # p => site'[q] = site[q]
          /\ site'[q].ver = site[q].ver /\ site[q].ver \in Nat
    BY <1>3, Values DEF MarkPost, SitePost
  <2>3. \A q \in DOMAIN site : site'[q].marked <=> q \in removed'
    BY <2>1, <2>2
  <2>4. QED
    BY <2>1, <2>2, <2>3 DEF SiteGrows
<1>4. ASSUME NEW p \in Posts, RemovePost(p)
      PROVE  SiteGrows
  BY <1>4, Values DEF RemovePost, SiteGrows
<1>5. ASSUME NEW how \in {"archived", "gone"}, ThreadEnds(how)
      PROVE  SiteGrows
  BY <1>5, Values DEF ThreadEnds, SiteGrows
<1>6. SiteGrows
  BY <1>1, <1>2, <1>3, <1>4, <1>5 DEF SiteStep
<1>7. UNCHANGED <<processVars, backendVars, torn, boots>>
  BY DEF SiteStep, AddPost, EditPost, MarkPost, RemovePost, ThreadEnds
<1>8. QED
  BY <1>6, <1>7

\* The site's steps keep the invariant: what is stored or remembered is older.
LEMMA SiteKeeps ==
  ASSUME IInv, TypeOK', SiteStep
  PROVE  IInv'
<1>1. SiteGrows /\ UNCHANGED <<processVars, backendVars, torn, boots>>
  BY SiteOnlyGrows DEF IInv
<1>2. /\ Poll' = Poll /\ rows' = rows /\ hashes' = hashes /\ pc' = pc
      /\ info' = info /\ asked' = asked /\ missed' = missed
      /\ tracked' = tracked /\ threadRow' = threadRow /\ torn' = torn
      /\ mappings' = mappings /\ filed' = filed /\ wanted' = wanted
  BY <1>1 DEF processVars, trackerVars, backendVars, Poll
<1>3. TypeOK
  BY DEF IInv
<1>4. Quiet' /\ Mapped' /\ Rooted'
  BY <1>2 DEF IInv, Quiet, Mapped, Rooted
<1>5. Seen'
  <2>1. \A p \in DOMAIN site' \ DOMAIN site :
          p \notin DOMAIN rows \cup DOMAIN hashes \cup DOMAIN Poll
    BY <1>1 DEF SiteGrows, IInv, Seen
  <2>2. \A p \in DOMAIN rows \cup DOMAIN hashes \cup DOMAIN Poll :
          p \in DOMAIN site' \cup removed'
    BY <1>1 DEF SiteGrows, IInv, Seen
  <2>3. \A p \in DOMAIN rows \cap DOMAIN site' : rows[p].ver <= site'[p].ver
    <3>1. SUFFICES ASSUME NEW p \in DOMAIN rows \cap DOMAIN site'
                   PROVE  rows[p].ver <= site'[p].ver
      OBVIOUS
    <3>2. p \in DOMAIN site
      BY <2>1, <3>1
    <3>3. rows[p].ver <= site[p].ver /\ site[p].ver <= site'[p].ver
      BY <1>1, <3>1, <3>2 DEF SiteGrows, IInv, Seen
    <3>4. site' \in PartialFunctions(Posts, SitePost)
      BY DEF TypeOK
    <3>5. rows[p].ver \in Nat /\ site[p].ver \in Nat /\ site'[p].ver \in Nat
      BY <1>3, <3>1, <3>2, <3>4, Values, SitePostValues
    <3>6. QED
      BY <3>3, <3>5
  <2>4. QED
    BY <1>1, <1>2, <2>2, <2>3 DEF SiteGrows, Seen
<1>6. NoFalseDeletion'
  BY <1>1, <1>2 DEF SiteGrows, IInv, NoFalseDeletion
<1>7. Consumes'
  <2>1. SUFFICES ASSUME pc \in Consuming
                 PROVE  Changes' /\ Grows' /\ Remembers'
    BY <1>2 DEF Consumes
  <2>2. Changes /\ Grows /\ Remembers
    BY <2>1 DEF IInv, Consumes
  <2>3. Changes' /\ Remembers'
    BY <1>1, <1>2, <2>2 DEF SiteGrows, Changes, Remembers
  <2>4. DOMAIN rows \cap DOMAIN site' \subseteq DOMAIN Poll
    BY <1>1, <2>2 DEF SiteGrows, IInv, Seen, Grows
  <2>5. \A p \in DOMAIN Poll \cap DOMAIN site' : Poll[p].ver <= site'[p].ver
    <3>1. SUFFICES ASSUME NEW p \in DOMAIN Poll \cap DOMAIN site'
                   PROVE  Poll[p].ver <= site'[p].ver
      OBVIOUS
    <3>2. p \in DOMAIN site
      BY <1>1, <3>1 DEF SiteGrows, IInv, Seen
    <3>3. Poll[p].ver <= site[p].ver /\ site[p].ver <= site'[p].ver
      BY <1>1, <2>2, <3>1, <3>2 DEF SiteGrows, Grows
    <3>4. site' \in PartialFunctions(Posts, SitePost)
      BY DEF TypeOK
    <3>5. Poll[p].ver \in Nat /\ site[p].ver \in Nat /\ site'[p].ver \in Nat
      BY <1>3, <3>1, <3>2, <3>4, Values, SitePostValues
    <3>6. QED
      BY <3>3, <3>5
  <2>6. QED
    BY <1>1, <1>2, <2>2, <2>3, <2>4, <2>5 DEF SiteGrows, Grows
<1>8. Progress'
  <2>1. Inserts' <=> Inserts
    BY <1>2 DEF Inserts, Stored
  <2>2. (Writes' <=> Writes) /\ (Written' <=> Written)
    BY <1>2 DEF Writes, Written, Stored
  <2>3. Flags' <=> Flags
    BY <1>2 DEF Flags
  <2>4. Forgotten => Forgotten'
    BY <1>1, <1>2 DEF Forgotten, SiteGrows, IInv, Seen
  <2>5. QED
    BY <1>2, <2>1, <2>2, <2>3, <2>4 DEF IInv, Progress
<1>9. TrackerMatchesBackend'
  BY <1>2 DEF IInv, TrackerMatchesBackend
<1>10. Archived'
  <2>1. (FlaggedArchived' <=> FlaggedArchived) /\ (Pending' <=> Pending)
    BY <1>2 DEF FlaggedArchived, Pending
  <2>2. ASSUME FlaggedArchived
        PROVE  siteState # "live" /\ siteState' # "live" /\ site' = site
    BY <1>1, <2>2 DEF IInv, Archived, SiteGrows
  <2>3. ASSUME FlaggedArchived, Complete
        PROVE  Complete'
    BY <1>2, <2>2, <2>3 DEF Complete
  <2>4. QED
    BY <1>1, <1>2, <2>1, <2>2, <2>3 DEF IInv, Archived, SiteGrows
<1>11. QED
  BY <1>4, <1>5, <1>6, <1>7, <1>8, <1>9, <1>10 DEF IInv

-----------------------------------------------------------------------------
(* The steps around a poll. *)

\* Queueing the thread, ending the first cycle and filing a download change
\* nothing that is compared.
LEMMA SmallStepKeeps ==
  ASSUME IInv, TypeOK',
         \/ ListThread
         \/ FirstCycleEnds
         \/ PollFails
         \/ \E p \in Posts : FileDownloaded(p)
  PROVE  IInv'
<1>1. /\ UNCHANGED <<siteVars, tracked, hashes, pc, info, asked, missed,
                     threadRow, rows, mappings, torn>>
      /\ wanted' \cup filed' \subseteq wanted \cup filed
  BY DEF ListThread, FirstCycleEnds, PollFails, FileDownloaded, backendVars,
         processVars, trackerVars
<1>2. /\ Poll' = Poll /\ rows' = rows /\ hashes' = hashes /\ pc' = pc
      /\ info' = info /\ asked' = asked /\ missed' = missed
      /\ tracked' = tracked /\ threadRow' = threadRow /\ torn' = torn
      /\ mappings' = mappings /\ site' = site /\ siteState' = siteState
      /\ removed' = removed
  BY <1>1 DEF siteVars, Poll
<1>3. Quiet' /\ Rooted' /\ Seen' /\ NoFalseDeletion'
  BY <1>2 DEF IInv, Quiet, Rooted, Seen, NoFalseDeletion
<1>4. Mapped'
  BY <1>1, <1>2 DEF IInv, Mapped
<1>5. Consumes'
  BY <1>2 DEF IInv, Consumes, Changes, Grows, Remembers
<1>6. Progress'
  BY <1>2 DEF IInv, Progress, Inserts, Writes, Written, Flags, Forgotten, Stored
<1>7. TrackerMatchesBackend' /\ Archived'
  BY <1>2 DEF IInv, TrackerMatchesBackend, Archived, FlaggedArchived, Pending,
              Complete
<1>8. QED
  BY <1>3, <1>4, <1>5, <1>6, <1>7 DEF IInv

\* A step after which nothing is being consumed keeps what is about a consume.
LEMMA QuietKeeps ==
  ASSUME IInv, TypeOK', UNCHANGED siteVars, UNCHANGED rows,
         pc' \in {"idle", "untrackDeleted"}, info' = NoInfo, asked' = {},
         pc' = "untrackDeleted" => ~tracked',
         DOMAIN hashes' \subseteq DOMAIN site \cup removed,
         wanted' \cup filed' \subseteq mappings', mappings \subseteq mappings',
         ~missed' /\ pc' = "idle" /\ tracked'
           => TrackerMatchesBackend' /\ Forgotten',
         Rooted',
         FlaggedArchived' => /\ siteState # "live"
                             /\ ~torn' /\ siteState = "archived" => Complete
  PROVE  IInv'
<1>1. DOMAIN Poll' = {}
  BY EmptyPartial DEF Poll, NoInfo
<1>2. pc' \notin Consuming
  BY DEF Consuming
<1>3. site' = site /\ siteState' = siteState /\ removed' = removed
  BY DEF siteVars
<1>4. Quiet' /\ Mapped'
  BY DEF Quiet, Mapped
<1>5. Seen' /\ NoFalseDeletion'
  BY <1>1, <1>3 DEF IInv, Seen, NoFalseDeletion
<1>6. Consumes'
  BY <1>2 DEF Consumes
<1>7. ~missed' => Forgotten' /\ TrackerMatchesBackend'
  BY DEF Forgotten, TrackerMatchesBackend
<1>8. TrackerMatchesBackend'
  BY <1>7 DEF TrackerMatchesBackend
<1>9. Progress'
  BY <1>2, <1>7 DEF Progress, Inserts, Writes, Written, Flags, Consuming
<1>10. Complete => Complete'
  BY <1>3 DEF Complete
<1>11. Archived'
  BY <1>2, <1>3, <1>10 DEF Archived
<1>12. QED
  BY <1>4, <1>5, <1>6, <1>8, <1>9, <1>11 DEF IInv

\* The rows of the archive's completeness, when nothing of it is pending.
LEMMA QuietlyArchived ==
  ASSUME IInv, pc \in {"idle", "untrackDeleted"}
  PROVE  FlaggedArchived => /\ siteState # "live"
                            /\ ~torn /\ siteState = "archived" => Complete
BY DEF IInv, Archived, Pending

\* Every row of a thread restored from the backend is live there, and the
\* others are flagged.
LEMMA ListArchivedKeeps ==
  ASSUME IInv, TypeOK', ListArchived
  PROVE  IInv'
<1> USE DEF siteVars, backendVars
<1>1. /\ pc = "idle" /\ pc' = "idle" /\ info' = info /\ asked' = asked
      /\ info = NoInfo /\ asked = {} /\ missed' = missed
      /\ UNCHANGED <<siteVars, backendVars, torn>>
  BY DEF ListArchived, IInv, Quiet
<1>2. TypeOK
  BY DEF IInv
<1>3. DOMAIN hashes' \subseteq DOMAIN site \cup removed
  BY <1>1, <1>2, BackendHashesTyped DEF ListArchived, IInv, Seen, LiveRows
<1>4. CASE BackendKnows
  <2>1. tracked' /\ hashes' = BackendHashes /\ threadRow # {}
    BY <1>4 DEF ListArchived, BackendKnows
  <2>2. DOMAIN hashes' = {p \in DOMAIN rows : ~rows[p].deleted}
    BY <1>2, <2>1, BackendHashesTyped DEF LiveRows
  <2>3. \A p \in DOMAIN hashes' : hashes'[p] \in {rows[p].ver, UnlikeSite}
    BY <2>1 DEF BackendHashes
  <2>4. TrackerMatchesBackend' /\ Forgotten'
    BY <1>1, <2>2, <2>3 DEF TrackerMatchesBackend, Forgotten
  <2>5. Rooted'
    BY <1>1, <2>1 DEF IInv, Rooted
  <2>6. Mapped /\ FlaggedArchived' = FlaggedArchived
    BY <1>1 DEF IInv, FlaggedArchived
  <2>7. QED
    BY <1>1, <1>3, <2>4, <2>5, <2>6, QuietKeeps, QuietlyArchived DEF Mapped
<1>5. CASE ~BackendKnows
  <2>1. tracked' = tracked /\ hashes' = hashes
    BY <1>5 DEF ListArchived
  <2>2. ~missed => TrackerMatchesBackend' /\ Forgotten'
    BY <1>1, <2>1 DEF IInv, Progress, TrackerMatchesBackend, Forgotten
  <2>3. Rooted'
    BY <1>1, <2>1 DEF IInv, Rooted
  <2>4. Mapped /\ FlaggedArchived' = FlaggedArchived
    BY <1>1 DEF IInv, FlaggedArchived
  <2>5. QED
    BY <1>1, <1>3, <2>2, <2>3, <2>4, QuietKeeps, QuietlyArchived DEF Mapped
<1>6. QED
  BY <1>4, <1>5

\* A thread that is taken for deleted is forgotten by the tracker.
LEMMA TakenForDeletedKeeps ==
  ASSUME IInv, TypeOK', TakenForDeleted
  PROVE  IInv'
<1> USE DEF siteVars, backendVars
<1>1. /\ pc = "idle" /\ pc' = "untrackDeleted" /\ info' = info
      /\ asked' = asked /\ info = NoInfo /\ asked = {} /\ missed' = missed
      /\ UNCHANGED <<siteVars, backendVars, torn>>
      /\ ~tracked' /\ hashes' = << >>
  BY DEF TakenForDeleted, IInv, Quiet
<1>2. DOMAIN hashes' = {}
  BY <1>1, EmptyPartial
<1>3. Rooted'
  BY <1>1 DEF IInv, Rooted, Consuming
<1>4. Mapped /\ FlaggedArchived' = FlaggedArchived
  BY <1>1 DEF IInv, FlaggedArchived
<1>5. QED
  BY <1>1, <1>2, <1>3, <1>4, QuietKeeps, QuietlyArchived DEF Mapped

\* A failed consume is remembered as missed and torn; the rows stay.
LEMMA ConsumeFailsKeeps ==
  ASSUME IInv, TypeOK', ConsumeFails
  PROVE  IInv'
<1> USE DEF siteVars, backendVars, trackerVars
<1>1. /\ pc' = "idle" /\ info' = NoInfo /\ asked' = {} /\ missed' /\ torn'
      /\ hashes' = hashes
      /\ UNCHANGED <<siteVars, backendVars>>
  BY DEF ConsumeFails
<1>2. Rooted'
  BY <1>1 DEF Rooted
<1>3. Mapped /\ DOMAIN hashes \subseteq DOMAIN site \cup removed
  BY DEF IInv, Seen
<1>4. FlaggedArchived' => siteState # "live"
  BY <1>1 DEF IInv, Archived, FlaggedArchived
<1>5. QED
  BY <1>1, <1>2, <1>3, <1>4, QuietKeeps DEF Mapped

\* A new process starts from the backend: only a thread first seen archived,
\* whose row is flagged before its posts are in, is torn by a crash.
LEMMA CrashKeeps ==
  ASSUME IInv, TypeOK', Crash
  PROVE  IInv'
<1> USE DEF siteVars, backendVars
<1>1. /\ pc' = "idle" /\ info' = NoInfo /\ asked' = {} /\ ~missed'
      /\ torn' = (torn \/ (pc # "idle" /\ info.isNew /\ info.snap.archived))
      /\ ~tracked' /\ hashes' = << >>
      /\ UNCHANGED <<siteVars, backendVars>>
  BY DEF Crash
<1>2. DOMAIN hashes' = {}
  BY <1>1, EmptyPartial
<1>3. Rooted'
  <2>1. torn => torn'
    BY <1>1
  <2>2. QED
    BY <1>1, <2>1 DEF IInv, Rooted, Consuming
<1>4. Mapped
  BY DEF IInv
<1>5. ASSUME FlaggedArchived
      PROVE  /\ siteState # "live"
             /\ ~torn' /\ siteState = "archived" => Complete
  <2>1. Pending => pc # "idle" /\ info.isNew /\ pc \in Consuming
    BY DEF Pending, Consuming
  <2>2. Pending => torn'
    BY <1>1, <1>5, <2>1 DEF IInv, Archived
  <2>3. QED
    BY <1>1, <1>5, <2>2 DEF IInv, Archived
<1>6. FlaggedArchived' = FlaggedArchived
  BY <1>1 DEF FlaggedArchived
<1>7. QED
  BY <1>1, <1>2, <1>3, <1>4, <1>5, <1>6, QuietKeeps DEF Mapped

-----------------------------------------------------------------------------
(* A poll. *)

\* The memory a poll is compared with describes what the backend has stored.
RemembersBackend ==
  /\ DOMAIN Remembered \subseteq DOMAIN rows
  /\ Authoritative => \A p \in DOMAIN Remembered :
       Remembered[p] \in {rows[p].ver, UnlikeSite} \/ rows[p].deleted
  /\ \A p \in (DOMAIN rows \cap DOMAIN site) \ DOMAIN Remembered :
       rows[p].deleted

\* ... when the thread is known and no consume of this process failed.
LEMMA MemoryOfBackend ==
  ASSUME IInv, pc = "idle", Found \/ (tracked /\ ~missed)
  PROVE  RemembersBackend
<1>1. CASE Found
  <2>1. Remembered = BackendHashes
    BY <1>1 DEF Found, Remembered
  <2>2. DOMAIN Remembered = {p \in DOMAIN rows : ~rows[p].deleted}
    BY <2>1 DEF BackendHashes, LiveRows
  <2>3. \A p \in DOMAIN Remembered : Remembered[p] \in {rows[p].ver, UnlikeSite}
    BY <2>1 DEF BackendHashes
  <2>4. QED
    BY <2>2, <2>3 DEF RemembersBackend
<1>2. CASE tracked /\ ~missed
  <2>1. Remembered = hashes
    BY <1>2 DEF Remembered
  <2>2. QED
    BY <1>2, <2>1 DEF IInv, TrackerMatchesBackend, Progress, Forgotten,
                      RemembersBackend
<1>3. QED
  BY <1>1, <1>2

\* Whatever the memory: it has only posts that were on the site, and a live row
\* that it lacks betrays a torn backend.
LEMMA AnyMemory ==
  ASSUME IInv, pc = "idle"
  PROVE  /\ DOMAIN Remembered \subseteq DOMAIN site \cup removed
         /\ Authoritative /\ ~torn =>
              \A p \in DOMAIN rows \ DOMAIN Remembered : rows[p].deleted
         /\ ~tracked /\ ~Found => DOMAIN Remembered = {}
<1>1. CASE tracked
  <2>1. Remembered = hashes
    BY <1>1 DEF Remembered
  <2>2. torn \/ ~missed
    BY DEF IInv, Rooted
  <2>3. QED
    BY <1>1, <2>1, <2>2 DEF IInv, Seen, TrackerMatchesBackend
<1>2. CASE Found
  <2>1. Remembered = BackendHashes
    BY <1>2 DEF Found, Remembered
  <2>2. DOMAIN Remembered = LiveRows
    BY <2>1 DEF BackendHashes
  <2>3. QED
    BY <1>2, <2>2 DEF IInv, Seen, LiveRows
<1>3. CASE ~tracked /\ ~Found
  <2>1. Remembered = << >>
    BY <1>3 DEF Remembered
  <2>2. DOMAIN Remembered = {}
    BY <2>1, EmptyPartial
  <2>3. threadRow = {} \/ LiveRows = {}
    BY <1>3 DEF Found, BackendKnows
  <2>4. ~torn => LiveRows = {}
    BY <2>3 DEF IInv, Rooted, LiveRows
  <2>5. QED
    BY <2>2, <2>4 DEF LiveRows
<1>4. QED
  BY <1>1, <1>2, <1>3

\* A poll without changes only makes the tracker remember it.
LEMMA UnchangedPollKeeps ==
  ASSUME IInv, TypeOK', PollOk, ~HasChanges(Remembered, Polled),
         siteState # "archived"
  PROVE  IInv'
<1> USE DEF siteVars, backendVars
<1>1. /\ pc = "idle" /\ pc' = "idle" /\ info' = info /\ asked' = asked
      /\ info = NoInfo /\ asked = {} /\ missed' = missed
      /\ UNCHANGED <<siteVars, backendVars, torn>>
      /\ tracked' /\ hashes' = NextHashes(Remembered, Polled)
  BY DEF PollOk, IInv, Quiet
<1>2. TypeOK
  BY DEF IInv
<1>3. hashes' = Polled
  BY <1>1, <1>2, PollIsRemembered
<1>4. Remembered = Polled
  <2>1. Polled = [p \in DOMAIN Polled |-> Polled[p]]
    BY DEF Polled
  <2>2. Remembered = [p \in DOMAIN Remembered |-> Remembered[p]]
    BY <1>2, PollIsRemembered
  <2>3. QED
    BY <2>1, <2>2, ChangesAreNoticed
<1>5. DOMAIN hashes' = DOMAIN site /\ OP \in DOMAIN site
  BY <1>2, <1>3, PollIsRemembered DEF IInv, Seen
<1>6. tracked \/ Found
  BY <1>1, <1>3, <1>4, <1>5, AnyMemory
<1>7. ~missed => RemembersBackend
  BY <1>1, <1>6, MemoryOfBackend
<1>8. ~missed' => TrackerMatchesBackend' /\ Forgotten'
  <2>1. SUFFICES ASSUME ~missed PROVE TrackerMatchesBackend' /\ Forgotten'
    BY <1>1
  <2>2. hashes' = Remembered
    BY <1>3, <1>4
  <2>3. RemembersBackend
    BY <1>7, <2>1
  <2>4. QED
    BY <1>1, <2>2, <2>3, AnyMemory
       DEF RemembersBackend, TrackerMatchesBackend, Forgotten
<1>9. Rooted'
  BY <1>1, <1>6 DEF IInv, Rooted, Found, BackendKnows
<1>10. Mapped /\ FlaggedArchived' = FlaggedArchived
  BY <1>1 DEF IInv, FlaggedArchived
<1>11. QED
  BY <1>1, <1>5, <1>8, <1>9, <1>10, QuietKeeps, QuietlyArchived DEF Mapped

\* A poll with changes, or of an archived thread, starts a consume with the
\* lists of what changed.
LEMMA ChangedPollKeeps ==
  ASSUME IInv, TypeOK', PollOk,
         HasChanges(Remembered, Polled) \/ siteState = "archived"
  PROVE  IInv'
<1>1. /\ pc = "idle" /\ asked' = asked /\ missed' = missed
      /\ info'.isNew = (~tracked /\ ~Found)
      /\ info'.new = NewPosts(Remembered, Polled)
      /\ info'.updated = UpdatedPosts(Remembered, Polled)
      /\ info'.deleted = DeletedPosts(Remembered, Polled)
      /\ info'.snap = Snap
      /\ siteState # "gone"
      /\ site' = site /\ siteState' = siteState /\ removed' = removed
      /\ threadRow' = threadRow /\ rows' = rows /\ mappings' = mappings
      /\ filed' = filed /\ wanted' = wanted /\ torn' = torn
      /\ tracked' /\ hashes' = NextHashes(Remembered, Polled)
      /\ pc' = IF tracked \/ Found THEN "insertPosts" ELSE "insertThread"
  BY DEF PollOk, siteVars, backendVars
<1>2. TypeOK
  BY DEF IInv
<1>3. /\ hashes' = Polled /\ DOMAIN Polled = DOMAIN site
      /\ \A p \in DOMAIN site : Polled[p] = site[p].ver /\ Polled[p] \in Nat \ {0}
      /\ Polled = [p \in DOMAIN site |-> site[p].ver]
  <2>1. \A p \in DOMAIN site : site[p].ver \in Nat \ {0}
    BY <1>2, Values DEF Versions
  <2>2. QED
    BY <1>1, <1>2, <2>1, PollIsRemembered DEF Polled
<1>4. Poll' = site /\ info'.snap.archived = (siteState = "archived")
  BY <1>1 DEF Poll, Snap
<1>5. info'.isNew => DOMAIN Remembered = {}
  BY <1>1, AnyMemory
<1>6. /\ info'.new = DOMAIN site \ DOMAIN Remembered
      /\ info'.updated
           = {p \in DOMAIN site \cap DOMAIN Remembered : Polled[p] # Remembered[p]}
      /\ info'.deleted = DOMAIN Remembered \ DOMAIN site
  BY <1>1, <1>3 DEF NewPosts, UpdatedPosts, DeletedPosts
<1>7. Quiet' /\ Mapped'
  BY <1>1 DEF IInv, Quiet, Mapped
<1>8. Seen' /\ NoFalseDeletion'
  BY <1>1, <1>3, <1>4 DEF IInv, Seen, NoFalseDeletion
<1>9. Consumes'
  <2>1. Changes'
    BY <1>1, <1>4, <1>5, <1>6, AnyMemory DEF IInv, Seen, Changes
  <2>2. Grows'
    BY <1>1, <1>2, <1>4, Values DEF IInv, Seen, Grows
  <2>3. Remembers'
    BY <1>1, <1>3, <1>4 DEF Remembers
  <2>4. QED
    BY <2>1, <2>2, <2>3 DEF Consumes
<1>10. ~missed => Inserts'
  <2>1. SUFFICES ASSUME ~missed PROVE Inserts'
    OBVIOUS
  <2>2. CASE info'.isNew
    BY <1>4, <1>5, <1>6, <2>2 DEF Inserts
  <2>3. CASE ~info'.isNew
    <3>1. RemembersBackend
      BY <1>1, <2>1, <2>3, MemoryOfBackend
    <3>2. DOMAIN site \ info'.new \subseteq DOMAIN rows
      BY <1>6, <3>1 DEF RemembersBackend
    <3>3. \A p \in info'.new \cap DOMAIN rows : rows[p].deleted
      BY <1>6, <3>1 DEF RemembersBackend
    <3>4. ASSUME Authoritative,
                 NEW p \in DOMAIN site \ (info'.new \cup info'.updated)
          PROVE  p \in DOMAIN rows
                 /\ (rows[p].ver = site[p].ver \/ rows[p].deleted)
      <4>1. p \in DOMAIN Remembered /\ Remembered[p] = site[p].ver
            /\ site[p].ver # UnlikeSite
        BY <1>3, <1>6, <3>4 DEF UnlikeSite
      <4>2. QED
        BY <3>1, <3>4, <4>1 DEF RemembersBackend
    <3>5. QED
      BY <1>1, <1>4, <3>2, <3>3, <3>4 DEF Inserts, Stored
  <2>4. QED
    BY <2>2, <2>3
<1>11. ~torn => Flags'
  BY <1>1, <1>4, <1>6, AnyMemory DEF Flags
<1>12. Progress'
  BY <1>1, <1>10, <1>11 DEF Progress, Writes, Written, Forgotten
<1>13. TrackerMatchesBackend'
  BY <1>1 DEF TrackerMatchesBackend
<1>14. Rooted'
  BY <1>1 DEF IInv, Rooted, Found, BackendKnows
<1>15. Archived'
  <2>1. FlaggedArchived' = FlaggedArchived /\ (Complete => Complete')
    BY <1>1 DEF FlaggedArchived, Complete
  <2>2. ~Pending
    BY <1>1 DEF Pending
  <2>3. FlaggedArchived => siteState = "archived"
    BY <1>1, <1>2 DEF IInv, Archived, TypeOK
  <2>4. QED
    BY <1>1, <1>4, <2>1, <2>2, <2>3 DEF IInv, Archived
<1>16. QED
  BY <1>7, <1>8, <1>9, <1>12, <1>13, <1>14, <1>15 DEF IInv

-----------------------------------------------------------------------------
(* The commits of a consume. *)

\* The thread's row is inserted for a new thread only, so that a row flagged as
\* archived before its posts are in is pending.
LEMMA InsertThreadKeeps ==
  ASSUME IInv, TypeOK', InsertThread
  PROVE  IInv'
<1>1. /\ pc = "insertThread" /\ pc' = "insertPosts"
      /\ site' = site /\ siteState' = siteState /\ removed' = removed
      /\ tracked' = tracked /\ hashes' = hashes /\ info' = info /\ Poll' = Poll
      /\ asked' = asked /\ missed' = missed /\ torn' = torn /\ rows' = rows
      /\ mappings' = mappings /\ filed' = filed /\ wanted' = wanted
      /\ threadRow' # {}
      /\ \A r \in threadRow' : r.archived = info.snap.archived
  BY DEF InsertThread, siteVars, trackerVars, ConsumeVars, Poll
<1>2. Changes /\ Grows /\ Remembers
  BY <1>1 DEF IInv, Consumes, Consuming
<1>3. Quiet' /\ Mapped' /\ Seen' /\ NoFalseDeletion'
  BY <1>1 DEF IInv, Quiet, Mapped, Seen, NoFalseDeletion
<1>4. Consumes'
  BY <1>1, <1>2 DEF Consumes, Changes, Grows, Remembers
<1>5. Progress'
  BY <1>1 DEF IInv, Progress, Inserts, Writes, Written, Flags, Forgotten,
              Stored, Consuming
<1>6. TrackerMatchesBackend'
  BY <1>1 DEF TrackerMatchesBackend
<1>7. Rooted'
  BY <1>1 DEF IInv, Rooted
<1>8. Archived'
  <2>1. FlaggedArchived' => info.snap.archived
    BY <1>1 DEF FlaggedArchived
  <2>2. Pending'
    BY <1>1, <1>2 DEF Pending, Changes
  <2>3. QED
    BY <1>1, <1>2, <2>1, <2>2 DEF Archived, Changes
<1>9. QED
  BY <1>3, <1>4, <1>5, <1>6, <1>7, <1>8 DEF IInv

\* Once the new posts are in, the backend has the whole poll.
LEMMA InsertPostsKeeps ==
  ASSUME IInv, TypeOK', InsertPosts
  PROVE  IInv'
<1>1. /\ pc = "insertPosts" /\ pc' = "images"
      /\ site' = site /\ siteState' = siteState /\ removed' = removed
      /\ tracked' = tracked /\ hashes' = hashes /\ info' = info /\ Poll' = Poll
      /\ asked' = asked /\ missed' = missed /\ torn' = torn
      /\ threadRow' = threadRow
      /\ mappings' = mappings /\ filed' = filed /\ wanted' = wanted
      /\ Inserted \cap DOMAIN rows = {}
      /\ DOMAIN rows' = DOMAIN rows \cup Inserted
  BY DEF InsertPosts, siteVars, trackerVars, ConsumeVars, Poll
<1>2. /\ \A p \in Inserted : rows'[p].ver = Poll[p].ver
                             /\ rows'[p].deleted = Poll[p].marked
      /\ \A p \in DOMAIN rows : rows'[p] = rows[p]
  BY <1>1 DEF InsertPosts, Poll
<1>3. Changes /\ Grows /\ Remembers
  BY <1>1 DEF IInv, Consumes, Consuming
<1>4. TypeOK
  BY DEF IInv
<1>5. Inserted \subseteq info.new /\ info.new \subseteq DOMAIN Poll
  BY <1>3 DEF Inserted, Changes
<1>6. Quiet' /\ Mapped'
  BY <1>1 DEF IInv, Quiet, Mapped
<1>7. Seen'
  <2>1. \A p \in DOMAIN rows' : p \in DOMAIN site \cup removed
    BY <1>1, <1>5 DEF IInv, Seen
  <2>2. \A p \in DOMAIN rows' \cap DOMAIN site : rows'[p].ver <= site[p].ver
    BY <1>1, <1>2, <1>3, <1>5 DEF IInv, Seen, Grows
  <2>3. QED
    BY <1>1, <2>1, <2>2 DEF IInv, Seen
<1>8. NoFalseDeletion'
  BY <1>1, <1>2, <1>3, <1>5 DEF IInv, NoFalseDeletion, Grows
<1>9. Consumes'
  <2>1. \A p \in DOMAIN Poll \cap DOMAIN rows' : rows'[p].ver <= Poll[p].ver
    <3>1. \A p \in DOMAIN Poll : Poll[p].ver \in Nat
      BY <1>4, Values
    <3>2. QED
      BY <1>1, <1>2, <1>3, <1>5, <3>1 DEF Grows
  <2>2. Grows'
    BY <1>1, <1>3, <1>5, <2>1 DEF Grows
  <2>3. QED
    BY <1>1, <1>3, <2>2 DEF Consumes, Changes, Remembers
<1>10. ~missed => Writes'
  <2>1. SUFFICES ASSUME ~missed
                 PROVE  /\ DOMAIN Poll \subseteq DOMAIN rows'
                        /\ Authoritative =>
                             \A p \in DOMAIN Poll \ info.updated : Stored(p)'
    BY <1>1 DEF Writes, Stored
  <2>2. Inserts
    BY <2>1 DEF IInv, Progress
  <2>3. ASSUME NEW p \in DOMAIN Poll, p \in info.new, p \notin Inserted
        PROVE  p \in DOMAIN rows /\ rows[p].deleted
    BY <1>1, <2>2, <2>3 DEF Inserted, Inserts, Poll
  <2>4. ASSUME NEW p \in DOMAIN Poll, p \notin info.new
        PROVE  /\ p \in DOMAIN rows
               /\ Authoritative /\ p \notin info.updated => Stored(p)
    BY <1>1, <1>3, <2>2, <2>4 DEF Inserts, Changes
  <2>5. QED
    BY <1>1, <1>2, <1>5, <2>3, <2>4 DEF Stored
<1>11. ~torn => Flags'
  BY <1>1, <1>2, <1>5 DEF IInv, Progress, Flags, Consuming
<1>12. Progress'
  BY <1>1, <1>10, <1>11 DEF Progress, Inserts, Written, Forgotten
<1>13. TrackerMatchesBackend'
  BY <1>1 DEF TrackerMatchesBackend
<1>14. Rooted'
  BY <1>1 DEF IInv, Rooted, Consuming
<1>15. Archived'
  <2>1. FlaggedArchived' = FlaggedArchived /\ (Pending' <=> Pending)
    BY <1>1 DEF FlaggedArchived, Pending
  <2>2. Complete => Complete'
    BY <1>1, <1>2 DEF Complete
  <2>3. pc \in Consuming
    BY <1>1 DEF Consuming
  <2>4. QED
    BY <1>1, <2>1, <2>2, <2>3 DEF IInv, Archived
<1>16. QED
  BY <1>6, <1>7, <1>8, <1>9, <1>12, <1>13, <1>14, <1>15 DEF IInv

\* Every file of the poll is mapped before it is asked for.
LEMMA ProcessImagesKeeps ==
  ASSUME IInv, TypeOK', ProcessImages
  PROVE  IInv'
<1>1. /\ pc = "images" /\ pc' = "consolidate"
      /\ site' = site /\ siteState' = siteState /\ removed' = removed
      /\ tracked' = tracked /\ hashes' = hashes /\ info' = info /\ Poll' = Poll
      /\ missed' = missed /\ torn' = torn /\ threadRow' = threadRow
      /\ rows' = rows /\ filed' = filed /\ wanted' = wanted
      /\ asked' = (DOMAIN Poll \cap WithMedia) \ filed
      /\ mappings' = mappings \cup asked'
  BY DEF ProcessImages, siteVars, trackerVars, Poll
<1>2. Changes /\ Grows /\ Remembers
  BY <1>1 DEF IInv, Consumes, Consuming
<1>3. Quiet' /\ Seen' /\ NoFalseDeletion'
  BY <1>1 DEF IInv, Quiet, Seen, NoFalseDeletion
<1>4. Mapped' /\ DOMAIN Poll \cap WithMedia \subseteq mappings'
  BY <1>1 DEF IInv, Mapped
<1>5. Consumes'
  BY <1>1, <1>2, <1>4 DEF Consumes, Changes, Grows, Remembers
<1>6. Progress'
  BY <1>1 DEF IInv, Progress, Inserts, Writes, Written, Flags, Forgotten,
              Stored, Consuming
<1>7. TrackerMatchesBackend'
  BY <1>1 DEF TrackerMatchesBackend
<1>8. Rooted'
  BY <1>1 DEF IInv, Rooted, Consuming
<1>9. Archived'
  <2>1. FlaggedArchived' = FlaggedArchived /\ (Pending' <=> Pending)
    BY <1>1 DEF FlaggedArchived, Pending
  <2>2. Complete => Complete'
    BY <1>1 DEF Complete
  <2>3. pc \in Consuming
    BY <1>1 DEF Consuming
  <2>4. QED
    BY <1>1, <2>1, <2>2, <2>3 DEF IInv, Archived
<1>10. QED
  BY <1>3, <1>4, <1>5, <1>6, <1>7, <1>8, <1>9 DEF IInv

\* Once the changes are written, every polled post has the polled text, or is
\* flagged, and so is every post the poll no longer had.
LEMMA ConsolidateKeeps ==
  ASSUME IInv, TypeOK', Consolidate
  PROVE  IInv'
<1>1. /\ pc = "consolidate" /\ pc' = "updateThread"
      /\ site' = site /\ siteState' = siteState /\ removed' = removed
      /\ tracked' = tracked /\ hashes' = hashes /\ info' = info /\ Poll' = Poll
      /\ asked' = asked /\ missed' = missed /\ torn' = torn
      /\ threadRow' = threadRow
      /\ mappings' = mappings /\ filed' = filed /\ wanted' = wanted
      /\ DOMAIN rows' = DOMAIN rows
  BY DEF Consolidate, siteVars, trackerVars, ConsumeVars, Poll
<1>2. TypeOK
  BY DEF IInv
<1>3. /\ \A p \in DOMAIN rows : p \in Consolidated \cap info.updated =>
           rows'[p].ver = Poll[p].ver /\ ~rows'[p].deleted
      /\ \A p \in DOMAIN rows : p \in Consolidated \ info.updated =>
           rows'[p].ver = rows[p].ver /\ rows'[p].deleted
      /\ \A p \in DOMAIN rows : p \notin Consolidated => rows'[p] = rows[p]
  <2>1. \A p \in DOMAIN rows :
          rows'[p] = IF p \in Consolidated \cap info.updated
                       THEN [ver |-> Poll[p].ver, deleted |-> FALSE]
                     ELSE IF p \in Consolidated
                       THEN [rows[p] EXCEPT !.deleted = TRUE]
                     ELSE rows[p]
    BY DEF Consolidate, Poll
  <2>2. \A p \in DOMAIN rows :
          /\ [rows[p] EXCEPT !.deleted = TRUE].ver = rows[p].ver
          /\ [rows[p] EXCEPT !.deleted = TRUE].deleted
    BY <1>2, Values DEF Row
  <2>3. \A p \in DOMAIN rows : p \in Consolidated \cap info.updated =>
          rows'[p] = [ver |-> Poll[p].ver, deleted |-> FALSE]
    BY <2>1
  <2>4. \A p \in DOMAIN rows : p \in Consolidated \ info.updated =>
          rows'[p] = [rows[p] EXCEPT !.deleted = TRUE]
    BY <2>1
  <2>5. \A p \in DOMAIN rows : p \notin Consolidated => rows'[p] = rows[p]
    BY <2>1
  <2>6. ASSUME NEW p \in DOMAIN rows, p \in Consolidated \ info.updated
        PROVE  rows'[p].ver = rows[p].ver /\ rows'[p].deleted
    BY <2>2, <2>4, <2>6
  <2>7. ASSUME NEW p \in DOMAIN rows, p \in Consolidated \cap info.updated
        PROVE  rows'[p].ver = Poll[p].ver /\ ~rows'[p].deleted
    <3>1. rows'[p] = [ver |-> Poll[p].ver, deleted |-> FALSE]
      BY <2>3, <2>7
    <3>2. QED
      BY <3>1
  <2>8. QED
    BY <2>5, <2>6, <2>7
<1>4. Changes /\ Grows /\ Remembers
  BY <1>1 DEF IInv, Consumes, Consuming
<1>5. info.updated \subseteq DOMAIN Poll /\ info.deleted \subseteq removed
  BY <1>4 DEF Changes
<1>6. Consolidated \subseteq info.updated \cup info.deleted
      /\ (Authoritative => Consolidated = info.updated \cup info.deleted)
  BY DEF Consolidated
<1>7. Quiet' /\ Mapped'
  BY <1>1 DEF IInv, Quiet, Mapped
<1>8. Seen'
  <2>1. ASSUME NEW p \in DOMAIN rows, p \in DOMAIN site
        PROVE  rows'[p].ver <= site[p].ver
    BY <1>3, <1>4, <1>5, <2>1 DEF IInv, Seen, Grows
  <2>2. QED
    BY <1>1, <2>1 DEF IInv, Seen
<1>9. NoFalseDeletion'
  BY <1>1, <1>3, <1>5, <1>6 DEF IInv, NoFalseDeletion
<1>10. Consumes'
  <2>1. ASSUME NEW p \in DOMAIN Poll, p \in DOMAIN rows
        PROVE  rows'[p].ver <= Poll[p].ver
    <3>1. Poll[p].ver \in Nat /\ rows[p].ver <= Poll[p].ver
      BY <1>2, <1>4, <2>1, Values DEF Grows
    <3>2. QED
      BY <1>3, <2>1, <3>1
  <2>2. Grows'
    BY <1>1, <1>4, <2>1 DEF Grows
  <2>3. QED
    BY <1>1, <1>4, <2>2 DEF Consumes, Changes, Remembers
<1>11. ~missed => Written'
  <2>1. SUFFICES ASSUME ~missed
                 PROVE  /\ DOMAIN Poll \subseteq DOMAIN rows
                        /\ Authoritative => \A p \in DOMAIN Poll : Stored(p)'
    BY <1>1 DEF Written, Stored
  <2>2. Writes
    BY <2>1 DEF IInv, Progress
  <2>3. ASSUME Authoritative, NEW p \in DOMAIN Poll
        PROVE  rows'[p].ver = Poll[p].ver \/ rows'[p].deleted
    <3>1. p \in DOMAIN rows
      BY <1>1, <2>2, <2>3 DEF Writes
    <3>2. CASE p \in info.updated
      BY <1>3, <1>6, <2>3, <3>1, <3>2
    <3>3. CASE p \notin info.updated
      <4>1. rows[p].ver = Poll[p].ver \/ rows[p].deleted
        BY <1>1, <2>2, <2>3, <3>3 DEF Writes, Stored
      <4>2. QED
        BY <1>3, <3>1, <3>3, <4>1
    <3>4. QED
      BY <3>2, <3>3
  <2>4. QED
    BY <1>1, <2>2, <2>3 DEF Writes, Stored
<1>12. ~torn => Flags'
  <2>1. SUFFICES ASSUME ~torn, Authoritative, NEW p \in DOMAIN rows \ DOMAIN Poll
                 PROVE  rows'[p].deleted
    BY <1>1 DEF Flags
  <2>2. rows[p].deleted \/ p \in info.deleted
    BY <1>1, <2>1 DEF IInv, Progress, Flags, Consuming
  <2>3. p \notin info.updated
    BY <1>5, <2>1
  <2>4. QED
    BY <1>3, <1>6, <2>1, <2>2, <2>3
<1>13. Progress'
  BY <1>1, <1>11, <1>12 DEF Progress, Inserts, Writes, Forgotten
<1>14. TrackerMatchesBackend'
  BY <1>1 DEF TrackerMatchesBackend
<1>15. Rooted'
  BY <1>1 DEF IInv, Rooted, Consuming
<1>16. Archived'
  <2>1. FlaggedArchived' = FlaggedArchived /\ (Pending' <=> Pending)
    BY <1>1 DEF FlaggedArchived, Pending
  <2>2. FlaggedArchived => Poll = site
    BY <1>1, <1>4 DEF IInv, Archived, Consuming, Changes
  <2>3. FlaggedArchived /\ Complete => Complete'
    BY <1>1, <1>3, <2>2 DEF Complete
  <2>4. pc \in Consuming
    BY <1>1 DEF Consuming
  <2>5. QED
    BY <1>1, <2>1, <2>3, <2>4 DEF IInv, Archived
<1>17. QED
  BY <1>7, <1>8, <1>9, <1>10, <1>13, <1>14, <1>15, <1>16 DEF IInv

\* An archived thread whose changes are written is complete.
LEMMA ConsumedIsComplete ==
  ASSUME IInv, pc \in {"updateThread", "untrackArchived"},
         info.snap.archived, ~torn
  PROVE  Complete
<1>1. Changes /\ Grows /\ Remembers
  BY DEF IInv, Consumes, Consuming
<1>2. Poll = site
  BY <1>1 DEF Changes
<1>3. Written
  BY DEF IInv, Rooted, Progress
<1>4. \A p \in DOMAIN site : p \in DOMAIN rows
  BY <1>2, <1>3 DEF Written
<1>5. ASSUME Authoritative, NEW p \in DOMAIN site
      PROVE  rows[p].ver = site[p].ver \/ site[p].marked
  <2>1. rows[p].ver = site[p].ver \/ rows[p].deleted
    BY <1>2, <1>3, <1>5 DEF Written, Stored
  <2>2. rows[p].deleted => site[p].marked
    BY <1>4, <1>5 DEF IInv, NoFalseDeletion, Seen
  <2>3. QED
    BY <2>1, <2>2
<1>6. \A p \in DOMAIN site : p \in WithMedia => p \in mappings
  BY <1>1, <1>2 DEF Remembers
<1>7. QED
  BY <1>4, <1>5, <1>6 DEF Complete

\* The tracker drops an archived thread; of another one it remembers what is
\* now stored.
LEMMA UpdateThreadKeeps ==
  ASSUME IInv, TypeOK', UpdateThread
  PROVE  IInv'
<1>1. /\ pc = "updateThread" /\ missed' = missed /\ torn' = torn
      /\ site' = site /\ siteState' = siteState /\ removed' = removed
      /\ rows' = rows /\ mappings' = mappings /\ filed' = filed
  BY DEF UpdateThread, siteVars
<1>2. TypeOK /\ info.snap.archived \in BOOLEAN
  BY DEF IInv, TypeOK, Info, Snapshot
<1>3. /\ threadRow' = {} <=> threadRow = {}
      /\ \A r \in threadRow' : r.archived = info.snap.archived
  BY <1>2, RowIsSet DEF UpdateThread
<1>4. Changes /\ Grows /\ Remembers
  BY <1>1 DEF IInv, Consumes, Consuming
<1>5. CASE info.snap.archived
  <2>1. /\ pc' = "untrackArchived" /\ ~tracked' /\ hashes' = << >>
        /\ info' = info /\ Poll' = Poll /\ asked' = asked /\ wanted' = wanted
    BY <1>5 DEF UpdateThread, Poll
  <2>2. DOMAIN hashes' = {}
    BY <2>1, EmptyPartial
  <2>3. Quiet' /\ Mapped' /\ NoFalseDeletion' /\ TrackerMatchesBackend'
    BY <1>1, <2>1 DEF IInv, Quiet, Mapped, NoFalseDeletion, TrackerMatchesBackend
  <2>4. Seen'
    BY <1>1, <2>1, <2>2 DEF IInv, Seen
  <2>5. Consumes'
    BY <1>1, <1>4, <1>5, <2>1 DEF Consumes, Changes, Grows, Remembers
  <2>6. Progress'
    BY <1>1, <2>1
       DEF IInv, Progress, Inserts, Writes, Written, Flags, Forgotten, Stored
  <2>7. Rooted'
    BY <1>1, <1>3, <2>1 DEF IInv, Rooted, Consuming
  <2>8. Archived'
    <3>1. siteState # "live"
      BY <1>4, <1>5 DEF Changes
    <3>2. ~torn => Complete
      BY <1>1, <1>5, ConsumedIsComplete
    <3>3. Complete => Complete'
      BY <1>1 DEF Complete
    <3>4. QED
      BY <1>1, <1>5, <2>1, <3>1, <3>2, <3>3 DEF Archived
  <2>9. QED
    BY <2>3, <2>4, <2>5, <2>6, <2>7, <2>8 DEF IInv
<1>6. CASE ~info.snap.archived
  <2>1. /\ pc' = "idle" /\ info' = NoInfo /\ asked' = {}
        /\ wanted' = wanted \cup asked
        /\ tracked' = tracked /\ hashes' = hashes
    BY <1>6 DEF UpdateThread, PollDone
  <2>2. tracked /\ hashes = [p \in DOMAIN Poll |-> Poll[p].ver]
    BY <1>1, <1>4 DEF Remembers
  <2>3. DOMAIN hashes = DOMAIN Poll /\ \A p \in DOMAIN Poll : hashes[p] = Poll[p].ver
    BY <2>2
  <2>4. ~missed => TrackerMatchesBackend' /\ Forgotten'
    <3>1. SUFFICES ASSUME ~missed PROVE TrackerMatchesBackend' /\ Forgotten'
      OBVIOUS
    <3>2. Written /\ (~torn => Flags)
      BY <3>1 DEF IInv, Progress
    <3>3. Forgotten'
      BY <1>1, <1>4, <2>1, <2>3 DEF Forgotten, Grows
    <3>4. DOMAIN hashes \subseteq DOMAIN rows
      BY <1>1, <2>3, <3>2 DEF Written
    <3>5. Authoritative => \A p \in DOMAIN hashes :
            hashes[p] = rows[p].ver \/ rows[p].deleted
      BY <1>1, <2>3, <3>2 DEF Written, Stored
    <3>6. Authoritative /\ ~torn =>
            \A p \in DOMAIN rows \ DOMAIN hashes : rows[p].deleted
      BY <1>1, <2>3, <3>2 DEF Flags, Consuming
    <3>7. QED
      BY <1>1, <2>1, <3>3, <3>4, <3>5, <3>6 DEF TrackerMatchesBackend
  <2>5. Rooted'
    BY <1>1, <1>3, <2>1 DEF IInv, Rooted, Consuming
  <2>6. ~FlaggedArchived'
    BY <1>3, <1>6 DEF FlaggedArchived
  <2>7. DOMAIN hashes' \subseteq DOMAIN site \cup removed
    BY <2>1 DEF IInv, Seen
  <2>8. wanted' \cup filed' \subseteq mappings' /\ mappings \subseteq mappings'
    BY <1>1, <2>1 DEF IInv, Mapped
  <2>9. QED
    BY <1>1, <2>1, <2>4, <2>5, <2>6, <2>7, <2>8, QuietKeeps DEF siteVars
<1>7. QED
  BY <1>2, <1>5, <1>6

\* The backend hears of an untracked thread after the tracker dropped it.
LEMMA ThreadUntrackedKeeps ==
  ASSUME IInv, TypeOK', ThreadUntracked
  PROVE  IInv'
<1>1. /\ pc \in {"untrackArchived", "untrackDeleted"}
      /\ pc' = "idle" /\ info' = NoInfo /\ asked' = {}
      /\ wanted' = wanted \cup asked
      /\ missed' = missed /\ torn' = torn
      /\ site' = site /\ siteState' = siteState /\ removed' = removed
      /\ rows' = rows /\ mappings' = mappings /\ filed' = filed
      /\ tracked' = tracked /\ hashes' = hashes
  BY DEF ThreadUntracked, PollDone, siteVars, trackerVars
<1>2. TypeOK
  BY DEF IInv
<1>3. (pc = "untrackDeleted") \in BOOLEAN /\ (pc = "untrackArchived") \in BOOLEAN
  OBVIOUS
<1>4. /\ threadRow' = {} <=> threadRow = {}
      /\ \A r \in threadRow' : r.archived = (pc = "untrackArchived")
  BY <1>2, <1>3, RowIsSet DEF ThreadUntracked
<1>5. ~tracked
  BY <1>1 DEF IInv, Quiet, Consumes, Consuming, Remembers
<1>6. Rooted'
  BY <1>1, <1>4, <1>5 DEF IInv, Rooted, Consuming
<1>7. DOMAIN hashes' \subseteq DOMAIN site \cup removed
  BY <1>1 DEF IInv, Seen
<1>8. wanted' \cup filed' \subseteq mappings' /\ mappings \subseteq mappings'
  BY <1>1 DEF IInv, Mapped
<1>9. FlaggedArchived' => /\ siteState # "live"
                          /\ ~torn' /\ siteState = "archived" => Complete
  <2>1. SUFFICES ASSUME pc = "untrackArchived"
                 PROVE  /\ siteState # "live"
                        /\ ~torn => Complete
    BY <1>1, <1>4 DEF FlaggedArchived
  <2>2. Changes /\ Remembers
    BY <2>1 DEF IInv, Consumes, Consuming
  <2>3. info.snap.archived /\ siteState # "live"
    BY <2>1, <2>2 DEF Changes, Remembers
  <2>4. QED
    BY <2>1, <2>3, ConsumedIsComplete
<1>10. QED
  BY <1>1, <1>5, <1>6, <1>7, <1>8, <1>9, QuietKeeps DEF siteVars

-----------------------------------------------------------------------------
(* The theorems. *)

\* The initial state satisfies the invariant.
LEMMA InitKeeps == Init => IInv
<1> SUFFICES ASSUME Init PROVE IInv
  OBVIOUS
<1>1. /\ DOMAIN site = {OP} /\ ~site[OP].marked
      /\ DOMAIN rows = {} /\ DOMAIN hashes = {} /\ DOMAIN Poll = {}
  BY EmptyPartial DEF Init, NoInfo, Poll
<1>2. TypeOK
  BY InitTypes
<1>3. Quiet /\ Seen /\ NoFalseDeletion /\ Mapped
  BY <1>1 DEF Init, Quiet, Seen, NoFalseDeletion, Mapped
<1>4. Consumes /\ Progress /\ TrackerMatchesBackend
  BY <1>1 DEF Init, Consumes, Consuming, Progress, Inserts, Writes, Written,
              Flags, Forgotten, TrackerMatchesBackend
<1>5. Rooted /\ Archived
  BY <1>1 DEF Init, Rooted, Consuming, Archived, FlaggedArchived
<1>6. QED
  BY <1>2, <1>3, <1>4, <1>5 DEF IInv

\* A step that changes nothing keeps the invariant.
LEMMA StutterKeeps == IInv /\ UNCHANGED vars => IInv'
<1> SUFFICES ASSUME IInv, UNCHANGED vars PROVE IInv'
  OBVIOUS
<1> USE DEF vars, siteVars, processVars, trackerVars, backendVars
<1>1. Poll' = Poll
  BY DEF Poll
<1>2. TypeOK' /\ Quiet' /\ Seen' /\ NoFalseDeletion' /\ Mapped'
  BY <1>1 DEF IInv, TypeOK, Quiet, Seen, NoFalseDeletion, Mapped
<1>3. Consumes'
  BY <1>1 DEF IInv, Consumes, Changes, Grows, Remembers
<1>4. Progress'
  BY <1>1 DEF IInv, Progress, Inserts, Writes, Written, Flags, Forgotten, Stored
<1>5. TrackerMatchesBackend' /\ Rooted'
  BY DEF IInv, TrackerMatchesBackend, Rooted
<1>6. Archived'
  BY DEF IInv, Archived, FlaggedArchived, Pending, Complete
<1>7. QED
  BY <1>2, <1>3, <1>4, <1>5, <1>6 DEF IInv

\* Every step keeps the invariant.
LEMMA StepKeeps == IInv /\ [Next]_vars => IInv'
<1> SUFFICES ASSUME IInv, [Next]_vars PROVE IInv'
  OBVIOUS
<1>1. TypeOK'
  BY SiteTypes, ProcessTypes DEF IInv
<1>2. CASE SiteStep
  BY <1>1, <1>2, SiteKeeps
<1>3. CASE ListThread \/ FirstCycleEnds \/ PollFails
           \/ \E p \in Posts : FileDownloaded(p)
  BY <1>1, <1>3, SmallStepKeeps
<1>4. CASE ListArchived
  BY <1>1, <1>4, ListArchivedKeeps
<1>5. CASE PollOk
  BY <1>1, <1>5, UnchangedPollKeeps, ChangedPollKeeps
<1>6. CASE PollNotFound \/ PollMalformed
  BY <1>1, <1>6, TakenForDeletedKeeps DEF PollNotFound, PollMalformed
<1>7. CASE ConsumeStep
  BY <1>1, <1>7, InsertThreadKeeps, InsertPostsKeeps, ProcessImagesKeeps,
     ConsolidateKeeps, UpdateThreadKeeps, ThreadUntrackedKeeps DEF ConsumeStep
<1>8. CASE ConsumeFails
  BY <1>1, <1>8, ConsumeFailsKeeps
<1>9. CASE Crash
  BY <1>1, <1>9, CrashKeeps
<1>10. CASE UNCHANGED vars
  BY <1>10, StutterKeeps
<1>11. QED
  BY <1>2, <1>3, <1>4, <1>5, <1>6, <1>7, <1>8, <1>9, <1>10 DEF Next

\* The inductive invariant holds of every behaviour.
THEOREM Invariance == Spec => []IInv
<1>1. Init => IInv
  BY InitKeeps
<1>2. IInv /\ [Next]_vars => IInv'
  BY StepKeeps
<1>3. QED
  BY <1>1, <1>2, PTL DEF Spec

\* Every variable keeps its type.
THEOREM TypeCorrect == Spec => []TypeOK
<1>1. IInv => TypeOK
  BY DEF IInv
<1>2. QED
  BY <1>1, Invariance, PTL

\* Between two polls the tracker and the backend agree on every post, whatever
\* failed or crashed before, unless a consume of this process failed.
THEOREM TrackerIsBackend == Spec => []TrackerMatchesBackend
<1>1. IInv => TrackerMatchesBackend
  BY DEF IInv
<1>2. QED
  BY <1>1, Invariance, PTL

\* No post is flagged as deleted that the site never removed or marked.
THEOREM DeletionsAreTrue == Spec => []NoFalseDeletion
<1>1. IInv => NoFalseDeletion
  BY DEF IInv
<1>2. QED
  BY <1>1, Invariance, PTL

\* ProcessFileDownload always finds the mapping row it fetches.
THEOREM WantedIsMapped == Spec => []DownloadsAreMapped
<1>1. IInv => DownloadsAreMapped
  BY DEF IInv, Mapped, DownloadsAreMapped
<1>2. QED
  BY <1>1, Invariance, PTL

\* A thread flagged as archived is never polled again, and by then nothing of
\* it is missing.
THEOREM ArchiveComplete == Spec => []ArchivedIsComplete
<1>1. IInv => ArchivedIsComplete
  BY DEF IInv, Archived, FlaggedArchived, Pending, Complete, ArchivedIsComplete
<1>2. QED
  BY <1>1, Invariance, PTL

\* A commit keeps every post, with its text or a later one.
LEMMA TextsStay ==
  ASSUME IInv, [Next]_vars, NEW p \in DOMAIN rows
  PROVE  p \in DOMAIN rows' /\ rows'[p].ver >= rows[p].ver
<1>1. TypeOK /\ rows[p].ver \in Nat
  BY Values DEF IInv
<1>2. CASE InsertPosts
  BY <1>1, <1>2 DEF InsertPosts
<1>3. CASE Consolidate
  <2>1. Changes /\ Grows
    BY <1>3 DEF IInv, Consumes, Consuming, Consolidate
  <2>2. CASE p \in Consolidated \cap info.updated
    <3>1. rows[p].ver <= Poll[p].ver /\ Poll[p].ver \in Nat
      BY <1>1, <2>1, <2>2, Values DEF Changes, Grows
    <3>2. p \in DOMAIN rows' /\ rows'[p].ver = Poll[p].ver
      BY <1>3, <2>2 DEF Consolidate, Poll
    <3>3. QED
      BY <1>1, <3>1, <3>2
  <2>3. CASE p \notin Consolidated \cap info.updated
    <3>1. [rows[p] EXCEPT !.deleted = TRUE].ver = rows[p].ver
      BY <1>1, Values DEF Row
    <3>2. p \in DOMAIN rows' /\ rows'[p].ver = rows[p].ver
      BY <1>3, <2>3, <3>1 DEF Consolidate
    <3>3. QED
      BY <1>1, <3>2
  <2>4. QED
    BY <2>2, <2>3
<1>4. CASE UNCHANGED rows
  BY <1>1, <1>4
<1>5. InsertPosts \/ Consolidate \/ UNCHANGED rows
  BY DEF Next, SiteStep, AddPost, EditPost, MarkPost, RemovePost,
       ThreadEnds, ListThread, ListArchived, FirstCycleEnds, PollOk,
       PollNotFound, PollMalformed, TakenForDeleted, PollFails,
       ConsumeStep, InsertThread, ProcessImages, UpdateThread,
       ThreadUntracked, ConsumeFails, FileDownloaded, Crash, vars,
       backendVars
<1>6. QED
  BY <1>2, <1>3, <1>4, <1>5

\* An archived text is never replaced by an earlier one and never vanishes: a
\* poll's versions are at least the stored ones, also after re-tracking.
THEOREM TextsOnlyGrow == Spec => NothingForgotten
<1> DEFINE Kept(p) == p \in DOMAIN rows' /\ rows'[p].ver >= rows[p].ver
<1>1. ASSUME IInv, [Next]_vars, NEW p \in DOMAIN rows
      PROVE  Kept(p)
  BY <1>1, TextsStay
<1>2. IInv /\ [Next]_vars => [\A p \in DOMAIN rows : Kept(p)]_vars
  BY <1>1
<1>3. QED
  BY <1>2, Invariance, PTL DEF Spec, NothingForgotten, Kept

-----------------------------------------------------------------------------
(* The record of the thread. *)

\* A step that touches neither the process nor the backend keeps the thread final.
LEMMA SiteKeepsFinal ==
  ASSUME Final, SiteStep
  PROVE  Final'
<1> USE DEF processVars, trackerVars, backendVars
<1>1. /\ UNCHANGED <<queued, tracked, pc, info, threadRow, rows, torn>>
      /\ siteState = "gone" => siteState' = "gone"
  BY DEF SiteStep, AddPost, EditPost, MarkPost, RemovePost, ThreadEnds
<1>2. /\ Closed' = Closed /\ BackendKnows' = BackendKnows
      /\ pc' = pc /\ queued' = queued /\ tracked' = tracked /\ torn' = torn
  BY <1>1 DEF Closed, FlaggedArchived, Pending, BackendKnows, LiveRows
<1>3. QED
  BY <1>1, <1>2 DEF Final

\* A closed thread is listed only when the backend does not know its posts.
LEMMA ListingKeepsFinal ==
  ASSUME IInv, Final, ListThread \/ ListArchived
  PROVE  Final'
<1> USE DEF siteVars, backendVars
<1>1. /\ pc = "idle" /\ pc' = pc /\ queued'
      /\ UNCHANGED <<info, threadRow, rows, torn, siteState>>
  BY DEF ListThread, ListArchived
<1>2. Closed' = Closed /\ BackendKnows' = BackendKnows
  BY <1>1 DEF Closed, FlaggedArchived, Pending, BackendKnows, LiveRows
<1>3. ASSUME Closed, ~torn
      PROVE  ListArchived /\ ~BackendKnows /\ tracked' = tracked
  <2>1. siteState # "live" /\ ~tracked /\ FlaggedArchived
    BY <1>1, <1>3 DEF Final, Closed, IInv, Archived
  <2>2. ListArchived
    BY <2>1 DEF ListThread
  <2>3. ~BackendKnows
    BY <2>1, <2>2 DEF ListArchived, FlaggedArchived
  <2>4. QED
    BY <2>2, <2>3 DEF ListArchived
<1>4. QED
  BY <1>1, <1>2, <1>3 DEF Final

\* A poll of a closed thread is one of a thread that seems new.
LEMMA PollKeepsFinal ==
  ASSUME IInv, Final, PollOk \/ TakenForDeleted
  PROVE  Final'
<1> USE DEF siteVars, backendVars
<1>1. /\ pc = "idle" /\ ~queued' /\ queued
      /\ UNCHANGED <<threadRow, rows, torn, siteState>>
      /\ pc' \in {"idle", "insertThread", "insertPosts", "untrackDeleted"}
  BY DEF PollOk, TakenForDeleted
<1>2. ASSUME Closed', ~torn
      PROVE  pc' \in {"idle", "insertThread", "untrackDeleted"}
             /\ (pc' # "insertThread" => ~tracked')
  <2>1. Closed
    BY <1>1, <1>2 DEF Closed, FlaggedArchived, Pending
  <2>2. CASE PollOk
    <3>1. ~tracked /\ ~BackendKnows /\ siteState # "live"
      BY <1>1, <1>2, <2>1, <2>2 DEF Final, PollOk, Closed, IInv, Archived
    <3>2. siteState = "archived" /\ ~Found
      BY <2>2, <3>1 DEF PollOk, Found, IInv, TypeOK
    <3>3. pc' = "insertThread"
      BY <2>2, <3>1, <3>2 DEF PollOk
    <3>4. QED
      BY <3>3
  <2>3. CASE TakenForDeleted
    BY <2>3 DEF TakenForDeleted
  <2>4. QED
    BY <2>2, <2>3
<1>3. QED
  BY <1>1, <1>2 DEF Final

\* A consume closes the thread when it has untracked it.
LEMMA ConsumeKeepsFinal ==
  ASSUME IInv, Final, ConsumeStep
  PROVE  Final'
<1> USE DEF siteVars, backendVars, trackerVars, ConsumeVars
<1>1. /\ ~queued /\ queued' = queued /\ siteState' = siteState /\ torn' = torn
  BY DEF Final, ConsumeStep, InsertThread, InsertPosts, ProcessImages,
         Consolidate, UpdateThread, ThreadUntracked, PollDone
<1>2. CASE InsertThread
  <2>1. Changes
    BY <1>2 DEF InsertThread, IInv, Consumes, Consuming
  <2>2. Pending'
    BY <1>2, <2>1 DEF InsertThread, Pending, Changes
  <2>3. QED
    BY <1>1, <2>2 DEF Final, Closed
<1>3. CASE InsertPosts \/ ProcessImages \/ Consolidate
  <2>1. /\ pc \in {"insertPosts", "images", "consolidate"}
        /\ pc' \in {"images", "consolidate", "updateThread"}
        /\ info' = info /\ threadRow' = threadRow
    BY <1>3 DEF InsertPosts, ProcessImages, Consolidate
  <2>2. ~Closed \/ torn
    BY <2>1 DEF Final
  <2>3. Closed' = Closed
    BY <2>1 DEF Closed, FlaggedArchived, Pending
  <2>4. QED
    BY <1>1, <2>2, <2>3 DEF Final
<1>4. CASE UpdateThread
  <2>1. TypeOK /\ info.snap.archived \in BOOLEAN
    BY DEF IInv, TypeOK, Info, Snapshot
  <2>2. \A r \in threadRow' : r.archived = info.snap.archived
    BY <1>4, <2>1, RowIsSet DEF UpdateThread
  <2>3. FlaggedArchived' => pc' = "untrackArchived" /\ ~tracked'
    BY <1>4, <2>2 DEF UpdateThread, FlaggedArchived
  <2>4. QED
    BY <1>1, <2>3 DEF Final, Closed
<1>5. CASE ThreadUntracked
  <2>1. pc \in {"untrackArchived", "untrackDeleted"} /\ pc' = "idle" /\ tracked' = tracked
    BY <1>5 DEF ThreadUntracked, PollDone
  <2>2. ~tracked
    BY <2>1 DEF IInv, Quiet, Consumes, Consuming, Remembers
  <2>3. QED
    BY <1>1, <2>1, <2>2 DEF Final
<1>6. QED
  BY <1>2, <1>3, <1>4, <1>5 DEF ConsumeStep

\* Every step keeps a closed thread final.
LEMMA FinalKeeps == IInv /\ Final /\ [Next]_vars => Final'
<1> SUFFICES ASSUME IInv, Final, [Next]_vars PROVE Final'
  OBVIOUS
<1> USE DEF siteVars, processVars, backendVars, trackerVars
<1>1. CASE SiteStep
  BY <1>1, SiteKeepsFinal
<1>2. CASE ListThread \/ ListArchived
  BY <1>2, ListingKeepsFinal
<1>3. CASE PollOk \/ PollNotFound \/ PollMalformed
  BY <1>3, PollKeepsFinal DEF PollNotFound, PollMalformed
<1>4. CASE ConsumeStep
  BY <1>4, ConsumeKeepsFinal
<1>5. CASE ConsumeFails
  <2>1. pc # "idle" /\ ~queued' /\ torn' /\ pc' = "idle"
    BY <1>5 DEF ConsumeFails, StageFails, Final
  <2>2. QED
    BY <2>1 DEF Final
<1>6. CASE Crash
  BY <1>6 DEF Crash, Final
<1>7. CASE FirstCycleEnds \/ (\E p \in Posts : FileDownloaded(p)) \/ UNCHANGED vars
  <2>1. UNCHANGED <<queued, tracked, pc, info, threadRow, rows, torn, siteState>>
    BY <1>7 DEF FirstCycleEnds, FileDownloaded, vars
  <2>2. Closed' = Closed /\ BackendKnows' = BackendKnows
    BY <2>1 DEF Closed, FlaggedArchived, Pending, BackendKnows, LiveRows
  <2>3. QED
    BY <2>1, <2>2 DEF Final
<1>8. CASE PollFails
  <2>1. /\ ~queued' /\ pc' = pc /\ tracked' = tracked
        /\ UNCHANGED <<info, threadRow, torn>>
    BY <1>8 DEF PollFails
  <2>2. Closed' = Closed
    BY <2>1 DEF Closed, FlaggedArchived, Pending
  <2>3. QED
    BY <2>1, <2>2 DEF Final
<1>9. QED
  BY <1>1, <1>2, <1>3, <1>4, <1>5, <1>6, <1>7, <1>8 DEF Next

\* ... and so does every behaviour.
LEMMA Finality == Spec => [](IInv /\ Final)
<1>1. Init => Final
  BY DEF Init, Final, Closed, FlaggedArchived
<1>2. IInv /\ Final /\ [Next]_vars => Final'
  BY FinalKeeps
<1>3. QED
  BY <1>1, <1>2, Invariance, PTL DEF Spec
\* The texts of the site, as the record sees them.
LEMMA PolledTexts ==
  ASSUME TypeOK
  PROVE  /\ DOMAIN Polled = DOMAIN site /\ DOMAIN site \subseteq Posts
         /\ \A p \in DOMAIN site : Polled[p] = site[p].ver /\ Polled[p] \in Nat
BY Values DEF Polled

\* What the record has of the thread and what is left of its promises.
RecordStays ==
  UNCHANGED <<rows, mappings, filed, torn>> /\ Closed' = Closed

\* A step of the site is one of the record's site.
LEMMA SiteMovesRecord ==
  ASSUME IInv, IInv', SiteStep
  PROVE  Record!Next
<1>1. /\ UNCHANGED <<pc, info, threadRow, rows, mappings, filed, torn>>
      /\ SiteGrows
  BY SiteOnlyGrows DEF IInv, processVars, backendVars
<1>2. RecordStays
  BY <1>1 DEF RecordStays, Closed, FlaggedArchived, Pending
<1>3. CASE \E how \in {"archived", "gone"} : ThreadEnds(how)
  <2>1. /\ UNCHANGED <<site, removed>>
        /\ <<siteState, siteState'>> \in
             {<<"live", "archived">>, <<"live", "gone">>, <<"archived", "gone">>}
    BY <1>3 DEF ThreadEnds
  <2>2. Polled' = Polled
    BY <2>1 DEF Polled
  <2>3. Record!ThreadEnds
    BY <1>2, <2>1, <2>2 DEF RecordStays, Record!ThreadEnds, Record!record
  <2>4. QED
    BY <2>3 DEF Record!Next
<1>4. CASE \E p \in Posts : AddPost(p) \/ EditPost(p) \/ MarkPost(p) \/ RemovePost(p)
  <2>1. siteState = "live" /\ siteState' = siteState
    BY <1>4 DEF AddPost, EditPost, MarkPost, RemovePost
  <2>2. /\ DOMAIN Polled = DOMAIN site /\ DOMAIN Polled' = DOMAIN site'
        /\ DOMAIN site' \subseteq Posts /\ removed' \subseteq Posts
        /\ \A p \in DOMAIN site : Polled[p] = site[p].ver /\ Polled[p] \in Nat
        /\ \A p \in DOMAIN site' : Polled'[p] = site'[p].ver /\ Polled'[p] \in Nat
    <3>1. TypeOK /\ site' \in PartialFunctions(Posts, SitePost) /\ removed' \subseteq Posts
      BY DEF IInv, TypeOK
    <3>2. Polled' = [p \in DOMAIN site' |-> site'[p].ver]
      BY DEF Polled
    <3>3. DOMAIN site' \subseteq Posts /\ \A p \in DOMAIN site' : site'[p].ver \in Nat
      BY <3>1, SitePostValues
    <3>4. QED
      BY <3>1, <3>2, <3>3, PolledTexts
  <2>3. Record!SiteMoves
    BY <1>1, <1>2, <2>1, <2>2
       DEF SiteGrows, RecordStays, Record!SiteMoves, Record!record
  <2>4. QED
    BY <2>3 DEF Record!Next
<1>5. QED
  BY <1>3, <1>4 DEF SiteStep

\* A commit of posts, or of mappings, is a write of the record.
LEMMA CommitWrites ==
  ASSUME IInv, IInv', Final, InsertPosts \/ ProcessImages \/ Consolidate,
         \A p \in DOMAIN rows : p \in DOMAIN rows' /\ rows'[p].ver >= rows[p].ver
  PROVE  Record!Next
<1>1. /\ pc \in {"insertPosts", "images", "consolidate"}
      /\ pc' \in {"images", "consolidate", "updateThread"}
      /\ UNCHANGED <<site, siteState, removed, info, threadRow, filed, torn>>
  BY DEF InsertPosts, ProcessImages, Consolidate, siteVars, trackerVars, ConsumeVars
<1>2. Closed' = Closed /\ Polled' = Polled
  BY <1>1 DEF Closed, FlaggedArchived, Pending, Polled
<1>3. Closed => torn
  BY <1>1 DEF Final
<1>4. Changes /\ Grows /\ (\A p \in DOMAIN Poll : p \in DOMAIN site \cup removed)
  BY <1>1 DEF IInv, Consumes, Consuming, Seen
<1>5. /\ mappings \subseteq mappings'
      /\ mappings' \subseteq mappings \cup (DOMAIN Poll \cap WithMedia)
  BY DEF InsertPosts, ProcessImages, Consolidate, Poll
<1>6. mappings' \ mappings \subseteq WithMedia \cap (DOMAIN site \cup removed)
  BY <1>4, <1>5
<1>7. TypeOK /\ DOMAIN Polled = DOMAIN site /\ \A p \in DOMAIN site : Polled[p] = site[p].ver
  BY PolledTexts DEF IInv
<1>8. Record!Keeps
  BY <1>5 DEF Record!Keeps
<1>9. Record!IsOfSite
  <2>1. Seen' /\ NoFalseDeletion'
    BY DEF IInv
  <2>2. QED
    BY <1>1, <1>6, <1>7, <2>1 DEF Seen, NoFalseDeletion, Record!IsOfSite
<1>10. Record!Write
  BY <1>1, <1>2, <1>3, <1>8, <1>9 DEF Record!Write, Record!site
<1>11. QED
  BY <1>10 DEF Record!Next

\* A step after which the thread is flagged and no longer pending closes it.
LEMMA ClosesRecord ==
  ASSUME IInv, IInv', Next, ~Closed, Closed',
         UNCHANGED <<siteVars, rows, mappings, filed>>, torn => torn'
  PROVE  Record!Next
<1>1. UNCHANGED <<site, siteState, removed, rows, mappings, filed>> /\ Polled' = Polled
  BY DEF siteVars, Polled
<1>2. siteState # "live" /\ torn' \in {torn, TRUE}
  BY <1>1 DEF IInv, TypeOK, Archived, Closed
<1>3. ASSUME ~torn', siteState = "archived"
      PROVE  Record!Complete
  <2>1. Complete
    BY <1>1, <1>3 DEF IInv, Archived, Closed, Complete
  <2>2. DOMAIN Polled = DOMAIN site /\ \A p \in DOMAIN site : Polled[p] = site[p].ver
    BY PolledTexts DEF IInv
  <2>3. \A p \in DOMAIN site : site[p].marked => p \in removed
    BY DEF IInv, Seen
  <2>4. QED
    BY <2>1, <2>2, <2>3 DEF Complete, Record!Complete
<1>4. Record!Close
  BY <1>1, <1>2, <1>3 DEF Record!Close, Record!site, Record!record
<1>5. QED
  BY <1>4 DEF Record!Next

\* Only the untracking of a thread that is no longer live opens it again.
LEMMA OnlyUntrackingReopens ==
  ASSUME IInv, Next, Closed, ~Closed'
  PROVE  siteState # "live" /\ ThreadUntracked
<1> USE DEF siteVars, processVars, backendVars, trackerVars
<1>1. FlaggedArchived
  BY DEF Closed
<1>2. ASSUME FlaggedArchived'
      PROVE  FALSE
  <2>1. Pending' /\ ~Pending
    BY <1>2 DEF Closed
  <2>2. pc' \in {"insertPosts", "images", "consolidate", "updateThread"} /\ info'.isNew
    BY <2>1 DEF Pending
  <2>3. CASE InsertThread
    BY <1>1, <2>3 DEF InsertThread, FlaggedArchived
  <2>4. CASE PollOk
    <3>1. pc = "idle" /\ (pc' = pc \/ info'.isNew = (~tracked /\ ~Found))
      BY <2>4 DEF PollOk
    <3>2. pc' = pc \/ pc' = IF tracked \/ Found THEN "insertPosts" ELSE "insertThread"
      BY <2>4 DEF PollOk
    <3>3. QED
      BY <2>2, <3>1, <3>2
  <2>5. CASE InsertPosts \/ ProcessImages \/ Consolidate
    BY <2>1, <2>5 DEF InsertPosts, ProcessImages, Consolidate, ConsumeVars, Pending
  <2>6. CASE UpdateThread \/ ThreadUntracked \/ ConsumeFails \/ Crash
             \/ PollNotFound \/ PollMalformed \/ PollFails
             \/ ListThread \/ ListArchived
    BY <2>2, <2>6 DEF UpdateThread, ThreadUntracked, ConsumeFails, Crash,
       PollNotFound, PollMalformed, TakenForDeleted, PollFails, ListThread,
       ListArchived, PollDone
  <2>7. CASE SiteStep \/ FirstCycleEnds \/ \E p \in Posts : FileDownloaded(p)
    <3>1. pc' = pc /\ info' = info
      BY <2>7 DEF SiteStep, AddPost, EditPost, MarkPost, RemovePost, ThreadEnds,
         FirstCycleEnds, FileDownloaded
    <3>2. QED
      BY <2>1, <3>1 DEF Pending
  <2>8. QED
    BY <2>3, <2>4, <2>5, <2>6, <2>7 DEF Next, ConsumeStep
<1>3. ~FlaggedArchived'
  BY <1>2
<1>4. threadRow' # threadRow
  BY <1>1, <1>3 DEF FlaggedArchived
<1>5. InsertThread \/ UpdateThread \/ ThreadUntracked
  BY <1>4 DEF Next, SiteStep, AddPost, EditPost, MarkPost, RemovePost,
     ThreadEnds, ListThread, ListArchived, FirstCycleEnds, PollOk,
     PollNotFound, PollMalformed, TakenForDeleted, PollFails,
     ConsumeStep, InsertPosts, ProcessImages, Consolidate,
     ConsumeFails, FileDownloaded, Crash
<1>6. TypeOK
  BY DEF IInv
<1>7. ~InsertThread
  BY <1>1 DEF InsertThread, FlaggedArchived
<1>8. ~UpdateThread
  <2>1. SUFFICES ASSUME UpdateThread PROVE FALSE
    OBVIOUS
  <2>2. info.snap.archived
    BY <1>1, <2>1 DEF UpdateThread, IInv, Archived, Consuming
  <2>3. threadRow # {} /\ \A r \in threadRow' : r.archived
    BY <1>1, <1>6, <2>1, <2>2, RowIsSet DEF UpdateThread, FlaggedArchived
  <2>4. threadRow' # {}
    BY <1>6, <2>1, <2>2, <2>3, RowIsSet DEF UpdateThread
  <2>5. QED
    BY <1>3, <2>3, <2>4 DEF FlaggedArchived
<1>9. ThreadUntracked
  BY <1>5, <1>7, <1>8
<1>10. QED
  BY <1>1, <1>9 DEF IInv, Archived

\* The archive's part of the record is written by three commits and a download.
LEMMA OthersLeaveRecord ==
  ASSUME IInv, Next, ~SiteStep, ~(InsertPosts \/ ProcessImages \/ Consolidate),
         \A p \in Posts : ~FileDownloaded(p)
  PROVE  UNCHANGED <<siteVars, rows, mappings, filed>> /\ (torn => torn')
<1> USE DEF backendVars
<1>1. CASE \/ ListThread \/ ListArchived \/ FirstCycleEnds
           \/ PollOk \/ PollNotFound \/ PollMalformed \/ PollFails
  BY <1>1 DEF ListThread, ListArchived, FirstCycleEnds, PollOk, PollNotFound,
     PollMalformed, TakenForDeleted, PollFails
<1>2. CASE InsertThread
  BY <1>2 DEF InsertThread, ConsumeVars
<1>3. CASE UpdateThread
  BY <1>3 DEF UpdateThread
<1>4. CASE ThreadUntracked
  BY <1>4 DEF ThreadUntracked
<1>5. CASE ConsumeFails \/ Crash
  BY <1>5 DEF ConsumeFails, Crash
<1>6. QED
  BY <1>1, <1>2, <1>3, <1>4, <1>5 DEF Next, ConsumeStep

\* Every step is a step of the record or leaves it.
LEMMA RecordSimulates ==
  IInv /\ IInv' /\ Final /\ [Next]_vars => [Record!Next]_(Record!vars)
<1> SUFFICES ASSUME IInv, IInv', Final, [Next]_vars
             PROVE  Record!Next \/ UNCHANGED Record!vars
  BY Zenon
<1> USE DEF siteVars, processVars, backendVars, trackerVars
<1>1. TypeOK /\ TypeOK'
  BY DEF IInv
<1>2. CASE UNCHANGED vars
  <2>1. UNCHANGED <<site, siteState, removed, rows, mappings, filed, torn, pc,
                    info, threadRow>>
    BY <1>2 DEF vars
  <2>2. Polled' = Polled /\ Closed' = Closed
    BY <2>1 DEF Polled, Closed, FlaggedArchived, Pending
  <2>3. QED
    BY <2>1, <2>2 DEF Record!vars, Record!site, Record!record
<1>3. CASE SiteStep
  BY <1>3, SiteMovesRecord
<1>4. CASE InsertPosts \/ ProcessImages \/ Consolidate
  BY <1>4, TextsStay, CommitWrites
<1>5. CASE \E p \in Posts : FileDownloaded(p)
  <2>1. PICK p \in Posts : FileDownloaded(p)
    BY <1>5
  <2>2. /\ p \in mappings /\ filed' = filed \cup {p}
        /\ UNCHANGED <<site, siteState, removed, rows, mappings, torn, pc, info,
                       threadRow>>
    BY <2>1 DEF FileDownloaded
  <2>3. Polled' = Polled /\ Closed' = Closed
    BY <2>2 DEF Polled, Closed, FlaggedArchived, Pending
  <2>4. Record!FileArrives(p)
    BY <2>2, <2>3 DEF Record!FileArrives, Record!site, Record!record
  <2>5. QED
    BY <2>4 DEF Record!Next
<1>6. CASE Next /\ UNCHANGED <<siteVars, rows, mappings, filed>> /\ (torn => torn')
  <2>1. UNCHANGED <<site, siteState, removed, rows, mappings, filed>> /\ Polled' = Polled
    BY <1>6 DEF Polled
  <2>2. CASE ~Closed /\ Closed'
    BY <1>6, <2>2, ClosesRecord
  <2>3. CASE Closed /\ ~Closed'
    <3>1. siteState # "live" /\ torn' = torn
      BY <1>6, <2>3, OnlyUntrackingReopens DEF ThreadUntracked
    <3>2. Closed' = FALSE
      BY <2>3 DEF Closed, FlaggedArchived
    <3>3. Record!Reopen
      BY <2>1, <2>3, <3>1, <3>2 DEF Record!Reopen, Record!site, Record!record
    <3>4. QED
      BY <3>3 DEF Record!Next
  <2>4. CASE Closed' <=> Closed
    <3>1. Closed' = Closed
      BY <2>4 DEF Closed, FlaggedArchived
    <3>2. torn' = torn \/ torn' = TRUE
      BY <1>1, <1>6 DEF TypeOK
    <3>3. CASE torn' = torn
      BY <2>1, <3>1, <3>3 DEF Record!vars, Record!site, Record!record
    <3>4. CASE torn' = TRUE
      <4>1. Record!Break
        BY <2>1, <3>1, <3>4 DEF Record!Break, Record!site, Record!record
      <4>2. QED
        BY <4>1 DEF Record!Next
    <3>5. QED
      BY <3>2, <3>3, <3>4
  <2>5. QED
    BY <2>2, <2>3, <2>4
<1>7. QED
  BY <1>2, <1>3, <1>4, <1>5, <1>6, OthersLeaveRecord

\* The backend is a record of the thread: through every order of polls, commits,
\* failed commits, downloads and crashes it stores what the site has shown, and a
\* thread flagged as archived without a failure is complete and stays as it is.
THEOREM RecordImplemented == Spec => ImplementsRecord
<1>1. Init => Record!Init
  <2>1. SUFFICES ASSUME Init PROVE Record!Init
    OBVIOUS
  <2>2. DOMAIN Polled \subseteq Posts
    BY <2>1, ArchiveAssumption DEF Init, Polled
  <2>3. Closed = FALSE
    BY <2>1 DEF Init, Closed, FlaggedArchived
  <2>4. QED
    BY <2>1, <2>2, <2>3 DEF Init, Record!Init
<1>2. (IInv /\ Final) /\ (IInv /\ Final)' /\ [Next]_vars => [Record!Next]_(Record!vars)
  BY RecordSimulates
<1>3. QED
  BY <1>1, <1>2, Finality, PTL DEF Spec, ImplementsRecord, Record!Spec


=============================================================================
