# A TLA+ model of Hayden

Hayden archives imageboards: it polls the threads of a set of boards, hands
what changed to a backend and downloads the attached media. This directory
models the parts of it whose correctness depends on order, failure and restart,
checks them with TLC on small instances and proves the central results with
TLAPS. Paths are relative to `src/`.

## 1. Inventory

| part | state it keeps | operations | talks to |
|---|---|---|---|
| Archival loop (`Hayden/Archivers/BoardArchiver.cs`, `Execute`, `PerformScrape`) | `firstRun`, thread queue, image queue, requeued threads and images, one task per proxy connection | read boards, take an image, take a thread, download, poll, requeue, finish a cycle, cancel | listings, poll, state store, consumer |
| Listings (same file, `ReadBoards`, `GetBoardThreads`, `GetArchivedBoardThreads`) | `LastBoardCheckTimes`, `TrackedThreads`, `ThreadIdBlacklist` | list the board, list the archive, find the threads that fell off | site API, `CheckExistingThreads` |
| Poll (same file, `ThreadUpdateTask`) and `Hayden/TrackedThread.cs` | per thread: a hash per post | compare a poll with the memory, start and stop tracking | consumer |
| Hayden database consumer (`Hayden/Consumers/HaydenMysql`) | tables Threads, Posts, FileMappings, Files | `ConsumeThread`, `ProcessFileDownload`, `ThreadUntracked`, `CheckExistingThreads` | database |
| Filesystem and Asagi consumers | `thread.json`; a foreign schema | the same interface | disk, database |
| State store (`Hayden/Cache`) | table QueuedImageDownloads, an EF context | get, insert to, write the download queue | SQLite or LiteDB |
| Import, export, search archivers | bounded queues, a cache of threads read | enumerate, retrieve | importers |
| Proxy pool, site APIs, utilities, `Program` | rented connections; none; none; the cancellation token | rent, get board / thread / archive, Q or a signal | |
| Web server (`Hayden.WebServer`) | the same database, `LastPostTimes`, `PostSemaphore`, `ThreadCountCache`, the one administration task, index positions | post, moderate, read, log in, run a task, synchronise the search index | database, search engine, captcha provider |
| Posting form (`Hayden.Frontend/src/component/PostUploader.svelte`) | the draft, the captcha's token, `isPosting`, `showForm` | enter, solve, post; hear the answer | web server, captcha widget, `ThreadPage` (event `success`) |
| Routes, pages, search (`App.svelte`, `Layout.svelte`, `page/`, `SearchBar`, `PageSelector`, `data/`) | the address, `searchParamStore`, `boardInfoStore`, per page a promise or a thread and `isRefreshing` | follow a link, go back, turn a page, search, refresh | router, web server, each other through the stores |
| Session (`stores.ts`, `LoginPage`, `RegisterPage`, `Layout`) | `moderatorUserStore`; the browser's cookie | log in, register, log out, load the site | user API |
| Admin page (`AdminPage.svelte`, `stores.js`) | a timer, `persistObject`, `statusStore` | poll the status, start a task | `AdminController` |
| Moderation tools (`Post`, `PostMenu`, `Thread`, `modal/`) | open menus and their focus, the post and the options of three shared dialogs | open a menu, choose, send, close | moderation API, `moderatorUserStore` |

What is hard here:

- **Concurrency.** Workers share two queues and two lists of failures, and each
  decides alone when it is finished.
- **Failure and retry.** Downloads, polls and saves fail at any await. Failed
  downloads and failed threads go different ways into the next cycle.
- **Crash and restart.** The backend commits a poll in five steps, the cache is
  written in a sixth, and the tracker is only in memory.
- **Stale memory.** The tracker may be ahead of the backend (a failed consume) or
  be rebuilt from a partial backend.
- **Time.** Listings carry whole seconds.
- **Requests in the browser.** Every handler goes on after an `await` in a page
  that may have been refreshed, turned, left or reloaded since, and answers come
  in any order.
- **Check, then act.** The web server reads cooldown and newest number before
  awaits and writes them after others; what closes the gap is a semaphore for the
  one and the form's own flag for the other.

`PROJECT.json` lists these hazards at their lines, with the properties that
cover them.

## 2. Modules

| module | models |
|---|---|
| `DownloadLedger` | abstract: what the cache promises about downloads |
| `ScrapeCycle` | `Execute`, `PerformScrape`, the worker loop, the SQLite store |
| `TrackedThread` | `ProcessThreadUpdates` as operators on functions from post numbers to hashes |
| `ThreadArchive` | one thread: site, tracker, `ConsumeThread` commit by commit, downloads; extends `TrackedThread` |
| `ThreadRecord` | abstract: what the archive of a thread promises of the thread |
| `BoardPoll` | one board: which threads are polled, and what a poll's outcome changes |
| `PostUpload` | the posting forms of one address, the captcha widget, and `MakePost` await by await |
| `PostLog` | abstract: what posting promises those who read and write a board |
| `FrontendUtility` | the pure helpers: ranges, groups, page counts, the links of the page selector |
| `Browsing` | one tab: routes, mounting, fetches, the search bar and its store; extends `FrontendUtility` |
| `AdminPoll` | the polling loop of the admin page |
| `ModeratorSession` | `moderatorUserStore`, the cookie, the handlers that change them |
| `PostTools` | menus, focus and dialogs of the posts of a thread |
| `ModeratorTab` | composes the last three, as the router mounts them |
| `ScrapeCycleProofs`, `TrackedThreadProofs`, `ThreadArchiveProofs`, `BoardPollProofs`, `PostUploadProofs`, `FrontendUtilityProofs`, `BrowsingProofs`, `ModeratorTabProofs` | theorems about the module they are named for, and their proofs |
| `MC...` | what TLC needs to run them |

The archiver's three components meet at the poll. `BoardPoll` decides which threads are
polled, `ThreadArchive` what one thread's polls do to tracker and backend, and
`ScrapeCycle` what happens to the downloads a poll returns. Each treats the
other two as an environment that may do anything they can do: a poll in
`ScrapeCycle` yields any set of fresh downloads or fails; a listing may name
the thread of `ThreadArchive` at any time it is live or tracked, or never.

### ScrapeCycle

`phase` is the position of the main task, `pc[w]` that of a worker in its loop.
One action is one stretch between two awaits: `TakeImage` is `CheckImages` up to
the download, `PollOk` ends with what `ConsumeThread` returned,
`EnqueueDownload` puts one download on the queue (another worker may take it
before the next), `InsertToDownloadQueue` is the store's call. `addedRows` are
the rows which a failed `SaveChanges` leaves in the shared EF context and which
the next successful save writes too. `ProcessEnds` clears everything but the
cache table (`store`) and the two history sets: `issued` (Guids handed out) and
`settled` (downloads that `ProcessFileDownload` accepted). Which threads a
listing names is free.

`DownloadLedger` has two steps: settle a download, or rewrite the ledger so that
every unsettled entry survives. `ImplementsLedger` is the refinement, with the
cache table as ledger.

### ThreadArchive

A post is a version number and a mark; an edit raises the version. The backend
is `threadRow`, `rows`, `mappings`, `filed`. `pc` names the next `SaveChanges`:
`insertThread` (line 271 of the consumer), `insertPosts` (316), `images` (320),
`consolidate` (383), `updateThread` (557, from 385), then `ThreadUntracked` for
an archived thread. `ConsumeFails` ends a poll at any of them; it is forced
where the code throws (a key that exists, a post that does not) and free where
the database may refuse. `Crash` starts a new process with an empty tracker.
A poll that fails before the comparison changes nothing here (`PollFails`); a thread
without a post, or whose first post has no number, is taken for a deleted one also
while the site lists it (`PollMalformed`).
`BackendHashes` is what `CheckExistingThreads` reports: undeleted posts only,
and a hash that matches no hash of the site for a post whose text was trimmed on
insert or whose file has no mapping row yet (the hash counts files).

`ThreadRecord` has the site move and the archive write, close and reopen as it
likes, within what it promises: only posts and texts the site shows or has shown,
no text replaced by an earlier one, no row dropped, only removed posts flagged; a
close only of a whole thread, after which nothing is written. `ImplementsRecord`
is the refinement. The thread is closed (`Closed`) once it is flagged as archived
and, if it was first seen archived, the poll that flagged it is over (`Pending`);
`broken` is `torn`. It is stronger than the invariants beside it in what it says
of steps: `ArchivedIsComplete` would allow a complete archive to be written again
after its thread is over, `ThreadRecord` does not.

History variables: `removed` (posts the site ever removed or marked), `missed` (a
consume of this process failed), `torn` (a consume ever failed, or a process died
while it consumed a thread that it first saw archived).

Assumed: loop mode; the site serves no stale snapshot and a removed post does not
reappear. Tracking is written as part of the poll: the tracker is changed in the
same step as the comparison, as in the code, before `ConsumeThread` is called.

There is no liveness property here, as the code does not promise one: a listing
selects a thread by its time (`BoardArchiver.cs:770`), a requeued thread is
overwritten by the next listing, and a first run skips changes of the second of the
newest post, so a change can stay unarchived until the thread changes again.
`BoardPoll` says when that is.

### BoardPoll

`now` is the site's clock in seconds, so several changes may share one. A thread
is new, live, archived or gone; `modified` is the listing's `last_modified`,
`posted` the time of the newest post. `ReadBoards` is one whole listing:
blacklist and filter, the first-run comparison with the backend, tracking of the
threads found there, the comparison with the last check, the missing threads,
the archive listing, the new check time. `BoardNotRead` is a 304 or an error. In
both the archive's listing may fail too, which is logged; only a first run reads it.
A poll is one action per answer; a successful one stores all the thread has
(how is the subject of `ThreadArchive`). `PollMalformed` drops a thread the site
still has. In `PollFails` the site does not answer, or what follows its answer
throws: `ConsumeThrows` leaves the thread tracked and perhaps half stored,
`UntrackThrows` leaves it dropped, and flagged if it was stored by then.

`MinValue` is what the build makes of `DateTime.MinValue`, which a board never
checked and a thread row never finished bear: `GetGMTTimestamp` casts its negative
seconds from double to uint, which C# leaves open. It is 2288912640 (the year 2042)
where the cast wraps round and 0 where it saturates; `PollAssumption` allows both.

History variables: `unseen` (changes no poll has stored), `dropped` (changes given up:
by a failed or malformed poll, or passed over by a first run or by a comparison with `MinValue`),
`skipped` (threads of the backend that the process did not begin to track, or dropped
on a malformed answer). `ChangeIsListedAgain` and `FallenIsFollowed` except them; the
violations and remarks of section 3 say why.

### PostUpload

A draft stands for all a user enters; each is entered once, so two stored posts
with one draft are a duplicate made by the program. A request is a record whose
`stage` is its place in `MakePost` (`sent`, `verified` by the captcha provider,
`checked` against the cooldown, `writing` under the semaphore, `saved`, `done`)
and whose `heard` is what the form got of it. `PostAccepted` and `ThreadAccepted`
are the two endings of `Post()`: the reply form empties itself and stays; the
thread form returns null, whose `message` throws, keeps its draft and its enabled
button, and waits for the browser to leave (`Unload`). `ServerFault` is any
exception; the `finally` block releases the semaphore and `LastPostTimes` stays
as it was. `ConnectionLost` loses the request or only its answer. `cooling` is
"less than 60 seconds ago"; `CooldownElapses` assumes that an answer that was
sent arrives, and a page that was left is unloaded, in less time than that.

`PostLog` is the board as its readers see it: `log` has the draft of every post at
its number, `files` the numbers of posts with their file, `told` those whose sender
was told. `Post` appends, `Attach` gives the last post its file, `Tell` tells a
sender of a post that has its file and of a draft nobody was told of. In
`ImplementsLog` the two saves of `MakePost` are `Post` and `Attach`, and the
answer that reaches the form is `Tell`. That a file comes while its post is the
last is what `PostSemaphore` is held for until the second save.

### Browsing

Addresses and what a page asks for are both places. `Mount` is a page's script
when it is created, `FirstFetches` what it asks for at once (`SearchPage` asks
twice: its subscription to `searchParamStore` fires, then it reads its own
address). `Remounts` is what the routes decide: the board's pages are keyed by
their number, a search that only changes its query stays mounted. A page shows
the promise of its latest fetch, the thread page the answer of any; both are
`IsShown`. `Serve` reads the server's data, and fixes `counted`, the
`ThreadCountCache`, at the first board page ever asked for. Fetches of a page
that was left change nothing that is shown. History: `asked`, `due`, `overlapped`.

From outside the sources: a change of the key or of the fallback route makes
Svelte destroy and create the page; `router.goto` changes the address first; a
page below 1 has a negative offset, which MySQL refuses and SQLite reads as none
(the model lets any fetch fail; no property depends on which).

### ModeratorTab and its three components

`ModeratorSession` keeps every call under way as the state of the handler that
awaits it, with the cookie it was sent with; an answer sets or clears the cookie
when it arrives. The cookie is a moderator's; `admin` says that it is one of an
admin or a developer, the only ones whom `AdminAccessFilter` lets through to the
status. Anybody else gets an empty 403, on which `json()` throws (`ProgressFails`),
as it does for a lost request; neither is bounded in number. `AdminPoll` counts
timers (`armed`) and requests (`asking`, live while their page's
`persistObject.active` is). `PostTools` keeps which menus are open, which timers are
to focus one, and which has the focus; a blur closes (`OpenAfterBlur`).
`ModeratorTab` lets one page be mounted at a time: leaving the posts unmounts their
tools, leaving the admin page ends its loop, loading the site resets all three
except the cookie and the server's task.

## 3. Runs

| run | instance | checks |
|---|---|---|
| `scrape_loop` | 2 threads, 3 downloads, 2 workers, 2 processes, loop mode | `TypeOK`, `NoDownloadDropped`, `OneOwner`, `PoolDrains`, `ImplementsLedger` |
| `scrape_live` | 1 thread, 2 downloads, 2 workers, 2 processes, single scan | `CacheDrains` under `FairSpec` |
| `scrape_thumb` | one download has no full image URI | violates `NoDownloadDropped` |
| `scrape_crash` | as `scrape_thumb`, none without URI | violates `UnsavedStateKept` |
| `archive` | 2 posts, one with media, one padded, 2 versions, 2 processes, the database may refuse | `TypeOK`, `TrackerMatchesBackend`, `NoFalseDeletion`, `DownloadsAreMapped`, `ArchivedIsComplete`, `NothingForgotten`, `ImplementsRecord` |
| `archive_new` | the same with a database that never refuses | violates `NewThreadIsNotInBackend` |
| `board` | 2 threads, one unwanted, 2 seconds, 2 processes, archive read, a cast that wraps round | `TypeOK`, `ChangeIsListedAgain`, `FallenIsFollowed`, `RejectedIsNotPolled`, `FallenIsForgotten` |
| `board_requeue` | the same with 3 seconds | violates `RequeuedIsPolledNextLoop` |
| `board_skip` | the same with 3 seconds | violates `SkipsOnlyUnchanged` |
| `posting` | a reply form and a thread form, 3 drafts (text, image, too large), 2 captchas, 2 requests, 1 fault | `TypeOK`, `NumbersAreUnique`, `AcceptedOnce`, `OnePostPerCooldown`, `EmptiesAfterStoring`, `ImplementsLog`, `UploadsSettle` |
| `browsing` | 2 search fields, pages of 2, boards of 1 or 9 threads, searches with 0 or 3 hits, 3 fetches per page, 2 posts, all lists of up to 4 boards in 2 categories | `TypeOK`, `ListIsOfAddress`, `ShowsWhatWasRefreshed`, `ResultsAreThoseAsked`, `EveryThreadIsReachable`, `MenuIsIndex`, `LoadingEnds` |
| `session` | 2 posts, 2 calls, 2 status requests and 2 dialog requests under way, 5 clicks between loads | `TypeOK`, `OneLoop`, `ShownRoleIsHeld`, `OpenMenuHasFocus`, `StatusCatchesUp` |

The bounds. Two workers suffice for every race over a queue: a worker's decision
depends on the queue, never on how many others there are. Three downloads let one be
in a worker's hands, one queued and one failed at the same time. Two processes give
one crash at any point and one recovery that must work from what it left; the last
process is not disturbed where a liveness property speaks of it. Two posts are an
opening post, which stays, and one that comes, changes, is marked and goes; two
versions are one edit. Two seconds of listing time give changes in the second of the
last check and after it; the violations take a third. `Unlisted` is empty in the
runs: a thread that fails the filter in the listing already is never in it, so only
the archive listing could name it; the rejection that matters, by a poll, is thread
2's.

In `posting` two requests are one race for number, semaphore and cooldown, or one
post and its retry; the second token is what a retry needs. In `browsing` nine
threads on pages of two give every form of the page selector (first, neighbours,
last, clipped on either side) and page 6 an address beyond the last; three
fetches are a page's first, one overtaken by a second. Page sizes are 10 and 40
in the code; only the rounding depends on them. In `session` two calls are two
handlers that overlap, five clicks open a menu, choose, send, close and leave, or
leave the admin page and come back; a load resets the count. The instance has no
other bound on time.

`scrape_loop` uses symmetry over workers and over threads; it checks no liveness
property. Deadlock is checked in the four runs of `ScrapeCycle`. In
`ThreadArchive` and `BoardPoll` the bounded site may come to rest and the last
process may have ended, and a user may stop clicking, so `CHECK_DEADLOCK` is off
there and in the runs of the frontend.

What the violations show (details in `PROJECT.json`, "findings"):

1. `CheckImages` dereferences a null `FullImageUri` outside the try block. A
   thumbnail-only download faults its worker, ends the run before the cache is
   written, and does so again after every restart.
2. A crash between the consumer's commit and the insert to the cache loses the
   downloads of that poll until the thread changes again.
3. A thread whose row is stored without an undeleted post is taken for new, and
   its insert fails on the primary key.
4. In loop mode a thread requeued after a failed poll is replaced by the next
   listing; it is polled again only if that listing selects it. One that came from the
   archive's listing is not, as no later cycle reads that.
5. The first run's `<=` skips a thread edited, or posted to, in the second of its
   newest stored post.

What `BoardPoll` follows in the code and its properties except, without a run of its
own:

- A thread row whose first consume failed or died after its posts bears
  `DateTime.MinValue`. Where that casts to the year 2042, the first run of every later
  process takes the thread for unchanged and skips it (`PassedOver`).
- After a first cycle that could not have the listing, the next one is compared with
  `DateTimeOffset.MinValue`. Where that casts to the year 2042, all threads on it are
  dropped as unchanged, against the comment at `BoardArchiver.cs:769`.
- The comparison with the last check lets the second of the check pass, so the newest
  threads of a board are polled again in every cycle. `BoardArchiverTests.cs:92-94`
  and `:151-153` expect of a second `ReadBoards(false)` that it lists nothing. Code and
  tests disagree here, and `ChangeIsListedAgain` sides with the code: with the
  comparison the tests ask for, which is its mutant, a change that comes after the
  listing in the second of the check would be lost.

What the runs of the frontend had to except, each written in its property, and
what was read beside them. None of it contradicts a document or a test, as there
are none for the frontend:

- `OnePostPerCooldown` is about one form. Two tabs of one address both pass the
  cooldown, as it is written after the awaits that follow its reading.
- A post whose acceptance was lost on the way can be posted again: `AcceptedOnce`
  counts the acceptances the user was told of.
- Of two overlapping refreshes the older answer may be shown last
  (`overlapped`); an error replaces the whole thread page, the reply form and its
  draft with it.
- `SearchPage.navigatePage` tests `!!x` for `!x`: the first page of a result
  cannot be reached again, and without a store the click throws. A search that
  came from a link has no store, so its second page loses the query
  (`ResultsAreThoseAsked` is about a store that agrees or is empty).
- `Back` between two searches changes the address and not the results.
- `ThreadCountCache` is never refreshed: threads beyond the count taken at the
  first request are on pages no link leads to.
- An answer to a dialog hides whatever that dialog shows by then; a refused
  registration hides the role of a moderator whose cookie is still held; a logout
  that fails leaves the cookie (`disturbed`).
- A janitor or a moderator is offered the link to the admin page and an open page stays
  after a logout; both poll for ever without an answer (`admin` in `StatusCatchesUp`).
- The dialogs are modelled without a property of their own: what one is opened for and
  what it sends is set in one assignment, and no text says what an answer should leave
  open.

## 4. Fairness

- `ScrapeCycle`: weak fairness for the main task and for each worker (the
  runtime schedules runnable tasks); strong fairness for the success of each
  download, as a retried download meets a network that recovers; a process that
  ended is started again. No poll has to succeed.
- `ThreadArchive`: none, see section 2.
- `BoardPoll`: weak fairness for polling what is queued, with any outcome, and
  ending the cycle; strong fairness for reading the board and, for each thread that
  passes the filter, for a poll that neither fails nor is malformed, as a listing or
  a thread that is asked for again and again is had at last. A thread that fell off
  is asked for again and again, as it is missing from every listing while it is
  tracked: no time is compared. Nothing is asked of the archive's listing.
- `PostUpload`: weak fairness for each step of the server on a request it has
  and for hearing an answer that was sent; strong fairness for entering the
  semaphore, which serves its waiters in turn. Nothing is asked of the user.
- `Browsing`: weak fairness for each fetch to be answered or to fail, as
  `fetch` always settles. `LoadingEnds` is about a user who stops clicking.
- `ModeratorTab`: weak fairness for the timer and for each status request to be
  served and answered or to fail; strong fairness for serving the request of the open
  page and for the arrival of its answer, as a poll that is repeated every second does
  not lose every request or every answer. A request without an admin's cookie is never
  served. `StatusCatchesUp` is about an admin page that stays open in the browser of an
  admin: loads of the site end, and neither the page nor that cookie is away again and
  again.

## 5. Proofs

Every safety property that a passing run checks (invariant, action property or
refinement) is proved for all values of the constants. The proofs have one shape: a
conjunction `IInv` that the initial states satisfy and every step preserves, and
theorems that follow from it. Each `IInv` was checked with TLC, on the instance
of its module's run, before it was proved, and so were `Final` and `Consecutive`,
which the refinements add; of `PostUpload` without `Bounded`, which quantifies over
`Nat`, and with the `n` of `Consecutive` bounded.

| module | theorems | assumptions |
|---|---|---|
| `ScrapeCycleProofs` | `TypeCorrect`, `NothingDropped`, `SingleOwner`, `PoolEmpty`, `LedgerImplemented` | `ScrapeAssumption`; `ThumbOnly = {}` for `NothingDropped`, `Workers # {}` for `PoolEmpty` |
| `TrackedThreadProofs` | `RemembersThePoll`, `ChangesAreNoticed` | none |
| `ThreadArchiveProofs` | `TypeCorrect`, `TrackerIsBackend`, `DeletionsAreTrue`, `WantedIsMapped`, `ArchiveComplete`, `TextsOnlyGrow`, `RecordImplemented` | `ArchiveAssumption` |
| `BoardPollProofs` | `TypeCorrect`, `ChangesAreListed`, `FallenFollowed`, `RejectedNotPolled` | `PollAssumption` |
| `PostUploadProofs` | `TypeCorrect`, `UniqueNumbers`, `AcceptsOnce`, `PostsOncePerCooldown`, `EmptiesLate`, `LogImplemented` | `UploadAssumption` |
| `FrontendUtilityProofs` | `GroupingsEqual` | none |
| `BrowsingProofs` | `TypeCorrect`, `ListOfAddress`, `ShowsRefreshed`, `ResultsOfAsked`, `ThreadsReachable`, `MenuAgrees` | `BrowsingAssumption` |
| `ModeratorTabProofs` | `TypeCorrect`, `OneLoopOnly`, `RoleIsHeld`, `MenuHasFocus` | `TabAssumption` |

The assumptions ask that bounds be numbers, most of them at least one, and that the
designated values be members of their sets (the opening post is a post, the board
field a field); `BrowsingAssumption` also that no field of the search bar is called
`page`, the name under which `SearchPage` keeps the page among the parameters of a
search, and that a page may send the two fetches with which `SearchPage` starts.
`PollAssumption` has the threads be positive numbers, and `MinValue` be 0 or later
than every time of the site.

**ScrapeCycle.** `NoDownloadDropped` is not inductive. A worker that enters
`deliver` with leftovers from an earlier round, or a cache read that finds rows of
the EF context, would break it, so `Tidy` says that each variable is empty unless
its owner is at the place that uses it. `Kept` is `NoDownloadDropped` weakened for a
worker that died on a null URI: then no later step of the process writes the
cache, which is why `LedgerImplemented` needs no assumption on `ThumbOnly` while
`NothingDropped` does (`scrape_thumb` shows that it must). The refinement follows
because at `WriteDownloadQueue` every worker has exited, so all that is in hand
is in the two lists that are written. `OneOwner` needs three facts more (`Owned`):
the places a download can be in are disjoint and no queue repeats one (`Apart`);
whatever is anywhere has been issued, so a poll's Guids are new (`Issued`); and the
cache is read into an empty queue, once per process (`ReadOnce`). `PoolDrains` needs
that a worker looks at the images for the last time only once no thread is left
(`Spent`). It holds of a pool that has a worker: `ConfigProxyProvider` drops
connections that fail their test, and if all do, the cycle starts none and drops its
threads unpolled.

**TrackedThread.** `ProcessThreadUpdates` leaves exactly the poll in memory, and
`HasChanges` holds exactly when the poll differs from the memory. In the code the
memory is one of hashes, so a change whose hash collides is no change.

**ThreadArchive.** `IInv` follows a poll through its commits. `Seen` relates what the
archiver has to what was ever on the site, `Changes` and `Grows` the poll to both (a
stored version is at most the polled one, that at most the site's), `Remembers` the
tracker to the poll. `Inserts`, `Writes` and `Written` say what of the poll the
backend has before each `SaveChanges`, `Flags` and `Forgotten` which posts are
flagged or about to be. `TrackerMatchesBackend` is then the state after the last
commit, and `ArchivedIsComplete` (`Archived`) comes from a poll that had the whole
thread. What a failed consume leaves behind breaks these chains; the conjuncts say
which of them survive `missed` (a failure in this process) and which need `~torn`
(no failure ever). `Mapped` is stronger than `DownloadsAreMapped` by the downloads
that the poll is about to return and those that are filed. `TextsOnlyGrow`, the
action property, needs `Grows` at the step that writes the updated posts.

`RecordImplemented` takes each action to one of `ThreadRecord` or to a stutter: a
`SaveChanges` is a `Write`, the last commit of an archived thread a `Close`, a failed
consume a `Break`, and what reopens a thread is a 404 or a malformed answer
(`OnlyUntrackingReopens`).
`IInv` does not say that a closed thread is left alone: a restarted process whose
archive listing names the thread queues it again when the backend does not report
its posts. `Final` adds that a thread closed without a failure is consumed no
further than to the insert of its row, which fails on the key.

**BoardPoll.** `ChangeIsListedAgain` and `RejectedIsNotPolled` are inductive beside
`Clocked` (nothing is later than the site's clock) and `Resting` (what a process
knows between two cycles); a `MinValue` in the future is excepted, as it bounds
nothing. `FallenIsFollowed` is about threads that fell; the inductive form
`Followed` speaks of every stored thread that is not flagged, and `Appeared`
excludes that a thread which the filter hides was ever tracked. That the newest time
of a listing exists, for boards of any size, is `HasMaximum`.

**PostUpload.** The server's half of `IInv` says that one request at a time is
between its number and its save (`Taken`), that there is a newest number and that it
is below a number being written (`Bounded`, `Numbered`), and that an accepted request
has stored its draft and its file (`Stored`). The forms' half is what closes the gap
between the server's read of `LastPostTimes` and its write: a form waits for its
newest request only (`Sequential`), so its next request passes the cooldown in a
later era than the last acceptance it was told of (`Cooled`). `AcceptedOnce` needs
the drafts: each belongs to one form (`Owned`), and one that was accepted stays in a
form only while its page is being left (`Once`), in which time the cooldown refuses
every further request of that page (`Left`). `Cooled` and `Left` rest on what the
guard of `CooldownElapses` assumes: an answer is delivered and a page unloaded in
less than sixty seconds.

`LogImplemented` needs one invariant more. `Numbered` only says that numbers grow;
for the posts to be a list, `Consecutive` says that they are 1 to some n, that a
request that is writing has n + 1 and one that is saved has n. It holds because the
number is taken and used inside the semaphore, and an exception in between gives the
number back to the next. The steps that leave the log alone are those that take no
number and tell nobody (`Staged`, `Silent`).

**Browsing.** `PageInv` says of each kind of page what its fetches are of. `OnBoard`:
all are of the page in the address. `OnThreadPage`: unless two overlapped, the one
under way, or else what is shown, has the posts that are due. `OnSearch`: the
latest fetch is of the store's parameters, or, on a page that came from elsewhere, of
what was asked last. `TypeCorrect` has a content of its own here: the parameters of a
search stay in `Paged` because setting a page and deleting it again are closed
(`PagedIsClosed`). `ThreadsReachable` is a theorem about the page selector for every
count and page size: `PageOfThread` is the rounding of `PagesFor`, `ReachExists`
says that the recursive function of the property is one (its value is the set of
ends of walks along the links), `SelectorReaches` is the walk from page 1 upwards,
and `Counts` that a board page knows the one count of the server.

`MenuAgrees` is `GroupingsEqual` for the boards: grouping a list by one pass that
looks for the group of each board (`groupByArray`, for the menu) gives what the index
page gets from the set of categories and a filter for each. All three are folds, and
the library's induction theorems, which take an operator, cannot be used for them.
Instead a fold over indices is shown to have a value on every prefix (`FoldExists`),
which the next board determines from the one before (`MenuPrefixes`,
`CategoryPrefixes`, `FilterPrefixes`), and a shortest prefix on which the two
groupings differ is refuted with the well-foundedness of the numbers.

**ModeratorTab.** `Loop` is `OneLoop` with the page: active if and only if mounted,
and then one timer or one live request. `Heard` says that while nothing disturbed
the session at most one call is under way, and that what it was sent with will make
the role agree with the cookie when it is answered. `Attended` says of every open
menu that it has the focus or that a timer will give it. The three components' own
invariants are proved step by step for the composition, since it is `ModeratorTab`
that decides which of them a step moves.

Only model-checked:

- The liveness properties `CacheDrains`, `FallenIsForgotten`,
  `UploadsSettle`, `LoadingEnds`, `StatusCatchesUp`: fairness and ENABLED are out of
  their reach.
- The violations, which are counterexamples.

## 6. Not modelled, and the plan

Abstracted throughout: the content of posts and files, deduplication by file
hash, file bans, logging, progress, delays other than the cancellable one. In
`ThreadArchive` the thread filter and modification times; in `BoardPoll`
paginated sites and several boards, which share only locks.

Of the frontend: what is displayed (posts, media, back-quotes, themes, error
texts, progress in percent), the file hash of the search bar, whose input is
disabled, and helpers that nothing calls. Of the web server: bans, file
processing, reports, the administration tasks themselves, the queries.

Done: `ScrapeCycle` first, as it carries the promise not to lose downloads, then
`ThreadArchive` and `BoardPoll`, then the frontend with the parts of the web
server it races with. What is left, in this order:

1. `SearchSyncService`: index positions, persisted per batch, against index
   commits, per board, over crashes.
2. The importer: bounded queues, cancellation, `MultiDictionary` as a pure
   structure against a multiset.
3. The filesystem consumer: `thread.json` as a file that is truncated and
   rewritten.

Left out for good: the site APIs and importers, which parse; the Asagi
consumers, which are SQL for a schema of another project.
