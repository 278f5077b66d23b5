------------------------------ MODULE Browsing ------------------------------
(***************************************************************************)
(* One browser tab on the site: the routes of App.svelte, the pages that    *)
(* fetch what they show (ThreadPage, BoardPage, SearchPage), the search bar *)
(* and the search parameters it shares with SearchPage, the page selector   *)
(* and the list of boards.                                                  *)
(*                                                                         *)
(* A fetch is sent, served and then answered or failed; answers arrive in   *)
(* any order.  There is one board and one thread.  An address of the site   *)
(* and what a page asks the server for are both a place: a thread, a page   *)
(* of the board, a search or another page (IndexPage, LoginPage ...).       *)
(***************************************************************************)
EXTENDS FrontendUtility

CONSTANTS
  Fields,          \* the fields of the search bar
  BoardField,      \* the one with the selected board
  Values,          \* what can be entered in a field
  Categories,      \* the categories boards belong to
  MaxBoards,       \* bound: boards of the site
  BoardPageSize,
  SearchPageSize,
  ThreadCounts,    \* numbers of threads the board may have
  HitCounts,       \* numbers of results a search may have
  MaxBoardPage,    \* bound: page of an address of the board
  MaxPosts,        \* bound: posts of the thread
  MaxFetches       \* bound: fetches of one page

ASSUME BrowsingAssumption ==
  /\ BoardField \in Fields /\ "page" \notin Fields
  /\ {BoardPageSize, SearchPageSize} \subseteq Nat \ {0}
  /\ ThreadCounts \subseteq Nat /\ HitCounts \subseteq Nat
  /\ {MaxBoards, MaxBoardPage} \subseteq Nat /\ MaxPosts \in Nat \ {0}
  /\ MaxFetches \in Nat \ {0, 1}    \* a SearchPage may send two at once

VARIABLES
  (* the tab *)
  url,
  previous,           \* where Back leads within the loaded site
  searchParamStore,
  boardInfo,          \* boardInfoStore: "loading", "loaded" or "failed"
  (* the page that is mounted *)
  status,             \* "blank", "loading", "shown" or "failed"
  shown,              \* the answer it shows
  latest,             \* the fetch of dataPromise, which {#await} shows
  isRefreshing,
  fetches,            \* its fetches under way
  sent,               \* how many it has sent
  (* the server *)
  posts,              \* posts of the thread
  counted,            \* ThreadCountCache of the board, -1 if not yet counted
  (* history *)
  asked,              \* the search the user asked for last
  due,                \* posts the page was to show when it was last refreshed
  overlapped          \* two fetches of the page were under way together

pageVars == <<status, shown, latest, isRefreshing, fetches, sent, due, overlapped>>
vars == <<url, previous, searchParamStore, boardInfo, pageVars, posts, counted,
          asked>>

NoParams == [k \in {} |-> 0]   \* null, and {}: neither starts a search

Home == [at |-> "home"]
Thread == [at |-> "thread"]
Board(page) == [at |-> "board", page |-> page]
Search(params) == [at |-> "search", params |-> params]

(* Params(fields, allBoards): the fields that are not empty.                *)
Params(fields, allBoards) ==
  LET used == {f \in Fields : fields[f] # "" /\ ~(f = BoardField /\ allBoards)}
  IN  [f \in used |-> fields[f]]

Entered == [Fields -> Values \union {""}]
Queries == {Params(fields, FALSE) : fields \in Entered}

Page(params) == IF "page" \in DOMAIN params THEN params["page"] ELSE 1
HitPages == UNION {0..PagesFor(hits, SearchPageSize) : hits \in HitCounts}
WithPage(params, page) ==
  [k \in DOMAIN params \union {"page"} |->
     IF k = "page" THEN page ELSE params[k]]
Paged == Queries \union {WithPage(q, p) : q \in Queries, p \in HitPages \ {0, 1}}

Urls == {Home, Thread} \union {Board(p) : p \in 0..MaxBoardPage}
          \union {Search(q) : q \in Queries}
Nowhere == [at |-> "nowhere"]

Places == Urls \union {Search(q) : q \in Paged}
Sizes == {-1} \union 1..MaxPosts \union ThreadCounts \union HitCounts
Answers == [of : Places, size : Sizes]
NoAnswer == [of |-> Home, size |-> -1]

TypeOK ==
  /\ url \in Urls /\ previous \in Urls \union {Nowhere}
  /\ searchParamStore \in Paged
  /\ boardInfo \in {"loading", "loaded", "failed"}
  /\ status \in {"blank", "loading", "shown", "failed"}
  /\ shown \in Answers
  /\ sent \in 0..MaxFetches /\ latest \in 0..sent
  /\ fetches \subseteq [n : 1..sent, of : Places, size : Sizes,
                        refresh : BOOLEAN]
  /\ isRefreshing \in BOOLEAN /\ overlapped \in BOOLEAN
  /\ posts \in 1..MaxPosts /\ due \in 0..MaxPosts
  /\ counted \in ThreadCounts \union {-1}
  /\ asked \in Paged

-----------------------------------------------------------------------------
(* Mounting a page: what it asks for first.  The fetches of the page that   *)
(* is left behind have no effect on what is shown.                          *)

Fetch(n, place, refresh) ==
  [n |-> n, of |-> place, size |-> -1, refresh |-> refresh]

Wanted(params) == IF params = NoParams THEN <<>> ELSE <<Search(params)>>

(* SearchPage subscribes to the store, which starts a search at once if it  *)
(* is not empty, and then searches for the query of its address.            *)
FirstFetches(u, store) ==
  LET wanted == CASE u.at \in {"thread", "board"} -> <<u>>
                  [] u.at = "search" -> Wanted(store) \o Wanted(u.params)
                  [] OTHER -> <<>>
  IN  [n \in DOMAIN wanted |-> Fetch(n, wanted[n], FALSE)]

Mount(u, store) ==
  LET first == FirstFetches(u, store)
  IN  /\ fetches' = {first[n] : n \in DOMAIN first}
      /\ sent' = Len(first) /\ latest' = Len(first)
      /\ status' = IF first = <<>> THEN "blank" ELSE "loading"
      /\ shown' = NoAnswer /\ isRefreshing' = FALSE
      /\ due' = 0 /\ overlapped' = FALSE

\* Mutant of Remounts: the board's pages are not keyed.
RemountsUnkeyed(u, v) == u.at # v.at

(* Whether App.svelte mounts a new page: the pages of the board are keyed,  *)
(* an address that only differs in its query is the same SearchPage.        *)
Remounts(u, v) == u.at # v.at \/ (u.at = "board" /\ u # v)

Show(u, store) == IF Remounts(url, u) THEN Mount(u, store) ELSE UNCHANGED pageVars

Goto(u) == url' = u /\ previous' = url

Sought(u) == IF u.at = "search" THEN u.params ELSE NoParams

Init ==
  /\ url = Home /\ previous = Nowhere
  /\ searchParamStore = NoParams /\ asked = NoParams
  /\ boardInfo = "loading"
  /\ status = "blank" /\ shown = NoAnswer /\ latest = 0
  /\ isRefreshing = FALSE /\ fetches = {} /\ sent = 0
  /\ due = 0 /\ overlapped = FALSE
  /\ posts = 1 /\ counted = -1

(* The site is loaded anew at an address: a link from elsewhere, the        *)
(* address bar, a reload, a tinro-ignore link.  main.js starts it.          *)
Load(u) ==
  /\ url' = u /\ previous' = Nowhere
  /\ searchParamStore' = NoParams /\ asked' = Sought(u)
  /\ boardInfo' = "loading"
  /\ Mount(u, NoParams)
  /\ UNCHANGED <<posts, counted>>

(* A link of the site that the router follows.  Links to a thread shown by  *)
(* its own page are tinro-ignore.                                           *)
FollowLink(u) ==
  /\ u \in {Home, Thread, Board(1)} /\ u # url
  /\ Goto(u) /\ Show(u, searchParamStore)
  /\ asked' = NoParams
  /\ UNCHANGED <<searchParamStore, boardInfo, posts, counted>>

(* Back, or forward again. *)
Back ==
  /\ previous # Nowhere
  /\ Goto(previous) /\ Show(previous, searchParamStore)
  /\ asked' = Sought(previous)
  /\ UNCHANGED <<searchParamStore, boardInfo, posts, counted>>

-----------------------------------------------------------------------------
(* Searching. *)

(* search() of a SearchPage that is mounted: dataPromise is a new fetch.    *)
Requests(place) ==
  /\ sent < MaxFetches
  /\ sent' = sent + 1 /\ latest' = sent'
  /\ fetches' = fetches \union {Fetch(sent', place, FALSE)}
  /\ status' = "loading"
  /\ UNCHANGED <<shown, isRefreshing, due, overlapped>>

(* SearchPage's subscription to searchParamStore. *)
StoreIsSet(params) ==
  /\ searchParamStore' = params
  /\ IF params = NoParams THEN UNCHANGED pageVars ELSE Requests(Search(params))

(* The search bar's Search(allBoards), with any content of its fields: the  *)
(* router is sent to the query's address and the store is set.              *)
SearchBar(fields, allBoards) ==
  LET params == Params(fields, allBoards)
  IN  /\ params # NoParams
      /\ fields[BoardField] # "" => boardInfo = "loaded"
      /\ Goto(Search(params))
      /\ asked' = params
      /\ IF url.at = "search"
           THEN StoreIsSet(params)
           ELSE /\ searchParamStore' = params
                /\ Mount(Search(params), params)
      /\ UNCHANGED <<boardInfo, posts, counted>>

(* Its Enter key and its two buttons, over whatever the inputs hold. *)
PressesSearch == \E fields \in Entered, all \in BOOLEAN : SearchBar(fields, all)

\* Mutant of TurnResults: every page is put into the store.
TurnResultsPlainly(page) ==
  /\ url.at = "search" /\ status = "shown"
  /\ page \in FocusablePages(Page(searchParamStore),
                             PagesFor(shown.size, SearchPageSize))
  /\ StoreIsSet(WithPage(searchParamStore, page))
  /\ asked' = WithPage(asked, page)
  /\ UNCHANGED <<url, previous, boardInfo, posts, counted>>

(* navigatePage of SearchPage.  For page 1 the store keeps the page it has, *)
(* and its subscribers are notified; without parameters an exception ends   *)
(* the click.                                                               *)
TurnResults(page) ==
  /\ url.at = "search" /\ status = "shown"
  /\ page \in FocusablePages(Page(searchParamStore),
                             PagesFor(shown.size, SearchPageSize))
  /\ IF page <= 1
       THEN searchParamStore # NoParams /\ StoreIsSet(searchParamStore)
       ELSE StoreIsSet(WithPage(searchParamStore, page))
  /\ asked' = IF page <= 1 THEN [k \in DOMAIN asked \ {"page"} |-> asked[k]]
                           ELSE WithPage(asked, page)
  /\ UNCHANGED <<url, previous, boardInfo, posts, counted>>

-----------------------------------------------------------------------------
(* The board. *)

(* BoardPage's maxPage: its own page until the board's answer is there.     *)
MaxPage == IF status = "shown" THEN PagesFor(shown.size, BoardPageSize)
                               ELSE url.page

(* navigatePage of BoardPage. *)
TurnPage(page) ==
  /\ url.at = "board" /\ page # url.page
  /\ page \in FocusablePages(url.page, MaxPage) \intersect 0..MaxBoardPage
  /\ Goto(Board(page)) /\ Show(Board(page), searchParamStore)
  /\ asked' = NoParams
  /\ UNCHANGED <<searchParamStore, boardInfo, posts, counted>>

-----------------------------------------------------------------------------
(* The thread. *)

OnThread == url.at = "thread" /\ status = "shown"

(* Refresh(): a second one may start before the first has ended. *)
Refresh(expected) ==
  /\ sent < MaxFetches
  /\ isRefreshing' = TRUE
  /\ sent' = sent + 1
  /\ fetches' = fetches \union {Fetch(sent', Thread, TRUE)}
  /\ overlapped' = (overlapped \/ fetches # {})
  /\ due' = expected
  /\ UNCHANGED <<status, shown, latest>>

ClickRefresh ==
  /\ OnThread
  /\ Refresh(posts)
  /\ UNCHANGED <<url, previous, searchParamStore, boardInfo, posts, counted, asked>>

\* Mutant of ReplySucceeds: the uploader's success event is not handled.
ReplyUnnoticed ==
  /\ OnThread /\ posts < MaxPosts
  /\ posts' = posts + 1
  /\ due' = posts'
  /\ UNCHANGED <<url, previous, searchParamStore, boardInfo, status, shown,
                 latest, isRefreshing, fetches, sent, overlapped, counted, asked>>

(* The uploader's success event. *)
ReplySucceeds ==
  /\ OnThread /\ posts < MaxPosts
  /\ posts' = posts + 1
  /\ Refresh(posts')
  /\ UNCHANGED <<url, previous, searchParamStore, boardInfo, counted, asked>>

SomeonePosts ==
  /\ posts < MaxPosts
  /\ posts' = posts + 1
  /\ UNCHANGED <<url, previous, searchParamStore, boardInfo, pageVars, counted,
                 asked>>

-----------------------------------------------------------------------------
(* The server reads its database, and the answer or a failure arrives.      *)

Served(f) == f.size # -1

(* The board's threads are counted once, and never again; a page below 1    *)
(* has a negative offset and no answer.                                     *)
Serve(f) ==
  /\ ~Served(f)
  /\ \E size \in Sizes \ {-1} :
       /\ fetches' = (fetches \ {f}) \union {[f EXCEPT !.size = size]}
       /\ CASE f.of.at = "thread" -> size = posts /\ UNCHANGED counted
            [] f.of.at = "board"  -> /\ f.of.page >= 1
                                     /\ size \in IF counted = -1 THEN ThreadCounts
                                                                 ELSE {counted}
                                     /\ counted' = size
            [] f.of.at = "search" -> size \in HitCounts /\ UNCHANGED counted
  /\ UNCHANGED <<url, previous, searchParamStore, boardInfo, status, shown, latest,
                 isRefreshing, sent, due, overlapped, posts, asked>>

(* {#await dataPromise} shows what the latest fetch brings, FetchThread     *)
(* what any of its fetches does.                                            *)
IsShown(f) == url.at = "thread" \/ f.n = latest

\* Mutant of Arrives: the answer of any fetch is shown.
ArrivesLate(f) ==
  /\ Served(f)
  /\ fetches' = fetches \ {f}
  /\ shown' = [of |-> f.of, size |-> f.size] /\ status' = "shown"
  /\ isRefreshing' = (isRefreshing /\ ~f.refresh)
  /\ UNCHANGED <<url, previous, searchParamStore, boardInfo, latest, sent, due,
                 overlapped, posts, counted, asked>>

Arrives(f) ==
  /\ Served(f)
  /\ fetches' = fetches \ {f}
  /\ IF IsShown(f)
       THEN shown' = [of |-> f.of, size |-> f.size] /\ status' = "shown"
       ELSE UNCHANGED <<shown, status>>
  /\ isRefreshing' = (isRefreshing /\ ~f.refresh)
  /\ UNCHANGED <<url, previous, searchParamStore, boardInfo, latest, sent, due,
                 overlapped, posts, counted, asked>>

\* Mutant of Fails: FetchThread lets the exception out of Refresh.
FailsRefreshing(f) ==
  /\ fetches' = fetches \ {f}
  /\ status' = IF IsShown(f) THEN "failed" ELSE status
  /\ UNCHANGED <<url, previous, searchParamStore, boardInfo, shown, latest, sent,
                 isRefreshing, due, overlapped, posts, counted, asked>>

(* FetchThread catches; {:catch} shows an error. *)
Fails(f) ==
  /\ fetches' = fetches \ {f}
  /\ status' = IF IsShown(f) THEN "failed" ELSE status
  /\ isRefreshing' = (isRefreshing /\ ~f.refresh)
  /\ UNCHANGED <<url, previous, searchParamStore, boardInfo, shown, latest, sent,
                 due, overlapped, posts, counted, asked>>

(* GetBoardInfoAsync, which initStores started. *)
BoardsArrive ==
  /\ boardInfo = "loading"
  /\ boardInfo' \in {"loaded", "failed"}
  /\ UNCHANGED <<url, previous, searchParamStore, pageVars, posts, counted, asked>>

-----------------------------------------------------------------------------
User == \/ \E u \in Urls : Load(u) \/ FollowLink(u)
        \/ Back \/ ClickRefresh \/ ReplySucceeds
        \/ PressesSearch
        \/ \E page \in HitPages : TurnResults(page)
        \/ \E page \in 0..MaxBoardPage : TurnPage(page)

Next == \/ User \/ SomeonePosts \/ BoardsArrive
        \/ \E f \in fetches : Serve(f) \/ Arrives(f) \/ Fails(f)

Spec == Init /\ [][Next]_vars

(* A fetch is answered or fails in the end. *)
Ends(n) == \E f \in fetches : f.n = n /\ (Arrives(f) \/ Fails(f))

FairSpec == Spec /\ \A n \in 1..MaxFetches : WF_vars(Ends(n))

-----------------------------------------------------------------------------
(* Properties. *)

(* A page of the board shows the threads of the page its address names,     *)
(* however one got there: turning pages, Back, links or while earlier pages *)
(* were still loading.                                                      *)
ListIsOfAddress == url.at = "board" /\ status = "shown" => shown.of = url

(* A thread page at rest shows every post it had when it was last refreshed *)
(* and the user's own reply, unless two of its fetches were under way       *)
(* together: then the earlier answer may be shown over the later one.       *)
ShowsWhatWasRefreshed ==
  OnThread /\ fetches = {} /\ ~overlapped => shown.size >= due

(* The results shown are those the user asked for last, when the store of   *)
(* search parameters agrees with that or is empty: an older search that     *)
(* answers late is not shown.                                               *)
ResultsAreThoseAsked ==
  url.at = "search" /\ status = "shown" /\ searchParamStore \in {asked, NoParams}
    => shown.of = Search(asked)

(* From any page of the board that is shown, the links of the page selector *)
(* lead to every page that has one of the threads the server counted, also  *)
(* from a page beyond the last one.                                         *)
EveryThreadIsReachable ==
  url.at = "board" /\ status = "shown" =>
    LET reach[n \in Nat] ==
          IF n = 0 THEN {url.page}
          ELSE reach[n - 1] \union
                 UNION {OfferedPages(p, MaxPage) : p \in reach[n - 1]}
    IN  \A t \in 1..counted :
          \E p \in reach[MaxPage + 1] :
            t \in (p - 1) * BoardPageSize + 1 .. p * BoardPageSize

(* The compact menu of the boards above every page and the list on the      *)
(* index page, which group the boards in two different ways, show the same  *)
(* groups in the same order, whatever boards the server lists.              *)
BoardLists ==
  UNION {{[i \in 1..n |-> [name |-> i, category |-> category[i]]] :
            category \in [1..n -> Categories]} : n \in 0..MaxBoards}

GroupingsAgree ==
  \A boards \in BoardLists : GroupByArray(boards) = IndexGroups(boards)

MenuIsIndex == boardInfo = "loaded" => GroupingsAgree

(* When the user stops clicking, whatever was being loaded or refreshed is  *)
(* so no more in the end: an answer or an error is shown, however many      *)
(* fetches fail or are overtaken.                                           *)
LoadingEnds == \/ []<><<User>>_vars
               \/ <>[](status # "loading" /\ ~isRefreshing)

=============================================================================
