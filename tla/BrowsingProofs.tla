---------------------------- MODULE BrowsingProofs ----------------------------
(***************************************************************************)
(* The safety of Browsing, for all fields and values of the search bar,    *)
(* sizes and numbers of pages and fetches: what a page shows is what its   *)
(* address and the user asked for, however answers overtake each other.    *)
(***************************************************************************)
EXTENDS Browsing, FrontendUtilityProofs, SequenceTheorems, WellFoundedInduction, TLAPS

-----------------------------------------------------------------------------
(* The parameters of a search. *)

\* What the search bar sends is a query, whichever boards are ticked.
LEMMA ParamsAreQueries ==
  ASSUME NEW fields \in Entered, NEW all \in BOOLEAN
  PROVE  Params(fields, all) \in Queries
<1> DEFINE g == [f \in Fields |-> IF all /\ f = BoardField THEN "" ELSE fields[f]]
<1>1. fields \in [Fields -> Values \cup {""}]
  BY DEF Entered
<1>2. g \in Entered
  BY <1>1 DEF Entered
<1> DEFINE used == {f \in Fields : fields[f] # "" /\ ~(f = BoardField /\ all)}
<1>3. used = {f \in Fields : g[f] # "" /\ ~(f = BoardField /\ FALSE)}
  BY <1>1
<1>4. \A f \in used : g[f] = fields[f]
  BY <1>1
<1>5. Params(fields, all) = [f \in used |-> fields[f]]
  BY DEF Params
<1>6. Params(g, FALSE) = [f \in used |-> g[f]]
  BY <1>3 DEF Params
<1> HIDE DEF g, used
<1>7. Params(fields, all) = Params(g, FALSE)
  BY <1>4, <1>5, <1>6
<1>8. QED
  BY <1>2, <1>7 DEF Queries

\* An empty search bar sends no parameters.
LEMMA NoParamsIsQuery == NoParams \in Queries
<1> DEFINE g == [f \in Fields |-> ""]
<1>1. g \in Entered
  BY DEF Entered
<1>2. {f \in Fields : g[f] # "" /\ ~(f = BoardField /\ FALSE)} = {}
  OBVIOUS
<1>3. Params(g, FALSE) = [f \in {} |-> g[f]]
  BY <1>2 DEF Params
<1>4. [f \in {} |-> g[f]] = NoParams
  BY DEF NoParams
<1> HIDE DEF g
<1>5. QED
  BY <1>1, <1>3, <1>4 DEF Queries

\* The page is no field of the search bar.
LEMMA QueriesHaveNoPage ==
  ASSUME NEW q \in Queries
  PROVE  "page" \notin DOMAIN q /\ q = [k \in DOMAIN q |-> q[k]]
<1>1. PICK fields \in Entered : q = Params(fields, FALSE)
  BY DEF Queries
<1> DEFINE used == {f \in Fields : fields[f] # "" /\ ~(f = BoardField /\ FALSE)}
<1>2. q = [f \in used |-> fields[f]]
  BY <1>1 DEF Params
<1>3. "page" \notin used
  BY BrowsingAssumption
<1> HIDE DEF used
<1>4. QED
  BY <1>2, <1>3

\* Turning to a page, and back to the first one, stays within the parameters a
\* search can have.
LEMMA PagedIsClosed ==
  ASSUME NEW s \in Paged
  PROVE  /\ \A p \in HitPages \ {0, 1} :
              WithPage(s, p) \in Paged /\ WithPage(s, p) # NoParams
         /\ [k \in DOMAIN s \ {"page"} |-> s[k]] \in Paged
<1>1. PICK q \in Queries : s = q \/ \E r \in HitPages \ {0, 1} : s = WithPage(q, r)
  BY DEF Paged
<1>2. "page" \notin DOMAIN q /\ q = [k \in DOMAIN q |-> q[k]]
  BY QueriesHaveNoPage
<1>3. /\ DOMAIN s \cup {"page"} = DOMAIN q \cup {"page"}
      /\ DOMAIN s \ {"page"} = DOMAIN q
      /\ \A k \in DOMAIN q : s[k] = q[k]
  <2>1. CASE s = q
    BY <1>2, <2>1
  <2>2. CASE \E r \in HitPages \ {0, 1} : s = WithPage(q, r)
    BY <1>2, <2>2 DEF WithPage
  <2>3. QED
    BY <1>1, <2>1, <2>2
<1>4. ASSUME NEW p \in HitPages \ {0, 1}
      PROVE  WithPage(s, p) \in Paged /\ WithPage(s, p) # NoParams
  <2>1. \A k \in DOMAIN s \cup {"page"} :
          (IF k = "page" THEN p ELSE s[k]) = (IF k = "page" THEN p ELSE q[k])
    BY <1>3
  <2>2. WithPage(s, p) = WithPage(q, p)
    BY <1>3, <2>1 DEF WithPage
  <2>3. WithPage(q, p) \in Paged
    BY DEF Paged
  <2>4. "page" \in DOMAIN WithPage(q, p) /\ DOMAIN NoParams = {}
    BY DEF WithPage, NoParams
  <2>5. QED
    BY <2>2, <2>3, <2>4
<1>5. [k \in DOMAIN s \ {"page"} |-> s[k]] = q
  BY <1>2, <1>3
<1>6. q \in Paged
  BY DEF Paged
<1>7. QED
  BY <1>4, <1>5, <1>6

-----------------------------------------------------------------------------
(* The page that is mounted. *)

TabTypes ==
  /\ url \in Urls /\ previous \in Urls \cup {Nowhere}
  /\ searchParamStore \in Paged /\ asked \in Paged
  /\ boardInfo \in {"loading", "loaded", "failed"}
  /\ posts \in 1..MaxPosts
  /\ counted \in ThreadCounts \cup {-1}

PageTypes ==
  /\ status \in {"blank", "loading", "shown", "failed"}
  /\ shown \in Answers
  /\ sent \in 0..MaxFetches /\ latest \in 0..sent
  /\ fetches \subseteq [n : 1..sent, of : Places, size : Sizes,
                        refresh : BOOLEAN]
  /\ isRefreshing \in BOOLEAN /\ overlapped \in BOOLEAN
  /\ due \in 0..MaxPosts

\* A page only asks for what the server can answer.
Asking == \A f \in fetches : f.of.at \in {"thread", "board", "search"}

\* A page of the board asks for the page of its address, and for nothing else.
OnBoard ==
  url.at = "board" =>
    /\ \A f \in fetches : f.of = url
    /\ status = "shown" => shown.of = url

\* Of a thread there are never fewer posts than at its last refresh; while its
\* fetches do not overlap, the one under way brings at least those.
OnThreadPage ==
  url.at = "thread" =>
    /\ \A f \in fetches : f.of = Thread
    /\ due <= posts
    /\ ~overlapped =>
         /\ \A f, g \in fetches : f = g
         /\ \A f \in fetches : Served(f) => f.size >= due
         /\ status = "shown" /\ fetches = {} => shown.size >= due

\* The latest search of a search page, under way or shown, is for these
\* parameters.
LatestIs(params) ==
  /\ \A f \in fetches : f.n = latest => f.of = Search(params)
  /\ status = "shown" => shown.of = Search(params)

\* The latest search is that of the store; or that of the address, if the page
\* was mounted for it and the search bar was not used since.
OnSearch ==
  url.at = "search" =>
    \/ searchParamStore # NoParams /\ LatestIs(searchParamStore)
    \/ previous.at # "search" /\ LatestIs(asked)

PageInv == PageTypes /\ Asking /\ OnBoard /\ OnThreadPage /\ OnSearch

IInv == TabTypes /\ PageInv

\* The addresses of the site, and the places pages ask the server for.
LEMMA UrlsAre ==
  /\ Home \in Urls /\ Thread \in Urls
  /\ \A q \in Queries : Search(q) \in Urls
  /\ Urls \subseteq Places
  /\ \A q \in Paged : Search(q) \in Places
  /\ \A u \in Urls : u.at \in {"home", "thread", "board", "search"}
  /\ \A u \in Urls : u.at = "home" => u = Home
  /\ \A u \in Urls : u.at = "thread" => u = Thread
  /\ \A u \in Urls : u.at = "search" =>
       u.params \in Queries /\ u = Search(u.params)
<1>1. /\ Home \in Urls /\ Thread \in Urls
      /\ \A q \in Queries : Search(q) \in Urls
      /\ Urls \subseteq Places
  BY DEF Urls, Places
<1>2. \A q \in Paged : Search(q) \in Places
  BY DEF Places, Urls, Paged
<1>3. ASSUME NEW u \in Urls
      PROVE  /\ u.at \in {"home", "thread", "board", "search"}
             /\ u.at = "home" => u = Home
             /\ u.at = "thread" => u = Thread
             /\ u.at = "search" => u.params \in Queries /\ u = Search(u.params)
  <2>1. \/ u = Home \/ u = Thread
        \/ \E page \in 0..MaxBoardPage : u = Board(page)
        \/ \E q \in Queries : u = Search(q)
    BY DEF Urls
  <2>2. QED
    BY <2>1 DEF Home, Thread, Board, Search
<1>4. QED
  BY <1>1, <1>2, <1>3

\* A page that is mounted sends one fetch, two or none, the last of them for its
\* address, or for the store if the address has no parameters.
LEMMA MountSends ==
  ASSUME NEW u \in Urls, NEW store \in Paged, Mount(u, store)
  PROVE  /\ sent' \in 0..2 /\ latest' = sent'
         /\ \A f \in fetches' :
              /\ f \in [n : 1..sent', of : Places, size : {-1}, refresh : BOOLEAN]
              /\ f.of.at = u.at /\ u.at # "home"
              /\ u.at # "search" => f.of = u
         /\ u.at # "search" => \A f, g \in fetches' : f = g
         /\ u.at = "search" /\ u.params # NoParams =>
              \A f \in fetches' : f.n = latest' => f.of = u
         /\ u.at = "search" /\ u.params = NoParams =>
              \A f \in fetches' : store # NoParams /\ f.of = Search(store)
<1> DEFINE wanted == CASE u.at \in {"thread", "board"} -> <<u>>
                       [] u.at = "search" -> Wanted(store) \o Wanted(u.params)
                       [] OTHER -> <<>>
           first == [n \in DOMAIN wanted |-> Fetch(n, wanted[n], FALSE)]
<1>1. /\ fetches' = {first[n] : n \in DOMAIN first}
      /\ sent' = Len(first) /\ latest' = Len(first)
  BY DEF Mount, FirstFetches
<1>2. wanted \in Seq(Places)
  <2>1. u \in Places /\ Search(store) \in Places
    BY UrlsAre
  <2>2. u.at = "search" => u.params \in Queries /\ u = Search(u.params)
    BY UrlsAre
  <2>3. Wanted(store) \in Seq(Places)
    BY <2>1 DEF Wanted
  <2>4. u.at = "search" => Wanted(u.params) \in Seq(Places)
    BY <2>1, <2>2 DEF Wanted
  <2>5. u.at = "search" => Wanted(store) \o Wanted(u.params) \in Seq(Places)
    BY <2>3, <2>4, ConcatProperties
  <2>6. QED
    BY <2>1, <2>5
<1>3. /\ Len(wanted) \in 0..2 /\ DOMAIN wanted = 1..Len(wanted)
      /\ \A n \in 1..Len(wanted) :
           /\ wanted[n] \in Places /\ wanted[n].at = u.at /\ u.at # "home"
           /\ u.at # "search" => Len(wanted) = 1 /\ wanted[n] = u
           /\ u.at = "search" /\ u.params # NoParams =>
                wanted[Len(wanted)] = u
           /\ u.at = "search" /\ u.params = NoParams =>
                store # NoParams /\ wanted[n] = Search(store)
  <2>1. CASE u.at \in {"thread", "board"}
    <3>1. wanted = <<u>> /\ u \in Places
      BY <2>1, UrlsAre
    <3> HIDE DEF wanted
    <3>2. QED
      BY <2>1, <3>1
  <2>2. CASE u.at = "search"
    <3>1. /\ wanted = Wanted(store) \o Wanted(u.params)
          /\ u.params \in Queries /\ u = Search(u.params)
          /\ u \in Places /\ Search(store) \in Places
      BY <2>2, UrlsAre
    <3> DEFINE s == Wanted(store)
               t == Wanted(u.params)
    <3>2. \/ store = NoParams /\ s = <<>>
          \/ store # NoParams /\ s = <<Search(store)>>
      BY DEF Wanted
    <3>3. \/ u.params = NoParams /\ t = <<>>
          \/ u.params # NoParams /\ t = <<u>>
      BY <3>1 DEF Wanted
    <3>4. s \in Seq(Places) /\ t \in Seq(Places)
      <4>1. << >> \in Seq(Places) /\ <<u>> \in Seq(Places)
        BY <3>1
      <4>2. <<Search(store)>> \in Seq(Places)
        BY <3>1
      <4> HIDE DEF s, t
      <4>3. QED
        BY <3>2, <3>3, <4>1, <4>2
    <3>5. wanted = s \o t
      BY <3>1
    <3> HIDE DEF s, t, wanted
    <3>6. /\ Len(wanted) = Len(s) + Len(t)
          /\ \A n \in 1..Len(s) : wanted[n] = s[n]
          /\ \A n \in 1..Len(t) : wanted[n + Len(s)] = t[n]
          /\ DOMAIN wanted = 1..Len(wanted)
      BY <3>4, <3>5, ConcatProperties
    <3>7. Search(store).at = "search"
      BY DEF Search
    <3>8. CASE s = <<>> /\ t = <<>>
      BY <2>2, <3>2, <3>3, <3>6, <3>8
    <3>9. CASE s = <<Search(store)>> /\ t = <<>>
      BY <2>2, <3>1, <3>2, <3>3, <3>6, <3>7, <3>9
    <3>10. CASE s = <<>> /\ t = <<u>>
      BY <2>2, <3>1, <3>2, <3>3, <3>6, <3>10
    <3>11. CASE s = <<Search(store)>> /\ t = <<u>>
      <4>1. Len(s) = 1 /\ Len(t) = 1 /\ s[1] = Search(store) /\ t[1] = u
        BY <3>11
      <4>2. Len(wanted) = 2 /\ wanted[1] = Search(store) /\ wanted[2] = u
        BY <3>6, <4>1
      <4>3. u.params # NoParams
        BY <3>3, <3>11
      <4>4. QED
        BY <2>2, <3>1, <3>6, <3>7, <4>2, <4>3
    <3>12. QED
      BY <3>2, <3>3, <3>8, <3>9, <3>10, <3>11
  <2>3. CASE u.at = "home"
    <3>1. wanted = <<>>
      BY <2>3
    <3> HIDE DEF wanted
    <3>2. QED
      BY <3>1
  <2>4. QED
    BY <2>1, <2>2, <2>3, UrlsAre
<1> HIDE DEF wanted
<1> DEFINE Sent == {Fetch(n, wanted[n], FALSE) : n \in 1..Len(wanted)}
<1>4. first \in Seq(Sent)
  <2>1. first = [n \in 1..Len(wanted) |-> Fetch(n, wanted[n], FALSE)]
    BY <1>3
  <2>2. \A n \in 1..Len(wanted) : Fetch(n, wanted[n], FALSE) \in Sent
    OBVIOUS
  <2> HIDE DEF Sent, first
  <2>3. first \in [1..Len(wanted) -> Sent]
    BY <2>1, <2>2
  <2>4. Len(wanted) \in Nat
    BY <1>3
  <2>5. QED
    BY <2>3, <2>4, SeqDef
<1>5. Len(first) = Len(wanted)
  <2>1. DOMAIN first = 1..Len(wanted) /\ Len(wanted) \in Nat
    BY <1>3
  <2> HIDE DEF first, Sent
  <2>2. DOMAIN first = 1..Len(first) /\ Len(first) \in Nat
    BY <1>4, LenProperties
  <2>3. QED
    BY <2>1, <2>2
<1>6. ASSUME NEW f \in fetches'
      PROVE  \E n \in 1..Len(wanted) : f = Fetch(n, wanted[n], FALSE)
  BY <1>1, <1>3, <1>6
<1>7. \A n \in 1..Len(wanted) :
        LET f == Fetch(n, wanted[n], FALSE)
        IN  f.n = n /\ f.of = wanted[n] /\ f.size = -1
              /\ f \in [n : 1..Len(wanted), of : Places, size : {-1}, refresh : BOOLEAN]
  BY <1>3 DEF Fetch
<1> HIDE DEF first
<1>8. sent' = Len(wanted) /\ latest' = Len(wanted)
  BY <1>1, <1>5
<1>9. \A f \in fetches' :
        /\ f \in [n : 1..sent', of : Places, size : {-1}, refresh : BOOLEAN]
        /\ f.n \in 1..Len(wanted) /\ f.of = wanted[f.n]
        /\ f = Fetch(f.n, wanted[f.n], FALSE)
  <2>1. SUFFICES ASSUME NEW f \in fetches'
                 PROVE  /\ f \in [n : 1..sent', of : Places, size : {-1},
                                  refresh : BOOLEAN]
                        /\ f.n \in 1..Len(wanted) /\ f.of = wanted[f.n]
                        /\ f = Fetch(f.n, wanted[f.n], FALSE)
    OBVIOUS
  <2>2. PICK n \in 1..Len(wanted) : f = Fetch(n, wanted[n], FALSE)
    BY <1>6
  <2>3. QED
    BY <1>7, <1>8, <2>2
<1>10. \A f \in fetches' :
         /\ f.of.at = u.at /\ u.at # "home"
         /\ u.at # "search" => f.of = u
  BY <1>3, <1>9
<1>11. u.at # "search" => \A f, g \in fetches' : f = g
  <2>1. SUFFICES ASSUME u.at # "search", NEW f \in fetches', NEW g \in fetches'
                 PROVE  f = g
    OBVIOUS
  <2>2. f.n \in 1..Len(wanted) /\ g.n \in 1..Len(wanted)
    BY <1>9
  <2>3. Len(wanted) = 1
    BY <1>3, <2>1, <2>2
  <2>4. f.n = 1 /\ g.n = 1
    BY <2>2, <2>3
  <2>5. QED
    BY <1>9, <2>4
<1>12. QED
  BY <1>3, <1>8, <1>9, <1>10, <1>11

-----------------------------------------------------------------------------
(* What each step does to the page. *)

\* The sizes an answer can have.
LEMMA SizesAre == -1 \in Sizes /\ \A p \in 1..MaxPosts : p \in Sizes
BY DEF Sizes

\* A page that has just been mounted shows nothing, and asks for what its
\* address says.
LEMMA MountKeeps ==
  ASSUME NEW u \in Urls, NEW store \in Paged, Mount(u, store),
         url' = u, searchParamStore' = store, asked' = Sought(u),
         posts' \in 1..MaxPosts,
         u.at = "search" => previous'.at # "search"
  PROVE  PageInv'
<1>1. /\ shown' = NoAnswer /\ isRefreshing' = FALSE
      /\ due' = 0 /\ overlapped' = FALSE
      /\ status' = "blank" \/ status' = "loading"
  BY DEF Mount
<1>2. /\ sent' \in 0..2 /\ latest' = sent'
      /\ \A f \in fetches' :
           /\ f \in [n : 1..sent', of : Places, size : {-1}, refresh : BOOLEAN]
           /\ f.of.at = u.at /\ u.at # "home"
           /\ u.at # "search" => f.of = u
      /\ u.at # "search" => \A f, g \in fetches' : f = g
      /\ u.at = "search" /\ u.params # NoParams =>
           \A f \in fetches' : f.n = latest' => f.of = u
      /\ u.at = "search" /\ u.params = NoParams =>
           \A f \in fetches' : store # NoParams /\ f.of = Search(store)
  BY MountSends
<1>3. /\ u.at \in {"home", "thread", "board", "search"}
      /\ u.at = "thread" => u = Thread
      /\ u.at = "search" => u = Search(u.params)
  BY UrlsAre
<1>4. PageTypes'
  <2>1. sent' \in 0..MaxFetches /\ latest' \in 0..sent'
    BY <1>2, BrowsingAssumption
  <2>2. NoAnswer \in Answers
    BY SizesAre, UrlsAre DEF NoAnswer, Answers
  <2>3. \A f \in fetches' :
          f \in [n : 1..sent', of : Places, size : Sizes, refresh : BOOLEAN]
    BY <1>2, SizesAre
  <2>4. 0 \in 0..MaxPosts
    BY BrowsingAssumption
  <2>5. QED
    BY <1>1, <2>1, <2>2, <2>3, <2>4 DEF PageTypes
<1>5. Asking'
  BY <1>2, <1>3 DEF Asking
<1>6. OnBoard'
  BY <1>1, <1>2 DEF OnBoard
<1>7. OnThreadPage'
  <2>1. SUFFICES ASSUME u.at = "thread" PROVE OnThreadPage'
    BY DEF OnThreadPage
  <2>2. \A f \in fetches' : f.of = Thread /\ f.size = -1
    BY <1>2, <1>3, <2>1
  <2>3. due' <= posts'
    BY <1>1
  <2>4. \A f, g \in fetches' : f = g
    BY <1>2, <2>1
  <2>5. QED
    BY <1>1, <2>2, <2>3, <2>4 DEF OnThreadPage, Served
<1>8. OnSearch'
  <2>1. SUFFICES ASSUME u.at = "search" PROVE OnSearch'
    BY DEF OnSearch
  <2>2. asked' = u.params /\ previous'.at # "search"
    BY <2>1 DEF Sought
  <2>3. CASE u.params # NoParams
    BY <1>1, <1>2, <1>3, <2>1, <2>2, <2>3 DEF OnSearch, LatestIs
  <2>4. CASE u.params = NoParams /\ store # NoParams
    BY <1>1, <1>2, <2>1, <2>4 DEF OnSearch, LatestIs
  <2>5. CASE u.params = NoParams /\ store = NoParams
    BY <1>1, <1>2, <2>1, <2>2, <2>5 DEF OnSearch, LatestIs
  <2>6. QED
    BY <2>3, <2>4, <2>5
<1>9. QED
  BY <1>4, <1>5, <1>6, <1>7, <1>8 DEF PageInv

\* A page that stays as it is goes on showing what its address asks for.
LEMMA StaysKeeps ==
  ASSUME PageInv, UNCHANGED pageVars,
         url'.at = url.at, url.at = "board" => url' = url,
         posts \in Nat, posts' \in Nat, posts' >= posts,
         url.at = "search" =>
           /\ searchParamStore' = searchParamStore
           /\ \/ previous' = previous /\ asked' = asked
              \/ previous.at = "search"
  PROVE  PageInv'
<1>1. UNCHANGED <<status, shown, latest, isRefreshing, fetches, sent, due,
                  overlapped>>
  BY DEF pageVars
<1>2. PageTypes' /\ Asking' /\ OnBoard'
  BY <1>1 DEF PageInv, PageTypes, Asking, OnBoard
<1>3. OnThreadPage'
  <2>1. due \in Int
    BY DEF PageInv, PageTypes
  <2>2. due <= posts => due <= posts'
    BY <2>1
  <2>3. QED
    BY <1>1, <2>2 DEF PageInv, OnThreadPage, Served
<1>4. OnSearch'
  BY <1>1 DEF PageInv, OnSearch, LatestIs
<1>5. QED
  BY <1>2, <1>3, <1>4 DEF PageInv

\* A page that asks once more has one more fetch, with the next number.
LEMMA FetchIsNew ==
  ASSUME PageTypes, sent < MaxFetches, sent' = sent + 1,
         NEW place \in Places, NEW refresh \in BOOLEAN,
         fetches' = fetches \cup {Fetch(sent', place, refresh)}
  PROVE  /\ sent' \in 0..MaxFetches /\ sent \in 0..sent' /\ sent' \in 0..sent'
         /\ fetches' \subseteq [n : 1..sent', of : Places, size : Sizes,
                                refresh : BOOLEAN]
         /\ \A f \in fetches : f.n # sent'
         /\ LET f == Fetch(sent', place, refresh)
            IN  f.n = sent' /\ f.of = place /\ f.size = -1
<1>1. sent \in Nat /\ MaxFetches \in Nat /\ sent \in 0..MaxFetches
  BY BrowsingAssumption DEF PageTypes
<1>2. /\ sent' \in 0..MaxFetches /\ sent \in 0..sent' /\ sent' \in 1..sent'
      /\ sent' \in 0..sent' /\ 1..sent \subseteq 1..sent' /\ sent' \notin 1..sent
  BY <1>1
<1>3. fetches \subseteq [n : 1..sent, of : Places, size : Sizes, refresh : BOOLEAN]
  BY DEF PageTypes
<1>4. \A f \in fetches :
        /\ f \in [n : 1..sent', of : Places, size : Sizes, refresh : BOOLEAN]
        /\ f.n # sent'
  BY <1>2, <1>3
<1>5. LET f == Fetch(sent', place, refresh)
      IN  /\ f \in [n : 1..sent', of : Places, size : Sizes, refresh : BOOLEAN]
          /\ f.n = sent' /\ f.of = place /\ f.size = -1
  BY <1>2, SizesAre DEF Fetch
<1>6. QED
  BY <1>2, <1>4, <1>5

\* A search that is sent by the page that is mounted is that of the store.
LEMMA StoreKeeps ==
  ASSUME PageInv, url.at = "search", url'.at = "search",
         NEW params \in Paged, params # NoParams, StoreIsSet(params)
  PROVE  PageInv'
<1>1. /\ searchParamStore' = params
      /\ sent < MaxFetches /\ sent' = sent + 1 /\ latest' = sent'
      /\ fetches' = fetches \cup {Fetch(sent', Search(params), FALSE)}
      /\ status' = "loading"
      /\ UNCHANGED <<shown, isRefreshing, due, overlapped>>
  BY DEF StoreIsSet, Requests
<1>2. Search(params) \in Places /\ Search(params).at = "search"
  BY UrlsAre DEF Search
<1> DEFINE g == Fetch(sent', Search(params), FALSE)
<1>3. /\ sent' \in 0..MaxFetches /\ sent' \in 0..sent'
      /\ fetches' \subseteq [n : 1..sent', of : Places, size : Sizes,
                             refresh : BOOLEAN]
      /\ \A f \in fetches : f.n # sent'
      /\ g.of = Search(params)
  BY <1>1, <1>2, FetchIsNew DEF PageInv
<1>4. fetches' = fetches \cup {g}
  BY <1>1
<1> HIDE DEF g
<1>5. PageTypes'
  BY <1>1, <1>3 DEF PageInv, PageTypes
<1>6. Asking'
  BY <1>2, <1>3, <1>4 DEF PageInv, Asking
<1>7. OnBoard' /\ OnThreadPage'
  BY DEF OnBoard, OnThreadPage
<1>8. \A f \in fetches' : f.n = latest' => f.of = Search(params)
  BY <1>1, <1>3, <1>4
<1>9. OnSearch'
  BY <1>1, <1>8 DEF OnSearch, LatestIs
<1>10. QED
  BY <1>5, <1>6, <1>7, <1>9 DEF PageInv

\* A refresh of the thread will bring the posts there are now.
LEMMA RefreshKeeps ==
  ASSUME PageInv, OnThread, url' = url, posts' \in 1..MaxPosts, Refresh(posts')
  PROVE  PageInv'
<1>1. /\ url.at = "thread" /\ status = "shown"
      /\ sent < MaxFetches /\ sent' = sent + 1
      /\ fetches' = fetches \cup {Fetch(sent', Thread, TRUE)}
      /\ overlapped' = (overlapped \/ fetches # {})
      /\ due' = posts' /\ isRefreshing' = TRUE
      /\ UNCHANGED <<status, shown, latest>>
  BY DEF OnThread, Refresh
<1>2. Thread \in Places /\ Thread.at = "thread"
  BY UrlsAre DEF Thread
<1> DEFINE g == Fetch(sent', Thread, TRUE)
<1>3. /\ sent' \in 0..MaxFetches /\ sent \in 0..sent'
      /\ fetches' \subseteq [n : 1..sent', of : Places, size : Sizes,
                             refresh : BOOLEAN]
      /\ g.of = Thread /\ g.size = -1
  BY <1>1, <1>2, FetchIsNew DEF PageInv
<1>4. fetches' = fetches \cup {g}
  BY <1>1
<1> HIDE DEF g
<1>5. PageTypes'
  <2>1. latest' \in 0..sent'
    BY <1>1, <1>3 DEF PageInv, PageTypes
  <2>2. due' \in 0..MaxPosts /\ overlapped' \in BOOLEAN
    BY <1>1 DEF PageInv, PageTypes
  <2>3. QED
    BY <1>1, <1>3, <2>1, <2>2 DEF PageInv, PageTypes
<1>6. Asking'
  BY <1>2, <1>3, <1>4 DEF PageInv, Asking
<1>7. OnBoard' /\ OnSearch'
  BY <1>1 DEF OnBoard, OnSearch
<1>8. OnThreadPage'
  <2>1. \A f \in fetches' : f.of = Thread
    BY <1>1, <1>3, <1>4 DEF PageInv, OnThreadPage
  <2>2. due' <= posts'
    BY <1>1
  <2>3. ~overlapped' => fetches' = {g}
    BY <1>1, <1>4
  <2>4. QED
    BY <1>3, <2>1, <2>2, <2>3 DEF OnThreadPage, Served
<1>9. QED
  BY <1>5, <1>6, <1>7, <1>8 DEF PageInv

\* The server reads as many posts as the thread has: at least those it had when
\* the page was last refreshed.
LEMMA ServeKeeps ==
  ASSUME TabTypes, PageInv, NEW f \in fetches, Serve(f)
  PROVE  TabTypes' /\ PageInv'
<1>1. PICK size \in Sizes \ {-1} :
        /\ fetches' = (fetches \ {f}) \cup {[f EXCEPT !.size = size]}
        /\ CASE f.of.at = "thread" -> size = posts /\ UNCHANGED counted
             [] f.of.at = "board"  -> /\ f.of.page >= 1
                                      /\ size \in IF counted = -1 THEN ThreadCounts
                                                                  ELSE {counted}
                                      /\ counted' = size
             [] f.of.at = "search" -> size \in HitCounts /\ UNCHANGED counted
  BY DEF Serve
<1>2. UNCHANGED <<url, previous, searchParamStore, boardInfo, status, shown, latest,
                  isRefreshing, sent, due, overlapped, posts, asked>>
  BY DEF Serve
<1> DEFINE g == [f EXCEPT !.size = size]
<1>3. /\ f \in [n : 1..sent, of : Places, size : Sizes, refresh : BOOLEAN]
      /\ f.of.at \in {"thread", "board", "search"}
  BY DEF PageInv, PageTypes, Asking
<1>4. /\ g \in [n : 1..sent, of : Places, size : Sizes, refresh : BOOLEAN]
      /\ g.n = f.n /\ g.of = f.of /\ g.size = size
  BY <1>3
<1>5. fetches' = (fetches \ {f}) \cup {g}
  BY <1>1
<1>6. counted' \in ThreadCounts \cup {-1}
  <2>1. counted \in ThreadCounts \cup {-1}
    BY DEF TabTypes
  <2>2. CASE f.of.at = "thread" \/ f.of.at = "search"
    BY <1>1, <2>1, <2>2
  <2>3. CASE f.of.at = "board"
    BY <1>1, <2>1, <2>3
  <2>4. QED
    BY <1>3, <2>2, <2>3
<1>7. f.of.at = "thread" => size = posts
  BY <1>1
<1> HIDE DEF g
<1>8. TabTypes'
  BY <1>2, <1>6 DEF TabTypes
<1>9. PageTypes'
  BY <1>2, <1>4, <1>5 DEF PageInv, PageTypes
<1>10. Asking'
  BY <1>3, <1>4, <1>5 DEF PageInv, Asking
<1>11. OnBoard'
  BY <1>2, <1>4, <1>5 DEF PageInv, OnBoard
<1>12. OnThreadPage'
  <2>1. SUFFICES ASSUME url.at = "thread" PROVE OnThreadPage'
    BY <1>2 DEF OnThreadPage
  <2>2. /\ \A h \in fetches : h.of = Thread
        /\ due <= posts
        /\ ~overlapped => \A h, i \in fetches : h = i
    BY <2>1 DEF PageInv, OnThreadPage
  <2>3. g.size = posts /\ g.of = Thread
    BY <1>4, <1>7, <2>2 DEF Thread
  <2>4. ~overlapped => fetches' = {g}
    BY <1>5, <2>2
  <2>5. QED
    BY <1>2, <1>5, <2>2, <2>3, <2>4 DEF OnThreadPage
<1>13. OnSearch'
  <2>1. ASSUME NEW params, LatestIs(params) PROVE LatestIs(params)'
    BY <1>2, <1>4, <1>5, <2>1 DEF LatestIs
  <2>2. QED
    BY <1>2, <2>1 DEF PageInv, OnSearch
<1>14. QED
  BY <1>8, <1>9, <1>10, <1>11, <1>12, <1>13 DEF PageInv

\* An answer that is shown is that of the latest fetch, or one for the thread.
LEMMA ArrivesKeeps ==
  ASSUME TabTypes, PageInv, NEW f \in fetches, Arrives(f)
  PROVE  PageInv'
<1>1. /\ Served(f) /\ fetches' = fetches \ {f}
      /\ isRefreshing' = (isRefreshing /\ ~f.refresh)
      /\ UNCHANGED <<url, previous, searchParamStore, boardInfo, latest, sent, due,
                     overlapped, posts, counted, asked>>
  BY DEF Arrives
<1>2. /\ IsShown(f) => shown' = [of |-> f.of, size |-> f.size] /\ status' = "shown"
      /\ ~IsShown(f) => shown' = shown /\ status' = status
  BY DEF Arrives
<1>3. /\ f \in [n : 1..sent, of : Places, size : Sizes, refresh : BOOLEAN]
      /\ fetches \subseteq [n : 1..sent, of : Places, size : Sizes, refresh : BOOLEAN]
  BY DEF PageInv, PageTypes
<1>4. PageTypes'
  <2>1. shown' \in Answers /\ status' \in {"blank", "loading", "shown", "failed"}
    BY <1>2, <1>3 DEF PageInv, PageTypes, Answers
  <2>2. isRefreshing' \in BOOLEAN
    BY <1>1, <1>3 DEF PageInv, PageTypes
  <2>3. QED
    BY <1>1, <1>3, <2>1, <2>2 DEF PageInv, PageTypes
<1>5. Asking'
  BY <1>1 DEF PageInv, Asking
<1>6. OnBoard'
  BY <1>1, <1>2 DEF PageInv, OnBoard
<1>7. OnThreadPage'
  <2>1. SUFFICES ASSUME url.at = "thread" PROVE OnThreadPage'
    BY <1>1 DEF OnThreadPage
  <2>2. /\ \A h \in fetches : h.of = Thread
        /\ due <= posts
        /\ ~overlapped => /\ \A h, i \in fetches : h = i
                          /\ \A h \in fetches : Served(h) => h.size >= due
    BY <2>1 DEF PageInv, OnThreadPage
  <2>3. shown'.size = f.size
    BY <1>2, <2>1 DEF IsShown
  <2>4. QED
    BY <1>1, <2>2, <2>3 DEF OnThreadPage
<1>8. OnSearch'
  <2>1. SUFFICES ASSUME url.at = "search" PROVE OnSearch'
    BY <1>1 DEF OnSearch
  <2>2. ASSUME NEW params, LatestIs(params) PROVE LatestIs(params)'
    <3>1. IsShown(f) => f.n = latest
      BY <2>1 DEF IsShown
    <3>2. status' = "shown" => shown'.of = Search(params)
      BY <1>2, <2>2, <3>1 DEF LatestIs
    <3>3. QED
      BY <1>1, <2>2, <3>2 DEF LatestIs
  <2>3. QED
    BY <1>1, <2>2 DEF PageInv, OnSearch
<1>9. QED
  BY <1>4, <1>5, <1>6, <1>7, <1>8 DEF PageInv

\* A failure shows nothing new.
LEMMA FailsKeeps ==
  ASSUME TabTypes, PageInv, NEW f \in fetches, Fails(f)
  PROVE  PageInv'
<1>1. /\ fetches' = fetches \ {f}
      /\ status' = IF IsShown(f) THEN "failed" ELSE status
      /\ isRefreshing' = (isRefreshing /\ ~f.refresh)
      /\ UNCHANGED <<url, previous, searchParamStore, boardInfo, shown, latest, sent,
                     due, overlapped, posts, counted, asked>>
  BY DEF Fails
<1>2. f \in [n : 1..sent, of : Places, size : Sizes, refresh : BOOLEAN]
  BY DEF PageInv, PageTypes
<1>3. status' = "shown" => status = "shown" /\ ~IsShown(f)
  BY <1>1
<1>4. PageTypes'
  <2>1. /\ isRefreshing' \in BOOLEAN
        /\ status' \in {"blank", "loading", "shown", "failed"}
    BY <1>1, <1>2 DEF PageInv, PageTypes
  <2>2. QED
    BY <1>1, <2>1 DEF PageInv, PageTypes
<1>5. Asking' /\ OnBoard'
  BY <1>1, <1>3 DEF PageInv, Asking, OnBoard
<1>6. OnThreadPage'
  <2>1. url.at = "thread" => status' # "shown"
    BY <1>3 DEF IsShown
  <2>2. QED
    BY <1>1, <2>1 DEF PageInv, OnThreadPage, Served
<1>7. OnSearch'
  BY <1>1, <1>3 DEF PageInv, OnSearch, LatestIs
<1>8. QED
  BY <1>4, <1>5, <1>6, <1>7 DEF PageInv

-----------------------------------------------------------------------------
(* The steps of the user. *)

\* Loading the site mounts the page of the address.
LEMMA LoadKeeps == ASSUME IInv, NEW u \in Urls, Load(u) PROVE IInv'
<1>1. /\ url' = u /\ previous' = Nowhere
      /\ searchParamStore' = NoParams /\ asked' = Sought(u)
      /\ boardInfo' = "loading" /\ Mount(u, NoParams)
      /\ posts' = posts /\ counted' = counted
  BY DEF Load
<1>2. NoParams \in Paged /\ Queries \subseteq Paged
  BY NoParamsIsQuery DEF Paged
<1>3. Sought(u) \in Paged
  BY <1>2, UrlsAre DEF Sought
<1>4. TabTypes'
  BY <1>1, <1>2, <1>3 DEF IInv, TabTypes
<1>5. Nowhere.at # "search"
  BY DEF Nowhere
<1>6. posts' \in 1..MaxPosts
  BY <1>4 DEF TabTypes
<1>7. PageInv'
  BY <1>1, <1>2, <1>5, <1>6, MountKeeps
<1>8. QED
  BY <1>4, <1>7 DEF IInv

\* The router mounts the page of an address, or leaves the one it has.
LEMMA ShowKeeps ==
  ASSUME IInv, NEW u \in Urls, Goto(u), Show(u, searchParamStore),
         asked' = Sought(u), u.at = "search" => u = previous,
         UNCHANGED <<searchParamStore, boardInfo, posts, counted>>
  PROVE  IInv'
<1>1. /\ url' = u /\ previous' = url
      /\ url \in Urls /\ searchParamStore \in Paged
      /\ posts \in 1..MaxPosts /\ posts' = posts
  BY DEF Goto, IInv, TabTypes
<1>2. Sought(u) \in Paged
  BY UrlsAre, NoParamsIsQuery DEF Sought, Paged
<1>3. TabTypes'
  BY <1>1, <1>2 DEF IInv, TabTypes
<1>4. PageInv'
  <2>1. CASE Remounts(url, u)
    <3>1. Mount(u, searchParamStore) /\ (u.at = "search" => url.at # "search")
      BY <2>1 DEF Show, Remounts
    <3>2. QED
      BY <1>1, <3>1, MountKeeps
  <2>2. CASE ~Remounts(url, u)
    <3>1. /\ UNCHANGED pageVars /\ u.at = url.at
          /\ url.at = "board" => u = url
      BY <2>2 DEF Show, Remounts
    <3>2. posts \in Nat /\ posts' \in Nat /\ posts' >= posts
      BY <1>1
    <3>3. PageInv
      BY DEF IInv
    <3>4. QED
      BY <1>1, <3>1, <3>2, <3>3, StaysKeeps
  <2>3. QED
    BY <2>1, <2>2
<1>5. QED
  BY <1>3, <1>4 DEF IInv

\* Links, Back and the pages of the board go through the router.
LEMMA RouterKeeps ==
  ASSUME IInv,
         \/ \E u \in Urls : FollowLink(u)
         \/ Back
         \/ \E page \in 0..MaxBoardPage : TurnPage(page)
  PROVE  IInv'
<1>1. ASSUME NEW u \in Urls, FollowLink(u) PROVE IInv'
  <2>1. u.at # "search"
    BY <1>1 DEF FollowLink, Home, Thread, Board
  <2>2. QED
    BY <1>1, <2>1, ShowKeeps DEF FollowLink, Sought
<1>2. CASE Back
  <2>1. previous \in Urls
    BY <1>2 DEF Back, IInv, TabTypes
  <2>2. QED
    BY <1>2, <2>1, ShowKeeps DEF Back
<1>3. ASSUME NEW page \in 0..MaxBoardPage, TurnPage(page) PROVE IInv'
  <2>1. Board(page) \in Urls /\ Board(page).at = "board"
    BY DEF Urls, Board
  <2>2. QED
    BY <1>3, <2>1, ShowKeeps DEF TurnPage, Sought
<1>4. QED
  BY <1>1, <1>2, <1>3

\* The search bar searches on the page it is on, or mounts a SearchPage.
LEMMA SearchBarKeeps == ASSUME IInv, PressesSearch PROVE IInv'
<1>1. PICK fields \in Entered, all \in BOOLEAN : SearchBar(fields, all)
  BY DEF PressesSearch
<1> DEFINE params == Params(fields, all)
<1>2. params \in Queries /\ params \in Paged
  BY ParamsAreQueries DEF Paged
<1>3. /\ params # NoParams
      /\ url' = Search(params) /\ previous' = url /\ asked' = params
      /\ IF url.at = "search"
           THEN StoreIsSet(params)
           ELSE searchParamStore' = params /\ Mount(Search(params), params)
      /\ UNCHANGED <<boardInfo, posts, counted>>
  BY <1>1 DEF SearchBar, Goto
<1> HIDE DEF params
<1>4. /\ Search(params) \in Urls /\ Search(params).at = "search"
      /\ Search(params).params = params
  BY <1>2, UrlsAre DEF Search
<1>5. searchParamStore' = params
  BY <1>3 DEF StoreIsSet
<1>6. TabTypes'
  BY <1>2, <1>3, <1>4, <1>5 DEF IInv, TabTypes
<1>7. CASE url.at = "search"
  BY <1>2, <1>3, <1>4, <1>6, <1>7, StoreKeeps DEF IInv
<1>8. CASE url.at # "search"
  <2>1. asked' = Sought(Search(params)) /\ posts' \in 1..MaxPosts
    BY <1>3, <1>4, <1>6 DEF Sought, TabTypes
  <2>2. PageInv'
    BY <1>2, <1>3, <1>4, <1>5, <1>8, <2>1, MountKeeps
  <2>3. QED
    BY <1>6, <2>2 DEF IInv
<1>9. QED
  BY <1>7, <1>8

\* Turning the page of the results searches for that page.
LEMMA TurnResultsKeeps ==
  ASSUME IInv, NEW page \in HitPages, TurnResults(page)
  PROVE  IInv'
<1>1. /\ url.at = "search"
      /\ IF page <= 1
           THEN searchParamStore # NoParams /\ StoreIsSet(searchParamStore)
           ELSE StoreIsSet(WithPage(searchParamStore, page))
      /\ asked' = IF page <= 1 THEN [k \in DOMAIN asked \ {"page"} |-> asked[k]]
                               ELSE WithPage(asked, page)
      /\ UNCHANGED <<url, previous, boardInfo, posts, counted>>
  BY DEF TurnResults
<1>2. searchParamStore \in Paged /\ asked \in Paged
  BY DEF IInv, TabTypes
<1>3. PICK params \in Paged : params # NoParams /\ StoreIsSet(params)
  <2>1. CASE page <= 1
    BY <1>1, <1>2, <2>1
  <2>2. CASE ~(page <= 1)
    <3>1. page \in HitPages \ {0, 1}
      BY <2>2
    <3>2. QED
      BY <1>1, <1>2, <2>2, <3>1, PagedIsClosed
  <2>3. QED
    BY <2>1, <2>2
<1>4. asked' \in Paged
  <2>1. CASE page <= 1
    BY <1>1, <1>2, <2>1, PagedIsClosed
  <2>2. CASE ~(page <= 1)
    <3>1. page \in HitPages \ {0, 1}
      BY <2>2
    <3>2. QED
      BY <1>1, <1>2, <2>2, <3>1, PagedIsClosed
  <2>3. QED
    BY <2>1, <2>2
<1>5. TabTypes'
  BY <1>1, <1>3, <1>4 DEF IInv, TabTypes, StoreIsSet
<1>6. PageInv'
  BY <1>1, <1>3, StoreKeeps DEF IInv
<1>7. QED
  BY <1>5, <1>6 DEF IInv

\* Posts only become more, and a reply refreshes the thread.
LEMMA PostsKeep ==
  ASSUME IInv, ClickRefresh \/ ReplySucceeds \/ SomeonePosts \/ BoardsArrive
  PROVE  IInv'
<1>1. posts \in 1..MaxPosts /\ MaxPosts \in Nat
  BY BrowsingAssumption DEF IInv, TabTypes
<1>2. posts' \in 1..MaxPosts /\ posts' >= posts
  BY <1>1 DEF ClickRefresh, ReplySucceeds, SomeonePosts, BoardsArrive
<1>3. UNCHANGED <<url, previous, searchParamStore, counted, asked>>
  BY DEF ClickRefresh, ReplySucceeds, SomeonePosts, BoardsArrive
<1>4. boardInfo' = boardInfo \/ boardInfo' \in {"loaded", "failed"}
  BY DEF ClickRefresh, ReplySucceeds, SomeonePosts, BoardsArrive
<1>5. TabTypes'
  BY <1>2, <1>3, <1>4 DEF IInv, TabTypes
<1>6. CASE ClickRefresh \/ ReplySucceeds
  <2>1. OnThread /\ Refresh(posts')
    BY <1>6 DEF ClickRefresh, ReplySucceeds
  <2>2. PageInv'
    BY <1>2, <1>3, <2>1, RefreshKeeps DEF IInv
  <2>3. QED
    BY <1>5, <2>2 DEF IInv
<1>7. CASE SomeonePosts \/ BoardsArrive
  <2>1. UNCHANGED pageVars
    BY <1>7 DEF SomeonePosts, BoardsArrive
  <2>2. posts \in Nat /\ posts' \in Nat
    BY <1>1, <1>2
  <2>3. PageInv'
    BY <1>2, <1>3, <2>1, <2>2, StaysKeeps DEF IInv
  <2>4. QED
    BY <1>5, <2>3 DEF IInv
<1>8. QED
  BY <1>6, <1>7

-----------------------------------------------------------------------------
(* The theorems. *)

\* The site's index page has sent nothing.
LEMMA InitIInv == Init => IInv
<1> SUFFICES ASSUME Init PROVE IInv
  OBVIOUS
<1>1. /\ url = Home /\ previous = Nowhere /\ searchParamStore = NoParams
      /\ asked = NoParams /\ boardInfo = "loading" /\ posts = 1 /\ counted = -1
      /\ status = "blank" /\ shown = NoAnswer /\ latest = 0
      /\ isRefreshing = FALSE /\ fetches = {} /\ sent = 0
      /\ due = 0 /\ overlapped = FALSE
  BY DEF Init
<1>2. Home \in Urls /\ NoParams \in Paged /\ NoAnswer \in Answers
  BY UrlsAre, NoParamsIsQuery, SizesAre DEF Paged, NoAnswer, Answers
<1>3. /\ 1 \in 1..MaxPosts /\ 0 \in 0..MaxPosts
      /\ 0 \in 0..MaxFetches /\ 0 \in 0..0
  BY BrowsingAssumption
<1>4. TabTypes
  BY <1>1, <1>2, <1>3 DEF TabTypes
<1>5. PageTypes
  BY <1>1, <1>2, <1>3 DEF PageTypes
<1>6. Asking /\ OnBoard /\ OnThreadPage /\ OnSearch
  BY <1>1 DEF Asking, OnBoard, OnThreadPage, OnSearch, Home
<1>7. QED
  BY <1>4, <1>5, <1>6 DEF IInv, PageInv

\* Every step of the user, the router, the server and the network keeps it.
LEMMA NextIInv == ASSUME IInv, [Next]_vars PROVE IInv'
<1>1. CASE \E u \in Urls : Load(u)
  BY <1>1, LoadKeeps
<1>2. CASE \/ \E u \in Urls : FollowLink(u)
           \/ Back
           \/ \E page \in 0..MaxBoardPage : TurnPage(page)
  BY <1>2, RouterKeeps
<1>3. CASE PressesSearch
  BY <1>3, SearchBarKeeps
<1>4. CASE \E page \in HitPages : TurnResults(page)
  BY <1>4, TurnResultsKeeps
<1>5. CASE ClickRefresh \/ ReplySucceeds \/ SomeonePosts \/ BoardsArrive
  BY <1>5, PostsKeep
<1>6. CASE \E f \in fetches : Serve(f)
  BY <1>6, ServeKeeps DEF IInv
<1>7. ASSUME NEW f \in fetches, Arrives(f) \/ Fails(f) PROVE IInv'
  <2>1. PageInv'
    BY <1>7, ArrivesKeeps, FailsKeeps DEF IInv
  <2>2. TabTypes'
    BY <1>7 DEF Arrives, Fails, IInv, TabTypes
  <2>3. QED
    BY <2>1, <2>2 DEF IInv
<1>8. CASE UNCHANGED vars
  <2>1. UNCHANGED <<url, previous, searchParamStore, boardInfo, pageVars, posts,
                    counted, asked>>
    BY <1>8 DEF vars
  <2>2. TabTypes'
    BY <2>1 DEF IInv, TabTypes
  <2>3. posts \in Nat /\ posts >= posts
    BY DEF IInv, TabTypes
  <2>4. PageInv'
    BY <2>1, <2>3, StaysKeeps DEF IInv
  <2>5. QED
    BY <2>2, <2>4 DEF IInv
<1>9. QED
  BY <1>1, <1>2, <1>3, <1>4, <1>5, <1>6, <1>7, <1>8 DEF Next, User

\* The invariant is inductive.
THEOREM Invariance == Spec => []IInv
<1>1. IInv /\ [Next]_vars => IInv'
  BY NextIInv
<1>2. QED
  BY <1>1, InitIInv, PTL DEF Spec

\* The variables of the tab and of the server keep their types; above all the
\* parameters of a search stay those the search bar and the pages can make.
THEOREM TypeCorrect == Spec => []TypeOK
<1>1. IInv => TypeOK
  BY DEF IInv, TabTypes, PageInv, PageTypes, TypeOK
<1>2. QED
  BY <1>1, Invariance, PTL

\* A page of the board shows the threads of the page its address names.
THEOREM ListOfAddress == Spec => []ListIsOfAddress
<1>1. IInv => ListIsOfAddress
  BY DEF IInv, PageInv, OnBoard, ListIsOfAddress
<1>2. QED
  BY <1>1, Invariance, PTL

\* A thread page at rest shows every post of its last refresh, unless two of its
\* fetches were under way together.
THEOREM ShowsRefreshed == Spec => []ShowsWhatWasRefreshed
<1>1. IInv => ShowsWhatWasRefreshed
  BY DEF IInv, PageInv, OnThreadPage, ShowsWhatWasRefreshed, OnThread
<1>2. QED
  BY <1>1, Invariance, PTL

\* The results shown are those of the search the user asked for last, when the
\* store agrees or is empty, although earlier answers may come later.
THEOREM ResultsOfAsked == Spec => []ResultsAreThoseAsked
<1>1. IInv => ResultsAreThoseAsked
  BY DEF IInv, PageInv, OnSearch, LatestIs, ResultsAreThoseAsked
<1>2. QED
  BY <1>1, Invariance, PTL

-----------------------------------------------------------------------------
(* The page selector leads to every thread of the board. *)

\* What a page of the board has been told, and shows, is the one count the server
\* keeps; and only a page from 1 on has an answer.
Counts ==
  url.at = "board" =>
    /\ \A f \in fetches : Served(f) => f.size = counted /\ url.page >= 1
    /\ status = "shown" =>
         shown.size = counted /\ counted # -1 /\ url.page >= 1

\* A page that has just been mounted has been told nothing.
LEMMA MountCounts ==
  ASSUME NEW u \in Urls, NEW store \in Paged, Mount(u, store)
  PROVE  Counts'
<1>1. status' # "shown"
  BY DEF Mount
<1>2. \A f \in fetches' : f.size = -1
  BY MountSends
<1>3. QED
  BY <1>1, <1>2 DEF Counts, Served

\* The board is counted once, and the count is never changed.
LEMMA NextCounts == ASSUME IInv, Counts, [Next]_vars PROVE Counts'
<1>1. CASE \E u \in Urls : Load(u)
  BY <1>1, MountCounts, NoParamsIsQuery DEF Load, Paged
<1>2. ASSUME NEW u \in Urls, Goto(u), Show(u, searchParamStore),
             UNCHANGED counted
      PROVE  Counts'
  <2>1. CASE Remounts(url, u)
    <3>1. Mount(u, searchParamStore) /\ searchParamStore \in Paged
      BY <1>2, <2>1 DEF Show, IInv, TabTypes
    <3>2. QED
      BY <3>1, MountCounts
  <2>2. CASE ~Remounts(url, u)
    <3>1. /\ UNCHANGED <<status, shown, fetches, counted>>
          /\ url' = u /\ u.at = url.at /\ (url.at = "board" => u = url)
      BY <1>2, <2>2 DEF Show, Remounts, Goto, pageVars
    <3>2. QED
      BY <3>1 DEF Counts, Served
  <2>3. QED
    BY <2>1, <2>2
<1>3. CASE \/ \E u \in Urls : FollowLink(u)
           \/ Back
           \/ \E page \in 0..MaxBoardPage : TurnPage(page)
  <2>1. previous # Nowhere => previous \in Urls
    BY DEF IInv, TabTypes
  <2>2. \A page \in 0..MaxBoardPage : Board(page) \in Urls
    BY DEF Urls
  <2>3. QED
    BY <1>2, <1>3, <2>1, <2>2 DEF FollowLink, Back, TurnPage
<1>4. CASE PressesSearch
  <2>1. \E params : url' = Search(params)
    BY <1>4 DEF PressesSearch, SearchBar, Goto
  <2>2. QED
    BY <2>1 DEF Counts, Search
<1>5. CASE (\E page \in HitPages : TurnResults(page)) \/ ClickRefresh \/ ReplySucceeds
  <2>1. url'.at \in {"search", "thread"}
    BY <1>5 DEF TurnResults, ClickRefresh, ReplySucceeds, OnThread
  <2>2. QED
    BY <2>1 DEF Counts
<1>6. CASE SomeonePosts \/ BoardsArrive \/ UNCHANGED vars
  <2>1. UNCHANGED <<url, status, shown, fetches, counted>>
    BY <1>6 DEF SomeonePosts, BoardsArrive, vars, pageVars
  <2>2. QED
    BY <2>1 DEF Counts, Served
<1>7. ASSUME NEW f \in fetches, Serve(f) PROVE Counts'
  <2>1. SUFFICES ASSUME url'.at = "board" PROVE Counts'
    BY DEF Counts
  <2>2. PICK size \in Sizes \ {-1} :
          /\ fetches' = (fetches \ {f}) \cup {[f EXCEPT !.size = size]}
          /\ CASE f.of.at = "thread" -> size = posts /\ UNCHANGED counted
               [] f.of.at = "board"  -> /\ f.of.page >= 1
                                        /\ size \in IF counted = -1 THEN ThreadCounts
                                                                    ELSE {counted}
                                        /\ counted' = size
               [] f.of.at = "search" -> size \in HitCounts /\ UNCHANGED counted
    BY <1>7 DEF Serve
  <2>3. url' = url /\ status' = status /\ shown' = shown
    BY <1>7 DEF Serve
  <2>4. f.of = url /\ f.of.at = "board"
    BY <2>1, <2>3 DEF IInv, PageInv, OnBoard
  <2>5. /\ url.page >= 1 /\ counted' = size
        /\ counted # -1 => counted' = counted
    BY <2>2, <2>4
  <2> DEFINE g == [f EXCEPT !.size = size]
  <2>6. g.size = size
    BY DEF IInv, PageInv, PageTypes
  <2>7. fetches' = (fetches \ {f}) \cup {g}
    BY <2>2
  <2> HIDE DEF g
  <2>8. \A h \in fetches : Served(h) => h.size = counted /\ h.size # -1
    BY <2>1, <2>3 DEF Counts, Served
  <2>9. \A h \in fetches' : h.size # -1 => h.size = counted' /\ url.page >= 1
    BY <2>5, <2>6, <2>7, <2>8 DEF Served
  <2>10. status = "shown" => shown.size = counted' /\ counted' # -1
    BY <2>1, <2>3, <2>5 DEF Counts
  <2>11. QED
    BY <2>3, <2>5, <2>9, <2>10 DEF Counts, Served
<1>8. ASSUME NEW f \in fetches, Arrives(f) PROVE Counts'
  <2>1. /\ Served(f) /\ fetches' = fetches \ {f}
        /\ UNCHANGED <<url, counted>>
        /\ \/ shown' = [of |-> f.of, size |-> f.size]
           \/ shown' = shown /\ status' = status
    BY <1>8 DEF Arrives
  <2>2. QED
    BY <2>1 DEF Counts, Served
<1>9. ASSUME NEW f \in fetches, Fails(f) PROVE Counts'
  <2>1. /\ fetches' \subseteq fetches /\ UNCHANGED <<url, counted, shown>>
        /\ status' = "shown" => status = "shown"
    BY <1>9 DEF Fails
  <2>2. QED
    BY <2>1 DEF Counts, Served
<1>10. QED
  BY <1>1, <1>3, <1>4, <1>5, <1>6, <1>7, <1>8, <1>9 DEF Next, User

\* The pages that are n clicks away exist: those that a walk of n steps ends at.
LEMMA ReachExists ==
  ASSUME NEW s \in Nat, NEW max \in Nat
  PROVE  \E f : f = [n \in Nat |->
                       IF n = 0 THEN {s}
                       ELSE f[n - 1] \cup
                              UNION {OfferedPages(q, max) : q \in f[n - 1]}]
<1> DEFINE D == {s} \cup 0..max
           Walks(n) == {g \in [0..n -> D] :
                          /\ g[0] = s
                          /\ \A i \in 1..n : \/ g[i] = g[i - 1]
                                             \/ g[i] \in OfferedPages(g[i - 1], max)}
           WalkEnds(n) == {p \in D : \E g \in Walks(n) : g[n] = p}
           f == [n \in Nat |-> WalkEnds(n)]
<1>1. WalkEnds(0) = {s}
  <2>1. [i \in 0..0 |-> s] \in Walks(0)
    OBVIOUS
  <2>2. [i \in 0..0 |-> s][0] = s
    OBVIOUS
  <2>3. \A g \in Walks(0) : g[0] = s
    OBVIOUS
  <2> HIDE DEF Walks
  <2>4. QED
    BY <2>1, <2>2, <2>3
<1>2. ASSUME NEW n \in Nat \ {0}
      PROVE  WalkEnds(n) = WalkEnds(n - 1) \cup
               UNION {OfferedPages(p, max) : p \in WalkEnds(n - 1)}
  <2>1. n - 1 \in Nat /\ n \in 1..n /\ n \in 0..n /\ n - 1 \in 0..(n - 1)
    OBVIOUS
  <2>2. ASSUME NEW p \in WalkEnds(n)
        PROVE  p \in WalkEnds(n - 1) \cup
                 UNION {OfferedPages(q, max) : q \in WalkEnds(n - 1)}
    <3>1. PICK g \in Walks(n) : g[n] = p
      BY <2>2
    <3> DEFINE h == [i \in 0..(n - 1) |-> g[i]]
    <3>2. h \in Walks(n - 1)
      <4>1. h \in [0..(n - 1) -> D] /\ h[0] = s
        BY <2>1
      <4>2. ASSUME NEW i \in 1..(n - 1)
            PROVE  h[i] = h[i - 1] \/ h[i] \in OfferedPages(h[i - 1], max)
        <5>1. i \in 1..n /\ i \in 0..(n - 1) /\ i - 1 \in 0..(n - 1)
          BY <2>1
        <5>2. QED
          BY <5>1
      <4> HIDE DEF h, D
      <4>3. QED
        BY <4>1, <4>2
    <3>3. h[n - 1] = g[n - 1] /\ g[n - 1] \in D
      BY <2>1
    <3>4. g[n - 1] \in WalkEnds(n - 1)
      <4> HIDE DEF h, Walks, D
      <4>1. QED
        BY <3>2, <3>3
    <3>5. p = g[n - 1] \/ p \in OfferedPages(g[n - 1], max)
      BY <2>1, <3>1
    <3> HIDE DEF WalkEnds
    <3>6. QED
      BY <3>4, <3>5
  <2>3. ASSUME NEW q \in WalkEnds(n - 1), NEW p \in D,
               p = q \/ p \in OfferedPages(q, max)
        PROVE  p \in WalkEnds(n)
    <3>1. PICK h \in Walks(n - 1) : h[n - 1] = q
      BY <2>3
    <3> DEFINE g == [i \in 0..n |-> IF i = n THEN p ELSE h[i]]
    <3>2. g \in [0..n -> D] /\ g[0] = s /\ g[n] = p
      BY <2>1, <2>3
    <3>3. ASSUME NEW i \in 1..n
          PROVE  g[i] = g[i - 1] \/ g[i] \in OfferedPages(g[i - 1], max)
      <4>1. i \in 0..n /\ i - 1 \in 0..n /\ i - 1 # n
        BY <2>1
      <4>2. g[i - 1] = h[i - 1]
        BY <4>1
      <4>3. CASE i = n
        BY <2>3, <3>1, <3>2, <4>2, <4>3
      <4>4. CASE i # n
        <5>1. i \in 1..(n - 1) /\ g[i] = h[i]
          BY <4>1, <4>4
        <5>2. h[i] = h[i - 1] \/ h[i] \in OfferedPages(h[i - 1], max)
          BY <5>1
        <5>3. QED
          BY <4>2, <5>1, <5>2
      <4>5. QED
        BY <4>3, <4>4
    <3>4. g \in Walks(n)
      <4> HIDE DEF g, D
      <4>1. QED
        BY <3>2, <3>3
    <3> HIDE DEF g, Walks, D
    <3>5. QED
      BY <2>3, <3>2, <3>4
  <2>4. \A q : OfferedPages(q, max) \subseteq D
    BY DEF OfferedPages, DispatchedPages
  <2>5. WalkEnds(n - 1) \subseteq D
    OBVIOUS
  <2> HIDE DEF WalkEnds, D
  <2>6. QED
    BY <2>2, <2>3, <2>4, <2>5
<1> HIDE DEF WalkEnds
<1>3. \A n \in Nat \ {0} : f[n - 1] = WalkEnds(n - 1)
  OBVIOUS
<1>4. f = [n \in Nat |-> IF n = 0 THEN {s}
                         ELSE f[n - 1] \cup
                                UNION {OfferedPages(p, max) : p \in f[n - 1]}]
  <2>1. ASSUME NEW n \in Nat
        PROVE  f[n] = IF n = 0 THEN {s}
                      ELSE f[n - 1] \cup
                             UNION {OfferedPages(p, max) : p \in f[n - 1]}
    BY <1>1, <1>2, <1>3
  <2>2. f = [n \in Nat |-> f[n]]
    OBVIOUS
  <2> HIDE DEF f
  <2>3. QED
    BY <2>1, <2>2
<1> HIDE DEF f
<1>5. QED
  BY <1>4

\* From any page, also one beyond the last, the first page is one click away, and
\* each page is one click from the one before it.
LEMMA SelectorReaches ==
  ASSUME NEW s \in Nat \ {0}, NEW max \in Nat, NEW p \in 1..max, NEW f,
         f = [n \in Nat |->
                IF n = 0 THEN {s}
                ELSE f[n - 1] \cup UNION {OfferedPages(q, max) : q \in f[n - 1]}]
  PROVE  p \in f[max + 1]
<1>1. f[0] = {s}
  OBVIOUS
<1>2. \A n \in Nat \ {0} :
        f[n] = f[n - 1] \cup UNION {OfferedPages(q, max) : q \in f[n - 1]}
  OBVIOUS
<1> DEFINE Got(n) == IF n <= p THEN n ELSE p
           Bad == {n \in Nat \ {0} : Got(n) \notin f[n]}
<1>3. 1 \in f[1]
  <2>1. CASE s = 1
    BY <1>1, <1>2, <2>1
  <2>2. CASE s # 1
    <3>1. 1 \in OfferedPages(s, max)
      BY <2>2 DEF OfferedPages, DispatchedPages
    <3>2. s \in f[1 - 1]
      BY <1>1
    <3>3. QED
      BY <1>2, <3>1, <3>2
  <2>3. QED
    BY <2>1, <2>2
<1>4. ASSUME NEW n \in Nat \ {0, 1}, Got(n - 1) \in f[n - 1]
      PROVE  Got(n) \in f[n]
  <2>1. CASE n <= p
    <3>1. Got(n - 1) = n - 1 /\ Got(n) = n
      BY <2>1
    <3>2. n \in OfferedPages(n - 1, max)
      BY <2>1 DEF OfferedPages, DispatchedPages
    <3>3. n - 1 \in f[n - 1]
      BY <1>4, <3>1
    <3>4. QED
      BY <1>2, <3>1, <3>2, <3>3
  <2>2. CASE ~(n <= p)
    <3>1. Got(n - 1) = p /\ Got(n) = p
      BY <2>2
    <3>2. QED
      BY <1>2, <1>4, <3>1
  <2>3. QED
    BY <2>1, <2>2
<1>5. Bad = {}
  <2>1. SUFFICES ASSUME Bad # {} PROVE FALSE
    OBVIOUS
  <2>2. Bad \subseteq Nat
    OBVIOUS
  <2> HIDE DEF Bad
  <2>3. PICK n \in Bad : \A m \in Bad : ~(<<m, n>> \in OpToRel(<, Nat))
    BY <2>1, <2>2, WFMin, NatLessThanWellFounded, Zenon
  <2>4. n \in Nat \ {0} /\ Got(n) \notin f[n]
    BY DEF Bad
  <2>5. n # 1
    BY <1>3, <2>4
  <2>6. n - 1 \in Nat \ {0} /\ n - 1 < n
    BY <2>4, <2>5
  <2>7. n - 1 \notin Bad
    BY <2>3, <2>4, <2>6 DEF OpToRel
  <2>8. Got(n - 1) \in f[n - 1]
    BY <2>6, <2>7 DEF Bad
  <2>9. QED
    BY <1>4, <2>4, <2>5, <2>8
<1>6. Got(max + 1) = p /\ max + 1 \in Nat \ {0}
  OBVIOUS
<1>7. QED
  BY <1>5, <1>6

\* The pages the links lead to in one click more than there are pages.
LEMMA ChosenReach ==
  ASSUME NEW s \in Nat \ {0}, NEW max \in Nat, NEW p \in 1..max
  PROVE  LET reach[n \in Nat] ==
               IF n = 0 THEN {s}
               ELSE reach[n - 1] \cup
                      UNION {OfferedPages(q, max) : q \in reach[n - 1]}
         IN  p \in reach[max + 1]
<1> DEFINE reach == CHOOSE f : f = [n \in Nat |->
                      IF n = 0 THEN {s}
                      ELSE f[n - 1] \cup
                             UNION {OfferedPages(q, max) : q \in f[n - 1]}]
<1>1. \E f : f = [n \in Nat |->
                  IF n = 0 THEN {s}
                  ELSE f[n - 1] \cup
                         UNION {OfferedPages(q, max) : q \in f[n - 1]}]
  BY ReachExists
<1>2. reach = [n \in Nat |->
                 IF n = 0 THEN {s}
                 ELSE reach[n - 1] \cup
                        UNION {OfferedPages(q, max) : q \in reach[n - 1]}]
  BY <1>1, Zenon
<1>3. p \in reach[max + 1]
  <2> HIDE DEF reach
  <2>1. QED
    BY <1>2, SelectorReaches
<1>4. QED
  BY <1>3

\* Thread t of the board is on page p, which is one of those the selector knows.
LEMMA PageOfThread ==
  ASSUME NEW count \in Nat, NEW size \in Nat \ {0}, NEW t \in 1..count
  PROVE  \E p \in 1..PagesFor(count, size) :
           t \in (p - 1) * size + 1 .. p * size
<1> DEFINE p == (t + size - 1) \div size
           max == (count + size - 1) \div size
<1>1. p \in Int /\ max \in Int
  OBVIOUS
<1>2. size * p <= t + size - 1 /\ t + size - 1 < size * p + size
  BY Z3
<1>3. size * max <= count + size - 1 /\ count + size - 1 < size * max + size
  BY Z3
<1> HIDE DEF p, max
<1>4. p >= 1
  <2>1. p <= 0 => size * p <= 0
    BY <1>1, Z3
  <2>2. QED
    BY <1>1, <1>2, <2>1
<1>5. p <= max
  <2>1. p > max => size * p >= size * max + size
    BY <1>1, Z3
  <2>2. QED
    BY <1>1, <1>2, <1>3, <2>1
<1>6. (p - 1) * size = size * p - size /\ p * size = size * p
  BY <1>1, Z3
<1>7. size * p \in Int
  BY <1>1
<1>8. t \in (p - 1) * size + 1 .. p * size
  BY <1>2, <1>6, <1>7
<1>9. PagesFor(count, size) = max
  BY DEF PagesFor, max
<1>10. QED
  BY <1>1, <1>4, <1>5, <1>8, <1>9

\* From any page of the board that is shown, also one beyond the last, the links
\* of the page selector lead to every thread the server counted.
THEOREM ThreadsReachable == Spec => []EveryThreadIsReachable
<1>1. Init => Counts
  BY DEF Init, Counts, Home
<1>2. IInv /\ Counts /\ [Next]_vars => Counts'
  BY NextCounts
<1>3. IInv /\ Counts => EveryThreadIsReachable
  <2>1. SUFFICES ASSUME IInv, Counts, url.at = "board", status = "shown"
                 PROVE  EveryThreadIsReachable
    BY DEF EveryThreadIsReachable
  <2>2. shown.size = counted /\ counted # -1 /\ url.page >= 1
    BY <2>1 DEF Counts
  <2>3. counted \in Nat /\ BoardPageSize \in Nat \ {0}
    BY <2>2, BrowsingAssumption, <2>1 DEF IInv, TabTypes
  <2>4. url.page \in Nat \ {0}
    <3>1. PICK page \in 0..MaxBoardPage : url = Board(page)
      BY <2>1 DEF IInv, TabTypes, Urls, Home, Thread, Search
    <3>2. url.page = page
      BY <3>1 DEF Board
    <3>3. QED
      BY <2>2, <3>2
  <2>5. MaxPage = PagesFor(counted, BoardPageSize)
    BY <2>1, <2>2 DEF MaxPage
  <2>6. PagesFor(counted, BoardPageSize) \in Nat
    BY <2>3, Z3 DEF PagesFor
  <2>7. MaxPage \in Nat
    BY <2>5, <2>6
  <2>8. ASSUME NEW t \in 1..counted
        PROVE  LET reach[n \in Nat] ==
                     IF n = 0 THEN {url.page}
                     ELSE reach[n - 1] \cup
                            UNION {OfferedPages(p, MaxPage) : p \in reach[n - 1]}
               IN  \E p \in reach[MaxPage + 1] :
                     t \in (p - 1) * BoardPageSize + 1 .. p * BoardPageSize
    <3>1. PICK p \in 1..MaxPage :
                 t \in (p - 1) * BoardPageSize + 1 .. p * BoardPageSize
      BY <2>3, <2>5, PageOfThread
    <3>2. LET reach[n \in Nat] ==
                IF n = 0 THEN {url.page}
                ELSE reach[n - 1] \cup
                       UNION {OfferedPages(q, MaxPage) : q \in reach[n - 1]}
          IN  p \in reach[MaxPage + 1]
      BY <2>4, <2>7, ChosenReach
    <3>3. QED
      BY <3>1, <3>2
  <2>9. QED
    BY <2>8 DEF EveryThreadIsReachable
<1>4. QED
  BY <1>1, <1>2, <1>3, Invariance, PTL DEF Spec
-----------------------------------------------------------------------------
(* The two menus of boards. *)

\* The compact menu and the list of the index page show the same groups of boards,
\* in the same order.
THEOREM MenuAgrees == Spec => []MenuIsIndex
<1> DEFINE Listed == [name : Nat, category : Categories]
<1>1. ASSUME NEW boards \in BoardLists
      PROVE  boards \in Seq(Listed)
  <2>1. PICK n \in 0..MaxBoards :
          \E category \in [1..n -> Categories] :
            boards = [i \in 1..n |-> [name |-> i, category |-> category[i]]]
    BY <1>1 DEF BoardLists
  <2>2. PICK category \in [1..n -> Categories] :
          boards = [i \in 1..n |-> [name |-> i, category |-> category[i]]]
    BY <2>1
  <2>3. n \in Nat /\ \A i \in 1..n : [name |-> i, category |-> category[i]] \in Listed
    BY BrowsingAssumption
  <2>4. QED
    BY <2>2, <2>3
<1> HIDE DEF Listed
<1>2. GroupingsAgree
  BY <1>1, GroupingsEqual, Zenon DEF GroupingsAgree
<1>3. MenuIsIndex
  BY <1>2 DEF MenuIsIndex
<1>4. QED
  BY <1>3, PTL


===============================================================================
