-------------------------- MODULE ModeratorTabProofs --------------------------
(***************************************************************************)
(* The safety of ModeratorTab, for every number of posts, of calls under   *)
(* way and of clicks: the polling loop of the admin page, the role of the  *)
(* session, and the menus and dialogs of the posts.                        *)
(***************************************************************************)
EXTENDS ModeratorTab, FiniteSetTheorems, TLAPS

\* Nothing happens in the tab.
Idle == UNCHANGED vars

-----------------------------------------------------------------------------
(* The polling loop of the admin page. *)

Live == {a \in asking : a.live}

\* The page that is open waits for its timer or for one answer.
Loop ==
  /\ active <=> page = "admin"
  /\ ~active => armed = 0 /\ Live = {}
  /\ active => \/ armed = 1 /\ Live = {}
               \/ armed = 0 /\ \E a \in asking : Live = {a}

PollInv == page \in Pages /\ Poll!TypeOK /\ Loop

\* A request that is sent is well typed and live.
LEMMA AsksAdds ==
  ASSUME Poll!TypeOK, admin \in BOOLEAN, Poll!Asks
  PROVE  \E a : /\ asking' = asking \cup {a}
                /\ a \in Poll!Requests
                /\ a.live
<1>1. PICK n \in 1..MaxAsking : asking' = asking \cup {Poll!Request(n)}
  BY DEF Poll!Asks
<1>2. 0 \in 0..MaxStatus
  BY TabAssumption
<1>3. Poll!Request(n) \in Poll!Requests /\ Poll!Request(n).live
  BY <1>1, <1>2 DEF Poll!Request, Poll!Requests
<1>4. QED
  BY <1>1, <1>3

\* Loading the site leaves no loop, or starts the one of the admin page.
LEMMA LoadedPoll ==
  ASSUME PollInv, admin \in BOOLEAN, NEW p \in Pages, Loaded(p)
  PROVE  PollInv'
<1>1. page' = p /\ page' \in Pages
  BY DEF Loaded
<1>2. CASE p = "admin"
  <2> DEFINE first == Poll!Request(1)
  <2>1. /\ active' = TRUE /\ armed' = 0 /\ statusStore' = 0
        /\ asking' = {first}
        /\ UNCHANGED <<currentStatus, running>>
    BY <1>2 DEF Loaded, Poll!OpenedByLoad
  <2>2. /\ first \in Poll!Requests
        /\ 0 \in 0..MaxStatus
    BY TabAssumption DEF Poll!Requests, Poll!Request
  <2>3. first.live
    BY DEF Poll!Request
  <2> HIDE DEF first
  <2>4. Poll!TypeOK' /\ Live' = {first} /\ first \in asking'
    BY <2>1, <2>2, <2>3 DEF PollInv, Poll!TypeOK, Live
  <2>5. Loop'
    BY <1>1, <1>2, <2>1, <2>4 DEF Loop
  <2>6. QED
    BY <1>1, <2>4, <2>5 DEF PollInv
<1>3. CASE p # "admin"
  <2>1. /\ active' = FALSE /\ armed' = 0 /\ asking' = {} /\ statusStore' = 0
        /\ UNCHANGED <<currentStatus, running>>
    BY <1>3 DEF Loaded, Poll!Reloaded
  <2>2. 0 \in 0..MaxStatus /\ 0 \in Nat
    BY TabAssumption
  <2>3. Poll!TypeOK'
    BY <2>1, <2>2 DEF PollInv, Poll!TypeOK
  <2>4. Loop'
    BY <1>1, <1>3, <2>1 DEF Loop, Live
  <2>5. QED
    BY <1>1, <2>3, <2>4 DEF PollInv
<1>4. QED
  BY <1>2, <1>3

\* Entering the admin page starts a loop, also when requests of an earlier visit
\* are under way; leaving it ends the one it has.
LEMMA GoesPoll ==
  ASSUME PollInv, admin \in BOOLEAN, NEW p \in Pages, Goes(p)
  PROVE  PollInv'
<1>1. page' = p /\ p # page /\ page' \in Pages
  BY DEF Goes
<1>2. CASE p = "admin"
  <2>1. /\ ~active /\ active' = TRUE /\ Poll!Asks
        /\ UNCHANGED <<armed, statusStore, currentStatus, running>>
    BY <1>2 DEF Goes, Poll!Opened
  <2>2. PICK a : /\ asking' = asking \cup {a}
                 /\ a \in Poll!Requests
                 /\ a.live
    BY <2>1, AsksAdds DEF PollInv
  <2>3. Poll!TypeOK'
    BY <2>1, <2>2 DEF PollInv, Poll!TypeOK
  <2>4. Live' = {a} /\ a \in asking'
    BY <2>1, <2>2 DEF PollInv, Loop, Live
  <2>5. Loop'
    BY <1>1, <1>2, <2>1, <2>4 DEF PollInv, Loop
  <2>6. QED
    BY <1>1, <2>3, <2>5 DEF PollInv
<1>3. CASE p # "admin" /\ page = "admin"
  <2>1. /\ active' = FALSE /\ armed' = 0
        /\ asking' = {[a EXCEPT !.live = FALSE] : a \in asking}
        /\ UNCHANGED <<statusStore, currentStatus, running>>
    BY <1>3 DEF Goes, Poll!Closed
  <2>2. \A a \in asking :
          /\ [a EXCEPT !.live = FALSE] \in Poll!Requests
          /\ [a EXCEPT !.live = FALSE].live = FALSE
    BY DEF PollInv, Poll!TypeOK, Poll!Requests
  <2>3. Poll!TypeOK'
    BY <2>1, <2>2 DEF PollInv, Poll!TypeOK
  <2>4. Live' = {}
    BY <2>1, <2>2 DEF Live
  <2>5. Loop'
    BY <1>1, <1>3, <2>1, <2>4 DEF Loop
  <2>6. QED
    BY <1>1, <2>3, <2>5 DEF PollInv
<1>4. CASE p # "admin" /\ page # "admin"
  <2>1. UNCHANGED <<active, armed, asking, statusStore, currentStatus, running>>
    BY <1>4 DEF Goes, pollVars
  <2>2. QED
    BY <1>1, <1>4, <2>1 DEF PollInv, Poll!TypeOK, Loop, Live
<1>5. QED
  BY <1>2, <1>3, <1>4

\* On the page the timer turns into a request, and the request of the page that
\* is open into the next timer; those of earlier visits end with their answer.
LEMMA AdminPagePoll ==
  ASSUME PollInv, admin \in BOOLEAN, OnAdminPage
  PROVE  PollInv'
<1>1. page' = page /\ (Poll!StartTask \/ Poll!Works)
  BY DEF OnAdminPage
<1>2. /\ asking \subseteq Poll!Requests
      /\ armed \in Nat /\ page \in Pages /\ Poll!TypeOK /\ Loop
  BY DEF PollInv, Poll!TypeOK
<1>3. CASE Poll!StartTask \/ Poll!TaskReports
  <2>1. UNCHANGED <<active, armed, asking, statusStore>>
    BY <1>3 DEF Poll!StartTask, Poll!TaskReports
  <2>2. currentStatus \in 1..MaxStatus /\ MaxStatus \in Nat
    BY <1>2, TabAssumption DEF Poll!TypeOK
  <2>3. currentStatus' \in 1..MaxStatus
    BY <1>3, <2>2 DEF Poll!StartTask, Poll!TaskReports
  <2>4. running' \in BOOLEAN
    BY <1>3 DEF Poll!StartTask, Poll!TaskReports
  <2>5. QED
    BY <1>1, <1>2, <2>1, <2>3, <2>4 DEF PollInv, Poll!TypeOK, Loop, Live
<1>4. CASE Poll!Ticks
  <2>1. /\ armed > 0 /\ armed' = armed - 1 /\ Poll!Asks
        /\ UNCHANGED <<active, statusStore, currentStatus, running>>
    BY <1>4 DEF Poll!Ticks
  <2>2. PICK a : /\ asking' = asking \cup {a}
                 /\ a \in Poll!Requests
                 /\ a.live
    BY <1>2, <2>1, AsksAdds
  <2>3. active /\ armed' = 0 /\ Live = {}
    BY <1>2, <2>1 DEF Loop
  <2>4. Poll!TypeOK'
    BY <1>2, <2>1, <2>2, <2>3 DEF Poll!TypeOK
  <2>5. Live' = {a} /\ a \in asking'
    BY <2>2, <2>3 DEF Live
  <2>6. Loop'
    BY <1>1, <1>2, <2>1, <2>3, <2>5 DEF Loop
  <2>7. QED
    BY <1>1, <1>2, <2>4, <2>6 DEF PollInv
<1>5. ASSUME NEW a \in asking, Poll!GetProgress(a)
      PROVE  PollInv'
  <2> DEFINE b == [a EXCEPT !.status = currentStatus]
  <2>1. /\ asking' = (asking \ {a}) \cup {b}
        /\ UNCHANGED <<active, armed, statusStore, currentStatus, running>>
    BY <1>5 DEF Poll!GetProgress
  <2>2. currentStatus \in 0..MaxStatus
    BY <1>2, TabAssumption DEF Poll!TypeOK
  <2>3. /\ b \in Poll!Requests
        /\ b.live = a.live
    BY <1>2, <2>2 DEF Poll!Requests
  <2> HIDE DEF b
  <2>4. Poll!TypeOK'
    BY <1>2, <2>1, <2>3 DEF Poll!TypeOK
  <2>5. Live' = (Live \ {a}) \cup (IF a.live THEN {b} ELSE {})
    BY <2>1, <2>3 DEF Live
  <2>6. Loop'
    <3>1. CASE a.live
      <4>1. Live = {a}
        BY <1>2, <3>1 DEF Loop, Live
      <4>2. Live' = {b} /\ b \in asking'
        BY <2>1, <2>5, <3>1, <4>1
      <4>3. QED
        BY <1>1, <1>2, <2>1, <4>1, <4>2 DEF Loop
    <3>2. CASE ~a.live
      <4>1. Live' = Live
        BY <2>5, <3>2 DEF Live
      <4>2. \A c \in Live : c \in asking'
        BY <2>1, <3>2 DEF Live
      <4>3. QED
        BY <1>1, <1>2, <2>1, <4>1, <4>2 DEF Loop
    <3>3. QED
      BY <3>1, <3>2
  <2>7. QED
    BY <1>1, <1>2, <2>4, <2>6 DEF PollInv
<1>6. ASSUME NEW a \in asking, Poll!ProgressArrives(a) \/ Poll!ProgressFails(a)
      PROVE  PollInv'
  <2>1. /\ asking' = asking \ {a}
        /\ armed' = IF a.live THEN armed + 1 ELSE armed
        /\ UNCHANGED <<active, currentStatus, running>>
    BY <1>6 DEF Poll!ProgressArrives, Poll!ProgressFails, Poll!Rearms
  <2>2. statusStore' \in 0..MaxStatus
    BY <1>2, <1>6 DEF Poll!ProgressArrives, Poll!ProgressFails, Poll!TypeOK,
       Poll!Requests
  <2>3. Poll!TypeOK'
    BY <1>2, <2>1, <2>2 DEF Poll!TypeOK
  <2>4. Live' = Live \ {a}
    BY <2>1 DEF Live
  <2>5. Loop'
    <3>1. CASE a.live
      <4>1. Live = {a} /\ armed = 0 /\ active
        BY <1>2, <3>1 DEF Loop, Live
      <4>2. QED
        BY <1>1, <1>2, <2>1, <2>4, <3>1, <4>1 DEF Loop
    <3>2. CASE ~a.live
      <4>1. Live' = Live
        BY <2>4, <3>2 DEF Live
      <4>2. \A c \in Live : c \in asking'
        BY <2>1, <3>2 DEF Live
      <4>3. QED
        BY <1>1, <1>2, <2>1, <3>2, <4>1, <4>2 DEF Loop
    <3>3. QED
      BY <3>1, <3>2
  <2>6. QED
    BY <1>1, <1>2, <2>3, <2>5 DEF PollInv
<1>7. QED
  BY <1>1, <1>3, <1>4, <1>5, <1>6 DEF Poll!Works

\* Every step keeps the loop.
LEMMA NextPoll ==
  ASSUME PollInv, admin \in BOOLEAN, [Next]_vars
  PROVE  PollInv'
<1>1. CASE Loads \/ Leaves
  BY <1>1, LoadedPoll DEF Loads, Leaves, Pages
<1>2. CASE \E p \in Pages : Goes(p)
  BY <1>2, GoesPoll
<1>3. CASE OnAdminPage
  BY <1>3, AdminPagePoll
<1>4. CASE InSession \/ OnPosts \/ Idle
  <2>1. UNCHANGED <<page, active, armed, asking, statusStore, currentStatus,
                    running>>
    BY <1>4 DEF InSession, OnPosts, Idle, vars, pollVars
  <2>2. QED
    BY <2>1 DEF PollInv, Poll!TypeOK, Loop, Live
<1>5. QED
  BY <1>1, <1>2, <1>3, <1>4 DEF Next, Idle

-----------------------------------------------------------------------------
(* The role of the session. *)

\* While no two handlers overlapped and none failed, there is at most one call
\* under way, and its answer will make the role agree with the cookie.
Heard ==
  ~disturbed =>
    /\ calls = {} => (role <=> cookie)
    /\ \A c, d \in calls : c = d
    /\ \A c \in calls :
         /\ c.info => c.cookie = cookie /\ c.by # "logout"
         /\ c.by = "initStores" => c.info
         /\ c.by = "logout" => ~role

SessionInv == Session!TypeOK /\ Heard

\* The one call of a site that has just been loaded.
LEMMA FirstCall ==
  ASSUME Session!TypeOK
  PROVE  LET c == Session!Call(1, "initStores", TRUE, TRUE)
         IN  /\ c \in Session!Calls
             /\ c.info /\ c.cookie = cookie /\ c.by = "initStores"
<1>1. 1 \in 1..MaxCalls
  BY TabAssumption
<1>2. QED
  BY <1>1 DEF Session!TypeOK, Session!Call, Session!Calls, Session!Handlers

\* Loading the site asks the server once who the user is.
LEMMA ReloadedSession ==
  ASSUME SessionInv, Session!Reloaded
  PROVE  SessionInv'
<1> DEFINE c == Session!Call(1, "initStores", TRUE, TRUE)
<1>1. /\ role' = FALSE /\ calls' = {c} /\ leaving' = FALSE
      /\ disturbed' = FALSE /\ cookie' = cookie /\ admin' = admin
  BY DEF Session!Reloaded
<1>2. c \in Session!Calls /\ c.info /\ c.cookie = cookie /\ c.by = "initStores"
  BY FirstCall DEF SessionInv
<1> HIDE DEF c
<1>3. Session!TypeOK'
  BY <1>1, <1>2 DEF SessionInv, Session!TypeOK
<1>4. Heard'
  BY <1>1, <1>2 DEF Heard
<1>5. QED
  BY <1>3, <1>4 DEF SessionInv

\* A handler that starts is alone, or the session is disturbed.
LEMMA StartsSession ==
  ASSUME SessionInv, Session!Login \/ Session!Register \/ Session!Logout
  PROVE  SessionInv'
<1>1. PICK by \in {"login", "register", "logout"} :
             /\ Session!Sends(by)
             /\ by = "logout" => role' = FALSE
             /\ by # "logout" => role' = role
  BY DEF Session!Login, Session!Register, Session!Logout
<1>2. /\ cookie' = cookie /\ admin' = admin /\ leaving' = leaving
      /\ disturbed' = (disturbed \/ calls # {})
  BY DEF Session!Login, Session!Register, Session!Logout, Session!Overlaps
<1>3. PICK n \in 1..MaxCalls \ Session!Used :
             calls' = calls \cup {Session!Call(n, by, FALSE, FALSE)}
  BY <1>1 DEF Session!Sends
<1> DEFINE c == Session!Call(n, by, FALSE, FALSE)
<1>4. /\ cookie \in BOOLEAN /\ role \in BOOLEAN /\ disturbed \in BOOLEAN
      /\ admin \in BOOLEAN /\ leaving \in BOOLEAN /\ calls \subseteq Session!Calls
      /\ \A d, e \in calls : d.n = e.n => d = e
  BY DEF SessionInv, Session!TypeOK
<1>5. c \in Session!Calls /\ c.n = n /\ ~c.info /\ c.by = by
  BY <1>4 DEF Session!Call, Session!Calls, Session!Handlers
<1>6. \A d \in calls : d.n # n
  BY DEF Session!Used
<1> HIDE DEF c
<1>7. calls' = calls \cup {c}
  BY <1>3 DEF c
<1>8. Session!TypeOK'
  <2>1. \A d, e \in calls' : d.n = e.n => d = e
    BY <1>4, <1>5, <1>6, <1>7
  <2>2. /\ role' \in BOOLEAN /\ disturbed' \in BOOLEAN
        /\ calls' \subseteq Session!Calls
    BY <1>1, <1>2, <1>4, <1>5, <1>7
  <2>3. QED
    BY <1>2, <1>4, <2>1, <2>2 DEF Session!TypeOK
<1>9. Heard'
  <2>1. SUFFICES ASSUME ~disturbed' PROVE calls' = {c}
    BY <1>1, <1>5, <1>7 DEF Heard
  <2>2. calls = {}
    BY <1>2, <2>1
  <2>3. QED
    BY <1>7, <2>2
<1>10. QED
  BY <1>8, <1>9 DEF SessionInv

\* The answer of the one call under way sets the role, or the cookie.
LEMMA AnswersSession ==
  ASSUME SessionInv, Session!Answers
  PROVE  SessionInv'
<1>1. PICK c \in calls :
        \/ Session!LoginAnswered(c) \/ Session!RegisterRefused(c)
        \/ Session!InfoArrives(c) \/ Session!LogoutAnswered(c)
        \/ Session!CallFails(c)
  BY DEF Session!Answers
<1>2. /\ cookie \in BOOLEAN /\ role \in BOOLEAN /\ disturbed \in BOOLEAN
      /\ admin \in BOOLEAN /\ leaving \in BOOLEAN /\ calls \subseteq Session!Calls
      /\ \A d, e \in calls : d.n = e.n => d = e
  BY DEF SessionInv, Session!TypeOK
<1>3. c \in Session!Calls
  BY <1>2
<1>4. ~disturbed =>
        /\ calls = {c}
        /\ c.info => c.cookie = cookie /\ c.by # "logout"
        /\ c.by = "initStores" => c.info
        /\ c.by = "logout" => ~role
  BY DEF SessionInv, Heard
<1>5. CASE Session!LoginAnswered(c)
  <2>1. PICK ok \in BOOLEAN :
          /\ cookie' = (cookie \/ ok)
          /\ admin' \in IF ok THEN BOOLEAN ELSE {admin}
          /\ calls' = (calls \ {c})
                        \cup {[c EXCEPT !.info = TRUE, !.ok = ok, !.cookie = cookie']}
    BY <1>5 DEF Session!LoginAnswered
  <2>2. /\ c.by \in {"login", "register"}
        /\ role' = role /\ leaving' = leaving /\ disturbed' = disturbed
    BY <1>5 DEF Session!LoginAnswered
  <2> DEFINE d == [c EXCEPT !.info = TRUE, !.ok = ok, !.cookie = cookie']
  <2>3. cookie' \in BOOLEAN /\ admin' \in BOOLEAN
    BY <1>2, <2>1
  <2>4. /\ d \in Session!Calls
        /\ d.info /\ d.by = c.by /\ d.cookie = cookie' /\ d.n = c.n
    BY <1>3, <2>3 DEF Session!Calls, Session!Handlers
  <2> HIDE DEF d
  <2>5. calls' = (calls \ {c}) \cup {d}
    BY <2>1 DEF d
  <2>6. \A e, f \in calls' : e.n = f.n => e = f
    BY <1>2, <2>4, <2>5
  <2>7. Session!TypeOK'
    BY <1>2, <2>2, <2>3, <2>4, <2>5, <2>6 DEF Session!TypeOK
  <2>8. ~disturbed' => calls' = {d}
    BY <1>4, <2>2, <2>5
  <2>9. Heard'
    BY <2>2, <2>4, <2>8 DEF Heard
  <2>10. QED
    BY <2>7, <2>9 DEF SessionInv
<1>6. CASE \/ Session!RegisterRefused(c) \/ Session!InfoArrives(c)
           \/ Session!LogoutAnswered(c) \/ Session!CallFails(c)
  <2>1. calls' = calls \ {c}
    BY <1>6 DEF Session!RegisterRefused, Session!InfoArrives,
       Session!LogoutAnswered, Session!CallFails
  <2>2. /\ cookie' \in BOOLEAN /\ role' \in BOOLEAN /\ disturbed' \in BOOLEAN
        /\ admin' \in BOOLEAN /\ leaving' \in BOOLEAN
    <3>1. c.cookie \in BOOLEAN /\ c.ok \in BOOLEAN
      BY <1>3 DEF Session!Calls
    <3>2. QED
      BY <1>2, <1>6, <3>1 DEF Session!RegisterRefused, Session!InfoArrives,
         Session!LogoutAnswered, Session!CallFails
  <2>3. Session!TypeOK'
    BY <1>2, <2>1, <2>2 DEF Session!TypeOK
  <2>4. SUFFICES ASSUME ~disturbed' PROVE role' <=> cookie'
    <3>1. ~disturbed' => ~disturbed
      BY <1>6 DEF Session!RegisterRefused, Session!InfoArrives,
         Session!LogoutAnswered, Session!CallFails
    <3>2. ~disturbed' => calls' = {}
      BY <1>4, <2>1, <3>1
    <3>3. QED
      BY <2>3, <2>4, <3>2 DEF SessionInv, Heard
  <2>5. CASE Session!RegisterRefused(c)
    BY <2>4, <2>5 DEF Session!RegisterRefused
  <2>6. CASE Session!InfoArrives(c)
    BY <1>4, <2>4, <2>6 DEF Session!InfoArrives
  <2>7. CASE Session!LogoutAnswered(c)
    BY <1>4, <2>4, <2>7 DEF Session!LogoutAnswered
  <2>8. CASE Session!CallFails(c)
    BY <2>4, <2>8 DEF Session!CallFails
  <2>9. QED
    BY <1>6, <2>5, <2>6, <2>7, <2>8
<1>7. QED
  BY <1>1, <1>5, <1>6

\* Every step keeps the session.
LEMMA NextSession == ASSUME SessionInv, [Next]_vars PROVE SessionInv'
<1>1. CASE Loads \/ Leaves
  BY <1>1, ReloadedSession DEF Loads, Leaves, Loaded
<1>2. CASE InSession
  BY <1>2, StartsSession, AnswersSession DEF InSession
<1>3. CASE OnAdminPage \/ OnPosts \/ Idle \/ \E p \in Pages : Goes(p)
  <2>1. UNCHANGED <<cookie, admin, role, calls, leaving, disturbed>>
    BY <1>3 DEF OnAdminPage, OnPosts, Idle, Goes, vars, sessionVars
  <2>2. QED
    BY <2>1 DEF SessionInv, Session!TypeOK, Heard
<1>4. QED
  BY <1>1, <1>2, <1>3 DEF Next, Idle

-----------------------------------------------------------------------------
(* The menus and the dialogs of the posts. *)

\* A menu that is open has the focus or a timer that will give it the focus; a
\* dialog that is shown is about a post.
Attended ==
  /\ \A p \in showDropdown : p = focused \/ p \in focusTimers
  /\ \A k \in visible : target[k] \in Posts

ToolsInv == Tools!TypeOK /\ Attended

\* Posts that are unmounted have no menu, no dialog and no request.
LEMMA UnmountedTools == Tools!Unmounted => ToolsInv'
BY DEF Tools!Unmounted, Tools!TypeOK, Tools!Kinds, Attended, ToolsInv

\* Whatever the user does, a menu that is left open is attended.
LEMMA UserTools == ASSUME ToolsInv, Tools!User PROVE ToolsInv'
<1>1. /\ showDropdown \subseteq Posts /\ focusTimers \subseteq Posts
      /\ focused \in Posts \cup {NoPost}
      /\ target \in [Tools!Kinds -> Posts \cup {NoPost}]
      /\ visible \subseteq Tools!Kinds /\ options \subseteq Tools!Kinds
      /\ actions \subseteq [n : 1..MaxActions, kind : Tools!Kinds, post : Posts]
  BY DEF ToolsInv, Tools!TypeOK
<1>2. /\ \A p \in showDropdown : p = focused \/ p \in focusTimers
      /\ \A k \in visible : target[k] \in Posts
  BY DEF ToolsInv, Attended
<1>3. ASSUME NEW p \in Posts, Tools!ClickArrow(p) PROVE ToolsInv'
  <2>1. /\ focused' = NoPost
        /\ UNCHANGED <<target, visible, options, actions>>
        /\ showDropdown' \subseteq (showDropdown \ {focused}) \cup {p}
        /\ \/ focusTimers' = focusTimers \cup {p}
           \/ focusTimers' = focusTimers /\ p \notin showDropdown'
    BY <1>3 DEF Tools!ClickArrow, Tools!OpenAfterBlur
  <2>2. /\ showDropdown' \subseteq Posts /\ focusTimers' \subseteq Posts
        /\ \A q \in showDropdown' : q \in focusTimers'
    BY <1>1, <1>2, <2>1
  <2>3. QED
    BY <1>1, <1>2, <2>1, <2>2 DEF ToolsInv, Tools!TypeOK, Attended
<1>4. ASSUME NEW p \in Posts, NEW k \in Tools!Kinds, Tools!Choose(p, k)
      PROVE  ToolsInv'
  <2>1. /\ target' = [target EXCEPT ![k] = p]
        /\ visible' = {k} /\ focused' = NoPost
        /\ showDropdown' \subseteq showDropdown \ {focused}
        /\ UNCHANGED <<focusTimers, options, actions>>
    BY <1>4 DEF Tools!Choose, Tools!SetTarget, Tools!OpenAfterBlur
  <2>2. target' \in [Tools!Kinds -> Posts \cup {NoPost}] /\ target'[k] = p
    BY <1>1, <2>1
  <2>3. QED
    BY <1>1, <1>2, <2>1, <2>2 DEF ToolsInv, Tools!TypeOK, Attended
<1>5. ASSUME NEW k \in Tools!Kinds, Tools!Send(k) PROVE ToolsInv'
  <2>1. PICK n \in 1..MaxActions :
             actions' = actions \cup {[n |-> n, kind |-> k, post |-> target[k]]}
    BY <1>5 DEF Tools!Send
  <2>2. /\ k \in visible
        /\ UNCHANGED <<showDropdown, focusTimers, focused, target, visible,
                       options>>
    BY <1>5 DEF Tools!Send
  <2>3. actions' \subseteq [n : 1..MaxActions, kind : Tools!Kinds, post : Posts]
    BY <1>1, <1>2, <2>1, <2>2
  <2>4. QED
    BY <1>1, <1>2, <2>2, <2>3 DEF ToolsInv, Tools!TypeOK, Attended
<1>6. CASE Tools!SendReport \/ Tools!DeletePost \/ Tools!SendBan
  BY <1>5, <1>6 DEF Tools!SendReport, Tools!DeletePost, Tools!SendBan, Tools!Kinds
<1>7. CASE Tools!SelectCategory \/ Tools!TickBanImages \/ Tools!TickPermanent
  <2>1. /\ options' \subseteq Tools!Kinds
        /\ UNCHANGED <<showDropdown, focusTimers, focused, target, visible,
                       actions>>
    BY <1>1, <1>7 DEF Tools!SelectCategory, Tools!TickBanImages, Tools!TickPermanent,
       Tools!SetOption, Tools!Ticked, Tools!Kinds
  <2>2. QED
    BY <1>1, <1>2, <2>1 DEF ToolsInv, Tools!TypeOK, Attended
<1>8. CASE \E k \in Tools!Kinds : Tools!CloseDialog(k)
  <2>1. /\ visible' \subseteq visible
        /\ UNCHANGED <<showDropdown, focusTimers, focused, target, options,
                       actions>>
    BY <1>8 DEF Tools!CloseDialog
  <2>2. QED
    BY <1>1, <1>2, <2>1 DEF ToolsInv, Tools!TypeOK, Attended
<1>9. CASE Tools!Blur
  <2>1. /\ focused' = NoPost /\ showDropdown' = showDropdown \ {focused}
        /\ UNCHANGED <<focusTimers, target, visible, options, actions>>
    BY <1>9 DEF Tools!Blur, Tools!OpenAfterBlur
  <2>2. QED
    BY <1>1, <1>2, <2>1 DEF ToolsInv, Tools!TypeOK, Attended
<1>10. QED
  BY <1>3, <1>4, <1>6, <1>7, <1>8, <1>9 DEF Tools!User

\* A timer gives a menu the focus, which takes it from another; an answer hides
\* a dialog.
LEMMA WorksTools == ASSUME ToolsInv, Tools!Works PROVE ToolsInv'
<1>1. /\ showDropdown \subseteq Posts /\ focusTimers \subseteq Posts
      /\ focused \in Posts \cup {NoPost}
      /\ \A p \in showDropdown : p = focused \/ p \in focusTimers
  BY DEF ToolsInv, Tools!TypeOK, Attended
<1>2. CASE \E p \in Posts : Tools!FocusTimer(p)
  <2>1. PICK p \in Posts : Tools!FocusTimer(p)
    BY <1>2
  <2>2. /\ focusTimers' = focusTimers \ {p}
        /\ UNCHANGED <<target, visible, options, actions>>
    BY <2>1 DEF Tools!FocusTimer
  <2>3. /\ showDropdown' \subseteq Posts /\ focused' \in Posts \cup {NoPost}
        /\ \A q \in showDropdown' : q = focused' \/ q \in focusTimers'
    <3>1. CASE p \notin showDropdown
      BY <1>1, <2>1, <2>2, <3>1 DEF Tools!FocusTimer
    <3>2. CASE p \in showDropdown /\ visible # {}
      BY <1>1, <2>1, <2>2, <3>2 DEF Tools!FocusTimer
    <3>3. CASE p \in showDropdown /\ visible = {}
      BY <1>1, <2>1, <2>2, <3>3 DEF Tools!FocusTimer, Tools!OpenAfterBlur
    <3>4. QED
      BY <3>1, <3>2, <3>3
  <2>4. focusTimers' \subseteq Posts
    BY <1>1, <2>2
  <2>5. QED
    BY <2>2, <2>3, <2>4 DEF ToolsInv, Tools!TypeOK, Attended
<1>3. CASE \E a \in actions : Tools!ActionAnswered(a) \/ Tools!ActionFails(a)
  <2>1. /\ actions' \subseteq actions /\ visible' \subseteq visible
        /\ UNCHANGED <<showDropdown, focusTimers, focused, target, options>>
    BY <1>3 DEF Tools!ActionAnswered, Tools!ActionFails
  <2>2. QED
    BY <2>1 DEF ToolsInv, Tools!TypeOK, Attended
<1>4. QED
  BY <1>2, <1>3 DEF Tools!Works

\* Every step keeps the tools.
LEMMA NextTools == ASSUME ToolsInv, [Next]_vars PROVE ToolsInv'
<1>1. CASE Tools!Unmounted
  BY <1>1, UnmountedTools
<1>2. CASE OnPosts
  BY <1>2, UserTools, WorksTools DEF OnPosts
<1>3. CASE UNCHANGED toolsVars
  BY <1>3 DEF toolsVars, ToolsInv, Tools!TypeOK, Attended
<1>4. QED
  BY <1>1, <1>2, <1>3 DEF Next, Loads, Leaves, Loaded, Goes, InSession, OnAdminPage,
     vars

-----------------------------------------------------------------------------
(* The theorems. *)

Clicked == clicks \in 0..MaxClicks

IInv == PollInv /\ SessionInv /\ ToolsInv /\ Clicked

\* A new tab, at the site's first page, satisfies all of them.
LEMMA InitIInv == Init => IInv
<1> SUFFICES ASSUME Init PROVE IInv
  OBVIOUS
<1>1. PollInv
  <2>1. /\ page = "posts" /\ active = FALSE /\ armed = 0 /\ asking = {}
        /\ statusStore = 0 /\ currentStatus = 1 /\ running = FALSE
    BY DEF Init, Poll!Init
  <2>2. /\ 0 \in 0..MaxStatus /\ 1 \in 1..MaxStatus
        /\ 0 \in Nat
    BY TabAssumption
  <2>3. Poll!TypeOK
    BY <2>1, <2>2 DEF Poll!TypeOK
  <2>4. QED
    BY <2>1, <2>3 DEF PollInv, Pages, Loop, Live
<1>2. SessionInv
  <2> DEFINE c == Session!Call(1, "initStores", TRUE, TRUE)
  <2>1. /\ cookie = FALSE /\ admin = FALSE /\ role = FALSE /\ calls = {c}
        /\ leaving = FALSE /\ disturbed = FALSE
    BY DEF Init, Session!Init
  <2>2. 1 \in 1..MaxCalls
    BY TabAssumption
  <2>3. c \in Session!Calls /\ c.info /\ c.cookie = cookie /\ c.by = "initStores"
    BY <2>1, <2>2 DEF Session!Call, Session!Calls, Session!Handlers
  <2> HIDE DEF c
  <2>4. QED
    BY <2>1, <2>3 DEF SessionInv, Session!TypeOK, Heard
<1>3. ToolsInv
  BY DEF Init, Tools!Init, Tools!TypeOK, Tools!Kinds, ToolsInv, Attended
<1>4. Clicked
  BY TabAssumption DEF Init, Clicked
<1>5. QED
  BY <1>1, <1>2, <1>3, <1>4 DEF IInv

\* The clicks are counted up to their bound.
LEMMA NextClicked == ASSUME Clicked, [Next]_vars PROVE Clicked'
<1>1. clicks \in 0..MaxClicks /\ MaxClicks \in Nat
  BY TabAssumption DEF Clicked
<1>2. \/ clicks' = 0
      \/ clicks < MaxClicks /\ clicks' = clicks + 1
      \/ clicks' = clicks
  BY DEF Next, Loads, Leaves, Loaded, Goes, InSession, OnAdminPage, OnPosts, Clicks,
     vars
<1>3. QED
  BY <1>1, <1>2 DEF Clicked

\* The invariant is inductive.
THEOREM Invariance == Spec => []IInv
<1>1. IInv => admin \in BOOLEAN
  BY DEF IInv, SessionInv, Session!TypeOK
<1>2. IInv /\ [Next]_vars => IInv'
  BY <1>1, NextPoll, NextSession, NextTools, NextClicked DEF IInv
<1>3. QED
  BY <1>2, InitIInv, PTL DEF Spec

\* The variables of the tab and of the server's task keep their types.
THEOREM TypeCorrect == Spec => []TypeOK
<1>1. IInv => TypeOK
  BY DEF IInv, PollInv, SessionInv, ToolsInv, Clicked, TypeOK
<1>2. QED
  BY <1>1, Invariance, PTL

\* The admin page that is open has exactly one request or timer under way, one
\* that is closed none, whenever answers to earlier visits arrive.
THEOREM OneLoopOnly == Spec => []OneLoop
<1>1. IInv => OneLoop
  <2>1. SUFFICES ASSUME PollInv PROVE OneLoop
    BY DEF IInv
  <2>2. Poll!Live = Live
    BY DEF Poll!Live, Live
  <2>3. /\ Live = {} => Cardinality(Live) = 0
        /\ \A a : Live = {a} => Cardinality(Live) = 1
    BY FS_EmptySet, FS_Singleton
  <2>4. armed + Cardinality(Live) = IF active THEN 1 ELSE 0
    BY <2>1, <2>3 DEF PollInv, Loop
  <2>5. Poll!Cardinality(Live) = Cardinality(Live)
    BY DEF Poll!Cardinality, Cardinality
  <2>6. QED
    BY <2>1, <2>2, <2>4, <2>5 DEF OneLoop, Poll!OneLoop, PollInv, Loop
<1>2. QED
  BY <1>1, Invariance, PTL

\* At rest, and unless a call failed or two handlers overlapped since the site
\* was loaded, the tools are offered exactly to the holder of the cookie.
THEOREM RoleIsHeld == Spec => []ShownRoleIsHeld
<1>1. IInv => ShownRoleIsHeld
  BY DEF IInv, SessionInv, Heard, ShownRoleIsHeld, Session!ShownRoleIsHeld
<1>2. QED
  BY <1>1, Invariance, PTL

\* No menu stays open without the focus: for any number of posts, of timers
\* under way and of dialogs opened meanwhile.
THEOREM MenuHasFocus == Spec => []OpenMenuHasFocus
<1>1. IInv => OpenMenuHasFocus
  <2>1. SUFFICES ASSUME ToolsInv PROVE OpenMenuHasFocus
    BY DEF IInv
  <2>2. \A p \in showDropdown : p = focused \/ p \in focusTimers
    BY <2>1 DEF ToolsInv, Attended
  <2>3. ASSUME focusTimers = {} PROVE Cardinality(showDropdown) <= 1
    <3>1. showDropdown = {} \/ showDropdown = {focused}
      BY <2>2, <2>3
    <3>2. Cardinality({}) = 0 /\ Cardinality({focused}) = 1
      BY FS_EmptySet, FS_Singleton
    <3>3. QED
      BY <3>1, <3>2
  <2>4. Tools!Cardinality(showDropdown) = Cardinality(showDropdown)
    BY DEF Tools!Cardinality, Cardinality
  <2>5. QED
    BY <2>2, <2>3, <2>4 DEF OpenMenuHasFocus, Tools!OpenMenuHasFocus
<1>2. QED
  BY <1>1, Invariance, PTL

===============================================================================
