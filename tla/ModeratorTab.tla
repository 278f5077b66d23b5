---------------------------- MODULE ModeratorTab ----------------------------
(***************************************************************************)
(* A moderator's tab: the session, the admin page and the tools of the      *)
(* posts, as the router mounts and unmounts them.  The role of the session  *)
(* decides which links and menu items are offered; loading the site anew,   *)
(* as LoginPage and RegisterPage do, resets all three, and leaving a page   *)
(* resets what is mounted there, but not the calls it has sent.             *)
(***************************************************************************)
EXTENDS Naturals, FiniteSets

CONSTANTS MaxStatus, MaxAsking, MaxCalls, Posts, NoPost, MaxActions,
          MaxClicks  \* bound: what the user does between two loads of the site

ASSUME TabAssumption ==
  /\ NoPost \notin Posts
  /\ {MaxStatus, MaxAsking, MaxCalls} \subseteq Nat \ {0}
  /\ {MaxActions, MaxClicks} \subseteq Nat

VARIABLES
  page,     \* "posts", "login", "register" or "admin"
  clicks,
  active, armed, asking, statusStore, currentStatus, running,
  cookie, admin, role, calls, leaving, disturbed,
  showDropdown, focusTimers, focused, target, visible, options, actions

Poll == INSTANCE AdminPoll
Session == INSTANCE ModeratorSession
Tools == INSTANCE PostTools

pollVars == <<active, armed, asking, statusStore, currentStatus, running>>
sessionVars == <<cookie, admin, role, calls, leaving, disturbed>>
toolsVars == <<showDropdown, focusTimers, focused, target, visible, options,
               actions>>
vars == <<page, clicks, pollVars, sessionVars, toolsVars>>

Pages == {"posts", "login", "register", "admin"}

TypeOK == /\ page \in Pages /\ clicks \in 0..MaxClicks
          /\ Poll!TypeOK /\ Session!TypeOK /\ Tools!TypeOK

Init == /\ page = "posts" /\ clicks = 0
        /\ Poll!Init /\ Session!Init /\ Tools!Init

Clicks == clicks < MaxClicks /\ clicks' = clicks + 1

(* main.js: at a page of the server's, or the address of any page.  That of *)
(* the admin page gets an admin only.                                       *)
Loaded(p) ==
  /\ page' = p /\ clicks' = 0
  /\ Session!Reloaded
  /\ Tools!Unmounted
  /\ IF p = "admin" THEN Poll!OpenedByLoad ELSE Poll!Reloaded

(* document.location.href of LoginPage and RegisterPage, followed. *)
Leaves == leaving /\ Loaded("posts")

Loads == \E p \in Pages : Loaded(p)

(* A link of the site.  The layout offers Admin to any moderator.           *)
Goes(p) ==
  /\ p # page
  /\ p = "admin" => role
  /\ visible = {}
  /\ Clicks
  /\ page' = p
  /\ IF page = "posts" THEN Tools!Unmounted ELSE UNCHANGED toolsVars
  /\ IF p = "admin" THEN Poll!Opened
     ELSE IF page = "admin" THEN Poll!Closed ELSE UNCHANGED pollVars
  /\ UNCHANGED sessionVars

InSession ==
  /\ \/ /\ Clicks
        /\ \/ page = "login" /\ Session!Login
           \/ page = "register" /\ Session!Register
           \/ visible = {} /\ Session!Logout
     \/ Session!Answers /\ UNCHANGED clicks
  /\ UNCHANGED <<page, pollVars, toolsVars>>

OnAdminPage ==
  /\ \/ Clicks /\ Poll!StartTask
     \/ Poll!Works /\ UNCHANGED clicks
  /\ UNCHANGED <<page, sessionVars, toolsVars>>

OnPosts ==
  /\ page = "posts"
  /\ \/ Clicks /\ Tools!User
     \/ Tools!Works /\ UNCHANGED clicks
  /\ UNCHANGED <<page, pollVars, sessionVars>>

Next == \/ Loads \/ Leaves \/ InSession \/ OnAdminPage \/ OnPosts
        \/ \E p \in Pages : Goes(p)

Spec == Init /\ [][Next]_vars

(* A timer fires, and a request is answered or fails, without delay for     *)
(* ever; a page that asks again and again with an admin's cookie is served  *)
(* and answered at last.                                                    *)
FairSpec ==
  /\ Spec
  /\ WF_vars(Poll!Ticks /\ OnAdminPage)
  /\ \A n \in 1..MaxAsking : WF_vars(Poll!Answered(n) /\ OnAdminPage)
  /\ SF_vars(Poll!LiveServed /\ OnAdminPage)
  /\ SF_vars(Poll!LiveArrives /\ OnAdminPage)

-----------------------------------------------------------------------------
(* Properties. *)

(* The admin page that is open has exactly one request or timer under way,  *)
(* never two polling loops and never none; none is left when it is closed,  *)
(* also when it was left with a request under way and opened again.         *)
OneLoop == Poll!OneLoop /\ (active <=> page = "admin")

(* When nothing is under way the tab offers a moderator's tools exactly if  *)
(* the browser holds a moderator's cookie: the order of the login, its info *)
(* call and the cookie the browser stores in between comes out right.       *)
ShownRoleIsHeld == Session!ShownRoleIsHeld

(* A menu that is open has the focus or is about to get it, so that it will *)
(* close when the user turns elsewhere; no two menus stay open.             *)
OpenMenuHasFocus == Tools!OpenMenuHasFocus

(* An admin page that stays open, is not loaded anew and keeps an admin's   *)
(* cookie comes to show the last status of the server, although answers to  *)
(* earlier visits arrive late and any number of requests fail.  Without the *)
(* cookie (a janitor follows the link, an admin logs out on the page) every *)
(* request is refused, and the page goes on asking and shows what it had.   *)
StatusCatchesUp == \/ []<><<Loads>>_vars
                   \/ []<>(page # "admin" \/ ~admin)
                   \/ <>[](statusStore = currentStatus)

=============================================================================
