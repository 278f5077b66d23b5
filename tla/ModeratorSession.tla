-------------------------- MODULE ModeratorSession --------------------------
(***************************************************************************)
(* Who the tab takes the user for: moderatorUserStore, set by initStores,   *)
(* LoginPage, RegisterPage and the Logout button of the layout, and the     *)
(* cookie of the user API, which the browser keeps.                         *)
(*                                                                         *)
(* A handler awaits one call after the other; a call is the handler's state *)
(* while it waits.  A call carries the cookie of the moment it is sent, its *)
(* answer sets or clears the cookie when it arrives.                        *)
(***************************************************************************)
EXTENDS Naturals, FiniteSets

CONSTANTS MaxCalls   \* bound: calls under way

VARIABLES
  cookie,     \* the browser holds a moderator's cookie, of any rank
  admin,      \* ... that of an admin or a developer
  role,       \* moderatorUserStore is not null
  calls,      \* calls under way
  leaving,    \* document.location.href is set
  disturbed   \* history: see ShownRoleIsHeld

sessionVars == <<cookie, admin, role, calls, leaving, disturbed>>

Handlers == {"initStores", "login", "register", "logout"}

(* ok: what UserLoginAsync returned before the handler called /user/info.   *)
Calls == [n : 1..MaxCalls, by : Handlers, info : BOOLEAN, cookie : BOOLEAN,
          ok : BOOLEAN]

TypeOK ==
  /\ {cookie, admin, role, leaving, disturbed} \subseteq BOOLEAN
  /\ calls \subseteq Calls
  /\ \A c, d \in calls : c.n = d.n => c = d

Call(n, by, info, ok) ==
  [n |-> n, by |-> by, info |-> info, cookie |-> cookie, ok |-> ok]

Init ==
  /\ cookie = FALSE /\ admin = FALSE /\ role = FALSE
  /\ calls = {Call(1, "initStores", TRUE, TRUE)}
  /\ leaving = FALSE /\ disturbed = FALSE

(* The document is loaded: initStores asks who the user is. *)
Reloaded ==
  /\ role' = FALSE
  /\ calls' = {Call(1, "initStores", TRUE, TRUE)}
  /\ leaving' = FALSE /\ disturbed' = FALSE
  /\ UNCHANGED <<cookie, admin>>

Used == {c.n : c \in calls}

Sends(by) ==
  \E n \in 1..MaxCalls \ Used :
    /\ 1..(n - 1) \subseteq Used
    /\ calls' = calls \union {Call(n, by, FALSE, FALSE)}

(* Handlers that overlap are heard in any order. *)
Overlaps == disturbed' = (disturbed \/ calls # {})

Login ==
  /\ Sends("login")
  /\ Overlaps
  /\ UNCHANGED <<cookie, admin, role, leaving>>

Register ==
  /\ Sends("register")
  /\ Overlaps
  /\ UNCHANGED <<cookie, admin, role, leaving>>

(* The Logout button: the role is dropped at once, nobody waits for the call. *)
Logout ==
  /\ role
  /\ role' = FALSE
  /\ Sends("logout")
  /\ Overlaps
  /\ UNCHANGED <<cookie, admin, leaving>>

\* Mutant of LoginAnswered: the user's info is asked for with the old cookie.
LoginAnsweredTooLate(c) ==
  /\ c.by \in {"login", "register"} /\ ~c.info
  /\ \E ok \in BOOLEAN :
       /\ c.by = "register" => ok
       /\ cookie' = (cookie \/ ok)
       /\ admin' \in IF ok THEN BOOLEAN ELSE {admin}
       /\ calls' = (calls \ {c}) \union {[c EXCEPT !.info = TRUE, !.ok = ok]}
  /\ UNCHANGED <<role, leaving, disturbed>>

(* The login is granted, to a user of any rank, or not; the user's info is  *)
(* asked for in any case.                                                   *)
(* After a registration it is only asked for if that was granted.           *)
LoginAnswered(c) ==
  /\ c.by \in {"login", "register"} /\ ~c.info
  /\ \E ok \in BOOLEAN :
       /\ c.by = "register" => ok
       /\ cookie' = (cookie \/ ok)
       /\ admin' \in IF ok THEN BOOLEAN ELSE {admin}
       /\ calls' = (calls \ {c})
                     \union {[c EXCEPT !.info = TRUE, !.ok = ok, !.cookie = cookie']}
  /\ UNCHANGED <<role, leaving, disturbed>>

(* A registration that is refused drops the role. *)
RegisterRefused(c) ==
  /\ c.by = "register" /\ ~c.info
  /\ calls' = calls \ {c}
  /\ role' = FALSE
  /\ disturbed' = (disturbed \/ cookie)
  /\ UNCHANGED <<cookie, admin, leaving>>

(* The role is what the server read from the cookie that came with the      *)
(* call; after a login the page is left.                                    *)
InfoArrives(c) ==
  /\ c.info
  /\ calls' = calls \ {c}
  /\ role' = c.cookie
  /\ leaving' = (leaving \/ (c.by \in {"login", "register"} /\ c.ok))
  /\ UNCHANGED <<cookie, admin, disturbed>>

LogoutAnswered(c) ==
  /\ c.by = "logout"
  /\ calls' = calls \ {c}
  /\ cookie' = FALSE /\ admin' = FALSE
  /\ UNCHANGED <<role, leaving, disturbed>>

(* A call fails: the handler ends; initStores takes the user for nobody.    *)
CallFails(c) ==
  /\ calls' = calls \ {c}
  /\ role' = IF c.by = "initStores" THEN FALSE ELSE role
  /\ disturbed' = TRUE
  /\ UNCHANGED <<cookie, admin, leaving>>

Answers == \E c \in calls :
  \/ LoginAnswered(c) \/ RegisterRefused(c) \/ InfoArrives(c)
  \/ LogoutAnswered(c) \/ CallFails(c)

Next == Reloaded \/ Login \/ Register \/ Logout \/ Answers

Spec == Init /\ [][Next]_sessionVars

(* When nothing is under way the tab offers a moderator's tools exactly if  *)
(* the browser holds a moderator's cookie.  Disturbed, and excepted until   *)
(* the next load, are tabs where a call failed, where two of the handlers   *)
(* overlapped, or where a moderator's registration was refused.             *)
ShownRoleIsHeld == calls = {} /\ ~disturbed => (role <=> cookie)

=============================================================================
