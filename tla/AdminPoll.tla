----------------------------- MODULE AdminPoll -----------------------------
(***************************************************************************)
(* AdminPage.svelte: the page asks the server for the status of its task,   *)
(* and again a second after every answer or failure, until it is left.  The *)
(* status is kept in a store that outlives the page.  The server answers an *)
(* admin or a developer and refuses everybody else.                         *)
(***************************************************************************)
EXTENDS Naturals, FiniteSets

CONSTANTS
  MaxStatus,     \* bound: statuses the server goes through
  MaxAsking      \* bound: requests for the status under way

VARIABLES
  admin,         \* the browser holds the cookie of an admin or a developer
  active,        \* persistObject.active of the page that is mounted
  armed,         \* timers set with window.setTimeout
  asking,        \* requests under way; status 0: not served
  statusStore,
  currentStatus, \* AdminController.CurrentStatus
  running        \* AdminController.CurrentTask is not completed

pollVars == <<active, armed, asking, statusStore, currentStatus, running>>

(* allowed: the request came with such a cookie.                            *)
Requests == [n : 1..MaxAsking, live : BOOLEAN, allowed : BOOLEAN,
             status : 0..MaxStatus]

TypeOK ==
  /\ active \in BOOLEAN /\ running \in BOOLEAN
  /\ armed \in Nat
  /\ asking \subseteq Requests
  /\ statusStore \in 0..MaxStatus /\ currentStatus \in 1..MaxStatus

Init ==
  /\ admin \in BOOLEAN
  /\ active = FALSE /\ armed = 0 /\ asking = {}
  /\ statusStore = 0        \* "Idle"
  /\ currentStatus = 1 /\ running = FALSE

Used == {a.n : a \in asking}

Request(n) == [n |-> n, live |-> TRUE, allowed |-> admin, status |-> 0]

(* updateProgress(), up to its await. *)
Asks ==
  \E n \in 1..MaxAsking \ Used :
    /\ 1..(n - 1) \subseteq Used
    /\ asking' = asking \union {Request(n)}

(* onMount. *)
Opened ==
  /\ ~active
  /\ active' = TRUE
  /\ Asks
  /\ UNCHANGED <<armed, statusStore, currentStatus, running>>

(* onDestroy. *)
Closed ==
  /\ active
  /\ active' = FALSE
  /\ armed' = 0
  /\ asking' = {[a EXCEPT !.live = FALSE] : a \in asking}
  /\ UNCHANGED <<statusStore, currentStatus, running>>

(* The site is loaded anew: stores, timers and requests are gone. *)
Reloaded ==
  /\ active' = FALSE /\ armed' = 0 /\ asking' = {} /\ statusStore' = 0
  /\ UNCHANGED <<currentStatus, running>>

(* The site is loaded at the admin page, whose address is refused too.      *)
OpenedByLoad ==
  /\ admin
  /\ active' = TRUE /\ armed' = 0 /\ statusStore' = 0
  /\ asking' = {Request(1)}
  /\ UNCHANGED <<currentStatus, running>>

Ticks ==
  /\ armed > 0
  /\ armed' = armed - 1
  /\ Asks
  /\ UNCHANGED <<active, statusStore, currentStatus, running>>

(* AdminAccessFilter lets it through. *)
GetProgress(a) ==
  /\ a.allowed /\ a.status = 0
  /\ asking' = (asking \ {a}) \union {[a EXCEPT !.status = currentStatus]}
  /\ UNCHANGED <<active, armed, statusStore, currentStatus, running>>

\* Mutant of Rearms: persistObject.active is not looked at.
RearmsAlways(a) == armed' = armed + 1

Rearms(a) == armed' = IF a.live THEN armed + 1 ELSE armed

(* An answer is stored, whichever page had asked for it. *)
ProgressArrives(a) ==
  /\ a.status # 0
  /\ asking' = asking \ {a}
  /\ statusStore' = a.status
  /\ Rearms(a)
  /\ UNCHANGED <<active, currentStatus, running>>

\* Mutant of ProgressFails: the timer is set inside the try block.
ProgressFailsForGood(a) ==
  /\ asking' = asking \ {a}
  /\ UNCHANGED <<active, armed, statusStore, currentStatus, running>>

(* No answer; or the empty one of a refusal, on which json() throws.        *)
ProgressFails(a) ==
  /\ asking' = asking \ {a}
  /\ Rearms(a)
  /\ UNCHANGED <<active, statusStore, currentStatus, running>>

(* The three buttons: StartTask of the server starts a task for an admin,   *)
(* unless one is running.                                                   *)
StartTask ==
  /\ active /\ admin /\ ~running /\ currentStatus < MaxStatus
  /\ running' = TRUE
  /\ UNCHANGED <<active, armed, asking, statusStore, currentStatus>>

(* The task reports its progress, its end or its exception. *)
TaskReports ==
  /\ running /\ currentStatus < MaxStatus
  /\ currentStatus' = currentStatus + 1
  /\ running' \in BOOLEAN
  /\ UNCHANGED <<active, armed, asking, statusStore>>

Works ==
  \/ Ticks \/ TaskReports
  \/ \E a \in asking : GetProgress(a) \/ ProgressArrives(a) \/ ProgressFails(a)

Next == /\ Opened \/ Closed \/ Reloaded \/ OpenedByLoad \/ StartTask \/ Works
        /\ UNCHANGED admin

Spec == Init /\ [][Next]_<<pollVars, admin>>

(* The request n is served and answered, or fails. *)
Answered(n) == \E a \in asking :
  a.n = n /\ (GetProgress(a) \/ ProgressArrives(a) \/ ProgressFails(a))

Live == {a \in asking : a.live}

(* The request of the page that is open is served; its answer arrives. *)
LiveServed  == \E a \in Live : GetProgress(a)
LiveArrives == \E a \in Live : ProgressArrives(a)

(* An open page has exactly one request or timer, never two loops of them   *)
(* and never none; a closed page has neither, also when it was left with a  *)
(* request under way and opened again before the answer.                    *)
OneLoop == armed + Cardinality(Live) = IF active THEN 1 ELSE 0

=============================================================================
