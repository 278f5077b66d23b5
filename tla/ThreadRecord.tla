---------------------------- MODULE ThreadRecord ----------------------------
(***************************************************************************)
(* What the archive of a thread promises of the thread, whatever happens   *)
(* to the processes that write it: it stores only what the site shows or   *)
(* has shown, never a later text than the site's and never an earlier one  *)
(* than its own, and it flags only posts that were removed.  It is closed  *)
(* when the thread is over and all of it is there, and closed it is final. *)
(* A write that failed breaks the last promise, and only that one.         *)
(***************************************************************************)
EXTENDS Naturals

CONSTANTS
  Posts,
  WithMedia,     \* posts with an attached file
  Authoritative  \* edited texts and deletions are written

VARIABLES
  shown,    \* the site's posts: the version of each
  state,    \* "live", "archived" or "gone"
  removed,  \* posts that were removed or marked at some time
  stored,   \* the archive's posts: version and whether flagged as deleted
  mapped,   \* posts whose file is known
  filed,    \* ... and there
  closed,   \* the thread is flagged as archived
  broken    \* a write has failed

site == <<shown, state, removed>>
record == <<stored, mapped>>
vars == <<site, record, filed, closed, broken>>

Init ==
  /\ DOMAIN shown \subseteq Posts /\ state = "live" /\ removed = {}
  /\ stored = << >> /\ mapped = {} /\ filed = {}
  /\ closed = FALSE /\ broken = FALSE

\* Posts appear, are edited, marked and removed; none comes back.
SiteMoves ==
  /\ state = "live"
  /\ DOMAIN shown \ DOMAIN shown' \subseteq removed'
  /\ DOMAIN shown' \ DOMAIN shown \subseteq Posts \ removed
  /\ \A p \in DOMAIN shown \cap DOMAIN shown' : shown'[p] >= shown[p]
  /\ removed \subseteq removed' /\ removed' \subseteq Posts
  /\ UNCHANGED <<state, record, filed, closed, broken>>

ThreadEnds ==
  /\ <<state, state'>> \in
       {<<"live", "archived">>, <<"live", "gone">>, <<"archived", "gone">>}
  /\ UNCHANGED <<shown, removed, record, filed, closed, broken>>

Keeps ==
  /\ DOMAIN stored \subseteq DOMAIN stored' /\ mapped \subseteq mapped'
  /\ \A p \in DOMAIN stored : stored'[p].ver >= stored[p].ver

IsOfSite ==
  /\ DOMAIN stored' \subseteq DOMAIN shown \cup removed
  /\ mapped' \ mapped \subseteq WithMedia \cap (DOMAIN shown \cup removed)
  /\ \A p \in DOMAIN stored' \cap DOMAIN shown : stored'[p].ver <= shown[p]
  /\ \A p \in DOMAIN stored' : stored'[p].deleted => p \in removed

Write ==
  /\ closed => broken
  /\ Keeps /\ IsOfSite
  /\ UNCHANGED <<site, filed, closed, broken>>

FileArrives(p) ==
  /\ p \in mapped
  /\ filed' = filed \cup {p}
  /\ UNCHANGED <<site, record, closed, broken>>

Complete ==
  \A p \in DOMAIN shown :
    /\ p \in DOMAIN stored
    /\ Authoritative => stored[p].ver = shown[p] \/ p \in removed
    /\ p \in WithMedia => p \in mapped

Close ==
  /\ ~closed /\ closed' = TRUE
  /\ state # "live"
  /\ broken' \in {broken, TRUE}
  /\ broken' \/ (state = "archived" => Complete)
  /\ UNCHANGED <<site, record, filed>>

\* The site has dropped the thread, or answers as if it had: it is flagged as
\* deleted instead.
Reopen ==
  /\ closed /\ closed' = FALSE
  /\ state # "live"
  /\ UNCHANGED <<site, record, filed, broken>>

Break ==
  /\ broken' = TRUE
  /\ UNCHANGED <<site, record, filed, closed>>

Next ==
  \/ SiteMoves \/ ThreadEnds
  \/ Write \/ \E p \in Posts : FileArrives(p)
  \/ Close \/ Reopen \/ Break

Spec == Init /\ [][Next]_vars
=============================================================================
