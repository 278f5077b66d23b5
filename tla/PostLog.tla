------------------------------- MODULE PostLog -------------------------------
(***************************************************************************)
(* What posting promises those who read and write a board: the posts are a *)
(* list that only grows at its end; a file belongs to the post that was    *)
(* the last when the file came; and somebody is told of a post only when   *)
(* it is there, with its file, and never twice of one draft.               *)
(***************************************************************************)
EXTENDS Naturals, Sequences

CONSTANTS
  Drafts,
  FileDrafts  \* drafts with a file

VARIABLES
  log,    \* the draft of each post, by its number
  files,  \* numbers of the posts with their file
  told    \* numbers of the posts whose sender was told

vars == <<log, files, told>>

Init == log = << >> /\ files = {} /\ told = {}

Post(d) ==
  /\ log' = Append(log, d)
  /\ UNCHANGED <<files, told>>

Attach ==
  /\ log # << >> /\ log[Len(log)] \in FileDrafts
  /\ files' = files \cup {Len(log)}
  /\ UNCHANGED <<log, told>>

Tell(n) ==
  /\ log[n] \in FileDrafts => n \in files
  /\ \A m \in told : log[m] # log[n]
  /\ told' = told \cup {n}
  /\ UNCHANGED <<log, files>>

Next ==
  \/ \E d \in Drafts : Post(d)
  \/ Attach
  \/ \E n \in DOMAIN log : Tell(n)

Spec == Init /\ [][Next]_vars
=============================================================================
