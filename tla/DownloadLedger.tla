---------------------------- MODULE DownloadLedger ----------------------------
(***************************************************************************)
(* What the cache layer promises of the download queue (ARCHITECTURE.md,   *)
(* "Cache"): whatever happens to the processes that work on it, a download *)
(* once written to the ledger leaves it only after the backend accepted    *)
(* its files.  A download may be handed out again after it was settled.    *)
(***************************************************************************)
CONSTANT Images

VARIABLES ledger, settled

vars == <<ledger, settled>>

Init == ledger = {} /\ settled = {}

\* The ledger is rewritten as L: unsettled entries survive.
Rewrite(L) ==
  /\ ledger \ L \subseteq settled
  /\ ledger' = L
  /\ UNCHANGED settled

Settle(j) ==
  /\ settled' = settled \cup {j}
  /\ UNCHANGED ledger

Next ==
  \/ \E L \in SUBSET Images : Rewrite(L)
  \/ \E j \in Images : Settle(j)

Spec == Init /\ [][Next]_vars

\* Every download in the ledger is settled in the end.
Drains == \A j \in Images : j \in ledger ~> j \in settled
=============================================================================
