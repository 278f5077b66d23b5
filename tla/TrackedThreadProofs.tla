------------------------- MODULE TrackedThreadProofs -------------------------
(***************************************************************************)
(* What TrackedThread.ProcessThreadUpdates computes, for every memory and  *)
(* every poll.                                                             *)
(***************************************************************************)
EXTENDS TrackedThread, TLAPS

\* The three lists are disjoint, and with the posts that did not change they
\* are all the posts remembered or polled.
LEMMA ListsAreDisjoint ==
  ASSUME NEW hashes, NEW poll
  PROVE  /\ NewPosts(hashes, poll) \cap UpdatedPosts(hashes, poll) = {}
         /\ DeletedPosts(hashes, poll) \cap DOMAIN poll = {}
         /\ \A p \in DOMAIN poll :
              \/ p \in NewPosts(hashes, poll)
              \/ p \in UpdatedPosts(hashes, poll)
              \/ p \in DOMAIN hashes /\ hashes[p] = poll[p]
BY DEF NewPosts, UpdatedPosts, DeletedPosts

\* After ProcessThreadUpdates the tracker remembers exactly the poll, so that
\* the next poll is compared with this one.
THEOREM RemembersThePoll ==
  ASSUME NEW hashes, NEW poll, poll = [p \in DOMAIN poll |-> poll[p]]
  PROVE  NextHashes(hashes, poll) = poll
<1> DEFINE kept == DOMAIN hashes \ DeletedPosts(hashes, poll)
           written == NewPosts(hashes, poll) \cup UpdatedPosts(hashes, poll)
<1>1. kept \cup written = DOMAIN poll
  BY DEF NewPosts, UpdatedPosts, DeletedPosts
<1>2. ASSUME NEW p \in DOMAIN poll, p \notin written
      PROVE  hashes[p] = poll[p]
  BY <1>2, ListsAreDisjoint
<1>3. NextHashes(hashes, poll)
        = [p \in DOMAIN poll |-> IF p \in written THEN poll[p] ELSE hashes[p]]
  BY <1>1 DEF NextHashes
<1>4. QED
  BY <1>2, <1>3

\* ThreadUpdateTask skips the backend exactly when the poll is what the tracker
\* remembers (and the thread is not archived): no change goes unnoticed and no
\* unchanged thread is consumed again.
THEOREM ChangesAreNoticed ==
  ASSUME NEW hashes, NEW poll,
         hashes = [p \in DOMAIN hashes |-> hashes[p]],
         poll = [p \in DOMAIN poll |-> poll[p]]
  PROVE  HasChanges(hashes, poll) <=> hashes # poll
<1>1. ASSUME ~HasChanges(hashes, poll) PROVE hashes = poll
  <2>1. DOMAIN hashes = DOMAIN poll
    BY <1>1 DEF HasChanges, NewPosts, DeletedPosts
  <2>2. \A p \in DOMAIN poll : hashes[p] = poll[p]
    BY <1>1, <2>1 DEF HasChanges, UpdatedPosts
  <2>3. QED
    BY <2>1, <2>2
<1>2. ASSUME hashes = poll PROVE ~HasChanges(hashes, poll)
  BY <1>2 DEF HasChanges, NewPosts, UpdatedPosts, DeletedPosts
<1>3. QED
  BY <1>1, <1>2

=============================================================================
