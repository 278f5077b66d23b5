---------------------------- MODULE TrackedThread ----------------------------
(***************************************************************************)
(* TrackedThread.ProcessThreadUpdates: what changed between the posts an   *)
(* archiver remembers of a thread and the posts a poll returned.           *)
(*                                                                         *)
(* A memory and a poll are functions from post numbers to hashes; the poll *)
(* names each post once.                                                   *)
(***************************************************************************)
\* PostHashes has no entry for the post.
NewPosts(hashes, poll) == DOMAIN poll \ DOMAIN hashes

\* The post is remembered with another hash.
UpdatedPosts(hashes, poll) ==
  {p \in DOMAIN poll \cap DOMAIN hashes : poll[p] # hashes[p]}

\* Mutant of DeletedPosts: compared with the new posts, not with the thread.
DeletedUnlessNew(hashes, poll) == DOMAIN hashes \ NewPosts(hashes, poll)

\* The post is remembered and no longer in the thread.
DeletedPosts(hashes, poll) == DOMAIN hashes \ DOMAIN poll

HasChanges(hashes, poll) ==
  \/ NewPosts(hashes, poll) # {}
  \/ UpdatedPosts(hashes, poll) # {}
  \/ DeletedPosts(hashes, poll) # {}

\* PostHashes afterwards: new posts are added, changed ones overwritten, and
\* those that are gone removed.
NextHashes(hashes, poll) ==
  LET kept == DOMAIN hashes \ DeletedPosts(hashes, poll)
      written == NewPosts(hashes, poll) \cup UpdatedPosts(hashes, poll)
  IN  [p \in kept \cup written |-> IF p \in written THEN poll[p] ELSE hashes[p]]
=============================================================================
