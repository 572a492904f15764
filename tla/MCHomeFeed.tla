----------------------------- MODULE MCHomeFeed -----------------------------
(***************************************************************************)
(* The feed of createMockModels.                                           *)
(***************************************************************************)
EXTENDS HomeFeed

\* createMockModels: 0...5 posts of 0...5 comments.
MockComments == [i \in 1..6 |-> 6]
=============================================================================
