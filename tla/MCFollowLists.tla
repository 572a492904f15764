--------------------------- MODULE MCFollowLists ---------------------------
(***************************************************************************)
(* An instance of FollowLists: the notifications, cut to six rows.         *)
(***************************************************************************)
EXTENDS FollowLists

Rows == 1..RowCount

\* fetchNotifications: a follow for even i, a like for odd i.
Notifications ==
    [r \in Rows |-> IF r % 2 = 1 THEN [cell |-> "FollowEvent", type |-> "following"]
                    ELSE [cell |-> "LikeEvent", type |-> "like"]]

NotificationCells == [r \in Rows |-> Notifications[r].cell]
=============================================================================
