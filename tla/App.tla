-------------------------------- MODULE App ---------------------------------
(***************************************************************************)
(* The app on one device: the session and, in its second tab, the search   *)
(* mode.  The tab bar keeps Explore's controller as long as the app lives, *)
(* so its animations and its keyboard go on behind other tabs, behind the  *)
(* Login screen, and from one user to the next; but a tap reaches it only  *)
(* when its tab is selected and nothing is presented.                      *)
(***************************************************************************)
EXTENDS Session, ExploreSearch

appVars == <<vars, searchVars>>

AppInit == Init /\ SearchInit

SessionStep ==
    /\ Tap \/ MainQueue \/ \E c \in Calls : Client(c)
    /\ UNCHANGED searchVars

\* A tap on the search bar, on Cancel or on the dimmed view.
ExploreTap ==
    /\ CanTap /\ Uncovered /\ tab = "Explore"
    /\ SearchTap
    /\ UNCHANGED vars

ExploreCallback == SearchCallback /\ UNCHANGED vars

AppRelaunch == Relaunch /\ SearchRelaunch

AppNext == SessionStep \/ ExploreTap \/ ExploreCallback \/ AppRelaunch

AppSpec == AppInit /\ [][AppNext]_appVars

(* As in Session: the main queue is served, and every request is answered. *)
AppFairSpec ==
    /\ AppSpec
    /\ WF_appVars(MainQueue /\ UNCHANGED searchVars)
    /\ \A c \in Calls : WF_appVars(Client(c) /\ UNCHANGED searchVars)

=============================================================================
