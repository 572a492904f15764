------------------------ MODULE ExploreSearchProofs -------------------------
(***************************************************************************)
(* Search can always be left and settles in one mode, however many         *)
(* animations are under way; and the app made of Session and ExploreSearch *)
(* keeps what each of them promises.                                       *)
(***************************************************************************)
EXTENDS App, SessionProofs

\* After a tap that was not rushed only the animations of its own kind can end
\* in another mode: in search mode none of Cancel's is left, and in browsing
\* mode none that would show the tabs.
InStep ==
    ~rushed =>
        /\ cancelItem => dimmed /\ cancelling = 0
        /\ ~cancelItem => ~tabbed /\ beginning = 0

SearchIInv == SearchTypeOK /\ NeverTrapped /\ InStep

LEMMA InitSearchIInv == SearchInit => SearchIInv
<1> SUFFICES ASSUME SearchInit PROVE SearchIInv
  OBVIOUS
<1>1. 0 \in 0..MaxAnimations
  BY AnimationAssumption
<1> QED
  BY <1>1, Zenon DEF SearchInit, SearchIInv, SearchTypeOK, NeverTrapped, InStep

LEMMA NextSearchIInv == SearchIInv /\ [SearchNext]_searchVars => SearchIInv'
<1> SUFFICES ASSUME SearchIInv, [SearchNext]_searchVars PROVE SearchIInv'
  OBVIOUS
<1>1. CASE searchBarTextDidBeginEditing
  <2>1. beginning' \in 0..MaxAnimations
    BY <1>1, AnimationAssumption DEF SearchIInv, SearchTypeOK, searchBarTextDidBeginEditing
  <2>2. rushed' = (cancelling > 0)
    BY <1>1 DEF searchBarTextDidBeginEditing
  <2>3. (cancelling > 0) \in BOOLEAN /\ (cancelling > 0 \/ cancelling = 0)
    BY AnimationAssumption DEF SearchIInv, SearchTypeOK
  <2> QED
    BY <1>1, <2>1, <2>2, <2>3, Zenon
    DEF SearchIInv, SearchTypeOK, NeverTrapped, InStep, searchBarTextDidBeginEditing
<1>2. CASE BeginAnimationDone
  <2>1. beginning' \in 0..MaxAnimations /\ beginning # 0
    BY <1>2, AnimationAssumption DEF SearchIInv, SearchTypeOK, BeginAnimationDone
  <2>2. tabbed' \in BOOLEAN
    BY <1>2, Zenon DEF SearchIInv, SearchTypeOK, BeginAnimationDone
  <2> QED
    BY <1>2, <2>1, <2>2, Zenon DEF SearchIInv, SearchTypeOK, NeverTrapped, InStep, BeginAnimationDone
<1>3. CASE didCancelSearch
  <2>1. cancelling' \in 0..MaxAnimations
    BY <1>3, AnimationAssumption DEF SearchIInv, SearchTypeOK, didCancelSearch
  <2>2. rushed' = (beginning > 0)
    BY <1>3 DEF didCancelSearch
  <2>3. (beginning > 0) \in BOOLEAN /\ (beginning > 0 \/ beginning = 0)
    BY AnimationAssumption DEF SearchIInv, SearchTypeOK
  <2> QED
    BY <1>3, <2>1, <2>2, <2>3, Zenon DEF SearchIInv, SearchTypeOK, NeverTrapped, InStep, didCancelSearch
<1>4. CASE CancelAnimationDone
  <2>1. cancelling' \in 0..MaxAnimations /\ cancelling # 0
    BY <1>4, AnimationAssumption DEF SearchIInv, SearchTypeOK, CancelAnimationDone
  <2> QED
    BY <1>4, <2>1, Zenon DEF SearchIInv, SearchTypeOK, NeverTrapped, InStep, CancelAnimationDone
<1>5. CASE KeyboardHidden
  BY <1>5, Zenon DEF SearchIInv, SearchTypeOK, NeverTrapped, InStep, KeyboardHidden
<1>6. CASE SearchRelaunch
  <2>1. beginning' \in 0..MaxAnimations /\ cancelling' \in 0..MaxAnimations
    BY <1>6, AnimationAssumption DEF SearchRelaunch
  <2> QED
    BY <1>6, <2>1, Zenon DEF SearchIInv, SearchTypeOK, NeverTrapped, InStep, SearchRelaunch
<1>7. CASE UNCHANGED searchVars
  BY <1>7, Zenon DEF SearchIInv, SearchTypeOK, NeverTrapped, InStep, searchVars
<1> QED
  BY <1>1, <1>2, <1>3, <1>4, <1>5, <1>6, <1>7 DEF SearchNext, SearchTap, SearchCallback

LEMMA SpecSearchIInv == SearchSpec => []SearchIInv
    BY InitSearchIInv, NextSearchIInv, PTL DEF SearchSpec

\* The variables keep their types.
THEOREM SearchTypeCorrect == SearchSpec => []SearchTypeOK
<1>1. SearchIInv => SearchTypeOK
    BY DEF SearchIInv
<1> QED
    BY <1>1, SpecSearchIInv, PTL

\* Whenever the dimmed view covers the grid, "Cancel" is there.
THEOREM SearchCanBeLeft == SearchSpec => []NeverTrapped
<1>1. SearchIInv => NeverTrapped
    BY DEF SearchIInv
<1> QED
    BY <1>1, SpecSearchIInv, PTL

\* Unless the last tap was rushed, search settles in one of two modes.
THEOREM SearchSettles == SearchSpec => []SettlesInOneMode
<1>1. SearchIInv => SettlesInOneMode
    BY DEF SearchIInv, SearchTypeOK, NeverTrapped, InStep, SettlesInOneMode
<1> QED
    BY <1>1, SpecSearchIInv, PTL

-----------------------------------------------------------------------------
(* The app.                                                                *)

\* Every step of the app is one of the session, or none.
LEMMA AppStepsSession == [AppNext]_appVars => [Next]_vars
<1> QED
  BY DEF AppNext, SessionStep, ExploreTap, ExploreCallback, AppRelaunch, appVars, Next

\* Every step of the app is one of the search mode, or none.
LEMMA AppStepsSearch == [AppNext]_appVars => [SearchNext]_searchVars
<1> QED
  BY DEF AppNext, SessionStep, ExploreTap, ExploreCallback, AppRelaunch, appVars, SearchNext

\* The app implements the session: no tap on Explore, and no animation there,
\* disturbs the gate, the chain of screens or the calls.
THEOREM AppIsSession == AppSpec => Spec
<1>1. AppInit => Init
  BY DEF AppInit
<1> QED
  BY <1>1, AppStepsSession, PTL DEF AppSpec, Spec

\* The app implements the search mode: no screen, tab or user that changes in
\* the middle of a search shows or hides a view of it.
THEOREM AppIsSearch == AppSpec => SearchSpec
<1>1. AppInit => SearchInit
  BY DEF AppInit
<1> QED
  BY <1>1, AppStepsSearch, PTL DEF AppSpec, SearchSpec

\* What the session promises of its states, it promises inside the app.
THEOREM AppKeepsSession ==
    AppSpec => [](NoTabWithoutUser /\ LoginOverFreshTabs /\ LoginPresentedOnce)
<1> QED
  BY AppIsSession, GateHolds, LoginResets, OneLogin, PTL

\* What the search mode promises, it promises inside the app: behind other
\* tabs, behind Login and from one user to the next.
THEOREM AppKeepsSearch == AppSpec => [](NeverTrapped /\ SettlesInOneMode)
<1> QED
  BY AppIsSearch, SearchCanBeLeft, SearchSettles, PTL

\* Inside the app, too, answers keep to Login, and Login goes with a user only,
\* whatever search goes on behind it.
THEOREM AppAnswersKeepToLogin == AppSpec => AnswersKeepToLogin /\ LoginLeavesSignedIn
<1> QED
  BY AppIsSession, AnswersStayOnLogin, LoginGoesSignedIn, PTL
=============================================================================
