--------------------------- MODULE ExploreSearch ---------------------------
(***************************************************************************)
(* The search mode of ExploreViewController: two 0.4 s animations whose    *)
(* completions hide or show views, and taps that may come in between.      *)
(* UIKit is external: an animation's completion runs some time later, with *)
(* done = FALSE if something cut the animation short.                      *)
(* The names that Session has too are prefixed, for App extends both.      *)
(***************************************************************************)
EXTENDS Integers

CONSTANT MaxAnimations   \* bound: animations of one kind under way at once

ASSUME AnimationAssumption == MaxAnimations \in Nat \ {0}

VARIABLES
    editing,      \* the search bar has the keyboard
    cancelItem,   \* the navigation bar shows "Cancel"
    dimmed,       \* dimmedView is not hidden: the photo grid cannot be tapped
    tabbed,       \* tabbedSearchCollectionView is not hidden
    beginning,    \* animations of searchBarTextDidBeginEditing under way
    cancelling,   \* animations of didCancelSearch under way
    rushed        \* history: the last tap came while an opposite animation ran

searchVars == <<editing, cancelItem, dimmed, tabbed, beginning, cancelling, rushed>>

SearchTypeOK ==
    /\ editing \in BOOLEAN /\ cancelItem \in BOOLEAN
    /\ dimmed \in BOOLEAN /\ tabbed \in BOOLEAN /\ rushed \in BOOLEAN
    /\ beginning \in 0..MaxAnimations
    /\ cancelling \in 0..MaxAnimations

SearchInit ==
    /\ editing = FALSE /\ cancelItem = FALSE /\ dimmed = FALSE /\ tabbed = FALSE
    /\ beginning = 0 /\ cancelling = 0 /\ rushed = FALSE

-----------------------------------------------------------------------------

\* searchBarTextDidBeginEditing without the Cancel item.
BeginEditingWithoutCancel ==
    /\ ~editing /\ beginning < MaxAnimations
    /\ editing' = TRUE /\ dimmed' = TRUE
    /\ beginning' = beginning + 1
    /\ rushed' = (cancelling > 0)
    /\ UNCHANGED <<cancelItem, tabbed, cancelling>>

\* A tap on the search bar: searchBarTextDidBeginEditing.
searchBarTextDidBeginEditing ==
    /\ ~editing /\ beginning < MaxAnimations
    /\ editing' = TRUE /\ cancelItem' = TRUE /\ dimmed' = TRUE
    /\ beginning' = beginning + 1
    /\ rushed' = (cancelling > 0)
    /\ UNCHANGED <<tabbed, cancelling>>

\* The completion of its animation.
BeginAnimationDone ==
    /\ beginning > 0
    /\ beginning' = beginning - 1
    /\ \E done \in BOOLEAN : tabbed' = (tabbed \/ done)
    /\ UNCHANGED <<editing, cancelItem, dimmed, cancelling, rushed>>

\* didCancelSearch that leaves the row of search tabs alone.
CancelKeepsTabs ==
    /\ cancelItem \/ dimmed \/ editing
    /\ cancelling < MaxAnimations
    /\ editing' = FALSE /\ cancelItem' = FALSE /\ dimmed' = FALSE
    /\ cancelling' = cancelling + 1
    /\ rushed' = (beginning > 0)
    /\ UNCHANGED <<tabbed, beginning>>

\* "Cancel", a tap on the dimmed view, or the keyboard's Search button, whose
\* query is empty so far: didCancelSearch.
didCancelSearch ==
    /\ cancelItem \/ dimmed \/ editing
    /\ cancelling < MaxAnimations
    /\ editing' = FALSE /\ cancelItem' = FALSE /\ tabbed' = FALSE /\ dimmed' = FALSE
    /\ cancelling' = cancelling + 1
    /\ rushed' = (beginning > 0)
    /\ UNCHANGED beginning

\* The completion of its animation.
CancelAnimationDone ==
    /\ cancelling > 0
    /\ cancelling' = cancelling - 1
    /\ dimmed' = FALSE
    /\ UNCHANGED <<editing, cancelItem, tabbed, beginning, rushed>>

\* The keyboard goes away by itself (hardware key, another screen): the search
\* bar stops editing and no handler of the app is called.
KeyboardHidden ==
    /\ editing
    /\ editing' = FALSE
    /\ UNCHANGED <<cancelItem, dimmed, tabbed, beginning, cancelling, rushed>>

\* The app is killed and started again: nothing of this is kept.
SearchRelaunch ==
    /\ editing' = FALSE /\ cancelItem' = FALSE /\ dimmed' = FALSE /\ tabbed' = FALSE
    /\ beginning' = 0 /\ cancelling' = 0 /\ rushed' = FALSE

SearchTap == searchBarTextDidBeginEditing \/ didCancelSearch

SearchCallback == BeginAnimationDone \/ CancelAnimationDone \/ KeyboardHidden

SearchNext == SearchTap \/ SearchCallback \/ SearchRelaunch

SearchSpec == SearchInit /\ [][SearchNext]_searchVars

-----------------------------------------------------------------------------
(* Properties.                                                             *)

Settled == beginning = 0 /\ cancelling = 0

\* The grid is never covered without a way to uncover it: whenever the dimmed
\* view is there, so is "Cancel", however taps and completions interleave.
NeverTrapped == dimmed => cancelItem

\* Unless the last tap was made during the opposite animation, the screen
\* settles in one of two modes: searching, dimmed and cancellable, or browsing
\* with neither dimmed view nor search tabs.
SettlesInOneMode ==
    Settled /\ ~rushed => (dimmed <=> cancelItem) /\ (tabbed => cancelItem)
=============================================================================
