---------------------------- MODULE FollowLists ----------------------------
(***************************************************************************)
(* The two lists with a follow button: ListViewController (followers and   *)
(* following) and NotificationViewController, and their three cells, which *)
(* the table recycles.  What a cell shows depends on what prepareForReuse  *)
(* cleared and configure set, on every row it was on before.               *)
(***************************************************************************)
EXTENDS TableView, Sequences

\* The rows: which cell shows them, and the follow state or the like.
CONSTANT Models

ModelKinds ==
    [cell : {"UserFollow", "FollowEvent"}, type : {"following", "notFollowing"}]
        \cup [cell : {"LikeEvent"}, type : {"like"}]

ASSUME ModelsAssumption ==
    /\ Models \in [1..RowCount -> ModelKinds]
    /\ \A r \in 1..RowCount : Identifier[r] = Models[r].cell

VARIABLES
    look,      \* what each cell shows
    tapped,    \* the row of the last tapped button and the model its delegate got
    pushed     \* PostDetails covers the list

listVars == <<look, tapped, pushed>>
vars == <<first, last, row, made, look, tapped, pushed>>

\* A model, or a text of it, is named by its row; 0 is nil.
Index == 0..RowCount

Button == [title : {"none", "Follow", "Unfollow"},
           titleColor : {"default", "label", "white"},
           background : {"clear", "secondary", "link"},
           border : 0..1]

Look == [model : Index, label : Index, thumbnail : BOOLEAN, button : Button]

TypeOK ==
    /\ TableTypeOK
    /\ look \in [Cells -> Look]
    /\ tapped \in [on : Index, model : Index]
    /\ pushed \in BOOLEAN

\* init: the placeholder texts of the initializers count as nil.
NewCell ==
    [model |-> 0, label |-> 0, thumbnail |-> TRUE,
     button |-> [title |-> "none", titleColor |-> "default",
                 background |-> "clear", border |-> 0]]

-----------------------------------------------------------------------------
(* The cells.                                                              *)

cleared(button) ==
    [title |-> "none", titleColor |-> button.titleColor,
     background |-> "clear", border |-> 0]

\* prepareForReuse: it clears what shows and keeps the model.
prepareForReuse(l, identifier) ==
    IF identifier = "LikeEvent"
    THEN [l EXCEPT !.label = 0, !.thumbnail = FALSE]
    ELSE [l EXCEPT !.label = 0, !.button = cleared(@)]

\* The styles of the follow button.
unfollowButton(background) ==
    [title |-> "Unfollow", titleColor |-> "label",
     background |-> background, border |-> 1]
followButton ==
    [title |-> "Follow", titleColor |-> "white", background |-> "link", border |-> 0]

\* A configure that forgets to keep the model.
configureForgetsModel(l, r) ==
    LET m == Models[r] IN
    [l EXCEPT !.label = r,
              !.button = IF m.type = "notFollowing" THEN followButton ELSE @]

\* A configure that forgets the button of a followed user.
configureForgetsButton(l, r) ==
    LET m == Models[r] IN
    [l EXCEPT !.model = r, !.label = r,
              !.button = IF m.type = "notFollowing" THEN followButton ELSE @]

\* The button of a configured cell: a FollowEvent cell leaves the background
\* alone when the user is followed, a LikeEvent cell has no follow button.
buttonFor(m, old) ==
    CASE m.type = "like" -> old
      [] m.type = "notFollowing" -> followButton
      [] m.type = "following" ->
            unfollowButton(IF m.cell = "UserFollow" THEN "secondary" ELSE old.background)

\* configure.  A like's thumbnail is set by sd_setImage, but not for the
\* google.com address that every post has so far.
configure(l, r) ==
    [l EXCEPT !.model = r, !.label = r, !.button = buttonFor(Models[r], @)]

-----------------------------------------------------------------------------
(* The view controllers.                                                   *)

Init ==
    /\ TableInit
    /\ look = [c \in Cells |-> NewCell]
    /\ tapped = [on |-> 0, model |-> 0]
    /\ pushed = FALSE

\* cellForRowAt: a new cell or a prepared one, configured.
cellForRowAt(r, c) ==
    /\ ~pushed
    /\ RowEnters(r, c)
    /\ look' = [look EXCEPT ![c] =
            configure(IF made[c] = "none" THEN look[c] ELSE prepareForReuse(look[c], made[c]), r)]
    /\ UNCHANGED <<tapped, pushed>>

Scroll(c) ==
    /\ ~pushed
    /\ RowLeaves(c)
    /\ UNCHANGED listVars

\* A tap on the follow button; its delegate only prints.
didTapFollowOrUnfollowBtn(c) ==
    /\ ~pushed /\ row[c] # 0 /\ made[c] \in {"UserFollow", "FollowEvent"}
    /\ look[c].model # 0
    /\ tapped' = [on |-> row[c], model |-> look[c].model]
    /\ UNCHANGED <<tableVars, look, pushed>>

\* A tap on a like's post: PostDetails is pushed, unless the model is no like.
didTapRelatePostsBtn(c) ==
    /\ ~pushed /\ row[c] # 0 /\ made[c] = "LikeEvent"
    /\ look[c].model # 0
    /\ tapped' = [on |-> row[c], model |-> look[c].model]
    /\ pushed' = (Models[look[c].model].type = "like")
    /\ UNCHANGED <<tableVars, look>>

\* Back from PostDetails.
Back ==
    /\ pushed
    /\ pushed' = FALSE
    /\ UNCHANGED <<tableVars, look, tapped>>

Next ==
    \/ \E c \in Cells : \E r \in 1..RowCount : cellForRowAt(r, c)
    \/ \E c \in Cells : Scroll(c)
    \/ \E c \in Cells : didTapFollowOrUnfollowBtn(c)
    \/ \E c \in Cells : didTapRelatePostsBtn(c)
    \/ Back

Spec == Init /\ [][Next]_vars

-----------------------------------------------------------------------------
(* Properties.                                                             *)

\* What a row with a follow button is to show, whatever its cell showed before.
ButtonOf(m) ==
    [title |-> IF m.type = "following" THEN "Unfollow" ELSE "Follow",
     titleColor |-> IF m.type = "following" THEN "label" ELSE "white",
     background |-> IF m.type = "notFollowing" THEN "link"
                    ELSE IF m.cell = "UserFollow" THEN "secondary" ELSE "clear",
     border |-> IF m.type = "following" THEN 1 ELSE 0]

\* A visible row shows its own model and nothing of the rows its cell was on
\* before, however the list was scrolled.
ShowsOwnModel ==
    \A c \in Cells : row[c] # 0 =>
        /\ look[c].label = row[c]
        /\ Models[row[c]].type # "like" => look[c].button = ButtonOf(Models[row[c]])

\* A tap acts on the model of the row the user sees: a recycled cell never
\* passes on the model of an earlier row, and every visible button has one.
TapNamesOwnModel ==
    /\ tapped.on = tapped.model
    /\ \A c \in Cells : row[c] # 0 => look[c].model # 0
=============================================================================
