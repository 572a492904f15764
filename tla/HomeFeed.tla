------------------------------ MODULE HomeFeed ------------------------------
(***************************************************************************)
(* The feed of HomeViewController: every post is four sections of a table, *)
(* and the data source finds post and part back from the section number.   *)
(* The table (UIKit, external) asks for rows as they scroll in; the cells  *)
(* open an action sheet or an alert.                                       *)
(***************************************************************************)
EXTENDS Integers, Sequences

CONSTANTS
    Comments,   \* the number of comments of each post: feedRenderModels
    Screen      \* bound: index paths on the screen at once

ASSUME FeedAssumption ==
    /\ Comments \in Seq(Nat) /\ Len(Comments) > 0
    /\ Screen \in Nat \ {0}

VARIABLES
    shown,      \* the cells on the screen, from top to bottom
    modal,      \* "none", the options of a post or an alert
    chosen,     \* the last option chosen
    reports     \* reportPost has been called

vars == <<shown, modal, chosen, reports>>

-----------------------------------------------------------------------------
(* The data source.  Posts and sections are counted from 0.                *)

Posts == 0..(Len(Comments) - 1)

numberOfSections == Len(Comments) * 4

\* Both methods start with this: the post of a section.
position(section) ==
    IF section = 0 THEN 0
    ELSE IF section % 4 = 0 THEN section \div 4
    ELSE (section - (section % 4)) \div 4

\* A cap on the comments that is off by one.
numberOfRowsInSectionThree(section) ==
    LET comments == Comments[position(section) + 1]
    IN  IF section % 4 # 3 THEN 1 ELSE IF comments > 2 THEN 3 ELSE comments

\* At most two comments of a post are listed.
numberOfRowsInSection(section) ==
    LET comments == Comments[position(section) + 1]
    IN  IF section % 4 # 3 THEN 1 ELSE IF comments > 2 THEN 2 ELSE comments

\* cellForRowAt.  The render model of the section is looked up for its type only,
\* which is always the one its place asks for, so the empty fallback cell is never
\* made.  Headers and photos show the controller's one newPost, whatever the
\* model; action and comment cells are given nothing to show.
cellForRowAt(section) ==
    CASE section % 4 = 0 -> [cell |-> "header", shows |-> "newPost.postOwner"]
      [] section % 4 = 1 -> [cell |-> "post", shows |-> "newPost"]
      [] section % 4 = 2 -> [cell |-> "actions", shows |-> "nothing"]
      [] section % 4 = 3 -> [cell |-> "comment", shows |-> "nothing"]

\* Points; the photo is as high as the table is wide.
heightForRowAt(section) ==
    CASE section % 4 = 0 -> "70" [] section % 4 = 1 -> "width"
      [] section % 4 = 2 -> "60" [] section % 4 = 3 -> "50"

heightForFooterInSection(section) == IF section % 4 = 3 THEN 40 ELSE 0

-----------------------------------------------------------------------------
(* The table.                                                              *)

IndexPaths ==
    UNION {{section} \X (0..(numberOfRowsInSection(section) - 1)) :
              section \in 0..(numberOfSections - 1)}

Precedes(p, q) == p[1] < q[1] \/ (p[1] = q[1] /\ p[2] < q[2])

\* The index paths right below and right above one on the screen.
Below(p) == {q \in IndexPaths : Precedes(p, q) /\
                \A s \in IndexPaths : Precedes(p, s) => ~Precedes(s, q)}
Above(p) == {q \in IndexPaths : p \in Below(q)}

\* The footers between a row and the next one: a section without rows, that of
\* a post nobody commented on, still has its footer.
GapBelow(section, row) ==
    IF row + 1 # numberOfRowsInSection(section) THEN 0
    ELSE IF section + 1 < numberOfSections /\ numberOfRowsInSection(section + 1) = 0
    THEN heightForFooterInSection(section) + heightForFooterInSection(section + 1)
    ELSE heightForFooterInSection(section)

\* What the table puts on the screen for an index path.
RowAt(p) ==
    [path |-> p, content |-> cellForRowAt(p[1]),
     height |-> heightForRowAt(p[1]), gap |-> GapBelow(p[1], p[2])]

Contents ==
    [cell : {"header", "post", "actions", "comment"},
     shows : {"newPost.postOwner", "newPost", "nothing"}]

Titles == {"Cancel", "Report Post"}

TypeOK ==
    /\ shown \in Seq([path : IndexPaths, content : Contents,
                      height : {"70", "width", "60", "50"}, gap : {0, 40}])
    /\ modal \in {"none", "options", "alert"}
    /\ chosen \in Titles \cup {"none"}
    /\ reports \in BOOLEAN

Init ==
    /\ shown = <<RowAt(<<0, 0>>)>>
    /\ modal = "none" /\ chosen = "none" /\ reports = FALSE

\* The next row scrolls in below, the top one out if the screen is full.
ScrollDown ==
    /\ modal = "none"
    /\ \E p \in Below(shown[Len(shown)].path) :
        LET longer == Append(shown, RowAt(p))
        IN  shown' = IF Len(longer) > Screen THEN Tail(longer) ELSE longer
    /\ UNCHANGED <<modal, chosen, reports>>

\* The row above scrolls in, the bottom one out.
ScrollUp ==
    /\ modal = "none" /\ Len(shown) = Screen
    /\ \E p \in Above(shown[1].path) :
        shown' = <<RowAt(p)>> \o SubSeq(shown, 1, Screen - 1)
    /\ UNCHANGED <<modal, chosen, reports>>

OnScreen(cell) == \E i \in 1..Len(shown) : shown[i].content.cell = cell

\* The "..." button of a header.
didTapMoreButton ==
    /\ modal = "none" /\ OnScreen("header")
    /\ modal' = "options"
    /\ UNCHANGED <<shown, chosen, reports>>

\* One of the sheet's options: it is Cancel that has the reporting handler.
DidChooseOption(title) ==
    /\ modal = "options"
    /\ modal' = "none"
    /\ chosen' = title
    /\ reports' = (reports \/ title = "Cancel")
    /\ UNCHANGED shown

\* Like, comment and send only show an alert.
didTapActionButton ==
    /\ modal = "none" /\ OnScreen("actions")
    /\ modal' = "alert"
    /\ UNCHANGED <<shown, chosen, reports>>

DidTapOK ==
    /\ modal = "alert"
    /\ modal' = "none"
    /\ UNCHANGED <<shown, chosen, reports>>

Next ==
    \/ ScrollDown \/ ScrollUp
    \/ didTapMoreButton \/ \E title \in Titles : DidChooseOption(title)
    \/ didTapActionButton \/ DidTapOK

Spec == Init /\ [][Next]_vars

-----------------------------------------------------------------------------
(* Properties.                                                             *)

\* A post as its reader sees it, from top to bottom: its owner, photo and buttons,
\* no more than two comments, and a gap under its last row.
PostRows(comments) ==
    LET last == IF comments > 2 THEN 5 ELSE 3 + comments
    IN  [k \in 1..last |->
            [cell |-> <<"header", "post", "actions", "comment", "comment">>[k],
             height |-> <<"70", "width", "60", "50", "50">>[k],
             gap |-> IF k = last THEN 40 ELSE 0]]

\* The post a row on the screen is part of, counted without position, and its
\* place in that post.
PostOf(r) == r.path[1] \div 4
Place(r) == (r.path[1] % 4) + r.path[2] + 1

\* What is on the screen is a piece of the feed as it is read from top to
\* bottom: no row of a post is skipped, doubled or drawn with the height or the
\* gap of another, and post follows post, however far the user scrolls.  What the
\* cells show of a post is not part of it: it is the same for every post.
ScreenIsPieceOfFeed ==
    \A i \in 1..Len(shown) :
        LET r == shown[i]
            rows == PostRows(Comments[PostOf(r) + 1])
        IN  /\ Place(r) \in DOMAIN rows
            /\ [cell |-> r.content.cell, height |-> r.height, gap |-> r.gap]
                   = rows[Place(r)]
            /\ i < Len(shown) =>
                 <<PostOf(shown[i + 1]), Place(shown[i + 1])>> =
                     IF Place(r) + 1 \in DOMAIN rows THEN <<PostOf(r), Place(r) + 1>>
                     ELSE <<PostOf(r) + 1, 1>>
=============================================================================
