------------------------- MODULE FollowListsProofs --------------------------
(***************************************************************************)
(* A recycled cell shows its own row's model, for every list, every number *)
(* of cells and every way of scrolling.                                    *)
(***************************************************************************)
EXTENDS FollowLists, TLAPS

\* What the proof needs of the queue: a cell that was never used is as new.
\* Without it "following" rows of the notification list, whose configure sets
\* no background, could show the blue one of the row before.
UnusedCellsAreNew ==
    \A c \in Cells : made[c] = "none" => look[c] = NewCell /\ row[c] = 0

ModelIsOwn == \A c \in Cells : row[c] # 0 => look[c].model = row[c]

IInv ==
    /\ TypeOK
    /\ UnusedCellsAreNew
    /\ ModelIsOwn
    /\ ShowsOwnModel
    /\ TapNamesOwnModel

\* A look that shows row r and nothing else.
Shows(l, r) ==
    /\ l \in Look
    /\ l.model = r /\ l.label = r
    /\ Models[r].type # "like" => l.button = ButtonOf(Models[r])

\* configure leaves nothing of the earlier row, if the cell starts out clear.
LEMMA ConfigureShows ==
    ASSUME NEW r \in 1..RowCount, NEW l \in Look,
           Models[r].cell = "FollowEvent" => l.button.background = "clear"
    PROVE  Shows(configure(l, r), r)
<1>1. r \in Index /\ r # 0
    BY TableAssumption DEF Index
<1>2. Models[r] \in ModelKinds
    BY ModelsAssumption
<1> DEFINE button == buttonFor(Models[r], l.button)
<1>3. l.button \in Button /\ l.model \in Index
    BY DEF Look
<1>4. button = IF Models[r].type = "like" THEN l.button ELSE ButtonOf(Models[r])
  <2>1. CASE Models[r].type = "like"
    BY <2>1 DEF buttonFor
  <2>2. CASE Models[r].type = "notFollowing"
    BY <2>2 DEF buttonFor, followButton, ButtonOf
  <2>3. CASE Models[r].type = "following"
    <3>1. Models[r].cell \in {"UserFollow", "FollowEvent"}
      BY <1>2, <2>3 DEF ModelKinds
    <3> QED
      BY <2>3, <3>1 DEF buttonFor, unfollowButton, ButtonOf
  <2> QED
    BY <1>2, <2>1, <2>2, <2>3 DEF ModelKinds
<1>5. ButtonOf(Models[r]) \in Button
    BY DEF ButtonOf, Button
<1>6. button \in Button
    BY <1>3, <1>4, <1>5
<1>7. configure(l, r) = [l EXCEPT !.model = r, !.label = r, !.button = button]
    BY DEF configure
<1> HIDE DEF button
<1> QED
    BY <1>1, <1>4, <1>6, <1>7 DEF Shows, Look

LEMMA PreparedIsClear ==
    ASSUME NEW l \in Look, NEW identifier
    PROVE  /\ prepareForReuse(l, identifier) \in Look
           /\ identifier = "FollowEvent" =>
                prepareForReuse(l, identifier).button.background = "clear"
<1>1. 0 \in Index
    BY TableAssumption DEF Index
<1>2. l.button \in Button /\ cleared(l.button) \in Button
    BY DEF Look, Button, cleared
<1>3. cleared(l.button).background = "clear"
    BY DEF cleared
<1> QED
    BY <1>1, <1>2, <1>3 DEF prepareForReuse, Look

-----------------------------------------------------------------------------

LEMMA InitIInv == Init => IInv
<1> SUFFICES ASSUME Init PROVE IInv
    OBVIOUS
<1>1. 0 \in Index /\ RowCount \in Nat
    BY TableAssumption DEF Index
<1>2. NewCell \in Look
    BY <1>1 DEF NewCell, Look, Button
<1>3. TableTypeOK
  <2>1. first \in 1..(RowCount + 1) /\ last \in 0..RowCount /\ 0 \in 0..RowCount
    BY <1>1 DEF Init, TableInit
  <2> QED
    BY <2>1 DEF Init, TableInit, TableTypeOK
<1>4. TypeOK
    BY <1>1, <1>2, <1>3 DEF Init, TypeOK
<1>5. UnusedCellsAreNew /\ ModelIsOwn /\ ShowsOwnModel /\ TapNamesOwnModel
    BY DEF Init, TableInit, UnusedCellsAreNew, ModelIsOwn, ShowsOwnModel, TapNamesOwnModel
<1> QED
    BY <1>4, <1>5 DEF IInv

LEMMA RowEntersTyped ==
    ASSUME TableTypeOK, NEW r \in 1..RowCount, NEW c \in Cells, RowEnters(r, c)
    PROVE  TableTypeOK'
<1>1. RowCount \in Nat
    BY TableAssumption
<1>2. first' \in 1..(RowCount + 1) /\ last' \in 0..RowCount
    BY <1>1 DEF RowEnters, TableTypeOK
<1> QED
    BY <1>1, <1>2 DEF RowEnters, TableTypeOK

LEMMA RowLeavesTyped ==
    ASSUME TableTypeOK, NEW c \in Cells, RowLeaves(c)
    PROVE  TableTypeOK'
<1>1. RowCount \in Nat /\ Screen \in Nat \ {0}
    BY TableAssumption
<1>2. first' \in 1..(RowCount + 1) /\ last' \in 0..RowCount
    BY <1>1 DEF RowLeaves, TableTypeOK
<1> QED
    BY <1>1, <1>2 DEF RowLeaves, TableTypeOK

LEMMA CellForRowAtStep ==
    ASSUME IInv, NEW r \in 1..RowCount, NEW c \in Cells, cellForRowAt(r, c)
    PROVE  IInv'
<1> DEFINE old == IF made[c] = "none" THEN look[c] ELSE prepareForReuse(look[c], made[c])
           new == configure(old, r)
<1>1. /\ look \in [Cells -> Look] /\ DOMAIN made = Cells
      /\ row \in [Cells -> 0..RowCount]
    BY DEF IInv, TypeOK, TableTypeOK
<1>2. look' = [look EXCEPT ![c] = new]
    BY DEF cellForRowAt
<1>3. /\ row' = [row EXCEPT ![c] = r]
      /\ made' = [made EXCEPT ![c] = Identifier[r]]
      /\ CanDequeue(c, Identifier[r])
      /\ UNCHANGED <<tapped, pushed>>
    BY DEF cellForRowAt, RowEnters
<1>4. Models[r] \in ModelKinds /\ Identifier[r] = Models[r].cell
    BY ModelsAssumption
<1>5. made[c] \in {"none", Models[r].cell}
    BY <1>3, <1>4 DEF CanDequeue, Queued
<1>6. old \in Look /\ (Models[r].cell = "FollowEvent" => old.button.background = "clear")
  <2>1. CASE made[c] = "none"
    BY <1>1, <2>1 DEF IInv, UnusedCellsAreNew, NewCell
  <2>2. CASE made[c] # "none"
    BY <1>1, <1>5, <2>2, PreparedIsClear
  <2> QED
    BY <2>1, <2>2
<1> HIDE DEF old
<1>7. Shows(new, r)
    BY <1>6, ConfigureShows
<1> HIDE DEF new
<1>8. TypeOK'
  <2>1. TableTypeOK'
    BY RowEntersTyped DEF IInv, TypeOK, cellForRowAt
  <2> QED
    BY <1>1, <1>2, <1>3, <1>7, <2>1 DEF IInv, TypeOK, Shows
<1>9. r # 0 /\ Models[r].cell # "none"
    BY <1>4 DEF ModelKinds
<1>10. UnusedCellsAreNew'
    BY <1>1, <1>2, <1>3, <1>4, <1>9 DEF IInv, UnusedCellsAreNew
<1>11. ModelIsOwn'
    BY <1>1, <1>2, <1>3, <1>7 DEF IInv, ModelIsOwn, Shows
<1>12. ShowsOwnModel'
  <2> SUFFICES ASSUME NEW d \in Cells, row'[d] # 0
               PROVE  /\ look'[d].label = row'[d]
                      /\ Models[row'[d]].type # "like" =>
                          look'[d].button = ButtonOf(Models[row'[d]])
    BY DEF ShowsOwnModel
  <2>1. CASE d = c
    BY <1>1, <1>2, <1>3, <1>7, <2>1 DEF Shows
  <2>2. CASE d # c
    <3>1. row'[d] = row[d] /\ look'[d] = look[d]
      BY <1>1, <1>2, <1>3, <2>2
    <3> QED
      BY <3>1 DEF IInv, ShowsOwnModel
  <2> QED
    BY <2>1, <2>2
<1>13. TapNamesOwnModel'
    BY <1>1, <1>2, <1>3, <1>7, <1>9 DEF IInv, TapNamesOwnModel, Shows
<1> QED
    BY <1>8, <1>10, <1>11, <1>12, <1>13 DEF IInv

LEMMA ScrollStep ==
    ASSUME IInv, NEW c \in Cells, Scroll(c)
    PROVE  IInv'
<1>1. /\ look \in [Cells -> Look] /\ DOMAIN made = Cells
      /\ row \in [Cells -> 0..RowCount]
    BY DEF IInv, TypeOK, TableTypeOK
<1>2. /\ row' = [row EXCEPT ![c] = 0]
      /\ made' = made /\ look' = look /\ tapped' = tapped /\ pushed' = pushed
    BY DEF Scroll, RowLeaves, listVars
<1>3. \A d \in Cells : row'[d] # 0 => row'[d] = row[d]
    BY <1>1, <1>2
<1>4. TableTypeOK'
    BY RowLeavesTyped DEF Scroll, IInv, TypeOK
<1>5. TypeOK'
    BY <1>2, <1>4 DEF IInv, TypeOK
<1>6. UnusedCellsAreNew'
    BY <1>1, <1>2 DEF IInv, UnusedCellsAreNew
<1>7. ModelIsOwn' /\ ShowsOwnModel' /\ TapNamesOwnModel'
    BY <1>2, <1>3 DEF IInv, ModelIsOwn, ShowsOwnModel, TapNamesOwnModel
<1> QED
    BY <1>5, <1>6, <1>7 DEF IInv

LEMMA TapStep ==
    ASSUME IInv, NEW c \in Cells,
           didTapFollowOrUnfollowBtn(c) \/ didTapRelatePostsBtn(c)
    PROVE  IInv'
<1>1. /\ row[c] # 0 /\ tapped' = [on |-> row[c], model |-> look[c].model]
      /\ pushed' \in BOOLEAN
      /\ UNCHANGED <<first, last, row, made, look>>
    BY DEF didTapFollowOrUnfollowBtn, didTapRelatePostsBtn, tableVars, IInv, TypeOK
<1>2. look[c].model = row[c] /\ row[c] \in Index
    BY <1>1 DEF IInv, ModelIsOwn, TypeOK, TableTypeOK, Index
<1>3. TypeOK'
    BY <1>1, <1>2 DEF IInv, TypeOK, TableTypeOK
<1> QED
    BY <1>1, <1>2, <1>3 DEF IInv, UnusedCellsAreNew, ModelIsOwn, ShowsOwnModel, TapNamesOwnModel

LEMMA StepIInv == IInv /\ [Next]_vars => IInv'
<1> SUFFICES ASSUME IInv, [Next]_vars PROVE IInv'
    OBVIOUS
<1>1. ASSUME NEW c \in Cells, NEW r \in 1..RowCount, cellForRowAt(r, c) PROVE IInv'
    BY <1>1, CellForRowAtStep
<1>2. ASSUME NEW c \in Cells, Scroll(c) PROVE IInv'
    BY <1>2, ScrollStep
<1>3. ASSUME NEW c \in Cells,
             didTapFollowOrUnfollowBtn(c) \/ didTapRelatePostsBtn(c)
      PROVE  IInv'
    BY <1>3, TapStep
<1>4. CASE Back \/ UNCHANGED vars
  <2>1. /\ UNCHANGED <<first, last, row, made, look, tapped>>
        /\ pushed' \in BOOLEAN
    BY <1>4 DEF Back, vars, tableVars, IInv, TypeOK
  <2> QED
    BY <2>1 DEF IInv, TypeOK, TableTypeOK, UnusedCellsAreNew, ModelIsOwn,
                ShowsOwnModel, TapNamesOwnModel
<1> QED
    BY <1>1, <1>2, <1>3, <1>4 DEF Next

-----------------------------------------------------------------------------

\* The inductive invariant holds in every reachable state.
THEOREM Invariance == Spec => []IInv
<1>1. IInv /\ [Next]_vars => IInv'
    BY StepIInv
<1> QED
    BY InitIInv, <1>1, PTL DEF Spec

\* The lists' variables keep their types, with any number of rows and cells.
THEOREM TypeCorrect == Spec => []TypeOK
<1>1. IInv => TypeOK
    BY DEF IInv
<1> QED
    BY Invariance, <1>1, PTL

\* A recycled cell shows its row's model and nothing of an earlier one, in every
\* list the app can build, follow states it does not show yet included.
THEOREM RowsShowOwnModel == Spec => []ShowsOwnModel
<1>1. IInv => ShowsOwnModel
    BY DEF IInv
<1> QED
    BY Invariance, <1>1, PTL

\* A tapped button passes on the model of the row the user sees.
THEOREM TapsNameOwnModel == Spec => []TapNamesOwnModel
<1>1. IInv => TapNamesOwnModel
    BY DEF IInv
<1> QED
    BY Invariance, <1>1, PTL
=============================================================================
