---------------------------- MODULE EditProfile ----------------------------
(***************************************************************************)
(* EditProfileViewController: a table of text fields in recycled cells.    *)
(* A text is known only to the cell it is typed in: the view controller    *)
(* prints what a cell reports, and its models keep their empty values.     *)
(***************************************************************************)
EXTENDS TableView

CONSTANT NoCell

ASSUME NoCellAssumption ==
    /\ NoCell \notin Cells
    /\ Identifier = [r \in 1..RowCount |-> "FormTableViewCell"]

VARIABLES
    field,     \* what each cell shows and the model it keeps
    editing,   \* the cell whose field has the keyboard
    update,    \* the last formTableViewCellUpdate, and the row it came from
    open       \* the screen is presented

formVars == <<field, editing, update, open>>
vars == <<first, last, row, made, field, editing, update, open>>

\* A model, its label and a text typed on it are named by its row; 0 is nil.
Index == 0..RowCount

TypeOK ==
    /\ TableTypeOK
    /\ field \in [Cells -> [model : Index, label : Index, text : Index]]
    /\ editing \in Cells \cup {NoCell}
    /\ update \in [on : Index, model : Index, value : Index]
    /\ open \in BOOLEAN

\* A configureCell that gets the model after the row's.
configureCellNextModel(f, r) ==
    [f EXCEPT !.model = r + 1, !.label = r + 1, !.text = 0]

\* A configureCell that forgets to keep the model.
configureCellForgetsModel(f, r) == [f EXCEPT !.label = r, !.text = 0]

\* configureCell: the text is the model's value, which nobody sets.
configureCell(f, r) == [f EXCEPT !.model = r, !.label = r, !.text = 0]

\* prepareForReuse: it clears what shows and keeps the model.
prepareForReuse(f) == [f EXCEPT !.label = 0, !.text = 0]

Init ==
    /\ TableInit
    /\ field = [c \in Cells |-> [model |-> 0, label |-> 0, text |-> 0]]
    /\ editing = NoCell
    /\ update = [on |-> 0, model |-> 0, value |-> 0]
    /\ open = TRUE

\* cellForRowAt: a new cell or a prepared one, configured.
cellForRowAt(r, c) ==
    /\ open
    /\ RowEnters(r, c)
    /\ field' = [field EXCEPT ![c] =
            configureCell(IF made[c] = "none" THEN field[c] ELSE prepareForReuse(field[c]), r)]
    /\ UNCHANGED <<editing, update, open>>

\* A table does not recycle the cell that is being edited.
Scroll(c) ==
    /\ open /\ c # editing
    /\ RowLeaves(c)
    /\ UNCHANGED formVars

\* The user taps a field, types in it or clears it.
EditField(c) ==
    /\ open /\ row[c] # 0
    /\ editing' = c
    /\ \E text \in {0, row[c]} : field' = [field EXCEPT ![c].text = text]
    /\ UNCHANGED <<tableVars, update, open>>

\* Return: the cell reports a copy of its model with the text in it, to a
\* delegate that prints it, and the keyboard goes.
textFieldShouldReturn(c) ==
    /\ open /\ c = editing
    /\ update' = IF field[c].model = 0 THEN update
                 ELSE [on |-> row[c], model |-> field[c].model, value |-> field[c].text]
    /\ editing' = NoCell
    /\ UNCHANGED <<tableVars, field, open>>

\* didTapSave and didTapCancel do the same: they dismiss the screen.
didTapSaveOrCancel ==
    /\ open
    /\ open' = FALSE
    /\ UNCHANGED <<tableVars, field, editing, update>>

Next ==
    \/ \E c \in Cells : \E r \in 1..RowCount : cellForRowAt(r, c)
    \/ \E c \in Cells : Scroll(c)
    \/ \E c \in Cells : EditField(c)
    \/ \E c \in Cells : textFieldShouldReturn(c)
    \/ didTapSaveOrCancel

Spec == Init /\ [][Next]_vars

-----------------------------------------------------------------------------
(* Properties.                                                             *)

\* A text typed in one row never turns up in another: each visible field shows
\* its own label and either nothing or what was typed on it.
FieldShowsOwnText ==
    \A c \in Cells : row[c] # 0 =>
        field[c].label = row[c] /\ field[c].text \in {0, row[c]}

\* Return always reports: what the delegate gets is the text on the screen, on
\* the model of the row it is typed in, though the cell was on other rows before.
ReturnReportsText ==
    [][\A c \in Cells : open /\ c = editing /\ editing' = NoCell
        => update' = [on |-> row[c], model |-> row[c], value |-> field[c].text]]_vars
=============================================================================
