------------------------- MODULE EditProfileProofs --------------------------
(***************************************************************************)
(* A text stays on the field it is typed in and Return reports it for that *)
(* field, for a form of any length and any number of cells.                *)
(***************************************************************************)
EXTENDS EditProfile, TLAPS

\* Field f belongs to row r: its model, its label, and a text typed there.
Owns(f, r) == f.model = r /\ f.label = r /\ f.text \in {0, r}

\* What the two properties rest on: configureCell replaces the model that
\* prepareForReuse keeps, and the cell with the keyboard stays on its row.
IInv ==
    /\ TypeOK
    /\ \A c \in Cells : row[c] # 0 => Owns(field[c], row[c])
    /\ editing # NoCell => row[editing] # 0

Field == [model : Index, label : Index, text : Index]

LEMMA ConfiguredOwns ==
    ASSUME NEW f \in Field, NEW r \in 1..RowCount
    PROVE  /\ configureCell(f, r) \in Field /\ Owns(configureCell(f, r), r)
           /\ configureCell(prepareForReuse(f), r) = configureCell(f, r)
<1>1. r \in Index /\ 0 \in Index
  BY TableAssumption DEF Index
<1> QED
  BY <1>1 DEF configureCell, prepareForReuse, Field, Owns

LEMMA InitIInv == Init => IInv
<1> SUFFICES ASSUME Init PROVE IInv
  OBVIOUS
<1>1. RowCount \in Nat /\ 0 \in Index
  BY TableAssumption DEF Index
<1>2. first \in 1..(RowCount + 1) /\ last \in 0..RowCount /\ 0 \in 0..RowCount
  BY <1>1 DEF Init, TableInit
<1>3. TypeOK
  BY <1>1, <1>2 DEF Init, TableInit, TypeOK, TableTypeOK
<1> QED
  BY <1>3 DEF Init, TableInit, IInv

LEMMA CellForRowAtStep ==
    ASSUME IInv, NEW r \in 1..RowCount, NEW c \in Cells, cellForRowAt(r, c)
    PROVE  IInv'
<1>1. RowCount \in Nat /\ Identifier[r] = "FormTableViewCell"
  BY TableAssumption, NoCellAssumption
<1>2. /\ field \in [Cells -> Field] /\ row \in [Cells -> 0..RowCount]
      /\ made \in [Cells -> {Identifier[s] : s \in 1..RowCount} \cup {"none"}]
      /\ first \in 1..(RowCount + 1) /\ last \in 0..RowCount
  BY DEF IInv, TypeOK, TableTypeOK, Field
<1>3. /\ row[c] = 0
      /\ row' = [row EXCEPT ![c] = r] /\ made' = [made EXCEPT ![c] = Identifier[r]]
      /\ UNCHANGED <<editing, update, open>>
  BY DEF cellForRowAt, RowEnters, CanDequeue, Queued
<1>4. field' = [field EXCEPT ![c] = configureCell(field[c], r)]
  BY <1>2, ConfiguredOwns DEF cellForRowAt
<1>5. configureCell(field[c], r) \in Field /\ Owns(configureCell(field[c], r), r)
  BY <1>2, ConfiguredOwns
<1>6. first' \in 1..(RowCount + 1) /\ last' \in 0..RowCount
  BY <1>1, <1>2 DEF cellForRowAt, RowEnters
<1>7. TypeOK'
  <2>1. field' \in [Cells -> Field]
    BY <1>2, <1>4, <1>5
  <2>2. row' \in [Cells -> 0..RowCount]
    BY <1>1, <1>2, <1>3
  <2>3. made' \in [Cells -> {Identifier[s] : s \in 1..RowCount} \cup {"none"}]
    BY <1>2, <1>3
  <2> QED
    BY <1>3, <1>6, <2>1, <2>2, <2>3 DEF IInv, TypeOK, TableTypeOK, Field
<1>8. ASSUME NEW d \in Cells, row'[d] # 0 PROVE Owns(field'[d], row'[d])
  <2>1. CASE d = c
    BY <1>2, <1>3, <1>4, <1>5, <2>1
  <2>2. CASE d # c
    <3>1. row'[d] = row[d] /\ field'[d] = field[d]
      BY <1>2, <1>3, <1>4, <2>2
    <3> QED
      BY <1>8, <3>1 DEF IInv
  <2> QED
    BY <2>1, <2>2
<1>9. editing' # NoCell => row'[editing'] # 0
  BY <1>2, <1>3 DEF IInv, TypeOK
<1> QED
  BY <1>7, <1>8, <1>9 DEF IInv

LEMMA ScrollStep ==
    ASSUME IInv, NEW c \in Cells, Scroll(c)
    PROVE  IInv'
<1>1. RowCount \in Nat /\ Screen \in Nat \ {0}
  BY TableAssumption
<1>2. /\ c # editing /\ row' = [row EXCEPT ![c] = 0]
      /\ UNCHANGED <<made, field, editing, update, open>>
  BY DEF Scroll, RowLeaves, formVars
<1>3. row \in [Cells -> 0..RowCount] /\ first \in 1..(RowCount + 1) /\ last \in 0..RowCount
  BY DEF IInv, TypeOK, TableTypeOK
<1>4. first' \in 1..(RowCount + 1) /\ last' \in 0..RowCount
  BY <1>1, <1>3 DEF Scroll, RowLeaves
<1>5. row' \in [Cells -> 0..RowCount]
  BY <1>1, <1>2, <1>3
<1>6. TypeOK'
  BY <1>2, <1>4, <1>5 DEF IInv, TypeOK, TableTypeOK
<1>7. \A d \in Cells : row'[d] # 0 => row'[d] = row[d]
  BY <1>2, <1>3
<1>8. editing' # NoCell => row'[editing'] # 0
  BY <1>2, <1>3 DEF IInv, TypeOK
<1> QED
  BY <1>2, <1>6, <1>7, <1>8 DEF IInv

LEMMA EditFieldStep ==
    ASSUME IInv, NEW c \in Cells, EditField(c)
    PROVE  IInv'
<1>1. /\ row[c] # 0 /\ editing' = c
      /\ UNCHANGED <<first, last, row, made, update, open>>
  BY DEF EditField, tableVars
<1>2. PICK text \in {0, row[c]} : field' = [field EXCEPT ![c].text = text]
  BY DEF EditField
<1>3. field \in [Cells -> Field] /\ row \in [Cells -> 0..RowCount]
  BY DEF IInv, TypeOK, TableTypeOK, Field
<1>4. text \in Index
  BY <1>3, TableAssumption DEF Index
<1>5. field' = [field EXCEPT ![c] = [field[c] EXCEPT !.text = text]]
  BY <1>2, <1>3
<1>6. [field[c] EXCEPT !.text = text] \in Field
  BY <1>3, <1>4 DEF Field
<1>7. field' \in [Cells -> Field]
  BY <1>3, <1>5, <1>6
<1>8. TypeOK'
  BY <1>1, <1>7 DEF IInv, TypeOK, TableTypeOK, Field
<1>9. ASSUME NEW d \in Cells, row[d] # 0 PROVE Owns(field'[d], row[d])
  <2>1. Owns(field[d], row[d])
    BY <1>9 DEF IInv
  <2>2. CASE d = c
    BY <1>3, <1>5, <2>1, <2>2 DEF Owns, Field
  <2>3. CASE d # c
    BY <1>3, <1>5, <2>1, <2>3
  <2> QED
    BY <2>2, <2>3
<1> QED
  BY <1>1, <1>8, <1>9 DEF IInv

LEMMA ReturnStep ==
    ASSUME IInv, NEW c \in Cells, textFieldShouldReturn(c)
    PROVE  /\ IInv'
           /\ update' = [on |-> row[c], model |-> row[c], value |-> field[c].text]
<1>1. /\ c = editing /\ editing' = NoCell
      /\ UNCHANGED <<first, last, row, made, field, open>>
  BY DEF textFieldShouldReturn, tableVars
<1>2. row[c] # 0 /\ Owns(field[c], row[c])
  BY <1>1, NoCellAssumption DEF IInv
<1>3. update' = [on |-> row[c], model |-> row[c], value |-> field[c].text]
  BY <1>2 DEF textFieldShouldReturn, Owns
<1>4. row[c] \in Index /\ field[c].text \in Index
  BY DEF IInv, TypeOK, TableTypeOK, Index
<1>5. TypeOK'
  BY <1>1, <1>3, <1>4 DEF IInv, TypeOK, TableTypeOK
<1> QED
  BY <1>1, <1>3, <1>5 DEF IInv

LEMMA NextIInv == IInv /\ [Next]_vars => IInv'
<1> SUFFICES ASSUME IInv, [Next]_vars PROVE IInv'
  OBVIOUS
<1>1. ASSUME NEW c \in Cells, NEW r \in 1..RowCount, cellForRowAt(r, c) PROVE IInv'
  BY <1>1, CellForRowAtStep
<1>2. ASSUME NEW c \in Cells, Scroll(c) PROVE IInv'
  BY <1>2, ScrollStep
<1>3. ASSUME NEW c \in Cells, EditField(c) PROVE IInv'
  BY <1>3, EditFieldStep
<1>4. ASSUME NEW c \in Cells, textFieldShouldReturn(c) PROVE IInv'
  BY <1>4, ReturnStep
<1>5. CASE didTapSaveOrCancel \/ UNCHANGED vars
  <2>1. UNCHANGED <<first, last, row, made, field, editing, update>> /\ open' \in BOOLEAN
    BY <1>5 DEF didTapSaveOrCancel, vars, tableVars, IInv, TypeOK
  <2> QED
    BY <2>1 DEF IInv, TypeOK, TableTypeOK
<1> QED
  BY <1>1, <1>2, <1>3, <1>4, <1>5 DEF Next

LEMMA SpecIInv == Spec => []IInv
  BY InitIInv, NextIInv, PTL DEF Spec

-----------------------------------------------------------------------------

\* The form's variables keep their types.
THEOREM TypeCorrect == Spec => []TypeOK
<1>1. IInv => TypeOK
  BY DEF IInv
<1> QED
  BY <1>1, SpecIInv, PTL

\* A text typed in one row never turns up in another.
THEOREM TextsStayOnTheirFields == Spec => []FieldShowsOwnText
<1>1. IInv => FieldShowsOwnText
  BY DEF IInv, Owns, FieldShowsOwnText
<1> QED
  BY <1>1, SpecIInv, PTL

\* Return reports the text on the screen, on the model of its row.
THEOREM ReturnsReport == Spec => ReturnReportsText
<1> DEFINE Reports(c) ==
        open /\ c = editing /\ editing' = NoCell
            => update' = [on |-> row[c], model |-> row[c], value |-> field[c].text]
<1>1. ASSUME IInv, [Next]_vars PROVE [\A c \in Cells : Reports(c)]_vars
  <2> SUFFICES ASSUME NEW c \in Cells, open, c = editing, editing' = NoCell
               PROVE  update' = [on |-> row[c], model |-> row[c], value |-> field[c].text]
    OBVIOUS
  <2>1. editing # editing'
    BY NoCellAssumption
  <2>2. CASE \E d \in Cells : textFieldShouldReturn(d)
    <3>1. PICK d \in Cells : textFieldShouldReturn(d)
      BY <2>2
    <3>2. d = c
      BY <3>1 DEF textFieldShouldReturn
    <3> QED
      BY <1>1, <3>1, <3>2, ReturnStep
  <2>3. CASE ~\E d \in Cells : textFieldShouldReturn(d)
    BY <1>1, <2>1, <2>3, NoCellAssumption
    DEF Next, cellForRowAt, Scroll, EditField, didTapSaveOrCancel, vars, formVars
  <2> QED
    BY <2>2, <2>3
<1>2. IInv /\ [Next]_vars => [\A c \in Cells : Reports(c)]_vars
  BY <1>1
<1> QED
  BY <1>2, SpecIInv, PTL DEF Spec, ReturnReportsText
=============================================================================
