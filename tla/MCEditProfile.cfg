CONSTANTS
    RowCount = 7
    Screen = 2
    Cells = {c1, c2, c3}
    NoCell = NoCell
    Identifier <- FormIdentifier
SPECIFICATION Spec
INVARIANTS FieldShowsOwnText
PROPERTY ReturnReportsText
CHECK_DEADLOCK FALSE
