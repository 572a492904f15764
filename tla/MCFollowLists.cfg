CONSTANTS
    RowCount = 6
    Screen = 2
    Cells = {c1, c2, c3, c4}
    Models <- Notifications
    Identifier <- NotificationCells
SPECIFICATION Spec
INVARIANTS ShowsOwnModel TapNamesOwnModel
