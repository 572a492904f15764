CONSTANTS
    Screen = 4
    Comments <- MockComments
SPECIFICATION Spec
INVARIANTS ScreenIsPieceOfFeed
