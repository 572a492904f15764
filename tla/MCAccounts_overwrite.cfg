CONSTANTS
    Letters <- AllLetters
    Digits <- SomeDigits
    OtherDigits = {}
    Devices = {d1}
    Calls = {c1}
    Emails <- Colliding
    Usernames <- Names
    Passwords <- OneSecret
    LoginTexts <- NoText
    NONE = NONE
    MaxLate = 0
SPECIFICATION Spec
PROPERTIES RecordsImmutable
CHECK_DEADLOCK FALSE
