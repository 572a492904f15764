CONSTANTS
    Letters <- AllLetters
    Digits <- SomeDigits
    OtherDigits = {}
    Devices = {d1}
    Calls = {c1, c2}
    Emails <- One
    Usernames <- OneName
    Passwords <- OneSecret
    LoginTexts <- AnEmail
    NONE = NONE
    MaxLate = 0
SPECIFICATION FairSpec
PROPERTIES CallsComplete
