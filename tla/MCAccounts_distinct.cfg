CONSTANTS
    Letters <- AllLetters
    Digits <- SomeDigits
    OtherDigits = {}
    Devices = {d1, d2}
    Calls = {c1}
    Emails <- Distinct
    Usernames <- Names
    Passwords <- OneSecret
    LoginTexts <- AnEmail
    NONE = NONE
    MaxLate = 1
SPECIFICATION Spec
INVARIANTS TypeOK RecordsBacked CompletionTruthful
PROPERTIES NoSecondInsert RecordsImmutable DirectorySpec
SYMMETRY DeviceSymmetry
CHECK_DEADLOCK FALSE
