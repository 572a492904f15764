CONSTANTS
    Letters = {"a"}
    Digits = {"1"}
    OtherDigits = {}
    Alphabet = {"a", "1", ".", "@"}
    MaxLength = 8
SPECIFICATION TextSpec
INVARIANTS EmailAgreesWithAutomaton ValidEmailHasLegalKey
CHECK_DEADLOCK FALSE
