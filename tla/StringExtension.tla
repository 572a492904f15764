-------------------------- MODULE StringExtension --------------------------
(***************************************************************************)
(* Helpers/String+Extension.swift and the form checks of the two           *)
(* onboarding screens.  A text is a sequence of one-character strings.     *)
(* The two regular expressions are written as what they accept; the key    *)
(* conversion of safeDataBaseKey is kept character by character, because   *)
(* the collisions it causes are what the Accounts module is about.         *)
(***************************************************************************)
EXTENDS Naturals, Sequences

CONSTANTS
    Letters,       \* A-Z a-z
    Digits,        \* 0-9
    OtherDigits    \* characters outside 0-9 that \d matches too

\* The characters the code names literally.
Punctuation == {"@", ".", "_", "%", "+", "-", "$", "#", "[", "]"}

ASSUME CharacterAssumption ==
    /\ Letters \cap Punctuation = {}
    /\ Digits \cap Punctuation = {}
    /\ OtherDigits \cap Punctuation = {}
    /\ Letters \cap (Digits \cup OtherDigits) = {}

LocalPart  == Letters \cup Digits \cup {".", "_", "%", "+", "-"}
DomainPart == Letters \cup Digits \cup {".", "-"}

\* A form of isValidEmail whose last label may be a single letter.
isValidEmailShortLabel(s) ==
    \E at, dot \in 1..Len(s) :
        /\ 1 < at /\ at + 1 < dot /\ dot + 1 <= Len(s)
        /\ s[at] = "@" /\ s[dot] = "."
        /\ \A i \in 1..(at - 1) : s[i] \in LocalPart
        /\ \A i \in (at + 1)..(dot - 1) : s[i] \in DomainPart
        /\ \A i \in (dot + 1)..Len(s) : s[i] \in Letters

\* [A-Z0-9a-z._%+-]+@[A-Za-z0-9.-]+\.[A-Za-z]{2,}
isValidEmail(s) ==
    \E at, dot \in 1..Len(s) :
        /\ 1 < at /\ at + 1 < dot /\ dot + 2 <= Len(s)
        /\ s[at] = "@" /\ s[dot] = "."
        /\ \A i \in 1..(at - 1) : s[i] \in LocalPart
        /\ \A i \in (at + 1)..(dot - 1) : s[i] \in DomainPart
        /\ \A i \in (dot + 1)..Len(s) : s[i] \in Letters

\* ^(?=.*[A-Za-z])(?=.*\d)[A-Za-z\d]{8,}$
isValidPassword(s) ==
    /\ Len(s) >= 8
    /\ \A i \in 1..Len(s) : s[i] \in Letters \cup Digits \cup OtherDigits
    /\ \E i \in 1..Len(s) : s[i] \in Letters
    /\ \E i \in 1..Len(s) : s[i] \in Digits \cup OtherDigits

\* A form of safeDataBaseKey that forgets one of the replacements.
safeDataBaseKeyKeepDot(s) ==
    [i \in 1..Len(s) |-> IF s[i] \in {"@", "$", "#", "[", "]"} THEN "-" ELSE s[i]]

\* Every @ . $ # [ ] becomes a dash.
safeDataBaseKey(s) ==
    [i \in 1..Len(s) |-> IF s[i] \in {"@", ".", "$", "#", "[", "]"} THEN "-" ELSE s[i]]

\* What the database client accepts as a path: child() raises otherwise.
isValidPathString(s) ==
    /\ Len(s) > 0
    /\ \A i \in 1..Len(s) : s[i] \notin {"[", "]", ".", "#", "$"}

\* SignUpViewController.validateFields: the first error thrown, or "valid".
\* A text field's text is never nil, so the three guards never return early.
validateFields(username, email, password) ==
    IF username = << >> THEN "missingUsername"
    ELSE IF email = << >> THEN "missingEmail"
    ELSE IF ~isValidEmail(email) THEN "invalidEmail"
    ELSE IF password = << >> THEN "missingPassword"
    ELSE IF ~isValidPassword(password) THEN "invalidPassword"
    ELSE "valid"

\* LoginViewController.validateTextFields.
validateTextFields(usernameOrEmail, password) ==
    IF usernameOrEmail = << >> THEN "missingUsernameOrEmail"
    ELSE IF password = << >> THEN "missingPassword"
    ELSE "valid"
=============================================================================
