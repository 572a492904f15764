------------------------- MODULE MCStringExtension -------------------------
(***************************************************************************)
(* A text field into which every text of at most MaxLength characters is   *)
(* typed, one character at a time.  Beside the text runs the textbook      *)
(* automaton of the email expression, which isValidEmail is compared with. *)
(***************************************************************************)
EXTENDS StringExtension

CONSTANTS Alphabet, MaxLength

VARIABLES
    text,      \* the field's text
    emailRun   \* states the email expression can be in after reading text

textVars == <<text, emailRun>>

\* States of [local]+ @ [domain]+ . [letter]{2,}: "start", "local", "at",
\* "domain", "dot", "one", "many"; "many" accepts.
Read(q, ch) ==
    CASE q = "start"  -> IF ch \in LocalPart THEN {"local"} ELSE {}
      [] q = "local"  -> (IF ch \in LocalPart THEN {"local"} ELSE {})
                            \cup (IF ch = "@" THEN {"at"} ELSE {})
      [] q = "at"     -> IF ch \in DomainPart THEN {"domain"} ELSE {}
      [] q = "domain" -> (IF ch \in DomainPart THEN {"domain"} ELSE {})
                            \cup (IF ch = "." THEN {"dot"} ELSE {})
      [] q = "dot"    -> IF ch \in Letters THEN {"one"} ELSE {}
      [] q \in {"one", "many"} -> IF ch \in Letters THEN {"many"} ELSE {}

TextInit == text = << >> /\ emailRun = {"start"}

\* The keyboard adds one character.
TypeCharacter(ch) ==
    /\ Len(text) < MaxLength
    /\ text' = Append(text, ch)
    /\ emailRun' = UNION {Read(q, ch) : q \in emailRun}

TextNext == \E ch \in Alphabet : TypeCharacter(ch)

TextSpec == TextInit /\ [][TextNext]_textVars

\* isValidEmail accepts exactly the texts on which the automaton of its
\* regular expression ends in the accepting state.
EmailAgreesWithAutomaton == isValidEmail(text) <=> "many" \in emailRun

\* A text that passes the sign-up check becomes a path the database client
\* takes, so DatabaseManager.insertNewUser cannot raise on it.
ValidEmailHasLegalKey == isValidEmail(text) => isValidPathString(safeDataBaseKey(text))
=============================================================================
