--------------------------- MODULE UserDirectory ---------------------------
(***************************************************************************)
(* What registration promises, without devices, requests or retries: an    *)
(* email is enrolled at most once, under one username, and afterwards its  *)
(* profile is published at most once, under that username.                 *)
(***************************************************************************)
CONSTANTS Emails, Usernames, NONE

VARIABLES
    member,   \* username each email is enrolled under, or NONE
    profile   \* username published for each email, or NONE

vars == <<member, profile>>

Init ==
    /\ member = [e \in Emails |-> NONE]
    /\ profile = [e \in Emails |-> NONE]

Enroll(e, u) ==
    /\ member[e] = NONE
    /\ member' = [member EXCEPT ![e] = u]
    /\ UNCHANGED profile

Publish(e) ==
    /\ member[e] # NONE
    /\ profile[e] = NONE
    /\ profile' = [profile EXCEPT ![e] = member[e]]
    /\ UNCHANGED member

Next ==
    \E e \in Emails :
        \/ \E u \in Usernames : Enroll(e, u)
        \/ Publish(e)

Spec == Init /\ [][Next]_vars
=============================================================================
