----------------------------- MODULE MCAccounts -----------------------------
(***************************************************************************)
(* Instances of Accounts: real texts, so that the form checks and the key  *)
(* conversion run on them.                                                 *)
(***************************************************************************)
EXTENDS Accounts, TLC

\* Two emails with different keys.
AtCo  == <<"a", "@", "c", ".", "c", "o">>
BtCo  == <<"b", "@", "c", ".", "c", "o">>
\* Two emails that safeDataBaseKey turns into a-b-c-co both.
DotB  == <<"a", ".", "b", "@", "c", ".", "c", "o">>
DashB == <<"a", "-", "b", "@", "c", ".", "c", "o">>

Distinct  == {AtCo, BtCo}
Colliding == {DotB, DashB}
One       == {AtCo}

Names     == {<<"u">>, <<"v">>}
OneName   == {<<"u">>}

Secret    == <<"p", "a", "s", "s", "w", "o", "r", "1">>
OneSecret == {Secret}

NoText    == {}
AnEmail   == {AtCo}

AllLetters == {"a", "b", "c", "o", "p", "r", "s", "u", "v", "w"}
SomeDigits == {"1", "2"}

DeviceSymmetry == Permutations(Devices)
=============================================================================
