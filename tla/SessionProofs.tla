--------------------------- MODULE SessionProofs ---------------------------
(***************************************************************************)
(* Proofs about Session, for any number of outstanding calls.              *)
(***************************************************************************)
EXTENDS Session, SequenceTheorems, TLAPS

\* A call whose own screen is still presented.
Shown(c) == calls[c].shown

(* The chain of presented controllers: Login only at its foot, and nothing *)
(* stacked on any other foot.  Sign-up is never the foot, and the log-out  *)
(* sheet is never above another one.                                       *)
ChainOverLogin ==
    /\ \A i \in 2..Len(modals) : modals[i] \notin {"Login", "LogoutSheet"}
    /\ Len(modals) > 1 => modals[1] = "Login"
    /\ modals # << >> => modals[1] # "SignUp"

\* Calls made by a screen that is still up were made on Login or above it, and
\* a login that succeeded there has signed in.
CallsBelongToLogin ==
    \A c \in Calls : Shown(c) =>
        /\ LoginShown /\ ~popDue /\ ~appearDue
        /\ calls[c].at = "ok" => signedIn

\* While the block of log-out is due, Settings is the only thing on screen.
LogoutUncovered ==
    logoutDue # "none" =>
        /\ modals = << >> /\ tab = "Profile" /\ settings
        /\ ~appearDue /\ ~popDue
        /\ logoutDue = "false" => signedIn

\* Settings pops its stack behind Login.
PopBehindLogin == popDue => LoginShown /\ tab = "Home"

\* Home appears with nothing on it, or with Login just presented.
AppearsOnHome ==
    appearDue =>
        /\ tab = "Home"
        /\ modals = << >> \/ LoginShown
        /\ modals = << >> /\ ~signedIn => ~settings

\* Login lies over Home and over a stack that is at its root, or about to be.
LoginOverHome == LoginShown => tab = "Home" /\ (popDue \/ ~settings)

\* The log-out sheet lies over Settings.
SheetOverSettings ==
    modals # << >> /\ modals[1] = "LogoutSheet" => tab = "Profile" /\ settings

IInv ==
    /\ TypeOK
    /\ ChainOverLogin
    /\ CallsBelongToLogin
    /\ LogoutUncovered
    /\ PopBehindLogin
    /\ AppearsOnHome
    /\ LoginOverHome
    /\ SheetOverSettings
    /\ NoTabWithoutUser

-----------------------------------------------------------------------------
(* The chain of presented controllers.                                     *)

\* Presenting on nothing, or above Login, keeps the chain in order.
LEMMA PresentKeepsChain ==
    ASSUME modals \in Seq(Screens), ChainOverLogin, NEW s \in Screens, Present(s),
           \/ Uncovered /\ s # "SignUp"
           \/ LoginShown /\ s \notin {"Login", "LogoutSheet"}
    PROVE  /\ modals' \in Seq(Screens)
           /\ ChainOverLogin'
           /\ modals' # << >>
           /\ modals'[1] = IF Uncovered THEN s ELSE modals[1]
<1>1. /\ modals' \in Seq(Screens)
      /\ Len(modals) \in Nat
      /\ Len(modals') = Len(modals) + 1
      /\ modals'[Len(modals) + 1] = s
      /\ \A i \in 1..Len(modals) : modals'[i] = modals[i]
      /\ modals' # << >>
      /\ Uncovered <=> Len(modals) = 0
  BY DEF Present, Uncovered
<1>2. modals'[1] = IF Uncovered THEN s ELSE modals[1]
  BY <1>1
<1>3. ChainOverLogin'
  BY <1>1, <1>2 DEF ChainOverLogin, LoginShown
<1> QED  BY <1>1, <1>2, <1>3

\* Closing what is on top, unless that is Login, leaves Login alone or nothing.
LEMMA DismissKeepsChain ==
    ASSUME modals \in Seq(Screens), ChainOverLogin, ~Uncovered, ~OnTop("Login"), DismissTop
    PROVE  /\ modals' \in Seq(Screens)
           /\ ChainOverLogin'
           /\ LoginShown' <=> LoginShown
           /\ modals' # << >> => LoginShown
           /\ OnTop("LogoutSheet") => modals' = << >> /\ modals[1] = "LogoutSheet"
<1>1. /\ Len(modals) \in Nat /\ Len(modals) >= 1
      /\ modals' \in Seq(Screens)
      /\ Len(modals') = Len(modals) - 1
      /\ \A i \in 1..Len(modals') : modals'[i] = modals[i]
      /\ modals' = << >> <=> Len(modals) = 1
  <2>1. Len(modals) \in Nat /\ Len(modals) >= 1  BY DEF Uncovered
  <2>2. modals' = SubSeq(modals, 1, Len(modals) - 1)  BY DEF DismissTop
  <2>3. /\ modals' \in Seq(Screens)
        /\ Len(modals') = Len(modals) - 1
        /\ \A i \in 1..Len(modals) - 1 : modals'[i] = modals[i]
    <3> DEFINE n == Len(modals) - 1
    <3>1. n \in Int /\ n >= 0 /\ \A i \in 1..n : modals[i] \in Screens
      BY <2>1
    <3>2. /\ SubSeq(modals, 1, n) \in Seq(Screens)
          /\ Len(SubSeq(modals, 1, n)) = IF 1 <= n THEN n - 1 + 1 ELSE 0
          /\ \A i \in 1..n - 1 + 1 : SubSeq(modals, 1, n)[i] = modals[1 + i - 1]
      BY <3>1, SubSeqProperties
    <3>3. n - 1 + 1 = n /\ \A i \in 1..n : 1 + i - 1 = i
      BY <3>1
    <3> QED  BY <2>2, <3>1, <3>2, <3>3
  <2> QED  BY <2>1, <2>3
<1>2. CASE Len(modals) = 1
  <2>1. modals' = << >> /\ Len(modals') = 0  BY <1>1, <1>2
  <2>2. modals[1] # "Login"  BY <1>2 DEF OnTop, Uncovered
  <2> QED  BY <1>1, <1>2, <2>1, <2>2 DEF ChainOverLogin, LoginShown, OnTop
<1>3. CASE Len(modals) > 1
  <2>1. modals[1] = "Login" /\ LoginShown  BY <1>3 DEF ChainOverLogin, LoginShown, Uncovered
  <2>2. modals' # << >> /\ modals'[1] = "Login"  BY <1>1, <1>3, <2>1
  <2>3. ~OnTop("LogoutSheet")  BY <1>1, <1>3 DEF OnTop, ChainOverLogin
  <2>4. ChainOverLogin'  BY <1>1, <2>2 DEF ChainOverLogin
  <2> QED  BY <1>1, <2>1, <2>2, <2>3, <2>4 DEF LoginShown
<1> QED  BY <1>1, <1>2, <1>3

\* The two chains the actions write down.
LEMMA ShortChains ==
    /\ << >> \in Seq(Screens) /\ <<"Login">> \in Seq(Screens)
    /\ modals' = << >> => ChainOverLogin' /\ ~LoginShown'
    /\ modals' = <<"Login">> => ChainOverLogin' /\ LoginShown'
  BY DEF Screens, ChainOverLogin, LoginShown

-----------------------------------------------------------------------------
(* The steps.                                                              *)

LEMMA InitIInv == Init => IInv
<1> SUFFICES ASSUME Init PROVE IInv
  OBVIOUS
<1>1. /\ tab = "Home" /\ settings = FALSE /\ modals = << >> /\ signedIn = FALSE
      /\ calls = [c \in Calls |-> Idle]
      /\ appearDue = TRUE /\ logoutDue = "none" /\ popDue = FALSE
  BY DEF Init, Launched
<1>2. TypeOK
  BY <1>1, ShortChains DEF TypeOK, Tabs, Call
<1>3. ~LoginShown /\ ~CanTap
  BY <1>1 DEF LoginShown, CanTap
<1> QED
  BY <1>1, <1>2, <1>3 DEF IInv, ChainOverLogin, CallsBelongToLogin, Shown, Idle,
     LogoutUncovered, PopBehindLogin, AppearsOnHome, LoginOverHome, SheetOverSettings,
     NoTabWithoutUser

\* A step that changes neither the screens nor who is signed in, and leaves
\* shown on no call that had it not.
LEMMA CallStep ==
    ASSUME IInv, calls' \in [Calls -> Call],
           \A c \in Calls : calls'[c].shown =>
               /\ Shown(c)
               /\ calls'[c].at = "ok" => calls[c].at = "ok" \/ signedIn',
           signedIn => signedIn', signedIn' \in BOOLEAN,
           UNCHANGED <<tab, settings, modals, appearDue, logoutDue, popDue>>
    PROVE  IInv'
<1>1. LoginShown' <=> LoginShown
  BY DEF LoginShown
<1>2. CanTap' <=> CanTap
  BY DEF CanTap
<1>3. TypeOK' /\ ChainOverLogin'
  BY DEF IInv, TypeOK, ChainOverLogin
<1>4. CallsBelongToLogin'
  BY <1>1 DEF IInv, CallsBelongToLogin, Shown
<1> QED
  BY <1>1, <1>2, <1>3, <1>4 DEF IInv, LogoutUncovered, PopBehindLogin, AppearsOnHome,
     LoginOverHome, SheetOverSettings, NoTabWithoutUser

LEMMA HomeDidAppearStep == IInv /\ HomeDidAppear => IInv'
<1> SUFFICES ASSUME IInv, HomeDidAppear PROVE IInv'
  OBVIOUS
<1>1. /\ appearDue /\ appearDue' = FALSE
      /\ UNCHANGED <<tab, settings, signedIn, calls, logoutDue, popDue>>
      /\ tab = "Home" /\ (modals = << >> \/ LoginShown)
      /\ logoutDue = "none"
      /\ \A c \in Calls : ~Shown(c)
  BY DEF HomeDidAppear, IInv, AppearsOnHome, LogoutUncovered, CallsBelongToLogin
<1>2. \A c \in Calls : ~Shown(c)'
  BY <1>1 DEF Shown
<1>3. CASE ~signedIn /\ Uncovered
  <2>1. modals' = <<"Login">> /\ ~settings
    BY <1>1, <1>3 DEF HomeDidAppear, Uncovered, IInv, AppearsOnHome
  <2>2. ChainOverLogin' /\ LoginShown' /\ TypeOK'
    BY <1>1, <2>1, ShortChains DEF IInv, TypeOK
  <2> QED
    BY <1>1, <1>2, <2>1, <2>2 DEF IInv, CallsBelongToLogin, LogoutUncovered, PopBehindLogin,
       AppearsOnHome, LoginOverHome, SheetOverSettings, NoTabWithoutUser
<1>4. CASE ~(~signedIn /\ Uncovered)
  <2>1. modals' = modals /\ (LoginShown' <=> LoginShown) /\ (signedIn \/ LoginShown)
    BY <1>1, <1>4 DEF HomeDidAppear, Uncovered, LoginShown
  <2>2. ChainOverLogin' /\ TypeOK'
    BY <1>1, <2>1 DEF IInv, TypeOK, ChainOverLogin
  <2> QED
    BY <1>1, <1>2, <2>1, <2>2 DEF IInv, CallsBelongToLogin, LogoutUncovered, PopBehindLogin,
       AppearsOnHome, LoginOverHome, SheetOverSettings, NoTabWithoutUser
<1> QED  BY <1>3, <1>4

LEMMA LogoutCompletionStep == IInv /\ LogoutCompletion => IInv'
<1> SUFFICES ASSUME IInv, LogoutCompletion PROVE IInv'
  OBVIOUS
<1>1. /\ logoutDue' = "none" /\ UNCHANGED <<settings, signedIn, calls>>
      /\ logoutDue \in {"true", "false"}
      /\ modals = << >> /\ Uncovered /\ ~LoginShown
      /\ ~appearDue /\ ~popDue
      /\ logoutDue = "false" => signedIn
      /\ \A c \in Calls : ~Shown(c)
  BY DEF LogoutCompletion, IInv, LogoutUncovered, TypeOK, LoginShown, CallsBelongToLogin, Uncovered
<1>2. \A c \in Calls : ~Shown(c)'
  BY <1>1 DEF Shown
<1>3. CASE logoutDue = "true"
  <2>1. Present("Login") /\ tab' = "Home" /\ appearDue' = TRUE /\ popDue' = TRUE
    BY <1>3 DEF LogoutCompletion
  <2>2. /\ modals' \in Seq(Screens) /\ ChainOverLogin' /\ LoginShown'
        /\ modals' # << >> /\ modals'[1] = "Login"
    BY <1>1, <2>1, PresentKeepsChain DEF IInv, TypeOK, LoginShown, Screens
  <2>3. TypeOK'
    BY <1>1, <2>1, <2>2 DEF IInv, TypeOK, Tabs
  <2> QED
    BY <1>1, <1>2, <2>1, <2>2, <2>3 DEF IInv, CallsBelongToLogin, LogoutUncovered,
       PopBehindLogin, AppearsOnHome, LoginOverHome, SheetOverSettings, NoTabWithoutUser
<1>4. CASE logoutDue = "false"
  <2>1. Present("Alert") /\ UNCHANGED <<tab, appearDue, popDue>>
    BY <1>4 DEF LogoutCompletion
  <2>2. /\ modals' \in Seq(Screens) /\ ChainOverLogin' /\ ~LoginShown'
        /\ modals' # << >> /\ modals'[1] = "Alert"
    BY <1>1, <2>1, PresentKeepsChain DEF IInv, TypeOK, LoginShown, Screens
  <2>3. TypeOK'
    BY <1>1, <2>1, <2>2 DEF IInv, TypeOK
  <2> QED
    BY <1>1, <1>2, <1>4, <2>1, <2>2, <2>3 DEF IInv, CallsBelongToLogin, LogoutUncovered,
       PopBehindLogin, AppearsOnHome, LoginOverHome, SheetOverSettings, NoTabWithoutUser
<1> QED  BY <1>1, <1>3, <1>4

LEMMA PresentLogInCompletionStep == IInv /\ PresentLogInCompletion => IInv'
<1> SUFFICES ASSUME IInv, PresentLogInCompletion PROVE IInv'
  OBVIOUS
<1>1. /\ popDue /\ popDue' = FALSE /\ settings' = FALSE
      /\ UNCHANGED <<tab, modals, signedIn, calls, appearDue, logoutDue>>
      /\ LoginShown /\ tab = "Home" /\ logoutDue = "none"
      /\ \A c \in Calls : ~Shown(c)
      /\ modals # << >> /\ modals[1] = "Login"
  BY DEF PresentLogInCompletion, IInv, PopBehindLogin, LogoutUncovered, CallsBelongToLogin,
     LoginShown
<1>2. TypeOK' /\ ChainOverLogin' /\ LoginShown' /\ \A c \in Calls : ~Shown(c)'
  BY <1>1 DEF IInv, TypeOK, ChainOverLogin, LoginShown, Shown
<1> QED
  BY <1>1, <1>2 DEF IInv, CallsBelongToLogin, LogoutUncovered,
     PopBehindLogin, AppearsOnHome, LoginOverHome, SheetOverSettings, NoTabWithoutUser

\* A form or a link on the onboarding screens, a row of Settings or Profile.
LEMMA PresentStep ==
    ASSUME IInv, CanTap, NEW s \in Screens, Present(s),
           \/ LoginShown /\ s \notin {"Login", "LogoutSheet"}
           \/ /\ Uncovered /\ s \notin {"Login", "SignUp"}
              /\ tab = "Profile" /\ (s = "LogoutSheet" => settings),
           UNCHANGED <<tab, settings, signedIn, calls, appearDue, logoutDue, popDue>>
    PROVE  IInv'
<1>1. /\ modals' \in Seq(Screens) /\ ChainOverLogin' /\ modals' # << >>
      /\ modals'[1] = IF Uncovered THEN s ELSE modals[1]
  BY PresentKeepsChain DEF IInv, TypeOK
<1>2. LoginShown' <=> LoginShown
  BY <1>1 DEF LoginShown, Uncovered
<1>3. TypeOK'
  BY <1>1 DEF IInv, TypeOK
<1>4. \A c \in Calls : Shown(c)' <=> Shown(c)
  BY DEF Shown
<1>5. ~appearDue /\ ~popDue /\ logoutDue = "none" /\ (LoginShown \/ signedIn)
  BY DEF CanTap, IInv, NoTabWithoutUser
<1> QED
  BY <1>1, <1>2, <1>3, <1>4, <1>5 DEF IInv, CallsBelongToLogin, LogoutUncovered,
     PopBehindLogin, AppearsOnHome, LoginOverHome, SheetOverSettings, NoTabWithoutUser,
     LoginShown, Uncovered

LEMMA RelaunchStep == IInv /\ Relaunch => IInv'
<1> SUFFICES ASSUME IInv, Relaunch PROVE IInv'
  OBVIOUS
<1>1. /\ tab' = "Home" /\ settings' = FALSE /\ modals' = << >> /\ signedIn' = signedIn
      /\ calls' = [c \in Calls |-> Idle]
      /\ appearDue' = TRUE /\ logoutDue' = "none" /\ popDue' = FALSE
  BY DEF Relaunch
<1>2. TypeOK'
  BY <1>1, ShortChains DEF IInv, TypeOK, Tabs, Call
<1>3. ChainOverLogin' /\ ~LoginShown' /\ ~CanTap' /\ \A c \in Calls : ~Shown(c)'
  BY <1>1, ShortChains DEF CanTap, Shown, Idle
<1> QED
  BY <1>1, <1>2, <1>3 DEF IInv, CallsBelongToLogin, LogoutUncovered,
     PopBehindLogin, AppearsOnHome, LoginOverHome, SheetOverSettings, NoTabWithoutUser

LEMMA DidTapCloseStep == IInv /\ DidTapClose => IInv'
<1> SUFFICES ASSUME IInv, DidTapClose PROVE IInv'
  OBVIOUS
<1>1. /\ modals' \in Seq(Screens) /\ ChainOverLogin'
      /\ LoginShown' <=> LoginShown
      /\ modals' # << >> => LoginShown
  BY DismissKeepsChain DEF DidTapClose, Uncovered, IInv, TypeOK
<1>2. /\ UNCHANGED <<tab, settings, signedIn, calls, appearDue, logoutDue, popDue>>
      /\ ~appearDue /\ ~popDue /\ logoutDue = "none" /\ (LoginShown \/ signedIn)
  BY DEF DidTapClose, CanTap, IInv, NoTabWithoutUser
<1>3. TypeOK' /\ \A c \in Calls : Shown(c)' <=> Shown(c)
  BY <1>1, <1>2 DEF IInv, TypeOK, Shown
<1>4. SheetOverSettings'
  BY <1>1 DEF SheetOverSettings, LoginShown
<1> QED
  BY <1>1, <1>2, <1>3, <1>4 DEF IInv, CallsBelongToLogin, LogoutUncovered,
     PopBehindLogin, AppearsOnHome, LoginOverHome, NoTabWithoutUser

\* A tap on a tab or on Profile's settings button, with nothing presented.
LEMMA TabStep ==
    ASSUME IInv, CanTap, Uncovered, tab' \in Tabs, settings' \in BOOLEAN, appearDue' \in BOOLEAN,
           appearDue' => tab' = "Home",
           UNCHANGED <<modals, signedIn, calls, logoutDue, popDue>>
    PROVE  IInv'
<1>1. /\ modals = << >> /\ ~LoginShown /\ ~LoginShown' /\ signedIn
      /\ ~popDue /\ logoutDue = "none"
      /\ \A c \in Calls : ~Shown(c)
  BY DEF CanTap, Uncovered, LoginShown, IInv, NoTabWithoutUser, CallsBelongToLogin
<1>2. TypeOK' /\ ChainOverLogin' /\ \A c \in Calls : ~Shown(c)'
  BY <1>1 DEF IInv, TypeOK, ChainOverLogin, Shown
<1> QED
  BY <1>1, <1>2 DEF IInv, CallsBelongToLogin, LogoutUncovered,
     PopBehindLogin, AppearsOnHome, LoginOverHome, SheetOverSettings, NoTabWithoutUser

LEMMA LogoutDidTapYesStep == IInv /\ LogoutDidTapYes => IInv'
<1> SUFFICES ASSUME IInv, LogoutDidTapYes PROVE IInv'
  OBVIOUS
<1>1. CanTap /\ OnTop("LogoutSheet") /\ DismissTop
  BY DEF LogoutDidTapYes
<1>2. ~Uncovered /\ ~OnTop("Login")
  BY <1>1 DEF OnTop, Uncovered
<1>3. modals' = << >> /\ modals[1] = "LogoutSheet" /\ ChainOverLogin' /\ modals' \in Seq(Screens)
  BY <1>1, <1>2, DismissKeepsChain DEF IInv, TypeOK
<1>4. /\ ~LoginShown /\ ~LoginShown' /\ signedIn
      /\ ~appearDue /\ ~popDue /\ logoutDue = "none"
      /\ tab = "Profile" /\ settings
      /\ \A c \in Calls : ~Shown(c)
  BY <1>1, <1>2, <1>3 DEF LoginShown, Uncovered, CanTap, IInv, NoTabWithoutUser,
     SheetOverSettings, CallsBelongToLogin
<1>5. /\ UNCHANGED <<tab, settings, calls, appearDue, popDue>>
      /\ signedIn' \in BOOLEAN /\ logoutDue' \in {"true", "false"}
      /\ logoutDue' = "false" => signedIn'
  BY <1>4 DEF LogoutDidTapYes
<1>6. TypeOK' /\ ~CanTap' /\ \A c \in Calls : ~Shown(c)'
  BY <1>3, <1>4, <1>5 DEF IInv, TypeOK, Shown, CanTap
<1> QED
  BY <1>3, <1>4, <1>5, <1>6 DEF IInv, CallsBelongToLogin, LogoutUncovered,
     PopBehindLogin, AppearsOnHome, LoginOverHome, SheetOverSettings, NoTabWithoutUser

LEMMA SubmitStep ==
    ASSUME IInv, CanTap, LoginShown, NEW c \in Calls, NEW form \in {"login", "register"},
           Submit(c, form)
    PROVE  IInv'
<1>1. /\ UNCHANGED <<tab, settings, modals, signedIn, appearDue, logoutDue, popDue>>
      /\ calls' = [calls EXCEPT ![c] = [at |-> "sent", form |-> form, shown |-> TRUE]]
      /\ calls \in [Calls -> Call] /\ ~appearDue /\ ~popDue /\ logoutDue = "none"
  BY DEF Submit, CanTap, IInv, TypeOK
<1>2. calls' \in [Calls -> Call]
  <2>1. [at |-> "sent", form |-> form, shown |-> TRUE] \in Call
    BY DEF Call
  <2> QED  BY <1>1, <2>1
<1>3. \A d \in Calls : Shown(d)' =>
            \/ d = c /\ calls'[d].at = "sent"
            \/ Shown(d) /\ calls'[d] = calls[d]
  BY <1>1 DEF Shown
<1>4. LoginShown' /\ CanTap'
  BY <1>1 DEF LoginShown, CanTap
<1>5. TypeOK' /\ ChainOverLogin'
  BY <1>1, <1>2 DEF IInv, TypeOK, ChainOverLogin
<1>6. CallsBelongToLogin'
  BY <1>1, <1>3, <1>4 DEF IInv, CallsBelongToLogin
<1> QED
  BY <1>1, <1>4, <1>5, <1>6 DEF IInv, LogoutUncovered,
     PopBehindLogin, AppearsOnHome, LoginOverHome, SheetOverSettings, NoTabWithoutUser

\* Sign-up is never at the foot: where it is on top, Login is below.
LEMMA OnboardingOverLogin ==
    ASSUME IInv, OnTop("Login") \/ OnTop("SignUp") PROVE LoginShown
<1>1. modals # << >> /\ Len(modals) \in Nat /\ Len(modals) >= 1
  BY DEF OnTop, IInv, TypeOK
<1> QED
  BY <1>1 DEF OnTop, LoginShown, IInv, ChainOverLogin

LEMMA TapStep == IInv /\ Tap => IInv'
<1> SUFFICES ASSUME IInv, Tap PROVE IInv'
  OBVIOUS
<1>1. CASE FormDidFailCheck
  BY <1>1, OnboardingOverLogin, PresentStep DEF FormDidFailCheck, Screens
<1>2. ASSUME NEW s \in {"SignUp", "Safari"}, LoginDidTapLink(s) PROVE IInv'
  BY <1>2, OnboardingOverLogin, PresentStep DEF LoginDidTapLink, Screens
<1>3. CASE DidTapClose
  BY <1>3, DidTapCloseStep
<1>4. ASSUME NEW t \in Tabs, SelectTab(t) PROVE IInv'
  <2>1. settings' \in BOOLEAN /\ appearDue' \in BOOLEAN
    BY <1>4 DEF SelectTab
  <2> QED  BY <1>4, <2>1, TabStep DEF SelectTab
<1>5. CASE ProfileDidTapSettings
  <2>1. settings' \in BOOLEAN /\ appearDue' = FALSE /\ tab' \in Tabs
    BY <1>5 DEF ProfileDidTapSettings, CanTap, IInv, TypeOK
  <2> QED  BY <1>5, <2>1, TabStep DEF ProfileDidTapSettings
<1>6. ASSUME NEW s \in {"EditProfile", "Safari", "LogoutSheet"}, SettingsDidSelectRow(s)
      PROVE IInv'
  BY <1>6, PresentStep DEF SettingsDidSelectRow, Screens
<1>7. CASE LogoutDidTapYes
  BY <1>7, LogoutDidTapYesStep
<1>8. ASSUME NEW c \in Calls, LoginDidTapLogin(c) PROVE IInv'
  BY <1>8, OnboardingOverLogin, SubmitStep DEF LoginDidTapLogin
<1>9. ASSUME NEW c \in Calls, SignUpDidTapRegister(c) PROVE IInv'
  BY <1>9, OnboardingOverLogin, SubmitStep DEF SignUpDidTapRegister
<1> QED
  BY <1>1, <1>2, <1>3, <1>4, <1>5, <1>6, <1>7, <1>8, <1>9 DEF Tap

\* A call that outlives its screen.
LEMMA HiddenCall ==
    ASSUME NEW k \in Call
    PROVE  /\ [k EXCEPT !.shown = FALSE] \in Call
           /\ [k EXCEPT !.shown = FALSE].shown = FALSE
           /\ [k EXCEPT !.shown = FALSE].at = k.at
<1>1. CASE k = Idle
  <2> DEFINE R == [at : {"idle"}, form : {"none"}, shown : BOOLEAN]
  <2>1. k \in R /\ Idle \in R /\ Idle.shown = FALSE
    BY <1>1 DEF Idle
  <2>2. [k EXCEPT !.shown = FALSE] \in R /\ [k EXCEPT !.shown = FALSE].shown = FALSE
    BY <2>1
  <2>3. \A r, s \in R : r.shown = s.shown => r = s
    OBVIOUS
  <2>4. [k EXCEPT !.shown = FALSE] = Idle
    BY <2>1, <2>2, <2>3
  <2> QED  BY <1>1, <2>4 DEF Call, Idle
<1>2. CASE k \in [at : {"sent", "granted", "ok", "failed"},
                  form : {"login", "register"}, shown : BOOLEAN]
  BY <1>2 DEF Call
<1> QED  BY <1>1, <1>2 DEF Call

LEMMA LoginCompletionStep ==
    ASSUME IInv, NEW c \in Calls, LoginCompletion(c)
    PROVE  IInv'
<1> DEFINE done == [calls EXCEPT ![c] = Idle]
<1>1. /\ calls \in [Calls -> Call] /\ UNCHANGED <<tab, settings, signedIn, logoutDue, popDue>>
      /\ calls[c].at \in {"ok", "failed"}
  BY DEF IInv, TypeOK, LoginCompletion
<1>2. done \in [Calls -> Call] /\ Idle.shown = FALSE /\ Idle.at = "idle"
  BY <1>1 DEF Idle, Call
<1>3. \A d \in Calls : done[d].shown => Shown(d) /\ done[d] = calls[d]
  BY <1>1, <1>2 DEF Shown
<1>4. CASE calls[c].at = "ok" /\ Shown(c) /\ Len(modals) = 1
  <2>1. /\ LoginShown /\ signedIn /\ tab = "Home" /\ ~popDue /\ ~appearDue /\ ~settings
        /\ logoutDue = "none"
    BY <1>4 DEF IInv, CallsBelongToLogin, LoginOverHome, LogoutUncovered, LoginShown
  <2>2. DismissLogin(done)
    BY <1>4 DEF LoginCompletion, Shown
  <2>3. /\ modals' = << >> /\ appearDue' = TRUE
        /\ calls' = [d \in Calls |-> [done[d] EXCEPT !.shown = FALSE]]
    BY <2>1, <2>2 DEF DismissLogin
  <2>4. calls' \in [Calls -> Call] /\ \A d \in Calls : ~Shown(d)'
    <3>1. \A d \in Calls : [done[d] EXCEPT !.shown = FALSE] \in Call
                            /\ [done[d] EXCEPT !.shown = FALSE].shown = FALSE
      BY <1>2, HiddenCall
    <3> QED  BY <2>3, <3>1 DEF Shown
  <2>5. TypeOK' /\ ChainOverLogin' /\ ~LoginShown'
    BY <1>1, <2>3, <2>4, ShortChains DEF IInv, TypeOK
  <2> QED
    BY <1>1, <2>1, <2>3, <2>4, <2>5 DEF IInv, CallsBelongToLogin, LogoutUncovered,
       PopBehindLogin, AppearsOnHome, LoginOverHome, SheetOverSettings, NoTabWithoutUser
<1>5. CASE calls[c].at = "ok" /\ ~(Shown(c) /\ Len(modals) = 1)
  <2>1. /\ modals' = IF Shown(c) THEN <<"Login">> ELSE modals
        /\ calls' = done /\ appearDue' = appearDue
    BY <1>5 DEF LoginCompletion, Shown
  <2>2. CASE ~Shown(c)
    BY <1>1, <1>2, <1>3, <2>1, <2>2, CallStep DEF IInv, TypeOK
  <2>3. CASE Shown(c)
    <3>1. /\ LoginShown /\ tab = "Home" /\ ~popDue /\ ~appearDue /\ ~settings /\ logoutDue = "none"
      BY <2>3 DEF IInv, CallsBelongToLogin, LoginOverHome, LogoutUncovered, LoginShown
    <3>2. modals' = <<"Login">> /\ modals' # << >> /\ modals'[1] = "Login"
      BY <2>1, <2>3
    <3>3. TypeOK' /\ ChainOverLogin' /\ LoginShown'
      BY <1>1, <1>2, <2>1, <3>1, <3>2, ShortChains DEF IInv, TypeOK
    <3>4. \A d \in Calls : Shown(d)' => calls'[d] = calls[d] /\ Shown(d)
      BY <1>3, <2>1 DEF Shown
    <3> QED
      BY <1>1, <2>1, <3>1, <3>2, <3>3, <3>4 DEF IInv, CallsBelongToLogin, LogoutUncovered,
         PopBehindLogin, AppearsOnHome, LoginOverHome, SheetOverSettings, NoTabWithoutUser
  <2> QED  BY <2>2, <2>3
<1>6. CASE calls[c].at = "failed"
  <2>1. /\ modals' = IF Shown(c) /\ OnTop("Login") THEN Append(modals, "Alert") ELSE modals
        /\ calls' = done /\ appearDue' = appearDue
    BY <1>6 DEF LoginCompletion, Shown
  <2>2. CASE ~(Shown(c) /\ OnTop("Login"))
    BY <1>1, <1>2, <1>3, <2>1, <2>2, CallStep DEF IInv, TypeOK
  <2>3. CASE Shown(c) /\ OnTop("Login")
    <3>1. /\ LoginShown /\ tab = "Home" /\ ~popDue /\ ~appearDue /\ ~settings
          /\ logoutDue = "none" /\ ~Uncovered
      BY <2>3 DEF IInv, CallsBelongToLogin, LoginOverHome, LogoutUncovered, LoginShown, Uncovered
    <3>2. Present("Alert")
      BY <2>1, <2>3 DEF Present
    <3>3. modals' \in Seq(Screens) /\ ChainOverLogin' /\ modals' # << >> /\ modals'[1] = modals[1]
      BY <3>1, <3>2, PresentKeepsChain DEF IInv, TypeOK, Screens
    <3>4. TypeOK' /\ LoginShown' /\ modals'[1] = "Login"
      BY <1>1, <1>2, <2>1, <3>1, <3>3 DEF IInv, TypeOK, LoginShown
    <3>5. \A d \in Calls : Shown(d)' => calls'[d] = calls[d] /\ Shown(d)
      BY <1>3, <2>1 DEF Shown
    <3> QED
      BY <1>1, <2>1, <3>1, <3>3, <3>4, <3>5 DEF IInv, CallsBelongToLogin, LogoutUncovered,
         PopBehindLogin, AppearsOnHome, LoginOverHome, SheetOverSettings, NoTabWithoutUser
  <2> QED  BY <2>2, <2>3
<1> QED  BY <1>1, <1>4, <1>5, <1>6

LEMMA ClientStep == ASSUME IInv, NEW c \in Calls, Client(c) PROVE IInv'
<1>1. calls \in [Calls -> Call] /\ signedIn \in BOOLEAN
  BY DEF IInv, TypeOK
<1>2. CASE Answer(c)
  <2>1. PICK a \in {"granted", "failed"} : calls' = [calls EXCEPT ![c].at = a]
    BY <1>2 DEF Answer
  <2>2. calls[c].at = "sent"
    BY <1>2 DEF Answer
  <2>3. calls' \in [Calls -> Call]
    BY <1>1, <2>1, <2>2 DEF Call, Idle
  <2>4. \A d \in Calls : calls'[d].shown =>
            Shown(d) /\ (calls'[d].at = "ok" => calls[d].at = "ok")
    BY <1>1, <2>1, <2>2 DEF Shown, Call, Idle
  <2> QED  BY <1>1, <1>2, <2>3, <2>4, CallStep DEF Answer
<1>3. CASE UpdateCurrentUser(c)
  <2>1. PICK a \in {"ok", "failed"} : /\ calls' = [calls EXCEPT ![c].at = a]
                                      /\ a = "ok" => signedIn' = TRUE
                                      /\ a = "failed" => signedIn' = signedIn
    BY <1>3 DEF UpdateCurrentUser
  <2>2. calls[c].at = "granted"
    BY <1>3 DEF UpdateCurrentUser
  <2>3. calls' \in [Calls -> Call]
    BY <1>1, <2>1, <2>2 DEF Call, Idle
  <2>4. \A d \in Calls : calls'[d].shown =>
            Shown(d) /\ (calls'[d].at = "ok" => calls[d].at = "ok" \/ signedIn')
    BY <1>1, <2>1, <2>2 DEF Shown, Call, Idle
  <2>5. (signedIn => signedIn') /\ signedIn' \in BOOLEAN
    <3>1. CASE a = "ok"
      BY <2>1, <3>1, Zenon
    <3>2. CASE a = "failed"
      <4>1. signedIn' = signedIn
        BY <2>1, <3>2
      <4> QED  BY <1>1, <4>1
    <3> QED  BY <3>1, <3>2
  <2> QED  BY <1>1, <1>3, <2>3, <2>4, <2>5, CallStep DEF UpdateCurrentUser
<1>4. CASE LoginCompletion(c)
  BY <1>4, LoginCompletionStep
<1>5. CASE SignUpCompletion(c)
  <2>1. calls' = [calls EXCEPT ![c] = Idle] /\ signedIn' = signedIn
    BY <1>5 DEF SignUpCompletion
  <2>2. calls' \in [Calls -> Call] /\ Idle.shown = FALSE
    BY <1>1, <2>1 DEF Call, Idle
  <2>3. \A d \in Calls : calls'[d].shown => Shown(d) /\ calls'[d] = calls[d]
    BY <1>1, <2>1, <2>2 DEF Shown
  <2> QED  BY <1>1, <1>5, <2>1, <2>2, <2>3, CallStep DEF SignUpCompletion
<1> QED  BY <1>2, <1>3, <1>4, <1>5 DEF Client

LEMMA NextIInv == IInv /\ [Next]_vars => IInv'
<1> SUFFICES ASSUME IInv, [Next]_vars PROVE IInv'
  OBVIOUS
<1>1. CASE Tap
  BY <1>1, TapStep
<1>2. CASE MainQueue
  BY <1>2, HomeDidAppearStep, LogoutCompletionStep, PresentLogInCompletionStep DEF MainQueue
<1>3. ASSUME NEW c \in Calls, Client(c) PROVE IInv'
  BY <1>3, ClientStep
<1>4. CASE Relaunch
  BY <1>4, RelaunchStep
<1>5. CASE UNCHANGED vars
  BY <1>5 DEF vars, IInv, TypeOK, ChainOverLogin, CallsBelongToLogin, Shown, LogoutUncovered,
     PopBehindLogin, AppearsOnHome, LoginOverHome, SheetOverSettings, NoTabWithoutUser,
     LoginShown, CanTap
<1> QED  BY <1>1, <1>2, <1>3, <1>4, <1>5 DEF Next

\* The inductive invariant: the chain, the calls and what is due agree in every step.
THEOREM Invariant == Spec => []IInv
<1> QED  BY InitIInv, NextIInv, PTL DEF Spec

-----------------------------------------------------------------------------
(* The theorems.                                                           *)

\* The gate, the chain of screens and the calls are always of their types.
THEOREM TypeCorrect == Spec => []TypeOK
<1>1. IInv => TypeOK  BY DEF IInv
<1> QED  BY <1>1, Invariant, PTL

\* The gate holds: whoever can tap on a tab is signed in, although only Home's
\* viewDidAppear asks.
THEOREM GateHolds == Spec => []NoTabWithoutUser
<1>1. IInv => NoTabWithoutUser  BY DEF IInv
<1> QED  BY <1>1, Invariant, PTL

\* Settings' log-out and Home's gate both reset the app behind Login.
THEOREM LoginResets == Spec => []LoginOverFreshTabs
<1>1. IInv => LoginOverFreshTabs
  BY DEF IInv, LoginOverFreshTabs, LoginOverHome, CanTap
<1> QED  BY <1>1, Invariant, PTL

\* Home's gate never presents Login over the one log-out presents.
THEOREM OneLogin == Spec => []LoginPresentedOnce
<1>1. IInv => LoginPresentedOnce
  BY DEF IInv, ChainOverLogin, LoginPresentedOnce
<1> QED  BY <1>1, Invariant, PTL

\* A call whose answer may touch the screens was made by a Login that is still
\* up: dismissing Login disowns every call, and only a user who has left Login,
\* by signing in, can bring up the next one.
THEOREM AnswersStayOnLogin == Spec => AnswersKeepToLogin
<1>1. IInv => [\A c \in Calls : Client(c) => modals' = modals \/ LoginShown]_vars
  <2> SUFFICES ASSUME IInv, NEW c \in Calls, Client(c)
               PROVE  modals' = modals \/ LoginShown
    OBVIOUS
  <2>1. CASE Answer(c) \/ UpdateCurrentUser(c) \/ SignUpCompletion(c)
    BY <2>1 DEF Answer, UpdateCurrentUser, SignUpCompletion
  <2>2. CASE LoginCompletion(c)
    <3>1. CASE Shown(c)
      BY <3>1 DEF IInv, CallsBelongToLogin
    <3>2. CASE ~Shown(c)
      BY <2>2, <3>2 DEF LoginCompletion, Shown
    <3> QED  BY <3>1, <3>2
  <2> QED  BY <2>1, <2>2 DEF Client
<1> QED  BY <1>1, Invariant, PTL DEF AnswersKeepToLogin

\* The answer that dismisses Login is a success of a call made there, and nobody
\* can sign out as long as Login is up: the user it signed in is still there.
THEOREM LoginGoesSignedIn == Spec => LoginLeavesSignedIn
<1>1. IInv => [\A c \in Calls : Client(c) /\ LoginShown /\ ~LoginShown' => signedIn]_vars
  <2> SUFFICES ASSUME IInv, NEW c \in Calls, Client(c), LoginShown, ~LoginShown'
               PROVE  signedIn
    OBVIOUS
  <2>1. modals' # modals
    BY DEF LoginShown
  <2>2. LoginCompletion(c)
    BY <2>1 DEF Client, Answer, UpdateCurrentUser, SignUpCompletion
  <2>3. Shown(c)
    BY <2>1, <2>2 DEF LoginCompletion, Shown
  <2>4. CASE calls[c].at = "ok"
    BY <2>3, <2>4 DEF IInv, CallsBelongToLogin
  <2>5. CASE calls[c].at = "failed"
    <3>1. modals' = Append(modals, "Alert")
      BY <2>1, <2>2, <2>5 DEF LoginCompletion
    <3>2. modals \in Seq(Screens) /\ modals # << >> /\ modals[1] = "Login"
      BY DEF IInv, TypeOK, LoginShown
    <3>3. modals' # << >> /\ modals'[1] = "Login"
      BY <3>1, <3>2
    <3> QED  BY <3>3 DEF LoginShown
  <2> QED  BY <2>2, <2>4, <2>5 DEF LoginCompletion
<1> QED  BY <1>1, Invariant, PTL DEF LoginLeavesSignedIn
=============================================================================
