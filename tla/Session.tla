------------------------------ MODULE Session ------------------------------
(***************************************************************************)
(* The session on one device as its user sees it: the gate in Home's       *)
(* viewDidAppear, the Login and Sign-up screens, and "Log Out" in Settings,*)
(* with answers of the authentication server arriving at any time.         *)
(*                                                                         *)
(* UIKit is external.  Of it the model keeps: presented controllers form   *)
(* one chain above the tab bar; present does nothing when the presenter is *)
(* covered or off screen; dismiss on a controller that presents something  *)
(* closes only what is above it, and does nothing on one that has gone;    *)
(* the user cannot tap while a transition, a viewDidAppear or a block      *)
(* already on the main queue is due.  The answer's two hops to the main    *)
(* queue are one step.                                                     *)
(***************************************************************************)
EXTENDS Naturals, Sequences

CONSTANT Calls   \* calls that can be outstanding: the buttons stay enabled

Tabs == {"Home", "Explore", "Posts", "Notification", "Profile"}
Screens == {"Login", "SignUp", "EditProfile", "LogoutSheet", "Alert", "Safari"}

VARIABLES
    tab,          \* the tab bar's selection
    settings,     \* Settings is pushed on Profile's navigation stack
    modals,       \* presented controllers, the top one last
    signedIn,     \* Auth.auth().currentUser # nil
    calls,        \* login and registration calls under way
    appearDue,    \* Home's viewDidAppear is due
    logoutDue,    \* result of logout whose main-queue block is due
    popDue        \* the completion of Settings' presentation is due

vars == <<tab, settings, modals, signedIn, calls, appearDue, logoutDue, popDue>>

Idle == [at |-> "idle", form |-> "none", shown |-> FALSE]

\* shown: the controller that made the call is still presented.
Call == {Idle} \cup
    [at : {"sent", "granted", "ok", "failed"}, form : {"login", "register"}, shown : BOOLEAN]

TypeOK ==
    /\ tab \in Tabs
    /\ settings \in BOOLEAN
    /\ modals \in Seq(Screens)
    /\ signedIn \in BOOLEAN
    /\ calls \in [Calls -> Call]
    /\ appearDue \in BOOLEAN
    /\ logoutDue \in {"none", "true", "false"}
    /\ popDue \in BOOLEAN

Launched ==
    /\ tab = "Home" /\ settings = FALSE /\ modals = << >>
    /\ calls = [c \in Calls |-> Idle]
    /\ appearDue = TRUE /\ logoutDue = "none" /\ popDue = FALSE

Init == Launched /\ signedIn = FALSE

-----------------------------------------------------------------------------
(* The chain of presented controllers.                                     *)

\* Nothing is due on the main queue: the user can tap.
CanTap == ~appearDue /\ logoutDue = "none" /\ ~popDue

\* s is what the user taps on: on top of the chain, or uncovered.
OnTop(s) == modals # << >> /\ modals[Len(modals)] = s
Uncovered == modals = << >>

Present(s) == modals' = Append(modals, s)
DismissTop == modals' = SubSeq(modals, 1, Len(modals) - 1)

\* Login, always the first of the chain, is presented.
LoginShown == modals # << >> /\ modals[1] = "Login"

\* Login goes: Home, if selected, appears again.  Its calls outlive it.
DismissLogin(others) ==
    /\ modals' = << >>
    /\ appearDue' = (tab = "Home")
    /\ calls' = [c \in Calls |-> [others[c] EXCEPT !.shown = FALSE]]

-----------------------------------------------------------------------------
(* Home.                                                                   *)

\* handleAuthentication that presents Login without looking what is on screen.
HomeDidAppearStacks ==
    /\ appearDue
    /\ appearDue' = FALSE
    /\ modals' = IF ~signedIn THEN Append(modals, "Login") ELSE modals
    /\ UNCHANGED <<tab, settings, signedIn, calls, logoutDue, popDue>>

\* viewDidAppear: handleAuthentication presents Login to nobody's session.
HomeDidAppear ==
    /\ appearDue
    /\ appearDue' = FALSE
    /\ modals' = IF ~signedIn /\ Uncovered THEN <<"Login">> ELSE modals
    /\ UNCHANGED <<tab, settings, signedIn, calls, logoutDue, popDue>>

-----------------------------------------------------------------------------
(* The onboarding screens.                                                 *)

\* A submitted form: the request leaves, nothing on screen changes.
Submit(c, form) ==
    /\ calls[c] = Idle
    /\ calls' = [calls EXCEPT ![c] = [at |-> "sent", form |-> form, shown |-> TRUE]]
    /\ UNCHANGED <<tab, settings, modals, signedIn, appearDue, logoutDue, popDue>>

LoginDidTapLogin(c) == CanTap /\ OnTop("Login") /\ Submit(c, "login")
SignUpDidTapRegister(c) == CanTap /\ OnTop("SignUp") /\ Submit(c, "register")

\* A form that fails its check shows an alert.
FormDidFailCheck ==
    /\ CanTap /\ (OnTop("Login") \/ OnTop("SignUp"))
    /\ Present("Alert")
    /\ UNCHANGED <<tab, settings, signedIn, calls, appearDue, logoutDue, popDue>>

\* "New User? Create an Account", "Terms", "Privacy" on Login.  The last two
\* are on Sign-up too, but have no target there.
LoginDidTapLink(s) ==
    /\ CanTap /\ OnTop("Login") /\ s \in {"SignUp", "Safari"}
    /\ Present(s)
    /\ UNCHANGED <<tab, settings, signedIn, calls, appearDue, logoutDue, popDue>>

\* Sign-up's "Login" button or a swipe down, an alert's button, Safari's Done,
\* Cancel or Save of Edit Profile, Cancel of the log-out sheet.
DidTapClose ==
    /\ CanTap /\ modals # << >> /\ ~OnTop("Login")
    /\ DismissTop
    /\ UNCHANGED <<tab, settings, signedIn, calls, appearDue, logoutDue, popDue>>

-----------------------------------------------------------------------------
(* Answers.                                                                *)

\* The server's answer, or none, reaches the client.
Answer(c) ==
    /\ calls[c].at = "sent"
    /\ \E a \in {"granted", "failed"} : calls' = [calls EXCEPT ![c].at = a]
    /\ UNCHANGED <<tab, settings, modals, signedIn, appearDue, logoutDue, popDue>>

\* updateCurrentUser on the work queue, or its failure.
UpdateCurrentUser(c) ==
    /\ calls[c].at = "granted"
    /\ \/ calls' = [calls EXCEPT ![c].at = "ok"] /\ signedIn' = TRUE
       \/ calls' = [calls EXCEPT ![c].at = "failed"] /\ UNCHANGED signedIn
    /\ UNCHANGED <<tab, settings, modals, appearDue, logoutDue, popDue>>

\* A login completion that alerts on whatever controller is on top.
LoginCompletionAlertsAnywhere(c) ==
    LET done == [calls EXCEPT ![c] = Idle]
        shown == calls[c].shown
    IN  /\ calls[c].form = "login"
        /\ \/ /\ calls[c].at = "ok" /\ shown /\ Len(modals) = 1
              /\ DismissLogin(done)
           \/ /\ calls[c].at = "ok" /\ ~(shown /\ Len(modals) = 1)
              /\ modals' = IF shown THEN <<"Login">> ELSE modals
              /\ calls' = done /\ UNCHANGED appearDue
           \/ /\ calls[c].at = "failed"
              /\ modals' = IF OnTop("Alert") THEN modals ELSE Append(modals, "Alert")
              /\ calls' = done /\ UNCHANGED appearDue
        /\ UNCHANGED <<tab, settings, signedIn, logoutDue, popDue>>

\* A login completion that dismisses whichever Login is on the screen.
LoginCompletionDismissesAny(c) ==
    LET done == [calls EXCEPT ![c] = Idle]
        shown == calls[c].shown
    IN  /\ calls[c].form = "login"
        /\ \/ /\ calls[c].at = "ok" /\ LoginShown /\ Len(modals) = 1
              /\ DismissLogin(done)
           \/ /\ calls[c].at = "ok" /\ ~(LoginShown /\ Len(modals) = 1)
              /\ modals' = IF shown THEN <<"Login">> ELSE modals
              /\ calls' = done /\ UNCHANGED appearDue
           \/ /\ calls[c].at = "failed"
              /\ modals' = IF shown /\ OnTop("Login") THEN Append(modals, "Alert") ELSE modals
              /\ calls' = done /\ UNCHANGED appearDue
        /\ UNCHANGED <<tab, settings, signedIn, logoutDue, popDue>>

\* The completion Login passes to loginUser.  On success it dismisses: itself
\* if nothing is presented on it, and otherwise what is.  On failure it
\* presents an alert, in vain if something is presented already.
LoginCompletion(c) ==
    LET done == [calls EXCEPT ![c] = Idle]
        shown == calls[c].shown
    IN  /\ calls[c].form = "login"
        /\ \/ /\ calls[c].at = "ok" /\ shown /\ Len(modals) = 1
              /\ DismissLogin(done)
           \/ /\ calls[c].at = "ok" /\ ~(shown /\ Len(modals) = 1)
              /\ modals' = IF shown THEN <<"Login">> ELSE modals
              /\ calls' = done /\ UNCHANGED appearDue
           \/ /\ calls[c].at = "failed"
              /\ modals' = IF shown /\ OnTop("Login") THEN Append(modals, "Alert") ELSE modals
              /\ calls' = done /\ UNCHANGED appearDue
        /\ UNCHANGED <<tab, settings, signedIn, logoutDue, popDue>>

\* The completion Sign-up passes to registerNewUser: both branches are empty.
SignUpCompletion(c) ==
    /\ calls[c].at \in {"ok", "failed"} /\ calls[c].form = "register"
    /\ calls' = [calls EXCEPT ![c] = Idle]
    /\ UNCHANGED <<tab, settings, modals, signedIn, appearDue, logoutDue, popDue>>

-----------------------------------------------------------------------------
(* Tabs and Settings.                                                      *)

\* A tap in the tab bar; a tap on the selected tab pops its stack.
SelectTab(t) ==
    /\ CanTap /\ Uncovered
    /\ tab' = t
    /\ settings' = (settings /\ ~(t = tab /\ t = "Profile"))
    /\ appearDue' = (t = "Home" /\ tab # "Home")
    /\ UNCHANGED <<modals, signedIn, calls, logoutDue, popDue>>

\* Profile's settings button, and the way back.
ProfileDidTapSettings ==
    /\ CanTap /\ Uncovered /\ tab = "Profile"
    /\ settings' = ~settings
    /\ UNCHANGED <<tab, modals, signedIn, calls, appearDue, logoutDue, popDue>>

\* Settings' rows: Edit Profile, the three legal pages, Log Out.  Profile's
\* header has a button for Edit Profile too.
SettingsDidSelectRow(s) ==
    /\ CanTap /\ Uncovered /\ tab = "Profile"
    /\ s \in (IF settings THEN {"EditProfile", "Safari", "LogoutSheet"} ELSE {"EditProfile"})
    /\ Present(s)
    /\ UNCHANGED <<tab, settings, signedIn, calls, appearDue, logoutDue, popDue>>

\* "Yes": the sheet closes and AuthManager.logout signs out, or fails to.
LogoutDidTapYes ==
    /\ CanTap /\ OnTop("LogoutSheet")
    /\ DismissTop
    /\ \/ signedIn' = FALSE /\ logoutDue' = "true"
       \/ logoutDue' = "false" /\ UNCHANGED signedIn
    /\ UNCHANGED <<tab, settings, calls, appearDue, popDue>>

\* The two statements of the block the other way round: with Home selected,
\* Settings is off screen and its presentLogIn presents nothing.
LogoutCompletionSwapped ==
    /\ logoutDue # "none"
    /\ logoutDue' = "none"
    /\ IF logoutDue = "true"
       THEN /\ tab' = "Home" /\ appearDue' = TRUE
            /\ UNCHANGED <<modals, popDue>>
       ELSE /\ modals' = Append(modals, "Alert")
            /\ UNCHANGED <<tab, appearDue, popDue>>
    /\ UNCHANGED <<settings, signedIn, calls>>

\* A block that forgets presentLogIn's presentation when logout succeeded.
LogoutCompletionStays ==
    /\ logoutDue # "none"
    /\ logoutDue' = "none"
    /\ modals' = IF logoutDue = "false" THEN Append(modals, "Alert") ELSE modals
    /\ UNCHANGED <<tab, settings, signedIn, calls, appearDue, popDue>>

\* The block of didTapLogOut on the main queue: presentLogIn, then Home is
\* selected (its viewDidAppear, if it comes, presents nothing over Login);
\* or the alert.
LogoutCompletion ==
    /\ logoutDue # "none"
    /\ logoutDue' = "none"
    /\ IF logoutDue = "true"
       THEN Present("Login") /\ tab' = "Home" /\ appearDue' = TRUE /\ popDue' = TRUE
       ELSE Present("Alert") /\ UNCHANGED <<tab, appearDue, popDue>>
    /\ UNCHANGED <<settings, signedIn, calls>>

\* Login is on screen: Settings' navigation stack pops to its root.
PresentLogInCompletion ==
    /\ popDue
    /\ popDue' = FALSE
    /\ settings' = FALSE
    /\ UNCHANGED <<tab, modals, signedIn, calls, appearDue, logoutDue>>

\* The app is killed and started again; the keychain keeps the user.
Relaunch ==
    /\ tab' = "Home" /\ settings' = FALSE /\ modals' = << >>
    /\ calls' = [c \in Calls |-> Idle]
    /\ appearDue' = TRUE /\ logoutDue' = "none" /\ popDue' = FALSE
    /\ UNCHANGED signedIn

-----------------------------------------------------------------------------

Tap ==
    \/ FormDidFailCheck
    \/ \E s \in {"SignUp", "Safari"} : LoginDidTapLink(s)
    \/ DidTapClose
    \/ \E t \in Tabs : SelectTab(t)
    \/ ProfileDidTapSettings
    \/ \E s \in {"EditProfile", "Safari", "LogoutSheet"} : SettingsDidSelectRow(s)
    \/ LogoutDidTapYes
    \/ \E c \in Calls : LoginDidTapLogin(c) \/ SignUpDidTapRegister(c)

Client(c) ==
    Answer(c) \/ UpdateCurrentUser(c) \/ LoginCompletion(c) \/ SignUpCompletion(c)

MainQueue == HomeDidAppear \/ LogoutCompletion \/ PresentLogInCompletion

Next == Tap \/ MainQueue \/ (\E c \in Calls : Client(c)) \/ Relaunch

Spec == Init /\ [][Next]_vars

(* The main queue is served and every request is answered, if only by a    *)
(* timeout.  Nothing is assumed of the user.                               *)
FairSpec ==
    Spec /\ WF_vars(MainQueue) /\ \A c \in Calls : WF_vars(Client(c))

-----------------------------------------------------------------------------
(* Properties.                                                             *)

\* Whoever can tap on a tab is signed in: the gate sits only in Home's
\* viewDidAppear, and still no tab is in reach without a user, whatever
\* answers arrive and however the screens are stacked.
NoTabWithoutUser == CanTap /\ ~LoginShown => signedIn

\* Behind a Login screen the app is reset: Home is selected and Profile's stack
\* is at its root, so the next user does not land in the last one's Settings.
LoginOverFreshTabs == CanTap /\ LoginShown => tab = "Home" /\ ~settings

\* Login is never presented twice, though Home and Settings both present it.
LoginPresentedOnce == \A i \in 2..Len(modals) : modals[i] # "Login"

\* Without a user the Login screen comes up.
SignedOutSeesLogin == ~signedIn ~> (LoginShown \/ signedIn)

\* An answer closes and covers nothing of the tabs, of Settings or of Profile:
\* it finds Login on the screen, or it changes no screen, although the Login that
\* made the call may have gone and a log-out may have brought another one.
AnswersKeepToLogin ==
    [][\A c \in Calls : Client(c) => modals' = modals \/ LoginShown]_vars

\* Login goes only with a user signed in: an answer to the Login of before the
\* log-out, whose user has signed out since, does not take down the next one.
LoginLeavesSignedIn ==
    [][\A c \in Calls : Client(c) /\ LoginShown /\ ~LoginShown' => signedIn]_vars
=============================================================================
