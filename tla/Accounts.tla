------------------------------ MODULE Accounts ------------------------------
(***************************************************************************)
(* Registration, login and logout of every device that runs the app:       *)
(* AuthManager, DatabaseManager and the two onboarding forms that call     *)
(* them, the Firebase client they call, and the two servers behind it (the *)
(* authentication server and the realtime database, both external).        *)
(*                                                                         *)
(* A call is one tap on "Register" or "Login".  It passes through          *)
(*   sent       request on its way to the authentication server            *)
(*   granted    the server said yes; the answer is not yet processed       *)
(*   ok         currentUser is set and saved, main-queue callback is due   *)
(*   inserting  insertNewUser's write is outstanding (registration only)   *)
(*   refused    the server said no; error callback is due                  *)
(*   failed     transport or keychain error; error callback is due         *)
(* and is "idle" again once AuthManager has called its completion.         *)
(***************************************************************************)
EXTENDS StringExtension, FiniteSets

CONSTANTS
    Devices,      \* installations of the app
    Calls,        \* calls one device can have outstanding: no button is disabled
    Emails,       \* texts typed into the sign-up form's email field
    Usernames,    \* texts typed into its username field
    LoginTexts,   \* texts typed into the login form's "Username or Email" field
    Passwords,    \* texts typed into a password field
    NONE,         \* nil
    MaxLate       \* bound: requests still travelling after their sender gave up

ASSUME AccountsAssumption ==
    /\ NONE \notin Emails \cup Usernames \cup LoginTexts \cup Passwords
    /\ MaxLate \in Nat

VARIABLES
    accounts,     \* authentication server: password of each email's account
    users,        \* database server: username stored under each key
    currentUser,  \* per device: Auth.auth().currentUser, kept in the keychain
    calls,        \* per device: the outstanding calls
    puts,         \* per device: the database client's outstandingPuts, in order
    late,         \* requests that reach a server after their sender gave up
    registrant,   \* history: username of the call that created each account
    registered    \* history: registrations whose completion got true

vars == <<accounts, users, currentUser, calls, puts, late, registrant, registered>>

Keys == {safeDataBaseKey(e) : e \in Emails}

Idle == [at |-> "idle", op |-> NONE, text |-> NONE, username |-> NONE, password |-> NONE]

Call ==
    {Idle}
    \cup [at : {"sent", "granted", "ok", "inserting", "refused", "failed"},
          op : {"register"}, text : Emails, username : Usernames, password : Passwords]
    \cup [at : {"sent", "granted", "ok", "refused", "failed"},
          op : {"login"}, text : LoginTexts, username : {NONE},
          password : Passwords]

Put == [call : Calls, email : Emails, username : Usernames,
        status : {"pending", "applied", "denied"}]

LateMessage ==
    [kind : {"create"}, email : Emails, username : Usernames, password : Passwords]
    \cup [kind : {"put"}, email : Emails, username : Usernames, password : {NONE}]

TypeOK ==
    /\ accounts \in [Emails -> Passwords \cup {NONE}]
    /\ users \in [Keys -> Usernames \cup {NONE}]
    /\ currentUser \in [Devices -> Emails \cup {NONE}]
    /\ calls \in [Devices -> [Calls -> Call]]
    /\ puts \in [Devices -> Seq(Put)]
    /\ late \in SUBSET LateMessage
    /\ registrant \in [Emails -> Usernames \cup {NONE}]
    /\ registered \in SUBSET [email : Emails, username : Usernames]

Init ==
    /\ accounts = [e \in Emails |-> NONE]
    /\ users = [k \in Keys |-> NONE]
    /\ currentUser = [d \in Devices |-> NONE]
    /\ calls = [d \in Devices |-> [c \in Calls |-> Idle]]
    /\ puts = [d \in Devices |-> << >>]
    /\ late = {}
    /\ registrant = [e \in Emails |-> NONE]
    /\ registered = {}

-----------------------------------------------------------------------------
(* Helpers.                                                                *)

\* The state of call c of device d becomes s.
Move(d, c, s) == calls' = [calls EXCEPT ![d][c].at = s]

\* Call c of device d is over: its completion has run.
Finish(d, c) == calls' = [calls EXCEPT ![d][c] = Idle]

\* Any of the messages ms, within the bound, may still be on its way.
Straggle(ms) ==
    \E S \in SUBSET ms :
        /\ Cardinality(late \cup S) <= MaxLate
        /\ late' = late \cup S

CreateMessage(r) ==
    [kind |-> "create", email |-> r.text, username |-> r.username, password |-> r.password]

PutMessage(p) ==
    [kind |-> "put", email |-> p.email, username |-> p.username, password |-> NONE]

\* The create requests of device d that the server has not yet seen.
UnseenCreates(d) ==
    {CreateMessage(calls[d][c]) :
        c \in {b \in Calls : calls[d][b].at = "sent" /\ calls[d][b].op = "register"}}

\* The writes of device d that the server has not yet seen.
UnseenPuts(d) ==
    {PutMessage(puts[d][i]) : i \in {j \in 1..Len(puts[d]) : puts[d][j].status = "pending"}}

\* Writes reach the server in order: i is the oldest one it has not seen.
NextPending(d, i) ==
    /\ i \in 1..Len(puts[d])
    /\ puts[d][i].status = "pending"
    /\ \A j \in 1..(i - 1) : puts[d][j].status # "pending"

-----------------------------------------------------------------------------
(* Taps.                                                                   *)

\* DatabaseManager.canCreateNewUser: always yes.
canCreateNewUser(email, username) == TRUE

\* The contents of the two forms that pass their checks.
SignUpForms ==
    {f \in Usernames \X Emails \X Passwords : validateFields(f[1], f[2], f[3]) = "valid"}

LoginForms ==
    {f \in LoginTexts \X Passwords : validateTextFields(f[1], f[2]) = "valid"}

\* SignUpViewController.didTapRegisterBtn with fields that pass the checks,
\* up to the request AuthManager.registerNewUser makes.
DidTapRegisterBtn(d, c, u, e, p) ==
    /\ calls[d][c] = Idle
    /\ <<u, e, p>> \in SignUpForms
    /\ canCreateNewUser(e, u)
    /\ calls' = [calls EXCEPT ![d][c] =
            [at |-> "sent", op |-> "register", text |-> e, username |-> u, password |-> p]]
    /\ UNCHANGED <<accounts, users, currentUser, puts, late, registrant, registered>>

\* LoginViewController.didTapLoginBtn: the text goes to AuthManager.loginUser
\* as username and as email, so the email branch is always the one taken.
DidTapLoginBtn(d, c, t, p) ==
    /\ calls[d][c] = Idle
    /\ <<t, p>> \in LoginForms
    /\ calls' = [calls EXCEPT ![d][c] =
            [at |-> "sent", op |-> "login", text |-> t, username |-> NONE, password |-> p]]
    /\ UNCHANGED <<accounts, users, currentUser, puts, late, registrant, registered>>

-----------------------------------------------------------------------------
(* The authentication server (external) and the way to it.                 *)

\* createUser: one account per email.
ServerCreateUser(d, c) ==
    LET r == calls[d][c] IN
    /\ r.at = "sent" /\ r.op = "register"
    /\ accounts[r.text] = NONE
    /\ accounts' = [accounts EXCEPT ![r.text] = r.password]
    /\ registrant' = [registrant EXCEPT ![r.text] = r.username]
    /\ Move(d, c, "granted")
    /\ UNCHANGED <<users, currentUser, puts, late, registered>>

\* createUser of an email that has an account.
ServerRefuseUser(d, c) ==
    LET r == calls[d][c] IN
    /\ r.at = "sent" /\ r.op = "register"
    /\ accounts[r.text] # NONE
    /\ Move(d, c, "refused")
    /\ UNCHANGED <<accounts, users, currentUser, puts, late, registrant, registered>>

\* Whether the server lets (t, p) in: t must be an email with password p.
Accepts(t, p) == t \in Emails /\ accounts[t] = p

\* signIn: the server answers yes or no.
ServerVerify(d, c) ==
    LET r == calls[d][c] IN
    /\ r.at = "sent" /\ r.op = "login"
    /\ Move(d, c, IF Accepts(r.text, r.password) THEN "granted" ELSE "refused")
    /\ UNCHANGED <<accounts, users, currentUser, puts, late, registrant, registered>>

\* The request times out or is lost; the server may see it all the same.
RequestFails(d, c) ==
    /\ calls[d][c].at = "sent"
    /\ Straggle(IF calls[d][c].op = "register" THEN {CreateMessage(calls[d][c])} ELSE {})
    /\ Move(d, c, "failed")
    /\ UNCHANGED <<accounts, users, currentUser, puts, registrant, registered>>

\* A create request arrives after its sender gave up: nobody hears the answer.
LateCreate(m) ==
    /\ m \in late /\ m.kind = "create"
    /\ late' = late \ {m}
    /\ accounts' = [accounts EXCEPT ![m.email] = IF @ = NONE THEN m.password ELSE @]
    /\ registrant' = [registrant EXCEPT ![m.email] =
                        IF accounts[m.email] = NONE THEN m.username ELSE @]
    /\ UNCHANGED <<users, currentUser, calls, puts, registered>>

-----------------------------------------------------------------------------
(* The client: work queue, then main queue.                                *)

\* A positive answer is lost, the user-info request after it fails, or the
\* keychain refuses the user: an error callback although the server said yes.
GrantFails(d, c) ==
    /\ calls[d][c].at = "granted"
    /\ Move(d, c, "failed")
    /\ UNCHANGED <<accounts, users, currentUser, puts, late, registrant, registered>>

\* updateCurrentUser, on the work queue, before the callback is dispatched.
UpdateCurrentUser(d, c) ==
    /\ calls[d][c].at = "granted"
    /\ currentUser' = [currentUser EXCEPT ![d] = calls[d][c].text]
    /\ Move(d, c, "ok")
    /\ UNCHANGED <<accounts, users, puts, late, registrant, registered>>

\* The callback of signIn: completion(true).
SignInCallback(d, c) ==
    /\ calls[d][c].at = "ok" /\ calls[d][c].op = "login"
    /\ Finish(d, c)
    /\ UNCHANGED <<accounts, users, currentUser, puts, late, registrant, registered>>

\* One callback for both calls: a login inserts a record too.
CreateUserCallbackAnyCall(d, c) ==
    LET r == calls[d][c] IN
    /\ r.at = "ok"
    /\ puts' = [puts EXCEPT ![d] = Append(@,
            [call |-> c, email |-> r.text, username |-> r.username, status |-> "pending"])]
    /\ Move(d, c, "inserting")
    /\ UNCHANGED <<accounts, users, currentUser, late, registrant, registered>>

\* The callback of createUser: insertNewUser, one setValue under the key.
CreateUserCallback(d, c) ==
    LET r == calls[d][c] IN
    /\ r.at = "ok" /\ r.op = "register"
    /\ puts' = [puts EXCEPT ![d] = Append(@,
            [call |-> c, email |-> r.text, username |-> r.username, status |-> "pending"])]
    /\ Move(d, c, "inserting")
    /\ UNCHANGED <<accounts, users, currentUser, late, registrant, registered>>

\* An error callback that goes on to insertNewUser: the guard dropped.
ErrorCallbackInserts(d, c) ==
    LET r == calls[d][c] IN
    /\ r.at \in {"refused", "failed"}
    /\ IF r.op = "register"
       THEN /\ Move(d, c, "inserting")
            /\ puts' = [puts EXCEPT ![d] = Append(@,
                [call |-> c, email |-> r.text, username |-> r.username,
                 status |-> "pending"])]
       ELSE Finish(d, c) /\ UNCHANGED puts
    /\ UNCHANGED <<accounts, users, currentUser, late, registrant, registered>>

\* An error reaches the callback of either call: completion(false).
ErrorCallback(d, c) ==
    /\ calls[d][c].at \in {"refused", "failed"}
    /\ Finish(d, c)
    /\ UNCHANGED <<accounts, users, currentUser, puts, late, registrant, registered>>

\* AuthManager.logout; without a current user signOut does nothing.
Logout(d) ==
    /\ currentUser[d] # NONE
    /\ currentUser' = [currentUser EXCEPT ![d] = NONE]
    /\ UNCHANGED <<accounts, users, calls, puts, late, registrant, registered>>

-----------------------------------------------------------------------------
(* The database server (external) and the client's connection to it.       *)

\* setValue replaces what the key holds.
ServerApplyPut(d, i) ==
    /\ NextPending(d, i)
    /\ users' = [users EXCEPT ![safeDataBaseKey(puts[d][i].email)] = puts[d][i].username]
    /\ puts' = [puts EXCEPT ![d][i].status = "applied"]
    /\ UNCHANGED <<accounts, currentUser, calls, late, registrant, registered>>

\* The server's rules turn the write down.
ServerDenyPut(d, i) ==
    /\ NextPending(d, i)
    /\ puts' = [puts EXCEPT ![d][i].status = "denied"]
    /\ UNCHANGED <<accounts, users, currentUser, calls, late, registrant, registered>>

\* An acknowledgement that is taken for success whatever it says.
PutAckIgnoresError(d) ==
    LET p == Head(puts[d]) IN
    /\ puts[d] # << >> /\ p.status # "pending"
    /\ puts' = [puts EXCEPT ![d] = Tail(@)]
    /\ Finish(d, p.call)
    /\ registered' = registered \cup {[email |-> p.email, username |-> p.username]}
    /\ UNCHANGED <<accounts, users, currentUser, late, registrant>>

\* An acknowledgement whose error branch forgets the completion.
PutAckSilentOnError(d) ==
    LET p == Head(puts[d]) IN
    /\ puts[d] # << >> /\ p.status # "pending"
    /\ puts' = [puts EXCEPT ![d] = Tail(@)]
    /\ IF p.status = "applied"
       THEN /\ Finish(d, p.call)
            /\ registered' = registered \cup {[email |-> p.email, username |-> p.username]}
       ELSE UNCHANGED <<calls, registered>>
    /\ UNCHANGED <<accounts, users, currentUser, late, registrant>>

\* The acknowledgement of the oldest write: insertNewUser's completion, and
\* with it registerNewUser's, gets true if there was no error.
PutAck(d) ==
    LET p == Head(puts[d]) IN
    /\ puts[d] # << >> /\ p.status # "pending"
    /\ puts' = [puts EXCEPT ![d] = Tail(@)]
    /\ Finish(d, p.call)
    /\ registered' = IF p.status = "applied"
                     THEN registered \cup {[email |-> p.email, username |-> p.username]}
                     ELSE registered
    /\ UNCHANGED <<accounts, users, currentUser, late, registrant>>

\* The connection drops: every unacknowledged write will be sent again, and
\* those on their way may still arrive.
ConnectionLost(d) ==
    /\ puts[d] # << >>
    /\ Straggle(UnseenPuts(d))
    /\ puts' = [puts EXCEPT ![d] =
                    [i \in 1..Len(puts[d]) |-> [puts[d][i] EXCEPT !.status = "pending"]]]
    /\ UNCHANGED <<accounts, users, currentUser, calls, registrant, registered>>

\* A write arrives after its connection went away.
LatePut(m) ==
    /\ m \in late /\ m.kind = "put"
    /\ late' = late \ {m}
    /\ users' = [users EXCEPT ![safeDataBaseKey(m.email)] = m.username]
    /\ UNCHANGED <<accounts, currentUser, calls, puts, registrant, registered>>

\* The app is killed and started again: calls and outstanding writes are in
\* memory only, the current user is in the keychain.
Relaunch(d) ==
    /\ Straggle(UnseenCreates(d) \cup UnseenPuts(d))
    /\ calls' = [calls EXCEPT ![d] = [c \in Calls |-> Idle]]
    /\ puts' = [puts EXCEPT ![d] = << >>]
    /\ UNCHANGED <<accounts, users, currentUser, registrant, registered>>

-----------------------------------------------------------------------------

CallStep(d, c) ==
    \/ ServerCreateUser(d, c)
    \/ ServerRefuseUser(d, c)
    \/ ServerVerify(d, c)
    \/ RequestFails(d, c)
    \/ GrantFails(d, c)
    \/ UpdateCurrentUser(d, c)
    \/ SignInCallback(d, c)
    \/ CreateUserCallback(d, c)
    \/ ErrorCallback(d, c)

PutStep(d) ==
    \/ \E i \in 1..Len(puts[d]) : ServerApplyPut(d, i)
    \/ \E i \in 1..Len(puts[d]) : ServerDenyPut(d, i)
    \/ PutAck(d)
    \/ ConnectionLost(d)

Next ==
    \/ \E d \in Devices, c \in Calls :
        \/ \E u \in Usernames, e \in Emails, p \in Passwords : DidTapRegisterBtn(d, c, u, e, p)
        \/ \E t \in LoginTexts, p \in Passwords : DidTapLoginBtn(d, c, t, p)
        \/ CallStep(d, c)
    \/ \E d \in Devices : PutStep(d) \/ Logout(d) \/ Relaunch(d)
    \/ \E m \in late : LateCreate(m) \/ LatePut(m)

Spec == Init /\ [][Next]_vars

(* Requests to the authentication server end, if only in a timeout, and    *)
(* both queues are served.  A write waits for the connection as long as it *)
(* takes and is sent again after every loss; that it is ever acknowledged  *)
(* needs a connection that lasts long enough infinitely often.             *)
Fairness ==
    /\ \A d \in Devices, c \in Calls : WF_vars(CallStep(d, c))
    /\ \A d \in Devices :
        /\ WF_vars(\E i \in 1..Len(puts[d]) : ServerApplyPut(d, i) \/ ServerDenyPut(d, i))
        /\ SF_vars(PutAck(d))

FairSpec == Spec /\ Fairness

-----------------------------------------------------------------------------
(* Properties.                                                             *)

\* The two stores never disagree about who exists: a record in the database
\* carries the username under which some account with that key was created,
\* whatever calls race, fail, straggle or are cut off between the two writes.
RecordsBacked ==
    \A k \in Keys : users[k] # NONE =>
        \E e \in Emails :
            /\ safeDataBaseKey(e) = k
            /\ accounts[e] # NONE
            /\ registrant[e] = users[k]

\* registerNewUser reports true only to the call that created the account, and
\* only once the database holds a record under the email's key.
CompletionTruthful ==
    \A r \in registered :
        /\ accounts[r.email] # NONE
        /\ registrant[r.email] = r.username
        /\ users[safeDataBaseKey(r.email)] # NONE

\* A registration of e can still insert: it holds the server's yes, or its
\* write is outstanding, or its write is still travelling.
InsertUnderWay(e) ==
    \/ \E d \in Devices, c \in Calls :
        /\ calls[d][c].op = "register" /\ calls[d][c].text = e
        /\ calls[d][c].at \in {"granted", "ok"}
    \/ \E d \in Devices : \E i \in 1..Len(puts[d]) : puts[d][i].email = e
    \/ \E m \in late : m.kind = "put" /\ m.email = e

\* Registration is not repairable: once an account exists and no insertion for
\* it is under way (the app was killed, or createUser's answer was lost), no
\* later tap of anyone starts one, because createUser refuses the email.
NoSecondInsert ==
    [][\A e \in Emails :
        accounts[e] # NONE /\ ~InsertUnderWay(e) => ~InsertUnderWay(e)']_vars

\* No two emails share a database key.
KeysDistinct == \A e, f \in Emails : safeDataBaseKey(e) = safeDataBaseKey(f) => e = f

\* A record, once inserted, keeps its username: insertNewUser adds users and
\* never replaces one.
RecordsImmutable ==
    [][\A k \in Keys : users[k] # NONE => users'[k] = users[k]]_vars

\* Every call of AuthManager ends: its completion runs (or the app is killed).
CallsComplete ==
    \A d \in Devices, c \in Calls :
        calls[d][c].at # "idle" ~> calls[d][c].at = "idle"

\* The abstract directory: who is enrolled is who created the account, and the
\* published profile is what the database holds under the email's key.
Directory == INSTANCE UserDirectory WITH
    member <- registrant,
    profile <- [e \in Emails |-> users[safeDataBaseKey(e)]]

\* With distinct keys, all the racing, losing, resending and restarting of the
\* registration code amounts to enrolling once and publishing once.
DirectorySpec == Directory!Spec
=============================================================================
