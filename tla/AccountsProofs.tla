--------------------------- MODULE AccountsProofs ---------------------------
(***************************************************************************)
(* Theorems about Accounts, for any number of devices, calls, texts and    *)
(* late messages.  IInv is the inductive invariant: every message, pending *)
(* write and answer that could still reach the database belongs to the     *)
(* call that created the account.  At the end, theorems about the texts an *)
(* account is made of: the checks of the forms and the database key, for   *)
(* texts of any length and alphabet.                                       *)
(***************************************************************************)
EXTENDS Accounts, MCStringExtension, TLAPS, SequenceTheorems

\* r names an account and, if it is a registration, the account it created.
GrantBacked(r) ==
    /\ r.text \in Emails
    /\ accounts[r.text] # NONE
    /\ r.op = "register" => registrant[r.text] = r.username

\* A positive answer of the server that is not yet used up is backed.
GrantsBacked ==
    \A d \in Devices, c \in Calls :
        calls[d][c].at \in {"granted", "ok"} => GrantBacked(calls[d][c])

\* An email has a registrant when and only when it has an account.
RegistrantsAgree == \A e \in Emails : accounts[e] = NONE <=> registrant[e] = NONE

\* w is a write the creator of an account makes.
WriteBacked(w) == accounts[w.email] # NONE /\ registrant[w.email] = w.username

\* Outstanding writes are backed, and what the server says it applied is there.
PutsBacked ==
    \A d \in Devices : \A i \in 1..Len(puts[d]) :
        /\ WriteBacked(puts[d][i])
        /\ puts[d][i].status = "applied" => users[safeDataBaseKey(puts[d][i].email)] # NONE

\* Writes that travel without a sender are backed.
LateBacked == \A m \in late : m.kind = "put" => WriteBacked(m)

IInv ==
    /\ TypeOK
    /\ GrantsBacked
    /\ RegistrantsAgree
    /\ PutsBacked
    /\ LateBacked
    /\ RecordsBacked
    /\ CompletionTruthful

\* No step takes an account away or changes who registered it.
AccountsKept ==
    \A e \in Emails : accounts[e] # NONE =>
        accounts'[e] = accounts[e] /\ registrant'[e] = registrant[e]

-----------------------------------------------------------------------------
(* Lemmas about the data.                                                  *)

\* A call that is not idle stays a call when it moves on.
LEMMA CallMoves ==
    ASSUME NEW r \in Call, r.at # "idle"
    PROVE  /\ \A s \in {"granted", "ok", "refused", "failed"} : [r EXCEPT !.at = s] \in Call
           /\ r.op = "register" => [r EXCEPT !.at = "inserting"] \in Call
           /\ r.op = "register" => r.text \in Emails /\ r.username \in Usernames
           /\ r.password \in Passwords
           /\ r.op \in {"register", "login"}
  BY DEF Call, Idle

\* Marking all outstanding writes pending leaves a sequence of writes of that length.
LEMMA MarkAllPuts ==
    ASSUME NEW s \in Seq(Put)
    PROVE  LET t == [i \in 1..Len(s) |-> [s[i] EXCEPT !.status = "pending"]]
           IN  t \in Seq(Put) /\ Len(t) = Len(s)
<1> DEFINE t == [i \in 1..Len(s) |-> [s[i] EXCEPT !.status = "pending"]]
<1>1. Len(s) \in Nat
  BY LenProperties
<1>2. \A i \in 1..Len(s) : [s[i] EXCEPT !.status = "pending"] \in Put
  <2> SUFFICES ASSUME NEW i \in 1..Len(s)
                PROVE  [s[i] EXCEPT !.status = "pending"] \in Put
    OBVIOUS
  <2>1. s[i] \in Put
    BY ElementOfSeq
  <2> QED
    BY <2>1 DEF Put
<1>3. t \in [1..Len(s) -> Put]
  BY <1>2
<1> QED
  BY <1>1, <1>3

\* What a call may move on to.
Stages == {"granted", "ok", "refused", "failed", "inserting"}

\* Moving a call on keeps its contents.
LEMMA MoveCall ==
    ASSUME TypeOK, NEW d \in Devices, NEW c \in Calls, calls[d][c].at # "idle",
           NEW s \in Stages,
           s = "inserting" => calls[d][c].op = "register",
           Move(d, c, s)
    PROVE  /\ calls' \in [Devices -> [Calls -> Call]]
           /\ \A e \in Devices, b \in Calls :
                calls'[e][b] = IF e = d /\ b = c THEN [calls[d][c] EXCEPT !.at = s]
                                                 ELSE calls[e][b]
           /\ calls'[d][c].at = s
           /\ calls'[d][c].text = calls[d][c].text
           /\ calls'[d][c].op = calls[d][c].op
           /\ calls'[d][c].username = calls[d][c].username
<1> DEFINE r == [calls[d][c] EXCEPT !.at = s]
<1>1. calls[d][c] \in Call
  BY DEF TypeOK
<1>2. r \in Call
  BY <1>1, CallMoves DEF Stages
<1>3. calls' = [calls EXCEPT ![d][c] = r]
  BY DEF Move, TypeOK
<1>4. /\ calls' \in [Devices -> [Calls -> Call]]
      /\ \A e \in Devices, b \in Calls :
            calls'[e][b] = IF e = d /\ b = c THEN r ELSE calls[e][b]
  <2>1. calls \in [Devices -> [Calls -> Call]]
    BY DEF TypeOK
  <2> HIDE DEF r
  <2> QED
    BY <1>2, <1>3, <2>1
<1>5. r.at = s /\ r.text = calls[d][c].text /\ r.op = calls[d][c].op
        /\ r.username = calls[d][c].username
  BY <1>1 DEF Call, Idle
<1> QED
  BY <1>4, <1>5

\* Ending a call makes it idle.
LEMMA FinishCall ==
    ASSUME TypeOK, NEW d \in Devices, NEW c \in Calls, Finish(d, c)
    PROVE  /\ calls' \in [Devices -> [Calls -> Call]]
           /\ \A e \in Devices, b \in Calls :
                calls'[e][b] = IF e = d /\ b = c THEN Idle ELSE calls[e][b]
<1>1. Idle \in Call /\ calls \in [Devices -> [Calls -> Call]]
  BY DEF Call, TypeOK
<1> QED
  BY <1>1 DEF Finish

\* A step that writes no record and ends no write keeps the invariant if it
\* keeps the accounts and backs what it adds to the calls and the late messages.
LEMMA NoRecordStep ==
    ASSUME IInv, TypeOK', AccountsKept, RegistrantsAgree', GrantsBacked', LateBacked',
           UNCHANGED <<users, puts, registered>>
    PROVE  IInv'
<1>1. PutsBacked'
  <2> SUFFICES ASSUME NEW d \in Devices, NEW i \in 1..Len(puts[d])
               PROVE  /\ WriteBacked(puts[d][i])'
                      /\ puts[d][i].status = "applied" =>
                            users[safeDataBaseKey(puts[d][i].email)] # NONE
    BY DEF PutsBacked
  <2>1. puts[d][i] \in Put
    BY ElementOfSeq DEF IInv, TypeOK
  <2>2. puts[d][i].email \in Emails
    BY <2>1 DEF Put
  <2> QED
    BY <2>2 DEF IInv, PutsBacked, WriteBacked, AccountsKept
<1>2. RecordsBacked'
  BY DEF IInv, RecordsBacked, AccountsKept
<1>3. CompletionTruthful'
  BY DEF IInv, TypeOK, CompletionTruthful, AccountsKept
<1> QED
  BY <1>1, <1>2, <1>3 DEF IInv

\* A step of calls and current users alone keeps the invariant if every
\* positive answer it leaves behind is backed.
LEMMA QuietStep ==
    ASSUME IInv, UNCHANGED <<accounts, registrant, users, puts, late, registered>>,
           calls' \in [Devices -> [Calls -> Call]],
           currentUser' \in [Devices -> Emails \cup {NONE}],
           \A e \in Devices, b \in Calls :
                calls'[e][b].at \in {"granted", "ok"} => GrantBacked(calls'[e][b])
    PROVE  IInv'
<1>1. TypeOK'
  BY DEF IInv, TypeOK
<1>2. AccountsKept /\ RegistrantsAgree' /\ LateBacked'
  BY DEF IInv, AccountsKept, RegistrantsAgree, LateBacked, WriteBacked
<1>3. GrantsBacked'
  BY DEF GrantsBacked, GrantBacked
<1> QED
  BY <1>1, <1>2, <1>3, NoRecordStep

-----------------------------------------------------------------------------
(* One lemma per action of a call.                                         *)

LEMMA TapInv ==
    ASSUME IInv, NEW d \in Devices, NEW c \in Calls, NEW r \in Call, r.at = "sent",
           calls' = [calls EXCEPT ![d][c] = r],
           UNCHANGED <<accounts, users, currentUser, puts, late, registrant, registered>>
    PROVE  IInv'
<1>1. TypeOK
  BY DEF IInv
<1>2. /\ calls' \in [Devices -> [Calls -> Call]]
      /\ \A e \in Devices, b \in Calls :
            calls'[e][b] = IF e = d /\ b = c THEN r ELSE calls[e][b]
  <2>1. calls \in [Devices -> [Calls -> Call]]
    BY <1>1 DEF TypeOK
  <2> QED
    BY <2>1
<1>3. \A e \in Devices, b \in Calls :
         calls'[e][b].at \in {"granted", "ok"} => GrantBacked(calls'[e][b])
  BY <1>2 DEF IInv, GrantsBacked
<1>4. currentUser' \in [Devices -> Emails \cup {NONE}]
  BY <1>1 DEF TypeOK
<1> QED
  BY <1>2, <1>3, <1>4, QuietStep

LEMMA RegisterTapInv ==
    ASSUME IInv, NEW d \in Devices, NEW c \in Calls, NEW u \in Usernames,
           NEW e \in Emails, NEW p \in Passwords, DidTapRegisterBtn(d, c, u, e, p)
    PROVE  IInv'
<1> DEFINE r == [at |-> "sent", op |-> "register", text |-> e, username |-> u, password |-> p]
<1>1. r \in Call /\ r.at = "sent"
  BY DEF Call
<1> QED
  BY <1>1, TapInv DEF DidTapRegisterBtn

LEMMA LoginTapInv ==
    ASSUME IInv, NEW d \in Devices, NEW c \in Calls, NEW t \in LoginTexts,
           NEW p \in Passwords, DidTapLoginBtn(d, c, t, p)
    PROVE  IInv'
<1> DEFINE r == [at |-> "sent", op |-> "login", text |-> t, username |-> NONE, password |-> p]
<1>1. r \in Call /\ r.at = "sent"
  BY DEF Call
<1> QED
  BY <1>1, TapInv DEF DidTapLoginBtn

\* The account that is created is the one the answer is about; the others,
\* and whatever was backed before, stay as they are.
LEMMA CreateInv ==
    ASSUME IInv, NEW d \in Devices, NEW c \in Calls, ServerCreateUser(d, c)
    PROVE  IInv'
<1> DEFINE r == calls[d][c]
<1>1. TypeOK /\ r \in Call /\ r.at = "sent" /\ r.op = "register" /\ Move(d, c, "granted")
  BY DEF IInv, TypeOK, ServerCreateUser
<1>2. r.text \in Emails /\ r.username \in Usernames /\ r.password \in Passwords
  BY <1>1, CallMoves
<1>3. /\ calls' \in [Devices -> [Calls -> Call]]
      /\ \A e \in Devices, b \in Calls :
            calls'[e][b] = IF e = d /\ b = c THEN [r EXCEPT !.at = "granted"] ELSE calls[e][b]
      /\ calls'[d][c].text = r.text /\ calls'[d][c].username = r.username
  BY <1>1, MoveCall DEF Stages
<1>4. /\ accounts' = [accounts EXCEPT ![r.text] = r.password]
      /\ registrant' = [registrant EXCEPT ![r.text] = r.username]
      /\ accounts[r.text] = NONE
      /\ UNCHANGED <<users, currentUser, puts, late, registered>>
  BY DEF ServerCreateUser
<1>5. TypeOK'
  BY <1>1, <1>2, <1>3, <1>4 DEF TypeOK
<1>6. AccountsKept
  BY <1>1, <1>2, <1>4 DEF AccountsKept, TypeOK
<1>7. RegistrantsAgree'
  BY <1>1, <1>2, <1>4, AccountsAssumption DEF IInv, RegistrantsAgree, TypeOK
<1>8. GrantsBacked'
  <2> SUFFICES ASSUME NEW e \in Devices, NEW b \in Calls,
                      calls'[e][b].at \in {"granted", "ok"}
               PROVE  GrantBacked(calls[e][b])'
    BY DEF GrantsBacked
  <2>1. CASE e = d /\ b = c
    BY <1>1, <1>2, <1>3, <1>4, <2>1, AccountsAssumption DEF GrantBacked, TypeOK
  <2>2. CASE ~(e = d /\ b = c)
    <3>1. calls'[e][b] = calls[e][b]
      BY <1>3, <2>2
    <3>2. GrantBacked(calls[e][b])
      BY <3>1 DEF IInv, GrantsBacked
    <3> QED
      BY <1>6, <3>1, <3>2 DEF GrantBacked, AccountsKept
  <2> QED
    BY <2>1, <2>2
<1>9. LateBacked'
  <2> SUFFICES ASSUME NEW m \in late, m.kind = "put"
               PROVE  WriteBacked(m)'
    BY <1>4 DEF LateBacked
  <2>1. m.email \in Emails
    BY <1>1 DEF TypeOK, LateMessage
  <2>2. WriteBacked(m)
    BY DEF IInv, LateBacked
  <2> QED
    BY <1>6, <2>1, <2>2 DEF WriteBacked, AccountsKept
<1> QED
  BY <1>4, <1>5, <1>6, <1>7, <1>8, <1>9, NoRecordStep

\* A call that moves on without a new yes of the server.
LEMMA MoveInv ==
    ASSUME IInv, NEW d \in Devices, NEW c \in Calls, calls[d][c].at # "idle",
           NEW s \in Stages, s # "inserting", Move(d, c, s),
           s \in {"granted", "ok"} => GrantBacked(calls[d][c]),
           currentUser' \in [Devices -> Emails \cup {NONE}],
           UNCHANGED <<accounts, users, puts, late, registrant, registered>>
    PROVE  IInv'
<1>0. TypeOK
  BY DEF IInv
<1>1. /\ calls' \in [Devices -> [Calls -> Call]]
      /\ \A e \in Devices, b \in Calls :
            calls'[e][b] = IF e = d /\ b = c THEN [calls[d][c] EXCEPT !.at = s]
                                             ELSE calls[e][b]
      /\ calls'[d][c].at = s
      /\ calls'[d][c].text = calls[d][c].text
      /\ calls'[d][c].op = calls[d][c].op
      /\ calls'[d][c].username = calls[d][c].username
  BY <1>0, MoveCall
<1>2. ASSUME NEW e \in Devices, NEW b \in Calls, calls'[e][b].at \in {"granted", "ok"}
      PROVE  GrantBacked(calls'[e][b])
  <2>1. CASE e = d /\ b = c
    BY <1>1, <1>2, <2>1 DEF GrantBacked
  <2>2. CASE ~(e = d /\ b = c)
    BY <1>1, <1>2, <2>2 DEF IInv, GrantsBacked
  <2> QED
    BY <2>1, <2>2
<1> QED
  BY <1>1, <1>2, QuietStep

LEMMA RefuseInv ==
    ASSUME IInv, NEW d \in Devices, NEW c \in Calls, ServerRefuseUser(d, c)
    PROVE  IInv'
<1>1. currentUser' \in [Devices -> Emails \cup {NONE}]
  BY DEF IInv, TypeOK, ServerRefuseUser
<1> QED
  BY <1>1, MoveInv DEF Stages, ServerRefuseUser

LEMMA VerifyInv ==
    ASSUME IInv, NEW d \in Devices, NEW c \in Calls, ServerVerify(d, c)
    PROVE  IInv'
<1> DEFINE r == calls[d][c]
<1>1. r \in Call /\ r.at = "sent" /\ r.op = "login"
  BY DEF IInv, TypeOK, ServerVerify
<1>2. r.password \in Passwords
  BY <1>1, CallMoves
<1>3. Accepts(r.text, r.password) => GrantBacked(r)
  BY <1>1, <1>2, AccountsAssumption DEF Accepts, GrantBacked
<1>4. currentUser' \in [Devices -> Emails \cup {NONE}]
  BY DEF IInv, TypeOK, ServerVerify
<1>5. CASE Accepts(r.text, r.password)
  BY <1>1, <1>3, <1>4, <1>5, MoveInv DEF Stages, ServerVerify
<1>6. CASE ~Accepts(r.text, r.password)
  BY <1>1, <1>4, <1>6, MoveInv DEF Stages, ServerVerify
<1> QED
  BY <1>5, <1>6

LEMMA GrantFailsInv ==
    ASSUME IInv, NEW d \in Devices, NEW c \in Calls, GrantFails(d, c)
    PROVE  IInv'
<1>1. currentUser' \in [Devices -> Emails \cup {NONE}]
  BY DEF IInv, TypeOK, GrantFails
<1> QED
  BY <1>1, MoveInv DEF Stages, GrantFails

LEMMA UpdateCurrentUserInv ==
    ASSUME IInv, NEW d \in Devices, NEW c \in Calls, UpdateCurrentUser(d, c)
    PROVE  IInv'
<1>1. GrantBacked(calls[d][c])
  BY DEF IInv, GrantsBacked, UpdateCurrentUser
<1>2. currentUser' \in [Devices -> Emails \cup {NONE}]
  BY <1>1 DEF IInv, TypeOK, UpdateCurrentUser, GrantBacked
<1> QED
  BY <1>1, <1>2, MoveInv DEF Stages, UpdateCurrentUser

\* A call that ends.
LEMMA FinishInv ==
    ASSUME IInv, NEW d \in Devices, NEW c \in Calls, Finish(d, c),
           UNCHANGED <<accounts, users, currentUser, puts, late, registrant, registered>>
    PROVE  IInv'
<1>1. /\ calls' \in [Devices -> [Calls -> Call]]
      /\ \A e \in Devices, b \in Calls :
            calls'[e][b] = IF e = d /\ b = c THEN Idle ELSE calls[e][b]
  BY FinishCall DEF IInv
<1>2. \A e \in Devices, b \in Calls :
         calls'[e][b].at \in {"granted", "ok"} => GrantBacked(calls'[e][b])
  BY <1>1 DEF IInv, GrantsBacked, Idle
<1>3. currentUser' \in [Devices -> Emails \cup {NONE}]
  BY DEF IInv, TypeOK
<1> QED
  BY <1>1, <1>2, <1>3, QuietStep

LEMMA LogoutInv ==
    ASSUME IInv, NEW d \in Devices, Logout(d)
    PROVE  IInv'
<1>1. /\ calls' \in [Devices -> [Calls -> Call]]
      /\ currentUser' \in [Devices -> Emails \cup {NONE}]
  BY DEF IInv, TypeOK, Logout
<1>2. \A e \in Devices, b \in Calls :
         calls'[e][b].at \in {"granted", "ok"} => GrantBacked(calls'[e][b])
  BY DEF IInv, GrantsBacked, Logout
<1> QED
  BY <1>1, <1>2, QuietStep DEF Logout

-----------------------------------------------------------------------------
(* Late messages.                                                          *)

\* A request that is given up leaves at most itself behind.
LEMMA RequestFailsInv ==
    ASSUME IInv, NEW d \in Devices, NEW c \in Calls, RequestFails(d, c)
    PROVE  IInv'
<1> DEFINE r == calls[d][c]
<1>1. TypeOK /\ r \in Call /\ r.at = "sent" /\ Move(d, c, "failed")
        /\ UNCHANGED <<accounts, users, currentUser, puts, registrant, registered>>
  BY DEF IInv, TypeOK, RequestFails
<1>2. /\ calls' \in [Devices -> [Calls -> Call]]
      /\ \A e \in Devices, b \in Calls :
            calls'[e][b] = IF e = d /\ b = c THEN [r EXCEPT !.at = "failed"] ELSE calls[e][b]
      /\ calls'[d][c].at = "failed"
  BY <1>1, MoveCall DEF Stages
<1>3. \A m \in late' : m \in late \/ (r.op = "register" /\ m = CreateMessage(r))
  BY DEF RequestFails, Straggle
<1>4. r.op = "register" => CreateMessage(r) \in LateMessage /\ CreateMessage(r).kind = "create"
  BY <1>1, CallMoves DEF CreateMessage, LateMessage
<1>5. TypeOK'
  BY <1>1, <1>2, <1>3, <1>4 DEF TypeOK
<1>6. GrantsBacked'
  BY <1>1, <1>2 DEF IInv, GrantsBacked, GrantBacked
<1>7. LateBacked'
  BY <1>1, <1>3, <1>4 DEF IInv, LateBacked, WriteBacked
<1>8. AccountsKept /\ RegistrantsAgree'
  BY <1>1 DEF IInv, AccountsKept, RegistrantsAgree
<1> QED
  BY <1>1, <1>5, <1>6, <1>7, <1>8, NoRecordStep

\* A late create request changes nothing for an email that has an account.
LEMMA LateCreateInv ==
    ASSUME IInv, NEW m \in late, LateCreate(m)
    PROVE  IInv'
<1>1. TypeOK /\ m \in LateMessage /\ m.kind = "create"
  BY DEF IInv, TypeOK, LateCreate
<1>2. m.email \in Emails /\ m.username \in Usernames /\ m.password \in Passwords
  BY <1>1 DEF LateMessage
<1>3. /\ late' = late \ {m}
      /\ accounts' = [accounts EXCEPT ![m.email] =
                        IF accounts[m.email] = NONE THEN m.password ELSE accounts[m.email]]
      /\ registrant' = [registrant EXCEPT ![m.email] =
                        IF accounts[m.email] = NONE THEN m.username ELSE registrant[m.email]]
      /\ UNCHANGED <<users, currentUser, calls, puts, registered>>
  BY <1>1, <1>2 DEF LateCreate, TypeOK
<1>4. TypeOK'
  BY <1>1, <1>2, <1>3 DEF TypeOK
<1>5. AccountsKept
  BY <1>1, <1>2, <1>3 DEF AccountsKept, TypeOK
<1>6. RegistrantsAgree'
  BY <1>1, <1>2, <1>3, AccountsAssumption DEF IInv, RegistrantsAgree, TypeOK
<1>7. GrantsBacked'
  BY <1>3, <1>5 DEF IInv, GrantsBacked, GrantBacked, AccountsKept
<1>8. LateBacked'
  <2> SUFFICES ASSUME NEW w \in late, w.kind = "put"
               PROVE  WriteBacked(w)'
    BY <1>3 DEF LateBacked
  <2>1. w.email \in Emails
    BY <1>1 DEF TypeOK, LateMessage
  <2>2. WriteBacked(w)
    BY DEF IInv, LateBacked
  <2> QED
    BY <1>5, <2>1, <2>2 DEF WriteBacked, AccountsKept
<1> QED
  BY <1>3, <1>4, <1>5, <1>6, <1>7, <1>8, NoRecordStep

-----------------------------------------------------------------------------
(* Writes.                                                                 *)

\* A backed write of a record.
LEMMA WriteRecord ==
    ASSUME IInv, NEW e \in Emails, NEW u \in Usernames,
           accounts[e] # NONE, registrant[e] = u,
           users' = [users EXCEPT ![safeDataBaseKey(e)] = u],
           UNCHANGED <<accounts, registrant, registered>>
    PROVE  /\ users' \in [Keys -> Usernames \cup {NONE}]
           /\ \A k \in Keys : users[k] # NONE => users'[k] # NONE
           /\ users'[safeDataBaseKey(e)] # NONE
           /\ RecordsBacked'
           /\ CompletionTruthful'
<1>1. safeDataBaseKey(e) \in Keys /\ u # NONE
  BY AccountsAssumption DEF Keys
<1>2. users \in [Keys -> Usernames \cup {NONE}]
  BY DEF IInv, TypeOK
<1>3. /\ users' \in [Keys -> Usernames \cup {NONE}]
      /\ users'[safeDataBaseKey(e)] = u
      /\ \A k \in Keys : k # safeDataBaseKey(e) => users'[k] = users[k]
  BY <1>1, <1>2
<1>4. RecordsBacked'
  BY <1>3 DEF IInv, RecordsBacked
<1>5. \A k \in Keys : users[k] # NONE => users'[k] # NONE
  BY <1>1, <1>3
<1>6. \A r \in registered : safeDataBaseKey(r.email) \in Keys
  BY DEF IInv, TypeOK, Keys
<1>7. CompletionTruthful'
  BY <1>5, <1>6 DEF IInv, CompletionTruthful
<1> QED
  BY <1>1, <1>3, <1>4, <1>5, <1>7

\* The write of a device that has not been applied becomes outstanding.
LEMMA CreateUserCallbackInv ==
    ASSUME IInv, NEW d \in Devices, NEW c \in Calls, CreateUserCallback(d, c)
    PROVE  IInv'
<1> DEFINE r == calls[d][c]
           w == [call |-> c, email |-> r.text, username |-> r.username, status |-> "pending"]
<1>1. TypeOK /\ r \in Call /\ r.at = "ok" /\ r.op = "register" /\ Move(d, c, "inserting")
        /\ puts' = [puts EXCEPT ![d] = Append(puts[d], w)]
        /\ UNCHANGED <<accounts, users, currentUser, late, registrant, registered>>
  BY DEF IInv, TypeOK, CreateUserCallback
<1>2. /\ calls' \in [Devices -> [Calls -> Call]]
      /\ \A e \in Devices, b \in Calls :
            calls'[e][b] = IF e = d /\ b = c THEN [r EXCEPT !.at = "inserting"]
                                             ELSE calls[e][b]
      /\ calls'[d][c].at = "inserting"
  BY <1>1, MoveCall DEF Stages
<1>3. w \in Put
  BY <1>1, CallMoves DEF Put
<1>4. puts \in [Devices -> Seq(Put)]
  BY <1>1 DEF TypeOK
<1>5. /\ puts' \in [Devices -> Seq(Put)]
      /\ puts'[d] = Append(puts[d], w)
      /\ \A e \in Devices : e # d => puts'[e] = puts[e]
  BY <1>1, <1>3, <1>4, AppendProperties
<1>6. TypeOK'
  BY <1>1, <1>2, <1>5 DEF TypeOK
<1>7. GrantsBacked'
  BY <1>1, <1>2 DEF IInv, GrantsBacked, GrantBacked
<1>8. WriteBacked(w)
  BY <1>1 DEF IInv, GrantsBacked, GrantBacked, WriteBacked
<1>9. PutsBacked'
  <2> SUFFICES ASSUME NEW e \in Devices, NEW i \in 1..Len(puts'[e])
               PROVE  /\ WriteBacked(puts'[e][i])
                      /\ puts'[e][i].status = "applied" =>
                            users[safeDataBaseKey(puts'[e][i].email)] # NONE
    BY <1>1 DEF PutsBacked, WriteBacked
  <2>1. CASE e # d
    BY <1>5, <2>1 DEF IInv, PutsBacked
  <2>2. CASE e = d
    <3>1. /\ Len(puts'[d]) = Len(puts[d]) + 1
          /\ \A j \in 1..Len(puts[d]) : puts'[d][j] = puts[d][j]
          /\ puts'[d][Len(puts[d]) + 1] = w
      BY <1>3, <1>4, <1>5, AppendProperties
    <3>2. Len(puts[d]) \in Nat
      BY <1>4, LenProperties
    <3>3. i \in 1..Len(puts[d]) \/ i = Len(puts[d]) + 1
      BY <2>2, <3>1, <3>2
    <3>4. CASE i \in 1..Len(puts[d])
      BY <2>2, <3>1, <3>4 DEF IInv, PutsBacked
    <3>5. CASE i = Len(puts[d]) + 1
      BY <1>8, <2>2, <3>1, <3>5
    <3> QED
      BY <3>3, <3>4, <3>5
  <2> QED
    BY <2>1, <2>2
<1> QED
  BY <1>1, <1>6, <1>7, <1>9 DEF IInv, RegistrantsAgree, LateBacked, WriteBacked,
     RecordsBacked, CompletionTruthful

\* Writes that are outstanding after a step are backed if they were before it
\* and the records of those marked as applied are there.
LEMMA PutsStayBacked ==
    ASSUME IInv, UNCHANGED <<accounts, registrant>>,
           \A e \in Devices : \A i \in 1..Len(puts'[e]) : \E j \in 1..Len(puts[e]) :
                /\ puts'[e][i].email = puts[e][j].email
                /\ puts'[e][i].username = puts[e][j].username
                /\ puts'[e][i].status = "applied" =>
                        users'[safeDataBaseKey(puts[e][j].email)] # NONE
    PROVE  PutsBacked'
<1> SUFFICES ASSUME NEW e \in Devices, NEW i \in 1..Len(puts'[e])
             PROVE  /\ WriteBacked(puts'[e][i])
                    /\ puts'[e][i].status = "applied" =>
                            users'[safeDataBaseKey(puts'[e][i].email)] # NONE
  BY DEF PutsBacked, WriteBacked
<1>1. PICK j \in 1..Len(puts[e]) :
        /\ puts'[e][i].email = puts[e][j].email
        /\ puts'[e][i].username = puts[e][j].username
        /\ puts'[e][i].status = "applied" => users'[safeDataBaseKey(puts[e][j].email)] # NONE
  OBVIOUS
<1>2. WriteBacked(puts[e][j])
  BY DEF IInv, PutsBacked
<1> QED
  BY <1>1, <1>2 DEF WriteBacked

\* Marking write i of device d as seen by the server, with the record written
\* if it is marked as applied.
LEMMA MarkPutInv ==
    ASSUME IInv, NEW d \in Devices, NEW i \in 1..Len(puts[d]), NEW t \in {"applied", "denied"},
           puts' = [puts EXCEPT ![d][i].status = t],
           users' \in [Keys -> Usernames \cup {NONE}],
           \A k \in Keys : users[k] # NONE => users'[k] # NONE,
           t = "applied" => users'[safeDataBaseKey(puts[d][i].email)] # NONE,
           RecordsBacked', CompletionTruthful',
           UNCHANGED <<accounts, currentUser, calls, late, registrant, registered>>
    PROVE  IInv'
<1>1. /\ TypeOK /\ puts \in [Devices -> Seq(Put)] /\ puts[d] \in Seq(Put)
      /\ t \in {"pending", "applied", "denied"}
  BY DEF IInv, TypeOK
<1> DEFINE w == [puts[d][i] EXCEPT !.status = t]
           s == [puts[d] EXCEPT ![i] = w]
<1>2. /\ s \in Seq(Put) /\ Len(s) = Len(puts[d])
      /\ \A j \in 1..Len(puts[d]) : s[j] = IF j = i THEN w ELSE puts[d][j]
  <2>1. puts[d][i] \in Put
    BY <1>1, ElementOfSeq
  <2>2. w \in Put
    BY <1>1, <2>1 DEF Put
  <2> HIDE DEF w
  <2> QED
    BY <1>1, <2>2, ExceptSeq
<1>3. puts' = [puts EXCEPT ![d] = s]
  BY <1>1
<1> HIDE DEF s
<1>4. /\ puts' \in [Devices -> Seq(Put)]
      /\ puts'[d] = s
      /\ \A e \in Devices : e # d => puts'[e] = puts[e]
  BY <1>1, <1>2, <1>3
<1>5. TypeOK'
  BY <1>1, <1>4 DEF TypeOK
<1>6. \A e \in Devices : \A j \in 1..Len(puts'[e]) : j \in 1..Len(puts[e])
        /\ puts'[e][j].email = puts[e][j].email
        /\ puts'[e][j].username = puts[e][j].username
        /\ puts'[e][j].status = "applied" =>
                users'[safeDataBaseKey(puts[e][j].email)] # NONE
  <2> SUFFICES ASSUME NEW e \in Devices, NEW j \in 1..Len(puts'[e])
               PROVE  j \in 1..Len(puts[e])
                        /\ puts'[e][j].email = puts[e][j].email
                        /\ puts'[e][j].username = puts[e][j].username
                        /\ puts'[e][j].status = "applied" =>
                                users'[safeDataBaseKey(puts[e][j].email)] # NONE
    OBVIOUS
  <2>1. j \in 1..Len(puts[e])
    BY <1>2, <1>4
  <2>2. puts[e][j] \in Put
    BY <1>1, <2>1, ElementOfSeq
  <2>3. safeDataBaseKey(puts[e][j].email) \in Keys
    BY <2>2 DEF Put, Keys
  <2>4. puts[e][j].status = "applied" => users'[safeDataBaseKey(puts[e][j].email)] # NONE
    BY <2>1, <2>3 DEF IInv, PutsBacked
  <2>5. CASE e = d /\ j = i
    BY <1>2, <1>4, <2>1, <2>2, <2>5 DEF Put
  <2>6. CASE ~(e = d /\ j = i)
    BY <1>2, <1>4, <2>1, <2>4, <2>6
  <2> QED
    BY <2>5, <2>6
<1>7. PutsBacked'
  BY <1>6, PutsStayBacked
<1>8. GrantsBacked' /\ RegistrantsAgree' /\ LateBacked'
  BY DEF IInv, GrantsBacked, GrantBacked, RegistrantsAgree, LateBacked, WriteBacked
<1> QED
  BY <1>5, <1>7, <1>8 DEF IInv

LEMMA ApplyPutInv ==
    ASSUME IInv, NEW d \in Devices, NEW i \in 1..Len(puts[d]), ServerApplyPut(d, i)
    PROVE  IInv'
<1> DEFINE w == puts[d][i]
<1>1. w \in Put
  BY ElementOfSeq DEF IInv, TypeOK
<1>2. w.email \in Emails /\ w.username \in Usernames
  BY <1>1 DEF Put
<1>3. accounts[w.email] # NONE /\ registrant[w.email] = w.username
  BY DEF IInv, PutsBacked, WriteBacked
<1>4. /\ users' \in [Keys -> Usernames \cup {NONE}]
      /\ \A k \in Keys : users[k] # NONE => users'[k] # NONE
      /\ users'[safeDataBaseKey(w.email)] # NONE
      /\ RecordsBacked'
      /\ CompletionTruthful'
  BY <1>2, <1>3, WriteRecord DEF ServerApplyPut
<1> QED
  BY <1>4, MarkPutInv DEF ServerApplyPut

LEMMA DenyPutInv ==
    ASSUME IInv, NEW d \in Devices, NEW i \in 1..Len(puts[d]), ServerDenyPut(d, i)
    PROVE  IInv'
<1>1. /\ users' \in [Keys -> Usernames \cup {NONE}]
      /\ \A k \in Keys : users[k] # NONE => users'[k] # NONE
      /\ RecordsBacked'
      /\ CompletionTruthful'
  BY DEF IInv, TypeOK, RecordsBacked, CompletionTruthful, ServerDenyPut
<1> QED
  BY <1>1, MarkPutInv DEF ServerDenyPut

LEMMA LatePutInv ==
    ASSUME IInv, NEW m \in late, LatePut(m)
    PROVE  IInv'
<1>1. m \in LateMessage /\ m.kind = "put" /\ WriteBacked(m)
  BY DEF IInv, TypeOK, LateBacked, LatePut
<1>2. m.email \in Emails /\ m.username \in Usernames
  BY <1>1 DEF LateMessage
<1>3. /\ users' \in [Keys -> Usernames \cup {NONE}]
      /\ \A k \in Keys : users[k] # NONE => users'[k] # NONE
      /\ RecordsBacked'
      /\ CompletionTruthful'
  BY <1>1, <1>2, WriteRecord DEF LatePut, WriteBacked
<1>4. TypeOK'
  BY <1>3 DEF IInv, TypeOK, LatePut
<1>5. PutsBacked'
  <2> SUFFICES ASSUME NEW d \in Devices, NEW i \in 1..Len(puts[d])
               PROVE  /\ WriteBacked(puts[d][i])'
                      /\ puts[d][i].status = "applied" =>
                            users'[safeDataBaseKey(puts[d][i].email)] # NONE
    BY DEF PutsBacked, LatePut
  <2>1. puts[d][i] \in Put
    BY ElementOfSeq DEF IInv, TypeOK
  <2>2. safeDataBaseKey(puts[d][i].email) \in Keys
    BY <2>1 DEF Put, Keys
  <2> QED
    BY <1>3, <2>2 DEF IInv, PutsBacked, WriteBacked, LatePut
<1>6. GrantsBacked' /\ RegistrantsAgree' /\ LateBacked'
  BY DEF IInv, GrantsBacked, GrantBacked, RegistrantsAgree, LateBacked, WriteBacked, LatePut
<1> QED
  BY <1>3, <1>4, <1>5, <1>6 DEF IInv

\* An acknowledged write leaves the queue and its call ends; if it had been
\* applied, the record its completion vouches for is there.
LEMMA PutAckInv ==
    ASSUME IInv, NEW d \in Devices, PutAck(d)
    PROVE  IInv'
<1> DEFINE w == Head(puts[d])
<1>1. TypeOK /\ puts \in [Devices -> Seq(Put)] /\ puts[d] \in Seq(Put) /\ puts[d] # << >>
  BY DEF IInv, TypeOK, PutAck
<1>2. /\ w \in Put /\ Tail(puts[d]) \in Seq(Put)
      /\ Len(Tail(puts[d])) = Len(puts[d]) - 1
      /\ \A i \in 1..Len(Tail(puts[d])) : Tail(puts[d])[i] = puts[d][i + 1]
  BY <1>1, HeadTailProperties
<1>3. Len(puts[d]) \in Nat /\ Len(puts[d]) # 0 /\ w = puts[d][1]
  BY <1>1, EmptySeq, LenProperties
<1>4. /\ WriteBacked(w)
      /\ w.status = "applied" => users[safeDataBaseKey(w.email)] # NONE
  BY <1>3 DEF IInv, PutsBacked
<1>5. w.call \in Calls /\ w.email \in Emails /\ w.username \in Usernames
  BY <1>2 DEF Put
<1>6. /\ Finish(d, w.call)
      /\ puts' = [puts EXCEPT ![d] = Tail(puts[d])]
      /\ \A r \in registered' : r \in registered \/
            (w.status = "applied" /\ r = [email |-> w.email, username |-> w.username])
      /\ UNCHANGED <<accounts, users, currentUser, late, registrant>>
  BY <1>1 DEF PutAck
<1>7. /\ calls' \in [Devices -> [Calls -> Call]]
      /\ \A e \in Devices, b \in Calls :
            calls'[e][b] = IF e = d /\ b = w.call THEN Idle ELSE calls[e][b]
  BY <1>1, <1>5, <1>6, FinishCall
<1>8. /\ puts' \in [Devices -> Seq(Put)]
      /\ puts'[d] = Tail(puts[d])
      /\ \A e \in Devices : e # d => puts'[e] = puts[e]
  BY <1>1, <1>2, <1>6
<1>9. TypeOK'
  BY <1>1, <1>5, <1>6, <1>7, <1>8 DEF TypeOK
<1>10. GrantsBacked'
  BY <1>6, <1>7 DEF IInv, GrantsBacked, GrantBacked, Idle
<1>11. PutsBacked'
  <2>1. ASSUME NEW e \in Devices, NEW i \in 1..Len(puts'[e])
        PROVE  \E j \in 1..Len(puts[e]) : puts'[e][i] = puts[e][j]
    <3>1. CASE e # d
      BY <1>8, <3>1
    <3>2. CASE e = d
      <4>1. i \in 1..Len(Tail(puts[d])) /\ puts'[e][i] = Tail(puts[d])[i]
        BY <1>8, <3>2
      <4>2. i + 1 \in 1..Len(puts[d]) /\ Tail(puts[d])[i] = puts[d][i + 1]
        BY <1>2, <1>3, <4>1
      <4> QED
        BY <3>2, <4>1, <4>2
    <3> QED
      BY <3>1, <3>2
  <2>2. \A e \in Devices : \A j \in 1..Len(puts[e]) : puts[e][j].status = "applied" =>
            users'[safeDataBaseKey(puts[e][j].email)] # NONE
    BY <1>6 DEF IInv, PutsBacked
  <2>3. \A e \in Devices : \A i \in 1..Len(puts'[e]) : \E j \in 1..Len(puts[e]) :
            /\ puts'[e][i].email = puts[e][j].email
            /\ puts'[e][i].username = puts[e][j].username
            /\ puts'[e][i].status = "applied" =>
                    users'[safeDataBaseKey(puts[e][j].email)] # NONE
    <3> SUFFICES ASSUME NEW e \in Devices, NEW i \in 1..Len(puts'[e])
                 PROVE  \E j \in 1..Len(puts[e]) :
                            /\ puts'[e][i].email = puts[e][j].email
                            /\ puts'[e][i].username = puts[e][j].username
                            /\ puts'[e][i].status = "applied" =>
                                    users'[safeDataBaseKey(puts[e][j].email)] # NONE
      OBVIOUS
    <3>1. PICK j \in 1..Len(puts[e]) : puts'[e][i] = puts[e][j]
      BY <2>1
    <3>2. puts[e][j].status = "applied" =>
            users'[safeDataBaseKey(puts[e][j].email)] # NONE
      BY <2>2
    <3> QED
      BY <3>1, <3>2
  <2> QED
    BY <1>6, <2>3, PutsStayBacked
<1>12. CompletionTruthful'
  BY <1>4, <1>6 DEF IInv, CompletionTruthful, WriteBacked
<1> QED
  BY <1>6, <1>9, <1>10, <1>11, <1>12 DEF IInv, RegistrantsAgree, LateBacked, WriteBacked,
     RecordsBacked

\* A late message that a lost connection or a killed app leaves behind is one
\* of the given ones.
LEMMA StraggleAdds ==
    ASSUME NEW ms, Straggle(ms)
    PROVE  \A m \in late' : m \in late \/ m \in ms
  BY DEF Straggle

\* The writes a device has under way, as messages, are backed writes.
LEMMA UnseenPutsBacked ==
    ASSUME IInv, NEW d \in Devices
    PROVE  \A m \in UnseenPuts(d) : m \in LateMessage /\ m.kind = "put" /\ WriteBacked(m)
<1> SUFFICES ASSUME NEW i \in 1..Len(puts[d])
             PROVE  /\ PutMessage(puts[d][i]) \in LateMessage
                    /\ PutMessage(puts[d][i]).kind = "put"
                    /\ WriteBacked(PutMessage(puts[d][i]))
  BY DEF UnseenPuts
<1>1. puts[d][i] \in Put
  BY ElementOfSeq DEF IInv, TypeOK
<1>2. WriteBacked(puts[d][i])
  BY DEF IInv, PutsBacked
<1> QED
  BY <1>1, <1>2 DEF PutMessage, LateMessage, Put, WriteBacked

LEMMA ConnectionLostInv ==
    ASSUME IInv, NEW d \in Devices, ConnectionLost(d)
    PROVE  IInv'
<1> DEFINE t == [i \in 1..Len(puts[d]) |-> [puts[d][i] EXCEPT !.status = "pending"]]
<1>1. TypeOK /\ puts \in [Devices -> Seq(Put)] /\ puts[d] \in Seq(Put)
        /\ puts' = [puts EXCEPT ![d] = t]
        /\ UNCHANGED <<accounts, users, currentUser, calls, registrant, registered>>
  BY DEF IInv, TypeOK, ConnectionLost
<1>2. t \in Seq(Put) /\ Len(t) = Len(puts[d])
  BY <1>1, MarkAllPuts
<1>3. \A m \in late' : m \in late \/ (m \in LateMessage /\ m.kind = "put" /\ WriteBacked(m))
  BY StraggleAdds, UnseenPutsBacked DEF ConnectionLost
<1>4. /\ puts' \in [Devices -> Seq(Put)]
      /\ puts'[d] = t
      /\ \A e \in Devices : e # d => puts'[e] = puts[e]
  BY <1>1, <1>2
<1>5. TypeOK'
  BY <1>1, <1>3, <1>4 DEF TypeOK
<1>6. PutsBacked'
  <2>0. accounts' = accounts /\ registrant' = registrant /\ users' = users
    BY <1>1
  <2> SUFFICES ASSUME NEW e \in Devices, NEW i \in 1..Len(puts'[e])
               PROVE  /\ WriteBacked(puts'[e][i])
                      /\ puts'[e][i].status = "applied" =>
                            users[safeDataBaseKey(puts'[e][i].email)] # NONE
    BY <2>0 DEF PutsBacked, WriteBacked
  <2>1. CASE e # d
    BY <1>4, <2>1 DEF IInv, PutsBacked
  <2>2. CASE e = d
    <3>1. i \in 1..Len(puts[d])
      BY <1>2, <1>4, <2>2
    <3>2. puts[d][i] \in Put /\ WriteBacked(puts[d][i])
      BY <1>1, <3>1, ElementOfSeq DEF IInv, PutsBacked
    <3>3. puts'[e][i] = [puts[d][i] EXCEPT !.status = "pending"]
      BY <1>4, <2>2, <3>1
    <3> QED
      BY <3>2, <3>3 DEF Put, WriteBacked
  <2> QED
    BY <2>1, <2>2
<1>7. LateBacked'
  BY <1>1, <1>3 DEF IInv, LateBacked, WriteBacked
<1> QED
  BY <1>1, <1>5, <1>6, <1>7 DEF IInv, GrantsBacked, GrantBacked, RegistrantsAgree,
     RecordsBacked, CompletionTruthful

LEMMA RelaunchInv ==
    ASSUME IInv, NEW d \in Devices, Relaunch(d)
    PROVE  IInv'
<1>1. TypeOK /\ puts \in [Devices -> Seq(Put)]
        /\ calls' = [calls EXCEPT ![d] = [c \in Calls |-> Idle]]
        /\ puts' = [puts EXCEPT ![d] = << >>]
        /\ UNCHANGED <<accounts, users, currentUser, registrant, registered>>
  BY DEF IInv, TypeOK, Relaunch
<1>2. \A m \in UnseenCreates(d) : m \in LateMessage /\ m.kind = "create"
  <2> SUFFICES ASSUME NEW c \in Calls, calls[d][c].at = "sent", calls[d][c].op = "register"
               PROVE  /\ CreateMessage(calls[d][c]) \in LateMessage
                      /\ CreateMessage(calls[d][c]).kind = "create"
    BY DEF UnseenCreates
  <2>1. calls[d][c] \in Call
    BY <1>1 DEF TypeOK
  <2> QED
    BY <2>1, CallMoves DEF CreateMessage, LateMessage
<1>3. \A m \in late' : m \in late \/ m \in UnseenCreates(d) \/ m \in UnseenPuts(d)
  BY StraggleAdds DEF Relaunch
<1>4. LateBacked' /\ late' \subseteq LateMessage
  BY <1>1, <1>2, <1>3, UnseenPutsBacked DEF IInv, TypeOK, LateBacked, WriteBacked
<1>5. /\ calls' \in [Devices -> [Calls -> Call]]
      /\ \A e \in Devices, b \in Calls :
            calls'[e][b] = IF e = d THEN Idle ELSE calls[e][b]
  BY <1>1 DEF TypeOK, Call
<1>6. /\ puts' \in [Devices -> Seq(Put)]
      /\ puts'[d] = << >>
      /\ \A e \in Devices : e # d => puts'[e] = puts[e]
  BY <1>1
<1>7. TypeOK'
  BY <1>1, <1>4, <1>5, <1>6 DEF TypeOK
<1>8. GrantsBacked'
  BY <1>1, <1>5 DEF IInv, GrantsBacked, GrantBacked, Idle
<1>9. PutsBacked'
  BY <1>1, <1>6 DEF IInv, PutsBacked, WriteBacked
<1> QED
  BY <1>1, <1>4, <1>7, <1>8, <1>9 DEF IInv, RegistrantsAgree, RecordsBacked,
     CompletionTruthful

-----------------------------------------------------------------------------
(* The theorems.                                                           *)

LEMMA InitInv == Init => IInv
<1> SUFFICES ASSUME Init PROVE IInv
  OBVIOUS
<1>1. TypeOK
  BY DEF Init, TypeOK, Call
<1>2. GrantsBacked /\ RegistrantsAgree /\ PutsBacked /\ LateBacked
  BY DEF Init, GrantsBacked, RegistrantsAgree, PutsBacked, LateBacked, Idle
<1>3. RecordsBacked /\ CompletionTruthful
  BY DEF Init, RecordsBacked, CompletionTruthful
<1> QED
  BY <1>1, <1>2, <1>3 DEF IInv

LEMMA NextInv == IInv /\ [Next]_vars => IInv'
<1> SUFFICES ASSUME IInv, [Next]_vars PROVE IInv'
  OBVIOUS
<1>1. CASE UNCHANGED vars
  BY <1>1 DEF vars, IInv, TypeOK, GrantsBacked, GrantBacked, RegistrantsAgree, PutsBacked,
     WriteBacked, LateBacked, RecordsBacked, CompletionTruthful
<1>2. ASSUME NEW d \in Devices, NEW c \in Calls, CallStep(d, c)
      PROVE  IInv'
  <2>1. CASE ServerCreateUser(d, c)
    BY <2>1, CreateInv
  <2>2. CASE ServerRefuseUser(d, c)
    BY <2>2, RefuseInv
  <2>3. CASE ServerVerify(d, c)
    BY <2>3, VerifyInv
  <2>4. CASE RequestFails(d, c)
    BY <2>4, RequestFailsInv
  <2>5. CASE GrantFails(d, c)
    BY <2>5, GrantFailsInv
  <2>6. CASE UpdateCurrentUser(d, c)
    BY <2>6, UpdateCurrentUserInv
  <2>7. CASE SignInCallback(d, c)
    BY <2>7, FinishInv DEF SignInCallback
  <2>8. CASE CreateUserCallback(d, c)
    BY <2>8, CreateUserCallbackInv
  <2>9. CASE ErrorCallback(d, c)
    BY <2>9, FinishInv DEF ErrorCallback
  <2> QED
    BY <1>2, <2>1, <2>2, <2>3, <2>4, <2>5, <2>6, <2>7, <2>8, <2>9 DEF CallStep
<1>3. ASSUME NEW d \in Devices, NEW c \in Calls, NEW u \in Usernames, NEW e \in Emails,
             NEW p \in Passwords, DidTapRegisterBtn(d, c, u, e, p)
      PROVE  IInv'
  BY <1>3, RegisterTapInv
<1>4. ASSUME NEW d \in Devices, NEW c \in Calls, NEW t \in LoginTexts, NEW p \in Passwords,
             DidTapLoginBtn(d, c, t, p)
      PROVE  IInv'
  BY <1>4, LoginTapInv
<1>5. ASSUME NEW d \in Devices, PutStep(d)
      PROVE  IInv'
  BY <1>5, ApplyPutInv, DenyPutInv, PutAckInv, ConnectionLostInv DEF PutStep
<1>6. ASSUME NEW d \in Devices, Logout(d) \/ Relaunch(d)
      PROVE  IInv'
  BY <1>6, LogoutInv, RelaunchInv
<1>7. ASSUME NEW m \in late, LateCreate(m) \/ LatePut(m)
      PROVE  IInv'
  BY <1>7, LateCreateInv, LatePutInv
<1> QED
  BY <1>1, <1>2, <1>3, <1>4, <1>5, <1>6, <1>7 DEF Next

\* The invariant holds in every state of every behaviour.
THEOREM Invariance == Spec => []IInv
<1> QED
  BY InitInv, NextInv, PTL DEF Spec

\* Every variable of the registration code keeps its type.
THEOREM TypeCorrect == Spec => []TypeOK
<1>1. IInv => TypeOK
  BY DEF IInv
<1> QED
  BY <1>1, Invariance, PTL

\* A record in the database always belongs to the creator of an account with
\* its key, with any number of devices, colliding keys or not.
THEOREM RecordsAlwaysBacked == Spec => []RecordsBacked
<1>1. IInv => RecordsBacked
  BY DEF IInv
<1> QED
  BY <1>1, Invariance, PTL

\* registerNewUser never reports true to a call that did not create the
\* account or before the database holds a record.
THEOREM CompletionsTruthful == Spec => []CompletionTruthful
<1>1. IInv => CompletionTruthful
  BY DEF IInv
<1> QED
  BY <1>1, Invariance, PTL

-----------------------------------------------------------------------------
(* No second insertion.                                                    *)

\* r is a registration of e that still goes on to insert.
CallInserts(r, e) == r.op = "register" /\ r.text = e /\ r.at \in {"granted", "ok"}

NoCallInserts(e) == \A d \in Devices, c \in Calls : ~CallInserts(calls[d][c], e)

NoPutInserts(e) == \A d \in Devices : \A i \in 1..Len(puts[d]) : puts[d][i].email # e

NoLateInserts(e) == \A m \in late : ~(m.kind = "put" /\ m.email = e)

LEMMA InsertUnderWayParts ==
    ASSUME NEW e
    PROVE  ~InsertUnderWay(e) <=> NoCallInserts(e) /\ NoPutInserts(e) /\ NoLateInserts(e)
  BY DEF InsertUnderWay, NoCallInserts, CallInserts, NoPutInserts, NoLateInserts

\* A call gets the server's yes for e only when e has no account.
LEMMA CallsStayOut ==
    ASSUME IInv, Next, NEW e \in Emails, accounts[e] # NONE, NoCallInserts(e)
    PROVE  NoCallInserts(e)'
<1>1. TypeOK /\ calls \in [Devices -> [Calls -> Call]]
  BY DEF IInv, TypeOK
<1>2. ASSUME NEW d \in Devices, NEW c \in Calls, NEW s \in Stages, calls[d][c].at # "idle",
             s = "inserting" => calls[d][c].op = "register", Move(d, c, s),
             s \in {"granted", "ok"} =>
                \/ calls[d][c].op = "login"
                \/ calls[d][c].text # e
                \/ calls[d][c].at \in {"granted", "ok"}
      PROVE  NoCallInserts(e)'
  <2>1. \A f \in Devices, b \in Calls :
            calls'[f][b] = IF f = d /\ b = c THEN [calls[d][c] EXCEPT !.at = s] ELSE calls[f][b]
    BY <1>1, <1>2, MoveCall
  <2>2. calls'[d][c] = [calls[d][c] EXCEPT !.at = s] /\ calls[d][c] \in Call
    BY <1>1, <2>1
  <2>3. /\ calls'[d][c].at = s
        /\ calls'[d][c].text = calls[d][c].text
        /\ calls'[d][c].op = calls[d][c].op
    BY <2>2 DEF Call, Idle
  <2>4. ~CallInserts(calls'[d][c], e)
    BY <1>2, <2>3 DEF NoCallInserts, CallInserts
  <2> QED
    BY <2>1, <2>4 DEF NoCallInserts
<1>3. ASSUME NEW d \in Devices, NEW c \in Calls, Finish(d, c)
      PROVE  NoCallInserts(e)'
  <2>1. \A f \in Devices, b \in Calls :
            calls'[f][b] = IF f = d /\ b = c THEN Idle ELSE calls[f][b]
    BY <1>1, <1>3, FinishCall
  <2>2. ~CallInserts(Idle, e)
    BY DEF CallInserts, Idle
  <2> QED
    BY <2>1, <2>2 DEF NoCallInserts
<1>4. ASSUME NEW d \in Devices, NEW c \in Calls, NEW r, r.at = "sent",
             calls' = [calls EXCEPT ![d][c] = r]
      PROVE  NoCallInserts(e)'
  <2>1. \A f \in Devices, b \in Calls :
            calls'[f][b] = IF f = d /\ b = c THEN r ELSE calls[f][b]
    BY <1>1, <1>4
  <2>2. ~CallInserts(r, e)
    BY <1>4 DEF CallInserts
  <2> QED
    BY <2>1, <2>2 DEF NoCallInserts
<1>5. CASE UNCHANGED calls
  BY <1>5 DEF NoCallInserts
<1>6. ASSUME NEW d \in Devices, NEW c \in Calls, CallStep(d, c)
      PROVE  NoCallInserts(e)'
  <2>1. CASE ServerCreateUser(d, c)
    BY <1>2, <2>1 DEF ServerCreateUser, Stages
  <2>2. CASE ServerRefuseUser(d, c)
    BY <1>2, <2>2 DEF ServerRefuseUser, Stages
  <2>3. CASE ServerVerify(d, c)
    <3>1. PICK s \in {"granted", "refused"} : Move(d, c, s)
      BY <2>3 DEF ServerVerify
    <3> QED
      BY <1>2, <2>3, <3>1 DEF ServerVerify, Stages
  <2>4. CASE RequestFails(d, c)
    BY <1>2, <2>4 DEF RequestFails, Stages
  <2>5. CASE GrantFails(d, c)
    BY <1>2, <2>5 DEF GrantFails, Stages
  <2>6. CASE UpdateCurrentUser(d, c)
    BY <1>2, <2>6 DEF UpdateCurrentUser, Stages
  <2>7. CASE SignInCallback(d, c)
    BY <1>3, <2>7 DEF SignInCallback
  <2>8. CASE CreateUserCallback(d, c)
    BY <1>2, <2>8 DEF CreateUserCallback, Stages
  <2>9. CASE ErrorCallback(d, c)
    BY <1>3, <2>9 DEF ErrorCallback
  <2> QED
    BY <1>6, <2>1, <2>2, <2>3, <2>4, <2>5, <2>6, <2>7, <2>8, <2>9 DEF CallStep
<1>7. ASSUME NEW d \in Devices, NEW c \in Calls, NEW u \in Usernames, NEW f \in Emails,
             NEW p \in Passwords, DidTapRegisterBtn(d, c, u, f, p)
      PROVE  NoCallInserts(e)'
  <2> DEFINE r == [at |-> "sent", op |-> "register", text |-> f, username |-> u,
                   password |-> p]
  <2>1. calls' = [calls EXCEPT ![d][c] = r]
    BY <1>7 DEF DidTapRegisterBtn
  <2>2. r.at = "sent"
    OBVIOUS
  <2> HIDE DEF r
  <2> QED
    BY <1>4, <2>1, <2>2
<1>8. ASSUME NEW d \in Devices, NEW c \in Calls, NEW t \in LoginTexts, NEW p \in Passwords,
             DidTapLoginBtn(d, c, t, p)
      PROVE  NoCallInserts(e)'
  <2> DEFINE r == [at |-> "sent", op |-> "login", text |-> t, username |-> NONE,
                   password |-> p]
  <2>1. calls' = [calls EXCEPT ![d][c] = r]
    BY <1>8 DEF DidTapLoginBtn
  <2>2. r.at = "sent"
    OBVIOUS
  <2> HIDE DEF r
  <2> QED
    BY <1>4, <2>1, <2>2
<1>9. ASSUME NEW d \in Devices, PutStep(d)
      PROVE  NoCallInserts(e)'
  <2>1. CASE PutAck(d)
    <3>1. puts[d] \in Seq(Put) /\ puts[d] # << >> /\ Finish(d, Head(puts[d]).call)
      BY <2>1 DEF PutAck, IInv, TypeOK
    <3>2. Head(puts[d]) \in Put
      BY <3>1, HeadTailProperties
    <3>3. Head(puts[d]).call \in Calls
      BY <3>2 DEF Put
    <3> QED
      BY <1>3, <3>1, <3>3
  <2>2. CASE ~PutAck(d)
    BY <1>5, <1>9, <2>2 DEF PutStep, ServerApplyPut, ServerDenyPut, ConnectionLost
  <2> QED
    BY <2>1, <2>2
<1>10. ASSUME NEW d \in Devices, Relaunch(d)
       PROVE  NoCallInserts(e)'
  <2>1. \A f \in Devices, b \in Calls :
            calls'[f][b] = IF f = d THEN Idle ELSE calls[f][b]
    BY <1>1, <1>10 DEF Relaunch
  <2>2. ~CallInserts(Idle, e)
    BY DEF CallInserts, Idle
  <2> QED
    BY <2>1, <2>2 DEF NoCallInserts
<1>11. ASSUME NEW d \in Devices, Logout(d)
       PROVE  NoCallInserts(e)'
  BY <1>5, <1>11 DEF Logout
<1>12. ASSUME NEW m \in late, LateCreate(m) \/ LatePut(m)
       PROVE  NoCallInserts(e)'
  BY <1>5, <1>12 DEF LateCreate, LatePut
<1> QED
  BY <1>6, <1>7, <1>8, <1>9, <1>10, <1>11, <1>12 DEF Next

\* Only the callback of createUser makes a write.
LEMMA PutsStayOut ==
    ASSUME IInv, Next, NEW e \in Emails, NoCallInserts(e), NoPutInserts(e)
    PROVE  NoPutInserts(e)'
<1>1. puts \in [Devices -> Seq(Put)]
  BY DEF IInv, TypeOK
<1>2. ASSUME NEW d \in Devices, NEW s \in Seq(Put), puts' = [puts EXCEPT ![d] = s],
             \A i \in 1..Len(s) : s[i].email # e
      PROVE  NoPutInserts(e)'
  BY <1>1, <1>2 DEF NoPutInserts
<1>3. CASE UNCHANGED puts
  BY <1>3 DEF NoPutInserts
<1>4. ASSUME NEW d \in Devices, NEW c \in Calls, CallStep(d, c)
      PROVE  NoPutInserts(e)'
  <2>1. CASE CreateUserCallback(d, c)
    <3> DEFINE w == [call |-> c, email |-> calls[d][c].text,
                     username |-> calls[d][c].username, status |-> "pending"]
    <3>1. /\ puts' = [puts EXCEPT ![d] = Append(puts[d], w)]
          /\ calls[d][c] \in Call /\ calls[d][c].at = "ok" /\ calls[d][c].op = "register"
      BY <2>1 DEF CreateUserCallback, IInv, TypeOK
    <3>2. w \in Put /\ w.email # e
      BY <3>1, CallMoves DEF Put, NoCallInserts, CallInserts
    <3>3. puts[d] \in Seq(Put)
      BY <1>1
    <3> HIDE DEF w
    <3>4. /\ Append(puts[d], w) \in Seq(Put)
          /\ \A i \in 1..Len(Append(puts[d], w)) :
                \/ Append(puts[d], w)[i] = w
                \/ i \in 1..Len(puts[d]) /\ Append(puts[d], w)[i] = puts[d][i]
      BY <3>2, <3>3, AppendProperties
    <3>5. \A i \in 1..Len(Append(puts[d], w)) : Append(puts[d], w)[i].email # e
      BY <3>2, <3>4 DEF NoPutInserts
    <3> QED
      BY <1>2, <3>1, <3>4, <3>5
  <2>2. CASE ~CreateUserCallback(d, c)
    BY <1>3, <1>4, <2>2 DEF CallStep, ServerCreateUser, ServerRefuseUser, ServerVerify,
       RequestFails, GrantFails, UpdateCurrentUser, SignInCallback, ErrorCallback
  <2> QED
    BY <2>1, <2>2
<1>5. ASSUME NEW d \in Devices, NEW i \in 1..Len(puts[d]), NEW t \in {"applied", "denied"},
             puts' = [puts EXCEPT ![d][i].status = t]
      PROVE  NoPutInserts(e)'
  <2> DEFINE w == [puts[d][i] EXCEPT !.status = t]
             s == [puts[d] EXCEPT ![i] = w]
  <2>1. puts[d] \in Seq(Put) /\ puts[d][i] \in Put
    BY <1>1, ElementOfSeq
  <2>2. w \in Put /\ w.email = puts[d][i].email
    BY <2>1 DEF Put
  <2>3. puts' = [puts EXCEPT ![d] = s]
    BY <1>1, <1>5
  <2> HIDE DEF w
  <2>4. /\ s \in Seq(Put) /\ Len(s) = Len(puts[d])
        /\ \A j \in 1..Len(puts[d]) : s[j] = IF j = i THEN w ELSE puts[d][j]
    BY <2>1, <2>2, ExceptSeq
  <2>5. \A j \in 1..Len(s) : s[j].email # e
    BY <2>2, <2>4 DEF NoPutInserts
  <2> QED
    BY <1>2, <2>3, <2>4, <2>5
<1>6. ASSUME NEW d \in Devices, PutAck(d)
      PROVE  NoPutInserts(e)'
  <2>1. puts[d] \in Seq(Put) /\ puts[d] # << >> /\ puts' = [puts EXCEPT ![d] = Tail(puts[d])]
    BY <1>1, <1>6 DEF PutAck
  <2>2. /\ Tail(puts[d]) \in Seq(Put) /\ Len(puts[d]) \in Nat
        /\ Len(Tail(puts[d])) = Len(puts[d]) - 1
        /\ \A i \in 1..Len(Tail(puts[d])) : Tail(puts[d])[i] = puts[d][i + 1]
    BY <2>1, HeadTailProperties
  <2>3. \A i \in 1..Len(Tail(puts[d])) : i + 1 \in 1..Len(puts[d])
    BY <2>2
  <2>4. \A i \in 1..Len(Tail(puts[d])) : Tail(puts[d])[i].email # e
    BY <2>2, <2>3 DEF NoPutInserts
  <2> QED
    BY <1>2, <2>1, <2>2, <2>4
<1>7. ASSUME NEW d \in Devices, ConnectionLost(d)
      PROVE  NoPutInserts(e)'
  <2> DEFINE t == [i \in 1..Len(puts[d]) |-> [puts[d][i] EXCEPT !.status = "pending"]]
  <2>1. t \in Seq(Put) /\ Len(t) = Len(puts[d]) /\ puts' = [puts EXCEPT ![d] = t]
    BY <1>1, <1>7, MarkAllPuts DEF ConnectionLost
  <2>2. \A i \in 1..Len(puts[d]) : puts[d][i] \in Put
    BY <1>1, ElementOfSeq
  <2>3. \A i \in 1..Len(t) : t[i].email # e
    BY <2>1, <2>2 DEF NoPutInserts, Put
  <2> QED
    BY <1>2, <2>1, <2>3
<1>8. ASSUME NEW d \in Devices, PutStep(d)
      PROVE  NoPutInserts(e)'
  BY <1>5, <1>6, <1>7, <1>8 DEF PutStep, ServerApplyPut, ServerDenyPut
<1>9. ASSUME NEW d \in Devices, Relaunch(d)
      PROVE  NoPutInserts(e)'
  <2>1. << >> \in Seq(Put) /\ Len(<< >>) = 0 /\ puts' = [puts EXCEPT ![d] = << >>]
    BY <1>9 DEF Relaunch
  <2>2. \A i \in 1..Len(<< >>) : << >>[i].email # e
    BY <2>1
  <2> QED
    BY <1>2, <2>1, <2>2
<1>10. ASSUME NEW d \in Devices, NEW c \in Calls,
              \/ \E u \in Usernames, f \in Emails, p \in Passwords :
                    DidTapRegisterBtn(d, c, u, f, p)
              \/ \E t \in LoginTexts, p \in Passwords : DidTapLoginBtn(d, c, t, p)
       PROVE  NoPutInserts(e)'
  BY <1>3, <1>10 DEF DidTapRegisterBtn, DidTapLoginBtn
<1>11. CASE \/ \E d \in Devices : Logout(d)
            \/ \E m \in late : LateCreate(m) \/ LatePut(m)
  BY <1>3, <1>11 DEF Logout, LateCreate, LatePut
<1> QED
  BY <1>4, <1>8, <1>9, <1>10, <1>11 DEF Next

\* Only an outstanding write leaves a copy behind.
LEMMA LateStaysOut ==
    ASSUME IInv, Next, NEW e \in Emails, NoPutInserts(e), NoLateInserts(e)
    PROVE  NoLateInserts(e)'
<1>1. ASSUME NEW d \in Devices, NEW m \in UnseenPuts(d) PROVE m.email # e
  BY <1>1 DEF UnseenPuts, PutMessage, NoPutInserts
<1>2. ASSUME NEW d \in Devices, NEW c \in Calls PROVE CreateMessage(calls[d][c]).kind # "put"
  BY DEF CreateMessage
<1>3. \/ late' \subseteq late
      \/ \E d \in Devices :
            \/ Straggle(UnseenPuts(d))
            \/ Straggle(UnseenCreates(d) \cup UnseenPuts(d))
            \/ \E c \in Calls : Straggle({CreateMessage(calls[d][c])}) \/ Straggle({})
  <2>1. ASSUME NEW d \in Devices, NEW c \in Calls, CallStep(d, c), ~(late' \subseteq late)
        PROVE  Straggle({CreateMessage(calls[d][c])}) \/ Straggle({})
    BY <2>1 DEF CallStep, ServerCreateUser, ServerRefuseUser, ServerVerify, RequestFails,
       GrantFails, UpdateCurrentUser, SignInCallback, CreateUserCallback, ErrorCallback
  <2>2. ASSUME NEW d \in Devices, PutStep(d), ~(late' \subseteq late)
        PROVE  Straggle(UnseenPuts(d))
    BY <2>2 DEF PutStep, ServerApplyPut, ServerDenyPut, PutAck, ConnectionLost
  <2>3. ASSUME NEW d \in Devices, Logout(d) \/ Relaunch(d), ~(late' \subseteq late)
        PROVE  Straggle(UnseenCreates(d) \cup UnseenPuts(d))
    BY <2>3 DEF Logout, Relaunch
  <2>4. ASSUME NEW d \in Devices, NEW c \in Calls,
               \/ \E u \in Usernames, f \in Emails, p \in Passwords :
                    DidTapRegisterBtn(d, c, u, f, p)
               \/ \E t \in LoginTexts, p \in Passwords : DidTapLoginBtn(d, c, t, p)
        PROVE  late' \subseteq late
    BY <2>4 DEF DidTapRegisterBtn, DidTapLoginBtn
  <2>5. ASSUME NEW m \in late, LateCreate(m) \/ LatePut(m)
        PROVE  late' \subseteq late
    BY <2>5 DEF LateCreate, LatePut
  <2> QED
    BY <2>1, <2>2, <2>3, <2>4, <2>5 DEF Next
<1>4. ASSUME NEW m \in late' PROVE ~(m.kind = "put" /\ m.email = e)
  <2>1. CASE m \in late
    BY <2>1 DEF NoLateInserts
  <2>2. CASE m \notin late
    <3>1. PICK d \in Devices :
            \/ m \in UnseenPuts(d) \/ m \in UnseenCreates(d)
            \/ \E c \in Calls : m = CreateMessage(calls[d][c])
      <4>1. ~(late' \subseteq late)
        BY <1>4, <2>2
      <4>2. PICK d \in Devices :
                \/ Straggle(UnseenPuts(d))
                \/ Straggle(UnseenCreates(d) \cup UnseenPuts(d))
                \/ \E c \in Calls : Straggle({CreateMessage(calls[d][c])}) \/ Straggle({})
        BY <1>3, <4>1
      <4>3. CASE Straggle(UnseenPuts(d))
        BY <1>4, <2>2, <4>3, StraggleAdds
      <4>4. CASE Straggle(UnseenCreates(d) \cup UnseenPuts(d))
        <5>1. m \in UnseenCreates(d) \cup UnseenPuts(d)
          BY <1>4, <2>2, <4>4, StraggleAdds
        <5> QED
          BY <5>1
      <4>5. ASSUME NEW c \in Calls, Straggle({CreateMessage(calls[d][c])})
            PROVE  m = CreateMessage(calls[d][c])
        <5>1. m \in {CreateMessage(calls[d][c])}
          BY <1>4, <2>2, <4>5, StraggleAdds
        <5> QED
          BY <5>1
      <4>6. CASE Straggle({})
        <5>1. m \in {}
          BY <1>4, <2>2, <4>6, StraggleAdds
        <5> QED
          BY <5>1
      <4> QED
        BY <4>2, <4>3, <4>4, <4>5, <4>6
    <3> QED
      BY <1>1, <1>2, <3>1 DEF UnseenCreates
  <2> QED
    BY <2>1, <2>2
<1> QED
  BY <1>4 DEF NoLateInserts

\* An account whose insertion was cut off, by a kill or a lost answer, never gets
\* a record from a later registration: insertNewUser is not reached again.
THEOREM InsertionNotRepeated == Spec => NoSecondInsert
<1>1. IInv /\ [Next]_vars =>
        [\A e \in Emails :
            accounts[e] # NONE /\ ~InsertUnderWay(e) => ~InsertUnderWay(e)']_vars
  <2> SUFFICES ASSUME IInv, Next, NEW e \in Emails, accounts[e] # NONE, ~InsertUnderWay(e)
               PROVE  ~InsertUnderWay(e)'
    OBVIOUS
  <2>1. NoCallInserts(e)' /\ NoPutInserts(e)' /\ NoLateInserts(e)'
    BY InsertUnderWayParts, CallsStayOut, PutsStayOut, LateStaysOut
  <2> QED
    BY <2>1 DEF InsertUnderWay, NoCallInserts, CallInserts, NoPutInserts, NoLateInserts
<1> QED
  BY <1>1, Invariance, PTL DEF Spec, NoSecondInsert

-----------------------------------------------------------------------------
(* The abstract directory, when no two emails share a key.                 *)

\* The steps that touch the two stores: everything else stutters.
LEMMA StoreSteps ==
    ASSUME Next
    PROVE  \/ UNCHANGED <<registrant, users>>
           \/ \E d \in Devices, c \in Calls : ServerCreateUser(d, c)
           \/ \E d \in Devices : \E i \in 1..Len(puts[d]) : ServerApplyPut(d, i)
           \/ \E m \in late : LateCreate(m) \/ LatePut(m)
<1>1. ASSUME NEW d \in Devices, NEW c \in Calls, CallStep(d, c)
      PROVE  UNCHANGED <<registrant, users>> \/ ServerCreateUser(d, c)
  BY <1>1 DEF CallStep, ServerRefuseUser, ServerVerify, RequestFails, GrantFails,
     UpdateCurrentUser, SignInCallback, CreateUserCallback, ErrorCallback
<1>2. ASSUME NEW d \in Devices, PutStep(d)
      PROVE  UNCHANGED <<registrant, users>> \/ \E i \in 1..Len(puts[d]) : ServerApplyPut(d, i)
  BY <1>2 DEF PutStep, ServerDenyPut, PutAck, ConnectionLost
<1>3. ASSUME NEW d \in Devices, Logout(d) \/ Relaunch(d)
      PROVE  UNCHANGED <<registrant, users>>
  BY <1>3 DEF Logout, Relaunch
<1>4. ASSUME NEW d \in Devices, NEW c \in Calls,
             \/ \E u \in Usernames, e \in Emails, p \in Passwords :
                    DidTapRegisterBtn(d, c, u, e, p)
             \/ \E t \in LoginTexts, p \in Passwords : DidTapLoginBtn(d, c, t, p)
      PROVE  UNCHANGED <<registrant, users>>
  BY <1>4 DEF DidTapRegisterBtn, DidTapLoginBtn
<1> QED
  BY <1>1, <1>2, <1>3, <1>4 DEF Next

\* What is stored under an email's key is the username of its own account.
LEMMA OwnRecord ==
    ASSUME IInv, KeysDistinct, NEW e \in Emails, users[safeDataBaseKey(e)] # NONE
    PROVE  users[safeDataBaseKey(e)] = registrant[e]
<1>1. safeDataBaseKey(e) \in Keys
  BY DEF Keys
<1>2. PICK f \in Emails : /\ safeDataBaseKey(f) = safeDataBaseKey(e)
                          /\ registrant[f] = users[safeDataBaseKey(e)]
  BY <1>1 DEF IInv, RecordsBacked
<1>3. f = e
  BY <1>2 DEF KeysDistinct
<1> QED
  BY <1>2, <1>3

\* A backed write publishes the profile or repeats what is there.
LEMMA PublishStep ==
    ASSUME IInv, KeysDistinct, NEW e \in Emails, NEW u \in Usernames,
           accounts[e] # NONE, registrant[e] = u,
           users' = [users EXCEPT ![safeDataBaseKey(e)] = u], UNCHANGED registrant
    PROVE  /\ Directory!Publish(e) \/ UNCHANGED Directory!vars
           /\ \A k \in Keys : users[k] # NONE => users'[k] = users[k]
<1> DEFINE k0 == safeDataBaseKey(e)
           profile == [f \in Emails |-> users[safeDataBaseKey(f)]]
<1>1. users \in [Keys -> Usernames \cup {NONE}] /\ k0 \in Keys /\ u # NONE
  BY AccountsAssumption DEF IInv, TypeOK, Keys
<1>2. /\ users'[k0] = u
      /\ \A k \in Keys : k # k0 => users'[k] = users[k]
  BY <1>1
<1>3. \A f \in Emails : f # e => safeDataBaseKey(f) # k0 /\ safeDataBaseKey(f) \in Keys
  BY DEF KeysDistinct, Keys
<1>4. profile' = [profile EXCEPT ![e] = u]
  BY <1>2, <1>3
<1>5. CASE users[k0] = NONE
  <2>1. registrant[e] # NONE /\ profile[e] = NONE
    BY <1>1, <1>5
  <2>2. Directory!Publish(e)
    BY <1>4, <2>1 DEF Directory!Publish
  <2> QED
    BY <1>2, <1>5, <2>2
<1>6. CASE users[k0] # NONE
  <2>1. users[k0] = u
    BY <1>6, OwnRecord
  <2>2. profile' = profile
    BY <1>2, <1>3, <2>1
  <2>3. UNCHANGED Directory!vars
    BY <2>2 DEF Directory!vars
  <2> QED
    BY <1>2, <2>1, <2>3
<1> QED
  BY <1>5, <1>6

\* Every step maps to a step of the directory or to a stutter, and replaces no
\* record.
LEMMA DirectoryStep ==
    ASSUME IInv, KeysDistinct, [Next]_vars
    PROVE  /\ [Directory!Next]_(Directory!vars)
           /\ \A k \in Keys : users[k] # NONE => users'[k] = users[k]
<1>1. CASE UNCHANGED <<registrant, users>>
  BY <1>1 DEF Directory!vars
<1>2. ASSUME NEW e \in Emails, NEW u \in Usernames, accounts[e] = NONE,
             registrant' = [registrant EXCEPT ![e] = u], UNCHANGED users
      PROVE  Directory!Enroll(e, u)
  <2>1. registrant[e] = NONE
    BY <1>2 DEF IInv, RegistrantsAgree
  <2> QED
    BY <1>2, <2>1 DEF Directory!Enroll
<1>3. ASSUME NEW d \in Devices, NEW c \in Calls, ServerCreateUser(d, c)
      PROVE  (\E e \in Emails, u \in Usernames : Directory!Enroll(e, u)) /\ UNCHANGED users
  <2>1. calls[d][c] \in Call /\ calls[d][c].at = "sent" /\ calls[d][c].op = "register"
    BY <1>3 DEF IInv, TypeOK, ServerCreateUser
  <2>2. calls[d][c].text \in Emails /\ calls[d][c].username \in Usernames
    BY <2>1, CallMoves
  <2> QED
    BY <1>2, <1>3, <2>2 DEF ServerCreateUser
<1>4. ASSUME NEW m \in late, LateCreate(m)
      PROVE  /\ UNCHANGED users
             /\ (\E e \in Emails, u \in Usernames : Directory!Enroll(e, u)) \/ UNCHANGED registrant
  <2>1. m \in LateMessage /\ m.kind = "create"
    BY <1>4 DEF IInv, TypeOK, LateCreate
  <2>2. m.email \in Emails /\ m.username \in Usernames
    BY <2>1 DEF LateMessage
  <2>3. CASE accounts[m.email] = NONE
    BY <1>2, <1>4, <2>2, <2>3 DEF LateCreate
  <2>4. CASE accounts[m.email] # NONE
    BY <1>4, <2>2, <2>4 DEF LateCreate, IInv, TypeOK
  <2> QED
    BY <2>3, <2>4
<1>5. ASSUME NEW d \in Devices, NEW i \in 1..Len(puts[d]), ServerApplyPut(d, i)
      PROVE  /\ (\E e \in Emails : Directory!Publish(e)) \/ UNCHANGED Directory!vars
             /\ \A k \in Keys : users[k] # NONE => users'[k] = users[k]
  <2>1. puts[d][i] \in Put /\ WriteBacked(puts[d][i])
    BY ElementOfSeq DEF IInv, TypeOK, PutsBacked
  <2>2. puts[d][i].email \in Emails /\ puts[d][i].username \in Usernames
    BY <2>1 DEF Put
  <2> QED
    BY <1>5, <2>1, <2>2, PublishStep DEF ServerApplyPut, WriteBacked
<1>6. ASSUME NEW m \in late, LatePut(m)
      PROVE  /\ (\E e \in Emails : Directory!Publish(e)) \/ UNCHANGED Directory!vars
             /\ \A k \in Keys : users[k] # NONE => users'[k] = users[k]
  <2>1. m \in LateMessage /\ m.kind = "put" /\ WriteBacked(m)
    BY <1>6 DEF IInv, TypeOK, LateBacked, LatePut
  <2>2. m.email \in Emails /\ m.username \in Usernames
    BY <2>1 DEF LateMessage
  <2> QED
    BY <1>6, <2>1, <2>2, PublishStep DEF LatePut, WriteBacked
<1>7. CASE Next
  BY <1>1, <1>3, <1>4, <1>5, <1>6, <1>7, StoreSteps DEF Directory!Next, Directory!vars
<1>8. CASE UNCHANGED vars
  BY <1>1, <1>8 DEF vars
<1> QED
  BY <1>7, <1>8

LEMMA DirectoryInit == Init => Directory!Init
<1> SUFFICES ASSUME Init PROVE Directory!Init
  OBVIOUS
<1>1. \A e \in Emails : safeDataBaseKey(e) \in Keys
  BY DEF Keys
<1> QED
  BY <1>1 DEF Init, Directory!Init

\* If no two emails share a key, registration with all its races, losses,
\* resends and restarts implements the directory: one enrolment and at most
\* one publication per email.
THEOREM Refinement ==
    ASSUME KeysDistinct
    PROVE  Spec => DirectorySpec
<1>1. IInv /\ [Next]_vars => [Directory!Next]_(Directory!vars)
  BY DirectoryStep
<1> QED
  BY <1>1, DirectoryInit, Invariance, PTL DEF Spec, DirectorySpec, Directory!Spec

\* If no two emails share a key, insertNewUser never replaces a record.
THEOREM RecordsNeverReplaced ==
    ASSUME KeysDistinct
    PROVE  Spec => RecordsImmutable
<1>1. IInv /\ [Next]_vars =>
        [\A k \in Keys : users[k] # NONE => users'[k] = users[k]]_vars
  BY DirectoryStep
<1> QED
  BY <1>1, Invariance, PTL DEF Spec, RecordsImmutable

-----------------------------------------------------------------------------
(* The database key.                                                       *)

\* The key is as long as the text, character by character.
LEMMA KeyCharacters ==
    ASSUME NEW Characters, NEW s \in Seq(Characters)
    PROVE  /\ Len(safeDataBaseKey(s)) = Len(s)
           /\ \A i \in 1..Len(s) :
                safeDataBaseKey(s)[i] =
                    IF s[i] \in {"@", ".", "$", "#", "[", "]"} THEN "-" ELSE s[i]
<1> QED
    BY DEF safeDataBaseKey

\* An email that passes the sign-up form's check never makes the database
\* client raise: its key is a path string, so insertNewUser can build its path.
THEOREM ValidEmailsHaveLegalKeys ==
    ASSUME NEW Characters, NEW email \in Seq(Characters), isValidEmail(email)
    PROVE  isValidPathString(safeDataBaseKey(email))
<1>1. Len(email) > 0
  <2>1. PICK at, dot \in 1..Len(email) : dot + 2 <= Len(email)
    BY DEF isValidEmail
  <2> QED
    BY <2>1
<1>2. ASSUME NEW i \in 1..Len(email)
      PROVE  safeDataBaseKey(email)[i] \notin {"[", "]", ".", "#", "$"}
  <2>1. CASE email[i] \in {"@", ".", "$", "#", "[", "]"}
    BY <2>1, KeyCharacters
  <2>2. CASE email[i] \notin {"@", ".", "$", "#", "[", "]"}
    BY <2>2, KeyCharacters
  <2> QED
    BY <2>1, <2>2
<1> QED
    BY <1>1, <1>2, KeyCharacters DEF isValidPathString

\* Exactly which accounts share a database key: those whose emails differ only
\* in characters that safeDataBaseKey maps to a dash, or that are one.
THEOREM KeyCollisions ==
    ASSUME NEW Characters, NEW a \in Seq(Characters), NEW b \in Seq(Characters),
           Len(a) = Len(b)
    PROVE  safeDataBaseKey(a) = safeDataBaseKey(b)
            <=> \A i \in 1..Len(a) :
                    \/ a[i] = b[i]
                    \/ {a[i], b[i]} \subseteq {"@", ".", "$", "#", "[", "]", "-"}
<1> DEFINE Dashed == {"@", ".", "$", "#", "[", "]"}
           Dash(x) == IF x \in Dashed THEN "-" ELSE x
           Same(x, y) == x = y \/ {x, y} \subseteq {"@", ".", "$", "#", "[", "]", "-"}
<1>1. ASSUME NEW x, NEW y
      PROVE  Dash(x) = Dash(y) <=> Same(x, y)
  <2>1. CASE x \in Dashed /\ y \in Dashed
    BY <2>1
  <2>2. CASE x \in Dashed /\ y \notin Dashed
    BY <2>2
  <2>3. CASE x \notin Dashed /\ y \in Dashed
    BY <2>3
  <2>4. CASE x \notin Dashed /\ y \notin Dashed
    BY <2>4
  <2> QED
    BY <2>1, <2>2, <2>3, <2>4
<1>2. /\ safeDataBaseKey(a) = [i \in 1..Len(a) |-> Dash(a[i])]
      /\ safeDataBaseKey(b) = [i \in 1..Len(a) |-> Dash(b[i])]
    BY DEF safeDataBaseKey
<1> HIDE DEF Dash
<1>3. safeDataBaseKey(a) = safeDataBaseKey(b)
        <=> \A i \in 1..Len(a) : Dash(a[i]) = Dash(b[i])
    BY <1>2
<1>4. \A i \in 1..Len(a) : Dash(a[i]) = Dash(b[i]) <=> Same(a[i], b[i])
    BY <1>1
<1>5. (\A i \in 1..Len(a) : Dash(a[i]) = Dash(b[i]))
        <=> \A i \in 1..Len(a) : Same(a[i], b[i])
    BY <1>4
<1> QED
    BY <1>3, <1>5

-----------------------------------------------------------------------------
(* The checks of the forms.                                                *)

\* The text begins with a local part and an "@" behind it, at position at.
HasAt(s, at) ==
    /\ at \in 2..Len(s) /\ s[at] = "@"
    /\ \A i \in 1..(at - 1) : s[i] \in LocalPart

\* A domain and a dot are behind that, at position dot, and letters to the end.
HasDot(s, at, dot) ==
    /\ HasAt(s, at)
    /\ dot \in (at + 2)..Len(s) /\ s[dot] = "."
    /\ \A i \in (at + 1)..(dot - 1) : s[i] \in DomainPart
    /\ \A i \in (dot + 1)..Len(s) : s[i] \in Letters

\* What the automaton has read when it can be in each of its states.
ReadLocal(s) == Len(s) > 0 /\ \A i \in 1..Len(s) : s[i] \in LocalPart

ReadAt(s) == HasAt(s, Len(s))

ReadDomain(s) ==
    \E at \in 1..(Len(s) - 1) : HasAt(s, at) /\ \A i \in (at + 1)..Len(s) : s[i] \in DomainPart

ReadDot(s) == \E at \in 1..Len(s) : HasDot(s, at, Len(s))

ReadOne(s) == \E at \in 1..Len(s) : HasDot(s, at, Len(s) - 1)

ReadMany(s) == \E at \in 1..Len(s) : \E dot \in 1..(Len(s) - 2) : HasDot(s, at, dot)

\* The automaton is where the text has taken it.
RunAgrees ==
    /\ text \in Seq(Alphabet)
    /\ emailRun \subseteq {"start", "local", "at", "domain", "dot", "one", "many"}
    /\ "start" \in emailRun <=> Len(text) = 0
    /\ "local" \in emailRun <=> ReadLocal(text)
    /\ "at" \in emailRun <=> ReadAt(text)
    /\ "domain" \in emailRun <=> ReadDomain(text)
    /\ "dot" \in emailRun <=> ReadDot(text)
    /\ "one" \in emailRun <=> ReadOne(text)
    /\ "many" \in emailRun <=> ReadMany(text)

\* What a text becomes when a character is added.
LEMMA CharacterAdds ==
    ASSUME NEW s \in Seq(Alphabet), NEW ch \in Alphabet, NEW t, t = Append(s, ch)
    PROVE  /\ ReadLocal(t) <=> (Len(s) = 0 \/ ReadLocal(s)) /\ ch \in LocalPart
           /\ ReadAt(t) <=> ReadLocal(s) /\ ch = "@"
           /\ ReadDomain(t) <=> (ReadAt(s) \/ ReadDomain(s)) /\ ch \in DomainPart
           /\ ReadDot(t) <=> ReadDomain(s) /\ ch = "."
           /\ ReadOne(t) <=> ReadDot(s) /\ ch \in Letters
           /\ ReadMany(t) <=> (ReadOne(s) \/ ReadMany(s)) /\ ch \in Letters
<1> DEFINE n == Len(s)
<1>1. /\ n \in Nat /\ Len(t) = n + 1
      /\ \A i \in 1..n : t[i] = s[i]
      /\ t[n + 1] = ch
    BY AppendProperties, LenProperties
<1> HIDE DEF n
<1>2. n = Len(s)
    BY DEF n
<1>3. \A at \in 2..n : HasAt(t, at) <=> HasAt(s, at)
    BY <1>1, <1>2 DEF HasAt
<1>4. ReadLocal(t) <=> (Len(s) = 0 \/ ReadLocal(s)) /\ ch \in LocalPart
    BY <1>1, <1>2 DEF ReadLocal
<1>5. ReadAt(t) <=> ReadLocal(s) /\ ch = "@"
    BY <1>1, <1>2 DEF ReadAt, HasAt, ReadLocal
<1>6. ReadDomain(t) <=> (ReadAt(s) \/ ReadDomain(s)) /\ ch \in DomainPart
  <2>1. ASSUME ReadDomain(t) PROVE (ReadAt(s) \/ ReadDomain(s)) /\ ch \in DomainPart
    <3>1. PICK at \in 1..n : HasAt(t, at) /\ \A i \in (at + 1)..(n + 1) : t[i] \in DomainPart
      BY <1>1, <2>1 DEF ReadDomain
    <3>2. HasAt(s, at) /\ at \in 2..n
      BY <1>1, <1>3, <3>1 DEF HasAt
    <3>3. ch \in DomainPart /\ \A i \in (at + 1)..n : s[i] \in DomainPart
      BY <1>1, <3>1
    <3> QED
      BY <1>1, <1>2, <3>2, <3>3 DEF ReadAt, ReadDomain
  <2>2. ASSUME ReadAt(s) \/ ReadDomain(s), ch \in DomainPart PROVE ReadDomain(t)
    <3>1. PICK at \in 2..n : HasAt(s, at) /\ \A i \in (at + 1)..n : s[i] \in DomainPart
      BY <1>1, <1>2, <2>2 DEF ReadAt, ReadDomain, HasAt
    <3>2. HasAt(t, at) /\ \A i \in (at + 1)..(n + 1) : t[i] \in DomainPart
      BY <1>1, <1>3, <2>2, <3>1
    <3> QED
      BY <1>1, <3>1, <3>2 DEF ReadDomain
  <2> QED
    BY <2>1, <2>2
<1>7. ReadDot(t) <=> ReadDomain(s) /\ ch = "."
  <2>1. ASSUME ReadDot(t) PROVE ReadDomain(s) /\ ch = "."
    <3>1. PICK at \in 1..(n + 1) : HasDot(t, at, n + 1)
      BY <1>1, <2>1 DEF ReadDot
    <3>2. HasAt(t, at) /\ at \in 2..(n - 1) /\ ch = "."
      BY <1>1, <3>1 DEF HasDot, HasAt
    <3>3. HasAt(s, at) /\ \A i \in (at + 1)..n : s[i] \in DomainPart
      BY <1>1, <1>3, <3>1, <3>2 DEF HasDot
    <3> QED
      BY <1>1, <1>2, <3>2, <3>3 DEF ReadDomain
  <2>2. ASSUME ReadDomain(s), ch = "." PROVE ReadDot(t)
    <3>1. PICK at \in 1..(n - 1) : HasAt(s, at) /\ \A i \in (at + 1)..n : s[i] \in DomainPart
      BY <1>2, <2>2 DEF ReadDomain
    <3>2. at \in 2..n /\ HasAt(t, at)
      BY <1>1, <1>3, <3>1 DEF HasAt
    <3>3. HasDot(t, at, n + 1)
      BY <1>1, <2>2, <3>1, <3>2 DEF HasDot
    <3> QED
      BY <1>1, <3>1, <3>3 DEF ReadDot
  <2> QED
    BY <2>1, <2>2
<1>8. \A at, dot \in 1..n : HasDot(t, at, dot) <=> HasDot(s, at, dot) /\ ch \in Letters
  <2> SUFFICES ASSUME NEW at \in 1..n, NEW dot \in 1..n
               PROVE  HasDot(t, at, dot) <=> HasDot(s, at, dot) /\ ch \in Letters
    OBVIOUS
  <2>1. HasAt(t, at) <=> HasAt(s, at)
    BY <1>1, <1>2 DEF HasAt
  <2>2. (\A i \in (dot + 1)..(n + 1) : t[i] \in Letters)
            <=> (\A i \in (dot + 1)..n : s[i] \in Letters) /\ ch \in Letters
    BY <1>1
  <2> QED
    BY <1>1, <1>2, <2>1, <2>2 DEF HasDot
<1>9. ReadOne(t) <=> ReadDot(s) /\ ch \in Letters
  <2>1. ReadOne(t) <=> \E at \in 1..n : n \in 1..n /\ HasDot(t, at, n)
    BY <1>1 DEF ReadOne, HasDot
  <2>2. ReadDot(s) <=> \E at \in 1..n : n \in 1..n /\ HasDot(s, at, n)
    BY <1>1, <1>2 DEF ReadDot, HasDot
  <2> QED
    BY <1>8, <2>1, <2>2
<1>10. ReadMany(t) <=> (ReadOne(s) \/ ReadMany(s)) /\ ch \in Letters
  <2>1. ReadMany(t) <=> \E at \in 1..n : \E dot \in 1..(n - 1) : HasDot(t, at, dot)
    BY <1>1 DEF ReadMany, HasDot
  <2>2. ReadOne(s) \/ ReadMany(s) <=> \E at \in 1..n : \E dot \in 1..(n - 1) : HasDot(s, at, dot)
    <3>1. ReadOne(s) <=> \E at \in 1..n : n - 1 \in 1..n /\ HasDot(s, at, n - 1)
      BY <1>1, <1>2 DEF ReadOne, HasDot
    <3>2. ReadMany(s) <=> \E at \in 1..n : \E dot \in 1..(n - 2) : HasDot(s, at, dot)
      BY <1>2 DEF ReadMany
    <3>3. \A dot : dot \in 1..(n - 1) <=> dot \in 1..(n - 2) \/ (dot = n - 1 /\ n - 1 \in 1..n)
      BY <1>1
    <3> QED
      BY <3>1, <3>2, <3>3
  <2> QED
    BY <1>1, <1>8, <2>1, <2>2
<1> QED
    BY <1>4, <1>5, <1>6, <1>7, <1>9, <1>10

\* A character takes the automaton on as it takes on the text.
LEMMA RunAgreesKept == ASSUME RunAgrees, [TextNext]_textVars PROVE RunAgrees'
<1>1. CASE UNCHANGED textVars
    BY <1>1 DEF RunAgrees, textVars, ReadLocal, ReadAt, ReadDomain, ReadDot, ReadOne, ReadMany
<1>2. ASSUME NEW ch \in Alphabet, TypeCharacter(ch) PROVE RunAgrees'
  <2>1. /\ text \in Seq(Alphabet) /\ text' = Append(text, ch)
        /\ emailRun' = UNION {Read(q, ch) : q \in emailRun}
    BY <1>2 DEF RunAgrees, TypeCharacter
  <2>2. text' \in Seq(Alphabet) /\ Len(text') # 0
    BY <2>1, AppendProperties, LenProperties
  <2>3. /\ emailRun' \subseteq {"local", "at", "domain", "dot", "one", "many"}
        /\ "local" \in emailRun' <=>
                ("start" \in emailRun \/ "local" \in emailRun) /\ ch \in LocalPart
        /\ "at" \in emailRun' <=> "local" \in emailRun /\ ch = "@"
        /\ "domain" \in emailRun' <=>
                ("at" \in emailRun \/ "domain" \in emailRun) /\ ch \in DomainPart
        /\ "dot" \in emailRun' <=> "domain" \in emailRun /\ ch = "."
        /\ "one" \in emailRun' <=> "dot" \in emailRun /\ ch \in Letters
        /\ "many" \in emailRun' <=>
                ("one" \in emailRun \/ "many" \in emailRun) /\ ch \in Letters
    <3>1. emailRun \subseteq {"start", "local", "at", "domain", "dot", "one", "many"}
      BY DEF RunAgrees
    <3>2. /\ Read("start", ch) = {q \in {"local"} : ch \in LocalPart}
          /\ Read("local", ch) = {q \in {"local"} : ch \in LocalPart} \cup {q \in {"at"} : ch = "@"}
          /\ Read("at", ch) = {q \in {"domain"} : ch \in DomainPart}
          /\ Read("domain", ch) =
                {q \in {"domain"} : ch \in DomainPart} \cup {q \in {"dot"} : ch = "."}
          /\ Read("dot", ch) = {q \in {"one"} : ch \in Letters}
          /\ Read("one", ch) = {q \in {"many"} : ch \in Letters}
          /\ Read("many", ch) = {q \in {"many"} : ch \in Letters}
      BY DEF Read
    <3>3. \A p : p \in emailRun' <=> \E q \in emailRun : p \in Read(q, ch)
      BY <2>1
    <3> QED
      BY <3>1, <3>2, <3>3
  <2>4. /\ ReadLocal(text') <=> (Len(text) = 0 \/ ReadLocal(text)) /\ ch \in LocalPart
        /\ ReadAt(text') <=> ReadLocal(text) /\ ch = "@"
        /\ ReadDomain(text') <=> (ReadAt(text) \/ ReadDomain(text)) /\ ch \in DomainPart
        /\ ReadDot(text') <=> ReadDomain(text) /\ ch = "."
        /\ ReadOne(text') <=> ReadDot(text) /\ ch \in Letters
        /\ ReadMany(text') <=> (ReadOne(text) \/ ReadMany(text)) /\ ch \in Letters
    BY <2>1, CharacterAdds
  <2>5. /\ "start" \in emailRun <=> Len(text) = 0
        /\ "local" \in emailRun <=> ReadLocal(text)
        /\ "at" \in emailRun <=> ReadAt(text)
        /\ "domain" \in emailRun <=> ReadDomain(text)
        /\ "dot" \in emailRun <=> ReadDot(text)
        /\ "one" \in emailRun <=> ReadOne(text)
        /\ "many" \in emailRun <=> ReadMany(text)
    BY DEF RunAgrees
  <2>6. /\ ("start" \in emailRun' <=> Len(text') = 0)
        /\ ("local" \in emailRun' <=> ReadLocal(text'))
        /\ ("at" \in emailRun' <=> ReadAt(text'))
        /\ ("domain" \in emailRun' <=> ReadDomain(text'))
        /\ ("dot" \in emailRun' <=> ReadDot(text'))
        /\ ("one" \in emailRun' <=> ReadOne(text'))
        /\ ("many" \in emailRun' <=> ReadMany(text'))
    BY <2>2, <2>3, <2>4, <2>5
  <2>7. /\ RunAgrees' <=> /\ text' \in Seq(Alphabet)
           /\ emailRun' \subseteq {"start", "local", "at", "domain", "dot", "one", "many"}
           /\ ("start" \in emailRun' <=> Len(text') = 0)
           /\ ("local" \in emailRun' <=> ReadLocal(text'))
           /\ ("at" \in emailRun' <=> ReadAt(text'))
           /\ ("domain" \in emailRun' <=> ReadDomain(text'))
           /\ ("dot" \in emailRun' <=> ReadDot(text'))
           /\ ("one" \in emailRun' <=> ReadOne(text'))
           /\ ("many" \in emailRun' <=> ReadMany(text'))
    BY DEF RunAgrees, ReadLocal, ReadAt, ReadDomain, ReadDot, ReadOne, ReadMany, HasAt, HasDot
  <2> QED
    BY <2>2, <2>3, <2>6, <2>7
<1> QED
    BY <1>1, <1>2 DEF TextNext

LEMMA RunAlwaysAgrees == TextSpec => []RunAgrees
<1>1. TextInit => RunAgrees
    BY DEF TextInit, RunAgrees, ReadLocal, ReadAt, ReadDomain, ReadDot, ReadOne, ReadMany,
        HasAt, HasDot
<1> QED
    BY <1>1, RunAgreesKept, PTL DEF TextSpec

\* isValidEmail accepts what its regular expression accepts, for texts of any length
\* over any characters.
THEOREM EmailAlwaysAgrees == TextSpec => []EmailAgreesWithAutomaton
<1>1. ASSUME RunAgrees PROVE EmailAgreesWithAutomaton
  <2>1. Len(text) \in Nat /\ ("many" \in emailRun <=> ReadMany(text))
    BY <1>1, LenProperties DEF RunAgrees
  <2>2. \A at, dot \in 1..Len(text) :
            HasDot(text, at, dot) <=>
                /\ 1 < at /\ at + 1 < dot
                /\ text[at] = "@" /\ text[dot] = "."
                /\ \A i \in 1..(at - 1) : text[i] \in LocalPart
                /\ \A i \in (at + 1)..(dot - 1) : text[i] \in DomainPart
                /\ \A i \in (dot + 1)..Len(text) : text[i] \in Letters
    BY <2>1 DEF HasDot, HasAt
  <2>3. isValidEmail(text) <=>
            \E at, dot \in 1..Len(text) : dot + 2 <= Len(text) /\ HasDot(text, at, dot)
    BY <2>2 DEF isValidEmail
  <2>4. \A dot : dot \in 1..(Len(text) - 2) <=> dot \in 1..Len(text) /\ dot + 2 <= Len(text)
    BY <2>1
  <2>5. ReadMany(text) <=> isValidEmail(text)
    BY <2>3, <2>4 DEF ReadMany
  <2> QED
    BY <2>1, <2>5 DEF EmailAgreesWithAutomaton
<1> QED
    BY <1>1, RunAlwaysAgrees, PTL

\* Whatever is typed, the sign-up check lets no text through whose record would
\* have an illegal path.
THEOREM ValidTextHasLegalKey == TextSpec => []ValidEmailHasLegalKey
<1>1. RunAgrees => ValidEmailHasLegalKey
    BY ValidEmailsHaveLegalKeys DEF RunAgrees, ValidEmailHasLegalKey
<1> QED
    BY <1>1, RunAlwaysAgrees, PTL
=============================================================================
