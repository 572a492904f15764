# InstaGLAM in TLA+

InstaGLAM is an iOS clone of Instagram: UIKit view controllers over Firebase
Authentication and the Firebase Realtime Database, whose client libraries are
in the repository under `Pods/`. These modules model the parts of the app that
keep state and the two library components with the hardest state of their own,
`PROJECT.json` ties every definition to the lines it stands for, and the proofs
hold for every value of the constants.

Paths below are relative to `src/InstaGLAM/InstaGLAM/`, and those that start
with `Pods/` to `src/InstaGLAM/`.

## Inventory

| Component | State | Operations | Interacts with | What makes it correct |
|---|---|---|---|---|
| `FirebaseManager/AuthManager` | none of its own; the SDK's `currentUser` (in the keychain), calls under way | `registerNewUser`, `loginUser`, `logout` | called by the onboarding forms and Settings; calls the SDK and `DatabaseManager`; answers in callbacks | every call answers; `true` only for what happened; the account and its record agree |
| `FirebaseManager/DatabaseManager` | the client's outstanding writes, the database | `canCreateNewUser`, `insertNewUser` | called between two steps of a registration | one record per account, never replaced |
| `Helpers/String+Extension`, form checks | none | `isValidEmail`, `isValidPassword`, `safeDataBaseKey`, `validateFields`, `validateTextFields` | the forms, the record's path | the expressions mean what they say; a valid email has a legal key |
| Session: Home's gate, Login, Sign-up, Settings | what is presented, selected and pushed; `currentUser` | `handleAuthentication`, the buttons of the forms, `didTapLogOut`, `presentLogIn` | callbacks of `AuthManager` arrive on the main queue at any time | no tab without a user, one Login screen, late answers harm nothing |
| `ExploreViewController`, search mode | Cancel item, dimmed view, search tabs, two animations | `searchBarTextDidBeginEditing`, `didCancelSearch`, their completions | animation callbacks against taps | the user can always leave search; it settles in one mode |
| `HomeViewController`, feed | render models, the cells on screen, a sheet or an alert | data source, options sheet, like/comment/send | `UITableView` asks for rows by section | the screen is a piece of the feed: its rows in order, each with its part, height and gap |
| `ListViewController`, `NotificationViewController`, three cells | models, recycled cells, PostDetails pushed | `configure`, `prepareForReuse`, taps | `UITableView` recycles cells | a cell shows and passes on its own row only |
| `EditProfileViewController`, `FormTableViewCell` | recycled text fields | `configureCell`, `prepareForReuse`, Return, Save, Cancel | as above | a text stays on its own field |
| `ProfileViewController` | constant | builds the lists, opens Settings and Edit Profile | Session, the lists | covered there |
| `Pods/FirebaseDatabase`: `FPersistentConnection`, `FIRRetryHelper`, `FConnection` | connection state, interruptions, token and retry, outstanding writes and listens, held answers | `open`, `goOffline`, `putInternal`, `listen`, `onDisconnect`, purge, the callbacks of token fetch, handshake, answers and loss | insertNewUser writes through it; the network and the server answer, refuse and drop | a write is sent in order until it is decided, and decided once; a client that may connect goes on trying |
| `Pods/leveldb-library`: `DBImpl`, `VersionSet`, log reader and writer | logs, tables, manifest, memtables, version, writer queue, background thread | `Write`, flush, compaction, reads, `DB::Open`, close | threads under one mutex, files, crashes | an acknowledged write survives what it was promised to survive; a needed file is never deleted |
| `PostDetailsViewController`, feed cells, `StorageManager`, stubs, delegates, layout | constant or none | | | not modelled, see below |

The hard behaviours: a registration is two writes to two servers without a
transaction, over a network that loses, delays and resends, from an app that can
be killed; no button is disabled while a call is under way, so calls overlap;
answers come back to screens that may have changed; and every list shows its
rows in cells that were other rows before. Below the app, the database client
restores its state over connections that come and go in any phase, and the
storage library runs writers, readers and a background thread over files that
must make sense after a crash at any step. `PROJECT.json` lists each hazard at
its line with the properties that watch it.

## Modules

| Module | Models |
|---|---|
| `StringExtension` | the checks and the key conversion, as operators on sequences of characters |
| `MCStringExtension` | a text field in which every short text is typed, with the automaton of the email's expression to compare with |
| `UserDirectory` | abstract: an email is enrolled once, then its profile is published at most once |
| `Accounts` (extends `StringExtension`) | registration, login and logout on several devices, the client, both servers |
| `AccountsProofs` | inductive invariant and theorems of `Accounts`; what the form checks and `safeDataBaseKey` promise for texts of any length |
| `MCAccounts` | emails, usernames and passwords as real texts |
| `Session`, `SessionProofs` | what one device shows, with answers arriving at any time |
| `ExploreSearch` | the search mode |
| `App` (extends `Session`, `ExploreSearch`), `ExploreSearchProofs` | one device: the session with the search mode in its second tab; proofs of both |
| `HomeFeed`, `MCHomeFeed`, `HomeFeedProofs` | the feed's data source and scrolling |
| `TableView` | external: a table's window of rows and its reuse queues |
| `FollowLists` (extends `TableView`), `MCFollowLists`, `FollowListsProofs` | both lists with a follow button |
| `EditProfile` (extends `TableView`), `MCEditProfile`, `EditProfileProofs` | the form |
| `WriteQueue` | abstract: writes wait in one queue, are decided in order and answered once, and may travel twice |
| `DatabaseClient`, `DatabaseClientProofs` | the database client's connection; refines `WriteQueue` |
| `LevelDB`, `LevelDBProofs` | the storage library |

### Accounts

A call is one tap. `calls[d][c].at` says how far it is: `sent` (the request of
`Auth.createUser` or `signIn`), `granted` (the server's yes, before the SDK's
work queue runs `updateCurrentUser`), `ok` (the callback is due on the main
queue), `inserting` (`insertNewUser`'s write is outstanding), `refused` and
`failed` (an error callback is due). `accounts` and `users` are the two servers,
`puts` the client's queue of outstanding writes, `late` the messages whose
sender gave up or was killed. `registrant` and `registered` are history.
`Relaunch` drops calls and writes, which live in memory, and keeps
`currentUser`, which lives in the keychain.

External, and assumed: the authentication server has one account per email and
answers each request at most once; the database client sends writes in order
and sends unacknowledged ones again on a new connection, while those of the old
connection may still arrive; the server's rules may deny a write. Emails are
compared exactly: that the server ignores case is not modelled.

### Session

`modals` is the chain of presented controllers, `calls` are login and
registration calls with `shown` saying whether the Login screen that made them
is still up. UIKit is external; the model keeps that `present` does nothing
from a covered or off-screen controller, that `dismiss` on a presenter closes
what is above it, and that the user cannot tap during a transition. A block
that `didTapLogOut` puts on the main queue runs before the next tap. The two
hops of an answer to the main queue are one step. The Terms and Privacy buttons
of Sign-up have no target in the code and no action here.

That `LoginCompletion` dismisses and alerts only while its Login is shown is
UIKit's rule, written as its guard. `AnswersKeepToLogin` and
`LoginLeavesSignedIn` ask what follows for the screens, where Login may be
another one than the call's, over other tabs and after a log-out.

### ExploreSearch

`beginning` and `cancelling` count animations under way; a completion comes any
time later, with `done` either way. If search is cancelled while the begin
animation runs, the search tabs can stay behind, and if it is begun again while
the cancel animation runs, the dimmed view can go. Nothing in the
repository says what should happen then, so `SettlesInOneMode` leaves such a
rushed last tap out (`rushed`) and `NeverTrapped` does not.

### App

`Main.storyboard` makes one controller per tab and the tab bar keeps all five,
so a search begun by one user is still there for the next one, and its
animations and keyboard go on behind other tabs and behind Login. `App` has both
states side by side: a step is one of `Session`, a tap on Explore, which needs
its tab selected and nothing presented over it, a callback of Explore's, or a
relaunch, the only step of both.

### HomeFeed

`shown` is what the table has asked for, row by row; `position`,
`numberOfRowsInSection`, `cellForRowAt` and the two heights are the data source.
The render models of the code always have the type their place asks for, so
the fallback cell is never made. `cellForRowAt` looks a model up for its type
alone: headers and photos are given the controller's one `newPost`
(`HomeViewController.swift:159`, 174), comment cells (199 to 202) nothing. So
which post a cell shows is no property: every header and photo shows the same
one, and only the kinds of rows, their number and their places tell the posts of
the feed apart. `GapBelow` adds up the footers before the next
row, which includes that of a section without rows: a post without comments
still ends in a gap. `PostRows` is a post as its reader sees it, written without
sections; `ScreenIsPieceOfFeed` compares the screen with it.

### TableView, FollowLists, EditProfile

`TableView` keeps the window `first..last`, the row of each cell and the
identifier it was made with. A row that enters takes any queued cell of its
identifier, or a new one only if there is none. `FollowLists` adds what each
cell shows (`look`): `cellForRowAt` is `prepareForReuse` and then `configure`.
Texts and models are named by their row, so that a leak is visible even where
the mock data repeats itself. `EditProfile` adds the text of each field. The
table does not recycle the cell being edited.

### WriteQueue and DatabaseClient

Every handler of `FPersistentConnection` runs on one dispatch queue, so each is
one action. `connectionState`, `interruptReasons`, `scheduledRetry`,
`unackedListensCount` and the rest are its fields; `realtime` is its
`FConnection`, `wire` the requests of that connection whose callback is still in
`requestCBHash`. The handshake is one action, as is all of `restoreState`. The
network and the server are external: answers come in order, a connection may go
at any time, writes on it may still arrive (`late`), the server may refuse a
token, a write, a transaction or a listen. `Transactions` are the writes that
carry a hash, which a lost connection withdraws where a plain write is sent
again.

`WriteQueue` is what is left when connecting is forgotten: a queue of writes in
the order of their numbers, each with the server's decision on its way or still
pending. `QueueSpec` maps the outstanding writes to it (`Undecided`), with the
decision an answer on the wire carries; what travels (`Travelling`) is what dead
connections may still deliver and what was sent of writes since given up; an
outcome (`Outcomes`) is that of a block called or of an answer held back.
`Accounts` uses the client in that form: its actions on `puts` and `late` (apply
or deny in order, acknowledge the oldest, lose the connection and send again)
are `WriteQueue`'s, per device and with what a write stores.

What the model shows of the code, and no doc rules out: a listen made while
authenticating is sent twice, once at once and once by the restoring; a client
whose socket opens without the server's hello stays connecting; a token fetched
for a user who signs out meanwhile overwrites the `nil` that `refreshAuthToken`
has stored (`FPersistentConnection.m:509`); a foreground event replaces a
scheduled retry, and with it the forced token refresh; answers held back for a
listen that a lost connection ends wait for the next listen; onDisconnect
operations lost with the connection are not sent again; nothing takes the
server's kill back. The app itself makes no listens and no transactions.

### LevelDB

One action per stretch of code between two releases of the mutex: the first
writer's switch of memtables, its append, its sync, and its insertion and
hand-over; the flush's build, manifest record and installation; the same of
a compaction, in which a flush may nest; `DB::Open` log by log. A write has a key
of its own, so merging tables drops nothing; levels above 0 are one level; a
compaction takes a table that overlaps none or all of them; a log becomes one
table. `logs` with `synced`, `tables` and `manifest` are the disk: a process
crash keeps all of it, a machine crash the synced part of each log. The
directory entry of a file is taken to be durable once the file is synced.

Logs and manifest are written by the same `log::Writer`, which counts a record
as written even if its append fails (`log_writer.cc:106`). The failure leaves
part of the record or nothing, and in both cases what is appended next is not
where the reader's blocks have it. A record of a log is therefore `whole` or
not; a reader is sure of those before the first that is not (`ReadLog`), and may
find any of the others (`MayBeFound`). The manifest's `end` is `whole`, `torn`
after a failed append, or `damaged` once there is a record behind the
failure that no reader gets to. A failed sync leaves the record there. A torn
end is passed over by `Recover`, and `DB::Open` then writes a manifest of its
own. A damaged one does not open (`OpenFails`), or opens in an older state whose
files are gone; the model does not follow it further.

The app enables neither the client's persistence nor Firestore's; the library
comes with the pods. It is modelled because the pods rest on it and its
hazards are of the kind tests reach least.

## What the runs show

| Run | Instance | Shows |
|---|---|---|
| `text_checks` | texts up to 8 characters over a letter, a digit, `.` and `@` | the email check equals the automaton of its expression, and a valid email has a legal key |
| `accounts_distinct` | 2 devices, 2 emails with distinct keys, 2 usernames, 1 late message | `RecordsBacked`, `CompletionTruthful`, `NoSecondInsert`, `RecordsImmutable`, and that `Accounts` implements `UserDirectory` |
| `accounts_live` | 1 device, 2 calls | `CallsComplete` under `Fairness`, and no deadlock |
| `app` | 2 calls, 3 animations of each kind | the gate, one Login screen, a fresh app behind it; late answers touch no screen but Login, which goes only with a user; a signed-out user sees Login; search can always be left and settles |
| `home_feed` | 6 posts with 6 comments, 4 rows on screen | the screen is a piece of the feed, row by row |
| `lists` | 6 notifications, 2 full rows on screen, 4 cells of two kinds | recycled cells show and pass on their own row |
| `edit_profile` | 7 fields, 2 full rows on screen, 3 cells | texts stay on their fields, and Return reports the text it shows |
| `client` | 2 writes, the second a transaction, 1 listen, 1 onDisconnect operation, 1 fault | the assertions of the handlers, no stranded client, an interruption that holds, nothing left unsent once connected, the listen count, one answer per write, `WriteQueue`, and that every write is decided |
| `leveldb` | 3 writes, the second with sync, 1 write per memtable, 1 reader, and 2 faults, 2 crashes or one of each | acknowledged writes survive the process, synced ones the machine, but for the two failures named below; reads find them; needed files and fresh numbers; every write returns |

The bounds suffice because: a race needs two devices and two emails, a second
device is like a third; one late message is what separates "gave up" from "never
happened", and more of them commute; a text of eight characters is longer than
the shortest email by two; recycling needs one more row than cells, and six rows
give each cell two rounds. For the client, two writes are what an order needs,
one of each kind of request what a restoring needs, and one loss brings it back
to where it started, with copies on their way. For the storage library, three
writes fill two memtables while a third waits, the level-0 limit of two makes it
wait for a compaction; a second crash meets the files of a recovery, and a
second fault what the first left behind. `MaxLate`, `MaxAnimations`, `Screen`,
`MaxLength`, `MaxPuts`, `MaxWire`, `MaxStale`, `MaxFaults`, `MaxWrites`,
`MaxCrashes`, `MaxTroubles` (faults and crashes together), `MaxReaders` and the
sets of calls are the only bounds; the proofs hold for all values of those in
their modules.

Runs that must fail, each a disagreement with what the code says of itself:

* `accounts_overwrite`: two emails with one key; the second registration
  rewrites the first user's record.
* `leveldb_append`: `AddRecord` fails, no `bg_error_` is set, and later writes
  are acknowledged behind the torn record, or behind the gap the writer counts
  as a record, where a recovery passes over them; `include/leveldb/options.h:174`
  promises them to survive the process. `ProcessMayDie` and `MachineMayDie` in
  `leveldb` leave those writes out (`BehindTorn`). They also claim nothing of a
  damaged manifest: if the record of a flush nested in a compaction fails
  (`version_set.cc:849`), the compaction does not look at `bg_error_`
  (`db_impl.cc:912`, 1028) and writes its own record behind the failure, and the
  database may not open again.
* `client_held`: a write is answered while a listen is awaited, so its block is
  kept in `putsToAck`; the connection is lost, which resets
  `unackedListensCount` (`FPersistentConnection.m:374`) and keeps `putsToAck`;
  the query is given up before the connection is back. No listen's answer is
  awaited any more, and only such an answer calls `ackPuts`: a block that
  `FIRDatabaseReference.h:100` promises to call after the write has been
  committed is never called. One write, one query and one loss show it;
  `WritesDecided` in `client` says of a write only that it leaves
  `outstandingPuts`. A write answered meanwhile is reported before the held
  ones, which is why `WriteQueue` speaks of the order of decisions, never of
  reports.

What one line of code shows has no run: "Username or Email" on the Login screen
takes only the email (`didTapLoginBtn` passes the same text as both), Cancel in
a post's options reports the post and Report Post does nothing, Follow and
Unfollow only print, Save in Edit Profile stores nothing, and
`canCreateNewUser` says yes to everything, though `DatabaseManager.swift:18` and
`AuthManager.swift:23` promise a check. More that the models show and no doc
rules out: a login that succeeds while something is presented over Login leaves
Login up with a user signed in, until another login succeeds or the app is
started again; the late answer to a login tapped twice, arriving after a
log-out, signs the device in again; a recycled Like cell has no thumbnail where
a new one shows the placeholder; and a text scrolled off the form is lost.

## Fairness

`Accounts!Fairness`: a request to the authentication server ends, if only in the
SDK's timeout, and the work and main queues are served, hence weak fairness of
each call's steps; the database server treats a write it is sent; strong
fairness of `PutAck`, because the client resends after each loss and only a
connection that lasts long enough again and again gets an acknowledgement back.
Without that last assumption a registration on a device that stays offline
never completes, which is how the code behaves. `App!AppFairSpec` (and
`Session!FairSpec`): the main queue and each call's steps; Explore's animations
need none. `DatabaseClient!Fairness`: `open` is called, the
dispatch queue runs what was scheduled (retry, callbacks), a connection under
way completes its handshake unless it is lost, the server decides requests and
answers arrive; each is weak, and losses are bounded by `MaxFaults`, so that a
connection finally lasts. Without a lasting one a write waits for ever, as it
does in the code. `LevelDB!FairSpec`: the first writer's thread and the
background thread run. Nothing is assumed of users, servers' decisions, crashes
or restarts.

## What is proved

`tlapm` checks these for all values of the constants (assumptions are the
`ASSUME`s of the modules).

* `AccountsProofs`. `IInv` adds to the properties what a step needs: a call that
  holds the server's yes, a write in the queue and a write still travelling all
  belong to an account created under their username, and a write that was
  applied left a record. Without these, an applied write could publish a
  username nobody enrolled. From it: `TypeCorrect`, `RecordsAlwaysBacked`,
  `CompletionsTruthful`; and, from `KeysDistinct`, `Refinement` (each step is a
  step of `UserDirectory` or a stutter) and `RecordsNeverReplaced`.
  `KeysDistinct` is needed: `accounts_overwrite` is its failure.
  `InsertionNotRepeated` is an action property and needs no more than `IInv`:
  with the account there and nothing of its insertion under way, the server
  refuses each further `createUser`, so no call, write or late message of that
  email comes up.
* `SessionProofs`. `IInv` is about what may be presented over what: Login is at
  the foot of the chain only, and lies over Home; a call whose `shown` is true
  has its Login up; the block of log-out is due only over bare Settings, the pop
  of Settings only behind Login, Home's appearance only over Home, and the
  log-out sheet lies over Settings. Without these, a gate that runs late could
  present Login over Login, and `presentLogIn` could find Settings covered. From
  it `TypeCorrect`, `GateHolds`, `LoginResets`, `OneLogin`, and for the action
  properties `AnswersStayOnLogin` and `LoginGoesSignedIn`: an answer changes the
  chain only if its call is `shown`, and then the Login it closes or covers is
  up.
* `ExploreSearchProofs`: `SearchCanBeLeft` and `SearchSettles`, whose invariant
  (`SearchIInv`) says which animations may still be under way in each mode. Then
  the composition: every step of `App` is a step of `Session` or a stutter, and
  one of `ExploreSearch` or a stutter, so `App` implements both (`AppIsSession`,
  `AppIsSearch`) and inherits what is proved of each (`AppKeepsSession`,
  `AppKeepsSearch`, `AppAnswersKeepToLogin`).
* `EditProfileProofs`: `TextsStayOnTheirFields` and `ReturnsReport`, from a
  cell's model, label and text all being its row's.
* `DatabaseClientProofs`. The invariant is the three properties it proves
  (`StatesAlwaysAgree`, `ClientNeverStranded`, `InterruptionHolds`), the types of
  the control variables, and two facts about `wire`: it is empty unless the
  connection is up, and while authenticating it holds the request whose answer
  restores the state. The second is why an answer of any other request can be
  taken off without stranding the client. `CountIsOfListens` has an invariant of
  its own, `CountInv`: the wire is a sequence of requests, and what the state is
  restored from is finite, so that a restoring adds as many listens to the wire
  as to the count.

  About the writes there are three more steps. `TypeCorrect` comes first: a write
  on the wire has a number that was given out, and restoring sends a sequence of
  requests again (`InOrderLists`: sorting the keys loses and repeats none).
  `WireInv` then says what the wire carries (`Carried`): writes in the order of
  their numbers, none given out later, none before the state is restored, and
  the request that restores it is the oldest on the wire while authenticating and
  nowhere else. The last is what `ConnectedAlwaysMeansSent` needs: if another
  answer could restore the state, or the same one twice, a write would be on the
  wire twice. `OnceInv` counts, for each write, the calls of its block, the
  answers held back and whether it is still kept: they make exactly one from the
  moment the write is made, which is more than `WritesAnsweredOnce` asks and
  says that no write is forgotten either.

  `Refinement` combines them: each handler is a step of `WriteQueue` or leaves
  the queue alone. Restoring is a stutter because no decision can be on a wire
  that carries no write; an answer concerns the head of the queue because every
  outstanding write is on the wire, in order; passing on held answers changes no
  outcome because there is at most one of each write; and a write is given after
  exactly those that wait or have an outcome, by `OnceInv`.
* `FollowListsProofs`. `IInv` adds that an unused cell is as new and that a
  visible cell's model is its row's. The first is what makes a followed user's
  button right, whose background `configure` never sets. From it
  `RowsShowOwnModel`, `TapsNameOwnModel`, `TypeCorrect`, for every list: those of
  followers and following, too, which have no run of their own.
* `HomeFeedProofs`. `SectionSplits` is the arithmetic, `IInv` says the screen
  holds rows of the data source, each right below the one before it; from them
  `FeedReadsInOrder`, which is `ScreenIsPieceOfFeed` for every feed and screen,
  so also for posts with one comment or none, which the mock models lack.
  `NextPath` says which index path is next and `BelowFollows` that it is the
  next row of the post or the first of the next post; neighbours must be in the
  invariant because the rows on the screen, each by itself, do not tell what
  scrolled in between them.
* `AccountsProofs` also holds what is said of texts. `RunAgrees` tells, for each
  state the automaton of the email's expression can be in, what has been read so
  far, and stays right after every further character (`CharacterAdds`). From it
  `EmailAlwaysAgrees` and `ValidTextHasLegalKey`, for every alphabet and length.
  `ValidEmailsHaveLegalKeys` says the last of texts however they came about;
  `KeyCollisions` says exactly which emails share a key.
* `LevelDBProofs`: for any number of writes, memtables, faults, crashes and
  readers and any level-0 triggers, `TypeCorrect`, `NeededFilesAlwaysExist`,
  `NumbersAlwaysFresh`, `ReadsAlwaysFindWrites`, `ProcessAlwaysMayDie` and
  `MachineAlwaysMayDie`, all from one invariant (`Invariance`), whose parts are
  - `Types`, and `Control`: which steps of the first writer, the background
    thread, the compaction and the recovery may be under way together;
  - `Agreement`: memory and manifest agree, up to the edit being installed and
    what an error left open;
  - `Files`: tables that no version has yet are either the flush's or pending
    outputs of the compaction, and no removal of obsolete files takes them;
  - `Numbers`: the next number of the manifest is above every file it names, and
    that of the process above every file there is; a log number to be passed
    over is no greater than the next number it comes with;
  - `Edits` and `Outputs`: what the edit under way adds and deletes, and which
    writes the tables being made hold. They include that a flush's table may be
    in the manifest while its installation failed, because a sync that fails
    meanwhile sets `bg_error_` and ends nothing;
  - `Found`: where a write that was reported can be read, in memory, and while a
    recovery has replayed only some of the logs;
  - `Logged` and `Synced`: the writes of the memtables are in logs the manifest
    does not pass over, and those asked to be synced in their synced part.

  `ProcessAlwaysMayDie` and `MachineAlwaysMayDie` say nothing of a damaged
  manifest and of writes behind a torn record, as the properties do. `Found`,
  `Logged` and `Synced` are why a log may be deleted at all: `NeededFilesExist`
  alone is not inductive, because a step that installs a version says nothing of
  where the writes of the log it passes over are, unless its table is known to
  hold them.

The `TypeOK` of the lists, the feed, the session, the search mode and the form
is proved and has no run of its own; those of `Accounts`, `DatabaseClient` and
`LevelDB` are checked and proved.

Only model-checked: liveness (`CallsComplete`, `SignedOutSeesLogin`,
`WritesDecided`, `WritesReturn`), which is beyond the prover.

## Not modelled

`PostDetailsViewController` (a constant table: a row each for header, photo and
actions, four comments), the photo grids and their cells (constant content),
`StorageManager` (never called), `NewPost`, `EditPosts`, `PublishPosts`,
`Search`, `SearchResult` and `NoNotificationsView` (empty), application and scene
delegates (templates), frames and colours, the rest of the storyboards. The test
targets are empty.

Of the database client: frames and keep-alive, the delays of the retry, requests
whose answer nobody awaits (unauth, unlisten, stats), and the layers above the
connection (sync tree, transactions' reruns, persistence). Of the storage
library: `CompactRange`, seek compactions, snapshots and the rules that drop
overwritten keys, `reuse_logs`, `paranoid_checks`, the slowdown before the
level-0 limit, table and block formats, caches and repair.

The other pods (Auth, Firestore, gRPC, BoringSSL, nanopb, SDWebImage and
more) are third-party code of some 670,000 lines: protocol stacks, cryptography
and generated tables that the app does not reach or relies on only
through the calls `Accounts` and `StringExtension` describe. The map therefore
covers a small share of the repository's lines by design.

## Plan

Done: every component of the app that keeps state, the database client and the
life of writes and files in the storage library, with the proofs above.

What could follow, most useful first: a composition of `Session` with `Accounts`
on one device; overwrites and snapshots in `LevelDB`.
