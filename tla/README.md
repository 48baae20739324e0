# A TLA+ verification project for message-pusher

message-pusher is a self-hosted push service: an HTTP request names a user, a
channel and a message, and the server forwards the message to e-mail, WeChat,
Lark, Telegram, a WebSocket client and so on, keeps it in a table, and shows it
on the user's open web page. A console in the browser administers channels,
webhooks, users and settings, and scripts in `.forgejo/` build and publish the
container images. This directory holds TLA+ modules that model the stateful
parts of the three, TLC configurations that check them on small instances, and
TLAPS proofs of the properties that matter most.

Paths below are relative to the repository root.

## 1. Inventory

| Component | State | Operations | Hard behaviour | What makes it correct |
|---|---|---|---|---|
| Push handler, message table (`controller/message.go`, `model/message.go`) | `messages.status` | push, resend, delete, delete all | deferred status update after every exit; insertion or update fails; crash between any two statements | the row agrees with the answer and with what was sent; a synchronous push is sent at most once |
| Asynchronous queue (`channel/message-queue.go`) | `AsyncMessageQueue` (bounded channel), two sender goroutines, the start-up loader | enqueue, receive, load, send, update | blocking on the full queue; the loader runs beside the server; at-least-once after a crash | no accepted message is forgotten; every send is accounted for; everything ends |
| WebSocket clients (`channel/client.go`, `controller/websocket.go`) | `clientMap`, three unbuffered channels and two goroutines per client | register, displace, read, write, clean up, push | check, unlock, act; rendezvous with a goroutine that may have returned; identity by millisecond | the map never keeps a dead client; a cleanup deletes only its own entry |
| Server-sent events (`controller/message-sse.go`) | `messageChanStore`, one buffered channel per page, an `RWMutex` | register, send, stream, unregister, close | a send under the read lock; close against send; a page replaced by a newer one | nobody sends on a closed channel; pages show their own user's messages; nobody stops the others |
| In-memory rate limiter (`common/rate-limit.go`) | a queue of times per key | request, sweep | the sweep between two requests; the ends of the window | a sliding window, and a map that forgets |
| Redis rate limiter (`middleware/rate-limit.go`) | a Redis list per key | several commands per request | commands of concurrent requests interleave; the key expires in between | the same window, up to the requests in flight |
| Token store (`channel/token-store.go`, the two WeChat senders) | `s.Map`, items shared by pointer, the refresher | add, remove, update, load, refresh | rows first, store afterwards; a count asked too late; write-back of old items | a needed item is there, under its own key, not blank |
| Channels (`controller/channel.go`, `model/channel.go`) | `channels` | add, update, delete | name check before an insert with a unique index | names unique per user |
| Senders and dispatch (`channel/*.go`) | none of their own, but they change the message and the user they are given | one function per type, group fan-out, Telegram splitting | partial success of a group; fields changed by one sub-channel and read by the next | each target gets its message |
| Webhooks (`controller/webhook.go`, `model/webhook.go`, `model/pre-script.go`, `common/variables.go`) | `webhooks` | CRUD, trigger, script, substitution | a script with a time limit; substitution of user data | a trigger is the push its template describes |
| Users, sessions (`controller/user.go`, `model/user.go`, `middleware/auth.go`, `controller/github.go`, `controller/wechat.go`) | `users`, cookies | register, log in, manage, bind, delete | the session's role and status go stale; whole records are written back | nobody gains rights; the root user stays |
| Verification codes (`common/verification.go`, `controller/misc.go`) | a map of codes with times | register, verify, delete, sweep | verify, act, delete in three steps; the size limit | a code works once, for its purpose, in its time |
| Options (`model/option.go`, `controller/option.go`) | `options`, `OptionMap`, global variables | load, update | database first, memory afterwards, two writers | memory agrees with the table |
| Message list (`web/src/components/MessagesTable.jsx`) | rows, the number of the latest load, an event source, a retry timer | load, page, search, delete, sort, refresh, reconnect | answers overtake each other; stream events during a reload; the page is left while things are under way | no row twice, no deleted row back, no mark that stays on, one connection |
| Tables of channels, webhooks, users (`ChannelsTable.jsx`, `WebhooksTable.jsx`, `UsersTable.jsx`) | arrays of row objects | load, page, search, delete, enable, disable, sort | a handler goes on with the array of an old render and marks objects in place | rows tell what the server has |
| Forms (`EditChannel.jsx`, `EditWebhook.jsx`, `EditMessage.jsx`, `AddUser.jsx`, `EditUser.jsx`, `PushSetting.jsx`) | inputs, mode, requests under way | load, type, change the type, submit | fields split, joined and filled in; blanks that the server skips; a second press | what is saved is usable, and opens as it was left |
| Settings (`SystemSetting.jsx`, `OtherSetting.jsx`) | inputs, the values the page was opened with | toggle, type, submit a group | requests of one button one after the other, from an old render | what is shown was saved |
| Publishing: settings and jobs (`.forgejo/scripts`: all but the next row) | repository variables, a container per job, a state file | locate, prepare, resolve, preflight, log in, plan tags | variables edited between jobs; partial configuration; re-runs | jobs agree; `latest` goes where it may; nothing is pushed unprepared |
| Publishing: staging and promotion (`build-push.mjs`, `publish.mjs`) | registry tags | build, reuse, stage, verify, promote | one registry of several fails; overlapping runs; re-runs; removed tags | a final tag names a complete set of images of the right source |

How they meet: a push handler reads a user and a channel, inserts a row, starts
a `syncMessageToUser` goroutine (server-sent events), and either calls
`SendMessage` itself or marks the row and puts its id into
`AsyncMessageQueue`, from which a sender goroutine calls `SendMessage` later.
`SendMessage` may block on a WebSocket client's writer, and needs a token of the
token store for the two WeChat types. Channel and user administration changes
rows and then repairs the token store. The rate limiter stands in front of
every route. The table survives a crash; the queue, the maps and the limiter
do not. The console talks to the server by requests whose answers come in any
order, and by the stream of server-sent events. The publishing jobs share
nothing but the registries, the repository's variables and the outputs of the
plan job.

## 2. Modules

| Module | Role |
|---|---|
| `MessagePipeline` | push handler, table, queue, senders, loader, process |
| `ClientRegistry` | WebSocket clients of one key |
| `MessageStream` | server-sent events |
| `RateLimiter` | the in-memory limiter |
| `SlidingWindow` | what a limiter promises (abstract specification) |
| `TokenStore` | channels and users against the token store |
| `Accounts` | users, roles, sessions, verification codes, GitHub and WeChat |
| `ImageConfig` | what the publishing scripts compute: variants, registries, build arguments, tags |
| `ImageJob` | the plan, build and publish job of one run, program by program (extends `ImageConfig`) |
| `ImageRelease` | staging and promotion of several runs on several registries |
| `Release` | what publishing promises of the final tags (abstract specification) |
| `MessageList` | the page with the list of messages, against the server |
| `AdminTable`, `EditForms`, `SettingForm` | the tables, forms and settings of the console, each with the part of the server it needs |
| `Console` | a tab of the console: composes the three |
| `MC...` | constants and symmetry for TLC |
| `...Proofs` | theorems and proofs, each extending the module it is about; `ImageReleaseProofs` is also about `ImageJob`, `MessageListProofs` about `MessageStream`. So that a module can extend both, `ImageJob` and `MessageStream` name their specifications `JobSpec` and `StreamSpec` |

In every module the definitions named "Mutant" are faulty versions of the
definition that follows them. They are not part of a specification; each one
shows that a property can fail (`PROJECT.json`, `mutants`).

### MessagePipeline

A request is a call of `saveAndSendMessage` (from a push, a webhook or a
resend) on its own goroutine. `pc` is the statement it has reached, `row` the
status column of its row: `absent`, one of the four statuses, or `deleted`.
`id[r]` is `message.Id`: the table gives a new id to an insertion without one, but
the body of a JSON push is decoded into `model.Message` and may bring an id of
its own (`HandlerAccept`); only a resend clears it. With the id of an existing
row the insertion fails and the id stays; with a free or deleted one it is
inserted under that id. The deferred function of `saveAndSendMessage` is the pair
`HandlerStatus`, `HandlerEnqueue`; it also runs after a failed insertion, with id
0 (`NoId`) or with the id the client sent, and then it marks and enqueues the row of
another message. A sender's iteration is
`SenderReceive`, `SenderLoad` or `SenderSkip`, `SenderSend`, `SenderStatus`; each
database call of handler, sender and loader may fail, up to `MaxFaults` times.
`Crash` ends the process at any point (`Die` empties everything but the table),
and `LoaderReadFails` does so through `FatalLog`. `SendMessage` is one step that
succeeds or fails. History variables count calls of `SendMessage` and loads, and
remember whose insertion succeeded (`inserted`) and who has sent its saved message or
enqueued its id (`paid`).

### ClientRegistry

One entry of `clientMap`; entries of different keys share only the mutex, which
is never held across a blocking statement. `RegisterClient` is the sequence
lookup, bye, close, create, store, hello. Sends on `message` and `stop` are
rendezvous with the writer's `select`. A connection may break at any time, also
before its client is stored (the history `early` remembers whose did), and clients may
be created in one millisecond.

### MessageStream

`GetNewMessages` of a page, and one `syncMessageToUser` goroutine per message.
`waiting` is the goroutine that wants or has the write lock; as in Go, it keeps
new readers out. gin's `Stream` looks at the closed connection only between two
steps, and a step blocks on the channel.

### RateLimiter and SlidingWindow

`Request` and a round of `clearExpiredItems` hold the mutex from beginning to
end, so each is one step. A key that is not in the map is the empty sequence.
Time is in whole seconds, as in the code, and does not go back. `accepted` and
`answer` record what callers were told; over these, `SlidingWindow` says what a
limiter with unbounded memory would have answered. The refinement mapping is the
identity on `clock`, `accepted` and `answer`; `store` and `wake` are hidden.

### TokenStore

A handler changes the row and then works through a list of steps (`todo`):
`isShared`, `remove`, `refresh`, `store`. The lists are computed as
`TokenStoreAddChannel`, `TokenStoreRemoveChannel`, `TokenStoreUpdateChannel`,
`TokenStoreAddUser` and `TokenStoreRemoveUser` compute them (the loops of the
last two have two steps for each channel, in some order of the channels),
including the `app_id` that the corp_app branch takes from the old channel. The refresher
reads the table at start-up, fills the map, and then copies, refreshes and writes
back for ever. Items are named by who created them for which channel, because
`s.Map` and `tmpMap` share them by pointer. A token is blank, the one WeChat issued
last, or stale; that a new token of a test account voids the earlier one is
WeChat's documented behaviour and the only external assumption. A start of the
process is an initial state with any rows. Clients may do everything, at one time
too. `disturbed` is history: the credentials for which the code has lost track of
who needs their item. There are four ways: a channel that shares its credentials with
another gives them up (`GivenUp`; the count is asked when the row is gone, and
misses by one); an update brings them that `TokenStoreUpdateChannel` does not follow
(`NotFollowed`: of the type, and of the app_id of a corp_app); one request is about to
remove their item while another is at it (`Crossed`: the count and the removal are
two steps); an update saves over the change of another request (`SavedOver`, which
needs three requests).

### Accounts

The users table, one session per browser, and the map of codes. A handler is the
sequence of its accesses to these: `job[h]` is what request `h` has still to do
after the access it has made. The handlers that change a user read the whole
row first (`WriteJob` keeps what they read, changed) and write it back later
(`Writes`): `user.Update(false)` writes all non-zero columns, so `Written` keeps
the column of the table only where the row read had an empty one. `Auth` compares with
the role the session got at login. `IsExtIdAlreadyTaken` and
`IsEmailAlreadyTaken` are true for exactly one holder, as the code's
`RowsAffected == 1`. The cases of `ManageUser` are one action each; one action
stands for the four permissions, whose columns are left out. The ids of the
table are not used twice (the SQLite driver declares `AUTOINCREMENT`). Names, passwords
and the two handlers that write nothing else (`UpdateUser`, `UpdateSelf`) are left
out. `promoted`, `left`, `resets`, `contested` and `reused` are history; the last
two hold the external ids that two handlers were about to give at one time, and the
codes that two handlers were about to reset with. A start of the
process is an initial state with any users and any sessions of theirs, for
cookies outlive it.

### ImageConfig and ImageJob

`ImageConfig` has no variables: it is the scripts' functions from settings to
plans, among them `ParseVariants`, `ImagesFrom`, `GenerateTags` and `PlanBuilds`.
Texts are sequences of atoms, so that prefixes, suffixes and versions are put
together and taken apart as in the code. A script that throws is a predicate
that is false (`ValidTable`, `ValidImages`, ...). `ImageJob` runs the programs
in the order of the workflow. The container of a job has or lacks the Docker
CLI, the daemon and buildx; installing may fail. Before each job the variant
table may be edited; a failed job may be run again.

### ImageRelease and Release

`phase` and `pos` say how far a run is in the loops of `build-push.mjs` and
`publish.mjs`; `staged` and `final` are the registries. An image is its source
(version and commit) and its variant. Runs with one ref exclude each other, as
the workflow's concurrency group has it; other runs overlap at every statement. A
push or a promotion may fail after some of its tags, a job may be aborted
anywhere, staging tags may disappear, and the publish job or the whole run may
be run again. `stagingComplete` is one step. `mover`, `overlapped` and `faults`
are history.

`Release` knows neither staging tags nor loops: images become available and
disappear, a run sees them one by one, is approved when it has seen its whole
plan, and then moves tags to available images of its plan. The refinement
mapping takes `available` from the contents of the staging tags, `seen` from the
part of the plan the loop of `missingStaging` has found, and `approved` from the
runs in the promotion loop; `final` is the same.

### MessageList

A request is sent in one step, served in a second and applied in a third; each
may fail. `loadSeq` is the code's sequence number. A message is its id, and the
server stores every message. The delay before a reconnection and the interval
of the refresh are nondeterministic. The server lists ids from the newest
(`Ascending` names the members of a set by how many are smaller), and sorting by a
column is any rearrangement of the rows. Requests
under way when the page is left change nothing any more. `confirmed` and `revived` are history.

### AdminTable, EditForms, SettingForm and Console

React handlers go on, after an `await`, with the values of the render in which
they were started. `AdminTable` therefore gives arrays and row objects
identities: a request keeps the array it was made with. `byObject` tells the
table of users, whose handlers keep the row object, from the others, which look
for the id. The server lists the newest rows first (`Ranked`, `NewestFirst`), what a
search finds comes in any order, since its query has none, and a table is sorted by
id, as numbers, where the code compares texts; any other order is as good, for the
proof uses only that sorting rearranges the rows. This page is the only one that
deletes or changes rows, but others are added at any time (`AddRow`: users register,
channels and webhooks come from other tabs), with ids that grow (`lastId`). A request
may be lost (`Refuse`) or served while its answer is lost (`Lose`); the page is told of a
failure in both cases. Three histories remember what makes the code show old rows
(known deviations below): `mixed` that the tab fetched lists beside each other,
`twice` the ids a shifted page brought a second object of, and `unsure` the ids that
two requests managed at a time, or one whose answer was lost. A visit ends with its
requests served or lost. `EditForms` has all
forms: which fields a type of channel shows, what is filled in, split and joined
on the way in and out (`Loaded`, `LocalInputs`), what the server refuses, and
that it writes blank columns only for channels. The answer to a save may be lost
here, too. The rules of a webhook are "object" (what `TriggerWebhook` unmarshals),
"json" (parsed, but something else) or "text"; `VerifyJSON` accepts the
first two. `SettingForm` keeps `queue`, the
requests a button has still to send, with the values it was pressed with: a
function on their places in the button's handler, of which the least is under
way.
`Console` is a tab that shows one of these pages at a time.

## 3. Runs

Passing runs:

| Run | Bounds | What it shows |
|---|---|---|
| `pipeline_safety` | 2 requests, 2 ids, which clients may send, 2 senders, queue of 1, 2 crashes, 2 database errors | no row marked AsyncPending is forgotten; every send is accounted for by a handler that carried the id or by a reload; what only synchronous requests carry is sent at most once; answers agree with rows and results stand, for ids that one request carried |
| `pipeline_liveness` | the same with 1 sender, 1 crash, no database error | accepted asynchronous messages are settled or deleted; handlers end |
| `clients` | 2 connections, 1 push | no dead client in the map but one whose connection broke before it was stored; cleanups delete only their own entry or that of a client of the same millisecond; pushes and registrations are served or their client is gone; a broken client leaves the map |
| `stream` | 3 pages of 2 users, 2 messages, buffers of 1 | no send on a closed channel; a message that found a page is shown unless that page is closed; every goroutine ends as long as no page is closed |
| `limiter_window` | 2 keys, 2 in 2 s and 1 in 3 s, expiration 3 s, 7 s | the limiter is a sliding window; idle keys are forgotten |
| `tokens` | 2 channels of 2 users, 2 requests that may overlap, 1 failed refresh, every initial table | needed items are present, also shared ones, but for credentials that were disturbed (section 2), and none stays blank after a round of the refresher |
| `accounts` | 3 users, 2 browsers, 1 address, 1 GitHub id, 3 requests, 2 at a time, every initial table and set of sessions | nobody gets a role the root user has not given; the root user stays, enabled, until it deletes itself; an external id belongs to one user and a reset link works once, unless two handlers were at that very id or code |
| `image_job` | over a thousand environments (refs, tables, inputs, registries, mirrors, containers), 1 edit of the table before each job, 1 re-run | build and publish follow the plan job's variants; `latest` and major.minor go only where they may, or to a lone row that refuses `latest`; build arguments are those configured; a job that reaches the registries has tools and logins |
| `image_release` | a tag run of 2 variants, a dispatch of 1 from newer code, a dry run; 2 registries; 1 failure or removed tag | final tags name images of a run that was asked for them, from its source; registries agree after runs that do not overlap; the workflow implements `Release` |
| `message_list` | pages of 1, 2 messages, 3 requests a visit | no row twice; no load brings a deleted row back; marks go out; one event source or timer |
| `console` | 2 rows and 1 that is added, in pages of 2, and 3 requests; forms with 3 changes and 2 presses; settings with 3 changes | rows tell the truth, but for those that have two objects, had two requests or lost an answer; saved forms are usable (of the rules of webhooks: JSON) and open again as they were left; settings shown are saved |

One run finds a violation, a disagreement between the code and what the
repository says (quoted under `findings` in `PROJECT.json`): `release_latest`
violates `HalfFinishedKeepsLatest`. `build-push.mjs` says that "a half-finished
run can never move `latest`", and `docker-publish.yml` and `.forgejo/README.md`
say it in other words; but `publish.mjs` promotes one entry of its plan after
the other, so a promotion that fails later leaves `latest` moved.

### Known deviations

These are no runs of their own. Each is something the models do as the code
does it; where a change of a passing run is named, TLC shows it with that change.

* A JSON push that names the id of another message (`controller/message.go:55`,
  `model/message.go:12`) fails to insert, marks that row (`message.go:219`) and, if it
  is asynchronous, enqueues it (line 224): the other message is sent again, a
  settled row is pending again, and a row answered with success turns Failed. The
  properties of the pipeline say what holds nevertheless. `AnswerMatchesRow` and
  `SettledStaysSettled` without `Alone` are refuted.
* Two connections that register at the same time both find no old client and both
  stay connected (`channel/client.go:124`), against `docs/API.md:6`, which says that
  a user has one client. In `clients`, check as an invariant that two clients are
  never both stored, with open connections and writers in their `select`.
* A connection that breaks before its client is stored leaves a dead client in
  the map (`channel/client.go:150`; the comment at line 109 says the writer's defer
  cleans up): `EntryHasWriter` without `early` is refuted. Clients of one millisecond
  are taken for each other (line 144): `OnlyOwnEntryDeleted` without the timestamps
  is refuted.
* A page that is closed while its channel is full stops the streams of all users
  (`controller/message-sse.go:40`), against the instant refresh of `README.md:53`:
  `SyncEndsWhileOpen` without its last disjunct is refuted.
* The new `app_id` of a corp_app channel never gets an item
  (`channel/token-store.go:229`), nor does a channel whose type is changed;
  `IsShared` is asked when the row of the deleted or updated channel is already
  gone (line 170); and a request may add or need an item between another
  request's count and its removal. `NeededPresent` is refuted when any of the four is
  taken out of `disturbed`: the app_id or the type from `NotFollowed`, `GivenUp`, or
  `Crossed`.
* One verification code lets two users bind the same address, one after the other
  (`controller/user.go:694`, whose comment says there is no need to check). In
  `accounts`, check that an address that `EmailBind` writes has no other holder.
* A lone row of the variant table becomes the default variant even if its fifth
  column says `false`, and gets `latest` (`config.mjs:233`); `.forgejo/README.md:190`
  says that such a row does not. `LatestIsEarned` without the disjunct `LoneRefusal`
  is refuted in `image_job`, with the table `<<Alpine>>`.
* A dispatch of some variants looks for duplicate tags only among these
  (`meta.mjs:349`).
* The prefix of a `ref` or `sha` rule is applied twice (`meta.mjs:176`, `250`).
* A search that was answered before a deletion, or the stream, brings the deleted
  row back to the list of messages: `DeletedStayAway` without `revived` is refuted.
* A setting that is changed, saved and changed back to what the page was opened
  with is not sent (`SystemSetting.jsx:121`): `ShownIsSaved` with its second
  disjunct for `Hidden` options only is refuted.
* Pages are counted by offset, newest first (`model/channel.go:96`), so a row added
  meanwhile makes the next page repeat one, and it has two objects in the table
  (`ChannelsTable.jsx:42`), of which a deletion or a switch marks one: the deleted row
  stays visible. `TableTellsTruth` without `twice` is refuted.
* A request that is served and whose answer is lost is a failure for the page
  (`api.js:25`): a disabled row goes on showing that it is enabled until the list is fetched
  again. `TableTellsTruth` without `unsure` is refuted.
* The form for webhooks asks of its rules only that they are JSON
  (`EditWebhook.jsx:118`, `122`), while `TriggerWebhook` needs an object, and of the
  rules for extraction one of strings (`controller/webhook.go:275`): `[]` or
  `{"title": 1}` is saved and every trigger of the webhook fails. `SavedIsUsable`
  without `OtherJson` is refuted.
* Two lists fetched at a time append rows a
  second time (`ChannelsTable.jsx:42`). So does a page beside a deletion: it is
  loaded into one array while a request still has the array before it; the answer
  makes a copy of that one current, so the page is gone from the table and is
  fetched again; and a request made with the longer array then marks its own row
  object, not the one that is shown. A deleted row stays visible, or a switch
  shows the wrong status. It takes five requests, where the run has three: the
  proof of `TableTellsTruth` met it, and `mixed` names it. (In `console`: two
  rows in pages of one and none added, `MaxCalls = 5`, `LoadMore` without the last disjunct of
  `mixed'`, and a constraint that makes the requests a load, a switch, a load, a
  deletion and a load, for without it TLC does not get there soon.)
* A form whose load failed can be submitted with its empty inputs
  (`EditChannel.jsx:62`).

The checks and the writes of `Accounts` are steps of their own, and so are the
lookups and the inserts: without `contested` and `reused`, `ExtIdsUnique` and
`ResetOnce` are refuted. `BasesAgree` is refuted without its hypothesis, because the
workflow lets runs of different refs overlap. Nothing in the repository promises
otherwise, so these are hazards and not runs.

Two more things the code does are in the models without a property that they
would violate: the reader of a displaced client calls `close()` when the writer
has already returned, and waits for ever; and a page that ends unregisters the
newer page of its user.

Why the bounds are enough to be interesting. With two requests and a queue of
one, a handler, the other handler and the loader compete for one place, both
senders are busy with the same id after a reload, and a push can be resent. Two
crashes let a message be reloaded, half sent, and reloaded again. Two ids
let a push name the row of the other one, a free one, or its own. Two
connections give a displaced client, its successor and registrations that
overlap; the proofs cover any number. Two pages of one user and one of another
show replacement and bystanders; a buffer of one is full at once, where the
code's ten need ten messages. Seven seconds let a key fill, expire, be swept and fill again. The
initial states of `TokenStore` range over all tables, so two requests after a start,
in sequence or at one time, are two requests after any history; so do those of `Accounts`, where three
requests let one handler read a row, a second change it, and the first or a third
act on what is stale. Two variants on two registries give a plan of four
entries, of which any prefix may be promoted; three runs are one that overlaps
another and one that may not push. Three requests of a visit are a deletion, its
reload and one more that any of them can overtake; pages of one row make a
second page out of two messages. Every kind of form starts from every initial
item, so three changes and two presses reach each pair of type and fields.

Symmetry sets are used only where no liveness property is checked, over sets
of interchangeable names. `CHECK_DEADLOCK FALSE` appears where goroutines may
end or wait for good (clients and streams without traffic, requests of
accounts that are used up, a workflow run that is over, a page nobody touches); the pipeline, the limiter, the
token store, the releases and the message list are checked for deadlock. In the pipeline the stuttering action
`Quiescent` marks the states in which it has nothing left to do.

## 4. Fairness

* Goroutines that can take a step take one: weak fairness, by the Go scheduler.
* A goroutine that waits to send on a full channel gets its turn, although the
  channel is full again and again in between: strong fairness, because Go serves
  the senders waiting on a channel in the order of their arrival. The clients
  and the streams need weak fairness only.
* A crashed process is started again (`Restart`): the deployment files restart
  the container.
* External services answer, with success or failure. Several senders use
  `http.Post`, which has no time limit; a service that keeps the connection open
  and says nothing would hold a sender goroutine for ever, and
  `pipeline_liveness` excludes that.
* New requests, deletions, crashes and database errors are never forced.
* The modules of the console and of publishing state safety only and assume no
  fairness: a user or a runner may stop at any time.

## 5. Proofs

All theorems hold for every value of the constants that satisfies the named
assumptions of the modules: any number of requests, senders, clients, pages,
messages, keys, channels, users, runs or registries, any queue or buffer size,
any number of crashes and errors. The inductive invariants were first tried
with TLC, except those about `ImageJob`, `FormInv` and `SettingInv`, of which TLC
checks the properties that follow from them. `TableInv` was tried with four
requests on pages of one, completely, and with more requests and rows as far as
TLC got.

* `MessagePipelineProofs`. `TypeCorrect`; `AsyncPendingNeverForgotten`
  (`AsyncPendingCovered`); `SyncAtMostOnce`
  (`SyncSentAtMostOnce`); `SettledForGood` (`SettledStaysSettled`); `AnswersHold`
  (`AnswerMatchesRow`); `SendsPaidFor` (`SendsAccounted`).
  `SyncSentAtMostOnce` and `SettledStaysSettled` are not inductive. Both rest on
  `Custody`: what the place of a handler says of the message it carries
  (`HandlerCustody`), and what the carriers of an id say of its row (`IdCustody`): an
  id that only synchronous requests carry is never under way, and a request that is
  the only one with its id is alone with the row until it has marked it. A push that
  names an id carries it from its acceptance on, and nobody stops carrying one
  (`CarriersGrow`). From this and `SendsAccounted` follows
  `SyncSentAtMostOnce`, and from this alone `SettledStaysSettled`: when a handler that is
  alone is about to mark its row, the row has no result yet.
  `AsyncPendingCovered` needs that a process that is down has not read the
  table yet, so that a start begins with the loader. `AnswersTell` says what row and
  answer can be at each statement of a handler, so that nobody changes the row
  under an answer that was given, unless another push carried its id. `SendsAccounted`
  counts the claims still in the queue and with senders beside the sends made; the proof
  counts the places of an id in the queue as they are appended and taken
  (`PlacesAppend`, `PlacesTail`), and each claim is paid for by the handler that
  makes it, whoever's row it is. `FiniteAssumption`: requests and senders are
  finitely many.
* `ClientRegistryProofs`. `RegistryCorrect`; `CleanupDeletesOwn`
  (`OnlyOwnEntryDeleted`); `EntryAlwaysHasWriter` (`EntryHasWriter`);
  `DisplacedAlwaysStopped`. They have no hypothesis: connections may break, and
  clients share milliseconds, at any time. The invariant says that only stored clients
  are ever looked up, that goroutines exist from creation on, and that a client whose
  connection did not break early is untouched until it is stored.
* `MessageStream`, in `MessageListProofs`. `StreamTypeCorrect`; `StoreCorrect`
  (`StoredIsStreaming`); `NeverSendsOnClosed`. The stored channel and every channel somebody sends on
  belong to a page that has not finished unregistering, and unregistering excludes
  readers.
* `RateLimiterProofs`. `MapRemembers` (`StoreRemembers`): the stored times are the
  end of the history, and what is missing no longer counts. From it
  `Implements` (`ImplementsWindow`), the refinement of `SlidingWindow`, where
  `MapDecides` and `CountDecides` show that the map's test and the count of
  recent requests are both a look at the max-th latest request; `WindowHolds`
  (`WindowBound`); and `IdleKeysGo` (`IdleKeysForgotten`). The assumption that no
  duration exceeds the expiration is the comment above the limits in
  `common/constants.go`; `ClearRemembers` is where it is needed.
* `TokenStoreProofs`. `TypeCorrect`, with `TodoOrdered`: a removal is always
  preceded by the question whether the item is shared, and an item is stored
  right after its refresh. `NeverBlankAfterRound` (`NotBlankAfterRound`) has no
  hypothesis on clients: requests may overlap as they like. As long as no refresh
  fails, an item that is about to be stored has a token (`StoresLit`), a blank
  item of the map is one of the start-up load that the first round still has to
  refresh (`MapLit`), and what a round has refreshed keeps its token until it
  is written back (`RoundLit`). `NeededAlwaysPresent` (`NeededPresent`) has none
  either: requests overlap and do what they like. `NeedInv` is about one key at a
  time, as long as it is not disturbed (`KeyInv`): no two requests are at it of which
  one may remove its item (`Apart`); if it is needed, its item is in the map, or
  about to be loaded, or going to be stored by a handler at work (`Covered`); a
  removal hits no needed item, or its handler mends it afterwards (`RemovalsOK`); and
  a user is enabled after its items were stored (`EnablesOK`). What happens to one
  key does not concern the others, which is why a disturbed key can be left out
  without losing them. `ChannelsAssumption`: the channels are finitely many;
  `NoneAssumption`: the empty values are no rows, items or requests.
* `AccountsProofs`. `TypeCorrect`; `RolesAlwaysHaveSource` (`RolesHaveSource`);
  `RootAlwaysStays` (`RootStays`); `ExtIdsAlwaysUnique` (`ExtIdsUnique`);
  `ResetAlwaysOnce` (`ResetOnce`). `RolesHaveSource` is inductive because it speaks
  of sessions and of the rows handlers are about to write as well as of the
  table. `RootStays` is not: a handler that read the root user before could still
  disable or delete it, so `RootUntouched` says of every handler under way that
  it does not. The effect of a step is described once per variable (`RowEffect`,
  `SessionEffect`, `HistoryEffect`, `CodesType`, `JobEffect`), and the invariants
  follow from these. In the last two requests overlap as they
  like. `Sole` says of an external id that is not contested that one user has it, and
  that a handler about to give it (`Gives`) knows that nobody has it, or only its own
  user; a step after which two handlers give it makes it contested. This needs that a
  row that is gone stays gone (`Known`), and that a request has no job before it
  arrives (`Fresh`). A used reset code is gone, or its handler is just deleting it
  (`UsedForgotten`), unless it was reused; this needs that codes are numbered and that
  no two addresses have the same one (`CodesNumbered`, `CodesAsked`). `NoneAssumption`
  and `ExtIdsAssumption` say that the empty value is no row and no external id.
* `ImageReleaseProofs`. `RegistriesAlwaysMatch`; `FinalAlwaysFromOwnSource`
  (`FinalFromOwnSource`); `WorkflowImplementsRelease` (`ImplementsRelease`), the
  refinement of `Release`; `BasesAlwaysAgree` (`BasesAgree`). A staging tag spells
  version, commit and variant, and `StagedMatches` says that it names the image
  it spells, whichever run pushed it; so a promotion moves tags to an image of its
  own source (`FinalMatches`). The refinement has one lemma per kind of step
  (`PushBuilds`, `CheckSees`, `VerifiedApproves`, `PromoteIsMove`, `DeleteLoses`); every
  other step of a run is `End` or a stutter. `BasesAgree` needs that a tag on which
  two registries differ is owed by a run that was started and has not ended
  (`DifferenceIsOwed`), and that a publish job that is alone has promoted exactly the
  beginning of its plan (`PromotedSoFar`); that is where `DuplicateTagsAssumption`
  is used: no two variants of a run have a final tag in common, for
  `computeBuilds` refuses such a plan (`findDuplicateTags` in `meta.mjs`).

  Its second part is about `ImageJob`, for any environments, tables and
  containers. `ReadyAlwaysCanPush` (`ReadyCanPush`) follows from `JobInv`: what
  resolve, preflight and login have established is a conjunct each, claimed from
  the program on that establishes it, and every image belongs to a registry that
  is logged in to because `resolveRegistries` and `imagesFrom` agree
  (`ImagesHaveRegistries`). `ArgsAlwaysConfigured` (`ArgsAsConfigured`) follows
  from `ArgsInv`: the arguments of a release are those resolve computes from the
  environment of its job. It is under `EndpointsAssumption`: an address tells which
  of the settings it comes from, for otherwise the property, which compares
  addresses, would blame one setting for what another one has configured; and no
  proxy variable is named like a repository, as `PROXY_BUILD_ARGS` in
  `build-push.mjs` says. `BuildsAlwaysFollowMatrix` (`BuildsFollowMatrix`) follows
  from `MatrixInv`: the builds of a job are computed from its state file, so they
  follow the plan only because resolve has put the variants of the matrix there,
  whatever the table says by then (`resolve.mjs` fails when it lacks one of them),
  and because no variant is named like the separator of the list the matrix
  travels in (`MatrixKnown`, which `plan-matrix` establishes). Variants that are
  selected keep their places in the table, so that what a selection has
  (`SelectedAre`) can be proved without induction over sequences.
* `MessageListProofs`. `ListCorrect`; `NeverDuplicates` (`NoDuplicates`);
  `DeletedAlwaysStayAway` (`DeletedStayAway`); `LoadingAlwaysEnds` (`LoadingEnds`);
  `AlwaysOneStream` (`OneStream`). `ListInv` says that rows differ, in the list
  and in every answer under way; that a mark is shown only while the request with
  the latest sequence number is awaited (`Awaited`); and that a deleted row is neither
  shown nor in an answer that will be applied (`DeletedGone`). What a list of ids is
  worth follows from ranks (`Ascending`), so that no induction over sequences is
  needed.
* `ConsoleProofs`, first about the forms, for any types, texts and lists that are
  typed and any number of changes and presses. `SavedAlwaysUsable` (`SavedIsUsable`);
  `ReopenedAlwaysSame` (`ReopenedIsSame`). Lemmas about the conversions come first: what `submit` of
  each form sends if it sends anything is accepted by the server code that uses it, of
  the rules of a webhook only that they are JSON (`Promised`, `LocalSound`), a row
  updated or created from it stays usable and keeps its
  secret (`UpdatedSound`, `CreatedSound`), and splitting, filling in and trimming
  are stable when a form is opened for what it saved (`ChannelReopened`,
  `ReopenedSame`). `FormInv` then speaks of requests and answers under way: whatever
  was sent is sound, though the inputs have changed since (`PostsSound`); a form
  that loads has sent nothing to save; and a press without another beside it
  (`LastAlone`) is the only save under way until its answer, so that the row still
  is what it wrote (`LastFits`) when the answer settles the form
  (`SettledFits`). `FormsAssumption` is about the rows the forms are opened for:
  they have the columns of their table, the server code can use them, and they
  have a secret or a password to lose.

  Its second part is about the settings, for any options, groups and values.
  `ShownAlwaysSaved` (`ShownIsSaved`) speaks of a page at rest; `SettingInv` of
  one at work: an option that differs from what is saved is still among the
  requests left (`SavedOrLeft`), an answer belongs to the request under way, and
  a good one was preceded by the change on the server (`AnswerFits`).
  `SettingsAssumption`: every option of the page has a row, an option that is
  always sent is one the server shows, and groups are lists.

  Its third part is about the tables, for any rows, page size and number of
  requests. `TableAlwaysTellsTruth` (`TableTellsTruth`) is about the rows on the
  page shown; `TableInv` is about all row objects an answer under way can still
  bring there (`Reach`, `OnPage`). A row has one object, whichever arrays it is in,
  or is known to have two (`OneObject`), so that a mark set in an old array is seen in
  the new one. That needs that a further page is fetched for an array that has all
  rows of the page (`NextFits`), and that the answer of one has rows this array has
  already, which makes them known, or rows as the server has them (`ListTrue`). No row
  of the page is newer than the newest the server has given (`KnownIds`), so a row that
  is added is not one that is gone. `ShownTrue`, `ConfirmedTrue` and `GoneHidden` say what marks,
  waiting answers and confirmed deletions are worth. Ranks (`RankedIs`) stand for
  the order of a list, as in the list of messages. `TablesAssumption`: finitely
  many rows, with natural ids and status, and a page that holds some.

Only model-checked:

* the liveness properties `AsyncEventuallySettled`, `HandlerEnds`, `WaitersServed`,
  `BrokenClientLeaves`, `SentIsShown` and `SyncEndsWhileOpen`: they need fairness,
  hence ENABLED, which TLAPS 1.4.5 does not reason about;
* `LatestIsEarned` of `ImageJob`: it is about the rules of the run, not about any
  rules (a raw rule could spell `latest`), and the tags are computed by a fold over
  them (`FoldLeft`, `@@`), of which nothing can be proved without induction over
  data;
* the type invariants of `ImageJob` and of the pages of the console, as far as they
  are not part of the invariants above.

Proved, and not checked by a run: `DisplacedIsStopped`, `StoredIsStreaming`,
`StoreRemembers` and the type invariants of `MessageStream`, `TokenStore` and
`Accounts`.

## 6. Not modelled

* Contents, formatting and rendering of messages; read-only endpoints.
* Data races as such: the map accesses under `RLock` in the token store and the
  message pointer shared with `syncMessageToUser`. They are listed as hazards.
* The wall clock going back, and the passing of real time between a handler's
  statements.
* Inside the components that are modelled: the group fan-out and the fields
  senders change in the message and the user they are given (`channel/group.go`,
  `channel/email.go`), the permissions the asynchronous path does not see
  (`channel/message-queue.go:32`), the order of database, map and globals in
  `UpdateOption` (`model/option.go:73`).
* The Redis limiter: its commands (`middleware/rate-limit.go:20`) interleave in a
  server that is not part of the repository.
* Webhook triggers with their scripts, the Turnstile check, status, routing,
  migration.
* In the console: pages that send one request and show its result (login,
  registration, reset, personal settings), rendering, toasts, themes and navigation.
  In publishing: the report of `summary.mjs`, and what Docker does inside a build.

## 7. Plan

In this order:

1. `Dispatch`: `SendMessage`, the group fan-out with the fields it changes, the
   e-mail permission in the synchronous and the asynchronous path; Telegram
   splitting as an operator against a reference definition.
2. `Webhook`: trigger, pre-script with its time limit, substitution of variables
   as an operator against a reference definition.
3. `RedisLimiter`: the commands of concurrent requests; bound on the excess over
   `SlidingWindow`.
4. `Delivery`, an abstract at-least-once specification that `MessagePipeline`
   implements; and a composition of `MessagePipeline` with `ClientRegistry` in
   which a sender waits for a client.
