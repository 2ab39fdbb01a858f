# A TLA+ model of vostros

vostros is a small Twitter-like server in Go: JSON and HTMX handlers over one PostgreSQL
database, an in-memory rate limiter per process, and a background processor that fans posts
out into home timelines. Any number of server instances run against the same database, and the
platform starts and stops them as it likes. All state that matters is in the database; what is
hard about the program is what happens between two of its statements.

Contents: [the system](#the-system) · [modules](#modules) · [runs](#runs) ·
[fairness](#fairness) · [what the code does not keep](#what-the-code-does-not-keep) ·
[proofs](#proofs) · [abstractions](#abstractions-and-why-they-are-sound) ·
[not modelled](#not-modelled) · [what could come next](#what-could-come-next)

## The system

| component | source | state | operations | what makes it correct |
|---|---|---|---|---|
| posts and conversations | `handler/post_handler.go`, `handler/conversation_handler.go`, `repository/postgres.go`, `repository/conversations.go` | `tweets` (status, question state, parent, thread), `user_stats.tweet_count` | publish, reply, delete, set the outcome of a question | a reply joins a live thread only; each change leaves one outbox row; counters are exact; a deleted question is frozen |
| follows | `handler/user_handler.go`, `repository/postgres.go` | `follows`, two counters of `user_stats` | follow, unfollow | counters are exact, whatever is repeated or overlaps |
| outbox and fan-out | `fanout/outbox.go`, `repository/postgres.go` | `outbox` (status, attempts), `timeline_entries`, the batch a processor holds | claim, handle created/deleted, complete, fail | an event has one holder; retries end; a completed event was delivered; the feed shows neither deleted posts nor strangers' |
| feeds, conversations, search: the lists | `handler/timeline_handler.go`, `handler/search_handler.go`, `repository/postgres.go`, `partials/post_list.html` | none of their own: queries with a cursor | page through | a walk meets every item that was there throughout, once, and ends |
| notifications and inbox | `repository/conversations.go`, `handler/conversation_handler.go` | `notifications` (read or not) | create with a post, list, count, mark read | one per recipient and post; nothing is lost between pages; only the recipient's requests mark it read, whatever ids anybody sends; the inbox can be emptied |
| rate limiter | `ratelimit/ratelimit.go` | a map of counters under a mutex | `Allow`, `cleanup` | never more than the limit per window; a refused client is readmitted; the map shrinks |
| accounts and sessions | `handler/auth_handler.go`, `auth/`, `repository/postgres.go` | `users`, `refresh_tokens` | register, log in, refresh, ban | names and addresses are unique; what one refresh token yields is bounded; a ban lasts; everybody is answered |
| API tokens | `handler/api_handler.go`, `auth/middleware.go` | `api_tokens`, goroutines that note the last use | create, authenticate with, delete | a revoked token lets nobody in |
| migrations | `repository/migrate.go`, `migrations/` | `schema_migrations` | `RunMigrations` at start | each migration is applied once, whoever starts at the same time, and before any request that needs it |
| start and shutdown | `cmd/bird/main.go` | the process, the context of the processor | start, SIGTERM | work in progress is neither lost nor done twice; every start ends |

How they interact. A handler runs in the goroutine of its request, behind the limiter and the
authentication middleware, and calls the repository; each repository method is one statement or
one transaction at READ COMMITTED. Publishing and deleting insert an `outbox` row in the same
transaction as the change. Every process has one `OutboxProcessor` whose ticker fires every two
seconds; it claims up to 50 pending rows (`FOR UPDATE SKIP LOCKED`) and works through them, each
call on the repository a transaction of its own. Readers see what is committed: the home
timeline is the reader's own posts and those `timeline_entries` lists, filtered by the status of
the post. The processes share nothing but the database.

The hard behaviours are therefore: handlers of several instances interleaved statement by
statement, under row locks; the two-step handlers that read, check and then write in a later
transaction; several processors on one outbox; a statement that fails, or is committed although
its caller saw an error; a process that stops anywhere; time, in the limiter. `PROJECT.json`
lists them as hazards, each at its line.

## Modules

**`HomeFeed`** - the abstract specification of the home timeline. There is no outbox: a post is
published, deleted, or delivered. A delivery reaches at least everyone who has followed the
author ever since the publication (`loyal`) and at most those who have followed at some moment
since (`audience`); that is what asynchronous fan-out can promise.

**`Fanout`** - the outbox, its processors, and the handlers that feed it. One action is one
database transaction.

| model | code |
|---|---|
| `post`, `follows`, `entries` | `tweets.status`, `follows`, `timeline_entries` |
| `status`, `attempts` | the rows of `outbox`; `Created(p)` and `Deleted(p)` name the rows |
| `pc`, `batch`, `cur`, `fans` | where a processor is in `processBatch`, the events it has left, the one it handles, and `followerIDs` |
| `loyal`, `audience` | observations; no guard reads them |
| `CreatePost`, `DeletePost`, `Follow`, `Unfollow` | the repository's transactions of those names |
| `ClaimOutboxEvents`, `ReadFollowers`, `InsertEntries`, `DeleteEntries`, `CompleteOutboxEvent`, `FailOutboxEvent` | the calls of `processBatch`, `handlePostCreated` and `handlePostDeleted`, in their order |
| `HandlerFails`, `InsertFails`, `SettleFails`, `ClaimReplyLost` | the error branches, with the statement committed or not |
| `Stop`, `Start` | a crash or SIGTERM, and the next start of the instance |

`ImplementsHomeFeed` states the refinement: `feed` is what `GetHomeTimeline` selects. `IInv` is
the inductive invariant of the proofs.

**`Board`** - the abstract specification of the writes: publishing, deleting, setting an outcome,
following and unfollowing as single steps on posts and edges, with the checks the handlers promise, and
counters, notifications and outbox rows a function of the posts and edges at every moment (`Recorded`).
`Store!ImplementsBoard` states the refinement.

**`Store`** - the write transactions of the handlers, statement by statement, with the locks
PostgreSQL takes. The database variables hold what is committed, and a transaction publishes
its writes in `Commit`; `owner` and `sharers` are the exclusive and `FOR SHARE` row locks until
then. `Plan` gives the statements of an operation that may wait, in the order the code issues
them; `Check` is the read and the checks a handler makes in an earlier statement. `Rollback`
covers every failure; `AbortDeadlocked` is the deadlock detector.

**`Service`** composes `Store` and `Fanout`: the requests, statement by statement, and the processors
share the tables `tweets`, `follows` and `outbox`. `Serve` is a step of a request, with the rows its
commit adds to the outbox (`Enqueued`); `Fan` is a step of a processor, which writes none of `Store`'s
tables. `ImplementsFanout` says that what the processors see is what `Fanout` says, in which a request is
one step.

**`Paging`** - a reader who walks a list page by page while items enter it, in any order of ids
(an id is drawn before the commit or the fan-out makes its item visible), and leave it. One
module for all lists, because all are the same query (`id < cursor ORDER BY id DESC LIMIT n`);
they differ in how a walk ends. `Asked`, `IsPage` and `IsCursor` are the query, its result and
the cursor it returns, `LastPage` the rule of the handler, `Start` and `Fetch` the requests.
`steady` (what has been in the list since the walk began) and `earlier` are observations.
`"search page"` is the infinite scroll of `search.html`, whose cursor is lost on the way.

**`Quota`** - the abstract specification of the limiter: a log of what each client was let through, and
a window that its first request opens; no map, no counter, no sweep.

**`RateLimit`** - one `Limiter`: `Allow` and a pass of `cleanup` each hold the mutex throughout
and are one action each. Time is relative to now, so the state space is finite without bounding
time. `granted` (what was let through within each span of time up to now) and `asked` are observations.
`ImplementsQuota` states the refinement.

**`Startup`** - the life of the instances: `main` launches, `RunMigrations` takes the advisory
lock of the transaction, goes through the migrations its revision embeds and commits, the server
serves, and `Stop` is SIGTERM, `log.Fatalf` or a crash at any point (which rolls back). Instances
of different revisions (`Embedded`) run side by side.

| model | code |
|---|---|
| `life`, `walk`, `applying` | where the process is in `main` and in the loop of `RunMigrations`, and what its open transaction has executed |
| `schema` | the committed rows of `schema_migrations` |
| `LockHolders` | `pg_advisory_xact_lock`: held to the end of the transaction |

**`Inbox`** - the abstract specification of the inbox: notifications arrive; an agent is shown some of its
own it has not acknowledged, a page at most; its acknowledgement names all of that and whatever ids it
likes besides, of which only its own that have arrived count; and it may have to be made again. No
requests, tokens or instances.

**`Agents`** extends `Startup` with the requests the instances serve: agents that read the inbox as
`skill/SKILL.md` has them do (newest unread page, handle, acknowledge, start again), people who make
and revoke API tokens, posts that notify and posts that are deleted.

| model | code |
|---|---|
| `apiTokens`, `notes`, `read`, `deleted` | `api_tokens`, `notifications`, those with `read_at`, `tweets.status` |
| `touching` | the detached goroutines of `OptionalAuth` that run `TouchAPIToken` |
| `held`, `page`, `made` | the agent's credential and the page it has not acknowledged; ids that were ever given out |
| `job[u].late` | observation: the request was sent after its token had been revoked |
| `Poll`, `Acknowledge` | the two requests of an agent's loop. An acknowledgement names the page and, like any body the handler accepts, any other ids: of the account's notifications it was not shown, of other accounts', of none that exist yet |
| `Begin`, `Authenticate`, `List`, `Count`, `ReadNotifications` | a request: `extractToken`, `OptionalAuth` and `RequireAuth`, the two statements of `Inbox`, the update of `ReadNotifications`, whose `WHERE user_id` alone keeps the ids of others out |
| `CreateAPIToken`, `DeleteAPIToken`, `TouchAPIToken` | the handlers and the repository's calls of those names |
| `Notify`, `DeletePost` | what `Store` does in detail, seen from the inbox |
| `Fails`, `Dies` | a statement that fails; the end of an instance with its requests and goroutines |

`ImplementsInbox` states the refinement: the page a request has read is shown when the request ends, a
statement later, and not at all if that fails.

**`Accounts`** - registration, login and the refresh of a session, one step per statement.

| model | code |
|---|---|
| `users`, `banned` | `users` in the order of the commits; `role = 'banned'` |
| `issued`, `live` | every refresh token there has been, with the one it was exchanged for; `refresh_tokens` |
| `pc`, `job` | the next statement of each request and what it has read so far |
| `LookUp`, `InsertUser`, `CreateUser` | the two look-ups of `Register`, the entries in the two unique indexes, the commit |
| `Holds`, `Taken` | the entries of open transactions, on which an insert waits, and the committed ones, on which it fails |
| `FindUser` | `findUser`, the check of the password and of the role |
| `ReadToken`, `DropExpired`, `ReadUser`, `Purge`, `Rotate`, `Grant` | the statements of `RefreshToken`; `Grant` also ends registration and login |
| `DeleteTokens` | the deletes whose error is ignored: the rows may stay |

Proofs: **`FanoutProofs`**, **`StoreProofs`**, **`StoreRefinement`** (`Store` implements `Board`),
**`ServiceProofs`** (`Service` implements `Fanout`), **`AgentsProofs`** (`Startup` included),
**`AccountsProofs`**, **`PagingProofs`**, **`RateLimitProofs`**. The modules named **`MC...`** only
give values to the constants. Definitions marked *mutant* are plausible bugs, kept next to the
definition they spoil; no specification uses them.

## Runs

| run | asks | instance | result |
|---|---|---|---|
| `fanout_safety` | types, exclusive claims, bounded retries, delivery, how many events a failure can lose, settled events, refinement of `HomeFeed` | 2 users, a post of each, 2 instances, batches of 2, 2 attempts, 2 failures of any kind | holds, 353,934 states |
| `fanout_liveness` | events settle, loyal followers are reached | 2 users, a post and a reply to it, 2 instances, 2 failing handlers, no stop | holds, 21,908 states |
| `fanout_stranded` | events settle, with a stop | 2 users, 1 post, 2 instances, 1 stop | **violated**, see below |
| `store_safety` | counters, events, notifications, who can deadlock, refinement of `Board` (live threads, frozen outcomes, the author's rights) | 2 users (one an admin), a question and two nested replies, 3 concurrent requests of 5 kinds | holds, 783,232 states |
| `store_liveness` | every request is answered, but an update of a post that is never without a reply in progress | 2 users, a question and two replies to it, 3 concurrent requests to publish, delete and follow | holds, 391,632 states |
| `service` | refinement of `Fanout` by requests and processors together; no deadlock | 2 users, a post and a reply to it, 2 concurrent requests of 4 kinds, 1 instance, batches of 2, 1 failing handler or stop | holds, 1,126,602 states |
| `ratelimit` | refinement of `Quota`, twice the limit in any window's time, sweeping, readmission | 2 clients, limit 2, window 3, 3 requests per tick | holds, 36,329 states |
| `ratelimit_minute` | at most the limit in any minute | the same | **violated**, see below |
| `paging` | no item twice, nothing missed that stays, walks end, late items are met | 4 items, pages of 2, the seven lists that pass their cursor on | holds, 10,012 states |
| `paging_search` | nothing missed that stays | the same, the search page | **violated**, see below |
| `accounts` | unique accounts, bounded exchange of a refresh token, bans that last, independent sessions, an answer to every request | 3 persons of whom two share the name and two the address, 2 concurrent requests, 4 refresh tokens, 1 ignored error | holds, 422,492 states |
| `agents` | migrations applied once and before they are needed, starts that end, revoked tokens that stay out, refinement of `Inbox` (acknowledgements of any ids), an inbox that empties | an old and a new instance, 2 users, the agent of one with an inbox of two, 2 API tokens, pages of 1, 1 failure | holds, 324,671 states |

Why these bounds are enough to be interesting:
- *Fanout.* Two instances race for one event; with two posts a batch has several events, so that
  a stop or a failed `Complete` strands some and not others; creation and deletion of one post
  can be held by different instances. Two attempts let an event fail, be retried by the other
  instance and die. Two failures (`MaxFaults`) allow a retry that fails again, or a failure
  followed by a stop. Two users give a follower who comes and goes during the handling.
  Instances are interchangeable (symmetry in the safety run only).
- *Store.* Three requests make the longest circle the lock order could close here
  (reply - delete - delete of a thread), and every pair of operations overlaps. The replies nest,
  so parent and root differ. One author mentions everyone. The admin deletes others' posts. Posts
  are created at most once each; nothing else is bounded. Only the outcome `answered` is asked
  for: the three outcomes go through the same code. For the liveness run both replies are to the
  question, and a third request is needed beside them: the replies can then share the question one
  after the other, each joining before the other has ended, while the third waits to delete it. The
  posts are published once each, so in this run what goes on for ever is replies that are rolled back
  and sent again; in the program it may as well be new replies. Without the exception that
  `RequestsAnswered` makes (`Overtaken`) TLC finds this behaviour. Outcomes are left out there: they
  wait for the same lock as deletions do.
- *Service.* The reply makes deletions wait for publications and leaves no row in the outbox but that of
  its deletion, so commits with and without a row to enqueue meet a processor in every state of its
  work. Two requests are enough for a commit between the statements of another one; the failure lets an
  event be tried again or lost while requests go on. The composition adds no bound: that it holds for
  any number is proved (`ServiceImplementsFanout`).
- *RateLimit.* A window longer than two ticks separates "before", "at" and "after" `resetAt`;
  `Burst` (requests between two ticks) exceeds the limit. `count` saturates one above the limit,
  past which nothing distinguishes its values.
- *Paging.* Four items in pages of two make a full last page, a short one and an empty one, and
  items that enter or leave before, at and after the cursor. Any item may return, as a question
  does whose outcome is set back; for the other lists this is more than happens. The lists with
  the same rule for the end differ in name only.
- *Accounts.* A person is what the form is filled in with: the three differ so that two
  registrations collide in the name only, in the address only, or (the same person twice) in both,
  and so that the index of names lets one through that the index of addresses stops. Two requests
  are all that a race of two statements needs; the third that would wait behind them behaves as
  the second. Four tokens allow one that is exchanged by two requests at once and once more after
  an ignored error; a request only begins while a token is left for it.
- *Agents.* Two instances of two revisions make every order of start, lock and commit that
  differs; the model's first migration stands for 001 and 002, the second for 003, because the
  tables of the API tokens and of the inbox are what requests need. With pages of one, an inbox
  of two does not fit on a page; one of its posts can be deleted, and one notification is of
  another account. The agent may send any set of ids that includes its page: the other one of its
  own, shown or not, the other account's, and one that is written between its request and the
  update. Two tokens let one be revoked while the
  other one is used. The failure is a failed statement or a lost reply.

`CHECK_DEADLOCK FALSE` is set for the fan-out runs, where users may stop writing and an idle
processor that finds no row does nothing, and for `accounts` and `agents`, where the tokens that
may be issued run out and people stop asking.

## Fairness

- `Fanout!FairSpec`: weak fairness of each processor (`Process`), because the ticker of a running
  instance keeps firing and its loop does not block on other processors (`SKIP LOCKED`), and of
  `Start`, because a stopped instance is started again. None for users, none for failures, whose
  number is bounded: an event fails for ever only if something fails for ever.
- `Store!FairSpec`: strong fairness of each request's steps: a statement whose row is free again and
  again goes on some day, as PostgreSQL wakes those that wait for a row when it is released; with
  weak fairness a waiter could be overtaken for ever by requests that come and go. This is no promise
  that a row becomes free. A `FOR SHARE` joins the transactions that share the row already, past an
  `UPDATE` that waits for all of them to end, so an `UPDATE` may wait for as long as replies overlap;
  the model lets them (`LockForReply`), and `RequestsAnswered` says who may be kept waiting and that
  everybody else is answered. Weak fairness of the deadlock detector, which runs after
  `deadlock_timeout`. None for new requests and for `Rollback`.
- `Paging!FairSpec`: weak fairness of `Start` and `Fetch`: a reader asks for the next page and
  walks again later, as `skill/SKILL.md:111` tells agents to do with the inbox (and people do
  with a feed). None for what enters and leaves the list.
- `Accounts!Spec`: strong fairness of the steps of each request: an insert that waits at a unique
  index is woken when the holder of the value ends, but the next registration may take the value
  first; only one that finds it free again and again goes on some day. None for `Fails`, `Ban` and
  new requests.
- `Agents!Spec`: weak fairness of an agent's next request (`skill/SKILL.md:111`, recurring work) and
  of the statements of a request; strong fairness of `LockMigrations`, because the lock is handed
  to its waiters in turn, and weak fairness of the rest of `RunMigrations`. None for `Launch` and
  `Stop`: nothing obliges the platform. `InboxDrains` therefore assumes that in the end the
  instances are up and the agent's credential is valid (`Settled`), and failures are finitely many.
- `RateLimit!FairSpec`: time passes and the sleeping goroutine wakes up. Clients owe nothing.

## What the code does not keep

Each is something a document of the repository says, and a run that shows the code doing
something else.

1. **Events of a stopped instance are lost** (`fanout_stranded`). `ClaimOutboxEvents` looks for
   `pending` rows only; rows an instance had claimed when it was stopped stay `processing`. Every
   deployment can do this: `main` cancels the processor's context and does not wait for its
   batch, and the calls to `FailOutboxEvent` then fail with the same cancelled context.
   `ARCHITECTURE.md:154` says the outbox works across cold starts. The same happens to the row
   of a `CompleteOutboxEvent` that fails; there, the work has been done. `StrandedBound` shows that
   nothing else loses events, and that a failure loses one batch at most; `WorkStrandsNothing`, that a
   failing handler loses none; `StrandedForGood`, that what is lost stays so.
2. **The limit is per fixed window** (`ratelimit_minute`). Up to twice the limit passes within a
   minute across the end of a window (`TwiceTheLimit` shows that this is the most);
   `skill/SKILL.md:119` and `developers.html:67` say 100 requests per minute.
3. **The search page loses its cursor** (`paging_search`). `post_list.html:7` appends
   `?cursor=...` to a URL that for search already ends in `?q=...`; the cursor becomes part of
   the query, and the scroll asks for posts that contain its words too, from the top. Older
   results are never loaded, although `skill/SKILL.md:118` and `ARCHITECTURE.md:212` promise
   pages of results and infinite scroll. The API (`/api/v1/search?q=...&cursor=...`) is fine.

Seen while modelling, without a run of its own:
- Following brings no older posts: the fan-out runs once per post, and `Follow` inserts no entries, while
  `skill/SKILL.md:88` describes the feed as the posts of followed accounts. (Likewise, unfollowing
  removes none.) `HomeFeed` says what does hold.
- Refreshing a session reads, deletes and replaces the token in three statements, and the error of
  the delete is ignored (`auth_handler.go:347`). Requests that race with one token each get a new
  one, and the old one survives a failed delete, although `openapi.json:134` says that it is
  invalidated. `RotationBound` shows the most that can come of it.
- Of two registrations that race, the slower is answered 500 by the unique index and not 409
  (`skill/SKILL.md:120` names 409 for duplicates as typical).
- A deletion or an outcome of a post may be kept waiting by replies to it: each shares the row of the
  post until its commit (`postgres.go:134`), and one more may join while the update waits
  (`postgres.go:206`). It takes replies that overlap without a gap, and ends with them, or with the
  request (`Overtaken`; `OvertakenBlockNobody` shows that nobody else waits for the one kept waiting).
- An account whose refresh token cannot be inserted exists, although its client was told of an
  error (`auth_handler.go:166`); logging in works.
- The role is looked at when a session is opened or refreshed, not by `OptionalAuth`: a ban does not
  end API tokens, nor access tokens before they expire. `BanHolds` says what does hold.
- Two users who follow each other at the same time can deadlock in the database, and one of them
  gets a 500 (`OnlyFollowsDeadlock` shows that no other combination does).
- Deleting a post that is already deleted answers 500, because `GetPostByID` does not look at the
  post's own status.

## Proofs

`FanoutProofs` proves, for every set of users and posts, any number of instances, every batch
size and limit of attempts, and every kind and number of failures:

| theorem | property |
|---|---|
| `TypeCorrect` | `TypeOK` |
| `ClaimsAreExclusive` | `ExclusiveClaim` |
| `RetriesAreBounded` | `RetryBudget` |
| `CompletedIsDelivered` | `DoneMeansDelivered` |
| `OnlyFailuresStrand` | `StrandedBound` |
| `WorkStrandsNothing` | no event is lost when only handlers fail |
| `StrandedForGood` | an event lost in progress stays lost |
| `DeliveredToAudienceOnly` | `OnlyAudience`, implied by the refinement |
| `SettledEventsStay` | `SettledForever` |
| `FanoutImplementsHomeFeed` | `ImplementsHomeFeed` |

The only assumption is `FanoutAssumption` (types of the constants, positive bounds).

The argument. None of the properties is inductive alone; `IInv` conjoins them with what they
need. That a claimed event stays with its holder needs `WorkerState` (an idle or stopped
processor holds nothing, and what is handled is in the batch). That a completed event was
delivered needs `InFlight`: the followers a processor has read include everyone still loyal,
because `loyal` only shrinks, and are in the audience, because that only grows; and nothing
removes the entries of a visible post, because its deletion event does not exist yet
(`EventLifecycle`). `FollowersBetween` makes the freshly read list start out right, `NothingEarly`
and `AbsentUntried` say what holds before the publication. Each conjunct has a lemma of its own,
with one step per action; lemmas say once what a processor's and a handler's steps may do to a
variable. The refinement needs `IInv` for one thing: an insert for a visible post is a `Deliver`
between its bounds, and an insert or clean-up for a deleted post changes no feed.
TLC checked `IInv` as an invariant of the safety instance before it was proved. `OnlyFailuresStrand` counts:
an event in progress that no batch holds was taken from one by a failure, and a batch has at most
`BatchSize` events (`FiniteRows` says that there are finitely many rows to count, although `Posts` may be
infinite), so a step adds to `Stranded` at most what the failure it counts may take.

`PagingProofs` proves, for any finite set of items, any page size and any order of changes:

| theorem | property | of |
|---|---|---|
| `PagingTypeCorrect` | `TypeOK` | every list |
| `PagesNewestFirst` | `NewestFirst` | every list but the search page |
| `WalksAreComplete` | `WalkComplete` | every list but the search page |

The assumption is `PagingAssumption`. The last two are of the form `[](list # SearchPage => ...)`: a reader
chooses a list once, and one that has chosen the search page is not promised this (`paging_search` shows
that it could not be). The
argument (`Paging!IInv`): the cursor parts the items. Whatever has been shown is at or above it,
so the next page is older than all of that; whatever has been in the list throughout and is at or
above it has been shown, so when a query returns all it matches (`LastPageIsWhole`: a short page
and an empty page both do) nothing of it is left.

`StoreProofs` proves, for any finite sets of users and posts, any threads and mentions, and any
number of concurrent requests that fail anywhere:

| theorem | property |
|---|---|
| `StoreTypeCorrect` | `TypeOK` |
| `CountersAreExact` | `CountersExact` |
| `EventsAreOnePerChange` | `OneEventPerChange` |
| `NotifiedOnce` | `OneNotificationEach` |
| `RepliesJoinLive` | `RepliesJoinLiveThreads`, implied by the refinement of `Board` |
| `DeletedStayFrozen` | `DeletedQuestionsFrozen`, implied by the refinement of `Board` |
| `DeadlocksAreFollows` | `OnlyFollowsDeadlock` |
| `SomeoneAlwaysGoesOn` | `NeverStuck`: a request can go on, or the detector has a circle to break |
| `OvertakenBlockNobody` | nobody waits for an update that replies keep waiting |
| `WritesGoOn` | without follows in progress, a request can go on by itself |

The argument is about locks. Whoever holds a row is past the statement that takes it (`HoldInv`),
a row that is shared is visible and has no owner (`Exclusion`), and what a request has found in a
row it has locked is still so (`KeepInv`): a reply's parent and root are visible, a post to be
deleted is, an edge is there or not. So `Commit` writes what it has checked, and the data
invariants follow; `CountersExact` needs the finite-set theorems, as each commit adds or removes one
element of what a counter counts. For the deadlock, `WhoIsWaitedFor` lists whom a request can wait
for at each statement. Who is about to commit waits for nobody, so a follow in a circle waits for a
follow, and these alone would be one; without follows, a wait for a counter is one for a commit, a
wait of a reply for a post is one for a counter or a commit, and a wait of a delete for a post is one
for these or for a reply. The assumption `StoreAssumption` says that
threads are what replies make them.

`SomeoneAlwaysGoesOn` is the other half of it: the requests never come to a standstill. Which of them go
on is the matter of `RequestsAnswered`, and the exception it makes stays with the one that meets it: who
waits at a post it wants to update has locked nothing yet (`OvertakenBlockNobody`). The requests in
progress are finitely many and wait for each other only (`WaitsForBusy`). If each of them, or of any part
of them that waits only within itself, waits for another, they form a knot; of the knots among them a
smallest one is a circle (`SmallestSubset`, by well-founded induction on cardinality), which is what
the deadlock detector looks for, and by `DeadlocksAreFollows` it consists of follows.

`StoreRefinement` proves, with no further assumption:

| theorem | property |
|---|---|
| `StoreImplementsBoard` | `ImplementsBoard` |
| `ThreadsStayWhole` | published posts have published parents and roots |
| `OutcomesAreOfQuestions` | exactly the questions ever published have an outcome |

Every step but a commit (and the update of an outcome, which is its own transaction) changes nothing the
board shows. A commit is a write of the board because of what the locks keep (`KeepInv`), of what
the handler checked and nobody can change (`Granted`: who follows whom, whose post it is), and because the
counters, rows and notifications are functions of posts and edges before and after (`CountersExact`,
`OneEventPerChange`, `NotesExact`). The last two theorems are proved of `Board` in a few lines and
carried over.

`ServiceProofs` proves, under `ServiceAssumption` (that of `Fanout`) and `StoreAssumption`:

| theorem | property |
|---|---|
| `ServiceImplementsFanout` | `ImplementsFanout` |
| `ServiceClaims` | `ExclusiveClaim`, `RetryBudget` of the composition |
| `ServiceDelivers` | `DoneMeansDelivered`, `OnlyAudience` of the composition |
| `ServiceImplementsHomeFeed` | `ImplementsHomeFeed` of the composition |

A commit is the action of `Fanout` of the same name: its guard is what the request holds, the rows it
adds to the outbox are those `Enqueued` makes pending, and `OneEventPerChange` says that these had not
been there. Every other statement of a request leaves the tables the processors read alone. The last three
theorems are those of `FanoutProofs`, instantiated with the variables of the composition, so that what was
proved of one-step requests holds of requests of several statements that overlap, wait and fail.

`AgentsProofs` proves, for any instances and revisions, users, tokens, notifications and page size:

| theorem | property |
|---|---|
| `SchemaIsReady` | `SchemaReady` (of `Startup`) |
| `MigrationsApplyOnce` | `AppliedOnce` (of `Startup`) |
| `TypeCorrect` | `TypeOK` |
| `RevokedTokensStayOut` | `RevokedStaysOut` |
| `AgentsImplementInbox` | `ImplementsInbox` |
| `OnlyRecipientsMark` | `MarkedAsAsked`: the account's own request, which names it, and no other marks a notification |

The migrations need that one instance at most migrates at a time, and that what it has walked
past is in the schema or in its transaction (`StartupInv`). Revocation needs that the token of a late
request was given out and has no row (`RequestInv`), and that no step gives a row back. The refinement
needs `PagesInv`: what a request is about to show is a page of its account's notifications, and still
unread, because an account has one agent and that one is waiting for the page; and an acknowledgement under way
names all that its account has been shown. That the query's
newest rows fit on a page is a fact about finite sets of numbers (`TopOfSet`).

`AccountsProofs` proves, for any people and any number of requests, tokens and ignored errors:

| theorem | property |
|---|---|
| `AccountsTypeCorrect` | `TypeOK` |
| `AccountsAreUnique` | `UniqueAccounts` |
| `RotationIsBounded` | `RotationBound` |
| `SessionsAreIndependent` | `SessionsIndependent` |
| `BansHold` | `BanHolds` |
| `RegistrationsWaitForCommits` | registrations never wait for each other in a circle |

Uniqueness needs that the values in the indexes of open transactions are not committed, and each of
one transaction (`IndexInv`); it assumes that no name is an address (`AccountsAssumption`: a name
has no `@`). The bound needs both halves of `RotationInv`: while the row of a token is there, the
exchanges made and those past their delete are paid for by ignored errors; once it is gone, no
request finds it again, so the requests that had read it are all that can still exchange it.
`RegistrationsWaitForCommits` is the safety part of `RequestsFinish`: an insert that waits for a name
waits for one that commits next or that waits for an address, and this one for one that commits next.

`RateLimitProofs` proves, for any clients, limit and window:

| theorem | property |
|---|---|
| `RateLimitTypeCorrect` | `TypeOK` |
| `WindowsAreLimited` | `WindowLimit`: at most the limit in an open window |
| `NeverMoreThanTwice` | `TwiceTheLimit` |
| `RateLimitImplementsQuota` | `ImplementsQuota` |

`Within` says that the counter of an open window bounds what it lets through, and that what came
before it is at most the limit more; `Between`, that a window opens for a client that has been let
through at most the limit in the time of a window, and not at this very time. For the refinement the
counter of an open window is not only a bound: until it saturates it equals what the log says has
passed since the window opened (`Exact`), so that the request the counter refuses is the one the quota
refuses; and a sweep removes only entries whose window has ended, which the quota does not see.

So every invariant, every action property and every refinement of the passing runs is proved. Only model-checked is
liveness under fairness, which is outside what the prover does: `EventSettles`,
`LoyalFollowersReached`, `RequestsAnswered`, `ExpiredSwept`, `Reopens`, `WalkEnds`, `LateItemsMet`,
`RequestsFinish`, `InboxDrains` and `EveryStartServes`.

## Abstractions and why they are sound

- *Posts and accounts* are model values. A post's author, parent, thread, kind and mentions are
  constants: nothing changes them after the insert.
- *The batch of a claim* is any nonempty set of pending rows within the batch size. The query
  orders by `created_at`, but that is the start of the inserting transaction, rows that are
  locked are skipped, and `UPDATE ... RETURNING` gives them in no order.
- *Unreachable branches*: an unknown event type and a payload that does not parse cannot occur,
  as the only writers of `outbox` are the two transactions modelled.
- *Lost replies*: a statement that is committed although its caller sees an error is modelled
  where it makes a difference. A statement that reaches the database after its caller has given
  up is idempotent here (`ON CONFLICT DO NOTHING`, `DELETE`), and `Stop` before or after the
  statement covers the one in flight.
- *SIGTERM and a crash* do the same to the database: every later call of the batch fails.
- *Statements folded*: in `Store` an insert of a row nobody else can name (the post, its outbox
  row, its notifications) takes effect in `Commit`, which is when others see it.
- *Waiting*: a statement that has waited for a row is evaluated again on what is then committed,
  as READ COMMITTED does.
- *The limiter* of one instance; limits of several instances add up.
- *Persons*: a name, an address and the password that goes with them are one value, so a login with
  a wrong password is a login of nobody. `validateRegistration` comes before everything modelled.
- *Expiry*: no time is kept in `Accounts`; the row of any token may be found expired whenever it is
  read, which is more than happens. Access tokens are valid when they are used (`Agents`): they are
  signed, not stored, and a browser's is renewed while it is used.
- *Slots*: `Requests` are slots of one request each, reused at once; two requests of one client are two
  slots. An agent has one request at a time, as the skill document's loop does.
- *Drain*: between SIGTERM and the end of `Shutdown` a server answers what it has been asked; it is one
  of which nothing more is asked, and `Stop` comes after that or, at the deadline, before.

## Not modelled

- *Moderation*: a stateless filter; a refused post is a request that never begins (`Store!Begin`).
- *Profile settings*: `UpdateUser` is one statement that overwrites two columns nothing else writes;
  two forms sent at once leave one of the two, as any order of them would.
- *Logout* clears a cookie and no row (as `skill/SKILL.md:123` says).
- *Search and discovery*: the words of a query and static documents are read-only; paging through the
  results is modelled.
- *Templates, headers, configuration, static routes*: no state beyond a request. Which routes an
  instance serves and that they need a user is part of `Agents`.
- *Agent actions, `UpdatePostStatus`*: nothing calls them. `UpdateUserRole` is not called
  either, but the code reads the role: `Ban` sets it.

## What could come next

1. The progress theorems as liveness: `SomeoneAlwaysGoesOn`, `OvertakenBlockNobody` and
   `RegistrationsWaitForCommits` are the safety half of `RequestsAnswered` and `RequestsFinish`; the other
   half is fairness, which stays with TLC.
2. An abstract specification of the sessions (`Accounts`): what a refresh token yields when rotation races
   with itself is bounded by `RotationBound`, but no module says it without statements.
3. Several agents of one account: pages then relate to the agent, not the account, and one may be shown
   what another one has just acknowledged; `ImplementsInbox` would have to promise less.
