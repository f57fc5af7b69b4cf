# Gaggle: specifications and proofs

Gaggle is a social network: a Go server (`src/server`) over PostgreSQL and Redis, and a
React client (`src/web`). This directory holds TLA+ modules of the server's components, the
TLC runs that check them on small instances, and proofs, checked by TLAPS, for instances of
any size. `PROJECT.json` maps every definition to the lines it models and lists runs,
mutants, hazards, findings and theorems.

    tlc -workers 2 -config Hub.cfg MCHub     # one run
    tlapm HubProofs.tla                      # one module's proofs

Paths below are relative to `src/server/internal` unless they start with `src/`.

## The system

Every HTTP request is a goroutine. Requests share the PostgreSQL tables (each SQL
statement of its own, or several in a READ COMMITTED transaction: `BeginTx(ctx, nil)`),
the Redis cache, and one in-memory object, the hub. There are no server-side locks but the
hub's, no queues but its channels, and no background jobs but the metrics sampler. What is
hard is therefore what happens between two statements of a request.

| Component | Module | State it keeps | Hard part | What makes it correct |
|---|---|---|---|---|
| Refresh-token sessions (`service/auth_service.go`, `store/auth_store.go`) | `AuthSessions`, `SessionFamily` | rows of `refresh_tokens`, grouped in families by `session_id` | concurrent rotations and revocations, rollbacks, lost responses | one usable token for each family; a family that has ended stays ended |
| Realtime hub and stream handler (`realtime/hub.go`, `handlers/realtime_handler.go`) | `Hub` | map of buffered channels under an RWMutex | publishers share the read lock; channels fill; `close` | never send on a closed channel; never block a writer; a lost event is made up for |
| Relationships (`service/user_relationship_service.go`) | `Relationships`, `FollowGraph` | `user_relationships`, counters on `user_profiles` | checks on another connection than the transaction, trigger row locks, deadlocks, a pool of connections that runs out | counters equal rows; a block excludes the follow; one notification; nothing but the pool brings requests to a halt |
| Home-feed cache (`cache/cache.go`, `handlers/post_handler.go`) | `FeedCache` | one entry for each user and page, with a TTL | read, query and SET against commit and DEL; failures half way | what is stale is known and ends |
| Listings (`store/post_store.go`, `service/post_service.go` and the page of every handler) | `Feeds` | none; rows that change between pages and between the statements of a page | cursors against orders, deletes and follows in the middle of a walk | nothing is skipped or shown twice; a page fails only by a race; nothing unseen is served |
| Posts (`service/post_service.go`, `store/post_store.go`) | `Posts` | posts, edit history, hashtags and mentions, pins | edit, pin, reply to a thread that is being deleted | one pin; complete history; an index that follows the text; no orphan |
| Engagement and polls (`store/post_engagement_store.go`, poll service) | `Engagement` | likes, reposts, bookmarks and categories, views, votes; counters by trigger | racing inserts and deletes of a key, a counter and a flag read apart | counters equal rows; one vote; notified once |
| Notifications and direct messages (`service/notification_service.go`, `service/dm_service.go`) | `Inbox` | rows; unread badges pushed through the hub | the count is read and published later, without an order; no transaction around two statements | the badge converges; who is blocked stays out |
| Sign-up and Google sign-in (`service/auth_service.go`, `store/user_store.go`) | `Accounts` | `users` with their unique keys | three look-ups outside of the transaction that follows | one account for one identity |
| Settings and profile (`service/user_service.go`, `store/user_store.go`) | `Settings` | the settings row, the privacy flag, the profile | a read, a write of the whole row and a flag, apart | the flag agrees with the settings once requests have ended |
| Lists (`service/list_service.go`) | `Lists` | lists and members | who owns it is read before | only the owner changes a list |
| Media (`service/media_service.go`) | `Media` | rows and files | a file is covered by no transaction | a row has its whole file |
| Badges (`service/badge_service.go`) | `Badges` | definitions and grants | look, then write | a grant lasts until it is revoked |
| Mail intake (`handlers/mail_handler.go`, `store/mail_store.go`) | `Mail` | received mails | redelivery, several recipients of one Message-ID, nested and damaged MIME parts | a row for what was answered, one for a Message-ID, with its first text |
| Rate limiter (`cache/cache.go` `Allow`) | `RateLimit` | a counter with an expiry | two commands that are no transaction | no window holds more than the limit |
| Web client (`src/web/src/contexts`) | in `Inbox` | badges, a stream | events as reasons to ask again | – |

They interact so: handlers call services, services call stores in transactions of their
own; relationships, posts and engagement call notifications; notifications and messages
publish through the hub; posts invalidate the cache of the author and of the followers that
relationships name; the stream handler asks the sessions, every 15 seconds, whether it may
go on; listings read what all the others write.

## What is modelled

### AuthSessions (with SessionFamily)

One request is a process with a program counter `pc`; every SQL statement is an action.
`state[t]`, `family[t]` and `agent[t]` are the committed row of token `t`; `lock` the row
locks. The database is modelled at the level the code depends on:

- a row written by an open transaction is invisible to others: the successor is `new[r]`
  until the COMMIT makes it a row;
- a statement that locks (`UPDATE`, `SELECT ... FOR UPDATE`) has two actions: it *begins*
  with a snapshot `snap[r]` (`SelectActive`, `RevokeBegin`), and *ends* after it has waited
  for the rows of the snapshot and read them again (`LockActive`, `RevokeEnd`). This is
  where the code's assumptions about concurrent statements are decided;
- COMMIT and ROLLBACK give up the locks (`Unlock`).

| Action | Code |
|---|---|
| `Login` | `Login`, and as far as the table goes `Register`, `GoogleAuth`: one INSERT |
| `Refresh` | `RefreshToken` up to the transaction: `GetRefreshToken` decides between rotation, benign replay, theft, and a session that is over |
| `InsertSuccessor`, `RotateRefreshToken`, `CommitRotation` | the transaction of `RefreshToken`, and of `rotateCurrentActiveToken` with its three attempts |
| `SelectActive`, `LockActive` | `GetCurrentActiveToken` |
| `Logout`, `RevokeBegin`, `RevokeEnd` | `Logout`, and `RevokeSession` for logout and theft |
| `Fail` | any statement that fails, a cancelled context, a process that dies: the deferred ROLLBACK |

`reply` holds the last response for the properties that speak of responses. `Budget` is a
bound: tokens are finite in an instance, and an operation starts only when one is left for
it, so that no run ends for want of tokens.

`SessionFamily` is the abstract specification: for each login one current token that is
opened once, moves forward to tokens never used before, and is closed for good.
`ImplementsFamily` states that the table implements it; the mapping `Current`, `Used` is at
the end of `AuthSessions`.

### Hub

The three `select` statements of `Publish` are three actions (`Send`, `DropOldest`,
`SignalResync`), because publishers share the read lock. `Subscribe` and the delete of
`cancel` run under the write lock and are one step each, possible only when no publisher
runs; a writer that waits keeps new publishers out. `CloseChannel` is outside of the lock,
as in the code. `stale` and `crowded` are not state of the code: the first remembers which
clients have lost an event since they last read a resync, the second on which channels two
publishers have met.

### Relationships (with FollowGraph)

Rows are triples; an open transaction has the rows it has deleted (`del`), inserted (`ins`)
and the counter updates of its trigger, done (`delta`) and to do (`work`). The trigger's
updates lock one profile row after the other (`TouchProfile`), as the rows of a DELETE are
visited one after the other (`DeleteRow`). `Exists` and `GetRelationshipStatus` read what is
committed, on another connection than the transaction. Unique keys make an INSERT wait for
transactions that insert or delete the key (`Reserved`). `DeadlockAbort` is PostgreSQL's
detector; what it does not see is the pool. `pool` is the size of the pool as configured
(`DB_MAX_OPEN_CONNS`), `conn` the requests whose transaction has a connection: `BeginTx`
waits for one and keeps it until `EndTx`, and a statement outside of the transaction
(`ReadStatus`, `CheckBlocked`, `CheckExists`, `Notify`) needs one more for its time (`Spare`).
`notes` counts the notifications of a follow since it began, as long as the pair has not
`met`: the pairs on which two requests were in flight at once. Both are there for the
properties.

That requests never all wait cannot be promised: follows and mutes that hold every
connection and ask for another (`AskForMore`) do, until a client goes away (`Fail`).
`OnlyThePoolHangs` says that this is the only way. It would fail if a transaction asked the
pool for anything after its first lock, for then others could wait for that lock, with
connections, in a cycle that no detector ends; the mutant is a block that asks whether it is
there after its deletes. The pool of the model serves these requests alone: those of the
other handlers come and go.

`FollowGraph` is the abstract specification, without requests, statements or locks: rows
come and go one at a time, a block takes the rows between the two with it, who is blocked
cannot follow, and the counters are the numbers of follows at every moment. Of pairs in
`raced` less is promised: a follow may pass a block, a block may leave rows standing.
`ImplementsGraph` states that `rel`, `count` and `met` implement it; that a block excludes
the follow when requests come in turn (`BlockExcludesFollowInTurn`) is a consequence.

### FeedCache

A reader is three actions (`Miss`, `Query`, `SetHomeFeed`), a writer the commit
(`WritePost`, `DeletePost`, `Quote`) and then one action for each invalidation. `Expire` is
the TTL. `Skip` is a DEL that fails (logged, and the next user has its turn), `Fail`
whatever ends a request early. A feed is the set of posts with their versions that the
query would show; a pin is an edit. `outdated` marks, for the properties, the feeds that
are known to be stale. Likes, reposts and votes drop the actor's own entry: to the model
that is an expiry.

### Feeds

A client walks one of 21 listings page by page (`Handle*` is the handler's own guard). A
store query is an operator that gives the pages it may return: the rows of the WHERE clause
after the cursor, in the order of the ORDER BY, cut at the limit, with the cursor that is
handed out, as time, as time cut to the second, or as an ID. Rows with the same time come
in any order. The posts are then read one by one (`Hydrate`), whom the viewer follows and
who is private by two more queries (`GetRelationshipStatuses`, `FilterVisiblePosts`). The
environment deletes a post, changes a follow or the privacy of an account, or removes a
like between any two of these. `stable` remembers what stood throughout, `could` what the
viewer was allowed to see at some moment of the request.

### Posts

Each statement of a transaction is an action. `tx[r]` is the open transaction of a request:
its next statement, the rows it has written (invisible until the COMMIT, and locked), what
was read before it began. `UpdateRow`, `DeleteRow`, `ClearPin` and `SetPin` wait for row
locks and read again what is committed, as READ COMMITTED does; `SetPin` asks the partial
unique index. `late` and `past` are there for the properties: the posts whose writer has
met another transaction, and the texts a post really had.

### Engagement

`rows` are likes, reposts, bookmarks and views; a transaction holds the key it has inserted
or deleted (`Holds`, `KeyFree`) and then the row of the post for the trigger's update
(`UpdateCount`). `CheckReference` is the foreign key of a bookmark's category, `Unfile` its
`ON DELETE SET NULL`. A reader is the statements a post is shown from: its row with the
counters, the viewer's own marks, the votes of each option, the viewer's own vote. Every
route of a post asks first whether it is there (`SetPostContext`); `RequirePostVisible`, which
the adding ones ask besides, can also refuse one that is there, which is no step.

### Inbox

A task is a request that notifies, sends, or marks read; its statements are not in a
transaction, and `PublishUnreadCount` reads the count that `Answer` and the events have
announced. The client takes an event as a reason to ask for the count (`HandleUnreadCount`,
`ShowCount`), and a resync or a new stream for both counts (`Greet` is the count the stream
begins with). `astray` marks the badges that a fault has made wrong for good.

### Accounts, Settings, Lists, Media, Badges, Mail, RateLimit

One action for each statement or transaction, with what can fail in between.
`Accounts` has `FindIdentity`, `FindEmail`, `LinkGoogleID` and the sign-up transaction with
its usernames to try. `Settings` reads the row, writes it and then the flag. `Lists` checks
the owner (`Serve*`) and then writes. `Media` has the row, the file and the COMMIT as three
steps of an upload, and in another order of a deletion. `Badges` looks at a definition and
its grants and then writes. In `Mail` a delivery carries a message to one of its recipients
(`Envelope`), and may come again. A message is the sequence of its parts as they are written,
each with the multipart it is `inside`; a text is found, is missing, or is `Blank`: line ends
only, which the walk takes for a text and `PreferText` does not. `RateLimit` has INCR and EXPIRE as two commands on a clock of ticks.

## Runs

| Run | Instance | States | Shows |
|---|---|---|---|
| `auth_sessions` | 4 tokens, 2 logins, 2 requests, 2 headers | 122,000 | safety of the table and of the transactions |
| `auth_sessions_live` | 4 tokens, 1 login, 2 requests | 40,000 | every request is answered; `SessionFamily` is implemented |
| `auth_logout_race` | 3 tokens | – | **violation**: a logout that misses a rotation's successor |
| `auth_replay_race` | 4 tokens | – | **violation**: a replay told `session_expired` with a live token there |
| `hub` | 2 publishers, 2 streams of a user, capacity 1 | 73,000 | no send on a closed channel, no blocking, losses signalled |
| `hub_lost_resync` | 2 publishers, 1 stream, capacity 2 | – | **violation**: the resync itself is dropped |
| `relationships` | 2 users, 2 requests, all three kinds, a pool of 1, 2 or 3 connections | 1,127,000 | counters, one notification, no halt but at the end of the pool; `FollowGraph` is implemented |
| `block_follow_race` | the same, a pool of 3 | – | **violation**: a follow survives a block |
| `feed_cache` | 2 users, 1 post of 2 versions, 2 requests, faults, changing follows | 31,000 | what can be stale, and that it ends |
| `feed_cache_race` | the same, no faults | – | **violation**: a deleted post is cached after its delete |
| `api` | eleven parts, two requests of each | 813,000 | the components of the API, each by its own properties |
| `google_username` | 2 identities, 2 sign-ins | – | **violation**: a sign-up refused while another username is free |

`api` is one run for the eleven parts that keep tables of their own: a behaviour picks a
part in the beginning, and the others rest with no state, so the run is the union of eleven
instances and not their product. `Parts` declares the constants and variables of nine of
them and instantiates their modules; `Api` adds `Posts` and `Engagement`, instantiated under
their proofs, and puts all beside each other. `MCApi` extends `ApiProofs` and assumes
`ApiAssumptions`, `FeedsSerial` and `Threaded`, so that TLC evaluates on the instance what
the theorems assume. The parts meet in the code where one reads what another writes; there
the reading module has the other as its environment (`Feeds` the deletes, follows and
privacy; `Engagement` the deletes; `Inbox` blocks, mutes and settings).

| Part of `api` | Instance | Property |
|---|---|---|
| `Feeds` | 4 posts, equal times and equal seconds, every listing, limits 1 and 2, 2 changes | `WalkShowsAll`, `FailsOnlyByRace`, `ServedWasVisible` |
| `Posts` | a post, its reply and room for a third, 3 requests, 2 hashtags in both orders | `OnePin`, `EditsAreKept`, `ThreadsFallWhole` |
| `Engagement` | a post, 2 users, 2 clients, a category each; bare, or liked, reposted and filed | `CountersMatch`, `KeysAreKept` |
| `Inbox` | 2 users, 2 tasks, blocked and muted or not, one fault or change | `BadgesConverge`, `BlockedStayOut` |
| `Accounts` | 2 identities, one with two emails, 3 visits | `OneAccountEach` |
| `Settings` | 2 devices, 3 requests | `SettingsInTurn` |
| `Lists` | 2 lists, 2 users, 4 requests | `ListsAreTheirOwners` |
| `Media` | 2 files, 4 requests | `MediaIsWhole` |
| `Badges` | 2 badges, 2 admins, 5 orders | `GrantsLast` |
| `RateLimit` | 2 connections, limit 2, window 2, 4 ticks | `WindowHolds` |
| `Mail` | 5 messages with nested, damaged, attached and blank parts, one without a Message-ID, two of one, one or two recipients each, 3 deliveries | `MailIsKept` |

Bounds, and why they are enough. Two requests at a time show every pairwise interleaving;
each of the findings needs two, and no guard of the code depends on a third. With two
requests a pool of one or two connections runs out and one of three does not; the proof is
for every size and any number of requests. Four tokens
let a family be rotated twice while another is opened. The channels of capacity one (the
code has 16) are full after one event, so overflow, drop and resync meet in every order;
the proofs hold for every capacity. Two users are one pair in both directions, all that a
relationship concerns. Four posts and pages of one or two are walks of several pages with
rows of the same time on both sides of a cursor. Three requests on posts are two that
overlap and one that comes after, which sees what they have left. In `Inbox` the badges of
one user are watched, and a behaviour has one change of relationships or one break of the
stream: what a second one adds is another badge that is marked. `MaxRequests`, `MaxCalls`,
`MaxNotes`, `MaxVersion`, `MaxChanges`, `Asked` and their like bound counters and inputs.
Symmetry is used in runs of invariants and action properties only.

Deadlock is checked in every run but `api` and `google_username`: there the number of
requests is bounded and a behaviour ends when they have been served. Transactions that wait
for each other are ended by PostgreSQL (`Fail`, `DeadlockAbort`).

Fairness. `AuthSessions!FairSpec` assumes strong fairness of the statements of a request:
PostgreSQL serves lock queues in order, so a request whose lock is free again and again
gets it. `Hub!FairSpec` assumes weak fairness of publishers and of streams that hold or
want the lock (goroutines that can run do); nothing is assumed of the clients: `Receive` is
not fair. `FeedCache!FairSpec` assumes that requests go on and that entries expire.
No client action is ever fair.

## What disagrees with the code's own words

1. *Logout* (`store/auth_store.go:153`). `RevokeSession` "revokes every token in a session
   family", but its snapshot has no successor of a rotation that is still open.
2. *Benign replay* (`service/auth_service.go:140`, `store/auth_store.go:120`). The second of
   two replays does not "see the first's fresh token": its `FOR UPDATE` query returns no
   row, that is not tried again, and the client is told the session has expired. The retry
   that the code has is for the UPDATE, which is proved never to need it.
3. *Resync* (`realtime/hub.go:53`). With two publishers the slot made for the resync can be
   taken, and the client stays stale.
4. *Block* (`service/user_relationship_service.go:62`). A concurrent follow survives it.
5. *Deleted posts* (`handlers/post_handler.go:394`). A reader can cache one after the
   invalidation, for the whole TTL.
6. *Usernames* (`service/auth_service.go:527`). "Try base username, then suffixed variants":
   a taken username ends the loop, whose `continue` waits for another error code.

Read while modelling. The models have these as the code has them, and the properties name
them as exceptions, or the behaviour is outside of what a property speaks of.

- *Listings.* The second page of followers always answers 400. Followed users are listed by
  time with a cursor that compares IDs; the next cursor of likers and reposters is that of
  the first page. The cursors of quotes, liked posts and bookmarks are cut to the second and
  skip rows of the same second. A page of replies fails once any reply of it is deleted. A
  deleted ancestor ends the chain of parents early. `has_more` comes with an empty cursor
  when the second read of the page's last post fails.
- *Posts.* A quote may answer a deleted post, and is announced without being read back.
- *Messages.* `attachParticipantSummary` counts as unread the viewer's own messages that the
  other has not read. A conversation whose first message failed breaks the inbox of both.
- *Relationships.* Follows and mutes that hold every connection of the pool while `Exists`
  asks for one more (`service/user_relationship_service.go:83`) wait for each other, until a
  client goes away; nothing sets a deadline. Of a pair that is blocked and muted either row may be the one that is
  read, so that a message of the blocked user can come through. `InvalidateHomeFeed` says it is called after
  follows and unfollows (`cache/cache.go:75`), and is not. The correction of counters in
  migration 000019 changes nothing.
- *Sign-up.* The "non-fatal" UPDATE of `display_name` aborts the transaction when it fails,
  so that the COMMIT fails too; `displayName[:50]` may cut a character in two. The
  User-Agent is stored cut at 255 bytes and compared uncut (`service/auth_service.go:285`,
  `:131`).
- *Settings.* A profile update is stored and answered with 500 when the badges cannot be read.
- *Badges.* `DeleteBadge` drops a grant that was made after it had counted none.
- *Mail.* A mail to two recipients comes twice with one Message-ID: the second is answered
  `received: true, duplicate: true` and has no row, so that it is never listed for its recipient
  (`store/mail_store.go:27`, `handlers/mail_handler.go:75`). A first plain part of blanks keeps
  out later ones, for the walk tests for the empty string (213, 241), and is then not preferred
  to the HTML, for `preferText` trims it (184). A damaged part drops the text found next to it
  in the same multipart; parts without a Content-Type are skipped.
- *Rate limiter.* `Allow` says it sets the expiry on the first hit (`cache/cache.go:95`),
  and sets it on every hit: a client that keeps trying is kept out.
- *Web client.* It ignores the counts that are published and asks; the message badge is not
  asked for again after a reconnect; mark-all-read clears the badge and does not put it back
  when the request fails.
- *Media.* `DeleteByID` removes the file before the COMMIT; no handler calls it. An upload of
  several files that fails midway leaves those before.

## Proofs

Each invariant is proved from an inductive one, `IInv` or, for a part of the API, `...Inv`:
it holds initially, each action preserves it (one lemma for each), and it implies the
invariant. Action properties and the refinement follow from the same invariants, step by
step. The modules prove, for constants of any size:

- `AuthSessionsProofs`: from the assumptions named in `AuthSessions` (the markers are not
  tokens, sessions or requests). `AtMostOneActive` is not inductive: that a commit retires
  what its successor replaces follows from the row lock (`LockInv`), which follows from what
  each statement works on (`RequestInv`, `SnapInv`), and two requests must not insert the
  same token (`SuccessorInv`). `IInv` joins these with `AtMostOneActive` and
  `RotationKeepsSession`; the other invariants follow from it. Then what a step may never do.
  Only three steps write rows, and `LoginRows`, `CommitRows`, `RevokeRows` say how:
  `RevocationIsFinal`, `ClosedStaysClosed` and `RevokeEndsWhatItSaw` are cases over them. So
  is `ImplementsFamily`: under the mapping `Current`, `Used` a login opens a family, the
  COMMIT of a rotation advances it, a revocation closes it or stutters, and all else
  stutters. For that every row must have a family (`Housed`), and a family one usable token
  before and after the step, which is what `AtMostOneActive` is for.
- `HubProofs`: for any publishers, streams and capacity. `SendsGoToOpenChannels` follows
  from the place of each stream (`StageInv`) and that a publisher's loop holds only channels
  in the map (`LoopInv`), because writers wait for readers. `LossIsSignalledAlone` needs a
  second invariant: a publisher that has made room still finds it (`RoomInv`), unless
  another has met it there.
- `FeedCacheProofs`: for any users, posts and authors, with or without faults.
  `QuietCacheIsFresh` needs that a stale feed is marked or will be dropped by a write under
  way (`PendingInv`). So four things leave a feed stale, and nothing else does: a reader
  overtaken by a write, a change of follows, a quote, and a failed invalidation.
- `RelationshipsProofs`: for any users and any number of requests, rolled back anywhere.
  `CountsMatchRows` is not inductive: a transaction counts a follow one profile after the
  other, and only at the COMMIT do rows and counters change together. `Balanced` says that
  what a trigger has counted (`delta`) and has still to count (`work`) is what its finished
  statements have inserted and deleted; that the work of two requests adds up needs that each
  row and key belongs to one transaction (`Locks`), and that rows are finitely many.
  `BlockExcludesFollowInTurn` and `NotifiedOnceInTurn` are about requests that the pair has
  met one at a time (`Alone`): `InTurn` says what such a request knows at each statement, as
  that a follow which has passed its check has no block against it, and that a block which is
  about to be inserted has deleted the follow.
  `ImplementsGraph` is step by step: two requests that meet on a pair are a race, the COMMIT
  of a follow or mute creates its row, that of an undo removes one, that of a block replaces
  the rows of the pair, and all else stutters. A block whose request was alone must have
  deleted every row between the two when it commits, though it deletes in two statements and
  row by row; `Swept` says at each of these what is deleted and what is still to visit.
  `OnlyThePoolStops` is `OnlyThePoolHangs` without ENABLED (`Ready` joins the guards of the
  statements). Locks and keys belong to transactions with a connection (`Connected`) that are
  past the questions of `Exists`; those that ask for nothing more (`Holding`) therefore wait
  for each other only, and if there is one, some can go on or are in a cycle that the database
  ends. If there is none, either the pool has a connection for whoever asks, or it is used up
  by transactions that ask for another.
- `PostsProofs`: for any posts, authors, requests, texts and hashtags, from `Assumptions`
  (`None` is none of them, and what there is in the beginning has its type). The base is
  that an open transaction has written only rows that it has locked or that nobody else
  knows (`HeldBy`, `OneInserts`) and what each stage knows (`Knows`). `OnePin` is not
  inductive: two transactions must not have set pins of one author that neither has
  committed (`PinsOf`, `PinsOfTwo` in `PinInv`), which is what `SetPin` asks the index for.
  `EditsAreKept` needs that the hashtags a transaction has deleted are those of the committed
  text (`TextOf`, by the row lock), and that a request that has met nobody still knows the
  text it read before its transaction began (`MetOf`).
  `ThreadsFallWhole` speaks of threads of any depth. The recursive query collects level by
  level (`Below`), as many levels as there are posts; a level has more posts than its number
  or is closed under replies (`LevelGrows`, by a least counterexample), so the last one is
  closed (`DescendantsClosed`). In the invariant (`ThreadInv`) a parent is there
  (`ParentsThere`), a row that is written hangs where it hung and falls in a delete only
  (`KinOf`), a new one hangs from what stands unless it quotes or has met another transaction
  (`HangsOf`), and what a delete has locked or will lock has nothing below it but what it will
  lock too and what has met another (`FallsOf`). The assumption is `Threaded`: posts are
  finitely many, and a post of the beginning replies to one of the beginning (`parent_id` is a
  foreign key).
- `EngagementProofs`: for any posts, users, options, categories and requests, from
  `Assumptions` (users and requests are finitely many, `Nil` is no category, and
  the tables agree in the beginning). That counters are the numbers of rows needs that what a
  transaction has inserted is not there yet and what it has deleted still is (`KeyInv`), which
  needs that two of them do not hold one key (`Apart`). That a bookmark's category exists needs
  that nobody deletes one to which an open transaction refers (`RefInv`); that a like is
  notified once needs the notifications on their way (`NotesInv`).
- `PartsProofs`: the nine parts of `Parts`, each from an invariant of its own and the few
  assumptions named before it (`...Assumptions`: markers are not values, what there is in the
  beginning has its type).

  | Part | What is proved | What it needs |
  |---|---|---|
  | `Feeds` | `ServedWasVisible` | what the filter will let through, with the follows it has read and the accounts private now, could be seen since it read them (`FeedsFilter`) |
  | `Badges` | `GrantsLast` | a grant that was acknowledged is held, is owed by an open transaction, or its badge has met a delete (`BadgesOwed`, `BadgesHeld`); the row lock keeps grants and deletes apart (`BadgesApart`) |
  | `RateLimit` | `WindowHolds` | numbers handed out within a window differ and a counter outlives its window (`LimiterStanding`, `LimiterApart`), so an injection into `1 .. MaxPerWindow` bounds them |
  | `Settings` | `SettingsInTurn` | what a request that has met no other has read and written at each statement (`SettingsKnows`), and that an open one which has met none is the only one (`SettingsByOne`) |
  | `Lists` | `ListsAreTheirOwners` | what was checked of the owner is not stale: a list that is there keeps its owner, a deleted ID does not come back (`ListsKnows`) |
  | `Media` | `MediaIsWhole` | a UUID belongs to one request (`MediaApart`), a file is written whole before its row and removed after it (`MediaKnows`, `MediaThere`) |
  | `Accounts` | `OneAccountEach` | what was looked up still holds for an identity whose sign-ins do not overlap (`AccountsKnows`); the unique keys hold of inserted rows (`AccountsUnique`) |
  | `Inbox` | `BlockedStayOut` | the ghost `held`, what has stood against a request since it began, less what its checks have seen to be away (`InboxKnows`) |
  | `Mail` | what was answered as received has its row or that of its Message-ID, and a Message-ID one row | the answer comes after an INSERT, its own or another's (`MailStays`); the unique index (`MailApart`) |

- `ApiProofs`: two long arguments about parts, and then the whole.

  *What a walk shows* (`FeedsWalks`, for any rows, times and page sizes). Neither
  `WalkShowsAll` nor `FailsOnlyByRace` is inductive. `FeedsWalk` is: a page is what comes
  after its cursor, and its own cursor comes after the page, so that nothing is shown twice
  (`FeedsOnce`); what stood throughout was shown, is on the page that is being read, or comes
  after the cursor (`FeedsWhole`); a page whose posts have gone was read before the last
  change (`FeedsRace`). This rests on the pages of each query being so (`FeedsAnswers`), which
  is proved once for every way to cut a page: by time and ID (`FeedsByKey`), by time
  (`FeedsByTime`), by second (`FeedsBySecond`), by a time cut short for followers, by a cursor
  that does not agree with the order, and along a chain of parents. LIMIT needs that a finite
  set has a least element, and ancestors that the chain of a post is strictly older at each
  step (`FeedsClimb`); both go by a least counterexample, for which the library's theorems
  about well-founded orders do. The assumption is `FeedsSerial`: rows are finitely many, their
  IDs and times are numbers, and a post is newer than the one it replies to, because `post_id`
  is SERIAL and `parent_id` a foreign key
  (`cmd/migrate/migrations/000005_create-posts.up.sql:2`).

  *What badges come to show* (`InboxTruth`). That a badge shows the count
  once all is quiet (`BadgesConverge`) is not inductive, for a count may be changed, read,
  announced and asked for by different requests in any order. Inductive is that the client
  shows the count or holds an answer with the count (`InboxAgrees`), or there is a reason for
  it to ask again: it has been told, has lost its stream or an event, or a request that has
  written has still to tell it (`InboxReason`); with it goes that a conversation has a
  message, or its first is on its way or has failed (`InboxOpens`).

  *The whole*: a behaviour stays in one part (the `...Alone` lemmas), so what holds of the
  part holds of `Api`; each property of the `api` run that is proved is a theorem about
  `Api!Spec`. `ApiTypeOK` is proved of all eleven parts.

Only model-checked. Liveness (`EveryRequestAnswered`, `PublishEnds`, `LeaversGo`,
`DeletedFades`) and `OnlyThePoolHangs`, which speaks of ENABLED, are out of the prover's reach.
`OnlyThePoolStops` is the latter without it. Of `MailIsKept`, what it says of the parser
and of listings is computed by folds and by sorting, and would take an induction over data;
the rest is the theorem `MailStaysOnce`. `RetiredRowIsHeld`, `LockedRowStaysActive` and
`BlockExcludesFollowInTurn` are theorems that no run repeats. The provers are trusted with
what they discharge (Z3, Zenon, LS4); nothing else is assumed but what is named above.

## What is not modelled

Expiry and signatures of tokens; the check of a stream against its session; the contents of
events; the limit that a cached page's key leaves out. A cached feed is one entry, and SCAN
with DEL one step: a key that SCAN misses is as good as set after the DEL. The hydration of
posts with media, news and polls adds columns and drops no row. PostgreSQL, Redis, the Go
runtime and Google are modelled from how the code uses them.

Components without a module, and why: JWT and hashing are pure functions of libraries;
the metrics sampler inserts what it measures and the admin pages are reading queries; the
router and configuration are wiring without state; the seed generator fills a development
database; previews of links fetch a page and keep nothing; `docs/docs.go` is generated.
