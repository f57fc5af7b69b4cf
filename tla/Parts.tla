------------------------------- MODULE Parts -------------------------------
(***************************************************************************)
(* The smaller parts of the API, each an instance of its own module with   *)
(* constants and variables of its own. Api puts them beside Posts and      *)
(* Engagement; what holds of each of them is proved in PartsProofs.        *)
(***************************************************************************)
EXTENDS Integers, Sequences, FiniteSets

CONSTANTS
  None,    \* what is not there, in every part
  User,    \* of listings, and of the inbox
  Req,     \* requests of Lists, and of Posts
  Conn,    \* requests of Media and RateLimit
  \* Feeds
  Viewer, Owner, Listed, PerSecond, ListingStart, MaxListingChanges,
  \* Inbox
  Task, RelAtStart, Changeable, Watching, Flaky, MaxTasks, MaxChanges,
  \* Settings
  Visibility, Theme, Bio, Device, MaxSaves,
  \* Lists
  List, Title, Person, Deleted, MaxListCalls,
  \* Media
  Medium, Article, MaxFiles, MaxUploads,
  \* Badges
  Badge, Label, EarnedOnes, Holder, MayLeave, Admin, MaxOrders,
  \* RateLimit
  Path, Host, MaxPerWindow, Window, MaxClock, MaxHits,
  \* Accounts
  Sub, EmailsOf, Email, Name, TrialsOf, Browser, MaxVisits,
  \* Mail
  Message, IdOf, PartsOf, ToOf, Blank, TextOf, Courier, MaxDeliveries

VARIABLES
  \* Feeds
  posts, marks, removed, follows, private, listing, limit, wanted, cursor, shown, twice,
  step, ids, next, following, could, asked, stable, feedChanges,
  \* Inbox
  rel, mentionsOff, notifications, conversations, messages, badge, fetch, stream, resync, task,
  astray, broken, started, changes,
  \* Accounts
  users, visit, state, entered, blurred, visits,
  \* Settings
  settingsRow, isPrivate, profile, request, meant, unsettled, saves,
  \* Lists
  lists, members, call, calls,
  \* Media
  media, files, torn, links, conn, given, doomed, taken, uploads,
  \* Mail
  mails, delivery, sent, received,
  \* Badges
  badges, grants, left, order, owed, crossed, orders,
  \* RateLimit
  clock, hits, expires, passing, admitted, arrived

ofFeeds == <<posts, marks, removed, follows, private, listing, limit, wanted, cursor, shown, twice,
  step, ids, next, following, could, asked, stable, feedChanges>>
ofInbox == <<rel, mentionsOff, notifications, conversations, messages, badge, fetch, stream, resync,
  task, astray, broken, started, changes>>
ofAccounts == <<users, visit, state, entered, blurred, visits>>
ofSettings == <<settingsRow, isPrivate, profile, request, meant, unsettled, saves>>
ofLists == <<lists, members, call, calls>>
ofMedia == <<media, files, torn, links, conn, given, doomed, taken, uploads>>
ofMail == <<mails, delivery, sent, received>>
ofBadges == <<badges, grants, left, order, owed, crossed, orders>>
ofRateLimit == <<clock, hits, expires, passing, admitted, arrived>>

-----------------------------------------------------------------------------
F == INSTANCE Feeds WITH
  Post <- Listed, NoPost <- None, Start <- ListingStart,
  MaxChanges <- MaxListingChanges, changes <- feedChanges

I == INSTANCE Inbox

S == INSTANCE Settings WITH
  NoValue <- None, MaxRequests <- MaxSaves, row <- settingsRow, requests <- saves

L == INSTANCE Lists WITH NoTitle <- None, MaxRequests <- MaxListCalls

D == INSTANCE Media WITH Void <- None, MaxRequests <- MaxUploads, requests <- uploads

B == INSTANCE Badges WITH Unset <- None

R == INSTANCE RateLimit WITH Direct <- None, conn <- passing

A == INSTANCE Accounts WITH Nobody <- None

M == INSTANCE Mail WITH NoText <- None
=============================================================================
