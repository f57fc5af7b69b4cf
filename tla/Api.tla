-------------------------------- MODULE Api --------------------------------
(***************************************************************************)
(* The API without its sessions: eleven parts of the server that keep      *)
(* tables of their own, side by side. A behaviour is one of the part that  *)
(* is named in the beginning, and the others rest. Posts and engagements   *)
(* are instantiated with their proofs, which ApiProofs cites.              *)
(***************************************************************************)
EXTENDS Parts

CONSTANTS
  \* Posts
  Post, Author, Text, Tag, TagsOf, Parents, InitialText, MaxWrites,
  \* Engagement
  Item, Fan, Option, Category, OwnerOf, Client, AtStart, MaxCalls

VARIABLES
  part,
  \* Posts
  row, history, indexed, rowLock, tagLock, tx, announced, writes, late, past,
  \* Engagement
  rows, filed, votes, categories, count, postLock, engaging, gone, ended, notes, made, engagements

ofPosts == <<row, history, indexed, rowLock, tagLock, tx, announced, writes, late, past>>
ofEngagement == <<rows, filed, votes, categories, count, postLock, engaging, gone, ended, notes,
  made, engagements>>

P == INSTANCE PostsProofs WITH FirstText <- InitialText, MaxRequests <- MaxWrites, started <- writes

E == INSTANCE EngagementProofs WITH Nil <- None, call <- engaging, calls <- engagements

-----------------------------------------------------------------------------
Part == {"feeds", "posts", "engagement", "inbox", "settings", "lists", "media", "badges", "limiter",
         "accounts", "mail"}

(* a part that rests has no state *)
RestFeeds ==
  /\ posts = None /\ marks = None /\ removed = None /\ follows = None /\ private = None
  /\ listing = None /\ limit = None /\ wanted = None /\ cursor = None /\ shown = None
  /\ twice = None /\ step = None /\ ids = None /\ next = None /\ following = None /\ could = None
  /\ asked = None /\ stable = None /\ feedChanges = None
RestPosts ==
  /\ row = None /\ history = None /\ indexed = None /\ rowLock = None /\ tagLock = None /\ tx = None
  /\ announced = None /\ writes = None /\ late = None /\ past = None
RestEngagement ==
  /\ rows = None /\ filed = None /\ votes = None /\ categories = None /\ count = None
  /\ postLock = None /\ engaging = None /\ gone = None /\ ended = None /\ notes = None
  /\ made = None /\ engagements = None
RestInbox ==
  /\ rel = None /\ mentionsOff = None /\ notifications = None /\ conversations = None
  /\ messages = None /\ badge = None /\ fetch = None /\ stream = None /\ resync = None
  /\ task = None /\ astray = None /\ broken = None /\ started = None /\ changes = None
RestAccounts ==
  /\ users = None /\ visit = None /\ state = None /\ entered = None /\ blurred = None
  /\ visits = None
RestSettings ==
  /\ settingsRow = None /\ isPrivate = None /\ profile = None /\ request = None /\ meant = None
  /\ unsettled = None /\ saves = None
RestLists ==
  /\ lists = None /\ members = None /\ call = None /\ calls = None
RestMedia ==
  /\ media = None /\ files = None /\ torn = None /\ links = None /\ conn = None /\ given = None
  /\ doomed = None /\ taken = None /\ uploads = None
RestMail ==
  /\ mails = None /\ delivery = None /\ sent = None /\ received = None
RestBadges ==
  /\ badges = None /\ grants = None /\ left = None /\ order = None /\ owed = None /\ crossed = None
  /\ orders = None
RestRateLimit ==
  /\ clock = None /\ hits = None /\ expires = None /\ passing = None /\ admitted = None
  /\ arrived = None

Init ==
  /\ part \in Part
  /\ IF part = "feeds" THEN F!Init ELSE RestFeeds
  /\ IF part = "posts" THEN P!Init ELSE RestPosts
  /\ IF part = "engagement" THEN E!Init ELSE RestEngagement
  /\ IF part = "inbox" THEN I!Init ELSE RestInbox
  /\ IF part = "accounts" THEN A!Init ELSE RestAccounts
  /\ IF part = "settings" THEN S!Init ELSE RestSettings
  /\ IF part = "lists" THEN L!Init ELSE RestLists
  /\ IF part = "media" THEN D!Init ELSE RestMedia
  /\ IF part = "mail" THEN M!Init ELSE RestMail
  /\ IF part = "badges" THEN B!Init ELSE RestBadges
  /\ IF part = "limiter" THEN R!Init ELSE RestRateLimit

Acts(name) == part = name /\ UNCHANGED part

OnlyFeeds == UNCHANGED <<ofPosts, ofEngagement, ofInbox, ofSettings, ofLists, ofMedia, ofBadges,
  ofRateLimit, ofAccounts, ofMail>>
OnlyPosts == UNCHANGED <<ofFeeds, ofEngagement, ofInbox, ofSettings, ofLists, ofMedia, ofBadges,
  ofRateLimit, ofAccounts, ofMail>>
OnlyEngagement == UNCHANGED <<ofFeeds, ofPosts, ofInbox, ofSettings, ofLists, ofMedia, ofBadges,
  ofRateLimit, ofAccounts, ofMail>>
OnlyInbox == UNCHANGED <<ofFeeds, ofPosts, ofEngagement, ofSettings, ofLists, ofMedia, ofBadges,
  ofRateLimit, ofAccounts, ofMail>>
OnlySettings == UNCHANGED <<ofFeeds, ofPosts, ofEngagement, ofInbox, ofLists, ofMedia, ofBadges,
  ofRateLimit, ofAccounts, ofMail>>
OnlyLists == UNCHANGED <<ofFeeds, ofPosts, ofEngagement, ofInbox, ofSettings, ofMedia, ofBadges,
  ofRateLimit, ofAccounts, ofMail>>
OnlyMedia == UNCHANGED <<ofFeeds, ofPosts, ofEngagement, ofInbox, ofSettings, ofLists, ofBadges,
  ofRateLimit, ofAccounts, ofMail>>
OnlyBadges == UNCHANGED <<ofFeeds, ofPosts, ofEngagement, ofInbox, ofSettings, ofLists, ofMedia,
  ofRateLimit, ofAccounts, ofMail>>
OnlyRateLimit == UNCHANGED <<ofFeeds, ofPosts, ofEngagement, ofInbox, ofSettings, ofLists, ofMedia,
  ofBadges, ofAccounts, ofMail>>
OnlyAccounts == UNCHANGED <<ofFeeds, ofPosts, ofEngagement, ofInbox, ofSettings, ofLists, ofMedia,
  ofBadges, ofRateLimit, ofMail>>
OnlyMail == UNCHANGED <<ofFeeds, ofPosts, ofEngagement, ofInbox, ofSettings, ofLists, ofMedia,
  ofBadges, ofRateLimit, ofAccounts>>

Next ==
  \/ Acts("feeds") /\ F!Next /\ OnlyFeeds
  \/ Acts("posts") /\ P!Next /\ OnlyPosts
  \/ Acts("engagement") /\ E!Next /\ OnlyEngagement
  \/ Acts("inbox") /\ I!Next /\ OnlyInbox
  \/ Acts("settings") /\ S!Next /\ OnlySettings
  \/ Acts("lists") /\ L!Next /\ OnlyLists
  \/ Acts("media") /\ D!Next /\ OnlyMedia
  \/ Acts("badges") /\ B!Next /\ OnlyBadges
  \/ Acts("limiter") /\ R!Next /\ OnlyRateLimit
  \/ Acts("accounts") /\ A!Next /\ OnlyAccounts
  \/ Acts("mail") /\ M!Next /\ OnlyMail

vars == <<part, ofFeeds, ofPosts, ofEngagement, ofInbox, ofSettings, ofLists, ofMedia, ofBadges,
  ofRateLimit, ofAccounts, ofMail>>
Spec == Init /\ [][Next]_vars
-----------------------------------------------------------------------------
(* The types of the part that acts: the state of its tables and of its requests. *)
ApiTypeOK ==
  /\ part = "feeds" => F!FeedsTypeOK
  /\ part = "posts" => P!PostsTypeOK
  /\ part = "engagement" => E!EngagementTypeOK
  /\ part = "inbox" => I!InboxTypeOK
  /\ part = "settings" => S!SettingsTypeOK
  /\ part = "lists" => L!ListsTypeOK
  /\ part = "media" => D!MediaTypeOK
  /\ part = "badges" => B!BadgesTypeOK
  /\ part = "limiter" => R!RateLimitTypeOK
  /\ part = "accounts" => A!AccountsTypeOK
  /\ part = "mail" => M!MailTypeOK

(* The walk of a listing: see Feeds. *)
WalkShowsAll == part = "feeds" => F!WalkShowsAll

(* A page fails for a change that raced with it, or what the listing never serves: see Feeds. *)
FailsOnlyByRace == part = "feeds" => F!FailsOnlyByRace

(* What filterVisiblePosts lets through could be seen: see Feeds. *)
ServedWasVisible == F!ServedWasVisible

(* Of two pins that overlap one stands: see Posts. *)
OnePin == part = "posts" => P!OnePin

(* The edit history and the index of hashtags follow the text: see Posts. *)
EditsAreKept == part = "posts" => P!EditsAreKept

(* A delete takes the replies with it: see Posts. *)
ThreadsFallWhole == part = "posts" => P!ThreadsFallWhole

(* The triggers' counters are the numbers of rows: see Engagement. *)
CountersMatch == part = "engagement" => E!CountersMatch

(* The keys hold, and a notification is sent once for a row: see Engagement. *)
KeysAreKept == part = "engagement" => E!KeysAreKept

(* Badges of unread things come to show what there is: see Inbox. *)
BadgesConverge == part = "inbox" => I!BadgesConverge

(* Blocked and muted users send nothing: see Inbox. *)
BlockedStayOut == part = "inbox" => I!BlockedStayOut

(* An account has one identity, and an identity one account: see Accounts. *)
OneAccountEach == part = "accounts" => A!OneAccountEach

(* Settings, flag and profile are what was last acknowledged: see Settings. *)
SettingsInTurn == part = "settings" => S!SettingsInTurn

(* A list and its members are changed by its owner: see Lists. *)
ListsAreTheirOwners == [][part = "lists" => L!ByItsOwner]_<<lists, members>>

(* A medium that was given out has its file and its row: see Media. *)
MediaIsWhole == part = "media" => D!MediaIsWhole

(* Acknowledged grants of badges last: see Badges. *)
GrantsLast == part = "badges" => B!GrantsLast

(* No window admits more than the limit: see RateLimit. *)
WindowHolds == part = "limiter" => R!WindowHolds

(* A mail that was received is kept, once and with its text: see Mail. *)
MailIsKept == part = "mail" => M!MailIsKept
=============================================================================
