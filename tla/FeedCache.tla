------------------------------ MODULE FeedCache ------------------------------
(***************************************************************************)
(* The home-feed cache: GetHomeFeed and the handlers that write a post     *)
(* (post_handler.go, and Quote of post_engagement_handler.go), over the    *)
(* Redis client (cache.go) and the queries of the post and relationship    *)
(* stores. A feed is which posts it shows, in which version; the counters  *)
(* shown with a post are not part of it.                                   *)
(*                                                                         *)
(* A reader looks in the cache, queries the database and caches the        *)
(* answer in three separate steps, and a writer commits and invalidates,   *)
(* user by user, in separate steps too: nothing orders one against the     *)
(* other. The pages of a feed are one entry here, because one SCAN finds   *)
(* them all. SCAN and DEL are one step: a key that SCAN misses is as good  *)
(* as set after the DEL, a key that it finds is gone after the DEL.        *)
(***************************************************************************)
EXTENDS Integers, FiniteSets

CONSTANTS
  User, Post,
  AuthorOf,      \* AuthorOf[p]: the author of post p
  Req,           \* requests in flight at a time
  NoUser,        \* viewer of a request that is not a reader or writer now
  FollowsChange, \* bound: users follow and unfollow while posts are read
  Faults,        \* bound: Redis, or the query for the followers, may fail
  MaxVersion     \* bound: edits of a post, the first included

ASSUME AuthorAssumption == AuthorOf \in [Post -> User]
ASSUME NoUserAssumption == NoUser \notin User
ASSUME BoundAssumption ==
  FollowsChange \in BOOLEAN /\ Faults \in BOOLEAN /\ MaxVersion \in Nat \ {0}

Stage == {"idle", "query", "set", "own", "followers", "each", "actor"}
Invalidating == {"own", "followers", "each", "actor"}

VARIABLES
  version,  \* version[p]: how often p was written; 0 before it is posted
  deleted,  \* posts that are soft-deleted
  follows,  \* pairs <<follower, followed>>
  keys,     \* users with a cached feed
  page,     \* page[u]: that feed, as pairs <<post, version>>
  stage,    \* stage[r]: next step of the request
  who,      \* who[r]: the viewer of a reader, the author of a writer
  got,      \* got[r]: what a reader got from the database
  left,     \* left[r]: followers whose feeds a writer has yet to invalidate
  outdated  \* users whose cached feed was outdated when it was set, or became so
            \* by a follow, an unfollow, a quote by somebody they follow, or a
            \* failed invalidation (not state of the code: it is there for the
            \* properties)

db == <<version, deleted, follows>>
redis == <<keys, page>>
vars == <<db, redis, stage, who, got, left, outdated>>

(* mutants: the query forgets soft_deleted = FALSE; it finds posts not yet written *)
VisibleDeleted == {p \in Post : version[p] > 0}
VisibleUnwritten == Post \ deleted

Visible == {p \in Post : version[p] > 0} \ deleted

(* postStore.GetHomeFeed: own posts and those of followed users *)
Feed(u) ==
  {<<p, version[p]>> :
     p \in {q \in Visible : AuthorOf[q] = u \/ <<u, AuthorOf[q]>> \in follows}}

(* mutant: the join is the wrong way round *)
Followed(u) == {v \in User : <<u, v>> \in follows}

Followers(u) == {v \in User : <<v, u>> \in follows}

Init ==
  /\ version = [p \in Post |-> 0]
  /\ deleted = {}
  /\ follows \in SUBSET {x \in User \X User : x[1] # x[2]}
  /\ keys = {}
  /\ page = [u \in User |-> {}]
  /\ stage = [r \in Req |-> "idle"]
  /\ who = [r \in Req |-> NoUser]
  /\ got = [r \in Req |-> {}]
  /\ left = [r \in Req |-> {}]
  /\ outdated = {}

Done(r) ==
  /\ stage' = [stage EXCEPT ![r] = "idle"]
  /\ who' = [who EXCEPT ![r] = NoUser]
  /\ got' = [got EXCEPT ![r] = {}]
  /\ left' = [left EXCEPT ![r] = {}]

Goto(r, s) == stage' = [stage EXCEPT ![r] = s] /\ UNCHANGED who

Drop(u) ==
  /\ keys' = keys \ {u}
  /\ page' = [page EXCEPT ![u] = {}]
  /\ outdated' = outdated \ {u}

-----------------------------------------------------------------------------
(* GetHomeFeed. A hit answers at once and changes nothing; this is a miss. *)
Miss(r, u) ==
  /\ stage[r] = "idle"
  /\ u \notin keys
  /\ stage' = [stage EXCEPT ![r] = "query"]
  /\ who' = [who EXCEPT ![r] = u]
  /\ UNCHANGED <<db, redis, got, left, outdated>>

(* the ids of the page and the posts they name; the queries count as one *)
Query(r) ==
  /\ stage[r] = "query"
  /\ got' = [got EXCEPT ![r] = Feed(who[r])]
  /\ Goto(r, "set")
  /\ UNCHANGED <<db, redis, left, outdated>>

SetHomeFeed(r) ==
  /\ stage[r] = "set"
  /\ keys' = keys \cup {who[r]}
  /\ page' = [page EXCEPT ![who[r]] = got[r]]
  /\ outdated' = IF got[r] = Feed(who[r]) THEN outdated \ {who[r]} ELSE outdated \cup {who[r]}
  /\ Done(r)
  /\ UNCHANGED db

(* the entry lives for feedTTL *)
Expire(u) ==
  /\ u \in keys
  /\ Drop(u)
  /\ UNCHANGED <<db, stage, who, got, left>>

-----------------------------------------------------------------------------
(* Posting, editing and deleting; a pin is an edit to the feeds that show it. *)
Written(r, u) ==
  /\ stage[r] = "idle"
  /\ stage' = [stage EXCEPT ![r] = "own"]
  /\ who' = [who EXCEPT ![r] = u]
  /\ UNCHANGED <<follows, redis, got, left, outdated>>

WritePost(r, p) ==
  /\ p \notin deleted /\ version[p] < MaxVersion
  /\ version' = [version EXCEPT ![p] = @ + 1]
  /\ UNCHANGED deleted
  /\ Written(r, AuthorOf[p])

DeletePost(r, p) ==
  /\ p \in Visible
  /\ deleted' = deleted \cup {p}
  /\ UNCHANGED version
  /\ Written(r, AuthorOf[p])

(* Quoting a post writes one, and drops nobody's feed but the author's. *)
Quote(r, p) ==
  /\ stage[r] = "idle"
  /\ version[p] = 0
  /\ version' = [version EXCEPT ![p] = 1]
  /\ stage' = [stage EXCEPT ![r] = "actor"]
  /\ who' = [who EXCEPT ![r] = AuthorOf[p]]
  /\ outdated' = outdated \cup (keys \cap Followers(AuthorOf[p]))
  /\ UNCHANGED <<deleted, follows, redis, got, left>>

InvalidateActor(r) ==
  /\ stage[r] = "actor"
  /\ Drop(who[r])
  /\ Done(r)
  /\ UNCHANGED db

(* invalidateFeedForUserAndFollowers: the author ... *)
InvalidateOwn(r) ==
  /\ stage[r] = "own"
  /\ Drop(who[r])
  /\ Goto(r, "followers")
  /\ UNCHANGED <<db, got, left>>

GetFollowerIDs(r) ==
  /\ stage[r] = "followers"
  /\ left' = [left EXCEPT ![r] = Followers(who[r])]
  /\ Goto(r, "each")
  /\ UNCHANGED <<db, redis, got, outdated>>

(* ... and then everyone who followed the author when that query ran *)
InvalidateNext(r) ==
  /\ stage[r] = "each"
  /\ \E u \in left[r] :
       /\ Drop(u)
       /\ left' = [left EXCEPT ![r] = @ \ {u}]
  /\ UNCHANGED <<db, stage, who, got>>

AllInvalidated(r) ==
  /\ stage[r] = "each" /\ left[r] = {}
  /\ Done(r)
  /\ UNCHANGED <<db, redis, outdated>>

(* a DEL that fails is logged, and the next user has its turn *)
Skip(r) ==
  /\ Faults
  /\ \/ /\ stage[r] = "own"
        /\ outdated' = outdated \cup (keys \cap {who[r]})
        /\ Goto(r, "followers")
        /\ UNCHANGED left
     \/ /\ stage[r] = "each"
        /\ \E u \in left[r] :
             /\ outdated' = outdated \cup (keys \cap {u})
             /\ left' = [left EXCEPT ![r] = @ \ {u}]
        /\ UNCHANGED <<stage, who>>
  /\ UNCHANGED <<db, redis, got>>

(* r has yet to drop the cached feed of u *)
Pending(r, u) ==
  \/ stage[r] = "own" /\ (u = who[r] \/ u \in Followers(who[r]))
  \/ stage[r] = "followers" /\ u \in Followers(who[r])
  \/ stage[r] = "each" /\ u \in left[r]
  \/ stage[r] = "actor" /\ u = who[r]

(* A SET that fails is logged; a feed query that fails ends the request; reading
   the post back, or the query for the followers, fails and ends the invalidation;
   a client that goes away ends everything. *)
Fail(r) ==
  /\ Faults
  /\ stage[r] # "idle"
  /\ outdated' = outdated \cup {u \in keys : Pending(r, u)}
  /\ Done(r)
  /\ UNCHANGED <<db, redis>>

(* FollowUser, UnfollowUser and BlockUser: their handler has no cache *)
ChangeFollow(u, v) ==
  /\ FollowsChange
  /\ u # v
  /\ follows' = IF <<u, v>> \in follows THEN follows \ {<<u, v>>}
                                        ELSE follows \cup {<<u, v>>}
  /\ outdated' = outdated \cup (keys \cap {u})
  /\ UNCHANGED <<version, deleted, redis, stage, who, got, left>>

Work(r) ==
  \/ Query(r) \/ SetHomeFeed(r)
  \/ InvalidateActor(r) \/ InvalidateOwn(r) \/ GetFollowerIDs(r) \/ InvalidateNext(r) \/ AllInvalidated(r)

Next ==
  \/ \E r \in Req :
       \/ \E u \in User : Miss(r, u)
       \/ \E p \in Post : WritePost(r, p) \/ Quote(r, p) \/ DeletePost(r, p)
       \/ Work(r)
       \/ Skip(r) \/ Fail(r)
  \/ \E u \in User : Expire(u)
  \/ \E u, v \in User : ChangeFollow(u, v)

Spec == Init /\ [][Next]_vars
FairSpec == Spec /\ (\A r \in Req : WF_vars(Work(r))) /\ (\A u \in User : WF_vars(Expire(u)))
-----------------------------------------------------------------------------
Entry == Post \X (1 .. MaxVersion)

TypeOK ==
  /\ version \in [Post -> 0 .. MaxVersion]
  /\ deleted \in SUBSET Post
  /\ follows \in SUBSET (User \X User)
  /\ keys \in SUBSET User
  /\ page \in [User -> SUBSET Entry]
  /\ stage \in [Req -> Stage]
  /\ who \in [Req -> User \cup {NoUser}]
  /\ got \in [Req -> SUBSET Entry]
  /\ left \in [Req -> SUBSET User]
  /\ outdated \in SUBSET keys

Writing == \E r \in Req : stage[r] \in Invalidating

(* With no write under way a cached feed is the one the database would give, but
   for those that were outdated when they were set, that a follow, an unfollow or
   a quote changed, or that an invalidation failed to reach: no other order of queries,
   commits, invalidations and expiries leaves a stale feed. *)
QuietCacheIsFresh ==
  ~Writing => \A u \in keys \ outdated : page[u] = Feed(u)

(* post_handler.go 394: "The soft-deleted post must disappear from cached home
   feeds immediately". *)
DeletedIsGone ==
  ~Writing => \A u \in keys : \A e \in page[u] : e[1] \notin deleted

(* Whatever fails or races, a deleted post is gone from every cached feed for
   good in the end: no reader from before the delete caches it again later. *)
DeletedFades ==
  \A p \in Post :
    p \in deleted ~> [](\A u \in keys : \A e \in page[u] : e[1] # p)
=============================================================================
