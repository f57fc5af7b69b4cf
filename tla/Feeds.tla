------------------------------- MODULE Feeds -------------------------------
(***************************************************************************)
(* The listings of the API, and a client that walks one of them page by    *)
(* page. Each store query is an operator that gives the pages it may       *)
(* return: the rows that satisfy its WHERE clause and come after the       *)
(* cursor, in the order of its ORDER BY, cut at the limit, with the cursor *)
(* it hands out. A request is the steps a handler takes: its own guard,    *)
(* the service's query, the posts read one by one, and the two queries of  *)
(* filterVisiblePosts. Other requests change the tables in between.        *)
(*                                                                         *)
(* The hydration of polls, news, media, parents and counters adds columns  *)
(* to a post and drops none, and is left out.                              *)
(***************************************************************************)
EXTENDS Integers, FiniteSets, Sequences

CONSTANTS
  User,
  Viewer,      \* the user who walks
  Owner,       \* the user whose posts, followers, ... are listed
  Post,        \* post IDs, and the IDs of what else is listed: a set of numbers
  NoPost,
  PerSecond,   \* ticks of the database's clock in a second
  Start,       \* tables, listings and limits a walk may begin with
  MaxChanges   \* bound: changes by other requests

Keyset == {"home", "list", "user", "all", "replies", "media",  \* WHERE (time, id) < cursor
           "search", "hashtag", "mentions", "messages", "notifications"}
ByInstant == {"descendants", "members"}           \* WHERE time < cursor
BySecond == {"quotes", "liked", "bookmarks"}      \* the same, the cursor cut to the second
Crowd == {"likers", "reposters"}
Listing == Keyset \cup ByInstant \cup BySecond \cup Crowd
             \cup {"ancestors", "followers", "following"}

OfMarks == {"liked", "bookmarks", "messages", "notifications", "members", "followers", "following"}
             \cup Crowd
OfPosts == Listing \ ({"messages", "notifications", "members", "followers", "following"} \cup Crowd)
Discoverable == {"search", "hashtag", "mentions"}

VARIABLES
  posts,      \* posts[p]: the row of post p
  marks,      \* the rows a listing orders by, when they are not posts: ID -> time and category
  removed,    \* marks that are gone; their times are kept for the properties
  follows,    \* users whom the viewer follows
  private,    \* users with a private account
  listing,    \* what the client walks
  limit,      \* posts on a page
  wanted,     \* bookmark categories asked for; none for all
  cursor,     \* the cursor of the next request
  step,       \* where the request is
  ids,        \* the page it has read
  next,       \* the cursor it will hand out
  following,  \* GetRelationshipStatuses, as filterVisiblePosts has read it
  shown,      \* what the client has been shown
  twice,      \* what it has been shown on two pages
  stable,     \* what it could have been shown at every moment of the walk
  could,      \* posts the viewer could see at some moment since following was read
  changes,    \* changes by other requests ...
  asked       \* ... and how many there were when this request began

tables == <<posts, marks, removed, follows, private>>
walk == <<listing, limit, wanted, cursor, shown, twice>>
reading == <<step, ids, next, following, could, asked>>
vars == <<tables, walk, reading, stable, changes>>

NoTime == -1
NoCursor == [at |-> NoTime, id |-> 0]

Root == 1                                         \* the post whose replies, quotes, ... are listed
Leaf == CHOOSE p \in Post : \A q \in Post : q <= p  \* the post whose ancestors are

-----------------------------------------------------------------------------
(* Rows: the WHERE clauses without their cursors *)
Alive == {p \in Post : ~posts[p].deleted}
TopLevel == {p \in Alive : posts[p].parent = NoPost}
Marked == DOMAIN marks \ removed

(* mutant: posts that are deleted are not left out *)
HomeRowsOfAll == {p \in Post : posts[p].parent = NoPost /\ posts[p].author \in follows \cup {Viewer}}

HomeRows == {p \in TopLevel : posts[p].author \in follows \cup {Viewer}}
ListRows == {p \in TopLevel : posts[p].author = Owner}   \* the owner is the one member
UserRows(replies) == {p \in Alive : posts[p].author = Owner /\ (replies \/ posts[p].parent = NoPost)}

ModeRows(mode) ==
  {p \in Alive :
     /\ posts[p].author = Owner
     /\ mode = "replies" => posts[p].parent # NoPost
     /\ mode = "media" => posts[p].media}

SearchRows(replies) == {p \in Alive : posts[p].match /\ (replies \/ posts[p].parent = NoPost)}
HashtagRows == {p \in TopLevel : posts[p].match}
MentionRows == {p \in TopLevel : Viewer \in posts[p].mentions}
QuoteRows == {p \in Alive : posts[p].quoted = Root}
DescendantRows == {p \in Post : posts[p].parent = Root}   \* deleted ones too
LikedRows == Marked \cap Alive
BookmarkRows == {p \in Marked \cap Alive : wanted = {} \/ marks[p].category \in wanted}

(* the chain of parents of a post, the nearest first *)
Ancestors ==
  LET Above[p \in Post] ==
        IF posts[p].parent = NoPost THEN <<>>
        ELSE <<posts[p].parent>> \o Above[posts[p].parent]
  IN  Above

Time(x) == IF listing \in OfMarks THEN marks[x].at ELSE posts[x].at
Newer(x, y) == Time(x) > Time(y) \/ (Time(x) = Time(y) /\ listing \in Keyset /\ x > y)
Second(t) == (t \div PerSecond) * PerSecond

(* what LIMIT may leave of rows: rows that ORDER BY does not tell apart may come
   in any order *)
FirstOf(rows) ==
  {P \in SUBSET rows :
     /\ Cardinality(P) = IF Cardinality(rows) < limit THEN Cardinality(rows) ELSE limit
     /\ \A x \in P, y \in rows \ P : ~Newer(y, x)}

LastOf(P) == {x \in P : \A y \in P : ~Newer(x, y)}

(* The page and its next cursor, when the page is full; a full page may be the last. *)
FullPages(rows, CursorOf(_)) ==
  UNION {IF Cardinality(P) = limit
         THEN {[ids |-> P, next |-> CursorOf(x)] : x \in LastOf(P)}
         ELSE {[ids |-> P, next |-> NoCursor]} : P \in FirstOf(rows)}

(* The same, when the query has found a row after the page. *)
MorePages(rows, CursorOf(_)) ==
  UNION {IF Cardinality(rows) > limit
         THEN {[ids |-> P, next |-> CursorOf(x)] : x \in LastOf(P)}
         ELSE {[ids |-> P, next |-> NoCursor]} : P \in FirstOf(rows)}

Exact(x) == [at |-> Time(x), id |-> x]
ToTheSecond(x) == [at |-> Second(Time(x)), id |-> x]
OnlyId(x) == [at |-> NoTime, id |-> x]

(* mutant: the ID does not tell rows of a time apart *)
AfterKeyTime(rows) == {x \in rows : cursor = NoCursor \/ Time(x) < cursor.at}

(* WHERE (created_at, id) < cursor *)
AfterKey(rows) ==
  {x \in rows : cursor = NoCursor \/ Time(x) < cursor.at \/ (Time(x) = cursor.at /\ x < cursor.id)}

(* WHERE created_at < cursor *)
AfterTime(rows) == {x \in rows : cursor = NoCursor \/ Time(x) < cursor.at}

-----------------------------------------------------------------------------
(* Stores: the pages that a query may return *)
GetHomeFeed == FullPages(AfterKey(HomeRows), Exact)
GetListFeed == FullPages(AfterKey(ListRows), Exact)
GetUserFeed == FullPages(AfterKey(UserRows(listing = "all")), Exact)
RunUserFeedQuery(mode) == FullPages(AfterKey(ModeRows(mode)), Exact)
GetBookmarkedPostsFeed == FullPages(AfterTime(BookmarkRows), ToTheSecond)
GetLikedPostsFeed == FullPages(AfterTime(LikedRows), ToTheSecond)
GetQuotesFeed == FullPages(AfterTime(QuoteRows), ToTheSecond)
GetDescendants == FullPages(AfterTime(DescendantRows), Exact)
ListDiscoverablePosts(rows) == MorePages(AfterKey(rows), Exact)
ListMessages == MorePages(AfterKey(Marked), Exact)
ListNotifications == MorePages(AfterKey(Marked), Exact)
GetMembers == MorePages(AfterTime(Marked), Exact)

(* the cursor after a page of likers is that of the first page, whichever page it is *)
LastLikeTimestamp(x) ==
  ToTheSecond(CHOOSE y \in UNION {LastOf(P) : P \in FirstOf(Marked)} : TRUE)

GetPostLikers == FullPages(AfterTime(Marked), LastLikeTimestamp)
GetPostReposters == FullPages(AfterTime(Marked), LastLikeTimestamp)

(* the cursor has no time, and the next page asks for one *)
GetFollowers == IF cursor = NoCursor THEN FullPages(Marked, OnlyId) ELSE {}

(* ordered by time, the cursor compares IDs *)
GetFollowing ==
  FullPages({x \in Marked : cursor = NoCursor \/ x < cursor.id}, OnlyId)

(* Deleted ancestors are dropped after LIMIT: a page with one is not full. *)
GetParentChain ==
  LET chain == Ancestors[IF cursor = NoCursor THEN Leaf ELSE cursor.id]
      page == {i \in (1 .. limit) \cap DOMAIN chain : chain[i] \in Alive}
      more == Cardinality(page) = limit /\ posts[chain[limit]].parent # NoPost
  IN  {[ids |-> {chain[i] : i \in page}, next |-> IF more THEN OnlyId(chain[limit]) ELSE NoCursor]}

-----------------------------------------------------------------------------
(* filterVisiblePosts: who may see a post *)
CanSee(p, followed, privates) ==
  LET author == posts[p].author IN
  \/ author = Viewer
  \/ /\ author \in privates => author \in followed
     /\ posts[p].visibility = "followers" => author \in followed
     /\ posts[p].visibility = "mentions" => Viewer \in posts[p].audience

Visible == {p \in Post : CanSee(p, follows, private)}

(* CanViewPost: a post that is there, and that the viewer may see *)
CanViewPost(p) == ~posts[p].deleted /\ CanSee(p, follows, private)

(* the rows of the listing *)
Rows ==
  CASE listing = "home" -> HomeRows
    [] listing = "list" -> ListRows
    [] listing \in {"user", "all"} -> UserRows(listing = "all")
    [] listing \in {"replies", "media"} -> ModeRows(listing)
    [] listing = "search" -> SearchRows(FALSE)
    [] listing = "hashtag" -> HashtagRows
    [] listing = "mentions" -> MentionRows
    [] listing = "quotes" -> QuoteRows
    [] listing = "descendants" -> DescendantRows
    [] listing = "ancestors" -> {Ancestors[Leaf][i] : i \in DOMAIN Ancestors[Leaf]} \cap Alive
    [] listing = "liked" -> LikedRows
    [] listing = "bookmarks" -> BookmarkRows
    [] OTHER -> Marked

CanBeShown == {x \in Rows : listing \in OfMarks \ {"liked", "bookmarks"} \/ CanViewPost(x)}

-----------------------------------------------------------------------------
Init ==
  /\ \E s \in Start :
       /\ posts = s.posts /\ marks = s.marks /\ follows = s.follows /\ private = s.private
       /\ listing = s.listing /\ limit = s.limit /\ wanted = s.wanted
  /\ removed = {}
  /\ cursor = NoCursor
  /\ step = "ask"
  /\ ids = {} /\ next = NoCursor /\ following = {} /\ could = {}
  /\ shown = {} /\ twice = {}
  /\ stable = CanBeShown
  /\ changes = 0 /\ asked = 0

Goto(s) == step' = s

(* Handlers. Most have nothing to check: their request goes to the service. *)
Ask(kinds, allowed) ==
  /\ step = "ask" /\ listing \in kinds
  /\ Goto(IF allowed THEN "query" ELSE "failed")
  /\ asked' = changes
  /\ UNCHANGED <<tables, walk, ids, next, following, could, stable, changes>>

HandleHomeFeed == Ask({"home"}, TRUE)
HandleUserFeed == Ask({"user", "all"}, TRUE)
HandleReplies == Ask({"replies"}, TRUE)
HandleMedia == Ask({"media"}, TRUE)
HandleBookmarks == Ask({"bookmarks"}, TRUE)
HandleLiked == Ask({"liked"}, TRUE)
HandleListFeed == Ask({"list"}, TRUE)
HandleListMembers == Ask({"members"}, TRUE)
HandleSearch == Ask({"search"}, TRUE)
HandleHashtag == Ask({"hashtag"}, TRUE)
HandleMentions == Ask({"mentions"}, TRUE)
HandleFollowers == Ask({"followers"}, TRUE)
HandleFollowing == Ask({"following"}, TRUE)
HandleMessages == Ask({"messages"}, TRUE)
HandleNotifications == Ask({"notifications"}, TRUE)
HandleQuotes == Ask({"quotes"}, CanViewPost(Root))
HandleLikers == Ask({"likers"}, CanViewPost(Root))
HandleReposters == Ask({"reposters"}, CanViewPost(Root))
HandlePost == Ask({"ancestors"}, CanViewPost(Leaf)) \/ Ask({"descendants"}, CanViewPost(Root))

(* Services: the query of the store *)
Query(kinds, pages) ==
  /\ step = "query" /\ listing \in kinds
  /\ \/ \E page \in pages :
          /\ ids' = page.ids /\ next' = page.next
          /\ Goto("hydrate")
     \/ pages = {} /\ Goto("failed") /\ UNCHANGED <<ids, next>>
  /\ UNCHANGED <<tables, walk, following, could, asked, stable, changes>>

ServeHomeFeed == Query({"home"}, GetHomeFeed)
ServeUserFeed == Query({"user", "all"}, GetUserFeed)
ServeUserMode == Query({"replies", "media"}, RunUserFeedQuery(listing))
ServeBookmarks == Query({"bookmarks"}, GetBookmarkedPostsFeed)
ServeLiked == Query({"liked"}, GetLikedPostsFeed)
ServeQuotes == Query({"quotes"}, GetQuotesFeed)
ServeDescendants == Query({"descendants"}, GetDescendants)
ServeParentChain == Query({"ancestors"}, GetParentChain)
ServeListFeed == Query({"list"}, GetListFeed)
ServePosts == Query({"search"}, ListDiscoverablePosts(SearchRows(FALSE)))
ServeHashtagPosts == Query({"hashtag"}, ListDiscoverablePosts(HashtagRows))
ServeMentions == Query({"mentions"}, ListDiscoverablePosts(MentionRows))
ServeFollowers == Query({"followers"}, GetFollowers)
ServeFollowing == Query({"following"}, GetFollowing)
ServeLikers == Query({"likers"}, GetPostLikers)
ServeReposters == Query({"reposters"}, GetPostReposters)
ServeMessages == Query({"messages"}, ListMessages)
ServeNotifications == Query({"notifications"}, ListNotifications)
ServeMembers == Query({"members"}, GetMembers)

(* GetFullPostByID of each post on the page: one that is gone fails the page. What is
   deleted stays so, and reading them one by one finds what reading them at once does. *)
GetFullPostsByID(kinds) ==
  /\ step = "hydrate" /\ listing \in kinds
  /\ Goto(IF ids \subseteq Alive THEN "statuses" ELSE "failed")
  /\ UNCHANGED <<tables, walk, ids, next, following, could, asked, stable, changes>>

Hydrate == GetFullPostsByID(OfPosts \ Discoverable)
HydrateFeed == GetFullPostsByID(Discoverable)

GetRelationshipStatuses ==
  /\ step = "statuses"
  /\ following' = follows
  /\ could' = Visible
  /\ Goto("filter")
  /\ UNCHANGED <<tables, walk, ids, next, asked, stable, changes>>

(* The client is given what is left of the page, and the cursor of the page. *)
Respond(items) ==
  /\ twice' = twice \cup (shown \cap items)
  /\ shown' = shown \cup items
  /\ cursor' = next
  /\ Goto(IF next = NoCursor THEN "done" ELSE "ask")
  /\ ids' = {} /\ next' = NoCursor /\ following' = {} /\ could' = {}
  /\ UNCHANGED <<tables, listing, limit, wanted, asked, stable, changes>>

(* mutant: an account that is private is not looked at *)
FilterByVisibility ==
  /\ step = "filter"
  /\ Respond({p \in ids : CanSee(p, following, {})})

FilterVisiblePosts ==
  /\ step = "filter"
  /\ Respond({p \in ids : CanSee(p, following, private)})

(* users, messages and notifications are not filtered *)
RespondUnfiltered ==
  /\ step = "hydrate" /\ listing \in OfMarks \ {"liked", "bookmarks"}
  /\ Respond(ids)

(* The client asks again for a page it did not get, or starts anew. *)
Retry ==
  /\ step = "failed"
  /\ Goto("ask")
  /\ ids' = {} /\ next' = NoCursor
  /\ UNCHANGED <<tables, walk, following, could, asked, stable, changes>>

Reload ==
  /\ step \in {"done", "failed"}
  /\ Goto("ask")
  /\ cursor' = NoCursor
  /\ shown' = {} /\ twice' = {}
  /\ stable' = CanBeShown
  /\ ids' = {} /\ next' = NoCursor
  /\ UNCHANGED <<tables, listing, limit, wanted, following, could, asked, changes>>

-----------------------------------------------------------------------------
(* Other requests *)
Change ==
  /\ changes < MaxChanges
  /\ changes' = changes + 1
  /\ could' = IF step = "filter" THEN could \cup Visible' ELSE could
  /\ UNCHANGED <<walk, step, ids, next, following, asked>>

(* a post is deleted with everything below it *)
DeletePost ==
  /\ \E p \in Alive :
       LET gone == {q \in Post : q = p \/ \E i \in DOMAIN Ancestors[q] : Ancestors[q][i] = p}
       IN  posts' = [q \in Post |-> [posts[q] EXCEPT !.deleted = @ \/ q \in gone]]
  /\ UNCHANGED <<marks, removed, follows, private>>
  /\ Change
  /\ stable' = stable \cap CanBeShown'

ChangeFollow ==
  /\ follows' = IF Owner \in follows THEN follows \ {Owner} ELSE follows \cup {Owner}
  /\ UNCHANGED <<posts, marks, removed, private>>
  /\ Change
  /\ stable' = stable \cap CanBeShown'

(* An account that goes private between the two queries of filterVisiblePosts
   hides its posts from who began to follow it between them. *)
ChangePrivacy ==
  /\ private' = IF Owner \in private THEN private \ {Owner} ELSE private \cup {Owner}
  /\ UNCHANGED <<posts, marks, removed, follows>>
  /\ Change
  /\ stable' = (stable \cap CanBeShown')
                 \ IF step = "filter" THEN {x \in Post : posts[x].author = Owner} ELSE {}

RemoveMark ==
  /\ \E x \in Marked : removed' = removed \cup {x} /\ stable' = stable \ {x}
  /\ UNCHANGED <<posts, marks, follows, private>>
  /\ Change

Next ==
  \/ HandleHomeFeed \/ HandleUserFeed \/ HandleReplies \/ HandleMedia \/ HandleBookmarks
  \/ HandleLiked \/ HandleListFeed \/ HandleListMembers \/ HandleSearch \/ HandleHashtag
  \/ HandleMentions \/ HandleFollowers \/ HandleFollowing \/ HandleMessages
  \/ HandleNotifications \/ HandleQuotes \/ HandleLikers \/ HandleReposters \/ HandlePost
  \/ ServeHomeFeed \/ ServeUserFeed \/ ServeUserMode \/ ServeBookmarks \/ ServeLiked
  \/ ServeQuotes \/ ServeDescendants \/ ServeParentChain \/ ServeListFeed \/ ServePosts
  \/ ServeHashtagPosts \/ ServeMentions \/ ServeFollowers \/ ServeFollowing \/ ServeLikers
  \/ ServeReposters \/ ServeMessages \/ ServeNotifications \/ ServeMembers
  \/ Hydrate \/ HydrateFeed \/ GetRelationshipStatuses \/ FilterVisiblePosts \/ RespondUnfiltered
  \/ Retry \/ Reload
  \/ DeletePost \/ ChangeFollow \/ ChangePrivacy \/ RemoveMark

Spec == Init /\ [][Next]_vars
-----------------------------------------------------------------------------
FeedsTypeOK ==
  /\ posts \in [Post -> [author : User, parent : Post \cup {NoPost}, quoted : Post \cup {NoPost},
                         visibility : {"public", "followers", "mentions"},
                         audience : SUBSET User, mentions : SUBSET User,
                         media : BOOLEAN, match : BOOLEAN, at : Nat, deleted : BOOLEAN]]
  /\ DOMAIN marks \subseteq Post
  /\ removed \subseteq DOMAIN marks
  /\ follows \subseteq User /\ private \subseteq User
  /\ listing \in Listing /\ limit \in Nat \ {0}
  /\ step \in {"ask", "query", "hydrate", "statuses", "filter", "failed", "done"}
  /\ ids \subseteq Post /\ shown \subseteq Post /\ twice \subseteq shown /\ stable \subseteq Post

(* Times of different rows differ, or their seconds do. *)
Apart(Instant(_)) ==
  \A x, y \in IF listing \in OfMarks THEN DOMAIN marks ELSE Post : x # y => Instant(Time(x)) # Instant(Time(y))

Same(t) == t

(* A walk shows nothing on two pages, and one that comes to its end has shown all that
   was there, and that the viewer could see, from its first request to its last: what is
   deleted, followed or hidden between two pages costs it nothing. With cursors of time
   alone this takes rows at different times, and with those cut to the second, at
   different seconds. It is not so of likers, reposters and followed users, whose cursors
   do not agree with their order, nor of ancestors when a deleted one is among them. *)
WalkShowsAll ==
  /\ twice # {} => listing \in Crowd \cup {"following"}
  /\ step = "done" =>
       \/ stable \subseteq shown
       \/ listing \in ByInstant /\ ~Apart(Same)
       \/ listing \in BySecond /\ ~Apart(Second)
       \/ listing \in Crowd \cup {"following"}
       \/ listing = "ancestors" /\ \E i \in DOMAIN Ancestors[Leaf] : Ancestors[Leaf][i] \notin Alive

(* A page fails only because something changed while it was being read; asked again
   it is served. The exceptions are the second page of followers, replies of which
   one is deleted, and posts that are gone or hidden from the viewer themselves. *)
FailsOnlyByRace ==
  step = "failed" =>
    \/ changes > asked
    \/ listing = "followers" /\ cursor # NoCursor
    \/ listing = "descendants" /\ ~(DescendantRows \subseteq Alive)
    \/ listing \in {"quotes", "likers", "reposters", "descendants"} /\ ~CanViewPost(Root)
    \/ listing = "ancestors" /\ ~CanViewPost(Leaf)

(* A post that is handed out was one the viewer could see at some moment since the
   request read whom they follow, though it reads who is private at another. *)
ServedWasVisible == [][step = "filter" => shown' \ shown \subseteq could]_shown
=============================================================================
