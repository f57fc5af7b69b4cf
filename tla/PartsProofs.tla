----------------------------- MODULE PartsProofs -----------------------------
(***************************************************************************)
(* Proofs about the parts of the API that Parts instantiates, one section  *)
(* each, for any values of their constants: the inductive invariant of the *)
(* part, and what follows from it. Each name begins with its part.         *)
(***************************************************************************)
EXTENDS Parts, FiniteSetTheorems, SequenceTheorems, TLAPS

-----------------------------------------------------------------------------
(* Listings. What filterVisiblePosts lets through was visible at some moment of the
   request: FeedsFilter compares the follows it has read, and the accounts that are
   private now, with all that could be seen since. *)

FeedsRow == [author : User, parent : Listed \cup {None}, quoted : Listed \cup {None},
            visibility : {"public", "followers", "mentions"},
            audience : SUBSET User, mentions : SUBSET User,
            media : BOOLEAN, match : BOOLEAN, at : Nat, deleted : BOOLEAN]

(* A walk begins with tables of their types. *)
FeedsAssumptions ==
  /\ Owner \in User
  /\ \A s \in ListingStart :
       /\ s.posts \in [Listed -> FeedsRow] /\ DOMAIN s.marks \subseteq Listed
       /\ s.follows \subseteq User /\ s.private \subseteq User
       /\ s.listing \in F!Listing /\ s.limit \in Nat \ {0}

FeedsRows == posts \in [Listed -> FeedsRow]

(* the page that is filtered has posts that were read *)
FeedsPage == step \in {"statuses", "filter"} => ids \subseteq Listed

(* Whatever the filter will let through, with the follows it has read and the accounts
   that are private now, could be seen since it read them: a follow it has missed only
   hides, and an account that is no longer private showed its posts when it became so. *)
FeedsFilter ==
  step = "filter" => \A p \in Listed : F!CanSee(p, following, private) => p \in could

FeedsInv == FeedsRows /\ FeedsPage /\ FeedsFilter

-----------------------------------------------------------------------------
(* The steps of a request before it filters. *)
LEMMA FeedsAsks ==
  ASSUME FeedsInv, NEW kinds,
         \/ \E allowed \in BOOLEAN : F!Ask(kinds, allowed)
         \/ \E pages : F!Query(kinds, pages)
         \/ F!GetFullPostsByID(kinds)
         \/ F!Retry \/ F!Reload
  PROVE  FeedsInv'
<1>1. FeedsRows' /\ step' \in {"query", "hydrate", "statuses", "failed", "ask"}
  BY DEF FeedsInv, FeedsRows, F!tables, F!Ask, F!Query, F!GetFullPostsByID, F!Retry, F!Reload, F!Goto
<1>2. ASSUME step' = "statuses" PROVE ids' \subseteq Listed
  BY <1>2 DEF F!Ask, F!Query, F!GetFullPostsByID, F!Retry, F!Reload, F!Goto, F!Alive
<1>3. QED
  BY <1>1, <1>2 DEF FeedsInv, FeedsPage, FeedsFilter

(* The follows are read: what can be seen now is remembered. *)
LEMMA FeedsFollowed == ASSUME FeedsInv, F!GetRelationshipStatuses PROVE FeedsInv'
<1>1. FeedsRows' /\ FeedsPage'
  BY DEF FeedsInv, FeedsRows, FeedsPage, F!GetRelationshipStatuses, F!tables, F!Goto
<1>2. ASSUME NEW p \in Listed, F!CanSee(p, following, private)' PROVE p \in could'
  BY <1>2 DEF F!GetRelationshipStatuses, F!tables, F!Visible, F!CanSee
<1>3. QED
  BY <1>1, <1>2 DEF FeedsInv, FeedsFilter

(* A response ends the request. *)
LEMMA FeedsResponds == ASSUME FeedsInv, NEW items, F!Respond(items) PROVE FeedsInv'
BY DEF FeedsInv, FeedsRows, FeedsPage, FeedsFilter, F!Respond, F!Goto, F!tables

(* A change that leaves the posts' rows, but for what is deleted, keeps what the filter
   will let through among what could be seen. *)
LEMMA FeedsChanges ==
  ASSUME FeedsInv, F!Change, FeedsRows',
         \A p \in Listed : F!CanSee(p, following, private)' => F!CanSee(p, following, private) \/ p \in F!Visible'
  PROVE  FeedsInv'
<1>1. FeedsPage'
  BY DEF FeedsInv, FeedsPage, F!Change
<1>2. ASSUME step' = "filter", NEW p \in Listed, F!CanSee(p, following, private)' PROVE p \in could'
  <2>1. step = "filter" /\ could' = could \cup F!Visible'
    BY <1>2 DEF F!Change
  <2>2. F!CanSee(p, following, private) \/ p \in F!Visible'
    BY <1>2
  <2>3. QED
    BY <2>1, <2>2 DEF FeedsInv, FeedsFilter
<1>3. QED
  BY <1>1, <1>2 DEF FeedsInv, FeedsFilter

(* Deleting touches nothing of a row that decides who sees it. *)
LEMMA FeedsDeletes == ASSUME FeedsInv, F!DeletePost PROVE FeedsInv'
<1>1. PICK p \in F!Alive :
        posts' = [q \in Listed |-> [posts[q] EXCEPT !.deleted =
                    @ \/ q \in {o \in Listed : o = p \/ \E i \in DOMAIN F!Ancestors[o] : F!Ancestors[o][i] = p}]]
  BY DEF F!DeletePost
<1>2. PICK gone : posts' = [q \in Listed |-> [posts[q] EXCEPT !.deleted = @ \/ q \in gone]]
  BY <1>1
<1>3. \A q \in Listed : posts[q] \in FeedsRow
  BY DEF FeedsInv, FeedsRows
<1>4. FeedsRows'
  <2>1. \A q \in Listed : [posts[q] EXCEPT !.deleted = @ \/ q \in gone] \in FeedsRow
    BY <1>3 DEF FeedsRow
  <2>2. QED
    BY <1>2, <2>1 DEF FeedsRows
<1>5. \A q \in Listed : /\ posts'[q].author = posts[q].author
                      /\ posts'[q].visibility = posts[q].visibility
                      /\ posts'[q].audience = posts[q].audience
  BY <1>2, <1>3 DEF FeedsRow
<1>6. private' = private /\ following' = following /\ F!Change
  BY DEF F!DeletePost, F!Change
<1>7. \A q \in Listed : F!CanSee(q, following, private)' => F!CanSee(q, following, private)
  BY <1>5, <1>6 DEF F!CanSee
<1>8. QED
  BY <1>4, <1>6, <1>7, FeedsChanges

(* The follows that are read stay what they are. *)
LEMMA FeedsFollows == ASSUME FeedsInv, F!ChangeFollow \/ F!RemoveMark PROVE FeedsInv'
<1>1. posts' = posts /\ private' = private /\ following' = following /\ F!Change
  BY DEF F!ChangeFollow, F!RemoveMark, F!Change
<1>2. FeedsRows' /\ \A p \in Listed : F!CanSee(p, following, private)' => F!CanSee(p, following, private)
  BY <1>1 DEF F!CanSee, FeedsInv, FeedsRows
<1>3. QED
  BY <1>1, <1>2, FeedsChanges

(* What an account shows by going public can be seen at that moment. *)
LEMMA FeedsPrivacy == ASSUME FeedsInv, F!ChangePrivacy PROVE FeedsInv'
<1>1. posts' = posts /\ follows' = follows /\ following' = following /\ F!Change
  BY DEF F!ChangePrivacy, F!Change
<1>2. private' \in {private \ {Owner}, private \cup {Owner}}
  BY DEF F!ChangePrivacy
<1>3. ASSUME NEW p \in Listed, F!CanSee(p, following, private)', ~F!CanSee(p, following, private)
      PROVE  p \in F!Visible'
  <2>1. posts[p].author \in private /\ posts[p].author \notin private' /\ posts[p].author \notin following
    BY <1>1, <1>3 DEF F!CanSee
  <2>2. F!CanSee(p, follows, private)'
    BY <1>1, <1>3, <2>1 DEF F!CanSee
  <2>3. QED
    BY <2>2 DEF F!Visible
<1>4. FeedsRows'
  BY <1>1 DEF FeedsInv, FeedsRows
<1>5. QED
  BY <1>1, <1>3, <1>4, FeedsChanges

-----------------------------------------------------------------------------
(* The invariant, from rows of the table's type. *)
THEOREM FeedsInvariance == ASSUME FeedsAssumptions PROVE F!Spec => []FeedsInv
<1>1. F!Init => FeedsInv
  BY DEF F!Init, FeedsAssumptions, FeedsInv, FeedsRows, FeedsPage, FeedsFilter
<1>2. FeedsInv /\ [F!Next]_(F!vars) => FeedsInv'
  <2> SUFFICES ASSUME FeedsInv, [F!Next]_(F!vars) PROVE FeedsInv'
    OBVIOUS
  <2>1. CASE \/ F!HandleHomeFeed \/ F!HandleUserFeed \/ F!HandleReplies \/ F!HandleMedia \/ F!HandleBookmarks
             \/ F!HandleLiked \/ F!HandleListFeed \/ F!HandleListMembers \/ F!HandleSearch \/ F!HandleHashtag
             \/ F!HandleMentions \/ F!HandleFollowers \/ F!HandleFollowing \/ F!HandleMessages
             \/ F!HandleNotifications
    BY <2>1, FeedsAsks
       DEF F!HandleHomeFeed, F!HandleUserFeed, F!HandleReplies, F!HandleMedia, F!HandleBookmarks, F!HandleLiked,
           F!HandleListFeed, F!HandleListMembers, F!HandleSearch, F!HandleHashtag, F!HandleMentions,
           F!HandleFollowers, F!HandleFollowing, F!HandleMessages, F!HandleNotifications
  <2>2. CASE F!HandleQuotes \/ F!HandleLikers \/ F!HandleReposters \/ F!HandlePost
    <3>1. F!CanViewPost(F!Root) \in BOOLEAN /\ F!CanViewPost(F!Leaf) \in BOOLEAN
      BY DEF F!CanViewPost
    <3>2. QED
      BY <2>2, <3>1, FeedsAsks DEF F!HandleQuotes, F!HandleLikers, F!HandleReposters, F!HandlePost
  <2>3. CASE \/ F!ServeHomeFeed \/ F!ServeUserFeed \/ F!ServeUserMode \/ F!ServeBookmarks \/ F!ServeLiked
             \/ F!ServeQuotes \/ F!ServeDescendants \/ F!ServeParentChain \/ F!ServeListFeed \/ F!ServePosts
             \/ F!ServeHashtagPosts \/ F!ServeMentions \/ F!ServeFollowers \/ F!ServeFollowing \/ F!ServeLikers
             \/ F!ServeReposters \/ F!ServeMessages \/ F!ServeNotifications \/ F!ServeMembers
    BY <2>3, FeedsAsks
       DEF F!ServeHomeFeed, F!ServeUserFeed, F!ServeUserMode, F!ServeBookmarks, F!ServeLiked, F!ServeQuotes,
           F!ServeDescendants, F!ServeParentChain, F!ServeListFeed, F!ServePosts, F!ServeHashtagPosts,
           F!ServeMentions, F!ServeFollowers, F!ServeFollowing, F!ServeLikers, F!ServeReposters,
           F!ServeMessages, F!ServeNotifications, F!ServeMembers
  <2>4. CASE F!Hydrate \/ F!HydrateFeed \/ F!Retry \/ F!Reload
    BY <2>4, FeedsAsks DEF F!Hydrate, F!HydrateFeed
  <2>5. CASE F!GetRelationshipStatuses
    BY <2>5, FeedsFollowed
  <2>6. CASE F!FilterVisiblePosts \/ F!RespondUnfiltered
    BY <2>6, FeedsResponds DEF F!FilterVisiblePosts, F!RespondUnfiltered
  <2>7. CASE F!DeletePost
    BY <2>7, FeedsDeletes
  <2>8. CASE F!ChangeFollow \/ F!RemoveMark
    BY <2>8, FeedsFollows
  <2>9. CASE F!ChangePrivacy
    BY <2>9, FeedsPrivacy
  <2>10. CASE UNCHANGED F!vars
    BY <2>10 DEF F!vars, F!tables, F!walk, F!reading, FeedsInv, FeedsRows, FeedsPage, FeedsFilter, F!CanSee
  <2>11. QED
    BY <2>1, <2>2, <2>3, <2>4, <2>5, <2>6, <2>7, <2>8, <2>9, <2>10 DEF F!Next
<1>3. QED
  BY <1>1, <1>2, PTL DEF F!Spec

(* Only the filter hands out posts in its step, and it lets through what could be seen. *)
LEMMA FeedsServes ==
  ASSUME FeedsInv, [F!Next]_(F!vars), step = "filter", shown' # shown
  PROVE  shown' \ shown \subseteq could
<1>1. CASE F!FilterVisiblePosts
  <2>1. shown' = shown \cup {p \in ids : F!CanSee(p, following, private)}
    BY <1>1 DEF F!FilterVisiblePosts, F!Respond
  <2>2. QED
    BY <2>1 DEF FeedsInv, FeedsPage, FeedsFilter
<1>2. CASE \/ F!DeletePost \/ F!ChangeFollow \/ F!ChangePrivacy \/ F!RemoveMark \/ UNCHANGED F!vars
  BY <1>2 DEF F!DeletePost, F!ChangeFollow, F!ChangePrivacy, F!RemoveMark, F!Change, F!walk, F!vars
<1>3. QED
  BY <1>1, <1>2
     DEF F!Next, F!Ask, F!Query, F!GetFullPostsByID, F!Hydrate, F!HydrateFeed, F!GetRelationshipStatuses,
         F!RespondUnfiltered, F!Retry, F!Reload,
         F!HandleHomeFeed, F!HandleUserFeed, F!HandleReplies, F!HandleMedia, F!HandleBookmarks, F!HandleLiked,
         F!HandleListFeed, F!HandleListMembers, F!HandleSearch, F!HandleHashtag, F!HandleMentions,
         F!HandleFollowers, F!HandleFollowing, F!HandleMessages, F!HandleNotifications, F!HandleQuotes,
         F!HandleLikers, F!HandleReposters, F!HandlePost,
         F!ServeHomeFeed, F!ServeUserFeed, F!ServeUserMode, F!ServeBookmarks, F!ServeLiked, F!ServeQuotes,
         F!ServeDescendants, F!ServeParentChain, F!ServeListFeed, F!ServePosts, F!ServeHashtagPosts,
         F!ServeMentions, F!ServeFollowers, F!ServeFollowing, F!ServeLikers, F!ServeReposters,
         F!ServeMessages, F!ServeNotifications, F!ServeMembers

(* A post that is handed out was one the viewer could see at some moment of the request. *)
THEOREM FeedsVisible == ASSUME FeedsAssumptions PROVE F!Spec => F!ServedWasVisible
<1>1. FeedsInv /\ [F!Next]_(F!vars) => [step = "filter" => shown' \ shown \subseteq could]_shown
  BY FeedsServes
<1>2. QED
  BY <1>1, FeedsInvariance, PTL DEF F!Spec, F!ServedWasVisible
-----------------------------------------------------------------------------
(* The pages of each query are made of rows that are listed. *)
LEMMA FeedsPages ==
  ASSUME F!FeedsTypeOK,
         NEW page \in
           F!GetHomeFeed \cup F!GetListFeed \cup F!GetUserFeed \cup F!RunUserFeedQuery(listing)
             \cup F!GetBookmarkedPostsFeed \cup F!GetLikedPostsFeed \cup F!GetQuotesFeed \cup F!GetDescendants
             \cup F!ListDiscoverablePosts(F!SearchRows(FALSE)) \cup F!ListDiscoverablePosts(F!HashtagRows)
             \cup F!ListDiscoverablePosts(F!MentionRows) \cup F!ListMessages \cup F!ListNotifications
             \cup F!GetMembers \cup F!GetPostLikers \cup F!GetPostReposters \cup F!GetFollowers
             \cup F!GetFollowing \cup F!GetParentChain
  PROVE  page.ids \subseteq Listed
<1>1. F!Alive \subseteq Listed /\ F!Marked \subseteq Listed
  BY DEF F!FeedsTypeOK, F!Alive, F!Marked
<1>2. /\ F!HomeRows \subseteq Listed /\ F!ListRows \subseteq Listed /\ F!UserRows(listing = "all") \subseteq Listed
      /\ F!ModeRows(listing) \subseteq Listed /\ F!SearchRows(FALSE) \subseteq Listed
      /\ F!HashtagRows \subseteq Listed /\ F!MentionRows \subseteq Listed /\ F!QuoteRows \subseteq Listed
      /\ F!DescendantRows \subseteq Listed /\ F!LikedRows \subseteq Listed /\ F!BookmarkRows \subseteq Listed
  BY <1>1 DEF F!HomeRows, F!ListRows, F!UserRows, F!ModeRows, F!SearchRows, F!HashtagRows, F!MentionRows, F!QuoteRows,
              F!DescendantRows, F!LikedRows, F!BookmarkRows, F!TopLevel
<1>3. \A rows : rows \subseteq Listed => F!AfterKey(rows) \subseteq Listed /\ F!AfterTime(rows) \subseteq Listed
  BY DEF F!AfterKey, F!AfterTime
<1>4. \A rows : rows \subseteq Listed => \A c \in F!FirstOf(rows) : c \subseteq Listed
  BY DEF F!FirstOf
<1>5. CASE page \in F!GetHomeFeed \cup F!GetListFeed \cup F!GetUserFeed \cup F!RunUserFeedQuery(listing)
  <2>1. PICK rows : /\ rows \subseteq Listed
                    /\ page \in F!FullPages(rows, F!Exact)
    BY <1>2, <1>3, <1>5 DEF F!GetHomeFeed, F!GetListFeed, F!GetUserFeed, F!RunUserFeedQuery
  <2>2. QED
    BY <2>1, <1>4 DEF F!FullPages
<1>6. CASE page \in F!GetBookmarkedPostsFeed \cup F!GetLikedPostsFeed \cup F!GetQuotesFeed
  <2>1. PICK rows : /\ rows \subseteq Listed
                    /\ page \in F!FullPages(rows, F!ToTheSecond)
    BY <1>2, <1>3, <1>6 DEF F!GetBookmarkedPostsFeed, F!GetLikedPostsFeed, F!GetQuotesFeed
  <2>2. QED
    BY <2>1, <1>4 DEF F!FullPages
<1>7. CASE page \in F!GetDescendants
  <2>1. PICK rows : /\ rows \subseteq Listed
                    /\ page \in F!FullPages(rows, F!Exact)
    BY <1>2, <1>3, <1>7 DEF F!GetDescendants
  <2>2. QED
    BY <2>1, <1>4 DEF F!FullPages
<1>8. CASE page \in F!ListDiscoverablePosts(F!SearchRows(FALSE)) \cup F!ListDiscoverablePosts(F!HashtagRows)
                      \cup F!ListDiscoverablePosts(F!MentionRows) \cup F!ListMessages \cup F!ListNotifications
                      \cup F!GetMembers
  <2>1. PICK rows : /\ rows \subseteq Listed
                    /\ page \in F!MorePages(rows, F!Exact)
    BY <1>1, <1>2, <1>3, <1>8 DEF F!ListDiscoverablePosts, F!ListMessages, F!ListNotifications, F!GetMembers
  <2>2. QED
    BY <2>1, <1>4 DEF F!MorePages
<1>9. CASE page \in F!GetPostLikers \cup F!GetPostReposters
  <2>1. PICK rows : /\ rows \subseteq Listed
                    /\ page \in F!FullPages(rows, F!LastLikeTimestamp)
    BY <1>1, <1>3, <1>9 DEF F!GetPostLikers, F!GetPostReposters
  <2>2. QED
    BY <2>1, <1>4 DEF F!FullPages
<1>10. CASE page \in F!GetFollowers \cup F!GetFollowing
  <2>1. PICK rows : /\ rows \subseteq Listed
                    /\ page \in F!FullPages(rows, F!OnlyId)
    BY <1>1, <1>10 DEF F!GetFollowers, F!GetFollowing
  <2>2. QED
    BY <2>1, <1>4 DEF F!FullPages
<1>11. CASE page \in F!GetParentChain
  BY <1>1, <1>11 DEF F!GetParentChain
<1>12. QED
  BY <1>5, <1>6, <1>7, <1>8, <1>9, <1>10, <1>11

LEMMA FeedsStable == ASSUME DOMAIN marks \subseteq Listed PROVE F!CanBeShown \subseteq Listed
<1>1. F!Alive \subseteq Listed /\ F!Marked \subseteq Listed
  BY DEF F!Alive, F!Marked
<1>2. /\ F!HomeRows \subseteq Listed /\ F!ListRows \subseteq Listed /\ F!UserRows(listing = "all") \subseteq Listed
      /\ F!ModeRows(listing) \subseteq Listed /\ F!SearchRows(FALSE) \subseteq Listed
      /\ F!HashtagRows \subseteq Listed /\ F!MentionRows \subseteq Listed /\ F!QuoteRows \subseteq Listed
      /\ F!DescendantRows \subseteq Listed /\ F!LikedRows \subseteq Listed /\ F!BookmarkRows \subseteq Listed
  BY <1>1 DEF F!HomeRows, F!ListRows, F!UserRows, F!ModeRows, F!SearchRows, F!HashtagRows, F!MentionRows, F!QuoteRows,
              F!DescendantRows, F!LikedRows, F!BookmarkRows, F!TopLevel
<1>3. F!Rows \subseteq Listed
  BY <1>1, <1>2 DEF F!Rows
<1>4. QED
  BY <1>3 DEF F!CanBeShown

(* Whatever the step, if the sets of IDs stay sets of IDs the types are kept. *)
FeedsIds == ids \subseteq Listed /\ shown \subseteq Listed /\ twice \subseteq shown /\ stable \subseteq Listed
FeedsSteps == step \in {"ask", "query", "hydrate", "statuses", "filter", "failed", "done"}
FeedsTables ==
  /\ DOMAIN marks \subseteq Listed /\ removed \subseteq DOMAIN marks
  /\ follows \subseteq User /\ private \subseteq User
  /\ listing \in F!Listing /\ limit \in Nat \ {0}

LEMMA FeedsAskTypes ==
  ASSUME F!FeedsTypeOK, NEW kinds, NEW allowed, F!Ask(kinds, allowed)
  PROVE  FeedsIds' /\ FeedsSteps' /\ FeedsTables'
BY DEF F!FeedsTypeOK, FeedsIds, FeedsSteps, FeedsTables, F!Ask, F!Goto, F!tables, F!walk

LEMMA FeedsQueryTypes ==
  ASSUME F!FeedsTypeOK, NEW kinds, NEW pages, \A page \in pages : page.ids \subseteq Listed, F!Query(kinds, pages)
  PROVE  FeedsIds' /\ FeedsSteps' /\ FeedsTables'
BY DEF F!FeedsTypeOK, FeedsIds, FeedsSteps, FeedsTables, F!Query, F!Goto, F!tables, F!walk

LEMMA FeedsRespondTypes ==
  ASSUME F!FeedsTypeOK, NEW items \in SUBSET Listed, F!Respond(items)
  PROVE  FeedsIds' /\ FeedsSteps' /\ FeedsTables'
BY DEF F!FeedsTypeOK, FeedsIds, FeedsSteps, FeedsTables, F!Respond, F!Goto, F!tables

LEMMA FeedsOtherTypes ==
  ASSUME F!FeedsTypeOK, FeedsAssumptions,
         \/ F!Hydrate \/ F!HydrateFeed \/ F!GetRelationshipStatuses \/ F!Retry \/ F!Reload
         \/ F!DeletePost \/ F!ChangeFollow \/ F!ChangePrivacy \/ F!RemoveMark \/ UNCHANGED F!vars
  PROVE  FeedsIds' /\ FeedsSteps' /\ FeedsTables'
<1>1. CASE F!Hydrate \/ F!HydrateFeed \/ F!GetRelationshipStatuses \/ F!Retry
  BY <1>1 DEF F!FeedsTypeOK, FeedsIds, FeedsSteps, FeedsTables, F!Hydrate, F!HydrateFeed, F!GetFullPostsByID,
              F!GetRelationshipStatuses, F!Retry, F!Goto, F!tables, F!walk
<1>2. CASE F!Reload
  <2>1. F!CanBeShown \subseteq Listed
    BY FeedsStable DEF F!FeedsTypeOK
  <2>2. QED
    BY <1>2, <2>1 DEF F!FeedsTypeOK, FeedsIds, FeedsSteps, FeedsTables, F!Reload, F!Goto, F!tables
<1>3. CASE F!DeletePost
  BY <1>3 DEF F!FeedsTypeOK, FeedsIds, FeedsSteps, FeedsTables, F!DeletePost, F!Change, F!walk
<1>4. CASE F!ChangeFollow \/ F!ChangePrivacy \/ F!RemoveMark
  BY <1>4 DEF F!FeedsTypeOK, FeedsIds, FeedsSteps, FeedsTables, FeedsAssumptions, F!ChangeFollow,
              F!ChangePrivacy, F!RemoveMark, F!Marked, F!Change, F!walk
<1>5. CASE UNCHANGED F!vars
  BY <1>5 DEF F!FeedsTypeOK, FeedsIds, FeedsSteps, FeedsTables, F!vars, F!tables, F!walk, F!reading
<1>6. QED
  BY <1>1, <1>2, <1>3, <1>4, <1>5

LEMMA FeedsNextTypes ==
  ASSUME F!FeedsTypeOK, FeedsAssumptions, [F!Next]_(F!vars)
  PROVE  FeedsIds' /\ FeedsSteps' /\ FeedsTables'
<1>1. CASE \/ F!HandleHomeFeed \/ F!HandleUserFeed \/ F!HandleReplies \/ F!HandleMedia \/ F!HandleBookmarks
           \/ F!HandleLiked \/ F!HandleListFeed \/ F!HandleListMembers \/ F!HandleSearch \/ F!HandleHashtag
           \/ F!HandleMentions \/ F!HandleFollowers \/ F!HandleFollowing \/ F!HandleMessages
           \/ F!HandleNotifications \/ F!HandleQuotes \/ F!HandleLikers \/ F!HandleReposters \/ F!HandlePost
  BY <1>1, FeedsAskTypes
     DEF F!HandleHomeFeed, F!HandleUserFeed, F!HandleReplies, F!HandleMedia, F!HandleBookmarks, F!HandleLiked,
         F!HandleListFeed, F!HandleListMembers, F!HandleSearch, F!HandleHashtag, F!HandleMentions,
         F!HandleFollowers, F!HandleFollowing, F!HandleMessages, F!HandleNotifications, F!HandleQuotes,
         F!HandleLikers, F!HandleReposters, F!HandlePost
<1>2. CASE \/ F!ServeHomeFeed \/ F!ServeUserFeed \/ F!ServeUserMode \/ F!ServeBookmarks \/ F!ServeLiked
           \/ F!ServeQuotes \/ F!ServeDescendants \/ F!ServeParentChain \/ F!ServeListFeed \/ F!ServePosts
           \/ F!ServeHashtagPosts \/ F!ServeMentions \/ F!ServeFollowers \/ F!ServeFollowing \/ F!ServeLikers
           \/ F!ServeReposters \/ F!ServeMessages \/ F!ServeNotifications \/ F!ServeMembers
  <2>1. PICK kinds, pages : F!Query(kinds, pages) /\ \A page \in pages : page.ids \subseteq Listed
    BY <1>2, FeedsPages
       DEF F!ServeHomeFeed, F!ServeUserFeed, F!ServeUserMode, F!ServeBookmarks, F!ServeLiked, F!ServeQuotes,
           F!ServeDescendants, F!ServeParentChain, F!ServeListFeed, F!ServePosts, F!ServeHashtagPosts,
           F!ServeMentions, F!ServeFollowers, F!ServeFollowing, F!ServeLikers, F!ServeReposters,
           F!ServeMessages, F!ServeNotifications, F!ServeMembers
  <2>2. QED
    BY <2>1, FeedsQueryTypes
<1>3. CASE F!FilterVisiblePosts \/ F!RespondUnfiltered
  <2>1. ids \in SUBSET Listed /\ {p \in ids : F!CanSee(p, following, private)} \in SUBSET Listed
    BY DEF F!FeedsTypeOK
  <2>2. QED
    BY <1>3, <2>1, FeedsRespondTypes DEF F!FilterVisiblePosts, F!RespondUnfiltered
<1>4. QED
  BY <1>1, <1>2, <1>3, FeedsOtherTypes DEF F!Next

(* The types of the tables, and IDs of posts in the pages. *)
THEOREM FeedsTyping == ASSUME FeedsAssumptions PROVE F!Spec => []F!FeedsTypeOK
<1>1. F!Init => F!FeedsTypeOK
  <2> SUFFICES ASSUME F!Init PROVE F!FeedsTypeOK
    OBVIOUS
  <2>1. stable \subseteq Listed
    <3>1. DOMAIN marks \subseteq Listed
      BY DEF F!Init, FeedsAssumptions
    <3>2. QED
      BY <3>1, FeedsStable DEF F!Init
  <2>2. QED
    BY <2>1 DEF F!Init, FeedsAssumptions, F!FeedsTypeOK, FeedsRow
<1>2. F!FeedsTypeOK /\ FeedsInv' /\ [F!Next]_(F!vars) => F!FeedsTypeOK'
  BY FeedsNextTypes DEF F!FeedsTypeOK, FeedsIds, FeedsSteps, FeedsTables, FeedsInv, FeedsRows, FeedsRow
<1>3. QED
  BY <1>1, <1>2, FeedsInvariance, PTL DEF F!Spec

-----------------------------------------------------------------------------
(* Badges. A delete looks at the grants and then drops the badge, and a grant looks at
   the badge and then inserts: that neither takes what the other has seen is BadgesApart,
   the row lock of the badge; BadgesOwed carries it from the count to the drop. *)

BadgesStage == {"none", "kind", "insert", "granted", "revoke", "look", "count", "drop", "dropped",
                "create", "update"}
BadgesOrder == [at : BadgesStage, badge : Badge \cup {None}, holder : Holder \cup {None},
                answer : {None, "OK", "NOT_FOUND", "BAD_REQUEST", "ALREADY_EXISTS", "INTERNAL"}]

(* Keys are neither of the marks of what is not there. *)
BadgesAssumptions ==
  /\ None \notin Label /\ "deleted" \notin Label
  /\ EarnedOnes \subseteq Badge /\ MayLeave \subseteq Holder

BadgesTypes ==
  /\ badges \in [Badge -> Label \cup {None, "deleted"}]
  /\ grants \subseteq Holder \X Badge /\ owed \subseteq Holder \X Badge
  /\ left \subseteq Holder /\ crossed \subseteq Badge
  /\ order \in [Admin -> BadgesOrder]

(* What a request is about, and what it has been told: a badge to be granted or deleted
   is assigned by admins. *)
BadgesKnows(a) ==
  /\ order[a].at \notin {"none", "create"} => order[a].badge \in Badge
  /\ order[a].at \in {"kind", "insert", "granted", "revoke"} => order[a].holder \in Holder
  /\ order[a].at \in {"insert", "granted", "count", "drop", "dropped"} => order[a].badge \notin EarnedOnes
  /\ order[a].at = "granted" => B!Defined(order[a].badge)

(* A grant and a delete of a badge do not both hold it. *)
BadgesApart ==
  \A a, c \in Admin : order[a].at = "granted" /\ order[c].at = "dropped" => order[a].badge # order[c].badge

(* What is owed is held, or has met a delete; once a delete has counted, nothing is held
   that has not met it. *)
BadgesOwed ==
  /\ \A g \in owed : g \in grants \/ g[2] \in crossed
  /\ \A a \in Admin : order[a].at \in {"drop", "dropped"} =>
       \A g \in owed : g[2] = order[a].badge => g[2] \in crossed

BadgesHeld == \A g \in grants : B!Defined(g[2]) /\ g[2] \notin EarnedOnes

BadgesKeys == \A b, d \in Badge : B!Defined(b) /\ badges[b] = badges[d] => b = d

BadgesInv ==
  /\ BadgesTypes /\ BadgesApart /\ BadgesOwed /\ BadgesHeld /\ BadgesKeys
  /\ \A a \in Admin : BadgesKnows(a)

-----------------------------------------------------------------------------
LEMMA BadgesInit == ASSUME BadgesAssumptions, B!Init PROVE BadgesInv
<1>1. B!NoOrder \in BadgesOrder
  BY DEF B!NoOrder, BadgesOrder, BadgesStage
<1>2. BadgesTypes
  BY <1>1 DEF B!Init, BadgesTypes
<1>3. BadgesKeys
  BY DEF B!Init, BadgesKeys, B!Defined, BadgesAssumptions
<1>4. \A a \in Admin : order[a].at = "none"
  BY DEF B!Init, B!NoOrder
<1>5. QED
  BY <1>2, <1>3, <1>4 DEF B!Init, BadgesInv, BadgesApart, BadgesOwed, BadgesHeld, BadgesKnows

(* What a step of the request a does to its own, and to no other. *)
LEMMA BadgesGoes ==
  ASSUME BadgesTypes, NEW a \in Admin, NEW new \in BadgesOrder, B!Goes(a, new)
  PROVE  /\ order' \in [Admin -> BadgesOrder] /\ order'[a] = new
         /\ \A c \in Admin \ {a} : order'[c] = order[c]
BY DEF BadgesTypes, B!Goes

LEMMA BadgesNew ==
  ASSUME BadgesTypes, NEW a \in Admin
  PROVE  /\ \A l \in BadgesStage : /\ [order[a] EXCEPT !.at = l] \in BadgesOrder
                                   /\ [order[a] EXCEPT !.at = l].at = l
                                   /\ [order[a] EXCEPT !.at = l].badge = order[a].badge
                                   /\ [order[a] EXCEPT !.at = l].holder = order[a].holder
         /\ \A n \in {"OK", "NOT_FOUND", "BAD_REQUEST", "ALREADY_EXISTS", "INTERNAL"} :
              [B!NoOrder EXCEPT !.answer = n] \in BadgesOrder /\ [B!NoOrder EXCEPT !.answer = n].at = "none"
<1>1. order[a] \in BadgesOrder
  BY DEF BadgesTypes
<1>2. QED
  BY <1>1 DEF B!NoOrder, BadgesOrder, BadgesStage

LEMMA BadgesStep ==
  ASSUME BadgesTypes, NEW a \in Admin, NEW l \in BadgesStage, B!Step(a, l)
  PROVE  /\ order' \in [Admin -> BadgesOrder]
         /\ order'[a].at = l /\ order'[a].badge = order[a].badge /\ order'[a].holder = order[a].holder
         /\ \A c \in Admin \ {a} : order'[c] = order[c]
<1> DEFINE new == [order[a] EXCEPT !.at = l]
<1>1. /\ new \in BadgesOrder /\ new.at = l
      /\ new.badge = order[a].badge /\ new.holder = order[a].holder
  BY BadgesNew
<1>2. B!Goes(a, new)
  BY DEF B!Step
<1> HIDE DEF new
<1>3. QED
  BY <1>1, <1>2, BadgesGoes

LEMMA BadgesAnswer ==
  ASSUME BadgesTypes, NEW a \in Admin,
         NEW n \in {"OK", "NOT_FOUND", "BAD_REQUEST", "ALREADY_EXISTS", "INTERNAL"}, B!Answer(a, n)
  PROVE  /\ order' \in [Admin -> BadgesOrder] /\ order'[a].at = "none"
         /\ \A c \in Admin \ {a} : order'[c] = order[c]
BY BadgesNew, BadgesGoes DEF B!Answer

LEMMA BadgesOpen ==
  ASSUME BadgesInv, NEW a \in Admin, UNCHANGED B!tables,
         \/ \E u \in Holder, b \in Badge : B!GrantToUser(a, u, b) \/ B!RevokeFromUser(a, u, b)
         \/ \E b \in Badge : B!DeleteDefinition(a, b) \/ B!UpdateDefinition(a, b)
         \/ B!CreateDefinition(a)
  PROVE  BadgesInv'
<1>1. PICK new \in BadgesOrder :
        /\ B!Goes(a, new)
        /\ new.at \in {"kind", "revoke", "look", "create", "update"}
        /\ new.at # "create" => new.badge \in Badge
        /\ new.at \in {"kind", "revoke"} => new.holder \in Holder
  <2>1. ASSUME NEW u \in Holder, NEW b \in Badge, NEW l \in {"kind", "revoke"}
        PROVE  [B!NoOrder EXCEPT !.at = l, !.badge = b, !.holder = u] \in BadgesOrder
    BY DEF B!NoOrder, BadgesOrder, BadgesStage
  <2>2. ASSUME NEW b \in Badge, NEW l \in {"look", "update"}
        PROVE  [B!NoOrder EXCEPT !.at = l, !.badge = b] \in BadgesOrder
    BY DEF B!NoOrder, BadgesOrder, BadgesStage
  <2>3. [B!NoOrder EXCEPT !.at = "create"] \in BadgesOrder
    BY DEF B!NoOrder, BadgesOrder, BadgesStage
  <2>5. CASE \E u \in Holder, b \in Badge : B!GrantToUser(a, u, b) \/ B!RevokeFromUser(a, u, b)
    <3>1. PICK u \in Holder, b \in Badge, l \in {"kind", "revoke"} :
            B!Goes(a, [B!NoOrder EXCEPT !.at = l, !.badge = b, !.holder = u])
      BY <2>5, ZenonT(60) DEF B!GrantToUser, B!RevokeFromUser, B!Open
    <3>2. QED
      BY <2>1, <3>1 DEF B!NoOrder
  <2>6. CASE \E b \in Badge : B!DeleteDefinition(a, b) \/ B!UpdateDefinition(a, b)
    <3>1. PICK b \in Badge, l \in {"look", "update"} : B!Goes(a, [B!NoOrder EXCEPT !.at = l, !.badge = b])
      BY <2>6, ZenonT(60) DEF B!DeleteDefinition, B!UpdateDefinition, B!Open
    <3>2. QED
      BY <2>2, <3>1 DEF B!NoOrder
  <2>7. CASE B!CreateDefinition(a)
    BY <2>3, <2>7 DEF B!CreateDefinition, B!Open, B!NoOrder
  <2>4. QED
    BY <2>5, <2>6, <2>7
<1>2. BadgesTypes
  BY DEF BadgesInv
<1>3. /\ order' \in [Admin -> BadgesOrder] /\ order'[a] = new
      /\ \A c \in Admin \ {a} : order'[c] = order[c]
  BY <1>1, <1>2, BadgesGoes
<1>4. badges' = badges /\ grants' = grants /\ left' = left /\ owed' = owed /\ crossed' = crossed
  BY ZenonT(60) DEF B!tables, B!GrantToUser, B!RevokeFromUser, B!DeleteDefinition, B!UpdateDefinition, B!CreateDefinition, B!Open
<1>5. QED
  BY <1>1, <1>3, <1>4
     DEF BadgesInv, BadgesTypes, BadgesApart, BadgesOwed, BadgesHeld, BadgesKeys, BadgesKnows, B!Defined

(* Statements that leave the tables as they are. *)
LEMMA BadgesChecks ==
  ASSUME BadgesInv, NEW a \in Admin,
         B!CheckDeletable(a) \/ B!CountGrants(a) \/ B!DeleteBadge(a) \/ B!CheckGrantable(a) \/ B!GrantBadge(a) \/ B!Fail(a)
  PROVE  BadgesInv'
<1>1. BadgesTypes
  BY DEF BadgesInv
<1>2. badges' = badges /\ grants' = grants /\ left' = left /\ owed' = owed /\ crossed' = crossed
  BY DEF B!tables, B!ghosts, B!CheckDeletable, B!CountGrants, B!DeleteBadge, B!CheckGrantable, B!GrantBadge, B!Fail
<1>3. CASE B!Answer(a, "NOT_FOUND") \/ B!Answer(a, "BAD_REQUEST") \/ B!Answer(a, "ALREADY_EXISTS") \/ B!Answer(a, "INTERNAL")
  <2>1. /\ order' \in [Admin -> BadgesOrder] /\ order'[a].at = "none"
        /\ \A c \in Admin \ {a} : order'[c] = order[c]
    BY <1>1, <1>3, BadgesAnswer
  <2>2. QED
    BY <1>2, <2>1
       DEF BadgesInv, BadgesTypes, BadgesApart, BadgesOwed, BadgesHeld, BadgesKeys, BadgesKnows, B!Defined
<1>4. CASE order[a].at = "look" /\ B!Step(a, "count") /\ order[a].badge \notin EarnedOnes
  <2>1. /\ order' \in [Admin -> BadgesOrder]
        /\ order'[a].at = "count" /\ order'[a].badge = order[a].badge /\ order'[a].holder = order[a].holder
        /\ \A c \in Admin \ {a} : order'[c] = order[c]
    BY <1>1, <1>4, BadgesStep DEF BadgesStage
  <2>2. QED
    BY <1>2, <1>4, <2>1
       DEF BadgesInv, BadgesTypes, BadgesApart, BadgesOwed, BadgesHeld, BadgesKeys, BadgesKnows, B!Defined
<1>5. CASE /\ order[a].at = "count" /\ B!Step(a, "drop")
           /\ \A u \in Holder : <<u, order[a].badge>> \notin grants
  <2>1. /\ order' \in [Admin -> BadgesOrder]
        /\ order'[a].at = "drop" /\ order'[a].badge = order[a].badge /\ order'[a].holder = order[a].holder
        /\ \A c \in Admin \ {a} : order'[c] = order[c]
    BY <1>1, <1>5, BadgesStep DEF BadgesStage
  <2>2. \A g \in grants : g[2] # order[a].badge
    BY <1>1, <1>5 DEF BadgesTypes
  <2>3. QED
    BY <1>2, <1>5, <2>1, <2>2
       DEF BadgesInv, BadgesTypes, BadgesApart, BadgesOwed, BadgesHeld, BadgesKeys, BadgesKnows, B!Defined
<1>6. CASE order[a].at = "drop" /\ B!Step(a, "dropped") /\ ~B!Granting(order[a].badge)
  <2>1. /\ order' \in [Admin -> BadgesOrder]
        /\ order'[a].at = "dropped" /\ order'[a].badge = order[a].badge /\ order'[a].holder = order[a].holder
        /\ \A c \in Admin \ {a} : order'[c] = order[c]
    BY <1>1, <1>6, BadgesStep DEF BadgesStage
  <2>2. QED
    BY <1>2, <1>6, <2>1
       DEF BadgesInv, BadgesTypes, BadgesApart, BadgesOwed, BadgesHeld, BadgesKeys, BadgesKnows, B!Defined, B!Granting
<1>7. CASE order[a].at = "kind" /\ B!Step(a, "insert") /\ order[a].badge \notin EarnedOnes
  <2>1. /\ order' \in [Admin -> BadgesOrder]
        /\ order'[a].at = "insert" /\ order'[a].badge = order[a].badge /\ order'[a].holder = order[a].holder
        /\ \A c \in Admin \ {a} : order'[c] = order[c]
    BY <1>1, <1>7, BadgesStep DEF BadgesStage
  <2>2. QED
    BY <1>2, <1>7, <2>1
       DEF BadgesInv, BadgesTypes, BadgesApart, BadgesOwed, BadgesHeld, BadgesKeys, BadgesKnows, B!Defined
<1>8. CASE /\ order[a].at = "insert" /\ B!Step(a, "granted")
           /\ ~B!Deleting(order[a].badge) /\ B!Defined(order[a].badge)
  <2>1. /\ order' \in [Admin -> BadgesOrder]
        /\ order'[a].at = "granted" /\ order'[a].badge = order[a].badge /\ order'[a].holder = order[a].holder
        /\ \A c \in Admin \ {a} : order'[c] = order[c]
    BY <1>1, <1>8, BadgesStep DEF BadgesStage
  <2>2. QED
    BY <1>2, <1>8, <2>1
       DEF BadgesInv, BadgesTypes, BadgesApart, BadgesOwed, BadgesHeld, BadgesKeys, BadgesKnows, B!Defined, B!Deleting
<1>9. QED
  BY <1>3, <1>4, <1>5, <1>6, <1>7, <1>8
     DEF B!CheckDeletable, B!CountGrants, B!DeleteBadge, B!CheckGrantable, B!GrantBadge, B!Fail, B!Kind

(* A key is written that no other badge has. *)
LEMMA BadgesWrites == ASSUME BadgesInv, NEW a \in Admin, B!CreateBadge(a) \/ B!UpdateBadge(a) PROVE BadgesInv'
<1>1. BadgesTypes
  BY DEF BadgesInv
<1>2. /\ order' \in [Admin -> BadgesOrder] /\ order'[a].at = "none"
      /\ \A c \in Admin \ {a} : order'[c] = order[c]
  BY <1>1, BadgesAnswer DEF B!CreateBadge, B!UpdateBadge
<1>3. grants' = grants /\ left' = left /\ owed' = owed /\ crossed' = crossed
  BY DEF B!ghosts, B!CreateBadge, B!UpdateBadge
<1>4. CASE UNCHANGED badges
  BY <1>2, <1>3, <1>4
     DEF BadgesInv, BadgesTypes, BadgesApart, BadgesOwed, BadgesHeld, BadgesKeys, BadgesKnows, B!Defined
<1>5. ASSUME NEW b \in Badge, NEW key \in Label, ~B!KeyTaken(key, b), badges' = [badges EXCEPT ![b] = key]
      PROVE  BadgesInv'
  <2>1. \A d \in Badge : badges'[d] = IF d = b THEN key ELSE badges[d]
    BY <1>1, <1>5 DEF BadgesTypes
  <2>2. BadgesTypes'
    BY <1>1, <1>2, <1>3, <1>5 DEF BadgesTypes
  <2>3. \A d \in Badge : B!Defined(d) => B!Defined(d)'
    BY <2>1 DEF B!Defined
  <2>4. BadgesKeys'
    BY <1>5, <2>1 DEF BadgesInv, BadgesKeys, B!KeyTaken, B!Defined
  <2>5. BadgesHeld'
    BY <1>1, <1>3, <2>3 DEF BadgesInv, BadgesHeld, BadgesTypes
  <2>6. BadgesOwed' /\ BadgesApart'
    BY <1>2, <1>3 DEF BadgesInv, BadgesOwed, BadgesApart
  <2>7. \A c \in Admin : BadgesKnows(c)'
    BY <1>2, <2>3 DEF BadgesInv, BadgesKnows
  <2>8. QED
    BY <2>2, <2>4, <2>5, <2>6, <2>7 DEF BadgesInv
<1>6. CASE B!CreateBadge(a)
  BY <1>4, <1>5, <1>6 DEF B!CreateBadge
<1>7. CASE B!UpdateBadge(a)
  <2>1. B!Defined(order[a].badge) => order[a].badge \in Badge
    BY <1>7 DEF B!UpdateBadge, BadgesInv, BadgesKnows
  <2>2. QED
    BY <1>4, <1>5, <1>7, <2>1 DEF B!UpdateBadge
<1>8. QED
  BY <1>6, <1>7

LEMMA BadgesRevokes == ASSUME BadgesInv, NEW a \in Admin, B!RevokeBadge(a) PROVE BadgesInv'
<1>1. BadgesTypes
  BY DEF BadgesInv
<1>2. /\ order' \in [Admin -> BadgesOrder] /\ order'[a].at = "none"
      /\ \A c \in Admin \ {a} : order'[c] = order[c]
  BY <1>1, BadgesAnswer DEF B!RevokeBadge
<1>3. badges' = badges /\ left' = left /\ crossed' = crossed
  BY DEF B!RevokeBadge
<1>4. PICK g : grants' = grants \ {g} /\ owed' = owed \ {g}
  BY DEF B!RevokeBadge
<1>5. QED
  BY <1>2, <1>3, <1>4
     DEF BadgesInv, BadgesTypes, BadgesApart, BadgesOwed, BadgesHeld, BadgesKeys, BadgesKnows, B!Defined

(* No grant of the badge is under way, and what is held of it goes with it. *)
LEMMA BadgesDeletes == ASSUME BadgesAssumptions, BadgesInv, NEW a \in Admin, B!CommitDelete(a) PROVE BadgesInv'
<1> DEFINE b == order[a].badge
<1>1. BadgesTypes
  BY DEF BadgesInv
<1>2. /\ order' \in [Admin -> BadgesOrder] /\ order'[a].at = "none"
      /\ \A c \in Admin \ {a} : order'[c] = order[c]
  BY <1>1, BadgesAnswer DEF B!CommitDelete
<1>3. order[a].at = "dropped" /\ b \in Badge
  BY DEF B!CommitDelete, BadgesInv, BadgesKnows
<1>4. left' = left /\ crossed' = crossed /\ owed' = owed /\ grants' = {g \in grants : g[2] # b}
  BY DEF B!CommitDelete, B!ghosts
<1>5. badges' = [badges EXCEPT ![b] = "deleted"]
  BY DEF B!CommitDelete
<1>6. \A d \in Badge : badges'[d] = IF d = b THEN "deleted" ELSE badges[d]
  BY <1>1, <1>3, <1>5 DEF BadgesTypes
<1> HIDE DEF b
<1>7. BadgesTypes'
  BY <1>1, <1>2, <1>4, <1>5 DEF BadgesTypes
<1>8. BadgesKeys'
  BY <1>6 DEF BadgesInv, BadgesKeys, B!Defined, BadgesAssumptions
<1>9. BadgesHeld'
  BY <1>1, <1>4, <1>6 DEF BadgesInv, BadgesHeld, BadgesTypes, B!Defined
<1>10. BadgesOwed'
  BY <1>2, <1>3, <1>4 DEF BadgesInv, BadgesOwed, b
<1>11. BadgesApart'
  BY <1>2 DEF BadgesInv, BadgesApart
<1>12. ASSUME NEW c \in Admin PROVE BadgesKnows(c)'
  <2>1. CASE c = a
    BY <1>2, <2>1 DEF BadgesKnows
  <2>2. CASE c # a
    <3>1. order[c].at = "granted" => order[c].badge # b
      BY <1>3 DEF BadgesInv, BadgesApart, b
    <3>2. QED
      BY <1>2, <1>6, <2>2, <3>1 DEF BadgesInv, BadgesKnows, B!Defined
  <2>3. QED
    BY <2>1, <2>2
<1>13. QED
  BY <1>7, <1>8, <1>9, <1>10, <1>11, <1>12 DEF BadgesInv

(* A delete that has counted is met, if it is not committing. *)
LEMMA BadgesGrants == ASSUME BadgesInv, NEW a \in Admin, B!CommitGrant(a) PROVE BadgesInv'
<1> DEFINE b == order[a].badge
           g == <<order[a].holder, b>>
<1>1. BadgesTypes
  BY DEF BadgesInv
<1>2. /\ order' \in [Admin -> BadgesOrder] /\ order'[a].at = "none"
      /\ \A c \in Admin \ {a} : order'[c] = order[c]
  BY <1>1, BadgesAnswer DEF B!CommitGrant
<1>3. /\ order[a].at = "granted" /\ b \in Badge /\ order[a].holder \in Holder
      /\ B!Defined(b) /\ b \notin EarnedOnes
  BY DEF B!CommitGrant, BadgesInv, BadgesKnows
<1>4. badges' = badges /\ left' = left /\ grants' = grants \cup {g} /\ owed' = owed \cup {g}
  BY DEF B!CommitGrant
<1>5. /\ crossed' \subseteq crossed \cup {b} /\ crossed \subseteq crossed'
      /\ \A c \in Admin : order[c].at \in {"count", "drop"} /\ order[c].badge = b => b \in crossed'
  BY DEF B!CommitGrant
<1>6. g \in Holder \X Badge /\ g[2] = b
  BY <1>3
<1>7. \A c \in Admin : order[c].at = "dropped" => order[c].badge # b
  BY <1>3 DEF BadgesInv, BadgesApart
<1> HIDE DEF g, b
<1>8. BadgesTypes'
  BY <1>1, <1>2, <1>3, <1>4, <1>5, <1>6 DEF BadgesTypes
<1>9. BadgesOwed'
  BY <1>2, <1>4, <1>5, <1>6, <1>7 DEF BadgesInv, BadgesOwed
<1>10. BadgesHeld' /\ BadgesKeys'
  BY <1>3, <1>4, <1>6 DEF BadgesInv, BadgesHeld, BadgesKeys, B!Defined
<1>11. BadgesApart' /\ \A c \in Admin : BadgesKnows(c)'
  BY <1>2, <1>4 DEF BadgesInv, BadgesApart, BadgesKnows, B!Defined
<1>12. QED
  BY <1>8, <1>9, <1>10, <1>11 DEF BadgesInv

LEMMA BadgesKeeps == ASSUME BadgesAssumptions, BadgesInv, [B!Next]_(B!vars) PROVE BadgesInv'
<1>1. ASSUME NEW a \in Admin,
             B!HandleGrant(a) \/ B!HandleRevoke(a) \/ B!HandleDelete(a) \/ B!HandleCreate(a) \/ B!HandleUpdate(a)
      PROVE  BadgesInv'
  BY <1>1, BadgesOpen DEF B!HandleGrant, B!HandleRevoke, B!HandleDelete, B!HandleCreate, B!HandleUpdate
<1>2. CASE B!Leave \/ UNCHANGED B!vars
  <2>1. left' \subseteq Holder
    BY <1>2 DEF B!Leave, B!vars, BadgesAssumptions, BadgesInv, BadgesTypes
  <2>2. QED
    BY <1>2, <2>1 DEF B!Leave, B!vars, B!ghosts, BadgesInv, BadgesTypes, BadgesApart, BadgesOwed, BadgesHeld,
                     BadgesKeys, BadgesKnows, B!Defined
<1>3. QED
  BY <1>1, <1>2, BadgesChecks, BadgesWrites, BadgesRevokes, BadgesDeletes, BadgesGrants DEF B!Next

LEMMA BadgesTyped == ASSUME BadgesInv PROVE B!BadgesTypeOK
BY DEF BadgesInv, BadgesTypes, B!BadgesTypeOK, BadgesOrder, BadgesStage

LEMMA BadgesLast == ASSUME BadgesInv PROVE B!GrantsLast
<1>1. ASSUME NEW g \in owed PROVE g[2] \in B!HydrateUserWithProfile(g[1]) \/ g[2] \in crossed
  <2>1. g = <<g[1], g[2]>> /\ g[2] \in Badge
    BY DEF BadgesInv, BadgesTypes
  <2>2. QED
    BY <2>1 DEF BadgesInv, BadgesOwed, B!HydrateUserWithProfile, B!GetBadgesForUsers, B!GetAssignedByUsers
<1>2. QED
  BY <1>1 DEF BadgesInv, BadgesHeld, BadgesKeys, B!GrantsLast, B!ListCatalog, B!Kind

(* What the catalogue, the grants and the requests under way have to do with each other: a
   grant is held, still owed by a request, or has met the end of its badge. *)
THEOREM BadgesInvariance == ASSUME BadgesAssumptions PROVE B!Spec => []BadgesInv
<1>1. B!Init => BadgesInv
  BY BadgesInit
<1>2. BadgesInv /\ [B!Next]_(B!vars) => BadgesInv'
  BY BadgesKeeps
<1>3. QED
  BY <1>1, <1>2, PTL DEF B!Spec

-----------------------------------------------------------------------------
(* The rate limiter. A window admits no more than the limit because the numbers that are
   handed out within a window differ: for that a number must outlive its window, which
   the counter's expiry gives unless the request that was to renew it has slipped. *)

LEMMA LimiterSize == ASSUME NEW X PROVE R!Cardinality(X) = Cardinality(X)
BY DEF R!Cardinality, Cardinality

LimiterConn == [at : {"none", "incr", "expire", "answer"}, key : R!Key \cup {None}, n : Nat, since : Nat,
                slipped : BOOLEAN]
LimiterRecord == [key : R!Key, at : Nat, n : Nat]

LimiterAssumptions == MaxPerWindow \in Nat /\ Window \in Nat /\ MaxClock \in Nat

LimiterTypes ==
  /\ clock \in 0 .. MaxClock
  /\ hits \in [R!Key -> Nat] /\ expires \in [R!Key -> Nat \cup {R!NoTTL}]
  /\ passing \in [Conn -> LimiterConn]
  /\ \A a \in admitted : a \in LimiterRecord /\ a.at <= clock /\ a.n \in 1 .. MaxPerWindow
  /\ \A c \in Conn : /\ passing[c].at # "none" => passing[c].key \in R!Key
                     /\ passing[c].at \in {"expire", "answer"} => passing[c].since <= clock /\ passing[c].n >= 1
                     /\ passing[c].at = "incr" => ~passing[c].slipped

(* The number n that the key k was given at the time s is one of the counter that is
   still there, and stays until the window has passed. *)
LimiterStands(k, s, n) == clock >= s + Window \/ (hits[k] >= n /\ expires[k] >= s + Window)

Numbered(c) == passing[c].at \in {"expire", "answer"} /\ ~passing[c].slipped

LimiterStanding ==
  /\ \A a \in admitted : LimiterStands(a.key, a.at, a.n)
  /\ \A c \in Conn : Numbered(c) =>
       /\ passing[c].at = "expire" => hits[passing[c].key] >= passing[c].n
       /\ passing[c].at = "answer" => LimiterStands(passing[c].key, passing[c].since, passing[c].n)

(* Numbers of a key that are given within a window differ. *)
LimiterDiffer(k, s, n, l, t, m) == k = l /\ s < t + Window /\ t < s + Window => n # m

LimiterApart ==
  /\ \A a, b \in admitted : a # b => LimiterDiffer(a.key, a.at, a.n, b.key, b.at, b.n)
  /\ \A a \in admitted, c \in Conn :
       Numbered(c) => LimiterDiffer(a.key, a.at, a.n, passing[c].key, passing[c].since, passing[c].n)
  /\ \A c, d \in Conn :
       c # d /\ Numbered(c) /\ Numbered(d) =>
         LimiterDiffer(passing[c].key, passing[c].since, passing[c].n, passing[d].key, passing[d].since, passing[d].n)

LimiterInv == LimiterTypes /\ LimiterStanding /\ LimiterApart

-----------------------------------------------------------------------------
LEMMA LimiterInit == ASSUME LimiterAssumptions, R!Init PROVE LimiterInv
<1>1. R!NoConn \in LimiterConn /\ R!NoConn.at = "none"
  BY DEF R!NoConn, LimiterConn
<1>2. \A c \in Conn : passing[c] = R!NoConn
  BY DEF R!Init
<1>3. LimiterTypes
  BY <1>1, <1>2 DEF R!Init, LimiterTypes, LimiterAssumptions, R!NoTTL
<1>4. QED
  BY <1>1, <1>2, <1>3 DEF R!Init, LimiterInv, LimiterStanding, LimiterApart, Numbered

(* The step of one connection: what it goes on as, and what it had. *)
LEMMA LimiterGoes ==
  ASSUME LimiterTypes, NEW c \in Conn, NEW new \in LimiterConn, passing' = [passing EXCEPT ![c] = new]
  PROVE  /\ passing' \in [Conn -> LimiterConn] /\ passing'[c] = new
         /\ \A d \in Conn \ {c} : passing'[d] = passing[d]
BY DEF LimiterTypes

(* A connection that has no number, or has lost it, is left out of account. *)
LEMMA LimiterCloses ==
  ASSUME LimiterInv, NEW c \in Conn, NEW new \in LimiterConn, passing' = [passing EXCEPT ![c] = new],
         new.at \in {"none", "incr"}, new.at = "incr" => new.key \in R!Key /\ ~new.slipped,
         UNCHANGED <<clock, hits, expires, admitted>>
  PROVE  LimiterInv'
<1>1. /\ passing' \in [Conn -> LimiterConn] /\ passing'[c] = new
      /\ \A d \in Conn \ {c} : passing'[d] = passing[d]
  BY LimiterGoes DEF LimiterInv
<1>2. LimiterTypes'
  BY <1>1 DEF LimiterInv, LimiterTypes
<1>3. LimiterStanding'
  BY <1>1 DEF LimiterInv, LimiterStanding, LimiterStands, Numbered
<1>4. LimiterApart'
  BY <1>1 DEF LimiterInv, LimiterApart, Numbered
<1>5. QED
  BY <1>2, <1>3, <1>4 DEF LimiterInv

LEMMA LimiterArrives == ASSUME LimiterInv, NEW c \in Conn, R!RateLimitMiddleware(c) PROVE LimiterInv'
<1>1. PICK path \in Path, peer \in Host, forwarded \in Host \cup {None} :
        passing' = [passing EXCEPT ![c] = [R!NoConn EXCEPT !.at = "incr", !.key = <<path, R!ClientIP(forwarded, peer)>>]]
  BY DEF R!RateLimitMiddleware
<1> DEFINE key == <<path, R!ClientIP(forwarded, peer)>>
           new == [R!NoConn EXCEPT !.at = "incr", !.key = key]
<1>2. key \in R!Key
  BY DEF R!ClientIP, R!Key
<1> HIDE DEF key
<1>3. new \in LimiterConn /\ new.at = "incr" /\ new.key = key /\ ~new.slipped
  BY <1>2 DEF R!NoConn, LimiterConn
<1>4. passing' = [passing EXCEPT ![c] = new]
  BY <1>1 DEF key
<1> HIDE DEF new
<1>5. QED
  BY <1>2, <1>3, <1>4, LimiterCloses DEF R!RateLimitMiddleware

LEMMA LimiterLetsGo == ASSUME LimiterInv, NEW c \in Conn, R!AllowAnyway(c) PROVE LimiterInv'
<1>1. R!NoConn \in LimiterConn /\ R!NoConn.at = "none"
  BY DEF R!NoConn, LimiterConn
<1>2. QED
  BY <1>1, LimiterCloses DEF R!AllowAnyway

(* The number that is given is above all those of the key that stand. *)
LEMMA LimiterCounts == ASSUME LimiterAssumptions, LimiterInv, NEW c \in Conn, R!Incr(c) PROVE LimiterInv'
<1> DEFINE k == passing[c].key
           new == [passing[c] EXCEPT !.at = "expire", !.n = hits[k] + 1, !.since = clock]
<1>1. passing[c] \in LimiterConn /\ passing[c].at = "incr" /\ k \in R!Key /\ hits[k] \in Nat /\ clock \in Nat
      /\ ~passing[c].slipped
  BY DEF R!Incr, LimiterInv, LimiterTypes, LimiterAssumptions
<1>2. /\ new \in LimiterConn /\ new.at = "expire" /\ new.key = k /\ new.n = hits[k] + 1
      /\ new.since = clock /\ ~new.slipped
  <2> HIDE DEF k
  <2>1. hits[k] + 1 \in Nat
    BY <1>1
  <2>2. QED
    BY <1>1, <2>1 DEF LimiterConn, k
<1>3. passing' = [passing EXCEPT ![c] = new]
  BY DEF R!Incr, LimiterInv, LimiterTypes
<1>4. hits' = [hits EXCEPT ![k] = @ + 1]
  BY DEF R!Incr
<1>5. clock' = clock /\ expires' = expires /\ admitted' = admitted
  BY DEF R!Incr
<1>6. \A l \in R!Key : hits'[l] = IF l = k THEN hits[l] + 1 ELSE hits[l]
  BY <1>1, <1>4 DEF LimiterInv, LimiterTypes
<1>7. hits' \in [R!Key -> Nat] /\ \A l \in R!Key : hits[l] \in Nat /\ hits[l] <= hits'[l]
  <2>1. \A l \in R!Key : hits[l] \in Nat
    BY DEF LimiterInv, LimiterTypes
  <2>2. \A l \in R!Key : hits'[l] \in Nat /\ hits[l] <= hits'[l]
    BY <1>6, <2>1
  <2>3. DOMAIN hits' = R!Key /\ hits' = [l \in DOMAIN hits' |-> hits'[l]]
    BY <1>4 DEF LimiterInv, LimiterTypes
  <2>4. QED
    BY <2>1, <2>2, <2>3
<1> HIDE DEF new, k
<1>8. /\ passing' \in [Conn -> LimiterConn] /\ passing'[c] = new
      /\ \A d \in Conn \ {c} : passing'[d] = passing[d]
  BY <1>2, <1>3, LimiterGoes DEF LimiterInv
<1>9. LimiterTypes'
  BY <1>1, <1>2, <1>5, <1>7, <1>8 DEF LimiterInv, LimiterTypes
<1>10. LimiterStanding'
  <2>1. ASSUME NEW a \in admitted PROVE LimiterStands(a.key, a.at, a.n)'
    BY <1>5, <1>7 DEF LimiterInv, LimiterTypes, LimiterRecord, LimiterStanding, LimiterStands
  <2>2. ASSUME NEW d \in Conn, Numbered(d)'
        PROVE  /\ passing'[d].at = "expire" => hits'[passing'[d].key] >= passing'[d].n
               /\ passing'[d].at = "answer" => LimiterStands(passing[d].key, passing[d].since, passing[d].n)'
    <3>1. CASE d = c
      BY <1>1, <1>2, <1>6, <1>8, <3>1
    <3>2. CASE d # c
      <4>1. passing'[d] = passing[d] /\ Numbered(d) /\ passing[d].key \in R!Key /\ passing[d].n \in Nat
        BY <1>8, <2>2, <3>2 DEF Numbered, LimiterInv, LimiterTypes, LimiterConn
      <4>2. QED
        BY <1>5, <1>7, <4>1 DEF LimiterInv, LimiterStanding, LimiterStands
    <3>3. QED
      BY <3>1, <3>2
  <2>3. QED
    BY <1>5, <2>1, <2>2 DEF LimiterStanding
<1>11. LimiterApart'
  <2>1. ASSUME NEW a \in admitted PROVE LimiterDiffer(a.key, a.at, a.n, k, clock, hits[k] + 1)
    <3>1. a.key \in R!Key /\ a.at \in Nat /\ a.n \in Nat
      BY DEF LimiterInv, LimiterTypes, LimiterRecord
    <3>2. a.key = k /\ clock < a.at + Window => a.n <= hits[k]
      BY <1>1, <3>1 DEF LimiterInv, LimiterStanding, LimiterStands, LimiterAssumptions
    <3>3. QED
      BY <1>1, <3>1, <3>2 DEF LimiterDiffer, LimiterAssumptions
  <2>2. ASSUME NEW d \in Conn, Numbered(d)
        PROVE  /\ LimiterDiffer(k, clock, hits[k] + 1, passing[d].key, passing[d].since, passing[d].n)
               /\ LimiterDiffer(passing[d].key, passing[d].since, passing[d].n, k, clock, hits[k] + 1)
    <3>1. passing[d] \in LimiterConn /\ passing[d].key \in R!Key
      BY <2>2 DEF Numbered, LimiterInv, LimiterTypes
    <3>2. passing[d].n \in Nat /\ passing[d].since \in Nat
      BY <3>1 DEF LimiterConn
    <3>3. passing[d].key = k /\ clock < passing[d].since + Window => passing[d].n <= hits[k]
      BY <1>1, <2>2, <3>1, <3>2 DEF Numbered, LimiterInv, LimiterStanding, LimiterStands, LimiterAssumptions
    <3>4. QED
      BY <1>1, <3>2, <3>3 DEF LimiterDiffer, LimiterAssumptions
  <2>3. \A d \in Conn : d # c => (Numbered(d)' <=> Numbered(d))
    BY <1>8 DEF Numbered
  <2>4. QED
    BY <1>2, <1>5, <1>8, <2>1, <2>2, <2>3 DEF LimiterInv, LimiterApart
<1>12. QED
  BY <1>9, <1>10, <1>11 DEF LimiterInv

(* The expiry is set to a whole window from now: whatever stands of the key goes on to. *)
LEMMA LimiterRenews == ASSUME LimiterAssumptions, LimiterInv, NEW c \in Conn, R!Expire(c) PROVE LimiterInv'
<1> DEFINE k == passing[c].key
           new == [passing[c] EXCEPT !.at = "answer"]
<1>1. passing[c] \in LimiterConn /\ passing[c].at = "expire" /\ k \in R!Key /\ hits[k] \in Nat /\ clock \in Nat
      /\ passing[c].since <= clock /\ passing[c].n >= 1
  BY DEF R!Expire, LimiterInv, LimiterTypes, LimiterAssumptions
<1>2. /\ new \in LimiterConn /\ new.at = "answer" /\ new.key = k /\ new.n = passing[c].n
      /\ new.since = passing[c].since /\ new.slipped = passing[c].slipped /\ passing[c].n \in Nat /\ passing[c].since \in Nat
  BY <1>1 DEF LimiterConn
<1>3. passing' = [passing EXCEPT ![c] = new]
  BY DEF R!Expire
<1>4. expires' = [expires EXCEPT ![k] = R!Renew(k)]
  BY DEF R!Expire
<1>5. clock' = clock /\ hits' = hits /\ admitted' = admitted
  BY DEF R!Expire
<1>6. \A l \in R!Key : expires'[l] = IF l = k THEN R!Renew(k) ELSE expires[l]
  BY <1>1, <1>4 DEF LimiterInv, LimiterTypes
<1>7. R!Renew(k) \in Nat \cup {R!NoTTL} /\ (hits[k] >= 1 => R!Renew(k) = clock + Window)
  BY <1>1 DEF R!Renew, LimiterAssumptions
<1>8. expires' \in [R!Key -> Nat \cup {R!NoTTL}]
  BY <1>4, <1>7 DEF LimiterInv, LimiterTypes
<1> HIDE DEF new, k
<1>9. /\ passing' \in [Conn -> LimiterConn] /\ passing'[c] = new
      /\ \A d \in Conn \ {c} : passing'[d] = passing[d]
  BY <1>2, <1>3, LimiterGoes DEF LimiterInv
<1>10. LimiterTypes'
  BY <1>1, <1>2, <1>5, <1>8, <1>9 DEF LimiterInv, LimiterTypes
<1>11. ASSUME NEW l \in R!Key, NEW s \in Nat, NEW n \in Nat, n >= 1, s <= clock, LimiterStands(l, s, n)
       PROVE  LimiterStands(l, s, n)'
  BY <1>1, <1>5, <1>6, <1>7, <1>11 DEF LimiterStands, LimiterAssumptions
<1>12. ASSUME NEW a \in admitted PROVE LimiterStands(a.key, a.at, a.n)'
  BY <1>11 DEF LimiterInv, LimiterTypes, LimiterRecord, LimiterStanding
<1>13. ASSUME NEW d \in Conn, Numbered(d)'
       PROVE  /\ passing'[d].at = "expire" => hits'[passing'[d].key] >= passing'[d].n
              /\ passing'[d].at = "answer" => LimiterStands(passing[d].key, passing[d].since, passing[d].n)'
  <2>1. CASE d = c
    <3>1. ~passing[c].slipped
      BY <1>2, <1>9, <1>13, <2>1 DEF Numbered
    <3>2. hits[k] >= passing[c].n
      BY <1>1, <3>1 DEF k, Numbered, LimiterInv, LimiterStanding
    <3>3. expires'[k] = clock + Window
      BY <1>1, <1>2, <1>6, <1>7, <3>2
    <3>4. QED
      BY <1>1, <1>2, <1>5, <1>9, <2>1, <3>2, <3>3 DEF LimiterStands, LimiterAssumptions
  <2>2. CASE d # c
    <3>1. /\ passing'[d] = passing[d] /\ Numbered(d) /\ passing[d].key \in R!Key /\ passing[d].n \in Nat
          /\ passing[d].since \in Nat /\ passing[d].n >= 1 /\ passing[d].since <= clock
      BY <1>9, <1>13, <2>2 DEF Numbered, LimiterInv, LimiterTypes, LimiterConn
    <3>2. passing[d].at = "answer" => LimiterStands(passing[d].key, passing[d].since, passing[d].n)'
      BY <1>11, <3>1 DEF LimiterInv, LimiterStanding
    <3>3. QED
      BY <1>5, <3>1, <3>2 DEF LimiterInv, LimiterStanding
  <2>3. QED
    BY <2>1, <2>2
<1>14. LimiterStanding'
  BY <1>5, <1>12, <1>13 DEF LimiterStanding
<1>15. LimiterApart'
  <2>1. \A d \in Conn : (Numbered(d)' <=> Numbered(d)) /\ passing'[d].key = passing[d].key
                         /\ passing'[d].since = passing[d].since /\ passing'[d].n = passing[d].n
    BY <1>1, <1>2, <1>9 DEF Numbered, k
  <2>2. QED
    BY <1>5, <2>1 DEF LimiterInv, LimiterApart
<1>16. QED
  BY <1>10, <1>14, <1>15 DEF LimiterInv

(* What is admitted takes over the number of its connection. *)
LEMMA LimiterAdmits == ASSUME LimiterAssumptions, LimiterInv, NEW c \in Conn, R!Allow(c) PROVE LimiterInv'
<1> DEFINE new == [key |-> passing[c].key, at |-> passing[c].since, n |-> passing[c].n]
<1>1. R!NoConn \in LimiterConn /\ R!NoConn.at = "none"
  BY DEF R!NoConn, LimiterConn
<1>2. passing' = [passing EXCEPT ![c] = R!NoConn] /\ clock' = clock /\ hits' = hits /\ expires' = expires
  BY DEF R!Allow
<1>3. CASE admitted' = admitted
  BY <1>1, <1>2, <1>3, LimiterCloses
<1>4. CASE admitted' = admitted \cup {new} /\ passing[c].n <= MaxPerWindow /\ ~passing[c].slipped
  <2>1. passing[c] \in LimiterConn /\ passing[c].at = "answer" /\ Numbered(c) /\ passing[c].key \in R!Key
        /\ passing[c].n >= 1 /\ passing[c].since <= clock
    BY <1>4 DEF R!Allow, Numbered, LimiterInv, LimiterTypes
  <2>2. new \in LimiterRecord /\ new.n \in 1 .. MaxPerWindow
    BY <1>4, <2>1 DEF LimiterConn, LimiterRecord, LimiterAssumptions
  <2>3. new.key = passing[c].key /\ new.at = passing[c].since /\ new.n = passing[c].n
    OBVIOUS
  <2> HIDE DEF new
  <2>4. /\ passing' \in [Conn -> LimiterConn] /\ passing'[c] = R!NoConn
        /\ \A d \in Conn \ {c} : passing'[d] = passing[d]
    BY <1>1, <1>2, LimiterGoes DEF LimiterInv
  <2>5. LimiterTypes'
    BY <1>1, <1>2, <1>4, <2>1, <2>2, <2>3, <2>4 DEF LimiterInv, LimiterTypes
  <2>6. LimiterStanding'
    BY <1>1, <1>2, <1>4, <2>1, <2>3, <2>4 DEF LimiterInv, LimiterStanding, LimiterStands, Numbered
  <2>7. \A d \in Conn : Numbered(d)' => d # c /\ Numbered(d) /\ passing'[d] = passing[d]
    BY <1>1, <2>4 DEF Numbered
  <2>8. \A a \in admitted : /\ LimiterDiffer(a.key, a.at, a.n, new.key, new.at, new.n)
                            /\ LimiterDiffer(new.key, new.at, new.n, a.key, a.at, a.n)
    BY <2>1, <2>3 DEF LimiterInv, LimiterApart, LimiterDiffer
  <2>9. LimiterApart'
    BY <1>4, <2>1, <2>3, <2>7, <2>8 DEF LimiterInv, LimiterApart
  <2>10. QED
    BY <2>5, <2>6, <2>9 DEF LimiterInv
<1>5. QED
  BY <1>3, <1>4 DEF R!Allow

(* A key goes when a window has passed since it was last renewed. *)
LEMMA LimiterTicks == ASSUME LimiterAssumptions, LimiterInv, R!Tick PROVE LimiterInv'
<1> DEFINE old == {k \in R!Key : expires[k] = clock + 1}
<1>1. clock \in Nat /\ clock' = clock + 1 /\ clock < MaxClock /\ admitted' = admitted
  BY DEF R!Tick, LimiterInv, LimiterTypes, LimiterAssumptions
<1>2. /\ hits' = [k \in R!Key |-> IF k \in old THEN 0 ELSE hits[k]]
      /\ expires' = [k \in R!Key |-> IF k \in old THEN R!NoTTL ELSE expires[k]]
      /\ passing' = [c \in Conn |-> [passing[c] EXCEPT !.slipped = @ \/ (passing[c].at = "expire" /\ passing[c].key \in old)]]
  BY DEF R!Tick
<1>3. ASSUME NEW c \in Conn
      PROVE  /\ passing[c] \in LimiterConn
             /\ passing'[c] \in LimiterConn
             /\ passing'[c].at = passing[c].at /\ passing'[c].key = passing[c].key /\ passing'[c].n = passing[c].n
             /\ passing'[c].since = passing[c].since
             /\ passing'[c].slipped <=> passing[c].slipped \/ (passing[c].at = "expire" /\ passing[c].key \in old)
  BY <1>2 DEF LimiterInv, LimiterTypes, LimiterConn
<1>4. \A k \in R!Key : /\ k \in old <=> expires[k] = clock + 1
                     /\ hits[k] \in Nat /\ hits'[k] = (IF k \in old THEN 0 ELSE hits[k])
                     /\ expires'[k] = (IF k \in old THEN R!NoTTL ELSE expires[k])
  BY <1>2 DEF LimiterInv, LimiterTypes
<1>5. hits' \in [R!Key -> Nat] /\ expires' \in [R!Key -> Nat \cup {R!NoTTL}]
  BY <1>2 DEF LimiterInv, LimiterTypes
<1>6. passing' \in [Conn -> LimiterConn]
  BY <1>2, <1>3
<1> HIDE DEF old
<1>7. LimiterTypes'
  <2>1. clock' \in 0 .. MaxClock
    BY <1>1 DEF LimiterAssumptions
  <2>2. ASSUME NEW a \in admitted PROVE a \in LimiterRecord /\ a.at <= clock' /\ a.n \in 1 .. MaxPerWindow
    BY <1>1 DEF LimiterInv, LimiterTypes, LimiterRecord
  <2>3. ASSUME NEW c \in Conn
        PROVE  /\ passing'[c].at # "none" => passing'[c].key \in R!Key
               /\ passing'[c].at \in {"expire", "answer"} => passing'[c].since <= clock' /\ passing'[c].n >= 1
               /\ passing'[c].at = "incr" => ~passing'[c].slipped
    <3>1. passing[c].since \in Nat
      BY <1>3 DEF LimiterConn
    <3>2. QED
      BY <1>1, <1>3, <3>1 DEF LimiterInv, LimiterTypes
  <2>4. QED
    BY <1>1, <1>5, <1>6, <2>1, <2>2, <2>3 DEF LimiterTypes
<1>8. ASSUME NEW k \in R!Key, NEW s \in Nat, NEW n \in Nat, LimiterStands(k, s, n) PROVE LimiterStands(k, s, n)'
  BY <1>1, <1>4, <1>8 DEF LimiterStands, LimiterAssumptions
<1>9. \A c \in Conn : Numbered(c)' => Numbered(c) /\ (passing[c].at = "expire" => passing[c].key \notin old)
  BY <1>3 DEF Numbered
<1>10. LimiterStanding'
  <2>1. ASSUME NEW a \in admitted PROVE LimiterStands(a.key, a.at, a.n)'
    BY <1>8 DEF LimiterInv, LimiterTypes, LimiterRecord, LimiterStanding
  <2>2. ASSUME NEW c \in Conn, Numbered(c)'
        PROVE  /\ passing'[c].at = "expire" => hits'[passing'[c].key] >= passing'[c].n
               /\ passing'[c].at = "answer" => LimiterStands(passing[c].key, passing[c].since, passing[c].n)'
    <3>1. Numbered(c) /\ passing[c].key \in R!Key /\ passing[c].n \in Nat /\ passing[c].since \in Nat
      BY <1>3, <1>9, <2>2 DEF Numbered, LimiterInv, LimiterTypes, LimiterConn
    <3>2. passing[c].at = "answer" => LimiterStands(passing[c].key, passing[c].since, passing[c].n)'
      BY <1>3, <1>8, <3>1 DEF LimiterInv, LimiterStanding
    <3>3. passing[c].at = "expire" => hits'[passing[c].key] >= passing[c].n
      BY <1>4, <1>9, <2>2, <3>1 DEF LimiterInv, LimiterStanding
    <3>4. QED
      BY <1>3, <3>2, <3>3
  <2>3. QED
    BY <1>1, <2>1, <2>2 DEF LimiterStanding
<1>11. LimiterApart'
  BY <1>1, <1>3, <1>9 DEF LimiterInv, LimiterApart
<1>12. QED
  BY <1>7, <1>10, <1>11 DEF LimiterInv

LEMMA LimiterKeeps == ASSUME LimiterAssumptions, LimiterInv, [R!Next]_(R!vars) PROVE LimiterInv'
<1>1. CASE UNCHANGED R!vars
  BY <1>1 DEF R!vars, LimiterInv, LimiterTypes, LimiterStanding, LimiterStands, LimiterApart, Numbered
<1>2. QED
  BY <1>1, LimiterArrives, LimiterCounts, LimiterRenews, LimiterAdmits, LimiterLetsGo, LimiterTicks DEF R!Next

LEMMA LimiterTyped == ASSUME LimiterAssumptions, LimiterInv PROVE R!RateLimitTypeOK
BY DEF LimiterInv, LimiterTypes, R!RateLimitTypeOK, LimiterConn, LimiterRecord, LimiterAssumptions

(* The numbers of a window are different ones up to the limit. *)
LEMMA LimiterHolds == ASSUME LimiterAssumptions, LimiterInv PROVE R!WindowHolds
<1> SUFFICES ASSUME NEW k \in R!Key, NEW t \in 0 .. clock
             PROVE  Cardinality({a \in admitted : a.key = k /\ a.at \in t .. t + Window - 1}) <= MaxPerWindow
  BY LimiterSize DEF R!WindowHolds
<1> DEFINE within == {a \in admitted : a.key = k /\ a.at \in t .. t + Window - 1}
           number == [a \in within |-> a.n]
<1>1. number \in [within -> 1 .. MaxPerWindow]
  BY DEF LimiterInv, LimiterTypes
<1>2. ASSUME NEW a \in within, NEW b \in within, number[a] = number[b] PROVE a = b
  <2>1. a.at < b.at + Window /\ b.at < a.at + Window
    BY DEF LimiterInv, LimiterTypes, LimiterRecord, LimiterAssumptions
  <2>2. QED
    BY <1>2, <2>1 DEF LimiterInv, LimiterApart, LimiterDiffer
<1>3. number \in Injection(within, 1 .. MaxPerWindow)
  BY <1>1, <1>2 DEF Injection, IsInjective
<1>4. IsFiniteSet(1 .. MaxPerWindow) /\ Cardinality(1 .. MaxPerWindow) = MaxPerWindow
  BY FS_Interval DEF LimiterAssumptions
<1> HIDE DEF number, within
<1>5. Cardinality(within) <= Cardinality(1 .. MaxPerWindow)
  BY <1>3, <1>4, FS_Injection
<1>6. QED
  BY <1>4, <1>5 DEF within

(* A number that was given out in a window that is still open is below the counter, which
   lives until that window is over. *)
THEOREM LimiterInvariance == ASSUME LimiterAssumptions PROVE R!Spec => []LimiterInv
<1>1. R!Init => LimiterInv
  BY LimiterInit
<1>2. LimiterInv /\ [R!Next]_(R!vars) => LimiterInv'
  BY LimiterKeeps
<1>3. QED
  BY <1>1, <1>2, PTL DEF R!Spec

-----------------------------------------------------------------------------
(* Settings. A request that has met no other reads, merges and writes alone; what it
   finds settled it leaves so, and SettingsKnows says which of the row, the flag and the
   profile it has written at each of its statements. *)

SettingsRow == [visibility : Visibility, theme : Theme]
SettingsMeant == [visibility : Visibility, theme : Theme, profile : Bio \cup {None}]
SettingsStage == {"closed", "read", "write", "flag", "answer", "update", "badges"}
SettingsRequest == [at : SettingsStage, patch : S!Patches \cup [profile : Bio] \cup {None},
                    current : SettingsRow, met : BOOLEAN]

(* Accounts can be public, there is a theme, and a row is not mistaken for none. *)
SettingsAssumptions == "public" \in Visibility /\ Theme # {} /\ None \notin SettingsRow

SettingsTypes ==
  /\ settingsRow \in {None} \cup SettingsRow
  /\ isPrivate \in BOOLEAN /\ profile \in Bio \cup {None}
  /\ request \in [Device -> SettingsRequest]
  /\ meant \in SettingsMeant
  /\ unsettled \subseteq S!Field \cup {"profile", "flag"}
  /\ \A d \in Device : /\ request[d].at \in {"read", "write", "flag", "answer"} => request[d].patch \in S!Patches
                       /\ request[d].at \in {"update", "badges"} => request[d].patch \in [profile : Bio]

(* A request that has met no other is alone. *)
SettingsByOne == \A d, e \in Device : S!Open(d) /\ ~request[d].met /\ e # d => ~S!Open(e)

FlagSettled == "flag" \in unsettled \/ isPrivate = S!IsPrivate(S!Settings)
ProfileSettled == "profile" \in unsettled \/ profile = meant.profile
FieldsSettled(changed) == \A f \in S!Field \ (unsettled \cup changed) : S!Settings[f] = meant[f]

(* What a request that is alone finds settled, and what it leaves so. *)
SettingsKnows(d) ==
  S!Open(d) /\ ~request[d].met =>
    /\ request[d].at \in {"read", "write", "update"} => FlagSettled /\ ProfileSettled /\ FieldsSettled({})
    /\ request[d].at = "write" =>
         \A f \in S!Field : request[d].current[f] = IF f \in DOMAIN request[d].patch THEN request[d].patch[f]
                                                  ELSE S!Settings[f]
    /\ request[d].at \in {"flag", "answer"} =>
         /\ ProfileSettled /\ FieldsSettled(DOMAIN request[d].patch)
         /\ S!Settings = request[d].current
         /\ \A f \in S!Field \cap DOMAIN request[d].patch : S!Settings[f] = request[d].patch[f]
    /\ request[d].at = "answer" => isPrivate = S!IsPrivate(S!Settings)
    /\ request[d].at = "badges" => FlagSettled /\ FieldsSettled({}) /\ profile = request[d].patch.profile

SettingsInv ==
  /\ SettingsTypes /\ SettingsByOne /\ S!SettingsInTurn
  /\ \A d \in Device : SettingsKnows(d)

-----------------------------------------------------------------------------
LEMMA SettingsPatch ==
  ASSUME NEW p \in S!Patches
  PROVE  /\ DOMAIN p \subseteq S!Field
         /\ "visibility" \in DOMAIN p => p["visibility"] \in Visibility
         /\ "theme" \in DOMAIN p => p["theme"] \in Theme
BY DEF S!Patches, S!Field

LEMMA SettingsProfile ==
  ASSUME NEW p \in [profile : Bio] PROVE DOMAIN p = {"profile"} /\ p["profile"] = p.profile /\ p.profile \in Bio
OBVIOUS

LEMMA SettingsDefault == ASSUME SettingsAssumptions PROVE S!Default \in SettingsRow
<1>1. (CHOOSE t \in Theme : TRUE) \in Theme
  BY DEF SettingsAssumptions
<1>2. QED
  BY <1>1 DEF S!Default, SettingsRow, SettingsAssumptions

LEMMA SettingsFound == ASSUME SettingsAssumptions, SettingsTypes PROVE S!Settings \in SettingsRow
BY SettingsDefault DEF S!Settings, SettingsTypes

LEMMA SettingsClosed ==
  ASSUME SettingsAssumptions PROVE S!Closed \in SettingsRequest /\ S!Closed.at = "closed" /\ ~S!Closed.met
BY SettingsDefault DEF S!Closed, SettingsRequest, SettingsStage

LEMMA SettingsInit == ASSUME SettingsAssumptions, S!Init PROVE SettingsInv
<1>1. \A d \in Device : request[d] = S!Closed
  BY DEF S!Init
<1>2. S!Default \in SettingsRow /\ S!Settings = S!Default /\ DOMAIN meant = S!Field \cup {"profile"}
  BY SettingsDefault DEF S!Init, S!Settings, S!Field
<1>3. meant \in SettingsMeant
  BY <1>2 DEF S!Init, SettingsMeant, SettingsRow
<1>4. SettingsTypes
  BY <1>1, <1>2, <1>3, SettingsClosed DEF S!Init, SettingsTypes
<1>5. S!IsPrivate(S!Settings) = FALSE
  BY <1>2 DEF S!IsPrivate, S!Default
<1>6. S!SettingsInTurn
  <2>1. \A f \in S!Field : S!Settings[f] = meant[f]
    BY <1>2 DEF S!Init, S!Field
  <2>2. isPrivate = S!IsPrivate(S!Settings) /\ profile = meant.profile
    BY <1>5 DEF S!Init
  <2>3. QED
    BY <2>1, <2>2 DEF S!SettingsInTurn
<1>7. QED
  BY <1>1, <1>4, <1>6, SettingsClosed DEF SettingsInv, SettingsByOne, SettingsKnows, S!Open

-----------------------------------------------------------------------------
(* A request begins: alone, it finds everything settled, and else all have met. *)
LEMMA SettingsBegins ==
  ASSUME SettingsAssumptions, SettingsInv, NEW d \in Device, NEW l \in {"read", "update"}, NEW p,
         l = "read" => p \in S!Patches, l = "update" => p \in [profile : Bio], S!Begin(d, l, p)
  PROVE  SettingsInv'
<1> DEFINE others == {e \in Device : S!Open(e)}
           new == [S!Closed EXCEPT !.at = l, !.patch = p, !.met = others # {}]
<1>1. /\ settingsRow' = settingsRow /\ isPrivate' = isPrivate /\ profile' = profile
      /\ meant' = meant /\ unsettled' = unsettled /\ d \notin others
  BY DEF S!Begin, S!tables, S!ghosts
<1>2. new \in SettingsRequest /\ new.at = l /\ new.patch = p /\ (new.met <=> others # {})
  BY SettingsClosed DEF SettingsRequest, SettingsStage
<1>3. request' = [e \in Device |-> IF e = d THEN new ELSE [request[e] EXCEPT !.met = @ \/ e \in others]]
  BY DEF S!Begin
<1> HIDE DEF new
<1>4. ASSUME NEW e \in Device, e # d
      PROVE  /\ request'[e] \in SettingsRequest /\ request'[e].at = request[e].at
             /\ request'[e].patch = request[e].patch /\ (S!Open(e) => request'[e].met)
  <2>1. request[e] \in SettingsRequest /\ request'[e] = [request[e] EXCEPT !.met = @ \/ e \in others]
    BY <1>3, <1>4 DEF SettingsInv, SettingsTypes
  <2>2. QED
    BY <2>1 DEF SettingsRequest
<1>5. request'[d] = new
  BY <1>3
<1>6. request' \in [Device -> SettingsRequest]
  BY <1>2, <1>3, <1>4
<1>7. SettingsTypes'
  BY <1>1, <1>2, <1>4, <1>5, <1>6 DEF SettingsInv, SettingsTypes
<1>8. \A e \in Device : e # d => (S!Open(e)' <=> e \in others) /\ (e \in others => request'[e].met)
  BY <1>4 DEF S!Open
<1>9. S!Open(d)' /\ (request'[d].met <=> others # {})
  BY <1>2, <1>5 DEF S!Open
<1>10. SettingsByOne'
  BY <1>8, <1>9 DEF SettingsByOne
<1>11. S!SettingsInTurn'
  BY <1>9 DEF S!SettingsInTurn
<1>12. ASSUME NEW e \in Device PROVE SettingsKnows(e)'
  <2>1. CASE e # d
    BY <1>8, <2>1 DEF SettingsKnows
  <2>2. CASE e = d /\ others # {}
    BY <1>9, <2>2 DEF SettingsKnows
  <2>3. CASE e = d /\ others = {}
    <3>1. FlagSettled /\ ProfileSettled /\ FieldsSettled({})
      BY <2>3 DEF SettingsInv, S!SettingsInTurn, FlagSettled, ProfileSettled, FieldsSettled
    <3>2. FlagSettled' /\ ProfileSettled' /\ FieldsSettled({})'
      BY <1>1, <3>1 DEF FlagSettled, ProfileSettled, FieldsSettled, S!Settings
    <3>3. request'[d].at \in {"read", "update"}
      BY <1>2, <1>5
    <3>4. QED
      BY <2>3, <3>2, <3>3 DEF SettingsKnows
  <2>4. QED
    BY <2>1, <2>2, <2>3
<1>13. QED
  BY <1>7, <1>10, <1>11, <1>12 DEF SettingsInv

(* A step of a request: only what is settled in its eyes changes. *)
LEMMA SettingsGoes ==
  ASSUME SettingsInv, NEW d \in Device, NEW new \in SettingsRequest, S!Step(d, new), S!Open(d),
         new.at # "closed", new.patch = request[d].patch, new.met = request[d].met,
         new.at \in {"read", "write", "flag", "answer"} => new.patch \in S!Patches,
         new.at \in {"update", "badges"} => new.patch \in [profile : Bio],
         settingsRow' \in {None} \cup SettingsRow, isPrivate' \in BOOLEAN, profile' \in Bio \cup {None}
  PROVE  /\ request'[d] = new /\ meant' = meant /\ unsettled' = unsettled
         /\ SettingsTypes' /\ SettingsByOne' /\ S!SettingsInTurn'
         /\ SettingsKnows(d)' => SettingsInv'
<1>1. meant' = meant /\ unsettled' = unsettled /\ request' = [request EXCEPT ![d] = new]
  BY DEF S!Step, S!ghosts
<1>2. request'[d] = new /\ \A e \in Device \ {d} : request'[e] = request[e]
  BY <1>1 DEF SettingsInv, SettingsTypes
<1>3. SettingsTypes'
  BY <1>1, <1>2 DEF SettingsInv, SettingsTypes
<1>4. SettingsByOne'
  BY <1>2 DEF SettingsInv, SettingsByOne, S!Open
<1>5. S!Open(d)'
  BY <1>2 DEF S!Open
<1>6. S!SettingsInTurn'
  BY <1>5 DEF S!SettingsInTurn
<1>7. ASSUME NEW e \in Device, e # d PROVE SettingsKnows(e)'
  BY <1>2, <1>5, <1>7, <1>4 DEF SettingsKnows, SettingsByOne
<1>8. QED
  BY <1>1, <1>2, <1>3, <1>4, <1>6, <1>7 DEF SettingsInv

(* The next stage of a request. *)
LEMMA SettingsNew ==
  ASSUME SettingsInv, NEW d \in Device
  PROVE  /\ request[d].current \in SettingsRow /\ request[d].met \in BOOLEAN
         /\ \A l \in SettingsStage :
              /\ [request[d] EXCEPT !.at = l] \in SettingsRequest
              /\ [request[d] EXCEPT !.at = l].at = l
              /\ [request[d] EXCEPT !.at = l].current = request[d].current
              /\ [request[d] EXCEPT !.at = l].patch = request[d].patch
              /\ [request[d] EXCEPT !.at = l].met = request[d].met
         /\ \A l \in SettingsStage, c \in SettingsRow :
              /\ [request[d] EXCEPT !.at = l, !.current = c] \in SettingsRequest
              /\ [request[d] EXCEPT !.at = l, !.current = c].at = l
              /\ [request[d] EXCEPT !.at = l, !.current = c].current = c
              /\ [request[d] EXCEPT !.at = l, !.current = c].patch = request[d].patch
              /\ [request[d] EXCEPT !.at = l, !.current = c].met = request[d].met
<1>1. request[d] \in SettingsRequest
  BY DEF SettingsInv, SettingsTypes
<1>2. QED
  BY <1>1 DEF SettingsRequest

LEMMA SettingsReads == ASSUME SettingsAssumptions, SettingsInv, NEW d \in Device, S!GetSettings(d) PROVE SettingsInv'
<1> DEFINE patch == request[d].patch
           current == [f \in S!Field |-> IF f \in DOMAIN patch THEN patch[f] ELSE S!Settings[f]]
           new == [request[d] EXCEPT !.at = "write", !.current = current]
<1>1. request[d].at = "read" /\ S!Open(d) /\ patch \in S!Patches
  BY DEF S!GetSettings, S!Open, SettingsInv, SettingsTypes
<1>2. S!Settings \in SettingsRow
  BY SettingsFound DEF SettingsInv
<1>3. current \in SettingsRow
  <2>1. current = [visibility |-> current["visibility"], theme |-> current["theme"]]
    BY DEF S!Field
  <2>2. current["visibility"] \in Visibility /\ current["theme"] \in Theme
    BY <1>1, <1>2, SettingsPatch DEF S!Field, SettingsRow
  <2>3. QED
    BY <2>1, <2>2 DEF SettingsRow
<1>4. settingsRow' = S!Settings /\ isPrivate' = isPrivate /\ profile' = profile
  BY DEF S!GetSettings
<1>5. S!Step(d, new)
  BY DEF S!GetSettings
<1>6. S!Settings' = S!Settings
  BY <1>2, <1>4 DEF S!Settings, SettingsAssumptions
<1>7. \A f \in S!Field : current[f] = IF f \in DOMAIN patch THEN patch[f] ELSE S!Settings[f]
  OBVIOUS
<1> HIDE DEF current
<1>8. new \in SettingsRequest /\ new.at = "write" /\ new.current = current /\ new.patch = patch
      /\ new.met = request[d].met
  <2>1. request[d] \in SettingsRequest
    BY DEF SettingsInv, SettingsTypes
  <2>2. QED
    BY <1>3, <2>1 DEF SettingsRequest, SettingsStage
<1> HIDE DEF new
<1>9. /\ request'[d] = new /\ meant' = meant /\ unsettled' = unsettled
      /\ SettingsKnows(d)' => SettingsInv'
  BY <1>1, <1>2, <1>4, <1>5, <1>8, SettingsGoes DEF SettingsInv, SettingsTypes
<1>10. SettingsKnows(d)'
  <2> SUFFICES ASSUME ~request'[d].met PROVE SettingsKnows(d)'
    BY DEF SettingsKnows
  <2>1. FlagSettled /\ ProfileSettled /\ FieldsSettled({})
    BY <1>1, <1>8, <1>9 DEF SettingsInv, SettingsKnows
  <2>2. FlagSettled' /\ ProfileSettled' /\ FieldsSettled({})'
    BY <1>4, <1>6, <1>9, <2>1 DEF FlagSettled, ProfileSettled, FieldsSettled
  <2>3. QED
    BY <1>6, <1>7, <1>8, <1>9, <2>2 DEF SettingsKnows
<1>11. QED
  BY <1>9, <1>10

LEMMA SettingsWrites == ASSUME SettingsAssumptions, SettingsInv, NEW d \in Device, S!WriteSettings(d) PROVE SettingsInv'
<1> DEFINE new == [request[d] EXCEPT !.at = "flag"]
<1>1. request[d].at = "write" /\ S!Open(d) /\ request[d].patch \in S!Patches
  BY DEF S!WriteSettings, S!Open, SettingsInv, SettingsTypes
<1>2. S!Settings \in SettingsRow
  BY SettingsFound DEF SettingsInv
<1>3. /\ new \in SettingsRequest /\ new.at = "flag" /\ new.current = request[d].current
      /\ new.patch = request[d].patch /\ new.met = request[d].met /\ request[d].current \in SettingsRow
  <2>1. "flag" \in SettingsStage
    BY DEF SettingsStage
  <2>2. QED
    BY <2>1, SettingsNew
<1>4. settingsRow' = request[d].current /\ isPrivate' = isPrivate /\ profile' = profile /\ S!Step(d, new)
  BY DEF S!WriteSettings
<1>5. S!Settings' = request[d].current
  BY <1>3, <1>4 DEF S!Settings, SettingsAssumptions
<1> HIDE DEF new
<1>6. /\ request'[d] = new /\ meant' = meant /\ unsettled' = unsettled
      /\ SettingsKnows(d)' => SettingsInv'
  BY <1>1, <1>3, <1>4, SettingsGoes DEF SettingsInv, SettingsTypes
<1>7. SettingsKnows(d)'
  <2> SUFFICES ASSUME ~request'[d].met PROVE SettingsKnows(d)'
    BY DEF SettingsKnows
  <2>1. /\ ProfileSettled /\ FieldsSettled({})
        /\ \A f \in S!Field : request[d].current[f] =
             IF f \in DOMAIN request[d].patch THEN request[d].patch[f] ELSE S!Settings[f]
    BY <1>1, <1>3, <1>6 DEF SettingsInv, SettingsKnows
  <2>2. ProfileSettled' /\ FieldsSettled(DOMAIN request[d].patch)'
    BY <1>3, <1>4, <1>5, <1>6, <2>1 DEF ProfileSettled, FieldsSettled
  <2>3. QED
    BY <1>3, <1>5, <1>6, <2>1, <2>2 DEF SettingsKnows
<1>8. QED
  BY <1>6, <1>7

LEMMA SettingsFlags == ASSUME SettingsAssumptions, SettingsInv, NEW d \in Device, S!SetPrivate(d) PROVE SettingsInv'
<1> DEFINE new == [request[d] EXCEPT !.at = "answer"]
<1>1. request[d].at = "flag" /\ S!Open(d) /\ request[d].patch \in S!Patches
  BY DEF S!SetPrivate, S!Open, SettingsInv, SettingsTypes
<1>2. S!Settings \in SettingsRow
  BY SettingsFound DEF SettingsInv
<1>3. /\ new \in SettingsRequest /\ new.at = "answer" /\ new.current = request[d].current
      /\ new.patch = request[d].patch /\ new.met = request[d].met
  <2>1. "answer" \in SettingsStage
    BY DEF SettingsStage
  <2>2. QED
    BY <2>1, SettingsNew
<1>4. settingsRow' = settingsRow /\ isPrivate' = S!IsPrivate(request[d].current) /\ profile' = profile /\ S!Step(d, new)
  BY DEF S!SetPrivate
<1>5. S!Settings' = S!Settings /\ isPrivate' \in BOOLEAN
  BY <1>4 DEF S!Settings, S!IsPrivate
<1> HIDE DEF new
<1>6. /\ request'[d] = new /\ meant' = meant /\ unsettled' = unsettled
      /\ SettingsKnows(d)' => SettingsInv'
  BY <1>1, <1>3, <1>4, <1>5, SettingsGoes DEF SettingsInv, SettingsTypes
<1>7. SettingsKnows(d)'
  <2> SUFFICES ASSUME ~request'[d].met PROVE SettingsKnows(d)'
    BY DEF SettingsKnows
  <2>1. /\ ProfileSettled /\ FieldsSettled(DOMAIN request[d].patch) /\ S!Settings = request[d].current
        /\ \A f \in S!Field \cap DOMAIN request[d].patch : S!Settings[f] = request[d].patch[f]
    BY <1>1, <1>3, <1>6 DEF SettingsInv, SettingsKnows
  <2>2. ProfileSettled' /\ FieldsSettled(DOMAIN request[d].patch)'
    BY <1>3, <1>4, <1>5, <1>6, <2>1 DEF ProfileSettled, FieldsSettled
  <2>3. (isPrivate = S!IsPrivate(S!Settings))'
    BY <1>4, <1>5, <2>1
  <2>4. QED
    BY <1>3, <1>5, <1>6, <2>1, <2>2, <2>3 DEF SettingsKnows
<1>8. QED
  BY <1>6, <1>7

LEMMA SettingsUpdates == ASSUME SettingsAssumptions, SettingsInv, NEW d \in Device, S!UpdateUserProfile(d) PROVE SettingsInv'
<1> DEFINE new == [request[d] EXCEPT !.at = "badges"]
<1>1. request[d].at = "update" /\ S!Open(d) /\ request[d].patch \in [profile : Bio]
  BY DEF S!UpdateUserProfile, S!Open, SettingsInv, SettingsTypes
<1>2. S!Settings \in SettingsRow
  BY SettingsFound DEF SettingsInv
<1>3. /\ new \in SettingsRequest /\ new.at = "badges"
      /\ new.patch = request[d].patch /\ new.met = request[d].met
  <2>1. "badges" \in SettingsStage
    BY DEF SettingsStage
  <2>2. QED
    BY <2>1, SettingsNew
<1>4. settingsRow' = settingsRow /\ isPrivate' = isPrivate /\ profile' = request[d].patch.profile /\ S!Step(d, new)
  BY DEF S!UpdateUserProfile
<1>5. S!Settings' = S!Settings /\ profile' \in Bio
  BY <1>1, <1>4 DEF S!Settings
<1> HIDE DEF new
<1>6. /\ request'[d] = new /\ meant' = meant /\ unsettled' = unsettled
      /\ SettingsKnows(d)' => SettingsInv'
  BY <1>1, <1>3, <1>4, <1>5, SettingsGoes DEF SettingsInv, SettingsTypes
<1>7. SettingsKnows(d)'
  <2> SUFFICES ASSUME ~request'[d].met PROVE SettingsKnows(d)'
    BY DEF SettingsKnows
  <2>1. FlagSettled /\ FieldsSettled({})
    BY <1>1, <1>3, <1>6 DEF SettingsInv, SettingsKnows
  <2>2. FlagSettled' /\ FieldsSettled({})'
    BY <1>4, <1>5, <1>6, <2>1 DEF FlagSettled, FieldsSettled
  <2>3. QED
    BY <1>3, <1>4, <1>6, <2>2 DEF SettingsKnows
<1>8. QED
  BY <1>6, <1>7

-----------------------------------------------------------------------------
(* The end of a request. One that has met another settles nothing. *)
LEMMA SettingsEnds ==
  ASSUME SettingsAssumptions, SettingsInv, NEW d \in Device, S!Open(d),
         NEW touched \in SUBSET (S!Field \cup {"profile", "flag"}), NEW success \in BOOLEAN,
         S!End(d, touched, success),
         /\ request[d].at \in {"read", "write", "flag", "answer"} =>
              touched = DOMAIN request[d].patch \cup {"flag"} /\ (success => request[d].at = "answer")
         /\ request[d].at \in {"update", "badges"} =>
              touched = {"profile"} /\ (success => request[d].at = "badges")
  PROVE  SettingsInv'
<1>1. /\ request'[d] = S!Closed /\ request' \in [Device -> SettingsRequest]
      /\ \A e \in Device \ {d} : request'[e] = request[e]
  BY SettingsClosed DEF S!End, SettingsInv, SettingsTypes
<1>2. settingsRow' = settingsRow /\ isPrivate' = isPrivate /\ profile' = profile /\ S!Settings' = S!Settings
  BY DEF S!End, S!tables, S!Settings
<1>3. /\ DOMAIN meant = S!Field \cup {"profile"}
      /\ meant["visibility"] \in Visibility /\ meant["theme"] \in Theme /\ meant["profile"] \in Bio \cup {None}
      /\ meant.profile = meant["profile"]
  BY DEF SettingsInv, SettingsTypes, SettingsMeant, S!Field
<1>4. request[d].patch \in S!Patches \/ request[d].patch \in [profile : Bio]
  BY DEF S!Open, SettingsInv, SettingsTypes, SettingsRequest, SettingsStage
<1>5. meant' \in SettingsMeant
  <2> DEFINE after == [f \in DOMAIN meant |->
                         IF f \in DOMAIN request[d].patch THEN request[d].patch[f] ELSE meant[f]]
  <2>1. after["visibility"] \in Visibility /\ after["theme"] \in Theme /\ after["profile"] \in Bio \cup {None}
    BY <1>3, <1>4, SettingsPatch, SettingsProfile DEF S!Field
  <2>2. after = [visibility |-> after["visibility"], theme |-> after["theme"], profile |-> after["profile"]]
    BY <1>3 DEF S!Field
  <2>3. meant' = after \/ meant' = meant
    BY DEF S!End
  <2> HIDE DEF after
  <2>4. QED
    BY <2>1, <2>2, <2>3 DEF SettingsInv, SettingsTypes, SettingsMeant
<1>6. unsettled' \subseteq S!Field \cup {"profile", "flag"}
  BY <1>3 DEF S!End, SettingsInv, SettingsTypes
<1>7. SettingsTypes'
  BY <1>1, <1>2, <1>5, <1>6, SettingsClosed DEF SettingsInv, SettingsTypes
<1>8. ~S!Open(d)' /\ \A e \in Device \ {d} : S!Open(e)' <=> S!Open(e)
  BY <1>1, SettingsClosed DEF S!Open
<1>9. SettingsByOne'
  BY <1>1, <1>8 DEF SettingsInv, SettingsByOne
<1>10. CASE request[d].met
  <2>1. unsettled' = unsettled \cup S!Field \cup {"profile", "flag"}
    BY <1>3, <1>10 DEF S!End
  <2>2. FlagSettled' /\ ProfileSettled' /\ \A changed : FieldsSettled(changed)'
    BY <2>1 DEF FlagSettled, ProfileSettled, FieldsSettled
  <2>3. S!SettingsInTurn'
    BY <2>1 DEF S!SettingsInTurn
  <2>4. ASSUME NEW e \in Device PROVE SettingsKnows(e)'
    <3>1. CASE e = d \/ request'[e].met \/ ~S!Open(e)'
      BY <1>8, <3>1 DEF SettingsKnows
    <3>2. CASE e # d /\ ~request'[e].met /\ S!Open(e)'
      BY <1>1, <1>8, <3>2 DEF SettingsInv, SettingsByOne
    <3>3. QED
      BY <3>1, <3>2
  <2>5. QED
    BY <1>7, <1>9, <2>3, <2>4 DEF SettingsInv
<1>11. CASE ~request[d].met
  <2>1. \A e \in Device : ~S!Open(e)'
    BY <1>8, <1>11 DEF SettingsInv, SettingsByOne
  <2>2. \A e \in Device : SettingsKnows(e)'
    BY <2>1 DEF SettingsKnows
  <2>3. SettingsKnows(d)
    BY DEF SettingsInv
  <2>4. FlagSettled' /\ ProfileSettled' /\ FieldsSettled({})'
    <3>1. CASE success /\ request[d].at = "answer"
      <4>1. unsettled' = unsettled \ touched /\ touched = DOMAIN request[d].patch \cup {"flag"}
        BY <1>11, <3>1 DEF S!End
      <4>2. meant' = [f \in DOMAIN meant |->
                        IF f \in DOMAIN request[d].patch THEN request[d].patch[f] ELSE meant[f]]
        BY <1>11, <3>1 DEF S!End
      <4>3. DOMAIN request[d].patch \subseteq S!Field
        BY <3>1, SettingsPatch DEF SettingsInv, SettingsTypes
      <4>4. \A f \in S!Field : meant'[f] = IF f \in DOMAIN request[d].patch THEN request[d].patch[f] ELSE meant[f]
        BY <1>3, <4>2
      <4>5. meant'.profile = meant.profile
        BY <1>3, <4>2, <4>3 DEF S!Field
      <4>6. /\ ProfileSettled /\ FieldsSettled(DOMAIN request[d].patch)
            /\ \A f \in S!Field \cap DOMAIN request[d].patch : S!Settings[f] = request[d].patch[f]
            /\ isPrivate = S!IsPrivate(S!Settings)
        BY <1>11, <2>3, <3>1 DEF SettingsKnows
      <4>7. FlagSettled'
        BY <1>2, <4>6 DEF FlagSettled
      <4>8. ProfileSettled'
        BY <1>2, <4>1, <4>3, <4>5, <4>6 DEF ProfileSettled, S!Field
      <4>9. FieldsSettled({})'
        BY <1>2, <4>1, <4>4, <4>6 DEF FieldsSettled, S!Field
      <4>10. QED
        BY <4>7, <4>8, <4>9
    <3>2. CASE success /\ request[d].at = "badges"
      <4>1. unsettled' = unsettled \ {"profile"}
        BY <1>11, <3>2 DEF S!End
      <4>2. meant' = [f \in DOMAIN meant |->
                        IF f \in DOMAIN request[d].patch THEN request[d].patch[f] ELSE meant[f]]
        BY <1>11, <3>2 DEF S!End
      <4>3. DOMAIN request[d].patch = {"profile"} /\ request[d].patch["profile"] = request[d].patch.profile
        BY <3>2, SettingsProfile DEF SettingsInv, SettingsTypes
      <4>4. \A f \in S!Field : meant'[f] = meant[f]
        BY <1>3, <4>2, <4>3 DEF S!Field
      <4>5. meant'.profile = request[d].patch.profile
        BY <1>3, <4>2, <4>3
      <4>6. FlagSettled /\ FieldsSettled({}) /\ profile = request[d].patch.profile
        BY <1>11, <2>3, <3>2 DEF SettingsKnows
      <4>7. QED
        BY <1>2, <4>1, <4>4, <4>5, <4>6 DEF FlagSettled, ProfileSettled, FieldsSettled, S!Field
    <3>3. CASE ~success
      <4>1. unsettled' = unsettled \cup touched /\ meant' = meant
        BY <1>11, <3>3 DEF S!End
      <4>2. CASE request[d].at \in {"read", "write", "update"}
        <5>1. FlagSettled /\ ProfileSettled /\ FieldsSettled({})
          BY <1>11, <2>3, <4>2 DEF SettingsKnows
        <5>2. QED
          BY <1>2, <4>1, <5>1 DEF FlagSettled, ProfileSettled, FieldsSettled
      <4>3. CASE request[d].at \in {"flag", "answer"}
        <5>1. ProfileSettled /\ FieldsSettled(DOMAIN request[d].patch)
          BY <1>11, <2>3, <4>3 DEF SettingsKnows
        <5>2. QED
          BY <1>2, <4>1, <4>3, <5>1 DEF FlagSettled, ProfileSettled, FieldsSettled
      <4>4. CASE request[d].at = "badges"
        <5>1. FlagSettled /\ FieldsSettled({})
          BY <1>11, <2>3, <4>4 DEF SettingsKnows
        <5>2. QED
          BY <1>2, <4>1, <4>4, <5>1 DEF FlagSettled, ProfileSettled, FieldsSettled
      <4>5. QED
        BY <4>2, <4>3, <4>4 DEF S!Open, SettingsInv, SettingsTypes, SettingsRequest, SettingsStage
    <3>4. QED
      BY <3>1, <3>2, <3>3 DEF S!Open, SettingsInv, SettingsTypes, SettingsRequest, SettingsStage
  <2>5. S!SettingsInTurn'
    BY <2>4 DEF S!SettingsInTurn, FlagSettled, ProfileSettled, FieldsSettled
  <2>6. QED
    BY <1>7, <1>9, <2>2, <2>5 DEF SettingsInv
<1>12. QED
  BY <1>10, <1>11 DEF SettingsInv, SettingsTypes, SettingsRequest

LEMMA SettingsKeeps == ASSUME SettingsAssumptions, SettingsInv, [S!Next]_(S!vars) PROVE SettingsInv'
<1>1. ASSUME NEW d \in Device, S!UpdateSettings(d) \/ S!HandleUpdateProfile(d) PROVE SettingsInv'
  <2>1. CASE S!UpdateSettings(d)
    BY <2>1, SettingsBegins DEF S!UpdateSettings
  <2>2. CASE S!HandleUpdateProfile(d)
    <3>1. PICK b \in Bio : S!Begin(d, "update", [profile |-> b])
      BY <2>2 DEF S!HandleUpdateProfile
    <3>2. [profile |-> b] \in [profile : Bio]
      OBVIOUS
    <3>3. QED
      BY <3>1, <3>2, SettingsBegins
  <2>3. QED
    BY <1>1, <2>1, <2>2
<1>2. ASSUME NEW d \in Device, S!AnswerSettings(d) \/ S!FailSettings(d) PROVE SettingsInv'
  <2>1. request[d].at \in {"read", "write", "flag", "answer"} /\ S!Open(d)
    BY <1>2 DEF S!AnswerSettings, S!FailSettings, S!Open
  <2>2. DOMAIN request[d].patch \subseteq S!Field
    BY <2>1, SettingsPatch DEF SettingsInv, SettingsTypes
  <2> DEFINE touched == DOMAIN request[d].patch \cup {"flag"}
  <2>3. touched \in SUBSET (S!Field \cup {"profile", "flag"})
    BY <2>2
  <2>4. \/ S!End(d, touched, TRUE) /\ request[d].at = "answer"
        \/ S!End(d, touched, FALSE)
    BY <1>2 DEF S!AnswerSettings, S!FailSettings
  <2>5. QED
    BY <2>1, <2>3, <2>4, SettingsEnds
<1>3. ASSUME NEW d \in Device, S!AnswerProfile(d) \/ S!FailProfile(d) PROVE SettingsInv'
  <2>1. request[d].at \in {"update", "badges"} /\ S!Open(d)
    BY <1>3 DEF S!AnswerProfile, S!FailProfile, S!Open
  <2>2. \/ S!End(d, {"profile"}, TRUE) /\ request[d].at = "badges"
        \/ S!End(d, {"profile"}, FALSE)
    BY <1>3 DEF S!AnswerProfile, S!FailProfile
  <2>3. QED
    BY <2>1, <2>2, SettingsEnds
<1>4. CASE UNCHANGED S!vars
  BY <1>4 DEF S!vars, SettingsInv, SettingsTypes, SettingsByOne, S!SettingsInTurn, SettingsKnows, S!Open, S!Settings,
              FlagSettled, ProfileSettled, FieldsSettled
<1>5. QED
  BY <1>1, <1>2, <1>3, <1>4, SettingsReads, SettingsWrites, SettingsFlags, SettingsUpdates DEF S!Next

LEMMA SettingsOK == ASSUME SettingsInv PROVE S!SettingsTypeOK
BY DEF SettingsInv, SettingsTypes, S!SettingsTypeOK, SettingsRequest, SettingsStage, SettingsMeant, SettingsRow, S!Field

(* A request that was alone from its read to its writes writes what the last one left. *)
THEOREM SettingsInvariance == ASSUME SettingsAssumptions PROVE S!Spec => []SettingsInv
<1>1. S!Init => SettingsInv
  BY SettingsInit
<1>2. SettingsInv /\ [S!Next]_(S!vars) => SettingsInv'
  BY SettingsKeeps
<1>3. QED
  BY <1>1, <1>2, PTL DEF S!Spec

LEMMA SettingsTyped == ASSUME SettingsInv PROVE S!SettingsTypeOK
<1>1. \A d \in Device : request[d].at \in SettingsStage
  BY DEF SettingsInv, SettingsTypes, SettingsRequest
<1>2. DOMAIN meant = {"visibility", "theme", "profile"}
  BY DEF SettingsInv, SettingsTypes, SettingsMeant
<1>3. QED
  BY <1>1, <1>2 DEF SettingsInv, SettingsTypes, S!SettingsTypeOK, SettingsRow, SettingsStage, S!Field

-----------------------------------------------------------------------------
(* Lists. Ownership is checked in a statement of its own before the one that writes: it
   is not stale then, since a list that is there keeps its owner and an ID that was
   deleted does not come back. *)

ListsRow == [owner : Person, name : Title]
ListsStage == {"none", "create", "mayUpdate", "update", "mayDelete", "delete", "mayAdd",
               "owner", "add", "mayRemove", "remove"}
ListsAnswer == {None, "OK", "BAD_REQUEST", "ALREADY_EXISTS", "FORBIDDEN", "NOT_FOUND", "INTERNAL"}
ListsCall == [at : ListsStage, actor : Person \cup {None}, list : List \cup {None}, user : Person \cup {None},
              title : Title \cup {None}, answer : ListsAnswer]

(* A list and its ID are not mistaken for none, nor either for one that is gone. *)
ListsAssumptions == None \notin ListsRow \cup List /\ Deleted \notin ListsRow /\ None # Deleted

ListsTypes ==
  /\ lists \in [List -> ListsRow \cup {None, Deleted}]
  /\ members \subseteq List \X Person
  /\ call \in [Req -> ListsCall]

(* What a request has checked and what stands of it: a list keeps its owner. *)
ListsKnows(x) ==
  /\ x.at # "none" => x.actor \in Person
  /\ x.at \in {"create", "mayUpdate", "update"} => x.title \in Title
  /\ x.at \notin {"none", "create"} => x.list \in List
  /\ x.at \in {"mayAdd", "owner", "add", "mayRemove", "remove"} => x.user \in Person
  /\ x.at \in {"update", "delete", "owner", "add", "remove"} =>
       lists[x.list] # None /\ (L!Exists(x.list) => lists[x.list].owner = x.actor)
  /\ x.at = "add" => (L!Exists(x.list) => lists[x.list].owner # x.user)

ListsThere ==
  /\ \A m \in members : L!Exists(m[1]) /\ m[2] # lists[m[1]].owner
  /\ \A k, l \in List :
       L!Exists(k) /\ L!Exists(l) /\ lists[k].owner = lists[l].owner /\ lists[k].name = lists[l].name => k = l

ListsInv ==
  /\ ListsTypes /\ ListsThere
  /\ \A r \in Req : ListsKnows(call[r])

-----------------------------------------------------------------------------
LEMMA ListsNoCall == L!NoCall \in ListsCall /\ L!NoCall.at = "none"
BY DEF L!NoCall, ListsCall, ListsStage, ListsAnswer

LEMMA ListsInit == ASSUME ListsAssumptions, L!Init PROVE ListsInv
<1>1. \A r \in Req : call[r] = L!NoCall
  BY DEF L!Init
<1>2. \A l \in List : ~L!Exists(l)
  BY DEF L!Init, L!Exists
<1>3. ListsTypes
  BY <1>1, ListsNoCall DEF L!Init, ListsTypes
<1>4. ListsThere
  BY <1>2 DEF L!Init, ListsThere
<1>5. QED
  BY <1>1, <1>3, <1>4, ListsNoCall DEF ListsInv, ListsKnows

LEMMA ListsGoes ==
  ASSUME ListsInv, NEW r \in Req, NEW new \in ListsCall, L!Goes(r, new)
  PROVE  /\ call' \in [Req -> ListsCall] /\ call'[r] = new
         /\ \A s \in Req \ {r} : call'[s] = call[s]
BY DEF ListsInv, ListsTypes, L!Goes

(* A step that writes nothing *)
LEMMA ListsQuiet ==
  ASSUME ListsInv, NEW r \in Req, NEW new \in ListsCall, L!Goes(r, new), UNCHANGED <<lists, members>>,
         ListsKnows(new)
  PROVE  ListsInv'
<1>1. /\ call' \in [Req -> ListsCall] /\ call'[r] = new
      /\ \A s \in Req \ {r} : call'[s] = call[s]
  BY ListsGoes
<1>2. lists' = lists /\ members' = members
  OBVIOUS
<1>3. ListsTypes' /\ ListsThere'
  BY <1>1, <1>2 DEF ListsInv, ListsTypes, ListsThere, L!Exists
<1>4. \A s \in Req : ListsKnows(call'[s])
  BY <1>1 DEF ListsInv
<1>5. \A s \in Req : ListsKnows(call[s])'
  BY <1>2, <1>4 DEF ListsKnows, L!Exists
<1>6. QED
  BY <1>3, <1>5 DEF ListsInv

(* An answer leaves a request with nothing to know, and ends one that was on its way. *)
LEMMA ListsAnswers ==
  ASSUME ListsInv, NEW r \in Req, NEW a \in ListsAnswer, L!Answer(r, a)
  PROVE  /\ call' \in [Req -> ListsCall] /\ call'[r].at = "none"
         /\ \A s \in Req \ {r} : call'[s] = call[s]
         /\ UNCHANGED <<lists, members>> => ListsInv'
<1> DEFINE new == [L!NoCall EXCEPT !.actor = call[r].actor, !.answer = a]
<1>1. call[r].actor \in Person \cup {None}
  BY DEF ListsInv, ListsTypes, ListsCall
<1>2. new \in ListsCall /\ new.at = "none" /\ L!Goes(r, new)
  BY <1>1, ListsNoCall DEF ListsCall, L!Answer
<1> HIDE DEF new
<1>3. ListsKnows(new)
  BY <1>2 DEF ListsKnows
<1>4. QED
  BY <1>2, <1>3, ListsGoes, ListsQuiet

LEMMA ListsSteps ==
  ASSUME ListsInv, NEW r \in Req, NEW l \in ListsStage, L!Step(r, l), ListsKnows([call[r] EXCEPT !.at = l])
  PROVE  ListsInv'
<1>1. [call[r] EXCEPT !.at = l] \in ListsCall
  BY DEF ListsInv, ListsTypes, ListsCall
<1>2. QED
  BY <1>1, ListsQuiet DEF L!Step

-----------------------------------------------------------------------------
LEMMA ListsAsk ==
  ASSUME ListsInv, NEW r \in Req, NEW l \in {"create", "mayUpdate", "mayDelete", "mayAdd", "mayRemove"},
         NEW list \in List \cup {None}, NEW user \in Person \cup {None}, NEW title \in Title \cup {None},
         L!Ask(r, l, list, user, title),
         l # "create" => list \in List, l \in {"create", "mayUpdate"} => title \in Title,
         l \in {"mayAdd", "mayRemove"} => user \in Person
  PROVE  ListsInv'
<1>1. PICK actor \in Person :
        L!Goes(r, [L!NoCall EXCEPT !.at = l, !.actor = actor, !.list = list, !.user = user, !.title = title])
  BY DEF L!Ask
<1> DEFINE new == [L!NoCall EXCEPT !.at = l, !.actor = actor, !.list = list, !.user = user, !.title = title]
<1>2. l \in ListsStage
  BY DEF ListsStage
<1>3. /\ new \in ListsCall
      /\ new.at = l /\ new.actor = actor /\ new.list = list /\ new.user = user /\ new.title = title
  BY <1>2, ListsNoCall DEF ListsCall
<1>4. L!Goes(r, new)
  BY <1>1
<1> HIDE DEF new
<1>5. ListsKnows(new)
  BY <1>3 DEF ListsKnows
<1>6. QED
  BY <1>3, <1>4, <1>5, ListsQuiet DEF L!Ask

LEMMA ListsHandle ==
  ASSUME ListsInv, NEW r \in Req,
         L!HandleCreate(r) \/ L!HandleUpdate(r) \/ L!HandleDelete(r) \/ L!HandleAddMember(r) \/ L!HandleRemoveMember(r)
  PROVE  ListsInv'
<1>1. CASE L!HandleCreate(r)
  BY <1>1, ListsAsk DEF L!HandleCreate
<1>2. CASE L!HandleUpdate(r)
  BY <1>2, ListsAsk DEF L!HandleUpdate
<1>3. CASE L!HandleDelete(r)
  BY <1>3, ListsAsk DEF L!HandleDelete
<1>4. CASE L!HandleAddMember(r)
  BY <1>4, ListsAsk DEF L!HandleAddMember
<1>5. CASE L!HandleRemoveMember(r)
  BY <1>5, ListsAsk DEF L!HandleRemoveMember
<1>6. QED
  BY <1>1, <1>2, <1>3, <1>4, <1>5

LEMMA ListsMine ==
  ASSUME NEW r \in Req, L!RequireOwner(r)
  PROVE  L!Exists(call[r].list) /\ lists[call[r].list] # None /\ lists[call[r].list].owner = call[r].actor
BY DEF L!RequireOwner, L!GetByID, L!Exists

LEMMA ListsServe ==
  ASSUME ListsInv, NEW r \in Req,
         L!ServeUpdate(r) \/ L!ServeDelete(r) \/ L!ServeAddMember(r) \/ L!ServeRemoveMember(r) \/ L!CheckMember(r)
  PROVE  ListsInv'
<1>1. call[r] \in ListsCall /\ ListsKnows(call[r])
  BY DEF ListsInv, ListsTypes
<1> DEFINE At(l) == [call[r] EXCEPT !.at = l]
<1>2. \A l \in ListsStage :
        /\ At(l).at = l /\ At(l).actor = call[r].actor /\ At(l).list = call[r].list
        /\ At(l).user = call[r].user /\ At(l).title = call[r].title
  BY <1>1 DEF ListsCall
<1>3. {"mayUpdate", "update", "mayDelete", "delete", "mayAdd", "owner", "mayRemove", "remove", "add"} \subseteq ListsStage
  BY DEF ListsStage
<1>4. /\ L!Refusal(r) \in ListsAnswer
      /\ (IF L!RequireOwner(r) THEN "BAD_REQUEST" ELSE L!Refusal(r)) \in ListsAnswer
      /\ (IF L!Exists(call[r].list) THEN "BAD_REQUEST" ELSE "NOT_FOUND") \in ListsAnswer
  BY DEF L!Refusal, ListsAnswer
<1> HIDE DEF At
<1>5. CASE L!ServeUpdate(r)
  <2>1. call[r].at = "mayUpdate" /\ (L!RequireOwner(r) => ListsKnows(At("update")))
    BY <1>1, <1>2, <1>3, <1>5, ListsMine DEF ListsKnows, L!ServeUpdate, L!Check
  <2>2. CASE L!RequireOwner(r) /\ L!ValidateListPayload(call[r].title)
    <3>1. L!Step(r, "update")
      BY <1>5, <2>2 DEF L!ServeUpdate, L!Check
    <3>2. QED
      BY <1>3, <2>1, <2>2, <3>1, ListsSteps DEF At
  <2>3. CASE ~(L!RequireOwner(r) /\ L!ValidateListPayload(call[r].title))
    <3>1. L!Answer(r, IF L!RequireOwner(r) THEN "BAD_REQUEST" ELSE L!Refusal(r)) /\ UNCHANGED <<lists, members>>
      BY <1>5, <2>3 DEF L!ServeUpdate, L!Check
    <3>2. QED
      BY <1>4, <3>1, ListsAnswers
  <2>4. QED
    BY <2>2, <2>3
<1>6. CASE L!ServeDelete(r)
  <2>1. call[r].at = "mayDelete" /\ (L!RequireOwner(r) => ListsKnows(At("delete")))
    BY <1>1, <1>2, <1>3, <1>6, ListsMine DEF ListsKnows, L!ServeDelete, L!Check
  <2>2. CASE L!RequireOwner(r)
    <3>1. L!Step(r, "delete")
      BY <1>6, <2>2 DEF L!ServeDelete, L!Check
    <3>2. QED
      BY <1>3, <2>1, <2>2, <3>1, ListsSteps DEF At
  <2>3. CASE ~(L!RequireOwner(r))
    <3>1. L!Answer(r, L!Refusal(r)) /\ UNCHANGED <<lists, members>>
      BY <1>6, <2>3 DEF L!ServeDelete, L!Check
    <3>2. QED
      BY <1>4, <3>1, ListsAnswers
  <2>4. QED
    BY <2>2, <2>3
<1>7. CASE L!ServeAddMember(r)
  <2>1. call[r].at = "mayAdd" /\ (L!RequireOwner(r) => ListsKnows(At("owner")))
    BY <1>1, <1>2, <1>3, <1>7, ListsMine DEF ListsKnows, L!ServeAddMember, L!Check
  <2>2. CASE L!RequireOwner(r)
    <3>1. L!Step(r, "owner")
      BY <1>7, <2>2 DEF L!ServeAddMember, L!Check
    <3>2. QED
      BY <1>3, <2>1, <2>2, <3>1, ListsSteps DEF At
  <2>3. CASE ~(L!RequireOwner(r))
    <3>1. L!Answer(r, L!Refusal(r)) /\ UNCHANGED <<lists, members>>
      BY <1>7, <2>3 DEF L!ServeAddMember, L!Check
    <3>2. QED
      BY <1>4, <3>1, ListsAnswers
  <2>4. QED
    BY <2>2, <2>3
<1>8. CASE L!ServeRemoveMember(r)
  <2>1. call[r].at = "mayRemove" /\ (L!RequireOwner(r) => ListsKnows(At("remove")))
    BY <1>1, <1>2, <1>3, <1>8, ListsMine DEF ListsKnows, L!ServeRemoveMember, L!Check
  <2>2. CASE L!RequireOwner(r)
    <3>1. L!Step(r, "remove")
      BY <1>8, <2>2 DEF L!ServeRemoveMember, L!Check
    <3>2. QED
      BY <1>3, <2>1, <2>2, <3>1, ListsSteps DEF At
  <2>3. CASE ~(L!RequireOwner(r))
    <3>1. L!Answer(r, L!Refusal(r)) /\ UNCHANGED <<lists, members>>
      BY <1>8, <2>3 DEF L!ServeRemoveMember, L!Check
    <3>2. QED
      BY <1>4, <3>1, ListsAnswers
  <2>4. QED
    BY <2>2, <2>3
<1>9. CASE L!CheckMember(r)
  <2>1. call[r].at = "owner"
        /\ (L!Exists(call[r].list) /\ lists[call[r].list].owner # call[r].user => ListsKnows(At("add")))
    BY <1>1, <1>2, <1>3, <1>9 DEF ListsKnows, L!CheckMember, L!Check
  <2>2. CASE L!Exists(call[r].list) /\ lists[call[r].list].owner # call[r].user
    <3>1. L!Step(r, "add")
      BY <1>9, <2>2 DEF L!CheckMember, L!Check
    <3>2. QED
      BY <1>3, <2>1, <2>2, <3>1, ListsSteps DEF At
  <2>3. CASE ~(L!Exists(call[r].list) /\ lists[call[r].list].owner # call[r].user)
    <3>1. L!Answer(r, IF L!Exists(call[r].list) THEN "BAD_REQUEST" ELSE "NOT_FOUND") /\ UNCHANGED <<lists, members>>
      BY <1>9, <2>3 DEF L!CheckMember, L!Check
    <3>2. QED
      BY <1>4, <3>1, ListsAnswers
  <2>4. QED
    BY <2>2, <2>3
<1>10. QED
  BY <1>5, <1>6, <1>7, <1>8, <1>9

-----------------------------------------------------------------------------
(* What a statement writes to one list keeps the others as they are, and what every
   request knows of it. *)
LEMMA ListsWrite ==
  ASSUME ListsInv, NEW r \in Req, NEW a \in ListsAnswer, L!Answer(r, a),
         lists' \in [List -> ListsRow \cup {None, Deleted}], members' \subseteq List \X Person, ListsThere',
         \A l \in List : /\ lists[l] # None => lists'[l] # None
                         /\ lists[l] # None /\ L!Exists(l)' => L!Exists(l) /\ lists'[l].owner = lists[l].owner
  PROVE  ListsInv'
<1>1. /\ call' \in [Req -> ListsCall] /\ call'[r].at = "none"
      /\ \A s \in Req \ {r} : call'[s] = call[s]
  BY ListsAnswers
<1>2. ListsTypes'
  BY <1>1 DEF ListsTypes
<1>3. \A s \in Req : ListsKnows(call[s])'
  <2>1. ListsKnows(call[r])'
    BY <1>1 DEF ListsKnows
  <2>2. ASSUME NEW s \in Req \ {r} PROVE ListsKnows(call[s])'
    <3>1. ListsKnows(call[s]) /\ call'[s] = call[s]
      BY <1>1 DEF ListsInv
    <3>2. QED
      BY <3>1 DEF ListsKnows
  <2>3. QED
    BY <2>1, <2>2
<1>4. QED
  BY <1>2, <1>3 DEF ListsInv

(* who changes a list: the first part of ByItsOwner *)
ListsChanger(l) ==
  (lists'[l] # lists[l] \/ L!MemberCount(l)' # L!MemberCount(l)) /\ lists[l] # None =>
    /\ L!Exists(l)
    /\ \E r \in Req : call'[r] # call[r] /\ call[r].actor = lists[l].owner

LEMMA ListsOwned == ASSUME ListsInv', \A l \in List : ListsChanger(l) PROVE L!ByItsOwner
<1>1. \A m \in members' : L!Exists(m[1])' /\ m[2] # lists'[m[1]].owner
  BY DEF ListsInv, ListsThere
<1>2. \A u \in Person : \A k, l \in L!ListByOwner(u)' : lists'[k].name = lists'[l].name => k = l
  BY DEF ListsInv, ListsThere, L!ListByOwner
<1>3. QED
  BY <1>1, <1>2 DEF L!ByItsOwner, ListsChanger

LEMMA ListsCreates == ASSUME ListsAssumptions, ListsInv, NEW r \in Req, L!Create(r) PROVE ListsInv' /\ L!ByItsOwner
<1>1. ListsKnows(call[r]) /\ call[r].at = "create" /\ call[r].actor \in Person /\ call[r].title \in Title
  BY DEF L!Create, ListsInv, ListsKnows
<1>2. {"OK", "BAD_REQUEST", "ALREADY_EXISTS"} \subseteq ListsAnswer
  BY DEF ListsAnswer
<1>3. CASE UNCHANGED lists
  <2>1. ListsInv'
    BY <1>2, <1>3, ListsAnswers DEF L!Create
  <2>2. lists' = lists /\ members' = members
    BY <1>3 DEF L!Create
  <2>3. \A l \in List : ListsChanger(l)
    BY <2>2 DEF ListsChanger, L!MemberCount
  <2>4. QED
    BY <2>1, <2>3, ListsOwned
<1>4. CASE ~UNCHANGED lists
  <2> DEFINE new == [owner |-> call[r].actor, name |-> call[r].title]
  <2>1. PICK l \in List : lists[l] = None /\ lists' = [lists EXCEPT ![l] = new] /\ L!Answer(r, "OK")
    BY <1>4 DEF L!Create
  <2>2. ~L!NameTaken(call[r].actor, call[r].title, None) /\ members' = members
    BY <1>4 DEF L!Create
  <2>3. new \in ListsRow /\ new.owner = call[r].actor /\ new.name = call[r].title
    BY <1>1 DEF ListsRow
  <2> HIDE DEF new
  <2>4. /\ lists' \in [List -> ListsRow \cup {None, Deleted}] /\ lists'[l] = new
        /\ \A k \in List \ {l} : lists'[k] = lists[k]
    BY <2>1, <2>3 DEF ListsInv, ListsTypes
  <2>5. \A k \in List : L!Exists(k)' <=> (L!Exists(k) \/ k = l)
    BY <2>1, <2>3, <2>4 DEF L!Exists, ListsAssumptions
  <2>6. ListsThere'
    <3>1. \A m \in members : m[1] \in List /\ m[1] # l
      BY <2>1 DEF ListsInv, ListsThere, ListsTypes, L!Exists
    <3>2. \A m \in members' : L!Exists(m[1])' /\ m[2] # lists'[m[1]].owner
      BY <2>2, <2>4, <2>5, <3>1 DEF ListsInv, ListsThere
    <3>3. \A k \in List : L!Exists(k) /\ lists[k].owner = new.owner => lists[k].name # new.name
      <4>1. \A k \in List : L!Exists(k) /\ lists[k].owner = call[r].actor => k \in L!ListByOwner(call[r].actor)
        BY DEF L!ListByOwner
      <4>2. QED
        BY <2>2, <2>3, <4>1 DEF L!NameTaken, ListsAssumptions
    <3>4. QED
      BY <2>4, <2>5, <3>2, <3>3 DEF ListsInv, ListsThere
  <2>7. ListsInv'
    BY <1>2, <2>1, <2>2, <2>4, <2>5, <2>6, ListsWrite DEF ListsInv, ListsTypes
  <2>8. \A k \in List : ListsChanger(k)
    BY <2>1, <2>2, <2>4 DEF ListsChanger, L!MemberCount
  <2>9. QED
    BY <2>7, <2>8, ListsOwned
<1>5. QED
  BY <1>3, <1>4

LEMMA ListsUpdates == ASSUME ListsAssumptions, ListsInv, NEW r \in Req, L!Update(r) PROVE ListsInv' /\ L!ByItsOwner
<1>0. PICK l \in List : l = call[r].list
  BY DEF L!Update, ListsInv, ListsKnows
<1>1. /\ ListsKnows(call[r]) /\ call[r].at = "update" /\ l \in List /\ call[r].title \in Title
      /\ lists[l] # None /\ (L!Exists(l) => lists[l].owner = call[r].actor)
  BY <1>0 DEF L!Update, ListsInv, ListsKnows
<1>2. {"OK", "NOT_FOUND", "ALREADY_EXISTS"} \subseteq ListsAnswer /\ members' = members
  BY DEF ListsAnswer, L!Update
<1>3. CASE UNCHANGED lists
  <2>1. ListsInv'
    BY <1>2, <1>3, ListsAnswers DEF L!Update
  <2>2. \A k \in List : ListsChanger(k)
    BY <1>2, <1>3 DEF ListsChanger, L!MemberCount
  <2>3. QED
    BY <2>1, <2>2, ListsOwned
<1>4. CASE ~UNCHANGED lists
  <2>1. /\ L!Exists(l) /\ ~L!NameTaken(lists[l].owner, call[r].title, l)
        /\ L!Answer(r, "OK") /\ lists' = [lists EXCEPT ![l].name = call[r].title]
    BY <1>0, <1>4 DEF L!Update
  <2>2. lists[l] \in ListsRow
    BY <1>1, <2>1 DEF ListsInv, ListsTypes, L!Exists
  <2> DEFINE new == [lists[l] EXCEPT !.name = call[r].title]
  <2>3. new \in ListsRow /\ new.owner = lists[l].owner /\ new.name = call[r].title
    BY <1>1, <2>2 DEF ListsRow
  <2>4. lists' = [lists EXCEPT ![l] = new]
    BY <2>1
  <2> HIDE DEF new
  <2>5. /\ lists' \in [List -> ListsRow \cup {None, Deleted}] /\ lists'[l] = new
        /\ \A k \in List \ {l} : lists'[k] = lists[k]
    BY <1>1, <2>3, <2>4 DEF ListsInv, ListsTypes
  <2>6. \A k \in List : L!Exists(k)' <=> L!Exists(k)
    BY <2>1, <2>3, <2>5 DEF L!Exists, ListsAssumptions
  <2>7. ListsThere'
    <3>1. \A m \in members : m[1] \in List
      BY DEF ListsInv, ListsTypes
    <3>2. \A k \in List : lists'[k] = lists[k] \/ lists'[k].owner = lists[k].owner
      BY <2>3, <2>5
    <3>3. \A m \in members' : L!Exists(m[1])' /\ m[2] # lists'[m[1]].owner
      BY <1>2, <2>6, <3>1, <3>2 DEF ListsInv, ListsThere
    <3>4. \A k \in List \ {l} : L!Exists(k) /\ lists[k].owner = new.owner => lists[k].name # new.name
      <4>1. \A k \in List : L!Exists(k) /\ lists[k].owner = lists[l].owner => k \in L!ListByOwner(lists[l].owner)
        BY DEF L!ListByOwner
      <4>2. QED
        BY <2>1, <2>3, <4>1 DEF L!NameTaken
    <3>5. QED
      BY <2>5, <2>6, <3>3, <3>4 DEF ListsInv, ListsThere
  <2>8. ListsInv'
    <3>1. \A k \in List : /\ lists[k] # None => lists'[k] # None
                          /\ lists[k] # None /\ L!Exists(k)' => L!Exists(k) /\ lists'[k].owner = lists[k].owner
      BY <2>3, <2>5, <2>6 DEF ListsAssumptions
    <3>2. QED
      BY <1>2, <2>1, <2>5, <2>7, <3>1, ListsWrite DEF ListsInv, ListsTypes
  <2>9. call'[r] # call[r]
    BY <1>1, <1>2, <2>1, ListsAnswers
  <2>10. \A k \in List : ListsChanger(k)
    BY <1>1, <1>2, <2>1, <2>5, <2>9 DEF ListsChanger, L!MemberCount
  <2>11. QED
    BY <2>8, <2>10, ListsOwned
<1>5. QED
  BY <1>3, <1>4

LEMMA ListsDeletes == ASSUME ListsAssumptions, ListsInv, NEW r \in Req, L!Delete(r) PROVE ListsInv' /\ L!ByItsOwner
<1>0. PICK l \in List : l = call[r].list
  BY DEF L!Delete, ListsInv, ListsKnows
<1>1. ListsKnows(call[r]) /\ call[r].at = "delete" /\ l \in List
  BY <1>0 DEF L!Delete, ListsInv, ListsKnows
<1>2. {"OK", "NOT_FOUND"} \subseteq ListsAnswer
  BY DEF ListsAnswer
<1>3. CASE l \notin L!ListByOwner(call[r].actor)
  <2>1. lists' = lists /\ members' = members /\ L!Answer(r, "NOT_FOUND")
    BY <1>0, <1>3 DEF L!Delete
  <2>2. ListsInv'
    BY <1>2, <2>1, ListsAnswers
  <2>3. \A k \in List : ListsChanger(k)
    BY <2>1 DEF ListsChanger, L!MemberCount
  <2>4. QED
    BY <2>2, <2>3, ListsOwned
<1>4. CASE l \in L!ListByOwner(call[r].actor)
  <2>1. /\ L!Exists(l) /\ lists[l].owner = call[r].actor
        /\ lists' = [lists EXCEPT ![l] = Deleted]
        /\ members' = {m \in members : m[1] # l}
        /\ L!Answer(r, "OK")
    BY <1>0, <1>4 DEF L!Delete, L!ListByOwner
  <2>2. /\ lists' \in [List -> ListsRow \cup {None, Deleted}] /\ lists'[l] = Deleted
        /\ \A k \in List \ {l} : lists'[k] = lists[k]
    BY <1>1, <2>1 DEF ListsInv, ListsTypes
  <2>3. ~L!Exists(l)' /\ \A k \in List \ {l} : L!Exists(k)' <=> L!Exists(k)
    BY <2>2 DEF L!Exists
  <2>4. members' \subseteq members
    BY <2>1
  <2>5. ListsThere'
    <3>1. \A m \in members : m[1] \in List
      BY DEF ListsInv, ListsTypes
    <3>2. \A m \in members' : L!Exists(m[1])' /\ m[2] # lists'[m[1]].owner
      BY <2>1, <2>2, <2>3, <3>1 DEF ListsInv, ListsThere
    <3>3. QED
      BY <1>1, <2>2, <2>3, <3>2 DEF ListsInv, ListsThere
  <2>6. ListsInv'
    <3>1. \A k \in List : /\ lists[k] # None => lists'[k] # None
                          /\ lists[k] # None /\ L!Exists(k)' => L!Exists(k) /\ lists'[k].owner = lists[k].owner
      BY <2>2, <2>3 DEF ListsAssumptions
    <3>2. members' \subseteq List \X Person
      BY <2>4 DEF ListsInv, ListsTypes
    <3>3. QED
      BY <1>2, <2>1, <2>2, <2>5, <3>1, <3>2, ListsWrite
  <2>7. call'[r] # call[r]
    BY <1>1, <1>2, <2>1, ListsAnswers
  <2>8. \A k \in List \ {l} : {m \in members' : m[1] = k} = {m \in members : m[1] = k}
    BY <2>1
  <2>9. \A k \in List : ListsChanger(k)
    BY <1>1, <2>1, <2>2, <2>7, <2>8 DEF ListsChanger, L!MemberCount
  <2>10. QED
    BY <2>6, <2>9, ListsOwned
<1>5. QED
  BY <1>3, <1>4

(* A statement that writes a member of a list of the actor's *)
LEMMA ListsMembers ==
  ASSUME ListsInv, NEW r \in Req, call[r].at # "none", call[r].list \in List,
         L!Exists(call[r].list) => lists[call[r].list].owner = call[r].actor, lists' = lists,
         NEW m, m[1] = call[r].list, NEW a \in ListsAnswer, L!Answer(r, a),
         \/ members' = members
         \/ members' = members \ {m}
         \/ L!Exists(m[1]) /\ lists[m[1]].owner # m[2] /\ m \in List \X Person /\ members' = members \cup {m}
  PROVE  ListsInv' /\ L!ByItsOwner
<1>1. ListsThere'
  BY DEF ListsInv, ListsThere, L!Exists
<1>2. members' \subseteq List \X Person
  BY DEF ListsInv, ListsTypes
<1>3. ListsInv'
  BY <1>1, <1>2, ListsWrite DEF ListsInv, ListsTypes, L!Exists
<1>4. call'[r] # call[r]
  BY ListsAnswers
<1>5. ASSUME NEW k \in List PROVE ListsChanger(k)
  <2>1. CASE k = call[r].list /\ L!Exists(k)
    BY <1>4, <2>1 DEF ListsChanger
  <2>2. CASE k # call[r].list \/ ~L!Exists(k)
    <3>1. {n \in members' : n[1] = k} = {n \in members : n[1] = k}
      BY <2>2 DEF ListsInv, ListsThere
    <3>2. QED
      BY <3>1 DEF ListsChanger, L!MemberCount
  <2>3. QED
    BY <2>1, <2>2
<1>6. QED
  BY <1>3, <1>5, ListsOwned

LEMMA ListsAdds == ASSUME ListsInv, NEW r \in Req, L!AddMember(r) PROVE ListsInv' /\ L!ByItsOwner
<1> DEFINE m == <<call[r].list, call[r].user>>
<1>1. /\ call[r].at = "add" /\ call[r].list \in List /\ call[r].user \in Person
      /\ L!Exists(call[r].list) => lists[call[r].list].owner = call[r].actor
      /\ L!Exists(call[r].list) => lists[call[r].list].owner # call[r].user
  BY DEF L!AddMember, ListsInv, ListsKnows
<1>2. m[1] = call[r].list /\ m[2] = call[r].user /\ m \in List \X Person
  BY <1>1
<1>3. lists' = lists
  BY DEF L!AddMember
<1>4. PICK a \in ListsAnswer : /\ L!Answer(r, a)
                               /\ members' = members \/ (L!Exists(m[1]) /\ members' = members \cup {m})
  BY DEF L!AddMember, ListsAnswer
<1> HIDE DEF m
<1>5. QED
  BY <1>1, <1>2, <1>3, <1>4, ListsMembers

LEMMA ListsRemoves == ASSUME ListsInv, NEW r \in Req, L!RemoveMember(r) PROVE ListsInv' /\ L!ByItsOwner
<1> DEFINE m == <<call[r].list, call[r].user>>
<1>1. /\ call[r].at = "remove" /\ call[r].list \in List
      /\ L!Exists(call[r].list) => lists[call[r].list].owner = call[r].actor
  BY DEF L!RemoveMember, ListsInv, ListsKnows
<1>2. m[1] = call[r].list
  OBVIOUS
<1>3. lists' = lists /\ members' = members \ {m}
  BY DEF L!RemoveMember
<1>4. PICK a \in ListsAnswer : L!Answer(r, a)
  BY DEF L!RemoveMember, ListsAnswer
<1> HIDE DEF m
<1>5. QED
  BY <1>1, <1>2, <1>3, <1>4, ListsMembers

-----------------------------------------------------------------------------
LEMMA ListsStep == ASSUME ListsAssumptions, ListsInv, [L!Next]_(L!vars) PROVE ListsInv' /\ [L!ByItsOwner]_<<lists, members>>
<1>1. CASE UNCHANGED L!vars
  BY <1>1 DEF L!vars, ListsInv, ListsTypes, ListsThere, ListsKnows, L!Exists
<1>2. ASSUME NEW r \in Req,
             L!HandleCreate(r) \/ L!HandleUpdate(r) \/ L!HandleDelete(r) \/ L!HandleAddMember(r) \/ L!HandleRemoveMember(r)
      PROVE  ListsInv' /\ UNCHANGED <<lists, members>>
  BY <1>2, ListsHandle
     DEF L!HandleCreate, L!HandleUpdate, L!HandleDelete, L!HandleAddMember, L!HandleRemoveMember, L!Ask
<1>3. ASSUME NEW r \in Req,
             L!ServeUpdate(r) \/ L!ServeDelete(r) \/ L!ServeAddMember(r) \/ L!ServeRemoveMember(r) \/ L!CheckMember(r)
      PROVE  ListsInv' /\ UNCHANGED <<lists, members>>
  BY <1>3, ListsServe
     DEF L!ServeUpdate, L!ServeDelete, L!ServeAddMember, L!ServeRemoveMember, L!CheckMember, L!Check, L!Step
<1>4. ASSUME NEW r \in Req, L!Fail(r) PROVE ListsInv' /\ UNCHANGED <<lists, members>>
  BY <1>4, ListsAnswers DEF L!Fail, ListsAnswer
<1>5. QED
  BY <1>1, <1>2, <1>3, <1>4, ListsCreates, ListsUpdates, ListsDeletes, ListsAdds, ListsRemoves DEF L!Next

(* What a request knows of the owner of its list stays true, and so only the owner changes
   a list. *)
THEOREM ListsInvariance == ASSUME ListsAssumptions PROVE L!Spec => []ListsInv /\ [][L!ByItsOwner]_<<lists, members>>
<1>1. ListsInv /\ [L!Next]_(L!vars) => ListsInv' /\ [L!ByItsOwner]_<<lists, members>>
  BY ListsStep
<1>2. QED
  BY <1>1, ListsInit, PTL DEF L!Spec

LEMMA ListsTyped == ASSUME ListsInv PROVE L!ListsTypeOK
<1>1. \A l \in List : L!Exists(l) => lists[l] \in ListsRow
  BY DEF ListsInv, ListsTypes, L!Exists
<1>2. \A r \in Req : call[r].at \in ListsStage
  BY DEF ListsInv, ListsTypes, ListsCall
<1>3. QED
  BY <1>1, <1>2 DEF ListsInv, ListsTypes, L!ListsTypeOK, ListsRow, ListsStage

-----------------------------------------------------------------------------
(* Media. A row is committed after its file was written whole, under a UUID that nobody
   else has taken, and a file is removed after its row: so a row that is to stay has one. *)


MediaStage == {"closed", "insert", "save", "commit", "respond", "open", "link",
               "delete", "remove", "again", "end"}
MediaAnswer == {None, "OK", "INTERNAL", "NOT_FOUND", "NO_FILE", "TORN", "SERVED"}
MediaConn == [at : MediaStage, uuid : Medium \cup {None}, left : Int, done : SUBSET Medium, answer : MediaAnswer]

(* No answer is not an answer. *)
MediaAssumptions == None \notin {"NO_FILE", "TORN"}

MediaTypes ==
  /\ media \subseteq taken /\ files \subseteq taken /\ torn \subseteq taken /\ given \subseteq taken
  /\ taken \subseteq Medium
  /\ links \subseteq Article \X Medium
  /\ doomed \subseteq given
  /\ conn \in [Conn -> MediaConn]

(* What a request knows at its stage: a UUID it has taken is nobody else's, a file it has
   saved is whole, what it has uploaded is there, and what it removes was to be deleted. *)
MediaKnows(x) ==
  /\ x.done \subseteq media \cup given
  /\ x.at \in {"save", "commit"} => x.uuid \in taken \ (media \cup given \cup torn)
  /\ x.at = "commit" => x.uuid \in files
  /\ x.at = "open" => x.uuid \in media \cup doomed
  /\ x.at = "link" => x.uuid \in Medium
  /\ x.at \in {"delete", "remove", "again", "end"} => x.uuid \in doomed
  /\ x.answer \in {"NO_FILE", "TORN"} => x.at = "closed" /\ x.uuid \in doomed

(* No two requests upload under one UUID. *)
MediaApart ==
  \A c, d \in Conn :
    c # d /\ conn[c].at \in {"save", "commit"} /\ conn[d].at \in {"save", "commit"} =>
      conn[c].uuid # conn[d].uuid

MediaThere ==
  /\ \A u \in media \ doomed : u \in files \ torn
  /\ given \subseteq media \cup doomed
  /\ \A l \in links : l[2] \in media

MediaInv ==
  /\ MediaTypes /\ MediaApart /\ MediaThere
  /\ \A c \in Conn : MediaKnows(conn[c])

-----------------------------------------------------------------------------
LEMMA MediaClosed ==
  ASSUME MediaAssumptions
  PROVE  \A n \in {None, "OK", "INTERNAL", "NOT_FOUND"} :
           /\ [D!Closed EXCEPT !.answer = n] \in MediaConn
           /\ [D!Closed EXCEPT !.answer = n].at = "closed" /\ [D!Closed EXCEPT !.answer = n].done = {}
           /\ [D!Closed EXCEPT !.answer = n].answer \notin {"NO_FILE", "TORN"}
BY DEF D!Closed, MediaConn, MediaStage, MediaAnswer, MediaAssumptions

LEMMA MediaNone == D!Closed \in MediaConn /\ D!Closed.at = "closed" /\ D!Closed.done = {} /\ D!Closed.answer = None
BY DEF D!Closed, MediaConn, MediaStage, MediaAnswer

LEMMA MediaInit == ASSUME MediaAssumptions, D!Init PROVE MediaInv
<1>1. \A c \in Conn : conn[c] = D!Closed
  BY DEF D!Init
<1>2. D!Closed \in MediaConn /\ D!Closed.at = "closed" /\ D!Closed.done = {} /\ D!Closed.answer \notin {"NO_FILE", "TORN"}
  BY DEF D!Closed, MediaConn, MediaStage, MediaAnswer, MediaAssumptions
<1>3. QED
  BY <1>1, <1>2 DEF D!Init, MediaInv, MediaTypes, MediaApart, MediaThere, MediaKnows

LEMMA MediaGoes ==
  ASSUME MediaInv, NEW c \in Conn, NEW new \in MediaConn, D!Goes(c, new)
  PROVE  /\ conn' \in [Conn -> MediaConn] /\ conn'[c] = new
         /\ \A d \in Conn \ {c} : conn'[d] = conn[d]
BY DEF MediaInv, MediaTypes, D!Goes

(* A step that leaves tables and files alone. *)
LEMMA MediaQuiet ==
  ASSUME MediaInv, NEW c \in Conn, NEW new \in MediaConn, D!Goes(c, new), UNCHANGED <<media, D!disk, links, given, taken>>,
         \/ doomed' = doomed
         \/ \E u \in given : doomed' = doomed \cup {u},
         new.at \in {"save", "commit"} =>
           conn[c].at \in {"save", "commit"} /\ new.uuid = conn[c].uuid,
         MediaKnows(new)'
  PROVE  MediaInv'
<1>1. /\ conn' \in [Conn -> MediaConn] /\ conn'[c] = new
      /\ \A d \in Conn \ {c} : conn'[d] = conn[d]
  BY MediaGoes
<1>2. media' = media /\ files' = files /\ torn' = torn /\ links' = links /\ given' = given /\ taken' = taken
  BY DEF D!disk
<1>3. doomed \subseteq doomed' /\ doomed' \subseteq given
  BY DEF MediaInv, MediaTypes
<1>4. MediaTypes' /\ MediaThere'
  BY <1>1, <1>2, <1>3 DEF MediaInv, MediaTypes, MediaThere
<1>5. MediaApart'
  BY <1>1 DEF MediaInv, MediaApart
<1>6. \A d \in Conn : MediaKnows(conn[d])'
  BY <1>1, <1>2, <1>3 DEF MediaInv, MediaKnows
<1>7. QED
  BY <1>4, <1>5, <1>6 DEF MediaInv

LEMMA MediaClose ==
  ASSUME MediaAssumptions, MediaInv, NEW c \in Conn, NEW n \in {None, "OK", "INTERNAL", "NOT_FOUND"},
         D!Goes(c, [D!Closed EXCEPT !.answer = n]), UNCHANGED <<media, D!disk, links, given, doomed, taken>>
  PROVE  MediaInv'
<1> DEFINE new == [D!Closed EXCEPT !.answer = n]
<1>1. new \in MediaConn /\ new.at = "closed" /\ new.done = {} /\ new.answer \notin {"NO_FILE", "TORN"}
  BY MediaClosed
<1> HIDE DEF new
<1>2. MediaKnows(new)'
  BY <1>1 DEF MediaKnows
<1>3. QED
  BY <1>1, <1>2, MediaQuiet DEF new

(* A request begins with nothing, or about a medium that was given out. *)
LEMMA MediaOpens ==
  ASSUME MediaAssumptions, MediaInv, NEW c \in Conn,
         D!UploadMedia(c) \/ D!GetByID(c) \/ D!LookForMedia(c) \/ D!DeleteByID(c)
  PROVE  MediaInv'
<1>1. CASE D!UploadMedia(c)
  <2>1. PICK n \in 1 .. MaxFiles : D!Goes(c, [D!Closed EXCEPT !.at = "insert", !.left = n])
    BY <1>1 DEF D!UploadMedia, D!Open
  <2> DEFINE new == [D!Closed EXCEPT !.at = "insert", !.left = n]
  <2>2. new \in MediaConn /\ new.at = "insert" /\ new.done = {} /\ new.answer \notin {"NO_FILE", "TORN"}
    <3>1. "insert" \in MediaStage /\ n \in Int
      BY DEF MediaStage
    <3>2. new \in MediaConn
      BY <3>1, MediaNone DEF MediaConn
    <3>3. QED
      BY <3>2, MediaNone DEF MediaConn, MediaAssumptions
  <2>3. D!Goes(c, new)
    BY <2>1
  <2> HIDE DEF new
  <2>4. MediaKnows(new)'
    BY <2>2 DEF MediaKnows
  <2>5. QED
    BY <1>1, <2>2, <2>3, <2>4, MediaQuiet DEF D!UploadMedia
<1>2. ASSUME NEW u \in given, NEW l \in {"open", "link", "delete"}, D!Goes(c, [D!Closed EXCEPT !.at = l, !.uuid = u]),
             UNCHANGED <<media, D!disk, links, given, taken>>,
             l = "open" => u \in media,
             IF l = "delete" THEN doomed' = doomed \cup {u} ELSE doomed' = doomed
      PROVE  MediaInv'
  <2> DEFINE new == [D!Closed EXCEPT !.at = l, !.uuid = u]
  <2>1. u \in Medium /\ l \in MediaStage /\ None \in MediaAnswer
    BY DEF MediaInv, MediaTypes, MediaStage, MediaAnswer
  <2>2. new \in MediaConn /\ new.at = l /\ new.uuid = u /\ new.done = {} /\ new.answer \notin {"NO_FILE", "TORN"}
    BY <2>1, MediaNone DEF MediaConn, MediaAssumptions
  <2>3. D!Goes(c, new)
    BY <1>2
  <2> HIDE DEF new
  <2>4. MediaKnows(new)'
    BY <1>2, <2>1, <2>2 DEF MediaKnows
  <2>5. QED
    BY <1>2, <2>2, <2>3, <2>4, MediaQuiet
<1>3. CASE D!GetByID(c)
  <2>1. PICK u \in given : IF u \in media THEN D!Open(c, [D!Closed EXCEPT !.at = "open", !.uuid = u])
                           ELSE D!Open(c, [D!Closed EXCEPT !.answer = "NOT_FOUND"])
    BY <1>3 DEF D!GetByID
  <2>2. QED
    BY <1>2, <1>3, <2>1, MediaClose DEF D!GetByID, D!Open
<1>4. CASE D!LookForMedia(c)
  <2>1. PICK u \in given \cap media : D!Open(c, [D!Closed EXCEPT !.at = "link", !.uuid = u])
    BY <1>4 DEF D!LookForMedia
  <2>2. QED
    BY <1>2, <1>4, <2>1, ZenonT(60) DEF D!LookForMedia, D!Open
<1>5. CASE D!DeleteByID(c)
  <2>1. PICK u \in given : D!Open(c, [D!Closed EXCEPT !.at = "delete", !.uuid = u]) /\ doomed' = doomed \cup {u}
    BY <1>5 DEF D!DeleteByID
  <2>2. QED
    BY <1>2, <1>5, <2>1, ZenonT(60) DEF D!DeleteByID, D!Open
<1>6. QED
  BY <1>1, <1>3, <1>4, <1>5

(* A row is read before its file: what is not whole was to be deleted. *)
LEMMA MediaServes == ASSUME MediaAssumptions, MediaInv, NEW c \in Conn, D!GetMediaByID(c) PROVE MediaInv'
<1> DEFINE u == conn[c].uuid
           n == IF u \notin files THEN "NO_FILE" ELSE IF u \in torn THEN "TORN" ELSE "SERVED"
<1>1. conn[c] \in MediaConn /\ conn[c].at = "open" /\ MediaKnows(conn[c])
  BY DEF D!GetMediaByID, MediaInv, MediaTypes
<1>2. u \in media \cup doomed /\ u \in Medium \cup {None}
  BY <1>1 DEF MediaKnows, MediaConn
<1>3. n \in {"NO_FILE", "TORN", "SERVED"} /\ n \in MediaAnswer /\ (n \in {"NO_FILE", "TORN"} => u \in doomed)
  BY <1>2 DEF MediaInv, MediaThere, MediaAnswer
<1>5. D!Goes(c, [D!Closed EXCEPT !.uuid = u, !.answer = n])
  BY DEF D!GetMediaByID
<1> HIDE DEF n, u
<1>4. PICK new \in MediaConn : /\ D!Goes(c, new)
                              /\ new.at = "closed" /\ new.uuid = u /\ new.done = {} /\ new.answer = n
  <2>2. [D!Closed EXCEPT !.uuid = u, !.answer = n] \in MediaConn
    BY <1>2, <1>3, MediaNone DEF MediaConn
  <2>3. QED
    BY <1>5, <2>2, MediaNone DEF MediaConn
<1>6. UNCHANGED <<media, D!disk, links, given, doomed, taken>>
  BY DEF D!GetMediaByID, D!ghosts
<1>7. MediaKnows(new)'
  BY <1>3, <1>4, <1>6 DEF MediaKnows
<1>8. QED
  BY <1>4, <1>6, <1>7, MediaQuiet

LEMMA MediaFails == ASSUME MediaAssumptions, MediaInv, NEW c \in Conn, D!Fail(c) PROVE MediaInv'
BY MediaClose DEF D!Fail, D!Close, D!ghosts

(* A UUID that nobody has taken. *)
LEMMA MediaInserts == ASSUME MediaInv, NEW c \in Conn, D!InsertMedia(c) PROVE MediaInv'
<1>1. PICK u \in Medium \ taken : taken' = taken \cup {u} /\ D!Goes(c, [conn[c] EXCEPT !.at = "save", !.uuid = u])
  BY DEF D!InsertMedia
<1>2. conn[c] \in MediaConn /\ MediaKnows(conn[c]) /\ conn[c].at = "insert"
  BY DEF D!InsertMedia, MediaInv, MediaTypes
<1>3. PICK new \in MediaConn : /\ D!Goes(c, new)
                              /\ new.at = "save" /\ new.uuid = u /\ new.done = conn[c].done
                              /\ new.answer = conn[c].answer
  <2>1. "save" \in MediaStage
    BY DEF MediaStage
  <2>2. [conn[c] EXCEPT !.at = "save", !.uuid = u] \in MediaConn
    BY <1>2, <2>1 DEF MediaConn
  <2>3. QED
    BY <1>1, <1>2, <2>2 DEF MediaConn
<1>5. /\ conn' \in [Conn -> MediaConn] /\ conn'[c] = new
      /\ \A d \in Conn \ {c} : conn'[d] = conn[d]
  BY <1>3, MediaGoes
<1>6. /\ media' = media /\ files' = files /\ torn' = torn /\ links' = links /\ given' = given /\ doomed' = doomed
  BY DEF D!InsertMedia, D!disk
<1>7. MediaTypes' /\ MediaThere'
  BY <1>1, <1>5, <1>6 DEF MediaInv, MediaTypes, MediaThere
<1>8. \A d \in Conn : conn[d].at \in {"save", "commit"} => conn[d].uuid # u
  BY <1>1 DEF MediaInv, MediaKnows
<1>9. MediaApart'
  BY <1>3, <1>5, <1>8 DEF MediaInv, MediaApart
<1>10. MediaKnows(new)'
  BY <1>1, <1>2, <1>3, <1>6 DEF MediaInv, MediaTypes, MediaKnows
<1>11. \A d \in Conn \ {c} : MediaKnows(conn[d])'
  BY <1>1, <1>5, <1>6 DEF MediaInv, MediaKnows
<1>12. QED
  BY <1>5, <1>7, <1>9, <1>10, <1>11 DEF MediaInv

(* The file is written to its end, or torn and left without a row. *)
LEMMA MediaSaves == ASSUME MediaAssumptions, MediaInv, NEW c \in Conn, D!SaveFile(c) PROVE MediaInv'
<1> DEFINE u == conn[c].uuid
<1>1. conn[c] \in MediaConn /\ MediaKnows(conn[c]) /\ conn[c].at = "save"
  BY DEF D!SaveFile, MediaInv, MediaTypes
<1>2. u \in taken \ (media \cup given \cup torn)
  BY <1>1 DEF MediaKnows
<1>3. /\ media' = media /\ files' = files \cup {u} /\ links' = links /\ given' = given /\ doomed' = doomed
      /\ taken' = taken
  BY DEF D!SaveFile, D!ghosts
<1>4. PICK new \in MediaConn :
        /\ D!Goes(c, new)
        /\ \/ /\ new.at = "commit" /\ new.uuid = u /\ new.done = conn[c].done /\ new.answer = conn[c].answer
              /\ torn' = torn
           \/ /\ new.at = "closed" /\ new.done = {} /\ new.answer \notin {"NO_FILE", "TORN"}
              /\ torn' = torn \cup {u}
  <2>1. [conn[c] EXCEPT !.at = "commit"] \in MediaConn
    BY <1>1 DEF MediaConn, MediaStage
  <2>2. CASE D!Step(c, "commit") /\ UNCHANGED torn
    BY <1>1, <2>1, <2>2 DEF D!Step, MediaConn
  <2>3. CASE D!Close(c, "INTERNAL") /\ torn' = torn \cup {u}
    BY <2>3, MediaClosed DEF D!Close
  <2>4. QED
    BY <2>2, <2>3 DEF D!SaveFile
<1>5. /\ conn' \in [Conn -> MediaConn] /\ conn'[c] = new
      /\ \A d \in Conn \ {c} : conn'[d] = conn[d]
  BY <1>4, MediaGoes
<1>6. torn \subseteq torn' /\ torn' \subseteq torn \cup {u}
  BY <1>4
<1>7. \A d \in Conn \ {c} : conn[d].at \in {"save", "commit"} => conn[d].uuid # u
  BY <1>1 DEF MediaInv, MediaApart
<1> HIDE DEF u
<1>8. MediaTypes' /\ MediaThere'
  BY <1>2, <1>3, <1>5, <1>6 DEF MediaInv, MediaTypes, MediaThere
<1>9. MediaApart'
  BY <1>1, <1>4, <1>5, <1>7 DEF MediaInv, MediaApart
<1>10. MediaKnows(new)'
  BY <1>1, <1>2, <1>3, <1>4 DEF MediaKnows
<1>11. \A d \in Conn \ {c} : MediaKnows(conn[d])'
  BY <1>3, <1>5, <1>6, <1>7 DEF MediaInv, MediaKnows
<1>12. QED
  BY <1>5, <1>8, <1>9, <1>10, <1>11 DEF MediaInv

(* The row comes with its file. *)
LEMMA MediaCommits == ASSUME MediaInv, NEW c \in Conn, D!Create(c) PROVE MediaInv'
<1> DEFINE u == conn[c].uuid
<1>1. conn[c] \in MediaConn /\ MediaKnows(conn[c]) /\ conn[c].at = "commit"
  BY DEF D!Create, MediaInv, MediaTypes
<1>2. u \in taken \ (given \cup torn) /\ u \in files /\ u \in Medium
  BY <1>1 DEF MediaKnows, MediaInv, MediaTypes
<1>3. PICK new \in MediaConn : /\ D!Goes(c, new)
                              /\ new.at \in {"insert", "respond"} /\ new.done = conn[c].done \cup {u}
                              /\ new.answer = conn[c].answer
  <2> DEFINE l == IF conn[c].left > 1 THEN "insert" ELSE "respond"
             done == conn[c].done \cup {u}
             x == [conn[c] EXCEPT !.at = l, !.left = @ - 1, !.uuid = None, !.done = done]
  <2>1. D!Goes(c, x)
    BY DEF D!Create
  <2>2. l \in {"insert", "respond"} /\ l \in MediaStage /\ done \in SUBSET Medium /\ conn[c].left - 1 \in Int
    BY <1>1, <1>2 DEF MediaConn, MediaStage
  <2> HIDE DEF l, done
  <2>3. x \in MediaConn /\ x.at = l /\ x.done = done /\ x.answer = conn[c].answer
    BY <1>1, <2>2 DEF MediaConn
  <2> HIDE DEF x
  <2>4. QED
    BY <2>1, <2>2, <2>3 DEF done
<1>4. media' = media \cup {u}
  BY DEF D!Create
<1>5. files' = files /\ torn' = torn /\ links' = links /\ given' = given /\ doomed' = doomed /\ taken' = taken
  BY DEF D!Create, D!disk, D!ghosts
<1>6. /\ conn' \in [Conn -> MediaConn] /\ conn'[c] = new
      /\ \A d \in Conn \ {c} : conn'[d] = conn[d]
  BY <1>3, MediaGoes
<1>7. \A d \in Conn \ {c} : conn[d].at \in {"save", "commit"} => conn[d].uuid # u
  BY <1>1 DEF MediaInv, MediaApart
<1> HIDE DEF u
<1>8. MediaTypes' /\ MediaThere'
  BY <1>2, <1>4, <1>5, <1>6 DEF MediaInv, MediaTypes, MediaThere
<1>9. MediaApart'
  BY <1>3, <1>6 DEF MediaInv, MediaApart
<1>10. MediaKnows(new)'
  BY <1>1, <1>3, <1>4, <1>5 DEF MediaKnows
<1>11. \A d \in Conn \ {c} : MediaKnows(conn[d])'
  BY <1>4, <1>5, <1>6, <1>7 DEF MediaInv, MediaKnows
<1>12. QED
  BY <1>6, <1>8, <1>9, <1>10, <1>11 DEF MediaInv

(* What is handed out is there, or was to be deleted; a UUID of an upload under way is not. *)
LEMMA MediaResponds == ASSUME MediaAssumptions, MediaInv, NEW c \in Conn, D!RespondUploaded(c) PROVE MediaInv'
<1> DEFINE new == [D!Closed EXCEPT !.answer = "OK"]
<1>1. MediaKnows(conn[c]) /\ conn[c].at = "respond"
  BY DEF D!RespondUploaded, MediaInv
<1>2. new \in MediaConn /\ new.at = "closed" /\ new.done = {} /\ new.answer \notin {"NO_FILE", "TORN"}
  BY MediaClosed
<1>3. D!Goes(c, new) /\ given' = given \cup conn[c].done
  BY DEF D!RespondUploaded, D!Close
<1> HIDE DEF new
<1>4. /\ media' = media /\ files' = files /\ torn' = torn /\ links' = links /\ doomed' = doomed /\ taken' = taken
  BY DEF D!RespondUploaded, D!disk
<1>5. /\ conn' \in [Conn -> MediaConn] /\ conn'[c] = new
      /\ \A d \in Conn \ {c} : conn'[d] = conn[d]
  BY <1>2, <1>3, MediaGoes
<1>6. given \subseteq given' /\ given' \subseteq media \cup given
  BY <1>1, <1>3 DEF MediaKnows
<1>7. MediaTypes' /\ MediaThere'
  BY <1>4, <1>5, <1>6 DEF MediaInv, MediaTypes, MediaThere
<1>8. MediaApart'
  BY <1>2, <1>5 DEF MediaInv, MediaApart
<1>9. MediaKnows(new)'
  BY <1>2 DEF MediaKnows
<1>10. \A d \in Conn \ {c} : MediaKnows(conn[d])'
  BY <1>4, <1>5, <1>6 DEF MediaInv, MediaKnows
<1>11. QED
  BY <1>5, <1>7, <1>8, <1>9, <1>10 DEF MediaInv

LEMMA MediaLinks == ASSUME MediaAssumptions, MediaInv, NEW c \in Conn, D!LinkMediaToPost(c) PROVE MediaInv'
<1> DEFINE u == conn[c].uuid
           none == [D!Closed EXCEPT !.answer = "INTERNAL"]
           new == [D!Closed EXCEPT !.answer = "OK"]
<1>1. CASE u \notin media
  BY <1>1, MediaClose DEF D!LinkMediaToPost, D!Close, D!ghosts
<1>2. CASE u \in media
  <2>1. PICK p \in Article : links' = links \cup {<<p, u>>} /\ D!Goes(c, new)
    BY <1>2 DEF D!LinkMediaToPost, D!Close
  <2>2. new \in MediaConn /\ new.at = "closed" /\ new.done = {} /\ new.answer \notin {"NO_FILE", "TORN"}
    BY MediaClosed
  <2> HIDE DEF new
  <2>3. /\ conn' \in [Conn -> MediaConn] /\ conn'[c] = new
        /\ \A d \in Conn \ {c} : conn'[d] = conn[d]
    BY <2>1, <2>2, MediaGoes
  <2>4. /\ media' = media /\ files' = files /\ torn' = torn /\ given' = given /\ doomed' = doomed /\ taken' = taken
    BY DEF D!LinkMediaToPost, D!disk, D!ghosts
  <2>5. <<p, u>> \in Article \X Medium /\ <<p, u>>[2] = u
    BY <1>2 DEF MediaInv, MediaTypes
  <2> HIDE DEF u
  <2>6. MediaTypes' /\ MediaThere'
    BY <1>2, <2>1, <2>3, <2>4, <2>5 DEF MediaInv, MediaTypes, MediaThere
  <2>7. MediaApart'
    BY <2>2, <2>3 DEF MediaInv, MediaApart
  <2>8. MediaKnows(new)' /\ \A d \in Conn \ {c} : MediaKnows(conn[d])'
    BY <2>2, <2>3, <2>4 DEF MediaInv, MediaKnows
  <2>9. QED
    BY <2>3, <2>6, <2>7, <2>8 DEF MediaInv
<1>3. QED
  BY <1>1, <1>2

(* Deleting, up to its COMMIT: the file of a medium that was to be deleted may go. *)
LEMMA MediaRemoves ==
  ASSUME MediaAssumptions, MediaInv, NEW c \in Conn, D!DeleteRow(c) \/ D!RemoveFile(c) \/ D!RemoveAgain(c)
  PROVE  MediaInv'
<1> DEFINE u == conn[c].uuid
<1>1. conn[c] \in MediaConn /\ MediaKnows(conn[c]) /\ conn[c].at \in {"delete", "remove", "again"}
  BY DEF D!DeleteRow, D!RemoveFile, D!RemoveAgain, MediaInv, MediaTypes
<1>2. u \in doomed
  BY <1>1 DEF MediaKnows
<1>3. media' = media /\ links' = links /\ given' = given /\ doomed' = doomed /\ taken' = taken
  BY DEF D!DeleteRow, D!RemoveFile, D!RemoveAgain, D!ghosts
<1>4. torn' = torn /\ files' \in {files, files \ {u}}
  BY DEF D!DeleteRow, D!RemoveFile, D!RemoveAgain, D!DeleteFile, D!disk
<1>5. PICK new \in MediaConn :
        /\ D!Goes(c, new)
        /\ \/ /\ new.at \in {"remove", "again", "end"} /\ new.uuid = u /\ new.done = conn[c].done
              /\ new.answer = conn[c].answer
           \/ new.at = "closed" /\ new.done = {} /\ new.answer \notin {"NO_FILE", "TORN"}
  <2>1. ASSUME NEW l \in {"remove", "again", "end"}
        PROVE  /\ [conn[c] EXCEPT !.at = l] \in MediaConn
               /\ [conn[c] EXCEPT !.at = l].at = l /\ [conn[c] EXCEPT !.at = l].uuid = u
               /\ [conn[c] EXCEPT !.at = l].done = conn[c].done /\ [conn[c] EXCEPT !.at = l].answer = conn[c].answer
    BY <1>1 DEF MediaConn, MediaStage
  <2>2. CASE D!Step(c, "remove") \/ D!Step(c, "again") \/ D!Step(c, "end")
    BY <2>1, <2>2 DEF D!Step
  <2>3. CASE D!Close(c, "NOT_FOUND") \/ D!Close(c, "INTERNAL")
    BY <2>3, MediaClosed DEF D!Close
  <2>4. QED
    BY <2>2, <2>3 DEF D!DeleteRow, D!RemoveFile, D!RemoveAgain
<1>6. /\ conn' \in [Conn -> MediaConn] /\ conn'[c] = new
      /\ \A d \in Conn \ {c} : conn'[d] = conn[d]
  BY <1>5, MediaGoes
<1> HIDE DEF u
<1>7. MediaTypes' /\ MediaThere'
  BY <1>2, <1>3, <1>4, <1>6 DEF MediaInv, MediaTypes, MediaThere
<1>8. MediaApart'
  BY <1>5, <1>6 DEF MediaInv, MediaApart
<1>9. MediaKnows(new)'
  BY <1>1, <1>2, <1>3, <1>5 DEF MediaKnows
<1>10. \A d \in Conn \ {c} : MediaKnows(conn[d])'
  BY <1>2, <1>3, <1>4, <1>6 DEF MediaInv, MediaTypes, MediaKnows
<1>11. QED
  BY <1>6, <1>7, <1>8, <1>9, <1>10 DEF MediaInv

(* The row goes, and what links to it. *)
LEMMA MediaDeletes == ASSUME MediaAssumptions, MediaInv, NEW c \in Conn, D!CommitDelete(c) PROVE MediaInv'
<1> DEFINE u == conn[c].uuid
           new == [D!Closed EXCEPT !.answer = "OK"]
<1>1. u \in doomed
  BY DEF D!CommitDelete, MediaInv, MediaKnows
<1>2. new \in MediaConn /\ new.at = "closed" /\ new.done = {} /\ new.answer \notin {"NO_FILE", "TORN"}
  BY MediaClosed
<1>3. D!Goes(c, new) /\ media' = media \ {u} /\ links' = {l \in links : l[2] # u}
  BY DEF D!CommitDelete, D!Close
<1> HIDE DEF new
<1>4. files' = files /\ torn' = torn /\ given' = given /\ doomed' = doomed /\ taken' = taken
  BY DEF D!CommitDelete, D!disk, D!ghosts
<1>5. /\ conn' \in [Conn -> MediaConn] /\ conn'[c] = new
      /\ \A d \in Conn \ {c} : conn'[d] = conn[d]
  BY <1>2, <1>3, MediaGoes
<1> HIDE DEF u
<1>6. MediaTypes' /\ MediaThere'
  BY <1>1, <1>3, <1>4, <1>5 DEF MediaInv, MediaTypes, MediaThere
<1>7. MediaApart'
  BY <1>2, <1>5 DEF MediaInv, MediaApart
<1>8. MediaKnows(new)' /\ \A d \in Conn \ {c} : MediaKnows(conn[d])'
  BY <1>1, <1>2, <1>3, <1>4, <1>5 DEF MediaInv, MediaTypes, MediaKnows
<1>9. QED
  BY <1>5, <1>6, <1>7, <1>8 DEF MediaInv

LEMMA MediaKeeps == ASSUME MediaAssumptions, MediaInv, [D!Next]_(D!vars) PROVE MediaInv'
<1>1. CASE UNCHANGED D!vars
  BY <1>1 DEF D!vars, MediaInv, MediaTypes, MediaApart, MediaThere, MediaKnows
<1>2. QED
  BY <1>1, MediaOpens, MediaServes, MediaFails, MediaInserts, MediaSaves, MediaCommits, MediaResponds,
     MediaLinks, MediaRemoves, MediaDeletes DEF D!Next

LEMMA MediaTyped == ASSUME MediaInv PROVE D!MediaTypeOK
BY DEF MediaInv, MediaTypes, D!MediaTypeOK, MediaConn, MediaStage

LEMMA MediaWhole == ASSUME MediaInv PROVE D!MediaIsWhole
<1>1. \A p \in Article : D!FetchPostMedia(p) \subseteq media
  BY DEF MediaInv, MediaThere, D!FetchPostMedia
<1>2. QED
  BY <1>1 DEF MediaInv, MediaThere, MediaKnows, D!MediaIsWhole

(* A file is whole before its row is there, and goes after it. *)
THEOREM MediaInvariance == ASSUME MediaAssumptions PROVE D!Spec => []MediaInv
<1>1. D!Init => MediaInv
  BY MediaInit
<1>2. MediaInv /\ [D!Next]_(D!vars) => MediaInv'
  BY MediaKeeps
<1>3. QED
  BY <1>1, <1>2, PTL DEF D!Spec

-----------------------------------------------------------------------------
(* Accounts. A sign-in looks for the identity, then for the email, and then links or
   inserts; what it has found still holds for an identity whose sign-ins do not overlap,
   and the unique indexes hold for rows that are not yet committed. *)

AccountsRow == [email : Email, name : Name, sub : Sub \cup {None}, password : BOOLEAN]
AccountsStage == {"none", "identity", "email", "link", "refuse", "insert", "settings", "display",
                  "commit", "issue"}
AccountsInserts == {"settings", "display", "commit"}
AccountsAnswer == {None, "OK", "INTERNAL", "UNAUTHORIZED", "EMAIL_EXISTS", "USERNAME_EXISTS", "ALREADY_EXISTS"}
AccountsVisit == [at : AccountsStage, op : {None, "login", "register", "google"}, row : AccountsRow \cup {None},
                  attempt : Nat, found : Nat, answer : AccountsAnswer]

(* Nobody has no email, name or identity, and there are usernames to try for an email. *)
AccountsAssumptions ==
  /\ None \notin Email \cup Name \cup Sub
  /\ \A e \in Email : TrialsOf[e] \in Seq(Name) /\ Len(TrialsOf[e]) > 0

AccountsTypes ==
  /\ users \in Seq(AccountsRow)
  /\ visit \in [Browser -> AccountsVisit]
  /\ state \subseteq Browser
  /\ entered \subseteq Sub \X (1 .. Len(users))
  /\ blurred \subseteq Sub

(* What the unique indexes tell apart *)
AccountsDiffer(a, b) == a.email # b.email /\ a.name # b.name /\ (a.sub # b.sub \/ a.sub = None)

(* Two sign-ins that overlap, of an identity or an email *)
AccountsOverlap(x, y) ==
  /\ x.at # "none" /\ x.op = "google" /\ y.at # "none" /\ y.op = "google"
  /\ x.row.sub = y.row.sub \/ x.row.email = y.row.email

(* What a request knows at its next statement; with an identity whose sign-ins do not
   overlap, what its look-ups have found is still so. *)
AccountsKnows(x) ==
  /\ x.at # "none" => x.row \in AccountsRow /\ x.op \in {"login", "register", "google"}
  /\ x.at # "none" /\ x.op = "google" => x.row.sub \in Sub
  /\ x.at # "none" /\ x.op = "login" => x.at = "issue"
  /\ x.at # "none" /\ x.op = "register" => x.row.sub = None
  /\ x.at \in {"identity", "email", "link", "refuse"} => x.op = "google"
  /\ x.found \in 0 .. Len(users)
  /\ x.at \in {"link", "issue"} => x.found # 0
  /\ x.at = "link" => users[x.found].email = x.row.email
  /\ x.op = "google" /\ x.at # "none" /\ x.row.sub \notin blurred =>
       /\ x.at \in {"email", "link", "insert"} \cup AccountsInserts =>
            \A i \in 1 .. Len(users) : users[i].sub # x.row.sub
       /\ x.at = "link" => users[x.found].sub = None
       /\ x.at = "issue" => users[x.found].sub = x.row.sub

AccountsUnique ==
  /\ \A i, j \in 1 .. Len(users) : i # j => AccountsDiffer(users[i], users[j])
  /\ \A b \in Browser : visit[b].at \in AccountsInserts =>
       \A i \in 1 .. Len(users) : AccountsDiffer(visit[b].row, users[i])
  /\ \A b, c \in Browser : b # c /\ visit[b].at \in AccountsInserts /\ visit[c].at \in AccountsInserts =>
       AccountsDiffer(visit[b].row, visit[c].row)

AccountsBlurred ==
  \A b, c \in Browser : b # c /\ AccountsOverlap(visit[b], visit[c]) => visit[b].row.sub \in blurred

AccountsEntered == \A x \in entered : x[1] \in blurred \/ users[x[2]].sub = x[1]

AccountsInv ==
  /\ AccountsTypes /\ AccountsUnique /\ AccountsBlurred /\ AccountsEntered
  /\ \A b \in Browser : AccountsKnows(visit[b])

-----------------------------------------------------------------------------
LEMMA AccountsIds == ASSUME AccountsTypes PROVE A!Ids = 1 .. Len(users) /\ Len(users) \in Nat
BY LenProperties DEF AccountsTypes, A!Ids

LEMMA AccountsNoVisit ==
  A!NoVisit \in AccountsVisit /\ A!NoVisit.at = "none" /\ A!NoVisit.found = 0
BY DEF A!NoVisit, AccountsVisit, AccountsStage, AccountsAnswer

LEMMA AccountsInit == ASSUME A!Init PROVE AccountsInv
<1>1. \A b \in Browser : visit[b] = A!NoVisit
  BY DEF A!Init
<1>2. users \in Seq(AccountsRow) /\ Len(users) = 0
  BY EmptySeq DEF A!Init
<1>3. AccountsTypes
  BY <1>1, <1>2, AccountsNoVisit DEF A!Init, AccountsTypes
<1>4. AccountsUnique
  BY <1>1, <1>2, AccountsNoVisit DEF AccountsUnique, AccountsInserts
<1>5. AccountsBlurred /\ AccountsEntered
  BY <1>1, AccountsNoVisit DEF A!Init, AccountsBlurred, AccountsOverlap, AccountsEntered
<1>6. \A b \in Browser : AccountsKnows(visit[b])
  BY <1>1, <1>2, AccountsNoVisit DEF AccountsKnows, AccountsInserts
<1>7. QED
  BY <1>3, <1>4, <1>5, <1>6 DEF AccountsInv

LEMMA AccountsGoes ==
  ASSUME AccountsTypes, NEW b \in Browser, NEW new \in AccountsVisit, A!Goes(b, new)
  PROVE  /\ visit' \in [Browser -> AccountsVisit] /\ visit'[b] = new
         /\ \A c \in Browser \ {b} : visit'[c] = visit[c]
BY DEF AccountsTypes, A!Goes

(* A request that was on its way goes on, or ends: the same account, unless it inserts
   one that no index has met. *)
AccountsGoesOn(b, new) ==
  \/ new.at = "none"
  \/ /\ visit[b].at # "none" /\ new.op = visit[b].op
     /\ new.row.sub = visit[b].row.sub /\ new.row.email = visit[b].row.email
     /\ \/ new.at \notin AccountsInserts
        \/ visit[b].at \in AccountsInserts /\ new.row = visit[b].row
        \/ /\ \A i \in 1 .. Len(users) : AccountsDiffer(new.row, users[i])
           /\ \A c \in Browser \ {b} : visit[c].at \in AccountsInserts => AccountsDiffer(new.row, visit[c].row)

LEMMA AccountsQuiet ==
  ASSUME AccountsInv, NEW b \in Browser, NEW new \in AccountsVisit, A!Goes(b, new), UNCHANGED users,
         AccountsGoesOn(b, new), blurred \subseteq blurred', blurred' \subseteq Sub, state' \subseteq Browser,
         entered' \subseteq Sub \X (1 .. Len(users)), AccountsEntered',
         AccountsKnows(new)'
  PROVE  AccountsInv'
<1>1. /\ visit' \in [Browser -> AccountsVisit] /\ visit'[b] = new
      /\ \A c \in Browser \ {b} : visit'[c] = visit[c]
  BY AccountsGoes DEF AccountsInv
<1>2. AccountsTypes'
  BY <1>1 DEF AccountsInv, AccountsTypes
<1>3. AccountsUnique'
  <2>1. CASE new.at \notin AccountsInserts
    BY <1>1, <2>1 DEF AccountsInv, AccountsUnique
  <2>2. CASE new.at \in AccountsInserts
    <3>1. new.at # "none"
      BY <2>2 DEF AccountsInserts
    <3>2. /\ \A i \in 1 .. Len(users) : AccountsDiffer(new.row, users[i])
          /\ \A c \in Browser \ {b} : visit[c].at \in AccountsInserts => AccountsDiffer(new.row, visit[c].row)
      BY <2>2, <3>1 DEF AccountsGoesOn, AccountsInv, AccountsUnique
    <3>3. \A c \in Browser \ {b} : visit[c].at \in AccountsInserts => AccountsDiffer(visit[c].row, new.row)
      BY <3>2 DEF AccountsDiffer
    <3>4. QED
      BY <1>1, <3>2, <3>3 DEF AccountsInv, AccountsUnique
  <2>3. QED
    BY <2>1, <2>2
<1>4. AccountsBlurred'
  <2>1. ASSUME NEW c \in Browser \ {b}
        PROVE  /\ AccountsOverlap(new, visit[c]) => new.row.sub \in blurred
               /\ AccountsOverlap(visit[c], new) => visit[c].row.sub \in blurred
    BY DEF AccountsGoesOn, AccountsOverlap, AccountsInv, AccountsBlurred
  <2>2. QED
    BY <1>1, <2>1 DEF AccountsInv, AccountsBlurred
<1>5. \A c \in Browser : AccountsKnows(visit[c])'
  <2>1. ASSUME NEW c \in Browser \ {b} PROVE AccountsKnows(visit[c])'
    <3>1. AccountsKnows(visit[c]) /\ visit'[c] = visit[c]
      BY <1>1 DEF AccountsInv
    <3>2. QED
      BY <3>1 DEF AccountsKnows
  <2>2. QED
    BY <1>1, <2>1
<1>6. QED
  BY <1>2, <1>3, <1>4, <1>5 DEF AccountsInv

LEMMA AccountsQuietly ==
  ASSUME AccountsInv, NEW b \in Browser, NEW new \in AccountsVisit, A!Step(b, new), AccountsGoesOn(b, new),
         AccountsKnows(new)
  PROVE  AccountsInv'
<1>1. /\ A!Goes(b, new) /\ users' = users /\ blurred' = blurred /\ state' = state /\ entered' = entered
  BY DEF A!Step
<1>2. AccountsEntered' /\ AccountsKnows(new)'
  BY <1>1 DEF AccountsInv, AccountsEntered, AccountsKnows
<1>3. QED
  BY <1>1, <1>2, AccountsQuiet DEF AccountsInv, AccountsTypes

LEMMA AccountsAnswers ==
  ASSUME AccountsInv, NEW b \in Browser, NEW a \in AccountsAnswer, A!Answer(b, a) PROVE AccountsInv'
<1> DEFINE new == [A!NoVisit EXCEPT !.op = visit[b].op, !.answer = a]
<1>1. visit[b].op \in {None, "login", "register", "google"} /\ Len(users) \in Nat
  BY AccountsIds DEF AccountsInv, AccountsTypes, AccountsVisit
<1>2. new \in AccountsVisit /\ new.at = "none" /\ new.found = 0 /\ A!Step(b, new)
  BY <1>1, AccountsNoVisit DEF A!Answer, AccountsVisit
<1> HIDE DEF new
<1>3. AccountsGoesOn(b, new) /\ AccountsKnows(new)
  BY <1>1, <1>2 DEF AccountsGoesOn, AccountsKnows, AccountsInserts
<1>4. QED
  BY <1>2, <1>3, AccountsQuietly

(* A request that stays with its account takes its next step. *)
LEMMA AccountsSteps ==
  ASSUME AccountsInv, NEW b \in Browser, NEW l \in AccountsStage \ {"none"}, visit[b].at # "none",
         A!Step(b, [visit[b] EXCEPT !.at = l]), AccountsKnows([visit[b] EXCEPT !.at = l]),
         l \in AccountsInserts => visit[b].at \in AccountsInserts
  PROVE  AccountsInv'
<1> DEFINE new == [visit[b] EXCEPT !.at = l]
<1>1. visit[b] \in AccountsVisit
  BY DEF AccountsInv, AccountsTypes
<1>2. new \in AccountsVisit /\ new.at = l /\ new.op = visit[b].op /\ new.row = visit[b].row
  BY <1>1 DEF AccountsVisit
<1>3. A!Step(b, new) /\ AccountsKnows(new)
  OBVIOUS
<1> HIDE DEF new
<1>4. AccountsGoesOn(b, new)
  BY <1>2 DEF AccountsGoesOn
<1>5. QED
  BY <1>2, <1>3, <1>4, AccountsQuietly

-----------------------------------------------------------------------------
(* A request begins. *)
LEMMA AccountsStart ==
  ASSUME AccountsInv, NEW b \in Browser, NEW op \in {"login", "register", "google"}, NEW account \in AccountsRow,
         NEW l \in {"issue", "insert", "identity"}, NEW found \in 0 .. Len(users), A!Start(b, op, account, l, found),
         state' \subseteq Browser,
         op = "google" => l = "identity" /\ account.sub \in Sub,
         op = "register" => l = "insert" /\ account.sub = None,
         op = "login" => l = "issue" /\ found # 0
  PROVE  AccountsInv'
<1> DEFINE new == [A!NoVisit EXCEPT !.at = l, !.op = op, !.row = account, !.found = found]
           met == {c \in Browser : /\ op = "google" /\ visit[c].at # "none" /\ visit[c].op = "google"
                                   /\ visit[c].row.sub = account.sub \/ visit[c].row.email = account.email}
<1>1. /\ visit[b].at = "none" /\ A!Goes(b, new) /\ users' = users /\ entered' = entered
      /\ blurred' = blurred \cup UNION {{account.sub, visit[c].row.sub} : c \in met}
  BY DEF A!Start
<1>2. l \in AccountsStage /\ found \in Nat /\ l # "none" /\ l \notin AccountsInserts
  BY AccountsIds DEF AccountsStage, AccountsInv, AccountsInserts
<1>3. new \in AccountsVisit /\ new.at = l /\ new.op = op /\ new.row = account /\ new.found = found
  BY <1>2, AccountsNoVisit DEF AccountsVisit
<1>4. \A c \in met : visit[c].row.sub \in Sub /\ account.sub \in Sub
  BY DEF AccountsInv, AccountsKnows
<1>5. \A c \in met : account.sub \in blurred' /\ visit[c].row.sub \in blurred'
  <2>1. ASSUME NEW c \in met PROVE {account.sub, visit[c].row.sub} \in {{account.sub, visit[d].row.sub} : d \in met}
    OBVIOUS
  <2>2. QED
    BY <1>1, <2>1
<1>6. blurred \subseteq blurred' /\ blurred' \subseteq Sub
  BY <1>1, <1>4 DEF AccountsInv, AccountsTypes
<1>7. \A c \in Browser : AccountsOverlap(new, visit[c]) \/ AccountsOverlap(visit[c], new) => c \in met
  BY <1>3 DEF AccountsOverlap
<1>8. /\ visit' \in [Browser -> AccountsVisit] /\ visit'[b] = new
      /\ \A c \in Browser \ {b} : visit'[c] = visit[c]
  BY <1>1, <1>3, AccountsGoes DEF AccountsInv
<1> HIDE DEF new, met
<1>9. AccountsTypes'
  BY <1>1, <1>6, <1>8 DEF AccountsInv, AccountsTypes
<1>10. AccountsUnique'
  <2>1. users' = users /\ new.at \notin AccountsInserts
    BY <1>1, <1>2, <1>3
  <2>2. QED
    BY <1>8, <2>1 DEF AccountsInv, AccountsUnique
<1>11. AccountsBlurred'
  <2>1. ASSUME NEW c \in Browser \ {b}
        PROVE  /\ AccountsOverlap(new, visit[c]) => new.row.sub \in blurred'
               /\ AccountsOverlap(visit[c], new) => visit[c].row.sub \in blurred'
    BY <1>3, <1>5, <1>7
  <2>2. QED
    BY <1>6, <1>8, <2>1 DEF AccountsInv, AccountsBlurred
<1>12. AccountsEntered'
  BY <1>1, <1>6 DEF AccountsInv, AccountsEntered
<1>13. \A c \in Browser : AccountsKnows(visit[c])'
  <2>1. AccountsKnows(visit[b])'
    BY <1>1, <1>2, <1>3, <1>8 DEF AccountsKnows, AccountsInserts
  <2>2. ASSUME NEW c \in Browser \ {b} PROVE AccountsKnows(visit[c])'
    <3>1. AccountsKnows(visit[c]) /\ visit'[c] = visit[c]
      BY <1>8 DEF AccountsInv
    <3>2. QED
      BY <1>1, <1>6, <3>1 DEF AccountsKnows
  <2>3. QED
    BY <1>8, <2>1, <2>2
<1>14. QED
  BY <1>9, <1>10, <1>11, <1>12, <1>13 DEF AccountsInv

LEMMA AccountsOpens ==
  ASSUME AccountsAssumptions, AccountsInv, NEW b \in Browser,
         A!Login(b) \/ A!Register(b) \/ A!GoogleAuth(b) \/ A!GoogleOAuthLogin(b) \/ A!GoogleOAuthCallback(b)
  PROVE  AccountsInv'
<1>1. A!Ids = 1 .. Len(users) /\ Len(users) \in Nat /\ \A i \in A!Ids : users[i] \in AccountsRow
  BY AccountsIds, LenProperties DEF AccountsInv, AccountsTypes
<1>2. CASE A!Login(b)
  <2>1. PICK i \in A!Ids : A!Start(b, "login", users[i], "issue", i)
    BY <1>2 DEF A!Login, A!ServeLogin, A!GetByEmail, A!GetByUsername, A!With
  <2>2. i \in 0 .. Len(users) /\ i # 0 /\ state' \subseteq Browser
    BY <1>1, <1>2 DEF A!Login, AccountsInv, AccountsTypes
  <2>3. QED
    BY <1>1, <2>1, <2>2, AccountsStart
<1>3. CASE A!Register(b)
  <2>1. PICK e \in Email, n \in Name : A!Start(b, "register", A!NewUser(e, n, None, TRUE), "insert", 0)
    BY <1>3 DEF A!Register, A!ServeRegister
  <2>2. A!NewUser(e, n, None, TRUE) \in AccountsRow /\ A!NewUser(e, n, None, TRUE).sub = None
    BY DEF A!NewUser, AccountsRow
  <2>3. 0 \in 0 .. Len(users) /\ state' \subseteq Browser
    BY <1>1, <1>3 DEF A!Register, AccountsInv, AccountsTypes
  <2>4. QED
    BY <2>1, <2>2, <2>3, AccountsStart
<1>4. ASSUME A!ServeGoogleAuth(b), state' \subseteq Browser PROVE AccountsInv'
  <2>1. PICK s \in Sub, e \in Email : A!Start(b, "google", A!NewUser(e, TrialsOf[e][1], s, FALSE), "identity", 0)
    BY <1>4 DEF A!ServeGoogleAuth
  <2>2. TrialsOf[e][1] \in Name
    BY LenProperties DEF AccountsAssumptions
  <2>3. A!NewUser(e, TrialsOf[e][1], s, FALSE) \in AccountsRow /\ A!NewUser(e, TrialsOf[e][1], s, FALSE).sub = s
    BY <2>2 DEF A!NewUser, AccountsRow
  <2>4. 0 \in 0 .. Len(users)
    BY <1>1
  <2>5. QED
    BY <1>4, <2>1, <2>3, <2>4, AccountsStart
<1>5. CASE A!GoogleAuth(b)
  BY <1>4, <1>5 DEF A!GoogleAuth, AccountsInv, AccountsTypes
<1>6. ASSUME state' \subseteq Browser, UNCHANGED <<users, visit, entered, blurred, visits>> PROVE AccountsInv'
  BY <1>6 DEF AccountsInv, AccountsTypes, AccountsUnique, AccountsBlurred, AccountsEntered, AccountsKnows
<1>7. CASE A!GoogleOAuthLogin(b)
  BY <1>6, <1>7 DEF A!GoogleOAuthLogin, AccountsInv, AccountsTypes
<1>8. CASE A!GoogleOAuthCallback(b)
  BY <1>4, <1>6, <1>8 DEF A!GoogleOAuthCallback, AccountsInv, AccountsTypes
<1>9. QED
  BY <1>2, <1>3, <1>5, <1>7, <1>8

-----------------------------------------------------------------------------
(* A look-up that finds an account *)
LEMMA AccountsHit ==
  ASSUME AccountsAssumptions, AccountsInv, NEW b \in Browser, NEW i \in 1 .. Len(users), NEW l \in {"issue", "link", "refuse"},
         A!Step(b, [visit[b] EXCEPT !.at = l, !.found = i]), visit[b].at \in {"identity", "email"},
         l = "issue" => users[i].sub = visit[b].row.sub,
         l = "link" => users[i].sub = None /\ users[i].email = visit[b].row.email /\ visit[b].at = "email"
  PROVE  AccountsInv'
<1> DEFINE new == [visit[b] EXCEPT !.at = l, !.found = i]
<1>1. visit[b] \in AccountsVisit /\ AccountsKnows(visit[b]) /\ Len(users) \in Nat
  BY AccountsIds DEF AccountsInv, AccountsTypes
<1>2. l \in AccountsStage /\ l \notin AccountsInserts /\ i \in Nat /\ i # 0 /\ i \in 0 .. Len(users)
  BY <1>1 DEF AccountsStage, AccountsInserts
<1>3. new \in AccountsVisit /\ new.at = l /\ new.op = visit[b].op /\ new.row = visit[b].row /\ new.found = i
  BY <1>1, <1>2 DEF AccountsVisit
<1>4. A!Step(b, new)
  OBVIOUS
<1> HIDE DEF new
<1>5. AccountsGoesOn(b, new)
  BY <1>2, <1>3 DEF AccountsGoesOn
<1>6. AccountsKnows(new)
  BY <1>1, <1>2, <1>3 DEF AccountsKnows, AccountsInserts
<1>7. QED
  BY <1>3, <1>4, <1>5, <1>6, AccountsQuietly

(* A look-up that fails, and is taken for one that finds nothing *)
LEMMA AccountsBlurs ==
  ASSUME AccountsInv, NEW b \in Browser, NEW l \in {"email", "insert"},
         visit[b].at \in {"identity", "email"},
         A!Goes(b, [visit[b] EXCEPT !.at = l]), blurred' = blurred \cup {visit[b].row.sub},
         UNCHANGED <<users, state, entered, visits>>
  PROVE  AccountsInv'
<1>1. visit[b] \in AccountsVisit /\ AccountsKnows(visit[b])
  BY DEF AccountsInv, AccountsTypes
<1>2. l \in AccountsStage /\ l \notin AccountsInserts
  BY DEF AccountsStage, AccountsInserts
<1>3. PICK new \in AccountsVisit :
        /\ A!Goes(b, new) /\ new.at = l /\ new.op = visit[b].op /\ new.row = visit[b].row
        /\ new.found = visit[b].found
  BY <1>1, <1>2 DEF AccountsVisit
<1>4. users' = users /\ entered' = entered /\ state' = state
  OBVIOUS
<1>5. AccountsGoesOn(b, new)
  BY <1>2, <1>3 DEF AccountsGoesOn
<1>6. visit[b].op = "google" /\ visit[b].row.sub \in Sub
  BY <1>1 DEF AccountsKnows
<1>7. blurred \subseteq blurred' /\ blurred' \subseteq Sub
  BY <1>6 DEF AccountsInv, AccountsTypes
<1>8. AccountsKnows(new)'
  BY <1>1, <1>3, <1>4 DEF AccountsKnows
<1>9. AccountsEntered'
  BY <1>4, <1>7 DEF AccountsInv, AccountsEntered
<1>10. QED
  BY <1>3, <1>4, <1>5, <1>7, <1>8, <1>9, AccountsQuiet DEF AccountsInv, AccountsTypes

LEMMA AccountsFinds ==
  ASSUME AccountsAssumptions, AccountsInv, NEW b \in Browser, A!FindIdentity(b) \/ A!FindEmail(b)
  PROVE  AccountsInv'
<1> DEFINE s == visit[b].row.sub
<1>1. visit[b] \in AccountsVisit /\ AccountsKnows(visit[b]) /\ A!Ids = 1 .. Len(users)
  BY AccountsIds DEF AccountsInv, AccountsTypes
<1>2. {"email", "insert"} \subseteq AccountsStage \ {"none"} /\ "email" \notin AccountsInserts /\ "insert" \notin AccountsInserts
  BY DEF AccountsStage, AccountsInserts
<1>3. CASE A!FindIdentity(b)
  <2>1. visit[b].at = "identity"
    BY <1>3 DEF A!FindIdentity, A!LookUp
  <2>2. CASE \E i \in A!GetByGoogleID(s) : A!Step(b, [visit[b] EXCEPT !.at = "issue", !.found = i])
    BY <1>1, <2>1, <2>2, AccountsHit, ZenonT(60) DEF A!GetByGoogleID, A!With
  <2>3. CASE A!GetByGoogleID(s) = {} /\ A!Step(b, [visit[b] EXCEPT !.at = "email"])
    <3>1. \A i \in 1 .. Len(users) : users[i].sub # s
      BY <1>1, <2>3 DEF A!GetByGoogleID, A!With
    <3>2. AccountsKnows([visit[b] EXCEPT !.at = "email"])
      BY <1>1, <2>1, <3>1 DEF AccountsKnows, AccountsVisit, AccountsInserts
    <3>3. QED
      BY <1>2, <2>1, <2>3, <3>2, AccountsSteps
  <2>4. CASE /\ A!Goes(b, [visit[b] EXCEPT !.at = "email"]) /\ blurred' = blurred \cup {s}
             /\ UNCHANGED <<users, state, entered, visits>>
    BY <2>1, <2>4, AccountsBlurs, ZenonT(60)
  <2>5. QED
    BY <1>3, <2>2, <2>3, <2>4, ZenonT(60) DEF A!FindIdentity, A!LookUp
<1>4. CASE A!FindEmail(b)
  <2>1. visit[b].at = "email"
    BY <1>4 DEF A!FindEmail, A!LookUp
  <2>2. ASSUME NEW i \in A!GetByEmail(visit[b].row.email),
               A!Step(b, [visit[b] EXCEPT !.at = IF users[i].sub = None THEN "link"
                                               ELSE IF users[i].sub = s THEN "issue" ELSE "refuse", !.found = i])
        PROVE  AccountsInv'
    <3>1. i \in 1 .. Len(users) /\ users[i].email = visit[b].row.email
      BY <1>1 DEF A!GetByEmail, A!With
    <3>2. CASE users[i].sub = None
      <4>1. A!Step(b, [visit[b] EXCEPT !.at = "link", !.found = i])
        BY <2>2, <3>2
      <4>2. QED
        BY <2>1, <3>1, <3>2, <4>1, AccountsHit, ZenonT(60)
    <3>3. CASE users[i].sub # None /\ users[i].sub = s
      <4>1. A!Step(b, [visit[b] EXCEPT !.at = "issue", !.found = i])
        BY <2>2, <3>3
      <4>2. QED
        BY <2>1, <3>1, <3>3, <4>1, AccountsHit, ZenonT(60)
    <3>4. CASE users[i].sub # None /\ users[i].sub # s
      <4>1. A!Step(b, [visit[b] EXCEPT !.at = "refuse", !.found = i])
        BY <2>2, <3>4
      <4>2. QED
        BY <2>1, <3>1, <4>1, AccountsHit, ZenonT(60)
    <3>5. QED
      BY <3>2, <3>3, <3>4
  <2>3. CASE A!Step(b, [visit[b] EXCEPT !.at = "insert"])
    <3>1. AccountsKnows([visit[b] EXCEPT !.at = "insert"])
      BY <1>1, <2>1 DEF AccountsKnows, AccountsVisit, AccountsInserts
    <3>2. QED
      BY <1>2, <2>1, <2>3, <3>1, AccountsSteps
  <2>4. CASE /\ A!Goes(b, [visit[b] EXCEPT !.at = "insert"]) /\ blurred' = blurred \cup {s}
             /\ UNCHANGED <<users, state, entered, visits>>
    BY <2>1, <2>4, AccountsBlurs, ZenonT(60)
  <2>5. QED
    BY <1>4, <2>2, <2>3, <2>4, ZenonT(60) DEF A!FindEmail, A!LookUp
<1>5. QED
  BY <1>3, <1>4

-----------------------------------------------------------------------------
(* A write: a row gets the identity of the request, or is new and the request's own; the
   request is let into it. *)
LEMMA AccountsWrite ==
  ASSUME AccountsAssumptions, AccountsInv, NEW b \in Browser, NEW new \in AccountsVisit, A!Goes(b, new),
         new.at = "issue", new.op = visit[b].op, new.row = visit[b].row, visit[b].at \in {"link", "commit"},
         UNCHANGED <<state, entered, blurred>>,
         users' \in Seq(AccountsRow), Len(users) <= Len(users'),
         \A i \in 1 .. Len(users) :
           /\ users'[i].email = users[i].email
           /\ users'[i].sub = users[i].sub
              \/ (users[i].sub = None /\ users'[i].sub = new.row.sub /\ users[i].email = new.row.email
                  /\ visit[b].op = "google"),
         \A i \in 1 .. Len(users') : i \in 1 .. Len(users) \/ users'[i].sub = new.row.sub,
         AccountsUnique', AccountsKnows(new)'
  PROVE  AccountsInv'
<1>1. /\ visit' \in [Browser -> AccountsVisit] /\ visit'[b] = new
      /\ \A c \in Browser \ {b} : visit'[c] = visit[c]
  BY AccountsGoes DEF AccountsInv
<1>2. state' = state /\ entered' = entered /\ blurred' = blurred
  OBVIOUS
<1>3. Len(users) \in Nat /\ Len(users') \in Nat
  BY LenProperties DEF AccountsInv, AccountsTypes
<1>4. 1 .. Len(users) \subseteq 1 .. Len(users')
  BY <1>3
<1>5. AccountsTypes'
  BY <1>1, <1>2, <1>4 DEF AccountsInv, AccountsTypes
<1>6. AccountsBlurred'
  <2>1. ASSUME NEW c \in Browser \ {b}
        PROVE  /\ AccountsOverlap(new, visit[c]) => new.row.sub \in blurred
               /\ AccountsOverlap(visit[c], new) => visit[c].row.sub \in blurred
    BY DEF AccountsOverlap, AccountsInv, AccountsBlurred
  <2>2. QED
    BY <1>1, <1>2, <2>1 DEF AccountsInv, AccountsBlurred
<1>7. AccountsEntered'
  <2>1. ASSUME NEW x \in entered PROVE x[1] \in blurred \/ users'[x[2]].sub = x[1]
    <3>1. x[1] \in Sub /\ x[2] \in 1 .. Len(users) /\ (x[1] \in blurred \/ users[x[2]].sub = x[1])
      BY DEF AccountsInv, AccountsTypes, AccountsEntered
    <3>2. QED
      BY <3>1 DEF AccountsAssumptions
  <2>2. QED
    BY <1>2, <2>1 DEF AccountsEntered
<1>8. ASSUME NEW c \in Browser \ {b} PROVE AccountsKnows(visit[c])'
  <2> DEFINE s == visit[c].row.sub
  <2>1. AccountsKnows(visit[c]) /\ visit'[c] = visit[c] /\ visit[c] \in AccountsVisit /\ AccountsKnows(visit[b])
    BY <1>1 DEF AccountsInv, AccountsTypes
  <2>2. visit[c].found \in 0 .. Len(users')
    BY <1>3, <2>1 DEF AccountsKnows
  <2>3. visit[c].at = "link" => visit[c].found \in 1 .. Len(users) /\ users'[visit[c].found].email = visit[c].row.email
    BY <1>3, <2>1 DEF AccountsKnows
  <2>4. ASSUME visit[c].op = "google", visit[c].at # "none", s \notin blurred
        PROVE  /\ visit[c].at \in {"email", "link", "insert"} \cup AccountsInserts =>
                    \A i \in 1 .. Len(users') : users'[i].sub # s
               /\ visit[c].at = "link" => users'[visit[c].found].sub = None
               /\ visit[c].at = "issue" => users'[visit[c].found].sub = s
    <3>1. ~AccountsOverlap(visit[c], visit[b])
      BY <2>4 DEF AccountsInv, AccountsBlurred
    <3>2. visit[b].op = "google" => new.row.sub # s /\ new.row.email # visit[c].row.email
      BY <2>4, <3>1 DEF AccountsOverlap
    <3>3. s \in Sub /\ s # None /\ new.row.sub # s
      BY <2>1, <2>4, <3>2 DEF AccountsKnows, AccountsAssumptions
    <3>4. /\ visit[c].at \in {"email", "link", "insert"} \cup AccountsInserts =>
               \A i \in 1 .. Len(users) : users[i].sub # s
          /\ visit[c].at = "link" => users[visit[c].found].sub = None
          /\ visit[c].at = "issue" => users[visit[c].found].sub = s
          /\ visit[c].at = "issue" => visit[c].found \in 1 .. Len(users)
      BY <1>3, <2>1, <2>4 DEF AccountsKnows
    <3>5. visit[c].at = "link" => users'[visit[c].found].sub = None
      <4>1. SUFFICES ASSUME visit[c].at = "link" PROVE users'[visit[c].found].sub = None
        OBVIOUS
      <4>2. visit[c].found \in 1 .. Len(users) /\ users[visit[c].found].email = visit[c].row.email
        BY <2>1, <2>3, <4>1 DEF AccountsKnows
      <4>3. QED
        BY <3>2, <3>4, <4>1, <4>2
    <3>6. visit[c].at = "issue" => users'[visit[c].found].sub = s
      BY <3>3, <3>4
    <3>7. (visit[c].at \in {"email", "link", "insert"} \cup AccountsInserts) =>
             \A i \in 1 .. Len(users') : users'[i].sub # s
      BY <3>3, <3>4
    <3>8. QED
      BY <3>5, <3>6, <3>7
  <2>5. QED
    BY <1>2, <2>1, <2>2, <2>3, <2>4 DEF AccountsKnows
<1>9. QED
  BY <1>1, <1>5, <1>6, <1>7, <1>8 DEF AccountsInv

LEMMA AccountsLinks ==
  ASSUME AccountsAssumptions, AccountsInv, NEW b \in Browser, A!LinkGoogleID(b) PROVE AccountsInv'
<1>1. /\ visit[b] \in AccountsVisit /\ AccountsKnows(visit[b]) /\ Len(users) \in Nat /\ A!Ids = 1 .. Len(users)
      /\ users \in Seq(AccountsRow) /\ \A k \in 1 .. Len(users) : users[k] \in AccountsRow
  BY AccountsIds, LenProperties DEF AccountsInv, AccountsTypes
<1>2. PICK i \in 1 .. Len(users), s \in Sub :
        /\ visit[b].at = "link" /\ visit[b].op = "google" /\ i = visit[b].found /\ s = visit[b].row.sub
        /\ users[i].email = visit[b].row.email
  BY <1>1 DEF A!LinkGoogleID, AccountsKnows
<1>3. PICK new \in AccountsVisit :
        /\ A!Goes(b, new) /\ new.at = "issue" /\ new.op = visit[b].op /\ new.row = visit[b].row /\ new.found = i
  <2>1. "issue" \in AccountsStage
    BY DEF AccountsStage
  <2>2. QED
    BY <1>1, <1>2, <2>1 DEF A!LinkGoogleID, AccountsVisit
<1>4. UNCHANGED <<state, entered, blurred>>
  BY DEF A!LinkGoogleID
<1>5. visit[b].row \in AccountsRow /\ visit[b].row.sub \in Sub
  BY <1>1, <1>2 DEF AccountsKnows
<1>6. /\ visit' \in [Browser -> AccountsVisit] /\ visit'[b] = new
      /\ \A c \in Browser \ {b} : visit'[c] = visit[c]
  BY <1>3, AccountsGoes DEF AccountsInv
<1>7. new.at \notin AccountsInserts
  BY <1>3 DEF AccountsInserts
<1>8. CASE users[i].sub = None /\ A!GetByGoogleID(s) = {}
  <2>1. \A k \in 1 .. Len(users) : users[k].sub # s
    BY <1>1, <1>8 DEF A!GetByGoogleID, A!With
  <2>2. \A c \in Browser \ {b} : visit[c].at \in AccountsInserts => visit[c].row.sub # s
    BY <1>2 DEF A!LinkGoogleID, A!Inserting, AccountsInserts
  <2> DEFINE linked == [users[i] EXCEPT !.sub = s]
  <2>3. /\ linked \in AccountsRow /\ linked.sub = s
        /\ linked.email = users[i].email /\ linked.name = users[i].name
    BY <1>1 DEF AccountsRow
  <2>4. users' = [users EXCEPT ![i] = linked]
    BY <1>2, <1>8 DEF A!LinkGoogleID
  <2> HIDE DEF linked
  <2>5. /\ users' \in Seq(AccountsRow) /\ Len(users') = Len(users) /\ users'[i] = linked
        /\ \A k \in 1 .. Len(users) : k # i => users'[k] = users[k]
    BY <1>1, <2>3, <2>4, ExceptSeq
  <2>6. \A k \in 1 .. Len(users) : /\ users'[k].email = users[k].email /\ users'[k].name = users[k].name
                                   /\ (users'[k].sub = users[k].sub \/ (k = i /\ users'[k].sub = s))
    BY <2>3, <2>5
  <2>7. AccountsUnique'
    <3>1. \A k, j \in 1 .. Len(users) : k # j => AccountsDiffer(users'[k], users'[j])
      BY <2>1, <2>6 DEF AccountsDiffer, AccountsInv, AccountsUnique
    <3>2. ASSUME NEW c \in Browser \ {b}, visit[c].at \in AccountsInserts, NEW k \in 1 .. Len(users)
          PROVE  AccountsDiffer(visit[c].row, users'[k])
      <4>1. AccountsDiffer(visit[c].row, users[k]) /\ visit[c].row.sub # s
        BY <2>2, <3>2 DEF AccountsInv, AccountsUnique
      <4>2. QED
        BY <2>6, <4>1 DEF AccountsDiffer
    <3>3. QED
      BY <1>6, <1>7, <2>5, <3>1, <3>2 DEF AccountsInv, AccountsUnique
  <2>8. AccountsKnows(new)'
    <3>1. new.found \in 0 .. Len(users') /\ new.found # 0 /\ users'[new.found].sub = new.row.sub
      BY <1>1, <1>2, <1>3, <2>3, <2>5
    <3>2. QED
      BY <1>2, <1>3, <1>5, <3>1 DEF AccountsKnows, AccountsInserts
  <2>9. QED
    BY <1>1, <1>2, <1>3, <1>4, <1>8, <2>3, <2>5, <2>7, <2>8, AccountsWrite
<1>9. CASE ~(users[i].sub = None /\ A!GetByGoogleID(s) = {})
  <2>1. users' = users
    BY <1>2, <1>9 DEF A!LinkGoogleID
  <2>2. s \in blurred
    BY <1>1, <1>2, <1>9 DEF AccountsKnows, A!GetByGoogleID, A!With
  <2>3. AccountsKnows(new)'
    BY <1>1, <1>2, <1>3, <1>4, <1>5, <2>1, <2>2 DEF AccountsKnows
  <2>4. AccountsUnique'
    BY <1>6, <1>7, <2>1 DEF AccountsInv, AccountsUnique
  <2>5. QED
    BY <1>1, <1>2, <1>3, <1>4, <2>1, <2>3, <2>4, AccountsWrite
<1>10. QED
  BY <1>8, <1>9

LEMMA AccountsCommits ==
  ASSUME AccountsAssumptions, AccountsInv, NEW b \in Browser, A!Commit(b) PROVE AccountsInv'
<1>1. /\ visit[b] \in AccountsVisit /\ AccountsKnows(visit[b]) /\ Len(users) \in Nat
      /\ users \in Seq(AccountsRow) /\ visit[b].at = "commit" /\ visit[b].at \in AccountsInserts
  BY AccountsIds DEF AccountsInv, AccountsTypes, A!Commit, AccountsInserts
<1>2. visit[b].row \in AccountsRow /\ users' = Append(users, visit[b].row)
  BY <1>1 DEF AccountsKnows, A!Commit
<1>3. /\ users' \in Seq(AccountsRow) /\ Len(users') = Len(users) + 1
      /\ \A i \in 1 .. Len(users) : users'[i] = users[i]
      /\ users'[Len(users) + 1] = visit[b].row
  BY <1>1, <1>2, AppendProperties
<1>4. PICK new \in AccountsVisit :
        /\ A!Goes(b, new) /\ new.at = "issue" /\ new.op = visit[b].op /\ new.row = visit[b].row
        /\ new.found = Len(users) + 1
  <2>1. "issue" \in AccountsStage /\ Len(users) + 1 \in Nat
    BY <1>1 DEF AccountsStage
  <2> DEFINE new == [visit[b] EXCEPT !.at = "issue", !.found = Len(users) + 1]
  <2>2. /\ new \in AccountsVisit /\ new.at = "issue" /\ new.op = visit[b].op /\ new.row = visit[b].row
        /\ new.found = Len(users) + 1
    BY <1>1, <2>1 DEF AccountsVisit
  <2>3. A!Goes(b, new)
    BY DEF A!Commit
  <2> HIDE DEF new
  <2>4. QED
    BY <2>2, <2>3
<1>5. UNCHANGED <<state, entered, blurred>>
  BY DEF A!Commit
<1>6. /\ visit' \in [Browser -> AccountsVisit] /\ visit'[b] = new
      /\ \A c \in Browser \ {b} : visit'[c] = visit[c]
  BY <1>4, AccountsGoes DEF AccountsInv
<1>7. new.at \notin AccountsInserts
  BY <1>4 DEF AccountsInserts
<1>8. AccountsKnows(new)'
  <2>1. new.found \in 0 .. Len(users') /\ new.found # 0 /\ users'[new.found].sub = new.row.sub
    BY <1>1, <1>3, <1>4
  <2>2. QED
    BY <1>1, <1>2, <1>4, <2>1 DEF AccountsKnows, AccountsInserts
<1>9. \A i \in 1 .. Len(users') : i \in 1 .. Len(users) \/ i = Len(users) + 1
  BY <1>1, <1>3
<1>10. AccountsUnique'
  <2>1. /\ \A i \in 1 .. Len(users) : AccountsDiffer(visit[b].row, users[i]) /\ AccountsDiffer(users[i], visit[b].row)
        /\ \A c \in Browser \ {b} : visit[c].at \in AccountsInserts => AccountsDiffer(visit[c].row, visit[b].row)
    BY <1>1 DEF AccountsInv, AccountsUnique, AccountsDiffer
  <2>2. \A i, j \in 1 .. Len(users') : i # j => AccountsDiffer(users'[i], users'[j])
    BY <1>3, <1>9, <2>1 DEF AccountsInv, AccountsUnique
  <2>3. \A c \in Browser \ {b} : visit[c].at \in AccountsInserts =>
          \A i \in 1 .. Len(users') : AccountsDiffer(visit[c].row, users'[i])
    BY <1>3, <1>9, <2>1 DEF AccountsInv, AccountsUnique
  <2>4. QED
    BY <1>6, <1>7, <2>2, <2>3 DEF AccountsInv, AccountsUnique
<1>11. \A i \in 1 .. Len(users') : i \in 1 .. Len(users) \/ users'[i].sub = new.row.sub
  BY <1>3, <1>4, <1>9
<1>12. Len(users) <= Len(users')
  BY <1>1, <1>3
<1>13. QED
  BY <1>1, <1>3, <1>4, <1>5, <1>8, <1>10, <1>11, <1>12, AccountsWrite

-----------------------------------------------------------------------------
(* The INSERT meets no index: no row, committed or not, has what it has. *)
LEMMA AccountsMeets ==
  ASSUME AccountsAssumptions, AccountsInv, NEW b \in Browser, visit[b].at = "insert", A!Met(b) = {}
  PROVE  /\ \A i \in 1 .. Len(users) : AccountsDiffer(visit[b].row, users[i])
         /\ \A c \in Browser \ {b} : visit[c].at \in AccountsInserts => AccountsDiffer(visit[b].row, visit[c].row)
<1>1. visit[b].row \in AccountsRow /\ A!Ids = 1 .. Len(users)
  BY AccountsIds DEF AccountsInv, AccountsKnows
<1>2. A!Key[1] = "email" /\ A!Key[2] = "name" /\ A!Key[3] = "sub" /\ 1 \in 1 .. 3 /\ 2 \in 1 .. 3 /\ 3 \in 1 .. 3
  BY DEF A!Key
<1>3. \A k \in {"email", "name", "sub"} : ~A!Taken(b, k) /\ ~A!Awaited(b, k)
  BY <1>2 DEF A!Met
<1>4. visit[b].row["email"] # None /\ visit[b].row["name"] # None
  BY <1>1 DEF AccountsRow, AccountsAssumptions
<1>5. ASSUME NEW i \in 1 .. Len(users) PROVE AccountsDiffer(visit[b].row, users[i])
  BY <1>1, <1>3, <1>4 DEF A!Taken, A!With, AccountsDiffer
<1>6. ASSUME NEW c \in Browser \ {b}, visit[c].at \in AccountsInserts
      PROVE  AccountsDiffer(visit[b].row, visit[c].row)
  BY <1>3, <1>4, <1>6 DEF A!Awaited, A!Inserting, AccountsInserts, AccountsDiffer
<1>7. QED
  BY <1>5, <1>6

LEMMA AccountsCreates ==
  ASSUME AccountsAssumptions, AccountsInv, NEW b \in Browser, A!Create(b) PROVE AccountsInv'
<1>1. visit[b] \in AccountsVisit /\ AccountsKnows(visit[b]) /\ visit[b].at = "insert"
  BY DEF AccountsInv, AccountsTypes, A!Create
<1>2. CASE A!Met(b) = {}
  <2>1. PICK new \in AccountsVisit :
          /\ A!Step(b, new) /\ new.at = "settings" /\ new.op = visit[b].op /\ new.row = visit[b].row
          /\ new.found = visit[b].found
    <3>1. "settings" \in AccountsStage
      BY DEF AccountsStage
    <3>2. QED
      BY <1>1, <1>2, <3>1 DEF A!Create, AccountsVisit
  <2>2. AccountsGoesOn(b, new)
    BY <1>1, <1>2, <2>1, AccountsMeets DEF AccountsGoesOn
  <2>3. AccountsKnows(new)
    BY <1>1, <2>1 DEF AccountsKnows, AccountsInserts
  <2>4. QED
    BY <2>1, <2>2, <2>3, AccountsQuietly
<1>3. ASSUME A!NextTrial(b), visit[b].op = "google" PROVE AccountsInv'
  <2> DEFINE n == visit[b].attempt + 1
             trials == TrialsOf[visit[b].row.email]
  <2>1. visit[b].row \in AccountsRow /\ n \in Nat \ {0}
    BY <1>1 DEF AccountsKnows, AccountsVisit
  <2>2. trials \in Seq(Name) /\ Len(trials) \in Nat
    BY <2>1, LenProperties DEF AccountsRow, AccountsAssumptions
  <2>3. CASE n > Len(trials)
    BY <1>3, <2>3, AccountsAnswers DEF A!NextTrial, AccountsAnswer
  <2>4. CASE ~(n > Len(trials))
    <3>1. trials[n] \in Name
      BY <2>1, <2>2, <2>4, LenProperties
    <3>2. A!Step(b, [visit[b] EXCEPT !.attempt = n, !.row.name = trials[n]])
      BY <1>3, <2>4 DEF A!NextTrial
    <3> HIDE DEF n, trials
    <3>3. PICK account \in AccountsRow : account = [visit[b].row EXCEPT !.name = trials[n]]
                                     /\ account.email = visit[b].row.email /\ account.sub = visit[b].row.sub
      <4>1. [visit[b].row EXCEPT !.name = trials[n]] \in AccountsRow
        BY <2>1, <3>1 DEF AccountsRow
      <4>2. /\ [visit[b].row EXCEPT !.name = trials[n]].email = visit[b].row.email
            /\ [visit[b].row EXCEPT !.name = trials[n]].sub = visit[b].row.sub
        BY <2>1 DEF AccountsRow
      <4>3. QED
        BY <4>1, <4>2
    <3>4. [visit[b] EXCEPT !.attempt = n, !.row.name = trials[n]] = [visit[b] EXCEPT !.attempt = n, !.row = account]
      BY <1>1, <3>3 DEF AccountsVisit
    <3>5. PICK new \in AccountsVisit :
            /\ A!Step(b, new) /\ new.at = "insert" /\ new.op = visit[b].op /\ new.row = account
            /\ new.found = visit[b].found
      BY <1>1, <2>1, <3>2, <3>4 DEF AccountsVisit
    <3>6. AccountsGoesOn(b, new)
      BY <1>1, <3>3, <3>5 DEF AccountsGoesOn, AccountsInserts
    <3>7. AccountsKnows(new)
      BY <1>1, <3>3, <3>5 DEF AccountsKnows, AccountsInserts
    <3>8. QED
      BY <3>5, <3>6, <3>7, AccountsQuietly
  <2>5. QED
    BY <2>3, <2>4
<1>4. A!Exists(A!Key[A!First(b)]) \in AccountsAnswer
  BY DEF A!Exists, AccountsAnswer
<1>5. QED
  BY <1>2, <1>3, <1>4, AccountsAnswers DEF A!Create

LEMMA AccountsGoOn ==
  ASSUME AccountsAssumptions, AccountsInv, NEW b \in Browser,
         A!CreateSettings(b) \/ A!SetDisplayName(b) \/ A!Fail(b) \/ A!Refuse(b)
  PROVE  AccountsInv'
<1>1. visit[b] \in AccountsVisit /\ AccountsKnows(visit[b])
  BY DEF AccountsInv, AccountsTypes
<1>2. "INTERNAL" \in AccountsAnswer /\ "UNAUTHORIZED" \in AccountsAnswer
  BY DEF AccountsAnswer
<1>3. ASSUME NEW l \in {"display", "commit"}, A!Step(b, [visit[b] EXCEPT !.at = l]), visit[b].at \in {"settings", "display"}
      PROVE  AccountsInv'
  <2>1. l \in AccountsStage \ {"none"} /\ visit[b].at # "none" /\ visit[b].at \in AccountsInserts
    BY <1>3 DEF AccountsStage, AccountsInserts
  <2>2. AccountsKnows([visit[b] EXCEPT !.at = l])
    BY <1>1, <1>3 DEF AccountsKnows, AccountsVisit, AccountsInserts
  <2>3. QED
    BY <1>3, <2>1, <2>2, AccountsSteps
<1>4. CASE A!CreateSettings(b)
  BY <1>3, <1>4 DEF A!CreateSettings
<1>5. CASE A!SetDisplayName(b)
  BY <1>2, <1>3, <1>5, AccountsAnswers DEF A!SetDisplayName
<1>6. CASE A!Fail(b) \/ A!Refuse(b)
  BY <1>2, <1>6, AccountsAnswers DEF A!Fail, A!Refuse
<1>7. QED
  BY <1>4, <1>5, <1>6

LEMMA AccountsIssues ==
  ASSUME AccountsInv, NEW b \in Browser, A!IssueTokensForUser(b) PROVE AccountsInv'
<1>1. visit[b] \in AccountsVisit /\ AccountsKnows(visit[b]) /\ visit[b].at = "issue" /\ Len(users) \in Nat
  BY AccountsIds DEF AccountsInv, AccountsTypes, A!IssueTokensForUser
<1>2. PICK new \in AccountsVisit : A!Goes(b, new) /\ new.at = "none" /\ new.found = 0
  <2>1. "OK" \in AccountsAnswer
    BY DEF AccountsAnswer
  <2>2. [A!NoVisit EXCEPT !.op = visit[b].op, !.answer = "OK"] \in AccountsVisit
    BY <1>1, <2>1, AccountsNoVisit DEF AccountsVisit
  <2>3. QED
    BY <2>2, AccountsNoVisit DEF A!IssueTokensForUser, AccountsVisit
<1>3. users' = users /\ state' = state /\ blurred' = blurred
  BY DEF A!IssueTokensForUser
<1>4. entered' = entered \/ (visit[b].op = "google" /\ entered' = entered \cup {<<visit[b].row.sub, visit[b].found>>})
  BY DEF A!IssueTokensForUser
<1>5. visit[b].op = "google" =>
        /\ visit[b].row.sub \in Sub /\ visit[b].found \in 1 .. Len(users)
        /\ visit[b].row.sub \in blurred \/ users[visit[b].found].sub = visit[b].row.sub
  BY <1>1 DEF AccountsKnows
<1>6. entered' \subseteq Sub \X (1 .. Len(users)) /\ AccountsEntered'
  BY <1>3, <1>4, <1>5 DEF AccountsInv, AccountsTypes, AccountsEntered
<1>7. AccountsGoesOn(b, new) /\ AccountsKnows(new)'
  BY <1>1, <1>2, <1>3 DEF AccountsGoesOn, AccountsKnows, AccountsInserts
<1>8. QED
  BY <1>2, <1>3, <1>6, <1>7, AccountsQuiet DEF AccountsInv, AccountsTypes

LEMMA AccountsStep == ASSUME AccountsAssumptions, AccountsInv, [A!Next]_(A!vars) PROVE AccountsInv'
<1>1. CASE UNCHANGED A!vars
  BY <1>1 DEF A!vars, AccountsInv, AccountsTypes, AccountsUnique, AccountsBlurred, AccountsEntered, AccountsKnows
<1>2. QED
  BY <1>1, AccountsOpens, AccountsFinds, AccountsLinks, AccountsCreates, AccountsCommits, AccountsGoOn,
     AccountsIssues DEF A!Next

(* Rows of users keep their keys, and what a sign-in has read of them still holds. *)
THEOREM AccountsInvariance == ASSUME AccountsAssumptions PROVE A!Spec => []AccountsInv
<1>1. AccountsInv /\ [A!Next]_(A!vars) => AccountsInv'
  BY AccountsStep
<1>2. QED
  BY <1>1, AccountsInit, PTL DEF A!Spec

LEMMA AccountsTyped == ASSUME AccountsInv PROVE A!AccountsTypeOK
<1>1. \A b \in Browser : visit[b] \in AccountsVisit /\ visit[b].found \in 0 .. Len(users)
  BY DEF AccountsInv, AccountsTypes, AccountsKnows
<1>2. \A i \in A!Ids : users[i] \in AccountsRow
  BY AccountsIds, LenProperties DEF AccountsInv, AccountsTypes
<1>3. entered \subseteq Sub \X A!Ids
  BY AccountsIds DEF AccountsInv, AccountsTypes
<1>4. QED
  BY <1>1, <1>2, <1>3 DEF AccountsInv, AccountsTypes, A!AccountsTypeOK, AccountsRow, AccountsVisit, AccountsStage

LEMMA AccountsOne == ASSUME AccountsAssumptions, AccountsInv PROVE A!OneAccountEach
<1>1. A!Ids = 1 .. Len(users)
  BY AccountsIds DEF AccountsInv
<1>2. ASSUME NEW k \in {"email", "name", "sub"}, NEW i \in A!Ids, NEW j \in A!Ids, i # j, users[i][k] = users[j][k]
      PROVE  k = "sub" /\ users[i].sub = None
  <2>1. AccountsDiffer(users[i], users[j])
    BY <1>1, <1>2 DEF AccountsInv, AccountsUnique
  <2>2. QED
    BY <1>2, <2>1 DEF AccountsDiffer
<1>3. ASSUME NEW x \in entered, NEW y \in entered, x # y, x[1] = y[1] \/ x[2] = y[2],
             x[1] \notin blurred, y[1] \notin blurred
      PROVE  FALSE
  <2>1. /\ x = <<x[1], x[2]>> /\ y = <<y[1], y[2]>> /\ x[1] \in Sub
        /\ x[2] \in 1 .. Len(users) /\ y[2] \in 1 .. Len(users)
    BY DEF AccountsInv, AccountsTypes
  <2>2. users[x[2]].sub = x[1] /\ users[y[2]].sub = y[1]
    BY <1>3 DEF AccountsInv, AccountsEntered
  <2>3. x[2] # y[2]
    BY <1>3, <2>1, <2>2
  <2>4. AccountsDiffer(users[x[2]], users[y[2]])
    BY <2>1, <2>3 DEF AccountsInv, AccountsUnique
  <2>5. QED
    BY <1>3, <2>1, <2>2, <2>3, <2>4 DEF AccountsDiffer, AccountsAssumptions
<1>4. QED
  BY <1>2, <1>3 DEF A!OneAccountEach

-----------------------------------------------------------------------------
(* The inbox. The ghost held is what has stood against a request since it began; the
   checks take out of it what they have seen to be away, so that what is left when the
   row is written can only be one row of a pair of which the other was read. *)


LEMMA InboxSize == ASSUME NEW X PROVE I!Cardinality(X) = Cardinality(X)
BY DEF I!Cardinality, Cardinality

InboxMarks == I!Rel \cup {<<u, u, "mentions">> : u \in User}
InboxNote == [to : User, from : User, type : {"like", "mention"}, read : BOOLEAN,
              against : SUBSET InboxMarks, mixed : BOOLEAN]
InboxMessage == [to : User, from : User, read : BOOLEAN, against : SUBSET InboxMarks, mixed : BOOLEAN]
InboxChecks == {"relationship", "muted", "settings", "notify"}
InboxSends == {"theirs", "ours", "conversation", "message", "touch"}
InboxStage == {"none", "read", "count", "answer"} \cup InboxChecks \cup InboxSends
InboxTask == [at : InboxStage, kind : I!Kind \cup {None}, type : {None, "like", "mention", "one", "all", "dm"},
              from : User \cup {None}, to : User \cup {None}, rest : Seq(User), todo : Seq(User),
              held : SUBSET InboxMarks, mixed : BOOLEAN]

(* Nobody is no user. *)
InboxAssumptions == None \notin User /\ RelAtStart \subseteq SUBSET I!Rel

InboxTypes ==
  /\ rel \subseteq I!Rel /\ mentionsOff \subseteq User
  /\ notifications \in Seq(InboxNote) /\ messages \in Seq(InboxMessage)
  /\ \A c \in conversations : \E a, b \in User : a # b /\ c = {a, b}
  /\ task \in [Task -> InboxTask]

InboxClient ==
  /\ badge \in [User -> [I!Kind -> Nat]]
  /\ fetch \in [User -> [I!Kind -> Nat \cup {I!Idle, I!Asked}]]
  /\ stream \in [User -> {"up", "greeting", "down"}]
  /\ resync \subseteq User /\ astray \subseteq User \X I!Kind

(* What is done in a request has to do with two users, or with one who reads. *)
InboxTells(t) == t.kind = "notes" /\ t.type \in {"like", "mention"}
                 /\ (t.type = "like" => t.rest = <<>>) /\ \A i \in 1 .. Len(t.rest) : t.rest[i] # t.from
InboxBetween(t) ==
  /\ t.at \in InboxChecks => InboxTells(t)
  /\ t.at \in InboxSends => t.kind = "dms" /\ t.type = "dm"
  /\ t.at \in InboxChecks \cup InboxSends => t.from \in User /\ t.to \in User /\ t.from # t.to
  /\ t.at \in {"read", "count", "answer"} => t.kind \in I!Kind /\ t.to \in User
  /\ t.at = "read" => t.type \in {"one", "all"}
  /\ t.at \in {"read", "touch", "count"} => t.todo # <<>>
  /\ t.at = "count" => \/ t.type \in {"one", "all"}
                       \/ t.type = "dm" /\ t.from \in User
                       \/ InboxTells(t) /\ t.from \in User
  /\ t.at = "answer" => t.type \in {"one", "all"} \/ (t.type = "dm" /\ t.from \in User)
  /\ t.at = "message" => {t.from, t.to} \in conversations

(* What has stood against it still stands, and the ghost knows of a mute beside a block. *)
InboxStands(t) ==
  t.at \in InboxChecks \cup InboxSends =>
    /\ t.held \subseteq I!Against(rel, mentionsOff, t.type, t.from, t.to)
    /\ I!Mixed(rel, t.from, t.to) => t.mixed

(* What a request has asked about does not stand against it; of a pair of rows, one. *)
InboxAsked(t) ==
  /\ t.at \in {"muted", "settings", "notify", "ours", "conversation", "message"} =>
       (<<t.to, t.from, "block">> \in t.held => t.mixed)
  /\ t.at \in {"conversation", "message"} => (<<t.from, t.to, "block">> \in t.held => t.mixed)
  /\ t.at \in {"settings", "notify"} => <<t.to, t.from, "mute">> \notin t.held
  /\ t.at = "notify" /\ t.type = "mention" => <<t.to, t.to, "mentions">> \notin t.held

InboxKnows(t) == InboxBetween(t) /\ InboxStands(t) /\ InboxAsked(t)

InboxNoted(n) == n.to # n.from /\ (n.against # {} => n.mixed /\ \A r \in n.against : r[3] = "block")
InboxSent(m) == {m.to, m.from} \in conversations /\ ((\E r \in m.against : r[3] = "block") => m.mixed)
InboxRows ==
  /\ \A i \in 1 .. Len(notifications) : InboxNoted(notifications[i])
  /\ \A i \in 1 .. Len(messages) : InboxSent(messages[i])

InboxInv ==
  /\ InboxTypes /\ InboxClient /\ InboxRows
  /\ \A q \in Task : InboxKnows(task[q])

-----------------------------------------------------------------------------
LEMMA InboxAgainst ==
  ASSUME NEW rs, rs \subseteq I!Rel, NEW ms, ms \subseteq User, NEW type, NEW from, NEW to
  PROVE  I!Against(rs, ms, type, from, to) \subseteq InboxMarks
<1>1. {<<u, u, "mentions">> : u \in IF type = "mention" THEN ms \cap {to} ELSE {}} \subseteq InboxMarks
  BY DEF InboxMarks
<1>2. I!Of(rs, to, from) \subseteq InboxMarks /\ I!Of(rs, from, to) \subseteq InboxMarks
  BY DEF I!Of, InboxMarks
<1>3. QED
  BY <1>1, <1>2 DEF I!Against

(* What can stand against a request, by its type *)
LEMMA InboxReasons ==
  ASSUME NEW rs, rs \subseteq I!Rel, NEW ms, NEW type, NEW from \in User, NEW to \in User,
         NEW r \in I!Against(rs, ms, type, from, to)
  PROVE  \/ r = <<to, from, "block">> /\ r \in rs
         \/ r = <<to, from, "mute">> /\ r \in rs
         \/ r = <<from, to, "block">> /\ r \in rs /\ type = "dm"
         \/ r = <<to, to, "mentions">> /\ to \in ms /\ type = "mention"
<1>1. ASSUME NEW a \in User, NEW b \in User, r \in I!Of(rs, a, b)
      PROVE  r \in rs /\ (r = <<a, b, "block">> \/ r = <<a, b, "mute">>)
  BY <1>1 DEF I!Of, I!Rel
<1>2. CASE r \in I!Of(rs, to, from)
  BY <1>1, <1>2
<1>3. CASE type = "dm" /\ r \in I!Of(rs, from, to) /\ r[3] = "block"
  BY <1>1, <1>3
<1>4. CASE r \in {<<u, u, "mentions">> : u \in IF type = "mention" THEN ms \cap {to} ELSE {}}
  BY <1>4
<1>5. QED
  BY <1>2, <1>3, <1>4 DEF I!Against

LEMMA InboxPair == ASSUME NEW x, NEW y, x # y PROVE Cardinality({x} \cup {y}) = 2
<1>1. IsFiniteSet({x}) /\ Cardinality({x}) = 1 /\ y \notin {x}
  BY FS_Singleton
<1> DEFINE X == {x}
<1>2. IsFiniteSet(X) /\ Cardinality(X) = 1 /\ y \notin X
  BY <1>1
<1> HIDE DEF X
<1>3. Cardinality(X \cup {y}) = IF y \in X THEN Cardinality(X) ELSE Cardinality(X) + 1
  BY <1>2, FS_AddElement
<1>4. QED
  BY <1>2, <1>3 DEF X

(* A block and a mute of one user by another are what Mixed looks for. *)
LEMMA InboxBoth ==
  ASSUME NEW rs, rs \subseteq I!Rel, NEW a \in User, NEW b \in User,
         <<a, b, "block">> \in rs, <<a, b, "mute">> \in rs
  PROVE  I!Mixed(rs, a, b) /\ I!Mixed(rs, b, a)
<1>1. I!Of(rs, a, b) = {<<a, b, "block">>} \cup {<<a, b, "mute">>}
  BY DEF I!Of, I!Rel
<1>2. <<a, b, "block">> # <<a, b, "mute">>
  OBVIOUS
<1>3. Cardinality({<<a, b, "block">>} \cup {<<a, b, "mute">>}) = 2
  BY <1>2, InboxPair
<1>4. Cardinality(I!Of(rs, a, b)) = 2
  BY <1>1, <1>3
<1>5. QED
  BY <1>4, InboxSize DEF I!Mixed

(* A look at the rows of a pair that does not stop the request *)
LEMMA InboxLooks ==
  ASSUME InboxInv, NEW q \in Task, task[q].at \in InboxChecks \cup InboxSends,
         NEW a \in User, NEW b \in User,
         \/ a = task[q].to /\ b = task[q].from
         \/ a = task[q].from /\ b = task[q].to,
         I!Toward(a, b) = {} \/ \E r \in I!Toward(a, b) : r[3] # "block"
  PROVE  <<a, b, "block">> \in task[q].held => task[q].mixed
<1>1. /\ rel \subseteq I!Rel /\ InboxStands(task[q])
      /\ task[q].from \in User /\ task[q].to \in User /\ task[q].from # task[q].to
  BY DEF InboxInv, InboxTypes, InboxKnows, InboxBetween
<1>2. SUFFICES ASSUME <<a, b, "block">> \in task[q].held PROVE task[q].mixed
  OBVIOUS
<1>3. <<a, b, "block">> \in rel
  BY <1>1, <1>2, InboxReasons DEF InboxStands
<1>4. <<a, b, "block">> \in I!Toward(a, b)
  BY <1>3 DEF I!Toward, I!Of
<1>5. PICK r \in I!Toward(a, b) : r[3] # "block"
  BY <1>4
<1>6. <<a, b, "mute">> \in rel
  BY <1>1, <1>5 DEF I!Toward, I!Of, I!Rel
<1>7. I!Mixed(rel, a, b) /\ I!Mixed(rel, b, a)
  BY <1>1, <1>3, <1>6, InboxBoth
<1>8. QED
  BY <1>1, <1>7 DEF InboxStands

-----------------------------------------------------------------------------
LEMMA InboxNoTask ==
  /\ I!NoTask \in InboxTask /\ I!NoTask.at = "none"
  /\ InboxKnows(I!NoTask)
<1>1. I!NoTask \in InboxTask /\ I!NoTask.at = "none"
  BY EmptySeq DEF I!NoTask, InboxTask, InboxStage, I!Kind
<1>2. QED
  BY <1>1 DEF InboxKnows, InboxBetween, InboxStands, InboxAsked, InboxChecks, InboxSends

LEMMA InboxInit == ASSUME InboxAssumptions, I!Init PROVE InboxInv
<1>1. /\ rel \subseteq I!Rel /\ mentionsOff = {} /\ conversations = {}
      /\ notifications = <<>> /\ messages = <<>> /\ \A q \in Task : task[q] = I!NoTask
  BY DEF I!Init, InboxAssumptions
<1>2. /\ notifications \in Seq(InboxNote) /\ messages \in Seq(InboxMessage)
      /\ Len(notifications) = 0 /\ Len(messages) = 0
  BY <1>1, EmptySeq
<1>3. task \in [Task -> InboxTask]
  BY InboxNoTask DEF I!Init
<1>4. InboxClient
  BY DEF I!Init, InboxClient
<1>5. QED
  BY <1>1, <1>2, <1>3, <1>4, InboxNoTask DEF InboxInv, InboxTypes, InboxRows

LEMMA InboxGoes ==
  ASSUME InboxTypes, NEW q \in Task, NEW new \in InboxTask, task' = [task EXCEPT ![q] = new]
  PROVE  /\ task' \in [Task -> InboxTask] /\ task'[q] = new
         /\ \A p \in Task \ {q} : task'[p] = task[p]
BY DEF InboxTypes

(* A step of a request that writes nothing *)
LEMMA InboxQuiet ==
  ASSUME InboxInv, NEW q \in Task, NEW new \in InboxTask, task' = [task EXCEPT ![q] = new],
         UNCHANGED I!tables, InboxClient', InboxKnows(new)
  PROVE  InboxInv'
<1>1. /\ task' \in [Task -> InboxTask] /\ task'[q] = new
      /\ \A p \in Task \ {q} : task'[p] = task[p]
  BY InboxGoes DEF InboxInv
<1>2. /\ rel' = rel /\ mentionsOff' = mentionsOff /\ notifications' = notifications
      /\ conversations' = conversations /\ messages' = messages
  BY DEF I!tables
<1>3. InboxTypes' /\ InboxRows'
  BY <1>1, <1>2 DEF InboxInv, InboxTypes, InboxRows, InboxNoted, InboxSent
<1>4. ASSUME NEW p \in Task PROVE InboxKnows(task[p])'
  <2>1. InboxKnows(task'[p])
    BY <1>1 DEF InboxInv
  <2>2. QED
    BY <1>2, <2>1 DEF InboxKnows, InboxBetween, InboxTells, InboxStands, InboxAsked, I!Against, I!Mixed, I!Of
<1>5. QED
  BY <1>3, <1>4 DEF InboxInv

(* A step to another statement of the same request *)
InboxSame(new, t) ==
  /\ new.kind = t.kind /\ new.type = t.type /\ new.from = t.from /\ new.to = t.to
  /\ new.rest = t.rest /\ new.held = t.held /\ new.mixed = t.mixed

LEMMA InboxGoto ==
  ASSUME InboxInv, NEW q \in Task, NEW l \in InboxStage, I!Goto(q, l)
  PROVE  \E new \in InboxTask : /\ task' = [task EXCEPT ![q] = new]
                                /\ new.at = l /\ new.todo = task[q].todo /\ InboxSame(new, task[q])
<1> DEFINE new == [task[q] EXCEPT !.at = l]
<1>1. task[q] \in InboxTask
  BY DEF InboxInv, InboxTypes
<1>2. new \in InboxTask /\ new.at = l /\ new.todo = task[q].todo /\ InboxSame(new, task[q])
  BY <1>1 DEF InboxTask, InboxSame
<1>3. task' = [task EXCEPT ![q] = new]
  BY DEF I!Goto
<1> HIDE DEF new
<1>4. QED
  BY <1>2, <1>3

(* A step of a request that writes rows *)
LEMMA InboxWrites ==
  ASSUME InboxInv, NEW q \in Task, NEW new \in InboxTask, task' = [task EXCEPT ![q] = new],
         UNCHANGED <<rel, mentionsOff, I!client, astray>>,
         notifications' \in Seq(InboxNote), messages' \in Seq(InboxMessage),
         conversations \subseteq conversations',
         \A c \in conversations' : \E a, b \in User : a # b /\ c = {a, b},
         InboxRows', InboxKnows(new)'
  PROVE  InboxInv'
<1>1. /\ task' \in [Task -> InboxTask] /\ task'[q] = new
      /\ \A p \in Task \ {q} : task'[p] = task[p]
  BY InboxGoes DEF InboxInv
<1>2. /\ rel' = rel /\ mentionsOff' = mentionsOff /\ badge' = badge /\ fetch' = fetch /\ stream' = stream
      /\ resync' = resync /\ astray' = astray
  BY DEF I!client
<1>3. InboxTypes' /\ InboxClient'
  BY <1>1, <1>2 DEF InboxInv, InboxTypes, InboxClient
<1>4. ASSUME NEW p \in Task \ {q} PROVE InboxKnows(task[p])'
  <2>1. InboxKnows(task[p]) /\ task'[p] = task[p]
    BY <1>1 DEF InboxInv
  <2>2. InboxBetween(task[p])'
    BY <2>1 DEF InboxKnows, InboxBetween, InboxTells
  <2>3. InboxStands(task[p])' /\ InboxAsked(task[p])'
    BY <1>2, <2>1 DEF InboxKnows, InboxStands, InboxAsked, I!Against, I!Mixed, I!Of
  <2>4. QED
    BY <2>2, <2>3 DEF InboxKnows
<1>5. QED
  BY <1>1, <1>3, <1>4 DEF InboxInv

-----------------------------------------------------------------------------
(* The client *)
LEMMA InboxAsks ==
  ASSUME InboxClient, NEW us, NEW k \in I!Kind, I!Ask(us, k)
  PROVE  fetch' \in [User -> [I!Kind -> Nat \cup {I!Idle, I!Asked}]]
BY DEF InboxClient, I!Ask

LEMMA InboxMissed == ASSUME InboxClient, NEW u \in User, NEW k \in I!Kind PROVE I!Missed(u, k) \subseteq User \X I!Kind
BY DEF InboxClient, I!Missed

LEMMA InboxPublishes ==
  ASSUME InboxClient, NEW u \in User, NEW k \in I!Kind, I!Publish(u, k), UNCHANGED <<badge, stream>>
  PROVE  InboxClient'
<1>1. fetch' = fetch \/ fetch' \in [User -> [I!Kind -> Nat \cup {I!Idle, I!Asked}]]
  BY InboxAsks DEF I!Publish
<1>2. resync' \subseteq User
  BY DEF InboxClient, I!Publish
<1>3. astray' \subseteq User \X I!Kind
  BY InboxMissed DEF InboxClient, I!Publish
<1>4. QED
  BY <1>1, <1>2, <1>3 DEF InboxClient

LEMMA InboxCounted ==
  ASSUME InboxInv, NEW u \in User, NEW k \in I!Kind PROVE I!UnreadCount(u, k) \in Nat
<1>1. /\ DOMAIN notifications = 1 .. Len(notifications) /\ Len(notifications) \in Nat
      /\ DOMAIN messages = 1 .. Len(messages) /\ Len(messages) \in Nat
  BY LenProperties DEF InboxInv, InboxTypes
<1>2. IsFiniteSet(DOMAIN notifications) /\ IsFiniteSet(DOMAIN messages)
  BY <1>1, FS_Interval
<1>3. /\ IsFiniteSet({i \in DOMAIN notifications : notifications[i].to = u /\ ~notifications[i].read})
      /\ IsFiniteSet({i \in DOMAIN messages : messages[i].to = u /\ ~messages[i].read})
  BY <1>2, FS_Subset
<1>4. I!UnreadNotifications(u) \in Nat /\ I!UnreadMessages(u) \in Nat
  BY <1>3, FS_CardinalityType, InboxSize DEF I!UnreadNotifications, I!UnreadMessages, I!Count
<1>5. QED
  BY <1>4 DEF I!UnreadCount

LEMMA InboxTalks ==
  ASSUME InboxInv, UNCHANGED <<I!tables, task>>, InboxClient' PROVE InboxInv'
<1>1. /\ rel' = rel /\ mentionsOff' = mentionsOff /\ notifications' = notifications
      /\ conversations' = conversations /\ messages' = messages /\ task' = task
  BY DEF I!tables
<1>2. InboxTypes' /\ InboxRows'
  BY <1>1 DEF InboxInv, InboxTypes, InboxRows, InboxNoted, InboxSent
<1>3. ASSUME NEW p \in Task PROVE InboxKnows(task[p])'
  <2>1. InboxKnows(task[p])
    BY DEF InboxInv
  <2>2. QED
    BY <1>1, <2>1 DEF InboxKnows, InboxBetween, InboxTells, InboxStands, InboxAsked, I!Against, I!Mixed, I!Of
<1>4. QED
  BY <1>2, <1>3 DEF InboxInv

LEMMA InboxShows ==
  ASSUME InboxInv, NEW u \in User,
         \/ \E k \in I!Kind : I!HandleUnreadCount(u, k) \/ I!ShowCount(u, k)
         \/ I!Resync(u) \/ I!Disconnect(u) \/ I!Subscribe(u) \/ I!Greet(u)
  PROVE  InboxInv'
<1>1. InboxClient
  BY DEF InboxInv
<1>2. ASSUME NEW k \in I!Kind, I!HandleUnreadCount(u, k) PROVE InboxInv'
  <2>1. I!UnreadCount(u, k) \in Nat
    BY InboxCounted
  <2>2. fetch' \in [User -> [I!Kind -> Nat \cup {I!Idle, I!Asked}]]
    BY <1>1, <1>2, <2>1 DEF I!HandleUnreadCount, InboxClient
  <2>3. InboxClient'
    BY <1>1, <1>2, <2>2 DEF I!HandleUnreadCount, InboxClient, I!ghosts
  <2>4. QED
    BY <1>2, <2>3, InboxTalks DEF I!HandleUnreadCount
<1>3. ASSUME NEW k \in I!Kind, I!ShowCount(u, k) PROVE InboxInv'
  <2>1. fetch[u][k] \in Nat
    BY <1>1, <1>3 DEF I!ShowCount, InboxClient, I!Idle, I!Asked
  <2>2. badge' \in [User -> [I!Kind -> Nat]]
    BY <1>1, <1>3, <2>1 DEF I!ShowCount, InboxClient
  <2>3. fetch' \in [User -> [I!Kind -> Nat \cup {I!Idle, I!Asked}]]
    BY <1>1, <1>3 DEF I!ShowCount, InboxClient
  <2>4. astray' \subseteq astray
    BY <1>3 DEF I!ShowCount
  <2>5. InboxClient'
    BY <1>1, <1>3, <2>2, <2>3, <2>4 DEF I!ShowCount, InboxClient
  <2>6. QED
    BY <1>3, <2>5, InboxTalks DEF I!ShowCount
<1>4. CASE I!Resync(u)
  <2>1. fetch' \in [User -> [I!Kind -> Nat \cup {I!Idle, I!Asked}]]
    BY <1>1, <1>4 DEF I!Resync, InboxClient
  <2>2. InboxClient'
    BY <1>1, <1>4, <2>1 DEF I!Resync, InboxClient, I!ghosts
  <2>3. QED
    BY <1>4, <2>2, InboxTalks DEF I!Resync
<1>5. CASE I!Disconnect(u)
  <2>1. InboxClient'
    BY <1>1, <1>5 DEF I!Disconnect, InboxClient, I!Kind
  <2>2. QED
    BY <1>5, <2>1, InboxTalks DEF I!Disconnect
<1>6. CASE I!Subscribe(u)
  <2>1. InboxClient'
    BY <1>1, <1>6 DEF I!Subscribe, InboxClient, I!ghosts
  <2>2. QED
    BY <1>6, <2>1, InboxTalks DEF I!Subscribe
<1>7. CASE I!Greet(u)
  <2>1. fetch' = fetch \/ fetch' \in [User -> [I!Kind -> Nat \cup {I!Idle, I!Asked}]]
    BY <1>1, <1>7, InboxAsks DEF I!Greet, I!Kind
  <2>2. astray' \subseteq User \X I!Kind
    BY <1>1, <1>7, InboxMissed DEF I!Greet, InboxClient, I!Kind
  <2>3. InboxClient'
    BY <1>1, <1>7, <2>1, <2>2 DEF I!Greet, InboxClient
  <2>4. QED
    BY <1>7, <2>3, InboxTalks DEF I!Greet
<1>8. QED
  BY <1>2, <1>3, <1>4, <1>5, <1>6, <1>7

-----------------------------------------------------------------------------
(* A request begins. *)
InboxStarted(new, l, k, t, a, b, r, d) ==
  /\ new.at = l /\ new.kind = k /\ new.type = t /\ new.from = a /\ new.to = b
  /\ new.rest = r /\ new.todo = d
  /\ new.held = I!Against(rel, mentionsOff, t, a, b) /\ new.mixed = I!Mixed(rel, a, b)

InboxArgs(l, k, t, a, b, r, d) ==
  /\ l \in InboxStage /\ k \in I!Kind /\ t \in {"like", "mention", "one", "all", "dm"}
  /\ a \in User \cup {None} /\ b \in User /\ r \in Seq(User) /\ d \in Seq(User)

LEMMA InboxStarts ==
  ASSUME InboxInv, NEW q \in Task, NEW l, NEW k, NEW t, NEW a, NEW b, NEW r, NEW d,
         InboxArgs(l, k, t, a, b, r, d), I!Start(q, l, k, t, a, b, r, d), badge' \in [User -> [I!Kind -> Nat]]
  PROVE  /\ UNCHANGED I!tables /\ InboxClient'
         /\ \E new \in InboxTask : task' = [task EXCEPT ![q] = new] /\ InboxStarted(new, l, k, t, a, b, r, d)
<1> USE DEF InboxArgs
<1>1. I!Against(rel, mentionsOff, t, a, b) \in SUBSET InboxMarks /\ I!Mixed(rel, a, b) \in BOOLEAN
  BY InboxAgainst DEF InboxInv, InboxTypes, I!Mixed
<1> DEFINE new == [I!NoTask EXCEPT !.at = l, !.kind = k, !.type = t, !.from = a, !.to = b, !.rest = r, !.todo = d,
                                 !.held = I!Against(rel, mentionsOff, t, a, b), !.mixed = I!Mixed(rel, a, b)]
<1>2. new \in InboxTask
  BY <1>1, InboxNoTask DEF InboxTask
<1>3. InboxStarted(new, l, k, t, a, b, r, d)
  BY <1>1, InboxNoTask DEF InboxTask, InboxStarted
<1>4. task' = [task EXCEPT ![q] = new] /\ UNCHANGED I!tables
  BY DEF I!Start
<1> HIDE DEF new
<1>5. InboxClient'
  BY DEF I!Start, InboxInv, InboxClient
<1>6. QED
  BY <1>2, <1>3, <1>4, <1>5

LEMMA InboxTellsOf ==
  ASSUME InboxInv, NEW q \in Task, NEW a \in User, NEW b \in User, NEW t \in {"like", "mention"}, NEW r \in Seq(User),
         I!Create(q, a, b, t, r), t = "like" => r = <<>>, \A i \in 1 .. Len(r) : r[i] # a
  PROVE  InboxInv'
<1>1. /\ a # b /\ I!Start(q, "relationship", "notes", t, a, b, r, <<>>)
      /\ badge' \in [User -> [I!Kind -> Nat]] /\ <<>> \in Seq(User)
      /\ "relationship" \in InboxStage /\ "notes" \in I!Kind
      /\ t \in {"like", "mention", "one", "all", "dm"} /\ a \in User \cup {None}
  BY EmptySeq DEF I!Create, InboxInv, InboxClient, InboxStage, InboxChecks, I!Kind
<1>2. /\ UNCHANGED I!tables /\ InboxClient'
      /\ \E new \in InboxTask : /\ task' = [task EXCEPT ![q] = new]
                                /\ InboxStarted(new, "relationship", "notes", t, a, b, r, <<>>)
  <2>1. PICK l \in InboxStage, k \in I!Kind, d \in Seq(User) :
          l = "relationship" /\ k = "notes" /\ d = <<>> /\ I!Start(q, l, k, t, a, b, r, d)
    BY <1>1
  <2>2. /\ UNCHANGED I!tables /\ InboxClient'
        /\ \E new \in InboxTask : task' = [task EXCEPT ![q] = new] /\ InboxStarted(new, l, k, t, a, b, r, d)
    <3>1. InboxArgs(l, k, t, a, b, r, d)
      BY <1>1, <2>1 DEF InboxArgs
    <3>2. QED
      BY <1>1, <2>1, <3>1, InboxStarts
  <2>3. QED
    BY <2>1, <2>2
<1>3. PICK new \in InboxTask : /\ task' = [task EXCEPT ![q] = new]
                               /\ InboxStarted(new, "relationship", "notes", t, a, b, r, <<>>)
  BY <1>2
<1>4. InboxKnows(new)
  BY <1>1, <1>3 DEF InboxKnows, InboxBetween, InboxTells, InboxStands, InboxAsked, InboxChecks, InboxSends,
                    InboxStarted
<1>5. QED
  BY <1>2, <1>3, <1>4, InboxQuiet

LEMMA InboxCreates ==
  ASSUME InboxInv, NEW q \in Task, I!CreateForPost(q) \/ I!CreateMentionNotifications(q) PROVE InboxInv'
<1>1. <<>> \in Seq(User) /\ Len(<<>>) = 0
  BY EmptySeq
<1>2. ASSUME NEW a \in User, NEW b \in User, NEW t \in {"like", "mention"}, I!Create(q, a, b, t, <<>>) PROVE InboxInv'
  <2>1. \A i \in 1 .. Len(<<>>) : <<>>[i] # a
    BY <1>1
  <2>2. QED
    BY <1>1, <1>2, <2>1, InboxTellsOf
<1>3. CASE I!CreateForPost(q)
  BY <1>2, <1>3 DEF I!CreateForPost
<1>4. CASE I!CreateMentionNotifications(q)
  <2>1. PICK a \in User, u \in User, v \in User : v # a /\ I!Create(q, a, u, "mention", IF u = v THEN <<>> ELSE <<v>>)
    BY <1>4 DEF I!CreateMentionNotifications
  <2>2. CASE u = v
    BY <1>2, <2>1, <2>2
  <2>3. CASE u # v
    <3>1. <<v>> \in Seq(User) /\ \A i \in 1 .. Len(<<v>>) : <<v>>[i] # a
      BY <2>1
    <3>2. I!Create(q, a, u, "mention", <<v>>)
      BY <2>1, <2>3
    <3>3. QED
      BY <3>1, <3>2, InboxTellsOf
  <2>4. QED
    BY <2>2, <2>3
<1>5. QED
  BY <1>3, <1>4

LEMMA InboxReadsOf ==
  ASSUME InboxInv, NEW q \in Task, NEW a \in User \cup {None}, NEW u \in User, NEW k \in I!Kind, NEW t \in {"one", "all"},
         I!Start(q, "read", k, t, a, u, <<>>, <<u>>), badge' \in [User -> [I!Kind -> Nat]]
  PROVE  InboxInv'
<1>1. <<>> \in Seq(User) /\ <<u>> \in Seq(User) /\ "read" \in InboxStage /\ t \in {"like", "mention", "one", "all", "dm"}
  BY EmptySeq DEF InboxStage
<1>2. /\ UNCHANGED I!tables /\ InboxClient'
      /\ \E new \in InboxTask : task' = [task EXCEPT ![q] = new] /\ InboxStarted(new, "read", k, t, a, u, <<>>, <<u>>)
  <2>1. PICK l \in InboxStage, r \in Seq(User), d \in Seq(User) :
          l = "read" /\ r = <<>> /\ d = <<u>> /\ I!Start(q, l, k, t, a, u, r, d)
    BY <1>1
  <2>2. /\ UNCHANGED I!tables /\ InboxClient'
        /\ \E new \in InboxTask : task' = [task EXCEPT ![q] = new] /\ InboxStarted(new, l, k, t, a, u, r, d)
    <3>1. InboxArgs(l, k, t, a, u, r, d)
      BY <1>1, <2>1 DEF InboxArgs
    <3>2. QED
      BY <1>1, <2>1, <3>1, InboxStarts
  <2>3. QED
    BY <2>1, <2>2
<1>3. PICK new \in InboxTask : task' = [task EXCEPT ![q] = new] /\ InboxStarted(new, "read", k, t, a, u, <<>>, <<u>>)
  BY <1>2
<1>4. InboxKnows(new)
  BY <1>3 DEF InboxKnows, InboxBetween, InboxStands, InboxAsked, InboxChecks, InboxSends, InboxStarted
<1>5. QED
  BY <1>2, <1>3, <1>4, InboxQuiet

LEMMA InboxReads ==
  ASSUME InboxInv, NEW q \in Task, I!MarkRead(q) \/ I!MarkAllRead(q) \/ I!MarkConversationRead(q) PROVE InboxInv'
<1>1. badge \in [User -> [I!Kind -> Nat]] /\ "notes" \in I!Kind /\ "dms" \in I!Kind
  BY DEF InboxInv, InboxClient, I!Kind
<1>2. CASE I!MarkRead(q)
  BY <1>1, <1>2, InboxReadsOf DEF I!MarkRead
<1>3. CASE I!MarkAllRead(q)
  <2>1. PICK u \in User : /\ I!Start(q, "read", "notes", "all", None, u, <<>>, <<u>>)
                          /\ badge' = [badge EXCEPT ![u]["notes"] = 0]
    BY <1>3 DEF I!MarkAllRead
  <2>2. badge' \in [User -> [I!Kind -> Nat]]
    BY <1>1, <2>1
  <2>3. QED
    BY <1>1, <2>1, <2>2, InboxReadsOf
<1>4. CASE I!MarkConversationRead(q)
  <2>1. PICK c \in conversations, u \in User :
          /\ u \in c /\ I!Start(q, "read", "dms", "all", CHOOSE v \in c : v # u, u, <<>>, <<u>>)
          /\ UNCHANGED badge
    BY <1>4 DEF I!MarkConversationRead, I!IsParticipant
  <2>2. PICK a, b \in User : a # b /\ c = {a, b}
    BY DEF InboxInv, InboxTypes
  <2> DEFINE w == CHOOSE v \in c : v # u
  <2>3. \E v \in c : v # u
    BY <2>1, <2>2
  <2>4. w \in c
    BY <2>3
  <2>5. w \in User
    BY <2>2, <2>4
  <2>6. I!Start(q, "read", "dms", "all", w, u, <<>>, <<u>>)
    BY <2>1
  <2> HIDE DEF w
  <2>7. QED
    BY <1>1, <2>1, <2>5, <2>6, InboxReadsOf
<1>5. QED
  BY <1>2, <1>3, <1>4

LEMMA InboxDms == ASSUME InboxInv, NEW q \in Task, I!SendDm(q) PROVE InboxInv'
<1>1. PICK a \in User, b \in User : a # b /\ I!Start(q, "theirs", "dms", "dm", a, b, <<>>, <<>>) /\ UNCHANGED badge
  BY DEF I!SendDm, I!Send
<1>2. /\ badge' \in [User -> [I!Kind -> Nat]] /\ <<>> \in Seq(User)
      /\ "theirs" \in InboxStage /\ "dms" \in I!Kind /\ "dm" \in {"like", "mention", "one", "all", "dm"}
      /\ a \in User \cup {None}
  BY <1>1, EmptySeq DEF InboxInv, InboxClient, InboxStage, InboxSends, I!Kind
<1>3. /\ UNCHANGED I!tables /\ InboxClient'
      /\ \E new \in InboxTask : task' = [task EXCEPT ![q] = new]
                                /\ InboxStarted(new, "theirs", "dms", "dm", a, b, <<>>, <<>>)
  <2>1. InboxArgs("theirs", "dms", "dm", a, b, <<>>, <<>>)
    BY <1>1, <1>2 DEF InboxArgs
  <2>2. QED
    BY <1>1, <1>2, <2>1, InboxStarts
<1>4. PICK new \in InboxTask : task' = [task EXCEPT ![q] = new]
                               /\ InboxStarted(new, "theirs", "dms", "dm", a, b, <<>>, <<>>)
  BY <1>3
<1>5. InboxKnows(new)
  BY <1>1, <1>4 DEF InboxKnows, InboxBetween, InboxStands, InboxAsked, InboxChecks, InboxSends, InboxStarted
<1>6. QED
  BY <1>3, <1>4, <1>5, InboxQuiet

-----------------------------------------------------------------------------
(* A mention goes on to the next user, with what stands against it now. *)
LEMMA InboxAfter ==
  ASSUME InboxInv, NEW q \in Task, InboxTells(task[q]), task[q].from \in User
  PROVE  I!After(q) \in InboxTask /\ InboxKnows(I!After(q))
<1> DEFINE t == task[q]
<1>1. t \in InboxTask /\ t.rest \in Seq(User) /\ Len(t.rest) \in Nat
  BY LenProperties DEF InboxInv, InboxTypes, InboxTask
<1>2. CASE t.rest = <<>>
  BY <1>2, InboxNoTask DEF I!After
<1>3. CASE t.rest # <<>>
  <2> DEFINE u == Head(t.rest)
             h == I!Against(rel, mentionsOff, "mention", t.from, u)
             m == I!Mixed(rel, t.from, u)
             r == Tail(t.rest)
             new == [t EXCEPT !.at = "relationship", !.to = u, !.rest = r, !.held = h, !.mixed = m]
  <2>1. /\ u \in User /\ r \in Seq(User) /\ Len(r) = Len(t.rest) - 1
        /\ \A i \in 1 .. Len(r) : r[i] = t.rest[i + 1]
    BY <1>1, <1>3, HeadTailProperties
  <2>2. u = t.rest[1] /\ Len(t.rest) >= 1
    BY <1>1, <1>3
  <2>3. u # t.from /\ \A i \in 1 .. Len(r) : r[i] # t.from
    BY <1>1, <2>1, <2>2 DEF InboxTells
  <2>4. h \in SUBSET InboxMarks /\ m \in BOOLEAN
    BY InboxAgainst DEF InboxInv, InboxTypes, I!Mixed
  <2>5. t.kind = "notes" /\ t.type = "mention"
    BY <1>3 DEF InboxTells
  <2>6. I!After(q) = new
    BY <1>3 DEF I!After
  <2>7. h = I!Against(rel, mentionsOff, "mention", t.from, u) /\ m = I!Mixed(rel, t.from, u)
    OBVIOUS
  <2> HIDE DEF u, h, m, r
  <2>8. "relationship" \in InboxStage
    BY DEF InboxStage, InboxChecks
  <2>9. /\ new \in InboxTask
        /\ new.at = "relationship" /\ new.to = u /\ new.rest = r /\ new.held = h /\ new.mixed = m
        /\ new.kind = "notes" /\ new.type = "mention" /\ new.from = t.from
    BY <1>1, <2>1, <2>4, <2>5, <2>8 DEF InboxTask
  <2> HIDE DEF new
  <2>10. InboxBetween(new)
    BY <2>1, <2>3, <2>9 DEF InboxBetween, InboxTells, InboxChecks, InboxSends
  <2>11. InboxStands(new) /\ InboxAsked(new)
    BY <2>7, <2>9 DEF InboxStands, InboxAsked
  <2>12. QED
    BY <2>6, <2>9, <2>10, <2>11 DEF InboxKnows
<1>4. QED
  BY <1>2, <1>3

LEMMA InboxSkips ==
  ASSUME InboxInv, NEW q \in Task, InboxTells(task[q]), task[q].from \in User, I!Skip(q) PROVE InboxInv'
<1>1. I!After(q) \in InboxTask /\ InboxKnows(I!After(q))
  BY InboxAfter
<1>2. task' = [task EXCEPT ![q] = I!After(q)] /\ UNCHANGED I!tables /\ UNCHANGED I!client /\ UNCHANGED I!ghosts
  BY DEF I!Skip, I!Reads
<1>3. InboxClient'
  BY <1>2 DEF InboxInv, InboxClient, I!client, I!ghosts
<1>4. QED
  BY <1>1, <1>2, <1>3, InboxQuiet

(* A look that lets the request go on *)
LEMMA InboxPasses ==
  ASSUME InboxInv, NEW q \in Task, NEW l \in InboxStage, I!Goto(q, l), I!Reads,
         \A new \in InboxTask : new.at = l /\ InboxSame(new, task[q]) => InboxKnows(new)
  PROVE  InboxInv'
<1>1. PICK new \in InboxTask : task' = [task EXCEPT ![q] = new] /\ new.at = l /\ InboxSame(new, task[q])
  BY InboxGoto
<1>2. UNCHANGED I!tables /\ UNCHANGED I!client /\ UNCHANGED I!ghosts
  BY DEF I!Reads
<1>3. InboxClient'
  BY <1>2 DEF InboxInv, InboxClient, I!client, I!ghosts
<1>4. QED
  BY <1>1, <1>2, <1>3, InboxQuiet

LEMMA InboxChecksIt ==
  ASSUME InboxInv, NEW q \in Task, I!GetRelationship(q) \/ I!CheckMuted(q) \/ I!CheckSettings(q) PROVE InboxInv'
<1> DEFINE t == task[q]
<1>1. InboxKnows(t) /\ t \in InboxTask /\ rel \subseteq I!Rel
  BY DEF InboxInv, InboxTypes
<1>2. /\ t.at \in InboxChecks /\ InboxTells(t)
      /\ t.from \in User /\ t.to \in User /\ t.from # t.to
      /\ t.held \subseteq I!Against(rel, mentionsOff, t.type, t.from, t.to)
      /\ I!Mixed(rel, t.from, t.to) => t.mixed
  BY <1>1 DEF I!GetRelationship, I!CheckMuted, I!CheckSettings, InboxChecks, InboxKnows, InboxBetween, InboxStands
<1>3. CASE I!Skip(q)
  BY <1>2, <1>3, InboxSkips
<1>4. ASSUME NEW l \in {"muted", "settings", "notify"}, NEW new \in InboxTask, new.at = l, InboxSame(new, t)
      PROVE  InboxBetween(new) /\ InboxStands(new)
  BY <1>2, <1>4 DEF InboxBetween, InboxTells, InboxStands, InboxSame, InboxChecks, InboxSends
<1>5. {"muted", "settings", "notify"} \subseteq InboxStage
  BY DEF InboxStage, InboxChecks
<1>6. CASE I!GetRelationship(q) /\ ~I!Skip(q)
  <2>1. /\ I!Goto(q, "muted") /\ I!Reads
        /\ I!Toward(t.to, t.from) = {} \/ \E r \in I!Toward(t.to, t.from) : r[3] # "block"
    BY <1>6 DEF I!GetRelationship
  <2>2. <<t.to, t.from, "block">> \in t.held => t.mixed
    BY <1>2, <2>1, InboxLooks
  <2>3. ASSUME NEW new \in InboxTask, new.at = "muted", InboxSame(new, t) PROVE InboxKnows(new)
    BY <1>4, <2>2, <2>3 DEF InboxKnows, InboxAsked, InboxSame
  <2>4. QED
    BY <1>5, <2>1, <2>3, InboxPasses
<1>7. CASE I!CheckMuted(q) /\ ~I!Skip(q)
  <2>1. PICK l \in {"settings", "notify"} :
          /\ t.at = "muted" /\ <<t.to, t.from, "mute">> \notin rel
          /\ I!Goto(q, l) /\ I!Reads /\ (l = "notify" => t.type # "mention")
    BY <1>7 DEF I!CheckMuted
  <2>2. <<t.to, t.from, "block">> \in t.held => t.mixed
    BY <1>1, <2>1 DEF InboxKnows, InboxAsked
  <2>3. <<t.to, t.from, "mute">> \notin t.held
    BY <1>1, <1>2, <2>1, InboxReasons
  <2>4. ASSUME NEW new \in InboxTask, new.at = l, InboxSame(new, t) PROVE InboxKnows(new)
    BY <1>4, <2>1, <2>2, <2>3, <2>4 DEF InboxKnows, InboxAsked, InboxSame
  <2>5. l \in InboxStage
    BY <1>5
  <2>6. QED
    BY <2>1, <2>4, <2>5, InboxPasses
<1>8. CASE I!CheckSettings(q) /\ ~I!Skip(q)
  <2>1. t.at = "settings" /\ t.to \notin mentionsOff /\ I!Goto(q, "notify") /\ I!Reads
    BY <1>8 DEF I!CheckSettings
  <2>2. (<<t.to, t.from, "block">> \in t.held => t.mixed) /\ <<t.to, t.from, "mute">> \notin t.held
    BY <1>1, <2>1 DEF InboxKnows, InboxAsked
  <2>3. <<t.to, t.to, "mentions">> \notin t.held
    BY <1>1, <1>2, <2>1, InboxReasons
  <2>4. ASSUME NEW new \in InboxTask, new.at = "notify", InboxSame(new, t) PROVE InboxKnows(new)
    BY <1>4, <2>2, <2>3, <2>4 DEF InboxKnows, InboxAsked, InboxSame
  <2>5. QED
    BY <1>5, <2>1, <2>4, InboxPasses
<1>9. QED
  BY <1>3, <1>6, <1>7, <1>8

LEMMA InboxBlocks == ASSUME InboxInv, NEW q \in Task, I!CheckBlocks(q) PROVE InboxInv'
<1> DEFINE t == task[q]
<1>1. InboxKnows(t) /\ t \in InboxTask /\ rel \subseteq I!Rel
  BY DEF InboxInv, InboxTypes
<1>2. /\ t.at \in InboxSends /\ t.kind = "dms" /\ t.type = "dm"
      /\ t.from \in User /\ t.to \in User /\ t.from # t.to
      /\ t.held \subseteq I!Against(rel, mentionsOff, t.type, t.from, t.to)
      /\ I!Mixed(rel, t.from, t.to) => t.mixed
  BY <1>1 DEF I!CheckBlocks, I!CheckBlock, InboxSends, InboxKnows, InboxBetween, InboxStands
<1>3. CASE I!Refused(q)
  <2>1. fetch' \in [User -> [I!Kind -> Nat \cup {I!Idle, I!Asked}]]
    BY <1>3, InboxAsks DEF I!Refused, InboxInv, I!Kind
  <2>2. InboxClient'
    BY <1>3, <2>1 DEF I!Refused, InboxInv, InboxClient, I!ghosts
  <2>3. QED
    BY <1>3, <2>2, InboxNoTask, InboxQuiet DEF I!Refused
<1>4. ASSUME NEW l \in {"ours", "conversation"}, NEW new \in InboxTask, new.at = l, InboxSame(new, t)
      PROVE  InboxBetween(new) /\ InboxStands(new)
  BY <1>2, <1>4 DEF InboxBetween, InboxStands, InboxSame, InboxChecks, InboxSends
<1>5. {"ours", "conversation"} \subseteq InboxStage
  BY DEF InboxStage, InboxSends
<1>6. CASE I!CheckBlock(q, "theirs", "ours", t.to, t.from) /\ ~I!Refused(q)
  <2>1. /\ I!Goto(q, "ours") /\ I!Reads
        /\ I!Toward(t.to, t.from) = {} \/ \E r \in I!Toward(t.to, t.from) : r[3] # "block"
    BY <1>6 DEF I!CheckBlock
  <2>2. <<t.to, t.from, "block">> \in t.held => t.mixed
    BY <1>2, <2>1, InboxLooks
  <2>3. ASSUME NEW new \in InboxTask, new.at = "ours", InboxSame(new, t) PROVE InboxKnows(new)
    BY <1>4, <2>2, <2>3 DEF InboxKnows, InboxAsked, InboxSame
  <2>4. QED
    BY <1>5, <2>1, <2>3, InboxPasses
<1>7. CASE I!CheckBlock(q, "ours", "conversation", t.from, t.to) /\ ~I!Refused(q)
  <2>1. /\ I!Goto(q, "conversation") /\ I!Reads /\ t.at = "ours"
        /\ I!Toward(t.from, t.to) = {} \/ \E r \in I!Toward(t.from, t.to) : r[3] # "block"
    BY <1>7 DEF I!CheckBlock
  <2>2. <<t.from, t.to, "block">> \in t.held => t.mixed
    BY <1>2, <2>1, InboxLooks
  <2>3. <<t.to, t.from, "block">> \in t.held => t.mixed
    BY <1>1, <2>1 DEF InboxKnows, InboxAsked
  <2>4. ASSUME NEW new \in InboxTask, new.at = "conversation", InboxSame(new, t) PROVE InboxKnows(new)
    BY <1>4, <2>2, <2>3, <2>4 DEF InboxKnows, InboxAsked, InboxSame
  <2>5. QED
    BY <1>5, <2>1, <2>4, InboxPasses
<1>8. QED
  BY <1>3, <1>6, <1>7 DEF I!CheckBlocks

-----------------------------------------------------------------------------
(* Rows are written. *)
LEMMA InboxNotes == ASSUME InboxInv, NEW q \in Task, I!CreateNotification(q) PROVE InboxInv'
<1> DEFINE t == task[q]
<1>1. InboxKnows(t) /\ t \in InboxTask /\ rel \subseteq I!Rel /\ notifications \in Seq(InboxNote)
  BY DEF InboxInv, InboxTypes
<1>2. /\ t.at = "notify" /\ InboxTells(t)
      /\ t.from \in User /\ t.to \in User /\ t.from # t.to
      /\ t.held \subseteq I!Against(rel, mentionsOff, t.type, t.from, t.to)
      /\ <<t.to, t.from, "block">> \in t.held => t.mixed
      /\ <<t.to, t.from, "mute">> \notin t.held
      /\ t.type = "mention" => <<t.to, t.to, "mentions">> \notin t.held
  BY <1>1 DEF I!CreateNotification, InboxKnows, InboxBetween, InboxStands, InboxAsked, InboxChecks
<1> DEFINE note == [to |-> t.to, from |-> t.from, type |-> t.type,
                    read |-> FALSE, against |-> t.held, mixed |-> t.mixed]
<1>3. note \in InboxNote
  BY <1>1, <1>2 DEF InboxNote, InboxTask, InboxTells
<1>4. ASSUME NEW r \in t.held PROVE r = <<t.to, t.from, "block">>
  <2>1. r \in I!Against(rel, mentionsOff, t.type, t.from, t.to)
    BY <1>2
  <2>2. \/ r = <<t.to, t.from, "block">>
        \/ r = <<t.to, t.from, "mute">>
        \/ t.type = "dm"
        \/ r = <<t.to, t.to, "mentions">> /\ t.type = "mention"
    BY <1>1, <1>2, <2>1, InboxReasons
  <2>3. t.type \in {"like", "mention"}
    BY <1>2 DEF InboxTells
  <2>4. QED
    BY <1>2, <2>2, <2>3
<1>5. InboxNoted(note)
  <2>1. \A r \in t.held : r[3] = "block"
    BY <1>4
  <2>2. t.held # {} => t.mixed
    BY <1>2, <1>4
  <2>3. QED
    BY <1>2, <2>1, <2>2 DEF InboxNoted
<1>6. notifications' = Append(notifications, note)
  BY DEF I!CreateNotification
<1> HIDE DEF note
<1>7. /\ notifications' \in Seq(InboxNote) /\ Len(notifications') = Len(notifications) + 1
      /\ \A i \in 1 .. Len(notifications) : notifications'[i] = notifications[i]
      /\ notifications'[Len(notifications) + 1] = note /\ Len(notifications) \in Nat
  BY <1>1, <1>3, <1>6, AppendProperties, LenProperties
<1>8. /\ messages' = messages /\ conversations' = conversations /\ UNCHANGED <<rel, mentionsOff, I!client, astray>>
  BY DEF I!CreateNotification, I!Writes
<1>9. InboxRows'
  <2>1. \A i \in 1 .. Len(notifications) : InboxNoted(notifications'[i])
    BY <1>7 DEF InboxInv, InboxRows
  <2>2. \A i \in 1 .. Len(notifications') : i \in 1 .. Len(notifications) \/ i = Len(notifications) + 1
    BY <1>7
  <2>3. \A i \in 1 .. Len(notifications') : InboxNoted(notifications'[i])
    BY <1>5, <1>7, <2>1, <2>2
  <2>4. \A i \in 1 .. Len(messages) : InboxSent(messages[i])
    BY DEF InboxInv, InboxRows
  <2>5. QED
    BY <1>8, <2>3, <2>4 DEF InboxRows, InboxNoted, InboxSent
<1> DEFINE new == [t EXCEPT !.at = "count", !.todo = <<t.to>>]
<1>10. /\ task' = [task EXCEPT ![q] = new]
       /\ new \in InboxTask /\ new.at = "count" /\ new.todo = <<t.to>> /\ InboxSame(new, t)
  <2>1. <<t.to>> \in Seq(User) /\ "count" \in InboxStage
    BY <1>2 DEF InboxStage
  <2>2. QED
    BY <1>1, <2>1 DEF I!CreateNotification, InboxTask, InboxSame
<1>11. PICK w \in InboxTask : /\ task' = [task EXCEPT ![q] = w] /\ w.at = "count" /\ w.todo = <<t.to>>
                              /\ InboxSame(w, t)
  BY <1>10
<1>12. InboxKnows(w)'
  BY <1>2, <1>11 DEF InboxKnows, InboxBetween, InboxTells, InboxStands, InboxAsked, InboxChecks, InboxSends, InboxSame, I!Kind
<1>13. /\ messages' \in Seq(InboxMessage) /\ conversations \subseteq conversations'
       /\ \A c \in conversations' : \E a, b \in User : a # b /\ c = {a, b}
  BY <1>8 DEF InboxInv, InboxTypes
<1>14. QED
  BY <1>7, <1>8, <1>9, <1>11, <1>12, <1>13, InboxWrites

LEMMA InboxMarksNotes == ASSUME InboxInv, NEW q \in Task, I!MarkNotificationsRead(q) PROVE InboxInv'
<1> DEFINE t == task[q]
<1>1. InboxKnows(t) /\ t \in InboxTask /\ notifications \in Seq(InboxNote)
  BY DEF InboxInv, InboxTypes
<1>2. PICK some : notifications' = [i \in DOMAIN notifications |-> [notifications[i] EXCEPT !.read = @ \/ i \in some]]
  BY DEF I!MarkNotificationsRead
<1>3. DOMAIN notifications = 1 .. Len(notifications) /\ Len(notifications) \in Nat
  BY <1>1, LenProperties
<1>4. ASSUME NEW i \in 1 .. Len(notifications)
      PROVE  /\ notifications'[i] \in InboxNote
             /\ notifications'[i].to = notifications[i].to /\ notifications'[i].from = notifications[i].from
             /\ notifications'[i].against = notifications[i].against
             /\ notifications'[i].mixed = notifications[i].mixed
  <2>1. notifications[i] \in InboxNote
    BY <1>1, <1>3
  <2>2. \E x \in BOOLEAN : notifications'[i] = [notifications[i] EXCEPT !.read = x]
    <3>1. (notifications[i].read \/ i \in some) \in BOOLEAN
      OBVIOUS
    <3>2. notifications'[i] = [notifications[i] EXCEPT !.read = notifications[i].read \/ i \in some]
      BY <1>2, <1>3
    <3>3. QED
      BY <3>1, <3>2
  <2>3. PICK x \in BOOLEAN : notifications'[i] = [notifications[i] EXCEPT !.read = x]
    BY <2>2
  <2>4. QED
    BY <2>1, <2>3 DEF InboxNote
<1>5. notifications' \in Seq(InboxNote) /\ Len(notifications') = Len(notifications)
  <2>1. DOMAIN notifications' = 1 .. Len(notifications)
    BY <1>2, <1>3
  <2>2. notifications' \in [1 .. Len(notifications) -> InboxNote]
    BY <1>2, <1>3, <1>4
  <2>3. QED
    BY <1>3, <2>1, <2>2, LenProperties, SeqDef
<1>6. /\ messages' = messages /\ conversations' = conversations /\ UNCHANGED <<rel, mentionsOff, I!client, astray>>
  BY DEF I!MarkNotificationsRead, I!Writes
<1>7. InboxRows'
  <2>1. \A i \in 1 .. Len(notifications') : InboxNoted(notifications'[i])
    BY <1>4, <1>5 DEF InboxInv, InboxRows, InboxNoted
  <2>2. \A i \in 1 .. Len(messages) : InboxSent(messages[i])
    BY DEF InboxInv, InboxRows
  <2>3. QED
    BY <1>6, <2>1, <2>2 DEF InboxRows, InboxNoted, InboxSent
<1>8. "count" \in InboxStage /\ I!Goto(q, "count") /\ t.at = "read"
  BY DEF InboxStage, I!MarkNotificationsRead
<1>9. PICK w \in InboxTask : /\ task' = [task EXCEPT ![q] = w] /\ w.at = "count" /\ w.todo = t.todo
                             /\ InboxSame(w, t)
  BY <1>8, InboxGoto
<1>10. InboxKnows(w)'
  BY <1>1, <1>8, <1>9 DEF InboxKnows, InboxBetween, InboxStands, InboxAsked, InboxChecks, InboxSends, InboxSame
<1>11. /\ messages' \in Seq(InboxMessage) /\ conversations \subseteq conversations'
       /\ \A c \in conversations' : \E a, b \in User : a # b /\ c = {a, b}
  BY <1>6 DEF InboxInv, InboxTypes
<1>12. QED
  BY <1>5, <1>6, <1>7, <1>9, <1>10, <1>11, InboxWrites

LEMMA InboxConverses == ASSUME InboxInv, NEW q \in Task, I!GetOrCreateConversation(q) PROVE InboxInv'
<1> DEFINE t == task[q]
<1>1. InboxKnows(t) /\ t \in InboxTask
  BY DEF InboxInv, InboxTypes
<1>2. /\ t.at = "conversation" /\ t.kind = "dms" /\ t.type = "dm"
      /\ t.from \in User /\ t.to \in User /\ t.from # t.to
      /\ InboxStands(t) /\ InboxAsked(t)
  BY <1>1 DEF I!GetOrCreateConversation, InboxKnows, InboxBetween, InboxSends
<1>3. /\ messages' = messages /\ notifications' = notifications /\ UNCHANGED <<rel, mentionsOff, I!client, astray>>
      /\ conversations' = conversations \cup {{t.from, t.to}}
  BY DEF I!GetOrCreateConversation, I!Writes
<1>4. /\ notifications' \in Seq(InboxNote) /\ messages' \in Seq(InboxMessage)
      /\ conversations \subseteq conversations'
      /\ \A c \in conversations' : \E a, b \in User : a # b /\ c = {a, b}
  BY <1>2, <1>3 DEF InboxInv, InboxTypes
<1>5. InboxRows'
  <2>1. /\ \A i \in 1 .. Len(messages) : InboxSent(messages[i])
        /\ \A i \in 1 .. Len(notifications) : InboxNoted(notifications[i])
    BY DEF InboxInv, InboxRows
  <2>2. QED
    BY <1>3, <2>1 DEF InboxRows, InboxNoted, InboxSent
<1>6. "message" \in InboxStage /\ I!Goto(q, "message")
  BY DEF InboxStage, InboxSends, I!GetOrCreateConversation
<1>7. PICK w \in InboxTask : /\ task' = [task EXCEPT ![q] = w] /\ w.at = "message" /\ w.todo = t.todo
                             /\ InboxSame(w, t)
  BY <1>6, InboxGoto
<1>8. InboxBetween(w)'
  BY <1>2, <1>3, <1>7 DEF InboxBetween, InboxChecks, InboxSends, InboxSame
<1>9. InboxStands(w)' /\ InboxAsked(w)'
  BY <1>2, <1>3, <1>7 DEF InboxStands, InboxAsked, InboxChecks, InboxSends, InboxSame, I!Against, I!Mixed, I!Of
<1>10. QED
  BY <1>3, <1>4, <1>5, <1>7, <1>8, <1>9, InboxWrites DEF InboxKnows

LEMMA InboxSendsIt == ASSUME InboxInv, NEW q \in Task, I!AddMessage(q) PROVE InboxInv'
<1> DEFINE t == task[q]
<1>1. InboxKnows(t) /\ t \in InboxTask /\ rel \subseteq I!Rel /\ messages \in Seq(InboxMessage)
  BY DEF InboxInv, InboxTypes
<1>2. /\ t.at = "message" /\ t.kind = "dms" /\ t.type = "dm"
      /\ t.from \in User /\ t.to \in User /\ t.from # t.to /\ {t.from, t.to} \in conversations
      /\ InboxStands(t) /\ t.held \subseteq I!Against(rel, mentionsOff, t.type, t.from, t.to)
      /\ <<t.to, t.from, "block">> \in t.held => t.mixed
      /\ <<t.from, t.to, "block">> \in t.held => t.mixed
  BY <1>1 DEF I!AddMessage, InboxKnows, InboxBetween, InboxStands, InboxAsked, InboxSends
<1> DEFINE mail == [to |-> t.to, from |-> t.from, read |-> FALSE, against |-> t.held, mixed |-> t.mixed]
<1>3. mail \in InboxMessage
  BY <1>1, <1>2 DEF InboxMessage, InboxTask
<1>4. ASSUME NEW r \in t.held, r[3] = "block" PROVE t.mixed
  <2>1. r \in I!Against(rel, mentionsOff, t.type, t.from, t.to)
    BY <1>2
  <2>2. \/ r = <<t.to, t.from, "block">>
        \/ r = <<t.to, t.from, "mute">>
        \/ r = <<t.from, t.to, "block">>
        \/ t.type = "mention"
    BY <1>1, <1>2, <2>1, InboxReasons
  <2>3. QED
    BY <1>2, <1>4, <2>2
<1>5. InboxSent(mail) /\ conversations' = conversations
  <2>1. {t.to, t.from} = {t.from, t.to}
    OBVIOUS
  <2>2. QED
    BY <1>2, <1>4, <2>1 DEF InboxSent, I!AddMessage
<1>6. messages' = Append(messages, mail)
  BY DEF I!AddMessage
<1> HIDE DEF mail
<1>7. PICK m \in InboxMessage : messages' = Append(messages, m) /\ InboxSent(m)
  BY <1>3, <1>5, <1>6
<1>8. /\ messages' \in Seq(InboxMessage) /\ Len(messages') = Len(messages) + 1
      /\ \A i \in 1 .. Len(messages) : messages'[i] = messages[i]
      /\ messages'[Len(messages) + 1] = m /\ Len(messages) \in Nat
  BY <1>1, <1>7, AppendProperties, LenProperties
<1>9. /\ notifications' = notifications /\ conversations' = conversations
      /\ UNCHANGED <<rel, mentionsOff, I!client, astray>>
  BY DEF I!AddMessage, I!Writes
<1>10. InboxRows'
  <2>1. \A i \in 1 .. Len(messages) : InboxSent(messages[i])
    BY DEF InboxInv, InboxRows
  <2>2. \A i \in 1 .. Len(messages') : i \in 1 .. Len(messages) \/ i = Len(messages) + 1
    BY <1>8
  <2>3. \A i \in 1 .. Len(messages') : InboxSent(messages'[i])
    BY <1>7, <1>8, <2>1, <2>2
  <2>4. \A i \in 1 .. Len(notifications) : InboxNoted(notifications[i])
    BY DEF InboxInv, InboxRows
  <2>5. QED
    BY <1>9, <2>3, <2>4 DEF InboxRows, InboxNoted, InboxSent
<1>11. PICK w \in InboxTask : /\ task' = [task EXCEPT ![q] = w] /\ w.at = "touch" /\ w.todo = <<t.to, t.from>>
                              /\ InboxSame(w, t)
  <2> DEFINE new == [t EXCEPT !.at = "touch", !.todo = <<t.to, t.from>>]
  <2>1. <<t.to, t.from>> \in Seq(User) /\ "touch" \in InboxStage
    BY <1>2 DEF InboxStage, InboxSends
  <2>2. /\ task' = [task EXCEPT ![q] = new]
        /\ new \in InboxTask /\ new.at = "touch" /\ new.todo = <<t.to, t.from>> /\ InboxSame(new, t)
    BY <1>1, <2>1 DEF I!AddMessage, InboxTask, InboxSame
  <2> HIDE DEF new
  <2>3. QED
    BY <2>2
<1>12. InboxBetween(w)'
  BY <1>2, <1>9, <1>11 DEF InboxBetween, InboxChecks, InboxSends, InboxSame
<1>13. InboxStands(w)' /\ InboxAsked(w)'
  BY <1>2, <1>9, <1>11 DEF InboxStands, InboxAsked, InboxChecks, InboxSends, InboxSame, I!Against, I!Mixed, I!Of
<1>14. /\ notifications' \in Seq(InboxNote) /\ conversations \subseteq conversations'
       /\ \A c \in conversations' : \E a, b \in User : a # b /\ c = {a, b}
  BY <1>9 DEF InboxInv, InboxTypes
<1>15. QED
  BY <1>8, <1>9, <1>10, <1>11, <1>12, <1>13, <1>14, InboxWrites DEF InboxKnows

LEMMA InboxMarksMessages == ASSUME InboxInv, NEW q \in Task, I!MarkMessagesRead(q) PROVE InboxInv'
<1> DEFINE t == task[q]
<1>1. InboxKnows(t) /\ t \in InboxTask /\ messages \in Seq(InboxMessage)
  BY DEF InboxInv, InboxTypes
<1>3. DOMAIN messages = 1 .. Len(messages) /\ Len(messages) \in Nat
  BY <1>1, LenProperties
<1>4. ASSUME NEW i \in 1 .. Len(messages)
      PROVE  /\ messages'[i] \in InboxMessage
             /\ messages'[i].to = messages[i].to /\ messages'[i].from = messages[i].from
             /\ messages'[i].against = messages[i].against /\ messages'[i].mixed = messages[i].mixed
  <2>1. messages[i] \in InboxMessage
    BY <1>1, <1>3
  <2>2. \E x \in BOOLEAN : messages'[i] = [messages[i] EXCEPT !.read = x]
    <3> DEFINE y == messages[i].read \/ (messages[i].to = task[q].to /\ messages[i].from = task[q].from)
    <3>1. y \in BOOLEAN
      OBVIOUS
    <3>2. messages'[i] = [messages[i] EXCEPT !.read = y]
      BY <1>3 DEF I!MarkMessagesRead
    <3> HIDE DEF y
    <3>3. QED
      BY <3>1, <3>2
  <2>3. PICK x \in BOOLEAN : messages'[i] = [messages[i] EXCEPT !.read = x]
    BY <2>2
  <2>4. QED
    BY <2>1, <2>3 DEF InboxMessage
<1>5. messages' \in Seq(InboxMessage) /\ Len(messages') = Len(messages)
  <2>1. DOMAIN messages' = 1 .. Len(messages)
    BY <1>3 DEF I!MarkMessagesRead
  <2>2. messages' \in [1 .. Len(messages) -> InboxMessage]
    BY <1>3, <1>4 DEF I!MarkMessagesRead
  <2>3. QED
    BY <1>3, <2>1, <2>2, LenProperties, SeqDef
<1>6. /\ notifications' = notifications /\ conversations' = conversations
      /\ UNCHANGED <<rel, mentionsOff, I!client, astray>>
  BY DEF I!MarkMessagesRead, I!Writes
<1>7. InboxRows'
  <2>1. \A i \in 1 .. Len(messages') : InboxSent(messages'[i])
    BY <1>4, <1>5 DEF InboxInv, InboxRows, InboxSent
  <2>2. \A i \in 1 .. Len(notifications) : InboxNoted(notifications[i])
    BY DEF InboxInv, InboxRows
  <2>3. QED
    BY <1>6, <2>1, <2>2 DEF InboxRows, InboxNoted, InboxSent
<1>8. "count" \in InboxStage /\ I!Goto(q, "count") /\ t.at = "read"
  BY DEF InboxStage, I!MarkMessagesRead
<1>9. PICK w \in InboxTask : /\ task' = [task EXCEPT ![q] = w] /\ w.at = "count" /\ w.todo = t.todo
                             /\ InboxSame(w, t)
  BY <1>8, InboxGoto
<1>10. InboxKnows(w)'
  BY <1>1, <1>8, <1>9 DEF InboxKnows, InboxBetween, InboxStands, InboxAsked, InboxChecks, InboxSends, InboxSame
<1>11. /\ notifications' \in Seq(InboxNote) /\ conversations \subseteq conversations'
       /\ \A c \in conversations' : \E a, b \in User : a # b /\ c = {a, b}
  BY <1>6 DEF InboxInv, InboxTypes
<1>12. QED
  BY <1>5, <1>6, <1>7, <1>9, <1>10, <1>11, InboxWrites

-----------------------------------------------------------------------------
(* The client is told. *)
LEMMA InboxTouches == ASSUME InboxInv, NEW q \in Task, I!Touch(q) PROVE InboxInv'
<1> DEFINE t == task[q]
<1>1. InboxKnows(t) /\ t \in InboxTask
  BY DEF InboxInv, InboxTypes
<1>2. /\ t.at = "touch" /\ t.kind = "dms" /\ t.type = "dm" /\ t.from \in User /\ t.to \in User /\ t.todo # <<>>
  BY <1>1 DEF I!Touch, InboxKnows, InboxBetween, InboxSends
<1>3. "count" \in InboxStage /\ I!Goto(q, "count") /\ I!Publish(t.to, "dms") /\ "dms" \in I!Kind
  BY DEF InboxStage, I!Touch, I!Kind
<1>4. InboxClient' /\ UNCHANGED I!tables
  BY <1>2, <1>3, InboxPublishes DEF I!Touch, InboxInv
<1>5. PICK w \in InboxTask : /\ task' = [task EXCEPT ![q] = w] /\ w.at = "count" /\ w.todo = t.todo
                             /\ InboxSame(w, t)
  BY <1>3, InboxGoto
<1>6. InboxKnows(w)
  BY <1>2, <1>5 DEF InboxKnows, InboxBetween, InboxStands, InboxAsked, InboxChecks, InboxSends, InboxSame, I!Kind
<1>7. QED
  BY <1>4, <1>5, <1>6, InboxQuiet

LEMMA InboxCounting ==
  ASSUME InboxInv, NEW q \in Task, task[q].at = "count"
  PROVE  /\ task[q].kind \in I!Kind /\ task[q].to \in User
         /\ task[q].todo \in Seq(User) /\ task[q].todo # <<>> /\ Head(task[q].todo) \in User
<1>1. InboxKnows(task[q]) /\ task[q] \in InboxTask
  BY DEF InboxInv, InboxTypes
<1>2. /\ task[q].kind \in I!Kind /\ task[q].to \in User
      /\ task[q].todo \in Seq(User) /\ task[q].todo # <<>>
  BY <1>1 DEF InboxKnows, InboxBetween, InboxTask
<1>3. QED
  BY <1>2, HeadTailProperties

LEMMA InboxGoesOn ==
  ASSUME InboxInv, NEW q \in Task, task[q].at = "count", I!Publishes(q)
  PROVE  \E new \in InboxTask : task' = [task EXCEPT ![q] = new] /\ InboxKnows(new)
<1> DEFINE t == task[q]
<1>1. InboxKnows(t) /\ t \in InboxTask /\ t.todo \in Seq(User) /\ t.todo # <<>>
  BY InboxCounting DEF InboxInv, InboxTypes
<1>2. CASE Len(t.todo) > 1
  <2> DEFINE d == Tail(t.todo)
             new == [t EXCEPT !.todo = d]
  <2>1. d \in Seq(User) /\ Len(d) = Len(t.todo) - 1 /\ Len(t.todo) \in Nat
    BY <1>1, HeadTailProperties, LenProperties
  <2>2. d # <<>>
    <3>1. Len(<<>>) = 0 /\ Len(d) > 0
      BY <1>2, <2>1, EmptySeq
    <3> HIDE DEF d
    <3>2. QED
      BY <3>1
  <2>3. task' = [task EXCEPT ![q] = new]
    BY <1>2 DEF I!Publishes
  <2> HIDE DEF d
  <2>4. new \in InboxTask /\ new.at = "count" /\ new.todo = d /\ InboxSame(new, t)
    BY <1>1, <2>1 DEF InboxTask, InboxSame
  <2> HIDE DEF new
  <2>5. InboxKnows(new)
    BY <1>1, <2>2, <2>4 DEF InboxKnows, InboxBetween, InboxTells, InboxStands, InboxAsked,
                            InboxChecks, InboxSends, InboxSame
  <2>6. QED
    BY <2>3, <2>4, <2>5
<1>3. CASE ~(Len(t.todo) > 1) /\ t.type \in {"one", "all", "dm"}
  <2> DEFINE new == [t EXCEPT !.at = "answer"]
  <2>1. task' = [task EXCEPT ![q] = new]
    BY <1>3 DEF I!Publishes
  <2>2. "answer" \in InboxStage
    BY DEF InboxStage
  <2>3. new \in InboxTask /\ new.at = "answer" /\ new.todo = t.todo /\ InboxSame(new, t)
    BY <1>1, <2>2 DEF InboxTask, InboxSame
  <2> HIDE DEF new
  <2>4. InboxKnows(new)
    BY <1>1, <1>3, <2>3 DEF InboxKnows, InboxBetween, InboxTells, InboxStands, InboxAsked,
                            InboxChecks, InboxSends, InboxSame
  <2>5. QED
    BY <2>1, <2>3, <2>4
<1>4. CASE ~(Len(t.todo) > 1) /\ t.type \notin {"one", "all", "dm"}
  <2>1. InboxTells(t) /\ t.from \in User
    BY <1>1, <1>4 DEF InboxKnows, InboxBetween
  <2>2. I!After(q) \in InboxTask /\ InboxKnows(I!After(q))
    BY <2>1, InboxAfter
  <2>3. task' = [task EXCEPT ![q] = I!After(q)]
    BY <1>4 DEF I!Publishes
  <2>4. QED
    BY <2>2, <2>3
<1>5. QED
  BY <1>2, <1>3, <1>4

LEMMA InboxTellsIt == ASSUME InboxInv, NEW q \in Task, I!PublishUnreadCount(q) \/ I!CountFails(q) PROVE InboxInv'
<1>1. task[q].at = "count" /\ I!Publishes(q) /\ UNCHANGED I!tables
  BY DEF I!PublishUnreadCount, I!CountFails
<1>2. task[q].kind \in I!Kind /\ Head(task[q].todo) \in User /\ InboxClient
  BY <1>1, InboxCounting DEF InboxInv
<1>3. InboxClient'
  <2>1. CASE I!PublishUnreadCount(q)
    BY <1>2, <2>1, InboxPublishes DEF I!PublishUnreadCount
  <2>2. CASE I!CountFails(q)
    <3>1. astray' \subseteq User \X I!Kind
      BY <1>2, <2>2, InboxMissed DEF I!CountFails
    <3>2. badge' = badge /\ fetch' = fetch /\ stream' = stream /\ resync' = resync
      BY <2>2 DEF I!CountFails, I!client
    <3>3. QED
      BY <1>2, <3>1, <3>2 DEF InboxClient
  <2>3. QED
    BY <2>1, <2>2
<1>4. PICK new \in InboxTask : task' = [task EXCEPT ![q] = new] /\ InboxKnows(new)
  BY <1>1, InboxGoesOn
<1>5. QED
  BY <1>1, <1>3, <1>4, InboxQuiet

LEMMA InboxAnswers == ASSUME InboxInv, NEW q \in Task, I!Answer(q) PROVE InboxInv'
<1>1. InboxKnows(task[q]) /\ task[q].at = "answer" /\ task[q].kind \in I!Kind /\ InboxClient
  BY DEF InboxInv, I!Answer, InboxKnows, InboxBetween
<1>2. fetch' \in [User -> [I!Kind -> Nat \cup {I!Idle, I!Asked}]]
  BY <1>1, InboxAsks DEF I!Answer
<1>3. InboxClient'
  BY <1>1, <1>2 DEF I!Answer, InboxClient, I!ghosts
<1>4. task' = [task EXCEPT ![q] = I!NoTask] /\ UNCHANGED I!tables
  BY DEF I!Answer
<1>5. QED
  BY <1>3, <1>4, InboxNoTask, InboxQuiet

LEMMA InboxFails == ASSUME InboxInv, NEW q \in Task, I!Fail(q) PROVE InboxInv'
<1> DEFINE t == task[q]
<1>1. InboxKnows(t) /\ t \in InboxTask /\ InboxClient /\ "dms" \in I!Kind
  BY DEF InboxInv, InboxTypes, I!Kind
<1>2. fetch' = fetch \/ fetch' \in [User -> [I!Kind -> Nat \cup {I!Idle, I!Asked}]]
  BY <1>1, InboxAsks DEF I!Fail
<1>3. astray' \subseteq User \X I!Kind
  <2>1. CASE t.at \in {"touch", "answer"} \/ t.type = "all"
    <3>1. t.at \in InboxStage /\ t.at \notin {"none", "count"}
      BY <1>1 DEF I!Fail, InboxTask
    <3>2. t.kind \in I!Kind /\ t.to \in User
      BY <1>1, <2>1, <3>1 DEF InboxKnows, InboxBetween, InboxTells, InboxStage, InboxChecks, InboxSends, I!Kind
    <3>3. astray' = I!Missed(t.to, t.kind)
      BY <2>1 DEF I!Fail
    <3>4. QED
      BY <1>1, <3>2, <3>3, InboxMissed
  <2>2. CASE ~(t.at \in {"touch", "answer"} \/ t.type = "all")
    BY <1>1, <2>2 DEF I!Fail, InboxClient
  <2>3. QED
    BY <2>1, <2>2
<1>4. InboxClient'
  BY <1>1, <1>2, <1>3 DEF I!Fail, InboxClient
<1>5. task' = [task EXCEPT ![q] = I!NoTask] /\ UNCHANGED I!tables
  BY DEF I!Fail
<1>6. QED
  BY <1>4, <1>5, InboxNoTask, InboxQuiet

-----------------------------------------------------------------------------
(* What has stood against a request still stands, or is held against it no longer. *)
LEMMA InboxChanges == ASSUME InboxAssumptions, InboxInv, I!Change PROVE InboxInv'
<1>1. rel \subseteq I!Rel /\ mentionsOff \subseteq User /\ task \in [Task -> InboxTask]
  BY DEF InboxInv, InboxTypes
<1>2. rel' \subseteq I!Rel /\ mentionsOff' \subseteq User
  BY <1>1 DEF I!Change
<1>3. /\ notifications' = notifications /\ conversations' = conversations /\ messages' = messages
      /\ badge' = badge /\ fetch' = fetch /\ stream' = stream /\ resync' = resync /\ astray' = astray
  BY DEF I!Change, I!client
<1>4. InboxClient' /\ InboxRows'
  BY <1>3 DEF InboxInv, InboxClient, InboxRows, InboxNoted, InboxSent
<1>5. ASSUME NEW q \in Task PROVE task'[q] \in InboxTask /\ InboxKnows(task[q])'
  <2> DEFINE t == task[q]
             h == t.held \cap I!Against(rel', mentionsOff', t.type, t.from, t.to)
             m == t.mixed \/ I!Mixed(rel', t.from, t.to)
             new == [t EXCEPT !.held = h, !.mixed = m]
  <2>1. t \in InboxTask /\ InboxKnows(t)
    BY <1>1 DEF InboxInv
  <2>2. CASE t.to = None \/ t.from = None
    <3>1. task'[q] = t
      BY <2>2 DEF I!Change
    <3>2. t.at \notin InboxChecks \cup InboxSends
      BY <2>1, <2>2 DEF InboxAssumptions, InboxKnows, InboxBetween
    <3>3. InboxKnows(task'[q])
      BY <2>1, <3>1
    <3>4. InboxKnows(task[q])'
      BY <1>3, <3>1, <3>2, <3>3 DEF InboxKnows, InboxBetween, InboxTells, InboxStands, InboxAsked
    <3>5. QED
      BY <2>1, <3>1, <3>4
  <2>3. CASE ~(t.to = None \/ t.from = None)
    <3>1. task'[q] = new
      BY <2>3 DEF I!Change
    <3>2. /\ m \in BOOLEAN /\ (t.mixed => m) /\ (I!Mixed(rel', t.from, t.to) => m)
          /\ h \subseteq t.held /\ h \subseteq I!Against(rel', mentionsOff', t.type, t.from, t.to)
      OBVIOUS
    <3>3. PICK hh \in SUBSET t.held, mm \in BOOLEAN :
            /\ task'[q] = [t EXCEPT !.held = hh, !.mixed = mm]
            /\ (t.mixed => mm) /\ (I!Mixed(rel', t.from, t.to) => mm)
            /\ hh \subseteq t.held /\ hh \subseteq I!Against(rel', mentionsOff', t.type, t.from, t.to)
      <4> HIDE DEF h, m
      <4>1. QED
        BY <3>1, <3>2
    <3>4. /\ task'[q] \in InboxTask /\ task'[q].held = hh /\ task'[q].mixed = mm
          /\ task'[q].at = t.at /\ task'[q].kind = t.kind /\ task'[q].type = t.type /\ task'[q].from = t.from
          /\ task'[q].to = t.to /\ task'[q].rest = t.rest /\ task'[q].todo = t.todo
      BY <2>1, <3>3 DEF InboxTask
    <3>5. InboxBetween(task[q])'
      BY <1>3, <2>1, <3>4 DEF InboxKnows, InboxBetween, InboxTells
    <3>6. InboxStands(task[q])'
      BY <3>3, <3>4 DEF InboxStands
    <3>7. InboxAsked(task[q])'
      BY <2>1, <3>3, <3>4 DEF InboxKnows, InboxAsked
    <3>8. QED
      BY <3>4, <3>5, <3>6, <3>7 DEF InboxKnows
  <2>4. QED
    BY <2>2, <2>3
<1>6. InboxTypes'
  <2>1. DOMAIN task' = Task /\ task' = [q \in Task |-> task'[q]]
    BY DEF I!Change
  <2>2. task' \in [Task -> InboxTask]
    BY <1>5, <2>1
  <2>3. QED
    BY <1>2, <1>3, <2>2 DEF InboxInv, InboxTypes
<1>7. QED
  BY <1>4, <1>5, <1>6 DEF InboxInv

LEMMA InboxStep == ASSUME InboxAssumptions, InboxInv, [I!Next]_(I!vars) PROVE InboxInv'
<1>1. ASSUME NEW q \in Task,
             \/ I!CreateForPost(q) \/ I!CreateMentionNotifications(q)
             \/ I!GetRelationship(q) \/ I!CheckMuted(q) \/ I!CheckSettings(q) \/ I!CreateNotification(q)
             \/ I!MarkRead(q) \/ I!MarkAllRead(q) \/ I!MarkNotificationsRead(q)
             \/ I!SendDm(q) \/ I!CheckBlocks(q) \/ I!GetOrCreateConversation(q) \/ I!AddMessage(q) \/ I!Touch(q)
             \/ I!MarkConversationRead(q) \/ I!MarkMessagesRead(q)
             \/ I!PublishUnreadCount(q) \/ I!CountFails(q) \/ I!Answer(q) \/ I!Fail(q)
      PROVE  InboxInv'
  BY <1>1, InboxCreates, InboxChecksIt, InboxNotes, InboxReads, InboxMarksNotes, InboxDms, InboxBlocks, InboxConverses,
     InboxSendsIt, InboxTouches, InboxMarksMessages, InboxTellsIt, InboxAnswers, InboxFails
<1>2. ASSUME NEW u \in User,
             \/ \E k \in I!Kind : I!HandleUnreadCount(u, k) \/ I!ShowCount(u, k)
             \/ I!Resync(u) \/ I!Disconnect(u) \/ I!Subscribe(u) \/ I!Greet(u)
      PROVE  InboxInv'
  BY <1>2, InboxShows
<1>3. CASE I!Change
  BY <1>3, InboxChanges
<1>4. CASE UNCHANGED I!vars
  <2>1. UNCHANGED I!tables /\ UNCHANGED I!client /\ task' = task /\ UNCHANGED I!ghosts
    BY <1>4 DEF I!vars
  <2>2. InboxClient'
    BY <2>1 DEF InboxInv, InboxClient, I!client, I!ghosts
  <2>3. QED
    BY <2>1, <2>2, InboxTalks
<1>5. QED
  BY <1>1, <1>2, <1>3, <1>4 DEF I!Next

(* What a request has asked about does not stand against it, or stood beside a mute. *)
THEOREM InboxInvariance == ASSUME InboxAssumptions PROVE I!Spec => []InboxInv
<1>1. I!Init => InboxInv
  BY InboxInit
<1>2. InboxInv /\ [I!Next]_(I!vars) => InboxInv'
  BY InboxStep
<1>3. QED
  BY <1>1, <1>2, PTL DEF I!Spec

LEMMA InboxTyped == ASSUME InboxAssumptions, InboxInv PROVE I!InboxTypeOK
<1>1. /\ rel \subseteq I!Rel /\ mentionsOff \subseteq User /\ notifications \in Seq(InboxNote) /\ messages \in Seq(InboxMessage)
      /\ InboxRows /\ InboxClient
  BY DEF InboxInv, InboxTypes
<1>2. DOMAIN notifications = 1 .. Len(notifications) /\ DOMAIN messages = 1 .. Len(messages)
  BY <1>1, LenProperties
<1>3. conversations \subseteq SUBSET User
  BY DEF InboxInv, InboxTypes
<1>4. ASSUME NEW q \in Task, task[q].at = "count" PROVE task[q].todo # <<>>
  BY <1>4, InboxCounting
<1>5. QED
  BY <1>1, <1>2, <1>3, <1>4 DEF I!InboxTypeOK, InboxClient, InboxRows, InboxNoted, InboxSent

LEMMA InboxOut == InboxInv => I!BlockedStayOut
<1> SUFFICES ASSUME InboxInv PROVE I!BlockedStayOut
  OBVIOUS
<1>1. notifications \in Seq(InboxNote) /\ messages \in Seq(InboxMessage) /\ InboxRows
  BY DEF InboxInv, InboxTypes
<1>2. DOMAIN notifications = 1 .. Len(notifications) /\ DOMAIN messages = 1 .. Len(messages)
  BY <1>1, LenProperties
<1>3. QED
  BY <1>1, <1>2 DEF I!BlockedStayOut, InboxRows, InboxNoted, InboxSent

-----------------------------------------------------------------------------
(* Mail. What was answered as received has a row: MailStays carries it from the INSERT to
   the answer, also when it was another delivery that inserted the row, and MailApart is
   the unique index. What the parser finds in a message is left to TLC. *)

MailRow == {M!ParseInboundMail(e, ts) : e \in M!Envelope, ts \in Nat}
MailDelivery == [at : {"none", "insert", "answer"}, envelope : M!Envelope \cup {None}, ts : Nat]

MailTypes ==
  /\ mails \in Seq(MailRow)
  /\ delivery \in [Courier -> MailDelivery]
  /\ sent \in Nat /\ received \subseteq M!Envelope
  /\ \A c \in Courier : delivery[c].at # "none" => delivery[c].envelope \in M!Envelope

(* the row of the message for this recipient, or the one with its Message-ID *)
MailHas(table, e) == \E i \in DOMAIN table : M!Stands(table[i], e)

(* What was answered, or is about to be, is there. *)
MailStays ==
  /\ \A e \in received : MailHas(mails, e)
  /\ \A c \in Courier : delivery[c].at = "answer" => MailHas(mails, delivery[c].envelope)

(* of one Message-ID there is one row *)
MailApart == \A i, j \in DOMAIN mails : i # j /\ mails[i].id = mails[j].id => mails[i].id = None

MailInv == MailTypes /\ MailStays /\ MailApart

LEMMA MailParsed ==
  ASSUME NEW e, NEW ts
  PROVE  LET y == M!ParseInboundMail(e, ts) IN y.of = e[1] /\ y.to = e[2] /\ y.id = IdOf[e[1]]
BY DEF M!ParseInboundMail

LEMMA MailCarried == ASSUME NEW e \in M!Envelope PROVE e[1] \in Message /\ e[2] \in ToOf[e[1]]
BY DEF M!Envelope

LEMMA MailReads == ASSUME MailTypes, NEW i \in DOMAIN mails
  PROVE  mails[i].of \in Message /\ mails[i].to \in ToOf[mails[i].of] /\ mails[i].id = IdOf[mails[i].of]
<1>1. mails[i] \in MailRow
  BY ElementOfSeq, LenProperties DEF MailTypes
<1>2. PICK e \in M!Envelope, ts \in Nat : mails[i] = M!ParseInboundMail(e, ts)
  BY <1>1 DEF MailRow
<1>3. QED
  BY <1>2, MailParsed, MailCarried

(* A delivery goes on, and no row goes. *)
LEMMA MailGoes ==
  ASSUME MailInv, NEW c \in Courier, NEW new \in MailDelivery, delivery' = [delivery EXCEPT ![c] = new],
         mails' \in Seq(MailRow), MailApart', sent' \in Nat, received' \subseteq M!Envelope,
         \A e \in M!Envelope : MailHas(mails, e) => MailHas(mails', e),
         new.at # "none" => new.envelope \in M!Envelope,
         new.at = "answer" => MailHas(mails', new.envelope),
         \A e \in received' \ received : MailHas(mails', e)
  PROVE  MailInv'
<1>1. delivery' \in [Courier -> MailDelivery]
  BY DEF MailInv, MailTypes
<1>2. ASSUME NEW d \in Courier
      PROVE  /\ delivery'[d].at # "none" => delivery'[d].envelope \in M!Envelope
             /\ delivery'[d].at = "answer" => MailHas(mails', delivery'[d].envelope)
  <2>1. CASE d = c
    <3>1. delivery'[d] = new
      BY <2>1 DEF MailInv, MailTypes
    <3>2. QED
      BY <3>1
  <2>2. CASE d # c
    <3>1. delivery'[d] = delivery[d]
      BY <2>2 DEF MailInv, MailTypes
    <3>2. delivery[d].at = "answer" => MailHas(mails, delivery[d].envelope) /\ delivery[d].envelope \in M!Envelope
      BY DEF MailInv, MailTypes, MailStays
    <3>3. QED
      BY <3>1, <3>2 DEF MailInv, MailTypes
  <2>3. QED
    BY <2>1, <2>2
<1>3. ASSUME NEW e \in received' PROVE MailHas(mails', e)
  BY DEF MailInv, MailTypes, MailStays
<1>4. MailTypes' /\ MailStays'
  BY <1>1, <1>2, <1>3 DEF MailTypes, MailStays
<1>5. QED
  BY <1>4 DEF MailInv

LEMMA MailOther ==
  ASSUME MailInv, NEW c \in Courier, M!Inbound(c) \/ M!Answer(c) \/ M!Drop(c)
  PROVE  MailInv'
<1>1. mails' = mails /\ mails \in Seq(MailRow) /\ MailApart' /\ sent \in Nat /\ received \subseteq M!Envelope
  BY DEF M!Inbound, M!Answer, M!Drop, MailInv, MailTypes, MailApart
<1>2. \A e \in M!Envelope : MailHas(mails, e) => MailHas(mails', e)
  BY <1>1 DEF MailHas
<1>3. M!Idle \in MailDelivery /\ M!Idle.at = "none"
  BY DEF M!Idle, MailDelivery
<1>4. CASE M!Inbound(c)
  <2>1. PICK e \in M!Envelope : delivery' = [delivery EXCEPT ![c] = [at |-> "insert", envelope |-> e, ts |-> sent + 1]]
    BY <1>4 DEF M!Inbound
  <2>2. PICK new : new = [at |-> "insert", envelope |-> e, ts |-> sent + 1]
    OBVIOUS
  <2>3. /\ delivery' = [delivery EXCEPT ![c] = new] /\ new.at = "insert" /\ new.envelope = e
        /\ new \in MailDelivery
    BY <1>1, <2>1, <2>2 DEF MailDelivery
  <2>4. sent' \in Nat /\ received' = received
    BY <1>1, <1>4 DEF M!Inbound
  <2>5. QED
    BY <1>1, <1>2, <2>3, <2>4, MailGoes
<1>5. CASE M!Answer(c)
  <2>1. delivery[c].at = "answer" /\ delivery[c].envelope \in M!Envelope /\ MailHas(mails, delivery[c].envelope)
    BY <1>5 DEF M!Answer, MailInv, MailTypes, MailStays
  <2>2. received' \subseteq received \cup {delivery[c].envelope} /\ sent' = sent
        /\ delivery' = [delivery EXCEPT ![c] = M!Idle]
    BY <1>5 DEF M!Answer
  <2>3. \A e \in received' \ received : MailHas(mails', e)
    BY <1>2, <2>1, <2>2
  <2>4. received' \subseteq M!Envelope
    BY <1>1, <2>1, <2>2
  <2>5. QED
    BY <1>1, <1>2, <1>3, <2>2, <2>3, <2>4, MailGoes
<1>6. CASE M!Drop(c)
  BY <1>1, <1>2, <1>3, <1>6, MailGoes DEF M!Drop
<1>7. QED
  BY <1>4, <1>5, <1>6

(* The unique index: a row is added if its Message-ID is not there. *)
LEMMA MailInserts == ASSUME MailInv, NEW c \in Courier, M!Insert(c) PROVE MailInv'
<1> DEFINE e == delivery[c].envelope
           row == M!ParseInboundMail(e, delivery[c].ts)
<1>1. delivery[c] \in MailDelivery /\ delivery[c].at = "insert" /\ e \in M!Envelope /\ delivery[c].ts \in Nat
  BY DEF M!Insert, MailInv, MailTypes, MailDelivery
<1>2. row \in MailRow /\ row.of = e[1] /\ row.to = e[2] /\ row.id = IdOf[e[1]]
  BY <1>1, MailParsed DEF MailRow
<1>3. mails' = IF M!Conflicts(row.id) THEN mails ELSE Append(mails, row)
  BY DEF M!Insert
<1> HIDE DEF row
<1>4. PICK new : new = [delivery[c] EXCEPT !.at = "answer"]
  OBVIOUS
<1>5. new \in MailDelivery /\ new.at = "answer" /\ new.envelope = e
  BY <1>1, <1>4 DEF MailDelivery
<1>6. /\ delivery' = [delivery EXCEPT ![c] = new]
      /\ sent' = sent /\ received' = received /\ sent \in Nat /\ received \subseteq M!Envelope
  BY <1>4 DEF M!Insert, MailInv, MailTypes
<1>7. mails \in Seq(MailRow) /\ DOMAIN mails = 1 .. Len(mails) /\ Len(mails) \in Nat
  BY LenProperties DEF MailInv, MailTypes
<1>8. CASE M!Conflicts(row.id)
  <2>1. mails' = mails
    BY <1>3, <1>8
  <2>2. MailHas(mails, e)
    BY <1>2, <1>8 DEF M!Conflicts, M!Stands, MailHas
  <2>3. MailApart' /\ \A a \in M!Envelope : MailHas(mails, a) => MailHas(mails', a)
    BY <2>1 DEF MailInv, MailApart, MailHas
  <2>4. MailHas(mails', new.envelope)
    <3>1. MailHas(mails, e) => \E i \in DOMAIN mails' : M!Stands(mails'[i], e)
      BY <2>1 DEF MailHas
    <3>2. QED
      BY <1>5, <2>2, <3>1 DEF MailHas
  <2>5. QED
    BY <1>1, <1>5, <1>6, <1>7, <2>1, <2>3, <2>4, MailGoes
<1>9. CASE ~M!Conflicts(row.id)
  <2>1. mails' = Append(mails, row)
    BY <1>3, <1>9
  <2>2. /\ mails' \in Seq(MailRow) /\ Len(mails') = Len(mails) + 1 /\ mails'[Len(mails) + 1] = row
        /\ \A i \in 1 .. Len(mails) : mails'[i] = mails[i]
    BY <1>2, <1>7, <2>1, AppendProperties
  <2>3. DOMAIN mails' = 1 .. Len(mails) + 1
    BY <2>2, LenProperties
  <2>4. \A a \in M!Envelope : MailHas(mails, a) => MailHas(mails', a)
    BY <1>7, <2>2, <2>3 DEF MailHas
  <2>5. MailHas(mails', new.envelope)
    <3>1. Len(mails) + 1 \in DOMAIN mails' /\ M!Stands(mails'[Len(mails) + 1], e)
      BY <1>2, <1>7, <2>2, <2>3 DEF M!Stands
    <3>2. QED
      BY <1>5, <3>1 DEF MailHas
  <2>6. MailApart'
    <3>1. \A i \in 1 .. Len(mails) : row.id # None => mails[i].id # row.id
      BY <1>7, <1>9 DEF M!Conflicts
    <3>2. \A i, j \in 1 .. Len(mails) : i # j /\ mails[i].id = mails[j].id => mails[i].id = None
      BY <1>7 DEF MailInv, MailApart
    <3>3. \A i \in DOMAIN mails' : i \in 1 .. Len(mails) \/ i = Len(mails) + 1
      BY <1>7, <2>3
    <3>4. ASSUME NEW i \in DOMAIN mails', NEW j \in DOMAIN mails', i # j, mails'[i].id = mails'[j].id
          PROVE  mails'[i].id = None
      <4>1. CASE i \in 1 .. Len(mails) /\ j \in 1 .. Len(mails)
        BY <2>2, <3>2, <3>4, <4>1
      <4>2. CASE i \in 1 .. Len(mails) /\ j = Len(mails) + 1
        BY <2>2, <3>1, <3>4, <4>2
      <4>3. CASE i = Len(mails) + 1 /\ j \in 1 .. Len(mails)
        BY <2>2, <3>1, <3>4, <4>3
      <4>4. QED
        BY <3>3, <3>4, <4>1, <4>2, <4>3
    <3>5. QED
      BY <3>4 DEF MailApart
  <2>7. QED
    BY <1>1, <1>5, <1>6, <2>2, <2>4, <2>5, <2>6, MailGoes
<1>10. QED
  BY <1>8, <1>9

(* Types, a row for what was answered, and the unique index. *)
THEOREM MailInvariance == M!Spec => []MailInv
<1>1. M!Init => MailInv
  <2> SUFFICES ASSUME M!Init PROVE MailInv
    OBVIOUS
  <2>1. mails = <<>> /\ mails \in Seq(MailRow) /\ DOMAIN mails = {}
    BY EmptySeq DEF M!Init
  <2>2. M!Idle \in MailDelivery /\ M!Idle.at = "none"
    BY DEF M!Idle, MailDelivery
  <2>3. QED
    BY <2>1, <2>2 DEF M!Init, MailInv, MailTypes, MailStays, MailApart
<1>2. MailInv /\ [M!Next]_(M!vars) => MailInv'
  <2> SUFFICES ASSUME MailInv, [M!Next]_(M!vars) PROVE MailInv'
    OBVIOUS
  <2>1. CASE M!Next
    BY <2>1, MailOther, MailInserts DEF M!Next
  <2>2. CASE UNCHANGED M!vars
    <3>1. mails' = mails /\ delivery' = delivery /\ sent' = sent /\ received' = received
      BY <2>2 DEF M!vars
    <3>2. \A e : MailHas(mails, e) => MailHas(mails', e)
      BY <3>1 DEF MailHas
    <3>3. MailTypes' /\ MailApart'
      BY <3>1 DEF MailInv, MailTypes, MailApart
    <3>4. MailStays'
      BY <3>1, <3>2 DEF MailInv, MailStays
    <3>5. QED
      BY <3>3, <3>4 DEF MailInv
  <2>3. QED
    BY <2>1, <2>2
<1>3. QED
  BY <1>1, <1>2, PTL DEF M!Spec

LEMMA MailTyped == ASSUME MailInv PROVE M!MailTypeOK
BY MailReads DEF MailInv, MailTypes, MailDelivery, M!MailTypeOK
=============================================================================
