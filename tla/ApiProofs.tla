------------------------------ MODULE ApiProofs ------------------------------
(***************************************************************************)
(* Proofs about Api, for any values of its constants: a behaviour of the   *)
(* whole is one of a single part while the others rest, and what is proved *)
(* of the part holds of the whole. The longest arguments about parts come  *)
(* first: what a walk through a listing shows, and what the badges of a    *)
(* client come to show.                                                    *)
(***************************************************************************)
EXTENDS Api, PartsProofs, NaturalsInduction, WellFoundedInduction

-----------------------------------------------------------------------------
(* A walk through a listing. A page is made of what comes after its cursor, and the cursor
   it hands out comes after the page (FeedsOnce), so that nothing is shown twice; what has
   been there and to be seen throughout was shown, or comes after the cursor (FeedsWhole),
   so that it has been shown when the walk is over. That needs the pages of each query to
   be so, which FeedsGood says of one, and for ancestors what the chain of parents is. *)

LEMMA FeedsSize == ASSUME NEW X PROVE F!Cardinality(X) = Cardinality(X)
BY DEF F!Cardinality, Cardinality

(* IDs and times are numbers, a finite number of rows is listed, and a post is newer than
   the one it replies to, which was there first. *)
FeedsSerial ==
  /\ IsFiniteSet(Listed) /\ Listed \subseteq Nat \ {0} /\ Listed # {} /\ None \notin Listed /\ PerSecond \in Nat \ {0}
  /\ \A s \in ListingStart :
       /\ \A x \in DOMAIN s.marks : s.marks[x].at \in Nat
       /\ \A p \in Listed : s.posts[p].parent # None => s.posts[p].parent < p

(* what a walk is ordered by *)
FeedsListed == IF listing \in F!OfMarks THEN DOMAIN marks ELSE Listed

(* the cursors of these do not agree with their order *)
FeedsRegular == listing \notin F!Crowd \cup {"following"}

FeedsReading == step \in {"hydrate", "statuses", "filter"}

(* x comes after the cursor c *)
FeedsComes(kind, at, x, c) ==
  \/ c = F!NoCursor
  \/ kind \in F!Keyset \cup F!ByInstant \cup F!BySecond /\ at < c.at
  \/ kind \in F!Keyset /\ at = c.at /\ x < c.id
  \/ kind = "ancestors" /\ x < c.id

FeedsAfter(x, c) == FeedsComes(listing, F!Time(x), x, c)

(* rows have times, and hang from older ones *)
FeedsTimes ==
  /\ \A x \in FeedsListed : F!Time(x) \in Nat
  /\ \A p \in Listed : posts[p].parent # None => posts[p].parent < p
  /\ DOMAIN marks \subseteq Listed /\ removed \subseteq DOMAIN marks /\ limit \in Nat \ {0}
  /\ listing \in F!Listing

(* a page is what comes after the cursor, and the next cursor comes after the page *)
FeedsOnce ==
  FeedsRegular =>
    /\ twice = {}
    /\ shown \subseteq FeedsListed /\ (FeedsReading => ids \subseteq FeedsListed)
    /\ step # "done" => \A x \in shown : ~FeedsAfter(x, cursor)
    /\ FeedsReading => \A x \in ids : FeedsAfter(x, cursor)
    /\ FeedsReading /\ next # F!NoCursor =>
         /\ \A x \in ids : ~FeedsAfter(x, next)
         /\ \A x \in FeedsListed : FeedsAfter(x, next) => FeedsAfter(x, cursor)

(* a listing that leaves out what the cursor cannot tell apart *)
FeedsTorn ==
  \/ listing \in F!ByInstant /\ ~F!Apart(F!Same)
  \/ listing \in F!BySecond /\ ~F!Apart(F!Second)
  \/ listing = "ancestors" /\ \E i \in DOMAIN F!Ancestors[F!Leaf] : F!Ancestors[F!Leaf][i] \notin F!Alive

(* the cursors of ancestors are ancestors *)
FeedsOnChain(c) == \E i \in DOMAIN F!Ancestors[F!Leaf] : F!Ancestors[F!Leaf][i] = c.id

FeedsChain ==
  listing = "ancestors" =>
    /\ cursor # F!NoCursor => FeedsOnChain(cursor)
    /\ FeedsReading /\ next # F!NoCursor => FeedsOnChain(next)

(* what stood throughout was shown, or is still to come *)
FeedsWhole ==
  /\ stable \subseteq F!CanBeShown
  /\ step \in {"statuses", "filter"} => listing \in F!OfPosts
  /\ FeedsReading /\ listing = "followers" => cursor = F!NoCursor
  /\ step = "filter" => \A x \in stable : F!CanSee(x, following, private)
  /\ FeedsRegular /\ ~FeedsTorn =>
       /\ step = "done" => stable \subseteq shown
       /\ step # "done" =>
            \A x \in stable : x \in shown \/ FeedsAfter(x, cursor) \/ (listing = "followers" /\ cursor # F!NoCursor)
       /\ FeedsReading =>
            \A x \in stable : FeedsAfter(x, cursor) =>
              x \in ids \/ (next # F!NoCursor /\ (FeedsAfter(x, next) \/ listing = "followers"))

(* a page that is not there any more was read before a change *)
FeedsRace ==
  /\ asked \in Nat /\ feedChanges \in Nat /\ asked <= feedChanges
  /\ step = "hydrate" /\ feedChanges = asked /\ listing \in F!OfPosts =>
       ids \subseteq F!Alive \/ (listing = "descendants" /\ ~(F!DescendantRows \subseteq F!Alive))
  /\ F!FailsOnlyByRace

-----------------------------------------------------------------------------
(* Order. A finite set has a least element, and LIMIT finds a page in it. *)
LEMMA FeedsLeast ==
  ASSUME NEW fetched, IsFiniteSet(fetched), fetched # {}, NEW less,
         \A x \in fetched : <<x, x>> \notin less,
         \A x, y, z \in fetched : <<x, y>> \in less /\ <<y, z>> \in less => <<x, z>> \in less
  PROVE  \E x \in fetched : \A y \in fetched : <<y, x>> \notin less
<1> DEFINE Good(some) == \E x \in some : \A y \in some : <<y, x>> \notin less
           bad == {some \in SUBSET fetched : some # {} /\ ~Good(some)}
<1>1. SUFFICES ASSUME bad # {} PROVE FALSE
  OBVIOUS
<1>2. bad \subseteq FiniteSubsetsOf(fetched)
  BY FS_Subset DEF FiniteSubsetsOf
<1>3. PICK some \in bad : \A other \in bad : <<other, some>> \notin StrictSubsetOrdering(fetched)
  <2> HIDE DEF bad
  <2>1. IsWellFoundedOn(StrictSubsetOrdering(fetched), FiniteSubsetsOf(fetched))
    BY FS_StrictSubsetOrderingWellFounded
  <2>2. QED
    BY <1>1, <1>2, <2>1, WFMin
<1>4. PICK x \in some : TRUE
  OBVIOUS
<1>5. some \ {x} # {}
  BY <1>4
<1>6. Good(some \ {x})
  <2>1. <<some \ {x}, some>> \in StrictSubsetOrdering(fetched)
    BY <1>4 DEF StrictSubsetOrdering
  <2>2. some \ {x} \notin bad
    BY <1>3, <2>1
  <2>3. QED
    BY <1>5, <2>2
<1>7. PICK m \in some \ {x} : \A y \in some \ {x} : <<y, m>> \notin less
  BY <1>6
<1>8. CASE <<x, m>> \in less
  BY <1>4, <1>7, <1>8
<1>9. CASE <<x, m>> \notin less
  BY <1>4, <1>7, <1>9
<1>10. QED
  BY <1>8, <1>9

LEMMA FeedsTop ==
  ASSUME NEW fetched, IsFiniteSet(fetched), NEW k \in Nat, k <= Cardinality(fetched), NEW less,
         \A x \in fetched : <<x, x>> \notin less,
         \A x, y, z \in fetched : <<x, y>> \in less /\ <<y, z>> \in less => <<x, z>> \in less
  PROVE  \E page \in SUBSET fetched : Cardinality(page) = k /\ \A x \in page, y \in fetched \ page : <<x, y>> \notin less
<1> DEFINE Upper(some) == \A x \in some, y \in fetched \ some : <<x, y>> \notin less
           uppers == {some \in SUBSET fetched : k <= Cardinality(some) /\ Upper(some)}
<1>1. fetched \in uppers
  OBVIOUS
<1>2. uppers \subseteq FiniteSubsetsOf(fetched)
  BY FS_Subset DEF FiniteSubsetsOf
<1>3. PICK page \in uppers : \A other \in uppers : <<other, page>> \notin StrictSubsetOrdering(fetched)
  <2> HIDE DEF uppers
  <2>1. IsWellFoundedOn(StrictSubsetOrdering(fetched), FiniteSubsetsOf(fetched))
    BY FS_StrictSubsetOrderingWellFounded
  <2>2. QED
    BY <1>1, <1>2, <2>1, WFMin
<1>4. page \in SUBSET fetched /\ k <= Cardinality(page) /\ Upper(page)
  OBVIOUS
<1>5. IsFiniteSet(page) /\ Cardinality(page) \in Nat
  BY <1>4, FS_Subset, FS_CardinalityType
<1>6. ASSUME k < Cardinality(page) PROVE FALSE
  <2>1. page # {}
    BY <1>6, FS_EmptySet
  <2>2. PICK x \in page : \A y \in page : <<y, x>> \notin less
    <3>1. /\ \A y \in page : <<y, y>> \notin less
          /\ \A u, v, w \in page : <<u, v>> \in less /\ <<v, w>> \in less => <<u, w>> \in less
      BY <1>4
    <3>2. QED
      BY <1>5, <2>1, <3>1, FeedsLeast
  <2>3. k <= Cardinality(page \ {x})
    <3>1. Cardinality(page \ {x}) = Cardinality(page) - 1
      BY <1>5, FS_RemoveElement
    <3>2. QED
      BY <1>5, <1>6, <3>1
  <2>4. Upper(page \ {x})
    BY <1>4, <2>2
  <2>5. page \ {x} \in uppers
    BY <1>4, <2>3, <2>4
  <2>6. <<page \ {x}, page>> \in StrictSubsetOrdering(fetched)
    BY <1>4, <2>2 DEF StrictSubsetOrdering
  <2>7. QED
    BY <1>3, <2>5, <2>6
<1>7. Cardinality(page) = k
  BY <1>4, <1>5, <1>6
<1>8. QED
  BY <1>4, <1>7

-----------------------------------------------------------------------------
(* The page of a query: the first rows of what it lists, and the last of them. *)
LEMMA FeedsNewer ==
  ASSUME FeedsTimes, Listed \subseteq Nat \ {0}
  PROVE  /\ FeedsListed \subseteq Listed
         /\ \A x \in FeedsListed : F!Time(x) \in Nat /\ ~F!Newer(x, x)
         /\ \A x, y, z \in FeedsListed : F!Newer(x, y) /\ F!Newer(y, z) => F!Newer(x, z)
<1>1. FeedsListed \subseteq Listed /\ \A x \in FeedsListed : F!Time(x) \in Nat /\ x \in Nat
  BY DEF FeedsListed, FeedsTimes
<1>2. QED
  BY <1>1 DEF F!Newer

LEMMA FeedsFirst ==
  ASSUME FeedsTimes, Listed \subseteq Nat \ {0}, IsFiniteSet(Listed), NEW fetched, fetched \subseteq FeedsListed
  PROVE  /\ F!FirstOf(fetched) # {}
         /\ \A page \in F!FirstOf(fetched) :
              /\ page \subseteq fetched /\ Cardinality(page) \in Nat
              /\ page # {} => F!LastOf(page) # {}
              /\ Cardinality(page) = limit => F!LastOf(page) # {}
              /\ Cardinality(page) = limit \/ page = fetched
              /\ ~(Cardinality(fetched) > limit) => page = fetched
              /\ Cardinality(fetched) > limit => F!LastOf(page) # {}
<1> DEFINE older == {w \in fetched \X fetched : F!Newer(w[2], w[1])}
<1>1. IsFiniteSet(fetched) /\ Cardinality(fetched) \in Nat /\ limit \in Nat \ {0}
  BY FeedsNewer, FS_Subset, FS_CardinalityType DEF FeedsTimes
<1>2. \A x, y \in fetched : <<x, y>> \in older <=> F!Newer(y, x)
  OBVIOUS
<1>3. /\ \A x \in fetched : <<x, x>> \notin older
      /\ \A x, y, z \in fetched : <<x, y>> \in older /\ <<y, z>> \in older => <<x, z>> \in older
  BY <1>2, FeedsNewer
<1> HIDE DEF older
<1>4. F!FirstOf(fetched) # {}
  <2>1. PICK k \in Nat : k = (IF Cardinality(fetched) < limit THEN Cardinality(fetched) ELSE limit)
    BY <1>1
  <2>2. k <= Cardinality(fetched)
    BY <1>1, <2>1
  <2>3. PICK page \in SUBSET fetched : Cardinality(page) = k /\ \A x \in page, y \in fetched \ page : <<x, y>> \notin older
    <3>1. IsFiniteSet(fetched)
      BY <1>1
    <3>2. \A x \in fetched : <<x, x>> \notin older
      BY <1>3
    <3>3. \A x, y, z \in fetched : <<x, y>> \in older /\ <<y, z>> \in older => <<x, z>> \in older
      BY <1>3
    <3>4. QED
      BY <2>2, <3>1, <3>2, <3>3, FeedsTop
  <2>4. page \in F!FirstOf(fetched)
    BY <1>2, <2>1, <2>3, FeedsSize DEF F!FirstOf
  <2>5. QED
    BY <2>4
<1>5. ASSUME NEW page \in F!FirstOf(fetched)
      PROVE  /\ page \subseteq fetched /\ IsFiniteSet(page) /\ Cardinality(page) \in Nat
             /\ Cardinality(page) = IF Cardinality(fetched) < limit THEN Cardinality(fetched) ELSE limit
  <2>1. /\ page \in SUBSET fetched
        /\ Cardinality(page) = IF Cardinality(fetched) < limit THEN Cardinality(fetched) ELSE limit
    BY FeedsSize DEF F!FirstOf
  <2>2. IsFiniteSet(page) /\ Cardinality(page) \in Nat
    BY <1>1, <2>1, FS_Subset, FS_CardinalityType
  <2>3. QED
    BY <2>1, <2>2
<1>6. ASSUME NEW page \in F!FirstOf(fetched), page # {} PROVE F!LastOf(page) # {}
  <2>1. PICK x \in page : \A y \in page : <<y, x>> \notin older
    <3>1. /\ \A x \in page : <<x, x>> \notin older
          /\ \A x, y, z \in page : <<x, y>> \in older /\ <<y, z>> \in older => <<x, z>> \in older
      BY <1>3, <1>5
    <3>2. QED
      BY <1>5, <1>6, <3>1, FeedsLeast
  <2>2. x \in F!LastOf(page)
    BY <1>2, <1>5, <2>1 DEF F!LastOf
  <2>3. QED
    BY <2>2
<1>7. ASSUME NEW page \in F!FirstOf(fetched), Cardinality(page) = limit PROVE page # {}
  BY <1>1, <1>7, FS_EmptySet
<1>8. ASSUME NEW page \in F!FirstOf(fetched), ~(Cardinality(fetched) > limit) PROVE page = fetched
  <2>1. Cardinality(page) = Cardinality(fetched)
    BY <1>1, <1>5, <1>8
  <2>2. QED
    BY <1>1, <1>5, <2>1, FS_Subset
<1>9. ASSUME NEW page \in F!FirstOf(fetched) PROVE Cardinality(page) = limit \/ page = fetched
  <2>1. CASE Cardinality(fetched) < limit
    BY <1>1, <1>8, <2>1
  <2>2. CASE ~(Cardinality(fetched) < limit)
    BY <1>5, <2>2
  <2>3. QED
    BY <2>1, <2>2
<1>10. ASSUME NEW page \in F!FirstOf(fetched), Cardinality(fetched) > limit PROVE Cardinality(page) = limit
  BY <1>1, <1>5, <1>10
<1>11. QED
  BY <1>4, <1>5, <1>6, <1>7, <1>8, <1>9, <1>10

(* What is left for the pages that follow, and what is not. *)
LEMMA FeedsLast ==
  ASSUME FeedsTimes, Listed \subseteq Nat \ {0}, NEW fetched, fetched \subseteq FeedsListed,
         NEW page \in F!FirstOf(fetched), NEW z \in F!LastOf(page)
  PROVE  /\ z \in page /\ page \subseteq fetched
         /\ \A x \in page : F!Time(x) >= F!Time(z) /\ (F!Time(x) = F!Time(z) /\ listing \in F!Keyset => x >= z)
         /\ \A x \in fetched \ page :
              \/ F!Time(x) < F!Time(z)
              \/ F!Time(x) = F!Time(z) /\ listing \notin F!Keyset /\ x # z
              \/ F!Time(x) = F!Time(z) /\ listing \in F!Keyset /\ x < z
<1>1. page \subseteq fetched /\ \A x \in page, y \in fetched \ page : ~F!Newer(y, x)
  BY DEF F!FirstOf
<1>2. z \in page /\ \A y \in page : ~F!Newer(z, y)
  BY DEF F!LastOf
<1>3. \A x \in fetched : x \in Nat /\ F!Time(x) \in Nat
  BY FeedsNewer
<1>4. ASSUME NEW x \in page PROVE F!Time(x) >= F!Time(z) /\ (F!Time(x) = F!Time(z) /\ listing \in F!Keyset => x >= z)
  BY <1>1, <1>2, <1>3, <1>4 DEF F!Newer
<1>5. ASSUME NEW x \in fetched \ page
      PROVE  \/ F!Time(x) < F!Time(z)
             \/ F!Time(x) = F!Time(z) /\ listing \notin F!Keyset /\ x # z
             \/ F!Time(x) = F!Time(z) /\ listing \in F!Keyset /\ x < z
  BY <1>1, <1>2, <1>3, <1>5 DEF F!Newer
<1>6. QED
  BY <1>1, <1>2, <1>4, <1>5

-----------------------------------------------------------------------------
(* The rows of a listing *)
LEMMA FeedsRowsOf ==
  /\ listing = "home" => F!Rows = F!HomeRows
  /\ listing = "list" => F!Rows = F!ListRows
  /\ listing \in {"user", "all"} => F!Rows = F!UserRows(listing = "all")
  /\ listing \in {"replies", "media"} => F!Rows = F!ModeRows(listing)
  /\ listing = "search" => F!Rows = F!SearchRows(FALSE)
  /\ listing = "hashtag" => F!Rows = F!HashtagRows
  /\ listing = "mentions" => F!Rows = F!MentionRows
  /\ listing = "quotes" => F!Rows = F!QuoteRows
  /\ listing = "descendants" => F!Rows = F!DescendantRows
  /\ listing = "ancestors" => F!Rows = {F!Ancestors[F!Leaf][i] : i \in DOMAIN F!Ancestors[F!Leaf]} \cap F!Alive
  /\ listing = "liked" => F!Rows = F!LikedRows
  /\ listing = "bookmarks" => F!Rows = F!BookmarkRows
  /\ listing \in {"messages", "notifications", "members", "followers", "following", "likers", "reposters"} => F!Rows = F!Marked
BY DEF F!Rows

LEMMA FeedsRowsListed ==
  ASSUME FeedsTimes
  PROVE  /\ F!Rows \subseteq FeedsListed
         /\ listing \in F!OfPosts \ {"descendants"} => F!Rows \subseteq F!Alive
<1>1. F!Alive \subseteq Listed /\ F!Marked \subseteq DOMAIN marks /\ DOMAIN marks \subseteq Listed
  BY DEF FeedsTimes, F!Alive, F!Marked
<1>2. /\ F!HomeRows \subseteq F!Alive /\ F!ListRows \subseteq F!Alive /\ F!UserRows(listing = "all") \subseteq F!Alive
      /\ F!ModeRows(listing) \subseteq F!Alive /\ F!SearchRows(FALSE) \subseteq F!Alive
      /\ F!HashtagRows \subseteq F!Alive /\ F!MentionRows \subseteq F!Alive /\ F!QuoteRows \subseteq F!Alive
      /\ F!DescendantRows \subseteq Listed /\ F!LikedRows \subseteq F!Marked \cap F!Alive /\ F!BookmarkRows \subseteq F!Marked \cap F!Alive
  BY DEF F!HomeRows, F!ListRows, F!UserRows, F!ModeRows, F!SearchRows, F!HashtagRows, F!MentionRows, F!QuoteRows,
         F!DescendantRows, F!LikedRows, F!BookmarkRows, F!TopLevel
<1>3. CASE listing \in {"home", "list", "user", "all", "replies", "media", "search", "hashtag", "mentions",
                        "quotes", "ancestors"}
  <2>1. F!Rows \subseteq F!Alive
    BY <1>2, <1>3, FeedsRowsOf
  <2>2. FeedsListed = Listed
    BY <1>3 DEF FeedsListed, F!OfMarks, F!Crowd
  <2>3. QED
    BY <1>1, <2>1, <2>2
<1>4. CASE listing = "descendants"
  <2>1. FeedsListed = Listed
    BY <1>4 DEF FeedsListed, F!OfMarks, F!Crowd
  <2>2. QED
    BY <1>2, <1>4, <2>1, FeedsRowsOf
<1>5. CASE listing \in {"liked", "bookmarks"}
  <2>1. F!Rows \subseteq F!Marked \cap F!Alive
    BY <1>2, <1>5, FeedsRowsOf
  <2>2. FeedsListed = DOMAIN marks
    BY <1>5 DEF FeedsListed, F!OfMarks, F!Crowd
  <2>3. QED
    BY <1>1, <2>1, <2>2
<1>6. CASE listing \in {"messages", "notifications", "members", "followers", "following", "likers", "reposters"}
  <2>1. F!Rows = F!Marked
    BY <1>6, FeedsRowsOf
  <2>2. FeedsListed = DOMAIN marks /\ listing \notin F!OfPosts
    BY <1>6 DEF FeedsListed, F!OfMarks, F!OfPosts, F!Crowd
  <2>3. QED
    BY <1>1, <2>1, <2>2
<1>7. QED
  <2>1. listing \in F!Listing
    BY DEF FeedsTimes
  <2>2. QED
    BY <1>3, <1>4, <1>5, <1>6, <2>1 DEF F!Listing, F!Keyset, F!ByInstant, F!BySecond, F!Crowd

-----------------------------------------------------------------------------
(* The pages of the queries *)
FeedsFinite == IsFiniteSet(Listed) /\ Listed \subseteq Nat \ {0}

(* Each is the first of the rows, with the cursor of its last unless they are all on it. *)
LEMMA FeedsExactFull ==
  ASSUME FeedsTimes, FeedsFinite, NEW fetched, fetched \subseteq FeedsListed
  PROVE  /\ F!FullPages(fetched, F!Exact) # {}
         /\ \A page \in F!FullPages(fetched, F!Exact) :
              /\ page.ids \in F!FirstOf(fetched)
              /\ \/ page.next = F!NoCursor /\ page.ids = fetched
                 \/ \E z \in F!LastOf(page.ids) : page.next = F!Exact(z)
<1> DEFINE pages == F!FullPages(fetched, F!Exact)
<1>1. /\ F!FirstOf(fetched) # {}
      /\ \A some \in F!FirstOf(fetched) :
           /\ Cardinality(some) = limit => F!LastOf(some) # {}
           /\ ~(Cardinality(some) = limit) => some = fetched
  BY FeedsFirst DEF FeedsFinite
<1>2. \A page : page \in pages <=>
        \E some \in F!FirstOf(fetched) :
          IF Cardinality(some) = limit THEN \E z \in F!LastOf(some) : page = [ids |-> some, next |-> F!Exact(z)]
          ELSE page = [ids |-> some, next |-> F!NoCursor]
  BY FeedsSize DEF F!FullPages
<1> HIDE DEF pages
<1>3. \E page : page \in pages
  BY <1>1, <1>2
<1>4. ASSUME NEW page \in pages
      PROVE  /\ page.ids \in F!FirstOf(fetched)
             /\ \/ page.next = F!NoCursor /\ page.ids = fetched
                \/ \E z \in F!LastOf(page.ids) : page.next = F!Exact(z)
  BY <1>1, <1>2
<1>5. QED
  BY <1>3, <1>4 DEF pages

LEMMA FeedsExactMore ==
  ASSUME FeedsTimes, FeedsFinite, NEW fetched, fetched \subseteq FeedsListed
  PROVE  /\ F!MorePages(fetched, F!Exact) # {}
         /\ \A page \in F!MorePages(fetched, F!Exact) :
              /\ page.ids \in F!FirstOf(fetched)
              /\ \/ page.next = F!NoCursor /\ page.ids = fetched
                 \/ \E z \in F!LastOf(page.ids) : page.next = F!Exact(z)
<1> DEFINE pages == F!MorePages(fetched, F!Exact)
<1>1. /\ F!FirstOf(fetched) # {}
      /\ \A some \in F!FirstOf(fetched) :
           /\ Cardinality(fetched) > limit => F!LastOf(some) # {}
           /\ ~(Cardinality(fetched) > limit) => some = fetched
  BY FeedsFirst DEF FeedsFinite
<1>2. \A page : page \in pages <=>
        \E some \in F!FirstOf(fetched) :
          IF Cardinality(fetched) > limit THEN \E z \in F!LastOf(some) : page = [ids |-> some, next |-> F!Exact(z)]
          ELSE page = [ids |-> some, next |-> F!NoCursor]
  BY FeedsSize DEF F!MorePages
<1> HIDE DEF pages
<1>3. \E page : page \in pages
  BY <1>1, <1>2
<1>4. ASSUME NEW page \in pages
      PROVE  /\ page.ids \in F!FirstOf(fetched)
             /\ \/ page.next = F!NoCursor /\ page.ids = fetched
                \/ \E z \in F!LastOf(page.ids) : page.next = F!Exact(z)
  BY <1>1, <1>2
<1>5. QED
  BY <1>3, <1>4 DEF pages

LEMMA FeedsSecondPages ==
  ASSUME FeedsTimes, FeedsFinite, NEW fetched, fetched \subseteq FeedsListed
  PROVE  /\ F!FullPages(fetched, F!ToTheSecond) # {}
         /\ \A page \in F!FullPages(fetched, F!ToTheSecond) :
              /\ page.ids \in F!FirstOf(fetched)
              /\ \/ page.next = F!NoCursor /\ page.ids = fetched
                 \/ \E z \in F!LastOf(page.ids) : page.next = F!ToTheSecond(z)
<1> DEFINE pages == F!FullPages(fetched, F!ToTheSecond)
<1>1. /\ F!FirstOf(fetched) # {}
      /\ \A some \in F!FirstOf(fetched) :
           /\ Cardinality(some) = limit => F!LastOf(some) # {}
           /\ ~(Cardinality(some) = limit) => some = fetched
  BY FeedsFirst DEF FeedsFinite
<1>2. \A page : page \in pages <=>
        \E some \in F!FirstOf(fetched) :
          IF Cardinality(some) = limit THEN \E z \in F!LastOf(some) : page = [ids |-> some, next |-> F!ToTheSecond(z)]
          ELSE page = [ids |-> some, next |-> F!NoCursor]
  BY FeedsSize DEF F!FullPages
<1> HIDE DEF pages
<1>3. \E page : page \in pages
  BY <1>1, <1>2
<1>4. ASSUME NEW page \in pages
      PROVE  /\ page.ids \in F!FirstOf(fetched)
             /\ \/ page.next = F!NoCursor /\ page.ids = fetched
                \/ \E z \in F!LastOf(page.ids) : page.next = F!ToTheSecond(z)
  BY <1>1, <1>2
<1>5. QED
  BY <1>3, <1>4 DEF pages

LEMMA FeedsIdPages ==
  ASSUME FeedsTimes, FeedsFinite, NEW fetched, fetched \subseteq FeedsListed
  PROVE  /\ F!FullPages(fetched, F!OnlyId) # {}
         /\ \A page \in F!FullPages(fetched, F!OnlyId) :
              /\ page.ids \in F!FirstOf(fetched)
              /\ \/ page.next = F!NoCursor /\ page.ids = fetched
                 \/ \E z \in F!LastOf(page.ids) : page.next = F!OnlyId(z)
<1> DEFINE pages == F!FullPages(fetched, F!OnlyId)
<1>1. /\ F!FirstOf(fetched) # {}
      /\ \A some \in F!FirstOf(fetched) :
           /\ Cardinality(some) = limit => F!LastOf(some) # {}
           /\ ~(Cardinality(some) = limit) => some = fetched
  BY FeedsFirst DEF FeedsFinite
<1>2. \A page : page \in pages <=>
        \E some \in F!FirstOf(fetched) :
          IF Cardinality(some) = limit THEN \E z \in F!LastOf(some) : page = [ids |-> some, next |-> F!OnlyId(z)]
          ELSE page = [ids |-> some, next |-> F!NoCursor]
  BY FeedsSize DEF F!FullPages
<1> HIDE DEF pages
<1>3. \E page : page \in pages
  BY <1>1, <1>2
<1>4. ASSUME NEW page \in pages
      PROVE  /\ page.ids \in F!FirstOf(fetched)
             /\ \/ page.next = F!NoCursor /\ page.ids = fetched
                \/ \E z \in F!LastOf(page.ids) : page.next = F!OnlyId(z)
  BY <1>1, <1>2
<1>5. QED
  BY <1>3, <1>4 DEF pages

LEMMA FeedsLikePages ==
  ASSUME FeedsTimes, FeedsFinite, NEW fetched, fetched \subseteq FeedsListed
  PROVE  /\ F!FullPages(fetched, F!LastLikeTimestamp) # {}
         /\ \A page \in F!FullPages(fetched, F!LastLikeTimestamp) :
              /\ page.ids \in F!FirstOf(fetched)
              /\ \/ page.next = F!NoCursor /\ page.ids = fetched
                 \/ \E z \in F!LastOf(page.ids) : page.next = F!LastLikeTimestamp(z)
<1> DEFINE pages == F!FullPages(fetched, F!LastLikeTimestamp)
<1>1. /\ F!FirstOf(fetched) # {}
      /\ \A some \in F!FirstOf(fetched) :
           /\ Cardinality(some) = limit => F!LastOf(some) # {}
           /\ ~(Cardinality(some) = limit) => some = fetched
  BY FeedsFirst DEF FeedsFinite
<1>2. \A page : page \in pages <=>
        \E some \in F!FirstOf(fetched) :
          IF Cardinality(some) = limit THEN \E z \in F!LastOf(some) : page = [ids |-> some, next |-> F!LastLikeTimestamp(z)]
          ELSE page = [ids |-> some, next |-> F!NoCursor]
  BY FeedsSize DEF F!FullPages
<1> HIDE DEF pages
<1>3. \E page : page \in pages
  BY <1>1, <1>2
<1>4. ASSUME NEW page \in pages
      PROVE  /\ page.ids \in F!FirstOf(fetched)
             /\ \/ page.next = F!NoCursor /\ page.ids = fetched
                \/ \E z \in F!LastOf(page.ids) : page.next = F!LastLikeTimestamp(z)
  BY <1>1, <1>2
<1>5. QED
  BY <1>3, <1>4 DEF pages

LEMMA FeedsExactPages ==
  ASSUME FeedsTimes, FeedsFinite, NEW fetched, fetched \subseteq FeedsListed
  PROVE  /\ F!FullPages(fetched, F!Exact) # {} /\ F!MorePages(fetched, F!Exact) # {}
         /\ \A page \in F!FullPages(fetched, F!Exact) \cup F!MorePages(fetched, F!Exact) :
              /\ page.ids \in F!FirstOf(fetched)
              /\ \/ page.next = F!NoCursor /\ page.ids = fetched
                 \/ \E z \in F!LastOf(page.ids) : page.next = F!Exact(z)
BY FeedsExactFull, FeedsExactMore

-----------------------------------------------------------------------------
(* What a query hands out: rows after the cursor, the cursor of what follows, and, if times
   tell rows apart, no row is left between. *)
FeedsCursor == [at : Int, id : Int]

FeedsGood(page) ==
  /\ page.ids \subseteq FeedsListed /\ page.next \in FeedsCursor
  /\ \A x \in page.ids : FeedsAfter(x, cursor)
  /\ page.next # F!NoCursor =>
       /\ \A x \in page.ids : ~FeedsAfter(x, page.next)
       /\ \A x \in FeedsListed : FeedsAfter(x, page.next) => FeedsAfter(x, cursor)
  /\ ~FeedsTorn =>
       \A x \in F!Rows : FeedsAfter(x, cursor) =>
         x \in page.ids \/ (page.next # F!NoCursor /\ (FeedsAfter(x, page.next) \/ listing = "followers"))

FeedsAnswers(pages) ==
  /\ FeedsRegular => \A page \in pages : FeedsGood(page)
  /\ listing \in F!OfPosts => \A page \in pages : page.ids \subseteq F!Rows
  /\ pages = {} => listing = "followers" /\ cursor # F!NoCursor
  /\ listing = "followers" /\ cursor # F!NoCursor => pages = {}

LEMMA FeedsExact ==
  ASSUME NEW z, z \in Nat, F!Time(z) \in Nat
  PROVE  /\ F!Exact(z) # F!NoCursor /\ F!Exact(z) \in FeedsCursor
         /\ F!Exact(z).at = F!Time(z) /\ F!Exact(z).id = z
BY DEF F!Exact, F!NoCursor, F!NoTime, FeedsCursor

LEMMA FeedsByKey ==
  ASSUME FeedsTimes, FeedsFinite, cursor \in FeedsCursor, listing \in F!Keyset,
         NEW pages \in {F!FullPages(F!AfterKey(F!Rows), F!Exact), F!MorePages(F!AfterKey(F!Rows), F!Exact)}
  PROVE  FeedsAnswers(pages)
<1> DEFINE fetched == F!AfterKey(F!Rows)
<1>1. fetched \subseteq F!Rows /\ fetched \subseteq FeedsListed
  BY FeedsRowsListed DEF F!AfterKey
<1>2. \A x, c : FeedsAfter(x, c) <=> c = F!NoCursor \/ F!Time(x) < c.at \/ (F!Time(x) = c.at /\ x < c.id)
  BY DEF FeedsAfter, FeedsComes, F!Keyset
<1>3. \A x : x \in fetched <=> x \in F!Rows /\ FeedsAfter(x, cursor)
  BY <1>2 DEF F!AfterKey
<1>4. \A x \in FeedsListed : x \in Nat /\ F!Time(x) \in Nat
  BY FeedsNewer DEF FeedsFinite
<1>5. \A z : F!Exact(z).at = F!Time(z) /\ F!Exact(z).id = z
  BY DEF F!Exact
<1> HIDE DEF fetched
<1>6. ASSUME NEW page \in pages
      PROVE  page.ids \subseteq fetched /\ FeedsGood(page)
  <2>1. page.ids \in F!FirstOf(fetched)
        /\ \/ page.next = F!NoCursor /\ page.ids = fetched
           \/ \E z \in F!LastOf(page.ids) : page.next = F!Exact(z)
    BY <1>1, FeedsExactPages DEF fetched
  <2>2. CASE page.next = F!NoCursor /\ page.ids = fetched
    <3>1. F!NoCursor \in FeedsCursor
      BY DEF F!NoCursor, F!NoTime, FeedsCursor
    <3>2. QED
      BY <1>1, <1>3, <2>2, <3>1 DEF FeedsGood
  <2>3. CASE \E z \in F!LastOf(page.ids) : page.next = F!Exact(z)
    <3>1. PICK z \in F!LastOf(page.ids) : page.next = F!Exact(z)
      BY <2>3
    <3>2. /\ z \in page.ids /\ page.ids \subseteq fetched
          /\ \A x \in page.ids : F!Time(x) >= F!Time(z) /\ (F!Time(x) = F!Time(z) => x >= z)
          /\ \A x \in fetched \ page.ids : F!Time(x) < F!Time(z) \/ (F!Time(x) = F!Time(z) /\ x < z)
      BY <1>1, <2>1, <3>1, FeedsLast DEF FeedsFinite
    <3>3. page.next # F!NoCursor /\ page.next \in FeedsCursor
      <4>1. F!Time(z) \in Nat /\ z \in Nat
        BY <1>1, <1>4, <3>2
      <4>2. QED
        BY <3>1, <4>1, FeedsExact
    <3>4. \A x \in FeedsListed : FeedsAfter(x, page.next) <=> F!Time(x) < F!Time(z) \/ (F!Time(x) = F!Time(z) /\ x < z)
      BY <1>2, <1>5, <3>1, <3>3
    <3>5. \A x \in page.ids : x \in FeedsListed /\ FeedsAfter(x, cursor) /\ ~FeedsAfter(x, page.next)
      BY <1>1, <1>3, <1>4, <3>2, <3>4
    <3>6. ASSUME NEW x \in FeedsListed, FeedsAfter(x, page.next) PROVE FeedsAfter(x, cursor)
      <4>1. FeedsAfter(z, cursor) /\ z \in Nat /\ x \in Nat /\ F!Time(x) \in Nat /\ F!Time(z) \in Nat
        BY <1>4, <3>2, <3>5
      <4>2. F!Time(x) < F!Time(z) \/ (F!Time(x) = F!Time(z) /\ x < z)
        BY <3>4, <3>6
      <4>3. cursor.at \in Int /\ cursor.id \in Int
        BY DEF FeedsCursor
      <4>4. QED
        BY <1>2, <4>1, <4>2, <4>3
    <3>7. \A x \in F!Rows : FeedsAfter(x, cursor) => x \in page.ids \/ FeedsAfter(x, page.next)
      BY <1>1, <1>3, <3>2, <3>4
    <3>8. QED
      BY <1>1, <3>2, <3>3, <3>5, <3>6, <3>7 DEF FeedsGood
  <2>4. page.ids \subseteq fetched
    BY <2>1 DEF F!FirstOf
  <2>5. QED
    BY <2>1, <2>2, <2>3, <2>4
<1>7. pages # {}
  BY <1>1, FeedsExactPages DEF fetched
<1>8. listing # "followers"
  BY DEF F!Keyset
<1>9. QED
  BY <1>1, <1>6, <1>7, <1>8 DEF FeedsAnswers

LEMMA FeedsByTime ==
  ASSUME FeedsTimes, FeedsFinite, cursor \in FeedsCursor, listing \in F!ByInstant,
         NEW pages \in {F!FullPages(F!AfterTime(F!Rows), F!Exact), F!MorePages(F!AfterTime(F!Rows), F!Exact)}
  PROVE  FeedsAnswers(pages)
<1> DEFINE fetched == F!AfterTime(F!Rows)
<1>1. fetched \subseteq F!Rows /\ fetched \subseteq FeedsListed
  BY FeedsRowsListed DEF F!AfterTime
<1>2. \A x, c : FeedsAfter(x, c) <=> c = F!NoCursor \/ F!Time(x) < c.at
  BY DEF FeedsAfter, FeedsComes, F!Keyset, F!ByInstant
<1>3. \A x : x \in fetched <=> x \in F!Rows /\ FeedsAfter(x, cursor)
  BY <1>2 DEF F!AfterTime
<1>4. \A x \in FeedsListed : x \in Nat /\ F!Time(x) \in Nat
  BY FeedsNewer DEF FeedsFinite
<1>5. \A z : F!Exact(z).at = F!Time(z) /\ F!Exact(z).id = z
  BY DEF F!Exact
<1>6. ~FeedsTorn => \A x, y \in FeedsListed : x # y => F!Time(x) # F!Time(y)
  BY DEF FeedsTorn, F!Apart, F!Same, FeedsListed
<1> HIDE DEF fetched
<1>7. ASSUME NEW page \in pages
      PROVE  page.ids \subseteq fetched /\ FeedsGood(page)
  <2>1. page.ids \in F!FirstOf(fetched)
        /\ \/ page.next = F!NoCursor /\ page.ids = fetched
           \/ \E z \in F!LastOf(page.ids) : page.next = F!Exact(z)
    BY <1>1, FeedsExactPages DEF fetched
  <2>2. CASE page.next = F!NoCursor /\ page.ids = fetched
    <3>1. F!NoCursor \in FeedsCursor
      BY DEF F!NoCursor, F!NoTime, FeedsCursor
    <3>2. QED
      BY <1>1, <1>3, <2>2, <3>1 DEF FeedsGood
  <2>3. CASE \E z \in F!LastOf(page.ids) : page.next = F!Exact(z)
    <3>1. PICK z \in F!LastOf(page.ids) : page.next = F!Exact(z)
      BY <2>3
    <3>2. /\ z \in page.ids /\ page.ids \subseteq fetched
          /\ \A x \in page.ids : F!Time(x) >= F!Time(z)
          /\ \A x \in fetched \ page.ids : F!Time(x) < F!Time(z) \/ (F!Time(x) = F!Time(z) /\ x # z)
      <4>1. listing \notin F!Keyset
        BY DEF F!Keyset, F!ByInstant
      <4>2. QED
        BY <1>1, <2>1, <3>1, <4>1, FeedsLast DEF FeedsFinite
    <3>3. page.next # F!NoCursor /\ page.next \in FeedsCursor
      <4>1. F!Time(z) \in Nat /\ z \in Nat
        BY <1>1, <1>4, <3>2
      <4>2. QED
        BY <3>1, <4>1, FeedsExact
    <3>4. \A x \in FeedsListed : FeedsAfter(x, page.next) <=> F!Time(x) < F!Time(z)
      BY <1>2, <1>5, <3>1, <3>3
    <3>5. \A x \in page.ids : x \in FeedsListed /\ FeedsAfter(x, cursor) /\ ~FeedsAfter(x, page.next)
      BY <1>1, <1>3, <1>4, <3>2, <3>4
    <3>6. ASSUME NEW x \in FeedsListed, FeedsAfter(x, page.next) PROVE FeedsAfter(x, cursor)
      <4>1. FeedsAfter(z, cursor) /\ F!Time(x) \in Nat /\ F!Time(z) \in Nat
        BY <1>4, <3>5, <3>2
      <4>2. F!Time(x) < F!Time(z)
        BY <3>4, <3>6
      <4>3. cursor.at \in Int
        BY DEF FeedsCursor
      <4>4. QED
        BY <1>2, <4>1, <4>2, <4>3
    <3>7. ~FeedsTorn => \A x \in F!Rows : FeedsAfter(x, cursor) => x \in page.ids \/ FeedsAfter(x, page.next)
      BY <1>1, <1>3, <1>6, <3>2, <3>4
    <3>8. QED
      BY <1>1, <3>2, <3>3, <3>5, <3>6, <3>7 DEF FeedsGood
  <2>4. page.ids \subseteq fetched
    BY <2>1 DEF F!FirstOf
  <2>5. QED
    BY <2>1, <2>2, <2>3, <2>4
<1>8. pages # {}
  BY <1>1, FeedsExactPages DEF fetched
<1>9. listing # "followers"
  BY DEF F!ByInstant
<1>10. QED
  BY <1>1, <1>7, <1>8, <1>9 DEF FeedsAnswers

-----------------------------------------------------------------------------
(* A cursor cut to the second. *)
LEMMA FeedsMultiples ==
  ASSUME NEW n \in Nat, NEW a \in Nat, NEW b \in Nat, a < b
  PROVE  a * n + n <= b * n
OBVIOUS

LEMMA FeedsSecond ==
  ASSUME PerSecond \in Nat \ {0}, NEW t \in Nat
  PROVE  /\ F!Second(t) \in Nat /\ F!Second(t) <= t
         /\ \A s \in Nat : s < t /\ F!Second(s) # F!Second(t) => s < F!Second(t)
<1> DEFINE seconds(s) == s \div PerSecond
<1>1. \A s \in Nat : /\ seconds(s) \in Nat /\ seconds(s) * PerSecond \in Nat
                     /\ seconds(s) * PerSecond <= s /\ s < seconds(s) * PerSecond + PerSecond
                     /\ F!Second(s) = seconds(s) * PerSecond
  BY DEF F!Second
<1> HIDE DEF seconds
<1>2. ASSUME NEW s \in Nat, s < t, F!Second(s) # F!Second(t) PROVE s < F!Second(t)
  <2>1. CASE seconds(s) < seconds(t)
    <3>1. seconds(s) * PerSecond + PerSecond <= seconds(t) * PerSecond
      BY <1>1, <2>1, FeedsMultiples
    <3>2. QED
      BY <1>1, <3>1
  <2>2. CASE seconds(t) < seconds(s)
    <3>1. seconds(t) * PerSecond + PerSecond <= seconds(s) * PerSecond
      BY <1>1, <2>2, FeedsMultiples
    <3>2. QED
      BY <1>1, <1>2, <3>1
  <2>3. CASE seconds(s) = seconds(t)
    BY <1>1, <1>2, <2>3
  <2>4. seconds(s) \in Nat /\ seconds(t) \in Nat
    BY <1>1
  <2>5. QED
    BY <2>1, <2>2, <2>3, <2>4
<1>3. QED
  BY <1>1, <1>2

LEMMA FeedsToTheSecond ==
  ASSUME PerSecond \in Nat \ {0}, NEW z, z \in Nat, F!Time(z) \in Nat
  PROVE  /\ F!ToTheSecond(z) # F!NoCursor /\ F!ToTheSecond(z) \in FeedsCursor
         /\ F!ToTheSecond(z).at = F!Second(F!Time(z)) /\ F!ToTheSecond(z).id = z
BY FeedsSecond DEF F!ToTheSecond, F!NoCursor, F!NoTime, FeedsCursor

LEMMA FeedsBySecond ==
  ASSUME FeedsTimes, FeedsFinite, cursor \in FeedsCursor, listing \in F!BySecond, PerSecond \in Nat \ {0},
         NEW pages, pages = F!FullPages(F!AfterTime(F!Rows), F!ToTheSecond)
  PROVE  FeedsAnswers(pages)
<1> DEFINE fetched == F!AfterTime(F!Rows)
<1>1. fetched \subseteq F!Rows /\ fetched \subseteq FeedsListed
  BY FeedsRowsListed DEF F!AfterTime
<1>2. \A x, c : FeedsAfter(x, c) <=> c = F!NoCursor \/ F!Time(x) < c.at
  BY DEF FeedsAfter, FeedsComes, F!Keyset, F!BySecond
<1>3. \A x : x \in fetched <=> x \in F!Rows /\ FeedsAfter(x, cursor)
  BY <1>2 DEF F!AfterTime
<1>4. \A x \in FeedsListed : x \in Nat /\ F!Time(x) \in Nat
  BY FeedsNewer DEF FeedsFinite
<1>5. \A z : F!ToTheSecond(z).at = F!Second(F!Time(z)) /\ F!ToTheSecond(z).id = z
  BY DEF F!ToTheSecond
<1>6. ~FeedsTorn => \A x, y \in FeedsListed : x # y => F!Second(F!Time(x)) # F!Second(F!Time(y))
  BY DEF FeedsTorn, F!Apart, FeedsListed
<1> HIDE DEF fetched
<1>7. ASSUME NEW page \in pages
      PROVE  page.ids \subseteq fetched /\ FeedsGood(page)
  <2>1. page.ids \in F!FirstOf(fetched)
        /\ \/ page.next = F!NoCursor /\ page.ids = fetched
           \/ \E z \in F!LastOf(page.ids) : page.next = F!ToTheSecond(z)
    BY <1>1, FeedsSecondPages DEF fetched
  <2>2. CASE page.next = F!NoCursor /\ page.ids = fetched
    <3>1. F!NoCursor \in FeedsCursor
      BY DEF F!NoCursor, F!NoTime, FeedsCursor
    <3>2. QED
      BY <1>1, <1>3, <2>2, <3>1 DEF FeedsGood
  <2>3. CASE \E z \in F!LastOf(page.ids) : page.next = F!ToTheSecond(z)
    <3>1. PICK z \in F!LastOf(page.ids) : page.next = F!ToTheSecond(z)
      BY <2>3
    <3>2. /\ z \in page.ids /\ page.ids \subseteq fetched
          /\ \A x \in page.ids : F!Time(x) >= F!Time(z)
          /\ \A x \in fetched \ page.ids : F!Time(x) < F!Time(z) \/ (F!Time(x) = F!Time(z) /\ x # z)
      <4>1. listing \notin F!Keyset
        BY DEF F!Keyset, F!BySecond
      <4>2. QED
        BY <1>1, <2>1, <3>1, <4>1, FeedsLast DEF FeedsFinite
    <3>3. page.next # F!NoCursor /\ page.next \in FeedsCursor
      <4>1. F!Time(z) \in Nat /\ z \in Nat
        BY <1>1, <1>4, <3>2
      <4>2. QED
        BY <3>1, <4>1, FeedsToTheSecond
    <3>4. \A x \in FeedsListed : FeedsAfter(x, page.next) <=> F!Time(x) < F!Second(F!Time(z))
      BY <1>2, <1>5, <3>1, <3>3
    <3>5. /\ F!Time(z) \in Nat /\ F!Second(F!Time(z)) \in Nat /\ F!Second(F!Time(z)) <= F!Time(z)
          /\ \A x \in fetched : F!Time(x) < F!Time(z) /\ F!Second(F!Time(x)) # F!Second(F!Time(z)) => F!Time(x) < F!Second(F!Time(z))
      BY <1>1, <1>4, <3>2, FeedsSecond
    <3>6. \A x \in page.ids : x \in FeedsListed /\ FeedsAfter(x, cursor) /\ ~FeedsAfter(x, page.next)
      BY <1>1, <1>3, <1>4, <3>2, <3>4, <3>5
    <3>7. ASSUME NEW x \in FeedsListed, FeedsAfter(x, page.next) PROVE FeedsAfter(x, cursor)
      <4>1. FeedsAfter(z, cursor) /\ F!Time(x) \in Nat /\ F!Time(z) \in Nat
        BY <1>4, <3>6, <3>2
      <4>2. F!Time(x) < F!Time(z)
        BY <3>4, <3>7, <3>5, <4>1
      <4>3. cursor.at \in Int
        BY DEF FeedsCursor
      <4>4. QED
        BY <1>2, <4>1, <4>2, <4>3
    <3>8. ASSUME ~FeedsTorn, NEW x \in F!Rows, FeedsAfter(x, cursor), x \notin page.ids
          PROVE  FeedsAfter(x, page.next)
      <4>1. x \in fetched \ page.ids /\ x \in FeedsListed /\ z \in FeedsListed
        BY <1>1, <1>3, <3>2, <3>8
      <4>2. F!Second(F!Time(x)) # F!Second(F!Time(z))
        BY <1>6, <3>2, <3>8, <4>1
      <4>3. F!Time(x) < F!Time(z)
        BY <3>2, <4>1, <4>2
      <4>4. QED
        BY <3>4, <3>5, <4>1, <4>2, <4>3
    <3>9. QED
      BY <1>1, <3>2, <3>3, <3>6, <3>7, <3>8 DEF FeedsGood
  <2>4. page.ids \subseteq fetched
    BY <2>1 DEF F!FirstOf
  <2>5. QED
    BY <2>1, <2>2, <2>3, <2>4
<1>8. pages # {}
  BY <1>1, FeedsSecondPages DEF fetched
<1>9. listing # "followers"
  BY DEF F!BySecond
<1>10. QED
  BY <1>1, <1>7, <1>8, <1>9 DEF FeedsAnswers

-----------------------------------------------------------------------------
(* Followers have one page, and the next request fails; the cursors of likers, reposters
   and followed users say nothing. *)
LEMMA FeedsByFollowers ==
  ASSUME FeedsTimes, FeedsFinite, cursor \in FeedsCursor, listing = "followers",
         NEW pages, pages = F!GetFollowers
  PROVE  FeedsAnswers(pages)
<1>1. listing \notin F!OfPosts /\ listing \notin F!Keyset \cup F!ByInstant \cup F!BySecond
  BY DEF F!OfPosts, F!Keyset, F!ByInstant, F!BySecond
<1>2. CASE cursor # F!NoCursor
  <2>1. pages = {}
    BY <1>2 DEF F!GetFollowers
  <2>2. QED
    BY <1>1, <1>2, <2>1 DEF FeedsAnswers
<1>3. CASE cursor = F!NoCursor
  <2>1. pages = F!FullPages(F!Rows, F!OnlyId)
    BY <1>3, FeedsRowsOf DEF F!GetFollowers
  <2>2. F!Rows \subseteq FeedsListed
    BY FeedsRowsListed
  <2>3. \A x, c : FeedsAfter(x, c) <=> c = F!NoCursor
    BY <1>1 DEF FeedsAfter, FeedsComes
  <2>4. ASSUME NEW page \in pages PROVE FeedsGood(page)
    <3>1. page.ids \in F!FirstOf(F!Rows)
          /\ \/ page.next = F!NoCursor /\ page.ids = F!Rows
             \/ \E z \in F!LastOf(page.ids) : page.next = F!OnlyId(z)
      BY <2>1, <2>2, FeedsIdPages
    <3>2. page.ids \subseteq F!Rows
      BY <3>1 DEF F!FirstOf
    <3>3. CASE page.next = F!NoCursor /\ page.ids = F!Rows
      <4>1. F!NoCursor \in FeedsCursor
        BY DEF F!NoCursor, F!NoTime, FeedsCursor
      <4>2. QED
        BY <1>3, <2>2, <2>3, <3>3, <4>1 DEF FeedsGood
    <3>4. CASE \E z \in F!LastOf(page.ids) : page.next = F!OnlyId(z)
      <4>1. PICK z \in F!LastOf(page.ids) : page.next = F!OnlyId(z)
        BY <3>4
      <4>2. z \in Nat \ {0}
        BY <2>2, <3>2, FeedsNewer DEF F!LastOf, FeedsFinite
      <4>3. page.next # F!NoCursor /\ page.next \in FeedsCursor
        BY <4>1, <4>2 DEF F!OnlyId, F!NoCursor, F!NoTime, FeedsCursor
      <4>4. QED
        BY <1>3, <2>2, <2>3, <3>2, <4>3 DEF FeedsGood
    <3>5. QED
      BY <3>1, <3>3, <3>4
  <2>5. pages # {}
    BY <2>1, <2>2, FeedsIdPages
  <2>6. QED
    BY <1>1, <1>3, <2>4, <2>5 DEF FeedsAnswers
<1>4. QED
  BY <1>2, <1>3

LEMMA FeedsByCrowd ==
  ASSUME FeedsTimes, FeedsFinite, listing \in F!Crowd \cup {"following"},
         NEW pages, pages \in {F!GetPostLikers, F!GetPostReposters, F!GetFollowing}
  PROVE  FeedsAnswers(pages)
<1>1. F!Marked \subseteq FeedsListed
  BY FeedsRowsListed, FeedsRowsOf DEF F!Crowd
<1>2. \E fetched \in SUBSET FeedsListed : pages \in {F!FullPages(fetched, F!OnlyId), F!FullPages(fetched, F!LastLikeTimestamp)}
  <2>1. CASE pages \in {F!GetPostLikers, F!GetPostReposters}
    <3>1. F!AfterTime(F!Marked) \in SUBSET FeedsListed
      BY <1>1 DEF F!AfterTime
    <3>2. QED
      BY <2>1, <3>1 DEF F!GetPostLikers, F!GetPostReposters
  <2>2. CASE pages = F!GetFollowing
    <3>1. {x \in F!Marked : cursor = F!NoCursor \/ x < cursor.id} \in SUBSET FeedsListed
      BY <1>1
    <3>2. QED
      BY <2>2, <3>1 DEF F!GetFollowing
  <2>3. QED
    BY <2>1, <2>2
<1>3. pages # {}
  BY <1>2, FeedsIdPages, FeedsLikePages
<1>4. ~FeedsRegular /\ listing \notin F!OfPosts /\ listing # "followers"
  BY DEF FeedsRegular, F!OfPosts, F!Crowd
<1>5. QED
  BY <1>3, <1>4 DEF FeedsAnswers

-----------------------------------------------------------------------------
(* The chain of parents. A parent is the older of two posts, so that the chain is a
   sequence, of older and older posts, and each post on it has the rest for its own. *)
FeedsParents(fetched) ==
  /\ Listed \subseteq Nat \ {0} /\ None \notin Listed
  /\ \A p \in Listed : fetched[p].parent # None => fetched[p].parent \in Listed /\ fetched[p].parent < p

FeedsAbove(fetched, up, p) == IF fetched[p].parent = None THEN <<>> ELSE <<fetched[p].parent>> \o up[fetched[p].parent]

LEMMA FeedsLeastPost ==
  ASSUME Listed \subseteq Nat \ {0}, NEW some, some \subseteq Nat, some # {}
  PROVE  \E p \in some : \A q \in some : ~(q < p)
<1>1. PICK p \in some : \A q \in some : <<q, p>> \notin OpToRel(<, Nat)
  <2>1. IsWellFoundedOn(OpToRel(<, Nat), Nat)
    BY NatLessThanWellFounded
  <2>2. QED
    BY <2>1, WFMin
<1>2. \A q \in some : q < p => <<q, p>> \in OpToRel(<, Nat)
  BY DEF OpToRel
<1>3. QED
  BY <1>1, <1>2

(* There is such a function on the posts up to any, and so on all of them. *)
LEMMA FeedsAboveExists ==
  ASSUME NEW fetched, FeedsParents(fetched), FeedsFinite
  PROVE  \E up : up = [p \in Listed |-> FeedsAbove(fetched, up, p)]
<1> DEFINE upto(n) == {p \in Listed : p <= n}
           Has(n) == \E up : up = [p \in upto(n) |-> FeedsAbove(fetched, up, p)]
           lacking == {n \in Nat : ~Has(n)}
<1>1. \A p \in Listed : p \in Nat /\ p > 0
  BY DEF FeedsParents
<1>2. ASSUME NEW n \in lacking, \A m \in lacking : ~(m < n) PROVE FALSE
  <2>1. CASE n = 0
    <3>1. upto(n) = {}
      BY <1>1, <2>1
    <3>2. Has(n)
      BY <3>1
    <3>3. QED
      BY <1>2, <3>2
  <2>2. CASE n # 0
    <3>1. n - 1 \in Nat /\ n \in Nat /\ n - 1 < n
      BY <2>2
    <3>2. Has(n - 1)
      BY <1>2, <3>1
    <3>3. PICK up : up = [p \in upto(n - 1) |-> FeedsAbove(fetched, up, p)]
      BY <3>2
    <3> DEFINE more == [p \in upto(n) |-> IF p = n THEN FeedsAbove(fetched, up, p) ELSE up[p]]
    <3>4. \A p \in upto(n) : p # n => p \in upto(n - 1)
      BY <1>1, <3>1
    <3>5. \A p \in upto(n) : fetched[p].parent # None => fetched[p].parent \in upto(n - 1) /\ fetched[p].parent \in upto(n) /\ fetched[p].parent # n
      <4>1. \A p \in Listed : fetched[p].parent # None => fetched[p].parent \in Listed /\ fetched[p].parent < p
        BY DEF FeedsParents
      <4>2. QED
        BY <1>1, <3>1, <4>1
    <3>6. \A p \in upto(n) : more[p] = FeedsAbove(fetched, up, p)
      BY <3>3, <3>4
    <3>7. \A p \in upto(n) : fetched[p].parent # None => more[fetched[p].parent] = up[fetched[p].parent]
      BY <3>5
    <3>8. \A p \in upto(n) : FeedsAbove(fetched, up, p) = FeedsAbove(fetched, more, p)
      <4> HIDE DEF more
      <4>1. QED
        BY <3>7 DEF FeedsAbove
    <3>9. more = [p \in upto(n) |-> FeedsAbove(fetched, more, p)]
      <4>1. \A p \in upto(n) : more[p] = FeedsAbove(fetched, more, p)
        BY <3>6, <3>8
      <4>2. more = [p \in upto(n) |-> more[p]]
        OBVIOUS
      <4> HIDE DEF more, upto
      <4>3. QED
        BY <4>1, <4>2
    <3>10. Has(n)
      BY <3>9
    <3>11. QED
      BY <1>2, <3>10
  <2>3. QED
    BY <2>1, <2>2
<1>3. lacking = {}
  <2> HIDE DEF lacking
  <2>1. lacking \subseteq Nat
    BY DEF lacking
  <2>2. QED
    BY <1>2, <2>1, FeedsLeastPost DEF FeedsParents
<1>4. \E n \in Nat : Listed \subseteq upto(n)
  <2>1. CASE Listed = {}
    BY <2>1
  <2>2. CASE Listed # {}
    <3> DEFINE older == {w \in Listed \X Listed : w[1] > w[2]}
    <3>1. \A x, y \in Listed : <<x, y>> \in older <=> x > y
      OBVIOUS
    <3> HIDE DEF older
    <3>2. /\ \A x \in Listed : <<x, x>> \notin older
          /\ \A x, y, z \in Listed : <<x, y>> \in older /\ <<y, z>> \in older => <<x, z>> \in older
      BY <3>1 DEF FeedsParents
    <3>3. PICK n \in Listed : \A q \in Listed : <<q, n>> \notin older
      BY <2>2, <3>2, FeedsLeast DEF FeedsFinite
    <3>4. QED
      <4>1. ASSUME NEW q \in Listed PROVE q <= n
        <5>1. ~(q > n)
          BY <3>1, <3>3
        <5>2. QED
          BY <1>1, <5>1
      <4>2. QED
        BY <1>1, <4>1
  <2>3. QED
    BY <2>1, <2>2
<1>5. PICK n \in Nat : Listed \subseteq upto(n)
  BY <1>4
<1>6. upto(n) = Listed
  BY <1>5
<1>7. Has(n)
  BY <1>3
<1>8. QED
  BY <1>6, <1>7

FeedsChains(fetched) == CHOOSE up : up = [p \in Listed |-> IF fetched[p].parent = None THEN <<>>
                                                       ELSE <<fetched[p].parent>> \o up[fetched[p].parent]]

LEMMA FeedsChained ==
  ASSUME NEW fetched, FeedsParents(fetched), FeedsFinite
  PROVE  /\ FeedsChains(fetched) = [p \in Listed |-> FeedsChains(fetched)[p]]
         /\ DOMAIN FeedsChains(fetched) = Listed
         /\ \A p \in Listed : FeedsChains(fetched)[p] = FeedsAbove(fetched, FeedsChains(fetched), p)
<1> DEFINE Is(up) == up = [p \in Listed |-> IF fetched[p].parent = None THEN <<>>
                                          ELSE <<fetched[p].parent>> \o up[fetched[p].parent]]
<1>1. \E up : Is(up)
  BY FeedsAboveExists DEF FeedsAbove
<1>2. FeedsChains(fetched) = CHOOSE up : Is(up)
  BY DEF FeedsChains
<1>3. Is(FeedsChains(fetched))
  <2> HIDE DEF Is
  <2>1. QED
    BY <1>1, <1>2
<1>4. QED
  BY <1>3 DEF FeedsAbove

LEMMA FeedsAncestors ==
  ASSUME FeedsParents(posts), FeedsFinite
  PROVE  /\ DOMAIN F!Ancestors = Listed
         /\ \A p \in Listed :
                /\ posts[p].parent = None => F!Ancestors[p] = <<>>
                /\ posts[p].parent # None => F!Ancestors[p] = <<posts[p].parent>> \o F!Ancestors[posts[p].parent]
<1>1. F!Ancestors = FeedsChains(posts)
  BY DEF F!Ancestors, FeedsChains
<1>2. QED
  BY <1>1, FeedsChained DEF FeedsAbove

(* A chain is what the parents are, and deleting changes no parent. *)
LEMMA FeedsAncestorsStay ==
  ASSUME FeedsParents(posts), FeedsFinite, \A p \in Listed : posts'[p].parent = posts[p].parent
  PROVE  F!Ancestors' = F!Ancestors
<1> DEFINE before == FeedsChains(posts)
           after == FeedsChains(posts')
<1>1. F!Ancestors = before /\ F!Ancestors' = after
  BY DEF F!Ancestors, FeedsChains
<1>2. FeedsParents(posts')
  BY DEF FeedsParents
<1>3. /\ before = [p \in Listed |-> before[p]] /\ after = [p \in Listed |-> after[p]]
      /\ \A p \in Listed : before[p] = FeedsAbove(posts, before, p) /\ after[p] = FeedsAbove(posts', after, p)
  BY <1>2, FeedsChained
<1> HIDE DEF before, after
<1> DEFINE apart == {p \in Listed : after[p] # before[p]}
<1>4. ASSUME NEW p \in apart, \A q \in apart : ~(q < p) PROVE FALSE
  <2>1. posts[p].parent # None => posts[p].parent \in Listed /\ after[posts[p].parent] = before[posts[p].parent]
    BY <1>4 DEF FeedsParents
  <2>2. FeedsAbove(posts', after, p) = FeedsAbove(posts, before, p)
    BY <1>4, <2>1 DEF FeedsAbove
  <2>3. QED
    BY <1>3, <1>4, <2>2
<1>5. apart = {}
  <2> HIDE DEF apart
  <2>1. apart \subseteq Nat
    BY DEF apart, FeedsParents
  <2>2. QED
    BY <1>4, <2>1, FeedsLeastPost DEF FeedsParents
<1>6. QED
  BY <1>1, <1>3, <1>5

(* What a chain is made of. *)
FeedsClimbs(chain, p) ==
  /\ chain \in Seq(Listed)
  /\ \A i \in DOMAIN chain : chain[i] < p
  /\ \A i, j \in DOMAIN chain : i < j =>
       /\ chain[j] < chain[i]
       /\ \E k \in DOMAIN F!Ancestors[chain[i]] : F!Ancestors[chain[i]][k] = chain[j]
       /\ posts[chain[i]].parent # None
  /\ \A i \in DOMAIN chain : \A k \in DOMAIN F!Ancestors[chain[i]] :
       \E j \in DOMAIN chain : chain[j] = F!Ancestors[chain[i]][k]

LEMMA FeedsClimb == ASSUME FeedsParents(posts), FeedsFinite, NEW p \in Listed PROVE FeedsClimbs(F!Ancestors[p], p)
<1> DEFINE lacking == {o \in Listed : ~FeedsClimbs(F!Ancestors[o], o)}
<1>1. ASSUME NEW o \in lacking, \A q \in lacking : ~(q < o) PROVE FALSE
  <2>1. CASE posts[o].parent = None
    <3>1. F!Ancestors[o] = <<>>
      BY <2>1, FeedsAncestors
    <3>2. FeedsClimbs(F!Ancestors[o], o)
      BY <3>1 DEF FeedsClimbs
    <3>3. QED
      BY <3>2
  <2>2. CASE posts[o].parent # None
    <3>1. PICK q \in Listed : q = posts[o].parent /\ q < o /\ FeedsClimbs(F!Ancestors[q], q)
      BY <1>1, <2>2 DEF FeedsParents
    <3>2. PICK rest \in Seq(Listed) : rest = F!Ancestors[q]
      BY <3>1 DEF FeedsClimbs
    <3>3. F!Ancestors[o] = <<q>> \o rest
      BY <2>2, <3>1, <3>2, FeedsAncestors
    <3>4. PICK chain \in Seq(Listed) : chain = F!Ancestors[o]
      <4>1. <<q>> \o rest \in Seq(Listed)
        OBVIOUS
      <4>2. QED
        BY <3>3, <4>1
    <3>5. /\ Len(rest) \in Nat /\ DOMAIN rest = 1 .. Len(rest)
          /\ DOMAIN chain = 1 .. (Len(rest) + 1) /\ chain[1] = q
          /\ \A i \in 1 .. Len(rest) : chain[i + 1] = rest[i] /\ rest[i] \in Listed
      BY <3>1, <3>2, <3>3, <3>4
    <3>6. \A i \in DOMAIN chain : i # 1 => i - 1 \in DOMAIN rest /\ chain[i] = rest[i - 1]
      BY <3>5
    <3>7. /\ \A i \in DOMAIN rest : rest[i] < q
          /\ \A i, j \in DOMAIN rest : i < j =>
               /\ rest[j] < rest[i]
               /\ \E k \in DOMAIN F!Ancestors[rest[i]] : F!Ancestors[rest[i]][k] = rest[j]
               /\ posts[rest[i]].parent # None
          /\ \A i \in DOMAIN rest : \A k \in DOMAIN F!Ancestors[rest[i]] :
               \E j \in DOMAIN rest : rest[j] = F!Ancestors[rest[i]][k]
      <4>1. FeedsClimbs(rest, q)
        BY <3>1, <3>2
      <4>2. QED
        BY <4>1 DEF FeedsClimbs
    <3>8. o \in Nat /\ q \in Nat /\ \A i \in DOMAIN rest : rest[i] \in Nat
      BY <3>1, <3>5 DEF FeedsParents
    <3>9. \A i \in DOMAIN chain : chain[i] < o
      <4>1. \A i \in DOMAIN rest : rest[i] < o
        BY <3>1, <3>7, <3>8
      <4>2. QED
        BY <3>1, <3>5, <3>6, <4>1
    <3>10. ASSUME NEW i \in DOMAIN chain, NEW j \in DOMAIN chain, i < j
           PROVE  /\ chain[j] < chain[i]
                  /\ \E k \in DOMAIN F!Ancestors[chain[i]] : F!Ancestors[chain[i]][k] = chain[j]
                  /\ posts[chain[i]].parent # None
      <4>1. j # 1 /\ j - 1 \in DOMAIN rest /\ chain[j] = rest[j - 1]
        BY <3>5, <3>6, <3>10
      <4>2. CASE i = 1
        <5>1. chain[i] = q
          BY <3>5, <4>2
        <5>2. rest # <<>>
          BY <4>1
        <5>3. posts[q].parent # None
          BY <3>1, <3>2, <5>2, FeedsAncestors
        <5>4. QED
          BY <3>2, <3>7, <4>1, <5>1, <5>3
      <4>3. CASE i # 1
        <5>1. i - 1 \in DOMAIN rest /\ chain[i] = rest[i - 1] /\ i - 1 < j - 1
          BY <3>5, <3>6, <3>10, <4>3
        <5>2. QED
          BY <3>7, <4>1, <5>1
      <4>4. QED
        BY <4>2, <4>3
    <3>11. ASSUME NEW i \in DOMAIN chain, NEW k \in DOMAIN F!Ancestors[chain[i]]
           PROVE  \E j \in DOMAIN chain : chain[j] = F!Ancestors[chain[i]][k]
      <4>1. \A m \in DOMAIN rest : m + 1 \in DOMAIN chain /\ chain[m + 1] = rest[m]
        BY <3>5
      <4>2. PICK m \in DOMAIN rest : rest[m] = F!Ancestors[chain[i]][k]
        <5>1. CASE i = 1
          BY <3>2, <3>5, <3>11, <5>1
        <5>2. CASE i # 1
          BY <3>6, <3>7, <3>11, <5>2
        <5>3. QED
          BY <5>1, <5>2
      <4>3. QED
        BY <4>1, <4>2
    <3>12. FeedsClimbs(F!Ancestors[o], o)
      <4>1. FeedsClimbs(chain, o)
        BY <3>9, <3>10, <3>11 DEF FeedsClimbs
      <4>2. QED
        BY <3>4, <4>1
    <3>13. QED
      BY <3>12
  <2>3. QED
    BY <2>1, <2>2
<1>2. lacking = {}
  <2> HIDE DEF lacking
  <2>1. lacking \subseteq Nat
    BY DEF lacking, FeedsParents
  <2>2. QED
    BY <1>1, <2>1, FeedsLeastPost DEF FeedsParents
<1>3. QED
  BY <1>2

-----------------------------------------------------------------------------
(* Each page of ancestors goes on where the one before it ended. *)
LEMMA FeedsLeaf == ASSUME FeedsFinite, Listed # {} PROVE F!Leaf \in Listed
<1> DEFINE older == {w \in Listed \X Listed : w[1] > w[2]}
<1>1. (\A x, y \in Listed : <<x, y>> \in older <=> x > y) /\ \A x \in Listed : x \in Nat
  BY DEF FeedsFinite
<1> HIDE DEF older
<1>2. /\ \A x \in Listed : <<x, x>> \notin older
      /\ \A x, y, z \in Listed : <<x, y>> \in older /\ <<y, z>> \in older => <<x, z>> \in older
  BY <1>1
<1>3. PICK p \in Listed : \A q \in Listed : <<q, p>> \notin older
  BY <1>2, FeedsLeast DEF FeedsFinite
<1>4. ASSUME NEW q \in Listed PROVE q <= p
  <2>1. ~(q > p)
    BY <1>1, <1>3
  <2>2. QED
    BY <1>1, <2>1
<1>5. QED
  BY <1>4 DEF F!Leaf

LEMMA FeedsFullChain ==
  ASSUME NEW n \in Nat, NEW k \in Nat, NEW some \in SUBSET (1 .. n), k > n
  PROVE  Cardinality(some) # k
<1>1. IsFiniteSet(1 .. n) /\ Cardinality(1 .. n) = n
  BY FS_Interval
<1>2. Cardinality(some) \in Nat /\ Cardinality(some) <= n
  BY <1>1, FS_Subset, FS_CardinalityType
<1>3. QED
  BY <1>2

LEMMA FeedsByAncestors ==
  ASSUME FeedsTimes, FeedsFinite, FeedsParents(posts), Listed # {}, cursor \in FeedsCursor,
         listing = "ancestors", cursor # F!NoCursor => FeedsOnChain(cursor),
         NEW pages, pages = F!GetParentChain
  PROVE  FeedsAnswers(pages) /\ \A page \in pages : page.next # F!NoCursor => FeedsOnChain(page.next)
<1>1. PICK whole \in Seq(Listed) : whole = F!Ancestors[F!Leaf] /\ FeedsClimbs(whole, F!Leaf)
  <2>1. FeedsClimbs(F!Ancestors[F!Leaf], F!Leaf)
    BY FeedsLeaf, FeedsClimb
  <2>2. QED
    BY <2>1 DEF FeedsClimbs
<1>2. /\ DOMAIN whole = 1 .. Len(whole) /\ Len(whole) \in Nat
      /\ \A i \in DOMAIN whole : whole[i] \in Listed
  OBVIOUS
<1> DEFINE start == IF cursor = F!NoCursor THEN F!Leaf ELSE cursor.id
<1>3. start \in Listed
  BY <1>1, <1>2, FeedsLeaf DEF FeedsOnChain
<1>4. PICK chain \in Seq(Listed) : chain = F!Ancestors[start] /\ FeedsClimbs(chain, start)
  <2>1. FeedsClimbs(F!Ancestors[start], start)
    BY <1>3, FeedsClimb
  <2> HIDE DEF start
  <2>2. QED
    BY <2>1 DEF FeedsClimbs
<1>5. /\ DOMAIN chain = 1 .. Len(chain) /\ Len(chain) \in Nat
      /\ \A i \in DOMAIN chain : chain[i] \in Listed /\ chain[i] \in Nat \ {0}
  <2>1. \A i \in DOMAIN chain : chain[i] \in Listed
    OBVIOUS
  <2>2. DOMAIN chain = 1 .. Len(chain) /\ Len(chain) \in Nat
    OBVIOUS
  <2>3. Listed \subseteq Nat \ {0}
    BY DEF FeedsFinite
  <2>4. QED
    BY <2>1, <2>2, <2>3
<1>6. limit \in Nat \ {0} /\ start \in Nat
  BY <1>3 DEF FeedsTimes, FeedsFinite
<1>7. /\ \A i \in DOMAIN chain : chain[i] < start
      /\ \A i, j \in DOMAIN chain : i < j => chain[j] < chain[i] /\ posts[chain[i]].parent # None
  BY <1>4 DEF FeedsClimbs
<1>8. \A i \in DOMAIN chain : \E j \in DOMAIN whole : whole[j] = chain[i]
  <2>1. CASE cursor = F!NoCursor
    BY <1>1, <1>4, <2>1
  <2>2. CASE cursor # F!NoCursor
    <3>1. PICK k \in DOMAIN whole : whole[k] = start
      BY <1>1, <2>2 DEF FeedsOnChain
    <3>2. \A m \in DOMAIN F!Ancestors[whole[k]] : \E j \in DOMAIN whole : whole[j] = F!Ancestors[whole[k]][m]
      BY <1>1 DEF FeedsClimbs
    <3>3. QED
      BY <1>4, <3>1, <3>2
  <2>3. QED
    BY <2>1, <2>2
<1>9. \A x, c : FeedsAfter(x, c) <=> c = F!NoCursor \/ x < c.id
  BY DEF FeedsAfter, FeedsComes, F!Keyset, F!ByInstant, F!BySecond
<1>10. ASSUME NEW j \in DOMAIN whole, FeedsAfter(whole[j], cursor)
       PROVE  \E m \in DOMAIN chain : chain[m] = whole[j]
  <2>1. CASE cursor = F!NoCursor
    BY <1>1, <1>4, <2>1
  <2>2. CASE cursor # F!NoCursor
    <3>1. PICK k \in DOMAIN whole : whole[k] = start
      BY <1>1, <2>2 DEF FeedsOnChain
    <3>2. whole[j] < whole[k]
      BY <1>9, <1>10, <2>2, <3>1
    <3>3. k < j
      <4>1. j < k => whole[k] < whole[j]
        BY <1>1 DEF FeedsClimbs
      <4>2. whole[j] \in Nat /\ whole[k] \in Nat
        BY <1>2 DEF FeedsFinite
      <4>3. k # j /\ ~(j < k)
        BY <3>2, <4>1, <4>2
      <4>4. QED
        BY <1>2, <4>3
    <3>4. QED
      BY <1>1, <1>4, <3>1, <3>3 DEF FeedsClimbs
  <2>3. QED
    BY <2>1, <2>2
<1> DEFINE found == {i \in (1 .. limit) \cap DOMAIN chain : chain[i] \in F!Alive}
           more == Cardinality(found) = limit /\ posts[chain[limit]].parent # None
           answer == [ids |-> {chain[i] : i \in found}, next |-> IF more THEN F!OnlyId(chain[limit]) ELSE F!NoCursor]
<1>11. pages = {answer}
  BY <1>4, FeedsSize DEF F!GetParentChain
<1>12. Cardinality(found) = limit => limit \in DOMAIN chain
  <2>1. found \in SUBSET (1 .. Len(chain))
    BY <1>5
  <2>2. limit > Len(chain) => Cardinality(found) # limit
    BY <1>5, <1>6, <2>1, FeedsFullChain
  <2>3. QED
    BY <1>5, <1>6, <2>2
<1>13. ASSUME \A i \in DOMAIN chain : chain[i] \in F!Alive, limit \in DOMAIN chain PROVE Cardinality(found) = limit
  <2>1. found = 1 .. limit
    BY <1>5, <1>6, <1>13
  <2>2. QED
    <3>1. Cardinality(1 .. limit) = limit
      BY <1>6, FS_Interval
    <3>2. QED
      BY <2>1, <3>1
<1>14. \A x : x \in answer.ids <=> \E i \in DOMAIN chain : i <= limit /\ x = chain[i] /\ x \in F!Alive
  BY <1>5, <1>6
<1>15. /\ more => answer.next = F!OnlyId(chain[limit])
       /\ ~more => answer.next = F!NoCursor
  OBVIOUS
<1>16. more => limit \in DOMAIN chain
  BY <1>12
<1> HIDE DEF answer, found, start
<1>17. answer.next # F!NoCursor =>
         /\ more /\ limit \in DOMAIN chain /\ answer.next.id = chain[limit] /\ answer.next \in FeedsCursor
         /\ \A x : FeedsAfter(x, answer.next) <=> x < chain[limit]
  <2>1. ASSUME more PROVE F!OnlyId(chain[limit]).id = chain[limit] /\ F!OnlyId(chain[limit]) \in FeedsCursor
    BY <1>5, <1>16, <2>1 DEF F!OnlyId, F!NoTime, FeedsCursor
  <2>2. QED
    BY <1>9, <1>15, <1>16, <2>1
<1>18. answer.next # F!NoCursor => FeedsOnChain(answer.next)
  BY <1>1, <1>8, <1>17 DEF FeedsOnChain
<1>19. answer.ids \subseteq F!Rows
  <2>1. F!Rows = {whole[i] : i \in DOMAIN whole} \cap F!Alive
    BY <1>1, FeedsRowsOf
  <2>2. QED
    BY <1>8, <1>14, <2>1
<1>20. FeedsGood(answer)
  <2>1. answer.ids \subseteq FeedsListed
    BY <1>19, FeedsRowsListed
  <2>2. answer.next \in FeedsCursor
    BY <1>17 DEF F!NoCursor, F!NoTime, FeedsCursor
  <2>3. \A x \in answer.ids : FeedsAfter(x, cursor)
    BY <1>7, <1>9, <1>14 DEF start
  <2>4. ASSUME answer.next # F!NoCursor, NEW x \in answer.ids PROVE ~FeedsAfter(x, answer.next)
    <3>1. PICK i \in DOMAIN chain : i <= limit /\ x = chain[i]
      BY <1>14, <2>4
    <3>2. i = limit \/ chain[limit] < chain[i]
      BY <1>5, <1>6, <1>7, <1>17, <2>4, <3>1
    <3>3. QED
      BY <1>5, <1>17, <2>4, <3>1, <3>2
  <2>5. ASSUME answer.next # F!NoCursor, NEW x \in FeedsListed, FeedsAfter(x, answer.next) PROVE FeedsAfter(x, cursor)
    <3>1. x < chain[limit] /\ chain[limit] < start /\ chain[limit] \in Nat /\ x \in Nat
      BY <1>5, <1>7, <1>17, <2>5, FeedsNewer DEF FeedsFinite
    <3>2. QED
      BY <1>6, <1>9, <3>1 DEF start
  <2>6. ASSUME ~FeedsTorn, NEW x \in F!Rows, FeedsAfter(x, cursor), x \notin answer.ids
        PROVE  answer.next # F!NoCursor /\ FeedsAfter(x, answer.next)
    <3>1. PICK j \in DOMAIN whole : x = whole[j]
      BY <1>1, FeedsRowsOf
    <3>2. PICK m \in DOMAIN chain : x = chain[m]
      BY <1>10, <2>6, <3>1
    <3>3. \A i \in DOMAIN chain : chain[i] \in F!Alive
      BY <1>1, <1>8, <2>6 DEF FeedsTorn
    <3>4. limit < m
      BY <1>5, <1>6, <1>14, <2>6, <3>2, <3>3
    <3>5. limit \in DOMAIN chain
      BY <1>5, <1>6, <3>2, <3>4
    <3>6. more
      BY <1>7, <1>13, <3>2, <3>3, <3>4, <3>5
    <3>7. answer.next = F!OnlyId(chain[limit]) /\ chain[limit] \in Nat \ {0}
      BY <1>5, <1>15, <3>5, <3>6
    <3>8. answer.next # F!NoCursor
      BY <3>7 DEF F!OnlyId, F!NoCursor
    <3>9. QED
      BY <1>7, <1>17, <3>2, <3>4, <3>5, <3>8
  <2>7. QED
    BY <2>1, <2>2, <2>3, <2>4, <2>5, <2>6 DEF FeedsGood
<1>21. QED
  BY <1>11, <1>18, <1>19, <1>20 DEF FeedsAnswers

-----------------------------------------------------------------------------
(* Each query of a service answers so. *)
LEMMA FeedsServed ==
  ASSUME FeedsTimes, FeedsFinite, FeedsParents(posts), Listed # {}, PerSecond \in Nat \ {0},
         FeedsRegular => cursor \in FeedsCursor, FeedsChain,
         \/ F!ServeHomeFeed \/ F!ServeUserFeed \/ F!ServeUserMode \/ F!ServeBookmarks \/ F!ServeLiked
         \/ F!ServeQuotes \/ F!ServeDescendants \/ F!ServeParentChain \/ F!ServeListFeed \/ F!ServePosts
         \/ F!ServeHashtagPosts \/ F!ServeMentions \/ F!ServeFollowers \/ F!ServeFollowing \/ F!ServeLikers
         \/ F!ServeReposters \/ F!ServeMessages \/ F!ServeNotifications \/ F!ServeMembers
  PROVE  \E kinds, pages :
           /\ F!Query(kinds, pages) /\ FeedsAnswers(pages)
           /\ listing = "ancestors" => \A page \in pages : page.next # F!NoCursor => FeedsOnChain(page.next)
<1>1. CASE F!ServeHomeFeed \/ F!ServeListFeed \/ F!ServeUserFeed \/ F!ServeUserMode
  <2>1. PICK kinds : F!Query(kinds, F!FullPages(F!AfterKey(F!Rows), F!Exact)) /\ listing \in F!Keyset
    <3>1. CASE F!ServeHomeFeed
      BY <3>1, FeedsRowsOf DEF F!ServeHomeFeed, F!Query, F!Keyset, F!GetHomeFeed
    <3>2. CASE F!ServeListFeed
      BY <3>2, FeedsRowsOf DEF F!ServeListFeed, F!Query, F!Keyset, F!GetListFeed
    <3>3. CASE F!ServeUserFeed
      BY <3>3, FeedsRowsOf DEF F!ServeUserFeed, F!Query, F!Keyset, F!GetUserFeed
    <3>4. CASE F!ServeUserMode
      BY <3>4, FeedsRowsOf DEF F!ServeUserMode, F!Query, F!Keyset, F!RunUserFeedQuery
    <3>5. QED
      BY <1>1, <3>1, <3>2, <3>3, <3>4
  <2>2. FeedsAnswers(F!FullPages(F!AfterKey(F!Rows), F!Exact))
    BY <2>1, FeedsByKey DEF FeedsRegular, F!Keyset, F!Crowd
  <2>3. listing # "ancestors"
    BY <2>1 DEF F!Keyset
  <2>4. QED
    BY <2>1, <2>2, <2>3
<1>2. CASE F!ServePosts \/ F!ServeHashtagPosts \/ F!ServeMentions \/ F!ServeMessages \/ F!ServeNotifications
  <2>1. PICK kinds : F!Query(kinds, F!MorePages(F!AfterKey(F!Rows), F!Exact)) /\ listing \in F!Keyset
    <3>1. CASE F!ServePosts
      BY <3>1, FeedsRowsOf DEF F!ServePosts, F!Query, F!Keyset, F!ListDiscoverablePosts
    <3>2. CASE F!ServeHashtagPosts
      BY <3>2, FeedsRowsOf DEF F!ServeHashtagPosts, F!Query, F!Keyset, F!ListDiscoverablePosts
    <3>3. CASE F!ServeMentions
      BY <3>3, FeedsRowsOf DEF F!ServeMentions, F!Query, F!Keyset, F!ListDiscoverablePosts
    <3>4. CASE F!ServeMessages \/ F!ServeNotifications
      BY <3>4, FeedsRowsOf DEF F!ServeMessages, F!ServeNotifications, F!Query, F!Keyset, F!ListMessages, F!ListNotifications
    <3>5. QED
      BY <1>2, <3>1, <3>2, <3>3, <3>4
  <2>2. FeedsAnswers(F!MorePages(F!AfterKey(F!Rows), F!Exact))
    BY <2>1, FeedsByKey DEF FeedsRegular, F!Keyset, F!Crowd
  <2>3. listing # "ancestors"
    BY <2>1 DEF F!Keyset
  <2>4. QED
    BY <2>1, <2>2, <2>3
<1>3. CASE F!ServeDescendants \/ F!ServeMembers
  <2>1. PICK kinds, pages : /\ F!Query(kinds, pages) /\ listing \in F!ByInstant
                            /\ pages \in {F!FullPages(F!AfterTime(F!Rows), F!Exact), F!MorePages(F!AfterTime(F!Rows), F!Exact)}
    BY <1>3, FeedsRowsOf DEF F!ServeDescendants, F!ServeMembers, F!Query, F!ByInstant, F!GetDescendants, F!GetMembers
  <2>2. FeedsAnswers(pages)
    BY <2>1, FeedsByTime DEF FeedsRegular, F!ByInstant, F!Crowd
  <2>3. listing # "ancestors"
    BY <2>1 DEF F!ByInstant
  <2>4. QED
    BY <2>1, <2>2, <2>3
<1>4. CASE F!ServeBookmarks \/ F!ServeLiked \/ F!ServeQuotes
  <2>1. PICK kinds : F!Query(kinds, F!FullPages(F!AfterTime(F!Rows), F!ToTheSecond)) /\ listing \in F!BySecond
    BY <1>4, FeedsRowsOf
       DEF F!ServeBookmarks, F!ServeLiked, F!ServeQuotes, F!Query, F!BySecond, F!GetBookmarkedPostsFeed,
           F!GetLikedPostsFeed, F!GetQuotesFeed
  <2>2. FeedsAnswers(F!FullPages(F!AfterTime(F!Rows), F!ToTheSecond))
    BY <2>1, FeedsBySecond DEF FeedsRegular, F!BySecond, F!Crowd
  <2>3. listing # "ancestors"
    BY <2>1 DEF F!BySecond
  <2>4. QED
    BY <2>1, <2>2, <2>3
<1>5. CASE F!ServeFollowers
  <2>1. F!Query({"followers"}, F!GetFollowers) /\ listing = "followers"
    BY <1>5 DEF F!ServeFollowers, F!Query
  <2>2. FeedsAnswers(F!GetFollowers)
    BY <2>1, FeedsByFollowers DEF FeedsRegular, F!Crowd
  <2>3. QED
    BY <2>1, <2>2
<1>6. CASE F!ServeFollowing \/ F!ServeLikers \/ F!ServeReposters
  <2>1. PICK kinds, pages : /\ F!Query(kinds, pages) /\ listing \in F!Crowd \cup {"following"}
                            /\ pages \in {F!GetPostLikers, F!GetPostReposters, F!GetFollowing}
    BY <1>6 DEF F!ServeFollowing, F!ServeLikers, F!ServeReposters, F!Query, F!Crowd
  <2>2. FeedsAnswers(pages)
    BY <2>1, FeedsByCrowd
  <2>3. listing # "ancestors"
    BY <2>1 DEF F!Crowd
  <2>4. QED
    BY <2>1, <2>2, <2>3
<1>7. CASE F!ServeParentChain
  <2>1. F!Query({"ancestors"}, F!GetParentChain) /\ listing = "ancestors"
    BY <1>7 DEF F!ServeParentChain, F!Query
  <2>2. FeedsAnswers(F!GetParentChain) /\ \A page \in F!GetParentChain : page.next # F!NoCursor => FeedsOnChain(page.next)
    BY <2>1, FeedsByAncestors DEF FeedsChain, FeedsRegular, F!Crowd
  <2>3. QED
    BY <2>1, <2>2
<1>8. QED
  BY <1>1, <1>2, <1>3, <1>4, <1>5, <1>6, <1>7

-----------------------------------------------------------------------------
(* The same after a step, from what of the tables it leaves. *)
FeedsRowsFrom(kind, home, list, user, mode, search, hashtag, mentions, quotes, below, above, liked, kept, marked) ==
  CASE kind = "home" -> home
    [] kind = "list" -> list
    [] kind \in {"user", "all"} -> user
    [] kind \in {"replies", "media"} -> mode
    [] kind = "search" -> search
    [] kind = "hashtag" -> hashtag
    [] kind = "mentions" -> mentions
    [] kind = "quotes" -> quotes
    [] kind = "descendants" -> below
    [] kind = "ancestors" -> above
    [] kind = "liked" -> liked
    [] kind = "bookmarks" -> kept
    [] OTHER -> marked

FeedsAncestorRows == {F!Ancestors[F!Leaf][i] : i \in DOMAIN F!Ancestors[F!Leaf]} \cap F!Alive

LEMMA FeedsRowsAre ==
  /\ F!Rows = FeedsRowsFrom(listing, F!HomeRows, F!ListRows, F!UserRows(listing = "all"), F!ModeRows(listing), F!SearchRows(FALSE),
                          F!HashtagRows, F!MentionRows, F!QuoteRows, F!DescendantRows, FeedsAncestorRows,
                          F!LikedRows, F!BookmarkRows, F!Marked)
  /\ F!Rows' = FeedsRowsFrom(listing', F!HomeRows', F!ListRows', F!UserRows(listing = "all")', F!ModeRows(listing)',
                           F!SearchRows(FALSE)', F!HashtagRows', F!MentionRows', F!QuoteRows', F!DescendantRows',
                           FeedsAncestorRows', F!LikedRows', F!BookmarkRows', F!Marked')
BY DEF F!Rows, FeedsRowsFrom, FeedsAncestorRows

LEMMA FeedsSamePosts ==
  ASSUME UNCHANGED <<posts, follows, listing, wanted>>
  PROVE  /\ F!Ancestors' = F!Ancestors /\ F!Alive' = F!Alive /\ F!HomeRows' = F!HomeRows /\ F!ListRows' = F!ListRows
         /\ F!UserRows(listing = "all")' = F!UserRows(listing = "all") /\ F!ModeRows(listing)' = F!ModeRows(listing)
         /\ F!SearchRows(FALSE)' = F!SearchRows(FALSE) /\ F!HashtagRows' = F!HashtagRows /\ F!MentionRows' = F!MentionRows
         /\ F!QuoteRows' = F!QuoteRows /\ F!DescendantRows' = F!DescendantRows
         /\ FeedsAncestorRows' = FeedsAncestorRows
<1>1. F!Ancestors' = F!Ancestors
  <2>1. F!Ancestors = FeedsChains(posts) /\ F!Ancestors' = FeedsChains(posts')
    BY DEF F!Ancestors, FeedsChains
  <2>2. QED
    BY <2>1
<1>2. F!Alive' = F!Alive /\ F!TopLevel' = F!TopLevel
  BY DEF F!Alive, F!TopLevel
<1>3. /\ F!HomeRows' = F!HomeRows /\ F!ListRows' = F!ListRows
      /\ F!UserRows(listing = "all")' = F!UserRows(listing = "all") /\ F!ModeRows(listing)' = F!ModeRows(listing)
  BY <1>2 DEF F!HomeRows, F!ListRows, F!UserRows, F!ModeRows
<1>4. /\ F!SearchRows(FALSE)' = F!SearchRows(FALSE) /\ F!HashtagRows' = F!HashtagRows /\ F!MentionRows' = F!MentionRows
      /\ F!QuoteRows' = F!QuoteRows /\ F!DescendantRows' = F!DescendantRows
  BY <1>2 DEF F!SearchRows, F!HashtagRows, F!MentionRows, F!QuoteRows, F!DescendantRows
<1>5. FeedsAncestorRows' = FeedsAncestorRows
  BY <1>1, <1>2 DEF FeedsAncestorRows
<1>6. QED
  BY <1>1, <1>2, <1>3, <1>4, <1>5

LEMMA FeedsSameRows ==
  ASSUME UNCHANGED <<F!tables, listing, wanted>>
  PROVE  F!Rows' = F!Rows /\ F!CanBeShown' = F!CanBeShown
<1>1. UNCHANGED <<posts, marks, removed, follows, private, listing, wanted>>
  BY DEF F!tables
<1>2. F!Marked' = F!Marked
  BY <1>1 DEF F!Marked
<1>3. F!LikedRows' = F!LikedRows /\ F!BookmarkRows' = F!BookmarkRows
  BY <1>1, <1>2, FeedsSamePosts DEF F!LikedRows, F!BookmarkRows
<1>4. F!Rows' = F!Rows
  BY <1>1, <1>2, <1>3, FeedsSamePosts, FeedsRowsAre
<1>5. \A x : F!CanViewPost(x)' <=> F!CanViewPost(x)
  BY <1>1 DEF F!CanViewPost, F!CanSee
<1>6. QED
  BY <1>1, <1>4, <1>5 DEF F!CanBeShown

LEMMA FeedsStill ==
  ASSUME UNCHANGED <<F!tables, listing, wanted>>
  PROVE  /\ FeedsListed' = FeedsListed /\ \A x : F!Time(x)' = F!Time(x)
         /\ F!Rows' = F!Rows /\ F!CanBeShown' = F!CanBeShown
         /\ F!Alive' = F!Alive /\ F!Ancestors' = F!Ancestors /\ F!DescendantRows' = F!DescendantRows
         /\ \A x : F!CanViewPost(x)' <=> F!CanViewPost(x)
         /\ FeedsTorn' <=> FeedsTorn
         /\ FeedsRegular' <=> FeedsRegular
<1>1. UNCHANGED <<posts, marks, removed, follows, private, listing, wanted>>
  BY DEF F!tables
<1>2. F!Alive' = F!Alive /\ F!Ancestors' = F!Ancestors /\ F!DescendantRows' = F!DescendantRows
  BY <1>1, FeedsSamePosts
<1>3. FeedsListed' = FeedsListed /\ \A x : F!Time(x)' = F!Time(x)
  BY <1>1 DEF FeedsListed, F!Time
<1>4. \A x : F!CanViewPost(x)' <=> F!CanViewPost(x)
  BY <1>1 DEF F!CanViewPost, F!CanSee
<1>5. FeedsTorn' <=> FeedsTorn
  <2>1. (F!Apart(F!Same)' <=> F!Apart(F!Same)) /\ (F!Apart(F!Second)' <=> F!Apart(F!Second))
    BY <1>1, <1>3 DEF F!Apart, F!Same, F!Second
  <2>2. QED
    BY <1>1, <1>2, <2>1 DEF FeedsTorn
<1>6. FeedsRegular' <=> FeedsRegular
  BY <1>1 DEF FeedsRegular
<1>7. QED
  BY <1>2, <1>3, <1>4, <1>5, <1>6, FeedsSameRows

-----------------------------------------------------------------------------
(* The walk: the types of what it is ordered by, and what each request keeps of it. *)
FeedsOrdered ==
  /\ FeedsTimes /\ FeedsParents(posts)
  /\ FeedsRegular => cursor \in FeedsCursor /\ next \in FeedsCursor

FeedsWalk == FeedsOrdered /\ FeedsOnce /\ FeedsChain /\ FeedsWhole /\ FeedsRace

LEMMA FeedsStillOrdered ==
  ASSUME FeedsOrdered, UNCHANGED <<F!tables, listing, limit, wanted>>,
         FeedsRegular => cursor' \in FeedsCursor /\ next' \in FeedsCursor
  PROVE  FeedsOrdered'
<1>1. UNCHANGED <<posts, marks, removed, follows, private, listing, limit, wanted>>
  BY DEF F!tables
<1>2. FeedsParents(posts)'
  BY <1>1 DEF FeedsOrdered, FeedsParents
<1>3. FeedsTimes'
  BY <1>1, FeedsStill DEF FeedsOrdered, FeedsTimes
<1>4. QED
  BY <1>1, <1>2, <1>3, FeedsStill DEF FeedsOrdered

(* A request that has not been answered leaves the walk where it is. *)
LEMMA FeedsStarts ==
  ASSUME FeedsWalk, NEW kinds, NEW allowed, F!Ask(kinds, allowed),
         \/ allowed = TRUE
         \/ listing \in {"quotes", "likers", "reposters", "descendants"} /\ allowed = F!CanViewPost(F!Root)
         \/ listing = "ancestors" /\ allowed = F!CanViewPost(F!Leaf)
  PROVE  FeedsWalk'
<1>1. UNCHANGED <<F!tables, listing, limit, wanted, cursor, next, shown, twice, stable, feedChanges>>
  BY DEF F!Ask, F!walk
<1>2. step = "ask" /\ step' = IF allowed THEN "query" ELSE "failed"
  BY DEF F!Ask, F!Goto
<1>3. step' \in {"query", "failed"}
  BY <1>2
<1>4. FeedsOrdered'
  BY <1>1, FeedsStillOrdered DEF FeedsWalk, FeedsOrdered
<1>5. \A x : FeedsAfter(x, cursor)' <=> FeedsAfter(x, cursor)
  BY <1>1, FeedsStill DEF FeedsAfter
<1>6. FeedsOnce'
  BY <1>1, <1>2, <1>3, <1>5, FeedsStill DEF FeedsWalk, FeedsOnce, FeedsReading
<1>7. FeedsChain'
  BY <1>1, <1>3, FeedsStill DEF FeedsWalk, FeedsChain, FeedsReading, FeedsOnChain
<1>8. FeedsWhole'
  BY <1>1, <1>2, <1>3, <1>5, FeedsStill DEF FeedsWalk, FeedsWhole, FeedsReading
<1>9. FeedsRace'
  <2>1. asked' = feedChanges /\ feedChanges' = feedChanges /\ feedChanges \in Nat
    BY <1>1 DEF F!Ask, FeedsWalk, FeedsRace
  <2>2. F!FailsOnlyByRace'
    <3>1. CASE allowed = TRUE
      BY <1>2, <3>1 DEF F!FailsOnlyByRace
    <3>2. CASE listing \in {"quotes", "likers", "reposters", "descendants"} /\ allowed = F!CanViewPost(F!Root)
      BY <1>1, <1>2, <3>2, FeedsStill DEF F!FailsOnlyByRace
    <3>3. CASE listing = "ancestors" /\ allowed = F!CanViewPost(F!Leaf)
      BY <1>1, <1>2, <3>3, FeedsStill DEF F!FailsOnlyByRace
    <3>4. QED
      BY <3>1, <3>2, <3>3
  <2>3. QED
    BY <1>3, <2>1, <2>2 DEF FeedsRace
<1>10. QED
  BY <1>4, <1>6, <1>7, <1>8, <1>9 DEF FeedsWalk

(* A page that is read comes after the cursor, and leaves out nothing before its own. *)
LEMMA FeedsReads ==
  ASSUME FeedsWalk, NEW kinds, NEW pages, F!Query(kinds, pages), FeedsAnswers(pages),
         listing = "ancestors" => \A page \in pages : page.next # F!NoCursor => FeedsOnChain(page.next)
  PROVE  FeedsWalk'
<1>1. UNCHANGED <<F!tables, listing, limit, wanted, cursor, shown, twice, stable, feedChanges, asked>>
  BY DEF F!Query, F!walk
<1>2. \A x : FeedsAfter(x, cursor)' <=> FeedsAfter(x, cursor)
  BY <1>1, FeedsStill DEF FeedsAfter
<1>3. step = "query" /\ (FeedsRegular => cursor \in FeedsCursor)
  BY DEF F!Query, FeedsWalk, FeedsOrdered
<1>4. CASE \E page \in pages : ids' = page.ids /\ next' = page.next /\ F!Goto("hydrate")
  <2>1. PICK page \in pages : ids' = page.ids /\ next' = page.next
    BY <1>4
  <2>2. step' = "hydrate"
    BY <1>4 DEF F!Goto
  <2>3. FeedsRegular => FeedsGood(page)
    BY <2>1 DEF FeedsAnswers
  <2>4. listing \in F!OfPosts => page.ids \subseteq F!Rows
    BY <2>1 DEF FeedsAnswers
  <2>5. listing = "followers" => cursor = F!NoCursor
    BY <2>1 DEF FeedsAnswers
  <2>6. \A x : FeedsAfter(x, next)' <=> FeedsAfter(x, page.next)
    BY <1>1, <2>1, FeedsStill DEF FeedsAfter
  <2>7. stable \subseteq F!Rows
    BY DEF FeedsWalk, FeedsWhole, F!CanBeShown
  <2>8. FeedsOrdered'
    <3>1. FeedsRegular => next' \in FeedsCursor
      BY <2>1, <2>3 DEF FeedsGood
    <3>2. QED
      BY <1>1, <1>3, <3>1, FeedsStillOrdered DEF FeedsWalk
  <2>9. FeedsOnce'
    BY <1>1, <1>2, <1>3, <2>1, <2>2, <2>3, <2>6, FeedsStill DEF FeedsWalk, FeedsOnce, FeedsReading, FeedsGood
  <2>10. FeedsChain'
    BY <1>1, <2>1, <2>2, FeedsStill DEF FeedsWalk, FeedsChain, FeedsReading, FeedsOnChain
  <2>11. FeedsWhole'
    <3>1. /\ stable' \subseteq F!CanBeShown' /\ step' = "hydrate"
          /\ listing' = "followers" => cursor' = F!NoCursor
      BY <1>1, <2>2, <2>5, FeedsStill DEF FeedsWalk, FeedsWhole
    <3>2. ASSUME FeedsRegular, ~FeedsTorn
          PROVE  /\ \A x \in stable : x \in shown \/ FeedsAfter(x, cursor)
                 /\ \A x \in stable : FeedsAfter(x, cursor) =>
                      x \in page.ids \/ (page.next # F!NoCursor /\ (FeedsAfter(x, page.next) \/ listing = "followers"))
      BY <1>3, <2>3, <2>5, <2>7, <3>2 DEF FeedsWalk, FeedsWhole, FeedsGood
    <3>3. QED
      BY <1>1, <1>2, <2>1, <2>2, <2>6, <3>1, <3>2, FeedsStill DEF FeedsWhole
  <2>12. FeedsRace'
    <3>1. listing \in F!OfPosts => page.ids \subseteq F!Alive \/ (listing = "descendants" /\ ~(F!DescendantRows \subseteq F!Alive))
      BY <2>4, FeedsRowsListed, FeedsRowsOf DEF FeedsWalk, FeedsOrdered
    <3>2. QED
      BY <1>1, <2>1, <2>2, <3>1, FeedsStill DEF FeedsWalk, FeedsRace, F!FailsOnlyByRace
  <2>13. QED
    BY <2>8, <2>9, <2>10, <2>11, <2>12 DEF FeedsWalk
<1>5. CASE pages = {} /\ F!Goto("failed") /\ UNCHANGED <<ids, next>>
  <2>1. step' = "failed" /\ next' = next /\ listing = "followers" /\ cursor # F!NoCursor
    BY <1>5 DEF F!Goto, FeedsAnswers
  <2>2. FeedsOrdered'
    BY <1>1, <1>3, <2>1, FeedsStillOrdered DEF FeedsWalk, FeedsOrdered
  <2>3. FeedsOnce'
    BY <1>1, <1>2, <1>3, <2>1, FeedsStill DEF FeedsWalk, FeedsOnce, FeedsReading
  <2>4. FeedsChain'
    BY <1>1, <2>1, FeedsStill DEF FeedsWalk, FeedsChain
  <2>5. FeedsWhole'
    BY <1>1, <1>2, <1>3, <2>1, FeedsStill DEF FeedsWalk, FeedsWhole, FeedsReading
  <2>6. FeedsRace'
    BY <1>1, <2>1 DEF FeedsWalk, FeedsRace, F!FailsOnlyByRace
  <2>7. QED
    BY <2>2, <2>3, <2>4, <2>5, <2>6 DEF FeedsWalk
<1>6. QED
  BY <1>4, <1>5 DEF F!Query

(* The posts of a page that is not there any more fail it, and that is a change. *)
LEMMA FeedsHydrates ==
  ASSUME FeedsWalk, NEW kinds \in SUBSET F!OfPosts, F!GetFullPostsByID(kinds)
  PROVE  FeedsWalk'
<1>1. UNCHANGED <<F!tables, listing, limit, wanted, cursor, next, ids, shown, twice, stable, feedChanges, asked, following>>
  BY DEF F!GetFullPostsByID, F!walk
<1>2. /\ step = "hydrate" /\ listing \in F!OfPosts
      /\ step' = IF ids \subseteq F!Alive THEN "statuses" ELSE "failed"
  BY DEF F!GetFullPostsByID, F!Goto
<1>3. FeedsOrdered'
  BY <1>1, FeedsStillOrdered DEF FeedsWalk, FeedsOrdered
<1>4. \A x : (FeedsAfter(x, cursor)' <=> FeedsAfter(x, cursor)) /\ (FeedsAfter(x, next)' <=> FeedsAfter(x, next))
  BY <1>1, FeedsStill DEF FeedsAfter
<1>5. FeedsOnce'
  BY <1>1, <1>2, <1>4, FeedsStill DEF FeedsWalk, FeedsOnce, FeedsReading
<1>6. FeedsChain'
  BY <1>1, <1>2, FeedsStill DEF FeedsWalk, FeedsChain, FeedsReading, FeedsOnChain
<1>7. FeedsWhole'
  BY <1>1, <1>2, <1>4, FeedsStill DEF FeedsWalk, FeedsWhole, FeedsReading
<1>8. FeedsRace'
  <2>1. CASE ids \subseteq F!Alive
    BY <1>1, <1>2, <2>1 DEF FeedsWalk, FeedsRace, F!FailsOnlyByRace
  <2>2. CASE ~(ids \subseteq F!Alive)
    BY <1>1, <1>2, <2>2, FeedsStill DEF FeedsWalk, FeedsRace, F!FailsOnlyByRace
  <2>3. QED
    BY <2>1, <2>2
<1>9. QED
  BY <1>3, <1>5, <1>6, <1>7, <1>8 DEF FeedsWalk

(* The viewer can see what could be shown, with the follows that are read now. *)
LEMMA FeedsSees == ASSUME FeedsWalk, F!GetRelationshipStatuses PROVE FeedsWalk'
<1>1. UNCHANGED <<F!tables, listing, limit, wanted, cursor, next, ids, shown, twice, stable, feedChanges, asked>>
  BY DEF F!GetRelationshipStatuses, F!walk
<1>2. step = "statuses" /\ step' = "filter" /\ following' = follows /\ listing \in F!OfPosts
  BY DEF F!GetRelationshipStatuses, F!Goto, FeedsWalk, FeedsWhole
<1>3. FeedsOrdered'
  BY <1>1, FeedsStillOrdered DEF FeedsWalk, FeedsOrdered
<1>4. \A x : (FeedsAfter(x, cursor)' <=> FeedsAfter(x, cursor)) /\ (FeedsAfter(x, next)' <=> FeedsAfter(x, next))
  BY <1>1, FeedsStill DEF FeedsAfter
<1>5. FeedsOnce'
  BY <1>1, <1>2, <1>4, FeedsStill DEF FeedsWalk, FeedsOnce, FeedsReading
<1>6. FeedsChain'
  BY <1>1, <1>2, FeedsStill DEF FeedsWalk, FeedsChain, FeedsReading, FeedsOnChain
<1>7. FeedsWhole'
  <2>1. ASSUME NEW x \in stable PROVE F!CanSee(x, following, private)'
    <3>1. F!CanSee(x, follows, private)
      <4>1. listing \notin F!OfMarks \ {"liked", "bookmarks"}
        BY <1>2 DEF F!OfPosts, F!OfMarks
      <4>2. x \in F!CanBeShown
        BY DEF FeedsWalk, FeedsWhole
      <4>3. QED
        BY <4>1, <4>2 DEF F!CanBeShown, F!CanViewPost
    <3>2. QED
      BY <1>1, <1>2, <3>1 DEF F!CanSee, F!tables
  <2>2. QED
    BY <1>1, <1>2, <1>4, <2>1, FeedsStill DEF FeedsWalk, FeedsWhole, FeedsReading
<1>8. FeedsRace'
  BY <1>1, <1>2 DEF FeedsWalk, FeedsRace, F!FailsOnlyByRace
<1>9. QED
  BY <1>3, <1>5, <1>6, <1>7, <1>8 DEF FeedsWalk

(* What a response leaves out was not there, or not for the viewer, all the time. *)
LEMMA FeedsGives ==
  ASSUME FeedsWalk, FeedsReading, NEW items \in SUBSET ids, stable \cap ids \subseteq items, F!Respond(items)
  PROVE  FeedsWalk'
<1>1. UNCHANGED <<F!tables, listing, limit, wanted, stable, feedChanges, asked>>
  BY DEF F!Respond
<1>2. /\ step # "done" /\ step' = IF next = F!NoCursor THEN "done" ELSE "ask"
      /\ cursor' = next /\ next' = F!NoCursor /\ twice' = twice \cup (shown \cap items) /\ shown' = shown \cup items
  BY DEF F!Respond, F!Goto, FeedsReading
<1>3. step' \in {"done", "ask"}
  BY <1>2
<1>4. FeedsOrdered'
  <2>1. F!NoCursor \in FeedsCursor
    BY DEF F!NoCursor, F!NoTime, FeedsCursor
  <2>2. QED
    BY <1>1, <1>2, <2>1, FeedsStillOrdered DEF FeedsWalk, FeedsOrdered
<1>5. \A x : FeedsAfter(x, cursor)' <=> FeedsAfter(x, next)
  BY <1>1, <1>2, FeedsStill DEF FeedsAfter
<1>6. FeedsOnce'
  <2>1. ASSUME FeedsRegular
        PROVE  /\ shown \cap items = {} /\ twice = {} /\ shown \cup items \subseteq FeedsListed
               /\ next # F!NoCursor => \A x \in shown \cup items : ~FeedsAfter(x, next)
    BY <1>2, <2>1 DEF FeedsWalk, FeedsOnce
  <2>2. QED
    BY <1>2, <1>3, <1>5, <2>1, <1>1, FeedsStill DEF FeedsOnce, FeedsReading
<1>7. FeedsChain'
  BY <1>1, <1>2, <1>3, FeedsStill DEF FeedsWalk, FeedsChain, FeedsReading, FeedsOnChain
<1>8. FeedsWhole'
  <2>1. ASSUME FeedsRegular, ~FeedsTorn, NEW x \in stable
        PROVE  x \in shown' \/ (next # F!NoCursor /\ (FeedsAfter(x, next) \/ listing = "followers"))
    BY <1>2, <2>1 DEF FeedsWalk, FeedsWhole
  <2>2. QED
    BY <1>1, <1>2, <1>3, <1>5, <2>1, FeedsStill DEF FeedsWalk, FeedsWhole, FeedsReading
<1>9. FeedsRace'
  BY <1>1, <1>3 DEF FeedsWalk, FeedsRace, F!FailsOnlyByRace
<1>10. QED
  BY <1>4, <1>6, <1>7, <1>8, <1>9 DEF FeedsWalk

LEMMA FeedsFilters == ASSUME FeedsWalk, F!FilterVisiblePosts \/ F!RespondUnfiltered PROVE FeedsWalk'
<1>1. CASE F!FilterVisiblePosts
  <2>1. FeedsReading /\ \A x \in stable : F!CanSee(x, following, private)
    BY <1>1 DEF F!FilterVisiblePosts, FeedsReading, FeedsWalk, FeedsWhole
  <2>2. QED
    BY <1>1, <2>1, FeedsGives DEF F!FilterVisiblePosts
<1>2. CASE F!RespondUnfiltered
  BY <1>2, FeedsGives DEF F!RespondUnfiltered, FeedsReading
<1>3. QED
  BY <1>1, <1>2

LEMMA FeedsAgain == ASSUME FeedsWalk, F!Retry \/ F!Reload PROVE FeedsWalk'
<1>1. UNCHANGED <<F!tables, listing, limit, wanted, feedChanges, asked>> /\ step' = "ask" /\ next' = F!NoCursor
  BY DEF F!Retry, F!Reload, F!Goto, F!walk
<1>2. F!NoCursor \in FeedsCursor
  BY DEF F!NoCursor, F!NoTime, FeedsCursor
<1>3. FeedsRace'
  BY <1>1 DEF FeedsWalk, FeedsRace, F!FailsOnlyByRace
<1>4. CASE F!Retry
  <2>1. UNCHANGED <<cursor, shown, twice, stable>> /\ step = "failed"
    BY <1>4 DEF F!Retry, F!walk
  <2>2. FeedsOrdered'
    BY <1>1, <1>2, <2>1, FeedsStillOrdered DEF FeedsWalk, FeedsOrdered
  <2>3. \A x : FeedsAfter(x, cursor)' <=> FeedsAfter(x, cursor)
    BY <1>1, <2>1, FeedsStill DEF FeedsAfter
  <2>4. FeedsOnce'
    BY <1>1, <2>1, <2>3, FeedsStill DEF FeedsWalk, FeedsOnce, FeedsReading
  <2>5. FeedsChain'
    BY <1>1, <2>1, FeedsStill DEF FeedsWalk, FeedsChain, FeedsReading, FeedsOnChain
  <2>6. FeedsWhole'
    BY <1>1, <2>1, <2>3, FeedsStill DEF FeedsWalk, FeedsWhole, FeedsReading
  <2>7. QED
    BY <1>3, <2>2, <2>4, <2>5, <2>6 DEF FeedsWalk
<1>5. CASE F!Reload
  <2>1. cursor' = F!NoCursor /\ shown' = {} /\ twice' = {} /\ stable' = F!CanBeShown
    BY <1>5 DEF F!Reload
  <2>2. FeedsOrdered'
    BY <1>1, <1>2, <2>1, FeedsStillOrdered DEF FeedsWalk
  <2>3. \A x : FeedsAfter(x, cursor)'
    BY <2>1 DEF FeedsAfter, FeedsComes, F!NoCursor
  <2>4. FeedsOnce'
    BY <1>1, <2>1 DEF FeedsOnce, FeedsReading
  <2>5. FeedsChain'
    BY <1>1, <2>1 DEF FeedsChain, FeedsReading, F!NoCursor
  <2>6. FeedsWhole'
    BY <1>1, <2>1, <2>3, FeedsStill DEF FeedsWhole, FeedsReading
  <2>7. QED
    BY <1>3, <2>2, <2>4, <2>5, <2>6 DEF FeedsWalk
<1>6. QED
  BY <1>4, <1>5

LEMMA FeedsStutters == ASSUME FeedsWalk, UNCHANGED F!vars PROVE FeedsWalk'
<1>1. /\ UNCHANGED <<F!tables, listing, limit, wanted, cursor, next, ids, shown, twice, stable, feedChanges, asked, following, step>>
      /\ UNCHANGED private
  BY DEF F!vars, F!tables, F!walk, F!reading
<1>2. FeedsOrdered'
  BY <1>1, FeedsStillOrdered DEF FeedsWalk, FeedsOrdered
<1>3. \A x : (FeedsAfter(x, cursor)' <=> FeedsAfter(x, cursor)) /\ (FeedsAfter(x, next)' <=> FeedsAfter(x, next))
  BY <1>1, FeedsStill DEF FeedsAfter
<1>4. FeedsOnce'
  BY <1>1, <1>3, FeedsStill DEF FeedsWalk, FeedsOnce, FeedsReading
<1>5. FeedsChain'
  BY <1>1, FeedsStill DEF FeedsWalk, FeedsChain, FeedsReading, FeedsOnChain
<1>6. FeedsWhole'
  <2>1. \A x : F!CanSee(x, following, private)' <=> F!CanSee(x, following, private)
    BY <1>1 DEF F!CanSee, F!tables
  <2>2. QED
    BY <1>1, <1>3, <2>1, FeedsStill DEF FeedsWalk, FeedsWhole, FeedsReading
<1>7. FeedsRace'
  BY <1>1, FeedsStill DEF FeedsWalk, FeedsRace, F!FailsOnlyByRace
<1>8. QED
  BY <1>2, <1>4, <1>5, <1>6, <1>7 DEF FeedsWalk

-----------------------------------------------------------------------------
(* What another request changes: a post may go, and who may see it, but neither what it
   hangs from nor its time; what could be shown and still can was not lost. *)
LEMMA FeedsOthers ==
  ASSUME F!FeedsTypeOK, FeedsWalk, F!DeletePost \/ F!ChangeFollow \/ F!ChangePrivacy \/ F!RemoveMark
  PROVE  /\ UNCHANGED <<marks, listing, limit, wanted, cursor, next, ids, shown, twice, asked, following, step>>
         /\ feedChanges' = feedChanges + 1
         /\ F!Alive' \subseteq F!Alive /\ removed' \subseteq DOMAIN marks
         /\ \A p \in Listed :
                /\ posts'[p].author = posts[p].author /\ posts'[p].parent = posts[p].parent
                /\ posts'[p].visibility = posts[p].visibility
                /\ posts'[p].audience = posts[p].audience /\ posts'[p].at = posts[p].at
<1>1. UNCHANGED <<marks, listing, limit, wanted, cursor, next, ids, shown, twice, asked, following, step>>
      /\ feedChanges' = feedChanges + 1
  BY DEF F!DeletePost, F!ChangeFollow, F!ChangePrivacy, F!RemoveMark, F!Change, F!walk
<1>2. removed' \subseteq DOMAIN marks
  BY DEF F!FeedsTypeOK, F!DeletePost, F!ChangeFollow, F!ChangePrivacy, F!RemoveMark, F!Marked
<1>3. CASE F!DeletePost
  <2>1. PICK lost : posts' = [q \in Listed |-> [posts[q] EXCEPT !.deleted = @ \/ q \in lost]]
    <3>1. PICK p \in F!Alive :
            posts' = [q \in Listed |-> [posts[q] EXCEPT !.deleted =
                        @ \/ q \in {o \in Listed : o = p \/ \E i \in DOMAIN F!Ancestors[o] : F!Ancestors[o][i] = p}]]
      BY <1>3 DEF F!DeletePost
    <3>2. QED
      BY <3>1
  <2>2. \A q \in Listed : posts[q] \in FeedsRow
    BY DEF F!FeedsTypeOK, FeedsRow
  <2>3. \A q \in Listed :
            /\ posts'[q].author = posts[q].author /\ posts'[q].parent = posts[q].parent
            /\ posts'[q].visibility = posts[q].visibility
            /\ posts'[q].audience = posts[q].audience /\ posts'[q].at = posts[q].at
            /\ posts[q].deleted => posts'[q].deleted
    BY <2>1, <2>2 DEF FeedsRow
  <2>4. QED
    BY <1>1, <1>2, <2>3 DEF F!Alive
<1>4. CASE F!ChangeFollow \/ F!ChangePrivacy \/ F!RemoveMark
  <2>1. posts' = posts
    BY <1>4 DEF F!ChangeFollow, F!ChangePrivacy, F!RemoveMark
  <2>2. QED
    BY <1>1, <1>2, <2>1 DEF F!Alive
<1>5. QED
  BY <1>3, <1>4

LEMMA FeedsRemoves ==
  ASSUME FeedsWalk, NEW x \in F!Marked, removed' = removed \cup {x}, UNCHANGED <<posts, marks, follows, private, listing, wanted>>
  PROVE  F!CanBeShown \ {x} \subseteq F!CanBeShown'
<1>1. F!Marked' = F!Marked \ {x}
  BY DEF F!Marked
<1>2. F!LikedRows' = F!LikedRows \ {x} /\ F!BookmarkRows' = F!BookmarkRows \ {x}
  BY <1>1, FeedsSamePosts DEF F!LikedRows, F!BookmarkRows
<1>3. \A kind, a, b, c, d, e, f, g, h, i, j, k, l, m :
        FeedsRowsFrom(kind, a, b, c, d, e, f, g, h, i, j, k, l, m) \ {x}
          \subseteq FeedsRowsFrom(kind, a, b, c, d, e, f, g, h, i, j, k \ {x}, l \ {x}, m \ {x})
  BY DEF FeedsRowsFrom
<1>4. F!Rows \ {x} \subseteq F!Rows'
  BY <1>1, <1>2, <1>3, FeedsSamePosts, FeedsRowsAre
<1>5. \A y : F!CanViewPost(y)' <=> F!CanViewPost(y)
  BY DEF F!CanViewPost, F!CanSee
<1>6. QED
  BY <1>4, <1>5 DEF F!CanBeShown

LEMMA FeedsLoses ==
  ASSUME F!FeedsTypeOK, FeedsWalk, F!DeletePost \/ F!ChangeFollow \/ F!ChangePrivacy \/ F!RemoveMark
  PROVE  /\ stable' \subseteq stable /\ stable' \subseteq F!CanBeShown'
         /\ step = "filter" => \A x \in stable' : F!CanSee(x, following, private)'
<1>1. stable \subseteq F!CanBeShown /\ stable \subseteq Listed /\ (step = "filter" => \A x \in stable : F!CanSee(x, following, private))
  BY DEF FeedsWalk, FeedsWhole, F!FeedsTypeOK
<1>2. \A x \in Listed : private' = private => (F!CanSee(x, following, private)' <=> F!CanSee(x, following, private))
  BY FeedsOthers DEF F!CanSee
<1>3. CASE F!DeletePost \/ F!ChangeFollow
  <2>1. private' = private /\ stable' = stable \cap F!CanBeShown'
    BY <1>3 DEF F!DeletePost, F!ChangeFollow
  <2>2. QED
    BY <1>1, <1>2, <2>1
<1>4. CASE F!RemoveMark
  <2>1. PICK x \in F!Marked : removed' = removed \cup {x} /\ stable' = stable \ {x}
    BY <1>4 DEF F!RemoveMark
  <2>2. UNCHANGED <<posts, marks, follows, private, listing, wanted>>
    BY <1>4, FeedsOthers DEF F!RemoveMark
  <2>3. F!CanBeShown \ {x} \subseteq F!CanBeShown'
    BY <2>1, <2>2, FeedsRemoves
  <2>4. QED
    BY <1>1, <1>2, <2>1, <2>2, <2>3
<1>5. CASE F!ChangePrivacy
  <2>1. /\ stable' = (stable \cap F!CanBeShown') \ IF step = "filter" THEN {x \in Listed : posts[x].author = Owner} ELSE {}
        /\ private' = IF Owner \in private THEN private \ {Owner} ELSE private \cup {Owner}
        /\ posts' = posts /\ following' = following
    BY <1>5, FeedsOthers DEF F!ChangePrivacy
  <2>2. ASSUME step = "filter", NEW x \in stable' PROVE F!CanSee(x, following, private)'
    <3>1. x \in stable /\ x \in Listed /\ posts[x].author # Owner /\ F!CanSee(x, following, private)
      BY <1>1, <2>1, <2>2
    <3>2. posts[x].author \in private' <=> posts[x].author \in private
      BY <2>1, <3>1
    <3>3. QED
      BY <2>1, <3>1, <3>2 DEF F!CanSee
  <2>3. QED
    BY <2>1, <2>2
<1>6. QED
  BY <1>3, <1>4, <1>5

LEMMA FeedsDisturbed ==
  ASSUME F!FeedsTypeOK, F!FeedsTypeOK', FeedsFinite, FeedsWalk, F!DeletePost \/ F!ChangeFollow \/ F!ChangePrivacy \/ F!RemoveMark
  PROVE  FeedsWalk'
<1>1. /\ UNCHANGED <<marks, listing, limit, wanted, cursor, next, ids, shown, twice, asked, following, step>>
      /\ feedChanges' = feedChanges + 1 /\ feedChanges' \in Nat
      /\ F!Alive' \subseteq F!Alive /\ removed' \subseteq DOMAIN marks
      /\ \A p \in Listed : posts'[p].parent = posts[p].parent /\ posts'[p].at = posts[p].at
  BY FeedsOthers DEF FeedsWalk, FeedsRace
<1>2. FeedsParents(posts) /\ FeedsParents(posts)'
  BY <1>1 DEF FeedsWalk, FeedsOrdered, FeedsParents
<1>3. F!Ancestors' = F!Ancestors
  BY <1>1, <1>2, FeedsAncestorsStay
<1>4. FeedsListed' = FeedsListed /\ FeedsListed \subseteq Listed /\ \A x \in FeedsListed : F!Time(x)' = F!Time(x)
  <2>1. FeedsListed' = FeedsListed /\ FeedsListed \subseteq Listed
    BY <1>1 DEF FeedsListed, F!FeedsTypeOK
  <2>2. QED
    BY <1>1, <2>1 DEF F!Time
<1>5. FeedsOrdered'
  <2>1. FeedsTimes'
    BY <1>1, <1>4 DEF FeedsWalk, FeedsOrdered, FeedsTimes
  <2>2. QED
    BY <1>1, <1>2, <2>1 DEF FeedsWalk, FeedsOrdered, FeedsRegular
<1>6. \A x \in FeedsListed : (FeedsAfter(x, cursor)' <=> FeedsAfter(x, cursor)) /\ (FeedsAfter(x, next)' <=> FeedsAfter(x, next))
  BY <1>1, <1>4 DEF FeedsAfter
<1>7. (FeedsReading' <=> FeedsReading) /\ (FeedsRegular' <=> FeedsRegular)
  BY <1>1 DEF FeedsReading, FeedsRegular
<1>8. FeedsOnce'
  BY <1>1, <1>4, <1>6, <1>7 DEF FeedsWalk, FeedsOnce
<1>9. FeedsChain'
  BY <1>1, <1>3, <1>7 DEF FeedsWalk, FeedsChain, FeedsOnChain
<1>10. FeedsTorn => FeedsTorn'
  <2>1. (~F!Apart(F!Same) => ~F!Apart(F!Same)') /\ (~F!Apart(F!Second) => ~F!Apart(F!Second)')
    BY <1>1, <1>4 DEF F!Apart, F!Same, F!Second, FeedsListed
  <2>2. QED
    BY <1>1, <1>3, <2>1 DEF FeedsTorn
<1>11. FeedsWhole'
  <2>1. /\ stable' \subseteq stable /\ stable' \subseteq F!CanBeShown'
        /\ step = "filter" => \A x \in stable' : F!CanSee(x, following, private)'
    BY FeedsLoses
  <2>2. stable \subseteq FeedsListed
    BY FeedsRowsListed DEF FeedsWalk, FeedsOrdered, FeedsWhole, F!CanBeShown
  <2>3. ASSUME FeedsRegular, ~FeedsTorn'
        PROVE  /\ step = "done" => stable' \subseteq shown
               /\ step # "done" =>
                    \A x \in stable' : x \in shown \/ FeedsAfter(x, cursor)' \/ (listing = "followers" /\ cursor # F!NoCursor)
               /\ FeedsReading =>
                    \A x \in stable' : FeedsAfter(x, cursor)' =>
                      x \in ids \/ (next # F!NoCursor /\ (FeedsAfter(x, next)' \/ listing = "followers"))
    BY <1>6, <1>10, <2>1, <2>2, <2>3 DEF FeedsWalk, FeedsWhole
  <2>4. QED
    BY <1>1, <1>7, <2>1, <2>3 DEF FeedsWalk, FeedsWhole
<1>12. FeedsRace'
  BY <1>1 DEF FeedsWalk, FeedsRace, F!FailsOnlyByRace
<1>13. QED
  BY <1>5, <1>8, <1>9, <1>11, <1>12 DEF FeedsWalk

-----------------------------------------------------------------------------
LEMMA FeedsBegins == ASSUME FeedsAssumptions, FeedsSerial, F!Init PROVE FeedsWalk
<1>1. PICK s \in ListingStart :
        /\ posts = s.posts /\ marks = s.marks /\ follows = s.follows /\ private = s.private
        /\ listing = s.listing /\ limit = s.limit /\ wanted = s.wanted
  BY DEF F!Init
<1>2. /\ removed = {} /\ cursor = F!NoCursor /\ step = "ask" /\ next = F!NoCursor /\ shown = {} /\ twice = {}
      /\ stable = F!CanBeShown /\ feedChanges = 0 /\ asked = 0
  BY DEF F!Init
<1>3. /\ posts \in [Listed -> FeedsRow] /\ DOMAIN marks \subseteq Listed /\ listing \in F!Listing /\ limit \in Nat \ {0}
      /\ \A x \in DOMAIN marks : marks[x].at \in Nat
      /\ \A p \in Listed : posts[p].parent # None => posts[p].parent < p
  BY <1>1 DEF FeedsAssumptions, FeedsSerial
<1>4. \A p \in Listed : posts[p].parent \in Listed \cup {None} /\ posts[p].at \in Nat
  BY <1>3 DEF FeedsRow
<1>5. FeedsParents(posts)
  BY <1>3, <1>4 DEF FeedsParents, FeedsSerial
<1>6. FeedsTimes
  <2>1. \A x \in FeedsListed : F!Time(x) \in Nat
    BY <1>3, <1>4 DEF FeedsListed, F!Time
  <2>2. QED
    BY <1>2, <1>3, <2>1 DEF FeedsTimes
<1>7. FeedsOrdered
  BY <1>2, <1>5, <1>6 DEF FeedsOrdered, FeedsCursor, F!NoCursor, F!NoTime
<1>8. FeedsOnce /\ FeedsChain
  BY <1>2 DEF FeedsOnce, FeedsChain, FeedsReading
<1>9. FeedsWhole
  <2>1. \A x : FeedsAfter(x, cursor)
    BY <1>2 DEF FeedsAfter, FeedsComes
  <2>2. QED
    BY <1>2, <2>1 DEF FeedsWhole, FeedsReading
<1>10. FeedsRace
  BY <1>2 DEF FeedsRace, F!FailsOnlyByRace
<1>11. QED
  BY <1>7, <1>8, <1>9, <1>10 DEF FeedsWalk

(* The walk goes on so, for any listing, page size and rows. *)
THEOREM FeedsWalks == ASSUME FeedsAssumptions, FeedsSerial PROVE F!Spec => []FeedsWalk
<1>1. F!Init => FeedsWalk
  BY FeedsBegins
<1>2. F!FeedsTypeOK /\ F!FeedsTypeOK' /\ FeedsWalk /\ [F!Next]_(F!vars) => FeedsWalk'
  <2> SUFFICES ASSUME F!FeedsTypeOK, F!FeedsTypeOK', FeedsWalk, [F!Next]_(F!vars) PROVE FeedsWalk'
    OBVIOUS
  <2>1. CASE \/ F!HandleHomeFeed \/ F!HandleUserFeed \/ F!HandleReplies \/ F!HandleMedia \/ F!HandleBookmarks
             \/ F!HandleLiked \/ F!HandleListFeed \/ F!HandleListMembers \/ F!HandleSearch \/ F!HandleHashtag
             \/ F!HandleMentions \/ F!HandleFollowers \/ F!HandleFollowing \/ F!HandleMessages
             \/ F!HandleNotifications
    BY <2>1, FeedsStarts
       DEF F!HandleHomeFeed, F!HandleUserFeed, F!HandleReplies, F!HandleMedia, F!HandleBookmarks, F!HandleLiked,
           F!HandleListFeed, F!HandleListMembers, F!HandleSearch, F!HandleHashtag, F!HandleMentions,
           F!HandleFollowers, F!HandleFollowing, F!HandleMessages, F!HandleNotifications
  <2>2. CASE F!HandleQuotes \/ F!HandleLikers \/ F!HandleReposters \/ F!HandlePost
    <3>1. \A kinds, allowed : F!Ask(kinds, allowed) => listing \in kinds
      BY DEF F!Ask
    <3>2. QED
      BY <2>2, <3>1, FeedsStarts DEF F!HandleQuotes, F!HandleLikers, F!HandleReposters, F!HandlePost
  <2>3. CASE \/ F!ServeHomeFeed \/ F!ServeUserFeed \/ F!ServeUserMode \/ F!ServeBookmarks \/ F!ServeLiked
             \/ F!ServeQuotes \/ F!ServeDescendants \/ F!ServeParentChain \/ F!ServeListFeed \/ F!ServePosts
             \/ F!ServeHashtagPosts \/ F!ServeMentions \/ F!ServeFollowers \/ F!ServeFollowing \/ F!ServeLikers
             \/ F!ServeReposters \/ F!ServeMessages \/ F!ServeNotifications \/ F!ServeMembers
    <3>1. /\ FeedsTimes /\ FeedsFinite /\ FeedsParents(posts) /\ Listed # {} /\ PerSecond \in Nat \ {0}
          /\ FeedsRegular => cursor \in FeedsCursor
          /\ FeedsChain
      BY DEF FeedsWalk, FeedsOrdered, FeedsSerial, FeedsFinite
    <3>2. PICK kinds, pages :
            /\ F!Query(kinds, pages) /\ FeedsAnswers(pages)
            /\ listing = "ancestors" => \A page \in pages : page.next # F!NoCursor => FeedsOnChain(page.next)
      BY <2>3, <3>1, FeedsServed
    <3>3. QED
      BY <3>2, FeedsReads
  <2>4. CASE F!Hydrate \/ F!HydrateFeed
    <3>1. F!Discoverable \in SUBSET F!OfPosts
      BY DEF F!Discoverable, F!OfPosts, F!Listing, F!Keyset, F!Crowd
    <3>2. QED
      BY <2>4, <3>1, FeedsHydrates DEF F!Hydrate, F!HydrateFeed
  <2>5. CASE F!GetRelationshipStatuses
    BY <2>5, FeedsSees
  <2>6. CASE F!FilterVisiblePosts \/ F!RespondUnfiltered
    BY <2>6, FeedsFilters
  <2>7. CASE F!Retry \/ F!Reload
    BY <2>7, FeedsAgain
  <2>8. CASE F!DeletePost \/ F!ChangeFollow \/ F!ChangePrivacy \/ F!RemoveMark
    BY <2>8, FeedsDisturbed DEF FeedsSerial, FeedsFinite
  <2>9. CASE UNCHANGED F!vars
    BY <2>9, FeedsStutters
  <2>10. QED
    BY <2>1, <2>2, <2>3, <2>4, <2>5, <2>6, <2>7, <2>8, <2>9 DEF F!Next
<1>3. QED
  BY <1>1, <1>2, FeedsTyping, PTL DEF F!Spec

(* A walk that ends has shown once all that stood throughout. *)
THEOREM FeedsShowAll == ASSUME FeedsAssumptions, FeedsSerial PROVE F!Spec => []F!WalkShowsAll
<1>1. FeedsWalk => F!WalkShowsAll
  BY DEF FeedsWalk, FeedsOnce, FeedsWhole, FeedsRegular, FeedsTorn, F!WalkShowsAll
<1>2. QED
  BY <1>1, FeedsWalks, PTL

(* A page fails only by a change that it has met, but for what WalkShowsAll excepts too. *)
THEOREM FeedsFail == ASSUME FeedsAssumptions, FeedsSerial PROVE F!Spec => []F!FailsOnlyByRace
<1>1. FeedsWalk => F!FailsOnlyByRace
  BY DEF FeedsWalk, FeedsRace
<1>2. QED
  BY <1>1, FeedsWalks, PTL

-----------------------------------------------------------------------------
(* What the badges of a client come to show. The argument is not about who may write to
   whom (InboxInv, which it uses), but about what is still under way.

   A request that will tell of a count of u: it has written, and has still to publish; or
   the client has cleared its badge, and the request will mark the rows. *)
InboxTelling(t, u, k) ==
  /\ t.kind = k
  /\ \/ t.at \in {"touch", "count"} /\ \E i \in 1 .. Len(t.todo) : t.todo[i] = u
     \/ t.at = "read" /\ t.type = "all" /\ t.to = u

(* Nothing more is needed for the client of u to ask again, but that it is not told. *)
InboxPushed(u, k) ==
  \/ fetch[u][k] = I!Asked
  \/ u \in resync
  \/ k = "notes" /\ stream[u] # "up"
  \/ <<u, k>> \in astray

InboxReason(u, k) == (\E q \in Task : InboxTelling(task[q], u, k)) \/ InboxPushed(u, k)

(* What the client shows, or will when its answer arrives, is the count. *)
InboxAgrees(u, k) ==
  \/ fetch[u][k] = I!Idle /\ badge[u][k] = I!UnreadCount(u, k)
  \/ fetch[u][k] = I!UnreadCount(u, k)

InboxRight == \A u \in User \cap Watching, k \in I!Kind : InboxReason(u, k) \/ InboxAgrees(u, k)

(* whose counts a request will publish *)
InboxTodo(t) ==
  /\ t.at = "touch" => t.todo = <<t.to, t.from>>
  /\ t.at = "read" => t.todo = <<t.to>>

(* A conversation has a message, or its first is on its way or has failed. *)
InboxOpens ==
  \A c \in conversations : (\E i \in DOMAIN messages : I!With(c, messages[i])) \/ I!Opening(c) \/ c \in broken

InboxTrue == InboxRight /\ InboxOpens /\ \A q \in Task : InboxTodo(task[q])

-----------------------------------------------------------------------------
(* a step after which the client of u has no less reason to ask, and the count is the same *)
InboxRests(u, k) ==
  /\ I!UnreadCount(u, k)' = I!UnreadCount(u, k) /\ badge'[u][k] = badge[u][k] /\ fetch'[u][k] = fetch[u][k]
  /\ u \in resync => u \in resync'
  /\ k = "notes" /\ stream[u] # "up" => stream'[u] # "up"
  /\ <<u, k>> \in astray => <<u, k>> \in astray'

LEMMA InboxRested ==
  ASSUME NEW u, NEW k, InboxRests(u, k)
  PROVE  (InboxPushed(u, k) => InboxPushed(u, k)') /\ (InboxAgrees(u, k) => InboxAgrees(u, k)')
BY DEF InboxRests, InboxPushed, InboxAgrees

(* Steps of the client *)
LEMMA InboxTalksOn ==
  ASSUME InboxRight, task' = task,
         \A u \in User \cap Watching, k \in I!Kind : InboxReason(u, k)' \/ InboxAgrees(u, k)' \/ InboxRests(u, k)
  PROVE  InboxRight'
<1> SUFFICES ASSUME NEW u \in User \cap Watching, NEW k \in I!Kind PROVE InboxReason(u, k)' \/ InboxAgrees(u, k)'
  BY DEF InboxRight
<1>1. InboxReason(u, k) \/ InboxAgrees(u, k)
  BY DEF InboxRight
<1>2. CASE InboxRests(u, k)
  BY <1>1, <1>2, InboxRested DEF InboxReason
<1>3. QED
  BY <1>2

(* Steps of a request *)
LEMMA InboxTurn ==
  ASSUME InboxRight, NEW q \in Task, NEW new, task \in [Task -> InboxTask], task' = [task EXCEPT ![q] = new],
         \A u \in User \cap Watching, k \in I!Kind :
           \/ InboxTelling(new, u, k)
           \/ InboxPushed(u, k)'
           \/ InboxRests(u, k) /\ ~InboxTelling(task[q], u, k)
  PROVE  InboxRight'
<1> SUFFICES ASSUME NEW u \in User \cap Watching, NEW k \in I!Kind PROVE InboxReason(u, k)' \/ InboxAgrees(u, k)'
  BY DEF InboxRight
<1>1. task'[q] = new /\ \A p \in Task \ {q} : task'[p] = task[p]
  OBVIOUS
<1>2. CASE InboxTelling(new, u, k)
  <2>1. InboxTelling(task'[q], u, k)
    BY <1>1, <1>2
  <2>2. QED
    BY <2>1 DEF InboxReason
<1>3. CASE InboxPushed(u, k)'
  BY <1>3 DEF InboxReason
<1>4. CASE InboxRests(u, k) /\ ~InboxTelling(task[q], u, k)
  <2>1. InboxReason(u, k) \/ InboxAgrees(u, k)
    BY DEF InboxRight
  <2>2. CASE InboxPushed(u, k) \/ InboxAgrees(u, k)
    BY <1>4, <2>2, InboxRested DEF InboxReason
  <2>3. CASE \E p \in Task : InboxTelling(task[p], u, k)
    <3>1. PICK p \in Task : InboxTelling(task[p], u, k)
      BY <2>3
    <3>2. task'[p] = task[p]
      BY <1>1, <1>4, <3>1
    <3>3. InboxTelling(task'[p], u, k)
      BY <3>1, <3>2
    <3>4. QED
      BY <3>3 DEF InboxReason
  <2>4. QED
    BY <2>1, <2>2, <2>3 DEF InboxReason
<1>5. QED
  BY <1>2, <1>3, <1>4

LEMMA InboxTodos ==
  ASSUME InboxTrue, NEW q \in Task, NEW new, task \in [Task -> InboxTask], task' = [task EXCEPT ![q] = new],
         InboxTodo(new)
  PROVE  \A p \in Task : InboxTodo(task[p])'
<1> SUFFICES ASSUME NEW p \in Task PROVE InboxTodo(task[p])'
  OBVIOUS
<1>1. task'[p] = IF p = q THEN new ELSE task[p]
  OBVIOUS
<1>2. InboxTodo(task'[p])
  BY <1>1 DEF InboxTrue
<1>3. QED
  BY <1>2 DEF InboxTodo

(* A request that is not about to send its message opens no conversation. *)
LEMMA InboxOpensStill ==
  ASSUME InboxOpens, NEW q \in Task, NEW new, task \in [Task -> InboxTask], task' = [task EXCEPT ![q] = new],
         task[q].at # "message", conversations' = conversations, broken \subseteq broken',
         \A c : (\E i \in DOMAIN messages : I!With(c, messages[i])) => \E i \in DOMAIN messages' : I!With(c, messages'[i])
  PROVE  InboxOpens'
<1> SUFFICES ASSUME NEW c \in conversations
             PROVE  (\E i \in DOMAIN messages' : I!With(c, messages'[i])) \/ I!Opening(c)' \/ c \in broken'
  BY DEF InboxOpens, I!With
<1>1. CASE I!Opening(c)
  <2>1. PICK p \in Task : task[p].at = "message" /\ {task[p].from, task[p].to} = c
    BY <1>1 DEF I!Opening
  <2>2. task'[p] = task[p]
    BY <2>1
  <2>3. QED
    BY <2>1, <2>2 DEF I!Opening
<1>2. QED
  BY <1>1 DEF InboxOpens

(* A look, and the end of a request that was refused nothing *)
LEMMA InboxQuietly ==
  ASSUME InboxInv, InboxTrue, NEW q \in Task, NEW new, task' = [task EXCEPT ![q] = new],
         UNCHANGED I!tables, UNCHANGED I!client, UNCHANGED I!ghosts,
         task[q].at \notin {"touch", "count", "read", "message"}, new.at \notin {"touch", "read"}
  PROVE  InboxTrue'
<1>1. /\ rel' = rel /\ mentionsOff' = mentionsOff /\ notifications' = notifications
      /\ conversations' = conversations /\ messages' = messages
      /\ badge' = badge /\ fetch' = fetch /\ stream' = stream /\ resync' = resync
      /\ astray' = astray /\ broken' = broken
  BY DEF I!tables, I!client, I!ghosts
<1>2. task \in [Task -> InboxTask]
  BY DEF InboxInv, InboxTypes
<1>3. \A u, k : InboxRests(u, k) /\ ~InboxTelling(task[q], u, k)
  BY <1>1 DEF InboxRests, I!UnreadCount, I!UnreadNotifications, I!UnreadMessages, I!Count, InboxTelling
<1>4. InboxRight'
  BY <1>2, <1>3, InboxTurn DEF InboxTrue
<1>5. InboxOpens'
  BY <1>1, <1>2, InboxOpensStill DEF InboxTrue
<1>6. InboxTodo(new)
  BY DEF InboxTodo
<1>7. QED
  BY <1>2, <1>4, <1>5, <1>6, InboxTodos DEF InboxTrue

(* the tables that count are the same *)
LEMMA InboxSameCounts ==
  ASSUME notifications' = notifications, messages' = messages, NEW u, NEW k
  PROVE  I!UnreadCount(u, k)' = I!UnreadCount(u, k)
BY DEF I!UnreadCount, I!UnreadNotifications, I!UnreadMessages, I!Count

LEMMA InboxAskedOf ==
  ASSUME fetch \in [User -> [I!Kind -> Nat \cup {I!Idle, I!Asked}]], NEW us, NEW v \in I!Kind, I!Ask(us, v),
         NEW u \in User \cap Watching, NEW k \in I!Kind
  PROVE  /\ u \in us /\ k = v => fetch'[u][k] = I!Asked
         /\ ~(u \in us /\ k = v) => fetch'[u][k] = fetch[u][k]
BY DEF I!Ask

LEMMA InboxBegun ==
  ASSUME NEW q \in Task, NEW l, NEW k, NEW t, NEW a, NEW b, NEW r, NEW d, I!Start(q, l, k, t, a, b, r, d)
  PROVE  /\ task[q].at = "none" /\ notifications' = notifications /\ messages' = messages
         /\ conversations' = conversations /\ fetch' = fetch /\ stream' = stream /\ resync' = resync
         /\ astray' = astray /\ broken' = broken
         /\ \E new : /\ task' = [task EXCEPT ![q] = new]
                     /\ new.at = l /\ new.kind = k /\ new.type = t /\ new.to = b /\ new.todo = d
<1> DEFINE h == I!Against(rel, mentionsOff, t, a, b)
           m == I!Mixed(rel, a, b)
           new == [I!NoTask EXCEPT !.at = l, !.kind = k, !.type = t, !.from = a, !.to = b, !.rest = r, !.todo = d,
                                 !.held = h, !.mixed = m]
<1>1. task' = [task EXCEPT ![q] = new]
  BY DEF I!Start
<1>2. new.at = l /\ new.kind = k /\ new.type = t /\ new.to = b /\ new.todo = d
  <2> HIDE DEF h, m
  <2>1. QED
    BY DEF I!NoTask
<1>3. task[q].at = "none"
  BY DEF I!Start, I!NoTask
<1> HIDE DEF new
<1>4. QED
  BY <1>1, <1>2, <1>3 DEF I!Start, I!tables

(* A request begins, and tells of what its client has cleared. *)
LEMMA InboxBegins ==
  ASSUME InboxInv, InboxTrue, NEW q \in Task, NEW l, NEW k \in I!Kind, NEW t, NEW a, NEW b \in User, NEW r, NEW d,
         I!Start(q, l, k, t, a, b, r, d), l # "touch", l = "read" => d = <<b>>,
         badge' = badge \/ (l = "read" /\ t = "all" /\ badge' = [badge EXCEPT ![b][k] = 0])
  PROVE  InboxTrue'
<1>1. /\ task[q].at = "none" /\ notifications' = notifications /\ messages' = messages
      /\ conversations' = conversations /\ fetch' = fetch /\ stream' = stream /\ resync' = resync
      /\ astray' = astray /\ broken' = broken
  BY InboxBegun
<1>2. PICK new : /\ task' = [task EXCEPT ![q] = new]
                 /\ new.at = l /\ new.kind = k /\ new.type = t /\ new.to = b /\ new.todo = d
  BY InboxBegun
<1>3. task \in [Task -> InboxTask] /\ badge \in [User -> [I!Kind -> Nat]]
  BY DEF InboxInv, InboxTypes, InboxClient
<1>4. ASSUME NEW u \in User \cap Watching, NEW v \in I!Kind
      PROVE  InboxTelling(new, u, v) \/ (InboxRests(u, v) /\ ~InboxTelling(task[q], u, v))
  <2>1. ~InboxTelling(task[q], u, v) /\ I!UnreadCount(u, v)' = I!UnreadCount(u, v)
    BY <1>1, InboxSameCounts DEF InboxTelling
  <2>2. CASE badge'[u][v] = badge[u][v]
    BY <1>1, <2>1, <2>2 DEF InboxRests
  <2>3. CASE badge'[u][v] # badge[u][v]
    <3>1. l = "read" /\ t = "all" /\ badge' = [badge EXCEPT ![b][k] = 0]
      BY <2>3
    <3>2. badge'[u] = IF u = b THEN [badge[b] EXCEPT ![k] = 0] ELSE badge[u]
      BY <1>3, <3>1
    <3>3. u = b /\ v = k
      BY <1>3, <2>3, <3>2
    <3>4. QED
      BY <1>2, <3>1, <3>3 DEF InboxTelling
  <2>4. QED
    BY <2>2, <2>3
<1>5. InboxRight'
  <2>1. InboxRight /\ task \in [Task -> InboxTask] /\ task' = [task EXCEPT ![q] = new]
    BY <1>2, <1>3 DEF InboxTrue
  <2>2. \A u \in User \cap Watching, v \in I!Kind :
          \/ InboxTelling(new, u, v)
          \/ InboxPushed(u, v)'
          \/ InboxRests(u, v) /\ ~InboxTelling(task[q], u, v)
    BY <1>4
  <2>3. QED
    BY <2>1, <2>2, InboxTurn
<1>6. InboxOpens'
  BY <1>1, <1>2, <1>3, InboxOpensStill DEF InboxTrue
<1>7. InboxTodo(new)
  BY <1>2 DEF InboxTodo
<1>8. QED
  BY <1>2, <1>3, <1>5, <1>6, <1>7, InboxTodos DEF InboxTrue

LEMMA InboxNewOne ==
  ASSUME InboxInv, InboxTrue, NEW q \in Task,
         \/ I!CreateForPost(q) \/ I!CreateMentionNotifications(q) \/ I!MarkRead(q) \/ I!MarkAllRead(q)
         \/ I!SendDm(q) \/ I!MarkConversationRead(q)
  PROVE  InboxTrue'
<1>1. "notes" \in I!Kind /\ "dms" \in I!Kind
  BY DEF I!Kind
<1>2. ASSUME NEW a \in User, NEW b \in User, NEW t, NEW r, I!Create(q, a, b, t, r) PROVE InboxTrue'
  BY <1>1, <1>2, InboxBegins DEF I!Create
<1>3. CASE I!CreateForPost(q) \/ I!CreateMentionNotifications(q)
  BY <1>2, <1>3 DEF I!CreateForPost, I!CreateMentionNotifications
<1>4. CASE I!MarkRead(q)
  BY <1>1, <1>4, InboxBegins DEF I!MarkRead
<1>5. CASE I!MarkAllRead(q)
  BY <1>1, <1>5, InboxBegins DEF I!MarkAllRead
<1>6. CASE I!SendDm(q)
  BY <1>1, <1>6, InboxBegins DEF I!SendDm, I!Send
<1>7. CASE I!MarkConversationRead(q)
  BY <1>1, <1>7, InboxBegins DEF I!MarkConversationRead
<1>8. QED
  BY <1>3, <1>4, <1>5, <1>6, <1>7

-----------------------------------------------------------------------------
(* The request asks, and nothing is written. *)
LEMMA InboxAfterAt == ASSUME NEW q \in Task, task[q] \in InboxTask PROVE I!After(q).at \in {"none", "relationship"}
<1> DEFINE h == I!Against(rel, mentionsOff, "mention", task[q].from, Head(task[q].rest))
           m == I!Mixed(rel, task[q].from, Head(task[q].rest))
           u == Head(task[q].rest)
           r == Tail(task[q].rest)
           new == [task[q] EXCEPT !.at = "relationship", !.to = u, !.rest = r, !.held = h, !.mixed = m]
<1>1. new.at = "relationship"
  <2> HIDE DEF h, m, u, r
  <2>1. QED
    BY DEF InboxTask
<1>2. I!After(q) = I!NoTask \/ I!After(q) = new
  BY DEF I!After
<1> HIDE DEF new
<1>3. QED
  BY <1>1, <1>2 DEF I!NoTask

LEMMA InboxLooked ==
  ASSUME InboxInv, InboxTrue, NEW q \in Task, task[q].at \in InboxChecks \cup {"theirs", "ours"},
         I!Reads,
         \/ I!Skip(q)
         \/ \E l \in InboxChecks \cup {"ours", "conversation"} : I!Goto(q, l)
  PROVE  InboxTrue'
<1>1. task[q].at \notin {"touch", "count", "read", "message"}
  BY DEF InboxChecks
<1>2. UNCHANGED I!tables /\ UNCHANGED I!client /\ UNCHANGED I!ghosts
  BY DEF I!Reads
<1>3. CASE I!Skip(q)
  <2>1. task' = [task EXCEPT ![q] = I!After(q)]
    BY <1>3 DEF I!Skip
  <2>2. I!After(q).at \notin {"touch", "read"}
    BY InboxAfterAt DEF InboxInv, InboxTypes
  <2>3. QED
    BY <1>1, <1>2, <2>1, <2>2, InboxQuietly
<1>4. CASE \E l \in InboxChecks \cup {"ours", "conversation"} : I!Goto(q, l)
  <2>1. PICK l \in InboxChecks \cup {"ours", "conversation"} : I!Goto(q, l)
    BY <1>4
  <2>2. l \in InboxStage /\ l \notin {"touch", "read"}
    BY <2>1 DEF InboxStage, InboxChecks, InboxSends
  <2>3. PICK new \in InboxTask : task' = [task EXCEPT ![q] = new] /\ new.at = l
    BY <2>1, <2>2, InboxGoto
  <2>4. QED
    BY <1>1, <1>2, <2>2, <2>3, InboxQuietly
<1>5. QED
  BY <1>3, <1>4

LEMMA InboxChecked ==
  ASSUME InboxInv, InboxTrue, NEW q \in Task, I!GetRelationship(q) \/ I!CheckMuted(q) \/ I!CheckSettings(q) PROVE InboxTrue'
<1>1. /\ task[q].at \in InboxChecks \cup {"theirs", "ours"}
      /\ "muted" \in InboxChecks \cup {"ours", "conversation"}
      /\ "settings" \in InboxChecks \cup {"ours", "conversation"}
      /\ "notify" \in InboxChecks \cup {"ours", "conversation"}
  BY DEF I!GetRelationship, I!CheckMuted, I!CheckSettings, InboxChecks
<1>2. I!Reads
  BY DEF I!GetRelationship, I!CheckMuted, I!CheckSettings, I!Skip
<1>3. I!Skip(q) \/ I!Goto(q, "muted") \/ I!Goto(q, "settings") \/ I!Goto(q, "notify")
  BY DEF I!GetRelationship, I!CheckMuted, I!CheckSettings
<1>4. QED
  BY <1>1, <1>2, <1>3, InboxLooked

(* The client asks for a count, and the request is over. *)
LEMMA InboxAnswered ==
  ASSUME InboxInv, InboxTrue, NEW q \in Task, task[q].at \in {"theirs", "ours", "answer"},
         NEW us, NEW k \in I!Kind, I!Ask(us, k), task' = [task EXCEPT ![q] = I!NoTask],
         UNCHANGED <<I!tables, badge, stream, resync, I!ghosts>>
  PROVE  InboxTrue'
<1>1. /\ notifications' = notifications /\ conversations' = conversations /\ messages' = messages
      /\ badge' = badge /\ stream' = stream /\ resync' = resync /\ astray' = astray /\ broken' = broken
  BY DEF I!tables, I!ghosts
<1>2. /\ task \in [Task -> InboxTask] /\ fetch \in [User -> [I!Kind -> Nat \cup {I!Idle, I!Asked}]]
      /\ I!NoTask.at = "none"
  BY InboxNoTask DEF InboxInv, InboxTypes, InboxClient
<1>3. ASSUME NEW u \in User \cap Watching, NEW v \in I!Kind
      PROVE  InboxPushed(u, v)' \/ (InboxRests(u, v) /\ ~InboxTelling(task[q], u, v))
  <2>1. ~InboxTelling(task[q], u, v) /\ I!UnreadCount(u, v)' = I!UnreadCount(u, v)
    BY <1>1, InboxSameCounts DEF InboxTelling
  <2>2. fetch'[u][v] = I!Asked \/ fetch'[u][v] = fetch[u][v]
    BY <1>2, InboxAskedOf
  <2>3. QED
    BY <1>1, <2>1, <2>2 DEF InboxPushed, InboxRests
<1>4. InboxRight'
  BY <1>2, <1>3, InboxTurn DEF InboxTrue
<1>5. InboxOpens'
  BY <1>1, <1>2, InboxOpensStill DEF InboxTrue
<1>6. InboxTodo(I!NoTask)
  BY <1>2 DEF InboxTodo
<1>7. QED
  BY <1>2, <1>4, <1>5, <1>6, InboxTodos DEF InboxTrue

LEMMA InboxRefuses ==
  ASSUME InboxInv, InboxTrue, NEW q \in Task, I!CheckBlocks(q) \/ I!Answer(q) PROVE InboxTrue'
<1>1. ASSUME NEW here \in {"theirs", "ours"}, NEW onward \in {"ours", "conversation"}, NEW a, NEW b,
             I!CheckBlock(q, here, onward, a, b)
      PROVE  InboxTrue'
  <2>1. task[q].at = here
    BY <1>1 DEF I!CheckBlock
  <2>2. CASE I!Refused(q)
    <3>1. "dms" \in I!Kind
      BY DEF I!Kind
    <3>2. QED
      BY <2>1, <2>2, <3>1, InboxAnswered DEF I!Refused
  <2>3. CASE I!Goto(q, onward) /\ I!Reads
    BY <2>1, <2>3, InboxLooked
  <2>4. QED
    BY <1>1, <2>2, <2>3 DEF I!CheckBlock
<1>2. CASE I!CheckBlocks(q)
  BY <1>1, <1>2 DEF I!CheckBlocks
<1>3. CASE I!Answer(q)
  <2>1. task[q].kind \in I!Kind /\ task[q].at = "answer"
    BY <1>3 DEF I!Answer, InboxInv, InboxKnows, InboxBetween
  <2>2. QED
    BY <1>3, <2>1, InboxAnswered DEF I!Answer
<1>4. QED
  BY <1>2, <1>3

(* Rows are added for others, or read by others. *)
LEMMA InboxSameUnread ==
  ASSUME NEW T, NEW old \in Seq(T), NEW new \in Seq(T), NEW u, Len(old) <= Len(new),
         \A i \in 1 .. Len(old) : new[i].to = old[i].to /\ (old[i].to = u => new[i].read = old[i].read),
         \A i \in 1 .. Len(new) : i \notin 1 .. Len(old) => new[i].to # u
  PROVE  {i \in DOMAIN new : new[i].to = u /\ ~new[i].read} = {i \in DOMAIN old : old[i].to = u /\ ~old[i].read}
<1>1. /\ DOMAIN old = 1 .. Len(old) /\ DOMAIN new = 1 .. Len(new)
      /\ Len(old) \in Nat /\ Len(new) \in Nat
  BY LenProperties
<1>2. 1 .. Len(old) \subseteq 1 .. Len(new)
  BY <1>1
<1>3. QED
  BY <1>1, <1>2

(* A request writes, and has to tell of one count. *)
LEMMA InboxWritten ==
  ASSUME InboxInv, InboxTrue, NEW q \in Task, NEW new, task' = [task EXCEPT ![q] = new],
         UNCHANGED <<I!client, astray>>, NEW v \in User, NEW l \in I!Kind, InboxTelling(new, v, l), InboxTodo(new),
         \A u \in User, k \in I!Kind :
           (u = v /\ k = l) \/ (I!UnreadCount(u, k)' = I!UnreadCount(u, k) /\ ~InboxTelling(task[q], u, k))
  PROVE  InboxRight' /\ \A p \in Task : InboxTodo(task[p])'
<1>1. badge' = badge /\ fetch' = fetch /\ stream' = stream /\ resync' = resync /\ astray' = astray
  BY DEF I!client
<1>2. InboxRight /\ task \in [Task -> InboxTask]
  BY DEF InboxInv, InboxTypes, InboxTrue
<1>3. \A u \in User \cap Watching, k \in I!Kind :
        \/ InboxTelling(new, u, k)
        \/ InboxPushed(u, k)'
        \/ InboxRests(u, k) /\ ~InboxTelling(task[q], u, k)
  <2> SUFFICES ASSUME NEW u \in User \cap Watching, NEW k \in I!Kind
               PROVE  InboxTelling(new, u, k) \/ (InboxRests(u, k) /\ ~InboxTelling(task[q], u, k))
    OBVIOUS
  <2>1. CASE u = v /\ k = l
    BY <2>1
  <2>2. CASE ~(u = v /\ k = l)
    BY <1>1, <2>2 DEF InboxRests
  <2>3. QED
    BY <2>1, <2>2
<1>4. InboxRight'
  BY <1>2, <1>3, InboxTurn
<1>5. QED
  BY <1>2, <1>4, InboxTodos

LEMMA InboxNotesIt == ASSUME InboxInv, InboxTrue, NEW q \in Task, I!CreateNotification(q) PROVE InboxTrue'
<1> DEFINE t == task[q]
<1>1. InboxKnows(t) /\ t \in InboxTask /\ notifications \in Seq(InboxNote) /\ notifications' \in Seq(InboxNote)
  BY InboxNotes DEF InboxInv, InboxTypes
<1>2. t.at = "notify" /\ t.kind = "notes" /\ t.to \in User /\ "notes" \in I!Kind
  BY <1>1 DEF I!CreateNotification, InboxKnows, InboxBetween, InboxTells, InboxChecks, I!Kind
<1>3. /\ messages' = messages /\ conversations' = conversations /\ broken' = broken /\ UNCHANGED <<I!client, astray>>
  BY DEF I!CreateNotification, I!Writes
<1>4. PICK note : notifications' = Append(notifications, note) /\ note.to = t.to
  BY DEF I!CreateNotification
<1>5. PICK new : task' = [task EXCEPT ![q] = new] /\ new.at = "count" /\ new.todo = <<t.to>> /\ new.kind = "notes"
  <2> DEFINE new == [t EXCEPT !.at = "count", !.todo = <<t.to>>]
  <2>1. task' = [task EXCEPT ![q] = new]
    BY DEF I!CreateNotification
  <2>2. new.at = "count" /\ new.todo = <<t.to>> /\ new.kind = "notes"
    BY <1>1, <1>2 DEF InboxTask
  <2> HIDE DEF new
  <2>3. QED
    BY <2>1, <2>2
<1>6. InboxTelling(new, t.to, "notes") /\ InboxTodo(new)
  <2>1. Len(<<t.to>>) = 1 /\ <<t.to>>[1] = t.to
    OBVIOUS
  <2>2. QED
    BY <1>5, <2>1 DEF InboxTelling, InboxTodo
<1>7. ASSUME NEW u \in User, NEW k \in I!Kind, ~(u = t.to /\ k = "notes")
      PROVE  I!UnreadCount(u, k)' = I!UnreadCount(u, k) /\ ~InboxTelling(t, u, k)
  <2>1. ~InboxTelling(t, u, k)
    BY <1>2 DEF InboxTelling
  <2>2. CASE k = "notes"
    <3>1. u # t.to
      BY <1>7, <2>2
    <3>2. /\ Len(notifications) <= Len(notifications')
          /\ \A i \in 1 .. Len(notifications) : notifications'[i] = notifications[i]
          /\ \A i \in 1 .. Len(notifications') : i \notin 1 .. Len(notifications) => notifications'[i].to # u
      <4>1. note \in InboxNote \/ TRUE
        OBVIOUS
      <4>2. Len(notifications') = Len(notifications) + 1 /\ Len(notifications) \in Nat
        BY <1>1, <1>4, LenProperties
      <4>3. /\ \A i \in 1 .. Len(notifications) : notifications'[i] = notifications[i]
            /\ notifications'[Len(notifications) + 1] = note
        BY <1>1, <1>4, <4>2
      <4>4. QED
        BY <1>4, <3>1, <4>2, <4>3
    <3>3. {i \in DOMAIN notifications' : notifications'[i].to = u /\ ~notifications'[i].read} =
            {i \in DOMAIN notifications : notifications[i].to = u /\ ~notifications[i].read}
      BY <1>1, <3>2, InboxSameUnread
    <3>4. QED
      BY <2>1, <2>2, <3>3 DEF I!UnreadCount, I!UnreadNotifications, I!Count
  <2>3. CASE k # "notes"
    BY <1>3, <2>1, <2>3 DEF I!UnreadCount, I!UnreadMessages, I!Count
  <2>4. QED
    BY <2>2, <2>3
<1>8. InboxRight' /\ \A p \in Task : InboxTodo(task[p])'
  BY <1>2, <1>3, <1>5, <1>6, <1>7, InboxWritten
<1>9. InboxOpens'
  <2>1. task \in [Task -> InboxTask] /\ InboxOpens
    BY DEF InboxInv, InboxTypes, InboxTrue
  <2>2. QED
    BY <1>2, <1>3, <1>5, <2>1, InboxOpensStill
<1>10. QED
  BY <1>8, <1>9 DEF InboxTrue

LEMMA InboxLens ==
  ASSUME NEW T, NEW old \in Seq(T), NEW new \in Seq(T), DOMAIN new = DOMAIN old
  PROVE  DOMAIN old = 1 .. Len(old) /\ Len(old) \in Nat /\ Len(new) = Len(old)
<1>1. ASSUME NEW m \in Nat, NEW n \in Nat, 1 .. m = 1 .. n PROVE m = n
  <2>1. m >= 1 => m \in 1 .. n
    BY <1>1
  <2>2. n >= 1 => n \in 1 .. m
    BY <1>1
  <2>3. QED
    BY <2>1, <2>2
<1>2. DOMAIN old = 1 .. Len(old) /\ Len(old) \in Nat /\ DOMAIN new = 1 .. Len(new) /\ Len(new) \in Nat
  <2>1. DOMAIN old = 1 .. Len(old) /\ Len(old) \in Nat
    BY LenProperties, ZenonT(60)
  <2>2. DOMAIN new = 1 .. Len(new) /\ Len(new) \in Nat
    BY LenProperties, ZenonT(60)
  <2>3. QED
    BY <2>1, <2>2
<1>3. PICK m \in Nat, n \in Nat : m = Len(old) /\ n = Len(new)
  BY <1>2, ZenonT(60)
<1>4. 1 .. m = 1 .. n
  BY <1>2, <1>3
<1>5. m = n
  BY <1>1, <1>4
<1>6. QED
  BY <1>2, <1>3, <1>5

(* A mark as read goes on to tell the reader. *)
LEMMA InboxMarked ==
  ASSUME InboxInv, InboxTrue, NEW q \in Task, task[q].at = "read", I!Goto(q, "count")
  PROVE  /\ task[q].to \in User /\ task[q].kind \in I!Kind
         /\ \E new : /\ task' = [task EXCEPT ![q] = new] /\ new.at = "count"
                     /\ InboxTelling(new, task[q].to, task[q].kind) /\ InboxTodo(new)
         /\ \A u \in User, k \in I!Kind : ~(u = task[q].to /\ k = task[q].kind) => ~InboxTelling(task[q], u, k)
<1>1. "count" \in InboxStage
  BY DEF InboxStage
<1>2. PICK new \in InboxTask : /\ task' = [task EXCEPT ![q] = new] /\ new.at = "count" /\ new.todo = task[q].todo
                               /\ InboxSame(new, task[q])
  BY <1>1, InboxGoto
<1>3. /\ task[q].todo = <<task[q].to>> /\ task[q].to \in User /\ task[q].kind \in I!Kind
  BY DEF InboxTrue, InboxTodo, InboxInv, InboxKnows, InboxBetween
<1>4. InboxTelling(new, task[q].to, task[q].kind)
  <2>1. Len(<<task[q].to>>) = 1 /\ <<task[q].to>>[1] = task[q].to
    OBVIOUS
  <2>2. QED
    BY <1>2, <1>3, <2>1 DEF InboxTelling, InboxSame
<1>5. InboxTodo(new)
  BY <1>2 DEF InboxTodo
<1>6. \A u \in User, k \in I!Kind : ~(u = task[q].to /\ k = task[q].kind) => ~InboxTelling(task[q], u, k)
  BY DEF InboxTelling
<1>7. QED
  BY <1>2, <1>3, <1>4, <1>5, <1>6

LEMMA InboxMarksNotesIt == ASSUME InboxInv, InboxTrue, NEW q \in Task, I!MarkNotificationsRead(q) PROVE InboxTrue'
<1> DEFINE t == task[q]
<1>1. notifications \in Seq(InboxNote) /\ notifications' \in Seq(InboxNote)
  BY InboxMarksNotes DEF InboxInv, InboxTypes
<1>2. t.at = "read" /\ t.kind = "notes" /\ I!Goto(q, "count")
  BY DEF I!MarkNotificationsRead
<1>3. /\ messages' = messages /\ conversations' = conversations /\ broken' = broken /\ UNCHANGED <<I!client, astray>>
  BY DEF I!MarkNotificationsRead, I!Writes
<1>4. PICK some : /\ some \subseteq {i \in DOMAIN notifications : notifications[i].to = t.to}
                  /\ notifications' = [i \in DOMAIN notifications |-> [notifications[i] EXCEPT !.read = @ \/ i \in some]]
  BY ZenonT(60) DEF I!MarkNotificationsRead
<1>5. DOMAIN notifications = 1 .. Len(notifications) /\ Len(notifications) \in Nat /\ Len(notifications') = Len(notifications)
  <2>1. DOMAIN notifications' = DOMAIN notifications
    BY <1>4
  <2>2. QED
    BY <1>1, <2>1, InboxLens
<1>6. ASSUME NEW i \in 1 .. Len(notifications)
      PROVE  /\ notifications'[i].to = notifications[i].to
             /\ notifications[i].to # t.to => notifications'[i].read = notifications[i].read
  <2>1. notifications[i] \in InboxNote
    BY <1>1, <1>5
  <2>2. PICK b \in BOOLEAN : b = (notifications[i].read \/ i \in some)
    <3> DEFINE b == notifications[i].read \/ i \in some
    <3>1. b \in BOOLEAN
      OBVIOUS
    <3> HIDE DEF b
    <3>2. \E c \in BOOLEAN : c = b
      BY <3>1
    <3>3. QED
      BY <3>2 DEF b
  <2>3. notifications'[i] = [notifications[i] EXCEPT !.read = b]
    BY <1>4, <1>5, <2>2
  <2>4. notifications'[i].to = notifications[i].to /\ notifications'[i].read = b
    BY <2>1, <2>3 DEF InboxNote
  <2>5. notifications[i].to # t.to => i \notin some
    BY <1>4
  <2>6. notifications[i].read \in BOOLEAN
    BY <2>1 DEF InboxNote
  <2>7. QED
    BY <2>2, <2>4, <2>5, <2>6
<1>7. ASSUME NEW u \in User, NEW k \in I!Kind, ~(u = t.to /\ k = "notes") PROVE I!UnreadCount(u, k)' = I!UnreadCount(u, k)
  <2>1. CASE k = "notes"
    <3>1. u # t.to
      BY <1>7, <2>1
    <3>2. {i \in DOMAIN notifications' : notifications'[i].to = u /\ ~notifications'[i].read} =
            {i \in DOMAIN notifications : notifications[i].to = u /\ ~notifications[i].read}
      <4>1. \A i \in 1 .. Len(notifications) :
              /\ notifications'[i].to = notifications[i].to
              /\ notifications[i].to = u => notifications'[i].read = notifications[i].read
        BY <1>6, <3>1
      <4>2. QED
        BY <1>1, <1>5, <4>1, InboxSameUnread
    <3>3. QED
      BY <2>1, <3>2 DEF I!UnreadCount, I!UnreadNotifications, I!Count
  <2>2. CASE k # "notes"
    BY <1>3, <2>2 DEF I!UnreadCount, I!UnreadMessages, I!Count
  <2>3. QED
    BY <2>1, <2>2
<1>8. PICK new : /\ task' = [task EXCEPT ![q] = new] /\ new.at = "count"
                 /\ InboxTelling(new, t.to, "notes") /\ InboxTodo(new)
  BY <1>2, InboxMarked
<1>9. \A u \in User, k \in I!Kind : ~(u = t.to /\ k = "notes") => ~InboxTelling(t, u, k)
  BY <1>2, InboxMarked
<1>10. InboxRight' /\ \A p \in Task : InboxTodo(task[p])'
  <2>1. t.to \in User /\ "notes" \in I!Kind
    BY <1>2, InboxMarked
  <2>2. \A u \in User, k \in I!Kind :
          (u = t.to /\ k = "notes") \/ (I!UnreadCount(u, k)' = I!UnreadCount(u, k) /\ ~InboxTelling(task[q], u, k))
    BY <1>7, <1>9
  <2>3. QED
    BY <1>3, <1>8, <2>1, <2>2, InboxWritten
<1>11. InboxOpens'
  <2>1. task \in [Task -> InboxTask] /\ InboxOpens
    BY DEF InboxInv, InboxTypes, InboxTrue
  <2>2. QED
    BY <1>2, <1>3, <1>8, <2>1, InboxOpensStill
<1>12. QED
  BY <1>10, <1>11 DEF InboxTrue

LEMMA InboxMarksMessagesIt == ASSUME InboxInv, InboxTrue, NEW q \in Task, I!MarkMessagesRead(q) PROVE InboxTrue'
<1> DEFINE t == task[q]
<1>1. messages \in Seq(InboxMessage) /\ messages' \in Seq(InboxMessage)
  BY InboxMarksMessages DEF InboxInv, InboxTypes
<1>2. t.at = "read" /\ t.kind = "dms" /\ I!Goto(q, "count")
  BY DEF I!MarkMessagesRead
<1>3. /\ notifications' = notifications /\ conversations' = conversations /\ broken' = broken
      /\ UNCHANGED <<I!client, astray>>
  BY DEF I!MarkMessagesRead, I!Writes
<1>5. DOMAIN messages = 1 .. Len(messages) /\ Len(messages) \in Nat /\ Len(messages') = Len(messages)
  <2>1. DOMAIN messages' = DOMAIN messages
    BY DEF I!MarkMessagesRead
  <2>2. QED
    BY <1>1, <2>1, InboxLens
<1>6. ASSUME NEW i \in 1 .. Len(messages)
      PROVE  /\ messages'[i].to = messages[i].to /\ messages'[i].from = messages[i].from
             /\ messages[i].to # t.to => messages'[i].read = messages[i].read
  <2>1. messages[i] \in InboxMessage
    BY <1>1, <1>5
  <2> DEFINE here == messages[i].to = task[q].to /\ messages[i].from = task[q].from
             b == messages[i].read \/ here
  <2>2. b \in BOOLEAN
    OBVIOUS
  <2>3. messages'[i] = [messages[i] EXCEPT !.read = b]
    BY <1>5 DEF I!MarkMessagesRead
  <2>4. messages[i].read \in BOOLEAN /\ (messages[i].to # t.to => ~here)
    BY <2>1 DEF InboxMessage
  <2>5. messages[i].to # t.to => b = messages[i].read
    BY <2>4
  <2> HIDE DEF b
  <2>6. messages'[i].to = messages[i].to /\ messages'[i].from = messages[i].from /\ messages'[i].read = b
    BY <2>1, <2>3 DEF InboxMessage
  <2>7. QED
    BY <2>5, <2>6
<1>7. ASSUME NEW u \in User, NEW k \in I!Kind, ~(u = t.to /\ k = "dms") PROVE I!UnreadCount(u, k)' = I!UnreadCount(u, k)
  <2>1. CASE k = "dms"
    <3>1. u # t.to
      BY <1>7, <2>1
    <3>2. {i \in DOMAIN messages' : messages'[i].to = u /\ ~messages'[i].read} =
            {i \in DOMAIN messages : messages[i].to = u /\ ~messages[i].read}
      <4>1. \A i \in 1 .. Len(messages) :
              /\ messages'[i].to = messages[i].to
              /\ messages[i].to = u => messages'[i].read = messages[i].read
        BY <1>6, <3>1
      <4>2. QED
        BY <1>1, <1>5, <4>1, InboxSameUnread
    <3>3. QED
      BY <2>1, <3>2 DEF I!UnreadCount, I!UnreadMessages, I!Count
  <2>2. CASE k = "notes"
    BY <1>3, <2>2 DEF I!UnreadCount, I!UnreadNotifications, I!Count
  <2>3. QED
    BY <2>1, <2>2 DEF I!Kind
<1>8. PICK new : /\ task' = [task EXCEPT ![q] = new] /\ new.at = "count"
                 /\ InboxTelling(new, t.to, "dms") /\ InboxTodo(new)
  BY <1>2, InboxMarked
<1>9. \A u \in User, k \in I!Kind : ~(u = t.to /\ k = "dms") => ~InboxTelling(t, u, k)
  BY <1>2, InboxMarked
<1>10. InboxRight' /\ \A p \in Task : InboxTodo(task[p])'
  <2>1. t.to \in User /\ "dms" \in I!Kind
    BY <1>2, InboxMarked
  <2>2. \A u \in User, k \in I!Kind :
          (u = t.to /\ k = "dms") \/ (I!UnreadCount(u, k)' = I!UnreadCount(u, k) /\ ~InboxTelling(task[q], u, k))
    BY <1>7, <1>9
  <2>3. QED
    BY <1>3, <1>8, <2>1, <2>2, InboxWritten
<1>11. InboxOpens'
  <2>1. task \in [Task -> InboxTask] /\ InboxOpens
    BY DEF InboxInv, InboxTypes, InboxTrue
  <2>2. \A c : (\E i \in DOMAIN messages : I!With(c, messages[i])) => \E i \in DOMAIN messages' : I!With(c, messages'[i])
    <3>1. DOMAIN messages' = DOMAIN messages
      BY DEF I!MarkMessagesRead
    <3>2. QED
      BY <1>5, <1>6, <3>1 DEF I!With
  <2>3. QED
    BY <1>2, <1>3, <1>8, <2>1, <2>2, InboxOpensStill
<1>12. QED
  BY <1>10, <1>11 DEF InboxTrue

LEMMA InboxConversesIt == ASSUME InboxInv, InboxTrue, NEW q \in Task, I!GetOrCreateConversation(q) PROVE InboxTrue'
<1> DEFINE t == task[q]
<1>1. /\ t.at = "conversation" /\ messages' = messages /\ notifications' = notifications /\ broken' = broken
      /\ conversations' = conversations \cup {{t.from, t.to}}
      /\ badge' = badge /\ fetch' = fetch /\ stream' = stream /\ resync' = resync /\ astray' = astray
  BY DEF I!GetOrCreateConversation, I!Writes, I!client
<1>2. task \in [Task -> InboxTask] /\ "message" \in InboxStage /\ I!Goto(q, "message")
  BY DEF InboxInv, InboxTypes, InboxStage, InboxSends, I!GetOrCreateConversation
<1>3. PICK new \in InboxTask : task' = [task EXCEPT ![q] = new] /\ new.at = "message" /\ InboxSame(new, t)
  BY <1>2, InboxGoto
<1>4. InboxRight'
  <2>1. \A u \in User \cap Watching, k \in I!Kind : InboxRests(u, k) /\ ~InboxTelling(task[q], u, k)
    BY <1>1, InboxSameCounts DEF InboxRests, InboxTelling
  <2>2. QED
    BY <1>2, <1>3, <2>1, InboxTurn DEF InboxTrue
<1>5. InboxOpens'
  <2> SUFFICES ASSUME NEW c \in conversations'
               PROVE  (\E i \in DOMAIN messages : I!With(c, messages[i])) \/ I!Opening(c)' \/ c \in broken
    BY <1>1 DEF InboxOpens, I!With
  <2>1. task'[q] = new /\ \A p \in Task \ {q} : task'[p] = task[p]
    BY <1>2, <1>3
  <2>2. CASE c = {t.from, t.to}
    BY <1>3, <2>1, <2>2 DEF I!Opening, InboxSame
  <2>3. CASE c \in conversations
    <3>1. I!Opening(c) => I!Opening(c)'
      BY <1>1, <2>1 DEF I!Opening
    <3>2. QED
      BY <2>3, <3>1 DEF InboxTrue, InboxOpens
  <2>4. QED
    BY <1>1, <2>2, <2>3
<1>6. InboxTodo(new)
  BY <1>3 DEF InboxTodo
<1>7. QED
  BY <1>2, <1>3, <1>4, <1>5, <1>6, InboxTodos DEF InboxTrue

LEMMA InboxSendsItOn == ASSUME InboxInv, InboxTrue, NEW q \in Task, I!AddMessage(q) PROVE InboxTrue'
<1> DEFINE t == task[q]
<1>1. InboxKnows(t) /\ t \in InboxTask /\ messages \in Seq(InboxMessage) /\ messages' \in Seq(InboxMessage)
  BY InboxSendsIt DEF InboxInv, InboxTypes
<1>2. t.at = "message" /\ t.kind = "dms" /\ t.to \in User /\ "dms" \in I!Kind
  BY <1>1 DEF I!AddMessage, InboxKnows, InboxBetween, InboxSends, I!Kind
<1>3. /\ notifications' = notifications /\ conversations' = conversations /\ UNCHANGED <<I!client, astray>>
      /\ broken' = broken \ {{t.from, t.to}}
  BY DEF I!AddMessage, I!Writes
<1>4. PICK mail : messages' = Append(messages, mail) /\ mail.to = t.to /\ mail.from = t.from
  BY DEF I!AddMessage
<1>5. PICK new : /\ task' = [task EXCEPT ![q] = new] /\ new.at = "touch" /\ new.todo = <<t.to, t.from>>
                 /\ new.kind = "dms" /\ new.to = t.to /\ new.from = t.from
  <2> DEFINE new == [t EXCEPT !.at = "touch", !.todo = <<t.to, t.from>>]
  <2>1. task' = [task EXCEPT ![q] = new]
    BY DEF I!AddMessage
  <2>2. new.at = "touch" /\ new.todo = <<t.to, t.from>> /\ new.kind = "dms" /\ new.to = t.to /\ new.from = t.from
    BY <1>1, <1>2 DEF InboxTask
  <2> HIDE DEF new
  <2>3. QED
    BY <2>1, <2>2
<1>6. InboxTelling(new, t.to, "dms") /\ InboxTodo(new)
  <2>1. Len(<<t.to, t.from>>) = 2 /\ <<t.to, t.from>>[1] = t.to
    OBVIOUS
  <2>2. QED
    BY <1>5, <2>1 DEF InboxTelling, InboxTodo
<1>7. /\ Len(messages') = Len(messages) + 1 /\ Len(messages) \in Nat
      /\ \A i \in 1 .. Len(messages) : messages'[i] = messages[i]
      /\ messages'[Len(messages) + 1] = mail
      /\ DOMAIN messages = 1 .. Len(messages) /\ DOMAIN messages' = 1 .. Len(messages')
  <2>1. Len(messages') = Len(messages) + 1 /\ Len(messages) \in Nat
        /\ DOMAIN messages = 1 .. Len(messages) /\ DOMAIN messages' = 1 .. Len(messages')
    BY <1>1, <1>4, LenProperties
  <2>2. QED
    BY <1>1, <1>4, <2>1
<1>8. ASSUME NEW u \in User, NEW k \in I!Kind, ~(u = t.to /\ k = "dms")
      PROVE  I!UnreadCount(u, k)' = I!UnreadCount(u, k) /\ ~InboxTelling(t, u, k)
  <2>1. ~InboxTelling(t, u, k)
    BY <1>2 DEF InboxTelling
  <2>2. CASE k = "dms"
    <3>1. u # t.to
      BY <1>8, <2>2
    <3>2. /\ Len(messages) <= Len(messages')
          /\ \A i \in 1 .. Len(messages') : i \notin 1 .. Len(messages) => messages'[i].to # u
      BY <1>4, <1>7, <3>1
    <3>3. {i \in DOMAIN messages' : messages'[i].to = u /\ ~messages'[i].read} =
            {i \in DOMAIN messages : messages[i].to = u /\ ~messages[i].read}
      BY <1>1, <1>7, <3>2, InboxSameUnread
    <3>4. QED
      BY <2>1, <2>2, <3>3 DEF I!UnreadCount, I!UnreadMessages, I!Count
  <2>3. CASE k = "notes"
    BY <1>3, <2>1, <2>3 DEF I!UnreadCount, I!UnreadNotifications, I!Count
  <2>4. QED
    BY <2>2, <2>3 DEF I!Kind
<1>9. InboxRight' /\ \A p \in Task : InboxTodo(task[p])'
  BY <1>2, <1>3, <1>5, <1>6, <1>8, InboxWritten
<1>10. InboxOpens'
  <2> SUFFICES ASSUME NEW c \in conversations
               PROVE  (\E i \in DOMAIN messages' : I!With(c, messages'[i])) \/ I!Opening(c)' \/ c \in broken'
    BY <1>3 DEF InboxOpens, I!With
  <2>1. CASE c = {t.from, t.to}
    <3>1. I!With(c, messages'[Len(messages) + 1])
      BY <1>4, <1>7, <2>1 DEF I!With
    <3>2. QED
      BY <1>7, <3>1
  <2>2. CASE c # {t.from, t.to}
    <3>1. (\E i \in DOMAIN messages : I!With(c, messages[i])) => \E i \in DOMAIN messages' : I!With(c, messages'[i])
      BY <1>7
    <3>2. I!Opening(c) => I!Opening(c)'
      <4>1. \A p \in Task \ {q} : task'[p] = task[p]
        BY <1>5 DEF InboxInv, InboxTypes
      <4>2. QED
        BY <2>2, <4>1 DEF I!Opening
    <3>3. QED
      BY <1>3, <2>2, <3>1, <3>2 DEF InboxTrue, InboxOpens
  <2>3. QED
    BY <2>1, <2>2
<1>11. QED
  BY <1>9, <1>10 DEF InboxTrue

-----------------------------------------------------------------------------
(* A request that is telling goes on, or the client is pushed. *)
LEMMA InboxGoesOver ==
  ASSUME InboxInv, InboxTrue, NEW q \in Task, NEW new, task' = [task EXCEPT ![q] = new], InboxTodo(new),
         \A u \in User \cap Watching, k \in I!Kind :
           /\ InboxTelling(task[q], u, k) => InboxTelling(new, u, k) \/ InboxPushed(u, k)'
           /\ InboxPushed(u, k)' \/ InboxRests(u, k)
  PROVE  InboxRight' /\ \A p \in Task : InboxTodo(task[p])'
<1>1. InboxRight /\ task \in [Task -> InboxTask]
  BY DEF InboxInv, InboxTypes, InboxTrue
<1>2. \A u \in User \cap Watching, k \in I!Kind :
        \/ InboxTelling(new, u, k)
        \/ InboxPushed(u, k)'
        \/ InboxRests(u, k) /\ ~InboxTelling(task[q], u, k)
  OBVIOUS
<1>3. InboxRight'
  BY <1>1, <1>2, InboxTurn
<1>4. QED
  BY <1>1, <1>3, InboxTodos

(* Whom an event is for is pushed, and nobody loses a reason. *)
LEMMA InboxTold ==
  ASSUME InboxInv, NEW v \in User, NEW l \in I!Kind, I!Publish(v, l), UNCHANGED <<I!tables, badge, stream>>,
         NEW u \in User \cap Watching, NEW k \in I!Kind
  PROVE  (u = v /\ k = l => InboxPushed(u, k)') /\ (InboxPushed(u, k)' \/ InboxRests(u, k))
<1>1. /\ I!UnreadCount(u, k)' = I!UnreadCount(u, k) /\ badge' = badge /\ stream' = stream
      /\ fetch \in [User -> [I!Kind -> Nat \cup {I!Idle, I!Asked}]]
  BY InboxSameCounts DEF I!tables, InboxInv, InboxClient
<1>2. CASE I!Ask({v}, l) /\ UNCHANGED <<resync, astray>>
  <2>1. (u = v /\ k = l => fetch'[u][k] = I!Asked) /\ (~(u = v /\ k = l) => fetch'[u][k] = fetch[u][k])
    BY <1>1, <1>2, InboxAskedOf
  <2>2. QED
    BY <1>1, <1>2, <2>1 DEF InboxPushed, InboxRests
<1>3. CASE resync' = resync \cup {v} /\ UNCHANGED <<fetch, astray>>
  BY <1>1, <1>3 DEF InboxPushed, InboxRests
<1>4. CASE stream[v] = "down" /\ astray' = (IF l = "dms" THEN I!Missed(v, l) ELSE astray) /\ UNCHANGED <<fetch, resync>>
  <2>1. InboxRests(u, k)
    BY <1>1, <1>4 DEF InboxRests, I!Missed
  <2>2. CASE l = "notes"
    BY <1>1, <1>4, <2>1, <2>2 DEF InboxPushed
  <2>3. CASE l = "dms"
    BY <1>1, <1>4, <2>1, <2>3 DEF InboxPushed, I!Missed
  <2>4. QED
    BY <2>2, <2>3 DEF I!Kind
<1>5. QED
  BY <1>2, <1>3, <1>4 DEF I!Publish

LEMMA InboxTouchesIt == ASSUME InboxInv, InboxTrue, NEW q \in Task, I!Touch(q) PROVE InboxTrue'
<1> DEFINE t == task[q]
<1>1. InboxKnows(t) /\ t \in InboxTask /\ task \in [Task -> InboxTask]
  BY DEF InboxInv, InboxTypes
<1>2. t.at = "touch" /\ t.kind = "dms" /\ t.to \in User /\ "dms" \in I!Kind
  BY <1>1 DEF I!Touch, InboxKnows, InboxBetween, InboxSends, I!Kind
<1>3. "count" \in InboxStage /\ I!Goto(q, "count") /\ I!Publish(t.to, "dms") /\ UNCHANGED <<I!tables, badge, stream>>
  BY DEF InboxStage, I!Touch
<1>4. PICK new \in InboxTask : /\ task' = [task EXCEPT ![q] = new] /\ new.at = "count" /\ new.todo = t.todo
                               /\ InboxSame(new, t)
  BY <1>3, InboxGoto
<1>5. InboxTodo(new)
  BY <1>4 DEF InboxTodo
<1>6. \A u \in User \cap Watching, k \in I!Kind :
        /\ InboxTelling(task[q], u, k) => InboxTelling(new, u, k) \/ InboxPushed(u, k)'
        /\ InboxPushed(u, k)' \/ InboxRests(u, k)
  <2> SUFFICES ASSUME NEW u \in User \cap Watching, NEW k \in I!Kind
               PROVE  /\ InboxTelling(task[q], u, k) => InboxTelling(new, u, k)
                      /\ InboxPushed(u, k)' \/ InboxRests(u, k)
    OBVIOUS
  <2>1. InboxTelling(task[q], u, k) => InboxTelling(new, u, k)
    BY <1>2, <1>4 DEF InboxTelling, InboxSame
  <2>2. InboxPushed(u, k)' \/ InboxRests(u, k)
    BY <1>2, <1>3, InboxTold
  <2>3. QED
    BY <2>1, <2>2
<1>7. InboxRight' /\ \A p \in Task : InboxTodo(task[p])'
  BY <1>4, <1>5, <1>6, InboxGoesOver
<1>8. InboxOpens'
  <2>1. messages' = messages /\ conversations' = conversations /\ broken' = broken
    BY DEF I!Touch, I!tables
  <2>2. QED
    BY <1>1, <1>2, <1>4, <2>1, InboxOpensStill DEF InboxTrue
<1>9. QED
  BY <1>7, <1>8 DEF InboxTrue

(* A request that has told the first of those it has to tell goes on with the others. *)
LEMMA InboxTellsNext ==
  ASSUME InboxInv, NEW q \in Task, task[q].at = "count", I!Publishes(q)
  PROVE  \E new : /\ task' = [task EXCEPT ![q] = new] /\ InboxTodo(new)
                  /\ \A u, k : InboxTelling(task[q], u, k) =>
                       (u = Head(task[q].todo) /\ k = task[q].kind) \/ InboxTelling(new, u, k)
<1> DEFINE t == task[q]
<1>1. t \in InboxTask /\ t.todo \in Seq(User) /\ t.todo # <<>> /\ Len(t.todo) \in Nat
  BY InboxCounting, LenProperties DEF InboxInv, InboxTypes
<1>2. CASE Len(t.todo) > 1
  <2> DEFINE d == Tail(t.todo)
             new == [t EXCEPT !.todo = d]
  <2>1. task' = [task EXCEPT ![q] = new]
    BY <1>2 DEF I!Publishes
  <2>2. new.at = "count" /\ new.kind = t.kind /\ new.todo = d
    <3> HIDE DEF d
    <3>1. QED
      BY <1>1 DEF InboxTask
  <2>3. Len(d) = Len(t.todo) - 1 /\ \A i \in 1 .. Len(d) : d[i] = t.todo[i + 1]
    BY <1>1, HeadTailProperties
  <2> HIDE DEF d, new
  <2>4. ASSUME NEW u, NEW k, InboxTelling(t, u, k), ~(u = Head(t.todo) /\ k = t.kind)
        PROVE  InboxTelling(new, u, k)
    <3>1. k = t.kind /\ \E i \in 1 .. Len(t.todo) : t.todo[i] = u
      BY <2>4 DEF InboxTelling
    <3>2. PICK i \in 1 .. Len(t.todo) : t.todo[i] = u
      BY <3>1
    <3>3. i # 1
      BY <1>1, <2>4, <3>1, <3>2, HeadTailProperties
    <3>4. i - 1 \in 1 .. Len(d) /\ d[i - 1] = u
      BY <1>1, <2>3, <3>2, <3>3
    <3>5. QED
      BY <2>2, <3>1, <3>4 DEF InboxTelling
  <2>5. QED
    BY <2>1, <2>2, <2>4 DEF InboxTodo
<1>3. CASE ~(Len(t.todo) > 1)
  <2>1. ASSUME NEW u, NEW k, InboxTelling(t, u, k) PROVE u = Head(t.todo) /\ k = t.kind
    <3>1. k = t.kind /\ \E i \in 1 .. Len(t.todo) : t.todo[i] = u
      BY <2>1 DEF InboxTelling
    <3>2. t.todo[1] = u
      BY <1>1, <1>3, <3>1
    <3>3. QED
      BY <1>1, <3>1, <3>2, HeadTailProperties
  <2>2. CASE t.type \in {"one", "all", "dm"}
    <3> DEFINE new == [t EXCEPT !.at = "answer"]
    <3>1. task' = [task EXCEPT ![q] = new]
      BY <1>3, <2>2 DEF I!Publishes
    <3>2. new.at = "answer"
      BY <1>1 DEF InboxTask
    <3> HIDE DEF new
    <3>3. QED
      BY <2>1, <3>1, <3>2 DEF InboxTodo
  <2>3. CASE t.type \notin {"one", "all", "dm"}
    <3> DEFINE new == I!After(q)
    <3>1. task' = [task EXCEPT ![q] = new]
      BY <1>3, <2>3 DEF I!Publishes
    <3>2. new.at \in {"none", "relationship"}
      BY <1>1, InboxAfterAt
    <3> HIDE DEF new
    <3>3. QED
      BY <2>1, <3>1, <3>2 DEF InboxTodo
  <2>4. QED
    BY <2>2, <2>3
<1>4. QED
  BY <1>2, <1>3

LEMMA InboxCountsIt ==
  ASSUME InboxInv, InboxTrue, NEW q \in Task, I!PublishUnreadCount(q) \/ I!CountFails(q) PROVE InboxTrue'
<1> DEFINE t == task[q]
           v == Head(t.todo)
<1>1. /\ t.at = "count" /\ I!Publishes(q) /\ UNCHANGED <<I!tables, badge, stream>> /\ broken' = broken
      /\ task \in [Task -> InboxTask]
  BY DEF I!PublishUnreadCount, I!CountFails, I!client, InboxInv, InboxTypes
<1>2. v \in User /\ t.kind \in I!Kind
  BY <1>1, InboxCounting
<1>3. PICK new : /\ task' = [task EXCEPT ![q] = new] /\ InboxTodo(new)
                 /\ \A u, k : InboxTelling(t, u, k) => (u = v /\ k = t.kind) \/ InboxTelling(new, u, k)
  BY <1>1, InboxTellsNext
<1>4. ASSUME NEW u \in User \cap Watching, NEW k \in I!Kind
      PROVE  (u = v /\ k = t.kind => InboxPushed(u, k)') /\ (InboxPushed(u, k)' \/ InboxRests(u, k))
  <2>1. CASE I!PublishUnreadCount(q)
    <3>1. I!Publish(v, t.kind)
      BY <2>1 DEF I!PublishUnreadCount
    <3> HIDE DEF t, v
    <3>2. QED
      BY <1>1, <1>2, <3>1, InboxTold
  <2>2. CASE I!CountFails(q)
    <3>1. astray' = I!Missed(v, t.kind) /\ UNCHANGED I!client /\ UNCHANGED I!tables
      BY <2>2 DEF I!CountFails
    <3>2. I!UnreadCount(u, k)' = I!UnreadCount(u, k)
      BY <3>1, InboxSameCounts DEF I!tables
    <3>3. InboxRests(u, k)
      BY <3>1, <3>2 DEF InboxRests, I!Missed, I!client
    <3>4. u = v /\ k = t.kind => InboxPushed(u, k)'
      BY <3>1 DEF InboxPushed, I!Missed
    <3>5. QED
      BY <3>3, <3>4
  <2>3. QED
    BY <2>1, <2>2
<1>5. \A u \in User \cap Watching, k \in I!Kind :
        /\ InboxTelling(task[q], u, k) => InboxTelling(new, u, k) \/ InboxPushed(u, k)'
        /\ InboxPushed(u, k)' \/ InboxRests(u, k)
  BY <1>3, <1>4
<1>6. InboxRight' /\ \A p \in Task : InboxTodo(task[p])'
  BY <1>3, <1>5, InboxGoesOver
<1>7. InboxOpens'
  <2>1. messages' = messages /\ conversations' = conversations
    BY <1>1 DEF I!tables
  <2>2. QED
    BY <1>1, <1>3, <2>1, InboxOpensStill DEF InboxTrue
<1>8. QED
  BY <1>6, <1>7 DEF InboxTrue

LEMMA InboxBreaksOff == ASSUME InboxInv, InboxTrue, NEW q \in Task, I!Fail(q) PROVE InboxTrue'
<1> DEFINE t == task[q]
<1>1. /\ t.at \notin {"none", "count"} /\ task' = [task EXCEPT ![q] = I!NoTask] /\ UNCHANGED <<I!tables, badge, stream, resync>>
      /\ astray' = IF t.at \in {"touch", "answer"} \/ t.type = "all" THEN I!Missed(t.to, t.kind) ELSE astray
      /\ IF t.type = "dm" THEN I!Ask({t.from}, "dms") ELSE UNCHANGED fetch
      /\ broken' = broken \cup
           {c \in conversations : /\ t.at = "message" /\ c = {t.from, t.to}
                                  /\ \A i \in DOMAIN messages : ~I!With(c, messages[i])}
  BY DEF I!Fail
<1>2. /\ InboxKnows(t) /\ t \in InboxTask /\ task \in [Task -> InboxTask] /\ InboxTodo(t) /\ "dms" \in I!Kind
      /\ fetch \in [User -> [I!Kind -> Nat \cup {I!Idle, I!Asked}]]
      /\ messages' = messages /\ conversations' = conversations
  BY <1>1 DEF InboxInv, InboxTypes, InboxClient, InboxTrue, I!Kind, I!tables
<1>3. I!NoTask.at = "none" /\ InboxTodo(I!NoTask)
  BY DEF I!NoTask, InboxTodo
<1>4. ASSUME NEW u \in User \cap Watching, NEW k \in I!Kind
      PROVE  /\ InboxTelling(t, u, k) => InboxPushed(u, k)'
             /\ InboxPushed(u, k)' \/ InboxRests(u, k)
  <2>1. I!UnreadCount(u, k)' = I!UnreadCount(u, k) /\ badge' = badge /\ stream' = stream /\ resync' = resync
    BY <1>1, InboxSameCounts DEF I!tables
  <2>2. /\ t.type = "dm" /\ u = t.from /\ k = "dms" => fetch'[u][k] = I!Asked
        /\ ~(t.type = "dm" /\ u = t.from /\ k = "dms") => fetch'[u][k] = fetch[u][k]
    <3>1. CASE t.type = "dm"
      <4>1. I!Ask({t.from}, "dms")
        BY <1>1, <3>1
      <4> HIDE DEF t
      <4>2. (u \in {t.from} /\ k = "dms" => fetch'[u][k] = I!Asked)
            /\ (~(u \in {t.from} /\ k = "dms") => fetch'[u][k] = fetch[u][k])
        BY <1>2, <4>1, InboxAskedOf
      <4>3. QED
        BY <3>1, <4>2
    <3>2. CASE t.type # "dm"
      BY <1>1, <3>2
    <3>3. QED
      BY <3>1, <3>2
  <2>3. astray \subseteq astray'
    BY <1>1 DEF I!Missed
  <2>4. InboxPushed(u, k)' \/ InboxRests(u, k)
    BY <2>1, <2>2, <2>3 DEF InboxPushed, InboxRests
  <2>5. ASSUME InboxTelling(t, u, k) PROVE InboxPushed(u, k)'
    <3>1. CASE t.at = "touch"
      <4>1. t.kind = "dms" /\ t.type = "dm" /\ k = "dms"
        BY <1>2, <2>5, <3>1 DEF InboxKnows, InboxBetween, InboxSends, InboxTelling
      <4>2. u = t.to \/ u = t.from
        <5>1. t.todo = <<t.to, t.from>>
          BY <1>2, <3>1 DEF InboxTodo
        <5>2. \E i \in 1 .. Len(t.todo) : t.todo[i] = u
          BY <2>5, <3>1 DEF InboxTelling
        <5>3. QED
          BY <5>1, <5>2
      <4>3. u = t.to => <<u, k>> \in astray'
        BY <1>1, <3>1, <4>1 DEF I!Missed
      <4>4. QED
        BY <2>2, <4>1, <4>2, <4>3 DEF InboxPushed
    <3>2. CASE t.at # "touch"
      <4>1. t.type = "all" /\ u = t.to /\ k = t.kind
        BY <1>1, <2>5, <3>2 DEF InboxTelling
      <4>2. <<u, k>> \in astray'
        BY <1>1, <4>1 DEF I!Missed
      <4>3. QED
        BY <4>2 DEF InboxPushed
    <3>3. QED
      BY <3>1, <3>2
  <2>6. QED
    BY <2>4, <2>5
<1>5. \A u \in User \cap Watching, k \in I!Kind :
        /\ InboxTelling(task[q], u, k) => InboxTelling(I!NoTask, u, k) \/ InboxPushed(u, k)'
        /\ InboxPushed(u, k)' \/ InboxRests(u, k)
  BY <1>4
<1>6. InboxRight' /\ \A p \in Task : InboxTodo(task[p])'
  BY <1>1, <1>3, <1>5, InboxGoesOver
<1>7. InboxOpens'
  <2>1. CASE t.at # "message"
    <3>1. broken \subseteq broken'
      BY <1>1
    <3>2. QED
      BY <1>1, <1>2, <2>1, <3>1, InboxOpensStill DEF InboxTrue
  <2>2. CASE t.at = "message"
    <3> SUFFICES ASSUME NEW c \in conversations
                 PROVE  (\E i \in DOMAIN messages : I!With(c, messages[i])) \/ I!Opening(c)' \/ c \in broken'
      BY <1>2 DEF InboxOpens, I!With
    <3>1. CASE c = {t.from, t.to}
      BY <1>1, <2>2, <3>1
    <3>2. CASE c # {t.from, t.to}
      <4>1. \A p \in Task \ {q} : task'[p] = task[p]
        BY <1>1, <1>2
      <4>2. I!Opening(c) => I!Opening(c)'
        BY <3>2, <4>1 DEF I!Opening
      <4>3. QED
        BY <1>1, <4>2 DEF InboxTrue, InboxOpens
    <3>3. QED
      BY <3>1, <3>2
  <2>3. QED
    BY <2>1, <2>2
<1>8. QED
  BY <1>6, <1>7 DEF InboxTrue

(* A step of the client leaves every request where it is. *)
LEMMA InboxStays ==
  ASSUME InboxTrue, task' = task, conversations' = conversations, messages' = messages, broken' = broken
  PROVE  InboxOpens' /\ \A p \in Task : InboxTodo(task[p])'
BY DEF InboxTrue, InboxOpens, I!Opening, I!With, InboxTodo

LEMMA InboxSees ==
  ASSUME InboxInv, InboxTrue, NEW v \in User, NEW l \in I!Kind, I!HandleUnreadCount(v, l) \/ I!ShowCount(v, l)
  PROVE  InboxTrue'
<1>1. /\ task' = task /\ notifications' = notifications /\ messages' = messages /\ conversations' = conversations
      /\ stream' = stream /\ resync' = resync /\ broken' = broken
  BY DEF I!HandleUnreadCount, I!ShowCount, I!tables, I!ghosts
<1>2. /\ fetch \in [User -> [I!Kind -> Nat \cup {I!Idle, I!Asked}]]
      /\ badge \in [User -> [I!Kind -> Nat]]
  BY DEF InboxInv, InboxClient
<1>3. ASSUME NEW u \in User \cap Watching, NEW k \in I!Kind
      PROVE  InboxReason(u, k)' \/ InboxAgrees(u, k)' \/ InboxRests(u, k)
  <2>1. I!UnreadCount(u, k)' = I!UnreadCount(u, k)
    BY <1>1, InboxSameCounts
  <2>2. CASE I!HandleUnreadCount(v, l)
    <3>1. /\ fetch' = [fetch EXCEPT ![v][l] = I!UnreadCount(v, l)] /\ badge' = badge /\ astray' = astray
      BY <2>2 DEF I!HandleUnreadCount, I!ghosts
    <3>2. CASE u = v /\ k = l
      <4>1. fetch'[u][k] = I!UnreadCount(u, k)
        BY <1>2, <3>1, <3>2
      <4>2. QED
        BY <2>1, <4>1 DEF InboxAgrees
    <3>3. CASE ~(u = v /\ k = l)
      <4>1. fetch'[u][k] = fetch[u][k]
        BY <1>2, <3>1, <3>3
      <4>2. QED
        BY <1>1, <2>1, <3>1, <4>1 DEF InboxRests
    <3>4. QED
      BY <3>2, <3>3
  <2>3. CASE I!ShowCount(v, l)
    <3>1. /\ fetch' = [fetch EXCEPT ![v][l] = I!Idle] /\ badge' = [badge EXCEPT ![v][l] = fetch[v][l]]
          /\ fetch[v][l] >= 0
          /\ astray' = IF fetch[v][l] = I!UnreadCount(v, l) THEN astray \ {<<v, l>>} ELSE astray
      BY <2>3 DEF I!ShowCount
    <3>2. CASE u = v /\ k = l
      <4>1. fetch'[u][k] = I!Idle /\ badge'[u][k] = fetch[u][k] /\ fetch[u][k] # I!Asked
        BY <1>2, <3>1, <3>2 DEF I!Asked
      <4>2. CASE fetch[u][k] = I!UnreadCount(u, k)
        BY <2>1, <4>1, <4>2 DEF InboxAgrees
      <4>3. CASE fetch[u][k] # I!UnreadCount(u, k)
        <5>1. astray' = astray /\ fetch[u][k] # I!Idle
          BY <3>1, <3>2, <4>3 DEF I!Idle
        <5>2. InboxReason(u, k)
          BY <4>3, <5>1 DEF InboxTrue, InboxRight, InboxAgrees
        <5>3. QED
          BY <1>1, <4>1, <5>1, <5>2 DEF InboxReason, InboxPushed
      <4>4. QED
        BY <4>2, <4>3
    <3>3. CASE ~(u = v /\ k = l)
      <4>1. fetch'[u][k] = fetch[u][k] /\ badge'[u][k] = badge[u][k]
        BY <1>2, <3>1, <3>3
      <4>2. <<u, k>> \in astray => <<u, k>> \in astray'
        BY <3>1, <3>3
      <4>3. QED
        BY <1>1, <2>1, <4>1, <4>2 DEF InboxRests
    <3>4. QED
      BY <3>2, <3>3
  <2>4. QED
    BY <2>2, <2>3
<1>4. InboxRight'
  BY <1>1, <1>3, InboxTalksOn DEF InboxTrue
<1>5. QED
  BY <1>1, <1>4, InboxStays DEF InboxTrue

LEMMA InboxStreams ==
  ASSUME InboxInv, InboxTrue, NEW v \in User, I!Resync(v) \/ I!Disconnect(v) \/ I!Subscribe(v) \/ I!Greet(v)
  PROVE  InboxTrue'
<1>1. /\ task' = task /\ notifications' = notifications /\ messages' = messages /\ conversations' = conversations
      /\ badge' = badge /\ broken' = broken
  BY DEF I!Resync, I!Disconnect, I!Subscribe, I!Greet, I!tables, I!ghosts
<1>2. /\ fetch \in [User -> [I!Kind -> Nat \cup {I!Idle, I!Asked}]]
      /\ stream \in [User -> {"up", "greeting", "down"}]
  BY DEF InboxInv, InboxClient
<1>3. ASSUME NEW u \in User \cap Watching, NEW k \in I!Kind
      PROVE  InboxReason(u, k)' \/ InboxAgrees(u, k)' \/ InboxRests(u, k)
  <2>1. I!UnreadCount(u, k)' = I!UnreadCount(u, k)
    BY <1>1, InboxSameCounts
  <2>2. CASE I!Resync(v)
    <3>1. /\ resync' = resync \ {v} /\ fetch' = [fetch EXCEPT ![v] = [l \in I!Kind |-> I!Asked]]
          /\ stream' = stream /\ astray' = astray
      BY <2>2 DEF I!Resync, I!ghosts
    <3>2. CASE u = v
      BY <1>2, <3>1, <3>2 DEF InboxReason, InboxPushed
    <3>3. CASE u # v
      BY <1>1, <1>2, <2>1, <3>1, <3>3 DEF InboxRests
    <3>4. QED
      BY <3>2, <3>3
  <2>3. CASE I!Disconnect(v)
    <3>1. /\ stream' = [stream EXCEPT ![v] = "down"] /\ resync' = resync \ {v} /\ fetch' = fetch
          /\ astray' = astray \cup {<<v, "dms">> : x \in resync \cap {v}}
      BY <2>3 DEF I!Disconnect
    <3>2. CASE u \in resync /\ u = v
      <4>1. CASE k = "dms"
        BY <3>1, <3>2, <4>1 DEF InboxReason, InboxPushed
      <4>2. CASE k = "notes"
        BY <1>2, <3>1, <3>2, <4>2 DEF InboxReason, InboxPushed
      <4>3. QED
        BY <4>1, <4>2 DEF I!Kind
    <3>3. CASE ~(u \in resync /\ u = v)
      <4>1. u \in resync => u \in resync'
        BY <3>1, <3>3
      <4>2. stream[u] # "up" => stream'[u] # "up"
        BY <1>2, <3>1
      <4>3. astray \subseteq astray'
        BY <3>1
      <4>4. QED
        BY <1>1, <2>1, <3>1, <4>1, <4>2, <4>3 DEF InboxRests
    <3>4. QED
      BY <3>2, <3>3
  <2>4. CASE I!Subscribe(v)
    <3>1. /\ stream' = [stream EXCEPT ![v] = "greeting"] /\ resync' = resync /\ fetch' = fetch /\ astray' = astray
      BY <2>4 DEF I!Subscribe, I!ghosts
    <3>2. stream[u] # "up" => stream'[u] # "up"
      BY <1>2, <3>1
    <3>3. QED
      BY <1>1, <2>1, <3>1, <3>2 DEF InboxRests
  <2>5. CASE I!Greet(v)
    <3>1. /\ stream' = [stream EXCEPT ![v] = "up"] /\ resync' = resync
          /\ \/ I!Ask({v}, "notes") /\ astray' = astray
             \/ astray' = I!Missed(v, "notes") /\ fetch' = fetch
      BY <2>5 DEF I!Greet
    <3>2. "notes" \in I!Kind /\ "notes" # "dms"
      BY DEF I!Kind
    <3>3. /\ astray \subseteq astray'
          /\ ~(u = v /\ k = "notes") => fetch'[u][k] = fetch[u][k]
          /\ u = v /\ k = "notes" => fetch'[u][k] = I!Asked \/ <<u, k>> \in astray'
      <4>1. CASE I!Ask({v}, "notes") /\ astray' = astray
        <5>1. (u \in {v} /\ k = "notes" => fetch'[u][k] = I!Asked)
              /\ (~(u \in {v} /\ k = "notes") => fetch'[u][k] = fetch[u][k])
          BY <1>2, <3>2, <4>1, InboxAskedOf
        <5>2. QED
          BY <4>1, <5>1
      <4>2. CASE astray' = I!Missed(v, "notes") /\ fetch' = fetch
        BY <4>2 DEF I!Missed
      <4>3. QED
        BY <3>1, <4>1, <4>2
    <3>4. CASE u = v /\ k = "notes"
      BY <3>3, <3>4 DEF InboxReason, InboxPushed
    <3>5. CASE ~(u = v /\ k = "notes")
      <4>1. k = "notes" /\ stream[u] # "up" => stream'[u] # "up"
        BY <1>2, <3>1, <3>5
      <4>2. QED
        BY <1>1, <2>1, <3>1, <3>3, <3>5, <4>1 DEF InboxRests
    <3>6. QED
      BY <3>4, <3>5
  <2>6. QED
    BY <2>2, <2>3, <2>4, <2>5
<1>4. InboxRight'
  BY <1>1, <1>3, InboxTalksOn DEF InboxTrue
<1>5. QED
  BY <1>1, <1>4, InboxStays DEF InboxTrue

LEMMA InboxTurnsOver == ASSUME InboxInv, InboxTrue, I!Change PROVE InboxTrue'
<1>1. /\ notifications' = notifications /\ messages' = messages /\ conversations' = conversations
      /\ badge' = badge /\ fetch' = fetch /\ stream' = stream /\ resync' = resync
      /\ astray' = astray /\ broken' = broken
  BY DEF I!Change, I!client
<1>2. task \in [Task -> InboxTask]
  BY DEF InboxInv, InboxTypes
<1>3. ASSUME NEW q \in Task
      PROVE  /\ task'[q].at = task[q].at /\ task'[q].kind = task[q].kind /\ task'[q].type = task[q].type
             /\ task'[q].from = task[q].from /\ task'[q].to = task[q].to /\ task'[q].todo = task[q].todo
  <2> DEFINE t == task[q]
             against == I!Against(rel', mentionsOff', t.type, t.from, t.to)
             beside == I!Mixed(rel', t.from, t.to)
  <2>1. t \in InboxTask
    BY <1>2
  <2>2. task'[q] = IF t.to = None \/ t.from = None THEN t
                   ELSE [t EXCEPT !.held = @ \cap against, !.mixed = @ \/ beside]
    BY DEF I!Change
  <2> HIDE DEF against, beside
  <2>3. QED
    BY <2>1, <2>2 DEF InboxTask
<1>4. InboxRight'
  <2> SUFFICES ASSUME NEW u \in User \cap Watching, NEW k \in I!Kind PROVE InboxReason(u, k)' \/ InboxAgrees(u, k)'
    BY DEF InboxRight
  <2>1. I!UnreadCount(u, k)' = I!UnreadCount(u, k)
    BY <1>1, InboxSameCounts
  <2>2. \A q \in Task : InboxTelling(task[q], u, k) => InboxTelling(task'[q], u, k)
    BY <1>3 DEF InboxTelling
  <2>3. InboxPushed(u, k) => InboxPushed(u, k)'
    BY <1>1 DEF InboxPushed
  <2>4. InboxAgrees(u, k) => InboxAgrees(u, k)'
    BY <1>1, <2>1 DEF InboxAgrees
  <2>5. InboxReason(u, k) \/ InboxAgrees(u, k)
    BY DEF InboxTrue, InboxRight
  <2>6. QED
    BY <2>2, <2>3, <2>4, <2>5 DEF InboxReason
<1>5. InboxOpens'
  <2>1. \A c : I!Opening(c) => I!Opening(c)'
    BY <1>3 DEF I!Opening
  <2>2. QED
    BY <1>1, <2>1 DEF InboxTrue, InboxOpens, I!With
<1>6. \A q \in Task : InboxTodo(task[q])'
  BY <1>3 DEF InboxTrue, InboxTodo
<1>7. QED
  BY <1>4, <1>5, <1>6 DEF InboxTrue

LEMMA InboxNothing == I!Init => InboxTrue
<1> SUFFICES ASSUME I!Init PROVE InboxTrue
  OBVIOUS
<1>1. /\ notifications = <<>> /\ messages = <<>> /\ conversations = {}
      /\ badge = [u \in User |-> [k \in I!Kind |-> 0]] /\ fetch = [u \in User |-> [k \in I!Kind |-> I!Idle]]
      /\ \A q \in Task : task[q] = I!NoTask
  BY DEF I!Init
<1>2. Cardinality({}) = 0 /\ DOMAIN <<>> = {}
  BY FS_EmptySet
<1>3. ASSUME NEW u \in User, NEW k \in I!Kind PROVE InboxAgrees(u, k)
  <2>1. {i \in DOMAIN notifications : notifications[i].to = u /\ ~notifications[i].read} = {}
    BY <1>1, <1>2
  <2>2. {i \in DOMAIN messages : messages[i].to = u /\ ~messages[i].read} = {}
    BY <1>1, <1>2
  <2>3. I!UnreadNotifications(u) = 0 /\ I!UnreadMessages(u) = 0
    BY <1>2, <2>1, <2>2, InboxSize DEF I!UnreadNotifications, I!UnreadMessages, I!Count
  <2>4. QED
    BY <1>1, <2>3 DEF InboxAgrees, I!UnreadCount
<1>4. InboxTodo(I!NoTask)
  BY DEF InboxTodo, I!NoTask
<1>5. QED
  BY <1>1, <1>3, <1>4 DEF InboxTrue, InboxRight, InboxOpens

LEMMA InboxGoesRight == ASSUME InboxInv, InboxTrue, [I!Next]_(I!vars) PROVE InboxTrue'
<1>1. ASSUME NEW q \in Task,
             \/ I!CreateForPost(q) \/ I!CreateMentionNotifications(q)
             \/ I!GetRelationship(q) \/ I!CheckMuted(q) \/ I!CheckSettings(q) \/ I!CreateNotification(q)
             \/ I!MarkRead(q) \/ I!MarkAllRead(q) \/ I!MarkNotificationsRead(q)
             \/ I!SendDm(q) \/ I!CheckBlocks(q) \/ I!GetOrCreateConversation(q) \/ I!AddMessage(q) \/ I!Touch(q)
             \/ I!MarkConversationRead(q) \/ I!MarkMessagesRead(q)
             \/ I!PublishUnreadCount(q) \/ I!CountFails(q) \/ I!Answer(q) \/ I!Fail(q)
      PROVE  InboxTrue'
  BY <1>1, InboxNewOne, InboxChecked, InboxNotesIt, InboxMarksNotesIt, InboxRefuses, InboxConversesIt,
     InboxSendsItOn, InboxTouchesIt, InboxMarksMessagesIt, InboxCountsIt, InboxBreaksOff
<1>2. ASSUME NEW u \in User,
             \/ \E k \in I!Kind : I!HandleUnreadCount(u, k) \/ I!ShowCount(u, k)
             \/ I!Resync(u) \/ I!Disconnect(u) \/ I!Subscribe(u) \/ I!Greet(u)
      PROVE  InboxTrue'
  BY <1>2, InboxSees, InboxStreams
<1>3. CASE I!Change
  BY <1>3, InboxTurnsOver
<1>4. CASE UNCHANGED I!vars
  <2>1. /\ task' = task /\ notifications' = notifications /\ messages' = messages /\ conversations' = conversations
        /\ badge' = badge /\ fetch' = fetch /\ stream' = stream /\ resync' = resync
        /\ astray' = astray /\ broken' = broken
    BY <1>4 DEF I!vars, I!tables, I!client, I!ghosts
  <2>2. \A u \in User \cap Watching, k \in I!Kind : InboxReason(u, k)' \/ InboxAgrees(u, k)' \/ InboxRests(u, k)
    BY <2>1, InboxSameCounts DEF InboxRests
  <2>3. InboxRight'
    BY <2>1, <2>2, InboxTalksOn DEF InboxTrue
  <2>4. QED
    BY <2>1, <2>3, InboxStays DEF InboxTrue
<1>5. QED
  BY <1>1, <1>2, <1>3, <1>4 DEF I!Next

(* A client shows the count, or is about to, or there is a reason for it to ask again; a
   conversation has a message, or its first is on its way or has failed. *)
THEOREM InboxTruth == ASSUME InboxAssumptions PROVE I!Spec => []InboxTrue
<1>1. I!Init => InboxTrue
  BY InboxNothing
<1>2. InboxInv /\ InboxTrue /\ [I!Next]_(I!vars) => InboxTrue'
  BY InboxGoesRight
<1>3. I!Spec => []InboxInv
  BY InboxInvariance
<1>4. QED
  BY <1>1, <1>2, <1>3, PTL DEF I!Spec

(* The inbox has an unread message when there is one. *)
LEMMA InboxLists ==
  ASSUME InboxInv, NEW u \in User
  PROVE  (\E e \in I!ListConversations(u) : e.unread > 0) <=> I!UnreadMessages(u) > 0
<1> DEFINE Mine == {i \in DOMAIN messages : messages[i].to = u /\ ~messages[i].read}
           There(c) == {i \in DOMAIN messages : I!With(c, messages[i]) /\ messages[i].to = u /\ ~messages[i].read}
<1>1. DOMAIN messages = 1 .. Len(messages) /\ Len(messages) \in Nat
  BY LenProperties DEF InboxInv, InboxTypes
<1>2. IsFiniteSet(DOMAIN messages)
  BY <1>1, FS_Interval
<1>3. ASSUME NEW X \in SUBSET (DOMAIN messages) PROVE Cardinality(X) > 0 <=> X # {}
  <2>1. IsFiniteSet(X)
    BY <1>2, FS_Subset
  <2>2. Cardinality(X) \in Nat /\ (Cardinality(X) = 0 <=> X = {})
    BY <2>1, FS_CardinalityType, FS_EmptySet
  <2>3. QED
    BY <2>2
<1>4. I!UnreadMessages(u) = Cardinality(Mine)
  BY InboxSize DEF I!UnreadMessages, I!Count
<1>5. I!ListConversations(u) = {[with |-> CHOOSE v \in c : v # u, unread |-> Cardinality(There(c))] :
                               c \in {d \in conversations : u \in d}}
  BY InboxSize DEF I!ListConversations, I!Count
<1>6. I!UnreadMessages(u) > 0 <=> Mine # {}
  BY <1>3, <1>4
<1>7. ASSUME NEW c \in conversations PROVE Cardinality(There(c)) > 0 <=> There(c) # {}
  <2>1. There(c) \in SUBSET (DOMAIN messages)
    OBVIOUS
  <2> HIDE DEF There
  <2>2. QED
    BY <1>3, <2>1
<1>8. ASSUME NEW e \in I!ListConversations(u), e.unread > 0 PROVE Mine # {}
  <2>1. PICK c \in conversations : e.unread = Cardinality(There(c))
    <3> HIDE DEF There
    <3>1. PICK c \in conversations : e = [with |-> CHOOSE v \in c : v # u, unread |-> Cardinality(There(c))]
      BY <1>5
    <3>2. QED
      BY <3>1
  <2>2. There(c) # {}
    BY <1>7, <1>8, <2>1
  <2>3. QED
    BY <2>2
<1>9. ASSUME Mine # {} PROVE \E e \in I!ListConversations(u) : e.unread > 0
  <2>1. PICK i \in DOMAIN messages : messages[i].to = u /\ ~messages[i].read
    BY <1>9
  <2> DEFINE c == {messages[i].from, messages[i].to}
  <2>2. c \in conversations /\ u \in c
    <3>1. {messages[i].to, messages[i].from} \in conversations
      BY <1>1 DEF InboxInv, InboxRows, InboxSent
    <3>2. c = {messages[i].to, messages[i].from}
      OBVIOUS
    <3>3. QED
      BY <2>1, <3>1, <3>2
  <2>3. i \in There(c)
    BY <2>1 DEF I!With
  <2>4. Cardinality(There(c)) > 0
    BY <1>7, <2>2, <2>3
  <2> DEFINE e == [with |-> CHOOSE v \in c : v # u, unread |-> Cardinality(There(c))]
  <2>5. e \in I!ListConversations(u)
    <3> HIDE DEF c
    <3>1. QED
      BY <1>5, <2>2
  <2>6. e.unread > 0
    BY <2>4
  <2>7. QED
    BY <2>5, <2>6
<1>10. QED
  BY <1>6, <1>8, <1>9

LEMMA InboxConverges == ASSUME InboxInv, InboxTrue PROVE I!BadgesConverge
<1>1. ASSUME NEW u \in User, u \in Watching, NEW k \in I!Kind
      PROVE  I!Busy(u, k) \/ <<u, k>> \in astray \/ badge[u][k] = I!UnreadCount(u, k)
  <2>1. InboxReason(u, k) \/ InboxAgrees(u, k)
    BY <1>1 DEF InboxTrue, InboxRight
  <2>2. I!UnreadCount(u, k) \in Nat
    BY InboxCounted
  <2>3. CASE \E q \in Task : InboxTelling(task[q], u, k)
    <3>1. PICK q \in Task : InboxTelling(task[q], u, k)
      BY <2>3
    <3>2. task[q].todo \in Seq(User)
      BY DEF InboxInv, InboxTypes, InboxTask
    <3>3. DOMAIN task[q].todo = 1 .. Len(task[q].todo)
      BY <3>2, LenProperties
    <3>4. QED
      BY <3>1, <3>3 DEF InboxTelling, I!Busy
  <2>4. CASE InboxPushed(u, k)
    BY <2>4 DEF InboxPushed, I!Busy, I!Idle, I!Asked
  <2>5. CASE InboxAgrees(u, k)
    BY <2>2, <2>5 DEF InboxAgrees, I!Busy, I!Idle
  <2>6. QED
    BY <2>1, <2>3, <2>4, <2>5 DEF InboxReason
<1>2. ASSUME NEW u \in User PROVE I!Listable(u) \/ \E c \in conversations : u \in c /\ (I!Opening(c) \/ c \in broken)
  BY DEF InboxTrue, InboxOpens, I!Listable
<1>3. ASSUME NEW u \in User PROVE (\E e \in I!ListConversations(u) : e.unread > 0) <=> I!UnreadMessages(u) > 0
  BY InboxLists
<1>4. QED
  BY <1>1, <1>2, <1>3 DEF I!BadgesConverge

-----------------------------------------------------------------------------
(* The whole: a behaviour is one of a single part. *)
Alone(name) == part = name

LEMMA PartStays == ASSUME [Next]_vars PROVE part' = part
BY DEF Next, Acts, vars

LEMMA FeedsAlone == Spec => []~Alone("feeds") \/ ([]Alone("feeds") /\ F!Spec)
<1>1. Init /\ Alone("feeds") => F!Init
  BY DEF Init, Alone
<1>2. Alone("feeds") /\ [Next]_vars => Alone("feeds")' /\ [F!Next]_(F!vars)
  BY DEF Next, Acts, vars, ofFeeds, F!vars, F!tables, F!walk, F!reading, Alone
<1>3. ~Alone("feeds") /\ [Next]_vars => ~Alone("feeds")'
  BY PartStays DEF Alone
<1>4. QED
  BY <1>1, <1>2, <1>3, PTL DEF Spec, F!Spec

LEMMA PostsAlone == Spec => []~Alone("posts") \/ ([]Alone("posts") /\ P!Spec)
<1>1. Init /\ Alone("posts") => P!Init
  BY DEF Init, Alone
<1>2. Alone("posts") /\ [Next]_vars => Alone("posts")' /\ [P!Next]_(P!vars)
  BY DEF Next, Acts, vars, ofPosts, P!vars, P!tables, P!locks, P!ghosts, Alone
<1>3. ~Alone("posts") /\ [Next]_vars => ~Alone("posts")'
  BY PartStays DEF Alone
<1>4. QED
  BY <1>1, <1>2, <1>3, PTL DEF Spec, P!Spec

LEMMA EngagementAlone == Spec => []~Alone("engagement") \/ ([]Alone("engagement") /\ E!Spec)
<1>1. Init /\ Alone("engagement") => E!Init
  BY DEF Init, Alone
<1>2. Alone("engagement") /\ [Next]_vars => Alone("engagement")' /\ [E!Next]_(E!vars)
  BY DEF Next, Acts, vars, ofEngagement, E!vars, E!tables, E!others, Alone
<1>3. ~Alone("engagement") /\ [Next]_vars => ~Alone("engagement")'
  BY PartStays DEF Alone
<1>4. QED
  BY <1>1, <1>2, <1>3, PTL DEF Spec, E!Spec

LEMMA InboxAlone == Spec => []~Alone("inbox") \/ ([]Alone("inbox") /\ I!Spec)
<1>1. Init /\ Alone("inbox") => I!Init
  BY DEF Init, Alone
<1>2. Alone("inbox") /\ [Next]_vars => Alone("inbox")' /\ [I!Next]_(I!vars)
  BY DEF Next, Acts, vars, ofInbox, I!vars, I!tables, I!client, I!ghosts, Alone
<1>3. ~Alone("inbox") /\ [Next]_vars => ~Alone("inbox")'
  BY PartStays DEF Alone
<1>4. QED
  BY <1>1, <1>2, <1>3, PTL DEF Spec, I!Spec

LEMMA SettingsAlone == Spec => []~Alone("settings") \/ ([]Alone("settings") /\ S!Spec)
<1>1. Init /\ Alone("settings") => S!Init
  BY DEF Init, Alone
<1>2. Alone("settings") /\ [Next]_vars => Alone("settings")' /\ [S!Next]_(S!vars)
  BY DEF Next, Acts, vars, ofSettings, S!vars, Alone
<1>3. ~Alone("settings") /\ [Next]_vars => ~Alone("settings")'
  BY PartStays DEF Alone
<1>4. QED
  BY <1>1, <1>2, <1>3, PTL DEF Spec, S!Spec

LEMMA ListsAlone == Spec => []~Alone("lists") \/ ([]Alone("lists") /\ L!Spec)
<1>1. Init /\ Alone("lists") => L!Init
  BY DEF Init, Alone
<1>2. Alone("lists") /\ [Next]_vars => Alone("lists")' /\ [L!Next]_(L!vars)
  BY DEF Next, Acts, vars, ofLists, L!vars, Alone
<1>3. ~Alone("lists") /\ [Next]_vars => ~Alone("lists")'
  BY PartStays DEF Alone
<1>4. QED
  BY <1>1, <1>2, <1>3, PTL DEF Spec, L!Spec

LEMMA MediaAlone == Spec => []~Alone("media") \/ ([]Alone("media") /\ D!Spec)
<1>1. Init /\ Alone("media") => D!Init
  BY DEF Init, Alone
<1>2. Alone("media") /\ [Next]_vars => Alone("media")' /\ [D!Next]_(D!vars)
  BY DEF Next, Acts, vars, ofMedia, D!vars, Alone
<1>3. ~Alone("media") /\ [Next]_vars => ~Alone("media")'
  BY PartStays DEF Alone
<1>4. QED
  BY <1>1, <1>2, <1>3, PTL DEF Spec, D!Spec

LEMMA BadgesAlone == Spec => []~Alone("badges") \/ ([]Alone("badges") /\ B!Spec)
<1>1. Init /\ Alone("badges") => B!Init
  BY DEF Init, Alone
<1>2. Alone("badges") /\ [Next]_vars => Alone("badges")' /\ [B!Next]_(B!vars)
  BY DEF Next, Acts, vars, ofBadges, B!vars, Alone
<1>3. ~Alone("badges") /\ [Next]_vars => ~Alone("badges")'
  BY PartStays DEF Alone
<1>4. QED
  BY <1>1, <1>2, <1>3, PTL DEF Spec, B!Spec

LEMMA RateLimitAlone == Spec => []~Alone("limiter") \/ ([]Alone("limiter") /\ R!Spec)
<1>1. Init /\ Alone("limiter") => R!Init
  BY DEF Init, Alone
<1>2. Alone("limiter") /\ [Next]_vars => Alone("limiter")' /\ [R!Next]_(R!vars)
  BY DEF Next, Acts, vars, ofRateLimit, R!vars, Alone
<1>3. ~Alone("limiter") /\ [Next]_vars => ~Alone("limiter")'
  BY PartStays DEF Alone
<1>4. QED
  BY <1>1, <1>2, <1>3, PTL DEF Spec, R!Spec

LEMMA AccountsAlone == Spec => []~Alone("accounts") \/ ([]Alone("accounts") /\ A!Spec)
<1>1. Init /\ Alone("accounts") => A!Init
  BY DEF Init, Alone
<1>2. Alone("accounts") /\ [Next]_vars => Alone("accounts")' /\ [A!Next]_(A!vars)
  BY DEF Next, Acts, vars, ofAccounts, A!vars, Alone
<1>3. ~Alone("accounts") /\ [Next]_vars => ~Alone("accounts")'
  BY PartStays DEF Alone
<1>4. QED
  BY <1>1, <1>2, <1>3, PTL DEF Spec, A!Spec

LEMMA MailAlone == Spec => []~Alone("mail") \/ ([]Alone("mail") /\ M!Spec)
<1>1. Init /\ Alone("mail") => M!Init
  BY DEF Init, Alone
<1>2. Alone("mail") /\ [Next]_vars => Alone("mail")' /\ [M!Next]_(M!vars)
  BY DEF Next, Acts, vars, ofMail, M!vars, Alone
<1>3. ~Alone("mail") /\ [Next]_vars => ~Alone("mail")'
  BY PartStays DEF Alone
<1>4. QED
  BY <1>1, <1>2, <1>3, PTL DEF Spec, M!Spec

-----------------------------------------------------------------------------
(* Likes, reposts, views and bookmarks that race: each counter is the number of its rows,
   and a reader is not shown less than their own (see EngagementProofs). *)
THEOREM CountersMatchHolds == ASSUME E!Assumptions PROVE Spec => []CountersMatch
<1>1. E!CountersMatch \/ ~Alone("engagement") => CountersMatch
  BY DEF Alone, CountersMatch
<1>2. QED
  BY <1>1, E!CountersMatchHolds, EngagementAlone, PTL DEF Spec

(* A user has one vote in a poll, a bookmark's category is there and theirs, and a row
   notifies once, whatever is deleted meanwhile (see EngagementProofs). *)
THEOREM KeysAreKeptHolds == ASSUME E!Assumptions PROVE Spec => []KeysAreKept
<1>1. E!KeysAreKept \/ ~Alone("engagement") => KeysAreKept
  BY DEF Alone, KeysAreKept
<1>2. QED
  BY <1>1, E!KeysAreKeptHolds, EngagementAlone, PTL DEF Spec

(* Two pins that overlap leave one (see PostsProofs). *)
THEOREM OnePinHolds == ASSUME P!Assumptions PROVE Spec => []OnePin
<1>1. P!OnePin \/ ~Alone("posts") => OnePin
  BY DEF Alone, OnePin
<1>2. QED
  BY <1>1, P!OnePinHolds, PostsAlone, PTL DEF Spec

(* The history and the hashtags follow the text, though edits overlap (see PostsProofs). *)
THEOREM EditsAreKeptHolds == ASSUME P!Assumptions PROVE Spec => []EditsAreKept
<1>1. P!EditsAreKept \/ ~Alone("posts") => EditsAreKept
  BY DEF Alone, EditsAreKept
<1>2. QED
  BY <1>1, P!EditsAreKeptHolds, PostsAlone, PTL DEF Spec

(* Nothing is left standing below a deleted post, but for what has met the delete and a
   quote, for a thread of any depth (see PostsProofs). *)
THEOREM ThreadsFallWholeHolds == ASSUME P!Assumptions, P!Threaded PROVE Spec => []ThreadsFallWhole
<1>1. P!ThreadsFallWhole \/ ~Alone("posts") => ThreadsFallWhole
  BY DEF Alone, ThreadsFallWhole
<1>2. QED
  BY <1>1, P!ThreadsFallWholeHolds, PostsAlone, PTL DEF Spec

(* A grant that was acknowledged is held, or has met a delete of its badge. *)
THEOREM GrantsLastHolds == ASSUME BadgesAssumptions PROVE Spec => []GrantsLast
<1>1. BadgesInv \/ ~Alone("badges") => GrantsLast
  BY BadgesLast DEF Alone, GrantsLast
<1>2. QED
  BY <1>1, BadgesInvariance, BadgesAlone, PTL DEF Spec

(* No window of time, wherever it begins, admits more requests of a client than the limit,
   but for those whose counter was lost. *)
THEOREM WindowHoldsAlways == ASSUME LimiterAssumptions PROVE Spec => []WindowHolds
<1>1. LimiterInv \/ ~Alone("limiter") => WindowHolds
  BY LimiterHolds DEF Alone, WindowHolds
<1>2. QED
  BY <1>1, LimiterInvariance, RateLimitAlone, PTL DEF Spec

(* Settings, flag and profile are what was last acknowledged, unless requests overlapped. *)
THEOREM SettingsInTurnHolds == ASSUME SettingsAssumptions PROVE Spec => []SettingsInTurn
<1>1. SettingsInv \/ ~Alone("settings") => SettingsInTurn
  BY DEF SettingsInv, Alone, SettingsInTurn
<1>2. QED
  BY <1>1, SettingsInvariance, SettingsAlone, PTL DEF Spec

(* A medium that was given out has its row and its whole file until it is deleted. *)
THEOREM MediaIsWholeHolds == ASSUME MediaAssumptions PROVE Spec => []MediaIsWhole
<1>1. MediaInv \/ ~Alone("media") => MediaIsWhole
  BY MediaWhole DEF Alone, MediaIsWhole
<1>2. QED
  BY <1>1, MediaInvariance, MediaAlone, PTL DEF Spec

(* An identity enters its own account, and no other's, unless sign-ins overlapped; emails,
   names and identities are unique. *)
THEOREM OneAccountEachHolds == ASSUME AccountsAssumptions PROVE Spec => []OneAccountEach
<1>1. AccountsInv \/ ~Alone("accounts") => OneAccountEach
  BY AccountsOne DEF Alone, OneAccountEach
<1>2. QED
  BY <1>1, AccountsInvariance, AccountsAlone, PTL DEF Spec

(* Who is blocked sends no message, and who is blocked or muted makes no notification,
   though relationships change between the checks and the write. *)
THEOREM BlockedStayOutHolds == ASSUME InboxAssumptions PROVE Spec => []BlockedStayOut
<1>1. InboxInv \/ ~Alone("inbox") => BlockedStayOut
  BY InboxOut DEF Alone, BlockedStayOut
<1>2. QED
  BY <1>1, InboxInvariance, InboxAlone, PTL DEF Spec

(* A walk that reached the last page has shown every row that stayed in its listing
   from the first page to the last, and none of them twice (see FeedsWalks). *)
THEOREM WalkShowsAllHolds == ASSUME FeedsAssumptions, FeedsSerial PROVE Spec => []WalkShowsAll
<1>1. F!WalkShowsAll \/ ~Alone("feeds") => WalkShowsAll
  BY DEF Alone, WalkShowsAll
<1>2. QED
  BY <1>1, FeedsShowAll, FeedsAlone, PTL DEF Spec

(* A page fails only when something changed between its queries, or for the posts that
   FailsOnlyByRace names. *)
THEOREM FailsOnlyByRaceHolds == ASSUME FeedsAssumptions, FeedsSerial PROVE Spec => []FailsOnlyByRace
<1>1. F!FailsOnlyByRace \/ ~Alone("feeds") => FailsOnlyByRace
  BY DEF Alone, FailsOnlyByRace
<1>2. QED
  BY <1>1, FeedsFail, FeedsAlone, PTL DEF Spec

(* Once nothing is under way the badges and the inbox of a client are what there is to read,
   in whatever order the counts were read and published, but for what it was never told. *)
THEOREM BadgesConvergeHolds == ASSUME InboxAssumptions PROVE Spec => []BadgesConverge
<1>1. InboxInv /\ InboxTrue => I!BadgesConverge
  BY InboxConverges
<1>2. I!BadgesConverge \/ ~Alone("inbox") => BadgesConverge
  BY DEF Alone, BadgesConverge
<1>3. QED
  BY <1>1, <1>2, InboxInvariance, InboxTruth, InboxAlone, PTL

(* What filterVisiblePosts hands out could be seen at some moment of the request. *)
THEOREM ServedWasVisibleHolds == ASSUME FeedsAssumptions PROVE Spec => ServedWasVisible
<1>1. ~Alone("feeds") /\ [Next]_vars => UNCHANGED shown
  BY DEF Alone, Next, Acts, vars, ofFeeds, OnlyPosts, OnlyEngagement, OnlyInbox, OnlySettings,
     OnlyLists, OnlyMedia, OnlyBadges, OnlyRateLimit, OnlyAccounts, OnlyMail
<1>2. (Spec /\ []~Alone("feeds")) => ServedWasVisible
  BY <1>1, PTL DEF ServedWasVisible, F!ServedWasVisible, Spec
<1>3. F!Spec => ServedWasVisible
  BY FeedsVisible DEF ServedWasVisible
<1>4. QED
  BY <1>2, <1>3, FeedsAlone, PTL

(* A list, its name and its members are changed by its owner only, whoever asks and
   whatever is deleted between the check and the write. *)
THEOREM ListsAreTheirOwnersHolds == ASSUME ListsAssumptions PROVE Spec => ListsAreTheirOwners
<1>1. ~Alone("lists") => (part = "lists" => L!ByItsOwner)
  BY DEF Alone
<1>2. L!Spec => [][L!ByItsOwner]_<<lists, members>>
  BY ListsInvariance, PTL
<1>3. QED
  BY <1>1, <1>2, ListsAlone, PTL DEF ListsAreTheirOwners

(* What each part has of its constants. *)
ApiAssumptions ==
  /\ FeedsAssumptions /\ P!Assumptions /\ E!Assumptions /\ InboxAssumptions /\ SettingsAssumptions
  /\ ListsAssumptions /\ MediaAssumptions /\ BadgesAssumptions /\ LimiterAssumptions
  /\ AccountsAssumptions

(* Tables and requests keep their types in every part. *)
THEOREM ApiTypeOKHolds == ASSUME ApiAssumptions PROVE Spec => []ApiTypeOK
<1>1. Spec => [](~Alone("feeds") \/ F!FeedsTypeOK)
  BY FeedsTyping, FeedsAlone, PTL DEF ApiAssumptions
<1>2. Spec => [](~Alone("posts") \/ P!PostsTypeOK)
  BY P!TypeCorrect, PostsAlone, PTL DEF ApiAssumptions
<1>3. Spec => [](~Alone("engagement") \/ E!EngagementTypeOK)
  BY E!TypeCorrect, EngagementAlone, PTL DEF ApiAssumptions
<1>4. Spec => [](~Alone("inbox") \/ I!InboxTypeOK)
  <2>1. InboxInv => I!InboxTypeOK
    BY InboxTyped DEF ApiAssumptions
  <2>2. QED
    BY <2>1, InboxInvariance, InboxAlone, PTL DEF ApiAssumptions
<1>5. Spec => [](~Alone("settings") \/ S!SettingsTypeOK)
  <2>1. SettingsInv => S!SettingsTypeOK
    BY SettingsTyped DEF ApiAssumptions
  <2>2. QED
    BY <2>1, SettingsInvariance, SettingsAlone, PTL DEF ApiAssumptions
<1>6. Spec => [](~Alone("lists") \/ L!ListsTypeOK)
  <2>1. ListsInv => L!ListsTypeOK
    BY ListsTyped DEF ApiAssumptions
  <2>2. QED
    BY <2>1, ListsInvariance, ListsAlone, PTL DEF ApiAssumptions
<1>7. Spec => [](~Alone("media") \/ D!MediaTypeOK)
  <2>1. MediaInv => D!MediaTypeOK
    BY MediaTyped DEF ApiAssumptions
  <2>2. QED
    BY <2>1, MediaInvariance, MediaAlone, PTL DEF ApiAssumptions
<1>8. Spec => [](~Alone("badges") \/ B!BadgesTypeOK)
  <2>1. BadgesInv => B!BadgesTypeOK
    BY BadgesTyped DEF ApiAssumptions
  <2>2. QED
    BY <2>1, BadgesInvariance, BadgesAlone, PTL DEF ApiAssumptions
<1>9. Spec => [](~Alone("limiter") \/ R!RateLimitTypeOK)
  <2>1. LimiterInv => R!RateLimitTypeOK
    BY LimiterTyped DEF ApiAssumptions
  <2>2. QED
    BY <2>1, LimiterInvariance, RateLimitAlone, PTL DEF ApiAssumptions
<1>10. Spec => [](~Alone("accounts") \/ A!AccountsTypeOK)
  <2>1. AccountsInv => A!AccountsTypeOK
    BY AccountsTyped DEF ApiAssumptions
  <2>2. QED
    BY <2>1, AccountsInvariance, AccountsAlone, PTL DEF ApiAssumptions
<1>11. Spec => [](~Alone("mail") \/ M!MailTypeOK)
  <2>1. MailInv => M!MailTypeOK
    BY MailTyped DEF ApiAssumptions
  <2>2. QED
    BY <2>1, MailInvariance, MailAlone, PTL DEF ApiAssumptions
<1>12. /\ (~Alone("feeds") \/ F!FeedsTypeOK)
       /\ (~Alone("posts") \/ P!PostsTypeOK)
       /\ (~Alone("engagement") \/ E!EngagementTypeOK)
       /\ (~Alone("inbox") \/ I!InboxTypeOK)
       /\ (~Alone("settings") \/ S!SettingsTypeOK)
       /\ (~Alone("lists") \/ L!ListsTypeOK)
       /\ (~Alone("media") \/ D!MediaTypeOK)
       /\ (~Alone("badges") \/ B!BadgesTypeOK)
       /\ (~Alone("limiter") \/ R!RateLimitTypeOK)
       /\ (~Alone("accounts") \/ A!AccountsTypeOK)
       /\ (~Alone("mail") \/ M!MailTypeOK)
       => ApiTypeOK
  BY DEF Alone, ApiTypeOK
<1>13. QED
  BY <1>1, <1>2, <1>3, <1>4, <1>5, <1>6, <1>7, <1>8, <1>9, <1>10, <1>11, <1>12, PTL

(* What was answered as received, for one recipient, has its row or the one row of its
   Message-ID, which may be for another recipient: of one Message-ID there is one row. *)
THEOREM MailStaysOnce == Spec => [](part = "mail" => MailStays /\ MailApart)
<1>1. MailInv \/ ~Alone("mail") => (part = "mail" => MailStays /\ MailApart)
  BY DEF MailInv, Alone
<1>2. QED
  BY <1>1, MailInvariance, MailAlone, PTL
=============================================================================
