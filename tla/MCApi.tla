------------------------------- MODULE MCApi -------------------------------
(* An instance of Api for TLC, small in each of its parts. It is made under the proofs, so
   that TLC evaluates what their theorems assume of the constants. *)
EXTENDS ApiProofs, TLC

CONSTANTS
  ann, bob,     \* users
  q1, q2,       \* requests, clients, connections: whatever there are two of at a time
  one, two,     \* names: of texts, emails, badges, options, lists
  red, blue,    \* values of any other kind
  Gone

Two == {q1, q2}
People == {ann, bob}
Names == {one, two}
Values == {red, blue}

-----------------------------------------------------------------------------
(* Listings: four rows, of which the third and the fourth may share a time, and the
   second and they a second; the second is not for all. *)
FourPosts == 1 .. 4
Clocks == {<<0, 2, 4, 6>>, <<0, 3, 2, 2>>}

Listing(p, kind, at, visibility) ==
  [author |-> IF p = 4 /\ kind \in {"home", "search"} THEN ann ELSE bob,
   parent |-> CASE kind = "descendants" /\ p > 1 -> 1
                [] kind = "ancestors" /\ p > 1 -> p - 1
                [] kind \in {"replies", "all"} /\ p = 4 -> 1
                [] kind = "replies" /\ p = 3 -> 2
                [] OTHER -> None,
   quoted |-> IF kind = "quotes" /\ p > 1 THEN 1 ELSE None,
   visibility |-> IF p = 2 THEN visibility ELSE "public",
   audience |-> IF p = 2 /\ visibility = "mentions" THEN {ann} ELSE {},
   mentions |-> IF kind = "mentions" THEN {ann} ELSE {},
   media |-> kind = "media" /\ p # 3,
   match |-> kind \in {"search", "hashtag"},
   at |-> at[p], deleted |-> FALSE]

StartsOf(kind, marked) ==
  {[posts |-> [p \in FourPosts |-> Listing(p, kind, at, visibility)],
    marks |-> IF marked
              THEN [p \in 2 .. 4 |-> [at |-> at[p], category |-> IF p = 3 THEN "kept" ELSE "none"]]
              ELSE <<>>,
    follows |-> friends, private |-> friends,
    listing |-> kind, limit |-> l, wanted |-> w] :
      at \in Clocks, friends \in {{}, {bob}}, l \in 1 .. 2,
      visibility \in IF kind = "home" THEN {"followers", "mentions"} ELSE {"followers"},
      w \in IF kind = "bookmarks" THEN {{}, {"none"}} ELSE {{}}}

Starts ==
  UNION {StartsOf(kind, FALSE) :
           kind \in {"home", "list", "user", "all", "replies", "media", "search", "hashtag", "mentions",
                     "descendants", "quotes", "ancestors"}}
    \cup UNION {StartsOf(kind, TRUE) :
           kind \in {"messages", "notifications", "members", "liked", "bookmarks", "likers",
                     "reposters", "followers", "following"}}

(* Posts: a post and a reply, both of one author, and room for another *)
ThreePosts == 1 .. 3
AuthorOfPost == [p \in ThreePosts |-> ann]
TagsOfText == (one :> <<red, blue>>) @@ (two :> <<blue, red>>)
ThreadOfTwo == <<None, 1>>

(* Engagement: a post, and two users with a name for a bookmark category each; nothing is
   there in the beginning, or ann has liked, reposted and filed the post *)
OwnerOfCategory == (one :> ann) @@ (two :> bob)
Bare == [rows |-> {}, categories |-> {}, filed |-> [m \in {red} \X People |-> None]]
Liked ==
  [rows |-> {<<k, red, ann>> : k \in {"like", "repost", "bookmark"}}, categories |-> {one},
   filed |-> [m \in {red} \X People |-> IF m[2] = ann THEN one ELSE None]]
BareOrLiked == {Bare, Liked}

(* Inbox: ann has blocked and muted bob, or nobody anybody; it is her badges that are
   watched, and her stream that breaks *)
NoneOrBoth == {{}, {<<ann, bob, "block">>, <<ann, bob, "mute">>}}
MayChange == {<<ann, bob, "block">>, <<ann, ann, "mentions">>}

(* Accounts: two identities, the first of which has had both emails; the usernames tried
   for an email are those of the other in another order *)
EmailsOfSub == (red :> {one, two}) @@ (blue :> {two})
TrialsOfEmail == (one :> <<red, blue>>) @@ (two :> <<blue, red>>)

(* Mail: five messages. The parts of the first hold its text behind an attachment and
   an empty text, and it goes to two; the second has a part that cannot be read; the third
   is bare HTML, goes to two and has no ID; the text of the fourth is deeper than its HTML,
   and it has the ID of the second; the first text of the fifth is blank *)
FiveMails == 1 .. 5
Leaf(kind, text, inside) ==
  [kind |-> kind, text |-> text, inside |-> inside, attached |-> FALSE, damaged |-> FALSE]
Multipart(inside) == Leaf("multipart", None, inside)
Attached(leaf) == [leaf EXCEPT !.attached = TRUE]
Damaged(leaf) == [leaf EXCEPT !.damaged = TRUE]
Letters == <<
  <<Multipart(0), Attached(Leaf("plain", blue, 1)),
    Multipart(1), Leaf("plain", None, 3), Leaf("html", one, 3),
    Leaf("plain", red, 1), Leaf("html", two, 1)>>,
  <<Multipart(0), Multipart(1), Leaf("plain", red, 2), Damaged(Leaf("html", one, 2)),
    Leaf("html", two, 1)>>,
  <<Leaf("html", one, 0)>>,
  <<Multipart(0), Leaf("image", None, 1),
    Multipart(1), Leaf("image", None, 3), Multipart(3), Leaf("html", two, 5), Leaf("plain", blue, 5),
    Leaf("plain", red, 1)>>,
  <<Multipart(0), Leaf("plain", Gone, 1), Leaf("plain", red, 1), Leaf("html", two, 1)>> >>
MessageId == <<red, blue, None, blue, Gone>>
Recipients == <<People, {ann}, People, {ann}, {bob}>>
TextOfHtml == (one :> red) @@ (two :> blue)

Symmetry == Permutations(Two)

(* This instance is one that the theorems are about. *)
ASSUME InstanceAssumption == ApiAssumptions /\ FeedsSerial /\ P!Threaded
=============================================================================
