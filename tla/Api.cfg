SPECIFICATION Spec
CONSTANTS
  ann = ann  bob = bob  q1 = q1  q2 = q2  one = one  two = two  red = red  blue = blue
  None = None  Gone = Gone
  User <- People  Req <- Two  Conn <- Two
  Viewer = ann  Owner = bob  Listed <- FourPosts  PerSecond = 2  ListingStart <- Starts
  MaxListingChanges = 2
  Post <- ThreePosts  Author <- AuthorOfPost  Text <- Names  Tag <- Values  TagsOf <- TagsOfText
  Parents <- ThreadOfTwo  InitialText = one  MaxWrites = 3
  Item = {red}  Fan <- People  Option <- Names  Category <- Names  OwnerOf <- OwnerOfCategory
  Client <- Two  AtStart <- BareOrLiked  MaxCalls = 2
  Task <- Two  RelAtStart <- NoneOrBoth  Changeable <- MayChange  Watching = {ann}  Flaky = {ann}
  MaxTasks = 2  MaxChanges = 1
  Visibility = {"public", "private"}  Theme <- Names  Bio = {red}  Device <- Two  MaxSaves = 3
  List <- Names  Title = {red, None}  Person <- People  Deleted = Gone  MaxListCalls = 4
  Medium <- Names  Article = {red}  MaxFiles = 2  MaxUploads = 4
  Badge <- Names  Label <- Values  EarnedOnes = {one}  Holder = {ann}  MayLeave = {ann}  Admin <- Two
  MaxOrders = 5
  Path = {red}  Host = {one}  MaxPerWindow = 2  Window = 2  MaxClock = 4  MaxHits = 4
  Sub <- Values  EmailsOf <- EmailsOfSub  Email <- Names  Name <- Values  TrialsOf <- TrialsOfEmail
  Browser <- Two  MaxVisits = 3
  Message <- FiveMails  IdOf <- MessageId  PartsOf <- Letters  ToOf <- Recipients  TextOf <- TextOfHtml
  Blank = Gone  Courier <- Two  MaxDeliveries = 3
SYMMETRY Symmetry
INVARIANTS
  ApiTypeOK
  WalkShowsAll
  FailsOnlyByRace
  OnePin
  EditsAreKept
  ThreadsFallWhole
  CountersMatch
  KeysAreKept
  BadgesConverge
  BlockedStayOut
  OneAccountEach
  SettingsInTurn
  MediaIsWhole
  GrantsLast
  WindowHolds
  MailIsKept
PROPERTIES
  ServedWasVisible
  ListsAreTheirOwners
CHECK_DEADLOCK FALSE
