------------------------------ MODULE Accounts ------------------------------
(***************************************************************************)
(* Signing up and signing in, with a password and with Google. GoogleAuth  *)
(* looks for the identity, then for its email, and then makes an account,  *)
(* each in a statement or a transaction of its own. Sessions are those of  *)
(* AuthSessions; here one is an account that somebody was let into.        *)
(*                                                                         *)
(* The exchange with Google is external: it yields an identity and one of  *)
(* its emails, or fails. Hashes and signatures are left out.               *)
(***************************************************************************)
EXTENDS Integers, Sequences, FiniteSets

CONSTANTS
  Sub,        \* Google identities
  EmailsOf,   \* EmailsOf[s]: the emails the identity s has had
  Email,
  Name,
  TrialsOf,   \* TrialsOf[e]: the usernames a sign-up with Google tries for an email, in order
  Browser,    \* each with one request at a time
  Nobody,
  MaxVisits   \* bound: requests started

Key == <<"email", "name", "sub">>   \* the unique indexes, in the order they are checked

VARIABLES
  users,      \* the rows of the table, by their IDs
  visit,      \* visit[b]: the request of browser b, see NoVisit
  state,      \* browsers that hold the oauth_state of their last GoogleOAuthLogin
  entered,    \* <<s, i>>: identity s was let into account i
  blurred,    \* identities with sign-ins that overlapped, or with a look-up that failed
  visits      \* requests started

vars == <<users, visit, state, entered, blurred, visits>>

NoVisit ==
  [at |-> "none",        \* the next statement
   op |-> Nobody, row |-> Nobody,
   attempt |-> 1,        \* of its usernames
   found |-> 0,          \* the account that a look-up has found
   answer |-> Nobody]    \* the last answer

NewUser(email, name, sub, password) ==
  [email |-> email, name |-> name, sub |-> sub, password |-> password]

Ids == DOMAIN users
With(key, value) == {i \in Ids : users[i][key] = value}
Inserting(b) == visit[b].at \in {"settings", "display", "commit"}

Init ==
  /\ users = <<>>
  /\ visit = [b \in Browser |-> NoVisit]
  /\ state = {}
  /\ entered = {} /\ blurred = {}
  /\ visits = 0

-----------------------------------------------------------------------------
Goes(b, new) == visit' = [visit EXCEPT ![b] = new]
Step(b, new) == Goes(b, new) /\ UNCHANGED <<users, state, entered, blurred, visits>>
Answer(b, a) == Step(b, [NoVisit EXCEPT !.op = visit[b].op, !.answer = a])

Start(b, op, row, l, found) ==
  /\ visit[b].at = "none" /\ visits < MaxVisits
  /\ visits' = visits + 1
  /\ Goes(b, [NoVisit EXCEPT !.at = l, !.op = op, !.row = row, !.found = found])
  /\ blurred' = blurred \cup
       UNION {{row.sub, visit[c].row.sub} : c \in
                {c \in Browser : /\ op = "google" /\ visit[c].at # "none" /\ visit[c].op = "google"
                                 /\ visit[c].row.sub = row.sub \/ visit[c].row.email = row.email}}
  /\ UNCHANGED <<users, entered>>

(* stores: what the look-ups find *)
GetByEmail(e) == With("email", e)
GetByUsername(n) == With("name", n)
GetByGoogleID(s) == With("sub", s)

(* with a password *)
ServeLogin(b, found) ==
  \E i \in found :
    users[i].password /\ Start(b, "login", users[i], "issue", i)

Login(b) ==
  /\ \/ \E e \in Email : ServeLogin(b, GetByEmail(e))
     \/ \E n \in Name : ServeLogin(b, GetByUsername(n))
  /\ UNCHANGED state

ServeRegister(b, e, n) == Start(b, "register", NewUser(e, n, Nobody, TRUE), "insert", 0)
Register(b) == (\E e \in Email, n \in Name : ServeRegister(b, e, n)) /\ UNCHANGED state

(* with Google: the identity comes with one of its emails *)
ServeGoogleAuth(b) ==
  \E s \in Sub, e \in Email :
    e \in EmailsOf[s] /\ Start(b, "google", NewUser(e, TrialsOf[e][1], s, FALSE), "identity", 0)

GoogleAuth(b) == ServeGoogleAuth(b) /\ UNCHANGED state

(* by redirection: the state that comes back must be the cookie's, which is then cleared *)
GoogleOAuthLogin(b) ==
  /\ visit[b].at = "none"
  /\ state' = state \cup {b}
  /\ UNCHANGED <<users, visit, entered, blurred, visits>>

GoogleOAuthCallback(b) ==
  /\ b \in state
  /\ state' = state \ {b}
  /\ \/ ServeGoogleAuth(b)
     \/ UNCHANGED <<users, visit, entered, blurred, visits>>   \* Google's refusal

-----------------------------------------------------------------------------
(* GoogleAuth *)

(* A look-up that fails is taken for one that finds nothing. *)
LookUp(b, here, found, Hit(_), miss) ==
  /\ visit[b].at = here
  /\ \/ \E i \in found : Step(b, [visit[b] EXCEPT !.at = Hit(i), !.found = i])
     \/ found = {} /\ Step(b, [visit[b] EXCEPT !.at = miss])
     \/ /\ found # {}
        /\ Goes(b, [visit[b] EXCEPT !.at = miss])
        /\ blurred' = blurred \cup {visit[b].row.sub}
        /\ UNCHANGED <<users, state, entered, visits>>

FindIdentity(b) == LookUp(b, "identity", GetByGoogleID(visit[b].row.sub), LAMBDA i : "issue", "email")

(* an account with no identity is linked; one with another identity is refused *)
FindEmail(b) ==
  LET s == visit[b].row.sub
      Then(i) == IF users[i].sub = Nobody THEN "link" ELSE IF users[i].sub = s THEN "issue" ELSE "refuse" IN
  LookUp(b, "email", GetByEmail(visit[b].row.email), Then, "insert")

(* mutant: the identity is let in and not stored *)
LinkNothing(b) ==
  visit[b].at = "link" /\ Step(b, [visit[b] EXCEPT !.at = "issue"])

(* UPDATE ... WHERE google_id IS NULL OR google_id = $1: a row that has another is left
   as it is, and that is a success. An identity that has an account, or an account that
   cannot be updated, is logged, and the request goes on. *)
LinkGoogleID(b) ==
  /\ visit[b].at = "link"
  /\ LET i == visit[b].found
         s == visit[b].row.sub IN
     /\ \A c \in Browser \ {b} : Inserting(c) => visit[c].row.sub # s
     /\ users' = IF users[i].sub = Nobody /\ GetByGoogleID(s) = {}
                 THEN [users EXCEPT ![i].sub = s] ELSE users
  /\ Goes(b, [visit[b] EXCEPT !.at = "issue"])
  /\ UNCHANGED <<state, entered, blurred, visits>>

-----------------------------------------------------------------------------
(* Creating an account: the row and its profile, the settings, and for Google the name
   to display, in a transaction. *)

Taken(b, key) == visit[b].row[key] # Nobody /\ With(key, visit[b].row[key]) # {}
Awaited(b, key) ==
  /\ visit[b].row[key] # Nobody
  /\ \E c \in Browser \ {b} : Inserting(c) /\ visit[c].row[key] = visit[b].row[key]

(* the index that an INSERT meets first; one that an open transaction has written to is
   waited for *)
Met(b) == {k \in 1 .. 3 : Taken(b, Key[k]) \/ Awaited(b, Key[k])}
First(b) == CHOOSE k \in Met(b) : \A j \in Met(b) : k <= j

Exists(key) == CASE key = "email" -> "EMAIL_EXISTS" [] key = "name" -> "USERNAME_EXISTS"
                 [] OTHER -> "ALREADY_EXISTS"

(* Only what Create calls ALREADY_EXISTS makes GoogleAuth try another name. *)
NextTrial(b) ==
  LET n == visit[b].attempt + 1
      trials == TrialsOf[visit[b].row.email] IN
  IF n > Len(trials) THEN Answer(b, "INTERNAL")
  ELSE Step(b, [visit[b] EXCEPT !.attempt = n, !.row.name = trials[n]])

Create(b) ==
  /\ visit[b].at = "insert"
  /\ IF Met(b) = {} THEN Step(b, [visit[b] EXCEPT !.at = "settings"])
     ELSE /\ Taken(b, Key[First(b)])
          /\ LET why == Exists(Key[First(b)]) IN
             IF visit[b].op = "google" /\ why = "ALREADY_EXISTS" THEN NextTrial(b) ELSE Answer(b, why)

CreateSettings(b) ==
  /\ visit[b].at = "settings"
  /\ Step(b, [visit[b] EXCEPT !.at = IF visit[b].op = "google" THEN "display" ELSE "commit"])

(* A name that the column refuses is logged, but it has ended the transaction, and the
   COMMIT fails. *)
SetDisplayName(b) ==
  /\ visit[b].at = "display"
  /\ Step(b, [visit[b] EXCEPT !.at = "commit"]) \/ Answer(b, "INTERNAL")

Commit(b) ==
  /\ visit[b].at = "commit"
  /\ users' = Append(users, visit[b].row)
  /\ Goes(b, [visit[b] EXCEPT !.at = "issue", !.found = Len(users) + 1])
  /\ UNCHANGED <<state, entered, blurred, visits>>

IssueTokensForUser(b) ==
  /\ visit[b].at = "issue"
  /\ entered' = IF visit[b].op = "google" THEN entered \cup {<<visit[b].row.sub, visit[b].found>>} ELSE entered
  /\ Goes(b, [NoVisit EXCEPT !.op = visit[b].op, !.answer = "OK"])
  /\ UNCHANGED <<users, state, blurred, visits>>

(* another statement that fails; after the COMMIT the account stays *)
Fail(b) == visit[b].at \in {"insert", "settings", "commit", "issue"} /\ Answer(b, "INTERNAL")
Refuse(b) == visit[b].at = "refuse" /\ Answer(b, "UNAUTHORIZED")

Next ==
  \E b \in Browser :
    \/ Login(b) \/ Register(b) \/ GoogleAuth(b) \/ GoogleOAuthLogin(b) \/ GoogleOAuthCallback(b)
    \/ FindIdentity(b) \/ FindEmail(b) \/ LinkGoogleID(b)
    \/ Create(b) \/ CreateSettings(b) \/ SetDisplayName(b) \/ Commit(b) \/ IssueTokensForUser(b)
    \/ Fail(b) \/ Refuse(b)

Spec == Init /\ [][Next]_vars
-----------------------------------------------------------------------------
AccountsTypeOK ==
  /\ \A i \in Ids : users[i] \in [email : Email, name : Name, sub : Sub \cup {Nobody}, password : BOOLEAN]
  /\ \A b \in Browser :
       /\ visit[b].at \in {"none", "identity", "email", "link", "refuse", "insert", "settings", "display",
                            "commit", "issue"}
       /\ visit[b].found \in 0 .. Len(users)
  /\ state \subseteq Browser
  /\ entered \subseteq Sub \X Ids
  /\ blurred \subseteq Sub

(* Emails, usernames and identities are unique, however sign-ups overlap. An identity is
   let into one account, and an account is entered by one identity, though the look-ups
   and the account they lead to are statements apart: unless two of its sign-ins
   overlapped, or a look-up failed and was taken for one that found nothing. *)
OneAccountEach ==
  /\ \A k \in {"email", "name", "sub"} : \A i, j \in Ids :
       i # j /\ users[i][k] = users[j][k] => k = "sub" /\ users[i].sub = Nobody
  /\ \A x, y \in entered :
       x # y /\ (x[1] = y[1] \/ x[2] = y[2]) => x[1] \in blurred \/ y[1] \in blurred

(* auth_service.go 527: "Try base username, then suffixed variants". Nobody who signs up
   with Google is refused for a username while others of those are free. *)
TriesOtherNames ==
  \A b \in Browser :
    visit[b].op = "google" /\ visit[b].answer = "USERNAME_EXISTS" =>
      \E e \in Email : \A n \in DOMAIN TrialsOf[e] : GetByUsername(TrialsOf[e][n]) # {}
=============================================================================
