------------------------------ MODULE Settings ------------------------------
(***************************************************************************)
(* The settings of a user, the flag that queries read in their place, and  *)
(* the profile. A change of settings reads the row, lays the fields it was *)
(* sent over it, writes the whole row and then the flag: three statements  *)
(* with no transaction around them.                                        *)
(***************************************************************************)
EXTENDS Integers, FiniteSets

CONSTANTS
  Visibility,   \* values of privacy.profileVisibility
  Theme,        \* values that stand for all other settings
  Bio,          \* profiles
  Device,       \* requests at a time
  NoValue,
  MaxRequests   \* bound: requests

Field == {"visibility", "theme"}
Default == [visibility |-> "public", theme |-> CHOOSE t \in Theme : TRUE]

VARIABLES
  row,        \* the row of user_settings, or NoValue
  isPrivate,  \* users.is_private
  profile,    \* the row of user_profiles
  request,    \* request[d]: the request of device d, see Closed
  meant,      \* what was last asked for, and acknowledged
  unsettled,  \* what requests that overlapped, or failed, may have left otherwise
  requests

vars == <<row, isPrivate, profile, request, meant, unsettled, requests>>
tables == <<row, isPrivate, profile>>
ghosts == <<meant, unsettled>>

Closed == [at |-> "closed", patch |-> NoValue, current |-> Default, met |-> FALSE]

Open(d) == request[d].at # "closed"
Settings == IF row = NoValue THEN Default ELSE row

(* "private" and "friends" both mean followers only *)
IsPrivate(s) == s.visibility \in {"private", "friends"}

Init ==
  /\ row \in {NoValue, Default}
  /\ isPrivate = FALSE
  /\ profile = NoValue
  /\ request = [d \in Device |-> Closed]
  /\ meant = [visibility |-> Default.visibility, theme |-> Default.theme, profile |-> NoValue]
  /\ unsettled = {} /\ requests = 0

Begin(d, l, patch) ==
  /\ ~Open(d) /\ requests < MaxRequests
  /\ requests' = requests + 1
  /\ LET others == {e \in Device : Open(e)} IN
     request' = [e \in Device |->
                   IF e = d THEN [Closed EXCEPT !.at = l, !.patch = patch, !.met = others # {}]
                   ELSE [request[e] EXCEPT !.met = @ \/ e \in others]]
  /\ UNCHANGED <<tables, ghosts>>

Step(d, new) == request' = [request EXCEPT ![d] = new] /\ UNCHANGED <<ghosts, requests>>

(* The end of a request, and what it leaves settled: what it was sent, when it succeeded
   and no other was open with it. *)
End(d, touched, success) ==
  /\ request' = [request EXCEPT ![d] = Closed]
  /\ IF success /\ ~request[d].met
     THEN /\ unsettled' = unsettled \ touched
          /\ meant' = [f \in DOMAIN meant |->
                         IF f \in DOMAIN request[d].patch THEN request[d].patch[f] ELSE meant[f]]
     ELSE /\ unsettled' = unsettled \cup IF request[d].met THEN DOMAIN meant \cup {"flag"} ELSE touched
          /\ UNCHANGED meant
  /\ UNCHANGED <<tables, requests>>

-----------------------------------------------------------------------------
(* Settings: any fields, with any values *)
Patches == {[visibility |-> v] : v \in Visibility} \cup {[theme |-> t] : t \in Theme}
             \cup [visibility : Visibility, theme : Theme]

UpdateSettings(d) == \E patch \in Patches : Begin(d, "read", patch)

(* INSERT ... ON CONFLICT DO NOTHING, and SELECT *)
GetSettings(d) ==
  /\ request[d].at = "read"
  /\ row' = Settings
  /\ LET patch == request[d].patch IN
     Step(d, [request[d] EXCEPT !.at = "write",
                                !.current = [f \in Field |-> IF f \in DOMAIN patch THEN patch[f] ELSE Settings[f]]])
  /\ UNCHANGED <<isPrivate, profile>>

WriteSettings(d) ==
  /\ request[d].at = "write"
  /\ row' = request[d].current
  /\ Step(d, [request[d] EXCEPT !.at = "flag"])
  /\ UNCHANGED <<isPrivate, profile>>

(* mutant: the flag is set, and never cleared *)
SetPrivateOnce(d) ==
  /\ request[d].at = "flag"
  /\ isPrivate' = (isPrivate \/ IsPrivate(request[d].current))
  /\ Step(d, [request[d] EXCEPT !.at = "answer"])
  /\ UNCHANGED <<row, profile>>

SetPrivate(d) ==
  /\ request[d].at = "flag"
  /\ isPrivate' = IsPrivate(request[d].current)
  /\ Step(d, [request[d] EXCEPT !.at = "answer"])
  /\ UNCHANGED <<row, profile>>

(* The answer may not be heard, or a statement fail. *)
AnswerSettings(d) ==
  /\ request[d].at = "answer"
  /\ End(d, DOMAIN request[d].patch \cup {"flag"}, TRUE)

FailSettings(d) ==
  /\ request[d].at \in {"read", "write", "flag"}
  /\ End(d, DOMAIN request[d].patch \cup {"flag"}, FALSE)

-----------------------------------------------------------------------------
(* The profile is sent as a whole, and the answer has it with its badges: when those
   cannot be read, what was stored is answered with an error. *)
HandleUpdateProfile(d) == \E b \in Bio : Begin(d, "update", [profile |-> b])

UpdateUserProfile(d) ==
  /\ request[d].at = "update"
  /\ profile' = request[d].patch.profile
  /\ Step(d, [request[d] EXCEPT !.at = "badges"])
  /\ UNCHANGED <<row, isPrivate>>

AnswerProfile(d) == request[d].at = "badges" /\ End(d, {"profile"}, TRUE)
FailProfile(d) == request[d].at \in {"update", "badges"} /\ End(d, {"profile"}, FALSE)

Next ==
  \E d \in Device :
    \/ UpdateSettings(d) \/ GetSettings(d) \/ WriteSettings(d) \/ SetPrivate(d)
    \/ AnswerSettings(d) \/ FailSettings(d)
    \/ HandleUpdateProfile(d) \/ UpdateUserProfile(d) \/ AnswerProfile(d) \/ FailProfile(d)

Spec == Init /\ [][Next]_vars
-----------------------------------------------------------------------------
SettingsTypeOK ==
  /\ row \in {NoValue} \cup [visibility : Visibility, theme : Theme]
  /\ isPrivate \in BOOLEAN /\ profile \in Bio \cup {NoValue}
  /\ \A d \in Device : request[d].at \in {"closed", "read", "write", "flag", "answer", "update", "badges"}
  /\ unsettled \subseteq DOMAIN meant \cup {"flag"}

(* Once nothing is under way, the flag that hides a private account's posts agrees with
   the settings, and every field has what was last asked for and acknowledged, whichever
   fields the requests since have sent: unless the last that sent it failed half way, or
   overlapped with another. One that succeeds alone puts the flag right again. *)
SettingsInTurn ==
  (\A d \in Device : ~Open(d)) =>
    /\ "flag" \in unsettled \/ isPrivate = IsPrivate(Settings)
    /\ \A f \in Field \ unsettled : Settings[f] = meant[f]
    /\ "profile" \in unsettled \/ profile = meant.profile
=============================================================================
