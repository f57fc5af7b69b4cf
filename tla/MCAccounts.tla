----------------------------- MODULE MCAccounts -----------------------------
(* Two identities, the first of which has had both emails; the usernames that are tried
   for an email are those of the other in another order. *)
EXTENDS Accounts, TLC

CONSTANTS s1, s2, e1, e2, n1, n2, b1, b2

EmailsOfSub == (s1 :> {e1, e2}) @@ (s2 :> {e2})
TrialsOfEmail == (e1 :> <<n1, n2>>) @@ (e2 :> <<n2, n1>>)
=============================================================================
