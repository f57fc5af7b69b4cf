----------------------------- MODULE RateLimit -----------------------------
(***************************************************************************)
(* The rate limiter of the auth endpoints: a counter in Redis for each     *)
(* path and address, and a pipeline of INCR and EXPIRE on every request.   *)
(* A pipeline is no transaction: other clients, and the expiry of the key, *)
(* may come between its two commands, and either may be lost.              *)
(***************************************************************************)
EXTENDS Integers, FiniteSets

CONSTANTS
  Path, Host,
  Direct,      \* no X-Forwarded-For header
  Conn,        \* requests at a time
  MaxPerWindow, Window,
  MaxClock,    \* bound: the time at which the model stops
  MaxHits      \* bound: requests

NoTTL == -1
Key == Path \X Host

VARIABLES
  clock,
  hits,      \* hits[k]: the counter; 0 when there is no key
  expires,   \* expires[k]: when the key goes, or NoTTL
  conn,      \* conn[c]: the request of connection c, see NoConn
  admitted,  \* requests that Redis let in: key, time of the INCR, number
  arrived    \* requests so far

vars == <<clock, hits, expires, conn, admitted, arrived>>

NoConn == [at |-> "none", key |-> Direct, n |-> 0, since |-> 0, slipped |-> FALSE]

Init ==
  /\ clock = 0
  /\ hits = [k \in Key |-> 0] /\ expires = [k \in Key |-> NoTTL]
  /\ conn = [c \in Conn |-> NoConn]
  /\ admitted = {} /\ arrived = 0

(* the first address of X-Forwarded-For, or else the peer's *)
ClientIP(forwarded, peer) == IF forwarded # Direct THEN forwarded ELSE peer

RateLimitMiddleware(c) ==
  /\ conn[c].at = "none" /\ arrived < MaxHits
  /\ \E path \in Path, peer \in Host, forwarded \in Host \cup {Direct} :
       conn' = [conn EXCEPT ![c] = [NoConn EXCEPT !.at = "incr", !.key = <<path, ClientIP(forwarded, peer)>>]]
  /\ arrived' = arrived + 1
  /\ UNCHANGED <<clock, hits, expires, admitted>>

Incr(c) ==
  /\ conn[c].at = "incr"
  /\ hits' = [hits EXCEPT ![conn[c].key] = @ + 1]
  /\ conn' = [conn EXCEPT ![c].at = "expire", ![c].n = hits[conn[c].key] + 1, ![c].since = clock]
  /\ UNCHANGED <<clock, expires, admitted, arrived>>

(* mutant: what the comment of Allow says, the first request of a window sets the expiry *)
RenewFirst(k) ==
  IF hits[k] = 0 THEN NoTTL ELSE IF expires[k] # NoTTL THEN expires[k] ELSE clock + Window

(* Every request sets the expiry anew; a key that has gone is not brought back. *)
Renew(k) == IF hits[k] = 0 THEN NoTTL ELSE clock + Window

Expire(c) ==
  /\ conn[c].at = "expire"
  /\ expires' = [expires EXCEPT ![conn[c].key] = Renew(conn[c].key)]
  /\ conn' = [conn EXCEPT ![c].at = "answer"]
  /\ UNCHANGED <<clock, hits, admitted, arrived>>

Allow(c) ==
  /\ conn[c].at = "answer"
  /\ admitted' = IF conn[c].n <= MaxPerWindow /\ ~conn[c].slipped
                 THEN admitted \cup {[key |-> conn[c].key, at |-> conn[c].since, n |-> conn[c].n]}
                 ELSE admitted
  /\ conn' = [conn EXCEPT ![c] = NoConn]
  /\ UNCHANGED <<clock, hits, expires, arrived>>

(* Redis does not answer: the request is let in, whatever was done of its pipeline. *)
AllowAnyway(c) ==
  /\ conn[c].at \in {"incr", "expire", "answer"}
  /\ conn' = [conn EXCEPT ![c] = NoConn]
  /\ UNCHANGED <<clock, hits, expires, admitted, arrived>>

(* Time passes; a key whose time has come is gone at once. *)
Tick ==
  /\ clock < MaxClock
  /\ clock' = clock + 1
  /\ LET old == {k \in Key : expires[k] = clock + 1} IN
     /\ hits' = [k \in Key |-> IF k \in old THEN 0 ELSE hits[k]]
     /\ expires' = [k \in Key |-> IF k \in old THEN NoTTL ELSE expires[k]]
     /\ conn' = [c \in Conn |-> [conn[c] EXCEPT !.slipped = @ \/ (conn[c].at = "expire" /\ conn[c].key \in old)]]
  /\ UNCHANGED <<admitted, arrived>>

Next ==
  \/ \E c \in Conn : RateLimitMiddleware(c) \/ Incr(c) \/ Expire(c) \/ Allow(c) \/ AllowAnyway(c)
  \/ Tick

Spec == Init /\ [][Next]_vars
-----------------------------------------------------------------------------
RateLimitTypeOK ==
  /\ clock \in 0 .. MaxClock
  /\ hits \in [Key -> Nat] /\ expires \in [Key -> Nat \cup {NoTTL}]
  /\ \A c \in Conn : conn[c].at \in {"none", "incr", "expire", "answer"}
  /\ \A a \in admitted : a.key \in Key /\ a.at \in 0 .. clock

(* In no stretch of time as long as the window does Redis let in more requests of one
   path and address than the limit, wherever it begins: more than a window that is fixed
   would hold. The exception is a request whose key went away between its INCR and its
   EXPIRE. *)
WindowHolds ==
  \A k \in Key, t \in 0 .. clock :
    Cardinality({a \in admitted : a.key = k /\ a.at \in t .. t + Window - 1}) <= MaxPerWindow
=============================================================================
