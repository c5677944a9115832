--------------------------- MODULE RegistryClient ---------------------------
(***************************************************************************)
(* ApicurioClient of kaskade/apicurio.py: one request at a time, with its  *)
(* OAuth token, its retries, and the cache of what was read, an LruCache   *)
(* of kaskade/cache.py whose entries are good for the check period.  What  *)
(* is asked for is the caller's matter: ClientSpec allows any sequence of  *)
(* requests.                                                               *)
(*                                                                         *)
(* Time is counted in seconds and goes on in steps while something is      *)
(* waited for, an answer's way back included; computing takes none.        *)
(***************************************************************************)
EXTENDS Registry

CONSTANTS
  RetryCount,     \* apicurio.registry.retry-count
  OAuth,          \* are OAuth client credentials configured?
  Lifetime,       \* expires_in of every token, in seconds
  CheckPeriod,    \* apicurio.registry.check-period-ms, in seconds
  CacheCapacity,  \* APICURIO_CACHE_CAPACITY
  Duration,       \* how far the clock goes on at once
  Latency,        \* how long an answer is on its way at the longest
  MaxTime         \* bound: the clock stops there

ASSUME ClientAssumption ==
  /\ RetryCount \in Nat /\ OAuth \in BOOLEAN
  /\ Lifetime \in Nat /\ CheckPeriod \in Nat /\ CacheCapacity \in Nat \ {0}
  /\ Duration \in Nat \ {0} /\ Latency \in Nat /\ MaxTime \in Nat

VARIABLES
  now,      \* time.monotonic(), and the registry's clock
  token,    \* held: _token is set, until: the server's expiry, expires: _token_expires_at
  request,  \* the call of _request(): what, which attempt, and how far
  reply     \* its answer, or the reason it failed

clientVars == <<registry, now, token, request, reply>>

NoToken ==
  [held |-> FALSE, revoked |-> FALSE, until |-> 0, expires |-> 0, during |-> FALSE]

Phase == {"idle", "token", "refresh", "send", "answered", "failed"}

\* attempt and refreshed are _request()'s own; sends counts what it has sent,
\* at is when the registry answered.
NewRequest(op) ==
  [op |-> op, phase |-> "token", attempt |-> 0, refreshed |-> FALSE, sends |-> 0, at |-> 0]

ClientInit ==
  /\ now = 0
  /\ token = NoToken
  /\ request = [NewRequest([kind |-> "none"]) EXCEPT !.phase = "idle"]
  /\ reply = [failure |-> "none"]
----------------------------------------------------------------------------
(* LruCache, and the entries' age.  The last entry is the one used last.   *)

Without(cache, key) == Kept(cache, {item \in ToSet(cache) : item.key # key})

Holds(cache, key) == \E i \in DOMAIN cache : cache[i].key = key

ItemOf(cache, key) == cache[CHOOSE i \in DOMAIN cache : cache[i].key = key]

Touched(cache, key) == Append(Without(cache, key), ItemOf(cache, key))

\* put(): the least recently used entry makes room.
Put(cache, item) ==
  LET all == Append(Without(cache, item.key), item)
  IN IF Len(all) > CacheCapacity THEN Tail(all) ELSE all

\* A defect, of Valid: what was read once is good for ever.
ValidForEver(cache, key) == Holds(cache, key)

\* _cached() finds an entry and it is not too old.
Valid(cache, key) ==
  /\ Holds(cache, key)
  /\ CheckPeriod # 0
  /\ now - ItemOf(cache, key).at < CheckPeriod

\* What _cached() leaves of the cache: a hit is moved to the end, an entry
\* that is too old is removed.
Looked(cache, key) ==
  IF Valid(cache, key) THEN Touched(cache, key) ELSE Without(cache, key)

Stored(cache, key, value) == Put(cache, [key |-> key, at |-> now, value |-> value])
----------------------------------------------------------------------------
(* _oauth_token()                                                          *)

\* A tenth of the lifetime, and at most half a minute.
Margin == IF Lifetime < 300 THEN Lifetime \div 10 ELSE 30

Usable == ~OAuth \/ (token.held /\ now < token.expires)

WantsToken ==
  \/ request.phase = "token" /\ ~Usable
  \/ request.phase = "refresh"

\* A defect, of FetchToken: force is ignored, a token that has not expired is kept.
FetchTokenUnforced ==
  /\ WantsToken
  /\ token' = IF Usable THEN token
              ELSE [held |-> TRUE, revoked |-> FALSE, until |-> now + Lifetime,
                    expires |-> now + Lifetime - Margin, during |-> TRUE]
  /\ request' = [request EXCEPT !.phase = IF @ = "refresh" THEN "token" ELSE "send"]
  /\ UNCHANGED <<registry, now, reply>>

\* After a forced refresh the loop begins anew, and asks for the token again.
FetchToken ==
  /\ WantsToken
  /\ token' = [held |-> TRUE, revoked |-> FALSE, until |-> now + Lifetime,
               expires |-> now + Lifetime - Margin, during |-> TRUE]
  /\ request' = [request EXCEPT !.phase = IF @ = "refresh" THEN "token" ELSE "send"]
  /\ UNCHANGED <<registry, now, reply>>

\* A token that cannot be had ends the request at once; the old one stays.
FailToken ==
  /\ WantsToken
  /\ request' = [request EXCEPT !.phase = "failed"]
  /\ reply' = [failure |-> "no token"]
  /\ UNCHANGED <<registry, now, token>>
----------------------------------------------------------------------------
(* _request()                                                              *)

\* token.during: the token was had during the request under way.
Begin(op) ==
  /\ request.phase = "idle"
  /\ request' = NewRequest(op)
  /\ token' = [token EXCEPT !.during = FALSE]
  /\ UNCHANGED <<registry, now, reply>>

\* The caller takes the answer, or the exception.
Done == request' = [request EXCEPT !.phase = "idle"]

CanSend == request.phase = "send" \/ (request.phase = "token" /\ Usable)

Accepted == ~OAuth \/ (token.held /\ ~token.revoked /\ now < token.until)

Failed(reason) ==
  /\ request' = [request EXCEPT !.sends = @ + 1, !.phase = "failed"]
  /\ reply' = [failure |-> reason]

\* 200, or 404: the registry has no such version.
Respond ==
  /\ CanSend /\ Accepted
  /\ registry' = Handled(registry, request.op, now)
  /\ IF Missing(registry, request.op)
     THEN Failed("not found")
     ELSE /\ request' = [request EXCEPT !.sends = @ + 1, !.phase = "answered", !.at = now]
          /\ reply' = Answer(registry', request.op)
  /\ UNCHANGED <<now, token>>

\* A transport error, 429 and 5xx cost an attempt and are tried again.
CountedRetry(reason) ==
  IF request.attempt + 1 < RetryCount + 1
  THEN /\ request' = [request EXCEPT !.sends = @ + 1, !.phase = "token", !.attempt = @ + 1]
       /\ UNCHANGED reply
  ELSE /\ request' = [request EXCEPT !.sends = @ + 1, !.phase = "failed", !.attempt = @ + 1]
       /\ reply' = [failure |-> reason]

\* httpx.HTTPError: the registry may have done what was asked.
Lose ==
  /\ CanSend
  /\ registry' \in {registry} \cup (IF Accepted THEN {Handled(registry, request.op, now)} ELSE {})
  /\ CountedRetry("transport")
  /\ UNCHANGED <<now, token>>

Overload ==
  /\ CanSend
  /\ CountedRetry("overloaded")
  /\ UNCHANGED <<registry, now, token>>

\* A defect, of MayRefresh: every 401 is answered with a new token.
MayAlwaysRefresh == OAuth

MayRefresh == OAuth /\ ~request.refreshed

\* 401: once, another token is asked for.
Refuse ==
  /\ CanSend
  /\ ~Accepted
  /\ IF MayRefresh
     THEN /\ request' = [request EXCEPT !.sends = @ + 1, !.phase = "refresh", !.refreshed = TRUE]
          /\ UNCHANGED reply
     ELSE Failed("unauthorized")
  /\ UNCHANGED <<registry, now, token>>

\* 403 and the other client errors end the request.
Forbid ==
  /\ CanSend
  /\ Failed("forbidden")
  /\ UNCHANGED <<registry, now, token>>

RequestStep ==
  \/ FetchToken \/ FailToken
  \/ Respond \/ Lose \/ Overload \/ Refuse \/ Forbid
----------------------------------------------------------------------------
(* Around the client.                                                      *)

OnItsWay == request.phase = "answered" /\ now = request.at

Waiting == request.phase \in {"idle", "token", "refresh"} \/ OnItsWay

Pause == IF OnItsWay THEN Latency ELSE Duration

Tick ==
  /\ Waiting
  /\ now + Pause <= MaxTime
  /\ now' = now + Pause
  /\ UNCHANGED <<registry, token, request, reply>>

\* The authorization server takes a token back before its time.
Revoke ==
  /\ token.held /\ ~token.revoked
  /\ token' = [token EXCEPT !.revoked = TRUE]
  /\ UNCHANGED <<registry, now, request, reply>>

\* Someone else gives an artifact a version, with a content that is there.
Publish(artifact, id) ==
  /\ id \in DOMAIN registry.contents
  /\ ~\E v \in ToSet(registry.log) : v.artifact = artifact /\ v.id = id
  /\ registry' = [registry EXCEPT !.log =
                    Append(@, [artifact |-> artifact, id |-> id, at |-> now])]
  /\ UNCHANGED <<now, token, request, reply>>
----------------------------------------------------------------------------
\* Any caller: it asks, and takes the answer or the exception.
Asked == \E op \in {request'.op} : Begin(op)

Taken ==
  /\ request.phase \in {"answered", "failed"}
  /\ Done
  /\ UNCHANGED <<registry, now, token, reply>>

Published ==
  /\ registry'.log # <<>>
  /\ \E v \in {registry'.log[Len(registry'.log)]} : Publish(v.artifact, v.id)

ClientNext ==
  \/ Asked \/ Taken \/ RequestStep
  \/ Tick \/ Revoke \/ Published

ClientSpec == ClientInit /\ [][ClientNext]_clientVars
----------------------------------------------------------------------------
\* A request is sent at most once per attempt, and once more when its token
\* was refused: neither lost answers nor refused tokens make _request() loop.
SendsAreBounded == request.sends <= RetryCount + 2

\* A request that fails for its token has been refused one it was given
\* itself: a token kept from before, taken back in the meantime, never makes
\* a request fail.
RefusedTokenIsNew ==
  (OAuth /\ request.phase = "failed" /\ reply.failure = "unauthorized") => token.during
=============================================================================
