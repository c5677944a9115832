----------------------- MODULE SchemaResolution_proofs -----------------------
(***************************************************************************)
(* For every configuration of the client, every registry, every setup of   *)
(* the composer and whatever others publish meanwhile:                     *)
(*   - a request is sent a bounded number of times, and fails for its      *)
(*     token only when a new one was refused;                              *)
(*   - the lookup of a record's schemas uses the client one request at a   *)
(*     time, keeps nothing that is not so, registers nothing twice, and    *)
(*     nothing before what it refers to;                                   *)
(*   - a schema is parsed with everything it refers to, directly or not,   *)
(*     each content after those it needs, unless someone else published    *)
(*     contents that refer to each other in turns.                         *)
(***************************************************************************)
EXTENDS SchemaResolution, Operators_proofs, SequenceTheorems

TokenOK ==
  token \in [held : BOOLEAN, revoked : BOOLEAN, until : Int, expires : Int, during : BOOLEAN]

Requests(op) ==
  [op : {op}, phase : Phase, attempt : Nat, refreshed : BOOLEAN, sends : Nat, at : Nat]

RequestOK == request \in Requests(request.op)

ClientTypeOK == now \in Nat /\ TokenOK /\ RequestOK

\* While the loop of _request() goes on, every sending was an attempt or the
\* one that brought the refresh.
SendsCounted ==
  /\ request.phase \in {"token", "refresh", "send"} =>
       /\ request.attempt <= RetryCount
       /\ request.sends = request.attempt + (IF request.refreshed THEN 1 ELSE 0)
  /\ request.sends <= RetryCount + 2

\* A request whose token was refused goes on with one of its own.
RefreshedIsNew ==
  /\ request.phase = "refresh" => request.refreshed
  /\ (OAuth /\ request.refreshed /\ request.phase \in {"token", "send"}) => token.during

ClientInv == ClientTypeOK /\ SendsCounted /\ RefreshedIsNew /\ RefusedTokenIsNew

\* Whatever is asked for is the request's op.
LEMMA RequestsAreOK == ASSUME NEW op, request' \in Requests(op) PROVE RequestOK'
<1>1. request'.op = op
  BY DEF Requests
<1>. QED  BY <1>1 DEF RequestOK

LEMMA ClientInitially == ClientInit => ClientInv
<1> SUFFICES ASSUME ClientInit PROVE ClientInv
  OBVIOUS
<1> DEFINE nothing == [kind |-> "none"]
<1>1. request = [op |-> nothing, phase |-> "idle", attempt |-> 0, refreshed |-> FALSE, sends |-> 0,
                at |-> 0]
  BY DEF ClientInit, NewRequest
<1> HIDE DEF nothing
<1>2. request \in Requests(nothing) /\ request.op = nothing
  BY <1>1 DEF Requests, Phase
<1>3. ClientTypeOK
  BY <1>2 DEF ClientInit, ClientTypeOK, TokenOK, RequestOK, NoToken
<1>4. SendsCounted /\ RefreshedIsNew /\ RefusedTokenIsNew
  BY <1>1, ClientAssumption DEF ClientAssumption, SendsCounted, RefreshedIsNew, RefusedTokenIsNew
<1>. QED  BY <1>3, <1>4 DEF ClientInv

Extra(refreshed) == IF refreshed THEN 1 ELSE 0

\* Sending once keeps the count, whatever comes of it: another attempt, the
\* refresh, the answer or the failure.
LEMMA SendingKeeps ==
  ASSUME ClientInv, CanSend, UNCHANGED <<now, token>>,
         NEW p \in {"token", "refresh", "answered", "failed"}, NEW a \in Nat, NEW f \in BOOLEAN,
         NEW at \in Nat,
         request' = [op |-> request.op, phase |-> p, attempt |-> a, refreshed |-> f,
                     sends |-> request.sends + 1, at |-> at],
         p \in {"token", "refresh"} =>
           a <= RetryCount /\ a + Extra(f) = request.attempt + Extra(request.refreshed) + 1,
         p = "refresh" => f,
         (OAuth /\ p = "token" /\ f) => token.during,
         (OAuth /\ p = "failed" /\ reply'.failure = "unauthorized") => token.during
  PROVE  ClientInv'
<1>1. /\ request.attempt \in Nat /\ request.attempt <= RetryCount
      /\ request.sends \in Nat /\ request.refreshed \in BOOLEAN
      /\ request.sends = request.attempt + Extra(request.refreshed)
  BY DEF CanSend, ClientInv, ClientTypeOK, RequestOK, Requests, SendsCounted, Extra
<1>2. /\ request'.phase = p /\ request'.attempt = a /\ request'.refreshed = f
      /\ request'.sends = request.sends + 1
  OBVIOUS
<1>3. ClientTypeOK'
  <2>1. request' \in Requests(request.op)
    BY <1>1 DEF Requests, Phase
  <2>. QED
    BY <2>1, RequestsAreOK DEF ClientInv, ClientTypeOK, TokenOK
<1>4. SendsCounted'
  BY <1>1, <1>2, ClientAssumption DEF ClientAssumption, SendsCounted, Extra
<1>5. RefreshedIsNew' /\ RefusedTokenIsNew'
  BY <1>2 DEF RefreshedIsNew, RefusedTokenIsNew
<1>. QED  BY <1>3, <1>4, <1>5 DEF ClientInv

\* A request that is to be sent is the record of its fields.
LEMMA RequestIsItsFields ==
  ASSUME ClientInv
  PROVE  request = [op |-> request.op, phase |-> request.phase, attempt |-> request.attempt,
                    refreshed |-> request.refreshed, sends |-> request.sends, at |-> request.at]
  BY DEF ClientInv, ClientTypeOK, RequestOK, Requests

LEMMA SendingIsOfTheLoop ==
  ASSUME ClientInv, CanSend
  PROVE  /\ request.attempt \in Nat /\ request.attempt <= RetryCount
         /\ request.refreshed \in BOOLEAN /\ request.at \in Nat /\ now \in Nat
         /\ (OAuth /\ request.refreshed) => token.during
  BY DEF CanSend, ClientInv, ClientTypeOK, RequestOK, Requests, SendsCounted, RefreshedIsNew

LEMMA CountedRetryKeeps ==
  ASSUME ClientInv, CanSend, NEW reason, reason # "unauthorized", CountedRetry(reason),
         UNCHANGED <<now, token>>
  PROVE  ClientInv'
<1> DEFINE Retried(p) ==
      [op |-> request.op, phase |-> p, attempt |-> request.attempt + 1,
       refreshed |-> request.refreshed, sends |-> request.sends + 1, at |-> request.at]
<1>1. CASE request.attempt + 1 < RetryCount + 1
  <2>1. request' = Retried("token")
    BY <1>1, RequestIsItsFields DEF CountedRetry
  <2>. QED
    BY <1>1, <2>1, SendingIsOfTheLoop, SendingKeeps, ClientAssumption DEF ClientAssumption, Extra
<1>2. CASE ~(request.attempt + 1 < RetryCount + 1)
  <2>1. request' = Retried("failed") /\ reply' = [failure |-> reason]
    BY <1>2, RequestIsItsFields DEF CountedRetry
  <2>2. reply'.failure # "unauthorized"
    BY <2>1
  <2>. QED
    BY <2>1, <2>2, SendingIsOfTheLoop, SendingKeeps
<1>. QED  BY <1>1, <1>2

LEMMA FailedKeeps ==
  ASSUME ClientInv, CanSend, NEW reason, Failed(reason), UNCHANGED <<now, token>>,
         (OAuth /\ reason = "unauthorized") => token.during
  PROVE  ClientInv'
<1>1. /\ request' = [op |-> request.op, phase |-> "failed", attempt |-> request.attempt,
                     refreshed |-> request.refreshed, sends |-> request.sends + 1,
                     at |-> request.at]
      /\ reply'.failure = reason
  BY RequestIsItsFields DEF Failed
<1>. QED  BY <1>1, SendingIsOfTheLoop, SendingKeeps

LEMMA ClientStepKeeps == ClientInv /\ [ClientNext]_clientVars => ClientInv'
<1> SUFFICES ASSUME ClientInv, [ClientNext]_clientVars PROVE ClientInv'
  OBVIOUS
<1> USE ClientAssumption
<1>1. ASSUME NEW op, Begin(op) PROVE ClientInv'
  <2>1. ClientTypeOK'
    <3>1. request' \in Requests(op)
      BY <1>1 DEF ClientInv, ClientTypeOK, RequestOK, Requests, Phase, Begin, NewRequest
    <3>. QED
      BY <3>1, RequestsAreOK, <1>1 DEF ClientInv, ClientTypeOK, TokenOK, Begin, NewRequest
  <2>2. SendsCounted'
    BY <1>1 DEF ClientAssumption, SendsCounted, Begin, NewRequest
  <2>3. RefreshedIsNew' /\ RefusedTokenIsNew'
    BY <1>1 DEF RefreshedIsNew, RefusedTokenIsNew, Begin, NewRequest
  <2>. QED  BY <2>1, <2>2, <2>3 DEF ClientInv
<1>2. CASE Taken
  <2>1. ClientTypeOK'
    <3>1. request' \in Requests(request.op)
      BY <1>2 DEF ClientInv, ClientTypeOK, RequestOK, Requests, Phase, Taken, Done
    <3>. QED
      BY <3>1, RequestsAreOK, <1>2 DEF ClientInv, ClientTypeOK, TokenOK, Taken, Done
  <2>2. SendsCounted'
    BY <1>2 DEF ClientInv, ClientTypeOK, RequestOK, Requests, SendsCounted, Taken, Done
  <2>3. RefreshedIsNew' /\ RefusedTokenIsNew'
    BY <1>2 DEF ClientInv, ClientTypeOK, RequestOK, Requests, RefreshedIsNew,
           RefusedTokenIsNew, Taken, Done
  <2>. QED  BY <2>1, <2>2, <2>3 DEF ClientInv
<1>3. CASE FetchToken
  <2>1. request.phase \in {"token", "refresh"}
    BY <1>3 DEF FetchToken, WantsToken
  <2>2. now + Lifetime \in Int /\ now + Lifetime - Margin \in Int
    BY DEF ClientAssumption, ClientInv, ClientTypeOK, Margin
  <2>3. ClientTypeOK'
    <3>1. request' \in Requests(request.op)
      BY <1>3, <2>2 DEF ClientInv, ClientTypeOK, RequestOK, Requests, Phase, FetchToken
    <3>. QED
      BY <3>1, RequestsAreOK, <1>3, <2>2 DEF ClientInv, ClientTypeOK, TokenOK, FetchToken
  <2>4. SendsCounted'
    BY <1>3, <2>1 DEF ClientInv, ClientTypeOK, RequestOK, Requests, SendsCounted, FetchToken
  <2>5. RefreshedIsNew' /\ RefusedTokenIsNew'
    BY <1>3, <2>1 DEF ClientInv, ClientTypeOK, RequestOK, Requests, RefreshedIsNew,
           RefusedTokenIsNew,
       FetchToken
  <2>. QED  BY <2>3, <2>4, <2>5 DEF ClientInv
<1>4. CASE FailToken
  <2>1. request.phase \in {"token", "refresh"}
    BY <1>4 DEF FailToken, WantsToken
  <2>2. ClientTypeOK'
    <3>1. request' \in Requests(request.op)
      BY <1>4 DEF ClientInv, ClientTypeOK, RequestOK, Requests, Phase, FailToken
    <3>. QED
      BY <3>1, RequestsAreOK, <1>4 DEF ClientInv, ClientTypeOK, TokenOK, FailToken
  <2>3. SendsCounted'
    BY <1>4, <2>1 DEF ClientInv, ClientTypeOK, RequestOK, Requests, SendsCounted, FailToken
  <2>4. RefreshedIsNew' /\ RefusedTokenIsNew'
    BY <1>4, <2>1 DEF ClientInv, ClientTypeOK, RequestOK, Requests, RefreshedIsNew,
           RefusedTokenIsNew,
       FailToken
  <2>. QED  BY <2>2, <2>3, <2>4 DEF ClientInv
<1>5. CASE Respond
  <2>1. CASE Failed("not found")
    BY <1>5, <2>1, FailedKeeps DEF Respond
  <2>2. CASE request' = [request EXCEPT !.sends = @ + 1, !.phase = "answered", !.at = now]
         /\ UNCHANGED <<now, token>>
    <3>1. request' = [op |-> request.op, phase |-> "answered", attempt |-> request.attempt,
                      refreshed |-> request.refreshed, sends |-> request.sends + 1, at |-> now]
      BY <2>2, RequestIsItsFields
    <3>. QED  BY <1>5, <2>2, <3>1, SendingIsOfTheLoop, SendingKeeps DEF Respond
  <2>. QED  BY <1>5, <2>1, <2>2 DEF Respond
<1>6. CASE Lose
  BY <1>6, CountedRetryKeeps DEF Lose
<1>7. CASE Overload
  BY <1>7, CountedRetryKeeps DEF Overload
<1>8. CASE Refuse
  <2>1. CanSend /\ UNCHANGED <<now, token>>
    BY <1>8 DEF Refuse
  <2>2. CASE MayRefresh
    <3>1. request' = [op |-> request.op, phase |-> "refresh", attempt |-> request.attempt,
                      refreshed |-> TRUE, sends |-> request.sends + 1, at |-> request.at]
      BY <1>8, <2>2, RequestIsItsFields DEF Refuse
    <3>2. request.attempt + Extra(TRUE) = request.attempt + Extra(request.refreshed) + 1
      BY <2>1, <2>2, SendingIsOfTheLoop DEF MayRefresh, Extra
    <3>. QED  BY <2>1, <3>1, <3>2, SendingIsOfTheLoop, SendingKeeps
  <2>3. CASE ~MayRefresh
    <3>1. OAuth => token.during
      BY <2>1, <2>3, SendingIsOfTheLoop DEF MayRefresh
    <3>. QED  BY <1>8, <2>1, <2>3, <3>1, FailedKeeps DEF Refuse
  <2>. QED  BY <2>2, <2>3
<1>9. CASE Forbid
  BY <1>9, FailedKeeps DEF Forbid
<1>10. CASE Tick
  <2>1. Pause \in Nat
    BY DEF ClientAssumption, Pause
  <2>. QED
    BY <1>10, <2>1 DEF Tick, ClientInv, ClientTypeOK, TokenOK, RequestOK, Requests, SendsCounted,
       RefreshedIsNew, RefusedTokenIsNew
<1>11. CASE Revoke
  BY <1>11 DEF Revoke, ClientInv, ClientTypeOK, TokenOK, RequestOK, Requests, SendsCounted,
     RefreshedIsNew, RefusedTokenIsNew
<1>12. CASE Published \/ UNCHANGED clientVars
  BY <1>12 DEF Published, Publish, clientVars, ClientInv, ClientTypeOK, TokenOK, RequestOK,
     SendsCounted, RefreshedIsNew, RefusedTokenIsNew
<1>. QED
  BY <1>1, <1>2, <1>3, <1>4, <1>5, <1>6, <1>7, <1>8, <1>9, <1>10, <1>11, <1>12
     DEF ClientNext, Asked, RequestStep

LEMMA ClientInvariant == ClientSpec => []ClientInv
  BY ClientInitially, ClientStepKeeps, PTL DEF ClientSpec

\* _request() ends after retry-count + 2 sendings at the latest: a lost
\* answer costs an attempt, and the one refresh of the token is not repeated.
THEOREM RequestsEnd == ClientSpec => []SendsAreBounded
<1>1. ClientInv => SendsAreBounded
  BY DEF ClientInv, SendsCounted, SendsAreBounded
<1>. QED  BY <1>1, ClientInvariant, PTL

\* No request fails for a token that was kept from before: the one that is
\* refused finally was fetched during the request.
THEOREM RefusedTokensAreNew == ClientSpec => []RefusedTokenIsNew
<1>1. ClientInv => RefusedTokenIsNew
  BY DEF ClientInv
<1>. QED  BY <1>1, ClientInvariant, PTL
----------------------------------------------------------------------------
(* The registry grows: by contents, and by versions created now.           *)

RegistryType == [contents : Seq(Content), log : Seq(LogEntry)]

\* What Kept picks of the log are versions.
LEMMA VersionsAre ==
  ASSUME NEW r \in RegistryType, NEW a
  PROVE  /\ VersionsOf(r, a) \in Seq(LogEntry)
         /\ ToSet(VersionsOf(r, a)) = {v \in ToSet(r.log) : v.artifact = a}
<1>. DEFINE S == {v \in ToSet(r.log) : v.artifact = a}
<1>1. r.log \in Seq(LogEntry)
  BY DEF RegistryType
<1>2. Kept(r.log, S) \in Seq(LogEntry) /\ ToSet(Kept(r.log, S)) = ToSet(r.log) \cap S
  BY <1>1, KeptElements
<1>. QED
  BY <1>2 DEF VersionsOf

LEMMA MatchesAre ==
  ASSUME NEW r \in RegistryType, NEW id
  PROVE  /\ VersionsWith(r, id) \in Seq(LogEntry)
         /\ ToSet(VersionsWith(r, id)) = {v \in ToSet(r.log) : v.id = id}
<1>. DEFINE S == {v \in ToSet(r.log) : v.id = id}
<1>1. r.log \in Seq(LogEntry)
  BY DEF RegistryType
<1>2. Kept(r.log, S) \in Seq(LogEntry) /\ ToSet(Kept(r.log, S)) = ToSet(r.log) \cap S
  BY <1>1, KeptElements
<1>. QED
  BY <1>2 DEF VersionsWith

LEMMA AppendedElements ==
  ASSUME NEW X, NEW s \in Seq(X), NEW e \in X
  PROVE  /\ Append(s, e) \in Seq(X) /\ Len(Append(s, e)) = Len(s) + 1
         /\ \A k \in 1..Len(s) : Append(s, e)[k] = s[k]
         /\ Append(s, e)[Len(s) + 1] = e
         /\ ToSet(Append(s, e)) = ToSet(s) \cup {e}
<1>1. /\ Append(s, e) \in Seq(X) /\ Len(Append(s, e)) = Len(s) + 1 /\ Len(s) \in Nat
      /\ \A k \in 1..Len(s) : Append(s, e)[k] = s[k]
      /\ Append(s, e)[Len(s) + 1] = e
  OBVIOUS
<1>2. DOMAIN s = 1..Len(s) /\ DOMAIN Append(s, e) = 1..(Len(s) + 1)
  BY <1>1
<1>3. \A k : k \in 1..(Len(s) + 1) <=> k \in 1..Len(s) \/ k = Len(s) + 1
  BY <1>1
<1>4. ToSet(Append(s, e)) \subseteq ToSet(s) \cup {e}
  BY <1>1, <1>2, <1>3 DEF ToSet
<1>5. ToSet(s) \cup {e} \subseteq ToSet(Append(s, e))
  BY <1>1, <1>2, <1>3 DEF ToSet
<1>. QED
  BY <1>1, <1>4, <1>5

\* t continues s, with what is of this time.
Continues(t, s, time) ==
  /\ Len(s) <= Len(t)
  /\ \A k \in 1..Len(s) : t[k] = s[k]
  /\ \A k \in 1..Len(t) : k > Len(s) => t[k].at = time

LEMMA KeptContinues ==
  ASSUME NEW s \in Seq(LogEntry), NEW e \in LogEntry, NEW t \in {s, Append(s, e)},
         NEW S, NEW R, \A x \in ToSet(s) : x \in S <=> x \in R, t = s => R = S
  PROVE  Continues(Kept(t, R), Kept(s, S), e.at)
<1>. DEFINE k == Kept(s, S)
<1>1. k \in Seq(LogEntry)
  BY KeptElements
<1>2. ASSUME NEW u \in {k, Append(k, e)} PROVE Continues(u, k, e.at)
  <2>. HIDE DEF k
  <2>1. Len(k) \in Nat /\ k \in Seq(LogEntry)
    BY <1>1
  <2>2. CASE u = k
    BY <2>1, <2>2 DEF Continues
  <2>3. CASE u = Append(k, e)
    BY <2>1, <2>3, AppendedElements DEF Continues
  <2>. QED
    BY <1>2, <2>2, <2>3
<1>3. CASE t = s
  BY <1>2, <1>3
<1>4. CASE t = Append(s, e)
  <2>1. Kept(t, R) = KeptStep(k, e, R)
    BY <1>4, KeptAppended
  <2>2. KeptStep(k, e, R) \in {k, Append(k, e)}
    BY DEF KeptStep
  <2>. QED
    BY <1>2, <2>1, <2>2
<1>. QED
  BY <1>3, <1>4

\* Its contents stay; what comes is of this time.
Grows(q, r, time) ==
  /\ \A i \in DOMAIN r.contents : i \in DOMAIN q.contents /\ q.contents[i] = r.contents[i]
  /\ \A a : Continues(VersionsOf(q, a), VersionsOf(r, a), time)
  /\ \A id : Continues(VersionsWith(q, id), VersionsWith(r, id), time)
  /\ \A v \in ToSet(q.log) : v \in ToSet(r.log) \/ v.at = time

LEMMA LogGrows ==
  ASSUME NEW r \in RegistryType, NEW q \in RegistryType, NEW e \in LogEntry,
         q.log \in {r.log, Append(r.log, e)},
         \A i \in DOMAIN r.contents : i \in DOMAIN q.contents /\ q.contents[i] = r.contents[i]
  PROVE  Grows(q, r, e.at)
<1>1. r.log \in Seq(LogEntry)
  BY DEF RegistryType
<1>2. ToSet(r.log) \subseteq ToSet(q.log) /\ ToSet(q.log) \subseteq ToSet(r.log) \cup {e}
  <2>1. ToSet(Append(r.log, e)) = ToSet(r.log) \cup {e}
    BY <1>1, AppendedElements
  <2>. QED
    BY <2>1
<1>3. ASSUME NEW a PROVE Continues(VersionsOf(q, a), VersionsOf(r, a), e.at)
  <2>. DEFINE S == {v \in ToSet(r.log) : v.artifact = a}
              R == {v \in ToSet(q.log) : v.artifact = a}
  <2>1. (\A x \in ToSet(r.log) : x \in S <=> x \in R) /\ (q.log = r.log => R = S)
    BY <1>2
  <2>. HIDE DEF S, R
  <2>2. Continues(Kept(q.log, R), Kept(r.log, S), e.at)
    BY <1>1, <2>1, KeptContinues
  <2>. QED
    BY <2>2 DEF VersionsOf, S, R
<1>4. ASSUME NEW id PROVE Continues(VersionsWith(q, id), VersionsWith(r, id), e.at)
  <2>. DEFINE S == {v \in ToSet(r.log) : v.id = id}
              R == {v \in ToSet(q.log) : v.id = id}
  <2>1. (\A x \in ToSet(r.log) : x \in S <=> x \in R) /\ (q.log = r.log => R = S)
    BY <1>2
  <2>. HIDE DEF S, R
  <2>2. Continues(Kept(q.log, R), Kept(r.log, S), e.at)
    BY <1>1, <2>1, KeptContinues
  <2>. QED
    BY <2>2 DEF VersionsWith, S, R
<1>. QED
  BY <1>2, <1>3, <1>4 DEF Grows

\* The newest version with a content is one with this content.
LEMMA NewestIsOne ==
  ASSUME NEW r \in RegistryType, NEW a, NEW id,
         \E v \in ToSet(r.log) : v.artifact = a /\ v.id = id
  PROVE  /\ VersionWith(r, a, id) \in DOMAIN VersionsOf(r, a)
         /\ VersionsOf(r, a)[VersionWith(r, a, id)].id = id
<1>. DEFINE all == VersionsOf(r, a)
            same == {k \in DOMAIN all : all[k].id = id}
            n == Len(all)
<1>1. all \in Seq(LogEntry) /\ \E k \in DOMAIN all : all[k].id = id
  BY VersionsAre DEF ToSet
<1>2. n \in Nat /\ DOMAIN all = 1..n
  BY <1>1
<1>. HIDE DEF all, n
<1>3. PICK k \in same : \A j \in same : j <= k
  <2>. DEFINE T == {m \in Nat : \E k \in same : m = n - k}
  <2>1. T \in SUBSET Nat /\ T # {}
    <3>1. PICK k \in DOMAIN all : all[k].id = id
      BY <1>1
    <3>2. n - k \in Nat
      BY <1>2, <3>1
    <3>. QED
      BY <3>1, <3>2
  <2>. HIDE DEF T
  <2>2. PICK least \in T : \A m \in T : least <= m
    BY <2>1, LeastOf
  <2>3. PICK k \in same : least = n - k
    BY <2>2 DEF T
  <2>4. ASSUME NEW j \in same PROVE j <= k
    <3>1. j \in 1..n /\ k \in 1..n
      BY <1>2, <2>3
    <3>2. n - j \in T
      BY <1>2, <3>1 DEF T
    <3>. QED
      BY <1>2, <2>2, <2>3, <3>1, <3>2
  <2>. QED
    BY <2>3, <2>4
<1>4. VersionWith(r, a, id) \in same
  BY <1>3 DEF VersionWith, all
<1>. QED
  BY <1>4 DEF all
----------------------------------------------------------------------------
(* What can be so in a registry, and stays so while it grows.              *)

Source == [id : Nat] \cup Reference

\* Every version is one of a content.
IdsKnown(r) == \A v \in ToSet(r.log) : v.id \in DOMAIN r.contents

IsVersion(r, artifact, answer) ==
  /\ answer \in Answered
  /\ answer.version \in DOMAIN VersionsOf(r, artifact)
  /\ VersionsOf(r, artifact)[answer.version].id = answer.id

IsKnown(r, source) ==
  IF "id" \in DOMAIN source THEN source.id \in DOMAIN r.contents
  ELSE source.version \in DOMAIN VersionsOf(r, source.artifact)

IsContent(r, source, content) ==
  IsKnown(r, source) /\ content = r.contents[ContentAt(r, source)]

\* The reference is to a version with the document.
RefersTo(r, ref, doc) ==
  /\ ref.artifact = doc
  /\ ref.version \in DOMAIN VersionsOf(r, ref.artifact)
  /\ r.contents[ContentAt(r, ref)].doc = doc

\* The contents refer to what their documents do, and to each other only.
LocalTogether(r, ids) ==
  \A id \in ids :
    LET content == r.contents[id] IN
    /\ Len(content.refs) = Len(DocRefs[content.doc])
    /\ \A i \in 1..Len(content.refs) :
         /\ RefersTo(r, content.refs[i], DocRefs[content.doc][i])
         /\ ContentAt(r, content.refs[i]) \in ids

\* A content with all it refers to, directly or not, is a local document with
\* all that one refers to.
IsLocal(r, id) == \E ids \in SUBSET DOMAIN r.contents : id \in ids /\ LocalTogether(r, ids)

HasDoc(r, artifact, version, doc) ==
  /\ version \in DOMAIN VersionsOf(r, artifact)
  /\ r.contents[VersionsOf(r, artifact)[version].id].doc = doc
  /\ IsLocal(r, VersionsOf(r, artifact)[version].id)

\* got: the versions of the first documents that doc refers to.
AreReferred(r, doc, got) ==
  /\ Len(got) <= Len(DocRefs[doc])
  /\ \A i \in 1..Len(got) : HasDoc(r, DocRefs[doc][i], got[i], DocRefs[doc][i])

\* What is so in r is so in q.
Lasts(q, r) ==
  /\ \A a, answer : IsVersion(r, a, answer) =>
       /\ IsVersion(q, a, answer)
       /\ answer.id \in DOMAIN r.contents /\ q.contents[answer.id] = r.contents[answer.id]
  /\ \A source : IsKnown(r, source) =>
       /\ IsKnown(q, source) /\ ContentAt(r, source) \in DOMAIN r.contents
       /\ q.contents[ContentAt(q, source)] = r.contents[ContentAt(r, source)]
  /\ \A a, version, doc : HasDoc(r, a, version, doc) => HasDoc(q, a, version, doc)
  /\ \A id : IsLocal(r, id) => IsLocal(q, id)

LEMMA VersionIsOfContent ==
  ASSUME NEW r \in RegistryType, IdsKnown(r), NEW a, NEW k \in DOMAIN VersionsOf(r, a)
  PROVE  /\ VersionsOf(r, a)[k] \in LogEntry /\ VersionsOf(r, a)[k].artifact = a
         /\ VersionsOf(r, a)[k].id \in DOMAIN r.contents
         /\ VersionsOf(r, a)[k] \in ToSet(r.log)
<1>1. VersionsOf(r, a)[k] \in ToSet(VersionsOf(r, a))
  BY DEF ToSet
<1>2. VersionsOf(r, a)[k] \in LogEntry
  BY VersionsAre
<1>. QED
  BY <1>1, <1>2, VersionsAre DEF IdsKnown

LEMMA GrowthLasts ==
  ASSUME NEW r \in RegistryType, NEW q \in RegistryType, IdsKnown(r), NEW time, Grows(q, r, time)
  PROVE  Lasts(q, r)
<1>1. ASSUME NEW a, NEW k \in DOMAIN VersionsOf(r, a)
      PROVE  /\ k \in DOMAIN VersionsOf(q, a) /\ VersionsOf(q, a)[k] = VersionsOf(r, a)[k]
             /\ VersionsOf(r, a)[k].id \in DOMAIN r.contents
  <2>. DEFINE s == VersionsOf(r, a)
              t == VersionsOf(q, a)
  <2>1. s \in Seq(LogEntry) /\ t \in Seq(LogEntry) /\ s[k].id \in DOMAIN r.contents
    BY VersionsAre, VersionIsOfContent
  <2>2. Continues(t, s, time)
    BY DEF Grows
  <2>. HIDE DEF s, t
  <2>3. k \in 1..Len(s) /\ Len(s) \in Nat /\ Len(t) \in Nat /\ DOMAIN t = 1..Len(t)
    BY <2>1 DEF s
  <2>. QED
    BY <2>1, <2>2, <2>3 DEF Continues, s, t
<1>2. \A i \in DOMAIN r.contents : i \in DOMAIN q.contents /\ q.contents[i] = r.contents[i]
  BY DEF Grows
<1>3. ASSUME NEW a, NEW answer, IsVersion(r, a, answer)
      PROVE  /\ IsVersion(q, a, answer)
             /\ answer.id \in DOMAIN r.contents /\ q.contents[answer.id] = r.contents[answer.id]
  BY <1>1, <1>2, <1>3 DEF IsVersion
<1>4. ASSUME NEW source, IsKnown(r, source)
      PROVE  /\ IsKnown(q, source) /\ ContentAt(r, source) \in DOMAIN r.contents
             /\ q.contents[ContentAt(q, source)] = r.contents[ContentAt(r, source)]
  BY <1>1, <1>2, <1>4 DEF IsKnown, ContentAt
<1>5. ASSUME NEW ref, NEW doc, RefersTo(r, ref, doc), "id" \notin DOMAIN ref
      PROVE  RefersTo(q, ref, doc) /\ ContentAt(q, ref) = ContentAt(r, ref)
  <2>1. IsKnown(r, ref) /\ ref.version \in DOMAIN VersionsOf(r, ref.artifact)
    BY <1>5 DEF RefersTo, IsKnown
  <2>2. q.contents[ContentAt(q, ref)] = r.contents[ContentAt(r, ref)]
    BY <1>4, <2>1
  <2>. QED
    BY <1>1, <1>5, <2>1, <2>2 DEF RefersTo, ContentAt
<1>6. ASSUME NEW id, IsLocal(r, id) PROVE IsLocal(q, id)
  <2>1. PICK ids \in SUBSET DOMAIN r.contents : id \in ids /\ LocalTogether(r, ids)
    BY <1>6 DEF IsLocal
  <2>2. LocalTogether(q, ids)
    <3>1. ASSUME NEW i \in ids, NEW k \in 1..Len(r.contents[i].refs)
          PROVE  "id" \notin DOMAIN r.contents[i].refs[k]
      <4>1. r.contents[i] \in Content
        BY <2>1 DEF RegistryType
      <4>2. r.contents[i].refs \in Seq(Reference)
        BY <4>1 DEF Content
      <4>3. r.contents[i].refs[k] \in Reference
        BY <4>2
      <4>. QED
        BY <4>3 DEF Reference
    <3>. QED
      BY <1>2, <1>5, <2>1, <3>1 DEF LocalTogether
  <2>3. ids \in SUBSET DOMAIN q.contents
    BY <1>2, <2>1
  <2>. QED
    BY <2>1, <2>2, <2>3 DEF IsLocal
<1>7. ASSUME NEW a, NEW version, NEW doc, HasDoc(r, a, version, doc)
      PROVE  HasDoc(q, a, version, doc)
  BY <1>1, <1>2, <1>6, <1>7 DEF HasDoc
<1>. QED
  BY <1>3, <1>4, <1>6, <1>7 DEF Lasts

LEMMA ReferredLast ==
  ASSUME NEW r, NEW q, Lasts(q, r), NEW doc, NEW got, AreReferred(r, doc, got)
  PROVE  AreReferred(q, doc, got)
  BY DEF Lasts, AreReferred
----------------------------------------------------------------------------
(* The calls of the lookup thread.  s stands for the setup, r for the      *)
(* registry.                                                               *)

RegisterFrame == [op : {"register"}, artifact : Artifacts, doc : Docs, got : Seq(Nat)]
VersionFrame == [op : {"version"}, artifact : Artifacts, version : Nat]
ArtifactFrame ==
  [op : {"artifact"}, source : Source, doc : Docs \cup {NoDoc}, typed : Typed]
MetadataFrame == [op : {"metadata"}, id : Nat, values : Seq(LogEntry)]
CollectFrame ==
  [op : {"collect"}, ref : Reference \cup {None}, doc : Docs, refs : Seq(Reference),
   next : Nat \ {0}, found : Content \cup {None}]
ResolveFrame ==
  [op : {"resolve"}, field : Field, version : Answered \cup {None},
   artifact : Content \cup {None}]
Frame ==
  RegisterFrame \cup VersionFrame \cup ArtifactFrame \cup MetadataFrame
    \cup CollectFrame \cup ResolveFrame

\* caller waits for called.
WaitsForRegister(s, caller, called) ==
  \/ /\ caller.op = "register" /\ Len(caller.got) < Len(DocRefs[caller.doc])
     /\ called.doc = DocRefs[caller.doc][Len(caller.got) + 1]
     /\ called.artifact = called.doc
  \/ /\ caller.op = "resolve" /\ caller.version = None
     /\ called.doc = s.document[caller.field]
     /\ called.artifact = s.artifact[caller.field]

WaitsForVersion(s, caller, called) ==
  /\ caller.op = "resolve" /\ caller.version = None
  /\ s.document[caller.field] = NoDoc
  /\ called.artifact = s.artifact[caller.field]
  /\ called.version = s.version[caller.field]

WaitsForArtifact(caller, called) ==
  \/ /\ caller.op = "resolve" /\ caller.version # None /\ caller.artifact = None
     /\ called.source = [id |-> caller.version.id]
  \/ /\ caller.op = "collect" /\ caller.found = None /\ caller.next <= Len(caller.refs)
     /\ called.source = caller.refs[caller.next]

WaitsForMetadata(caller, called) ==
  /\ caller.op = "artifact" /\ caller.doc # NoDoc
  /\ caller.source \in [id : Nat] /\ called.id = caller.source.id

WaitsForCollect(caller, called) ==
  \/ /\ caller.op = "resolve" /\ caller.artifact # None
     /\ called.ref = None
     /\ called.doc = caller.artifact.doc /\ called.refs = caller.artifact.refs
  \/ /\ caller.op = "collect" /\ caller.found # None
     /\ called.ref = caller.refs[caller.next]
     /\ called.doc = caller.found.doc /\ called.refs = caller.found.refs

WaitsFor(s, caller, called) ==
  /\ called.op # "resolve"
  /\ called.op = "register" => WaitsForRegister(s, caller, called)
  /\ called.op = "version" => WaitsForVersion(s, caller, called)
  /\ called.op = "artifact" => WaitsForArtifact(caller, called)
  /\ called.op = "metadata" => WaitsForMetadata(caller, called)
  /\ called.op = "collect" => WaitsForCollect(caller, called)

\* The version is one that the field wants.
IsOfField(s, r, f, answer) ==
  /\ IsVersion(r, s.artifact[f], answer)
  /\ s.document[f] # NoDoc =>
       r.contents[answer.id].doc = s.document[f] /\ IsLocal(r, answer.id)
  /\ s.document[f] = NoDoc /\ s.version[f] # Latest => answer.version = s.version[f]

\* What a call has found out is so.
ArtifactTrue(r, frame) ==
  /\ frame.source \in [id : Nat] => IsKnown(r, frame.source)
  /\ frame.doc # NoDoc =>
       /\ IsKnown(r, frame.source)
       /\ frame.doc = r.contents[ContentAt(r, frame.source)].doc
       /\ frame.typed = "untold" => frame.source \in [id : Nat]

MetadataTrue(r, frame) ==
  /\ Len(frame.values) <= Len(VersionsWith(r, frame.id))
  /\ \A i \in 1..Len(frame.values) : frame.values[i] = VersionsWith(r, frame.id)[i]

CollectTrue(r, frame) ==
  /\ frame.ref # None =>
       /\ IsKnown(r, frame.ref)
       /\ frame.doc = r.contents[ContentAt(r, frame.ref)].doc
       /\ frame.refs = r.contents[ContentAt(r, frame.ref)].refs
  /\ frame.found # None => /\ frame.next <= Len(frame.refs)
                           /\ IsContent(r, frame.refs[frame.next], frame.found)

ResolveTrue(s, r, frame) ==
  /\ frame.version # None => IsOfField(s, r, frame.field, frame.version)
  /\ frame.version = None => frame.artifact = None
  /\ frame.artifact # None => frame.artifact = r.contents[frame.version.id]

FrameTrue(s, r, frame) ==
  /\ frame.op = "register" => AreReferred(r, frame.doc, frame.got)
  /\ frame.op = "artifact" => ArtifactTrue(r, frame)
  /\ frame.op = "metadata" => MetadataTrue(r, frame)
  /\ frame.op = "collect" => CollectTrue(r, frame)
  /\ frame.op = "resolve" => ResolveTrue(s, r, frame)

\* Each call waits for the one above it; the lowest is of the field in turn.
Stacked(s, calls, todo) ==
  /\ calls \in Seq(Frame)
  /\ \A i \in 1..(Len(calls) - 1) : WaitsFor(s, calls[i + 1], calls[i])
  /\ calls # <<>> =>
       /\ calls[Len(calls)].op = "resolve"
       /\ todo # <<>> /\ calls[Len(calls)].field = Head(todo)

CallsTrue(s, r, calls) == \A i \in 1..Len(calls) : FrameTrue(s, r, calls[i])

CallsOK(s, r, calls, todo) == Stacked(s, calls, todo) /\ CallsTrue(s, r, calls)

\* A call's kind tells its fields.
LEMMA FrameKinds ==
  ASSUME NEW f \in Frame
  PROVE  /\ f.op = "register" => f \in RegisterFrame
         /\ f.op = "version" => f \in VersionFrame
         /\ f.op = "artifact" => f \in ArtifactFrame
         /\ f.op = "metadata" => f \in MetadataFrame
         /\ f.op = "collect" => f \in CollectFrame
         /\ f.op = "resolve" => f \in ResolveFrame
         /\ f.op \in {"register", "version", "artifact", "metadata", "collect", "resolve"}
  BY DEF Frame, RegisterFrame, VersionFrame, ArtifactFrame, MetadataFrame, CollectFrame,
         ResolveFrame

\* Only the lowest call has no caller.
LEMMA HasCaller ==
  ASSUME NEW s, NEW calls, NEW todo, Stacked(s, calls, todo), calls # <<>>
  PROVE  /\ calls[1] \in Frame /\ Head(calls) = calls[1] /\ Len(calls) \in Nat \ {0}
         /\ calls[1].op = "resolve" => calls[1].field = Head(todo) /\ Len(calls) = 1
         /\ calls[1].op # "resolve" =>
              Len(calls) >= 2 /\ calls[2] \in Frame /\ WaitsFor(s, calls[2], calls[1])
         /\ todo # <<>>
<1>1. /\ calls \in Seq(Frame) /\ Len(calls) \in Nat \ {0} /\ Head(calls) = calls[1]
      /\ \A i \in 1..Len(calls) : calls[i] \in Frame
  BY DEF Stacked
<1>2. CASE Len(calls) = 1
  BY <1>1, <1>2 DEF Stacked
<1>3. CASE Len(calls) >= 2
  <2>1. WaitsFor(s, calls[2], calls[1])
    BY <1>1, <1>3 DEF Stacked
  <2>. QED
    BY <1>1, <1>3, <2>1 DEF Stacked, WaitsFor
<1>4. Len(calls) = 1 \/ Len(calls) >= 2
  BY <1>1
<1>. QED
  BY <1>2, <1>3, <1>4

LEMMA Pushed ==
  ASSUME NEW X, NEW x \in X, NEW t \in Seq(X)
  PROVE  /\ <<x>> \o t \in Seq(X) /\ Len(<<x>> \o t) = Len(t) + 1 /\ <<x>> \o t # <<>>
         /\ (<<x>> \o t)[1] = x /\ Head(<<x>> \o t) = x
         /\ \A i \in 2..(Len(t) + 1) : (<<x>> \o t)[i] = t[i - 1]
         /\ Tail(<<x>> \o t) = t
<1>1. Len(t) \in Nat /\ Len(<<x>>) = 1
  OBVIOUS
<1>2. /\ <<x>> \o t \in Seq(X) /\ Len(<<x>> \o t) = Len(t) + 1 /\ <<x>> \o t # <<>>
      /\ (<<x>> \o t)[1] = x /\ Head(<<x>> \o t) = x
  OBVIOUS
<1>3. \A i \in 2..(Len(t) + 1) : (<<x>> \o t)[i] = t[i - 1]
  BY <1>1
<1>4. Tail(<<x>> \o t) = t
  <2>1. Tail(<<x>> \o t) \in Seq(X) /\ Len(Tail(<<x>> \o t)) = Len(t)
    BY <1>1, <1>2
  <2>2. \A i \in 1..Len(t) : Tail(<<x>> \o t)[i] = t[i]
    BY <1>1, <1>2, <1>3
  <2>. QED
    BY <2>1, <2>2
<1>. QED
  BY <1>2, <1>3, <1>4

LEMMA Popped ==
  ASSUME NEW X, NEW t \in Seq(X), t # <<>>
  PROVE  /\ Tail(t) \in Seq(X) /\ Len(Tail(t)) = Len(t) - 1 /\ Len(t) \in Nat \ {0}
         /\ \A i \in 1..(Len(t) - 1) : Tail(t)[i] = t[i + 1]
         /\ Len(t) >= 2 => Tail(t) # <<>> /\ Head(Tail(t)) = t[2]
  OBVIOUS
\* The three ways the calls change.
LEMMA CallMade ==
  ASSUME NEW s, NEW r, NEW calls, NEW todo, CallsOK(s, r, calls, todo), calls # <<>>,
         NEW f \in Frame, WaitsFor(s, Head(calls), f), FrameTrue(s, r, f)
  PROVE  CallsOK(s, r, <<f>> \o calls, todo)
<1>1. calls \in Seq(Frame) /\ Len(calls) \in Nat \ {0} /\ Head(calls) = calls[1]
  BY DEF CallsOK, Stacked
<1>. DEFINE t == <<f>> \o calls
            n == Len(calls)
<1>2. /\ t \in Seq(Frame) /\ Len(t) = n + 1 /\ t # <<>> /\ t[1] = f
      /\ \A i \in 2..(n + 1) : t[i] = calls[i - 1]
  BY <1>1, Pushed
<1>. HIDE DEF t
<1>3. ASSUME NEW i \in 1..(Len(t) - 1) PROVE WaitsFor(s, t[i + 1], t[i])
  <2>1. CASE i = 1
    BY <1>1, <1>2, <2>1
  <2>2. CASE i # 1
    <3>1. i \in Int /\ i - 1 \in 1..(n - 1) /\ i \in 2..(n + 1) /\ i + 1 \in 2..(n + 1)
      BY <1>1, <1>2, <2>2
    <3>2. t[i] = calls[i - 1] /\ t[i + 1] = calls[(i - 1) + 1]
      BY <1>2, <3>1
    <3>3. WaitsFor(s, calls[(i - 1) + 1], calls[i - 1])
      BY <3>1 DEF CallsOK, Stacked
    <3>. QED
      BY <3>2, <3>3
  <2>. QED
    BY <2>1, <2>2
<1>4. t[Len(t)] = calls[n]
  BY <1>1, <1>2
<1>5. CallsTrue(s, r, t)
  <2>1. ASSUME NEW i \in 1..Len(t) PROVE FrameTrue(s, r, t[i])
    <3>1. i = 1 \/ (i \in 2..(n + 1) /\ i - 1 \in 1..n)
      BY <1>1, <1>2
    <3>. QED
      BY <1>2, <3>1 DEF CallsOK, CallsTrue
  <2>. QED
    BY <2>1 DEF CallsTrue
<1>6. Stacked(s, t, todo)
  BY <1>2, <1>3, <1>4 DEF CallsOK, Stacked
<1>. QED
  BY <1>5, <1>6 DEF CallsOK, t

LEMMA CallEnds ==
  ASSUME NEW s, NEW r, NEW calls, NEW todo, CallsOK(s, r, calls, todo), Len(calls) >= 2
  PROVE  CallsOK(s, r, Tail(calls), todo) /\ Tail(calls) # <<>> /\ Head(Tail(calls)) = calls[2]
<1>1. calls \in Seq(Frame) /\ Len(calls) \in Nat \ {0} /\ calls # <<>>
  BY DEF CallsOK, Stacked
<1>. DEFINE t == Tail(calls)
            n == Len(calls)
<1>2. /\ t \in Seq(Frame) /\ Len(t) = n - 1 /\ t # <<>> /\ Head(t) = calls[2]
      /\ \A i \in 1..(n - 1) : t[i] = calls[i + 1]
  BY <1>1, Popped
<1>. HIDE DEF t
<1>3. ASSUME NEW i \in 1..(Len(t) - 1) PROVE WaitsFor(s, t[i + 1], t[i])
  <2>1. i \in 1..(n - 1) /\ i + 1 \in 1..(n - 1)
    BY <1>1, <1>2
  <2>2. t[i] = calls[i + 1] /\ t[i + 1] = calls[(i + 1) + 1]
    BY <1>2, <2>1
  <2>3. WaitsFor(s, calls[(i + 1) + 1], calls[i + 1])
    BY <2>1 DEF CallsOK, Stacked
  <2>. QED
    BY <2>2, <2>3
<1>4. t[Len(t)] = calls[n]
  BY <1>1, <1>2
<1>5. CallsTrue(s, r, t)
  <2>1. ASSUME NEW i \in 1..Len(t) PROVE FrameTrue(s, r, t[i])
    <3>1. i \in 1..(n - 1) /\ i + 1 \in 1..n
      BY <1>1, <1>2
    <3>. QED
      BY <1>2, <3>1 DEF CallsOK, CallsTrue
  <2>. QED
    BY <2>1 DEF CallsTrue
<1>6. Stacked(s, t, todo)
  BY <1>1, <1>2, <1>3, <1>4 DEF CallsOK, Stacked
<1>. QED
  BY <1>2, <1>5, <1>6 DEF CallsOK, t

LEMMA OneOrMore ==
  ASSUME NEW X, NEW t \in Seq(X), t # <<>>
  PROVE  \/ Len(t) = 1 /\ Tail(t) = <<>>
         \/ Len(t) >= 2 /\ Len(t) # 1
<1>1. Len(t) \in Nat \ {0} /\ Tail(t) \in Seq(X) /\ Len(Tail(t)) = Len(t) - 1
  OBVIOUS
<1>2. CASE Len(t) = 1
  <2>. DEFINE u == Tail(t)
  <2>1. u \in Seq(X) /\ Len(u) = 0
    BY <1>1, <1>2
  <2>. HIDE DEF u
  <2>2. u = <<>>
    BY <2>1, EmptySeq
  <2>. QED
    BY <1>2, <2>2 DEF u
<1>3. CASE Len(t) # 1
  BY <1>1, <1>3
<1>. QED
  BY <1>2, <1>3

LEMMA CallChanges ==
  ASSUME NEW s, NEW r, NEW calls, NEW todo, CallsOK(s, r, calls, todo), calls # <<>>,
         NEW f \in Frame, FrameTrue(s, r, f), f.op = Head(calls).op,
         f.op = "resolve" => f.field = Head(calls).field,
         \A g \in Frame : WaitsFor(s, g, Head(calls)) => WaitsFor(s, g, f)
  PROVE  CallsOK(s, r, <<f>> \o Tail(calls), todo)
<1>1. calls \in Seq(Frame) /\ Len(calls) \in Nat \ {0} /\ Head(calls) = calls[1]
  BY DEF CallsOK, Stacked
<1>2. CASE Len(calls) >= 2 /\ Len(calls) # 1
  <2>1. CallsOK(s, r, Tail(calls), todo) /\ Tail(calls) # <<>> /\ Head(Tail(calls)) = calls[2]
    BY <1>2, CallEnds
  <2>2. calls[1].op # "resolve" /\ calls[2] \in Frame /\ WaitsFor(s, calls[2], calls[1])
    <3>1. Stacked(s, calls, todo)
      BY DEF CallsOK
    <3>. QED
      BY <1>2, <3>1, HasCaller
  <2>3. WaitsFor(s, calls[2], f)
    BY <1>1, <2>2
  <2>. QED
    BY <2>1, <2>3, CallMade
<1>3. CASE Len(calls) = 1 /\ Tail(calls) = <<>>
  <2>. DEFINE t == <<f>> \o Tail(calls)
  <2>1. t = <<f>>
    <3>1. <<f>> \in Seq(Frame)
      OBVIOUS
    <3>2. <<f>> \o <<>> = <<f>>
      BY <3>1, ConcatEmptySeq
    <3>. QED
      BY <1>3, <3>2
  <2>. HIDE DEF t
  <2>2. /\ t \in Seq(Frame) /\ Len(t) = 1 /\ t[1] = f /\ t # <<>>
    BY <2>1
  <2>3. /\ calls[1].op = "resolve" /\ todo # <<>> /\ calls[1].field = Head(todo)
    BY <1>1, <1>3 DEF CallsOK, Stacked
  <2>4. Stacked(s, t, todo)
    BY <1>1, <2>2, <2>3 DEF Stacked
  <2>5. CallsTrue(s, r, t)
    BY <2>2 DEF CallsTrue
  <2>. QED
    BY <2>4, <2>5 DEF CallsOK, t
<1>. QED
  BY <1>1, <1>2, <1>3, OneOrMore

\* The caller takes what its call returns.
LEMMA CallReturns ==
  ASSUME NEW s, NEW r, NEW calls, NEW todo, CallsOK(s, r, calls, todo), calls # <<>>,
         Head(calls).op # "resolve",
         NEW f \in Frame, FrameTrue(s, r, f), f.op = calls[2].op,
         f.op = "resolve" => f.field = calls[2].field,
         \A g \in Frame : WaitsFor(s, g, calls[2]) => WaitsFor(s, g, f)
  PROVE  CallsOK(s, r, <<f>> \o Tail(Tail(calls)), todo)
<1>1. Len(calls) >= 2
  BY HasCaller DEF CallsOK
<1>. QED
  BY <1>1, CallEnds, CallChanges
----------------------------------------------------------------------------
(* What is answered, and what is kept of the answers.                      *)

\* answer is the version asked for; where it was the latest, any after it has
\* come since the time at.
VersionTrue(r, artifact, version, answer, at) ==
  /\ IsVersion(r, artifact, answer)
  /\ version # Latest => answer.version = version
  /\ version = Latest =>
       \A k \in DOMAIN VersionsOf(r, artifact) :
         k > answer.version => VersionsOf(r, artifact)[k].at >= at

\* A page continues what there is of the matches; any match after the last
\* page has come since.
PageTrue(r, id, offset, answer, at) ==
  /\ answer.page \in Seq(LogEntry)
  /\ offset + Len(answer.page) <= Len(VersionsWith(r, id))
  /\ \A i \in 1..Len(answer.page) : answer.page[i] = VersionsWith(r, id)[offset + i]
  /\ LastPage(offset + Len(answer.page), answer) =>
       \A k \in DOMAIN VersionsWith(r, id) :
         k > offset + Len(answer.page) => VersionsWith(r, id)[k].at >= at

MatchesTrue(r, id, at, values) ==
  \A v \in ToSet(r.log) : v.id = id /\ v.at < at => v \in ToSet(values)

ReplyTrue(r, op, answer, at) ==
  /\ op.kind = "create" =>
       /\ IsVersion(r, op.artifact, answer)
       /\ r.contents[answer.id].doc = op.doc /\ IsLocal(r, answer.id)
  /\ op.kind = "version" => VersionTrue(r, op.artifact, op.version, answer, at)
  /\ op.kind = "content" =>
       /\ IsKnown(r, op.source)
       /\ answer.doc = r.contents[ContentAt(r, op.source)].doc
  /\ op.kind = "references" =>
       /\ IsKnown(r, op.source)
       /\ answer.refs = r.contents[ContentAt(r, op.source)].refs
  /\ op.kind = "search" => PageTrue(r, op.id, op.offset, answer, at)

VersionKeys == [kind : {"version"}, artifact : Artifacts, version : Nat]
MetadataKeys == [kind : {"metadata"}, id : Nat]
CacheItem ==
  [key : Source \cup VersionKeys \cup MetadataKeys, at : Nat,
   value : Content \cup Answered \cup [values : Seq(LogEntry)]]

ItemTrue(r, item) ==
  /\ item.key \in Source => IsContent(r, item.key, item.value)
  /\ item.key \in VersionKeys =>
       VersionTrue(r, item.key.artifact, item.key.version, item.value, item.at - Latency)
  /\ item.key \in MetadataKeys =>
       MatchesTrue(r, item.key.id, item.at - Latency, item.value.values)

CacheOK(c, r, time) ==
  /\ c \in Seq(CacheItem)
  /\ \A item \in ToSet(c) : item.at <= time /\ ItemTrue(r, item)

RegisteredOK(known, r) ==
  \A a, doc : <<a, doc>> \in DOMAIN known =>
    /\ IsVersion(r, a, known[<<a, doc>>])
    /\ r.contents[known[<<a, doc>>].id].doc = doc
    /\ IsLocal(r, known[<<a, doc>>].id)

SchemaTrue(s, r, f, schema) ==
  /\ schema.version \in DOMAIN VersionsOf(r, s.artifact[f])
  /\ VersionsOf(r, s.artifact[f])[schema.version].id = schema.id
  /\ r.contents[schema.id].doc = schema.doc
  /\ s.document[f] # NoDoc => schema.doc = s.document[f] /\ IsLocal(r, schema.id)
  /\ s.document[f] = NoDoc /\ s.version[f] # Latest => schema.version = s.version[f]

ResolvedOK(schemas, s, r) ==
  /\ DOMAIN schemas = Field
  /\ \A f \in Field : schemas[f] # None => SchemaTrue(s, r, f, schemas[f])

LEMMA VersionLasts ==
  ASSUME NEW r \in RegistryType, NEW q \in RegistryType, IdsKnown(r),
         NEW time \in Nat, Grows(q, r, time),
         NEW artifact, NEW version, NEW answer, NEW at \in Int, at <= time,
         VersionTrue(r, artifact, version, answer, at)
  PROVE  VersionTrue(q, artifact, version, answer, at)
<1>. DEFINE s == VersionsOf(r, artifact)
            t == VersionsOf(q, artifact)
<1>1. s \in Seq(LogEntry) /\ t \in Seq(LogEntry)
  BY VersionsAre
<1>2. Continues(t, s, time)
  BY DEF Grows
<1>3. IsVersion(q, artifact, answer)
  BY GrowthLasts DEF Lasts, VersionTrue
<1>4. ASSUME version = Latest, NEW k \in DOMAIN t, k > answer.version PROVE t[k].at >= at
  <2>1. \A j \in DOMAIN s : j > answer.version => s[j].at >= at
    BY <1>4 DEF VersionTrue
  <2>. HIDE DEF s, t
  <2>2. k \in 1..Len(t) /\ Len(s) \in Nat /\ DOMAIN s = 1..Len(s)
    BY <1>1
  <2>3. CASE k <= Len(s)
    BY <1>2, <1>4, <2>1, <2>2, <2>3 DEF Continues
  <2>4. CASE k > Len(s)
    BY <1>2, <2>2, <2>4 DEF Continues
  <2>. QED
    BY <2>2, <2>3, <2>4
<1>. QED
  BY <1>3, <1>4 DEF VersionTrue

LEMMA PageLasts ==
  ASSUME NEW r \in RegistryType, NEW q \in RegistryType,
         NEW time \in Nat, Grows(q, r, time),
         NEW id, NEW offset \in Nat, NEW answer, NEW at \in Int, at <= time,
         PageTrue(r, id, offset, answer, at)
  PROVE  PageTrue(q, id, offset, answer, at)
<1>. DEFINE s == VersionsWith(r, id)
            t == VersionsWith(q, id)
            page == answer.page
            last == offset + Len(page)
<1>1. s \in Seq(LogEntry) /\ t \in Seq(LogEntry)
  BY MatchesAre
<1>2. Continues(t, s, time)
  BY DEF Grows
<1>3. /\ page \in Seq(LogEntry) /\ last <= Len(s)
      /\ \A i \in 1..Len(page) : page[i] = s[offset + i]
      /\ LastPage(last, answer) => \A k \in DOMAIN s : k > last => s[k].at >= at
  BY DEF PageTrue
<1>. HIDE DEF s, t, page
<1>4. Len(s) \in Nat /\ Len(t) \in Nat /\ Len(page) \in Nat /\ DOMAIN s = 1..Len(s)
      /\ DOMAIN t = 1..Len(t)
  BY <1>1, <1>3
<1>5. last <= Len(t)
  BY <1>2, <1>3, <1>4 DEF Continues
<1>6. ASSUME NEW i \in 1..Len(page) PROVE page[i] = t[offset + i]
  <2>1. offset + i \in 1..Len(s)
    BY <1>3, <1>4
  <2>. QED
    BY <1>2, <1>3, <2>1 DEF Continues
<1>7. ASSUME LastPage(last, answer), NEW k \in DOMAIN t, k > last PROVE t[k].at >= at
  <2>1. CASE k <= Len(s)
    BY <1>2, <1>3, <1>4, <1>7, <2>1 DEF Continues
  <2>2. CASE k > Len(s)
    BY <1>2, <1>4, <1>7, <2>2 DEF Continues
  <2>. QED
    BY <1>4, <2>1, <2>2
<1>. QED
  BY <1>3, <1>5, <1>6, <1>7 DEF PageTrue, s, t, page

LEMMA FrameLasts ==
  ASSUME NEW r \in RegistryType, NEW q \in RegistryType, IdsKnown(r),
         NEW time \in Nat, Grows(q, r, time),
         NEW s, NEW f \in Frame, FrameTrue(s, r, f)
  PROVE  FrameTrue(s, q, f)
<1>1. Lasts(q, r)
  BY GrowthLasts
<1>2. CASE f.op = "register"
  BY <1>1, <1>2, ReferredLast DEF FrameTrue
<1>3. CASE f.op = "artifact"
  BY <1>1, <1>3 DEF FrameTrue, ArtifactTrue, Lasts
<1>4. CASE f.op = "metadata"
  <2>. DEFINE a == VersionsWith(r, f.id)
              b == VersionsWith(q, f.id)
  <2>1. a \in Seq(LogEntry) /\ b \in Seq(LogEntry) /\ Continues(b, a, time)
    BY MatchesAre DEF Grows
  <2>2. Len(f.values) <= Len(a) /\ \A i \in 1..Len(f.values) : f.values[i] = a[i]
    BY <1>4 DEF FrameTrue, MetadataTrue
  <2>3. Len(f.values) \in Nat
    BY <1>4, FrameKinds DEF MetadataFrame
  <2>. HIDE DEF a, b
  <2>4. Len(f.values) <= Len(b) /\ \A i \in 1..Len(f.values) : f.values[i] = b[i]
    <3>1. Len(a) \in Nat /\ Len(b) \in Nat /\ Len(a) <= Len(b)
      BY <2>1 DEF Continues
    <3>2. \A i \in 1..Len(a) : b[i] = a[i]
      BY <2>1, <3>1 DEF Continues
    <3>. QED
      BY <2>2, <2>3, <3>1, <3>2
  <2>. QED
    BY <1>4, <2>4 DEF FrameTrue, MetadataTrue, a, b
<1>5. CASE f.op = "collect"
  BY <1>1, <1>5 DEF FrameTrue, CollectTrue, Lasts, IsContent
<1>6. CASE f.op = "resolve"
  BY <1>1, <1>6 DEF FrameTrue, ResolveTrue, IsOfField, Lasts, IsVersion
<1>7. CASE f.op = "version"
  BY <1>7 DEF FrameTrue
<1>. QED
  BY <1>2, <1>3, <1>4, <1>5, <1>6, <1>7, FrameKinds

LEMMA CallsLast ==
  ASSUME NEW r \in RegistryType, NEW q \in RegistryType, IdsKnown(r),
         NEW time \in Nat, Grows(q, r, time),
         NEW s, NEW calls, NEW todo, CallsOK(s, r, calls, todo)
  PROVE  CallsOK(s, q, calls, todo)
<1>1. \A i \in 1..Len(calls) : calls[i] \in Frame
  BY DEF CallsOK, Stacked
<1>. QED
  BY <1>1, FrameLasts DEF CallsOK, CallsTrue

LEMMA CacheLasts ==
  ASSUME NEW r \in RegistryType, NEW q \in RegistryType, IdsKnown(r),
         NEW time \in Nat, Grows(q, r, time), NEW c, CacheOK(c, r, time)
  PROVE  CacheOK(c, q, time)
<1>1. ASSUME NEW item \in ToSet(c) PROVE ItemTrue(q, item)
  <2>1. item \in CacheItem /\ item.at <= time /\ item.at \in Nat /\ ItemTrue(r, item)
    <3>1. c \in Seq(CacheItem) /\ item \in CacheItem
      BY DEF CacheOK, ToSet
    <3>. QED
      BY <3>1 DEF CacheOK, CacheItem
  <2>5. item.at - Latency \in Int /\ item.at - Latency <= time
    BY <2>1, ClientAssumption DEF ClientAssumption
  <2>2. ASSUME item.key \in Source PROVE IsContent(q, item.key, item.value)
    BY <2>1, <2>2, GrowthLasts DEF ItemTrue, IsContent, Lasts
  <2>3. ASSUME item.key \in VersionKeys
        PROVE  VersionTrue(q, item.key.artifact, item.key.version, item.value,
                           item.at - Latency)
    BY <2>1, <2>3, <2>5, VersionLasts DEF ItemTrue
  <2>4. ASSUME item.key \in MetadataKeys
        PROVE  MatchesTrue(q, item.key.id, item.at - Latency, item.value.values)
    <3>1. \A v \in ToSet(q.log) : v \in ToSet(r.log) \/ v.at = time
      BY DEF Grows
    <3>. QED
      BY <2>1, <2>4, <2>5, <3>1 DEF ItemTrue, MatchesTrue
  <2>. QED
    BY <2>2, <2>3, <2>4 DEF ItemTrue
<1>. QED
  BY <1>1 DEF CacheOK

LEMMA RegisteredLast ==
  ASSUME NEW r, NEW q, Lasts(q, r), NEW known, RegisteredOK(known, r)
  PROVE  RegisteredOK(known, q)
  BY DEF RegisteredOK, Lasts

LEMMA ResolvedLast ==
  ASSUME NEW r \in RegistryType, NEW q \in RegistryType, IdsKnown(r),
         NEW time \in Nat, Grows(q, r, time), NEW s, NEW schemas, ResolvedOK(schemas, s, r)
  PROVE  ResolvedOK(schemas, s, q)
<1>1. ASSUME NEW a, NEW k \in DOMAIN VersionsOf(r, a)
      PROVE  /\ k \in DOMAIN VersionsOf(q, a) /\ VersionsOf(q, a)[k].id = VersionsOf(r, a)[k].id
             /\ q.contents[VersionsOf(r, a)[k].id] = r.contents[VersionsOf(r, a)[k].id]
  <2>. DEFINE answer == [version |-> k, id |-> VersionsOf(r, a)[k].id]
  <2>1. k \in Nat /\ VersionsOf(r, a)[k].id \in Nat
    BY VersionsAre, VersionIsOfContent DEF LogEntry
  <2>2. IsVersion(r, a, answer)
    BY <2>1 DEF IsVersion, Answered
  <2>. QED
    BY <2>2, GrowthLasts DEF Lasts, IsVersion
<1>2. ASSUME NEW f \in Field, schemas[f] # None PROVE SchemaTrue(s, q, f, schemas[f])
  <2>1. SchemaTrue(s, r, f, schemas[f])
    BY <1>2 DEF ResolvedOK
  <2>. QED
    BY <1>1, <2>1, GrowthLasts DEF SchemaTrue, Lasts
<1>. QED
  BY <1>2 DEF ResolvedOK
----------------------------------------------------------------------------
(* The registry does what it is asked for.                                 *)

\* Every reference is to a version with the document that is referred to.
RefsTrue(r, content) ==
  /\ Len(content.refs) = Len(DocRefs[content.doc])
  /\ \A i \in 1..Len(content.refs) :
       /\ content.refs[i].artifact = DocRefs[content.doc][i]
       /\ HasDoc(r, content.refs[i].artifact, content.refs[i].version, DocRefs[content.doc][i])

\* A content that refers to local ones, as its document does, is local.
LEMMA MadeLocal ==
  ASSUME NEW r \in RegistryType, NEW id \in DOMAIN r.contents, RefsTrue(r, r.contents[id])
  PROVE  IsLocal(r, id)
<1>. DEFINE ids == {i \in DOMAIN r.contents : IsLocal(r, i)} \cup {id}
            content == r.contents[id]
<1>1. ASSUME NEW i \in DOMAIN r.contents, NEW k \in 1..Len(r.contents[i].refs)
      PROVE  r.contents[i].refs[k] \in Reference /\ "id" \notin DOMAIN r.contents[i].refs[k]
  <2>1. r.contents[i] \in Content
    BY DEF RegistryType
  <2>2. r.contents[i].refs \in Seq(Reference)
    BY <2>1 DEF Content
  <2>3. r.contents[i].refs[k] \in Reference
    BY <2>2
  <2>. QED
    BY <2>3 DEF Reference
<1>2. ASSUME NEW i \in DOMAIN r.contents, IsLocal(r, i)
      PROVE  /\ Len(r.contents[i].refs) = Len(DocRefs[r.contents[i].doc])
             /\ \A k \in 1..Len(r.contents[i].refs) :
                  /\ RefersTo(r, r.contents[i].refs[k], DocRefs[r.contents[i].doc][k])
                  /\ ContentAt(r, r.contents[i].refs[k]) \in ids
  <2>1. PICK them \in SUBSET DOMAIN r.contents : i \in them /\ LocalTogether(r, them)
    BY <1>2 DEF IsLocal
  <2>2. \A j \in them : j \in ids
    BY <2>1 DEF IsLocal
  <2>. QED
    BY <2>1, <2>2 DEF LocalTogether
<1>3. ASSUME NEW k \in 1..Len(content.refs)
      PROVE  /\ RefersTo(r, content.refs[k], DocRefs[content.doc][k])
             /\ ContentAt(r, content.refs[k]) \in ids
  <2>1. /\ content.refs[k].artifact = DocRefs[content.doc][k]
        /\ HasDoc(r, content.refs[k].artifact, content.refs[k].version, DocRefs[content.doc][k])
    BY DEF RefsTrue
  <2>2. "id" \notin DOMAIN content.refs[k]
    BY <1>1
  <2>. DEFINE there == ContentAt(r, content.refs[k])
  <2>3. there = VersionsOf(r, content.refs[k].artifact)[content.refs[k].version].id
    BY <2>2 DEF ContentAt
  <2>4. IsLocal(r, there)
    BY <2>1, <2>3 DEF HasDoc
  <2>5. there \in DOMAIN r.contents
    BY <2>4 DEF IsLocal
  <2>. QED
    BY <2>1, <2>3, <2>4, <2>5 DEF HasDoc, RefersTo
<1>4. LocalTogether(r, ids)
  <2>1. Len(content.refs) = Len(DocRefs[content.doc])
    BY DEF RefsTrue
  <2>. HIDE DEF ids
  <2>2. \A i \in ids : i = id \/ (i \in DOMAIN r.contents /\ IsLocal(r, i))
    BY DEF ids
  <2>. QED
    BY <1>2, <1>3, <2>1, <2>2 DEF LocalTogether
<1>. QED
  BY <1>4 DEF IsLocal

\* Only the given contents may refer to something else.
RefsOK(s, r) ==
  \A id \in DOMAIN r.contents : id \in DOMAIN s.registry.contents \/ RefsTrue(r, r.contents[id])

Once(log) ==
  \A i, j \in DOMAIN log : log[i].artifact = log[j].artifact /\ log[i].id = log[j].id => i = j

Before(r, time) == \A v \in ToSet(r.log) : v.at <= time

\* What is asked of the registry.
CreateOK(r, op) ==
  /\ op.artifact \in Artifacts /\ op.doc \in Docs /\ op.refs \in Seq(Reference)
  /\ op.ifExists = "FIND_OR_CREATE_VERSION"
  /\ RefsTrue(r, [doc |-> op.doc, refs |-> op.refs])

OpOK(r, op) ==
  /\ op.kind \in {"create", "version", "content", "references", "search"}
  /\ op.kind = "create" => CreateOK(r, op)
  /\ op.kind = "version" => op.version \in Nat
  /\ op.kind \in {"content", "references"} =>
       op.source \in Source /\ (op.source \in [id : Nat] => IsKnown(r, op.source))
  /\ op.kind = "search" =>
       op.offset \in Nat /\ op.limit = PageSize /\ op.offset <= Len(VersionsWith(r, op.id))

LEMMA AppendedOnce ==
  ASSUME NEW s \in Seq(LogEntry), NEW e \in LogEntry, Once(s),
         ~\E v \in ToSet(s) : v.artifact = e.artifact /\ v.id = e.id
  PROVE  Once(Append(s, e))
<1>. DEFINE t == Append(s, e)
            n == Len(s)
<1>1. /\ n \in Nat /\ DOMAIN s = 1..n /\ t \in Seq(LogEntry) /\ Len(t) = n + 1
      /\ \A k \in 1..n : t[k] = s[k]
      /\ t[n + 1] = e
  BY AppendedElements
<1>2. \A k \in 1..n : ~(s[k].artifact = e.artifact /\ s[k].id = e.id)
  BY <1>1 DEF ToSet
<1>. HIDE DEF t, n
<1>3. DOMAIN t = 1..(n + 1) /\ \A i \in 1..(n + 1) : i \in 1..n \/ i = n + 1
  BY <1>1
<1>. SUFFICES ASSUME NEW i \in DOMAIN t, NEW j \in DOMAIN t,
                     t[i].artifact = t[j].artifact, t[i].id = t[j].id
              PROVE  i = j
  BY DEF Once, t
<1>4. CASE i \in 1..n /\ j \in 1..n
  BY <1>1, <1>4 DEF Once
<1>5. CASE i = n + 1 \/ j = n + 1
  BY <1>1, <1>2, <1>3, <1>5
<1>. QED
  BY <1>3, <1>4, <1>5

\* A content that is there keeps its id, another gets the next one.
LEMMA ContentIdIs ==
  ASSUME NEW r, NEW content
  PROVE  /\ (\E i \in DOMAIN r.contents : r.contents[i] = content) =>
              /\ ContentId(r, content) \in DOMAIN r.contents
              /\ r.contents[ContentId(r, content)] = content
         /\ ~(\E i \in DOMAIN r.contents : r.contents[i] = content) =>
              ContentId(r, content) = Len(r.contents) + 1
  BY DEF ContentId

LEMMA CreatedIs ==
  ASSUME NEW r \in RegistryType, IdsKnown(r), NEW op, CreateOK(r, op), NEW at \in Nat, Before(r, at),
         NEW q, q = Created(r, op, at),
         NEW content, content = [doc |-> op.doc, refs |-> op.refs],
         NEW id, id = ContentId(q, content)
  PROVE  /\ q \in RegistryType /\ IdsKnown(q) /\ Before(q, at) /\ Grows(q, r, at)
         /\ \A i \in DOMAIN q.contents : i \in DOMAIN r.contents \/ q.contents[i] = content
         /\ id \in DOMAIN q.contents /\ q.contents[id] = content
         /\ \E v \in ToSet(q.log) : v.artifact = op.artifact /\ v.id = id
         /\ Once(r.log) => Once(q.log)
<1>. DEFINE old == ContentId(r, content)
            e == [artifact |-> op.artifact, id |-> old, at |-> at]
            used == \E v \in ToSet(r.log) : v.artifact = op.artifact /\ v.id = old
<1>1. /\ r.contents \in Seq(Content) /\ r.log \in Seq(LogEntry)
      /\ content \in Content
  BY DEF RegistryType, CreateOK, Content
<1>2. q = [contents |-> IF old \in DOMAIN r.contents THEN r.contents
                        ELSE Append(r.contents, content),
           log |-> IF used /\ op.ifExists = "FIND_OR_CREATE_VERSION" THEN r.log
                   ELSE Append(r.log, e)]
  BY DEF Created
<1>3. q.contents = IF old \in DOMAIN r.contents THEN r.contents ELSE Append(r.contents, content)
  BY <1>2
<1>4. q.log = IF used THEN r.log ELSE Append(r.log, e)
  BY <1>2 DEF CreateOK
<1>5. /\ q.contents \in Seq(Content)
      /\ \A i \in DOMAIN r.contents : i \in DOMAIN q.contents /\ q.contents[i] = r.contents[i]
      /\ \A i \in DOMAIN q.contents : i \in DOMAIN r.contents \/ q.contents[i] = content
      /\ old \in DOMAIN q.contents /\ q.contents[old] = content /\ id = old /\ old \in Nat
  <2>1. /\ DOMAIN r.contents = 1..Len(r.contents) /\ Len(r.contents) \in Nat
    BY <1>1
  <2>2. CASE \E i \in DOMAIN r.contents : r.contents[i] = content
    <3>1. old \in DOMAIN r.contents /\ r.contents[old] = content
      BY <2>2, ContentIdIs
    <3>2. q.contents = r.contents
      BY <1>3, <3>1
    <3>3. id = old
      BY <3>2 DEF ContentId
    <3>. QED
      BY <1>1, <2>1, <3>1, <3>2, <3>3
  <2>3. CASE ~\E i \in DOMAIN r.contents : r.contents[i] = content
    <3>. DEFINE n == Len(r.contents)
                t == Append(r.contents, content)
    <3>1. old = n + 1
      BY <2>3, ContentIdIs
    <3>2. q.contents = t
      BY <1>3, <2>1, <3>1
    <3>3. /\ t \in Seq(Content) /\ Len(t) = n + 1
          /\ \A k \in 1..n : t[k] = r.contents[k]
          /\ t[n + 1] = content
      BY <1>1, AppendedElements
    <3>. HIDE DEF t, n
    <3>4. n \in Nat /\ DOMAIN r.contents = 1..n /\ DOMAIN t = 1..(n + 1)
      BY <2>1, <3>3 DEF n
    <3>5. /\ \A i \in 1..n : i \in 1..(n + 1)
          /\ \A i \in 1..(n + 1) : i \in 1..n \/ i = n + 1
          /\ n + 1 \in 1..(n + 1) /\ n + 1 \in Nat
      BY <3>4
    <3>6. id \in DOMAIN t /\ t[id] = content
      BY <3>2, <3>3, <3>4, <3>5, ContentIdIs
    <3>7. id = n + 1
      BY <2>3, <3>3, <3>4, <3>5, <3>6
    <3>. QED
      BY <3>1, <3>2, <3>3, <3>4, <3>5, <3>7
  <2>. QED
    BY <2>2, <2>3
<1>6. e \in LogEntry /\ e.at = at /\ e.artifact = op.artifact /\ e.id = old
  BY <1>5 DEF LogEntry, CreateOK
<1>. HIDE DEF e, old
<1>7. /\ q.log \in Seq(LogEntry) /\ ToSet(q.log) \subseteq ToSet(r.log) \cup {e}
      /\ ToSet(r.log) \subseteq ToSet(q.log)
      /\ q.log # r.log => e \in ToSet(q.log)
  BY <1>1, <1>4, <1>6, AppendedElements
<1>8. q \in RegistryType
  BY <1>2, <1>3, <1>5, <1>7 DEF RegistryType
<1>9. IdsKnown(q) /\ Before(q, at)
  BY <1>5, <1>6, <1>7 DEF IdsKnown, Before
<1>10. Grows(q, r, at)
  <2>1. q.log \in {r.log, Append(r.log, e)}
    BY <1>4
  <2>. QED
    BY <1>5, <1>6, <1>8, <2>1, LogGrows
<1>11. \E v \in ToSet(q.log) : v.artifact = op.artifact /\ v.id = id
  <2>1. CASE used
    BY <1>5, <1>7, <2>1
  <2>2. CASE ~used
    <3>1. q.log = Append(r.log, e)
      BY <1>4, <2>2
    <3>2. e \in ToSet(Append(r.log, e))
      BY <1>1, <1>6, AppendedElements
    <3>. QED
      BY <1>5, <1>6, <3>1, <3>2
  <2>. QED
    BY <2>1, <2>2
<1>12. Once(r.log) => Once(q.log)
  BY <1>1, <1>4, <1>6, AppendedOnce
<1>. QED
  BY <1>5, <1>8, <1>9, <1>10, <1>11, <1>12
LEMMA AnswerIs ==
  ASSUME NEW r, NEW op
  PROVE  /\ op.kind = "create" => Answer(r, op) =
              VersionAnswer(r, op.artifact, VersionWith(r, op.artifact,
                ContentId(r, [doc |-> op.doc, refs |-> op.refs])))
         /\ op.kind = "version" => Answer(r, op) =
              VersionAnswer(r, op.artifact, Numbered(r, op.artifact, op.version))
         /\ op.kind = "content" =>
              Answer(r, op) = [doc |-> r.contents[ContentAt(r, op.source)].doc]
         /\ op.kind = "references" =>
              Answer(r, op) = [refs |-> r.contents[ContentAt(r, op.source)].refs]
         /\ op.kind = "search" => Answer(r, op) = SearchAnswer(r, op)
<1>1. ASSUME op.kind = "create"
      PROVE  Answer(r, op) = VersionAnswer(r, op.artifact, VersionWith(r, op.artifact,
               ContentId(r, [doc |-> op.doc, refs |-> op.refs])))
  BY <1>1, Zenon DEF Answer
<1>2. ASSUME op.kind = "version"
      PROVE  Answer(r, op) = VersionAnswer(r, op.artifact, Numbered(r, op.artifact, op.version))
  BY <1>2, Zenon DEF Answer
<1>3. ASSUME op.kind = "content"
      PROVE  Answer(r, op) = [doc |-> r.contents[ContentAt(r, op.source)].doc]
  BY <1>3, Zenon DEF Answer
<1>4. ASSUME op.kind = "references"
      PROVE  Answer(r, op) = [refs |-> r.contents[ContentAt(r, op.source)].refs]
  BY <1>4, Zenon DEF Answer
<1>5. ASSUME op.kind = "search" PROVE Answer(r, op) = SearchAnswer(r, op)
  BY <1>5, Zenon DEF Answer
<1>. QED
  BY <1>1, <1>2, <1>3, <1>4, <1>5

LEMMA SourceKinds ==
  ASSUME NEW source \in Source
  PROVE  /\ source \in [id : Nat] => "id" \in DOMAIN source /\ "artifact" \notin DOMAIN source
         /\ source \in Reference => "id" \notin DOMAIN source /\ "artifact" \in DOMAIN source
         /\ source \in [id : Nat] \/ source \in Reference
  BY DEF Source, Reference

\* One page of the matches.
LEMMA PageIs ==
  ASSUME NEW r \in RegistryType, NEW op, OpOK(r, op), op.kind = "search", NEW at
  PROVE  PageTrue(r, op.id, op.offset, SearchAnswer(r, op), at)
<1>. DEFINE s == VersionsWith(r, op.id)
            m == op.offset
            last == IF m + op.limit < Len(s) THEN m + op.limit ELSE Len(s)
            page == SubSeq(s, m + 1, last)
            answer == SearchAnswer(r, op)
<1>1. answer = [page |-> page, count |-> Len(s)]
  BY DEF SearchAnswer
<1>2. answer.page = page /\ answer.count = Len(s)
  <2>. HIDE DEF page, s, answer
  <2>. QED
    BY <1>1
<1>3. s \in Seq(LogEntry)
  BY MatchesAre
<1>4. m \in Nat /\ op.limit = PageSize /\ m <= Len(s) /\ PageSize \in Nat \ {0}
  BY ResolutionAssumption DEF OpOK
<1>. HIDE DEF s, m, answer
<1>5. Len(s) \in Nat /\ DOMAIN s = 1..Len(s)
  BY <1>3
<1>6. last \in Nat /\ m <= last /\ last <= Len(s) /\ (last < Len(s) => last = m + PageSize)
  BY <1>4, <1>5
<1>. HIDE DEF last
<1>7. /\ page \in Seq(LogEntry) /\ Len(page) = last - m
      /\ \A i \in 1..Len(page) : page[i] = s[m + i]
  <2>1. \A i \in (m + 1)..last : s[i] \in LogEntry
    BY <1>3, <1>4, <1>5, <1>6
  <2>2. m + 1 \in Int /\ last \in Int
    BY <1>4, <1>6
  <2>3. /\ page \in Seq(LogEntry)
        /\ Len(page) = IF m + 1 <= last THEN last - (m + 1) + 1 ELSE 0
        /\ \A i \in 1..(last - (m + 1) + 1) : page[i] = s[m + 1 + i - 1]
    BY <2>1, <2>2, SubSeqProperties
  <2>. HIDE DEF page
  <2>4. Len(page) = last - m /\ last - (m + 1) + 1 = last - m
    BY <1>4, <1>6, <2>3
  <2>5. ASSUME NEW i \in 1..Len(page) PROVE page[i] = s[m + i]
    <3>1. i \in 1..(last - (m + 1) + 1) /\ m + 1 + i - 1 = m + i
      BY <1>4, <1>6, <2>4
    <3>2. page[i] = s[m + 1 + i - 1]
      BY <2>3, <3>1
    <3>. QED
      BY <3>1, <3>2
  <2>. QED
    BY <2>3, <2>4, <2>5
<1>8. ASSUME LastPage(m + Len(page), answer) PROVE last = Len(s)
  <2>1. page = <<>> => Len(page) = 0
    <3>. HIDE DEF page
    <3>. QED
      OBVIOUS
  <2>. HIDE DEF page
  <2>2. m + Len(page) = last /\ Len(page) \in Nat
    BY <1>4, <1>6, <1>7
  <2>3. page = <<>> \/ last >= Len(s) \/ Len(page) < PageSize
    BY <1>2, <1>8, <2>2 DEF LastPage
  <2>. QED
    <3>. DEFINE l == Len(page)
                n == Len(s)
    <3>1. /\ l \in Nat /\ n \in Nat /\ m \in Nat /\ last \in Nat /\ PageSize \in Nat
          /\ PageSize # 0 /\ m + l = last /\ last <= n
          /\ last < n => last = m + PageSize
          /\ l = 0 \/ last >= n \/ l < PageSize
      BY <1>4, <1>5, <1>6, <2>1, <2>2, <2>3
    <3>. HIDE DEF l, n
    <3>2. last = n
      BY <3>1
    <3>. QED
      BY <3>2 DEF n
<1>9. m + Len(page) = last
  BY <1>4, <1>6, <1>7
<1>. HIDE DEF page
<1>10. LastPage(m + Len(page), answer) => \A k \in DOMAIN s : k > m + Len(page) => s[k].at >= at
  BY <1>5, <1>8, <1>9
<1>. QED
  BY <1>2, <1>6, <1>7, <1>9, <1>10 DEF PageTrue, s, m, answer

\* Whatever is asked, the answer is true.
LEMMA Answers ==
  ASSUME NEW r \in RegistryType, IdsKnown(r), NEW op, OpOK(r, op), NEW at \in Nat, Before(r, at),
         NEW q, q = Handled(r, op, at), ~Missing(q, op)
  PROVE  ReplyTrue(q, op, Answer(q, op), at)
<1>1. CASE op.kind = "create"
  <2>. DEFINE content == [doc |-> op.doc, refs |-> op.refs]
              id == ContentId(q, content)
              k == VersionWith(q, op.artifact, id)
  <2>1. CreateOK(r, op) /\ q = Created(r, op, at)
    BY <1>1 DEF OpOK, Handled
  <2>2. /\ q \in RegistryType /\ IdsKnown(q)
        /\ id \in DOMAIN q.contents /\ q.contents[id] = content
        /\ \E v \in ToSet(q.log) : v.artifact = op.artifact /\ v.id = id
        /\ Grows(q, r, at)
    BY <2>1, CreatedIs
  <2>. HIDE DEF content, id
  <2>3. k \in DOMAIN VersionsOf(q, op.artifact) /\ VersionsOf(q, op.artifact)[k].id = id
    BY <2>2, NewestIsOne
  <2>4. k \in Nat /\ id \in Nat
    BY <2>2, <2>3, VersionsAre DEF RegistryType
  <2>. HIDE DEF k
  <2>5. Answer(q, op) = [version |-> k, id |-> id]
    BY <1>1, <2>3, AnswerIs DEF VersionAnswer, content, id, k
  <2>6. IsVersion(q, op.artifact, Answer(q, op)) /\ q.contents[Answer(q, op).id].doc = op.doc
    BY <2>2, <2>3, <2>4, <2>5 DEF IsVersion, Answered, content
  <2>7. IsLocal(q, Answer(q, op).id)
    <3>1. RefsTrue(r, content)
      BY <2>1 DEF CreateOK, content
    <3>2. Lasts(q, r)
      BY <2>2, GrowthLasts
    <3>3. RefsTrue(q, content)
      BY <3>1, <3>2 DEF RefsTrue, Lasts
    <3>. QED
      BY <2>2, <2>5, <3>3, MadeLocal
  <2>. QED
    BY <1>1, <2>6, <2>7 DEF ReplyTrue
<1>2. CASE op.kind # "create"
  <2>1. q = r
    BY <1>2 DEF Handled
  <2>2. CASE op.kind = "version"
    <3>. DEFINE s == VersionsOf(r, op.artifact)
                k == Numbered(r, op.artifact, op.version)
    <3>1. k \in DOMAIN s
      BY <2>1, <2>2 DEF Missing, HasVersion
    <3>2. s \in Seq(LogEntry)
      BY VersionsAre
    <3>3. s[k] \in LogEntry /\ k \in 1..Len(s) /\ DOMAIN s = 1..Len(s)
      BY <3>1, <3>2
    <3>4. op.version = Latest => k = Len(s)
      BY DEF Numbered
    <3>5. op.version # Latest => k = op.version
      BY DEF Numbered
    <3>6. Answer(q, op) = [version |-> k, id |-> s[k].id]
      BY <2>1, <2>2, AnswerIs DEF VersionAnswer
    <3>. HIDE DEF s, k
    <3>7. s[k].id \in Nat /\ k \in Nat
      BY <3>3 DEF LogEntry
    <3>8. IsVersion(r, op.artifact, Answer(q, op))
      BY <3>1, <3>6, <3>7 DEF IsVersion, Answered, s
    <3>9. ASSUME op.version = Latest, NEW j \in DOMAIN s, j > k PROVE FALSE
      BY <3>3, <3>4, <3>9
    <3>10. VersionTrue(r, op.artifact, op.version, Answer(q, op), at)
      BY <3>5, <3>6, <3>8, <3>9 DEF VersionTrue, s
    <3>. QED
      BY <2>1, <2>2, <3>10 DEF ReplyTrue
  <2>3. CASE op.kind \in {"content", "references"}
    <3>1. op.source \in Source /\ (op.source \in [id : Nat] => IsKnown(r, op.source))
      BY <2>3 DEF OpOK
    <3>2. ASSUME op.source \in Reference PROVE IsKnown(r, op.source)
      <4>1. "artifact" \in DOMAIN op.source /\ "id" \notin DOMAIN op.source
        BY <3>1, <3>2, SourceKinds
      <4>2. HasVersion(r, op.source.artifact, op.source.version) /\ op.source.version # Latest
        BY <2>1, <2>3, <3>2, <4>1 DEF Missing, Reference, Latest
      <4>. QED
        BY <4>1, <4>2 DEF HasVersion, Numbered, IsKnown
    <3>3. IsKnown(r, op.source)
      BY <3>1, <3>2, SourceKinds
    <3>. DEFINE c == r.contents[ContentAt(r, op.source)]
                answer == Answer(r, op)
    <3>4. /\ op.kind = "content" => answer = [doc |-> c.doc]
          /\ op.kind = "references" => answer = [refs |-> c.refs]
      BY AnswerIs
    <3>. HIDE DEF c, answer
    <3>5. /\ op.kind = "content" => answer.doc = c.doc
          /\ op.kind = "references" => answer.refs = c.refs
      BY <3>4
    <3>6. ReplyTrue(r, op, answer, at)
      BY <2>3, <3>3, <3>5 DEF ReplyTrue, c
    <3>. QED
      BY <2>1, <3>6 DEF answer
  <2>4. CASE op.kind = "search"
    <3>1. PageTrue(r, op.id, op.offset, SearchAnswer(r, op), at)
      BY <2>4, PageIs
    <3>2. Answer(q, op) = SearchAnswer(r, op)
      BY <2>1, <2>4, AnswerIs
    <3>. QED
      BY <2>1, <2>4, <3>1, <3>2 DEF ReplyTrue
  <2>. QED
    BY <1>2, <2>2, <2>3, <2>4 DEF OpOK
<1>. QED
  BY <1>1, <1>2
----------------------------------------------------------------------------
(* The invariant, and the steps around the lookup.                         *)

\* The request that a call makes.
Asks(frame, op) ==
  /\ frame.op \in {"register", "version", "artifact", "metadata"}
  /\ frame.op = "register" =>
       Len(frame.got) = Len(DocRefs[frame.doc]) /\ op = CreateVersion(frame)
  /\ frame.op = "version" =>
       op = [kind |-> "version", artifact |-> frame.artifact, version |-> frame.version]
  /\ frame.op = "artifact" /\ frame.doc = NoDoc =>
       op = [kind |-> "content", source |-> frame.source]
  /\ frame.op = "artifact" /\ frame.doc # NoDoc =>
       op = [kind |-> "references", source |-> frame.source]
  /\ frame.op = "metadata" =>
       op = [kind |-> "search", id |-> frame.id, offset |-> Len(frame.values), limit |-> PageSize]

RegistryOK(r, time) == r \in RegistryType /\ IdsKnown(r) /\ Before(r, time)

\* While something is asked, the call on top asks it.
AskedOK == request.phase # "idle" => frames # <<>> /\ Asks(Head(frames), request.op)

\* An answer was true when it was given, and is not on its way for long.
AnsweredOK ==
  request.phase = "answered" =>
    /\ request.at \in Nat /\ request.at <= now /\ now <= request.at + Latency
    /\ ReplyTrue(registry, request.op, reply, request.at)

\* A field's call goes on with a version at hand.
TopOK(calls) == calls # <<>> /\ Head(calls).op = "resolve" => Head(calls).version # None

LookupInv ==
  /\ ClientInv
  /\ setup \in Setups /\ pending \in Seq(Field)
  /\ RegistryOK(registry, now) /\ RefsOK(setup, registry)
  /\ CallsOK(setup, registry, frames, pending) /\ TopOK(frames)
  /\ AskedOK /\ AnsweredOK
  /\ CacheOK(cache, registry, now)
  /\ RegisteredOK(registered, registry)
  /\ ResolvedOK(resolved, setup, registry)

LEMMA ReferencesAreTrue ==
  ASSUME NEW r \in RegistryType, NEW f \in RegisterFrame, AreReferred(r, f.doc, f.got),
         Len(f.got) = Len(DocRefs[f.doc])
  PROVE  CreateOK(r, CreateVersion(f)) /\ CreateVersion(f).kind = "create"
<1>. DEFINE refs == References(f.doc, f.got)
            n == Len(DocRefs[f.doc])
<1>1. f.doc \in Docs /\ f.artifact \in Artifacts /\ f.got \in Seq(Nat)
  BY DEF RegisterFrame
<1>2. n \in Nat /\ \A i \in 1..n : DocRefs[f.doc][i] \in Artifacts
  BY <1>1, ResolutionAssumption
<1>3. ASSUME NEW i \in 1..n
      PROVE  f.got[i] \in Nat \ {0} /\ HasDoc(r, DocRefs[f.doc][i], f.got[i], DocRefs[f.doc][i])
  <2>1. HasDoc(r, DocRefs[f.doc][i], f.got[i], DocRefs[f.doc][i])
    BY DEF AreReferred
  <2>2. f.got[i] \in DOMAIN VersionsOf(r, DocRefs[f.doc][i])
    BY <2>1, Zenon DEF HasDoc
  <2>. DEFINE versions == VersionsOf(r, DocRefs[f.doc][i])
  <2>3. versions \in Seq(LogEntry)
    BY VersionsAre
  <2>. HIDE DEF versions
  <2>4. DOMAIN versions = 1..Len(versions) /\ Len(versions) \in Nat
    BY <2>3
  <2>5. f.got[i] \in Nat \ {0}
    BY <2>2, <2>4 DEF versions
  <2>. QED  BY <2>1, <2>5
<1>4. refs = [i \in 1..n |-> [artifact |-> DocRefs[f.doc][i], version |-> f.got[i]]]
  BY DEF References
<1>. HIDE DEF refs, n
<1>5. \A i \in 1..n : refs[i] \in Reference /\ refs[i].artifact = DocRefs[f.doc][i]
                      /\ refs[i].version = f.got[i]
  BY <1>2, <1>3, <1>4 DEF Reference
<1>6. refs \in Seq(Reference) /\ Len(refs) = n
  BY <1>2, <1>4, <1>5
<1>7. CreateVersion(f) = [kind |-> "create", artifact |-> f.artifact, doc |-> f.doc,
                          refs |-> refs, ifExists |-> "FIND_OR_CREATE_VERSION"]
  BY DEF CreateVersion, refs
<1>8. RefsTrue(r, [doc |-> f.doc, refs |-> refs])
  BY <1>3, <1>5, <1>6 DEF RefsTrue, n
<1>. QED
  BY <1>1, <1>6, <1>7, <1>8 DEF CreateOK

LEMMA AskedOp ==
  ASSUME NEW r \in RegistryType, NEW s, NEW f \in Frame, FrameTrue(s, r, f), NEW op, Asks(f, op)
  PROVE  OpOK(r, op)
<1>1. CASE f.op = "register"
  BY <1>1, FrameKinds, ReferencesAreTrue DEF Asks, OpOK, FrameTrue
<1>2. CASE f.op = "version"
  BY <1>2, FrameKinds DEF Asks, OpOK, VersionFrame
<1>3. CASE f.op = "artifact"
  BY <1>3, FrameKinds DEF Asks, OpOK, ArtifactFrame, FrameTrue, ArtifactTrue
<1>4. CASE f.op = "metadata"
  BY <1>4, FrameKinds DEF Asks, OpOK, MetadataFrame, FrameTrue, MetadataTrue
<1>. QED
  BY <1>1, <1>2, <1>3, <1>4 DEF Asks

LEMMA OpIsOK ==
  ASSUME LookupInv, request.phase # "idle"
  PROVE  OpOK(registry, request.op)
<1>1. frames # <<>> /\ Asks(Head(frames), request.op) /\ CallsOK(setup, registry, frames, pending)
  BY DEF LookupInv, AskedOK
<1>2. Head(frames) \in Frame /\ FrameTrue(setup, registry, Head(frames))
  BY <1>1, HasCaller DEF CallsOK, CallsTrue
<1>. QED
  BY <1>1, <1>2, AskedOp DEF LookupInv, RegistryOK

\* The rest stays true when the registry grows, or time goes on.
LEMMA GrowthKeeps ==
  ASSUME LookupInv, ClientInv', UNCHANGED <<resolution>>,
         RegistryOK(registry', now'), Grows(registry', registry, now), now' \in Nat, now <= now',
         RefsOK(setup, registry'), AskedOK', AnsweredOK'
  PROVE  LookupInv'
<1>1. now \in Nat /\ registry \in RegistryType /\ registry' \in RegistryType /\ IdsKnown(registry)
  BY DEF LookupInv, RegistryOK, ClientInv, ClientTypeOK
<1>2. UNCHANGED <<setup, pending, frames, cache, registered, resolved>>
  BY DEF resolution, composer, kept
<1>3. CallsOK(setup, registry', frames, pending)
  BY <1>1, CallsLast DEF LookupInv
<1>4. CacheOK(cache, registry', now')
  <2>1. CacheOK(cache, registry', now)
    BY <1>1, CacheLasts DEF LookupInv
  <2>2. \A item \in ToSet(cache) : item.at \in Nat
    <3>1. cache \in Seq(CacheItem)
      BY <2>1 DEF CacheOK
    <3>2. \A item \in ToSet(cache) : item \in CacheItem
      BY <3>1 DEF ToSet
    <3>. QED
      BY <3>2 DEF CacheItem
  <2>3. \A item \in ToSet(cache) : item.at <= now'
    <3>1. \A a, b, c \in Nat : a <= b /\ b <= c => a <= c
      OBVIOUS
    <3>. QED
      BY <1>1, <2>1, <2>2, <3>1 DEF CacheOK
  <2>. QED
    BY <2>1, <2>3 DEF CacheOK
<1>5. RegisteredOK(registered, registry')
  BY <1>1, GrowthLasts, RegisteredLast DEF LookupInv
<1>6. ResolvedOK(resolved, setup, registry')
  BY <1>1, ResolvedLast DEF LookupInv
<1>. QED
  BY <1>2, <1>3, <1>4, <1>5, <1>6 DEF LookupInv

LEMMA NothingGrows ==
  ASSUME NEW r \in RegistryType, NEW time
  PROVE  Grows(r, r, time)
<1>1. ASSUME NEW s \in Seq(LogEntry) PROVE Continues(s, s, time)
  <2>1. Len(s) \in Nat
    OBVIOUS
  <2>. QED
    BY <2>1 DEF Continues
<1>2. \A a : VersionsOf(r, a) \in Seq(LogEntry) /\ VersionsWith(r, a) \in Seq(LogEntry)
  BY VersionsAre, MatchesAre
<1>. QED
  BY <1>1, <1>2 DEF Grows

LEMMA RefsLast ==
  ASSUME NEW s, NEW r \in RegistryType, NEW q \in RegistryType, IdsKnown(r), NEW time,
         Grows(q, r, time), RefsOK(s, r),
         \A i \in DOMAIN q.contents : i \in DOMAIN r.contents \/ RefsTrue(r, q.contents[i])
  PROVE  RefsOK(s, q)
<1>1. Lasts(q, r)
  BY GrowthLasts
<1>2. \A content : RefsTrue(r, content) => RefsTrue(q, content)
  BY <1>1 DEF RefsTrue, Lasts
<1>3. \A i \in DOMAIN r.contents : q.contents[i] = r.contents[i]
  BY DEF Grows
<1>. QED
  BY <1>2, <1>3 DEF RefsOK

\* A request that is handled.
LEMMA HandledKeeps ==
  ASSUME LookupInv, NEW op, OpOK(registry, op), NEW q, q = Handled(registry, op, now)
  PROVE  /\ RegistryOK(q, now) /\ Grows(q, registry, now) /\ RefsOK(setup, q)
         /\ Once(registry.log) => Once(q.log)
<1>1. now \in Nat /\ registry \in RegistryType /\ IdsKnown(registry) /\ Before(registry, now)
  BY DEF LookupInv, RegistryOK, ClientInv, ClientTypeOK
<1>2. CASE op.kind = "create"
  <2>. DEFINE content == [doc |-> op.doc, refs |-> op.refs]
  <2>1. CreateOK(registry, op) /\ q = Created(registry, op, now)
    BY <1>2 DEF OpOK, Handled
  <2>2. /\ q \in RegistryType /\ IdsKnown(q) /\ Before(q, now) /\ Grows(q, registry, now)
        /\ \A i \in DOMAIN q.contents : i \in DOMAIN registry.contents \/ q.contents[i] = content
        /\ Once(registry.log) => Once(q.log)
    BY <1>1, <2>1, CreatedIs
  <2>3. RefsTrue(registry, content)
    BY <2>1 DEF CreateOK
  <2>. HIDE DEF content
  <2>4. RefsOK(setup, q)
    BY <1>1, <2>2, <2>3, RefsLast DEF LookupInv
  <2>. QED
    BY <2>2, <2>4 DEF RegistryOK
<1>3. CASE op.kind # "create"
  BY <1>1, <1>3, NothingGrows DEF Handled, LookupInv
<1>. QED
  BY <1>2, <1>3

LEMMA PublishedKeeps ==
  ASSUME LookupInv, NEW artifact \in Artifacts, NEW id, Publish(artifact, id)
  PROVE  /\ RegistryOK(registry', now) /\ Grows(registry', registry, now) /\ RefsOK(setup, registry')
         /\ Once(registry.log) => Once(registry'.log)
         /\ Published
<1>1. now \in Nat /\ registry \in RegistryType /\ IdsKnown(registry) /\ Before(registry, now)
  BY DEF LookupInv, RegistryOK, ClientInv, ClientTypeOK
<1>. DEFINE e == [artifact |-> artifact, id |-> id, at |-> now]
<1>2. registry.contents \in Seq(Content) /\ registry.log \in Seq(LogEntry)
  BY <1>1 DEF RegistryType
<1>3. id \in DOMAIN registry.contents
  BY DEF Publish
<1>4. e \in LogEntry /\ e.at = now /\ e.artifact = artifact /\ e.id = id
  BY <1>1, <1>2, <1>3 DEF LogEntry
<1>5. registry' = [registry EXCEPT !.log = Append(registry.log, e)]
  BY DEF Publish
<1>. HIDE DEF e
<1>6. registry'.contents = registry.contents /\ registry'.log = Append(registry.log, e)
  BY <1>1, <1>5 DEF RegistryType
<1>7. /\ Append(registry.log, e) \in Seq(LogEntry)
      /\ Len(Append(registry.log, e)) = Len(registry.log) + 1
      /\ Append(registry.log, e)[Len(registry.log) + 1] = e
      /\ ToSet(registry'.log) = ToSet(registry.log) \cup {e}
  BY <1>2, <1>4, <1>6, AppendedElements
<1>8. registry' \in RegistryType
  BY <1>1, <1>5, <1>7 DEF RegistryType
<1>9. IdsKnown(registry') /\ Before(registry', now)
  BY <1>1, <1>3, <1>4, <1>6, <1>7 DEF IdsKnown, Before
<1>10. Grows(registry', registry, now)
  BY <1>1, <1>4, <1>6, <1>8, LogGrows
<1>11. RefsOK(setup, registry')
  BY <1>1, <1>6, <1>8, <1>10, RefsLast DEF LookupInv
<1>12. Once(registry.log) => Once(registry'.log)
  BY <1>2, <1>4, <1>6, AppendedOnce DEF Publish
<1>13. Published
  <2>1. registry'.log # <<>> /\ registry'.log[Len(registry'.log)] = e
    BY <1>2, <1>6, <1>7
  <2>. QED
    BY <1>4, <2>1 DEF Published
<1>. QED
  BY <1>8, <1>9, <1>10, <1>11, <1>12, <1>13 DEF RegistryOK
LEMMA ReplyLasts ==
  ASSUME NEW r \in RegistryType, NEW q \in RegistryType, IdsKnown(r),
         NEW time \in Nat, Grows(q, r, time),
         NEW op, OpOK(r, op), NEW answer, NEW at \in Int, at <= time,
         ReplyTrue(r, op, answer, at)
  PROVE  ReplyTrue(q, op, answer, at)
<1>1. Lasts(q, r)
  BY GrowthLasts
<1>2. CASE op.kind = "create"
  BY <1>1, <1>2 DEF ReplyTrue, Lasts, IsVersion
<1>3. CASE op.kind = "version"
  <2>1. VersionTrue(q, op.artifact, op.version, answer, at)
    BY <1>3, VersionLasts DEF ReplyTrue
  <2>. QED
    BY <1>3, <2>1 DEF ReplyTrue
<1>4. CASE op.kind = "content" \/ op.kind = "references"
  BY <1>1, <1>4 DEF ReplyTrue, Lasts
<1>5. CASE op.kind = "search"
  <2>1. PageTrue(q, op.id, op.offset, answer, at)
    BY <1>5, PageLasts DEF ReplyTrue, OpOK
  <2>. QED
    BY <1>5, <2>1 DEF ReplyTrue
<1>. QED
  BY <1>2, <1>3, <1>4, <1>5 DEF OpOK

\* A request goes on, or ends, as what it was; only the registry answers it.
LEMMA RequestGoesOn ==
  ASSUME ClientInv, RequestStep
  PROVE  /\ request.phase # "idle" /\ request'.op = request.op /\ now' = now
         /\ registry' \in {registry, Handled(registry, request.op, now)}
         /\ request'.phase = "answered" =>
              /\ registry' = Handled(registry, request.op, now) /\ request'.at = now
              /\ ~Missing(registry, request.op) /\ reply' = Answer(registry', request.op)
<1>. DEFINE BecomesAt(p, a, f, at) == [op |-> request.op, phase |-> p, attempt |-> a, refreshed |-> f,
                                       sends |-> request.sends + 1, at |-> at]
            Becomes(p, a, f) == BecomesAt(p, a, f, request.at)
<1>1. ASSUME NEW reason, Failed(reason) PROVE request' = Becomes("failed", request.attempt, request.refreshed)
  BY <1>1, RequestIsItsFields DEF Failed
<1>2. ASSUME NEW reason, CountedRetry(reason)
      PROVE  \E p \in {"token", "failed"} : request' = Becomes(p, request.attempt + 1, request.refreshed)
  <2>1. CASE request.attempt + 1 < RetryCount + 1
    <3>1. request' = Becomes("token", request.attempt + 1, request.refreshed)
      BY <1>2, <2>1, RequestIsItsFields DEF CountedRetry
    <3>. QED
      BY <3>1
  <2>2. CASE ~(request.attempt + 1 < RetryCount + 1)
    <3>1. request' = Becomes("failed", request.attempt + 1, request.refreshed)
      BY <1>2, <2>2, RequestIsItsFields DEF CountedRetry
    <3>. QED
      BY <3>1
  <2>. QED
    BY <2>1, <2>2
<1>3. CASE FetchToken
  BY <1>3, RequestIsItsFields DEF FetchToken, WantsToken
<1>4. CASE FailToken
  BY <1>4, RequestIsItsFields DEF FailToken, WantsToken
<1>5. CASE Respond
  <2>1. CanSend /\ now' = now /\ registry' = Handled(registry, request.op, now)
    BY <1>5 DEF Respond
  <2>2. CASE Missing(registry, request.op)
    <3>1. Failed("not found")
      BY <1>5, <2>2 DEF Respond
    <3>2. request' = Becomes("failed", request.attempt, request.refreshed)
      BY <1>1, <3>1
    <3>. QED
      BY <2>1, <3>2 DEF CanSend
  <2>3. CASE ~Missing(registry, request.op)
    <3>1. request' = BecomesAt("answered", request.attempt, request.refreshed, now)
      BY <1>5, <2>3, RequestIsItsFields DEF Respond
    <3>2. reply' = Answer(registry', request.op)
      BY <1>5, <2>3 DEF Respond
    <3>. QED
      BY <2>1, <2>3, <3>1, <3>2 DEF CanSend
  <2>. QED
    BY <2>2, <2>3
<1>6. CASE Lose
  <2>1. CanSend /\ now' = now /\ registry' \in {registry, Handled(registry, request.op, now)}
    BY <1>6 DEF Lose
  <2>2. PICK p \in {"token", "failed"} : request' = Becomes(p, request.attempt + 1, request.refreshed)
    BY <1>2, <1>6 DEF Lose
  <2>. QED
    BY <2>1, <2>2 DEF CanSend
<1>7. CASE Overload
  <2>1. CanSend /\ now' = now /\ registry' = registry
    BY <1>7 DEF Overload
  <2>2. PICK p \in {"token", "failed"} : request' = Becomes(p, request.attempt + 1, request.refreshed)
    BY <1>2, <1>7 DEF Overload
  <2>. QED
    BY <2>1, <2>2 DEF CanSend
<1>8. CASE Refuse
  <2>1. CanSend /\ now' = now /\ registry' = registry
    BY <1>8 DEF Refuse
  <2>2. CASE MayRefresh
    <3>1. request' = Becomes("refresh", request.attempt, TRUE)
      BY <1>8, <2>2, RequestIsItsFields DEF Refuse
    <3>. QED
      BY <2>1, <3>1 DEF CanSend
  <2>3. CASE ~MayRefresh
    BY <1>1, <1>8, <2>1, <2>3 DEF Refuse, CanSend
  <2>. QED
    BY <2>2, <2>3
<1>9. CASE Forbid
  BY <1>1, <1>9 DEF Forbid, CanSend
<1>. QED
  BY <1>3, <1>4, <1>5, <1>6, <1>7, <1>8, <1>9 DEF RequestStep

LEMMA StepsAround ==
  ASSUME LookupInv, ClientStep \/ Trouble
  PROVE  /\ UNCHANGED resolution
         /\ \/ RequestStep \/ Tick \/ Revoke
            \/ \E artifact \in Artifacts : \E id : Publish(artifact, id)
<1>1. setup.others \subseteq Artifacts
  BY ResolutionAssumption DEF LookupInv
<1>2. CASE ClientStep
  BY <1>2 DEF ClientStep, RequestStep
<1>3. CASE Trouble
  BY <1>1, <1>3 DEF Trouble, RequestStep
<1>. QED
  BY <1>2, <1>3

LEMMA AroundIsClient == LookupInv /\ (ClientStep \/ Trouble) => ClientNext
<1>. SUFFICES ASSUME LookupInv, ClientStep \/ Trouble PROVE ClientNext
  OBVIOUS
<1>. QED
  BY StepsAround, PublishedKeeps DEF ClientNext

LEMMA AroundKeeps ==
  ASSUME LookupInv, ClientStep \/ Trouble
  PROVE  /\ LookupInv' /\ (Once(registry.log) => Once(registry'.log))
         /\ UNCHANGED resolution /\ Grows(registry', registry, now)
<1>1. UNCHANGED resolution
  BY StepsAround
<1>2. ClientInv' /\ ClientInv
  BY AroundIsClient, ClientStepKeeps DEF LookupInv
<1>3. /\ now \in Nat /\ now' \in Nat /\ RegistryOK(registry, now) /\ registry \in RegistryType
      /\ IdsKnown(registry) /\ Before(registry, now) /\ RefsOK(setup, registry)
  BY <1>2 DEF LookupInv, RegistryOK, ClientInv, ClientTypeOK
<1>4. UNCHANGED frames
  BY <1>1 DEF resolution
<1>5. CASE RequestStep
  <2>. DEFINE q == Handled(registry, request.op, now)
  <2>1. /\ request.phase # "idle" /\ request'.op = request.op /\ now' = now
        /\ registry' \in {registry, q}
        /\ request'.phase = "answered" =>
              /\ registry' = q /\ request'.at = now
              /\ ~Missing(registry, request.op) /\ reply' = Answer(registry', request.op)
    BY <1>2, <1>5, RequestGoesOn
  <2>2. OpOK(registry, request.op)
    BY <2>1, OpIsOK
  <2>3. RegistryOK(q, now) /\ Grows(q, registry, now) /\ RefsOK(setup, q)
        /\ (Once(registry.log) => Once(q.log))
    BY <2>2, HandledKeeps
  <2>4. /\ RegistryOK(registry', now') /\ Grows(registry', registry, now) /\ RefsOK(setup, registry')
        /\ (Once(registry.log) => Once(registry'.log))
    BY <1>3, <2>1, <2>3, NothingGrows
  <2>5. AskedOK'
    BY <1>4, <2>1 DEF LookupInv, AskedOK
  <2>6. AnsweredOK'
    <3>. SUFFICES ASSUME request'.phase = "answered"
                  PROVE  ReplyTrue(registry', request'.op, reply', now)
      BY <1>3, <2>1, ClientAssumption DEF AnsweredOK, ClientAssumption
    <3>1. ~Missing(registry', request.op)
      BY <2>1 DEF Missing, Handled
    <3>. QED
      BY <1>3, <2>1, <2>2, <3>1, Answers
  <2>7. now <= now'
    BY <1>3, <2>1
  <2>. QED
    BY <1>1, <1>2, <1>3, <2>4, <2>5, <2>6, <2>7, GrowthKeeps
<1>6. CASE Tick
  <2>1. now <= now' /\ UNCHANGED <<registry, request, reply>>
    BY <1>3, <1>6, ClientAssumption DEF Tick, Pause
  <2>2. RegistryOK(registry', now')
    <3>1. \A v \in ToSet(registry.log) : v.at \in Nat
      <4>1. registry.log \in Seq(LogEntry)
        BY <1>3 DEF RegistryType
      <4>2. \A v \in ToSet(registry.log) : v \in LogEntry
        BY <4>1 DEF ToSet
      <4>. QED
        BY <4>2 DEF LogEntry
    <3>2. \A a, b, c \in Nat : a <= b /\ b <= c => a <= c
      OBVIOUS
    <3>3. Before(registry, now')
      BY <1>3, <2>1, <3>1, <3>2 DEF Before
    <3>. QED
      BY <1>3, <2>1, <3>3 DEF RegistryOK
  <2>3. Grows(registry', registry, now)
    BY <1>3, <2>1, NothingGrows
  <2>4. AskedOK'
    BY <1>4, <2>1 DEF LookupInv, AskedOK
  <2>5. AnsweredOK'
    <3>. SUFFICES ASSUME request.phase = "answered"
                  PROVE  now' <= request.at + Latency
      BY <1>3, <2>1 DEF LookupInv, AnsweredOK
    <3>1. now = request.at /\ now' = now + Latency
      BY <1>6 DEF Tick, Waiting, Pause, OnItsWay
    <3>. QED
      BY <1>3, <3>1, ClientAssumption DEF ClientAssumption
  <2>. QED
    BY <1>1, <1>2, <1>3, <2>1, <2>2, <2>3, <2>4, <2>5, GrowthKeeps
<1>7. CASE Revoke
  <2>1. UNCHANGED <<registry, request, reply, now>> /\ now <= now'
    BY <1>3, <1>7 DEF Revoke
  <2>2. Grows(registry', registry, now)
    BY <1>3, <2>1, NothingGrows
  <2>3. AskedOK' /\ AnsweredOK'
    BY <1>4, <2>1 DEF LookupInv, AskedOK, AnsweredOK
  <2>. QED
    BY <1>1, <1>2, <1>3, <2>1, <2>2, <2>3, GrowthKeeps
<1>8. ASSUME NEW artifact \in Artifacts, NEW id, Publish(artifact, id)
      PROVE  /\ LookupInv' /\ (Once(registry.log) => Once(registry'.log))
             /\ Grows(registry', registry, now)
  <2>1. UNCHANGED <<request, reply, now>> /\ now <= now'
    BY <1>3, <1>8 DEF Publish
  <2>2. /\ RegistryOK(registry', now) /\ Grows(registry', registry, now) /\ RefsOK(setup, registry')
        /\ Once(registry.log) => Once(registry'.log)
    BY <1>8, PublishedKeeps
  <2>3. AskedOK'
    BY <1>4, <2>1 DEF LookupInv, AskedOK
  <2>4. AnsweredOK'
    <3>. SUFFICES ASSUME request.phase = "answered"
                  PROVE  ReplyTrue(registry', request.op, reply, request.at)
      BY <1>3, <2>1 DEF LookupInv, AnsweredOK
    <3>1. ReplyTrue(registry, request.op, reply, request.at) /\ request.at \in Nat /\ request.at <= now
      BY DEF LookupInv, AnsweredOK
    <3>2. OpOK(registry, request.op)
      BY OpIsOK
    <3>. QED
      BY <1>3, <2>2, <3>1, <3>2, ReplyLasts DEF RegistryOK
  <2>. QED
    BY <1>1, <1>2, <1>3, <2>1, <2>2, <2>3, <2>4, GrowthKeeps
<1>. QED
  BY <1>1, <1>5, <1>6, <1>7, <1>8, StepsAround
----------------------------------------------------------------------------
(* What a call returns makes its caller go on.                             *)

Resuming(calls, value) == <<Resumed(calls[2], value)>> \o Tail(Tail(calls))

LEMMA ResumedIs ==
  ASSUME NEW f, NEW value
  PROVE  /\ f.op = "register" =>
              Resumed(f, value) = [f EXCEPT !.got = Append(f.got, value.version)]
         /\ f.op = "artifact" => Resumed(f, value) = [f EXCEPT !.typed = TypeOf(value)]
         /\ f.op = "collect" /\ f.found = None => Resumed(f, value) = [f EXCEPT !.found = value]
         /\ f.op = "collect" /\ f.found # None =>
              Resumed(f, value) = [f EXCEPT !.found = None, !.next = f.next + 1]
         /\ f.op = "resolve" /\ f.version = None =>
              Resumed(f, value) = [f EXCEPT !.version = value]
         /\ f.op = "resolve" /\ f.version # None =>
              Resumed(f, value) = [f EXCEPT !.artifact = value]
<1>1. ASSUME f.op = "register"
      PROVE  Resumed(f, value) = [f EXCEPT !.got = Append(f.got, value.version)]
  BY <1>1, Zenon DEF Resumed
<1>2. ASSUME f.op = "artifact" PROVE Resumed(f, value) = [f EXCEPT !.typed = TypeOf(value)]
  BY <1>2, Zenon DEF Resumed
<1>3. ASSUME f.op = "collect", f.found = None
      PROVE  Resumed(f, value) = [f EXCEPT !.found = value]
  BY <1>3, Zenon DEF Resumed
<1>4. ASSUME f.op = "collect", f.found # None
      PROVE  Resumed(f, value) = [f EXCEPT !.found = None, !.next = f.next + 1]
  BY <1>4, Zenon DEF Resumed
<1>5. ASSUME f.op = "resolve", f.version = None
      PROVE  Resumed(f, value) = [f EXCEPT !.version = value]
  BY <1>5, Zenon DEF Resumed
<1>6. ASSUME f.op = "resolve", f.version # None
      PROVE  Resumed(f, value) = [f EXCEPT !.artifact = value]
  BY <1>6, Zenon DEF Resumed
<1>. QED
  BY <1>1, <1>2, <1>3, <1>4, <1>5, <1>6

\* Every call reads a call's own fields only.
LEMMA CalleeIs ==
  ASSUME NEW s, NEW f \in Frame, NEW e \in Frame, e.op = f.op,
         f.op = "artifact" => e.source = f.source,
         f.op = "register" => e.doc = f.doc /\ e.artifact = f.artifact,
         f.op = "metadata" => e.id = f.id,
         f.op = "collect" => e.ref = f.ref /\ e.doc = f.doc /\ e.refs = f.refs,
         f.op # "version"
  PROVE  \A g \in Frame : WaitsFor(s, g, f) => WaitsFor(s, g, e)
<1>. SUFFICES ASSUME NEW g \in Frame, WaitsFor(s, g, f) PROVE WaitsFor(s, g, e)
  OBVIOUS
<1>1. WaitsForRegister(s, g, f) /\ f.op = "register" => WaitsForRegister(s, g, e)
  BY DEF WaitsForRegister
<1>2. WaitsForArtifact(g, f) /\ f.op = "artifact" => WaitsForArtifact(g, e)
  BY DEF WaitsForArtifact
<1>3. WaitsForMetadata(g, f) /\ f.op = "metadata" => WaitsForMetadata(g, e)
  BY DEF WaitsForMetadata
<1>4. WaitsForCollect(g, f) /\ f.op = "collect" => WaitsForCollect(g, e)
  BY DEF WaitsForCollect
<1>. QED
  BY <1>1, <1>2, <1>3, <1>4 DEF WaitsFor

LEMMA ReturnsInto ==
  ASSUME NEW s, NEW r, NEW calls, NEW todo, CallsOK(s, r, calls, todo), calls # <<>>,
         Head(calls).op # "resolve", calls[2].op # "version",
         NEW f \in Frame, FrameTrue(s, r, f), f.op = calls[2].op,
         f.op = "resolve" => f.field = calls[2].field /\ f.version # None,
         f.op = "artifact" => f.source = calls[2].source,
         f.op = "register" => f.doc = calls[2].doc /\ f.artifact = calls[2].artifact,
         f.op # "metadata",
         f.op = "collect" => f.ref = calls[2].ref /\ f.doc = calls[2].doc /\ f.refs = calls[2].refs
  PROVE  /\ CallsOK(s, r, <<f>> \o Tail(Tail(calls)), todo)
         /\ TopOK(<<f>> \o Tail(Tail(calls)))
<1>1. calls[2] \in Frame
  BY HasCaller DEF CallsOK
<1>2. \A g \in Frame : WaitsFor(s, g, calls[2]) => WaitsFor(s, g, f)
  BY <1>1, CalleeIs
<1>3. CallsOK(s, r, <<f>> \o Tail(Tail(calls)), todo)
  BY <1>2, CallReturns
<1>4. Head(<<f>> \o Tail(Tail(calls))) = f
  <2>1. calls \in Seq(Frame) /\ Len(calls) >= 2
    BY HasCaller DEF CallsOK, Stacked
  <2>2. Tail(Tail(calls)) \in Seq(Frame)
    BY <2>1, Popped
  <2>. QED
    BY <2>2, Pushed
<1>. QED
  BY <1>3, <1>4 DEF TopOK

LEMMA NoneIsNothing ==
  /\ \A x \in Reference : x # None
  /\ \A x \in Content : x # None
  /\ \A x \in Answered : x # None
  BY ResolutionAssumption

\* _register() has a version with its document.
LEMMA RegisterReturns ==
  ASSUME NEW s, NEW r \in RegistryType, NEW calls, NEW todo, CallsOK(s, r, calls, todo),
         calls # <<>>, Head(calls).op = "register",
         NEW value, IsVersion(r, Head(calls).artifact, value),
         r.contents[value.id].doc = Head(calls).doc, IsLocal(r, value.id)
  PROVE  CallsOK(s, r, Resuming(calls, value), todo) /\ TopOK(Resuming(calls, value))
<1>. DEFINE f == Head(calls)
            g == calls[2]
            h == Resumed(g, value)
<1>1. /\ f \in Frame /\ g \in Frame /\ WaitsForRegister(s, g, f) /\ FrameTrue(s, r, g)
  <2>1. /\ f \in Frame /\ g \in Frame /\ WaitsFor(s, g, f)
        /\ Len(calls) \in Nat /\ Len(calls) >= 2
    BY HasCaller DEF CallsOK
  <2>. QED
    BY <2>1 DEF CallsOK, CallsTrue, WaitsFor
<1>2. value \in Answered /\ value # None
  BY NoneIsNothing DEF IsVersion
<1>3. f \in RegisterFrame /\ f.doc \in Docs
  BY <1>1, FrameKinds DEF RegisterFrame
<1>4. CASE g.op = "register"
  <2>1. g \in RegisterFrame /\ AreReferred(r, g.doc, g.got)
    BY <1>1, <1>4, FrameKinds DEF FrameTrue
  <2>2. g.got \in Seq(Nat) /\ g.doc \in Docs /\ value.version \in Nat
    BY <1>2, <2>1 DEF RegisterFrame, Answered
  <2>. DEFINE got == Append(g.got, value.version)
              n == Len(g.got)
  <2>3. /\ got \in Seq(Nat) /\ Len(got) = n + 1 /\ n \in Nat
        /\ \A k \in 1..n : got[k] = g.got[k]
        /\ got[n + 1] = value.version
    BY <2>2, AppendedElements
  <2>4. Len(g.got) < Len(DocRefs[g.doc]) /\ f.doc = DocRefs[g.doc][n + 1] /\ f.artifact = f.doc
    BY <1>1, <1>4 DEF WaitsForRegister
  <2>. HIDE DEF got
  <2>5. h = [g EXCEPT !.got = got]
    BY <1>4, ResumedIs DEF got
  <2>. HIDE DEF h, g, f
  <2>6. h \in RegisterFrame /\ h.doc = g.doc /\ h.artifact = g.artifact /\ h.got = got
        /\ h.op = "register"
    BY <2>1, <2>3, <2>5 DEF RegisterFrame
  <2>7. AreReferred(r, g.doc, got)
    <3>1. HasDoc(r, f.artifact, value.version, f.doc)
      BY DEF IsVersion, HasDoc, f
    <3>2. Len(DocRefs[g.doc]) \in Nat
      BY <2>2, ResolutionAssumption
    <3>3. \A k \in 1..(n + 1) : k \in 1..n \/ k = n + 1
      BY <2>3
    <3>4. ASSUME NEW k \in 1..Len(got) PROVE HasDoc(r, DocRefs[g.doc][k], got[k], DocRefs[g.doc][k])
      <4>1. CASE k \in 1..n
        BY <2>1, <2>3, <4>1 DEF AreReferred
      <4>2. CASE k = n + 1
        BY <2>3, <2>4, <3>1, <4>2
      <4>. QED
        BY <2>3, <3>3, <4>1, <4>2
    <3>. QED
      BY <2>3, <2>4, <3>2, <3>4 DEF AreReferred
  <2>8. h \in Frame /\ FrameTrue(s, r, h)
    BY <2>6, <2>7 DEF Frame, FrameTrue
  <2>. QED
    BY <1>4, <2>6, <2>8, ReturnsInto DEF Resuming, h, g
<1>5. CASE g.op = "resolve"
  <2>1. /\ g \in ResolveFrame /\ g.version = None /\ ResolveTrue(s, r, g)
        /\ f.doc = s.document[g.field] /\ f.artifact = s.artifact[g.field]
    BY <1>1, <1>5, FrameKinds DEF FrameTrue, WaitsForRegister
  <2>2. h = [g EXCEPT !.version = value]
    BY <1>5, <2>1, ResumedIs
  <2>3. g.artifact = None
    BY <2>1 DEF ResolveTrue
  <2>. HIDE DEF h, g, f
  <2>4. h \in ResolveFrame /\ h.field = g.field /\ h.version = value /\ h.artifact = None
        /\ h.op = "resolve"
    BY <1>2, <2>1, <2>2, <2>3 DEF ResolveFrame
  <2>5. s.document[g.field] # NoDoc
    BY <1>3, <2>1, ResolutionAssumption
  <2>6. ResolveTrue(s, r, h)
    BY <1>2, <2>1, <2>4, <2>5 DEF ResolveTrue, IsOfField, f
  <2>7. h \in Frame /\ FrameTrue(s, r, h)
    BY <2>4, <2>6 DEF Frame, FrameTrue
  <2>. QED
    BY <1>2, <1>5, <2>4, <2>7, ReturnsInto DEF Resuming, h, g
<1>. QED
  BY <1>1, <1>4, <1>5 DEF WaitsForRegister

\* _version() has the version asked for.
LEMMA VersionReturns ==
  ASSUME NEW s, NEW r \in RegistryType, NEW calls, NEW todo, CallsOK(s, r, calls, todo),
         calls # <<>>, Head(calls).op = "version",
         NEW value, NEW at, VersionTrue(r, Head(calls).artifact, Head(calls).version, value, at)
  PROVE  CallsOK(s, r, Resuming(calls, value), todo) /\ TopOK(Resuming(calls, value))
<1>. DEFINE f == Head(calls)
            g == calls[2]
            h == Resumed(g, value)
<1>1. /\ f \in Frame /\ g \in Frame /\ WaitsForVersion(s, g, f) /\ FrameTrue(s, r, g)
  <2>1. /\ f \in Frame /\ g \in Frame /\ WaitsFor(s, g, f)
        /\ Len(calls) \in Nat /\ Len(calls) >= 2
    BY HasCaller DEF CallsOK
  <2>. QED
    BY <2>1 DEF CallsOK, CallsTrue, WaitsFor
<1>2. value \in Answered /\ value # None
  BY NoneIsNothing DEF IsVersion, VersionTrue
<1>3. /\ g.op = "resolve" /\ g \in ResolveFrame /\ g.version = None /\ ResolveTrue(s, r, g)
      /\ s.document[g.field] = NoDoc
      /\ f.artifact = s.artifact[g.field] /\ f.version = s.version[g.field]
  BY <1>1, FrameKinds DEF FrameTrue, WaitsForVersion
<1>4. h = [g EXCEPT !.version = value]
  BY <1>3, ResumedIs
<1>5. g.artifact = None
  BY <1>3 DEF ResolveTrue
<1>. HIDE DEF h, g, f
<1>6. h \in ResolveFrame /\ h.field = g.field /\ h.version = value /\ h.artifact = None
      /\ h.op = "resolve"
  BY <1>2, <1>3, <1>4, <1>5 DEF ResolveFrame
<1>7. ResolveTrue(s, r, h)
  BY <1>2, <1>3, <1>6 DEF ResolveTrue, IsOfField, VersionTrue, f
<1>8. h \in Frame /\ FrameTrue(s, r, h)
  BY <1>6, <1>7 DEF Frame, FrameTrue
<1>. QED
  BY <1>2, <1>3, <1>6, <1>8, ReturnsInto DEF Resuming, h, g
LEMMA ContentsAre ==
  ASSUME NEW r \in RegistryType, IdsKnown(r), NEW source, IsKnown(r, source)
  PROVE  r.contents[ContentAt(r, source)] \in Content
<1>1. ContentAt(r, source) \in DOMAIN r.contents
  BY VersionIsOfContent DEF IsKnown, ContentAt
<1>. QED
  BY <1>1 DEF RegistryType

\* get_artifact() has the content, with its references.
LEMMA ArtifactReturns ==
  ASSUME NEW s, NEW r \in RegistryType, IdsKnown(r), NEW calls, NEW todo, CallsOK(s, r, calls, todo),
         calls # <<>>, Head(calls).op = "artifact",
         NEW value, IsContent(r, Head(calls).source, value)
  PROVE  CallsOK(s, r, Resuming(calls, value), todo) /\ TopOK(Resuming(calls, value))
<1>. DEFINE f == Head(calls)
            g == calls[2]
            h == Resumed(g, value)
<1>1. /\ f \in Frame /\ g \in Frame /\ WaitsForArtifact(g, f) /\ FrameTrue(s, r, g)
  <2>1. /\ f \in Frame /\ g \in Frame /\ WaitsFor(s, g, f)
        /\ Len(calls) \in Nat /\ Len(calls) >= 2
    BY HasCaller DEF CallsOK
  <2>. QED
    BY <2>1 DEF CallsOK, CallsTrue, WaitsFor
<1>2. value \in Content /\ value # None
  BY ContentsAre, NoneIsNothing DEF IsContent
<1>3. CASE g.op = "resolve"
  <2>1. /\ g \in ResolveFrame /\ g.version # None /\ ResolveTrue(s, r, g)
        /\ f.source = [id |-> g.version.id]
    BY <1>1, <1>3, FrameKinds DEF FrameTrue, WaitsForArtifact
  <2>2. h = [g EXCEPT !.artifact = value]
    BY <1>3, <2>1, ResumedIs
  <2>3. value = r.contents[g.version.id]
    <3>1. "id" \in DOMAIN f.source /\ f.source.id = g.version.id
      BY <2>1
    <3>. QED
      BY <3>1 DEF IsContent, ContentAt
  <2>. HIDE DEF h, g, f
  <2>4. h \in ResolveFrame /\ h.field = g.field /\ h.version = g.version /\ h.artifact = value
        /\ h.op = "resolve"
    BY <1>2, <2>1, <2>2 DEF ResolveFrame
  <2>5. ResolveTrue(s, r, h)
    BY <2>1, <2>3, <2>4 DEF ResolveTrue
  <2>6. h \in Frame /\ FrameTrue(s, r, h)
    BY <2>4, <2>5 DEF Frame, FrameTrue
  <2>. QED
    BY <1>3, <2>1, <2>4, <2>6, ReturnsInto DEF Resuming, h, g
<1>4. CASE g.op = "collect"
  <2>1. /\ g \in CollectFrame /\ g.found = None /\ g.next <= Len(g.refs) /\ CollectTrue(r, g)
        /\ f.source = g.refs[g.next]
    BY <1>1, <1>4, FrameKinds DEF FrameTrue, WaitsForArtifact
  <2>2. h = [g EXCEPT !.found = value]
    BY <1>4, <2>1, ResumedIs
  <2>3. IsContent(r, g.refs[g.next], value)
    BY <2>1
  <2>. HIDE DEF h, g, f
  <2>4. /\ h \in CollectFrame /\ h.op = "collect" /\ h.ref = g.ref /\ h.doc = g.doc
        /\ h.refs = g.refs /\ h.next = g.next /\ h.found = value
    BY <1>2, <2>1, <2>2 DEF CollectFrame
  <2>5. CollectTrue(r, h)
    BY <2>1, <2>3, <2>4 DEF CollectTrue
  <2>6. h \in Frame /\ FrameTrue(s, r, h)
    BY <2>4, <2>5 DEF Frame, FrameTrue
  <2>. QED
    BY <1>4, <2>4, <2>6, ReturnsInto DEF Resuming, h, g
<1>. QED
  BY <1>1, <1>3, <1>4 DEF WaitsForArtifact

\* get_metadata() tells the type.
LEMMA MetadataReturns ==
  ASSUME NEW s, NEW r, NEW calls, NEW todo, CallsOK(s, r, calls, todo),
         calls # <<>>, Head(calls).op = "metadata", NEW value
  PROVE  CallsOK(s, r, Resuming(calls, value), todo) /\ TopOK(Resuming(calls, value))
<1>. DEFINE f == Head(calls)
            g == calls[2]
            h == Resumed(g, value)
<1>1. /\ g \in Frame /\ g.op = "artifact" /\ FrameTrue(s, r, g)
  <2>1. /\ g \in Frame /\ WaitsFor(s, g, f) /\ Len(calls) \in Nat /\ Len(calls) >= 2
        /\ f = calls[1]
    BY HasCaller DEF CallsOK
  <2>2. WaitsForMetadata(g, f)
    BY <2>1 DEF WaitsFor
  <2>. QED
    BY <2>1, <2>2 DEF CallsOK, CallsTrue, WaitsForMetadata
<1>2. g \in ArtifactFrame /\ ArtifactTrue(r, g)
  BY <1>1, FrameKinds DEF FrameTrue
<1>3. h = [g EXCEPT !.typed = TypeOf(value)] /\ TypeOf(value) \in {"supported", "unsupported"}
  BY <1>1, ResumedIs DEF TypeOf
<1>. HIDE DEF h, g, f
<1>4. /\ h \in ArtifactFrame /\ h.op = "artifact" /\ h.source = g.source /\ h.doc = g.doc
      /\ h.typed # "untold"
  BY <1>2, <1>3 DEF ArtifactFrame, Typed
<1>5. h \in Frame /\ FrameTrue(s, r, h)
  BY <1>2, <1>4 DEF Frame, FrameTrue, ArtifactTrue
<1>. QED
  BY <1>1, <1>4, <1>5, ReturnsInto DEF Resuming, h, g

LEMMA CollectGoesOn ==
  ASSUME NEW g \in CollectFrame, NEW n \in Nat \ {0}
  PROVE  /\ [g EXCEPT !.found = None, !.next = n] \in CollectFrame
         /\ [g EXCEPT !.found = None, !.next = n] =
              [op |-> "collect", ref |-> g.ref, doc |-> g.doc, refs |-> g.refs,
               next |-> n, found |-> None]
<1>. DEFINE h == [op |-> "collect", ref |-> g.ref, doc |-> g.doc, refs |-> g.refs,
                  next |-> n, found |-> None]
            u == [g EXCEPT !.found = None]
<1>1. u = [op |-> "collect", ref |-> g.ref, doc |-> g.doc, refs |-> g.refs,
           next |-> g.next, found |-> None]
  BY DEF CollectFrame
<1>2. [g EXCEPT !.found = None, !.next = n] = h
  <2>1. [g EXCEPT !.found = None, !.next = n] = [u EXCEPT !.next = n]
    OBVIOUS
  <2>. HIDE DEF u
  <2>2. [u EXCEPT !.next = n] = h
    BY <1>1
  <2>. QED
    BY <2>1, <2>2, Zenon
<1>3. h \in CollectFrame
  BY DEF CollectFrame
<1>. QED
  BY <1>2, <1>3

\* _collect_contents() is back from a reference.
LEMMA CollectReturns ==
  ASSUME NEW s, NEW r, NEW calls, NEW todo, CallsOK(s, r, calls, todo),
         calls # <<>>, Head(calls).op = "collect", Head(calls).ref # None, NEW value
  PROVE  CallsOK(s, r, Resuming(calls, value), todo) /\ TopOK(Resuming(calls, value))
<1>. DEFINE f == Head(calls)
            g == calls[2]
            h == Resumed(g, value)
<1>1. /\ g \in Frame /\ g.op = "collect" /\ g.found # None /\ FrameTrue(s, r, g)
  <2>1. /\ g \in Frame /\ WaitsFor(s, g, f) /\ Len(calls) \in Nat /\ Len(calls) >= 2
        /\ f = calls[1]
    BY HasCaller DEF CallsOK
  <2>2. WaitsForCollect(g, f)
    BY <2>1 DEF WaitsFor
  <2>. QED
    BY <2>1, <2>2 DEF CallsOK, CallsTrue, WaitsForCollect
<1>2. g \in CollectFrame /\ CollectTrue(r, g)
  BY <1>1, FrameKinds DEF FrameTrue
<1>. DEFINE n == g.next + 1
<1>3. h = [g EXCEPT !.found = None, !.next = n]
  BY <1>1, ResumedIs
<1>4. n \in Nat \ {0}
  BY <1>2 DEF CollectFrame
<1>. HIDE DEF h, g, f, n
<1>5. h = [op |-> "collect", ref |-> g.ref, doc |-> g.doc, refs |-> g.refs,
           next |-> n, found |-> None] /\ h \in CollectFrame
  BY <1>2, <1>3, <1>4, CollectGoesOn
<1>6. /\ h.op = "collect" /\ h.ref = g.ref /\ h.doc = g.doc /\ h.refs = g.refs /\ h.found = None
  BY <1>5
<1>7. h \in Frame /\ FrameTrue(s, r, h)
  BY <1>2, <1>5, <1>6 DEF Frame, FrameTrue, CollectTrue
<1>. QED
  BY <1>1, <1>6, <1>7, ReturnsInto DEF Resuming, h, g
----------------------------------------------------------------------------
(* The cache.                                                              *)

LEMMA CacheItems ==
  ASSUME NEW c, NEW r, NEW time, CacheOK(c, r, time), NEW key
  PROVE  /\ CacheOK(Without(c, key), r, time)
         /\ \A k : Holds(c, k) => ItemOf(c, k) \in ToSet(c) /\ ItemOf(c, k).key = k
                                  /\ ItemOf(c, k) \in CacheItem
<1>1. c \in Seq(CacheItem)
  BY DEF CacheOK
<1>2. /\ Without(c, key) \in Seq(CacheItem) /\ ToSet(Without(c, key)) \subseteq ToSet(c)
  <2>. DEFINE S == {item \in ToSet(c) : item.key # key}
  <2>1. Kept(c, S) \in Seq(CacheItem) /\ ToSet(Kept(c, S)) = ToSet(c) \cap S
    BY <1>1, KeptElements
  <2>. QED
    BY <2>1 DEF Without
<1>3. ASSUME NEW k, Holds(c, k)
      PROVE  ItemOf(c, k) \in ToSet(c) /\ ItemOf(c, k).key = k /\ ItemOf(c, k) \in CacheItem
  <2>1. \E i \in DOMAIN c : c[i].key = k
    BY <1>3 DEF Holds
  <2>2. ItemOf(c, k) \in ToSet(c) /\ ItemOf(c, k).key = k
    BY <2>1 DEF ItemOf, ToSet
  <2>. QED
    BY <1>1, <2>2 DEF ToSet
<1>. QED
  BY <1>2, <1>3 DEF CacheOK

LEMMA LookedIsOK ==
  ASSUME NEW c, NEW r, NEW time, CacheOK(c, r, time), NEW key
  PROVE  CacheOK(Looked(c, key), r, time)
<1>1. CASE Valid(c, key)
  <2>. DEFINE w == Without(c, key)
              item == ItemOf(c, key)
  <2>1. CacheOK(w, r, time) /\ w \in Seq(CacheItem) /\ item \in ToSet(c) /\ item \in CacheItem
    BY <1>1, CacheItems DEF Valid, CacheOK
  <2>2. Looked(c, key) = Append(w, item)
    BY <1>1 DEF Looked, Touched
  <2>. HIDE DEF w, item
  <2>3. Append(w, item) \in Seq(CacheItem) /\ ToSet(Append(w, item)) = ToSet(w) \cup {item}
    BY <2>1, AppendedElements
  <2>. QED
    BY <2>1, <2>2, <2>3 DEF CacheOK
<1>2. CASE ~Valid(c, key)
  BY <1>2, CacheItems DEF Looked
<1>. QED
  BY <1>1, <1>2

LEMMA StoredIsOK ==
  ASSUME NEW c, NEW r, CacheOK(c, r, now), NEW key, NEW value,
         [key |-> key, at |-> now, value |-> value] \in CacheItem,
         ItemTrue(r, [key |-> key, at |-> now, value |-> value])
  PROVE  CacheOK(Stored(c, key, value), r, now)
<1>. DEFINE item == [key |-> key, at |-> now, value |-> value]
            w == Without(c, key)
            all == Append(w, item)
<1>1. item \in CacheItem /\ item.key = key /\ item.at = now /\ ItemTrue(r, item) /\ now \in Nat
  BY DEF CacheItem
<1>2. Stored(c, key, value) = IF Len(all) > CacheCapacity THEN Tail(all) ELSE all
  BY DEF Stored, Put
<1>3. CacheOK(w, r, now) /\ w \in Seq(CacheItem)
  BY CacheItems DEF CacheOK
<1>. HIDE DEF item, w
<1>4. all \in Seq(CacheItem) /\ Len(all) = Len(w) + 1 /\ ToSet(all) = ToSet(w) \cup {item}
  BY <1>1, <1>3, AppendedElements
<1>5. item.at <= now
  BY <1>1
<1>6. CacheOK(all, r, now)
  BY <1>1, <1>3, <1>4, <1>5 DEF CacheOK
<1>7. all # <<>>
  <2>1. Len(w) \in Nat
    BY <1>3
  <2>2. Len(all) # 0
    BY <1>4, <2>1
  <2>. QED
    BY <2>2
<1>. HIDE DEF all
<1>8. Tail(all) \in Seq(CacheItem) /\ ToSet(Tail(all)) \subseteq ToSet(all)
  <2>1. /\ Tail(all) \in Seq(CacheItem) /\ Len(Tail(all)) = Len(all) - 1 /\ Len(all) \in Nat \ {0}
        /\ \A i \in 1..(Len(all) - 1) : Tail(all)[i] = all[i + 1]
    BY <1>4, <1>7, Popped
  <2>2. DOMAIN Tail(all) = 1..(Len(all) - 1) /\ DOMAIN all = 1..Len(all)
    BY <1>4, <2>1
  <2>3. \A i \in 1..(Len(all) - 1) : i + 1 \in 1..Len(all)
    BY <2>1
  <2>. QED
    BY <2>1, <2>2, <2>3 DEF ToSet
<1>9. CacheOK(Tail(all), r, now)
  BY <1>6, <1>8 DEF CacheOK
<1>. QED
  BY <1>2, <1>6, <1>9
----------------------------------------------------------------------------
(* The steps of the lookup.                                                *)

LEMMA LookupIsClient ==
  ASSUME LookupInv, LookupStep \/ Produce
  PROVE  [ClientNext]_clientVars /\ UNCHANGED <<setup, registry, now>>
<1>1. CASE UNCHANGED <<clientVars, setup>>
  BY <1>1 DEF clientVars
<1>2. ASSUME NEW op, Begin(op), UNCHANGED setup PROVE ClientNext /\ UNCHANGED <<setup, registry, now>>
  <2>1. request'.op = op
    BY <1>2 DEF Begin, NewRequest
  <2>. QED
    BY <1>2, <2>1 DEF Asked, ClientNext, Begin
<1>3. ASSUME TakeAnswer, request.phase \in {"answered", "failed"}, UNCHANGED setup
      PROVE  ClientNext /\ UNCHANGED <<setup, registry, now>>
  BY <1>3 DEF TakeAnswer, Taken, ClientNext
<1>4. CASE NextField \/ ReadArtifact \/ ReadSchema \/ Resolve \/ AskMetadata \/ RefuseType
           \/ Collect \/ Descend \/ Collected \/ Parse \/ Produce
  BY <1>1, <1>4 DEF NextField, ReadArtifact, ReadSchema, Resolve, AskMetadata, RefuseType, Fail,
                    Collect, Descend, Collected, Parse, Produce
<1>5. CASE Raise
  BY <1>3, <1>5 DEF Raise, Fail
<1>6. CASE Registered \/ GotVersion \/ GotContent \/ GotReferences \/ Found
  BY <1>3, <1>6 DEF Registered, GotVersion, GotContent, GotReferences, Found
<1>7. CASE Register
  BY <1>1, <1>2, <1>7 DEF Register
<1>8. CASE GetVersion
  BY <1>1, <1>2, <1>8 DEF GetVersion
<1>9. CASE GetContent
  BY <1>1, <1>2, <1>9 DEF GetContent
<1>10. CASE GetReferences
  BY <1>2, <1>10 DEF GetReferences
<1>11. CASE Search
  BY <1>1, <1>2, <1>11 DEF Search
<1>. QED
  BY <1>4, <1>5, <1>6, <1>7, <1>8, <1>9, <1>10, <1>11 DEF LookupStep

LEMMA TopFacts ==
  ASSUME LookupInv, frames # <<>>
  PROVE  /\ registry \in RegistryType /\ IdsKnown(registry) /\ Before(registry, now) /\ now \in Nat
         /\ Top \in Frame /\ FrameTrue(setup, registry, Top) /\ Top = frames[1]
         /\ frames \in Seq(Frame)
         /\ CallsOK(setup, registry, frames, pending) /\ TopOK(frames)
         /\ pending # <<>> /\ pending \in Seq(Field)
         /\ CacheOK(cache, registry, now)
<1>1. /\ registry \in RegistryType /\ IdsKnown(registry) /\ Before(registry, now) /\ now \in Nat
      /\ CallsOK(setup, registry, frames, pending) /\ TopOK(frames) /\ pending \in Seq(Field)
      /\ CacheOK(cache, registry, now)
  BY DEF LookupInv, RegistryOK, ClientInv, ClientTypeOK
<1>2. /\ frames[1] \in Frame /\ Head(frames) = frames[1] /\ Len(frames) \in Nat \ {0}
      /\ pending # <<>>
  BY <1>1, HasCaller DEF CallsOK
<1>3. FrameTrue(setup, registry, frames[1]) /\ frames \in Seq(Frame)
  BY <1>1, <1>2 DEF CallsOK, CallsTrue, Stacked
<1>. QED
  BY <1>1, <1>2, <1>3 DEF Top

\* What was true when it was given was so before.
LEMMA ReplyWasTrue ==
  ASSUME NEW r \in RegistryType, NEW op, NEW answer, NEW at \in Int, NEW before \in Int,
         before <= at, ReplyTrue(r, op, answer, at)
  PROVE  ReplyTrue(r, op, answer, before)
<1>1. ASSUME NEW s \in Seq(LogEntry), NEW k \in DOMAIN s, s[k].at >= at PROVE s[k].at >= before
  <2>1. s[k] \in LogEntry
    OBVIOUS
  <2>2. s[k].at \in Nat
    BY <2>1 DEF LogEntry
  <2>. QED
    BY <1>1, <2>2
<1>2. VersionTrue(r, op.artifact, op.version, answer, at)
        => VersionTrue(r, op.artifact, op.version, answer, before)
  BY <1>1, VersionsAre DEF VersionTrue
<1>3. PageTrue(r, op.id, op.offset, answer, at) => PageTrue(r, op.id, op.offset, answer, before)
  BY <1>1, MatchesAre DEF PageTrue
<1>. QED
  BY <1>2, <1>3 DEF ReplyTrue

\* An answer is taken at most its way's time after it was given.
LEMMA AnswerTo ==
  ASSUME LookupInv, frames # <<>>, request.phase = "answered"
  PROVE  /\ Asks(Top, request.op) /\ now - Latency \in Int
         /\ ReplyTrue(registry, request.op, reply, now - Latency)
<1>1. /\ registry \in RegistryType /\ now \in Nat /\ Latency \in Nat
      /\ request.at \in Nat /\ now <= request.at + Latency
      /\ ReplyTrue(registry, request.op, reply, request.at)
  BY ClientAssumption
     DEF LookupInv, AnsweredOK, RegistryOK, ClientInv, ClientTypeOK, ClientAssumption
<1>2. now - Latency \in Int /\ now - Latency <= request.at
  BY <1>1
<1>3. ReplyTrue(registry, request.op, reply, now - Latency)
  BY <1>1, <1>2, ReplyWasTrue
<1>. QED
  BY <1>2, <1>3 DEF LookupInv, AskedOK, Top

\* A step of the lookup after which no request is under way.
LEMMA StepKeeps ==
  ASSUME LookupInv, LookupStep \/ Produce, request'.phase = "idle",
         pending' \in Seq(Field),
         CallsOK(setup, registry, frames', pending'), TopOK(frames'),
         CacheOK(cache', registry, now),
         RegisteredOK(registered', registry), ResolvedOK(resolved', setup, registry)
  PROVE  LookupInv'
<1>1. ClientInv' /\ UNCHANGED <<setup, registry, now>>
  BY LookupIsClient, ClientStepKeeps DEF LookupInv
<1>2. AskedOK' /\ AnsweredOK'
  BY DEF AskedOK, AnsweredOK
<1>. QED
  BY <1>1, <1>2 DEF LookupInv

\* The call on top asks.
LEMMA AskKeeps ==
  ASSUME LookupInv, LookupStep \/ Produce, frames # <<>>, NEW op, Begin(op), Asks(Top, op),
         UNCHANGED <<frames, pending, registered, resolved>>, CacheOK(cache', registry, now)
  PROVE  LookupInv'
<1>1. ClientInv' /\ UNCHANGED <<setup, registry, now>>
  BY LookupIsClient, ClientStepKeeps DEF LookupInv
<1>2. request'.op = op /\ request'.phase = "token"
  BY DEF Begin, NewRequest
<1>3. AskedOK' /\ AnsweredOK'
  BY <1>2 DEF AskedOK, AnsweredOK, Top
<1>. QED
  BY <1>1, <1>3 DEF LookupInv

LEMMA TakenIsIdle ==
  ASSUME LookupInv, TakeAnswer
  PROVE  request'.phase = "idle"
<1>1. request \in Requests(request.op)
  BY DEF LookupInv, ClientInv, ClientTypeOK, RequestOK
<1>. QED
  BY <1>1 DEF TakeAnswer, Done, Requests

LEMMA NoCalls ==
  ASSUME NEW s, NEW r, NEW todo
  PROVE  CallsOK(s, r, <<>>, todo) /\ TopOK(<<>>)
<1>1. <<>> \in Seq(Frame) /\ Len(<<>>) = 0
  OBVIOUS
<1>2. Stacked(s, <<>>, todo)
  BY <1>1 DEF Stacked
<1>3. CallsTrue(s, r, <<>>)
  BY <1>1 DEF CallsTrue
<1>. QED
  BY <1>2, <1>3 DEF CallsOK, TopOK

LEMMA TwoCalls ==
  ASSUME NEW s, NEW r, NEW todo, NEW f \in Frame, NEW g \in Frame, WaitsFor(s, g, f),
         FrameTrue(s, r, f), FrameTrue(s, r, g), g.op = "resolve", todo # <<>>, g.field = Head(todo)
  PROVE  CallsOK(s, r, <<f, g>>, todo) /\ TopOK(<<f, g>>)
<1>. DEFINE t == <<f, g>>
<1>1. t \in Seq(Frame) /\ Len(t) = 2 /\ t[1] = f /\ t[2] = g /\ t # <<>> /\ Head(t) = f
  OBVIOUS
<1>. HIDE DEF t
<1>2. \A i \in 1..1 : i = 1
  OBVIOUS
<1>3. \A i \in 1..2 : i = 1 \/ i = 2
  OBVIOUS
<1>4. Stacked(s, t, todo)
  BY <1>1, <1>2 DEF Stacked
<1>5. CallsTrue(s, r, t)
  BY <1>1, <1>3 DEF CallsTrue
<1>6. TopOK(t)
  BY <1>1 DEF TopOK, WaitsFor
<1>. QED
  BY <1>4, <1>5, <1>6 DEF CallsOK, t

LEMMA TailOfPending ==
  ASSUME LookupInv, pending # <<>>
  PROVE  Tail(pending) \in Seq(Field) /\ Head(pending) \in Field
  BY DEF LookupInv

LEMMA ProduceKeeps == ASSUME LookupInv, Produce PROVE LookupInv'
<1>1. frames = <<>>
  BY TopFacts DEF Produce, is_resolving
<1>2. request.phase = "idle"
  BY <1>1 DEF LookupInv, AskedOK
<1>3. FIELDS \in Seq(Field)
  BY DEF FIELDS, Field
<1>. QED
  BY <1>1, <1>2, <1>3, NoCalls, StepKeeps DEF Produce, clientVars, kept, LookupInv

LEMMA NextFieldKeeps == ASSUME LookupInv, NextField PROVE LookupInv'
<1>. DEFINE f == Head(pending)
            resolve == [op |-> "resolve", field |-> f, version |-> None, artifact |-> None]
<1>1. /\ frames = <<>> /\ pending # <<>> /\ f \in Field /\ Tail(pending) \in Seq(Field)
  BY TailOfPending DEF NextField, is_resolving
<1>2. request'.phase = "idle" /\ UNCHANGED <<cache, registered, resolved, setup>>
  BY <1>1 DEF LookupInv, AskedOK, NextField, clientVars, kept
<1>3. /\ resolve \in Frame /\ resolve.op = "resolve" /\ resolve.field = f /\ resolve.version = None
      /\ FrameTrue(setup, registry, resolve)
  BY <1>1 DEF Frame, ResolveFrame, FrameTrue, ResolveTrue
<1>4. /\ setup.artifact[f] \in Artifacts /\ setup.document[f] \in Docs \cup {NoDoc}
      /\ setup.version[f] \in Nat
  BY <1>1, ResolutionAssumption DEF LookupInv
<1>. HIDE DEF f, resolve
<1>5. CASE NeedsSchema(f)
  <2>1. UNCHANGED pending
    BY <1>5 DEF NextField, f
  <2>2. CASE setup.document[f] # NoDoc
    <3>. DEFINE call == RegisterCall(setup.artifact[f], setup.document[f])
    <3>1. frames' = <<call, resolve>>
      BY <1>5, <2>2 DEF NextField, f, resolve
    <3>2. call = [op |-> "register", artifact |-> setup.artifact[f], doc |-> setup.document[f],
                  got |-> <<>>]
      BY DEF RegisterCall
    <3>. HIDE DEF call
    <3>3. /\ call \in RegisterFrame /\ call.op = "register" /\ call.doc = setup.document[f]
          /\ call.artifact = setup.artifact[f] /\ call.got = <<>>
      BY <1>4, <2>2, <3>2 DEF RegisterFrame
    <3>4. AreReferred(registry, call.doc, call.got)
      <4>1. DocRefs[call.doc] \in Seq(Docs)
        BY <3>3, ResolutionAssumption DEF RegisterFrame
      <4>2. Len(DocRefs[call.doc]) \in Nat /\ Len(call.got) = 0
        BY <3>3, <4>1
      <4>. QED
        BY <4>2 DEF AreReferred
    <3>5. FrameTrue(setup, registry, call) /\ call \in Frame /\ WaitsFor(setup, resolve, call)
      BY <1>3, <3>3, <3>4 DEF FrameTrue, Frame, WaitsFor, WaitsForRegister
    <3>6. CallsOK(setup, registry, frames', pending') /\ TopOK(frames')
      BY <1>1, <1>3, <2>1, <3>1, <3>5, TwoCalls DEF f
    <3>. QED
      BY <1>2, <2>1, <3>6, StepKeeps DEF LookupInv, LookupStep
  <2>3. CASE setup.document[f] = NoDoc
    <3>. DEFINE call == VersionCall(setup.artifact[f], setup.version[f])
    <3>1. frames' = <<call, resolve>>
      BY <1>5, <2>3 DEF NextField, f, resolve
    <3>2. call = [op |-> "version", artifact |-> setup.artifact[f], version |-> setup.version[f]]
      BY DEF VersionCall
    <3>. HIDE DEF call
    <3>3. /\ call \in VersionFrame /\ call.op = "version" /\ call.version = setup.version[f]
          /\ call.artifact = setup.artifact[f]
      BY <1>4, <3>2 DEF VersionFrame
    <3>4. FrameTrue(setup, registry, call) /\ call \in Frame /\ WaitsFor(setup, resolve, call)
      BY <1>3, <2>3, <3>3 DEF FrameTrue, Frame, WaitsFor, WaitsForVersion
    <3>5. CallsOK(setup, registry, frames', pending') /\ TopOK(frames')
      BY <1>1, <1>3, <2>1, <3>1, <3>4, TwoCalls DEF f
    <3>. QED
      BY <1>2, <2>1, <3>5, StepKeeps DEF LookupInv, LookupStep
  <2>. QED
    BY <2>2, <2>3
<1>6. CASE ~NeedsSchema(f)
  <2>1. frames' = <<>> /\ pending' = Tail(pending)
    BY <1>1, <1>6 DEF NextField, f
  <2>. QED
    BY <1>1, <1>2, <2>1, NoCalls, StepKeeps DEF LookupInv, LookupStep
<1>. QED
  BY <1>5, <1>6

\* A lookup that fails leaves no call.
LEMMA FailKeeps ==
  ASSUME LookupInv, LookupStep \/ Produce, frames # <<>>, request'.phase = "idle",
         NEW reason, Fail(reason)
  PROVE  LookupInv'
<1>1. /\ frames' = <<>> /\ pending' = Tail(pending)
      /\ UNCHANGED <<cache, registered, resolved>>
  BY DEF Fail, kept
<1>2. pending' \in Seq(Field)
  BY <1>1, TopFacts, TailOfPending
<1>. QED
  BY <1>1, <1>2, NoCalls, StepKeeps DEF LookupInv

LEMMA RaiseKeeps == ASSUME LookupInv, Raise PROVE LookupInv'
<1>1. frames # <<>> /\ TakeAnswer /\ Fail(reply.failure)
  BY DEF Raise
<1>2. request'.phase = "idle"
  BY <1>1, TakenIsIdle
<1>. QED
  BY <1>1, <1>2, FailKeeps DEF LookupStep

LEMMA RefuseTypeKeeps == ASSUME LookupInv, RefuseType PROVE LookupInv'
<1>1. frames # <<>> /\ Fail("unsupported type") /\ request'.phase = "idle"
  BY DEF RefuseType, Running, Idle, clientVars
<1>. QED
  BY <1>1, FailKeeps DEF LookupStep

\* The call on top makes another.
LEMMA CallKeeps ==
  ASSUME LookupInv, LookupStep \/ Produce, frames # <<>>, request.phase = "idle",
         UNCHANGED <<request, pending, cache, registered, resolved>>,
         NEW f \in Frame, Call(f), f.op # "resolve", WaitsFor(setup, Top, f),
         FrameTrue(setup, registry, f)
  PROVE  LookupInv'
<1>1. CallsOK(setup, registry, <<f>> \o frames, pending)
  BY TopFacts, CallMade DEF Top
<1>2. frames \in Seq(Frame)
  BY TopFacts
<1>3. Head(<<f>> \o frames) = f
  BY <1>2, Pushed
<1>. DEFINE t == <<f>> \o frames
<1>4. frames' = t
  BY DEF Call
<1>. HIDE DEF t
<1>5. CallsOK(setup, registry, frames', pending') /\ TopOK(frames')
  BY <1>1, <1>3, <1>4 DEF TopOK, t
<1>. QED
  BY <1>5, StepKeeps DEF LookupInv

\* The call on top changes a field nobody waits for.
LEMMA UpdateKeeps ==
  ASSUME LookupInv, LookupStep \/ Produce, frames # <<>>, request'.phase = "idle",
         UNCHANGED <<pending, cache, registered, resolved>>,
         NEW f \in Frame, Update(f), f.op = Top.op, f.op \notin {"resolve", "version"},
         f.op = "artifact" => f.source = Top.source,
         f.op = "register" => f.doc = Top.doc /\ f.artifact = Top.artifact,
         f.op = "metadata" => f.id = Top.id,
         f.op = "collect" => f.ref = Top.ref /\ f.doc = Top.doc /\ f.refs = Top.refs,
         FrameTrue(setup, registry, f)
  PROVE  LookupInv'
<1>1. \A g \in Frame : WaitsFor(setup, g, Top) => WaitsFor(setup, g, f)
  BY TopFacts, CalleeIs
<1>2. CallsOK(setup, registry, <<f>> \o Tail(frames), pending)
  BY <1>1, TopFacts, CallChanges DEF Top
<1>3. Tail(frames) \in Seq(Frame)
  BY TopFacts, Popped
<1>4. Head(<<f>> \o Tail(frames)) = f
  BY <1>3, Pushed
<1>. DEFINE t == <<f>> \o Tail(frames)
<1>5. frames' = t
  BY DEF Update
<1>. HIDE DEF t
<1>6. CallsOK(setup, registry, frames', pending') /\ TopOK(frames')
  BY <1>2, <1>4, <1>5 DEF TopOK, t
<1>. QED
  BY <1>6, StepKeeps DEF LookupInv

LEMMA ArtifactIsCalled ==
  ASSUME NEW source \in Source
  PROVE  /\ ArtifactCall(source) =
              [op |-> "artifact", source |-> source, doc |-> NoDoc, typed |-> "untold"]
         /\ ArtifactCall(source) \in ArtifactFrame /\ ArtifactCall(source) \in Frame
         /\ ArtifactCall(source).op = "artifact" /\ ArtifactCall(source).source = source
         /\ ArtifactCall(source).doc = NoDoc
<1>. DEFINE call == ArtifactCall(source)
<1>1. call = [op |-> "artifact", source |-> source, doc |-> NoDoc, typed |-> "untold"]
  BY DEF ArtifactCall
<1>. HIDE DEF call
<1>2. /\ call \in ArtifactFrame /\ call.op = "artifact" /\ call.source = source
      /\ call.doc = NoDoc
  BY <1>1 DEF ArtifactFrame, Typed
<1>. QED
  BY <1>1, <1>2 DEF Frame, call

LEMMA ReadArtifactKeeps == ASSUME LookupInv, ReadArtifact PROVE LookupInv'
<1>1. /\ frames # <<>> /\ Top.op = "resolve" /\ Top.artifact = None /\ request.phase = "idle"
      /\ UNCHANGED <<request, pending, cache, registered, resolved>>
  BY DEF ReadArtifact, Running, Idle, clientVars, composer, kept
<1>2. /\ Top \in ResolveFrame /\ Top.version # None /\ ResolveTrue(setup, registry, Top)
      /\ registry \in RegistryType /\ IdsKnown(registry)
  BY <1>1, TopFacts, FrameKinds DEF TopOK, FrameTrue, Top
<1>. DEFINE source == [id |-> Top.version.id]
            call == ArtifactCall(source)
<1>3. IsVersion(registry, setup.artifact[Top.field], Top.version)
  BY <1>2 DEF ResolveTrue, IsOfField
<1>4. Top.version.id \in Nat /\ Top.version.id \in DOMAIN registry.contents
  BY <1>2, <1>3, VersionIsOfContent DEF IsVersion, Answered
<1>5. source \in Source /\ IsKnown(registry, source)
  BY <1>4 DEF Source, IsKnown
<1>6. Call(call)
  BY DEF ReadArtifact
<1>. HIDE DEF source
<1>7. call \in Frame /\ call.op = "artifact" /\ call.source = source /\ call.doc = NoDoc
  BY <1>5, ArtifactIsCalled
<1>. HIDE DEF call
<1>8. FrameTrue(setup, registry, call)
  BY <1>5, <1>7 DEF FrameTrue, ArtifactTrue
<1>9. WaitsFor(setup, Top, call)
  BY <1>1, <1>2, <1>7 DEF WaitsFor, WaitsForArtifact, source
<1>. QED
  BY <1>1, <1>6, <1>7, <1>8, <1>9, CallKeeps DEF LookupStep

LEMMA CollectIsCalled ==
  ASSUME NEW ref \in Reference \cup {None}, NEW content \in Content
  PROVE  LET call == CollectCall(ref, content) IN
         /\ call \in CollectFrame /\ call \in Frame
         /\ call.op = "collect" /\ call.ref = ref /\ call.doc = content.doc
         /\ call.refs = content.refs /\ call.next = 1 /\ call.found = None
<1>. DEFINE call == CollectCall(ref, content)
<1>1. call = [op |-> "collect", ref |-> ref, doc |-> content.doc, refs |-> content.refs,
              next |-> 1, found |-> None]
  BY DEF CollectCall
<1>2. content.doc \in Docs /\ content.refs \in Seq(Reference)
  BY DEF Content
<1>. HIDE DEF call
<1>3. /\ call \in CollectFrame
      /\ call.op = "collect" /\ call.ref = ref /\ call.doc = content.doc
      /\ call.refs = content.refs /\ call.next = 1 /\ call.found = None
  BY <1>1, <1>2 DEF CollectFrame
<1>. QED
  BY <1>3 DEF Frame, call

LEMMA ReadSchemaKeeps == ASSUME LookupInv, ReadSchema PROVE LookupInv'
<1>1. /\ frames # <<>> /\ Top.op = "resolve" /\ Top.artifact # None /\ request.phase = "idle"
      /\ UNCHANGED <<request, pending, cache, registered, resolved>>
  BY DEF ReadSchema, Running, Idle, clientVars, composer, kept
<1>2. Top \in ResolveFrame /\ Top.artifact \in Content
  BY <1>1, TopFacts, FrameKinds DEF ResolveFrame
<1>. DEFINE call == CollectCall(None, Top.artifact)
<1>3. Call(call)
  BY DEF ReadSchema
<1>4. /\ call \in Frame /\ call.op = "collect" /\ call.ref = None /\ call.doc = Top.artifact.doc
      /\ call.refs = Top.artifact.refs /\ call.found = None
  BY <1>2, CollectIsCalled
<1>. HIDE DEF call
<1>5. FrameTrue(setup, registry, call)
  BY <1>4 DEF FrameTrue, CollectTrue
<1>6. WaitsFor(setup, Top, call)
  BY <1>1, <1>4 DEF WaitsFor, WaitsForCollect
<1>. QED
  BY <1>1, <1>3, <1>4, <1>5, <1>6, CallKeeps DEF LookupStep

LEMMA ResolveKeeps == ASSUME LookupInv, Resolve PROVE LookupInv'
<1>1. /\ frames # <<>> /\ Top.op = "resolve" /\ Top.artifact # None
      /\ frames' = <<>> /\ pending' = Tail(pending)
      /\ request'.phase = "idle" /\ UNCHANGED <<cache, registered, setup>>
  BY DEF Resolve, Running, Idle, clientVars, kept
<1>. DEFINE schema == [version |-> Top.version.version, id |-> Top.version.id,
                       doc |-> Top.artifact.doc, contents |-> parsed[Top.version.id]]
<1>2. resolved' = [resolved EXCEPT ![Top.field] = schema]
  BY DEF Resolve
<1>3. /\ Top \in ResolveFrame /\ Top.version # None /\ ResolveTrue(setup, registry, Top)
  BY <1>1, TopFacts, FrameKinds DEF TopOK, FrameTrue, Top
<1>4. /\ schema.version = Top.version.version /\ schema.id = Top.version.id
      /\ schema.doc = Top.artifact.doc
  OBVIOUS
<1>5. /\ IsOfField(setup, registry, Top.field, Top.version)
      /\ Top.artifact = registry.contents[Top.version.id] /\ Top.field \in Field
  BY <1>1, <1>3 DEF ResolveTrue, ResolveFrame
<1>. HIDE DEF schema
<1>6. SchemaTrue(setup, registry, Top.field, schema)
  BY <1>4, <1>5 DEF SchemaTrue, IsOfField, IsVersion
<1>7. ResolvedOK(resolved', setup, registry)
  BY <1>2, <1>5, <1>6 DEF LookupInv, ResolvedOK
<1>8. pending' \in Seq(Field)
  BY <1>1, TopFacts, TailOfPending
<1>. QED
  BY <1>1, <1>7, <1>8, NoCalls, StepKeeps DEF LookupInv, LookupStep

\* The call on top is over.
LEMMA ReturnKeeps ==
  ASSUME LookupInv, LookupStep \/ Produce, request'.phase = "idle",
         UNCHANGED <<pending, resolved>>, NEW value, Return(value),
         CallsOK(setup, registry, Resuming(frames, value), pending),
         TopOK(Resuming(frames, value)),
         CacheOK(cache', registry, now), RegisteredOK(registered', registry)
  PROVE  LookupInv'
<1>. DEFINE t == Resuming(frames, value)
<1>1. frames' = t
  BY DEF Return, Resuming
<1>. HIDE DEF t
<1>2. CallsOK(setup, registry, frames', pending') /\ TopOK(frames')
  BY <1>1 DEF t
<1>. QED
  BY <1>2, StepKeeps DEF LookupInv

LEMMA RegisterKeeps == ASSUME LookupInv, Register PROVE LookupInv'
<1>. DEFINE key == Registration(Top.artifact, Top.doc)
            next == Len(Top.got) + 1
            all == DocRefs[Top.doc]
<1>1. /\ frames # <<>> /\ Top.op = "register" /\ request.phase = "idle"
      /\ UNCHANGED <<pending, cache, registered, resolved, setup>>
  BY DEF Register, Running, Idle, composer, kept
<1>2. Top \in RegisterFrame /\ AreReferred(registry, Top.doc, Top.got)
      /\ registry \in RegistryType
  BY <1>1, TopFacts, FrameKinds DEF FrameTrue
<1>3. Top.doc \in Docs /\ Top.artifact \in Artifacts /\ Len(Top.got) \in Nat
      /\ all \in Seq(Docs) /\ Len(all) \in Nat /\ Len(Top.got) <= Len(all)
  BY <1>2, ResolutionAssumption DEF RegisterFrame, AreReferred
<1>4. CASE key \in DOMAIN registered /\ Return(registered[key]) /\ UNCHANGED clientVars
  <2>1. /\ IsVersion(registry, Top.artifact, registered[key])
        /\ registry.contents[registered[key].id].doc = Top.doc
        /\ IsLocal(registry, registered[key].id)
    BY <1>4 DEF LookupInv, RegisteredOK, Registration
  <2>. DEFINE value == registered[key]
  <2>2. Return(value) /\ request' = request
    BY <1>4 DEF clientVars
  <2>. HIDE DEF value
  <2>3. /\ CallsOK(setup, registry, Resuming(frames, value), pending)
        /\ TopOK(Resuming(frames, value))
    BY <1>1, <1>2, <2>1, TopFacts, RegisterReturns DEF Top, value
  <2>. QED
    BY <1>1, <2>2, <2>3, ReturnKeeps DEF LookupInv, LookupStep
<1>5. CASE next <= Len(all) /\ Call(RegisterCall(all[next], all[next])) /\ UNCHANGED clientVars
  <2>. DEFINE doc == all[next]
              call == RegisterCall(doc, doc)
  <2>1. doc \in Docs /\ doc \in Artifacts
    BY <1>3, <1>5, ResolutionAssumption
  <2>2. Call(call) /\ request' = request
    BY <1>5 DEF clientVars
  <2>3. call = [op |-> "register", artifact |-> doc, doc |-> doc, got |-> <<>>]
    BY DEF RegisterCall
  <2>. HIDE DEF call
  <2>4. /\ call \in RegisterFrame /\ call \in Frame /\ call.op = "register" /\ call.doc = doc
        /\ call.artifact = doc /\ call.got = <<>>
    BY <2>1, <2>3 DEF RegisterFrame, Frame
  <2>5. AreReferred(registry, call.doc, call.got)
    <3>1. DocRefs[call.doc] \in Seq(Docs)
      BY <2>1, <2>4, ResolutionAssumption
    <3>2. Len(DocRefs[call.doc]) \in Nat /\ Len(call.got) = 0
      BY <2>4, <3>1
    <3>. QED
      BY <3>2 DEF AreReferred
  <2>6. FrameTrue(setup, registry, call)
    BY <2>4, <2>5 DEF FrameTrue
  <2>7. Len(Top.got) < Len(all)
    BY <1>3, <1>5
  <2>8. WaitsFor(setup, Top, call)
    BY <1>1, <2>4, <2>7 DEF WaitsFor, WaitsForRegister
  <2>. QED
    BY <1>1, <2>2, <2>4, <2>6, <2>8, CallKeeps DEF LookupStep
<1>6. CASE next > Len(all) /\ Begin(CreateVersion(Top)) /\ UNCHANGED frames
  <2>1. Len(Top.got) = Len(all)
    BY <1>3, <1>6
  <2>2. Asks(Top, CreateVersion(Top))
    BY <1>1, <2>1 DEF Asks
  <2>3. CacheOK(cache', registry, now)
    BY <1>1 DEF LookupInv
  <2>. QED
    BY <1>1, <1>6, <2>2, <2>3, AskKeeps DEF LookupStep
<1>. QED
  BY <1>4, <1>5, <1>6 DEF Register

LEMMA RegisteredKeeps == ASSUME LookupInv, Registered PROVE LookupInv'
<1>. DEFINE key == Registration(Top.artifact, Top.doc)
<1>1. /\ frames # <<>> /\ Top.op = "register" /\ request.phase = "answered" /\ TakeAnswer
      /\ Return(reply) /\ registered' = Entered(registered, key, reply)
      /\ UNCHANGED <<pending, cache, resolved, setup>>
  BY DEF Registered, Running, composer
<1>2. request'.phase = "idle"
  BY <1>1, TakenIsIdle
<1>3. /\ IsVersion(registry, Top.artifact, reply) /\ registry.contents[reply.id].doc = Top.doc
      /\ IsLocal(registry, reply.id)
  <2>1. request.op = CreateVersion(Top) /\ ReplyTrue(registry, request.op, reply, now - Latency)
    BY <1>1, AnswerTo DEF Asks
  <2>2. /\ CreateVersion(Top).kind = "create" /\ CreateVersion(Top).artifact = Top.artifact
        /\ CreateVersion(Top).doc = Top.doc
    BY DEF CreateVersion
  <2>. QED
    BY <2>1, <2>2 DEF ReplyTrue
<1>4. RegisteredOK(registered', registry)
  <2>1. ASSUME NEW a, NEW doc, <<a, doc>> \in DOMAIN registered'
        PROVE  \/ <<a, doc>> \in DOMAIN registered /\ registered'[<<a, doc>>] = registered[<<a, doc>>]
               \/ a = Top.artifact /\ doc = Top.doc /\ registered'[<<a, doc>>] = reply
    BY <1>1, <2>1 DEF Entered, Registration
  <2>. QED
    BY <1>3, <2>1 DEF LookupInv, RegisteredOK
<1>5. /\ CallsOK(setup, registry, Resuming(frames, reply), pending)
      /\ TopOK(Resuming(frames, reply))
  BY <1>1, <1>3, TopFacts, RegisterReturns DEF Top
<1>. QED
  BY <1>1, <1>2, <1>4, <1>5, ReturnKeeps DEF LookupInv, LookupStep

LEMMA KeyKinds ==
  /\ \A k \in VersionKeys : k \notin Source /\ k \notin MetadataKeys
  /\ \A k \in MetadataKeys : k \notin Source /\ k \notin VersionKeys
  /\ \A k \in Source : k \notin VersionKeys /\ k \notin MetadataKeys
<1>1. \A k \in VersionKeys : DOMAIN k = {"kind", "artifact", "version"}
  BY DEF VersionKeys
<1>2. \A k \in MetadataKeys : DOMAIN k = {"kind", "id"}
  BY DEF MetadataKeys
<1>3. \A k \in Source : DOMAIN k = {"id"} \/ DOMAIN k = {"artifact", "version"}
  BY DEF Source, Reference
<1>. QED
  BY <1>1, <1>2, <1>3

\* What is stored is so: the parts of an item.
LEMMA ItemIs ==
  ASSUME NEW key \in Source \cup VersionKeys \cup MetadataKeys, NEW at \in Nat,
         NEW value \in Content \cup Answered \cup [values : Seq(LogEntry)], NEW r,
         key \in Source => IsContent(r, key, value),
         key \in VersionKeys => VersionTrue(r, key.artifact, key.version, value, at - Latency),
         key \in MetadataKeys => MatchesTrue(r, key.id, at - Latency, value.values)
  PROVE  /\ [key |-> key, at |-> at, value |-> value] \in CacheItem
         /\ ItemTrue(r, [key |-> key, at |-> at, value |-> value])
<1>. DEFINE item == [key |-> key, at |-> at, value |-> value]
<1>1. item \in CacheItem
  BY DEF CacheItem
<1>2. item.key = key /\ item.at = at /\ item.value = value
  OBVIOUS
<1>. HIDE DEF item
<1>3. ItemTrue(r, item)
  BY <1>2 DEF ItemTrue
<1>. QED
  BY <1>1, <1>3 DEF item

LEMMA ValidItem ==
  ASSUME NEW r, NEW c, CacheOK(c, r, now), NEW key, Valid(c, key)
  PROVE  /\ ItemOf(c, key) \in CacheItem /\ ItemOf(c, key).key = key
         /\ ItemTrue(r, ItemOf(c, key))
  BY CacheItems DEF CacheOK, Valid

LEMMA VersionKeyIs ==
  ASSUME NEW f \in VersionFrame
  PROVE  /\ VersionKey(f) \in VersionKeys
         /\ VersionKey(f).artifact = f.artifact /\ VersionKey(f).version = f.version
  BY DEF VersionFrame, VersionKeys, VersionKey

LEMMA GetVersionKeeps == ASSUME LookupInv, GetVersion PROVE LookupInv'
<1>. DEFINE key == VersionKey(Top)
            op == [kind |-> "version", artifact |-> Top.artifact, version |-> Top.version]
            item == ItemOf(cache, key)
<1>1. /\ frames # <<>> /\ Top.op = "version" /\ request.phase = "idle"
      /\ cache' = Looked(cache, key)
      /\ UNCHANGED <<pending, registered, resolved, setup>>
  BY DEF GetVersion, Running, Idle, composer
<1>2. Top \in VersionFrame /\ registry \in RegistryType /\ CacheOK(cache, registry, now)
  BY <1>1, TopFacts, FrameKinds
<1>3. CacheOK(cache', registry, now)
  BY <1>1, <1>2, LookedIsOK
<1>4. CASE Valid(cache, key)
  <2>1. Return(item.value) /\ UNCHANGED clientVars
    BY <1>4 DEF GetVersion
  <2>2. VersionTrue(registry, Top.artifact, Top.version, item.value, item.at - Latency)
    BY <1>2, <1>4, ValidItem, VersionKeyIs DEF ItemTrue
  <2>. DEFINE value == item.value
  <2>. HIDE DEF key, item
  <2>3. Return(value) /\ request' = request
    BY <2>1 DEF clientVars
  <2>4. /\ CallsOK(setup, registry, Resuming(frames, value), pending)
        /\ TopOK(Resuming(frames, value))
    BY <1>1, <1>2, <2>2, TopFacts, VersionReturns DEF Top
  <2>. HIDE DEF value
  <2>. QED
    BY <1>1, <1>3, <2>3, <2>4, ReturnKeeps DEF LookupInv, LookupStep
<1>5. CASE ~Valid(cache, key)
  <2>1. Begin(op) /\ UNCHANGED frames
    BY <1>5 DEF GetVersion
  <2>2. Asks(Top, op)
    BY <1>1 DEF Asks
  <2>. HIDE DEF op
  <2>. QED
    BY <1>1, <1>3, <2>1, <2>2, AskKeeps DEF LookupStep
<1>. QED
  BY <1>4, <1>5

LEMMA GotVersionKeeps == ASSUME LookupInv, GotVersion PROVE LookupInv'
<1>. DEFINE key == VersionKey(Top)
<1>1. /\ frames # <<>> /\ Top.op = "version" /\ request.phase = "answered" /\ TakeAnswer
      /\ Return(reply) /\ cache' = Stored(cache, key, reply)
      /\ UNCHANGED <<pending, registered, resolved, setup>>
  BY DEF GotVersion, Running, composer
<1>2. /\ Top \in VersionFrame /\ registry \in RegistryType /\ CacheOK(cache, registry, now)
      /\ now \in Nat
  BY <1>1, TopFacts, FrameKinds
<1>3. VersionTrue(registry, Top.artifact, Top.version, reply, now - Latency)
  <2>. DEFINE op == [kind |-> "version", artifact |-> Top.artifact, version |-> Top.version]
  <2>1. request.op = op /\ ReplyTrue(registry, request.op, reply, now - Latency)
    BY <1>1, AnswerTo DEF Asks
  <2>2. op.kind = "version" /\ op.artifact = Top.artifact /\ op.version = Top.version
    OBVIOUS
  <2>. HIDE DEF op
  <2>. QED
    BY <2>1, <2>2 DEF ReplyTrue
<1>4. CacheOK(cache', registry, now)
  <2>1. key \in VersionKeys /\ key.artifact = Top.artifact /\ key.version = Top.version
    BY <1>2, VersionKeyIs
  <2>2. reply \in Answered
    BY <1>3 DEF VersionTrue, IsVersion
  <2>. HIDE DEF key
  <2>3. /\ [key |-> key, at |-> now, value |-> reply] \in CacheItem
        /\ ItemTrue(registry, [key |-> key, at |-> now, value |-> reply])
    BY <1>2, <1>3, <2>1, <2>2, KeyKinds, ItemIs
  <2>. QED
    BY <1>1, <1>2, <2>3, StoredIsOK
<1>5. /\ CallsOK(setup, registry, Resuming(frames, reply), pending)
      /\ TopOK(Resuming(frames, reply))
  BY <1>1, <1>2, <1>3, TopFacts, VersionReturns DEF Top
<1>6. request'.phase = "idle"
  BY <1>1, TakenIsIdle
<1>. QED
  BY <1>1, <1>4, <1>5, <1>6, ReturnKeeps DEF LookupInv, LookupStep

LEMMA GetContentKeeps == ASSUME LookupInv, GetContent PROVE LookupInv'
<1>. DEFINE key == Top.source
            op == [kind |-> "content", source |-> Top.source]
            item == ItemOf(cache, key)
<1>1. /\ frames # <<>> /\ Top.op = "artifact" /\ request.phase = "idle" /\ Top.doc = NoDoc
      /\ cache' = Looked(cache, key)
      /\ UNCHANGED <<pending, registered, resolved, setup>>
  BY DEF GetContent, Running, Idle, composer
<1>2. /\ Top \in ArtifactFrame /\ registry \in RegistryType /\ CacheOK(cache, registry, now)
      /\ IdsKnown(registry)
  BY <1>1, TopFacts, FrameKinds
<1>3. CacheOK(cache', registry, now)
  BY <1>1, <1>2, LookedIsOK
<1>4. CASE Valid(cache, key)
  <2>1. Return(item.value) /\ UNCHANGED clientVars
    BY <1>4 DEF GetContent
  <2>2. IsContent(registry, Top.source, item.value)
    BY <1>2, <1>4, ValidItem DEF ItemTrue, ArtifactFrame
  <2>. DEFINE value == item.value
  <2>. HIDE DEF key, item
  <2>3. Return(value) /\ request' = request
    BY <2>1 DEF clientVars
  <2>4. /\ CallsOK(setup, registry, Resuming(frames, value), pending)
        /\ TopOK(Resuming(frames, value))
    BY <1>1, <1>2, <2>2, TopFacts, ArtifactReturns DEF Top
  <2>. HIDE DEF value
  <2>. QED
    BY <1>1, <1>3, <2>3, <2>4, ReturnKeeps DEF LookupInv, LookupStep
<1>5. CASE ~Valid(cache, key)
  <2>1. Begin(op) /\ UNCHANGED frames
    BY <1>5 DEF GetContent
  <2>2. Asks(Top, op)
    BY <1>1 DEF Asks
  <2>. HIDE DEF op
  <2>. QED
    BY <1>1, <1>3, <2>1, <2>2, AskKeeps DEF LookupStep
<1>. QED
  BY <1>4, <1>5

\* A reference's type is known; an id's may have to be searched for.
LEMMA TypeIsTold ==
  ASSUME NEW f \in ArtifactFrame, NEW doc \in Docs
  PROVE  /\ TypeToldOf(f, doc) \in Typed
         /\ TypeToldOf(f, doc) = "untold" => f.source \in [id : Nat]
<1>1. TypeTold[doc] \in Typed /\ "supported" \in Typed
  BY ResolutionAssumption DEF Typed
<1>2. f.source \in Source
  BY DEF ArtifactFrame
<1>. QED
  BY <1>1, <1>2, SourceKinds DEF TypeToldOf, ByReference

LEMMA GotContentKeeps == ASSUME LookupInv, GotContent PROVE LookupInv'
<1>. DEFINE type == TypeToldOf(Top, reply.doc)
            f == [Top EXCEPT !.doc = reply.doc, !.typed = type]
<1>1. /\ frames # <<>> /\ Top.op = "artifact" /\ request.phase = "answered" /\ TakeAnswer
      /\ Top.doc = NoDoc /\ Update(f)
      /\ UNCHANGED <<pending, cache, registered, resolved>>
  BY DEF GotContent, Running, composer, kept
<1>2. /\ Top \in ArtifactFrame /\ registry \in RegistryType /\ IdsKnown(registry)
  BY <1>1, TopFacts, FrameKinds
<1>3. /\ IsKnown(registry, Top.source)
      /\ reply.doc = registry.contents[ContentAt(registry, Top.source)].doc
  <2>. DEFINE op == [kind |-> "content", source |-> Top.source]
  <2>1. request.op = op /\ ReplyTrue(registry, request.op, reply, now - Latency)
    BY <1>1, AnswerTo DEF Asks
  <2>2. op.kind = "content" /\ op.source = Top.source
    OBVIOUS
  <2>. HIDE DEF op
  <2>. QED
    BY <2>1, <2>2 DEF ReplyTrue
<1>4. reply.doc \in Docs
  BY <1>2, <1>3, ContentsAre DEF Content
<1>8. type \in Typed /\ (type = "untold" => Top.source \in [id : Nat])
  BY <1>2, <1>4, TypeIsTold
<1>. HIDE DEF type
<1>5. /\ f \in ArtifactFrame /\ f.op = "artifact" /\ f.source = Top.source /\ f.doc = reply.doc
      /\ f.typed = type
  BY <1>2, <1>4, <1>8 DEF ArtifactFrame
<1>. HIDE DEF f
<1>6. f \in Frame /\ FrameTrue(setup, registry, f)
  BY <1>3, <1>5, <1>8 DEF Frame, FrameTrue, ArtifactTrue
<1>7. request'.phase = "idle"
  BY <1>1, TakenIsIdle
<1>. QED
  BY <1>1, <1>5, <1>6, <1>7, UpdateKeeps DEF LookupStep

LEMMA AskMetadataKeeps == ASSUME LookupInv, AskMetadata PROVE LookupInv'
<1>. DEFINE call == MetadataCall(Top.source.id)
<1>1. /\ frames # <<>> /\ Top.op = "artifact" /\ request.phase = "idle"
      /\ Top.doc # NoDoc /\ Top.typed = "untold" /\ Call(call)
      /\ UNCHANGED <<request, pending, cache, registered, resolved>>
  BY DEF AskMetadata, Running, Idle, clientVars, composer, kept
<1>2. Top \in ArtifactFrame /\ ArtifactTrue(registry, Top)
  BY <1>1, TopFacts, FrameKinds DEF FrameTrue
<1>3. Top.source \in [id : Nat]
  BY <1>1, <1>2 DEF ArtifactTrue
<1>4. call = [op |-> "metadata", id |-> Top.source.id, values |-> <<>>]
  BY DEF MetadataCall
<1>. HIDE DEF call
<1>5. /\ call \in MetadataFrame /\ call \in Frame /\ call.op = "metadata"
      /\ call.id = Top.source.id /\ call.values = <<>>
  BY <1>3, <1>4 DEF MetadataFrame, Frame
<1>6. FrameTrue(setup, registry, call)
  <2>1. VersionsWith(registry, call.id) \in Seq(LogEntry)
    BY <1>1, TopFacts, MatchesAre
  <2>2. Len(VersionsWith(registry, call.id)) \in Nat /\ Len(call.values) = 0
    BY <1>5, <2>1
  <2>. QED
    BY <1>5, <2>2 DEF FrameTrue, MetadataTrue
<1>7. WaitsFor(setup, Top, call)
  BY <1>1, <1>3, <1>5 DEF WaitsFor, WaitsForMetadata
<1>. QED
  BY <1>1, <1>5, <1>6, <1>7, CallKeeps DEF LookupStep

LEMMA GetReferencesKeeps == ASSUME LookupInv, GetReferences PROVE LookupInv'
<1>. DEFINE op == [kind |-> "references", source |-> Top.source]
<1>1. /\ frames # <<>> /\ Top.op = "artifact" /\ Top.doc # NoDoc /\ Begin(op)
      /\ UNCHANGED <<frames, pending, cache, registered, resolved>>
  BY DEF GetReferences, Running, composer, kept
<1>2. Asks(Top, op)
  BY <1>1 DEF Asks
<1>. HIDE DEF op
<1>. QED
  BY <1>1, <1>2, AskKeeps DEF LookupInv, LookupStep

\* The content and its references were read one after the other.
LEMMA ContentIsRead ==
  ASSUME LookupInv, GotReferences
  PROVE  /\ [doc |-> Top.doc, refs |-> reply.refs] \in Content
         /\ IsContent(registry, Top.source, [doc |-> Top.doc, refs |-> reply.refs])
<1>. DEFINE content == [doc |-> Top.doc, refs |-> reply.refs]
<1>1. frames # <<>> /\ Top.op = "artifact" /\ request.phase = "answered" /\ Top.doc # NoDoc
  BY DEF GotReferences, Running
<1>2. /\ Top \in ArtifactFrame /\ registry \in RegistryType /\ IdsKnown(registry)
      /\ ArtifactTrue(registry, Top)
  BY <1>1, TopFacts, FrameKinds DEF FrameTrue
<1>3. /\ IsKnown(registry, Top.source)
      /\ reply.refs = registry.contents[ContentAt(registry, Top.source)].refs
  <2>. DEFINE op == [kind |-> "references", source |-> Top.source]
  <2>1. request.op = op /\ ReplyTrue(registry, request.op, reply, now - Latency)
    BY <1>1, AnswerTo DEF Asks
  <2>2. op.kind = "references" /\ op.source = Top.source
    OBVIOUS
  <2>. HIDE DEF op
  <2>. QED
    BY <2>1, <2>2 DEF ReplyTrue
<1>4. content = registry.contents[ContentAt(registry, Top.source)] /\ content \in Content
  <2>. DEFINE c == registry.contents[ContentAt(registry, Top.source)]
  <2>1. c \in Content
    BY <1>2, <1>3, ContentsAre
  <2>2. Top.doc = c.doc /\ reply.refs = c.refs
    BY <1>1, <1>2, <1>3 DEF ArtifactTrue
  <2>. HIDE DEF c
  <2>3. content = c
    BY <2>1, <2>2 DEF Content
  <2>. QED
    BY <2>1, <2>3 DEF c
<1>. HIDE DEF content
<1>5. IsContent(registry, Top.source, content)
  BY <1>3, <1>4 DEF IsContent
<1>. QED
  BY <1>4, <1>5 DEF content

LEMMA GotReferencesKeeps == ASSUME LookupInv, GotReferences PROVE LookupInv'
<1>. DEFINE content == [doc |-> Top.doc, refs |-> reply.refs]
<1>1. /\ frames # <<>> /\ Top.op = "artifact" /\ request.phase = "answered" /\ TakeAnswer
      /\ Top.doc # NoDoc /\ cache' = Stored(cache, Top.source, content) /\ Return(content)
      /\ UNCHANGED <<pending, registered, resolved, setup>>
  BY DEF GotReferences, Running, composer
<1>2. /\ Top \in ArtifactFrame /\ registry \in RegistryType /\ IdsKnown(registry) /\ now \in Nat
      /\ CacheOK(cache, registry, now)
  BY <1>1, TopFacts, FrameKinds
<1>3. content \in Content /\ IsContent(registry, Top.source, content)
  BY ContentIsRead
<1>. HIDE DEF content
<1>4. CacheOK(cache', registry, now)
  <2>. DEFINE key == Top.source
  <2>1. key \in Source
    BY <1>2 DEF ArtifactFrame
  <2>. HIDE DEF key
  <2>2. /\ [key |-> key, at |-> now, value |-> content] \in CacheItem
        /\ ItemTrue(registry, [key |-> key, at |-> now, value |-> content])
    BY <1>2, <1>3, <2>1, KeyKinds, ItemIs DEF key
  <2>3. CacheOK(Stored(cache, key, content), registry, now)
    BY <1>2, <2>2, StoredIsOK
  <2>. QED
    BY <1>1, <2>3 DEF key
<1>5. /\ CallsOK(setup, registry, Resuming(frames, content), pending)
      /\ TopOK(Resuming(frames, content))
  BY <1>1, <1>2, <1>3, TopFacts, ArtifactReturns DEF Top
<1>6. request'.phase = "idle"
  BY <1>1, TakenIsIdle
<1>. QED
  BY <1>1, <1>4, <1>5, <1>6, ReturnKeeps DEF LookupInv, LookupStep

LEMMA SearchKeeps == ASSUME LookupInv, Search PROVE LookupInv'
<1>. DEFINE key == MetadataKey(Top)
            op == [kind |-> "search", id |-> Top.id, offset |-> Len(Top.values),
                   limit |-> PageSize]
            value == ItemOf(cache, key).value.values
<1>1. /\ frames # <<>> /\ Top.op = "metadata" /\ request.phase = "idle"
      /\ cache' \in {cache, Looked(cache, key)}
      /\ UNCHANGED <<pending, registered, resolved, setup>>
  BY DEF Search, Running, Idle, composer
<1>2. CacheOK(cache, registry, now)
  BY <1>1, TopFacts
<1>3. CacheOK(cache', registry, now)
  BY <1>1, <1>2, LookedIsOK
<1>4. CASE Return(value) /\ UNCHANGED clientVars
  <2>. HIDE DEF value
  <2>1. /\ CallsOK(setup, registry, Resuming(frames, value), pending)
        /\ TopOK(Resuming(frames, value))
    BY <1>1, TopFacts, MetadataReturns DEF Top
  <2>2. Return(value) /\ request' = request
    BY <1>4 DEF clientVars
  <2>. QED
    BY <1>1, <1>3, <2>1, <2>2, ReturnKeeps DEF LookupInv, LookupStep
<1>5. CASE Begin(op) /\ UNCHANGED frames
  <2>1. Asks(Top, op)
    BY <1>1 DEF Asks
  <2>. HIDE DEF op
  <2>. QED
    BY <1>1, <1>3, <1>5, <2>1, AskKeeps DEF LookupStep
<1>. QED
  BY <1>4, <1>5 DEF Search

LEMMA Joined ==
  ASSUME NEW X, NEW s \in Seq(X), NEW t \in Seq(X)
  PROVE  /\ s \o t \in Seq(X) /\ Len(s \o t) = Len(s) + Len(t)
         /\ \A i \in 1..Len(s) : (s \o t)[i] = s[i]
         /\ \A i \in (Len(s) + 1)..(Len(s) + Len(t)) : (s \o t)[i] = t[i - Len(s)]
<1>1. Len(s) \in Nat /\ Len(t) \in Nat
  OBVIOUS
<1>2. s \o t \in Seq(X) /\ Len(s \o t) = Len(s) + Len(t)
  OBVIOUS
<1>3. \A i \in 1..Len(s) : (s \o t)[i] = s[i]
  BY <1>1
<1>4. \A i \in (Len(s) + 1)..(Len(s) + Len(t)) : (s \o t)[i] = t[i - Len(s)]
  BY <1>1
<1>. QED
  BY <1>2, <1>3, <1>4

ValuesWith(values, answer) == values \o answer.page

AreFirst(r, id, values) ==
  /\ values \in Seq(LogEntry)
  /\ Len(values) <= Len(VersionsWith(r, id))
  /\ \A i \in 1..Len(values) : values[i] = VersionsWith(r, id)[i]

\* A page goes on where the values end.
LEMMA PageGoesOn ==
  ASSUME NEW r \in RegistryType, NEW id, NEW old, AreFirst(r, id, old), NEW answer, NEW at,
         PageTrue(r, id, Len(old), answer, at)
  PROVE  /\ AreFirst(r, id, ValuesWith(old, answer))
         /\ Len(ValuesWith(old, answer)) = Len(old) + Len(answer.page)
<1>. DEFINE s == VersionsWith(r, id)
            page == answer.page
            values == ValuesWith(old, answer)
            n == Len(old)
            m == Len(page)
<1>1. s \in Seq(LogEntry) /\ old \in Seq(LogEntry) /\ page \in Seq(LogEntry)
  BY MatchesAre DEF PageTrue, AreFirst
<1>2. /\ n <= Len(s) /\ \A i \in 1..n : old[i] = s[i]
      /\ n + m <= Len(s) /\ \A i \in 1..m : page[i] = s[n + i]
  BY DEF PageTrue, AreFirst
<1>3. values = old \o page
  BY DEF ValuesWith
<1>. HIDE DEF s, page, values
<1>4. n \in Nat /\ m \in Nat /\ Len(s) \in Nat
  BY <1>1
<1>5. /\ values \in Seq(LogEntry) /\ Len(values) = n + m
      /\ \A i \in 1..n : values[i] = old[i]
      /\ \A i \in (n + 1)..(n + m) : values[i] = page[i - n]
  BY <1>1, <1>3, Joined
<1>. HIDE DEF n, m
<1>6. ASSUME NEW i \in 1..Len(values) PROVE values[i] = s[i]
  <2>. DEFINE j == i - n
  <2>1. i \in 1..n \/ (i \in (n + 1)..(n + m) /\ j \in 1..m /\ n + j = i)
    <3>1. \A a, b \in Nat : \A k \in 1..(a + b) :
            k \in 1..a \/ (k \in (a + 1)..(a + b) /\ k - a \in 1..b /\ a + (k - a) = k)
      OBVIOUS
    <3>2. i \in 1..(n + m)
      BY <1>5
    <3>. QED
      BY <1>4, <3>1, <3>2
  <2>2. CASE i \in 1..n
    BY <1>2, <1>5, <2>2
  <2>3. CASE i \in (n + 1)..(n + m) /\ j \in 1..m /\ n + j = i
    <3>1. values[i] = page[j]
      BY <1>5, <2>3
    <3>2. page[j] = s[n + j]
      BY <1>2, <2>3
    <3>. QED
      BY <2>3, <3>1, <3>2
  <2>. QED
    BY <2>1, <2>2, <2>3
<1>7. Len(values) = n + m /\ Len(values) <= Len(s) /\ values \in Seq(LogEntry)
  BY <1>2, <1>5
<1>8. AreFirst(r, id, values)
  BY <1>6, <1>7 DEF AreFirst, s
<1>. QED
  BY <1>7, <1>8 DEF n, m, page, values

\* After the last page, the values are all the matches that are old enough.
LEMMA LastPageHasAll ==
  ASSUME NEW r \in RegistryType, NEW id, NEW old, AreFirst(r, id, old), NEW answer, NEW at \in Int,
         PageTrue(r, id, Len(old), answer, at),
         LastPage(Len(ValuesWith(old, answer)), answer)
  PROVE  MatchesTrue(r, id, at, ValuesWith(old, answer))
<1>. DEFINE s == VersionsWith(r, id)
            values == ValuesWith(old, answer)
<1>1. AreFirst(r, id, values) /\ Len(values) = Len(old) + Len(answer.page)
  BY PageGoesOn
<1>. HIDE DEF values
<1>2. /\ values \in Seq(LogEntry) /\ Len(values) <= Len(s)
      /\ \A i \in 1..Len(values) : values[i] = s[i]
  BY <1>1 DEF AreFirst
<1>3. \A k \in DOMAIN s : k > Len(values) => s[k].at >= at
  BY <1>1 DEF PageTrue, values
<1>4. s \in Seq(LogEntry) /\ ToSet(s) = {v \in ToSet(r.log) : v.id = id}
  BY MatchesAre
<1>. HIDE DEF s
<1>5. ASSUME NEW v \in ToSet(s), v.at < at PROVE v \in ToSet(values)
  <2>1. PICK k \in DOMAIN s : v = s[k]
    BY DEF ToSet
  <2>2. s[k] \in LogEntry /\ k \in 1..Len(s)
    BY <1>4
  <2>3. s[k].at \in Nat /\ k \in Nat /\ k >= 1
    BY <1>4, <2>2 DEF LogEntry
  <2>4. Len(values) \in Nat /\ DOMAIN values = 1..Len(values)
    BY <1>2
  <2>5. ~(k > Len(values))
    <3>. SUFFICES ASSUME k > Len(values) PROVE FALSE
      OBVIOUS
    <3>1. s[k].at >= at
      BY <1>3
    <3>. QED
      BY <1>5, <2>1, <2>3, <3>1
  <2>6. k \in 1..Len(values)
    BY <2>3, <2>4, <2>5
  <2>. QED
    BY <1>2, <2>1, <2>4, <2>6 DEF ToSet
<1>. QED
  BY <1>4, <1>5 DEF MatchesTrue, values

LEMMA FoundKeeps == ASSUME LookupInv, Found PROVE LookupInv'
<1>. DEFINE key == MetadataKey(Top)
            values == ValuesWith(Top.values, reply)
            f == [Top EXCEPT !.values = values]
            found == [values |-> values]
<1>1. /\ frames # <<>> /\ Top.op = "metadata" /\ request.phase = "answered" /\ TakeAnswer
      /\ UNCHANGED <<pending, registered, resolved, setup>>
  BY DEF Found, Running, composer
<1>2. /\ Top \in MetadataFrame /\ registry \in RegistryType /\ now \in Nat
      /\ CacheOK(cache, registry, now) /\ MetadataTrue(registry, Top)
  BY <1>1, TopFacts, FrameKinds DEF FrameTrue
<1>3. /\ now - Latency \in Int
      /\ PageTrue(registry, Top.id, Len(Top.values), reply, now - Latency)
  <2>. DEFINE op == [kind |-> "search", id |-> Top.id, offset |-> Len(Top.values),
                     limit |-> PageSize]
  <2>1. /\ request.op = op /\ now - Latency \in Int
        /\ ReplyTrue(registry, request.op, reply, now - Latency)
    BY <1>1, AnswerTo DEF Asks
  <2>2. op.kind = "search" /\ op.id = Top.id /\ op.offset = Len(Top.values)
    OBVIOUS
  <2>. HIDE DEF op
  <2>. QED
    BY <2>1, <2>2 DEF ReplyTrue
<1>4. AreFirst(registry, Top.id, Top.values)
  BY <1>2 DEF AreFirst, MetadataTrue, MetadataFrame
<1>5. AreFirst(registry, Top.id, values) /\ values \in Seq(LogEntry)
  <2>1. AreFirst(registry, Top.id, values)
    BY <1>2, <1>3, <1>4, PageGoesOn
  <2>. QED
    BY <2>1 DEF AreFirst
<1>6. request'.phase = "idle"
  BY <1>1, TakenIsIdle
<1>7. CASE /\ LastPage(Len(values), reply)
           /\ cache' = Stored(cache, key, found) /\ Return(values)
  <2>1. MatchesTrue(registry, Top.id, now - Latency, values)
    BY <1>2, <1>3, <1>4, <1>7, LastPageHasAll
  <2>. HIDE DEF values
  <2>2. found \in [values : Seq(LogEntry)] /\ found.values = values
    BY <1>5
  <2>. HIDE DEF found
  <2>3. key \in MetadataKeys /\ key.id = Top.id
    BY <1>2 DEF MetadataFrame, MetadataKeys, MetadataKey
  <2>. HIDE DEF key
  <2>4. /\ [key |-> key, at |-> now, value |-> found] \in CacheItem
        /\ ItemTrue(registry, [key |-> key, at |-> now, value |-> found])
    BY <1>2, <2>1, <2>2, <2>3, KeyKinds, ItemIs
  <2>5. CacheOK(cache', registry, now)
    BY <1>2, <1>7, <2>4, StoredIsOK
  <2>6. /\ CallsOK(setup, registry, Resuming(frames, values), pending)
        /\ TopOK(Resuming(frames, values))
    BY <1>1, TopFacts, MetadataReturns DEF Top
  <2>. QED
    BY <1>1, <1>6, <1>7, <2>5, <2>6, ReturnKeeps DEF LookupInv, LookupStep
<1>8. CASE Update(f) /\ UNCHANGED cache
  <2>. HIDE DEF values
  <2>1. f \in MetadataFrame /\ f.op = "metadata" /\ f.id = Top.id /\ f.values = values
    BY <1>2, <1>5 DEF MetadataFrame
  <2>. HIDE DEF f
  <2>2. f \in Frame /\ FrameTrue(setup, registry, f)
    BY <1>5, <2>1 DEF Frame, FrameTrue, MetadataTrue, AreFirst
  <2>. QED
    BY <1>1, <1>6, <1>8, <2>1, <2>2, UpdateKeeps DEF LookupStep
<1>. QED
  BY <1>7, <1>8 DEF Found, ValuesWith

LEMMA CollectKeeps == ASSUME LookupInv, Collect PROVE LookupInv'
<1>. DEFINE ref == Top.refs[Top.next]
            n == Top.next + 1
            f == [Top EXCEPT !.next = n]
<1>1. /\ frames # <<>> /\ Top.op = "collect" /\ request.phase = "idle"
      /\ Top.found = None /\ Top.next <= Len(Top.refs)
      /\ UNCHANGED <<request, pending, cache, registered, resolved>>
  BY DEF Collect, Running, Idle, clientVars, composer, kept
<1>2. Top \in CollectFrame /\ CollectTrue(registry, Top)
  BY <1>1, TopFacts, FrameKinds DEF FrameTrue
<1>3. Top.next \in Nat \ {0} /\ Top.refs \in Seq(Reference)
  BY <1>2 DEF CollectFrame
<1>4. ref \in Reference /\ ref \in Source
  BY <1>1, <1>3 DEF Source
<1>5. CASE Update(f)
  <2>1. n \in Nat \ {0}
    BY <1>3
  <2>. HIDE DEF n
  <2>2. /\ f \in CollectFrame /\ f.op = "collect" /\ f.ref = Top.ref /\ f.doc = Top.doc
        /\ f.refs = Top.refs /\ f.found = None
    BY <1>1, <1>2, <2>1 DEF CollectFrame
  <2>. HIDE DEF f
  <2>3. f \in Frame /\ FrameTrue(setup, registry, f)
    BY <1>2, <2>2 DEF Frame, FrameTrue, CollectTrue
  <2>. QED
    BY <1>1, <1>5, <2>2, <2>3, UpdateKeeps DEF LookupStep
<1>6. CASE Call(ArtifactCall(ref))
  <2>. DEFINE call == ArtifactCall(ref)
  <2>1. Call(call)
    BY <1>6
  <2>2. call \in Frame /\ call.op = "artifact" /\ call.source = ref /\ call.doc = NoDoc
    BY <1>4, ArtifactIsCalled
  <2>. HIDE DEF call
  <2>3. ref \notin [id : Nat]
    BY <1>4, SourceKinds
  <2>4. FrameTrue(setup, registry, call)
    BY <2>2, <2>3 DEF FrameTrue, ArtifactTrue
  <2>5. WaitsFor(setup, Top, call)
    BY <1>1, <2>2 DEF WaitsFor, WaitsForArtifact
  <2>. QED
    BY <1>1, <2>1, <2>2, <2>4, <2>5, CallKeeps DEF LookupStep
<1>. QED
  BY <1>5, <1>6 DEF Collect

LEMMA DescendKeeps == ASSUME LookupInv, Descend PROVE LookupInv'
<1>. DEFINE ref == Top.refs[Top.next]
            call == CollectCall(ref, Top.found)
<1>1. /\ frames # <<>> /\ Top.op = "collect" /\ request.phase = "idle"
      /\ Top.found # None /\ Call(call)
      /\ UNCHANGED <<request, pending, cache, registered, resolved>>
  BY DEF Descend, Running, Idle, clientVars, composer, kept
<1>2. Top \in CollectFrame /\ CollectTrue(registry, Top)
  BY <1>1, TopFacts, FrameKinds DEF FrameTrue
<1>3. /\ Top.next \in Nat \ {0} /\ Top.refs \in Seq(Reference) /\ Top.found \in Content
      /\ Top.next <= Len(Top.refs) /\ IsContent(registry, ref, Top.found)
  BY <1>1, <1>2 DEF CollectFrame, CollectTrue
<1>4. ref \in Reference
  BY <1>3
<1>5. /\ call \in Frame /\ call.op = "collect" /\ call.ref = ref /\ call.doc = Top.found.doc
      /\ call.refs = Top.found.refs /\ call.found = None
  BY <1>3, <1>4, CollectIsCalled
<1>. HIDE DEF call
<1>6. FrameTrue(setup, registry, call)
  BY <1>3, <1>5 DEF FrameTrue, CollectTrue, IsContent
<1>7. WaitsFor(setup, Top, call)
  BY <1>1, <1>5 DEF WaitsFor, WaitsForCollect
<1>. QED
  BY <1>1, <1>5, <1>6, <1>7, CallKeeps DEF LookupStep

LEMMA CollectedKeeps == ASSUME LookupInv, Collected PROVE LookupInv'
<1>1. /\ frames # <<>> /\ Top.op = "collect" /\ request.phase = "idle" /\ Top.ref # None
      /\ UNCHANGED <<request, pending, cache, registered, resolved, setup>>
      /\ Return("collected")
  BY DEF Collected, Running, Idle, clientVars, composer, kept
<1>2. CacheOK(cache', registry, now) /\ RegisteredOK(registered', registry)
  BY <1>1 DEF LookupInv
<1>3. /\ CallsOK(setup, registry, Resuming(frames, "collected"), pending)
      /\ TopOK(Resuming(frames, "collected"))
  BY <1>1, TopFacts, CollectReturns DEF Top
<1>. QED
  BY <1>1, <1>2, <1>3, ReturnKeeps DEF LookupStep

LEMMA ParseKeeps == ASSUME LookupInv, Parse PROVE LookupInv'
<1>1. /\ frames # <<>> /\ Top.op = "collect" /\ request.phase = "idle" /\ Top.ref = None
      /\ UNCHANGED request
  BY DEF Parse, Running, Idle, clientVars
<1>2. CASE Fail("unparsed")
  BY <1>1, <1>2, FailKeeps DEF LookupStep
<1>3. CASE /\ frames' = Tail(frames)
           /\ UNCHANGED <<setup, composer, walk, cache, registered>>
  <2>1. /\ UNCHANGED <<pending, cache, registered, resolved, setup>>
        /\ CacheOK(cache', registry, now) /\ RegisteredOK(registered', registry)
    BY <1>3 DEF LookupInv, composer
  <2>2. /\ Len(frames) >= 2 /\ frames[2] \in Frame /\ WaitsFor(setup, frames[2], Top)
        /\ Len(frames) \in Nat
    BY <1>1, TopFacts, HasCaller DEF CallsOK, Top
  <2>3. /\ CallsOK(setup, registry, Tail(frames), pending)
        /\ Head(Tail(frames)) = frames[2]
    BY <2>2, TopFacts, CallEnds, <1>1
  <2>4. TopOK(Tail(frames))
    <3>. SUFFICES ASSUME frames[2].op = "resolve" PROVE frames[2].version # None
      BY <2>3 DEF TopOK
    <3>1. frames[2].artifact # None
      BY <1>1, <2>2 DEF WaitsFor, WaitsForCollect
    <3>2. FrameTrue(setup, registry, frames[2])
      BY <1>1, <2>2, TopFacts DEF CallsOK, CallsTrue
    <3>. QED
      BY <3>1, <3>2 DEF FrameTrue, ResolveTrue
  <2>5. /\ CallsOK(setup, registry, frames', pending') /\ TopOK(frames')
        /\ pending' \in Seq(Field) /\ ResolvedOK(resolved', setup, registry)
    BY <1>3, <2>1, <2>3, <2>4 DEF LookupInv
  <2>. QED
    BY <1>1, <2>1, <2>5, StepKeeps DEF LookupStep
<1>. QED
  BY <1>2, <1>3 DEF Parse
----------------------------------------------------------------------------
(* Every step keeps the invariant.                                         *)

LEMMA LookupKeeps ==
  ASSUME LookupInv, LookupStep \/ Produce
  PROVE  LookupInv'
  BY NextFieldKeeps, RaiseKeeps, ReadArtifactKeeps, ReadSchemaKeeps, ResolveKeeps, RegisterKeeps,
     RegisteredKeeps, GetVersionKeeps, GotVersionKeeps, GetContentKeeps, GotContentKeeps,
     AskMetadataKeeps, RefuseTypeKeeps, GetReferencesKeeps, GotReferencesKeeps, SearchKeeps,
     FoundKeeps, CollectKeeps, DescendKeeps, CollectedKeeps, ParseKeeps, ProduceKeeps
  DEF LookupStep

LEMMA LookupInitially == Init => LookupInv
<1>. SUFFICES ASSUME Init PROVE LookupInv
  OBVIOUS
<1>1. /\ ClientInv /\ setup \in Setups /\ registry = setup.registry /\ now = 0
      /\ request.phase = "idle"
  BY ClientInitially DEF Init, ClientInit, NewRequest
<1>2. GivenRegistry(registry)
  BY <1>1, ResolutionAssumption
<1>3. RegistryOK(registry, now) /\ RefsOK(setup, registry)
  BY <1>1, <1>2 DEF GivenRegistry, RegistryOK, RegistryType, IdsKnown, Before, RefsOK, ToSet
<1>4. pending \in Seq(Field)
  BY DEF Init, FIELDS, Field
<1>5. CallsOK(setup, registry, frames, pending) /\ TopOK(frames)
  BY NoCalls DEF Init
<1>6. AskedOK /\ AnsweredOK
  BY <1>1 DEF AskedOK, AnsweredOK
<1>7. CacheOK(cache, registry, now)
  <2>1. cache = <<>> /\ DOMAIN cache = {}
    BY DEF Init
  <2>. QED
    BY <2>1 DEF CacheOK, ToSet
<1>8. RegisteredOK(registered, registry)
  <2>1. DOMAIN registered = {}
    BY DEF Init
  <2>. QED
    BY <2>1 DEF RegisteredOK
<1>9. ResolvedOK(resolved, setup, registry)
  BY DEF Init, ResolvedOK
<1>. QED
  BY <1>1, <1>3, <1>4, <1>5, <1>6, <1>7, <1>8, <1>9 DEF LookupInv

LEMMA LookupStays == LookupInv /\ UNCHANGED vars => LookupInv'
<1>. SUFFICES ASSUME LookupInv, UNCHANGED vars PROVE LookupInv'
  OBVIOUS
<1>1. UNCHANGED <<now, token, request, reply, registry, setup, pending, frames, cache, registered,
                  resolved>>
  BY DEF vars, clientVars, composer, kept
<1>2. ClientInv'
  BY <1>1, ClientStepKeeps DEF clientVars, LookupInv
<1>3. AskedOK' /\ AnsweredOK'
  BY <1>1 DEF LookupInv, AskedOK, AnsweredOK
<1>. QED
  BY <1>1, <1>2, <1>3 DEF LookupInv

LEMMA StepIsClient == LookupInv /\ [Next]_vars => [ClientNext]_clientVars
<1>. SUFFICES ASSUME LookupInv, [Next]_vars PROVE [ClientNext]_clientVars
  OBVIOUS
<1>1. CASE UNCHANGED vars
  BY <1>1 DEF vars
<1>2. CASE LookupStep \/ Produce
  BY <1>2, LookupIsClient
<1>3. CASE ClientStep \/ Trouble
  BY <1>3, AroundIsClient
<1>. QED
  BY <1>1, <1>2, <1>3 DEF Next

LEMMA LookupInvariant == Spec => []LookupInv
<1>1. LookupInv /\ [Next]_vars => LookupInv'
  <2>. SUFFICES ASSUME LookupInv, [Next]_vars PROVE LookupInv'
    OBVIOUS
  <2>. QED
    BY LookupKeeps, AroundKeeps, LookupStays DEF Next
<1>. QED
  BY <1>1, LookupInitially, PTL DEF Spec

\* resolve_schemas() and what it calls use ApicurioClient as it is meant: a
\* request is begun when none is under way and each has an op of its own, and
\* every answer or exception is taken before the next one.
LEMMA LookupsUseTheClient == Spec => ClientSpec
<1>1. Init => ClientInit
  BY DEF Init
<1>. QED
  BY <1>1, StepIsClient, LookupInvariant, PTL DEF Spec, ClientSpec

\* So what is proved of any caller's requests is so for the lookup's: each is
\* sent at most retry-count + 2 times, and fails for its token only when a
\* token it fetched itself was refused.
THEOREM LookupRequestsEnd == Spec => [](SendsAreBounded /\ RefusedTokenIsNew)
  BY LookupsUseTheClient, RequestsEnd, RefusedTokensAreNew, PTL

\* The lookup's own steps never write the registry; a request that is handled
\* uses the version that is there.  The registry may be given with a content
\* twice, for which the producer is not to blame: then there is nothing to say.
THEOREM DocumentsAreRegisteredOnce == Spec /\ RegisteredOnce => []RegisteredOnce
<1>1. RegisteredOnce <=> Once(registry.log)
  BY DEF RegisteredOnce, Once
<1>2. LookupInv /\ Once(registry.log) /\ [Next]_vars => Once(registry.log)'
  <2>. SUFFICES ASSUME LookupInv, Once(registry.log), [Next]_vars PROVE Once(registry'.log)
    OBVIOUS
  <2>1. CASE LookupStep \/ Produce
    BY <2>1, LookupIsClient
  <2>2. CASE ClientStep \/ Trouble
    BY <2>2, AroundKeeps
  <2>3. CASE UNCHANGED vars
    BY <2>3 DEF vars, clientVars
  <2>. QED
    BY <2>1, <2>2, <2>3 DEF Next
<1>. QED
  BY <1>1, <1>2, LookupInvariant, PTL DEF Spec

\* _cached() finds only what the registry has: a content with all its
\* references under its id or version, a version of the artifact asked for,
\* and every version there was when a search's last answer was given.  What a
\* failed request had read so far is not kept.
THEOREM KeptIsTrue == Spec => []CacheIsTrue
<1>1. LookupInv => CacheIsTrue
  <2>. SUFFICES ASSUME LookupInv, NEW i \in DOMAIN cache
                PROVE  LET item == cache[i] IN
                       IF "kind" \notin DOMAIN item.key
                       THEN item.value = registry.contents[ContentAt(registry, item.key)]
                       ELSE IF "artifact" \in DOMAIN item.key
                       THEN /\ VersionsOf(registry, item.key.artifact)[item.value.version].id
                                 = item.value.id
                            /\ item.key.version # Latest => item.value.version = item.key.version
                       ELSE \A v \in ToSet(registry.log) :
                              v.id = item.key.id /\ v.at < item.at - Latency
                                => v \in ToSet(item.value.values)
    BY DEF CacheIsTrue
  <2>. DEFINE item == cache[i]
  <2>1. item \in CacheItem /\ ItemTrue(registry, item)
    BY DEF LookupInv, CacheOK, ToSet
  <2>2. item.key \in Source \cup VersionKeys \cup MetadataKeys
    BY <2>1 DEF CacheItem
  <2>. HIDE DEF item
  <2>3. CASE item.key \in Source
    <3>1. "kind" \notin DOMAIN item.key
      BY <2>3 DEF Source, Reference
    <3>. QED
      BY <2>1, <2>3, <3>1 DEF ItemTrue, IsContent, item
  <2>4. CASE item.key \in VersionKeys
    <3>1. "kind" \in DOMAIN item.key /\ "artifact" \in DOMAIN item.key
      BY <2>4 DEF VersionKeys
    <3>. QED
      BY <2>1, <2>4, <3>1 DEF ItemTrue, VersionTrue, IsVersion, item
  <2>5. CASE item.key \in MetadataKeys
    <3>1. "kind" \in DOMAIN item.key /\ "artifact" \notin DOMAIN item.key
      BY <2>5 DEF MetadataKeys
    <3>. QED
      BY <2>1, <2>5, <3>1 DEF ItemTrue, MatchesTrue, item
  <2>. QED
    BY <2>2, <2>3, <2>4, <2>5
<1>. QED
  BY <1>1, LookupInvariant, PTL

\* RegistrySerializer.resolve() ends with a version of the field's own
\* artifact, the local document's or the one that was chosen, though
\* _registered and the cache are shared by both fields and their references.
THEOREM FieldsHaveTheirSchemas == Spec => []SchemaOfTheField
<1>1. LookupInv => SchemaOfTheField
  BY DEF LookupInv, ResolvedOK, SchemaTrue, SchemaOfTheField
<1>. QED
  BY <1>1, LookupInvariant, PTL

\* _register() registers what a document refers to before the document, each
\* reference with the version that has the very document.
THEOREM ReferencesAreRegisteredFirst == Spec => []ReferencesFirst
<1>1. LookupInv => ReferencesFirst
  <2>. SUFFICES ASSUME LookupInv, NEW id \in DOMAIN registry.contents \ Given
                PROVE  LET content == registry.contents[id] IN
                       /\ Len(content.refs) = Len(DocRefs[content.doc])
                       /\ \A i \in DOMAIN content.refs :
                            /\ content.refs[i].artifact = DocRefs[content.doc][i]
                            /\ content.refs[i].version > 0
                            /\ HasVersion(registry, content.refs[i].artifact,
                                          content.refs[i].version)
                            /\ DocOf(content.refs[i]) = DocRefs[content.doc][i]
    BY DEF ReferencesFirst
  <2>. DEFINE content == registry.contents[id]
  <2>1. RefsTrue(registry, content) /\ registry \in RegistryType
    BY DEF LookupInv, RefsOK, Given, RegistryOK
  <2>2. content \in Content
    BY <2>1 DEF RegistryType
  <2>. HIDE DEF content
  <2>3. content.refs \in Seq(Reference)
    BY <2>2 DEF Content
  <2>4. ASSUME NEW i \in DOMAIN content.refs
        PROVE  /\ content.refs[i].artifact = DocRefs[content.doc][i]
               /\ content.refs[i].version > 0
               /\ HasVersion(registry, content.refs[i].artifact, content.refs[i].version)
               /\ DocOf(content.refs[i]) = DocRefs[content.doc][i]
    <3>1. i \in 1..Len(content.refs) /\ content.refs[i] \in Reference
      BY <2>3
    <3>2. content.refs[i].version \in Nat \ {0}
      BY <3>1 DEF Reference
    <3>3. /\ content.refs[i].artifact = DocRefs[content.doc][i]
          /\ HasDoc(registry, content.refs[i].artifact, content.refs[i].version,
                    DocRefs[content.doc][i])
      BY <2>1, <3>1 DEF RefsTrue
    <3>4. /\ content.refs[i].version \in DOMAIN VersionsOf(registry, content.refs[i].artifact)
          /\ DocOf(content.refs[i]) = DocRefs[content.doc][i]
      BY <3>3 DEF HasDoc, DocOf
    <3>. QED
      BY <3>2, <3>3, <3>4 DEF HasVersion, Numbered, Latest
  <2>. QED
    BY <2>1, <2>4 DEF RefsTrue, content
<1>. QED
  BY <1>1, LookupInvariant, PTL
----------------------------------------------------------------------------
(* The latest version.                                                     *)

\* The version a field is given was the latest less than the check period ago,
\* and the time an answer is on its way.
Fresh(r, time, artifact, answer) ==
  answer.version < Len(VersionsOf(r, artifact)) =>
    \/ VersionsOf(r, artifact)[answer.version + 1].at >= time - Latency
    \/ VersionsOf(r, artifact)[answer.version + 1].at > time - CheckPeriod - Latency

LEMMA LatestSince ==
  ASSUME NEW r \in RegistryType, NEW time \in Nat, Before(r, time), NEW artifact, NEW answer,
         NEW at \in Int, VersionTrue(r, artifact, Latest, answer, at),
         at >= time - Latency \/ at > time - CheckPeriod - Latency
  PROVE  Fresh(r, time, artifact, answer)
<1>. DEFINE s == VersionsOf(r, artifact)
            k == answer.version + 1
<1>. SUFFICES ASSUME answer.version < Len(s)
              PROVE  s[k].at >= time - Latency \/ s[k].at > time - CheckPeriod - Latency
  BY DEF Fresh
<1>1. s \in Seq(LogEntry)
  BY VersionsAre
<1>2. answer.version \in DOMAIN s /\ \A j \in DOMAIN s : j > answer.version => s[j].at >= at
  BY DEF VersionTrue, IsVersion
<1>3. \A v \in ToSet(s) : v.at <= time
  BY VersionsAre DEF Before
<1>. HIDE DEF s
<1>4. k \in DOMAIN s /\ k > answer.version
  BY <1>1, <1>2
<1>5. s[k] \in LogEntry /\ s[k] \in ToSet(s)
  BY <1>1, <1>4 DEF ToSet
<1>6. s[k].at \in Nat /\ s[k].at >= at /\ s[k].at <= time
  BY <1>2, <1>3, <1>4, <1>5 DEF LogEntry
<1>. QED
  BY <1>6, ClientAssumption DEF ClientAssumption

\* What the field's call goes on with.
LEMMA VersionTaken ==
  ASSUME LookupInv, Running("version"), NEW value, Return(value)
  PROVE  /\ frames[2] \in ResolveFrame /\ Top.artifact = setup.artifact[frames[2].field]
         /\ Head(frames').field = frames[2].field
         /\ value \in Answered => Head(frames').version = value
<1>1. /\ frames # <<>> /\ Top.op = "version" /\ Top = Head(frames) /\ Top = frames[1]
  BY TopFacts DEF Running, Top
<1>2. /\ Stacked(setup, frames, pending) /\ frames \in Seq(Frame)
  BY <1>1, TopFacts DEF CallsOK
<1>3. /\ frames[2] \in Frame /\ WaitsFor(setup, frames[2], Top) /\ Len(frames) >= 2
  BY <1>1, <1>2, HasCaller
<1>4. /\ frames[2] \in ResolveFrame /\ frames[2].version = None /\ frames[2].op = "resolve"
      /\ Top.artifact = setup.artifact[frames[2].field]
  BY <1>1, <1>3, FrameKinds DEF WaitsFor, WaitsForVersion
<1>. DEFINE g == frames[2]
            h == Resumed(g, value)
            rest == Tail(Tail(frames))
<1>5. h = [g EXCEPT !.version = value]
  BY <1>4, ResumedIs
<1>6. frames' = <<h>> \o rest
  BY DEF Return
<1>7. rest \in Seq(Frame)
  BY <1>2, <1>3, Popped
<1>. HIDE DEF h, rest
<1>8. h.field = g.field /\ h.version = value
  BY <1>4, <1>5 DEF ResolveFrame
<1>9. Head(frames') = h
  <2>. DEFINE X == Frame \cup {h}
  <2>1. h \in X /\ rest \in Seq(X)
    BY <1>7
  <2>. HIDE DEF X
  <2>. QED
    BY <1>6, <2>1, Pushed
<1>. QED
  BY <1>4, <1>8, <1>9

\* While the version is asked for, only _version() itself gives it back.
LEMMA OnlyVersionReturns ==
  ASSUME LookupInv, Running("version"), [Next]_vars, frames' # <<>>, Head(frames').op = "resolve"
  PROVE  GetVersion \/ GotVersion
<1>1. frames # <<>> /\ Top.op = "version" /\ Head(frames) = Top /\ is_resolving
  BY TopFacts DEF Running, Top, is_resolving
<1>2. frames' # frames
  BY <1>1
<1>3. ~UNCHANGED vars /\ ~(ClientStep \/ Trouble)
  BY <1>2, StepsAround DEF vars, resolution
<1>4. LookupStep \/ Produce
  BY <1>3 DEF Next
<1>5. ~Produce /\ ~NextField /\ ~Raise
  BY <1>1 DEF Produce, NextField, Raise, Fail
<1>6. /\ ~ReadArtifact /\ ~ReadSchema /\ ~Resolve /\ ~Register /\ ~Registered /\ ~GetContent
      /\ ~GotContent /\ ~AskMetadata /\ ~RefuseType /\ ~GetReferences /\ ~GotReferences
      /\ ~Search /\ ~Found /\ ~Collect /\ ~Descend /\ ~Collected /\ ~Parse
  BY <1>1 DEF Running, ReadArtifact, ReadSchema, Resolve, Register, Registered, GetContent,
              GotContent, AskMetadata, RefuseType, GetReferences, GotReferences, Search, Found,
              Collect, Descend, Collected, Parse
<1>. QED
  BY <1>4, <1>5, <1>6 DEF LookupStep

LEMMA TakenIsFresh ==
  ASSUME LookupInv, Running("version"), [Next]_vars, frames' # <<>>, Head(frames').op = "resolve",
         Top.version = Latest
  PROVE  Fresh(registry, now, setup.artifact[Head(frames').field], Head(frames').version)
<1>1. /\ frames # <<>> /\ Top \in VersionFrame /\ registry \in RegistryType /\ now \in Nat
      /\ Before(registry, now) /\ CacheOK(cache, registry, now)
  BY TopFacts, FrameKinds DEF Running
<1>2. ASSUME NEW value, NEW at \in Int, Return(value),
             VersionTrue(registry, Top.artifact, Latest, value, at),
             at >= now - Latency \/ at > now - CheckPeriod - Latency
      PROVE  Fresh(registry, now, setup.artifact[Head(frames').field], Head(frames').version)
  <2>1. value \in Answered
    BY <1>2 DEF VersionTrue, IsVersion
  <2>2. /\ Top.artifact = setup.artifact[Head(frames').field] /\ Head(frames').version = value
    BY <1>2, <2>1, VersionTaken
  <2>3. Fresh(registry, now, Top.artifact, value)
    BY <1>1, <1>2, LatestSince
  <2>. QED
    BY <2>2, <2>3
<1>3. CASE GetVersion
  <2>. DEFINE key == VersionKey(Top)
              item == ItemOf(cache, key)
  <2>1. Valid(cache, key) /\ Return(item.value)
    <3>1. CASE ~Valid(cache, key)
      <4>1. frames' = frames
        BY <1>3, <3>1 DEF GetVersion
      <4>. QED
        BY <4>1 DEF Running, Top
    <3>2. CASE Valid(cache, key)
      BY <1>3, <3>2 DEF GetVersion
    <3>. QED
      BY <3>1, <3>2
  <2>. DEFINE at == item.at - Latency
  <2>2. item.at \in Nat /\ VersionTrue(registry, Top.artifact, Latest, item.value, at)
    <3>1. item \in CacheItem /\ item.key = key /\ ItemTrue(registry, item)
      BY <1>1, <2>1, ValidItem
    <3>2. key \in VersionKeys /\ key.artifact = Top.artifact /\ key.version = Top.version
      BY <1>1, VersionKeyIs
    <3>. HIDE DEF key, item
    <3>. QED
      BY <3>1, <3>2 DEF ItemTrue, CacheItem
  <2>3. now - item.at < CheckPeriod
    BY <2>1 DEF Valid
  <2>. HIDE DEF item
  <2>4. at \in Int /\ at > now - CheckPeriod - Latency
    BY <1>1, <2>2, <2>3, ClientAssumption DEF ClientAssumption
  <2>. HIDE DEF at
  <2>. QED
    BY <1>2, <2>1, <2>2, <2>4
<1>4. CASE GotVersion
  <2>1. Return(reply) /\ request.phase = "answered" /\ Top.op = "version"
    BY <1>4 DEF GotVersion, Running
  <2>. DEFINE at == now - Latency
  <2>2. VersionTrue(registry, Top.artifact, Latest, reply, at) /\ at \in Int /\ at >= now - Latency
    <3>. DEFINE op == [kind |-> "version", artifact |-> Top.artifact, version |-> Top.version]
    <3>1. /\ request.op = op /\ ReplyTrue(registry, request.op, reply, at)
          /\ at \in Int /\ at >= now - Latency
      BY <1>1, <2>1, AnswerTo DEF Asks
    <3>2. op.kind = "version" /\ op.artifact = Top.artifact /\ op.version = Latest
      OBVIOUS
    <3>. HIDE DEF op
    <3>. QED
      BY <3>1, <3>2 DEF ReplyTrue
  <2>. HIDE DEF at
  <2>. QED
    BY <1>1, <1>2, <2>1, <2>2
<1>. QED
  BY <1>3, <1>4, OnlyVersionReturns

\* _version() asks again once an entry is as old as the check period: when a
\* field takes a version for the latest, any later one has come since the
\* registry answered, which was less than the check period and a request ago.
THEOREM LatestVersionsAreFresh == Spec => LatestIsFresh
<1>. DEFINE Step == \A f \in Field :
       Running("version") /\ frames' # <<>> /\ Head(frames').op = "resolve"
         /\ Top.version = Latest /\ f = Head(frames').field
       => LET all == VersionsOf(registry, setup.artifact[f])
              taken == Head(frames').version.version
          IN taken < Len(all) =>
               \/ all[taken + 1].at >= now - Latency
               \/ all[taken + 1].at > now - CheckPeriod - Latency
<1>1. LookupInv /\ [Next]_vars => Step
  BY TakenIsFresh DEF Fresh
<1>2. LookupInv /\ [Next]_vars => [Step]_vars
  BY <1>1
<1>. HIDE DEF Step
<1>3. Spec => [][Step]_vars
  BY <1>2, LookupInvariant, PTL DEF Spec
<1>. QED
  BY <1>3 DEF LatestIsFresh, Step
----------------------------------------------------------------------------
(* Reading a schema: what _collect_contents() has met and gathered.        *)

Entry == [ref : Reference, doc : Docs, refs : Seq(Reference)]

\* The k-th call, from the lowest.
Nth(calls, k) == calls[Len(calls) + 1 - k]

\* The calls of _collect_contents(), and those of them that are reading a
\* reference.
Collecting(calls) == {k \in 1..Len(calls) : Nth(calls, k).op = "collect"}
Reading(calls) == {k \in Collecting(calls) : k < Len(calls) \/ Nth(calls, k).found # None}
Wanted(calls, k) == Nth(calls, k).refs[Nth(calls, k).next]

\* The references a call is done with.
Followed(frame) == {frame.refs[i] : i \in 1..(frame.next - 1)}

\* The contents gathered, or about to be when what they refer to is.
Node(frame) == [ref |-> frame.ref, doc |-> frame.doc, refs |-> frame.refs]
Nodes(calls, got) == ToSet(got) \cup {Node(Nth(calls, k)) : k \in {j \in Collecting(calls) : j > 2}}

IsClosed(refs, nodes, S) ==
  ToSet(refs) \subseteq S /\ \A n \in nodes : n.ref \in S => ToSet(n.refs) \subseteq S

ReadOnce(got) == \A i, j \in DOMAIN got : got[i].ref = got[j].ref => i = j

\* A schema that was parsed with these contents holds all it refers to, and
\* nothing else.
Whole(refs, got) ==
  /\ ToSet(refs) \subseteq Refs(got)
  /\ ReadOnce(got)
  /\ \A e \in ToSet(got) : ToSet(e.refs) \subseteq Refs(got)
  /\ \A S : IsClosed(refs, ToSet(got), S) => Refs(got) \subseteq S
  /\ InOrder(got) \/ IsCyclic(ToSet(got))

\* Whole, half-way: seen is what is gathered or being read.
WalkSeen(calls, seen, got) ==
  /\ seen = Refs(got) \cup {Wanted(calls, k) : k \in Reading(calls)}
  /\ ReadOnce(got)
  /\ \A j, k \in Reading(calls) : Wanted(calls, j) = Wanted(calls, k) => j = k
  /\ \A k \in Reading(calls) : Wanted(calls, k) \notin Refs(got)

WalkFollowed(calls, seen, got) ==
  /\ \A e \in ToSet(got) : ToSet(e.refs) \subseteq seen
  /\ \A k \in Collecting(calls) : Followed(Nth(calls, k)) \subseteq seen

WalkNeeded(calls, seen, got) ==
  \A S : IsClosed(Nth(calls, 2).refs, Nodes(calls, got), S) => seen \subseteq S

WalkInOrder(calls, got) ==
  \/ IsCyclic(Nodes(calls, got))
  \/ /\ InOrder(got)
     /\ \A k \in Collecting(calls) : Followed(Nth(calls, k)) \subseteq Refs(got)

WalkOK(calls, seen, got) ==
  /\ got \in Seq(Entry)
  /\ WalkSeen(calls, seen, got) /\ WalkFollowed(calls, seen, got)
  /\ WalkNeeded(calls, seen, got) /\ WalkInOrder(calls, got)

\* Calls from the lowest.
LEMMA CallsFromBelow ==
  ASSUME NEW s, NEW r, NEW calls, NEW todo, CallsOK(s, r, calls, todo)
  PROVE  /\ Len(calls) \in Nat
         /\ \A k \in 1..Len(calls) : Nth(calls, k) \in Frame /\ FrameTrue(s, r, Nth(calls, k))
         /\ \A k \in 1..(Len(calls) - 1) : WaitsFor(s, Nth(calls, k), Nth(calls, k + 1))
         /\ calls # <<>> => /\ Nth(calls, 1).op = "resolve" /\ Len(calls) \in Nat \ {0}
                            /\ Nth(calls, Len(calls)) = Head(calls)
<1>1. calls \in Seq(Frame) /\ Len(calls) \in Nat
  BY DEF CallsOK, Stacked
<1>. DEFINE n == Len(calls)
<1>2. ASSUME NEW k \in 1..n PROVE Nth(calls, k) \in Frame /\ FrameTrue(s, r, Nth(calls, k))
  <2>1. n + 1 - k \in 1..n
    BY <1>1
  <2>. QED
    BY <1>1, <2>1 DEF Nth, CallsOK, CallsTrue
<1>3. ASSUME NEW k \in 1..(n - 1) PROVE WaitsFor(s, Nth(calls, k), Nth(calls, k + 1))
  <2>1. /\ n - k \in 1..(n - 1) /\ (n - k) + 1 = n + 1 - k /\ n - k = n + 1 - (k + 1)
    BY <1>1
  <2>2. WaitsFor(s, calls[(n - k) + 1], calls[n - k])
    BY <2>1 DEF CallsOK, Stacked
  <2>. QED
    BY <2>1, <2>2 DEF Nth
<1>4. ASSUME calls # <<>>
      PROVE  Nth(calls, 1).op = "resolve" /\ n \in Nat \ {0} /\ Nth(calls, n) = Head(calls)
  <2>1. n \in Nat \ {0} /\ n + 1 - 1 = n /\ n + 1 - n = 1 /\ Head(calls) = calls[1]
    BY <1>1, <1>4
  <2>. QED
    BY <1>4, <2>1 DEF Nth, CallsOK, Stacked
<1>. QED
  BY <1>1, <1>2, <1>3, <1>4

\* The calls of _collect_contents() lie on that of avro_schema(), each reads
\* what the one below it is at.
LEMMA CollectCalls ==
  ASSUME NEW s, NEW r, NEW calls, NEW todo, CallsOK(s, r, calls, todo)
  PROVE  /\ \A k \in Collecting(calls) :
              /\ k \in Nat /\ k >= 2 /\ k <= Len(calls)
              /\ Nth(calls, k) \in CollectFrame /\ CollectTrue(r, Nth(calls, k))
              /\ k = 2 => Nth(calls, k).ref = None
              /\ k > 2 => /\ k - 1 \in Reading(calls) /\ Nth(calls, k).ref = Wanted(calls, k - 1)
                          /\ Nth(calls, k).ref \in Reference
                          /\ Node(Nth(calls, k)) \in Entry
         /\ \A k \in Reading(calls) :
              /\ Nth(calls, k).next \in 1..Len(Nth(calls, k).refs)
              /\ Wanted(calls, k) \in Reference
              /\ Wanted(calls, k) \in ToSet(Nth(calls, k).refs)
         /\ calls # <<>> /\ Head(calls).op = "collect" =>
              \A k \in Reading(calls) : k < Len(calls) => k + 1 \in Collecting(calls)
<1>. DEFINE n == Len(calls)
<1>1. /\ n \in Nat
      /\ \A k \in 1..n : Nth(calls, k) \in Frame /\ FrameTrue(s, r, Nth(calls, k))
      /\ \A k \in 1..(n - 1) : WaitsFor(s, Nth(calls, k), Nth(calls, k + 1))
      /\ calls # <<>> => /\ Nth(calls, 1).op = "resolve" /\ n \in Nat \ {0}
                         /\ Nth(calls, n) = Head(calls)
  BY CallsFromBelow
<1>. HIDE DEF n
<1>2. ASSUME NEW k \in Reading(calls)
      PROVE  /\ k \in 1..n /\ Nth(calls, k) \in CollectFrame
             /\ Nth(calls, k).next \in 1..Len(Nth(calls, k).refs)
             /\ Wanted(calls, k) \in Reference /\ Wanted(calls, k) \in ToSet(Nth(calls, k).refs)
             /\ k < n => Nth(calls, k + 1).op \in {"collect", "artifact"}
  <2>. DEFINE f == Nth(calls, k)
  <2>1. k \in 1..n /\ f.op = "collect"
    BY DEF Reading, Collecting, n
  <2>2. f \in CollectFrame /\ CollectTrue(r, f)
    BY <1>1, <2>1, FrameKinds DEF FrameTrue
  <2>3. f.next \in Nat \ {0} /\ f.refs \in Seq(Reference)
    BY <2>2 DEF CollectFrame
  <2>4. ASSUME k < n
        PROVE  f.next <= Len(f.refs) /\ Nth(calls, k + 1).op \in {"collect", "artifact"}
    <3>. DEFINE g == Nth(calls, k + 1)
    <3>1. k \in 1..(n - 1) /\ k + 1 \in 1..n
      BY <1>1, <2>1, <2>4
    <3>2. WaitsFor(s, f, g) /\ g \in Frame
      BY <1>1, <3>1
    <3>. HIDE DEF f, g
    <3>3. g.op \in {"collect", "artifact"}
      BY <2>1, <3>2, FrameKinds
         DEF WaitsFor, WaitsForRegister, WaitsForVersion, WaitsForMetadata
    <3>4. f.next <= Len(f.refs)
      BY <2>1, <2>2, <3>2, <3>3 DEF WaitsFor, WaitsForArtifact, WaitsForCollect, CollectTrue
    <3>. QED
      BY <3>3, <3>4 DEF g
  <2>5. f.next <= Len(f.refs)
    BY <1>1, <2>1, <2>2, <2>4 DEF Reading, CollectTrue, n
  <2>. HIDE DEF f
  <2>6. f.next \in 1..Len(f.refs) /\ f.refs[f.next] \in Reference /\ f.refs[f.next] \in ToSet(f.refs)
    BY <2>3, <2>5 DEF ToSet
  <2>. QED
    BY <2>1, <2>2, <2>4, <2>6 DEF f, Wanted
<1>3. ASSUME NEW k \in Collecting(calls)
      PROVE  /\ k \in Nat /\ k >= 2 /\ k <= n
             /\ Nth(calls, k) \in CollectFrame /\ CollectTrue(r, Nth(calls, k))
             /\ k = 2 => Nth(calls, k).ref = None
             /\ k > 2 => /\ k - 1 \in Reading(calls) /\ Nth(calls, k).ref = Wanted(calls, k - 1)
                         /\ Nth(calls, k).ref \in Reference
                         /\ Node(Nth(calls, k)) \in Entry
  <2>. DEFINE f == Nth(calls, k)
              g == Nth(calls, k - 1)
  <2>1. k \in 1..n /\ f.op = "collect" /\ calls # <<>>
    BY <1>1 DEF Collecting, n
  <2>2. f \in CollectFrame /\ CollectTrue(r, f)
    BY <1>1, <2>1, FrameKinds DEF FrameTrue
  <2>3. k >= 2 /\ k - 1 \in 1..(n - 1) /\ (k - 1) + 1 = k /\ k - 1 \in 1..n
    BY <1>1, <2>1
  <2>4. WaitsForCollect(g, f)
    BY <1>1, <2>1, <2>3 DEF WaitsFor
  <2>5. CASE k = 2
    <3>1. g.op = "resolve"
      BY <1>1, <2>1, <2>5
    <3>. QED
      BY <2>1, <2>2, <2>3, <2>4, <2>5, <3>1 DEF WaitsForCollect
  <2>6. CASE k > 2
    <3>1. g.op # "resolve"
      <4>1. k - 2 \in 1..(n - 1) /\ (k - 2) + 1 = k - 1
        BY <1>1, <2>1, <2>6
      <4>. QED
        BY <1>1, <4>1 DEF WaitsFor
    <3>2. g.op = "collect" /\ f.ref = g.refs[g.next]
      BY <2>4, <3>1 DEF WaitsForCollect
    <3>3. k - 1 \in Reading(calls)
      BY <1>1, <2>1, <2>3, <3>2 DEF Reading, Collecting, n
    <3>4. f.ref = Wanted(calls, k - 1) /\ f.ref \in Reference
      BY <1>2, <3>2, <3>3 DEF Wanted
    <3>5. Node(f) \in Entry
      BY <2>2, <3>4 DEF Node, Entry, CollectFrame
    <3>. QED
      BY <2>1, <2>2, <2>3, <2>6, <3>3, <3>4, <3>5
  <2>. QED
    BY <2>3, <2>5, <2>6
<1>4. ASSUME calls # <<>>, Head(calls).op = "collect", NEW k \in Reading(calls), k < n
      PROVE  k + 1 \in Collecting(calls)
  <2>1. k \in 1..n /\ k + 1 \in 1..n /\ Nth(calls, k + 1).op \in {"collect", "artifact"}
        /\ Nth(calls, n).op = "collect"
    BY <1>1, <1>2, <1>4
  <2>2. CASE Nth(calls, k + 1).op = "artifact"
    <3>1. k + 1 < n /\ k + 1 \in 1..(n - 1) /\ k + 2 = (k + 1) + 1 /\ k + 2 \in 1..n
      BY <1>1, <2>1, <2>2
    <3>2. WaitsFor(s, Nth(calls, k + 1), Nth(calls, k + 2)) /\ Nth(calls, k + 2) \in Frame
      BY <1>1, <3>1
    <3>3. Nth(calls, k + 2).op = "metadata"
      BY <2>2, <3>2, FrameKinds DEF WaitsFor, WaitsForRegister, WaitsForVersion,
         WaitsForArtifact, WaitsForCollect
    <3>4. k + 2 < n /\ k + 2 \in 1..(n - 1)
      BY <1>1, <2>1, <3>1, <3>3
    <3>5. WaitsFor(s, Nth(calls, k + 2), Nth(calls, (k + 2) + 1)) /\ Nth(calls, (k + 2) + 1) \in Frame
      BY <1>1, <3>4
    <3>. QED
      BY <3>3, <3>5, FrameKinds DEF WaitsFor, WaitsForRegister, WaitsForVersion,
         WaitsForArtifact, WaitsForMetadata, WaitsForCollect
  <2>3. CASE Nth(calls, k + 1).op = "collect"
    BY <2>1, <2>3 DEF Collecting, n
  <2>. QED
    BY <2>1, <2>2, <2>3
<1>. QED
  BY <1>2, <1>3, <1>4 DEF n

\* What is not of _collect_contents() leaves the walk as it is.
SameWalk(t, calls) ==
  /\ Collecting(t) = Collecting(calls) /\ Reading(t) = Reading(calls)
  /\ \A k \in Collecting(calls) :
       /\ Node(Nth(t, k)) = Node(Nth(calls, k))
       /\ Nth(t, k).next = Nth(calls, k).next

LEMMA SameWalkHolds ==
  ASSUME NEW t, NEW calls, SameWalk(t, calls), NEW seen, NEW got, WalkOK(calls, seen, got),
         2 \in Collecting(calls)
  PROVE  WalkOK(t, seen, got)
<1>1. ASSUME NEW k \in Collecting(calls)
      PROVE  /\ Nth(t, k).ref = Nth(calls, k).ref /\ Nth(t, k).refs = Nth(calls, k).refs
             /\ Nth(t, k).next = Nth(calls, k).next
             /\ Wanted(t, k) = Wanted(calls, k) /\ Followed(Nth(t, k)) = Followed(Nth(calls, k))
  <2>1. Node(Nth(t, k)) = Node(Nth(calls, k)) /\ Nth(t, k).next = Nth(calls, k).next
    BY DEF SameWalk
  <2>2. Nth(t, k).ref = Nth(calls, k).ref /\ Nth(t, k).refs = Nth(calls, k).refs
    BY <2>1 DEF Node
  <2>. QED
    BY <2>1, <2>2 DEF Wanted, Followed
<1>2. Collecting(t) = Collecting(calls) /\ Reading(t) = Reading(calls)
      /\ \A k \in Reading(calls) : k \in Collecting(calls)
  BY DEF SameWalk, Reading
<1>3. Nodes(t, got) = Nodes(calls, got)
  <2>1. \A k \in Collecting(calls) : Node(Nth(t, k)) = Node(Nth(calls, k))
    BY DEF SameWalk
  <2>. QED
    BY <1>2, <2>1 DEF Nodes
<1>4. WalkSeen(t, seen, got)
  BY <1>1, <1>2 DEF WalkOK, WalkSeen
<1>5. WalkFollowed(t, seen, got)
  BY <1>1, <1>2 DEF WalkOK, WalkFollowed
<1>6. WalkNeeded(t, seen, got)
  BY <1>1, <1>3 DEF WalkOK, WalkNeeded
<1>7. WalkInOrder(t, got)
  BY <1>1, <1>2, <1>3 DEF WalkOK, WalkInOrder
<1>. QED
  BY <1>4, <1>5, <1>6, <1>7 DEF WalkOK

\* The three ways the calls change, from below.
LEMMA PushedNth ==
  ASSUME NEW calls \in Seq(Frame), NEW f \in Frame
  PROVE  /\ Len(<<f>> \o calls) = Len(calls) + 1
         /\ Nth(<<f>> \o calls, Len(calls) + 1) = f
         /\ \A k \in 1..Len(calls) : Nth(<<f>> \o calls, k) = Nth(calls, k)
<1>. DEFINE t == <<f>> \o calls
            n == Len(calls)
<1>1. Len(t) = n + 1 /\ t[1] = f /\ n \in Nat /\ \A i \in 2..(n + 1) : t[i] = calls[i - 1]
  BY Pushed
<1>. HIDE DEF t, n
<1>2. Nth(t, n + 1) = f
  <2>1. (n + 1) + 1 - (n + 1) = 1
    BY <1>1
  <2>. QED
    BY <1>1, <2>1 DEF Nth
<1>3. ASSUME NEW k \in 1..n PROVE Nth(t, k) = Nth(calls, k)
  <2>1. (n + 1) + 1 - k \in 2..(n + 1) /\ ((n + 1) + 1 - k) - 1 = n + 1 - k
    BY <1>1
  <2>. QED
    BY <1>1, <2>1 DEF Nth, n
<1>. QED
  BY <1>1, <1>2, <1>3 DEF t, n

LEMMA UpdatedNth ==
  ASSUME NEW calls \in Seq(Frame), calls # <<>>, NEW g \in Frame
  PROVE  /\ Len(<<g>> \o Tail(calls)) = Len(calls)
         /\ Nth(<<g>> \o Tail(calls), Len(calls)) = g
         /\ \A k \in 1..(Len(calls) - 1) : Nth(<<g>> \o Tail(calls), k) = Nth(calls, k)
<1>. DEFINE t == Tail(calls)
            n == Len(calls)
<1>1. t \in Seq(Frame) /\ Len(t) = n - 1 /\ n \in Nat \ {0} /\ \A i \in 1..(n - 1) : t[i] = calls[i + 1]
  BY Popped
<1>. HIDE DEF t, n
<1>2. /\ Len(<<g>> \o t) = (n - 1) + 1 /\ Nth(<<g>> \o t, (n - 1) + 1) = g
      /\ \A k \in 1..(n - 1) : Nth(<<g>> \o t, k) = Nth(t, k)
  BY <1>1, PushedNth
<1>3. (n - 1) + 1 = n
  BY <1>1
<1>4. ASSUME NEW k \in 1..(n - 1) PROVE Nth(t, k) = Nth(calls, k)
  <2>1. (n - 1) + 1 - k \in 1..(n - 1) /\ ((n - 1) + 1 - k) + 1 = n + 1 - k
    BY <1>1
  <2>. QED
    BY <1>1, <2>1 DEF Nth, n
<1>. QED
  BY <1>1, <1>2, <1>3, <1>4 DEF t, n

LEMMA ReturnedNth ==
  ASSUME NEW calls \in Seq(Frame), Len(calls) >= 2, NEW h \in Frame
  PROVE  LET t == <<h>> \o Tail(Tail(calls)) IN
         /\ Len(t) = Len(calls) - 1
         /\ Nth(t, Len(calls) - 1) = h
         /\ \A k \in 1..(Len(calls) - 2) : Nth(t, k) = Nth(calls, k)
<1>. DEFINE u == Tail(calls)
            n == Len(calls)
<1>1. /\ n \in Nat /\ calls # <<>> /\ u \in Seq(Frame) /\ Len(u) = n - 1 /\ u # <<>>
      /\ \A i \in 1..(n - 1) : u[i] = calls[i + 1]
  BY Popped
<1>. HIDE DEF u, n
<1>2. /\ Len(<<h>> \o Tail(u)) = n - 1 /\ Nth(<<h>> \o Tail(u), n - 1) = h
      /\ \A k \in 1..((n - 1) - 1) : Nth(<<h>> \o Tail(u), k) = Nth(u, k)
  BY <1>1, UpdatedNth
<1>3. (n - 1) - 1 = n - 2 /\ n >= 2
  BY <1>1 DEF n
<1>4. ASSUME NEW k \in 1..(n - 2) PROVE Nth(u, k) = Nth(calls, k)
  <2>1. (n - 1) + 1 - k \in 1..(n - 1) /\ ((n - 1) + 1 - k) + 1 = n + 1 - k
    BY <1>1, <1>3
  <2>. QED
    BY <1>1, <2>1 DEF Nth, n
<1>. QED
  BY <1>2, <1>3, <1>4 DEF u, n

\* Under a call of _collect_contents() lies the first one, the schema's own.
LEMMA RootCollects ==
  ASSUME NEW s, NEW r, NEW calls, NEW todo, CallsOK(s, r, calls, todo), Collecting(calls) # {}
  PROVE  2 \in Collecting(calls)
<1>1. Collecting(calls) \in SUBSET Nat
  BY CollectCalls
<1>2. PICK k \in Collecting(calls) : \A j \in Collecting(calls) : k <= j
  BY <1>1, LeastOf
<1>3. k \in Nat /\ k >= 2
  BY CollectCalls
<1>4. CASE k > 2
  <2>1. k - 1 \in Collecting(calls)
    BY <1>4, CollectCalls DEF Reading
  <2>. QED
    BY <1>2, <1>3, <2>1
<1>. QED
  BY <1>2, <1>3, <1>4

\* Calls of something else come and go above.
LEMMA QuietPush ==
  ASSUME NEW calls \in Seq(Frame), calls # <<>>, NEW f \in Frame, f.op # "collect",
         Head(calls).op # "collect"
  PROVE  SameWalk(<<f>> \o calls, calls)
<1>. DEFINE t == <<f>> \o calls
            n == Len(calls)
<1>1. /\ Len(t) = n + 1 /\ Nth(t, n + 1) = f /\ \A k \in 1..n : Nth(t, k) = Nth(calls, k)
  BY PushedNth
<1>2. n \in Nat \ {0} /\ Nth(calls, n) = Head(calls)
  <2>1. n \in Nat \ {0} /\ n + 1 - n = 1 /\ Head(calls) = calls[1]
    OBVIOUS
  <2>. QED
    BY <2>1 DEF Nth
<1>. HIDE DEF t
<1>3. \A k \in 1..(n + 1) : k \in 1..n \/ k = n + 1
  BY <1>2
<1>4. Collecting(t) = Collecting(calls)
  BY <1>1, <1>2, <1>3 DEF Collecting
<1>5. \A k \in Collecting(calls) : k \in 1..(n - 1) /\ k < n /\ k < n + 1
  BY <1>2 DEF Collecting
<1>6. Reading(t) = Reading(calls)
  BY <1>1, <1>4, <1>5 DEF Reading
<1>7. \A k \in Collecting(calls) : Nth(t, k) = Nth(calls, k)
  BY <1>1 DEF Collecting
<1>. QED
  BY <1>4, <1>6, <1>7 DEF SameWalk, t

LEMMA QuietUpdate ==
  ASSUME NEW calls \in Seq(Frame), calls # <<>>, NEW g \in Frame, g.op # "collect",
         Head(calls).op # "collect"
  PROVE  SameWalk(<<g>> \o Tail(calls), calls)
<1>. DEFINE t == <<g>> \o Tail(calls)
            n == Len(calls)
<1>1. Len(t) = n /\ Nth(t, n) = g /\ \A k \in 1..(n - 1) : Nth(t, k) = Nth(calls, k)
  BY UpdatedNth
<1>2. n \in Nat \ {0} /\ Nth(calls, n) = Head(calls)
  <2>1. n \in Nat \ {0} /\ n + 1 - n = 1 /\ Head(calls) = calls[1]
    OBVIOUS
  <2>. QED
    BY <2>1 DEF Nth
<1>. HIDE DEF t
<1>3. \A k \in 1..n : k \in 1..(n - 1) \/ k = n
  BY <1>2
<1>4. Collecting(t) = Collecting(calls)
  BY <1>1, <1>2, <1>3 DEF Collecting
<1>5. \A k \in Collecting(calls) : k \in 1..(n - 1) /\ k < n
  BY <1>2 DEF Collecting
<1>6. Reading(t) = Reading(calls)
  BY <1>1, <1>4, <1>5 DEF Reading
<1>7. \A k \in Collecting(calls) : Nth(t, k) = Nth(calls, k)
  BY <1>1, <1>5
<1>. QED
  BY <1>4, <1>6, <1>7 DEF SameWalk, t

\* A reference that was being read is found.
LEMMA QuietReturn ==
  ASSUME NEW calls \in Seq(Frame), Len(calls) >= 2, Head(calls).op # "collect", NEW h \in Frame,
         h.op = "collect" <=> calls[2].op = "collect",
         h.op = "collect" => Node(h) = Node(calls[2]) /\ h.next = calls[2].next /\ h.found # None
  PROVE  SameWalk(<<h>> \o Tail(Tail(calls)), calls)
<1>. DEFINE t == <<h>> \o Tail(Tail(calls))
            n == Len(calls)
<1>1. Len(t) = n - 1 /\ Nth(t, n - 1) = h /\ \A k \in 1..(n - 2) : Nth(t, k) = Nth(calls, k)
  BY ReturnedNth
<1>2. n \in Nat /\ n >= 2 /\ Nth(calls, n) = Head(calls) /\ Nth(calls, n - 1) = calls[2]
  <2>1. n \in Nat /\ n >= 2 /\ n + 1 - n = 1 /\ Head(calls) = calls[1] /\ n + 1 - (n - 1) = 2
    OBVIOUS
  <2>. QED
    BY <2>1 DEF Nth
<1>. HIDE DEF t, n
<1>3. \A k \in 1..n : k \in 1..(n - 2) \/ k = n - 1 \/ k = n
  BY <1>2
<1>4. \A k : k \in 1..(n - 1) <=> k \in 1..(n - 2) \/ k = n - 1
  BY <1>2
<1>5. \A k \in 1..(n - 1) : k \in 1..n /\ k < n /\ k # n
  BY <1>2
<1>6. \A k \in 1..(n - 1) : Nth(t, k).op = "collect" <=> Nth(calls, k).op = "collect"
  BY <1>1, <1>2, <1>4
<1>7. \A k \in Collecting(calls) : k \in 1..(n - 1)
  BY <1>2, <1>3, <1>4 DEF Collecting, n
<1>8. Collecting(t) = Collecting(calls)
  BY <1>1, <1>5, <1>6, <1>7 DEF Collecting, n
<1>9. \A k \in Collecting(calls) : k < Len(t) \/ Nth(t, k).found # None
  <2>1. \A k \in 1..(n - 2) : k < n - 1
    BY <1>2
  <2>. QED
    BY <1>1, <1>2, <1>4, <1>7, <2>1 DEF Collecting
<1>10. Reading(t) = Reading(calls)
  BY <1>5, <1>7, <1>8, <1>9 DEF Reading, n
<1>11. \A k \in Collecting(calls) : Node(Nth(t, k)) = Node(Nth(calls, k))
                                    /\ Nth(t, k).next = Nth(calls, k).next
  BY <1>1, <1>2, <1>4, <1>7 DEF Collecting
<1>. QED
  BY <1>8, <1>10, <1>11 DEF SameWalk, t

\* A call of _collect_contents() is on top.
LEMMA TopCollects ==
  ASSUME NEW s, NEW r, NEW calls, NEW todo, CallsOK(s, r, calls, todo), calls # <<>>,
         Head(calls).op = "collect"
  PROVE  LET n == Len(calls) IN
         /\ calls \in Seq(Frame) /\ n \in Nat /\ n >= 2 /\ n + 1 - n = 1
         /\ Nth(calls, n) = Head(calls) /\ n \in Collecting(calls)
         /\ n \in Reading(calls) <=> Head(calls).found # None
         /\ \A k \in Collecting(calls) : k \in 1..n /\ (k < n \/ k = n)
         /\ \A k \in Reading(calls) : k \in Collecting(calls)
<1>. DEFINE n == Len(calls)
<1>1. calls \in Seq(Frame) /\ n \in Nat
  BY DEF CallsOK, Stacked
<1>2. n \in Nat \ {0} /\ Nth(calls, n) = Head(calls)
  BY CallsFromBelow
<1>3. n \in Collecting(calls)
  BY <1>2 DEF Collecting
<1>4. n >= 2
  BY <1>3, CollectCalls
<1>5. n \in Reading(calls) <=> Head(calls).found # None
  BY <1>2, <1>3 DEF Reading
<1>6. \A k \in Collecting(calls) : k \in 1..n /\ (k < n \/ k = n)
  BY <1>2 DEF Collecting
<1>. QED
  BY <1>1, <1>2, <1>3, <1>4, <1>5, <1>6 DEF Reading

\* What is being gathered has been met, and not been gathered.
LEMMA GatheringRefs ==
  ASSUME NEW s, NEW r, NEW calls, NEW todo, CallsOK(s, r, calls, todo),
         NEW seen, NEW got, WalkOK(calls, seen, got)
  PROVE  /\ Refs(got) = {e.ref : e \in ToSet(got)}
         /\ \A node \in Nodes(calls, got) :
              \/ node \in ToSet(got) /\ node.ref \in Refs(got)
              \/ \E k \in Collecting(calls) :
                    /\ k > 2 /\ node = Node(Nth(calls, k)) /\ node.ref = Wanted(calls, k - 1)
                    /\ k - 1 \in Reading(calls) /\ k \in Nat
<1>1. Refs(got) = {e.ref : e \in ToSet(got)}
  BY DEF Refs, ToSet
<1>2. ASSUME NEW k \in Collecting(calls), k > 2
      PROVE  /\ Node(Nth(calls, k)).ref = Wanted(calls, k - 1) /\ k - 1 \in Reading(calls)
             /\ k \in Nat
  BY <1>2, CollectCalls DEF Node
<1>. QED
  BY <1>1, <1>2 DEF Nodes

\* A reference is read that was not met before.
LEMMA WalkDescends ==
  ASSUME NEW s, NEW r, NEW calls, NEW todo, CallsOK(s, r, calls, todo), calls # <<>>,
         Head(calls).op = "collect", Head(calls).found # None,
         NEW f \in CollectFrame, f.ref = Wanted(calls, Len(calls)), f.next = 1, f.found = None,
         NEW seen, NEW got, WalkOK(calls, seen, got)
  PROVE  WalkOK(<<f>> \o calls, seen, got)
<1>. DEFINE t == <<f>> \o calls
            n == Len(calls)
<1>1. /\ calls \in Seq(Frame) /\ n \in Nat /\ n >= 2 /\ n \in Collecting(calls)
      /\ n \in Reading(calls)
      /\ \A k \in Collecting(calls) : k \in 1..n /\ (k < n \/ k = n)
      /\ \A k \in Reading(calls) : k \in Collecting(calls)
  BY TopCollects
<1>2. f \in Frame /\ f.op = "collect"
  BY DEF Frame, CollectFrame
<1>3. /\ Len(t) = n + 1 /\ Nth(t, n + 1) = f /\ \A k \in 1..n : Nth(t, k) = Nth(calls, k)
  BY <1>1, <1>2, PushedNth
<1>. HIDE DEF t
<1>4. \A k : k \in 1..(n + 1) <=> k \in 1..n \/ k = n + 1
  BY <1>1
<1>5. Collecting(t) = Collecting(calls) \cup {n + 1}
  BY <1>2, <1>3, <1>4 DEF Collecting
<1>6. ~(n + 1 < n + 1) /\ n + 1 > 2 /\ \A k \in 1..n : k < n + 1
  BY <1>1
<1>. HIDE DEF n
<1>7. Reading(t) = Reading(calls)
  BY <1>1, <1>3, <1>5, <1>6 DEF Reading, n
<1>8. \A k \in Collecting(calls) : Nth(t, k) = Nth(calls, k)
  BY <1>1, <1>3
<1>9. \A k \in Reading(calls) : Wanted(t, k) = Wanted(calls, k)
  BY <1>1, <1>8 DEF Wanted
<1>10. Nodes(t, got) = Nodes(calls, got) \cup {Node(f)}
  BY <1>3, <1>5, <1>6, <1>8 DEF Nodes
<1>11. Followed(f) = {}
  BY DEF Followed
<1>12. WalkSeen(t, seen, got)
  BY <1>7, <1>9 DEF WalkOK, WalkSeen
<1>13. WalkFollowed(t, seen, got)
  BY <1>3, <1>5, <1>8, <1>11 DEF WalkOK, WalkFollowed
<1>14. WalkNeeded(t, seen, got)
  <2>1. Nth(t, 2) = Nth(calls, 2)
    BY <1>1, <1>8, RootCollects
  <2>. QED
    BY <1>10, <2>1 DEF WalkOK, WalkNeeded, IsClosed
<1>15. WalkInOrder(t, got)
  <2>1. CASE IsCyclic(Nodes(calls, got))
    <3>1. PICK S \in SUBSET {node.ref : node \in Nodes(calls, got)} :
             S # {} /\ \A node \in Nodes(calls, got) : node.ref \in S => ToSet(node.refs) \cap S # {}
      BY <2>1 DEF IsCyclic
    <3>2. f.ref \notin S
      <4>. SUFFICES ASSUME f.ref \in S PROVE FALSE
        OBVIOUS
      <4>1. PICK node \in Nodes(calls, got) : node.ref = Wanted(calls, n)
        BY <3>1 DEF n
      <4>2. Wanted(calls, n) \notin Refs(got)
        BY <1>1 DEF WalkOK, WalkSeen
      <4>3. PICK k \in Collecting(calls) : Wanted(calls, k - 1) = Wanted(calls, n)
                                           /\ k - 1 \in Reading(calls) /\ k \in Nat
        BY <4>1, <4>2, GatheringRefs
      <4>4. k - 1 = n
        BY <1>1, <4>3 DEF WalkOK, WalkSeen
      <4>5. k \in 1..n
        BY <1>1
      <4>. QED
        BY <1>1, <4>4, <4>5
    <3>3. Node(f).ref \notin S
      BY <3>2 DEF Node
    <3>4. /\ \A node \in Nodes(t, got) : node.ref \in S => ToSet(node.refs) \cap S # {}
          /\ S \in SUBSET {node.ref : node \in Nodes(t, got)} /\ S # {}
      BY <1>10, <3>1, <3>3
    <3>. QED
      BY <3>4 DEF WalkInOrder, IsCyclic
  <2>2. CASE InOrder(got) /\ \A k \in Collecting(calls) : Followed(Nth(calls, k)) \subseteq Refs(got)
    BY <1>3, <1>5, <1>8, <1>11, <2>2 DEF WalkInOrder
  <2>. QED
    BY <2>1, <2>2 DEF WalkOK, WalkInOrder
<1>. QED
  BY <1>12, <1>13, <1>14, <1>15 DEF WalkOK, t

LEMMA FollowedOneMore ==
  ASSUME NEW f, NEW g, g.refs = f.refs, f.next \in Nat \ {0}, g.next = f.next + 1
  PROVE  Followed(g) = Followed(f) \cup {f.refs[f.next]}
<1>1. \A i : i \in 1..(g.next - 1) <=> i \in 1..(f.next - 1) \/ i = f.next
  OBVIOUS
<1>. QED
  BY <1>1 DEF Followed

\* A reference that is being read is met again, by what it refers to: then
\* those being read since refer to each other.
LEMMA MetWhileRead ==
  ASSUME NEW s, NEW r, NEW calls, NEW todo, CallsOK(s, r, calls, todo), calls # <<>>,
         Head(calls).op = "collect",
         NEW seen, NEW got, WalkOK(calls, seen, got),
         NEW j \in Reading(calls), j < Len(calls),
         Wanted(calls, j) \in ToSet(Head(calls).refs)
  PROVE  IsCyclic(Nodes(calls, got))
<1>. DEFINE n == Len(calls)
            since == {k \in Collecting(calls) : k > j}
            S == {Nth(calls, k).ref : k \in since}
<1>1. /\ n \in Nat /\ n >= 2 /\ Nth(calls, n) = Head(calls) /\ n \in Collecting(calls)
      /\ \A k \in Collecting(calls) : k \in 1..n /\ (k < n \/ k = n)
      /\ \A k \in Reading(calls) : k \in Collecting(calls)
  BY TopCollects
<1>2. /\ \A k \in Collecting(calls) : k \in Nat /\ k >= 2
      /\ \A k \in Collecting(calls) : k > 2 =>
           k - 1 \in Reading(calls) /\ Nth(calls, k).ref = Wanted(calls, k - 1)
      /\ \A k \in Reading(calls) : Wanted(calls, k) \in ToSet(Nth(calls, k).refs)
      /\ \A k \in Reading(calls) : k < n => k + 1 \in Collecting(calls)
  BY CollectCalls
<1>3. \A a, b \in Nat : a >= 2 /\ b > a => b > 2
  OBVIOUS
<1>4. \A k \in since : k > 2 /\ k \in Nat /\ k \in Collecting(calls)
  BY <1>1, <1>2, <1>3
<1>5. ASSUME NEW k \in Reading(calls), k < n, k >= j
      PROVE  k + 1 \in since /\ Nth(calls, k + 1).ref = Wanted(calls, k)
  <2>1. k + 1 \in Collecting(calls) /\ k \in Nat /\ k >= 2 /\ j \in Nat
    BY <1>1, <1>2, <1>5
  <2>2. k + 1 > j /\ k + 1 > 2 /\ (k + 1) - 1 = k
    BY <1>5, <2>1
  <2>. QED
    BY <1>2, <2>1, <2>2
<1>6. j + 1 \in since /\ Nth(calls, j + 1).ref = Wanted(calls, j)
  <2>1. j >= j
    BY <1>1, <1>2
  <2>. QED
    BY <1>5, <2>1
<1>7. S \in SUBSET {node.ref : node \in Nodes(calls, got)}
  <2>1. ASSUME NEW k \in since PROVE Node(Nth(calls, k)) \in Nodes(calls, got)
    BY <1>4 DEF Nodes
  <2>2. \A k \in since : Nth(calls, k).ref = Node(Nth(calls, k)).ref
    BY DEF Node
  <2>. QED
    BY <2>1, <2>2
<1>8. ASSUME NEW node \in Nodes(calls, got), node.ref \in S
      PROVE  ToSet(node.refs) \cap S # {}
  <2>1. PICK m \in since : node.ref = Nth(calls, m).ref
    BY <1>8
  <2>2. m - 1 \in Reading(calls) /\ node.ref = Wanted(calls, m - 1) /\ m \in Nat
    BY <1>2, <1>4, <2>1
  <2>3. node.ref \notin Refs(got)
    BY <2>2 DEF WalkOK, WalkSeen
  <2>4. PICK k \in Collecting(calls) :
           /\ node = Node(Nth(calls, k)) /\ node.ref = Wanted(calls, k - 1)
           /\ k - 1 \in Reading(calls) /\ k \in Nat
    BY <2>3, GatheringRefs
  <2>5. k - 1 = m - 1
    BY <2>2, <2>4 DEF WalkOK, WalkSeen
  <2>6. k = m
    BY <2>2, <2>4, <2>5
  <2>7. node.refs = Nth(calls, m).refs
    BY <2>4, <2>6 DEF Node
  <2>8. CASE m = n
    BY <1>1, <1>6, <2>7, <2>8
  <2>9. CASE m < n
    <3>1. m \in Reading(calls)
      BY <1>4, <2>9 DEF Reading, n
    <3>2. m >= j
      <4>1. m \in Nat /\ j \in Nat /\ m > j
        BY <1>1, <1>2, <1>4
      <4>. QED
        BY <4>1
    <3>3. m + 1 \in since /\ Nth(calls, m + 1).ref = Wanted(calls, m)
      BY <1>5, <2>9, <3>1, <3>2
    <3>. QED
      BY <1>2, <2>7, <3>1, <3>3
  <2>. QED
    BY <1>1, <1>4, <2>8, <2>9
<1>9. S # {}
  BY <1>6
<1>. HIDE DEF S
<1>. QED
  BY <1>7, <1>8, <1>9 DEF IsCyclic

\* A reference that was met is gone over.
LEMMA WalkMeets ==
  ASSUME NEW s, NEW r, NEW calls, NEW todo, CallsOK(s, r, calls, todo), calls # <<>>,
         Head(calls).op = "collect", Head(calls).found = None,
         Head(calls).next \in 1..Len(Head(calls).refs),
         NEW g \in CollectFrame, Node(g) = Node(Head(calls)), g.next = Head(calls).next + 1,
         g.found = None,
         NEW seen, NEW got, WalkOK(calls, seen, got), Wanted(calls, Len(calls)) \in seen
  PROVE  WalkOK(<<g>> \o Tail(calls), seen, got)
<1>. DEFINE t == <<g>> \o Tail(calls)
            n == Len(calls)
            top == Head(calls)
<1>1. /\ calls \in Seq(Frame) /\ n \in Nat /\ n >= 2 /\ n \in Collecting(calls)
      /\ n \notin Reading(calls) /\ Nth(calls, n) = top
      /\ \A k \in Collecting(calls) : k \in 1..n /\ (k < n \/ k = n)
      /\ \A k \in Reading(calls) : k \in Collecting(calls)
  BY TopCollects
<1>2. g \in Frame /\ g.op = "collect" /\ g.ref = top.ref /\ g.refs = top.refs
  BY DEF Frame, CollectFrame, Node
<1>3. Len(t) = n /\ Nth(t, n) = g /\ \A k \in 1..(n - 1) : Nth(t, k) = Nth(calls, k)
  BY <1>1, <1>2, UpdatedNth
<1>4. top \in CollectFrame
  BY <1>1, CollectCalls
<1>5. Followed(g) = Followed(top) \cup {Wanted(calls, n)}
  <2>1. top.next \in Nat \ {0}
    BY <1>4 DEF CollectFrame
  <2>2. Followed(g) = Followed(top) \cup {top.refs[top.next]}
    BY <1>2, <2>1, FollowedOneMore
  <2>. QED
    BY <1>1, <2>2 DEF Wanted
<1>6. Wanted(calls, n) \in ToSet(top.refs)
  BY <1>1 DEF Wanted, ToSet
<1>. HIDE DEF t, n, top
<1>7. /\ \A k : k \in 1..n <=> k \in 1..(n - 1) \/ k = n
      /\ ~(n < n) /\ \A k \in Nat : k < n /\ k >= 1 => k \in 1..(n - 1)
  BY <1>1
<1>8. Collecting(t) = Collecting(calls)
  BY <1>1, <1>2, <1>3, <1>7 DEF Collecting, n
<1>9. \A k \in Collecting(calls) : k = n \/ Nth(t, k) = Nth(calls, k)
  BY <1>1, <1>3, <1>7
<1>10. \A k \in Reading(calls) : k < n /\ k # n
  BY <1>1
<1>11. Reading(t) = Reading(calls)
  <2>1. n \notin Reading(t)
    BY <1>3, <1>7 DEF Reading
  <2>2. \A k \in Collecting(calls) : k # n => (k \in Reading(t) /\ k \in Reading(calls))
    BY <1>1, <1>3, <1>8 DEF Reading, n
  <2>. QED
    BY <1>1, <1>8, <2>1, <2>2 DEF Reading
<1>12. \A k \in Reading(calls) : Wanted(t, k) = Wanted(calls, k)
  BY <1>1, <1>9, <1>10 DEF Wanted
<1>13. \A k \in Collecting(calls) : /\ Node(Nth(t, k)) = Node(Nth(calls, k))
                                    /\ Nth(t, k).refs = Nth(calls, k).refs
  BY <1>1, <1>2, <1>3, <1>9 DEF top
<1>14. Nodes(t, got) = Nodes(calls, got)
  BY <1>8, <1>13 DEF Nodes
<1>15. WalkSeen(t, seen, got)
  BY <1>11, <1>12 DEF WalkOK, WalkSeen
<1>16. WalkFollowed(t, seen, got)
  <2>1. Followed(top) \subseteq seen /\ Wanted(calls, n) \in seen
    BY <1>1 DEF WalkOK, WalkFollowed, n
  <2>. QED
    BY <1>3, <1>5, <1>8, <1>9, <2>1 DEF WalkOK, WalkFollowed
<1>17. WalkNeeded(t, seen, got)
  <2>1. Nth(t, 2).refs = Nth(calls, 2).refs
    BY <1>1, <1>13, RootCollects
  <2>. QED
    BY <1>14, <2>1 DEF WalkOK, WalkNeeded
<1>18. WalkInOrder(t, got)
  <2>1. CASE IsCyclic(Nodes(calls, got))
    BY <1>14, <2>1 DEF WalkInOrder
  <2>2. CASE InOrder(got) /\ \A k \in Collecting(calls) : Followed(Nth(calls, k)) \subseteq Refs(got)
    <3>1. CASE Wanted(calls, n) \in Refs(got)
      <4>1. Followed(g) \subseteq Refs(got)
        BY <1>1, <1>5, <2>2, <3>1
      <4>. QED
        BY <1>3, <1>8, <1>9, <2>2, <4>1 DEF WalkInOrder
    <3>2. CASE Wanted(calls, n) \notin Refs(got)
      <4>1. PICK j \in Reading(calls) : Wanted(calls, n) = Wanted(calls, j)
        BY <3>2 DEF WalkOK, WalkSeen, n
      <4>2. j < Len(calls) /\ Wanted(calls, j) \in ToSet(Head(calls).refs)
        BY <1>6, <1>10, <4>1 DEF n, top
      <4>3. IsCyclic(Nodes(calls, got))
        BY <4>2, MetWhileRead
      <4>. QED
        BY <1>14, <4>3 DEF WalkInOrder
    <3>. QED
      BY <3>1, <3>2
  <2>. QED
    BY <2>1, <2>2 DEF WalkOK, WalkInOrder
<1>. QED
  BY <1>15, <1>16, <1>17, <1>18 DEF WalkOK, t

\* A reference that was not met is read.
LEMMA WalkAsks ==
  ASSUME NEW s, NEW r, NEW calls, NEW todo, CallsOK(s, r, calls, todo), calls # <<>>,
         Head(calls).op = "collect", Head(calls).found = None,
         Head(calls).next \in 1..Len(Head(calls).refs),
         NEW f \in Frame, f.op # "collect",
         NEW seen, NEW got, WalkOK(calls, seen, got), Wanted(calls, Len(calls)) \notin seen
  PROVE  WalkOK(<<f>> \o calls, seen \cup {Wanted(calls, Len(calls))}, got)
<1>. DEFINE t == <<f>> \o calls
            n == Len(calls)
            ref == Wanted(calls, n)
            now_seen == seen \cup {ref}
            top == Head(calls)
<1>1. /\ calls \in Seq(Frame) /\ n \in Nat /\ n >= 2 /\ n \in Collecting(calls)
      /\ n \notin Reading(calls) /\ Nth(calls, n) = top
      /\ \A k \in Collecting(calls) : k \in 1..n /\ (k < n \/ k = n)
      /\ \A k \in Reading(calls) : k \in Collecting(calls)
  BY TopCollects
<1>2. /\ Len(t) = n + 1 /\ Nth(t, n + 1) = f /\ \A k \in 1..n : Nth(t, k) = Nth(calls, k)
  BY <1>1, PushedNth
<1>3. ref \in ToSet(top.refs)
  BY <1>1 DEF Wanted, ToSet
<1>. HIDE DEF t, top
<1>4. \A k : k \in 1..(n + 1) <=> k \in 1..n \/ k = n + 1
  BY <1>1
<1>5. Collecting(t) = Collecting(calls)
  BY <1>1, <1>2, <1>4 DEF Collecting
<1>6. \A k \in Collecting(calls) : Nth(t, k) = Nth(calls, k)
  BY <1>1, <1>2
<1>7. \A k \in 1..n : k < n + 1
  BY <1>1
<1>8. \A k \in Collecting(calls) : k = n \/ (k \in Reading(calls) /\ k # n)
  BY <1>1 DEF Reading
<1>9. Reading(t) = Reading(calls) \cup {n}
  BY <1>1, <1>2, <1>5, <1>7, <1>8 DEF Reading
<1>10. \A k \in Reading(t) : Wanted(t, k) = Wanted(calls, k)
  BY <1>1, <1>6, <1>9 DEF Wanted
<1>11. Nodes(t, got) = Nodes(calls, got)
  BY <1>5, <1>6 DEF Nodes
<1>. HIDE DEF n, ref
<1>12. /\ seen = Refs(got) \cup {Wanted(calls, k) : k \in Reading(calls)}
       /\ ReadOnce(got)
       /\ \A j, k \in Reading(calls) : Wanted(calls, j) = Wanted(calls, k) => j = k
       /\ \A k \in Reading(calls) : Wanted(calls, k) \notin Refs(got)
       /\ ref \notin seen /\ ref = Wanted(calls, n)
  BY DEF WalkOK, WalkSeen, n, ref
<1>13. WalkSeen(t, now_seen, got)
  <2>1. now_seen = Refs(got) \cup {Wanted(t, k) : k \in Reading(t)}
    BY <1>9, <1>10, <1>12
  <2>2. \A j, k \in Reading(t) : Wanted(t, j) = Wanted(t, k) => j = k
    BY <1>9, <1>10, <1>12
  <2>3. \A k \in Reading(t) : Wanted(t, k) \notin Refs(got)
    BY <1>9, <1>10, <1>12
  <2>. QED
    BY <1>12, <2>1, <2>2, <2>3 DEF WalkSeen
<1>14. WalkFollowed(t, now_seen, got)
  BY <1>5, <1>6 DEF WalkOK, WalkFollowed
<1>15. WalkNeeded(t, now_seen, got)
  <2>1. Nth(t, 2) = Nth(calls, 2)
    BY <1>1, <1>6, RootCollects
  <2>. SUFFICES ASSUME NEW S, IsClosed(Nth(calls, 2).refs, Nodes(calls, got), S)
                PROVE  now_seen \subseteq S
    BY <1>11, <2>1 DEF WalkNeeded
  <2>2. seen \subseteq S
    BY DEF WalkOK, WalkNeeded
  <2>3. CASE n = 2
    BY <1>1, <1>3, <2>2, <2>3 DEF IsClosed
  <2>4. CASE n > 2
    <3>1. /\ n - 1 \in Reading(calls) /\ Nth(calls, n).ref = Wanted(calls, n - 1)
      BY <1>1, <2>4, CollectCalls
    <3>2. top.ref \in S
      BY <1>1, <1>12, <2>2, <3>1
    <3>3. Node(top) \in Nodes(calls, got)
      BY <1>1, <2>4 DEF Nodes
    <3>4. Node(top).ref = top.ref /\ Node(top).refs = top.refs
      BY DEF Node
    <3>. QED
      BY <1>3, <2>2, <3>2, <3>3, <3>4 DEF IsClosed
  <2>. QED
    BY <1>1, <2>3, <2>4
<1>16. WalkInOrder(t, got)
  BY <1>5, <1>6, <1>11 DEF WalkOK, WalkInOrder
<1>. QED
  BY <1>13, <1>14, <1>15, <1>16 DEF WalkOK, t, n, ref

\* The schema's own call has nothing under way, and nothing gathered.
LEMMA WalkBegins ==
  ASSUME NEW calls \in Seq(Frame), Len(calls) = 1, Head(calls).op = "resolve",
         NEW f \in CollectFrame, f.next = 1, f.found = None
  PROVE  WalkOK(<<f>> \o calls, {}, <<>>)
<1>. DEFINE t == <<f>> \o calls
<1>1. f \in Frame /\ f.op = "collect"
  BY DEF Frame, CollectFrame
<1>2. Len(t) = 1 + 1 /\ Nth(t, 1 + 1) = f /\ \A k \in 1..1 : Nth(t, k) = Nth(calls, k)
  BY <1>1, PushedNth
<1>3. Nth(calls, 1).op = "resolve"
  <2>1. Len(calls) + 1 - 1 = 1 /\ Head(calls) = calls[1]
    OBVIOUS
  <2>. QED
    BY <2>1 DEF Nth
<1>. HIDE DEF t
<1>4. Len(t) = 2 /\ Nth(t, 2) = f /\ Nth(t, 1).op = "resolve"
  BY <1>2, <1>3
<1>5. \A k \in 1..2 : k = 1 \/ k = 2
  OBVIOUS
<1>6. Collecting(t) = {2}
  BY <1>1, <1>4, <1>5 DEF Collecting
<1>7. Reading(t) = {} /\ ~(2 > 2)
  BY <1>4, <1>6 DEF Reading
<1>8. Followed(f) = {}
  BY DEF Followed
<1>. DEFINE none == <<>>
<1>9. none \in Seq(Entry) /\ DOMAIN none = {} /\ Refs(none) = {} /\ ToSet(none) = {}
  BY DEF Refs, ToSet
<1>10. Nodes(t, none) = {}
  BY <1>6, <1>7, <1>9 DEF Nodes
<1>. HIDE DEF none
<1>11. WalkSeen(t, {}, none)
  BY <1>7, <1>9 DEF WalkSeen, ReadOnce
<1>12. WalkFollowed(t, {}, none) /\ WalkNeeded(t, {}, none)
  BY <1>4, <1>6, <1>8, <1>9 DEF WalkFollowed, WalkNeeded
<1>13. WalkInOrder(t, none)
  BY <1>4, <1>6, <1>8, <1>9 DEF WalkInOrder, InOrder
<1>. QED
  BY <1>9, <1>11, <1>12, <1>13 DEF WalkOK, t, none

LEMMA AllFollowed ==
  ASSUME NEW f, f.refs \in Seq(Reference), f.next \in Nat, f.next > Len(f.refs)
  PROVE  ToSet(f.refs) \subseteq Followed(f)
<1>1. \A i \in 1..Len(f.refs) : i \in 1..(f.next - 1)
  OBVIOUS
<1>2. DOMAIN f.refs = 1..Len(f.refs)
  OBVIOUS
<1>. QED
  BY <1>1, <1>2 DEF ToSet, Followed

\* One content more, with all it refers to before it.
LEMMA GatheredInOrder ==
  ASSUME NEW got \in Seq(Entry), NEW e \in Entry
  PROVE  /\ Append(got, e) \in Seq(Entry)
         /\ ToSet(Append(got, e)) = ToSet(got) \cup {e}
         /\ Refs(Append(got, e)) = Refs(got) \cup {e.ref}
         /\ ReadOnce(got) /\ e.ref \notin Refs(got) => ReadOnce(Append(got, e))
         /\ InOrder(got) /\ ToSet(e.refs) \subseteq Refs(got) => InOrder(Append(got, e))
<1>. DEFINE all == Append(got, e)
            n == Len(got)
<1>1. /\ all \in Seq(Entry) /\ Len(all) = n + 1 /\ all[n + 1] = e
      /\ \A k \in 1..n : all[k] = got[k]
      /\ ToSet(all) = ToSet(got) \cup {e}
  BY AppendedElements
<1>2. n \in Nat /\ DOMAIN got = 1..n /\ DOMAIN all = 1..(n + 1)
  BY <1>1
<1>. HIDE DEF all, n
<1>3. \A k : k \in 1..(n + 1) <=> k \in 1..n \/ k = n + 1
  BY <1>2
<1>4. Refs(all) = Refs(got) \cup {e.ref}
  BY <1>1, <1>2, <1>3 DEF Refs
<1>5. ASSUME ReadOnce(got), e.ref \notin Refs(got) PROVE ReadOnce(all)
  <2>1. \A k \in 1..n : all[k].ref # e.ref
    BY <1>1, <1>2, <1>5 DEF Refs
  <2>. QED
    BY <1>1, <1>2, <1>3, <1>5, <2>1 DEF ReadOnce
<1>6. ASSUME InOrder(got), ToSet(e.refs) \subseteq Refs(got) PROVE InOrder(all)
  <2>. SUFFICES ASSUME NEW i \in 1..(n + 1), NEW ref \in ToSet(all[i].refs)
                PROVE  \E j \in 1..(i - 1) : all[j].ref = ref
    BY <1>2 DEF InOrder
  <2>1. CASE i = n + 1
    <3>1. PICK j \in 1..n : got[j].ref = ref
      BY <1>1, <1>2, <1>6, <2>1 DEF Refs
    <3>2. j \in 1..(i - 1)
      BY <1>2, <2>1
    <3>. QED
      BY <1>1, <3>1, <3>2
  <2>2. CASE i \in 1..n
    <3>1. PICK j \in 1..(i - 1) : got[j].ref = ref
      BY <1>1, <1>2, <1>6, <2>2 DEF InOrder
    <3>2. j \in 1..n
      BY <1>2, <2>2
    <3>. QED
      BY <1>1, <3>1, <3>2
  <2>. QED
    BY <1>3, <2>1, <2>2
<1>. QED
  BY <1>1, <1>4, <1>5, <1>6 DEF all

\* A reference has been read, with all it refers to.
LEMMA WalkGathers ==
  ASSUME NEW s, NEW r, NEW calls, NEW todo, CallsOK(s, r, calls, todo), calls # <<>>,
         Head(calls).op = "collect", Head(calls).found = None, Head(calls).ref # None,
         Head(calls).next > Len(Head(calls).refs),
         NEW h \in CollectFrame, Node(h) = Node(calls[2]), h.next = calls[2].next + 1,
         h.found = None,
         NEW seen, NEW got, WalkOK(calls, seen, got)
  PROVE  /\ WalkOK(<<h>> \o Tail(Tail(calls)), seen, Append(got, Node(Head(calls))))
         /\ got \in Seq(Entry) /\ Node(Head(calls)) \in Entry
<1>. DEFINE t == <<h>> \o Tail(Tail(calls))
            n == Len(calls)
            top == Head(calls)
            g == calls[2]
            e == Node(top)
            all == Append(got, e)
            m == n - 1
<1>1. /\ calls \in Seq(Frame) /\ n \in Nat /\ n >= 2 /\ n \in Collecting(calls)
      /\ n \notin Reading(calls) /\ Nth(calls, n) = top
      /\ \A k \in Collecting(calls) : k \in 1..n /\ (k < n \/ k = n)
      /\ \A k \in Reading(calls) : k \in Collecting(calls)
  BY TopCollects
<1>2. top \in CollectFrame /\ (n = 2 => top.ref = None)
      /\ (n > 2 => /\ m \in Reading(calls) /\ top.ref = Wanted(calls, m) /\ e \in Entry)
  <2>. DEFINE x == Nth(calls, n)
  <2>1. /\ x \in CollectFrame /\ (n = 2 => x.ref = None)
        /\ (n > 2 => /\ n - 1 \in Reading(calls) /\ x.ref = Wanted(calls, n - 1)
                     /\ Node(x) \in Entry)
    BY <1>1, CollectCalls
  <2>. QED
    BY <1>1, <2>1
<1>3. n > 2 /\ n + 1 - m = 2 /\ m \in Nat /\ m >= 2 /\ n = m + 1 /\ n - 2 = m - 1
  <2>1. n # 2
    BY <1>2
  <2>. HIDE DEF n
  <2>. QED
    BY <1>1, <2>1
<1>4. m \in Reading(calls) /\ top.ref = Wanted(calls, m) /\ e \in Entry /\ Nth(calls, m) = g
  BY <1>2, <1>3 DEF Nth
<1>5. g \in CollectFrame /\ m \in Collecting(calls)
  BY <1>1, <1>4, CollectCalls
<1>6. h \in Frame /\ h.op = "collect" /\ h.ref = g.ref /\ h.refs = g.refs
  BY DEF Frame, CollectFrame, Node
<1>7. Len(t) = m /\ Nth(t, m) = h /\ \A k \in 1..(m - 1) : Nth(t, k) = Nth(calls, k)
  <2>1. Len(t) = n - 1 /\ Nth(t, n - 1) = h /\ \A k \in 1..(n - 2) : Nth(t, k) = Nth(calls, k)
    BY <1>1, <1>6, ReturnedNth
  <2>. QED
    BY <1>3, <2>1
<1>8. Followed(h) = Followed(g) \cup {Wanted(calls, m)}
  <2>1. g.next \in Nat \ {0}
    BY <1>5 DEF CollectFrame
  <2>2. Followed(h) = Followed(g) \cup {g.refs[g.next]}
    BY <1>6, <2>1, FollowedOneMore
  <2>. QED
    BY <1>4, <2>2 DEF Wanted
<1>9. ToSet(top.refs) \subseteq Followed(top)
  <2>1. top.refs \in Seq(Reference) /\ top.next \in Nat
    BY <1>2 DEF CollectFrame
  <2>. QED
    BY <2>1, AllFollowed
<1>10. e.ref = top.ref /\ e.refs = top.refs
  BY DEF Node
<1>11. got \in Seq(Entry)
  BY DEF WalkOK
<1>12. /\ all \in Seq(Entry) /\ ToSet(all) = ToSet(got) \cup {e}
       /\ Refs(all) = Refs(got) \cup {e.ref}
       /\ ReadOnce(got) /\ e.ref \notin Refs(got) => ReadOnce(all)
       /\ InOrder(got) /\ ToSet(e.refs) \subseteq Refs(got) => InOrder(all)
  BY <1>4, <1>11, GatheredInOrder
<1>13. Node(top) = e /\ Node(h) = Node(g)
  OBVIOUS
<1>. HIDE DEF t, top, g, e, all, m
<1>14. \A k : k \in 1..n <=> k \in 1..(m - 1) \/ k = m \/ k = n
  BY <1>1, <1>3
<1>15. \A k : k \in 1..m <=> k \in 1..(m - 1) \/ k = m
  BY <1>3
<1>16. n \notin 1..m /\ ~(m < m) /\ m # n /\ \A k \in 1..(m - 1) : k < m /\ k # m
  BY <1>1, <1>3
<1>17. \A k \in Collecting(calls) : k \in 1..(m - 1) \/ k = m \/ k = n
  BY <1>1, <1>14
<1>. HIDE DEF n
<1>18. Collecting(t) = Collecting(calls) \ {n}
  <2>1. \A k \in 1..m : Nth(t, k).op = "collect" <=> Nth(calls, k).op = "collect"
    <3>1. Nth(calls, m).op = "collect"
      BY <1>4, <1>5 DEF CollectFrame
    <3>. QED
      BY <1>6, <1>7, <1>15, <3>1
  <2>2. \A k : k \in Collecting(t) <=> k \in 1..m /\ Nth(t, k).op = "collect"
    BY <1>7 DEF Collecting
  <2>3. \A k : k \in Collecting(calls) <=> k \in 1..n /\ Nth(calls, k).op = "collect"
    BY DEF Collecting, n
  <2>. QED
    BY <1>14, <1>15, <1>16, <2>1, <2>2, <2>3
<1>19. \A k \in Collecting(t) : k = m \/ (k \in 1..(m - 1) /\ Nth(t, k) = Nth(calls, k))
  BY <1>7, <1>17, <1>18
<1>20. Reading(t) = Reading(calls) \ {m}
  <2>1. m \notin Reading(t)
    BY <1>7, <1>16 DEF Reading
  <2>2. \A k \in Collecting(t) : k # m => k \in Reading(t)
    BY <1>7, <1>16, <1>19 DEF Reading
  <2>3. \A k \in Reading(t) : k \in Collecting(t)
    BY DEF Reading
  <2>4. \A k \in Collecting(t) : k # m => k \in Reading(calls)
    <3>1. \A k \in 1..(m - 1) : k < n
      BY <1>1, <1>3
    <3>. QED
      BY <1>18, <1>19, <3>1 DEF Reading, n
  <2>. QED
    BY <1>1, <1>18, <2>1, <2>2, <2>3, <2>4
<1>21. \A k \in Reading(t) : Wanted(t, k) = Wanted(calls, k)
  <2>1. \A k \in Reading(t) : Nth(t, k) = Nth(calls, k)
    BY <1>19, <1>20 DEF Reading
  <2>. QED
    BY <2>1 DEF Wanted
<1>22. \A k \in Collecting(t) : /\ Node(Nth(t, k)) = Node(Nth(calls, k))
                                /\ Nth(t, k).refs = Nth(calls, k).refs
  BY <1>4, <1>6, <1>7, <1>13, <1>19
<1>23. Nodes(t, all) = Nodes(calls, got)
  <2>1. n \in Collecting(calls) /\ n > 2 /\ Node(Nth(calls, n)) = e
    BY <1>1, <1>3, <1>13
  <2>2. {k \in Collecting(calls) : k > 2} = {k \in Collecting(t) : k > 2} \cup {n}
    BY <1>18, <2>1
  <2>3. \A k \in {j \in Collecting(t) : j > 2} : Node(Nth(t, k)) = Node(Nth(calls, k))
    BY <1>22
  <2>. QED
    BY <1>12, <2>1, <2>2, <2>3 DEF Nodes
<1>24. /\ seen = Refs(got) \cup {Wanted(calls, k) : k \in Reading(calls)}
       /\ ReadOnce(got)
       /\ \A j, k \in Reading(calls) : Wanted(calls, j) = Wanted(calls, k) => j = k
       /\ \A k \in Reading(calls) : Wanted(calls, k) \notin Refs(got)
  BY DEF WalkOK, WalkSeen
<1>25. WalkSeen(t, seen, all)
  <2>1. seen = Refs(all) \cup {Wanted(t, k) : k \in Reading(t)}
    BY <1>4, <1>10, <1>12, <1>20, <1>21, <1>24
  <2>2. ReadOnce(all)
    BY <1>4, <1>10, <1>12, <1>24
  <2>3. \A j, k \in Reading(t) : Wanted(t, j) = Wanted(t, k) => j = k
    BY <1>20, <1>21, <1>24
  <2>4. \A k \in Reading(t) : Wanted(t, k) \notin Refs(all)
    BY <1>4, <1>10, <1>12, <1>20, <1>21, <1>24
  <2>. QED
    BY <2>1, <2>2, <2>3, <2>4 DEF WalkSeen
<1>26. WalkFollowed(t, seen, all)
  <2>1. /\ \A x \in ToSet(got) : ToSet(x.refs) \subseteq seen
        /\ \A k \in Collecting(calls) : Followed(Nth(calls, k)) \subseteq seen
    BY DEF WalkOK, WalkFollowed
  <2>2. ToSet(e.refs) \subseteq seen
    BY <1>1, <1>9, <1>10, <2>1
  <2>3. Followed(h) \subseteq seen
    BY <1>4, <1>5, <1>8, <1>24, <2>1
  <2>4. \A k \in Collecting(t) : Followed(Nth(t, k)) \subseteq seen
    BY <1>7, <1>18, <1>19, <2>1, <2>3
  <2>. QED
    BY <1>12, <2>1, <2>2, <2>4 DEF WalkFollowed
<1>27. WalkNeeded(t, seen, all)
  <2>1. 2 \in Collecting(t)
    <3>1. 2 \in Collecting(calls) /\ n # 2
      BY <1>1, <1>3, RootCollects
    <3>. QED
      BY <1>18, <3>1
  <2>2. Nth(t, 2).refs = Nth(calls, 2).refs
    BY <1>22, <2>1
  <2>. QED
    BY <1>23, <2>2 DEF WalkOK, WalkNeeded
<1>28. WalkInOrder(t, all)
  <2>1. CASE IsCyclic(Nodes(calls, got))
    BY <1>23, <2>1 DEF WalkInOrder
  <2>2. CASE InOrder(got) /\ \A k \in Collecting(calls) : Followed(Nth(calls, k)) \subseteq Refs(got)
    <3>1. ToSet(e.refs) \subseteq Refs(got)
      BY <1>1, <1>9, <1>10, <2>2
    <3>2. InOrder(all)
      BY <1>12, <2>2, <3>1
    <3>3. Followed(h) \subseteq Refs(all)
      BY <1>4, <1>5, <1>8, <1>10, <1>12, <2>2
    <3>4. \A k \in Collecting(t) : Followed(Nth(t, k)) \subseteq Refs(all)
      BY <1>7, <1>12, <1>18, <1>19, <2>2, <3>3
    <3>. QED
      BY <3>2, <3>4 DEF WalkInOrder
  <2>. QED
    BY <2>1, <2>2 DEF WalkOK, WalkInOrder
<1>29. WalkOK(t, seen, all)
  BY <1>12, <1>25, <1>26, <1>27, <1>28 DEF WalkOK
<1>. QED
  BY <1>4, <1>11, <1>29 DEF t, all, e, top

\* The schema's own call is over.
LEMMA WalkEnds ==
  ASSUME NEW s, NEW r, NEW calls, NEW todo, CallsOK(s, r, calls, todo), calls # <<>>,
         Head(calls).op = "collect", Head(calls).found = None, Head(calls).ref = None,
         Head(calls).next > Len(Head(calls).refs),
         NEW seen, NEW got, WalkOK(calls, seen, got)
  PROVE  Len(calls) = 2 /\ got \in Seq(Entry) /\ Whole(Head(calls).refs, got)
<1>. DEFINE n == Len(calls)
            top == Head(calls)
<1>1. /\ calls \in Seq(Frame) /\ n \in Nat /\ n >= 2 /\ n \in Collecting(calls)
      /\ n \notin Reading(calls) /\ Nth(calls, n) = top
      /\ \A k \in Collecting(calls) : k \in 1..n /\ (k < n \/ k = n)
      /\ \A k \in Reading(calls) : k \in Collecting(calls)
  BY TopCollects
<1>2. top \in CollectFrame /\ (n > 2 => top.ref \in Reference)
      /\ \A k \in Collecting(calls) : k >= 2 /\ k \in Nat
  BY <1>1, CollectCalls
<1>3. n = 2
  <2>1. ~(n > 2)
    BY <1>2, NoneIsNothing
  <2>. HIDE DEF n
  <2>. QED
    BY <1>1, <2>1
<1>4. \A k \in Collecting(calls) : k = 2 /\ ~(k > 2)
  BY <1>1, <1>2, <1>3
<1>5. ToSet(top.refs) \subseteq Followed(top)
  <2>1. top.refs \in Seq(Reference) /\ top.next \in Nat
    BY <1>2 DEF CollectFrame
  <2>. QED
    BY <2>1, AllFollowed
<1>. HIDE DEF top
<1>6. Reading(calls) = {}
  BY <1>1, <1>3, <1>4
<1>7. Nodes(calls, got) = ToSet(got)
  BY <1>4 DEF Nodes
<1>8. seen = Refs(got) /\ ReadOnce(got)
  BY <1>6 DEF WalkOK, WalkSeen
<1>9. ToSet(top.refs) \subseteq Refs(got) /\ \A e \in ToSet(got) : ToSet(e.refs) \subseteq Refs(got)
  BY <1>1, <1>5, <1>8 DEF WalkOK, WalkFollowed
<1>10. \A S : IsClosed(top.refs, ToSet(got), S) => Refs(got) \subseteq S
  BY <1>1, <1>3, <1>7, <1>8 DEF WalkOK, WalkNeeded
<1>11. InOrder(got) \/ IsCyclic(ToSet(got))
  BY <1>7 DEF WalkOK, WalkInOrder
<1>12. Whole(top.refs, got)
  BY <1>8, <1>9, <1>10, <1>11 DEF Whole
<1>. QED
  BY <1>3, <1>12 DEF WalkOK, top

----------------------------------------------------------------------------
(* What is gathered is what the registry has.                              *)

EntryTrue(r, e) ==
  /\ IsKnown(r, e.ref)
  /\ e.doc = r.contents[ContentAt(r, e.ref)].doc
  /\ e.refs = r.contents[ContentAt(r, e.ref)].refs

EntriesTrue(r, got) == got \in Seq(Entry) /\ \A e \in ToSet(got) : EntryTrue(r, e)

\* A schema was parsed with got.
ReadTrue(r, id, got) ==
  id \in DOMAIN r.contents /\ Whole(r.contents[id].refs, got) /\ EntriesTrue(r, got)

WalkInv ==
  Collecting(frames) # {} =>
    WalkOK(frames, visited, collected) /\ EntriesTrue(registry, collected)

ReadInv ==
  /\ WalkInv
  /\ \A id \in DOMAIN parsed : ReadTrue(registry, id, parsed[id])
  /\ \A f \in Field : resolved[f] # None =>
       ReadTrue(registry, resolved[f].id, resolved[f].contents)

LEMMA EntriesLast ==
  ASSUME NEW r, NEW q, Lasts(q, r), NEW got, EntriesTrue(r, got)
  PROVE  EntriesTrue(q, got)
  BY DEF Lasts, EntriesTrue, EntryTrue

LEMMA ReadLasts ==
  ASSUME NEW r, NEW q, NEW time, Grows(q, r, time), Lasts(q, r), NEW id, NEW got,
         ReadTrue(r, id, got)
  PROVE  ReadTrue(q, id, got)
  BY EntriesLast DEF Grows, ReadTrue

\* Nothing of the walk changes.
LEMMA WalkRests ==
  ASSUME LookupInv, ReadInv, SameWalk(frames', frames), UNCHANGED <<visited, collected, registry>>
  PROVE  WalkInv'
<1>. SUFFICES ASSUME Collecting(frames') # {}
              PROVE  WalkOK(frames', visited, collected) /\ EntriesTrue(registry, collected)
  BY DEF WalkInv
<1>1. Collecting(frames) # {}
  BY DEF SameWalk
<1>2. WalkOK(frames, visited, collected) /\ EntriesTrue(registry, collected)
  BY <1>1 DEF ReadInv, WalkInv
<1>3. 2 \in Collecting(frames)
  BY <1>1, RootCollects DEF LookupInv
<1>. QED
  BY <1>2, <1>3, SameWalkHolds

\* Something else is called.
LEMMA QuietCalls ==
  ASSUME LookupInv, LookupInv', frames # <<>>, Top.op # "collect", NEW f, Call(f), f.op # "collect"
  PROVE  SameWalk(frames', frames)
<1>. DEFINE X == Frame \cup {f}
            t == <<f>> \o frames
<1>1. frames \in Seq(Frame) /\ frames \in Seq(X) /\ frames' = t
  BY TopFacts DEF Call
<1>2. t # <<>> /\ t[1] = f
  BY <1>1, Pushed
<1>3. CallsOK(setup', registry', frames', pending')
  BY DEF LookupInv
<1>. HIDE DEF t, X
<1>4. frames'[1] \in Frame
  BY <1>1, <1>2, <1>3, HasCaller DEF CallsOK
<1>. QED
  BY <1>1, <1>2, <1>4, QuietPush DEF t, Top

LEMMA QuietUpdates ==
  ASSUME LookupInv, LookupInv', frames # <<>>, Top.op # "collect", NEW f, Update(f),
         f.op # "collect"
  PROVE  SameWalk(frames', frames)
<1>. DEFINE X == Frame \cup {f}
            u == Tail(frames)
            t == <<f>> \o u
<1>1. frames \in Seq(Frame) /\ frames' = t
  BY TopFacts DEF Update
<1>2. u \in Seq(X)
  <2>1. u \in Seq(Frame)
    BY <1>1, Popped
  <2>. HIDE DEF u
  <2>. QED
    BY <2>1
<1>. HIDE DEF u
<1>3. t # <<>> /\ t[1] = f
  BY <1>2, Pushed
<1>4. CallsOK(setup', registry', frames', pending')
  BY DEF LookupInv
<1>. HIDE DEF t, X
<1>5. frames'[1] \in Frame
  BY <1>1, <1>3, <1>4, HasCaller DEF CallsOK
<1>. QED
  BY <1>1, <1>3, <1>5, QuietUpdate DEF t, u, Top

\* What another call returns; _collect_contents() finds its reference.
LEMMA QuietReturns ==
  ASSUME LookupInv, LookupInv', frames # <<>>, Top.op \notin {"collect", "resolve"},
         NEW value, Return(value), Top.op = "artifact" => value # None
  PROVE  SameWalk(frames', frames)
<1>. DEFINE g == frames[2]
            h == Resumed(g, value)
            X == Frame \cup {h}
            u == Tail(Tail(frames))
            t == <<h>> \o u
<1>1. /\ frames \in Seq(Frame) /\ frames' = t /\ Top = Head(frames) /\ Top \in Frame
      /\ CallsOK(setup, registry, frames, pending)
  BY TopFacts DEF Return, Top
<1>2. Len(frames) >= 2 /\ g \in Frame /\ WaitsFor(setup, g, Top)
  BY <1>1, HasCaller DEF CallsOK
<1>3. u \in Seq(X)
  <2>1. u \in Seq(Frame)
    BY <1>1, <1>2, Popped
  <2>. HIDE DEF u
  <2>. QED
    BY <2>1
<1>. HIDE DEF u
<1>4. t # <<>> /\ t[1] = h
  BY <1>3, Pushed
<1>5. CallsOK(setup', registry', frames', pending')
  BY DEF LookupInv
<1>6. g.op \in {"register", "artifact", "collect", "resolve"}
  BY <1>1, <1>2, FrameKinds
     DEF WaitsFor, WaitsForRegister, WaitsForVersion, WaitsForArtifact, WaitsForMetadata
<1>7. g.op = "collect" => Top.op = "artifact" /\ g.found = None
  BY <1>1, <1>2, FrameKinds
     DEF WaitsFor, WaitsForRegister, WaitsForVersion, WaitsForArtifact, WaitsForMetadata
<1>. HIDE DEF t, X
<1>8. h \in Frame
  BY <1>1, <1>4, <1>5, HasCaller DEF CallsOK
<1>9. CASE g.op = "collect"
  <2>1. g \in CollectFrame /\ h = [g EXCEPT !.found = value]
    BY <1>2, <1>7, <1>9, FrameKinds, ResumedIs
  <2>. HIDE DEF h, g
  <2>2. /\ h.op = "collect" /\ h.ref = g.ref /\ h.doc = g.doc /\ h.refs = g.refs
        /\ h.next = g.next /\ h.found = value
    BY <2>1 DEF CollectFrame
  <2>3. Node(h) = Node(g) /\ h.found # None
    BY <1>7, <1>9, <2>2 DEF Node
  <2>. QED
    BY <1>1, <1>2, <1>8, <1>9, <2>2, <2>3, QuietReturn DEF t, u, g
<1>10. CASE g.op # "collect"
  <2>1. h.op # "collect"
    <3>1. CASE g.op = "register"
      <4>1. g \in RegisterFrame /\ h = [g EXCEPT !.got = Append(g.got, value.version)]
        BY <1>2, <3>1, FrameKinds, ResumedIs
      <4>. HIDE DEF h, g
      <4>. QED
        BY <4>1 DEF RegisterFrame
    <3>2. CASE g.op = "artifact"
      <4>1. g \in ArtifactFrame /\ h = [g EXCEPT !.typed = TypeOf(value)]
        BY <1>2, <3>2, FrameKinds, ResumedIs
      <4>. HIDE DEF h, g
      <4>. QED
        BY <4>1 DEF ArtifactFrame
    <3>3. CASE g.op = "resolve"
      <4>1. g \in ResolveFrame /\ (h = [g EXCEPT !.version = value] \/ h = [g EXCEPT !.artifact = value])
        BY <1>2, <3>3, FrameKinds, ResumedIs
      <4>. HIDE DEF h, g
      <4>. QED
        BY <4>1 DEF ResolveFrame
    <3>. QED
      BY <1>6, <1>10, <3>1, <3>2, <3>3
  <2>. QED
    BY <1>1, <1>2, <1>8, <1>10, <2>1, QuietReturn DEF t, u, g
<1>. QED
  BY <1>9, <1>10

\* Neither _register(), _version(), get_artifact() nor get_metadata() knows of
\* the walk.
LEMMA QuietSteps ==
  ASSUME LookupInv, LookupInv',
         \/ ReadArtifact \/ Register \/ Registered \/ GetVersion \/ GotVersion
         \/ GetContent \/ GotContent \/ AskMetadata \/ GetReferences \/ GotReferences
         \/ Search \/ Found
  PROVE  SameWalk(frames', frames)
<1>1. UNCHANGED frames => SameWalk(frames', frames)
  BY DEF SameWalk
<1>2. CASE ReadArtifact
  <2>. DEFINE f == ArtifactCall([id |-> Top.version.id])
  <2>1. frames # <<>> /\ Top.op = "resolve" /\ Call(f) /\ f.op = "artifact"
    BY <1>2 DEF ReadArtifact, Running, ArtifactCall
  <2>. HIDE DEF f
  <2>. QED
    BY <2>1, QuietCalls
<1>3. CASE Register
  <2>. DEFINE next == Len(Top.got) + 1
              f == RegisterCall(DocRefs[Top.doc][next], DocRefs[Top.doc][next])
              value == registered[Registration(Top.artifact, Top.doc)]
  <2>1. frames # <<>> /\ Top.op = "register" /\ (Return(value) \/ Call(f) \/ UNCHANGED frames)
    BY <1>3 DEF Register, Running
  <2>2. f.op = "register"
    BY DEF RegisterCall
  <2>. HIDE DEF f, value
  <2>. QED
    BY <1>1, <2>1, <2>2, QuietCalls, QuietReturns
<1>4. CASE Registered
  <2>1. frames # <<>> /\ Top.op = "register" /\ Return(reply)
    BY <1>4 DEF Registered, Running
  <2>. QED
    BY <2>1, QuietReturns
<1>5. CASE GetVersion
  <2>. DEFINE value == ItemOf(cache, VersionKey(Top)).value
  <2>1. frames # <<>> /\ Top.op = "version" /\ (Return(value) \/ UNCHANGED frames)
    BY <1>5 DEF GetVersion, Running
  <2>. HIDE DEF value
  <2>. QED
    BY <1>1, <2>1, QuietReturns
<1>6. CASE GotVersion
  <2>1. frames # <<>> /\ Top.op = "version" /\ Return(reply)
    BY <1>6 DEF GotVersion, Running
  <2>. QED
    BY <2>1, QuietReturns
<1>7. CASE GetContent
  <2>. DEFINE key == Top.source
              value == ItemOf(cache, key).value
  <2>1. frames # <<>> /\ Top.op = "artifact"
    BY <1>7 DEF GetContent, Running
  <2>2. CASE ~Valid(cache, key)
    BY <1>1, <1>7, <2>2 DEF GetContent
  <2>3. CASE Valid(cache, key)
    <3>1. Return(value)
      BY <1>7, <2>3 DEF GetContent
    <3>2. /\ Top \in ArtifactFrame /\ registry \in RegistryType /\ IdsKnown(registry)
          /\ CacheOK(cache, registry, now)
      BY <2>1, TopFacts, FrameKinds
    <3>3. IsContent(registry, Top.source, value)
      BY <2>3, <3>2, ValidItem DEF ItemTrue, ArtifactFrame
    <3>4. value # None
      BY <3>2, <3>3, ContentsAre, NoneIsNothing DEF IsContent
    <3>. HIDE DEF value
    <3>. QED
      BY <2>1, <3>1, <3>4, QuietReturns
  <2>. QED
    BY <2>2, <2>3
<1>8. CASE GotContent
  <2>. DEFINE type == TypeToldOf(Top, reply.doc)
              f == [Top EXCEPT !.doc = reply.doc, !.typed = type]
  <2>1. frames # <<>> /\ Top.op = "artifact" /\ Update(f)
    BY <1>8 DEF GotContent, Running
  <2>2. Top \in ArtifactFrame
    BY <2>1, TopFacts, FrameKinds
  <2>. HIDE DEF type
  <2>3. f.op = "artifact"
    BY <2>2 DEF ArtifactFrame
  <2>. HIDE DEF f
  <2>. QED
    BY <2>1, <2>3, QuietUpdates
<1>9. CASE AskMetadata
  <2>. DEFINE f == MetadataCall(Top.source.id)
  <2>1. frames # <<>> /\ Top.op = "artifact" /\ Call(f) /\ f.op = "metadata"
    BY <1>9 DEF AskMetadata, Running, MetadataCall
  <2>. HIDE DEF f
  <2>. QED
    BY <2>1, QuietCalls
<1>10. CASE GetReferences
  BY <1>1, <1>10 DEF GetReferences
<1>11. CASE GotReferences
  <2>. DEFINE value == [doc |-> Top.doc, refs |-> reply.refs]
  <2>1. frames # <<>> /\ Top.op = "artifact" /\ Return(value)
    BY <1>11 DEF GotReferences, Running
  <2>2. value # None
    BY <1>11, ContentIsRead, NoneIsNothing
  <2>. HIDE DEF value
  <2>. QED
    BY <2>1, <2>2, QuietReturns
<1>12. CASE Search
  <2>. DEFINE value == ItemOf(cache, MetadataKey(Top)).value.values
  <2>1. frames # <<>> /\ Top.op = "metadata" /\ (Return(value) \/ UNCHANGED frames)
    BY <1>12 DEF Search, Running
  <2>. HIDE DEF value
  <2>. QED
    BY <1>1, <2>1, QuietReturns
<1>13. CASE Found
  <2>. DEFINE values == Top.values \o reply.page
              f == [Top EXCEPT !.values = values]
  <2>1. frames # <<>> /\ Top.op = "metadata" /\ (Return(values) \/ Update(f))
    BY <1>13 DEF Found, Running
  <2>2. Top \in MetadataFrame
    BY <2>1, TopFacts, FrameKinds
  <2>. HIDE DEF values
  <2>3. f.op = "metadata"
    BY <2>2 DEF MetadataFrame
  <2>. HIDE DEF f
  <2>. QED
    BY <2>1, <2>3, QuietReturns, QuietUpdates
<1>. QED
  BY <1>2, <1>3, <1>4, <1>5, <1>6, <1>7, <1>8, <1>9, <1>10, <1>11, <1>12, <1>13

\* No schema is being read.
LEMMA NothingCollects == Collecting(<<>>) = {}
<1>1. Len(<<>>) = 0
  OBVIOUS
<1>. QED
  BY <1>1 DEF Collecting

LEMMA FieldCollectsNothing ==
  ASSUME LookupInv, NextField
  PROVE  WalkInv'
<1>. SUFFICES Collecting(frames') = {}
  BY DEF WalkInv
<1>. DEFINE f == Head(pending)
            a == RegisterCall(setup.artifact[f], setup.document[f])
            b == VersionCall(setup.artifact[f], setup.version[f])
            c == [op |-> "resolve", field |-> f, version |-> None, artifact |-> None]
            called == IF setup.document[f] # NoDoc THEN a ELSE b
            t == <<called, c>>
<1>1. frames = <<>> /\ (frames' = t \/ frames' = frames)
  BY DEF NextField
<1>2. a.op # "collect" /\ b.op # "collect" /\ c.op # "collect"
  BY DEF RegisterCall, VersionCall
<1>. HIDE DEF a, b, c
<1>3. called.op # "collect"
  BY <1>2
<1>. HIDE DEF called
<1>4. Len(t) = 2 /\ t[1] = called /\ t[2] = c
  OBVIOUS
<1>. HIDE DEF t
<1>5. \A k \in 1..2 : 2 + 1 - k = 1 \/ 2 + 1 - k = 2
  OBVIOUS
<1>6. Collecting(t) = {}
  BY <1>2, <1>3, <1>4, <1>5 DEF Collecting, Nth
<1>. QED
  BY <1>1, <1>6, NothingCollects

LEMMA WalkIsBegun ==
  ASSUME LookupInv, ReadSchema
  PROVE  WalkInv'
<1>. DEFINE f == CollectCall(None, Top.artifact)
            t == <<f>> \o frames
            none == <<>>
<1>1. /\ frames # <<>> /\ Top.op = "resolve" /\ Top.artifact # None
      /\ frames' = t /\ visited' = {} /\ collected' = none
  BY DEF ReadSchema, Running, Call
<1>2. /\ frames \in Seq(Frame) /\ Top = Head(frames) /\ Top = frames[1] /\ Top \in ResolveFrame
      /\ CallsOK(setup, registry, frames, pending)
  BY <1>1, TopFacts, FrameKinds DEF Top
<1>3. Len(frames) = 1
  BY <1>1, <1>2, HasCaller DEF CallsOK
<1>4. f \in CollectFrame /\ f.next = 1 /\ f.found = None
  <2>1. Top.artifact \in Content
    BY <1>1, <1>2 DEF ResolveFrame
  <2>. QED
    BY <2>1, CollectIsCalled
<1>. HIDE DEF f
<1>5. WalkOK(t, {}, none)
  BY <1>1, <1>2, <1>3, <1>4, WalkBegins
<1>6. EntriesTrue(registry', none)
  <2>1. none \in Seq(Entry) /\ ToSet(none) = {}
    BY DEF ToSet
  <2>. HIDE DEF none
  <2>. QED
    BY <2>1 DEF EntriesTrue
<1>. HIDE DEF t, none
<1>. QED
  BY <1>1, <1>5, <1>6 DEF WalkInv

\* The walk goes on from the call on top.
LEMMA WalkAtTop ==
  ASSUME LookupInv, ReadInv, frames # <<>>, Top.op = "collect"
  PROVE  /\ WalkOK(frames, visited, collected) /\ EntriesTrue(registry, collected)
         /\ CallsOK(setup, registry, frames, pending) /\ Top = Head(frames)
         /\ Top \in CollectFrame /\ CollectTrue(registry, Top)
         /\ Wanted(frames, Len(frames)) = Top.refs[Top.next]
<1>1. CallsOK(setup, registry, frames, pending) /\ Top = Head(frames)
  BY TopFacts DEF Top
<1>2. /\ Len(frames) \in Collecting(frames) /\ Nth(frames, Len(frames)) = Top
  BY <1>1, TopCollects
<1>3. WalkOK(frames, visited, collected) /\ EntriesTrue(registry, collected)
  BY <1>2 DEF ReadInv, WalkInv
<1>4. Top \in CollectFrame /\ CollectTrue(registry, Top)
  BY <1>1, <1>2, CollectCalls
<1>. QED
  BY <1>1, <1>2, <1>3, <1>4 DEF Wanted

LEMMA WalkCollects ==
  ASSUME LookupInv, ReadInv, Collect
  PROVE  WalkInv'
<1>. DEFINE n == Top.next + 1
            g == [Top EXCEPT !.next = n]
            ref == Top.refs[Top.next]
            f == ArtifactCall(ref)
<1>1. /\ frames # <<>> /\ Top.op = "collect" /\ Top.found = None /\ Top.next <= Len(Top.refs)
      /\ collected' = collected /\ registry' = registry
  BY DEF Collect, Running, clientVars
<1>2. /\ WalkOK(frames, visited, collected) /\ EntriesTrue(registry, collected)
      /\ CallsOK(setup, registry, frames, pending) /\ Top = Head(frames)
      /\ Top \in CollectFrame /\ Wanted(frames, Len(frames)) = ref
  BY <1>1, WalkAtTop
<1>3. /\ Top.next \in 1..Len(Top.refs) /\ Top.next \in Nat \ {0} /\ n \in Nat \ {0}
      /\ ref \in Reference
  BY <1>1, <1>2 DEF CollectFrame
<1>4. CASE Met(ref)
  <2>. DEFINE t == <<g>> \o Tail(frames)
  <2>1. frames' = t /\ visited' = visited /\ ref \in visited
    BY <1>4 DEF Collect, Update, Met
  <2>. HIDE DEF n
  <2>2. /\ g \in CollectFrame /\ g.ref = Top.ref /\ g.doc = Top.doc /\ g.refs = Top.refs
        /\ g.next = n /\ g.found = None
    BY <1>1, <1>2, <1>3 DEF CollectFrame
  <2>. HIDE DEF g
  <2>3. Node(g) = Node(Top)
    BY <2>2 DEF Node
  <2>4. WalkOK(t, visited, collected)
    BY <1>1, <1>2, <1>3, <2>1, <2>2, <2>3, WalkMeets DEF n
  <2>. HIDE DEF t
  <2>. QED
    BY <1>1, <1>2, <2>1, <2>4 DEF WalkInv
<1>5. CASE ~Met(ref)
  <2>. DEFINE t == <<f>> \o frames
              seen == visited \cup {ref}
  <2>1. frames' = t /\ visited' = seen /\ ref \notin visited
    BY <1>5 DEF Collect, Call, Met
  <2>2. f \in Frame /\ f.op # "collect"
    BY <1>3, ArtifactIsCalled DEF Source
  <2>. HIDE DEF f
  <2>3. WalkOK(t, seen, collected)
    BY <1>1, <1>2, <1>3, <2>1, <2>2, WalkAsks
  <2>. HIDE DEF t, seen
  <2>. QED
    BY <1>1, <1>2, <2>1, <2>3 DEF WalkInv
<1>. QED
  BY <1>4, <1>5

LEMMA WalkGoesDown ==
  ASSUME LookupInv, ReadInv, Descend
  PROVE  WalkInv'
<1>. DEFINE ref == Top.refs[Top.next]
            f == CollectCall(ref, Top.found)
            t == <<f>> \o frames
<1>1. /\ frames # <<>> /\ Top.op = "collect" /\ Top.found # None /\ frames' = t
      /\ UNCHANGED <<visited, collected, registry>>
  BY DEF Descend, Running, Call, clientVars, walk
<1>2. /\ WalkOK(frames, visited, collected) /\ EntriesTrue(registry, collected)
      /\ CallsOK(setup, registry, frames, pending) /\ Top = Head(frames)
      /\ Top \in CollectFrame /\ CollectTrue(registry, Top) /\ Wanted(frames, Len(frames)) = ref
  BY <1>1, WalkAtTop
<1>3. /\ Top.next \in 1..Len(Top.refs) /\ ref \in Reference /\ Top.found \in Content
  BY <1>1, <1>2 DEF CollectFrame, CollectTrue
<1>4. f \in CollectFrame /\ f.ref = ref /\ f.next = 1 /\ f.found = None
  BY <1>3, CollectIsCalled
<1>. HIDE DEF f
<1>5. WalkOK(t, visited, collected)
  BY <1>1, <1>2, <1>4, WalkDescends
<1>. HIDE DEF t
<1>. QED
  BY <1>1, <1>2, <1>5 DEF WalkInv

\* The call a collecting one waits for.
LEMMA CollectorWaits ==
  ASSUME LookupInv, frames # <<>>, Top.op = "collect"
  PROVE  /\ frames \in Seq(Frame) /\ Len(frames) \in Nat /\ Len(frames) >= 2
         /\ frames[2] \in Frame /\ WaitsForCollect(frames[2], Top)
         /\ FrameTrue(setup, registry, frames[2])
<1>1. /\ CallsOK(setup, registry, frames, pending) /\ Top = Head(frames)
  BY TopFacts DEF Top
<1>2. /\ frames \in Seq(Frame) /\ Len(frames) >= 2 /\ frames[2] \in Frame
      /\ WaitsFor(setup, frames[2], Top) /\ Len(frames) \in Nat
  BY <1>1, HasCaller DEF CallsOK, Stacked
<1>. QED
  BY <1>1, <1>2 DEF CallsOK, CallsTrue, WaitsFor

\* A reference's content is gathered.
LEMMA WalkComesUp ==
  ASSUME LookupInv, ReadInv, Collected
  PROVE  WalkInv'
<1>1. /\ frames # <<>> /\ Top.op = "collect" /\ Top.found = None /\ Top.next > Len(Top.refs)
      /\ registry' = registry /\ visited' = visited /\ Top.ref # None
  BY DEF Collected, CollectedAll, Running, clientVars
<1>2. /\ WalkOK(frames, visited, collected) /\ EntriesTrue(registry, collected)
      /\ CallsOK(setup, registry, frames, pending) /\ Top = Head(frames)
      /\ Top \in CollectFrame /\ CollectTrue(registry, Top)
  BY <1>1, WalkAtTop
<1>. DEFINE g == frames[2]
<1>3. g \in Frame /\ WaitsForCollect(g, Top)
  BY <1>1, CollectorWaits
<1>. DEFINE h == Resumed(g, "collected")
            t == <<h>> \o Tail(Tail(frames))
            n == g.next + 1
            all == Append(collected, Node(Top))
<1>4. frames' = t /\ collected' = all
  BY DEF Collected, Return, Gathered, Node
<1>5. g.op = "collect" /\ g.found # None
  BY <1>1, <1>2, <1>3, FrameKinds DEF WaitsForCollect
<1>6. h = [g EXCEPT !.found = None, !.next = n]
  BY <1>5, ResumedIs
<1>7. g \in CollectFrame /\ n \in Nat \ {0}
  <2>1. g \in CollectFrame
    BY <1>3, <1>5, FrameKinds
  <2>. QED
    BY <2>1 DEF CollectFrame
<1>. HIDE DEF g, h, n
<1>8. /\ h = [op |-> "collect", ref |-> g.ref, doc |-> g.doc, refs |-> g.refs,
              next |-> n, found |-> None]
      /\ h \in CollectFrame
  BY <1>6, <1>7, CollectGoesOn
<1>9. Node(h) = Node(g) /\ h.next = n /\ h.found = None
  BY <1>8 DEF Node
<1>10. WalkOK(t, visited, all) /\ collected \in Seq(Entry) /\ Node(Top) \in Entry
  BY <1>1, <1>2, <1>8, <1>9, WalkGathers DEF g, n
<1>11. EntryTrue(registry, Node(Top))
  BY <1>1, <1>2 DEF CollectTrue, EntryTrue, Node
<1>12. EntriesTrue(registry, all)
  <2>. DEFINE e == Node(Top)
  <2>. HIDE DEF e
  <2>1. EntryTrue(registry, e) /\ e \in Entry
    BY <1>10, <1>11 DEF e
  <2>2. Append(collected, e) \in Seq(Entry) /\ ToSet(Append(collected, e)) = ToSet(collected) \cup {e}
    BY <1>10, <2>1, GatheredInOrder
  <2>. QED
    BY <1>2, <2>1, <2>2 DEF EntriesTrue, e
<1>. HIDE DEF t, all
<1>. QED
  BY <1>1, <1>4, <1>10, <1>12 DEF WalkInv

\* With the schema's own call over, what was gathered is the field's schema.
LEMMA SchemaIsRead ==
  ASSUME LookupInv, ReadInv, Running("collect"), CollectedAll, Top.ref = None
  PROVE  /\ frames \in Seq(Frame) /\ Len(frames) = 2 /\ frames[2].op = "resolve"
         /\ ReadTrue(registry, frames[2].version.id, collected)
         /\ IsOfField(setup, registry, Head(pending), frames[2].version)
         /\ registry \in RegistryType /\ IdsKnown(registry)
<1>1. /\ frames # <<>> /\ Top.op = "collect" /\ Top.found = None /\ Top.next > Len(Top.refs)
  BY DEF CollectedAll, Running
<1>2. /\ WalkOK(frames, visited, collected) /\ EntriesTrue(registry, collected)
      /\ CallsOK(setup, registry, frames, pending) /\ Top = Head(frames)
  BY <1>1, WalkAtTop
<1>. DEFINE g == frames[2]
            id == g.version.id
<1>3. /\ frames \in Seq(Frame) /\ g \in Frame /\ WaitsForCollect(g, Top)
      /\ FrameTrue(setup, registry, g)
  BY <1>1, CollectorWaits
<1>4. Len(frames) = 2 /\ Whole(Top.refs, collected)
  BY <1>1, <1>2, WalkEnds
<1>5. g.op = "resolve" /\ g.artifact # None /\ g.field = Head(pending)
  <2>1. Stacked(setup, frames, pending)
    BY <1>2 DEF CallsOK
  <2>2. g.op = "resolve" /\ g.field = Head(pending)
    BY <1>1, <1>4, <2>1 DEF Stacked
  <2>. QED
    BY <1>3, <2>2 DEF WaitsForCollect
<1>6. /\ ResolveTrue(setup, registry, g) /\ g \in ResolveFrame
      /\ Top.refs = g.artifact.refs
  BY <1>3, <1>5, FrameKinds DEF FrameTrue, WaitsForCollect
<1>7. /\ g.version # None /\ g.artifact = registry.contents[g.version.id]
      /\ IsOfField(setup, registry, g.field, g.version)
      /\ IsVersion(registry, setup.artifact[g.field], g.version)
  BY <1>5, <1>6 DEF ResolveTrue, IsOfField
<1>8. registry \in RegistryType /\ IdsKnown(registry)
  BY DEF LookupInv, RegistryOK
<1>9. id \in DOMAIN registry.contents
  BY <1>7, <1>8, VersionIsOfContent DEF IsVersion
<1>10. ReadTrue(registry, id, collected)
  BY <1>2, <1>4, <1>6, <1>7, <1>9 DEF ReadTrue
<1>. QED
  BY <1>3, <1>4, <1>5, <1>7, <1>8, <1>10

\* The schema is parsed, or the lookup fails: nothing is read any more.
LEMMA WalkIsOver ==
  ASSUME LookupInv, ReadInv, Parse
  PROVE  /\ WalkInv'
         /\ \A id \in DOMAIN parsed' : ReadTrue(registry, id, parsed'[id])
<1>1. /\ frames # <<>> /\ frames \in Seq(Frame) /\ Len(frames) = 2 /\ frames[2].op = "resolve"
      /\ ReadTrue(registry, frames[2].version.id, collected)
  BY SchemaIsRead DEF Parse, Running
<1>2. CASE Fail("unparsed")
  <2>1. frames' = <<>> /\ parsed' = parsed
    BY <1>2 DEF Fail, kept
  <2>. QED
    BY <2>1, NothingCollects DEF WalkInv, ReadInv
<1>3. CASE /\ parsed' = Entered(parsed, frames[2].version.id, collected)
           /\ frames' = Tail(frames)
  <2>1. \A k \in DOMAIN parsed' : ReadTrue(registry, k, parsed'[k])
    BY <1>1, <1>3 DEF Entered, ReadInv
  <2>. DEFINE u == Tail(frames)
  <2>2. u \in Seq(Frame) /\ Len(u) = 1 /\ u[1] = frames[2]
    <3>1. /\ u \in Seq(Frame) /\ Len(u) = Len(frames) - 1
          /\ \A i \in 1..(Len(frames) - 1) : u[i] = frames[i + 1]
      BY <1>1, Popped
    <3>2. Len(frames) - 1 = 1 /\ 1 \in 1..1 /\ 1 + 1 = 2
      BY <1>1
    <3>. HIDE DEF u
    <3>. QED
      BY <3>1, <3>2
  <2>. HIDE DEF u
  <2>3. \A k \in 1..1 : 1 + 1 - k = 1
    OBVIOUS
  <2>4. Collecting(u) = {}
    BY <1>1, <2>2, <2>3 DEF Collecting, Nth
  <2>. QED
    BY <1>3, <2>1, <2>4 DEF WalkInv, u
<1>. QED
  BY <1>2, <1>3 DEF Parse

LEMMA LookupReads ==
  ASSUME LookupInv, LookupInv', ReadInv, LookupStep \/ Produce
  PROVE  ReadInv'
<1>1. registry' = registry /\ setup' = setup
  BY LookupIsClient
<1>2. ASSUME WalkInv', parsed' = parsed, resolved' = resolved PROVE ReadInv'
  BY <1>1, <1>2 DEF ReadInv
<1>3. CASE \/ ReadArtifact \/ Register \/ Registered \/ GetVersion \/ GotVersion
           \/ GetContent \/ GotContent \/ AskMetadata \/ GetReferences \/ GotReferences
           \/ Search \/ Found
  <2>1. SameWalk(frames', frames)
    BY <1>3, QuietSteps
  <2>2. UNCHANGED <<visited, collected, parsed, resolved>>
    BY <1>3 DEF ReadArtifact, Register, Registered, GetVersion, GotVersion, GetContent, GotContent,
                AskMetadata, GetReferences, GotReferences, Search, Found, composer, walk, kept
  <2>. QED
    BY <1>1, <1>2, <2>1, <2>2, WalkRests
<1>4. CASE NextField
  BY <1>2, <1>4, FieldCollectsNothing DEF NextField, kept
<1>5. CASE Raise \/ RefuseType
  <2>1. frames' = <<>> /\ parsed' = parsed /\ resolved' = resolved
    BY <1>5 DEF Raise, RefuseType, Fail, kept
  <2>. QED
    BY <1>2, <2>1, NothingCollects DEF WalkInv
<1>6. CASE Produce
  <2>1. UNCHANGED <<frames, visited, collected, parsed, resolved>>
    BY <1>6 DEF Produce, walk, kept
  <2>2. SameWalk(frames', frames)
    BY <2>1 DEF SameWalk
  <2>. QED
    BY <1>1, <1>2, <2>1, <2>2, WalkRests
<1>7. CASE ReadSchema
  BY <1>2, <1>7, WalkIsBegun DEF ReadSchema, composer, kept
<1>8. CASE Resolve
  <2>. DEFINE schema == [version |-> Top.version.version, id |-> Top.version.id,
                         doc |-> Top.artifact.doc, contents |-> parsed[Top.version.id]]
  <2>1. /\ frames' = <<>> /\ parsed' = parsed /\ Top.version.id \in DOMAIN parsed
        /\ resolved' = [resolved EXCEPT ![Top.field] = schema]
    BY <1>8 DEF Resolve, kept
  <2>2. schema.id = Top.version.id /\ schema.contents = parsed[Top.version.id]
    OBVIOUS
  <2>. HIDE DEF schema
  <2>3. ReadTrue(registry, schema.id, schema.contents)
    BY <2>1, <2>2 DEF ReadInv
  <2>4. DOMAIN resolved = Field
    BY DEF LookupInv, ResolvedOK
  <2>5. \A f \in Field : resolved'[f] # None =>
          ReadTrue(registry, resolved'[f].id, resolved'[f].contents)
    BY <2>1, <2>3, <2>4 DEF ReadInv
  <2>6. WalkInv'
    BY <2>1, NothingCollects DEF WalkInv
  <2>. QED
    BY <1>1, <2>1, <2>5, <2>6 DEF ReadInv
<1>9. CASE Collect
  BY <1>2, <1>9, WalkCollects DEF Collect, composer, kept
<1>10. CASE Descend
  BY <1>2, <1>10, WalkGoesDown DEF Descend, composer, kept
<1>11. CASE Collected
  BY <1>2, <1>11, WalkComesUp DEF Collected, composer, kept
<1>12. CASE Parse
  <2>1. resolved' = resolved
    BY <1>12 DEF Parse, Fail, composer
  <2>. QED
    BY <1>1, <1>12, <2>1, WalkIsOver DEF ReadInv
<1>. QED
  BY <1>3, <1>4, <1>5, <1>6, <1>7, <1>8, <1>9, <1>10, <1>11, <1>12 DEF LookupStep

LEMMA AroundReads ==
  ASSUME LookupInv, ReadInv, ClientStep \/ Trouble
  PROVE  ReadInv'
<1>1. /\ UNCHANGED <<frames, visited, collected, parsed, resolved>> /\ LookupInv'
      /\ Grows(registry', registry, now)
  BY AroundKeeps DEF resolution, composer, walk, kept
<1>2. registry \in RegistryType /\ registry' \in RegistryType /\ IdsKnown(registry)
  BY <1>1 DEF LookupInv, RegistryOK
<1>3. Lasts(registry', registry)
  BY <1>1, <1>2, GrowthLasts
<1>4. WalkInv'
  BY <1>1, <1>3, EntriesLast DEF ReadInv, WalkInv
<1>5. ASSUME NEW id, NEW got, ReadTrue(registry, id, got) PROVE ReadTrue(registry', id, got)
  BY <1>1, <1>3, <1>5, ReadLasts
<1>. QED
  BY <1>1, <1>4, <1>5 DEF ReadInv

LEMMA ReadInvariant == Spec => []ReadInv
<1>1. Init => ReadInv
  <2>. SUFFICES ASSUME Init PROVE ReadInv
    OBVIOUS
  <2>1. frames = <<>> /\ DOMAIN parsed = {} /\ \A f \in Field : resolved[f] = None
    BY DEF Init
  <2>. QED
    BY <2>1, NothingCollects DEF ReadInv, WalkInv
<1>2. LookupInv /\ LookupInv' /\ ReadInv /\ [Next]_vars => ReadInv'
  <2>. SUFFICES ASSUME LookupInv, LookupInv', ReadInv, [Next]_vars PROVE ReadInv'
    OBVIOUS
  <2>1. CASE UNCHANGED vars
    <3>1. UNCHANGED <<frames, visited, collected, parsed, resolved, registry>>
      BY <2>1 DEF vars, clientVars, composer, walk, kept
    <3>. QED
      BY <3>1 DEF ReadInv, WalkInv
  <2>. QED
    BY <2>1, LookupReads, AroundReads DEF Next
<1>. QED
  BY <1>1, <1>2, LookupInvariant, PTL DEF Spec

\* What is parsed of a local document's schema is a local document's, and
\* these do not refer to each other in turns.
LEMMA LocalIsInOrder ==
  ASSUME NEW r \in RegistryType, IdsKnown(r), NEW id, NEW got, ReadTrue(r, id, got), IsLocal(r, id)
  PROVE  InOrder(got)
<1>1. /\ Whole(r.contents[id].refs, got) /\ EntriesTrue(r, got)
      /\ Refs(got) = {e.ref : e \in ToSet(got)}
  BY DEF ReadTrue, Refs, ToSet
<1>2. PICK ids \in SUBSET DOMAIN r.contents : id \in ids /\ LocalTogether(r, ids)
  BY DEF IsLocal
<1>. DEFINE S == {ref \in Refs(got) : ContentAt(r, ref) \in ids}
<1>3. ASSUME NEW i \in ids
      PROVE  /\ r.contents[i] \in Content /\ r.contents[i].doc \in Docs
             /\ r.contents[i].refs \in Seq(Reference)
             /\ Len(r.contents[i].refs) = Len(DocRefs[r.contents[i].doc])
             /\ \A ref \in ToSet(r.contents[i].refs) :
                  /\ ContentAt(r, ref) \in ids
                  /\ r.contents[ContentAt(r, ref)].doc \in ToSet(DocRefs[r.contents[i].doc])
  <2>. DEFINE c == r.contents[i]
  <2>1. c \in Content
    BY <1>2 DEF RegistryType
  <2>2. /\ Len(c.refs) = Len(DocRefs[c.doc])
        /\ \A k \in 1..Len(c.refs) :
             /\ RefersTo(r, c.refs[k], DocRefs[c.doc][k])
             /\ ContentAt(r, c.refs[k]) \in ids
    BY <1>2 DEF LocalTogether
  <2>. HIDE DEF c
  <2>3. c.doc \in Docs /\ c.refs \in Seq(Reference)
    BY <2>1 DEF Content
  <2>4. DocRefs[c.doc] \in Seq(Docs)
    BY <2>3, ResolutionAssumption
  <2>5. ASSUME NEW ref \in ToSet(c.refs)
        PROVE  /\ ContentAt(r, ref) \in ids
               /\ r.contents[ContentAt(r, ref)].doc \in ToSet(DocRefs[c.doc])
    <3>1. PICK k \in 1..Len(c.refs) : c.refs[k] = ref
      BY <2>3 DEF ToSet
    <3>2. r.contents[ContentAt(r, ref)].doc = DocRefs[c.doc][k] /\ k \in DOMAIN DocRefs[c.doc]
      BY <2>2, <2>4, <3>1 DEF RefersTo
    <3>. QED
      BY <2>2, <3>1, <3>2 DEF ToSet
  <2>. QED
    BY <2>1, <2>2, <2>3, <2>5 DEF c
<1>4. \A e \in ToSet(got) : /\ e.doc = r.contents[ContentAt(r, e.ref)].doc
                            /\ e.refs = r.contents[ContentAt(r, e.ref)].refs
  BY <1>1 DEF EntriesTrue, EntryTrue
<1>5. IsClosed(r.contents[id].refs, ToSet(got), S)
  <2>1. ToSet(r.contents[id].refs) \subseteq S
    BY <1>1, <1>2, <1>3 DEF Whole
  <2>2. ASSUME NEW e \in ToSet(got), e.ref \in S PROVE ToSet(e.refs) \subseteq S
    <3>1. ToSet(e.refs) \subseteq Refs(got)
      BY <1>1 DEF Whole
    <3>. QED
      BY <1>3, <1>4, <2>2, <3>1
  <2>. QED
    BY <2>1, <2>2 DEF IsClosed
<1>6. \A ref \in Refs(got) : ContentAt(r, ref) \in ids
  BY <1>1, <1>5 DEF Whole
<1>7. ASSUME IsCyclic(ToSet(got)) PROVE FALSE
  <2>1. PICK C \in SUBSET {e.ref : e \in ToSet(got)} :
           C # {} /\ \A e \in ToSet(got) : e.ref \in C => ToSet(e.refs) \cap C # {}
    BY <1>7 DEF IsCyclic
  <2>. DEFINE some == {r.contents[ContentAt(r, ref)].doc : ref \in C}
  <2>2. some \in SUBSET Docs /\ some # {}
    <3>1. \A ref \in C : r.contents[ContentAt(r, ref)].doc \in Docs
      BY <1>1, <1>3, <1>6, <2>1
    <3>. QED
      BY <2>1, <3>1
  <2>3. PICK d \in some : ToSet(DocRefs[d]) \cap some = {}
    BY <2>2, DocumentsAreTrees
  <2>4. PICK ref \in C : d = r.contents[ContentAt(r, ref)].doc
    OBVIOUS
  <2>5. PICK e \in ToSet(got) : e.ref = ref
    BY <2>1
  <2>6. PICK next \in ToSet(e.refs) : next \in C
    BY <2>1, <2>5
  <2>7. ContentAt(r, ref) \in ids
    BY <1>1, <1>6, <2>1
  <2>8. e.refs = r.contents[ContentAt(r, ref)].refs
    BY <1>4, <2>5
  <2>9. r.contents[ContentAt(r, next)].doc \in ToSet(DocRefs[d])
    BY <1>3, <2>4, <2>6, <2>7, <2>8
  <2>10. r.contents[ContentAt(r, next)].doc \in some
    BY <2>6
  <2>. QED
    BY <2>3, <2>9, <2>10
<1>. QED
  BY <1>1, <1>7 DEF Whole

\* _collect_contents() ends with every content the schema refers to, directly
\* or not, each once.
LEMMA WholeAsRead == LookupInv /\ ReadInv => ParsedWhole
<1>. SUFFICES ASSUME LookupInv, ReadInv, NEW f \in Field, resolved[f] # None
              PROVE  LET contents == resolved[f].contents
                         refs == registry.contents[resolved[f].id].refs
                     IN /\ ToSet(refs) \subseteq Refs(contents)
                        /\ \A i, j \in DOMAIN contents :
                             contents[i].ref = contents[j].ref => i = j
                        /\ \A i \in DOMAIN contents :
                             /\ contents[i].doc = DocOf(contents[i].ref)
                             /\ ToSet(contents[i].refs) \subseteq Refs(contents)
  BY DEF ParsedWhole
<1>. DEFINE contents == resolved[f].contents
            id == resolved[f].id
<1>1. ReadTrue(registry, id, contents)
  BY DEF ReadInv
<1>. HIDE DEF contents, id
<1>3. /\ Whole(registry.contents[id].refs, contents) /\ contents \in Seq(Entry)
      /\ \A e \in ToSet(contents) : EntryTrue(registry, e)
  BY <1>1 DEF ReadTrue, EntriesTrue
<1>5. ASSUME NEW i \in DOMAIN contents
      PROVE  /\ contents[i].doc = DocOf(contents[i].ref)
             /\ ToSet(contents[i].refs) \subseteq Refs(contents)
  <2>1. contents[i] \in ToSet(contents) /\ contents[i] \in Entry
    BY <1>3 DEF ToSet
  <2>2. "id" \notin DOMAIN contents[i].ref
    BY <2>1 DEF Entry, Reference
  <2>3. contents[i].doc = DocOf(contents[i].ref)
    BY <1>3, <2>1, <2>2 DEF EntryTrue, ContentAt, DocOf
  <2>. QED
    BY <1>3, <2>1, <2>3 DEF Whole
<1>. QED
  BY <1>3, <1>5 DEF Whole, ReadOnce, contents, id

\* What is gathered for a local document is in order, and so is everything
\* else whose contents do not refer to each other in turns.
LEMMA GatheredToBeParsed == LookupInv /\ ReadInv => OnlyCyclesFail
<1>. SUFFICES ASSUME LookupInv, ReadInv, Running("collect"), CollectedAll, Top.ref = None
              PROVE  \/ InOrder(collected)
                     \/ setup.document[Head(pending)] = NoDoc /\ IsCyclic(ToSet(collected))
  BY DEF OnlyCyclesFail
<1>. DEFINE id == frames[2].version.id
<1>1. /\ ReadTrue(registry, id, collected) /\ registry \in RegistryType /\ IdsKnown(registry)
      /\ IsOfField(setup, registry, Head(pending), frames[2].version)
  BY SchemaIsRead
<1>2. InOrder(collected) \/ IsCyclic(ToSet(collected))
  BY <1>1 DEF ReadTrue, Whole
<1>3. setup.document[Head(pending)] # NoDoc => IsLocal(registry, id)
  BY <1>1 DEF IsOfField
<1>. HIDE DEF id
<1>. QED
  BY <1>1, <1>2, <1>3, LocalIsInOrder

\* A schema is registered and parsed with everything it refers to, and before
\* anything refers to it, though schemas share what they refer to or refer to
\* each other, and a read or a registration may fail between any two requests.
\* parse_schema() meets no name it does not know, unless someone else
\* published contents that refer to each other in turns.
THEOREM SchemasAreWhole == Spec => []SchemaIsWhole
  BY WholeAsRead, GatheredToBeParsed, LookupInvariant, ReadInvariant,
     ReferencesAreRegisteredFirst, PTL DEF SchemaIsWhole
=============================================================================
