----------------------------- MODULE AccessKeys -----------------------------
(***************************************************************************)
(* How a request under /admin proves who is calling: the assertion header   *)
(* is read, its claims are checked, the signing key is taken from the       *)
(* in-process cache of the tenant's key document (JWKS) or from a refresh   *)
(* that all the requests in need of one share, and the signature is         *)
(* verified against that key.                                               *)
(*                                                                          *)
(* The document is fetched from the identity provider over a network that   *)
(* may be slow, refuse, or answer garbage, and the tenant may publish or    *)
(* retire keys at any moment.  Between two awaits a request runs alone;     *)
(* every await here is one of the phases of the shared refresh.  The time   *)
(* a request uses throughout is the one its clock showed when it started.   *)
(***************************************************************************)
EXTENDS Integers, Sequences, FiniteSets, SequencesExt

CONSTANTS
    AccessRequests,  \* requests being served
    Keys,            \* key identifiers (kid) the tenant may publish
    Credentials,     \* what the assertion header of a request may hold
    Audience,        \* the configured audience
    Issuer,          \* the configured issuer
    Humans,          \* canonical principal identifiers (UUIDs)
    ServiceTokens,   \* declared service tokens: client id -> principal
    CacheLifetime,   \* CACHE_LIFETIME_MS, in ticks
    FailureCooldown, \* FAILURE_COOLDOWN_MS, in ticks
    RequestTimeout,  \* REQUEST_TIMEOUT_MS, in ticks
    Tolerance,       \* CLOCK_TOLERANCE_SECONDS, in ticks
    MaxKeys,         \* MAX_KEYS of one document
    MaxTime,         \* bound on the clock
    MaxRotations,    \* bound on the changes of the tenant's keys
    Nothing          \* an absent claim, an empty cache, no refresh, no answer

VARIABLES
    now,       \* the clock
    tenant,    \* the keys the tenant publishes
    jwks,      \* the fields of the provider of keys
    flight,    \* #inFlightRefresh: the shared refresh and how far it is
    reqs,      \* the requests: what they hold and what they were answered
    retiredAt, \* history: when a key was last published
    history    \* history: the last document loaded, the last failed refresh,
               \* the number of changes of the tenant's keys

accessVars == <<now, tenant, jwks, flight, reqs, retiredAt, history>>

-----------------------------------------------------------------------------
(* The assertion and its claims.                                            *)

(* Exactly one header whose value has three base64url segments and no more  *)
(* than 16 KiB.                                                             *)
ReadAssertionHeader(c) ==
    IF c.headers = 0 THEN "absent"
    ELSE IF c.headers = 1 /\ c.compact THEN "present" ELSE "invalid"

(* Every segment decodes canonically, within its bound; header and payload  *)
(* are JSON objects.                                                        *)
SegmentsDecode(a) == a.segments = "canonical"

(* RS256, at most the type JWT, a bounded kid, no embedded or remote key.   *)
ValidateProtectedHeader(a) == a.header = "strict"

AudienceContains(a) == Audience \in a.aud

(* The first defect of the claims, in the order the code looks for them.    *)
ClaimsDefect(a) ==
    IF a.iss = Nothing \/ a.aud = {} THEN "claims_invalid"
    ELSE IF ~AudienceContains(a)  THEN "audience_mismatch"
    ELSE IF a.sub = Nothing \/ a.type # "app" \/ a.exp = Nothing \/ a.iat = Nothing
    THEN "claims_invalid" ELSE Nothing

(* The times of the claims fit together and fit the clock.                  *)
ValidateTemporalClaims(a, t) ==
    /\ a.iat <= a.exp
    /\ a.nbf # Nothing => a.nbf <= a.exp /\ a.nbf <= t + Tolerance
    /\ t <= a.exp + Tolerance
    /\ a.iat <= t + Tolerance

ExtractVerificationReason(kind) ==
    IF kind \in {"audience_mismatch", "signature_invalid", "key_unavailable",
                 "issuer_mismatch"}
    THEN kind ELSE "claims_invalid"

(* Why a header value is refused before any key is looked up.               *)
EarlyRefusal(c, t) ==
    IF ReadAssertionHeader(c) = "absent" THEN "credentials_absent"
    ELSE IF ReadAssertionHeader(c) = "invalid" THEN "credentials_invalid"
    ELSE IF ~SegmentsDecode(c) \/ ~ValidateProtectedHeader(c)
    THEN ExtractVerificationReason("unknown")
    ELSE IF ClaimsDefect(c) # Nothing
    THEN ExtractVerificationReason(ClaimsDefect(c))
    ELSE IF ~ValidateTemporalClaims(c, t)
    THEN ExtractVerificationReason("unknown") ELSE Nothing

(* The claim the library stumbles on: the signature first, then the issuer  *)
(* and the audience, then the times (its expiry is the stricter one).       *)
JwtVerifyError(a, key, t) ==
    IF a.signer # key THEN "signature"
    ELSE IF a.iss # Issuer THEN "iss"
    ELSE IF ~AudienceContains(a) THEN "aud"
    ELSE IF a.nbf # Nothing /\ a.nbf > t + Tolerance THEN "nbf"
    ELSE IF a.exp <= t - Tolerance THEN "exp" ELSE Nothing

\* Variant: the library's word for the defect is passed on as it is.
RawVerifyError(error) == error

MapJwtVerifyErrorToReason(error) ==
    CASE error = "signature" -> "signature_invalid"
      [] error = "iss"       -> "issuer_mismatch"
      [] OTHER               -> "claims_invalid"

NobodyRecognised == [principal |-> Nothing, kind |-> Nothing]

\* Variant: any assertion that is no operator's may act as its service token.
CommonNameSuffices(a) ==
    IF a.sub \in Humans THEN [principal |-> a.sub, kind |-> "human"]
    ELSE IF a.commonName \in DOMAIN ServiceTokens
    THEN [principal |-> ServiceTokens[a.commonName], kind |-> "service"]
    ELSE NobodyRecognised

(* Who a verified assertion is: an operator by sub, or, with an empty sub,  *)
(* the principal the deployment declares for its service token.             *)
ResolveIdentity(a) ==
    IF a.sub \in Humans THEN [principal |-> a.sub, kind |-> "human"]
    ELSE IF a.sub = "" /\ a.commonName \in DOMAIN ServiceTokens
    THEN [principal |-> ServiceTokens[a.commonName], kind |-> "service"]
    ELSE NobodyRecognised

Unauthenticated(reason) == [outcome |-> "unauthenticated", detail |-> reason]
Unavailable ==
    [outcome |-> "unavailable", detail |-> "identity_provider_unavailable"]

(* The part of verify that follows the key.                                 *)
Verified(a, key, t) ==
    LET error == JwtVerifyError(a, key, t) IN
    IF error # Nothing THEN Unauthenticated(MapJwtVerifyErrorToReason(error))
    ELSE IF ResolveIdentity(a) = NobodyRecognised
    THEN Unauthenticated("claims_invalid")
    ELSE [outcome |-> "authenticated", identity |-> ResolveIdentity(a)]

-----------------------------------------------------------------------------
(* The document of keys.                                                    *)

(* An RSA key for RS256 signatures, with a bounded kid and no other field.  *)
ValidateRsaJwk(k) == k.kid \in Keys /\ k.usable

(* The keys of a document, or Nothing for one that is refused: too large,   *)
(* not UTF-8 JSON of the expected fields, empty or too long, or with a key  *)
(* that is unusable or listed twice.                                        *)
ParseJwks(doc) ==
    LET kids == {doc.keys[i].kid : i \in DOMAIN doc.keys}
    IN  IF /\ doc.bounded /\ doc.fields = "allowed"
           /\ Len(doc.keys) \in 1 .. MaxKeys
           /\ \A i \in DOMAIN doc.keys : ValidateRsaJwk(doc.keys[i])
           /\ Cardinality(kids) = Len(doc.keys)
        THEN kids ELSE Nothing

(* What the response to a request for the keys ks may carry: the document   *)
(* itself, or something a proxy or a misbehaving origin put in its place.   *)
Documents(ks) ==
    LET listed == [i \in 1 .. Cardinality(ks) |->
                      [kid |-> SetToSeq(ks)[i], usable |-> TRUE]]
        damaged == [i \in 1 .. Cardinality(ks) |->
                       [kid |-> SetToSeq(ks)[i], usable |-> i # 1]]
    IN  [bounded : BOOLEAN, fields : {"allowed", "other"},
         keys : {listed, damaged, Append(listed, listed[1]), <<>>}]

-----------------------------------------------------------------------------
(* The provider of keys.                                                    *)

(* The fields of the provider before its first use.                         *)
InitialJwks ==
    [cachedKeys |-> Nothing, cacheExpiresAt |-> 0, failedUntil |-> 0,
     lastSuccessfulRefreshAt |-> 0]

\* Variant: a key once loaded is used for as long as the process lives.
CachedForever(j, kid, t) == j.cachedKeys # Nothing /\ kid \in j.cachedKeys

(* #getCachedKey: the key is cached and the cache has not expired.          *)
GetCachedKey(j, kid, t) ==
    /\ j.cachedKeys # Nothing
    /\ t < j.cacheExpiresAt
    /\ kid \in j.cachedKeys

CoolingDown(j, t) == t < j.failedUntil

\* Variant: a failed refresh drops the keys that were still good.
FailureDropsCache(j, t, keys) ==
    IF keys # Nothing
    THEN [cachedKeys |-> keys, cacheExpiresAt |-> t + CacheLifetime,
          failedUntil |-> 0, lastSuccessfulRefreshAt |-> t]
    ELSE [j EXCEPT !.cachedKeys = Nothing, !.failedUntil = t + FailureCooldown]

(* The end of #loadKeys, for a refresh that started at t: both the lifetime *)
(* of the keys and the cooldown count from there.                           *)
LoadKeys(j, t, keys) ==
    IF keys # Nothing
    THEN [cachedKeys |-> keys, cacheExpiresAt |-> t + CacheLifetime,
          failedUntil |-> 0, lastSuccessfulRefreshAt |-> t]
    ELSE [j EXCEPT !.failedUntil = t + FailureCooldown]

(* What an operator is shown.                                               *)
ReadReadinessSnapshot(j, outcome) ==
    [outcome |-> outcome,
     jwksReachable |-> outcome = "ready",
     cachedKeyCount |-> IF j.cachedKeys = Nothing THEN 0
                        ELSE Cardinality(j.cachedKeys),
     cacheExpiresAt |-> IF j.cachedKeys = Nothing THEN Nothing
                        ELSE j.cacheExpiresAt]

(* resolveKey and readReadiness after the refresh they awaited.             *)
Resumed(q, j, loaded) ==
    CASE q.kind = "readiness" ->
             ReadReadinessSnapshot(j, IF loaded THEN "ready" ELSE "unavailable")
      [] q.kind = "verify" /\ ~loaded -> Unavailable
      [] q.kind = "verify" /\ loaded /\ GetCachedKey(j, q.credential.kid, q.time) ->
             Verified(q.credential, q.credential.kid, q.time)
      [] OTHER -> Unauthenticated("key_unavailable")

\* Variant: only the request that started the refresh hears of its end.
OnlyStarterResumes(j, loaded) ==
    [r \in AccessRequests |->
        IF reqs[r].pc = "waiting" /\ flight.by = r
        THEN [reqs[r] EXCEPT !.pc = "answered",
                             !.answer = Resumed(reqs[r], j, loaded)]
        ELSE reqs[r]]

(* Every request that awaits the shared refresh goes on when it settles.    *)
ResumeAll(j, loaded) ==
    [r \in AccessRequests |->
        IF reqs[r].pc = "waiting"
        THEN [reqs[r] EXCEPT !.pc = "answered",
                             !.answer = Resumed(reqs[r], j, loaded)]
        ELSE reqs[r]]

(* The refresh settles with keys, or fails.                                 *)
Settle(keys) ==
    /\ jwks' = LoadKeys(jwks, flight.time, keys)
    /\ reqs' = ResumeAll(jwks', keys # Nothing)
    /\ flight' = Nothing
    /\ history' = IF keys # Nothing
                  THEN [history EXCEPT !.loaded = [keys |-> keys, at |-> flight.time]]
                  ELSE [history EXCEPT !.failed = flight.time]
    /\ UNCHANGED <<now, tenant, retiredAt>>

(* #refresh: join the refresh under way, or start one.                      *)
Refresh(r) ==
    IF flight # Nothing THEN UNCHANGED flight
    ELSE flight' = [time |-> now, by |-> r, phase |-> "headers", keys |-> {}]

-----------------------------------------------------------------------------

AccessInit ==
    /\ now = 0
    /\ tenant \in (SUBSET Keys) \ {{}}
    /\ jwks = InitialJwks
    /\ flight = Nothing
    /\ reqs = [r \in AccessRequests |->
                  [pc |-> "idle", kind |-> Nothing, credential |-> Nothing,
                   time |-> 0, answer |-> Nothing]]
    /\ retiredAt = [k \in Keys |-> 0]
    /\ history = [loaded |-> Nothing, failed |-> Nothing, rotations |-> 0]

(* Request r is answered without waiting, or waits for the refresh.         *)
AnswerAtOnce(r, kind, c, a) ==
    /\ reqs' = [reqs EXCEPT ![r] = [pc |-> "answered", kind |-> kind,
                                    credential |-> c, time |-> now, answer |-> a]]
    /\ UNCHANGED <<now, tenant, jwks, flight, retiredAt, history>>

AwaitRefresh(r, kind, c) ==
    /\ Refresh(r)
    /\ reqs' = [reqs EXCEPT ![r] = [pc |-> "waiting", kind |-> kind,
                                    credential |-> c, time |-> now,
                                    answer |-> Nothing]]
    /\ UNCHANGED <<now, tenant, jwks, retiredAt, history>>

(* authenticate and verify, up to the answer or to the await of a refresh.  *)
VerifyAssertion(r, c) ==
    /\ reqs[r].pc = "idle"
    /\ IF EarlyRefusal(c, now) # Nothing
       THEN AnswerAtOnce(r, "verify", c, Unauthenticated(EarlyRefusal(c, now)))
       ELSE IF GetCachedKey(jwks, c.kid, now)
       THEN AnswerAtOnce(r, "verify", c, Verified(c, c.kid, now))
       ELSE IF CoolingDown(jwks, now)
       THEN AnswerAtOnce(r, "verify", c, Unavailable)
       ELSE AwaitRefresh(r, "verify", c)

\* Variant: a readiness check retries at once.
EagerReadReadiness(r) ==
    /\ reqs[r].pc = "idle"
    /\ IF jwks.cachedKeys # Nothing /\ now < jwks.cacheExpiresAt
       THEN AnswerAtOnce(r, "readiness", Nothing,
                   ReadReadinessSnapshot(jwks, "ready_with_cached_keys"))
       ELSE AwaitRefresh(r, "readiness", Nothing)

(* readIdentityProviderReadiness of the security status route.              *)
ReadReadiness(r) ==
    /\ reqs[r].pc = "idle"
    /\ IF jwks.cachedKeys # Nothing /\ now < jwks.cacheExpiresAt
       THEN AnswerAtOnce(r, "readiness", Nothing,
                   ReadReadinessSnapshot(jwks, "ready_with_cached_keys"))
       ELSE IF CoolingDown(jwks, now)
       THEN AnswerAtOnce(r, "readiness", Nothing, ReadReadinessSnapshot(jwks, "unavailable"))
       ELSE AwaitRefresh(r, "readiness", Nothing)

(* #requestKeys: the headers of a 200 arrive; the timer is disarmed.        *)
HeadersArrive ==
    /\ flight # Nothing /\ flight.phase = "headers"
    /\ flight' = [flight EXCEPT !.phase = "body", !.keys = tenant]
    /\ UNCHANGED <<now, tenant, jwks, reqs, retiredAt, history>>

(* A network error, another status, or the five-second abort.               *)
RequestFails ==
    /\ flight # Nothing /\ flight.phase = "headers"
    /\ Settle(Nothing)

(* readBoundedResponse and parseJwks: the body ends.                        *)
BodyEnds ==
    /\ flight # Nothing /\ flight.phase = "body"
    /\ \E doc \in Documents(flight.keys) : Settle(ParseJwks(doc))

(* Reading the body fails: the peer, or the client's own idle limit.        *)
BodyFails ==
    /\ flight # Nothing /\ flight.phase = "body"
    /\ Settle(Nothing)

(* The tenant publishes and retires keys.                                   *)
Rotate ==
    /\ history.rotations < MaxRotations
    /\ history' = [history EXCEPT !.rotations = @ + 1]
    /\ tenant' \in (SUBSET Keys) \ {{}, tenant}
    /\ retiredAt' = [k \in Keys |-> IF k \in tenant THEN now ELSE retiredAt[k]]
    /\ UNCHANGED <<now, jwks, flight, reqs>>

(* Time passes, but not past the abort of a request without headers.        *)
Tick ==
    /\ now < MaxTime
    /\ flight # Nothing /\ flight.phase = "headers" =>
           now < flight.time + RequestTimeout
    /\ now' = now + 1
    /\ UNCHANGED <<tenant, jwks, flight, reqs, retiredAt, history>>

AccessNext ==
    \/ \E r \in AccessRequests : \/ \E c \in Credentials : VerifyAssertion(r, c)
                           \/ ReadReadiness(r)
    \/ HeadersArrive \/ RequestFails \/ BodyEnds \/ BodyFails
    \/ Rotate \/ Tick

HeadersSettle == HeadersArrive \/ RequestFails
BodySettles == BodyEnds \/ BodyFails

(* The abort timer ends the wait for headers; a body ends because it is     *)
(* bounded to 64 KiB and the HTTP client gives up an idle one.              *)
RefreshFairness ==
    /\ WF_accessVars(HeadersSettle)
    /\ WF_accessVars(BodySettles)

AccessSpec == AccessInit /\ [][AccessNext]_accessVars /\ RefreshFairness

-----------------------------------------------------------------------------

Reasons == {"credentials_absent", "credentials_invalid", "signature_invalid",
            "issuer_mismatch", "audience_mismatch", "claims_invalid", "key_unavailable"}

(* What a request may be answered.                                          *)
ReadinessAnswers ==
    [outcome : {"ready", "ready_with_cached_keys", "unavailable"},
     jwksReachable : BOOLEAN, cachedKeyCount : 0 .. MaxKeys,
     cacheExpiresAt : Nat \cup {Nothing}]

VerifyAnswers ==
    [outcome : {"authenticated"},
     identity : [principal : Humans \cup Range(ServiceTokens), kind : {"human", "service"}]]
    \cup [outcome : {"unauthenticated"}, detail : Reasons] \cup {Unavailable}

Answers(kind) == IF kind = "readiness" THEN ReadinessAnswers ELSE VerifyAnswers

(* The times are ordered like the code's, the times of a claim are numbers, *)
(* and Nothing is no word or answer of the verifier.                        *)
AccessKeysAssumption ==
    /\ {CacheLifetime, FailureCooldown, RequestTimeout, Tolerance,
        MaxKeys, MaxTime, MaxRotations} \subseteq Nat
    /\ 0 < RequestTimeout /\ RequestTimeout < FailureCooldown
    /\ FailureCooldown < CacheLifetime
    /\ IsFiniteSet(Keys)
    /\ \A c \in Credentials : {c.iat, c.exp} \subseteq Int \cup {Nothing}
    /\ Nothing \notin Reasons \cup {"signature", "iss", "aud", "nbf", "exp",
                                 "verify", "readiness"}
    /\ Nothing \notin ReadinessAnswers \cup VerifyAnswers

(* The fields hold what the provider, the verifier and the readiness report *)
(* may put into them; an answer is given exactly once the request is done.  *)
AccessTypeOK ==
    LET Times == 0 .. (MaxTime + CacheLifetime) IN
    /\ now \in 0 .. MaxTime
    /\ tenant \in (SUBSET Keys) \ {{}}
    /\ jwks \in [cachedKeys : ((SUBSET Keys) \ {{}}) \cup {Nothing}, cacheExpiresAt : Times,
                 failedUntil : Times, lastSuccessfulRefreshAt : Times]
    /\ flight \in [time : 0 .. MaxTime, by : AccessRequests, phase : {"headers", "body"},
                   keys : SUBSET Keys] \cup {Nothing}
    /\ reqs \in [AccessRequests -> [pc : {"idle", "waiting", "answered"},
                              kind : {"verify", "readiness", Nothing},
                              credential : Credentials \cup {Nothing}, time : 0 .. MaxTime,
                              answer : ReadinessAnswers \cup VerifyAnswers \cup {Nothing}]]
    /\ \A r \in AccessRequests :
           /\ reqs[r].answer = Nothing <=> reqs[r].pc # "answered"
           /\ reqs[r].answer # Nothing => reqs[r].answer \in Answers(reqs[r].kind)
    /\ retiredAt \in [Keys -> 0 .. MaxTime]
    /\ history \in [loaded : [keys : SUBSET Keys, at : 0 .. MaxTime] \cup {Nothing},
                    failed : (0 .. MaxTime) \cup {Nothing}, rotations : 0 .. MaxRotations]

(* A key the tenant has retired stops opening the API no later than one     *)
(* cache lifetime after the tenant last published it, whatever refreshes    *)
(* failed, were joined or were slow meanwhile                               *)
(* (cloudflare-access-jwks-provider.ts, #getCachedKey and #loadKeys).       *)
RetiredKeysExpire ==
    \A r \in AccessRequests :
        LET q == reqs[r] IN
        (q.pc = "answered" /\ q.answer.outcome = "authenticated") =>
            LET k == q.credential.signer
                published == IF k \in tenant THEN now ELSE retiredAt[k]
            IN  q.time < published + CacheLifetime

(* Whoever is let in presented an assertion of this tenant and audience,    *)
(* valid within the clock tolerance at the time it arrived, and is either   *)
(* the operator named by sub or, for an empty sub only, the principal       *)
(* declared for the service token (cloudflare-access-jwt-verifier.ts,       *)
(* verify and resolveIdentity).                                             *)
AuthenticatedIsGenuine ==
    \A r \in AccessRequests :
        LET q == reqs[r] a == q.credential who == q.answer.identity IN
        (q.pc = "answered" /\ q.answer.outcome = "authenticated") =>
            /\ a.headers = 1 /\ a.iss = Issuer /\ Audience \in a.aud
            /\ a.signer = a.kid
            /\ q.time < a.exp + Tolerance /\ a.iat <= q.time + Tolerance
            /\ \/ who.kind = "human" /\ who.principal = a.sub
               \/ /\ who.kind = "service" /\ a.sub = ""
                  /\ who.principal = ServiceTokens[a.commonName]

(* While the keys of the last good document are younger than the cache      *)
(* lifetime, a request signed by one of them is decided at once and never   *)
(* told that the identity provider is unavailable, however many refreshes   *)
(* failed since (resolveKey looks at the cache before the cooldown, and     *)
(* #loadKeys keeps the keys on failure).                                    *)
DecidedFromCache ==
    \A r \in AccessRequests :
       (/\ reqs[r].pc = "idle" /\ reqs'[r].kind = "verify"
        /\ EarlyRefusal(reqs'[r].credential, now) = Nothing
        /\ history.loaded # Nothing
        /\ reqs'[r].credential.kid \in history.loaded.keys
        /\ now < history.loaded.at + CacheLifetime) =>
          /\ reqs'[r].pc = "answered"
          /\ reqs'[r].answer.outcome # "unavailable"

(* After a refresh that failed, no request of either kind starts another    *)
(* one before the cooldown, counted from the start of the failed one, is    *)
(* over (resolveKey, readReadiness and #loadKeys).                          *)
SpacedAfterFailure ==
    (flight = Nothing /\ flight' # Nothing /\ history.failed # Nothing) =>
        now >= history.failed + FailureCooldown

(* The provider of keys is asked only when it has to be and may be: an      *)
(* outage locks nobody out early, and is not made worse by retries.         *)
RationedStep == DecidedFromCache /\ SpacedAfterFailure
RefreshesAreRationed == [][RationedStep]_accessVars

(* Whoever is let in presented a genuine assertion of a key the tenant      *)
(* published less than a cache lifetime before.                             *)
OnlyGenuineIsLetIn == AccessTypeOK /\ AuthenticatedIsGenuine /\ RetiredKeysExpire

(* Every request that waits for keys is answered, the ones that joined a    *)
(* refresh somebody else started included (#refresh).                       *)
WaitingRequestsAreAnswered ==
    \A r \in AccessRequests : reqs[r].pc = "waiting" ~> reqs[r].pc = "answered"

(* docs/operations/atlas-manager-identity-readiness.md: a check of the keys *)
(* is bounded by the five-second request timeout.                           *)
RefreshIsBounded ==
    flight # Nothing => now <= flight.time + RequestTimeout

-----------------------------------------------------------------------------
(* The inductive invariant of the theorems in AdministrationProofs.         *)

(* A key that is cached, or on its way, was published when the refresh that *)
(* brought it began or later.                                               *)
KeyInv ==
    /\ \A k \in Keys : retiredAt[k] <= now
    /\ jwks.cachedKeys # Nothing =>
           /\ Cardinality(jwks.cachedKeys) <= MaxKeys
           /\ jwks.cacheExpiresAt <= now + CacheLifetime
           /\ \A k \in jwks.cachedKeys :
                  k \in tenant \/ jwks.cacheExpiresAt <= retiredAt[k] + CacheLifetime
    /\ flight # Nothing => flight.time <= now
    /\ flight # Nothing /\ flight.phase = "body" =>
           /\ flight.keys # {}
           /\ \A k \in flight.keys : k \in tenant \/ flight.time <= retiredAt[k]

(* Whoever waits for keys had nothing else against him when he asked, and   *)
(* whoever is let in was signed for by a key.                               *)
AccessRequestInv ==
    \A r \in AccessRequests :
        /\ reqs[r].time <= now
        /\ reqs[r].pc = "idle" => reqs[r].kind = Nothing
        /\ reqs[r].pc = "answered" /\ reqs[r].answer.outcome = "authenticated" =>
               reqs[r].credential.signer \in Keys
        /\ reqs[r].pc = "waiting" =>
               \/ reqs[r].kind = "readiness"
               \/ /\ reqs[r].kind = "verify" /\ reqs[r].credential \in Credentials
                  /\ EarlyRefusal(reqs[r].credential, reqs[r].time) = Nothing

(* The cache is the last good document, and the cooldown of the last failed *)
(* refresh is known, or over.                                               *)
RefreshInv ==
    /\ history.loaded # Nothing =>
           /\ jwks.cachedKeys = history.loaded.keys /\ jwks.cachedKeys # Nothing
           /\ jwks.cacheExpiresAt = history.loaded.at + CacheLifetime
    /\ history.failed # Nothing =>
           /\ \/ jwks.failedUntil = history.failed + FailureCooldown
              \/ now >= history.failed + FailureCooldown
           /\ flight # Nothing => flight.time >= history.failed + FailureCooldown

AccessInv == OnlyGenuineIsLetIn /\ KeyInv /\ AccessRequestInv /\ RefreshInv
=============================================================================
