------------------------ MODULE AdministrationProofs ------------------------
(***************************************************************************)
(* Theorems about the two components that decide whether a request may act. *)
(*                                                                         *)
(* AccessKeys, for every set of requests and of keys, every credential,     *)
(* lifetime and cooldown that satisfies AccessKeysAssumption: whoever is    *)
(* let in presented a genuine assertion signed by a key the tenant          *)
(* published less than a cache lifetime before, and the provider of keys is *)
(* asked no more often than it must be.                                     *)
(*                                                                         *)
(* AdministrativeRequests, for every set of requests, every choice of       *)
(* operations of the catalogue, every assignment of roles and every limit   *)
(* that satisfies RequestsAssumption: an effect is authorized and announced *)
(* first, permits balance, and an answer tells the truth.                   *)
(***************************************************************************)
EXTENDS AccessKeys, AdministrativeRequests, FiniteSetTheorems, SequenceTheorems, TLAPS

-----------------------------------------------------------------------------
(* The inductive invariant, split into what it says of one request and what *)
(* it says of the provider.                                                 *)

Published(k, t, tn, ra) == IF k \in tn THEN t ELSE ra[k]

Genuine(a, t, who) ==
    /\ a.headers = 1 /\ a.iss = Issuer /\ Audience \in a.aud
    /\ a.signer = a.kid
    /\ t < a.exp + Tolerance /\ a.iat <= t + Tolerance
    /\ \/ who.kind = "human" /\ who.principal = a.sub
       \/ /\ who.kind = "service" /\ a.sub = ""
          /\ who.principal = ServiceTokens[a.commonName]

RequestRecords ==
    [pc : {"idle", "waiting", "answered"}, kind : {"verify", "readiness", Nothing},
     credential : Credentials \cup {Nothing}, time : 0 .. MaxTime,
     answer : ReadinessAnswers \cup VerifyAnswers \cup {Nothing}]

(* What lets the credential c in at time t, with the tenant's keys tn.      *)
LetIn(c, time, who, t, tn, ra) ==
    /\ Genuine(c, time, who)
    /\ c.signer \in Keys
    /\ time < Published(c.signer, t, tn, ra) + CacheLifetime

Pending(q) ==
    \/ q.kind = "readiness"
    \/ /\ q.kind = "verify" /\ q.credential \in Credentials
       /\ EarlyRefusal(q.credential, q.time) = Nothing

RequestOK(q, t, tn, ra) ==
    /\ q \in RequestRecords
    /\ q.answer = Nothing <=> q.pc # "answered"
    /\ q.answer # Nothing => q.answer \in Answers(q.kind)
    /\ q.time <= t
    /\ q.pc = "idle" => q.kind = Nothing
    /\ q.pc = "waiting" => Pending(q)
    /\ (q.pc = "answered" /\ q.answer.outcome = "authenticated") =>
           LetIn(q.credential, q.time, q.answer.identity, t, tn, ra)

Times == 0 .. (MaxTime + CacheLifetime)
JwksRecords ==
    [cachedKeys : ((SUBSET Keys) \ {{}}) \cup {Nothing}, cacheExpiresAt : Times,
     failedUntil : Times, lastSuccessfulRefreshAt : Times]

ProviderInv ==
    /\ now \in 0 .. MaxTime
    /\ tenant \in (SUBSET Keys) \ {{}}
    /\ jwks \in JwksRecords
    /\ flight \in [time : 0 .. MaxTime, by : AccessRequests, phase : {"headers", "body"},
                   keys : SUBSET Keys] \cup {Nothing}
    /\ retiredAt \in [Keys -> 0 .. MaxTime]
    /\ history \in [loaded : [keys : SUBSET Keys, at : 0 .. MaxTime] \cup {Nothing},
                    failed : (0 .. MaxTime) \cup {Nothing}, rotations : 0 .. MaxRotations]
    /\ KeyInv
    /\ RefreshInv

RequestsInv ==
    /\ reqs \in [AccessRequests -> RequestRecords]
    /\ \A r \in AccessRequests : RequestOK(reqs[r], now, tenant, retiredAt)

LEMMA InvariantSplits == AccessInv => ProviderInv /\ RequestsInv
<1>1. ASSUME AccessInv PROVE ProviderInv
  BY <1>1 DEF AccessInv, OnlyGenuineIsLetIn, AccessTypeOK, ProviderInv, JwksRecords, Times
<1>2. ASSUME AccessInv, NEW r \in AccessRequests
      PROVE RequestOK(reqs[r], now, tenant, retiredAt)
  <2>1. reqs[r] \in RequestRecords
    BY <1>2 DEF AccessInv, OnlyGenuineIsLetIn, AccessTypeOK, RequestRecords
  <2>2. (reqs[r].answer = Nothing <=> reqs[r].pc # "answered")
        /\ (reqs[r].answer # Nothing => reqs[r].answer \in Answers(reqs[r].kind))
    BY <1>2 DEF AccessInv, OnlyGenuineIsLetIn, AccessTypeOK
  <2>3. /\ reqs[r].time <= now
        /\ reqs[r].pc = "idle" => reqs[r].kind = Nothing
        /\ reqs[r].pc = "waiting" => Pending(reqs[r])
    BY <1>2 DEF AccessInv, AccessRequestInv, Pending
  <2>4. ASSUME reqs[r].pc = "answered", reqs[r].answer.outcome = "authenticated"
        PROVE LetIn(reqs[r].credential, reqs[r].time, reqs[r].answer.identity,
                    now, tenant, retiredAt)
    <3>1. reqs[r].credential.signer \in Keys
      BY <1>2, <2>4 DEF AccessInv, AccessRequestInv
    <3>2. Genuine(reqs[r].credential, reqs[r].time, reqs[r].answer.identity)
      BY <1>2, <2>4 DEF AccessInv, OnlyGenuineIsLetIn, AuthenticatedIsGenuine, Genuine
    <3>3. reqs[r].time < Published(reqs[r].credential.signer, now, tenant, retiredAt)
                         + CacheLifetime
      BY <1>2, <2>4 DEF AccessInv, OnlyGenuineIsLetIn, RetiredKeysExpire, Published
    <3> QED BY <3>1, <3>2, <3>3 DEF LetIn
  <2> QED BY <2>1, <2>2, <2>3, <2>4 DEF RequestOK
<1>3. AccessInv => reqs \in [AccessRequests -> RequestRecords]
  BY DEF AccessInv, OnlyGenuineIsLetIn, AccessTypeOK, RequestRecords
<1> QED BY <1>1, <1>2, <1>3 DEF RequestsInv

LEMMA InvariantJoins == ProviderInv /\ RequestsInv => AccessInv
<1> SUFFICES ASSUME ProviderInv, RequestsInv PROVE AccessInv
  OBVIOUS
<1>1. ASSUME NEW r \in AccessRequests
      PROVE RequestOK(reqs[r], now, tenant, retiredAt)
  BY DEF RequestsInv
<1>2. AccessTypeOK
  BY <1>1 DEF ProviderInv, RequestsInv, RequestOK, AccessTypeOK, RequestRecords,
              JwksRecords, Times
<1>3. AuthenticatedIsGenuine
  BY <1>1 DEF RequestOK, LetIn, Genuine, AuthenticatedIsGenuine
<1>4. RetiredKeysExpire
  BY <1>1 DEF RequestOK, LetIn, Published, RetiredKeysExpire
<1>5. AccessRequestInv
  BY <1>1 DEF RequestOK, LetIn, Pending, AccessRequestInv
<1> QED BY <1>2, <1>3, <1>4, <1>5 DEF ProviderInv, OnlyGenuineIsLetIn, AccessInv

-----------------------------------------------------------------------------
(* The verifier: an assertion that passes its checks is genuine, and the    *)
(* verifier says nothing but its own words.                                 *)

LEMMA RefusalIsTyped ==
  ASSUME NEW reason \in Reasons
  PROVE  /\ Unauthenticated(reason) \in VerifyAnswers
         /\ Unauthenticated(reason).outcome = "unauthenticated"
BY DEF Unauthenticated, VerifyAnswers

LEMMA UnavailableIsTyped ==
  Unavailable \in VerifyAnswers /\ Unavailable.outcome = "unavailable"
BY DEF Unavailable, VerifyAnswers

(* Every refusal before the key is one of the reasons of the verifier.      *)
LEMMA EarlyRefusalIsReason ==
  ASSUME NEW c, NEW t
  PROVE  EarlyRefusal(c, t) \in Reasons \cup {Nothing}
BY DEF EarlyRefusal, ExtractVerificationReason, Reasons

(* What the checks before the key leave of the claims.                      *)
LEMMA AcceptedClaims ==
  ASSUME AccessKeysAssumption, NEW c \in Credentials, NEW t,
         EarlyRefusal(c, t) = Nothing
  PROVE  /\ c.headers = 1 /\ Audience \in c.aud
         /\ c.exp \in Int /\ c.iat \in Int
         /\ c.iat <= t + Tolerance
<1>1. /\ Nothing \notin Reasons
      /\ {c.iat, c.exp} \subseteq Int \cup {Nothing}
  BY DEF AccessKeysAssumption
<1>2. ASSUME NEW word PROVE ExtractVerificationReason(word) \in Reasons
  BY DEF ExtractVerificationReason, Reasons
<1>3. {"credentials_absent", "credentials_invalid", "claims_invalid",
       "audience_mismatch"} \subseteq Reasons
  BY DEF Reasons
<1>4. ReadAssertionHeader(c) \notin {"absent", "invalid"}
  BY <1>1, <1>3 DEF EarlyRefusal
<1>5. SegmentsDecode(c) /\ ValidateProtectedHeader(c)
  BY <1>1, <1>2, <1>4 DEF EarlyRefusal
<1>6. ClaimsDefect(c) = Nothing
  BY <1>1, <1>2, <1>4, <1>5 DEF EarlyRefusal
<1>7. ValidateTemporalClaims(c, t)
  BY <1>1, <1>2, <1>4, <1>5, <1>6 DEF EarlyRefusal
<1>8. c.headers = 1
  BY <1>4 DEF ReadAssertionHeader
<1>9. Audience \in c.aud /\ c.exp # Nothing /\ c.iat # Nothing
  BY <1>1, <1>3, <1>6 DEF ClaimsDefect, AudienceContains
<1> QED BY <1>1, <1>7, <1>8, <1>9 DEF ValidateTemporalClaims

(* The identity is the operator named by sub, or the principal declared for *)
(* the service token.                                                       *)
LEMMA IdentityIsDeclared ==
  ASSUME NEW a, ResolveIdentity(a) # NobodyRecognised
  PROVE  LET who == ResolveIdentity(a) IN
         /\ who \in [principal : Humans \cup Range(ServiceTokens),
                     kind : {"human", "service"}]
         /\ \/ who.kind = "human" /\ who.principal = a.sub
            \/ /\ who.kind = "service" /\ a.sub = ""
               /\ who.principal = ServiceTokens[a.commonName]
<1>1. CASE a.sub \in Humans
  BY <1>1 DEF ResolveIdentity
<1>2. CASE a.sub \notin Humans /\ a.sub = "" /\ a.commonName \in DOMAIN ServiceTokens
  <2>1. ServiceTokens[a.commonName] \in Range(ServiceTokens)
    BY <1>2 DEF Range
  <2> QED BY <1>2, <2>1 DEF ResolveIdentity
<1> QED BY <1>1, <1>2 DEF ResolveIdentity

LEMMA VerifiedIsGenuine ==
  ASSUME AccessKeysAssumption, NEW c \in Credentials, NEW t \in Nat,
         EarlyRefusal(c, t) = Nothing
  PROVE  /\ Verified(c, c.kid, t) \in VerifyAnswers
         /\ Verified(c, c.kid, t).outcome # "unavailable"
         /\ Verified(c, c.kid, t).outcome = "authenticated" =>
                Genuine(c, t, Verified(c, c.kid, t).identity)
<1> DEFINE error == JwtVerifyError(c, c.kid, t)
           who == ResolveIdentity(c)
<1>1. MapJwtVerifyErrorToReason(error) \in Reasons
  BY DEF MapJwtVerifyErrorToReason, Reasons
<1>2. "claims_invalid" \in Reasons
  BY DEF Reasons
<1>3. CASE error # Nothing
  BY <1>1, <1>3, RefusalIsTyped DEF Verified
<1>4. CASE error = Nothing /\ who = NobodyRecognised
  BY <1>2, <1>4, RefusalIsTyped DEF Verified
<1>5. CASE error = Nothing /\ who # NobodyRecognised
  <2>1. Verified(c, c.kid, t) = [outcome |-> "authenticated", identity |-> who]
    BY <1>5 DEF Verified
  <2>2. Nothing \notin {"signature", "iss", "aud", "nbf", "exp"}
    BY DEF AccessKeysAssumption
  <2>3. /\ c.signer = c.kid /\ c.iss = Issuer
        /\ ~(c.exp <= t - Tolerance)
    BY <1>5, <2>2 DEF JwtVerifyError
  <2>4. /\ c.headers = 1 /\ Audience \in c.aud
        /\ c.exp \in Int /\ c.iat \in Int
        /\ c.iat <= t + Tolerance
    BY AcceptedClaims
  <2>5. t < c.exp + Tolerance
    BY <2>3, <2>4 DEF AccessKeysAssumption
  <2>6. Genuine(c, t, who)
    BY <1>5, <2>3, <2>4, <2>5, IdentityIsDeclared DEF Genuine
  <2>7. who \in [principal : Humans \cup Range(ServiceTokens),
                 kind : {"human", "service"}]
    BY <1>5, IdentityIsDeclared
  <2> HIDE DEF who
  <2>8. [outcome |-> "authenticated", identity |-> who] \in VerifyAnswers
    BY <2>7 DEF VerifyAnswers
  <2> QED BY <2>1, <2>6, <2>8
<1> QED BY <1>3, <1>4, <1>5

(* The readiness report lets nobody in.                                     *)
LEMMA ReadinessIsTyped ==
  ASSUME AccessKeysAssumption, NEW j \in JwksRecords,
         j.cachedKeys # Nothing => Cardinality(j.cachedKeys) <= MaxKeys,
         NEW word \in {"ready", "ready_with_cached_keys", "unavailable"}
  PROVE  /\ ReadReadinessSnapshot(j, word) \in ReadinessAnswers
         /\ ReadReadinessSnapshot(j, word).outcome # "authenticated"
<1>1. MaxKeys \in Nat /\ MaxTime \in Nat /\ CacheLifetime \in Nat /\ IsFiniteSet(Keys)
  BY DEF AccessKeysAssumption
<1>2. ASSUME j.cachedKeys # Nothing PROVE Cardinality(j.cachedKeys) \in 0 .. MaxKeys
  <2>1. j.cachedKeys \subseteq Keys
    BY <1>2 DEF JwksRecords
  <2>2. IsFiniteSet(j.cachedKeys)
    BY <1>1, <2>1, FS_Subset
  <2>3. Cardinality(j.cachedKeys) \in Nat
    BY <2>2, FS_CardinalityType
  <2> QED BY <1>1, <1>2, <2>3
<1>3. j.cacheExpiresAt \in Nat
  BY <1>1 DEF JwksRecords, Times
<1>4. ASSUME NEW b \in BOOLEAN, NEW n \in 0 .. MaxKeys, NEW e \in Nat \cup {Nothing}
      PROVE  [outcome |-> word, jwksReachable |-> b, cachedKeyCount |-> n,
              cacheExpiresAt |-> e] \in ReadinessAnswers
  BY <1>4 DEF ReadinessAnswers
<1> DEFINE n == IF j.cachedKeys = Nothing THEN 0 ELSE Cardinality(j.cachedKeys)
           e == IF j.cachedKeys = Nothing THEN Nothing ELSE j.cacheExpiresAt
           b == word = "ready"
<1>5. n \in 0 .. MaxKeys /\ e \in Nat \cup {Nothing} /\ b \in BOOLEAN
  BY <1>1, <1>2, <1>3
<1>6. ReadReadinessSnapshot(j, word) =
        [outcome |-> word, jwksReachable |-> b, cachedKeyCount |-> n,
         cacheExpiresAt |-> e]
  BY DEF ReadReadinessSnapshot
<1> HIDE DEF n, e, b
<1> QED BY <1>4, <1>5, <1>6

-----------------------------------------------------------------------------
(* The document of keys: a document that is not refused lists some of the   *)
(* keys the response was made for, and no more than it may.                 *)

LEMMA EnumerationIsInSet ==
  ASSUME NEW S, IsFiniteSet(S)
  PROVE  /\ Cardinality(S) \in Nat
         /\ SetToSeq(S) \in [1 .. Cardinality(S) -> S]
<1>1. Cardinality(S) \in Nat /\ ExistsBijection(1 .. Cardinality(S), S)
  BY FS_CardinalityType
<1>2. PICK f \in Bijection(1 .. Cardinality(S), S) : TRUE
  BY <1>1 DEF ExistsBijection
<1>3. f \in [1 .. Cardinality(S) -> S] /\ IsInjective(f)
  BY <1>2 DEF Bijection, Injection, IsInjective
<1> QED BY <1>1, <1>3 DEF SetToSeq

LEMMA ListedKeysArePublished ==
  ASSUME AccessKeysAssumption, NEW ks \in SUBSET Keys, ks # {},
         NEW doc \in Documents(ks)
  PROVE  /\ Len(doc.keys) \in Nat
         /\ DOMAIN doc.keys = 1 .. Len(doc.keys)
         /\ \A i \in DOMAIN doc.keys : doc.keys[i].kid \in ks
<1> DEFINE n == Cardinality(ks)
           listed == [i \in 1 .. n |-> [kid |-> SetToSeq(ks)[i], usable |-> TRUE]]
           damaged == [i \in 1 .. n |-> [kid |-> SetToSeq(ks)[i], usable |-> i # 1]]
<1>1. IsFiniteSet(ks)
  BY FS_Subset DEF AccessKeysAssumption
<1>2. n \in Nat /\ \A i \in 1 .. n : SetToSeq(ks)[i] \in ks
  BY <1>1, EnumerationIsInSet
<1>3. 1 \in 1 .. n
  BY <1>1, <1>2, FS_EmptySet
<1>4. doc.keys \in {listed, damaged, Append(listed, listed[1]), <<>>}
  BY DEF Documents
<1>5. listed \in Seq({[kid |-> k, usable |-> TRUE] : k \in ks}) /\ Len(listed) = n
  BY <1>2
<1>6. \A i \in 1 .. n : listed[i].kid \in ks
  BY <1>2
<1>7. \A i \in 1 .. n : damaged[i].kid \in ks
  BY <1>2
<1>8. damaged \in Seq({damaged[i] : i \in 1 .. n}) /\ Len(damaged) = n
  BY <1>2
<1>9. /\ Len(Append(listed, listed[1])) = n + 1
      /\ DOMAIN Append(listed, listed[1]) = 1 .. n + 1
      /\ \A i \in 1 .. n + 1 : Append(listed, listed[1])[i] =
             IF i <= n THEN listed[i] ELSE listed[1]
  <2> HIDE DEF listed
  <2> QED BY <1>2, <1>5
<1>10. DOMAIN listed = 1 .. n /\ DOMAIN damaged = 1 .. n
  OBVIOUS
<1> HIDE DEF n, listed, damaged
<1>11. CASE doc.keys = listed
  BY <1>2, <1>5, <1>6, <1>10, <1>11
<1>12. CASE doc.keys = damaged
  BY <1>2, <1>7, <1>8, <1>10, <1>12
<1>13. CASE doc.keys = Append(listed, listed[1])
  BY <1>2, <1>3, <1>6, <1>9, <1>13
<1>14. CASE doc.keys = <<>>
  BY <1>14
<1> QED BY <1>4, <1>11, <1>12, <1>13, <1>14

LEMMA ParsedKeysArePublished ==
  ASSUME AccessKeysAssumption, NEW ks \in SUBSET Keys, ks # {},
         NEW doc \in Documents(ks), ParseJwks(doc) # Nothing
  PROVE  /\ ParseJwks(doc) \in (SUBSET ks) \ {{}}
         /\ Cardinality(ParseJwks(doc)) <= MaxKeys
<1> DEFINE kids == {doc.keys[i].kid : i \in DOMAIN doc.keys}
<1>1. /\ ParseJwks(doc) = kids
      /\ Len(doc.keys) \in 1 .. MaxKeys
      /\ Cardinality(kids) = Len(doc.keys)
  BY DEF ParseJwks
<1>2. /\ DOMAIN doc.keys = 1 .. Len(doc.keys)
      /\ \A i \in DOMAIN doc.keys : doc.keys[i].kid \in ks
  BY ListedKeysArePublished
<1>3. MaxKeys \in Nat
  BY DEF AccessKeysAssumption
<1>4. kids # {}
  <2>1. 1 \in DOMAIN doc.keys
    BY <1>1, <1>2, <1>3
  <2> QED BY <2>1
<1>5. kids \subseteq ks
  BY <1>2
<1> HIDE DEF kids
<1> QED BY <1>1, <1>3, <1>4, <1>5

-----------------------------------------------------------------------------
(* The steps of a request: answered at once, or waiting for a refresh.      *)

(* One request changes; what the provider holds stays.                      *)
LEMMA OneRequestChanges ==
  ASSUME RequestsInv, NEW r \in AccessRequests, NEW q,
         RequestOK(q, now, tenant, retiredAt),
         reqs' = [reqs EXCEPT ![r] = q],
         UNCHANGED <<now, tenant, retiredAt>>
  PROVE  RequestsInv'
<1>1. q \in RequestRecords
  BY DEF RequestOK
<1>2. reqs' \in [AccessRequests -> RequestRecords]
  BY <1>1 DEF RequestsInv
<1>3. ASSUME NEW s \in AccessRequests
      PROVE RequestOK(reqs'[s], now, tenant, retiredAt)
  BY <1>3 DEF RequestsInv
<1> QED BY <1>2, <1>3 DEF RequestsInv

LEMMA AnswerKeepsInvariant ==
  ASSUME AccessKeysAssumption, ProviderInv, RequestsInv,
         NEW r \in AccessRequests, NEW kind \in {"verify", "readiness"},
         NEW c \in Credentials \cup {Nothing}, NEW a \in Answers(kind),
         a.outcome = "authenticated" =>
             LetIn(c, now, a.identity, now, tenant, retiredAt),
         AnswerAtOnce(r, kind, c, a)
  PROVE  ProviderInv' /\ RequestsInv'
<1> DEFINE q == [pc |-> "answered", kind |-> kind, credential |-> c,
                 time |-> now, answer |-> a]
<1>1. a \in ReadinessAnswers \cup VerifyAnswers /\ a # Nothing
  BY DEF Answers, AccessKeysAssumption
<1>2. now \in 0 .. MaxTime /\ MaxTime \in Nat
  BY DEF ProviderInv, AccessKeysAssumption
<1>3. q \in RequestRecords
  BY <1>1, <1>2 DEF RequestRecords
<1>4. RequestOK(q, now, tenant, retiredAt)
  BY <1>1, <1>2, <1>3 DEF RequestOK
<1>5. ProviderInv'
  BY DEF AnswerAtOnce, ProviderInv, KeyInv, RefreshInv
<1> HIDE DEF q
<1>6. reqs' = [reqs EXCEPT ![r] = q] /\ UNCHANGED <<now, tenant, retiredAt>>
  BY DEF AnswerAtOnce, q
<1> QED BY <1>4, <1>5, <1>6, OneRequestChanges

(* A provider that is not cooling down has no failed refresh to wait for.   *)
LEMMA CooldownIsKept ==
  ASSUME AccessKeysAssumption, ProviderInv, ~CoolingDown(jwks, now)
  PROVE  history.failed # Nothing => now >= history.failed + FailureCooldown
<1>1. now \in Nat /\ MaxTime \in Nat /\ FailureCooldown \in Nat
  BY DEF ProviderInv, AccessKeysAssumption
<1> QED BY <1>1 DEF ProviderInv, RefreshInv, CoolingDown, JwksRecords, Times,
                    AccessKeysAssumption

LEMMA AwaitKeepsInvariant ==
  ASSUME AccessKeysAssumption, ProviderInv, RequestsInv,
         NEW r \in AccessRequests, NEW kind \in {"verify", "readiness"},
         NEW c \in Credentials \cup {Nothing},
         kind = "verify" => c \in Credentials /\ EarlyRefusal(c, now) = Nothing,
         ~CoolingDown(jwks, now),
         AwaitRefresh(r, kind, c)
  PROVE  ProviderInv' /\ RequestsInv'
<1> DEFINE q == [pc |-> "waiting", kind |-> kind, credential |-> c,
                 time |-> now, answer |-> Nothing]
           new == [time |-> now, by |-> r, phase |-> "headers", keys |-> {}]
<1>1. now \in 0 .. MaxTime /\ MaxTime \in Nat
  BY DEF ProviderInv, AccessKeysAssumption
<1>2. q \in RequestRecords
  BY <1>1 DEF RequestRecords
<1>3. RequestOK(q, now, tenant, retiredAt)
  BY <1>1, <1>2 DEF RequestOK, Pending
<1>4. /\ reqs' = [reqs EXCEPT ![r] = q]
      /\ UNCHANGED <<now, tenant, jwks, retiredAt, history>>
      /\ flight' = flight \/ (flight = Nothing /\ flight' = new)
  BY DEF AwaitRefresh, Refresh
<1>5. new \in [time : 0 .. MaxTime, by : AccessRequests, phase : {"headers", "body"},
               keys : SUBSET Keys]
      /\ new.time = now /\ new.phase = "headers"
  BY <1>1
<1>6. CASE flight' = flight
  <2>1. ProviderInv'
    BY <1>4, <1>6 DEF ProviderInv, KeyInv, RefreshInv
  <2> HIDE DEF q
  <2> QED BY <1>3, <1>4, <2>1, OneRequestChanges
<1>7. CASE flight = Nothing /\ flight' = new
  <2> HIDE DEF new
  <2>1. KeyInv'
    BY <1>1, <1>4, <1>5, <1>7 DEF ProviderInv, KeyInv
  <2>2. history.failed # Nothing => now >= history.failed + FailureCooldown
    BY CooldownIsKept
  <2>3. RefreshInv'
    BY <1>1, <1>4, <1>5, <1>7, <2>2 DEF ProviderInv, RefreshInv
  <2>4. ProviderInv'
    BY <1>4, <1>5, <1>7, <2>1, <2>3 DEF ProviderInv
  <2> HIDE DEF q
  <2> QED BY <1>3, <1>4, <2>4, OneRequestChanges
<1> QED BY <1>4, <1>6, <1>7

(* A key in the cache was published less than a cache lifetime ago.         *)
LEMMA CachedKeyIsFresh ==
  ASSUME AccessKeysAssumption, ProviderInv, NEW k, GetCachedKey(jwks, k, now)
  PROVE  k \in Keys /\ now < Published(k, now, tenant, retiredAt) + CacheLifetime
<1>1. jwks.cachedKeys # Nothing /\ now < jwks.cacheExpiresAt /\ k \in jwks.cachedKeys
  BY DEF GetCachedKey
<1>2. /\ now \in Nat /\ CacheLifetime \in Nat /\ 0 < CacheLifetime
      /\ jwks.cacheExpiresAt \in Nat
      /\ MaxTime \in Nat
  BY DEF ProviderInv, AccessKeysAssumption, JwksRecords, Times
<1>3. k \in Keys
  BY <1>1 DEF ProviderInv, JwksRecords
<1>4. retiredAt[k] \in Nat
  BY <1>2, <1>3 DEF ProviderInv
<1>5. k \in tenant \/ jwks.cacheExpiresAt <= retiredAt[k] + CacheLifetime
  BY <1>1 DEF ProviderInv, KeyInv
<1> QED BY <1>1, <1>2, <1>3, <1>4, <1>5 DEF Published

LEMMA AuthenticateKeepsInvariant ==
  ASSUME AccessKeysAssumption, ProviderInv, RequestsInv,
         NEW r \in AccessRequests, NEW c \in Credentials, VerifyAssertion(r, c)
  PROVE  ProviderInv' /\ RequestsInv'
<1>0. Answers("verify") = VerifyAnswers
  BY DEF Answers
<1>1. now \in Nat
  BY DEF ProviderInv, AccessKeysAssumption
<1>2. CASE EarlyRefusal(c, now) # Nothing
  <2>1. AnswerAtOnce(r, "verify", c, Unauthenticated(EarlyRefusal(c, now)))
    BY <1>2 DEF VerifyAssertion
  <2>2. EarlyRefusal(c, now) \in Reasons
    BY <1>2, EarlyRefusalIsReason
  <2>3. /\ Unauthenticated(EarlyRefusal(c, now)) \in Answers("verify")
        /\ Unauthenticated(EarlyRefusal(c, now)).outcome # "authenticated"
    BY <1>0, <2>2, RefusalIsTyped
  <2> QED BY <2>1, <2>3, AnswerKeepsInvariant
<1>3. CASE EarlyRefusal(c, now) = Nothing /\ GetCachedKey(jwks, c.kid, now)
  <2>1. AnswerAtOnce(r, "verify", c, Verified(c, c.kid, now))
    BY <1>3 DEF VerifyAssertion
  <2>2. /\ Verified(c, c.kid, now) \in Answers("verify")
        /\ Verified(c, c.kid, now).outcome = "authenticated" =>
               Genuine(c, now, Verified(c, c.kid, now).identity)
    BY <1>0, <1>1, <1>3, VerifiedIsGenuine
  <2>3. c.kid \in Keys
        /\ now < Published(c.kid, now, tenant, retiredAt) + CacheLifetime
    BY <1>3, CachedKeyIsFresh
  <2>4. Verified(c, c.kid, now).outcome = "authenticated" =>
            LetIn(c, now, Verified(c, c.kid, now).identity, now, tenant, retiredAt)
    BY <2>2, <2>3 DEF LetIn, Genuine
  <2> QED BY <2>1, <2>2, <2>4, AnswerKeepsInvariant
<1>4. CASE /\ EarlyRefusal(c, now) = Nothing /\ ~GetCachedKey(jwks, c.kid, now)
           /\ CoolingDown(jwks, now)
  <2>1. AnswerAtOnce(r, "verify", c, Unavailable)
    BY <1>4 DEF VerifyAssertion
  <2> QED BY <1>0, <2>1, UnavailableIsTyped, AnswerKeepsInvariant
<1>5. CASE /\ EarlyRefusal(c, now) = Nothing /\ ~GetCachedKey(jwks, c.kid, now)
           /\ ~CoolingDown(jwks, now)
  <2>1. AwaitRefresh(r, "verify", c)
    BY <1>5 DEF VerifyAssertion
  <2> QED BY <1>5, <2>1, AwaitKeepsInvariant
<1> QED BY <1>2, <1>3, <1>4, <1>5

LEMMA ReadReadinessKeepsInvariant ==
  ASSUME AccessKeysAssumption, ProviderInv, RequestsInv,
         NEW r \in AccessRequests, ReadReadiness(r)
  PROVE  ProviderInv' /\ RequestsInv'
<1>0. Answers("readiness") = ReadinessAnswers
  BY DEF Answers
<1>1. jwks \in JwksRecords
      /\ (jwks.cachedKeys # Nothing => Cardinality(jwks.cachedKeys) <= MaxKeys)
  BY DEF ProviderInv, KeyInv
<1>2. ASSUME NEW word \in {"ready_with_cached_keys", "unavailable"},
             AnswerAtOnce(r, "readiness", Nothing, ReadReadinessSnapshot(jwks, word))
      PROVE  ProviderInv' /\ RequestsInv'
  BY <1>0, <1>1, <1>2, ReadinessIsTyped, AnswerKeepsInvariant
<1>3. ASSUME AwaitRefresh(r, "readiness", Nothing), ~CoolingDown(jwks, now)
      PROVE  ProviderInv' /\ RequestsInv'
  BY <1>3, AwaitKeepsInvariant
<1> QED BY <1>2, <1>3 DEF ReadReadiness

-----------------------------------------------------------------------------
(* The end of the shared refresh.                                           *)

(* A request that waited is let in only with a key of the new document.     *)
LEMMA ResumedIsTyped ==
  ASSUME AccessKeysAssumption, NEW q \in RequestRecords, Pending(q),
         NEW j \in JwksRecords,
         j.cachedKeys # Nothing => Cardinality(j.cachedKeys) <= MaxKeys,
         NEW loaded \in BOOLEAN
  PROVE  /\ Resumed(q, j, loaded) \in Answers(q.kind)
         /\ Resumed(q, j, loaded).outcome = "authenticated" =>
                /\ loaded /\ GetCachedKey(j, q.credential.kid, q.time)
                /\ Genuine(q.credential, q.time, Resumed(q, j, loaded).identity)
<1>0. q.time \in Nat
  BY DEF RequestRecords, AccessKeysAssumption
<1>1. CASE q.kind = "readiness"
  <2>1. /\ ReadReadinessSnapshot(j, "ready") \in ReadinessAnswers
        /\ ReadReadinessSnapshot(j, "unavailable") \in ReadinessAnswers
        /\ ReadReadinessSnapshot(j, "ready").outcome # "authenticated"
        /\ ReadReadinessSnapshot(j, "unavailable").outcome # "authenticated"
    BY ReadinessIsTyped
  <2>2. Resumed(q, j, loaded) =
            ReadReadinessSnapshot(j, IF loaded THEN "ready" ELSE "unavailable")
    BY <1>1 DEF Resumed
  <2>3. \/ Resumed(q, j, loaded) = ReadReadinessSnapshot(j, "ready")
        \/ Resumed(q, j, loaded) = ReadReadinessSnapshot(j, "unavailable")
    BY <2>2
  <2> QED BY <1>1, <2>1, <2>3 DEF Answers
<1>2. CASE q.kind = "verify"
  <2>0. Answers(q.kind) = VerifyAnswers
    BY <1>2 DEF Answers
  <2>1. q.credential \in Credentials /\ EarlyRefusal(q.credential, q.time) = Nothing
    BY <1>2 DEF Pending
  <2>2. CASE ~loaded
    <3>1. Resumed(q, j, loaded) = Unavailable
      BY <1>2, <2>2 DEF Resumed
    <3> QED BY <2>0, <3>1, UnavailableIsTyped
  <2>3. CASE loaded /\ GetCachedKey(j, q.credential.kid, q.time)
    <3>1. Resumed(q, j, loaded) = Verified(q.credential, q.credential.kid, q.time)
      BY <1>2, <2>3 DEF Resumed
    <3> QED BY <1>0, <2>0, <2>1, <2>3, <3>1, VerifiedIsGenuine
  <2>4. CASE loaded /\ ~GetCachedKey(j, q.credential.kid, q.time)
    <3>1. Resumed(q, j, loaded) = Unauthenticated("key_unavailable")
      BY <1>2, <2>4 DEF Resumed
    <3>2. "key_unavailable" \in Reasons
      BY DEF Reasons
    <3> QED BY <2>0, <3>1, <3>2, RefusalIsTyped
  <2> QED BY <2>2, <2>3, <2>4
<1> QED BY <1>1, <1>2 DEF Pending

(* What the provider holds after a refresh that brought keys.               *)
LEMMA LoadedProvider ==
  ASSUME AccessKeysAssumption, ProviderInv, flight # Nothing,
         flight.phase = "body", NEW keys \in (SUBSET flight.keys) \ {{}},
         Cardinality(keys) <= MaxKeys, keys # Nothing,
         Settle(keys)
  PROVE  ProviderInv'
<1>1. /\ now \in Nat /\ MaxTime \in Nat /\ CacheLifetime \in Nat
      /\ FailureCooldown \in Nat
      /\ now <= MaxTime
  BY DEF ProviderInv, AccessKeysAssumption
<1>2. /\ flight \in [time : 0 .. MaxTime, by : AccessRequests, phase : {"headers", "body"},
                     keys : SUBSET Keys]
      /\ flight.time <= now
      /\ \A k \in flight.keys : k \in tenant \/ flight.time <= retiredAt[k]
  BY DEF ProviderInv, KeyInv
<1>3. flight.time \in 0 .. MaxTime /\ keys \in (SUBSET Keys) \ {{}}
  BY <1>2
<1>4. /\ jwks' = [cachedKeys |-> keys, cacheExpiresAt |-> flight.time + CacheLifetime,
                  failedUntil |-> 0, lastSuccessfulRefreshAt |-> flight.time]
      /\ flight' = Nothing
      /\ history' = [history EXCEPT !.loaded = [keys |-> keys, at |-> flight.time]]
      /\ UNCHANGED <<now, tenant, retiredAt>>
  BY DEF Settle, LoadKeys
<1>5. jwks' \in JwksRecords
  BY <1>1, <1>3, <1>4 DEF JwksRecords, Times
<1>6. [keys |-> keys, at |-> flight.time] \in [keys : SUBSET Keys, at : 0 .. MaxTime]
  BY <1>3
<1>7. /\ history' \in [loaded : [keys : SUBSET Keys, at : 0 .. MaxTime] \cup {Nothing},
                       failed : (0 .. MaxTime) \cup {Nothing},
                       rotations : 0 .. MaxRotations]
      /\ history'.failed = history.failed
      /\ history'.loaded = [keys |-> keys, at |-> flight.time]
  BY <1>4, <1>6 DEF ProviderInv
<1>8. KeyInv'
  <2>1. \A k \in Keys : retiredAt'[k] <= now'
    BY <1>4 DEF ProviderInv, KeyInv
  <2>2. \A k \in keys : k \in tenant' \/ jwks'.cacheExpiresAt <= retiredAt'[k]
                                                                 + CacheLifetime
    <3> SUFFICES ASSUME NEW k \in keys, k \notin tenant
                 PROVE  flight.time + CacheLifetime <= retiredAt[k] + CacheLifetime
      BY <1>4
    <3>1. flight.time <= retiredAt[k] /\ k \in Keys
      BY <1>2
    <3>2. retiredAt[k] \in Nat
      BY <1>1, <3>1 DEF ProviderInv
    <3> QED BY <1>1, <1>3, <3>1, <3>2
  <2>3. jwks'.cacheExpiresAt <= now' + CacheLifetime
    BY <1>1, <1>2, <1>3, <1>4
  <2>4. Cardinality(jwks'.cachedKeys) <= MaxKeys /\ jwks'.cachedKeys = keys
    BY <1>4
  <2> QED BY <1>4, <2>1, <2>2, <2>3, <2>4 DEF KeyInv
<1>9. RefreshInv'
  <2>1. history.failed # Nothing => now >= history.failed + FailureCooldown
    BY <1>1, <1>2, <1>3 DEF ProviderInv, RefreshInv
  <2> QED BY <1>4, <1>7, <2>1 DEF RefreshInv
<1> QED BY <1>4, <1>5, <1>7, <1>8, <1>9 DEF ProviderInv

(* What the provider holds after a refresh that failed.                     *)
LEMMA FailedProvider ==
  ASSUME AccessKeysAssumption, ProviderInv, flight # Nothing, Settle(Nothing)
  PROVE  ProviderInv'
<1>1. /\ now \in Nat /\ MaxTime \in Nat /\ CacheLifetime \in Nat
      /\ FailureCooldown \in Nat /\ FailureCooldown < CacheLifetime
      /\ now <= MaxTime
  BY DEF ProviderInv, AccessKeysAssumption
<1>2. flight.time \in 0 .. MaxTime
  BY DEF ProviderInv
<1>3. /\ jwks' = [jwks EXCEPT !.failedUntil = flight.time + FailureCooldown]
      /\ flight' = Nothing
      /\ history' = [history EXCEPT !.failed = flight.time]
      /\ UNCHANGED <<now, tenant, retiredAt>>
  BY DEF Settle, LoadKeys
<1>4. /\ jwks' \in JwksRecords
      /\ jwks'.cachedKeys = jwks.cachedKeys
      /\ jwks'.cacheExpiresAt = jwks.cacheExpiresAt
      /\ jwks'.failedUntil = flight.time + FailureCooldown
  BY <1>1, <1>2, <1>3 DEF ProviderInv, JwksRecords, Times
<1>5. /\ history' \in [loaded : [keys : SUBSET Keys, at : 0 .. MaxTime] \cup {Nothing},
                       failed : (0 .. MaxTime) \cup {Nothing},
                       rotations : 0 .. MaxRotations]
      /\ history'.loaded = history.loaded
      /\ history'.failed = flight.time
  BY <1>2, <1>3 DEF ProviderInv
<1>6. KeyInv'
  BY <1>3, <1>4 DEF ProviderInv, KeyInv
<1>7. RefreshInv'
  BY <1>3, <1>4, <1>5 DEF ProviderInv, RefreshInv
<1> QED BY <1>3, <1>4, <1>5, <1>6, <1>7 DEF ProviderInv

(* The requests after a refresh that left the provider as it should be.     *)
LEMMA SettledRequests ==
  ASSUME AccessKeysAssumption, ProviderInv, RequestsInv, ProviderInv',
         NEW keys, Settle(keys), flight # Nothing, flight.phase = "body" \/ keys = Nothing,
         keys # Nothing => keys \in SUBSET flight.keys
  PROVE  RequestsInv'
<1> DEFINE loaded == keys # Nothing
<1>1. /\ UNCHANGED <<now, tenant, retiredAt>>
      /\ reqs' = ResumeAll(jwks', loaded)
      /\ jwks' = LoadKeys(jwks, flight.time, keys)
  BY DEF Settle
<1>2. jwks' \in JwksRecords
      /\ (jwks'.cachedKeys # Nothing => Cardinality(jwks'.cachedKeys) <= MaxKeys)
  BY DEF ProviderInv, KeyInv
<1>3. /\ now \in Nat /\ MaxTime \in Nat /\ CacheLifetime \in Nat
      /\ flight.time \in Nat /\ flight.time <= now
  BY DEF ProviderInv, KeyInv, AccessKeysAssumption
<1>4. ASSUME NEW r \in AccessRequests, reqs[r].pc # "waiting"
      PROVE  RequestOK(reqs'[r], now', tenant', retiredAt')
  <2>1. reqs'[r] = reqs[r]
    BY <1>1, <1>4 DEF ResumeAll
  <2> QED BY <1>1, <2>1 DEF RequestsInv
<1>5. ASSUME NEW r \in AccessRequests, reqs[r].pc = "waiting"
      PROVE  RequestOK(reqs'[r], now', tenant', retiredAt')
  <2> DEFINE q == reqs[r]
             a == Resumed(q, jwks', loaded)
  <2>1. RequestOK(q, now, tenant, retiredAt) /\ q \in RequestRecords /\ Pending(q)
    BY <1>5 DEF RequestsInv, RequestOK
  <2>2. /\ a \in Answers(q.kind)
        /\ a.outcome = "authenticated" =>
               /\ loaded /\ GetCachedKey(jwks', q.credential.kid, q.time)
               /\ Genuine(q.credential, q.time, a.identity)
    <3> HIDE DEF q
    <3>1. loaded \in BOOLEAN
      OBVIOUS
    <3> QED BY <1>2, <2>1, <3>1, ResumedIsTyped
  <2>3. reqs'[r] = [q EXCEPT !.pc = "answered", !.answer = a]
    BY <1>1, <1>5 DEF ResumeAll
  <2>4. ASSUME a.outcome = "authenticated"
        PROVE  LetIn(q.credential, q.time, a.identity, now, tenant, retiredAt)
    <3>1. /\ keys # Nothing
          /\ GetCachedKey(jwks', q.credential.kid, q.time)
          /\ Genuine(q.credential, q.time, a.identity)
      BY <2>2, <2>4
    <3>2. jwks' = [cachedKeys |-> keys, cacheExpiresAt |-> flight.time + CacheLifetime,
                   failedUntil |-> 0, lastSuccessfulRefreshAt |-> flight.time]
      BY <1>1, <3>1 DEF LoadKeys
    <3>3. q.credential.kid \in keys /\ q.time < flight.time + CacheLifetime
      BY <3>1, <3>2 DEF GetCachedKey
    <3>4. q.credential.signer = q.credential.kid
      BY <3>1 DEF Genuine
    <3>5. /\ q.credential.signer \in Keys
          /\ \/ q.credential.signer \in tenant
             \/ flight.time <= retiredAt[q.credential.signer]
      BY <3>1, <3>3, <3>4 DEF ProviderInv, KeyInv
    <3>6. retiredAt[q.credential.signer] \in Nat
      BY <1>3, <3>5 DEF ProviderInv
    <3>7. q.time \in Nat
      BY <1>3, <2>1 DEF RequestRecords
    <3>8. q.time < Published(q.credential.signer, now, tenant, retiredAt) + CacheLifetime
      BY <1>3, <3>3, <3>5, <3>6, <3>7 DEF Published
    <3> QED BY <3>1, <3>5, <3>8 DEF LetIn
  <2>5. q.time <= now
    BY <2>1 DEF RequestOK
  <2>6. q.kind \in {"verify", "readiness"}
    BY <2>1 DEF Pending
  <2>7. a \in ReadinessAnswers \cup VerifyAnswers /\ a # Nothing
    BY <2>2 DEF Answers, AccessKeysAssumption
  <2> HIDE DEF q, a
  <2>8. [q EXCEPT !.pc = "answered", !.answer = a] \in RequestRecords
    BY <2>1, <2>7 DEF RequestRecords
  <2>9. LET p == [q EXCEPT !.pc = "answered", !.answer = a] IN
        /\ p.pc = "answered" /\ p.answer = a /\ p.kind = q.kind
        /\ p.credential = q.credential /\ p.time = q.time
    BY <2>1 DEF RequestRecords
  <2>10. RequestOK([q EXCEPT !.pc = "answered", !.answer = a], now, tenant, retiredAt)
    BY <2>2, <2>4, <2>5, <2>7, <2>8, <2>9 DEF RequestOK
  <2> QED BY <1>1, <2>3, <2>10
<1>6. reqs' \in [AccessRequests -> RequestRecords]
  <2>1. DOMAIN reqs' = AccessRequests /\ reqs' = [r \in AccessRequests |-> reqs'[r]]
    BY <1>1 DEF ResumeAll
  <2>2. \A r \in AccessRequests : reqs'[r] \in RequestRecords
    BY <1>4, <1>5 DEF RequestOK
  <2> QED BY <2>1, <2>2
<1> QED BY <1>4, <1>5, <1>6 DEF RequestsInv

-----------------------------------------------------------------------------
(* The steps of the environment: the response, the tenant and the clock.    *)

LEMMA RefreshStepsKeepInvariant ==
  ASSUME AccessKeysAssumption, ProviderInv, RequestsInv,
         HeadersArrive \/ RequestFails \/ BodyEnds \/ BodyFails
  PROVE  ProviderInv' /\ RequestsInv'
<1>1. CASE HeadersArrive
  <2>1. /\ flight' # Nothing => flight'.time = flight.time
        /\ flight' \in [time : 0 .. MaxTime, by : AccessRequests,
                        phase : {"headers", "body"}, keys : SUBSET Keys] \cup {Nothing}
        /\ flight'.keys = tenant
    BY <1>1 DEF HeadersArrive, ProviderInv
  <2>2. UNCHANGED <<now, tenant, jwks, reqs, retiredAt, history>> /\ flight # Nothing
    BY <1>1 DEF HeadersArrive
  <2>3. KeyInv'
    BY <2>1, <2>2 DEF ProviderInv, KeyInv
  <2>4. RefreshInv'
    BY <2>1, <2>2 DEF ProviderInv, RefreshInv
  <2> QED BY <2>1, <2>2, <2>3, <2>4 DEF ProviderInv, RequestsInv
<1>2. ASSUME flight # Nothing, Settle(Nothing) PROVE ProviderInv' /\ RequestsInv'
  BY <1>2, FailedProvider, SettledRequests
<1>3. CASE BodyEnds
  <2>1. PICK doc \in Documents(flight.keys) : Settle(ParseJwks(doc))
    BY <1>3 DEF BodyEnds
  <2>2. flight # Nothing /\ flight.phase = "body"
    BY <1>3 DEF BodyEnds
  <2>3. flight.keys \in SUBSET Keys /\ flight.keys # {}
    BY <2>2 DEF ProviderInv, KeyInv
  <2>4. CASE ParseJwks(doc) = Nothing
    BY <1>2, <2>1, <2>2, <2>4
  <2>5. CASE ParseJwks(doc) # Nothing
    <3>1. /\ ParseJwks(doc) \in (SUBSET flight.keys) \ {{}}
          /\ Cardinality(ParseJwks(doc)) <= MaxKeys
      BY <2>3, <2>5, ParsedKeysArePublished
    <3>2. ProviderInv'
      BY <2>1, <2>2, <2>5, <3>1, LoadedProvider
    <3>3. ParseJwks(doc) \in SUBSET flight.keys
      BY <3>1
    <3> QED BY <2>1, <2>2, <3>2, <3>3, SettledRequests
  <2> QED BY <2>4, <2>5
<1> QED BY <1>1, <1>2, <1>3 DEF RequestFails, BodyFails

(* Nobody who was let in gets older with regard to his key: what the tenant *)
(* last published only moves forward.                                       *)
LEMMA PublishedMovesOn ==
  ASSUME AccessKeysAssumption, ProviderInv, RequestsInv, UNCHANGED reqs,
         now <= now', now' \in Nat,
         \A k \in Keys : /\ Published(k, now', tenant', retiredAt') \in Int
                         /\ Published(k, now, tenant, retiredAt)
                                <= Published(k, now', tenant', retiredAt')
  PROVE  RequestsInv'
<1>1. now \in Nat /\ MaxTime \in Nat /\ CacheLifetime \in Nat
  BY DEF ProviderInv, AccessKeysAssumption
<1>2. ASSUME NEW r \in AccessRequests
      PROVE  RequestOK(reqs[r], now', tenant', retiredAt')
  <2> DEFINE q == reqs[r]
  <2>1. RequestOK(q, now, tenant, retiredAt)
    BY DEF RequestsInv
  <2> HIDE DEF q
  <2>2. q.time \in Nat
    BY <1>1, <2>1 DEF RequestOK, RequestRecords
  <2>3. ASSUME LetIn(q.credential, q.time, q.answer.identity, now, tenant, retiredAt)
        PROVE  LetIn(q.credential, q.time, q.answer.identity, now', tenant', retiredAt')
    <3>1. q.credential.signer \in Keys
      BY <2>3 DEF LetIn
    <3>2. Published(q.credential.signer, now, tenant, retiredAt) \in Int
      BY <1>1, <3>1 DEF Published, ProviderInv
    <3>3. q.time < Published(q.credential.signer, now, tenant, retiredAt) + CacheLifetime
      BY <2>3 DEF LetIn
    <3>4. q.time < Published(q.credential.signer, now', tenant', retiredAt')
                       + CacheLifetime
      BY <1>1, <2>2, <3>1, <3>2, <3>3
    <3> QED BY <2>3, <3>4 DEF LetIn
  <2>4. q.time <= now'
    BY <1>1, <2>1, <2>2 DEF RequestOK
  <2>5. RequestOK(q, now', tenant', retiredAt')
    BY <2>1, <2>3, <2>4 DEF RequestOK
  <2> QED BY <2>5 DEF q
<1> QED BY <1>2 DEF RequestsInv

LEMMA RotateKeepsInvariant ==
  ASSUME AccessKeysAssumption, ProviderInv, RequestsInv, Rotate
  PROVE  ProviderInv' /\ RequestsInv'
<1>1. now \in 0 .. MaxTime /\ MaxTime \in Nat /\ MaxRotations \in Nat
      /\ CacheLifetime \in Nat
  BY DEF ProviderInv, AccessKeysAssumption
<1>2. /\ tenant' \in (SUBSET Keys) \ {{}}
      /\ retiredAt' = [k \in Keys |-> IF k \in tenant THEN now ELSE retiredAt[k]]
      /\ UNCHANGED <<now, jwks, flight, reqs>>
  BY DEF Rotate
<1>3. retiredAt' \in [Keys -> 0 .. MaxTime]
  BY <1>1, <1>2 DEF ProviderInv
<1>4. /\ history' \in [loaded : [keys : SUBSET Keys, at : 0 .. MaxTime] \cup {Nothing},
                       failed : (0 .. MaxTime) \cup {Nothing},
                       rotations : 0 .. MaxRotations]
      /\ history'.loaded = history.loaded /\ history'.failed = history.failed
  BY <1>1 DEF Rotate, ProviderInv
<1>5. \A k \in Keys : /\ retiredAt[k] \in 0 .. MaxTime /\ retiredAt[k] <= now
                      /\ retiredAt'[k] <= now
                      /\ retiredAt[k] <= retiredAt'[k]
  BY <1>1, <1>2 DEF ProviderInv, KeyInv
<1>6. \A k \in Keys : k \in tenant => retiredAt'[k] = now
  BY <1>2
<1>7. KeyInv'
  <2>1. ASSUME jwks.cachedKeys # Nothing, NEW k \in jwks.cachedKeys, k \notin tenant'
        PROVE  jwks.cacheExpiresAt <= retiredAt'[k] + CacheLifetime
    <3>1. /\ k \in Keys /\ jwks.cacheExpiresAt \in Nat
          /\ jwks.cacheExpiresAt <= now + CacheLifetime
          /\ k \in tenant \/ jwks.cacheExpiresAt <= retiredAt[k] + CacheLifetime
      BY <1>1, <2>1 DEF ProviderInv, KeyInv, JwksRecords, Times
    <3>2. CASE k \in tenant
      BY <1>6, <3>1, <3>2
    <3>3. CASE k \notin tenant
      <4>1. retiredAt'[k] = retiredAt[k]
        BY <1>2, <3>1, <3>3
      <4> QED BY <3>1, <3>3, <4>1
    <3> QED BY <3>2, <3>3
  <2>2. ASSUME flight # Nothing, flight.phase = "body", NEW k \in flight.keys,
               k \notin tenant'
        PROVE  flight.time <= retiredAt'[k]
    <3>1. /\ k \in Keys /\ flight.time <= now
          /\ k \in tenant \/ flight.time <= retiredAt[k]
      BY <2>2 DEF ProviderInv, KeyInv
    <3>2. CASE k \in tenant
      BY <1>6, <3>1, <3>2
    <3>3. CASE k \notin tenant
      <4>1. retiredAt'[k] = retiredAt[k]
        BY <1>2, <3>1, <3>3
      <4> QED BY <3>1, <3>3, <4>1
    <3> QED BY <3>2, <3>3
  <2> QED BY <1>2, <1>5, <2>1, <2>2 DEF ProviderInv, KeyInv
<1>8. RefreshInv'
  BY <1>2, <1>4 DEF ProviderInv, RefreshInv
<1>9. ProviderInv'
  BY <1>2, <1>3, <1>4, <1>7, <1>8 DEF ProviderInv
<1>10. RequestsInv'
  <2>1. \A k \in Keys : /\ Published(k, now', tenant', retiredAt') \in Int
                        /\ Published(k, now, tenant, retiredAt)
                               <= Published(k, now', tenant', retiredAt')
    BY <1>1, <1>2, <1>3, <1>5, <1>6 DEF Published
  <2>2. now <= now' /\ now' \in Nat /\ UNCHANGED reqs
    BY <1>1, <1>2
  <2> QED BY <2>1, <2>2, PublishedMovesOn
<1> QED BY <1>9, <1>10

LEMMA TickKeepsInvariant ==
  ASSUME AccessKeysAssumption, ProviderInv, RequestsInv, Tick
  PROVE  ProviderInv' /\ RequestsInv'
<1>1. /\ now \in Nat /\ MaxTime \in Nat /\ now' = now + 1 /\ now' <= MaxTime
      /\ CacheLifetime \in Nat /\ FailureCooldown \in Nat
      /\ UNCHANGED <<tenant, jwks, flight, reqs, retiredAt, history>>
  BY DEF ProviderInv, AccessKeysAssumption, Tick
<1>2. \A k \in Keys : retiredAt[k] \in Nat /\ retiredAt[k] <= now
  BY <1>1 DEF ProviderInv, KeyInv
<1>3. KeyInv'
  <2>1. jwks.cachedKeys # Nothing => jwks.cacheExpiresAt <= now' + CacheLifetime
    BY <1>1 DEF ProviderInv, KeyInv, JwksRecords, Times
  <2>2. flight # Nothing => flight.time <= now'
    BY <1>1 DEF ProviderInv, KeyInv
  <2>3. \A k \in Keys : retiredAt'[k] <= now'
    BY <1>1, <1>2
  <2> QED BY <1>1, <2>1, <2>2, <2>3 DEF ProviderInv, KeyInv
<1>4. RefreshInv'
  <2>1. history.failed # Nothing /\ now >= history.failed + FailureCooldown
            => now' >= history.failed + FailureCooldown
    BY <1>1 DEF ProviderInv
  <2> QED BY <1>1, <2>1 DEF ProviderInv, RefreshInv
<1>5. ProviderInv'
  BY <1>1, <1>3, <1>4 DEF ProviderInv
<1>6. RequestsInv'
  <2>1. \A k \in Keys : /\ Published(k, now', tenant', retiredAt') \in Int
                        /\ Published(k, now, tenant, retiredAt)
                               <= Published(k, now', tenant', retiredAt')
    BY <1>1, <1>2 DEF Published
  <2> QED BY <1>1, <2>1, PublishedMovesOn
<1> QED BY <1>5, <1>6

-----------------------------------------------------------------------------
(* The theorems.                                                            *)

LEMMA InitialInvariant == AccessKeysAssumption /\ AccessInit => AccessInv
<1> SUFFICES ASSUME AccessKeysAssumption, AccessInit PROVE ProviderInv /\ RequestsInv
  BY InvariantJoins
<1>1. /\ MaxTime \in Nat /\ CacheLifetime \in Nat /\ MaxRotations \in Nat
      /\ 0 \in 0 .. MaxTime /\ 0 \in Times /\ 0 \in 0 .. MaxRotations
  BY DEF AccessKeysAssumption, Times
<1>2. jwks \in JwksRecords /\ jwks.cachedKeys = Nothing
  BY <1>1 DEF AccessInit, InitialJwks, JwksRecords
<1>3. KeyInv /\ RefreshInv
  BY <1>1, <1>2 DEF AccessInit, KeyInv, RefreshInv
<1>4. ProviderInv
  BY <1>1, <1>2, <1>3 DEF AccessInit, ProviderInv
<1> DEFINE q == [pc |-> "idle", kind |-> Nothing, credential |-> Nothing,
                 time |-> 0, answer |-> Nothing]
<1>5. RequestOK(q, now, tenant, retiredAt)
  BY <1>1 DEF AccessInit, RequestOK, RequestRecords
<1>6. q \in RequestRecords
  BY <1>1 DEF RequestRecords
<1> HIDE DEF q
<1>7. reqs = [r \in AccessRequests |-> q]
  BY DEF AccessInit, q
<1> QED BY <1>4, <1>5, <1>6, <1>7 DEF RequestsInv

LEMMA StepKeepsInvariant == AccessKeysAssumption /\ AccessInv /\ [AccessNext]_accessVars => AccessInv'
<1> SUFFICES ASSUME AccessKeysAssumption, AccessInv, [AccessNext]_accessVars PROVE AccessInv'
  OBVIOUS
<1>1. ProviderInv /\ RequestsInv
  BY InvariantSplits
<1>2. ProviderInv' /\ RequestsInv' => AccessInv'
  BY InvariantJoins, PTL
<1>3. ASSUME NEW r \in AccessRequests, NEW c \in Credentials, VerifyAssertion(r, c)
      PROVE  ProviderInv' /\ RequestsInv'
  BY <1>1, <1>3, AuthenticateKeepsInvariant
<1>4. ASSUME NEW r \in AccessRequests, ReadReadiness(r)
      PROVE  ProviderInv' /\ RequestsInv'
  BY <1>1, <1>4, ReadReadinessKeepsInvariant
<1>5. CASE HeadersArrive \/ RequestFails \/ BodyEnds \/ BodyFails
  BY <1>1, <1>2, <1>5, RefreshStepsKeepInvariant
<1>6. CASE Rotate
  BY <1>1, <1>2, <1>6, RotateKeepsInvariant
<1>7. CASE Tick
  BY <1>1, <1>2, <1>7, TickKeepsInvariant
<1>8. CASE UNCHANGED accessVars
  BY <1>1, <1>2, <1>8 DEF accessVars, ProviderInv, RequestsInv, KeyInv, RefreshInv
<1> QED BY <1>2, <1>3, <1>4, <1>5, <1>6, <1>7, <1>8 DEF AccessNext

(* The invariant of the verifier and its provider of keys: what is cached   *)
(* or on its way was published late enough, whoever waits had nothing else  *)
(* against him, and the cooldown of a failed refresh is remembered          *)
(* (cloudflare-access-jwks-provider.ts and cloudflare-access-jwt-verifier.ts). *)
THEOREM AccessKeysInvariance == AccessKeysAssumption => (AccessSpec => []AccessInv)
<1>1. ASSUME AccessKeysAssumption PROVE AccessSpec => []AccessInv
  <2>1. AccessInit => AccessInv
    BY <1>1, InitialInvariant
  <2>2. AccessInv /\ [AccessNext]_accessVars => AccessInv'
    BY <1>1, StepKeepsInvariant
  <2> QED BY <2>1, <2>2, PTL DEF AccessSpec
<1> QED BY <1>1

(* Whoever is let in presented an assertion of this tenant and audience,    *)
(* valid at the time it arrived, signed by a key the tenant published less  *)
(* than a cache lifetime before, however slow, joined or failed the         *)
(* refreshes were (verify, #getCachedKey and #loadKeys).                    *)
THEOREM OnlyGenuineAssertionsAreLetIn ==
    AccessKeysAssumption => (AccessSpec => []OnlyGenuineIsLetIn)
<1>1. AccessInv => OnlyGenuineIsLetIn
  BY DEF AccessInv
<1> QED BY <1>1, AccessKeysInvariance, PTL

(* An idle request for verification whose key the last document holds is    *)
(* decided by this very step.                                               *)
LEMMA CachedKeyDecides ==
  ASSUME AccessKeysAssumption, ProviderInv, RequestsInv, AccessNext
  PROVE  DecidedFromCache
<1> SUFFICES ASSUME NEW r \in AccessRequests,
                    reqs[r].pc = "idle", reqs'[r].kind = "verify",
                    EarlyRefusal(reqs'[r].credential, now) = Nothing,
                    history.loaded # Nothing,
                    reqs'[r].credential.kid \in history.loaded.keys,
                    now < history.loaded.at + CacheLifetime
             PROVE  /\ reqs'[r].pc = "answered"
                    /\ reqs'[r].answer.outcome # "unavailable"
  BY DEF DecidedFromCache
<1>1. /\ reqs \in [AccessRequests -> RequestRecords]
      /\ reqs[r].kind = Nothing /\ Nothing # "verify"
      /\ now \in Nat
  BY DEF RequestsInv, RequestOK, ProviderInv, AccessKeysAssumption
<1>2. reqs'[r] # reqs[r]
  BY <1>1
<1>3. ASSUME NEW c, GetCachedKey(jwks, c.kid, now) = FALSE,
             c = reqs'[r].credential
      PROVE  FALSE
  BY <1>3 DEF ProviderInv, RefreshInv, GetCachedKey
<1>4. ASSUME NEW s \in AccessRequests, NEW c \in Credentials, VerifyAssertion(s, c)
      PROVE  /\ reqs'[r].pc = "answered"
             /\ reqs'[r].answer.outcome # "unavailable"
  <2>1. \E q : q.credential = c /\ reqs' = [reqs EXCEPT ![s] = q]
    BY <1>4 DEF VerifyAssertion, AnswerAtOnce, AwaitRefresh
  <2>2. s = r /\ reqs'[r].credential = c
    BY <1>1, <1>2, <2>1
  <2>3. EarlyRefusal(c, now) = Nothing /\ GetCachedKey(jwks, c.kid, now)
    BY <1>3, <2>2 DEF GetCachedKey
  <2>4. AnswerAtOnce(r, "verify", c, Verified(c, c.kid, now))
    BY <1>4, <2>2, <2>3 DEF VerifyAssertion
  <2>5. Verified(c, c.kid, now).outcome # "unavailable"
    BY <1>1, <2>3, VerifiedIsGenuine
  <2> QED BY <1>1, <2>4, <2>5 DEF AnswerAtOnce
<1>5. ASSUME NEW s \in AccessRequests, ReadReadiness(s) PROVE FALSE
  <2>1. \E q : q.kind = "readiness" /\ reqs' = [reqs EXCEPT ![s] = q]
    BY <1>5 DEF ReadReadiness, AnswerAtOnce, AwaitRefresh
  <2>2. s = r /\ reqs'[r].kind = "readiness"
    BY <1>1, <1>2, <2>1
  <2> QED BY <2>2
<1>6. ASSUME NEW keys, Settle(keys) PROVE FALSE
  BY <1>2, <1>6 DEF Settle, ResumeAll
<1>7. CASE HeadersArrive \/ Rotate \/ Tick
  BY <1>2, <1>7 DEF HeadersArrive, Rotate, Tick
<1> QED BY <1>4, <1>5, <1>6, <1>7 DEF AccessNext, RequestFails, BodyEnds, BodyFails

(* Only a provider that is not cooling down begins a refresh.               *)
LEMMA CooldownSpacesRefreshes ==
  ASSUME AccessKeysAssumption, ProviderInv, AccessNext
  PROVE  SpacedAfterFailure
<1> SUFFICES ASSUME flight = Nothing, flight' # Nothing
             PROVE  ~CoolingDown(jwks, now)
  BY CooldownIsKept DEF SpacedAfterFailure
<1>1. ASSUME NEW s \in AccessRequests, NEW c \in Credentials, VerifyAssertion(s, c)
      PROVE  ~CoolingDown(jwks, now)
  BY <1>1 DEF VerifyAssertion, AnswerAtOnce
<1>2. ASSUME NEW s \in AccessRequests, ReadReadiness(s) PROVE ~CoolingDown(jwks, now)
  BY <1>2 DEF ReadReadiness, AnswerAtOnce
<1>3. CASE HeadersArrive \/ RequestFails \/ BodyEnds \/ BodyFails
  BY <1>3 DEF HeadersArrive, RequestFails, BodyEnds, BodyFails
<1>4. CASE Rotate \/ Tick
  BY <1>4 DEF Rotate, Tick
<1> QED BY <1>1, <1>2, <1>3, <1>4 DEF AccessNext

(* A request whose key is cached is decided from the cache, and a failed    *)
(* refresh is not tried again before its cooldown (resolveKey,              *)
(* readReadiness and #loadKeys).                                            *)
THEOREM KeysAreRequestedSparingly ==
    AccessKeysAssumption => (AccessSpec => RefreshesAreRationed)
<1> SUFFICES ASSUME AccessKeysAssumption PROVE AccessSpec => RefreshesAreRationed
  OBVIOUS
<1>1. AccessInv /\ [AccessNext]_accessVars => [RationedStep]_accessVars
  <2> SUFFICES ASSUME AccessInv, AccessNext PROVE RationedStep
    BY DEF RationedStep
  <2>1. ProviderInv /\ RequestsInv
    BY InvariantSplits
  <2> QED BY <2>1, CachedKeyDecides, CooldownSpacesRefreshes DEF RationedStep
<1> QED BY <1>1, AccessKeysInvariance, PTL DEF AccessSpec, RefreshesAreRationed

-----------------------------------------------------------------------------
(* The steps of a handler: the checks of its route and its gate in any      *)
(* order, between the admission and the protected operation.                *)

RouteStepNames == (Checks \ {"envelope"}) \cup {"gate"}

LEMMA RouteStepsAreChecks ==
  ASSUME NEW o
  PROVE  RouteSteps(o) \in Seq(RouteStepNames)
<1>0. {"shape", "query", "body", "gate", "confirmation", "future"} \subseteq RouteStepNames
  BY DEF RouteStepNames, Checks
<1>1. BackupSteps(o) \in Seq(RouteStepNames)
  <2>1. /\ <<"shape", "query">> \in Seq(RouteStepNames)
        /\ <<"shape", "body", "gate", "confirmation">> \in Seq(RouteStepNames)
        /\ <<"shape", "body", "confirmation", "gate">> \in Seq(RouteStepNames)
    BY <1>0
  <2> QED BY <2>1 DEF BackupSteps
<1>2. WakeSteps(o) \in Seq(RouteStepNames)
  <2>1. /\ <<"shape", "body", "gate", "future">> \in Seq(RouteStepNames)
        /\ <<"shape", "gate">> \in Seq(RouteStepNames)
    BY <1>0
  <2> QED BY <2>1 DEF WakeSteps
<1>3. {ServiceActionSteps, AvailabilitySteps, ServiceScheduleSteps, MachineScheduleSteps,
       HistorySteps, ShutdownSteps} \subseteq Seq(RouteStepNames)
  BY <1>0 DEF ServiceActionSteps, AvailabilitySteps, ServiceScheduleSteps,
              MachineScheduleSteps, HistorySteps, ShutdownSteps
<1>4. {AvailabilityPreviewSteps, SchedulePreviewSteps, MachinePreviewSteps, OverviewSteps,
       DashboardSteps, EventHistoryQuerySteps, SecurityStatusSteps, DiagnosticsSteps,
       ServiceReadSteps} \subseteq Seq(RouteStepNames)
  BY <1>0 DEF AvailabilityPreviewSteps, SchedulePreviewSteps, MachinePreviewSteps,
              OverviewSteps, DashboardSteps, EventHistoryQuerySteps,
              SecurityStatusSteps, DiagnosticsSteps, ServiceReadSteps
<1> QED BY <1>1, <1>2, <1>3, <1>4 DEF RouteSteps

(* Where each step of a handler is.                                         *)
HandlerShape(o) ==
  LET steps == HandlerSteps(o)
      n == Len(steps)
      m == Len(RouteSteps(o))
  IN  /\ steps \in Seq(StepNames) /\ m \in Nat
      /\ n = m + (IF o \in Mutations THEN 8 ELSE 6)
      /\ steps[1] = "envelope" /\ steps[2] = "admission"
      /\ \A i \in 3 .. m + 2 : steps[i] = RouteSteps(o)[i - 2]
      /\ steps[m + 3] = "authenticate" /\ steps[m + 4] = "authorize"
      /\ steps[m + 5] = "decide"
      /\ IF o \in Mutations
         THEN /\ steps[m + 6] = "begin" /\ steps[m + 7] = "invoke"
              /\ steps[m + 8] = "complete"
         ELSE steps[m + 6] = "invoke"

LEMMA HandlerStepsInOrder == ASSUME NEW o PROVE HandlerShape(o)
<1> DEFINE first == <<"envelope", "admission">>
           route == RouteSteps(o)
           guard == <<"authenticate", "authorize", "decide">>
           call == IF o \in Mutations THEN <<"begin", "invoke", "complete">> ELSE <<"invoke">>
           m == Len(route)
<1>1. route \in Seq(StepNames) /\ m \in Nat
  <2>1. RouteStepNames \subseteq StepNames
    BY DEF RouteStepNames, Checks, StepNames
  <2>2. route \in Seq(RouteStepNames)
    BY RouteStepsAreChecks
  <2> HIDE DEF route
  <2> QED BY <2>1, <2>2, SeqMonotonic, LenProperties
<1>2. HandlerSteps(o) = (first \o route) \o (guard \o call)
  BY DEF HandlerSteps, ProtectedSteps
<1>3. first \in Seq(StepNames) /\ guard \in Seq(StepNames) /\ call \in Seq(StepNames)
  <2>1. /\ <<"begin", "invoke", "complete">> \in Seq(StepNames) /\ <<"invoke">> \in Seq(StepNames)
        /\ first \in Seq(StepNames) /\ guard \in Seq(StepNames)
    BY DEF StepNames, Checks
  <2> QED BY <2>1
<1>4. /\ first \o route \in Seq(StepNames) /\ Len(first \o route) = m + 2
      /\ (first \o route)[1] = "envelope" /\ (first \o route)[2] = "admission"
      /\ \A i \in 3 .. m + 2 : (first \o route)[i] = route[i - 2]
  <2> HIDE DEF route
  <2> QED BY <1>1, <1>3, ConcatProperties
<1>5. /\ guard \o call \in Seq(StepNames)
      /\ Len(guard \o call) = IF o \in Mutations THEN 6 ELSE 4
      /\ (guard \o call)[1] = "authenticate" /\ (guard \o call)[2] = "authorize"
      /\ (guard \o call)[3] = "decide"
      /\ IF o \in Mutations
         THEN /\ (guard \o call)[4] = "begin" /\ (guard \o call)[5] = "invoke"
              /\ (guard \o call)[6] = "complete"
         ELSE (guard \o call)[4] = "invoke"
  BY <1>3, ConcatProperties
<1> DEFINE f == first \o route
           g == guard \o call
<1>6. /\ f \o g \in Seq(StepNames)
      /\ Len(f \o g) = Len(f) + Len(g)
      /\ \A i \in 1 .. Len(f) + Len(g) :
             (f \o g)[i] = IF i <= Len(f) THEN f[i] ELSE g[i - Len(f)]
  <2> HIDE DEF f, g
  <2>1. f \in Seq(StepNames) /\ g \in Seq(StepNames)
    BY <1>4, <1>5 DEF f, g
  <2> QED BY <2>1, ConcatProperties
<1> HIDE DEF f, g, first, guard, call, route
<1>7. HandlerSteps(o) = f \o g
  BY <1>2 DEF f, g
<1>8. /\ Len(f) = m + 2 /\ f[1] = "envelope" /\ f[2] = "admission"
      /\ \A i \in 3 .. m + 2 : f[i] = route[i - 2]
  BY <1>4 DEF f
<1>9. /\ Len(g) = IF o \in Mutations THEN 6 ELSE 4
      /\ g[1] = "authenticate" /\ g[2] = "authorize" /\ g[3] = "decide"
      /\ IF o \in Mutations
         THEN g[4] = "begin" /\ g[5] = "invoke" /\ g[6] = "complete"
         ELSE g[4] = "invoke"
  BY <1>5 DEF g
<1>10. m \in Nat /\ m = Len(RouteSteps(o))
  BY <1>1 DEF route
<1>11. \A i \in 1 .. Len(f) : (f \o g)[i] = f[i]
  BY <1>6, <1>8, <1>9, <1>10
<1>12. \A i \in 1 .. Len(g) : (f \o g)[m + 2 + i] = g[i]
  BY <1>6, <1>8, <1>9, <1>10
<1>13. \A i \in 3 .. m + 2 : (f \o g)[i] = RouteSteps(o)[i - 2]
  BY <1>8, <1>10, <1>11 DEF route
<1>14. (f \o g)[1] = "envelope" /\ (f \o g)[2] = "admission"
  BY <1>8, <1>10, <1>11
<1>15. /\ (f \o g)[m + 3] = "authenticate" /\ (f \o g)[m + 4] = "authorize"
       /\ (f \o g)[m + 5] = "decide"
       /\ IF o \in Mutations
          THEN /\ (f \o g)[m + 6] = "begin" /\ (f \o g)[m + 7] = "invoke"
               /\ (f \o g)[m + 8] = "complete"
          ELSE (f \o g)[m + 6] = "invoke"
  <2>1. {1, 2, 3, 4} \subseteq 1 .. Len(g) /\ (o \in Mutations => {5, 6} \subseteq 1 .. Len(g))
    BY <1>9
  <2>2. /\ m + 2 + 1 = m + 3 /\ m + 2 + 2 = m + 4 /\ m + 2 + 3 = m + 5
        /\ m + 2 + 4 = m + 6 /\ m + 2 + 5 = m + 7 /\ m + 2 + 6 = m + 8
    BY <1>10
  <2> HIDE DEF m
  <2> QED BY <1>9, <1>12, <2>1, <2>2
<1>16. Len(f \o g) = m + (IF o \in Mutations THEN 8 ELSE 6)
  BY <1>6, <1>8, <1>9, <1>10
<1> HIDE DEF m
<1> QED BY <1>6, <1>7, <1>10, <1>13, <1>14, <1>15, <1>16 DEF HandlerShape

(* What a handler does after each of its steps.                             *)
Comes(rest, names) == rest # <<>> /\ Head(rest) \in names
Succession(o, step, rest) ==
  /\ step \in {"begin", "complete"} => o \in Mutations
  /\ step = "envelope" => Comes(rest, {"admission"})
  /\ step \in RouteStepNames \cup {"admission"}
       => Comes(rest, RouteStepNames \cup {"authenticate"})
  /\ step = "authenticate" => Comes(rest, {"authorize"})
  /\ step = "authorize" => Comes(rest, {"decide"})
  /\ step = "decide" => Comes(rest, IF o \in Mutations THEN {"begin"} ELSE {"invoke"})
  /\ step = "begin" => Comes(rest, {"invoke"})
  /\ step = "invoke" /\ o \in Mutations => Comes(rest, {"complete"})

LEMMA StepsSucceed ==
  ASSUME NEW o, NEW p \in 1 .. Len(HandlerSteps(o)), NEW rest,
         p < Len(HandlerSteps(o)) => Comes(rest, {HandlerSteps(o)[p + 1]})
  PROVE  Succession(o, HandlerSteps(o)[p], rest)
<1> DEFINE steps == HandlerSteps(o)
           n == Len(steps)
           m == Len(RouteSteps(o))
<1>1. HandlerShape(o)
  BY HandlerStepsInOrder
<1>2. m \in Nat /\ n = m + (IF o \in Mutations THEN 8 ELSE 6) /\ p \in Int
  BY <1>1 DEF HandlerShape
<1>3. \A i \in 3 .. m + 2 : steps[i] \in RouteStepNames
  <2> SUFFICES ASSUME NEW i \in 3 .. m + 2 PROVE steps[i] \in RouteStepNames
    OBVIOUS
  <2>1. steps[i] = RouteSteps(o)[i - 2]
    BY <1>1 DEF HandlerShape
  <2>2. i - 2 \in 1 .. m
    BY <1>2
  <2>3. RouteSteps(o) \in [1 .. m -> RouteStepNames]
    BY RouteStepsAreChecks, LenProperties
  <2> QED BY <2>1, <2>2, <2>3
<1>4. /\ steps[1] = "envelope" /\ steps[2] = "admission" /\ steps[m + 3] = "authenticate"
      /\ steps[m + 4] = "authorize" /\ steps[m + 5] = "decide"
      /\ IF o \in Mutations
         THEN /\ steps[m + 6] = "begin" /\ steps[m + 7] = "invoke"
              /\ steps[m + 8] = "complete"
         ELSE steps[m + 6] = "invoke"
  BY <1>1 DEF HandlerShape
<1>5. \A x \in RouteStepNames :
        x \notin {"envelope", "admission", "authenticate", "authorize", "decide",
                  "begin", "invoke", "complete"}
  BY DEF RouteStepNames, Checks
<1>6. p < n => Comes(rest, {steps[p + 1]})
  OBVIOUS
<1> HIDE DEF n, m, steps
<1>7. Succession(o, steps[p], rest)
  <2>1. CASE p = 1
    BY <2>1, <1>2, <1>4, <1>5, <1>6 DEF Succession, Comes
  <2>2. CASE p \in 2 .. m + 2
    <3>1. steps[p] \in RouteStepNames \cup {"admission"}
      BY <2>2, <1>2, <1>3, <1>4
    <3>2. steps[p + 1] \in RouteStepNames \cup {"authenticate"}
      <4>1. CASE p + 1 \in 3 .. m + 2
        BY <4>1, <1>3
      <4>2. CASE p + 1 = m + 3
        BY <4>2, <1>4
      <4> QED BY <2>2, <4>1, <4>2, <1>2
    <3>3. Comes(rest, {steps[p + 1]})
      BY <2>2, <1>2, <1>6
    <3>4. Comes(rest, RouteStepNames \cup {"authenticate"})
      BY <3>2, <3>3 DEF Comes
    <3> QED BY <3>1, <3>4, <1>5 DEF Succession
  <2>3. CASE p = m + 3
    <3>1. p + 1 = m + 4 /\ p < n /\ steps[p] = "authenticate"
      BY <2>3, <1>2, <1>4
    <3> QED BY <3>1, <1>4, <1>5, <1>6 DEF Succession
  <2>4. CASE p = m + 4
    <3>1. p + 1 = m + 5 /\ p < n /\ steps[p] = "authorize"
      BY <2>4, <1>2, <1>4
    <3> QED BY <3>1, <1>4, <1>5, <1>6 DEF Succession
  <2>5. CASE p = m + 5
    <3>1. p + 1 = m + 6 /\ p < n /\ steps[p] = "decide"
      BY <2>5, <1>2, <1>4
    <3> QED BY <3>1, <1>4, <1>5, <1>6 DEF Succession
  <2>6. CASE p = m + 6 /\ o \in Mutations
    <3>1. p + 1 = m + 7 /\ p < n /\ steps[p] = "begin"
      BY <2>6, <1>2, <1>4
    <3> QED BY <3>1, <2>6, <1>4, <1>5, <1>6 DEF Succession
  <2>7. CASE p = m + 6 /\ o \notin Mutations
    <3>1. steps[p] = "invoke"
      BY <2>7, <1>4
    <3> QED BY <3>1, <2>7, <1>5 DEF Succession
  <2>8. CASE p = m + 7 /\ o \in Mutations
    <3>1. p + 1 = m + 8 /\ p < n /\ steps[p] = "invoke"
      BY <2>8, <1>2, <1>4
    <3> QED BY <3>1, <2>8, <1>4, <1>5, <1>6 DEF Succession
  <2>9. CASE p = m + 8 /\ o \in Mutations
    <3>1. steps[p] = "complete"
      BY <2>9, <1>4
    <3> QED BY <3>1, <2>9, <1>5 DEF Succession
  <2> HIDE DEF m, n
  <2>10. p \in 1 .. n
    BY DEF n, steps
  <2> QED BY <1>2, <2>1, <2>2, <2>3, <2>4, <2>5, <2>6, <2>7, <2>8, <2>9, <2>10
<1> QED BY <1>7 DEF steps

LEMMA NextStep ==
  ASSUME TypeOK, NEW r \in Requests, LeftToDo(r), todo[r] # <<>>
  PROVE  /\ asks[r] # NoRequest
         /\ Head(todo[r]) \in StepNames
         /\ Tail(todo[r]) \in Seq(StepNames)
         /\ Succession(Operation(r), Head(todo[r]), Tail(todo[r]))
<1> DEFINE o == Operation(r)
           steps == HandlerSteps(o)
           n == Len(steps)
           t == todo[r]
           done == n - Len(t)
<1>1. t \in Seq(StepNames) /\ t # <<>>
  BY DEF TypeOK
<1>2. n \in Nat
  BY HandlerStepsInOrder, LenProperties DEF HandlerShape
<1>3. asks[r] # NoRequest /\ done >= 0 /\ \A i \in DOMAIN t : t[i] = steps[done + i]
  BY DEF LeftToDo
<1>4. DOMAIN t = 1 .. Len(t) /\ Len(t) \in Nat \ {0}
  <2> HIDE DEF t
  <2> QED BY <1>1, LenProperties, EmptySeq
<1>5. /\ Head(t) \in StepNames /\ Tail(t) \in Seq(StepNames) /\ Head(t) = t[1]
      /\ Len(Tail(t)) = Len(t) - 1
      /\ \A i \in 1 .. Len(Tail(t)) : Tail(t)[i] = t[i + 1]
  <2> HIDE DEF t
  <2> QED BY <1>1, HeadTailProperties
<1> HIDE DEF n, t, steps
<1>6. done + 1 \in 1 .. n /\ Head(t) = steps[done + 1]
  BY <1>2, <1>3, <1>4, <1>5
<1>7. done + 1 < n => Comes(Tail(t), {steps[done + 1 + 1]})
  <2> SUFFICES ASSUME done + 1 < n PROVE Comes(Tail(t), {steps[done + 1 + 1]})
    OBVIOUS
  <2>1. Len(t) >= 2
    BY <1>2, <1>4
  <2>2. Tail(t) # <<>> /\ Head(Tail(t)) = Tail(t)[1]
    <3>1. Len(Tail(t)) # 0 /\ Len(<<>>) = 0
      BY <2>1, <1>4, <1>5
    <3>2. Tail(t) # <<>>
      BY <3>1
    <3>3. ASSUME NEW s \in Seq(StepNames), s # <<>> PROVE Head(s) = s[1]
      OBVIOUS
    <3> QED BY <3>2, <3>3, <1>5
  <2>3. Tail(t)[1] = t[2]
    BY <2>1, <1>4, <1>5
  <2>4. t[2] = steps[done + 2]
    BY <2>1, <1>3, <1>4
  <2>5. done + 1 + 1 = done + 2
    BY <1>2, <1>4
  <2> QED BY <2>2, <2>3, <2>4, <2>5 DEF Comes
<1> DEFINE p == done + 1
<1>8. p \in 1 .. Len(HandlerSteps(o))
  BY <1>6 DEF n, steps
<1>9. p < Len(HandlerSteps(o)) => Comes(Tail(t), {HandlerSteps(o)[p + 1]})
  BY <1>7 DEF n, steps
<1>10. Head(t) = HandlerSteps(o)[p]
  BY <1>6 DEF steps
<1> HIDE DEF p, done, o
<1>11. Succession(o, HandlerSteps(o)[p], Tail(t))
  BY <1>8, <1>9, StepsSucceed
<1> QED BY <1>3, <1>5, <1>10, <1>11 DEF t, o

\* What is left after a step is still the end of the same steps.
LEMMA LeftAfterAStep ==
  ASSUME TypeOK, NEW r \in Requests, LeftToDo(r), todo[r] # <<>>,
         asks' = asks, todo' = [todo EXCEPT ![r] = Tail(@)]
  PROVE  LeftToDo(r)'
<1> DEFINE steps == HandlerSteps(Operation(r))
           n == Len(steps)
           t == todo[r]
           rest == Tail(todo[r])
<1>1. t \in Seq(StepNames) /\ t # <<>> /\ todo'[r] = rest
  BY DEF TypeOK
<1>2. n \in Nat
  BY HandlerStepsInOrder, LenProperties DEF HandlerShape
<1>3. asks[r] # NoRequest /\ n - Len(t) >= 0 /\ \A i \in DOMAIN t : t[i] = steps[n - Len(t) + i]
  BY DEF LeftToDo
<1>4. DOMAIN t = 1 .. Len(t) /\ Len(t) \in Nat \ {0}
  <2> HIDE DEF t
  <2> QED BY <1>1, LenProperties, EmptySeq
<1>5. /\ rest \in Seq(StepNames) /\ Len(rest) = Len(t) - 1
      /\ \A i \in 1 .. Len(rest) : rest[i] = t[i + 1]
  <2>1. rest = Tail(t)
    OBVIOUS
  <2> HIDE DEF t, rest
  <2> QED BY <1>1, <2>1, HeadTailProperties
<1>6. DOMAIN rest = 1 .. Len(rest)
  <2> HIDE DEF rest
  <2> QED BY <1>5, LenProperties
<1> HIDE DEF n, t, steps, rest
<1>7. n - Len(rest) >= 0
  BY <1>2, <1>3, <1>4, <1>5
<1>8. ASSUME NEW i \in DOMAIN rest PROVE rest[i] = steps[n - Len(rest) + i]
  <2>1. i + 1 \in DOMAIN t /\ rest[i] = t[i + 1]
    BY <1>4, <1>5, <1>6
  <2>2. t[i + 1] = steps[n - Len(t) + (i + 1)]
    BY <2>1, <1>3
  <2>3. n - Len(t) + (i + 1) = n - Len(rest) + i
    BY <1>2, <1>4, <1>5, <1>6
  <2> QED BY <2>1, <2>2, <2>3
<1>9. asks'[r] # NoRequest' /\ Operation(r)' = Operation(r)
  BY <1>3 DEF Operation, NoRequest, None
<1> QED BY <1>1, <1>7, <1>8, <1>9 DEF LeftToDo, n, steps, rest

-----------------------------------------------------------------------------
(* The catalogue and the answers.                                           *)

AuditedOperations ==
  ServiceActions \cup AvailabilityMutations \cup ScheduleMutations \cup MachineMutations
    \cup BackupTargetMutations \cup HistoryMutations \cup WakeMutations
    \cup ShutdownOperations \cup {"run_backup_scheduler_tick"}

Described(d) ==
  d.operation # None /\ (d.method # "GET" => d.operation \in AuditedOperations)

LEMMA CatalogIsDescribed == \A d \in Catalog : Described(d)
<1> USE DEF Described, None, Read, Mutation, MutationWithoutConfirmation
<1>1. \A d \in PowerRoutes : Described(d)
  BY DEF PowerRoutes, AuditedOperations, WakeMutations, ShutdownOperations
<1>2. \A d \in ServiceRoutes : Described(d)
  BY DEF ServiceRoutes, AuditedOperations, ServiceActions
<1>3. \A d \in AvailabilityRoutes : Described(d)
  BY DEF AvailabilityRoutes, AuditedOperations, AvailabilityMutations, ScheduleMutations
<1>4. \A d \in MachineRoutes : Described(d)
  BY DEF MachineRoutes, AuditedOperations, MachineMutations
<1>5. \A d \in BackupRoutes : Described(d)
  BY DEF BackupRoutes, AuditedOperations, BackupTargetMutations
<1>6. \A d \in HistoryRoutes : Described(d)
  BY DEF HistoryRoutes, AuditedOperations, HistoryMutations
<1>7. \A d \in ObservationRoutes : Described(d)
  BY DEF ObservationRoutes
<1> QED BY <1>1, <1>2, <1>3, <1>4, <1>5, <1>6, <1>7 DEF Catalog

LEMMA MutationsAreAudited == Mutations \subseteq AuditedOperations
BY CatalogIsDescribed DEF Mutations, Described

LEMMA NoneIsNotRouted == None \notin RoutedOperations
BY CatalogIsDescribed DEF RoutedOperations, Described

LEMMA ShutdownsAreMutations == ShutdownOperations \subseteq Mutations
<1> SUFFICES ASSUME NEW o \in ShutdownOperations PROVE o \in Mutations
  OBVIOUS
<1> DEFINE d == Mutation("POST", o, "power_operation")
<1>1. d.method # "GET" /\ d.operation = o
  BY DEF Mutation
<1>2. d \in Catalog
  BY DEF Catalog, PowerRoutes
<1> QED BY <1>1, <1>2 DEF Mutations

\* The errors a caller gets once the operation may have had an effect.
AfterTheEffect ==
  {"protected_operation_failed", "claim_failed", "execution_failed", "audit_trail",
   "partial_effect"}

\* No error is answered as a success; an error raised after the effect is not
\* answered as a refusal.
Candid(answered, error) ==
  answered \notin SuccessStatuses /\ (error \in AfterTheEffect => answered \notin RefusedStatuses)

LEMMA ErrorsAreNoSuccess ==
  ASSUME NEW o, NEW error
  PROVE  Candid(ErrorAnswer(o, error), error)
<1> USE DEF Candid, AfterTheEffect, RefusedStatuses, SuccessStatuses, AccessErrors
<1>1. error \in AccessErrors => Candid(AccessAnswer(error), error)
  BY DEF AccessAnswer
<1>2. Candid(ServiceAnswer(error), error)
  BY <1>1 DEF ServiceAnswer
<1>3. Candid(AvailabilityAnswer(error), error)
  BY <1>1 DEF AvailabilityAnswer
<1>4. Candid(ServiceScheduleAnswer(error), error)
  BY <1>1 DEF ServiceScheduleAnswer
<1>5. Candid(MachineScheduleAnswer(error), error)
  BY <1>1 DEF MachineScheduleAnswer
<1>6. Candid(BackupAnswer(error), error)
  BY <1>1 DEF BackupAnswer
<1>7. Candid(HistoryAnswer(error), error)
  BY <1>1 DEF HistoryAnswer
<1>8. Candid(WakeAnswer(error), error)
  BY <1>1 DEF WakeAnswer
<1>9. Candid(ShutdownAnswer(error), error)
  BY <1>1 DEF ShutdownAnswer
<1>10. Candid(EventHistoryAnswer(error), error)
  BY <1>1 DEF EventHistoryAnswer
<1>11. Candid(ObservationAnswer(error), error)
  BY <1>1 DEF ObservationAnswer
<1> HIDE DEF Candid, AfterTheEffect, RefusedStatuses, SuccessStatuses, AccessErrors
<1> QED BY <1>2, <1>3, <1>4, <1>5, <1>6, <1>7, <1>8, <1>9, <1>10, <1>11 DEF ErrorAnswer

Rechecked == ServiceActions \cup WakeMutations \cup ShutdownOperations

LEMMA PartialEffectIsRechecked ==
  ASSUME NEW o \in Rechecked
  PROVE  ErrorAnswer(o, "partial_effect") = "state_recheck_required"
<1>1. /\ ServiceAnswer("partial_effect") = "state_recheck_required"
      /\ WakeAnswer("partial_effect") = "state_recheck_required"
      /\ ShutdownAnswer("partial_effect") = "state_recheck_required"
  BY DEF ServiceAnswer, WakeAnswer, ShutdownAnswer, AccessErrors
<1>2. CASE o \in ServiceActions
  <2>1. Mutation("POST", o, "service_mutation") \in ServiceRoutes
    BY <1>2 DEF ServiceRoutes
  <2>2. Mutation("POST", o, "service_mutation").operation = o
    BY DEF Mutation
  <2>3. o \in {d.operation : d \in ServiceRoutes}
    BY <2>1, <2>2
  <2>4. o \in {"start_registered_service", "stop_registered_service",
               "restart_registered_service"}
    BY <1>2 DEF ServiceActions
  <2>5. o \notin {d.operation : d \in MachineRoutes}
    BY <2>4 DEF MachineRoutes, Read, Mutation
  <2>6. o \notin {d.operation : d \in BackupRoutes}
    BY <2>4 DEF BackupRoutes, Read, Mutation
  <2>7. o \notin {d.operation : d \in HistoryRoutes}
    BY <2>4 DEF HistoryRoutes, HistoryMutations, Read, Mutation
  <2>8. o \notin AvailabilityMutations \cup ScheduleMutations \cup WakeMutations
                   \cup ShutdownOperations
    BY <2>4 DEF AvailabilityMutations, ScheduleMutations, WakeMutations, ShutdownOperations
  <2> QED BY <1>1, <2>3, <2>4, <2>5, <2>6, <2>7, <2>8 DEF ErrorAnswer
<1>3. CASE o \in WakeMutations \cup ShutdownOperations
  <2>1. o \in {"schedule_wake_alarm", "cancel_wake_alarm",
               "prepare_machine_shutdown_occurrence",
               "execute_machine_shutdown_occurrence"}
    BY <1>3 DEF WakeMutations, ShutdownOperations
  <2>2. o \notin {d.operation : d \in ServiceRoutes}
    BY <2>1 DEF ServiceRoutes, ServiceActions, Read, Mutation
  <2>3. o \notin {d.operation : d \in MachineRoutes}
    BY <2>1 DEF MachineRoutes, Read, Mutation
  <2>4. o \notin {d.operation : d \in BackupRoutes}
    BY <2>1 DEF BackupRoutes, Read, Mutation
  <2>5. o \notin {d.operation : d \in HistoryRoutes}
    BY <2>1 DEF HistoryRoutes, HistoryMutations, Read, Mutation
  <2>6. o \notin AvailabilityMutations \cup ScheduleMutations
    BY <2>1 DEF AvailabilityMutations, ScheduleMutations
  <2>7. IF o \in WakeMutations THEN ErrorAnswer(o, "partial_effect") = WakeAnswer("partial_effect")
        ELSE ErrorAnswer(o, "partial_effect") = ShutdownAnswer("partial_effect")
    BY <1>3, <2>1, <2>2, <2>3, <2>4, <2>5, <2>6
       DEF ErrorAnswer, WakeMutations, ShutdownOperations
  <2> QED BY <1>1, <2>7
<1> QED BY <1>2, <1>3 DEF Rechecked

LEMMA RefusalsAreNoSuccess ==
  ASSUME NEW step, NEW o
  PROVE  SuccessStatuses \cap Refusals(step, o) = {}
<1> USE DEF SuccessStatuses
<1>1. SuccessStatuses \cap ShapeRefusals(o) = {}
  BY DEF ShapeRefusals
<1>2. SuccessStatuses \cap BodyRefusals(o) = {}
  BY DEF BodyRefusals, ServiceBody, AvailabilityBody, ServiceScheduleBody,
         MachineScheduleBody, BackupBody, HistoryBody, WakeBody, ShutdownBody
<1>3. SuccessStatuses \cap ConfirmationRefusals(o) = {}
  BY DEF ConfirmationRefusals, ServiceConfirmation, AvailabilityConfirmation,
         ServiceScheduleConfirmation, MachineScheduleConfirmation, BackupConfirmation,
         HistoryConfirmation, ShutdownConfirmation
<1>4. /\ SuccessStatuses \cap EnvelopeRefusals = {} /\ SuccessStatuses \cap FutureRefusals = {}
      /\ SuccessStatuses \cap RunQueryRefusals = {} /\ SuccessStatuses \cap HistoryQueryRefusals = {}
  BY DEF EnvelopeRefusals, FutureRefusals, RunQueryRefusals, HistoryQueryRefusals
<1> QED BY <1>1, <1>2, <1>3, <1>4 DEF Refusals

-----------------------------------------------------------------------------
(* The route of an operation, and what the catalogue declares of it.        *)

ConfirmedRoutes ==
  {<<"shape", "body", "confirmation", "gate">>, <<"shape", "gate", "body", "confirmation">>,
   <<"shape", "body", "gate", "confirmation">>}
UnconfirmedRoutes == {<<"shape", "body", "gate", "future">>, <<"shape", "gate">>}
ReadRoutes == {<<"shape">>, <<"shape", "query">>}

LEMMA RouteOfOperation ==
  ASSUME NEW o
  PROVE  /\ o \in AuditedOperations \ WakeMutations => RouteSteps(o) \in ConfirmedRoutes
         /\ o \in WakeMutations => RouteSteps(o) \in UnconfirmedRoutes
         /\ o \notin AuditedOperations => RouteSteps(o) \in ReadRoutes
<1> USE DEF AuditedOperations, ServiceActions, AvailabilityMutations, ScheduleMutations,
            MachineMutations, BackupTargetMutations, HistoryMutations, WakeMutations,
            ShutdownOperations, BackupMutations
<1>1. /\ {ServiceActionSteps, AvailabilitySteps, ServiceScheduleSteps, MachineScheduleSteps,
          HistorySteps, ShutdownSteps} \subseteq ConfirmedRoutes
      /\ \A p \in BackupMutations : BackupSteps(p) \in ConfirmedRoutes
      /\ \A p \in WakeMutations : WakeSteps(p) \in UnconfirmedRoutes
      /\ {AvailabilityPreviewSteps, SchedulePreviewSteps, MachinePreviewSteps, OverviewSteps,
          DashboardSteps, EventHistoryQuerySteps, SecurityStatusSteps, DiagnosticsSteps,
          ServiceReadSteps} \subseteq ReadRoutes
      /\ BackupSteps("read_backup_runs") \in ReadRoutes
  BY DEF ServiceActionSteps, AvailabilitySteps, ServiceScheduleSteps, MachineScheduleSteps,
         HistorySteps, ShutdownSteps, BackupSteps, WakeSteps, AvailabilityPreviewSteps,
         SchedulePreviewSteps, MachinePreviewSteps, OverviewSteps, DashboardSteps,
         EventHistoryQuerySteps, SecurityStatusSteps, DiagnosticsSteps, ServiceReadSteps,
         ConfirmedRoutes, UnconfirmedRoutes, ReadRoutes
<1>2. o \in ServiceActions => RouteSteps(o) = ServiceActionSteps
  BY DEF RouteSteps
<1>3. o \in AvailabilityMutations => RouteSteps(o) = AvailabilitySteps
  BY DEF RouteSteps
<1>4. o \in ScheduleMutations => RouteSteps(o) = ServiceScheduleSteps
  BY DEF RouteSteps
<1>5. o \in MachineMutations => RouteSteps(o) = MachineScheduleSteps
  BY DEF RouteSteps
<1>6. o \in BackupMutations \cup {"read_backup_runs"} => RouteSteps(o) = BackupSteps(o)
  BY DEF RouteSteps
<1>7. o \in HistoryMutations => RouteSteps(o) = HistorySteps
  BY DEF RouteSteps
<1>8. o \in WakeMutations => RouteSteps(o) = WakeSteps(o)
  BY DEF RouteSteps
<1>9. o \in ShutdownOperations => RouteSteps(o) = ShutdownSteps
  BY DEF RouteSteps
<1>10. o \notin AuditedOperations \cup {"read_backup_runs"} =>
         RouteSteps(o) \in {AvailabilityPreviewSteps, SchedulePreviewSteps,
           MachinePreviewSteps, OverviewSteps, DashboardSteps, EventHistoryQuerySteps,
           SecurityStatusSteps, DiagnosticsSteps, ServiceReadSteps}
  BY DEF RouteSteps
<1> QED BY <1>1, <1>2, <1>3, <1>4, <1>5, <1>6, <1>7, <1>8, <1>9, <1>10

LEMMA RoutesContain ==
  /\ \A s \in ConfirmedRoutes : Contains(s, "gate") /\ Contains(s, "confirmation")
  /\ \A s \in UnconfirmedRoutes : Contains(s, "gate") /\ ~Contains(s, "confirmation")
  /\ \A s \in ReadRoutes : ~Contains(s, "gate") /\ ~Contains(s, "confirmation")
BY DEF ConfirmedRoutes, UnconfirmedRoutes, ReadRoutes, Contains

\* The steps around those of the route are no gate and no confirmation.
LEMMA HandlersContain ==
  ASSUME NEW o, NEW step \in {"gate", "confirmation"}
  PROVE  Contains(HandlerSteps(o), step) <=> Contains(RouteSteps(o), step)
<1> DEFINE steps == HandlerSteps(o)
           n == Len(steps)
           m == Len(RouteSteps(o))
<1>1. /\ m \in Nat /\ n = m + (IF o \in Mutations THEN 8 ELSE 6)
      /\ steps[1] = "envelope" /\ steps[2] = "admission"
      /\ \A i \in 3 .. m + 2 : steps[i] = RouteSteps(o)[i - 2]
      /\ steps[m + 3] = "authenticate" /\ steps[m + 4] = "authorize"
      /\ steps[m + 5] = "decide"
      /\ IF o \in Mutations
         THEN /\ steps[m + 6] = "begin" /\ steps[m + 7] = "invoke"
              /\ steps[m + 8] = "complete"
         ELSE steps[m + 6] = "invoke"
  BY HandlerStepsInOrder DEF HandlerShape
<1>2. ASSUME NEW i \in 1 .. m, RouteSteps(o)[i] = step
      PROVE  Contains(steps, step)
  <2>1. i + 2 \in 3 .. m + 2 /\ i + 2 \in 1 .. n /\ (i + 2) - 2 = i
    BY <1>1
  <2>2. steps[i + 2] = RouteSteps(o)[(i + 2) - 2]
    BY <1>1, <2>1
  <2>3. steps[i + 2] = step
    BY <1>2, <2>1, <2>2
  <2> QED BY <2>1, <2>3 DEF Contains
<1>3. ASSUME NEW i \in 1 .. n, steps[i] = step
      PROVE  Contains(RouteSteps(o), step)
  <2> HIDE DEF steps, n, m
  <2>1. i \notin {1, 2, m + 3, m + 4, m + 5, m + 6}
    BY <1>1, <1>3
  <2>2. o \in Mutations => i \notin {m + 7, m + 8}
    BY <1>1, <1>3
  <2>3. i \in 3 .. m + 2
    BY <1>1, <2>1, <2>2
  <2>4. i - 2 \in 1 .. m /\ RouteSteps(o)[i - 2] = step
    BY <1>1, <1>3, <2>3
  <2> QED BY <2>4 DEF Contains, m
<1> QED BY <1>2, <1>3 DEF Contains

Declared(d) ==
  /\ d.method # "GET" <=> d.operation \in AuditedOperations
  /\ d.method # "GET" <=> d.audit = "authorization_started_terminal"
  /\ d.method # "GET" <=> d.gate # "none"
  /\ d.confirmation <=> d.operation \in AuditedOperations \ WakeMutations

LEMMA CatalogIsDeclared == \A d \in Catalog : Declared(d)
<1> USE DEF Declared, Read, Mutation, MutationWithoutConfirmation, AuditedOperations,
            ServiceActions, AvailabilityMutations, ScheduleMutations, MachineMutations,
            BackupTargetMutations, HistoryMutations, WakeMutations, ShutdownOperations
<1>1. \A d \in PowerRoutes : Declared(d)
  BY DEF PowerRoutes
<1>2. \A d \in ServiceRoutes : Declared(d)
  BY DEF ServiceRoutes
<1>3. \A d \in AvailabilityRoutes : Declared(d)
  BY DEF AvailabilityRoutes
<1>4. \A d \in MachineRoutes : Declared(d)
  BY DEF MachineRoutes
<1>5. \A d \in BackupRoutes : Declared(d)
  BY DEF BackupRoutes
<1>6. \A d \in HistoryRoutes : Declared(d)
  BY DEF HistoryRoutes
<1>7. \A d \in ObservationRoutes : Declared(d)
  BY DEF ObservationRoutes
<1> HIDE DEF Declared
<1> QED BY <1>1, <1>2, <1>3, <1>4, <1>5, <1>6, <1>7 DEF Catalog

\* What is declared of an operation is what its handler does.
LEMMA DescriptorsMatchRoutes ==
  ASSUME NEW o \in RoutedOperations
  PROVE  LET d == Descriptor(o)
         IN  /\ d.gate # "none" <=> Contains(HandlerSteps(o), "gate")
             /\ d.confirmation <=> Contains(HandlerSteps(o), "confirmation")
             /\ d.audit = "authorization_started_terminal" <=> o \in Mutations
<1> DEFINE d == Descriptor(o)
<1>1. d \in Catalog /\ d.operation = o
  BY DEF Descriptor, RoutedOperations
<1> HIDE DEF d
<1>2. Declared(d)
  BY <1>1, CatalogIsDeclared
<1>3. d.method # "GET" <=> o \in AuditedOperations
  BY <1>1, <1>2 DEF Declared
<1>4. o \in Mutations <=> o \in AuditedOperations
  BY <1>1, <1>3, MutationsAreAudited DEF Mutations
<1>5. WakeMutations \subseteq AuditedOperations
  BY DEF AuditedOperations
<1>6. /\ Contains(RouteSteps(o), "gate") <=> o \in AuditedOperations
      /\ Contains(RouteSteps(o), "confirmation") <=> o \in AuditedOperations \ WakeMutations
  BY <1>5, RouteOfOperation, RoutesContain
<1>7. /\ Contains(HandlerSteps(o), "gate") <=> Contains(RouteSteps(o), "gate")
      /\ Contains(HandlerSteps(o), "confirmation") <=> Contains(RouteSteps(o), "confirmation")
  BY HandlersContain
<1>8. /\ d.gate # "none" <=> o \in AuditedOperations
      /\ d.confirmation <=> o \in AuditedOperations \ WakeMutations
      /\ d.audit = "authorization_started_terminal" <=> o \in AuditedOperations
  BY <1>1, <1>2 DEF Declared
<1> QED BY <1>4, <1>6, <1>7, <1>8 DEF d

-----------------------------------------------------------------------------
(* What a step of one request does to that request, and to the permits.     *)

Sound(r) == RequestInv(r) /\ AnswerMatchesEffect(r) /\ LostTerminalIsRechecked(r)

\* A request that a step leaves alone stays sound.
LEMMA OthersStaySound ==
  ASSUME NEW q, Sound(q), asks'[q] = asks[q], todo'[q] = todo[q], inside'[q] = inside[q],
         pending'[q] = pending[q], raised'[q] = raised[q], trail'[q] = trail[q],
         effect'[q] = effect[q], answer'[q] = answer[q]
  PROVE  Sound(q)'
<1>1. Operation(q)' = Operation(q) /\ \A s : At(q, s)' <=> At(q, s)
  BY DEF Operation, At
<1>2. LeftToDo(q)'
  BY <1>1 DEF Sound, RequestInv, LeftToDo
<1>3. Audited(q)'
  BY <1>1 DEF Sound, RequestInv, Audited, Granted
<1>4. Admitted(q)'
  BY DEF Sound, RequestInv, Admitted
<1>5. ResultFits(q)'
  BY <1>1 DEF Sound, RequestInv, ResultFits
<1>6. AnswerMatchesEffect(q)' /\ LostTerminalIsRechecked(q)'
  BY <1>1 DEF Sound, AnswerMatchesEffect, LostTerminalIsRechecked
<1> QED BY <1>2, <1>3, <1>4, <1>5, <1>6 DEF Sound, RequestInv

\* The end of a handler, whatever it answers.
LEMMA EndedIsSound ==
  ASSUME TypeOK, NEW r \in Requests, RequestInv(r), todo[r] # <<>>, NEW v, End(r, v),
         asks' = asks,
         effect'[r] # "none" =>
           /\ Granted(r)
           /\ Len(trail'[r]) >= 2 /\ trail'[r][1] = "allowed" /\ trail'[r][2] = "started"
  PROVE  RequestInv(r)'
<1>1. todo'[r] = <<>> /\ answer'[r] = v /\ inside'[r] = {}
  BY DEF End, TypeOK
<1>2. asks[r] # NoRequest
  BY DEF RequestInv, LeftToDo
<1>3. LeftToDo(r)'
  BY <1>1 DEF LeftToDo
<1>4. Audited(r)'
  BY <1>1, <1>2 DEF Audited, At, Granted, Operation, NoRequest
<1>5. Admitted(r)'
  BY <1>1, <1>2 DEF Admitted, NoRequest
<1>6. ResultFits(r)'
  BY <1>1 DEF ResultFits, At
<1> QED BY <1>3, <1>4, <1>5, <1>6 DEF RequestInv

\* The end of a handler without an effect.
LEMMA EndedEarlyIsSound ==
  ASSUME TypeOK, NEW r \in Requests, RequestInv(r), todo[r] # <<>>, NEW v, End(r, v),
         asks' = asks, effect'[r] = "none", v \notin SuccessStatuses \/ Operation(r) \notin Mutations
  PROVE  Sound(r)'
<1>1. RequestInv(r)'
  BY EndedIsSound
<1>2. answer'[r] = v
  BY DEF End, TypeOK
<1>3. Operation(r)' = Operation(r)
  BY DEF Operation
<1>4. AnswerMatchesEffect(r)'
  BY <1>2, <1>3 DEF AnswerMatchesEffect
<1>5. LostTerminalIsRechecked(r)'
  BY DEF LostTerminalIsRechecked
<1> QED BY <1>1, <1>4, <1>5 DEF Sound

\* A handler that has not answered tells nothing.
LEMMA SilentIsSound ==
  ASSUME NEW r, RequestInv(r)', answer'[r] = None
  PROVE  Sound(r)'
BY DEF Sound, AnswerMatchesEffect, LostTerminalIsRechecked, RefusedStatuses,
       SuccessStatuses, None

\* A step that takes and gives back no permit.
LEMMA ContinuedIsSound ==
  ASSUME TypeOK, NEW r \in Requests, RequestInv(r), todo[r] # <<>>, Continue(r),
         Head(todo[r]) # "admission", Tail(todo[r]) # <<>>,
         Head(todo[r]) = "envelope" <=> Head(Tail(todo[r])) \in {"envelope", "admission"},
         asks' = asks, Audited(r)', ResultFits(r)'
  PROVE  Sound(r)'
<1>1. /\ todo' = [todo EXCEPT ![r] = Tail(@)] /\ todo'[r] = Tail(todo[r])
      /\ answer'[r] = answer[r] /\ inside'[r] = inside[r]
  BY DEF Continue, Advance, TypeOK
<1>2. LeftToDo(r)'
  BY <1>1, LeftAfterAStep DEF RequestInv
<1>3. answer[r] = None
  BY DEF RequestInv, Admitted
<1>4. Admitted(r)'
  BY <1>1, <1>3 DEF RequestInv, Admitted
<1> QED BY <1>1, <1>2, <1>3, <1>4, SilentIsSound DEF RequestInv

LEMMA GatesAreGates == \A o : GateOf(o) \in Gates
BY DEF GateOf, Gates

LEMMA EndGivesBack ==
  ASSUME RequestsAssumption, TypeOK, GateInv, AdmissionInv,
         NEW r \in Requests, NEW v, End(r, v), asks' = asks
  PROVE  /\ GateInv' /\ AdmissionInv'
         /\ inside' \in [Requests -> SUBSET {"admission", "gate"}]
         /\ gates' \in [Gates -> BOOLEAN]
         /\ active' \in 0 .. MaximumConcurrent
<1> DEFINE S == {q \in Requests : "admission" \in inside[q]}
<1>1. /\ inside' = [inside EXCEPT ![r] = {}]
      /\ inside' \in [Requests -> SUBSET {"admission", "gate"}]
  BY DEF End, TypeOK
<1>2. \A q : Operation(q)' = Operation(q)
  BY DEF Operation
<1>3. GateOf(Operation(r)) \in Gates
  BY GatesAreGates
<1>4. GateInv' /\ gates' \in [Gates -> BOOLEAN]
  <2>1. \A g \in Gates : Holders(g)' = Holders(g) \ {r}
    BY <1>1, <1>2 DEF Holders, TypeOK
  <2>2. CASE "gate" \in inside[r]
    <3>1. gates' = [gates EXCEPT ![GateOf(Operation(r))] = FALSE]
      BY <2>2 DEF End
    <3>2. r \in Holders(GateOf(Operation(r)))
      BY <2>2 DEF Holders
    <3>3. \A g \in Gates : g # GateOf(Operation(r)) => r \notin Holders(g)
      BY DEF Holders
    <3>4. gates' \in [Gates -> BOOLEAN]
      BY <3>1 DEF TypeOK
    <3>5. ASSUME NEW g \in Gates
          PROVE  \/ ~gates'[g] /\ Holders(g)' = {}
                 \/ gates'[g] /\ \E q \in Requests : Holders(g)' = {q}
      <4>1. CASE g = GateOf(Operation(r))
        <5>1. ~gates'[g]
          BY <3>1, <4>1 DEF TypeOK
        <5>2. PICK q \in Requests : Holders(g) = {q}
          BY <3>2, <4>1 DEF GateInv
        <5>3. Holders(g)' = {}
          BY <2>1, <3>2, <4>1, <5>2
        <5> QED BY <5>1, <5>3
      <4>2. CASE g # GateOf(Operation(r))
        <5>1. gates'[g] = gates[g]
          BY <3>1, <4>2 DEF TypeOK
        <5>2. Holders(g)' = Holders(g)
          BY <2>1, <3>3, <4>2
        <5> QED BY <5>1, <5>2 DEF GateInv
      <4> QED BY <4>1, <4>2
    <3> QED BY <3>4, <3>5 DEF GateInv
  <2>3. CASE "gate" \notin inside[r]
    <3>1. gates' = gates
      BY <2>3 DEF End
    <3>2. \A g \in Gates : Holders(g)' = Holders(g)
      BY <2>1, <2>3 DEF Holders
    <3> QED BY <3>1, <3>2 DEF GateInv, TypeOK
  <2> QED BY <2>2, <2>3
<1>5. AdmissionInv' /\ active' \in 0 .. MaximumConcurrent
  <2>1. IsFiniteSet(S)
    BY FS_Subset DEF RequestsAssumption
  <2>2. S' = S \ {r}
    BY <1>1 DEF TypeOK
  <2>3. Cardinality(S \ {r}) = IF r \in S THEN Cardinality(S) - 1 ELSE Cardinality(S)
    BY <2>1, FS_RemoveElement
  <2>4. Cardinality(S \ {r}) \in Nat
    BY <2>1, FS_RemoveElement, FS_CardinalityType
  <2>5. Cardinality(inside[r] \cap {"admission"}) = IF r \in S THEN 1 ELSE 0
    <3>1. inside[r] \cap {"admission"} = IF r \in S THEN {"admission"} ELSE {}
      OBVIOUS
    <3> QED BY <3>1, FS_EmptySet, FS_Singleton
  <2>6. active = Cardinality(S) /\ active \in 0 .. MaximumConcurrent
    BY DEF AdmissionInv, TypeOK
  <2>7. active' = active - Cardinality(inside[r] \cap {"admission"})
    BY DEF End
  <2> HIDE DEF S
  <2>8. active' = Cardinality(S')
    BY <2>2, <2>3, <2>5, <2>6, <2>7
  <2>9. active' \in 0 .. MaximumConcurrent
    BY <2>2, <2>3, <2>4, <2>5, <2>6, <2>7, <2>8 DEF RequestsAssumption
  <2> QED BY <2>8, <2>9 DEF AdmissionInv, S
<1> QED BY <1>1, <1>4, <1>5

\* The step takes and gives back nothing.
LEMMA PermitsStay ==
  ASSUME GateInv, AdmissionInv, asks' = asks, inside' = inside, gates' = gates,
         active' = active
  PROVE  GateInv' /\ AdmissionInv'
<1>1. \A g : Holders(g)' = Holders(g)
  BY DEF Holders, Operation
<1> QED BY <1>1 DEF GateInv, AdmissionInv

-----------------------------------------------------------------------------
(* Every step preserves the invariant.                                      *)

Good ==
  TypeOK /\ (\A q \in Requests : Sound(q)) /\ GateInv /\ AdmissionInv

\* The step writes the records of r only.
Touches(r) ==
  /\ asks' = asks
  /\ trail' \in [Requests -> Seq(EventNames)]
  /\ effect' \in [Requests -> {"none", "part", "whole"}]
  /\ DOMAIN pending' = Requests /\ DOMAIN raised' = Requests
  /\ admitted' \in 0 .. MaximumRequests /\ windowOver' \in BOOLEAN
  /\ \A q \in Requests \ {r} :
       /\ pending'[q] = pending[q] /\ raised'[q] = raised[q]
       /\ trail'[q] = trail[q] /\ effect'[q] = effect[q]

LEMMA EndStep ==
  ASSUME RequestsAssumption, Good, NEW r \in Requests, NEW v, End(r, v), Touches(r),
         Sound(r)'
  PROVE  Good'
<1>1. todo' = [todo EXCEPT ![r] = <<>>] /\ answer' = [answer EXCEPT ![r] = v]
      /\ inside' = [inside EXCEPT ![r] = {}]
  BY DEF End
<1>2. todo' \in [Requests -> Seq(StepNames)]
  BY <1>1 DEF Good, TypeOK
<1>3. /\ GateInv' /\ AdmissionInv'
      /\ inside' \in [Requests -> SUBSET {"admission", "gate"}]
      /\ gates' \in [Gates -> BOOLEAN]
      /\ active' \in 0 .. MaximumConcurrent
  BY EndGivesBack DEF Good, Touches
<1>4. DOMAIN answer' = Requests
  BY <1>1 DEF Good, TypeOK
<1>5. TypeOK'
  BY <1>2, <1>3, <1>4 DEF Good, TypeOK, Touches
<1>6. ASSUME NEW q \in Requests, q # r PROVE Sound(q)'
  <2>1. todo'[q] = todo[q] /\ inside'[q] = inside[q] /\ answer'[q] = answer[q]
    BY <1>1, <1>6 DEF Good, TypeOK
  <2>2. /\ asks'[q] = asks[q] /\ pending'[q] = pending[q] /\ raised'[q] = raised[q]
        /\ trail'[q] = trail[q] /\ effect'[q] = effect[q]
    BY <1>6 DEF Touches
  <2>3. Sound(q)
    BY DEF Good
  <2> QED BY <2>1, <2>2, <2>3, OthersStaySound
<1> QED BY <1>3, <1>5, <1>6 DEF Good

\* A handler refuses or fails without an effect.
LEMMA EarlyEndStep ==
  ASSUME RequestsAssumption, Good, NEW r \in Requests, todo[r] # <<>>, NEW v, End(r, v),
         Touches(r), effect'[r] = "none", v \notin SuccessStatuses \/ Operation(r) \notin Mutations
  PROVE  Good'
<1>1. RequestInv(r) /\ TypeOK /\ asks' = asks
  BY DEF Good, Sound, Touches
<1>2. Sound(r)'
  BY <1>1, EndedEarlyIsSound
<1> QED BY <1>2, EndStep

LEMMA ContinueStep ==
  ASSUME RequestsAssumption, Good, NEW r \in Requests, todo[r] # <<>>, Continue(r),
         Touches(r), Sound(r)'
  PROVE  Good'
<1>1. /\ todo' = [todo EXCEPT ![r] = Tail(@)] /\ answer' = answer
      /\ inside' = inside /\ gates' = gates /\ active' = active
  BY DEF Continue, Advance
<1>2. Tail(todo[r]) \in Seq(StepNames)
  BY NextStep DEF Good, Sound, RequestInv
<1>3. todo' \in [Requests -> Seq(StepNames)]
  BY <1>1, <1>2 DEF Good, TypeOK
<1>4. TypeOK'
  BY <1>1, <1>3 DEF Good, TypeOK, Touches
<1>5. GateInv' /\ AdmissionInv'
  BY <1>1, PermitsStay DEF Good, Touches
<1>6. ASSUME NEW q \in Requests, q # r PROVE Sound(q)'
  <2>1. todo'[q] = todo[q] /\ inside'[q] = inside[q] /\ answer'[q] = answer[q]
    BY <1>1, <1>6 DEF Good, TypeOK
  <2>2. /\ asks'[q] = asks[q] /\ pending'[q] = pending[q] /\ raised'[q] = raised[q]
        /\ trail'[q] = trail[q] /\ effect'[q] = effect[q]
    BY <1>6 DEF Touches
  <2>3. Sound(q)
    BY DEF Good
  <2> QED BY <2>1, <2>2, <2>3, OthersStaySound
<1> QED BY <1>4, <1>5, <1>6 DEF Good

\* What the history keeps of a request grows by one event.
LEMMA KeptEvent ==
  ASSUME TypeOK, NEW r \in Requests, NEW event \in EventNames, Keeps(r, event)
  PROVE  /\ trail' \in [Requests -> Seq(EventNames)]
         /\ trail'[r] = Append(trail[r], event)
         /\ trail'[r][Len(trail[r]) + 1] = event
         /\ Len(trail'[r]) = Len(trail[r]) + 1
         /\ Last(trail'[r]) = event
         /\ \A i \in 1 .. Len(trail[r]) : trail'[r][i] = trail[r][i]
         /\ \A q \in Requests \ {r} : trail'[q] = trail[q]
<1>1. trail[r] \in Seq(EventNames)
  BY DEF TypeOK
<1>2. trail' = [trail EXCEPT ![r] = Append(trail[r], event)]
  BY DEF Keeps
<1>3. trail'[r] = Append(trail[r], event)
  BY <1>2 DEF TypeOK
<1>4. /\ Append(trail[r], event) \in Seq(EventNames)
      /\ Len(Append(trail[r], event)) = Len(trail[r]) + 1
      /\ Append(trail[r], event)[Len(trail[r]) + 1] = event
      /\ \A i \in 1 .. Len(trail[r]) : Append(trail[r], event)[i] = trail[r][i]
  BY <1>1, AppendProperties
<1>5. trail' \in [Requests -> Seq(EventNames)]
  BY <1>2, <1>4 DEF TypeOK
<1>6. Last(trail'[r]) = event
  BY <1>3, <1>4 DEF Last
<1>7. \A q \in Requests \ {r} : trail'[q] = trail[q]
  BY <1>2 DEF TypeOK
<1> QED BY <1>3, <1>4, <1>5, <1>6, <1>7

\* Before it calls its operation, a request has had no effect.
LEMMA NoEffectYet ==
  ASSUME Good, NEW r \in Requests, todo[r] # <<>>, Head(todo[r]) # "complete"
  PROVE  effect[r] = "none"
BY DEF Good, Sound, RequestInv, Audited, At

LEMMA AdmissionStep ==
  ASSUME RequestsAssumption, Good, NEW r \in Requests, Admission(r)
  PROVE  Good'
<1>1. /\ todo[r] # <<>> /\ Head(todo[r]) = "admission"
      /\ UNCHANGED <<asks, pending, raised, trail, effect>>
  BY DEF Admission, At
<1>2. effect[r] = "none"
  BY <1>1, NoEffectYet
<1> DEFINE inWindow == IF windowOver THEN 0 ELSE admitted
<1>3. inWindow \in 0 .. MaximumRequests
  BY DEF Good, TypeOK, RequestsAssumption
<1>4. CASE End(r, "429") /\ admitted' \in {admitted, inWindow} /\ windowOver' \in BOOLEAN
  <2>1. Touches(r)
    BY <1>1, <1>3, <1>4 DEF Touches, Good, TypeOK
  <2> QED BY <1>1, <1>2, <1>4, <2>1, EarlyEndStep DEF SuccessStatuses
<1>5. CASE /\ active < MaximumConcurrent
           /\ inWindow < MaximumRequests
           /\ admitted' = inWindow + 1
           /\ windowOver' = FALSE
           /\ active' = active + 1
           /\ inside' = [inside EXCEPT ![r] = @ \cup {"admission"}]
           /\ Advance(r)
           /\ UNCHANGED <<answer, gates>>
  <2>1. RequestInv(r) /\ TypeOK
    BY DEF Good, Sound
  <2>2. /\ asks[r] # NoRequest
        /\ Tail(todo[r]) \in Seq(StepNames)
        /\ Comes(Tail(todo[r]), RouteStepNames \cup {"authenticate"})
    BY <1>1, <2>1, NextStep DEF RequestInv, Succession
  <2>3. todo' = [todo EXCEPT ![r] = Tail(@)]
    BY <1>5 DEF Advance
  <2>4. todo'[r] = Tail(todo[r]) /\ todo' \in [Requests -> Seq(StepNames)]
    BY <2>1, <2>2, <2>3 DEF TypeOK
  <2>5. inside'[r] = inside[r] \cup {"admission"}
        /\ inside' \in [Requests -> SUBSET {"admission", "gate"}]
    BY <1>5, <2>1 DEF TypeOK
  <2>6. active' \in 0 .. MaximumConcurrent /\ admitted' \in 0 .. MaximumRequests
    BY <1>3, <1>5, <2>1 DEF TypeOK, RequestsAssumption
  <2>7. TypeOK'
    BY <1>1, <1>5, <2>1, <2>4, <2>5, <2>6 DEF TypeOK
  <2>8. LeftToDo(r)'
    BY <1>1, <2>1, <2>3, LeftAfterAStep DEF RequestInv
  <2>9. \A x \in RouteStepNames \cup {"authenticate"} :
          x \notin {"envelope", "admission", "authorize", "decide", "begin", "invoke",
                    "complete"}
    BY DEF RouteStepNames, Checks
  <2>10. todo'[r] # <<>> /\ Head(todo'[r]) \in RouteStepNames \cup {"authenticate"}
    BY <2>2, <2>4 DEF Comes
  <2>11. trail[r] = <<>>
    BY <1>1, <2>1 DEF RequestInv, Audited
  <2>12. Audited(r)'
    BY <1>1, <1>2, <2>2, <2>9, <2>10, <2>11 DEF Audited, At
  <2>13. answer'[r] = None
    BY <1>1, <1>5, <2>1 DEF RequestInv, Admitted
  <2>14. Admitted(r)'
    BY <2>5, <2>9, <2>10, <2>13 DEF Admitted
  <2>15. ResultFits(r)'
    BY <2>9, <2>10 DEF ResultFits, At
  <2>16. Sound(r)'
    BY <2>8, <2>12, <2>13, <2>14, <2>15, SilentIsSound DEF RequestInv
  <2>17. ASSUME NEW q \in Requests, q # r PROVE Sound(q)'
    <3>1. todo'[q] = todo[q] /\ inside'[q] = inside[q] /\ answer'[q] = answer[q]
      BY <1>5, <2>1, <2>3, <2>17 DEF TypeOK
    <3>2. Sound(q)
      BY DEF Good
    <3> QED BY <1>1, <3>1, <3>2, OthersStaySound
  <2>18. GateInv'
    <3>1. \A g \in Gates : Holders(g)' = Holders(g)
      BY <1>1, <1>5, <2>1 DEF Holders, Operation, TypeOK
    <3> QED BY <1>5, <3>1 DEF Good, GateInv
  <2>19. AdmissionInv'
    <3> DEFINE S == {q \in Requests : "admission" \in inside[q]}
    <3>1. IsFiniteSet(S)
      BY FS_Subset DEF RequestsAssumption
    <3>2. S' = S \cup {r}
      BY <1>5, <2>1 DEF TypeOK
    <3>3. r \notin S
      BY <1>1, <2>1 DEF RequestInv, Admitted
    <3>4. Cardinality(S \cup {r}) = Cardinality(S) + 1
      BY <3>1, <3>3, FS_AddElement
    <3> QED BY <1>5, <3>2, <3>4 DEF Good, AdmissionInv
  <2> QED BY <2>7, <2>16, <2>17, <2>18, <2>19 DEF Good
<1>6. \/ End(r, "429") /\ UNCHANGED <<admitted, windowOver>>
      \/ End(r, "429") /\ admitted' = inWindow /\ windowOver' = FALSE
      \/ /\ active < MaximumConcurrent
         /\ inWindow < MaximumRequests
         /\ admitted' = inWindow + 1
         /\ windowOver' = FALSE
         /\ active' = active + 1
         /\ inside' = [inside EXCEPT ![r] = @ \cup {"admission"}]
         /\ Advance(r)
         /\ UNCHANGED <<answer, gates>>
  BY DEF Admission
<1>7. windowOver \in BOOLEAN
  BY DEF Good, TypeOK
<1> HIDE DEF inWindow
<1> QED BY <1>4, <1>5, <1>6, <1>7

\* Where a handler is, and what is true of it there.
LEMMA AtStep ==
  ASSUME Good, NEW r \in Requests, NEW step, At(r, step)
  PROVE  /\ TypeOK /\ RequestInv(r) /\ todo[r] # <<>> /\ Head(todo[r]) = step
         /\ asks[r] # NoRequest /\ answer[r] = None
         /\ Succession(Operation(r), step, Tail(todo[r]))
         /\ step # "complete" => effect[r] = "none"
<1>1. TypeOK /\ RequestInv(r) /\ todo[r] # <<>> /\ Head(todo[r]) = step
  BY DEF Good, Sound, At
<1>2. answer[r] = None
  BY <1>1 DEF RequestInv, Admitted
<1>3. step # "complete" => effect[r] = "none"
  BY <1>1, NoEffectYet
<1> QED BY <1>1, <1>2, <1>3, NextStep DEF RequestInv

\* A step after which the next one is among names.
LEMMA NextIsAt ==
  ASSUME TypeOK, NEW r \in Requests, Continue(r), NEW names, Comes(Tail(todo[r]), names)
  PROVE  /\ todo'[r] = Tail(todo[r]) /\ todo'[r] # <<>> /\ Head(todo'[r]) \in names
         /\ \A s : At(r, s)' => s \in names
<1>1. todo'[r] = Tail(todo[r])
  BY DEF Continue, Advance, TypeOK
<1> QED BY <1>1 DEF Comes, At

LEMMA CheckStep ==
  ASSUME RequestsAssumption, Good, NEW r \in Requests, Check(r)
  PROVE  Good'
<1>1. PICK step \in Checks :
        /\ At(r, step)
        /\ Continue(r) \/ \E status \in Refusals(step, Operation(r)) : End(r, status)
  BY DEF Check
<1>2. UNCHANGED <<asks, pending, raised, trail, effect, admitted, windowOver>>
  BY DEF Check
<1>3. step \in {"envelope"} \cup RouteStepNames /\ step \notin {"admission", "complete"}
  BY DEF RouteStepNames, Checks
<1>4. /\ TypeOK /\ RequestInv(r) /\ todo[r] # <<>> /\ Head(todo[r]) = step
      /\ asks[r] # NoRequest /\ answer[r] = None /\ effect[r] = "none"
      /\ Succession(Operation(r), step, Tail(todo[r]))
  BY <1>1, <1>3, AtStep
<1>5. Touches(r)
  BY <1>2, <1>4 DEF Touches, TypeOK
<1>6. CASE Continue(r)
  <2>1. Comes(Tail(todo[r]), IF step = "envelope" THEN {"admission"}
                             ELSE RouteStepNames \cup {"authenticate"})
    BY <1>3, <1>4 DEF Succession
  <2>2. \A x \in RouteStepNames \cup {"authenticate"} :
          x \notin {"envelope", "admission", "authorize", "decide", "begin", "invoke",
                    "complete"}
    BY DEF RouteStepNames, Checks
  <2>3. todo'[r] = Tail(todo[r]) /\ todo'[r] # <<>>
        /\ Head(todo'[r]) \in (IF step = "envelope" THEN {"admission"}
                               ELSE RouteStepNames \cup {"authenticate"})
    BY <1>4, <1>6, <2>1, NextIsAt
  <2>4. Head(todo'[r]) \notin {"envelope", "authorize", "decide", "begin", "invoke",
                               "complete"}
    BY <2>2, <2>3
  <2>5. trail[r] = <<>>
    BY <1>3, <1>4, <2>2 DEF RequestInv, Audited
  <2>6. Audited(r)'
    BY <1>2, <1>4, <2>3, <2>4, <2>5 DEF Audited, At
  <2>7. ResultFits(r)'
    BY <2>3, <2>4 DEF ResultFits, At
  <2>8. step = "envelope" <=> Head(Tail(todo[r])) \in {"envelope", "admission"}
    BY <2>2, <2>3
  <2>9. Tail(todo[r]) # <<>>
    BY <2>3
  <2>10. Sound(r)'
    BY <1>2, <1>3, <1>4, <1>6, <2>6, <2>7, <2>8, <2>9, ContinuedIsSound
  <2> QED BY <1>4, <1>5, <1>6, <2>10, ContinueStep
<1>7. CASE \E status \in Refusals(step, Operation(r)) : End(r, status)
  <2>1. PICK status \in Refusals(step, Operation(r)) : End(r, status)
    BY <1>7
  <2>2. status \notin SuccessStatuses
    BY RefusalsAreNoSuccess
  <2>3. effect'[r] = "none"
    BY <1>2, <1>4
  <2> QED BY <1>4, <1>5, <2>1, <2>2, <2>3, EarlyEndStep
<1> QED BY <1>1, <1>6, <1>7

LEMMA GateStep ==
  ASSUME RequestsAssumption, Good, NEW r \in Requests, Gate(r)
  PROVE  Good'
<1>0. PICK g \in Gates : g = GateOf(Operation(r))
  BY GatesAreGates
<1>1. At(r, "gate") /\ UNCHANGED <<asks, pending, raised, trail, effect, admitted, windowOver>>
  BY DEF Gate
<1>2. /\ TypeOK /\ RequestInv(r) /\ todo[r] # <<>> /\ Head(todo[r]) = "gate"
      /\ asks[r] # NoRequest /\ answer[r] = None /\ effect[r] = "none"
      /\ Succession(Operation(r), "gate", Tail(todo[r]))
  BY <1>1, AtStep
<1>3. Touches(r)
  BY <1>1, <1>2 DEF Touches, TypeOK
<1>4. CASE End(r, "409")
  <2>1. effect'[r] = "none"
    BY <1>1, <1>2
  <2> QED BY <1>2, <1>3, <1>4, <2>1, EarlyEndStep DEF SuccessStatuses
<1>5. CASE /\ ~gates[g]
           /\ gates' = [gates EXCEPT ![g] = TRUE]
           /\ inside' = [inside EXCEPT ![r] = @ \cup {"gate"}]
           /\ Advance(r)
           /\ UNCHANGED <<answer, active>>
  <2>1. "gate" \in RouteStepNames
    BY DEF RouteStepNames
  <2>2. Tail(todo[r]) \in Seq(StepNames)
        /\ Comes(Tail(todo[r]), RouteStepNames \cup {"authenticate"})
    BY <1>2, <2>1, NextStep DEF RequestInv, Succession
  <2>3. todo' = [todo EXCEPT ![r] = Tail(@)]
    BY <1>5 DEF Advance
  <2>4. todo'[r] = Tail(todo[r]) /\ todo' \in [Requests -> Seq(StepNames)]
    BY <1>2, <2>2, <2>3 DEF TypeOK
  <2>5. inside'[r] = inside[r] \cup {"gate"}
        /\ inside' \in [Requests -> SUBSET {"admission", "gate"}]
    BY <1>2, <1>5 DEF TypeOK
  <2>6. g \in Gates
    OBVIOUS
  <2>7. gates' \in [Gates -> BOOLEAN]
    BY <1>2, <1>5, <2>6 DEF TypeOK
  <2>8. TypeOK'
    BY <1>1, <1>2, <1>5, <2>4, <2>5, <2>7 DEF TypeOK
  <2>9. LeftToDo(r)'
    BY <1>1, <1>2, <2>3, LeftAfterAStep DEF RequestInv
  <2>10. \A x \in RouteStepNames \cup {"authenticate"} :
           x \notin {"envelope", "admission", "authorize", "decide", "begin", "invoke",
                     "complete"}
    BY DEF RouteStepNames, Checks
  <2>11. todo'[r] # <<>> /\ Head(todo'[r]) \in RouteStepNames \cup {"authenticate"}
    BY <2>2, <2>4 DEF Comes
  <2>12. trail[r] = <<>>
    BY <1>2 DEF RequestInv, Audited
  <2>13. Audited(r)'
    BY <1>1, <1>2, <2>10, <2>11, <2>12 DEF Audited, At
  <2>14. answer'[r] = None
    BY <1>2, <1>5
  <2>15. "admission" \in inside[r]
    BY <1>2 DEF RequestInv, Admitted
  <2>16. Admitted(r)'
    BY <2>5, <2>10, <2>11, <2>14, <2>15 DEF Admitted
  <2>17. ResultFits(r)'
    BY <2>10, <2>11 DEF ResultFits, At
  <2>18. Sound(r)'
    BY <2>9, <2>13, <2>14, <2>16, <2>17, SilentIsSound DEF RequestInv
  <2>19. ASSUME NEW q \in Requests, q # r PROVE Sound(q)'
    <3>1. todo'[q] = todo[q] /\ inside'[q] = inside[q] /\ answer'[q] = answer[q]
      BY <1>2, <1>5, <2>3, <2>19 DEF TypeOK
    <3>2. Sound(q)
      BY DEF Good
    <3> QED BY <1>1, <3>1, <3>2, OthersStaySound
  <2>20. GateInv'
    <3>1. Holders(g) = {}
      BY <1>5, <2>6 DEF Good, GateInv
    <3>2. r \in Holders(g)' /\ \A h \in Gates : h # g => r \notin Holders(h)'
      BY <1>0, <1>1, <2>5 DEF Holders, Operation
    <3>3. \A h \in Gates, q \in Requests \ {r} : q \in Holders(h)' <=> q \in Holders(h)
      BY <1>1, <1>2, <1>5 DEF Holders, Operation, TypeOK
    <3>4. r \notin Holders(g)
      BY <3>1
    <3>5. \A h \in Gates : h # g => r \notin Holders(h)
      BY <1>0 DEF Holders
    <3>6. \A h \in Gates : Holders(h) \subseteq Requests /\ Holders(h)' \subseteq Requests
      BY DEF Holders
    <3>7. Holders(g)' = {r}
      BY <2>6, <3>1, <3>2, <3>3, <3>6
    <3>8. \A h \in Gates : h # g => Holders(h)' = Holders(h)
      BY <3>2, <3>3, <3>5, <3>6
    <3>9. gates'[g] /\ \A h \in Gates : h # g => gates'[h] = gates[h]
      BY <1>2, <1>5, <2>6 DEF TypeOK
    <3> QED BY <3>7, <3>8, <3>9 DEF Good, GateInv
  <2>21. AdmissionInv'
    <3>1. {q \in Requests : "admission" \in inside'[q]}
            = {q \in Requests : "admission" \in inside[q]}
      BY <1>2, <1>5 DEF TypeOK
    <3> QED BY <1>5, <3>1 DEF Good, AdmissionInv
  <2> QED BY <2>8, <2>18, <2>19, <2>20, <2>21 DEF Good
<1> QED BY <1>0, <1>4, <1>5 DEF Gate

LEMMA ErrorAnswerIsNoSuccess ==
  \A o, error : ErrorAnswer(o, error) \notin SuccessStatuses
BY ErrorsAreNoSuccess DEF Candid

\* The end of a handler before its operation, with an event or without.
LEMMA AnsweredEarly ==
  ASSUME RequestsAssumption, Good, NEW r \in Requests, todo[r] # <<>>,
         Head(todo[r]) # "complete", NEW error, Answer(r, error),
         \/ UNCHANGED trail
         \/ \E event \in EventNames : Keeps(r, event),
         UNCHANGED <<asks, raised, effect, admitted, windowOver>>,
         UNCHANGED pending
  PROVE  Good'
<1>1. effect'[r] = "none" /\ TypeOK
  BY NoEffectYet DEF Good
<1>2. trail' \in [Requests -> Seq(EventNames)] /\ \A q \in Requests \ {r} : trail'[q] = trail[q]
  BY <1>1, KeptEvent DEF TypeOK
<1>3. Touches(r)
  BY <1>1, <1>2 DEF Touches, TypeOK
<1> QED BY <1>1, <1>3, EarlyEndStep, ErrorAnswerIsNoSuccess DEF Answer

LEMMA AuthenticateStep ==
  ASSUME RequestsAssumption, Good, NEW r \in Requests, Authenticate(r)
  PROVE  Good'
<1>1. At(r, "authenticate") /\ UNCHANGED <<asks, pending, raised, effect, admitted, windowOver>>
  BY DEF Authenticate
<1>2. /\ TypeOK /\ RequestInv(r) /\ todo[r] # <<>> /\ Head(todo[r]) = "authenticate"
      /\ asks[r] # NoRequest /\ answer[r] = None /\ effect[r] = "none"
      /\ Succession(Operation(r), "authenticate", Tail(todo[r]))
  BY <1>1, AtStep
<1>3. CASE asks[r].caller # "unauthenticated" /\ Continue(r) /\ UNCHANGED trail
  <2>1. Comes(Tail(todo[r]), {"authorize"})
    BY <1>2 DEF Succession
  <2>2. todo'[r] = Tail(todo[r]) /\ todo'[r] # <<>> /\ Head(todo'[r]) = "authorize"
    <3>1. Continue(r) /\ TypeOK
      BY <1>2, <1>3
    <3>2. todo'[r] = Tail(todo[r]) /\ todo'[r] # <<>> /\ Head(todo'[r]) \in {"authorize"}
      BY <2>1, <3>1, NextIsAt
    <3> QED BY <3>2
  <2>3. trail[r] = <<>>
    BY <1>2 DEF RequestInv, Audited
  <2>4. asks[r].caller \in DOMAIN RolesOf
    BY <1>2, <1>3 DEF TypeOK, Callers
  <2>5. Audited(r)'
    BY <1>1, <1>2, <1>3, <2>2, <2>3, <2>4 DEF Audited, At
  <2>6. ResultFits(r)'
    BY <2>2 DEF ResultFits, At
  <2>7. Tail(todo[r]) # <<>> /\ Head(Tail(todo[r])) \notin {"envelope", "admission"}
    BY <2>2
  <2>8. Sound(r)'
    BY <1>1, <1>2, <1>3, <2>5, <2>6, <2>7, ContinuedIsSound
  <2>9. Touches(r)
    BY <1>1, <1>2, <1>3 DEF Touches, TypeOK
  <2> QED BY <1>2, <1>3, <2>8, <2>9, ContinueStep
<1>4. ASSUME NEW error, NEW reason, Rejects(r, error, reason) PROVE Good'
  <2>1. "denied" \in EventNames
    BY DEF EventNames
  <2>2. PICK e : Answer(r, e) /\ (UNCHANGED trail \/ Keeps(r, "denied"))
    BY <1>4 DEF Rejects
  <2> QED BY <1>1, <1>2, <2>1, <2>2, AnsweredEarly
<1> QED BY <1>3, <1>4 DEF Authenticate

LEMMA AuthorizeStep ==
  ASSUME RequestsAssumption, Good, NEW r \in Requests, Authorize(r)
  PROVE  Good'
<1>1. At(r, "authorize") /\ UNCHANGED <<asks, raised, trail, effect, admitted, windowOver>>
  BY DEF Authorize
<1>2. /\ TypeOK /\ RequestInv(r) /\ todo[r] # <<>> /\ Head(todo[r]) = "authorize"
      /\ asks[r] # NoRequest /\ answer[r] = None /\ effect[r] = "none"
      /\ Succession(Operation(r), "authorize", Tail(todo[r]))
  BY <1>1, AtStep
<1>3. ASSUME NEW decision \in {DecisionOn(asks[r].caller, Operation(r)),
                               "role_assignment_unavailable"},
             pending' = [pending EXCEPT ![r] = decision], Continue(r)
      PROVE  Good'
  <2>1. Comes(Tail(todo[r]), {"decide"})
    BY <1>2 DEF Succession
  <2>2. todo'[r] = Tail(todo[r]) /\ todo'[r] # <<>> /\ Head(todo'[r]) = "decide"
    <3>1. todo'[r] = Tail(todo[r]) /\ todo'[r] # <<>> /\ Head(todo'[r]) \in {"decide"}
      BY <1>2, <1>3, <2>1, NextIsAt
    <3> QED BY <3>1
  <2>3. trail[r] = <<>> /\ asks[r].caller \in DOMAIN RolesOf
    BY <1>1, <1>2 DEF RequestInv, Audited
  <2>4. pending'[r] = decision
    BY <1>2, <1>3 DEF TypeOK
  <2>5. decision = "allowed" => Granted(r)
    BY <2>3 DEF DecisionOn, Granted
  <2>6. Granted(r)' <=> Granted(r)
    BY <1>1 DEF Granted, Operation
  <2>7. Audited(r)'
    BY <1>1, <1>2, <2>2, <2>3, <2>4, <2>5, <2>6 DEF Audited, At
  <2>8. ResultFits(r)'
    BY <2>2 DEF ResultFits, At
  <2>9. Tail(todo[r]) # <<>> /\ Head(Tail(todo[r])) \notin {"envelope", "admission"}
    BY <2>2
  <2>10. Sound(r)'
    BY <1>1, <1>2, <1>3, <2>7, <2>8, <2>9, ContinuedIsSound
  <2>11. Touches(r)
    BY <1>1, <1>2, <1>3 DEF Touches, TypeOK
  <2> QED BY <1>2, <1>3, <2>10, <2>11, ContinueStep
<1>4. CASE Answer(r, "authorization_unavailable") /\ UNCHANGED pending
  BY <1>1, <1>2, <1>4, AnsweredEarly
<1> QED BY <1>3, <1>4 DEF Authorize

LEMMA DecideStep ==
  ASSUME RequestsAssumption, Good, NEW r \in Requests, Decide(r)
  PROVE  Good'
<1>1. At(r, "decide") /\ UNCHANGED <<asks, pending, raised, effect, admitted, windowOver>>
  BY DEF Decide
<1>2. /\ TypeOK /\ RequestInv(r) /\ todo[r] # <<>> /\ Head(todo[r]) = "decide"
      /\ asks[r] # NoRequest /\ answer[r] = None /\ effect[r] = "none"
      /\ Succession(Operation(r), "decide", Tail(todo[r]))
  BY <1>1, AtStep
<1>3. {"allowed", "denied"} \subseteq EventNames
  BY DEF EventNames
<1>4. CASE pending[r] = "allowed" /\ Keeps(r, "allowed") /\ Continue(r)
  <2> DEFINE names == IF Operation(r) \in Mutations THEN {"begin"} ELSE {"invoke"}
  <2>1. Comes(Tail(todo[r]), names)
    BY <1>2 DEF Succession
  <2>2. todo'[r] = Tail(todo[r]) /\ todo'[r] # <<>> /\ Head(todo'[r]) \in names
    <3> HIDE DEF names
    <3> QED BY <1>2, <1>4, <2>1, NextIsAt
  <2>3. trail[r] = <<>> /\ Granted(r)
    BY <1>1, <1>2, <1>4 DEF RequestInv, Audited
  <2>4. /\ trail' \in [Requests -> Seq(EventNames)]
        /\ trail'[r] = Append(trail[r], "allowed")
        /\ \A q \in Requests \ {r} : trail'[q] = trail[q]
    BY <1>2, <1>3, <1>4, KeptEvent
  <2>5. trail'[r] = <<"allowed">>
    BY <2>3, <2>4
  <2>6. Granted(r)' /\ Operation(r)' = Operation(r)
    BY <1>1, <2>3 DEF Granted, Operation
  <2>7. Head(todo'[r]) \in {"begin", "invoke"}
        /\ (Operation(r) \in Mutations => Head(todo'[r]) = "begin")
    BY <2>2
  <2>8. effect'[r] = "none" /\ asks'[r] # NoRequest
    BY <1>1, <1>2
  <2>9. Audited(r)'
    BY <2>2, <2>5, <2>6, <2>7, <2>8 DEF Audited, At, NoRequest
  <2>10. ResultFits(r)'
    BY <2>7 DEF ResultFits, At
  <2>11. Tail(todo[r]) # <<>> /\ Head(Tail(todo[r])) \notin {"envelope", "admission"}
    BY <2>2, <2>7
  <2>12. Sound(r)'
    BY <1>1, <1>2, <1>4, <2>9, <2>10, <2>11, ContinuedIsSound
  <2>13. Touches(r)
    BY <1>1, <1>2, <2>4 DEF Touches, TypeOK
  <2> QED BY <1>2, <1>4, <2>12, <2>13, ContinueStep
<1>5. CASE RecordFails(r, "allowed") /\ Answer(r, "authorization_audit_unavailable")
  BY <1>1, <1>2, <1>3, <1>5, AnsweredEarly DEF RecordFails
<1>6. ASSUME NEW error, NEW reason, Rejects(r, error, reason) PROVE Good'
  <2>1. PICK e : Answer(r, e) /\ (UNCHANGED trail \/ Keeps(r, "denied"))
    BY <1>6 DEF Rejects
  <2> QED BY <1>1, <1>2, <1>3, <2>1, AnsweredEarly
<1> QED BY <1>4, <1>5, <1>6 DEF Decide

LEMMA BeginStep ==
  ASSUME RequestsAssumption, Good, NEW r \in Requests, Begin(r)
  PROVE  Good'
<1>1. At(r, "begin") /\ UNCHANGED <<asks, pending, raised, effect, admitted, windowOver>>
  BY DEF Begin
<1>2. /\ TypeOK /\ RequestInv(r) /\ todo[r] # <<>> /\ Head(todo[r]) = "begin"
      /\ asks[r] # NoRequest /\ answer[r] = None /\ effect[r] = "none"
      /\ Succession(Operation(r), "begin", Tail(todo[r]))
  BY <1>1, AtStep
<1>3. "started" \in EventNames
  BY DEF EventNames
<1>4. CASE Keeps(r, "started") /\ Continue(r)
  <2>1. Comes(Tail(todo[r]), {"invoke"})
    BY <1>2 DEF Succession
  <2>2. todo'[r] = Tail(todo[r]) /\ todo'[r] # <<>> /\ Head(todo'[r]) = "invoke"
    <3>1. todo'[r] = Tail(todo[r]) /\ todo'[r] # <<>> /\ Head(todo'[r]) \in {"invoke"}
      BY <1>2, <1>4, <2>1, NextIsAt
    <3> QED BY <3>1
  <2>3. trail[r] = <<"allowed">> /\ Granted(r)
    BY <1>1, <1>2 DEF RequestInv, Audited
  <2>4. /\ trail' \in [Requests -> Seq(EventNames)]
        /\ trail'[r] = Append(trail[r], "started")
        /\ \A q \in Requests \ {r} : trail'[q] = trail[q]
    BY <1>2, <1>3, <1>4, KeptEvent
  <2>5. trail'[r] = <<"allowed", "started">>
    <3>1. <<"allowed">> \in Seq(EventNames) /\ <<"allowed", "started">> \in Seq(EventNames)
      BY DEF EventNames
    <3>2. /\ Append(<<"allowed">>, "started") \in Seq(EventNames)
          /\ Len(Append(<<"allowed">>, "started")) = 2
          /\ Append(<<"allowed">>, "started")[1] = "allowed"
          /\ Append(<<"allowed">>, "started")[2] = "started"
      BY <1>3, <3>1, AppendProperties
    <3>3. /\ Len(<<"allowed", "started">>) = 2
          /\ <<"allowed", "started">>[1] = "allowed" /\ <<"allowed", "started">>[2] = "started"
      OBVIOUS
    <3>4. \A i \in 1 .. Len(Append(<<"allowed">>, "started")) : i = 1 \/ i = 2
      BY <3>2
    <3>5. Append(<<"allowed">>, "started") = <<"allowed", "started">>
      BY <3>1, <3>2, <3>3, <3>4, SeqEqual
    <3> QED BY <2>3, <2>4, <3>5
  <2>6. Granted(r)'
    BY <1>1, <2>3 DEF Granted, Operation
  <2>7. effect'[r] = "none" /\ asks'[r] # NoRequest
    BY <1>1, <1>2
  <2>8. Audited(r)'
    BY <2>2, <2>5, <2>6, <2>7 DEF Audited, At, NoRequest
  <2>9. ResultFits(r)'
    BY <2>2 DEF ResultFits, At
  <2>10. Tail(todo[r]) # <<>> /\ Head(Tail(todo[r])) \notin {"envelope", "admission"}
    BY <2>2
  <2>11. Sound(r)'
    BY <1>1, <1>2, <1>4, <2>8, <2>9, <2>10, ContinuedIsSound
  <2>12. Touches(r)
    BY <1>1, <1>2, <2>4 DEF Touches, TypeOK
  <2> QED BY <1>2, <1>4, <2>11, <2>12, ContinueStep
<1>5. ASSUME NEW error, Answer(r, error), RecordFails(r, "started") PROVE Good'
  BY <1>1, <1>2, <1>3, <1>5, AnsweredEarly DEF RecordFails
<1>6. \/ Keeps(r, "started") /\ Continue(r)
      \/ \E error : Answer(r, error) /\ RecordFails(r, "started")
  BY DEF Begin, RecordFails
<1> QED BY <1>4, <1>5, <1>6

\* A result the operation of r may end with.
Fits(r, result, extent, error) ==
  \/ /\ result = "succeeded"
     /\ extent \in ReturnedExtents(Operation(r))
  \/ /\ result = "rejected" /\ Operation(r) \in ShutdownOperations
     /\ \/ extent = "none"
        \/ extent = "part" /\ Operation(r) = "prepare_machine_shutdown_occurrence"
  \/ /\ result = "failed" /\ extent # "whole"
     /\ extent = "none" \/ error \in LateErrors(Operation(r)) \cup {"audit_trail"}

LEMMA CalledStep ==
  ASSUME RequestsAssumption, Good, NEW r \in Requests, At(r, "invoke"),
         Operation(r) \in Mutations, Continue(r),
         NEW result, NEW extent \in {"none", "part", "whole"}, NEW error,
         Returns(r, result, extent), DOMAIN raised' = Requests, raised'[r] = error,
         \A q \in Requests \ {r} : raised'[q] = raised[q],
         Fits(r, result, extent, error),
         UNCHANGED <<asks, trail, admitted, windowOver>>
  PROVE  Good'
<1>1. /\ TypeOK /\ RequestInv(r) /\ todo[r] # <<>> /\ Head(todo[r]) = "invoke"
      /\ asks[r] # NoRequest /\ answer[r] = None /\ effect[r] = "none"
      /\ Succession(Operation(r), "invoke", Tail(todo[r]))
  BY AtStep
<1>2. Comes(Tail(todo[r]), {"complete"})
  BY <1>1 DEF Succession
<1>3. todo'[r] = Tail(todo[r]) /\ todo'[r] # <<>> /\ Head(todo'[r]) = "complete"
  <2>1. todo'[r] = Tail(todo[r]) /\ todo'[r] # <<>> /\ Head(todo'[r]) \in {"complete"}
    BY <1>1, <1>2, NextIsAt
  <2> QED BY <2>1
<1>4. trail[r] = <<"allowed", "started">> /\ Granted(r)
  BY <1>1 DEF RequestInv, Audited
<1>5. Len(trail'[r]) >= 2 /\ trail'[r][1] = "allowed" /\ trail'[r][2] = "started"
  BY <1>4
<1>6. Granted(r)' /\ Operation(r)' = Operation(r)
  BY <1>4 DEF Granted, Operation
<1>7. pending'[r] = result /\ effect'[r] = extent /\ raised'[r] = error
  BY <1>1 DEF Returns, TypeOK
<1>8. asks'[r] # NoRequest
  BY <1>1
<1>9. Audited(r)'
  BY <1>3, <1>5, <1>6, <1>8 DEF Audited, At, NoRequest
<1>10. ResultFits(r)'
  BY <1>6, <1>7 DEF ResultFits, Fits
<1>11. Tail(todo[r]) # <<>> /\ Head(Tail(todo[r])) \notin {"envelope", "admission"}
  BY <1>3
<1>12. Sound(r)'
  BY <1>1, <1>9, <1>10, <1>11, ContinuedIsSound
<1>13. Touches(r)
  BY <1>1 DEF Touches, TypeOK, Returns
<1> QED BY <1>1, <1>12, <1>13, ContinueStep

LEMMA InvokeStep ==
  ASSUME RequestsAssumption, Good, NEW r \in Requests, Invoke(r)
  PROVE  Good'
<1>1. At(r, "invoke") /\ UNCHANGED <<asks, trail, admitted, windowOver>>
  BY DEF Invoke
<1>2. /\ TypeOK /\ todo[r] # <<>> /\ Head(todo[r]) = "invoke"
  BY <1>1, AtStep
<1>3. UNCHANGED raised =>
        /\ DOMAIN raised' = Requests /\ raised'[r] = raised[r]
        /\ \A q \in Requests \ {r} : raised'[q] = raised[q]
  BY <1>2 DEF TypeOK
<1>4. ASSUME Operation(r) \notin Mutations, NEW result, NEW v, End(r, v),
             Returns(r, result, "none"), DOMAIN raised' = Requests,
             \A q \in Requests \ {r} : raised'[q] = raised[q]
      PROVE  Good'
  <2>1. Touches(r)
    BY <1>1, <1>2, <1>4 DEF Touches, TypeOK, Returns
  <2>2. effect'[r] = "none"
    BY <1>2, <1>4 DEF TypeOK, Returns
  <2> QED BY <1>2, <1>4, <2>1, <2>2, EarlyEndStep
<1>5. CASE /\ IF Operation(r) \in Mutations
              THEN Continue(r) /\ \E extent \in ReturnedExtents(Operation(r)) :
                     Returns(r, "succeeded", extent)
              ELSE Returns(r, "succeeded", "none") /\ End(r, "200")
           /\ UNCHANGED raised
  <2>1. CASE Operation(r) \in Mutations
    <3>1. PICK extent \in ReturnedExtents(Operation(r)) : Returns(r, "succeeded", extent)
      BY <1>5, <2>1
    <3>2. Fits(r, "succeeded", extent, raised[r])
      BY <3>1 DEF Fits
    <3>3. Continue(r) /\ extent \in {"none", "part", "whole"}
      BY <1>5, <2>1 DEF ReturnedExtents
    <3> QED BY <1>1, <1>3, <1>5, <2>1, <3>1, <3>2, <3>3, CalledStep
  <2>2. CASE Operation(r) \notin Mutations
    <3> QED BY <1>3, <1>4, <1>5, <2>2
  <2> QED BY <2>1, <2>2
<1>6. CASE /\ Operation(r) \in ShutdownOperations
           /\ \E extent \in {"none", "part"} :
                /\ extent = "part" =>
                     Operation(r) = "prepare_machine_shutdown_occurrence"
                /\ Returns(r, "rejected", extent)
           /\ Continue(r)
           /\ UNCHANGED raised
  <2>1. PICK extent \in {"none", "part"} :
          /\ extent = "part" => Operation(r) = "prepare_machine_shutdown_occurrence"
          /\ Returns(r, "rejected", extent)
    BY <1>6
  <2>2. Fits(r, "rejected", extent, raised[r])
    BY <1>6, <2>1 DEF Fits
  <2>3. Operation(r) \in Mutations
    BY <1>6, ShutdownsAreMutations
  <2> QED BY <1>1, <1>3, <1>6, <2>1, <2>2, <2>3, CalledStep
<1>7. ASSUME NEW error, NEW extent \in {"none", "part"},
             extent = "part" => error \in LateErrors(Operation(r))
                                /\ Operation(r) \in Mutations,
             Returns(r, "failed", extent),
             raised' = [raised EXCEPT ![r] = error],
             IF Operation(r) \in Mutations THEN Continue(r)
             ELSE Answer(r, RunnerError(error))
      PROVE  Good'
  <2>1. CASE Operation(r) \in Mutations
    <3>1. Fits(r, "failed", extent, error)
      BY <1>7 DEF Fits
    <3>2. /\ DOMAIN raised' = Requests /\ raised'[r] = error
          /\ \A q \in Requests \ {r} : raised'[q] = raised[q]
      BY <1>2, <1>7 DEF TypeOK
    <3> QED BY <1>1, <1>7, <2>1, <3>1, <3>2, CalledStep
  <2>2. CASE Operation(r) \notin Mutations
    <3>1. DOMAIN raised' = Requests /\ \A q \in Requests \ {r} : raised'[q] = raised[q]
      BY <1>2, <1>7 DEF TypeOK
    <3>2. End(r, ErrorAnswer(Operation(r), RunnerError(error)))
      BY <1>7, <2>2 DEF Answer
    <3>3. Returns(r, "failed", "none")
      BY <1>7, <2>2
    <3> QED BY <1>4, <2>2, <3>1, <3>2, <3>3
  <2> QED BY <2>1, <2>2
<1> QED BY <1>5, <1>6, <1>7 DEF Invoke

\* What the caller is told when the terminal event is lost after an effect.
LEMMA LateErrorsStayLate ==
  ASSUME NEW o, NEW error \in LateErrors(o) \cup {"audit_trail"}
  PROVE  RunnerError(error) \in AfterTheEffect
BY DEF LateErrors, RunnerError, PassesRunner, AfterTheEffect

LEMMA LostRecordErrors ==
  ASSUME NEW r, Operation(r) \in Mutations, At(r, "complete"), ResultFits(r)
  PROVE  /\ effect[r] # "none" => LostRecordError(r) \in AfterTheEffect
         /\ effect[r] # "none" /\ pending[r] # "failed" /\ Operation(r) \in Rechecked
              => LostRecordError(r) = "partial_effect"
<1>1. Operation(r) \in AuditedOperations
  BY MutationsAreAudited
<1>2. {"audit_trail", "partial_effect"} \subseteq AfterTheEffect
  BY DEF AfterTheEffect
<1>3. pending[r] = "failed" /\ effect[r] # "none" => RunnerError(raised[r]) \in AfterTheEffect
  BY LateErrorsStayLate DEF ResultFits
<1>4. pending[r] # "failed" /\ effect[r] # "none"
        /\ Operation(r) # "prepare_machine_shutdown_occurrence"
        => pending[r] = "succeeded"
  BY DEF ResultFits
<1> DEFINE Late(e) ==
      /\ effect[r] # "none" => e \in AfterTheEffect
      /\ effect[r] # "none" /\ pending[r] # "failed" /\ Operation(r) \in Rechecked
           => e = "partial_effect"
<1>5. "run_backup_scheduler_tick" \notin Rechecked
  BY DEF Rechecked, ServiceActions, WakeMutations, ShutdownOperations
<1>6. Late(ServiceRunnerError(r))
  BY <1>2, <1>4, <1>5 DEF ServiceRunnerError
<1>7. Late(MachineRunnerError(r))
  BY <1>2, <1>4, <1>5 DEF MachineRunnerError
<1>8. Late(BackupRunnerError(r))
  BY <1>2, <1>4, <1>5 DEF BackupRunnerError
<1>9. Late(HistoryRunnerError(r))
  BY <1>2, <1>4, <1>5 DEF HistoryRunnerError
<1>10. Late(WakeRunnerError(r))
  BY <1>2, <1>3, <1>4, <1>5 DEF WakeRunnerError
<1>11. Late(PrepareRunnerError(r))
  BY <1>2, <1>3, <1>4, <1>5 DEF PrepareRunnerError
<1>12. Operation(r) = "execute_machine_shutdown_occurrence" => Late(ExecuteRunnerError(r))
  BY <1>2, <1>3, <1>4, <1>5 DEF ExecuteRunnerError
<1>13. Operation(r) = "run_backup_scheduler_tick" => Late("audit_trail")
  BY <1>2, <1>5
<1> HIDE DEF Late
<1> DEFINE services == ServiceActions \cup AvailabilityMutations \cup ScheduleMutations
           prepare == "prepare_machine_shutdown_occurrence"
           execute == "execute_machine_shutdown_occurrence"
           tick == "run_backup_scheduler_tick"
           among(o, S) ==
             /\ o \in services <=> S = "services"
             /\ o \in MachineMutations <=> S = "machine"
             /\ o \in BackupTargetMutations <=> S = "backup"
             /\ o \in HistoryMutations <=> S = "history"
             /\ o \in WakeMutations <=> S = "wake"
             /\ o = prepare <=> S = "prepare"
             /\ o = execute <=> S = "execute"
             /\ o = tick <=> S = "tick"
<1>14. ASSUME among(Operation(r), "services") PROVE Late(LostRecordError(r))
  <2>1. LostRecordError(r) = ServiceRunnerError(r)
    BY <1>14 DEF LostRecordError
  <2> QED BY <1>6, <1>14, <2>1
<1>15. ASSUME among(Operation(r), "machine") PROVE Late(LostRecordError(r))
  <2>1. LostRecordError(r) = MachineRunnerError(r)
    BY <1>15 DEF LostRecordError
  <2> QED BY <1>7, <1>15, <2>1
<1>16. ASSUME among(Operation(r), "backup") PROVE Late(LostRecordError(r))
  <2>1. LostRecordError(r) = BackupRunnerError(r)
    BY <1>16 DEF LostRecordError
  <2> QED BY <1>8, <1>16, <2>1
<1>17. ASSUME among(Operation(r), "history") PROVE Late(LostRecordError(r))
  <2>1. LostRecordError(r) = HistoryRunnerError(r)
    BY <1>17 DEF LostRecordError
  <2> QED BY <1>9, <1>17, <2>1
<1>18. ASSUME among(Operation(r), "wake") PROVE Late(LostRecordError(r))
  <2>1. LostRecordError(r) = WakeRunnerError(r)
    BY <1>18 DEF LostRecordError
  <2> QED BY <1>10, <1>18, <2>1
<1>19. ASSUME among(Operation(r), "prepare") PROVE Late(LostRecordError(r))
  <2>1. LostRecordError(r) = PrepareRunnerError(r)
    BY <1>19 DEF LostRecordError
  <2> QED BY <1>11, <1>19, <2>1
<1>20. ASSUME among(Operation(r), "execute") PROVE Late(LostRecordError(r))
  <2>1. LostRecordError(r) = ExecuteRunnerError(r)
    BY <1>20 DEF LostRecordError
  <2> QED BY <1>12, <1>20, <2>1
<1>21. ASSUME among(Operation(r), "tick") PROVE Late(LostRecordError(r))
  <2>1. LostRecordError(r) = "audit_trail"
    BY <1>21 DEF LostRecordError
  <2> QED BY <1>13, <1>21, <2>1
<1>22. \E S \in {"services", "machine", "backup", "history", "wake", "prepare",
                "execute", "tick"} : among(Operation(r), S)
  <2> USE DEF ServiceActions, AvailabilityMutations, ScheduleMutations, MachineMutations,
              BackupTargetMutations, HistoryMutations, WakeMutations, ShutdownOperations
  <2>1. Operation(r) \in services => among(Operation(r), "services")
    OBVIOUS
  <2>2. Operation(r) \in MachineMutations => among(Operation(r), "machine")
    OBVIOUS
  <2>3. Operation(r) \in BackupTargetMutations => among(Operation(r), "backup")
    OBVIOUS
  <2>4. Operation(r) \in HistoryMutations => among(Operation(r), "history")
    OBVIOUS
  <2>5. Operation(r) \in WakeMutations => among(Operation(r), "wake")
    OBVIOUS
  <2>6. Operation(r) = prepare => among(Operation(r), "prepare")
    OBVIOUS
  <2>7. Operation(r) = execute => among(Operation(r), "execute")
    OBVIOUS
  <2>8. Operation(r) = tick => among(Operation(r), "tick")
    OBVIOUS
  <2> QED BY <1>1, <2>1, <2>2, <2>3, <2>4, <2>5, <2>6, <2>7, <2>8 DEF AuditedOperations
<1>23. Late(LostRecordError(r))
  BY <1>14, <1>15, <1>16, <1>17, <1>18, <1>19, <1>20, <1>21, <1>22
<1> QED BY <1>23 DEF Late

LEMMA CompleteStep ==
  ASSUME RequestsAssumption, Good, NEW r \in Requests, Complete(r)
  PROVE  Good'
<1>1. At(r, "complete") /\ UNCHANGED <<asks, effect, admitted, windowOver>>
  BY DEF Complete
<1>2. /\ TypeOK /\ RequestInv(r) /\ todo[r] # <<>> /\ Head(todo[r]) = "complete"
      /\ asks[r] # NoRequest /\ answer[r] = None
      /\ Succession(Operation(r), "complete", Tail(todo[r]))
  BY <1>1, AtStep
<1>3. Operation(r) \in Mutations /\ ResultFits(r)
  BY <1>2 DEF Succession, RequestInv
<1>4. /\ Granted(r)
      /\ Len(trail[r]) >= 2 /\ trail[r][1] = "allowed" /\ trail[r][2] = "started"
  BY <1>1, <1>2 DEF RequestInv, Audited
<1>5. pending[r] \in EventNames
  BY <1>1, <1>3 DEF ResultFits, EventNames
<1>6. RecordFails(r, pending[r]) =>
        /\ trail' \in [Requests -> Seq(EventNames)]
        /\ \A q \in Requests \ {r} : trail'[q] = trail[q]
        /\ Len(trail'[r]) >= 2 /\ trail'[r][1] = "allowed" /\ trail'[r][2] = "started"
  <2>1. CASE UNCHANGED trail
    BY <1>2, <1>4, <2>1 DEF TypeOK
  <2>2. CASE Keeps(r, pending[r])
    <3>1. /\ trail' \in [Requests -> Seq(EventNames)]
          /\ Len(trail'[r]) = Len(trail[r]) + 1
          /\ \A i \in 1 .. Len(trail[r]) : trail'[r][i] = trail[r][i]
          /\ \A q \in Requests \ {r} : trail'[q] = trail[q]
      BY <1>2, <1>5, <2>2, KeptEvent
    <3>2. Len(trail[r]) \in Nat
      BY <1>2, LenProperties DEF TypeOK
    <3>3. 1 \in 1 .. Len(trail[r]) /\ 2 \in 1 .. Len(trail[r])
      BY <1>4, <3>2
    <3> QED BY <1>4, <3>1, <3>2, <3>3
  <2> QED BY <2>1, <2>2 DEF RecordFails
<1>7. Keeps(r, pending[r]) => RecordFails(r, pending[r]) /\ Last(trail'[r]) = pending[r]
  BY <1>2, <1>5, KeptEvent DEF RecordFails
<1>8. ASSUME NEW v, End(r, v), RecordFails(r, pending[r]), UNCHANGED <<pending, raised>>,
             v \in RefusedStatuses => effect[r] = "none",
             v \in SuccessStatuses =>
               \/ /\ Last(trail'[r]) = "succeeded"
                  /\ \/ effect[r] = "whole"
                     \/ Operation(r) = "prepare_machine_shutdown_occurrence"
                     \/ v = "200_incomplete" /\ Operation(r) \in ReportingOperations
               \/ Operation(r) \in ShutdownOperations /\ Last(trail'[r]) = "rejected",
             v \notin SuccessStatuses =>
               (effect[r] # "none" /\ pending[r] # "failed" /\ Operation(r) \in Rechecked
                 => v = "state_recheck_required")
      PROVE  Good'
  <2>1. Touches(r)
    BY <1>1, <1>2, <1>6, <1>8 DEF Touches, TypeOK
  <2>2. RequestInv(r)'
    BY <1>1, <1>2, <1>4, <1>6, <1>8, EndedIsSound
  <2>3. answer'[r] = v
    BY <1>2, <1>8 DEF End, TypeOK
  <2>4. /\ Operation(r)' = Operation(r) /\ effect'[r] = effect[r]
        /\ pending'[r] = pending[r]
    BY <1>1, <1>8 DEF Operation
  <2>5. AnswerMatchesEffect(r)'
    BY <1>8, <2>3, <2>4 DEF AnswerMatchesEffect
  <2>6. LostTerminalIsRechecked(r)'
    BY <1>8, <2>3, <2>4 DEF LostTerminalIsRechecked, Rechecked
  <2>7. Sound(r)'
    BY <2>2, <2>5, <2>6 DEF Sound
  <2> QED BY <1>8, <2>1, <2>7, EndStep
<1>9. \A error : ErrorAnswer(Operation(r), error) \notin SuccessStatuses
                 /\ (error \in AfterTheEffect
                       => ErrorAnswer(Operation(r), error) \notin RefusedStatuses)
  BY ErrorsAreNoSuccess DEF Candid
<1>10. CASE Keeps(r, pending[r]) /\ UNCHANGED <<pending, raised>>
            /\ pending[r] = "failed" /\ Answer(r, RunnerError(raised[r]))
  <2> DEFINE v == ErrorAnswer(Operation(r), RunnerError(raised[r]))
  <2>1. effect[r] # "none" => RunnerError(raised[r]) \in AfterTheEffect
    BY <1>1, <1>3, <1>10, LateErrorsStayLate DEF ResultFits
  <2>2. v \notin SuccessStatuses /\ (v \in RefusedStatuses => effect[r] = "none")
    BY <1>9, <2>1
  <2>3. End(r, v)
    BY <1>10 DEF Answer
  <2> HIDE DEF v
  <2> QED BY <1>7, <1>8, <1>10, <2>2, <2>3
<1>11. CASE Keeps(r, pending[r]) /\ UNCHANGED <<pending, raised>>
            /\ pending[r] # "failed" /\ End(r, SuccessAnswer(r))
  <2>1. /\ SuccessAnswer(r) \in SuccessStatuses
        /\ SuccessAnswer(r) \notin RefusedStatuses
    BY DEF SuccessAnswer, SuccessStatuses, RefusedStatuses
  <2>2. effect[r] \in ReturnedExtents(Operation(r)) =>
          \/ effect[r] = "whole"
          \/ Operation(r) = "prepare_machine_shutdown_occurrence"
          \/ SuccessAnswer(r) = "200_incomplete" /\ Operation(r) \in ReportingOperations
    BY DEF ReturnedExtents, SuccessAnswer
  <2>3. \/ /\ Last(trail'[r]) = "succeeded"
           /\ \/ effect[r] = "whole"
              \/ Operation(r) = "prepare_machine_shutdown_occurrence"
              \/ SuccessAnswer(r) = "200_incomplete" /\ Operation(r) \in ReportingOperations
        \/ Operation(r) \in ShutdownOperations /\ Last(trail'[r]) = "rejected"
    BY <1>1, <1>3, <1>7, <1>11, <2>2 DEF ResultFits
  <2> QED BY <1>7, <1>8, <1>11, <2>1, <2>3
<1>12. CASE RecordFails(r, pending[r]) /\ Answer(r, LostRecordError(r))
            /\ UNCHANGED <<pending, raised>>
  <2> DEFINE v == ErrorAnswer(Operation(r), LostRecordError(r))
  <2>1. /\ effect[r] # "none" => LostRecordError(r) \in AfterTheEffect
        /\ effect[r] # "none" /\ pending[r] # "failed" /\ Operation(r) \in Rechecked
             => LostRecordError(r) = "partial_effect"
    BY <1>1, <1>3, LostRecordErrors
  <2>2. v \notin SuccessStatuses /\ (v \in RefusedStatuses => effect[r] = "none")
    BY <1>9, <2>1
  <2>3. effect[r] # "none" /\ pending[r] # "failed" /\ Operation(r) \in Rechecked
          => v = "state_recheck_required"
    BY <2>1, PartialEffectIsRechecked
  <2>4. End(r, v)
    BY <1>12 DEF Answer
  <2> HIDE DEF v
  <2> QED BY <1>8, <1>12, <2>2, <2>3, <2>4
<1>13. CASE RecordFails(r, pending[r]) /\ TickFailsLate(r)
            /\ Operation(r) = "run_backup_scheduler_tick" /\ pending[r] # "failed"
  <2>1. /\ pending'[r] = "failed" /\ raised'[r] = "audit_trail"
        /\ DOMAIN pending' = Requests /\ DOMAIN raised' = Requests
        /\ \A q \in Requests \ {r} : pending'[q] = pending[q] /\ raised'[q] = raised[q]
        /\ UNCHANGED <<todo, answer, inside, gates, active>>
    BY <1>2, <1>13 DEF TickFailsLate, TypeOK
  <2>2. TypeOK'
    BY <1>1, <1>2, <1>6, <1>13, <2>1 DEF TypeOK
  <2>3. GateInv' /\ AdmissionInv'
    BY <1>1, <2>1, PermitsStay DEF Good
  <2>4. LeftToDo(r)' /\ Admitted(r)'
    BY <1>1, <1>2, <2>1 DEF RequestInv, LeftToDo, Admitted, Operation
  <2>5. Audited(r)'
    BY <1>1, <1>2, <1>4, <1>6, <1>13, <2>1 DEF Audited, At, Granted, Operation
  <2>6. ResultFits(r)'
    BY <1>1, <1>3, <1>13, <2>1 DEF ResultFits, Operation
  <2>7. Sound(r)'
    BY <1>2, <2>1, <2>4, <2>5, <2>6, SilentIsSound DEF RequestInv
  <2>8. ASSUME NEW q \in Requests, q # r PROVE Sound(q)'
    <3>1. Sound(q) /\ trail'[q] = trail[q]
      BY <1>6, <1>13, <2>8 DEF Good
    <3> QED BY <1>1, <2>1, <2>8, <3>1, OthersStaySound
  <2> QED BY <2>2, <2>3, <2>7, <2>8 DEF Good
<1> QED BY <1>10, <1>11, <1>12, <1>13 DEF Complete

\* A handler starts with the first of its steps.
LEMMA HandlerStarts ==
  ASSUME NEW o
  PROVE  /\ HandlerSteps(o) \in Seq(StepNames) /\ HandlerSteps(o) # <<>>
         /\ Head(HandlerSteps(o)) = "envelope"
<1>1. /\ HandlerSteps(o) \in Seq(StepNames) /\ HandlerSteps(o)[1] = "envelope"
      /\ Len(HandlerSteps(o)) # 0
  BY HandlerStepsInOrder DEF HandlerShape
<1>2. \A s \in Seq(StepNames) : Len(s) # 0 => s # <<>> /\ Head(s) = s[1]
  OBVIOUS
<1> QED BY <1>1, <1>2

LEMMA ArriveStep ==
  ASSUME RequestsAssumption, Good, NEW r \in Requests, Arrive(r)
  PROVE  Good'
<1>1. /\ asks[r] = NoRequest
      /\ UNCHANGED <<inside, pending, raised, trail, effect, answer, gates, active,
                     admitted, windowOver>>
  BY DEF Arrive
<1>2. PICK o \in Operations, c \in Callers, b \in BOOLEAN :
        /\ asks' = [asks EXCEPT ![r] = [operation |-> o, caller |-> c, bounded |-> b]]
        /\ todo' = [todo EXCEPT ![r] = HandlerSteps(o)]
  BY DEF Arrive
<1>3. TypeOK /\ RequestInv(r)
  BY DEF Good, Sound
<1>4. asks'[r] = [operation |-> o, caller |-> c, bounded |-> b]
      /\ todo'[r] = HandlerSteps(o)
  BY <1>2, <1>3 DEF TypeOK
<1>5. HandlerSteps(o) \in Seq(StepNames) /\ HandlerSteps(o) # <<>>
      /\ Head(HandlerSteps(o)) = "envelope"
  BY HandlerStarts
<1>6. asks'[r] # NoRequest /\ Operation(r)' = o
  BY <1>4, NoneIsNotRouted DEF RequestsAssumption, NoRequest, Operation
<1>7. TypeOK'
  <2>1. asks' \in [Requests -> {NoRequest} \cup
          [operation : Operations, caller : Callers, bounded : BOOLEAN]]
    BY <1>2, <1>3 DEF TypeOK
  <2>2. todo' \in [Requests -> Seq(StepNames)]
    BY <1>2, <1>3, <1>5 DEF TypeOK
  <2> QED BY <1>1, <1>3, <2>1, <2>2 DEF TypeOK
<1>8. todo[r] = <<>> /\ answer[r] = None /\ effect[r] = "none" /\ trail[r] = <<>>
      /\ inside[r] = {}
  <2>1. todo[r] = <<>>
    BY <1>1, <1>3 DEF RequestInv, LeftToDo
  <2>2. answer[r] = None /\ inside[r] \subseteq {"admission", "gate"}
        /\ "admission" \notin inside[r] /\ "gate" \notin inside[r]
    BY <1>1, <1>3, <2>1 DEF RequestInv, Admitted, TypeOK
  <2>3. effect[r] = "none" /\ trail[r] = <<>>
    BY <1>1, <1>3 DEF RequestInv, Audited
  <2> QED BY <2>1, <2>2, <2>3
<1>9. LeftToDo(r)'
  <2> DEFINE steps == HandlerSteps(o)
  <2>1. Len(steps) \in Nat /\ DOMAIN steps = 1 .. Len(steps)
    BY <1>5, LenProperties
  <2> HIDE DEF steps
  <2>2. Len(steps) - Len(steps) = 0 /\ \A i \in DOMAIN steps : 0 + i = i
    BY <2>1
  <2>3. todo'[r] = steps /\ HandlerSteps(Operation(r))' = steps
    BY <1>4, <1>6 DEF steps
  <2> QED BY <1>6, <2>2, <2>3 DEF LeftToDo, NoRequest
<1>10. Audited(r)'
  BY <1>1, <1>4, <1>5, <1>6, <1>8 DEF Audited, At, NoRequest
<1>11. Admitted(r)'
  BY <1>1, <1>4, <1>5, <1>6, <1>8 DEF Admitted, NoRequest
<1>12. ResultFits(r)'
  BY <1>4, <1>5 DEF ResultFits, At
<1>13. Sound(r)'
  BY <1>1, <1>8, <1>9, <1>10, <1>11, <1>12, SilentIsSound DEF RequestInv
<1>14. ASSUME NEW q \in Requests, q # r PROVE Sound(q)'
  <2>1. asks'[q] = asks[q] /\ todo'[q] = todo[q]
    BY <1>2, <1>3, <1>14 DEF TypeOK
  <2>2. Sound(q)
    BY DEF Good
  <2> QED BY <1>1, <2>1, <2>2, OthersStaySound
<1>15. GateInv'
  <2>1. ASSUME NEW g \in Gates PROVE Holders(g)' = Holders(g)
    <3>1. \A q \in Requests \ {r} : Operation(q)' = Operation(q) /\ inside'[q] = inside[q]
      BY <1>1, <1>2, <1>3 DEF Operation, TypeOK
    <3>2. inside'[r] = {} /\ inside[r] = {}
      BY <1>1, <1>8
    <3> QED BY <3>1, <3>2 DEF Holders
  <2> QED BY <1>1, <2>1 DEF Good, GateInv
<1>16. AdmissionInv'
  BY <1>1 DEF Good, AdmissionInv
<1> QED BY <1>7, <1>13, <1>14, <1>15, <1>16 DEF Good

LEMMA WindowStep ==
  ASSUME Good, WindowPasses
  PROVE  Good'
<1>1. /\ windowOver' = TRUE
      /\ UNCHANGED <<asks, todo, inside, pending, raised, trail, effect, answer, gates,
                     active, admitted>>
  BY DEF WindowPasses
<1>2. TypeOK'
  BY <1>1 DEF Good, TypeOK
<1>3. ASSUME NEW q \in Requests PROVE Sound(q)'
  BY <1>1, OthersStaySound DEF Good
<1>4. GateInv' /\ AdmissionInv'
  BY <1>1, PermitsStay DEF Good
<1> QED BY <1>2, <1>3, <1>4 DEF Good

LEMMA CrashStep ==
  ASSUME RequestsAssumption, Good, Crash
  PROVE  Good'
<1>1. /\ answer' = [r \in Requests |-> IF todo[r] # <<>> THEN "dropped" ELSE answer[r]]
      /\ effect' = [r \in Requests |->
           IF At(r, "invoke") /\ Operation(r) \in Mutations THEN "part" ELSE effect[r]]
      /\ todo' = [r \in Requests |-> <<>>]
      /\ inside' = [r \in Requests |-> {}]
      /\ gates' = [g \in Gates |-> FALSE]
      /\ active' = 0 /\ admitted' = 0 /\ windowOver' = TRUE
      /\ UNCHANGED <<asks, pending, raised, trail>>
  BY DEF Crash
<1>2. TypeOK'
  <2>1. effect' \in [Requests -> {"none", "part", "whole"}]
    BY <1>1 DEF Good, TypeOK
  <2>2. todo' \in [Requests -> Seq(StepNames)]
    BY <1>1
  <2>3. DOMAIN answer' = Requests
    BY <1>1
  <2>4. /\ inside' \in [Requests -> SUBSET {"admission", "gate"}]
        /\ gates' \in [Gates -> BOOLEAN]
        /\ active' \in 0 .. MaximumConcurrent /\ admitted' \in 0 .. MaximumRequests
    BY <1>1 DEF RequestsAssumption
  <2> QED BY <1>1, <2>1, <2>2, <2>3, <2>4 DEF Good, TypeOK
<1>3. ASSUME NEW r \in Requests PROVE Sound(r)'
  <2>1. RequestInv(r) /\ TypeOK /\ Sound(r)
    BY DEF Good, Sound
  <2>2. /\ todo'[r] = <<>> /\ inside'[r] = {} /\ asks'[r] = asks[r] /\ trail'[r] = trail[r]
        /\ answer'[r] = IF todo[r] # <<>> THEN "dropped" ELSE answer[r]
        /\ effect'[r] = IF At(r, "invoke") /\ Operation(r) \in Mutations THEN "part"
                        ELSE effect[r]
        /\ Operation(r)' = Operation(r)
    BY <1>1 DEF Operation
  <2>3. LeftToDo(r)' /\ ResultFits(r)'
    BY <2>2 DEF LeftToDo, ResultFits, At
  <2>4. Admitted(r)'
    <3>1. asks[r] = NoRequest => todo[r] = <<>> /\ answer[r] = None
      BY <2>1 DEF RequestInv, LeftToDo, Admitted
    <3> QED BY <2>2, <3>1 DEF Admitted, NoRequest
  <2>5. Audited(r)'
    <3>1. asks[r] = NoRequest => todo[r] = <<>> /\ effect[r] = "none" /\ trail[r] = <<>>
      BY <2>1 DEF RequestInv, LeftToDo, Audited
    <3>2. At(r, "invoke") => todo[r] # <<>>
      BY DEF At
    <3>3. At(r, "invoke") /\ Operation(r) \in Mutations =>
            Granted(r) /\ trail[r] = <<"allowed", "started">>
      BY <2>1 DEF RequestInv, Audited
    <3>4. effect'[r] # "none" =>
            /\ Granted(r)
            /\ Len(trail[r]) >= 2 /\ trail[r][1] = "allowed" /\ trail[r][2] = "started"
      <4>1. CASE At(r, "invoke") /\ Operation(r) \in Mutations
        BY <3>3, <4>1
      <4>2. CASE ~(At(r, "invoke") /\ Operation(r) \in Mutations)
        <5>1. effect'[r] = effect[r]
          BY <2>2, <4>2
        <5> QED BY <2>1, <5>1 DEF RequestInv, Audited
      <4> QED BY <4>1, <4>2
    <3>5. asks[r] = NoRequest => effect'[r] = "none"
      BY <2>2, <3>1, <3>2
    <3> QED BY <2>2, <3>1, <3>4, <3>5 DEF Audited, At, Granted, NoRequest
  <2>6. AnswerMatchesEffect(r)' /\ LostTerminalIsRechecked(r)'
    <3>1. CASE todo[r] # <<>>
      <4>1. answer'[r] = "dropped"
        BY <2>2, <3>1
      <4> QED BY <4>1 DEF AnswerMatchesEffect, LostTerminalIsRechecked, RefusedStatuses,
                          SuccessStatuses
    <3>2. CASE todo[r] = <<>>
      <4>1. /\ answer'[r] = answer[r] /\ effect'[r] = effect[r]
            /\ pending'[r] = pending[r]
        BY <1>1, <2>2, <3>2 DEF At
      <4> QED BY <2>1, <2>2, <4>1
            DEF Sound, AnswerMatchesEffect, LostTerminalIsRechecked
    <3> QED BY <3>1, <3>2
  <2> QED BY <2>3, <2>4, <2>5, <2>6 DEF Sound, RequestInv
<1>4. GateInv'
  BY <1>1 DEF GateInv, Holders
<1>5. AdmissionInv'
  <2>1. {r \in Requests : "admission" \in inside'[r]} = {}
    BY <1>1
  <2> QED BY <1>1, <2>1, FS_EmptySet DEF AdmissionInv
<1> QED BY <1>2, <1>3, <1>4, <1>5 DEF Good

LEMMA InitIsGood == RequestsAssumption /\ Init => Good
<1> SUFFICES ASSUME RequestsAssumption, Init PROVE Good
  OBVIOUS
<1>1. TypeOK
  <2>1. /\ asks \in [Requests -> {NoRequest} \cup
             [operation : Operations, caller : Callers, bounded : BOOLEAN]]
        /\ todo \in [Requests -> Seq(StepNames)]
        /\ trail \in [Requests -> Seq(EventNames)]
        /\ inside \in [Requests -> SUBSET {"admission", "gate"}]
        /\ effect \in [Requests -> {"none", "part", "whole"}]
    BY DEF Init
  <2>2. \A given \in {pending, raised, answer} : DOMAIN given = Requests
    BY DEF Init
  <2>3. /\ gates \in [Gates -> BOOLEAN] /\ active \in 0 .. MaximumConcurrent
        /\ admitted \in 0 .. MaximumRequests /\ windowOver \in BOOLEAN
    BY DEF Init, RequestsAssumption
  <2> QED BY <2>1, <2>2, <2>3 DEF TypeOK
<1>2. ASSUME NEW r \in Requests PROVE Sound(r)
  <2>1. asks[r] = NoRequest /\ todo[r] = <<>> /\ inside[r] = {} /\ trail[r] = <<>>
        /\ effect[r] = "none" /\ answer[r] = None
    BY DEF Init
  <2>2. RequestInv(r)
    BY <2>1 DEF RequestInv, LeftToDo, Audited, Admitted, ResultFits, At
  <2> QED BY <2>1, <2>2
        DEF Sound, AnswerMatchesEffect, LostTerminalIsRechecked, RefusedStatuses,
            SuccessStatuses, None
<1>3. GateInv
  BY DEF Init, GateInv, Holders
<1>4. AdmissionInv
  <2>1. {r \in Requests : "admission" \in inside[r]} = {}
    BY DEF Init
  <2> QED BY <2>1, FS_EmptySet DEF Init, AdmissionInv
<1> QED BY <1>1, <1>2, <1>3, <1>4 DEF Good

LEMMA GoodIsInvariant == RequestsAssumption /\ Good /\ [Next]_vars => Good'
<1> SUFFICES ASSUME RequestsAssumption, Good, [Next]_vars PROVE Good'
  OBVIOUS
<1>1. ASSUME NEW r \in Requests, Arrive(r) \/ Handle(r) PROVE Good'
  <2>1. CASE Arrive(r)
    BY <2>1, ArriveStep
  <2>2. CASE Admission(r)
    BY <2>2, AdmissionStep
  <2>3. CASE Check(r)
    BY <2>3, CheckStep
  <2>4. CASE Gate(r)
    BY <2>4, GateStep
  <2>5. CASE Authenticate(r)
    BY <2>5, AuthenticateStep
  <2>6. CASE Authorize(r)
    BY <2>6, AuthorizeStep
  <2>7. CASE Decide(r)
    BY <2>7, DecideStep
  <2>8. CASE Begin(r)
    BY <2>8, BeginStep
  <2>9. CASE Invoke(r)
    BY <2>9, InvokeStep
  <2>10. CASE Complete(r)
    BY <2>10, CompleteStep
  <2> QED BY <1>1, <2>1, <2>2, <2>3, <2>4, <2>5, <2>6, <2>7, <2>8, <2>9, <2>10 DEF Handle
<1>2. CASE WindowPasses
  BY <1>2, WindowStep
<1>3. CASE Crash
  BY <1>3, CrashStep
<1>4. CASE UNCHANGED vars
  <2>1. TypeOK'
    BY <1>4 DEF Good, TypeOK, vars
  <2>2. ASSUME NEW q \in Requests PROVE Sound(q)'
    BY <1>4, OthersStaySound DEF Good, vars
  <2>3. GateInv' /\ AdmissionInv'
    BY <1>4, PermitsStay DEF Good, vars
  <2> QED BY <2>1, <2>2, <2>3 DEF Good
<1> QED BY <1>1, <1>2, <1>3, <1>4 DEF Next

-----------------------------------------------------------------------------
(* What the catalogue and the history will be asked about a request.        *)

LEMMA HeadOrTail ==
  ASSUME NEW t \in Seq(StepNames), t # <<>>, NEW s
  PROVE  Contains(t, s) <=> Head(t) = s \/ Contains(Tail(t), s)
<1>1. /\ Len(t) \in Nat \ {0} /\ Head(t) = t[1] /\ Len(Tail(t)) = Len(t) - 1
      /\ \A i \in 1 .. Len(Tail(t)) : Tail(t)[i] = t[i + 1]
  BY HeadTailProperties, LenProperties, EmptySeq
<1>2. ASSUME NEW i \in 1 .. Len(t), t[i] = s PROVE Head(t) = s \/ Contains(Tail(t), s)
  <2>1. CASE i = 1
    BY <1>1, <1>2, <2>1
  <2>2. CASE i # 1
    <3>1. i - 1 \in 1 .. Len(Tail(t)) /\ (i - 1) + 1 = i
      BY <1>1, <2>2
    <3>2. Tail(t)[i - 1] = s
      BY <1>1, <1>2, <3>1
    <3> QED BY <3>1, <3>2 DEF Contains
  <2> QED BY <2>1, <2>2
<1>3. ASSUME NEW i \in 1 .. Len(Tail(t)), Tail(t)[i] = s PROVE Contains(t, s)
  <2>1. i + 1 \in 1 .. Len(t) /\ t[i + 1] = s
    BY <1>1, <1>3
  <2> QED BY <2>1 DEF Contains
<1>4. Head(t) = s => Contains(t, s)
  <2>1. 1 \in 1 .. Len(t)
    BY <1>1
  <2> QED BY <1>1, <2>1 DEF Contains
<1> QED BY <1>2, <1>3, <1>4 DEF Contains

\* Its gate is held or still to come.
GateIsTold(r) ==
  Contains(HandlerSteps(Operation(r)), "gate")
    <=> "gate" \in inside[r] \/ Contains(todo[r], "gate")

LEMMA GateStaysTold ==
  ASSUME TypeOK, NEW r \in Requests, todo[r] # <<>>, asks' = asks,
         todo'[r] = Tail(todo[r]), GateIsTold(r),
         "gate" \in inside'[r] <=> "gate" \in inside[r] \/ Head(todo[r]) = "gate"
  PROVE  GateIsTold(r)'
<1>1. todo[r] \in Seq(StepNames)
  BY DEF TypeOK
<1>2. Contains(todo[r], "gate") <=> Head(todo[r]) = "gate" \/ Contains(Tail(todo[r]), "gate")
  BY <1>1, HeadOrTail
<1>3. Operation(r)' = Operation(r)
  BY DEF Operation
<1> QED BY <1>2, <1>3 DEF GateIsTold

\* A handler that continues takes no gate.
LEMMA ContinuedIsTold ==
  ASSUME TypeOK, NEW r \in Requests, todo[r] # <<>>, asks' = asks, Continue(r),
         Head(todo[r]) # "gate", GateIsTold(r)
  PROVE  GateIsTold(r)'
<1>1. todo'[r] = Tail(todo[r]) /\ inside'[r] = inside[r]
  BY DEF Continue, Advance, TypeOK
<1> QED BY <1>1, GateStaysTold

\* Before the decision and the call, only the gate has to be told.
LEMMA NotYetAsked ==
  ASSUME NEW r, GateIsTold(r)', todo'[r] # <<>>,
         Head(todo'[r]) \notin {"decide", "invoke", "complete"}
  PROVE  Catalogued(r)'
BY DEF Catalogued, GateIsTold, At

LEMMA EndedIsCatalogued ==
  ASSUME NEW r, todo'[r] = <<>>
  PROVE  Catalogued(r)'
BY DEF Catalogued, At

LEMMA UntouchedIsCatalogued ==
  ASSUME NEW q, Catalogued(q), asks'[q] = asks[q], todo'[q] = todo[q],
         inside'[q] = inside[q], pending'[q] = pending[q], trail'[q] = trail[q]
  PROVE  Catalogued(q)'
<1>1. Operation(q)' = Operation(q) /\ \A s : At(q, s)' <=> At(q, s)
  BY DEF Operation, At
<1> QED BY <1>1 DEF Catalogued

\* A step writes the records of its own request.
LEMMA OthersAreUntouched ==
  ASSUME TypeOK, NEW r \in Requests, Handle(r), NEW q \in Requests, q # r
  PROVE  /\ asks'[q] = asks[q] /\ todo'[q] = todo[q] /\ inside'[q] = inside[q]
         /\ pending'[q] = pending[q] /\ trail'[q] = trail[q]
<1>1. ASSUME NEW v, End(r, v) PROVE todo'[q] = todo[q] /\ inside'[q] = inside[q]
  BY <1>1 DEF End, TypeOK
<1>2. ASSUME Continue(r) PROVE todo'[q] = todo[q] /\ inside'[q] = inside[q]
  BY <1>2 DEF Continue, Advance, TypeOK
<1>3. ASSUME NEW error, Answer(r, error) PROVE todo'[q] = todo[q] /\ inside'[q] = inside[q]
  BY <1>1, <1>3 DEF Answer
<1>4. ASSUME NEW event, Keeps(r, event) PROVE trail'[q] = trail[q]
  BY <1>4 DEF Keeps, TypeOK
<1>5. ASSUME NEW event, RecordFails(r, event) PROVE trail'[q] = trail[q]
  BY <1>4, <1>5 DEF RecordFails
<1>6. ASSUME NEW error, NEW reason, Rejects(r, error, reason)
      PROVE  todo'[q] = todo[q] /\ inside'[q] = inside[q] /\ trail'[q] = trail[q]
  BY <1>3, <1>4, <1>6 DEF Rejects
<1>7. CASE Admission(r)
  <2>1. UNCHANGED <<asks, pending, trail>>
    BY <1>7 DEF Admission
  <2>2. \/ End(r, "429")
        \/ Advance(r) /\ inside' = [inside EXCEPT ![r] = @ \cup {"admission"}]
    BY <1>7 DEF Admission
  <2> QED BY <1>1, <2>1, <2>2 DEF Advance, TypeOK
<1>8. CASE Check(r)
  BY <1>1, <1>2, <1>8 DEF Check
<1>9. CASE Gate(r)
  <2>1. UNCHANGED <<asks, pending, trail>>
    BY <1>9 DEF Gate
  <2>2. \/ End(r, "409")
        \/ Advance(r) /\ inside' = [inside EXCEPT ![r] = @ \cup {"gate"}]
    BY <1>9 DEF Gate
  <2> QED BY <1>1, <2>1, <2>2 DEF Advance, TypeOK
<1>10. CASE Authenticate(r)
  BY <1>2, <1>6, <1>10 DEF Authenticate
<1>11. CASE Authorize(r)
  <2>1. pending'[q] = pending[q] /\ asks' = asks /\ trail' = trail
    BY <1>11 DEF Authorize, TypeOK
  <2> QED BY <1>2, <1>3, <1>11, <2>1 DEF Authorize
<1>12. CASE Decide(r)
  BY <1>2, <1>3, <1>4, <1>5, <1>6, <1>12 DEF Decide
<1>13. CASE Begin(r)
  BY <1>2, <1>3, <1>4, <1>5, <1>13 DEF Begin
<1>14. CASE Invoke(r)
  <2>1. \E result, extent : Returns(r, result, extent)
    BY <1>14 DEF Invoke
  <2>2. pending'[q] = pending[q]
    BY <2>1 DEF Returns, TypeOK
  <2>3. Continue(r) \/ End(r, "200") \/ \E error : Answer(r, error)
    BY <1>14 DEF Invoke
  <2>4. asks' = asks /\ trail' = trail
    BY <1>14 DEF Invoke
  <2> QED BY <1>1, <1>2, <1>3, <2>2, <2>3, <2>4
<1>15. CASE Complete(r)
  <2>1. asks' = asks /\ (Keeps(r, pending[r]) \/ RecordFails(r, pending[r]))
    BY <1>15 DEF Complete
  <2>2. \/ pending' = pending /\ (End(r, SuccessAnswer(r)) \/ \E error : Answer(r, error))
        \/ TickFailsLate(r)
    BY <1>15 DEF Complete
  <2>3. pending'[q] = pending[q] /\ todo'[q] = todo[q] /\ inside'[q] = inside[q]
    BY <1>1, <1>3, <2>2 DEF TickFailsLate, TypeOK
  <2> QED BY <1>4, <1>5, <2>1, <2>3
<1> QED BY <1>7, <1>8, <1>9, <1>10, <1>11, <1>12, <1>13, <1>14, <1>15 DEF Handle

\* A handler that ends leaves nothing to tell.
LEMMA EndLeavesNothing ==
  ASSUME TypeOK, NEW r \in Requests, (\E v : End(r, v)) \/ (\E error : Answer(r, error))
  PROVE  Catalogued(r)'
<1>1. todo'[r] = <<>>
  BY DEF End, Answer, TypeOK
<1> QED BY <1>1, EndedIsCatalogued

\* The steps before the authorization tell of the gate only.
LEMMA EarlyStepIsCatalogued ==
  ASSUME Good, NEW r \in Requests, Catalogued(r),
         Admission(r) \/ Check(r) \/ Gate(r) \/ Authenticate(r)
  PROVE  Catalogued(r)'
<1> DEFINE late == {"decide", "invoke", "complete"}
<1>1. TypeOK /\ asks' = asks
  BY DEF Good, Admission, Check, Gate, Authenticate
<1>2. \A x \in RouteStepNames \cup {"admission", "authenticate", "authorize"} : x \notin late
  BY DEF RouteStepNames, Checks
<1>3. PICK step \in Checks \cup {"admission", "gate", "authenticate"} : At(r, step)
  BY DEF Admission, Check, Gate, Authenticate
<1>4. /\ todo[r] # <<>> /\ Head(todo[r]) = step
      /\ Succession(Operation(r), step, Tail(todo[r]))
  BY <1>3, AtStep
<1>5. Comes(Tail(todo[r]), RouteStepNames \cup {"admission", "authenticate", "authorize"})
  <2>1. step = "envelope" \/ step \in RouteStepNames \cup {"admission"}
          \/ step = "authenticate"
    BY DEF RouteStepNames, Checks
  <2> QED BY <1>4, <2>1 DEF Succession, Comes
<1>6. GateIsTold(r)
  BY <1>4 DEF Catalogued, GateIsTold
<1>7. ASSUME todo'[r] = Tail(todo[r]),
             "gate" \in inside'[r] <=> "gate" \in inside[r] \/ Head(todo[r]) = "gate"
      PROVE  Catalogued(r)'
  <2>1. GateIsTold(r)'
    BY <1>1, <1>4, <1>6, <1>7, GateStaysTold
  <2>2. todo'[r] # <<>> /\ Head(todo'[r]) \notin late
    BY <1>2, <1>5, <1>7 DEF Comes
  <2> QED BY <2>1, <2>2, NotYetAsked
<1>8. ASSUME Continue(r), Head(todo[r]) # "gate" PROVE Catalogued(r)'
  <2>1. todo'[r] = Tail(todo[r]) /\ inside' = inside
    BY <1>1, <1>8 DEF Continue, Advance, TypeOK
  <2> QED BY <1>7, <1>8, <2>1
<1>9. CASE Admission(r)
  <2>1. Head(todo[r]) = "admission"
    BY <1>9 DEF Admission, At
  <2>2. \/ End(r, "429")
        \/ Advance(r) /\ inside' = [inside EXCEPT ![r] = @ \cup {"admission"}]
    BY <1>9 DEF Admission
  <2>3. CASE Advance(r) /\ inside' = [inside EXCEPT ![r] = @ \cup {"admission"}]
    <3>1. todo'[r] = Tail(todo[r]) /\ inside'[r] = inside[r] \cup {"admission"}
      BY <1>1, <2>3 DEF Advance, TypeOK
    <3> QED BY <1>7, <2>1, <3>1
  <2> QED BY <1>1, <2>2, <2>3, EndLeavesNothing
<1>10. CASE Check(r)
  <2>1. Head(todo[r]) # "gate"
    BY <1>10 DEF Check, Checks, At
  <2>2. Continue(r) \/ \E v : End(r, v)
    BY <1>10 DEF Check
  <2> QED BY <1>1, <1>8, <2>1, <2>2, EndLeavesNothing
<1>11. CASE Gate(r)
  <2>1. Head(todo[r]) = "gate"
    BY <1>11 DEF Gate, At
  <2>2. \/ End(r, "409")
        \/ Advance(r) /\ inside' = [inside EXCEPT ![r] = @ \cup {"gate"}]
    BY <1>11 DEF Gate
  <2>3. CASE Advance(r) /\ inside' = [inside EXCEPT ![r] = @ \cup {"gate"}]
    <3>1. todo'[r] = Tail(todo[r]) /\ inside'[r] = inside[r] \cup {"gate"}
      BY <1>1, <2>3 DEF Advance, TypeOK
    <3> QED BY <1>7, <2>1, <3>1
  <2> QED BY <1>1, <2>2, <2>3, EndLeavesNothing
<1>12. CASE Authenticate(r)
  <2>1. Head(todo[r]) # "gate"
    BY <1>12 DEF Authenticate, At
  <2>2. Continue(r) \/ \E error : Answer(r, error)
    BY <1>12 DEF Authenticate, Rejects
  <2> QED BY <1>1, <1>8, <2>1, <2>2, EndLeavesNothing
<1> QED BY <1>9, <1>10, <1>11, <1>12

\* A handler that goes on to its decision, its call or its record.
LEMMA AskedNext ==
  ASSUME TypeOK, NEW r \in Requests, Catalogued(r), todo[r] # <<>>, asks' = asks,
         Continue(r), Head(todo[r]) # "gate", NEW names, Comes(Tail(todo[r]), names),
         "decide" \in names =>
           pending'[r] = "allowed" \/ AcceptsDecision("denied", pending'[r]),
         "invoke" \in names => (Last(trail'[r]) = "started" <=> Operation(r) \in Mutations),
         ("invoke" \in names /\ Operation(r) \in Mutations) \/ "complete" \in names =>
           Accepts(Operation(r), "started", StartedDetails(Operation(r)), asks[r].bounded)
  PROVE  Catalogued(r)'
<1>1. GateIsTold(r)
  BY DEF Catalogued, GateIsTold
<1>2. GateIsTold(r)'
  BY <1>1, ContinuedIsTold
<1>3. todo'[r] # <<>> /\ \A s : At(r, s)' => s \in names
  BY NextIsAt
<1>4. Operation(r)' = Operation(r)
  BY DEF Operation
<1> QED BY <1>2, <1>3, <1>4 DEF Catalogued, GateIsTold

LEMMA AuthorizeIsCatalogued ==
  ASSUME Good, NEW r \in Requests, Catalogued(r), Authorize(r)
  PROVE  Catalogued(r)'
<1>1. At(r, "authorize") /\ asks' = asks
  BY DEF Authorize
<1>2. TypeOK /\ todo[r] # <<>> /\ Head(todo[r]) = "authorize"
      /\ Succession(Operation(r), "authorize", Tail(todo[r]))
  BY <1>1, AtStep
<1>3. Comes(Tail(todo[r]), {"decide"})
  BY <1>2 DEF Succession
<1>4. ASSUME NEW decision \in {DecisionOn(asks[r].caller, Operation(r)),
                               "role_assignment_unavailable"},
             pending' = [pending EXCEPT ![r] = decision], Continue(r)
      PROVE  Catalogued(r)'
  <2>1. pending'[r] = decision
    BY <1>2, <1>4 DEF TypeOK
  <2>2. decision \in {"principal_unknown", "allowed", "permission_denied",
                      "role_assignment_unavailable"}
    BY DEF DecisionOn
  <2>3. decision = "allowed" \/ AcceptsDecision("denied", decision)
    BY <2>2 DEF AcceptsDecision, AuthorizationReasonCodes
  <2> QED BY <1>1, <1>2, <1>3, <1>4, <2>1, <2>3, AskedNext
<1> QED BY <1>2, <1>4, EndLeavesNothing DEF Authorize

LEMMA DecideIsCatalogued ==
  ASSUME Good, NEW r \in Requests, Catalogued(r), Decide(r)
  PROVE  Catalogued(r)'
<1>1. At(r, "decide") /\ asks' = asks /\ pending' = pending
  BY DEF Decide
<1>2. TypeOK /\ todo[r] # <<>> /\ Head(todo[r]) = "decide"
      /\ Succession(Operation(r), "decide", Tail(todo[r]))
  BY <1>1, AtStep
<1>3. CASE Keeps(r, "allowed") /\ Continue(r)
  <2>1. Last(trail'[r]) = "allowed"
    BY <1>2, <1>3, KeptEvent DEF EventNames
  <2>2. CASE Operation(r) \in Mutations
    <3>1. Comes(Tail(todo[r]), {"begin"})
      BY <1>2, <2>2 DEF Succession
    <3> QED BY <1>1, <1>2, <1>3, <3>1, AskedNext
  <2>3. CASE Operation(r) \notin Mutations
    <3>1. Comes(Tail(todo[r]), {"invoke"})
      BY <1>2, <2>3 DEF Succession
    <3>2. Last(trail'[r]) # "started"
      BY <2>1
    <3> QED BY <1>1, <1>2, <1>3, <2>3, <3>1, <3>2, AskedNext
  <2> QED BY <2>2, <2>3
<1>4. (Keeps(r, "allowed") /\ Continue(r)) \/ \E error : Answer(r, error)
  BY DEF Decide, Rejects
<1> QED BY <1>2, <1>3, <1>4, EndLeavesNothing

LEMMA BeginIsCatalogued ==
  ASSUME Good, NEW r \in Requests, Catalogued(r), Begin(r)
  PROVE  Catalogued(r)'
<1> DEFINE accepted == Accepts(Operation(r), "started",
                               StartedDetails(Operation(r)), asks[r].bounded)
<1>1. At(r, "begin") /\ asks' = asks
  BY DEF Begin
<1>2. TypeOK /\ todo[r] # <<>> /\ Head(todo[r]) = "begin"
      /\ Succession(Operation(r), "begin", Tail(todo[r]))
  BY <1>1, AtStep
<1>3. \/ accepted /\ Keeps(r, "started") /\ Continue(r)
      \/ \E error : Answer(r, error)
  BY DEF Begin
<1>4. CASE accepted /\ Keeps(r, "started") /\ Continue(r)
  <2>1. Last(trail'[r]) = "started"
    BY <1>2, <1>4, KeptEvent DEF EventNames
  <2>2. Operation(r) \in Mutations /\ Comes(Tail(todo[r]), {"invoke"})
    BY <1>2 DEF Succession
  <2> QED BY <1>1, <1>2, <1>4, <2>1, <2>2, AskedNext
<1> QED BY <1>2, <1>3, <1>4, EndLeavesNothing

LEMMA InvokeIsCatalogued ==
  ASSUME Good, NEW r \in Requests, Catalogued(r), Invoke(r)
  PROVE  Catalogued(r)'
<1>1. At(r, "invoke") /\ asks' = asks
  BY DEF Invoke
<1>2. TypeOK /\ todo[r] # <<>> /\ Head(todo[r]) = "invoke"
      /\ Succession(Operation(r), "invoke", Tail(todo[r]))
  BY <1>1, AtStep
<1>3. \/ Continue(r) /\ Operation(r) \in Mutations
      \/ \E v : End(r, v)
      \/ \E error : Answer(r, error)
  BY ShutdownsAreMutations DEF Invoke
<1>4. CASE Continue(r) /\ Operation(r) \in Mutations
  <2>1. Comes(Tail(todo[r]), {"complete"})
    BY <1>2, <1>4 DEF Succession
  <2>2. Accepts(Operation(r), "started", StartedDetails(Operation(r)), asks[r].bounded)
    BY <1>1, <1>4 DEF Catalogued
  <2> QED BY <1>1, <1>2, <1>4, <2>1, <2>2, AskedNext
<1> QED BY <1>2, <1>3, <1>4, EndLeavesNothing

LEMMA CompleteIsCatalogued ==
  ASSUME Good, NEW r \in Requests, Catalogued(r), Complete(r)
  PROVE  Catalogued(r)'
<1>1. At(r, "complete") /\ asks' = asks /\ TypeOK
  BY DEF Complete, Good
<1>2. \/ \E v : End(r, v)
      \/ \E error : Answer(r, error)
      \/ TickFailsLate(r)
  BY DEF Complete
<1>3. CASE TickFailsLate(r)
  <2>1. todo' = todo /\ inside' = inside /\ Operation(r)' = Operation(r)
    BY <1>1, <1>3 DEF TickFailsLate, Operation
  <2> QED BY <1>1, <2>1 DEF Catalogued, At
<1> QED BY <1>1, <1>2, <1>3, EndLeavesNothing

LEMMA ArriveIsCatalogued ==
  ASSUME Good, NEW r \in Requests, Arrive(r)
  PROVE  Catalogued(r)'
<1>1. asks[r] = NoRequest /\ inside' = inside /\ TypeOK /\ Sound(r)
  BY DEF Arrive, Good
<1>2. PICK o \in Operations, c \in Callers, b \in BOOLEAN :
        /\ asks' = [asks EXCEPT ![r] = [operation |-> o, caller |-> c, bounded |-> b]]
        /\ todo' = [todo EXCEPT ![r] = HandlerSteps(o)]
  BY DEF Arrive
<1>3. Operation(r)' = o /\ todo'[r] = HandlerSteps(o)
  BY <1>1, <1>2 DEF Operation, TypeOK
<1>4. "gate" \notin inside[r]
  BY <1>1 DEF Sound, RequestInv, LeftToDo, Admitted
<1>5. GateIsTold(r)'
  BY <1>1, <1>3, <1>4 DEF GateIsTold
<1>6. todo'[r] # <<>> /\ Head(todo'[r]) \notin {"decide", "invoke", "complete"}
  BY <1>3, HandlerStarts
<1> QED BY <1>5, <1>6, NotYetAsked

LEMMA CataloguedIsInvariant ==
  ASSUME Good, \A r \in Requests : Catalogued(r), [Next]_vars
  PROVE  \A r \in Requests : Catalogued(r)'
<1>0. TypeOK
  BY DEF Good
<1>1. ASSUME NEW r \in Requests, Handle(r), NEW q \in Requests PROVE Catalogued(q)'
  <2>1. CASE q = r
    <3>1. CASE Admission(r) \/ Check(r) \/ Gate(r) \/ Authenticate(r)
      BY <2>1, <3>1, EarlyStepIsCatalogued
    <3>2. CASE Authorize(r)
      BY <2>1, <3>2, AuthorizeIsCatalogued
    <3>3. CASE Decide(r)
      BY <2>1, <3>3, DecideIsCatalogued
    <3>4. CASE Begin(r)
      BY <2>1, <3>4, BeginIsCatalogued
    <3>5. CASE Invoke(r)
      BY <2>1, <3>5, InvokeIsCatalogued
    <3>6. CASE Complete(r)
      BY <2>1, <3>6, CompleteIsCatalogued
    <3> QED BY <1>1, <3>1, <3>2, <3>3, <3>4, <3>5, <3>6 DEF Handle
  <2>2. CASE q # r
    <3>1. /\ asks'[q] = asks[q] /\ todo'[q] = todo[q] /\ inside'[q] = inside[q]
          /\ pending'[q] = pending[q] /\ trail'[q] = trail[q]
      BY <1>0, <1>1, <2>2, OthersAreUntouched
    <3> QED BY <3>1, UntouchedIsCatalogued
  <2> QED BY <2>1, <2>2
<1>2. ASSUME NEW r \in Requests, Arrive(r), NEW q \in Requests PROVE Catalogued(q)'
  <2>1. CASE q = r
    BY <1>2, <2>1, ArriveIsCatalogued
  <2>2. CASE q # r
    <3>1. /\ asks'[q] = asks[q] /\ todo'[q] = todo[q] /\ inside'[q] = inside[q]
          /\ pending'[q] = pending[q] /\ trail'[q] = trail[q]
      BY <1>0, <1>2, <2>2 DEF Arrive, TypeOK
    <3> QED BY <3>1, UntouchedIsCatalogued
  <2> QED BY <2>1, <2>2
<1>3. CASE WindowPasses \/ UNCHANGED vars
  <2>1. UNCHANGED <<asks, todo, inside, pending, trail>>
    BY <1>3 DEF WindowPasses, vars
  <2> QED BY <2>1, UntouchedIsCatalogued
<1>4. CASE Crash
  <2>1. \A q \in Requests : todo'[q] = <<>>
    BY <1>4 DEF Crash
  <2> QED BY <2>1, EndedIsCatalogued
<1> QED BY <1>1, <1>2, <1>3, <1>4 DEF Next

\* Whoever calls its operation has passed every gate of its route.
LEMMA NoGateIsLeft ==
  ASSUME TypeOK, NEW r \in Requests, LeftToDo(r), At(r, "invoke")
  PROVE  ~Contains(todo[r], "gate")
<1> DEFINE o == Operation(r)
           steps == HandlerSteps(o)
           n == Len(steps)
           m == Len(RouteSteps(o))
           t == todo[r]
           done == n - Len(t)
<1>1. t \in Seq(StepNames) /\ t # <<>> /\ Head(t) = "invoke"
  BY DEF TypeOK, At
<1>2. done >= 0 /\ \A i \in DOMAIN t : t[i] = steps[done + i]
  BY <1>1 DEF LeftToDo
<1>3. DOMAIN t = 1 .. Len(t) /\ Len(t) \in Nat \ {0} /\ Head(t) = t[1]
  <2> HIDE DEF t
  <2> QED BY <1>1, LenProperties, EmptySeq, HeadTailProperties
<1>4. /\ m \in Nat /\ n = m + (IF o \in Mutations THEN 8 ELSE 6)
      /\ steps[1] = "envelope" /\ steps[2] = "admission"
      /\ \A i \in 3 .. m + 2 : steps[i] = RouteSteps(o)[i - 2]
      /\ steps[m + 3] = "authenticate" /\ steps[m + 4] = "authorize"
      /\ steps[m + 5] = "decide"
      /\ IF o \in Mutations
         THEN /\ steps[m + 6] = "begin" /\ steps[m + 7] = "invoke"
              /\ steps[m + 8] = "complete"
         ELSE steps[m + 6] = "invoke"
  BY HandlerStepsInOrder DEF HandlerShape
<1>5. ASSUME NEW i \in 3 .. m + 2 PROVE steps[i] # "invoke"
  <2>1. i - 2 \in 1 .. m
    BY <1>4
  <2>2. RouteSteps(o) \in [1 .. m -> RouteStepNames]
    BY RouteStepsAreChecks, LenProperties
  <2>3. steps[i] \in RouteStepNames
    BY <1>4, <2>1, <2>2
  <2> QED BY <2>3 DEF RouteStepNames, Checks
<1> HIDE DEF t, steps, n, m
<1>6. steps[done + 1] = "invoke" /\ done \in Nat
  <2>1. n \in Nat /\ 1 \in 1 .. Len(t)
    BY <1>3, <1>4
  <2>2. t[1] = steps[done + 1] /\ t[1] = "invoke"
    BY <1>1, <1>2, <1>3, <2>1
  <2> QED BY <1>2, <1>3, <2>1, <2>2
<1>7. done + 1 >= m + 6
  <2>1. done + 1 \notin {1, 2, m + 3, m + 4, m + 5}
    BY <1>4, <1>6
  <2>2. done + 1 \notin 3 .. m + 2
    BY <1>5, <1>6
  <2> HIDE DEF done
  <2> QED BY <1>4, <1>6, <2>1, <2>2
<1>8. ASSUME NEW i \in 1 .. Len(t) PROVE t[i] # "gate"
  <2>1. t[i] = steps[done + i]
    BY <1>2, <1>3
  <2>2. done + i \in m + 6 .. n
    BY <1>3, <1>4, <1>6, <1>7
  <2>3. done + i \in {m + 6, m + 7, m + 8} /\ (o \notin Mutations => done + i = m + 6)
    <3> DEFINE p == done + i
    <3>1. p \in m + 6 .. n
      BY <2>2
    <3> HIDE DEF p, done
    <3>2. p \in {m + 6, m + 7, m + 8} /\ (o \notin Mutations => p = m + 6)
      BY <1>4, <3>1
    <3> QED BY <3>2 DEF p
  <2>4. steps[done + i] \in {"begin", "invoke", "complete"}
    <3>1. CASE o \in Mutations
      BY <1>4, <2>3, <3>1
    <3>2. CASE o \notin Mutations
      BY <1>4, <2>3, <3>2
    <3> QED BY <3>1, <3>2
  <2> QED BY <2>1, <2>4
<1> QED BY <1>8 DEF Contains, t

\* The history takes the end of whatever it took the start of.
LEMMA RecordsAreAccepted ==
  ASSUME NEW o \in AuditedOperations, NEW b, NEW status,
         status \in {"succeeded", "failed"}
           \/ (status = "rejected" /\ o \in ShutdownOperations),
         Accepts(o, "started", StartedDetails(o), b)
  PROVE  Accepts(o, status, TerminalDetails(o, status), b)
<1> DEFINE services == ServiceActions \cup AvailabilityMutations \cup ScheduleMutations
           plain == MachineMutations \cup {"run_backup_scheduler_tick"}
           prepare == "prepare_machine_shutdown_occurrence"
           execute == "execute_machine_shutdown_occurrence"
<1> USE DEF ServiceActions, AvailabilityMutations, ScheduleMutations, MachineMutations,
            BackupTargetMutations, HistoryMutations, WakeMutations, ShutdownOperations
<1>1. CASE o \in services
  <2>1. /\ Accepts(o, "started", StartedDetails(o), b)
             <=> AcceptsIdentified("serviceId", "started", StartedDetails(o), b)
        /\ Accepts(o, status, TerminalDetails(o, status), b)
             <=> AcceptsIdentified("serviceId", status, TerminalDetails(o, status), b)
    BY <1>1 DEF Accepts
  <2>2. b /\ status \in {"succeeded", "failed"}
    BY <1>1, <2>1 DEF AcceptsIdentified
  <2>3. TerminalDetails(o, status)
          = IF status = "failed" THEN {"serviceId", "failureCode"} ELSE {"serviceId", "outcome"}
    BY <1>1 DEF TerminalDetails
  <2> QED BY <2>1, <2>2, <2>3 DEF AcceptsIdentified
<1>2. CASE o \in BackupTargetMutations
  <2>1. /\ Accepts(o, "started", StartedDetails(o), b)
             <=> AcceptsIdentified("targetId", "started", StartedDetails(o), b)
        /\ Accepts(o, status, TerminalDetails(o, status), b)
             <=> AcceptsIdentified("targetId", status, TerminalDetails(o, status), b)
    BY <1>2 DEF Accepts
  <2>2. b /\ status \in {"succeeded", "failed"}
    BY <1>2, <2>1 DEF AcceptsIdentified
  <2>3. TerminalDetails(o, status)
          = IF status = "failed" THEN {"targetId", "failureCode"} ELSE {"targetId", "outcome"}
    BY <1>2 DEF TerminalDetails
  <2> QED BY <2>1, <2>2, <2>3 DEF AcceptsIdentified
<1>3. CASE o \in plain
  <2>1. Accepts(o, status, TerminalDetails(o, status), b)
          <=> AcceptsPlain(status, TerminalDetails(o, status))
    BY <1>3 DEF Accepts
  <2>2. status \in {"succeeded", "failed"}
    BY <1>3
  <2>3. TerminalDetails(o, status) = IF status = "failed" THEN {"failureCode"} ELSE {"outcome"}
    BY <1>3 DEF TerminalDetails
  <2> QED BY <2>1, <2>2, <2>3 DEF AcceptsPlain
<1>4. CASE o \in HistoryMutations
  <2>1. Accepts(o, status, TerminalDetails(o, status), b)
          <=> AcceptsHistory(status, TerminalDetails(o, status), b)
    BY <1>4 DEF Accepts
  <2>2. status \in {"succeeded", "failed"}
    BY <1>4
  <2>3. TerminalDetails(o, status) = IF status = "failed" THEN {"failureCode"} ELSE {"outcome"}
    BY <1>4 DEF TerminalDetails
  <2> QED BY <2>1, <2>2, <2>3 DEF AcceptsHistory
<1>5. CASE o \in WakeMutations
  <2>1. Accepts(o, status, TerminalDetails(o, status), b)
          <=> AcceptsWake(o, status, TerminalDetails(o, status))
    BY <1>5 DEF Accepts
  <2>2. status \in {"succeeded", "failed"}
    BY <1>5
  <2>3. TerminalDetails(o, status)
          = IF status = "failed" THEN {"failureCode"}
            ELSE IF o = "schedule_wake_alarm" THEN {"scheduledFor", "mutationOutcome"}
            ELSE {"mutationOutcome"}
    BY <1>5 DEF TerminalDetails
  <2> QED BY <2>1, <2>2, <2>3 DEF AcceptsWake
<1>6. CASE o = prepare
  <2>1. Accepts(o, status, TerminalDetails(o, status), b)
          <=> AcceptsPrepare(status, TerminalDetails(o, status))
    BY <1>6 DEF Accepts
  <2>2. TerminalDetails(o, status)
          = IF status = "failed" THEN {"failureCode"}
            ELSE {"preparationOutcome", "blockerCodes", "completedStepCount"}
    BY <1>6 DEF TerminalDetails
  <2> QED BY <2>1, <2>2 DEF AcceptsPrepare
<1>7. CASE o = execute
  <2>1. Accepts(o, status, TerminalDetails(o, status), b)
          <=> AcceptsExecute(status, TerminalDetails(o, status))
    BY <1>7 DEF Accepts
  <2>2. TerminalDetails(o, status)
          = IF status = "failed" THEN {"failureCode"}
            ELSE {"executionOutcome"} \cup
                   IF status = "succeeded" THEN {"wakeMutationOutcome", "shutdownAccepted"}
                   ELSE {"blockerCodes"}
    BY <1>7 DEF TerminalDetails
  <2> QED BY <2>1, <2>2 DEF AcceptsExecute
<1> QED BY <1>1, <1>2, <1>3, <1>4, <1>5, <1>6, <1>7 DEF AuditedOperations

-----------------------------------------------------------------------------
(* The inductive invariant holds of every behaviour: what a handler has     *)
(* left to do determines what the history keeps of its request, which       *)
(* permits it holds and what its operation may have changed.                *)
THEOREM RequestsInvariance == RequestsAssumption => (Spec => []IInv)
<1> SUFFICES ASSUME RequestsAssumption PROVE Spec => []IInv
  OBVIOUS
<1> DEFINE Inv == Good /\ \A r \in Requests : Catalogued(r)
<1>1. Inv => IInv
  BY DEF Good, Sound, IInv, AnswersAreTrue
<1>2. Init => Inv
  <2> SUFFICES ASSUME Init PROVE Inv
    OBVIOUS
  <2>1. \A r \in Requests : Catalogued(r)
    BY DEF Init, Catalogued, At
  <2> QED BY <2>1, InitIsGood
<1>3. Inv /\ [Next]_vars => Inv'
  BY GoodIsInvariant, CataloguedIsInvariant
<1> HIDE DEF Inv
<1> QED BY <1>1, <1>2, <1>3, PTL DEF Spec

\* No request changes anything before the history keeps, for it, that its
\* caller was allowed and that the operation started, and the caller's roles
\* grant the operation (runProtectedOperation, AdministrativeAuditTrail.begin),
\* for every route of the catalogue and every assignment of roles.
THEOREM EffectsAreAuthorizedFirst == RequestsAssumption => (Spec => []EffectsAreAuthorized)
<1>1. IInv => EffectsAreAuthorized
  BY DEF IInv, RequestInv, Audited, Granted, EffectsAreAuthorized
<1> QED BY <1>1, RequestsInvariance, PTL

\* A client told 4xx finds nothing changed; one told 200 finds the terminal
\* event, and its whole effect unless the body of an orchestration, a pruning or
\* a tick reports that it is not; a terminal event lost after any effect is
\* answered as a state to look at again where the route does so (the mapError
\* of each route, runServiceMutation, runAudited).
THEOREM AnswersTellTheTruth == RequestsAssumption => (Spec => []AnswersAreTrue)
<1>1. IInv => AnswersAreTrue
  BY DEF IInv
<1> QED BY <1>1, RequestsInvariance, PTL

\* No early return, refusal, failure or crash leaks a permit of the admission
\* or of a mutation gate, or gives one back twice (the finally clauses of the
\* handlers), however many requests compete.
THEOREM PermitsAlwaysBalance == RequestsAssumption => (Spec => []PermitsBalance)
<1>1. IInv => PermitsBalance
  <2> SUFFICES ASSUME IInv PROVE PermitsBalance
    OBVIOUS
  <2>1. ASSUME NEW g \in Gates
        PROVE  Cardinality(Holders(g)) = (IF gates[g] THEN 1 ELSE 0)
    <3>1. CASE ~gates[g] /\ Holders(g) = {}
      BY <3>1, FS_EmptySet
    <3>2. CASE gates[g] /\ \E r \in Requests : Holders(g) = {r}
      BY <3>2, FS_Singleton
    <3> QED BY <3>1, <3>2 DEF IInv, GateInv
  <2>2. active = Cardinality({r \in Requests : "admission" \in inside[r]})
    BY DEF IInv, AdmissionInv
  <2>3. ASSUME NEW r \in Requests, answer[r] # None PROVE inside[r] = {}
    <3>1. Admitted(r) /\ inside[r] \subseteq {"admission", "gate"}
      BY DEF IInv, RequestInv, AnswersAreTrue, TypeOK
    <3> QED BY <2>3, <3>1 DEF Admitted
  <2> QED BY <2>1, <2>2, <2>3 DEF PermitsBalance, Holders
<1> QED BY <1>1, RequestsInvariance, PTL

\* A request that reaches its operation has passed the gate, the confirmation
\* and the audit that the catalogue declares of its route, and only those; the
\* history takes every decision and every record of it (the routes against
\* administrative-route-security-catalog.ts, administrative-event.ts).
THEOREM HandlersHonourTheCatalog == RequestsAssumption => (Spec => []HandlersMatchCatalog)
<1> SUFFICES ASSUME RequestsAssumption PROVE Spec => []HandlersMatchCatalog
  OBVIOUS
<1>1. IInv => HandlersHonourCatalog
  <2> SUFFICES ASSUME IInv, NEW r \in Requests, At(r, "invoke")
               PROVE  LET d == Descriptor(Operation(r))
                      IN  /\ d.gate # "none" <=> "gate" \in inside[r]
                          /\ d.confirmation
                               <=> Contains(HandlerSteps(Operation(r)), "confirmation")
                          /\ d.audit = "authorization_started_terminal"
                               <=> Last(trail[r]) = "started"
    BY DEF HandlersHonourCatalog
  <2>1. TypeOK /\ RequestInv(r) /\ Catalogued(r) /\ todo[r] # <<>>
    BY DEF IInv, AnswersAreTrue, At
  <2>2. Operation(r) \in RoutedOperations
    <3>1. asks[r] # NoRequest
      BY <2>1 DEF RequestInv, LeftToDo
    <3>2. Operation(r) \in Operations
      BY <2>1, <3>1 DEF TypeOK, Operation
    <3> QED BY <3>2 DEF RequestsAssumption
  <2>3. "gate" \in inside[r] <=> Contains(HandlerSteps(Operation(r)), "gate")
    BY <2>1, NoGateIsLeft DEF RequestInv, Catalogued
  <2>4. Last(trail[r]) = "started" <=> Operation(r) \in Mutations
    BY <2>1 DEF Catalogued
  <2> QED BY <2>2, <2>3, <2>4, DescriptorsMatchRoutes
<1>2. IInv => HistoryAcceptsItsOperations
  <2> SUFFICES ASSUME IInv, NEW r \in Requests
               PROVE  /\ At(r, "authenticate") =>
                           \A reason \in AuthenticationReasons :
                             AcceptsDecision("denied", AuditReason(reason))
                      /\ At(r, "decide") =>
                           pending[r] = "allowed" \/ AcceptsDecision("denied", pending[r])
                      /\ At(r, "complete") =>
                           Accepts(Operation(r), pending[r],
                                   TerminalDetails(Operation(r), pending[r]), asks[r].bounded)
    BY DEF HistoryAcceptsItsOperations
  <2>1. RequestInv(r) /\ Catalogued(r)
    BY DEF IInv
  <2>2. \A reason \in AuthenticationReasons : AcceptsDecision("denied", AuditReason(reason))
    BY DEF AuditReason, AcceptsDecision, AuthorizationReasonCodes
  <2>3. ASSUME At(r, "complete")
        PROVE  Accepts(Operation(r), pending[r],
                       TerminalDetails(Operation(r), pending[r]), asks[r].bounded)
    <3>1. /\ Operation(r) \in AuditedOperations
          /\ pending[r] \in {"succeeded", "failed"}
               \/ (pending[r] = "rejected" /\ Operation(r) \in ShutdownOperations)
      BY <2>1, <2>3, MutationsAreAudited DEF RequestInv, ResultFits
    <3>2. Accepts(Operation(r), "started", StartedDetails(Operation(r)), asks[r].bounded)
      BY <2>1, <2>3 DEF Catalogued
    <3> QED BY <3>1, <3>2, RecordsAreAccepted
  <2>4. At(r, "decide") => pending[r] = "allowed" \/ AcceptsDecision("denied", pending[r])
    BY <2>1 DEF Catalogued
  <2> QED BY <2>2, <2>3, <2>4
<1>3. IInv => HandlersMatchCatalog
  BY <1>1, <1>2 DEF HandlersMatchCatalog
<1> QED BY <1>3, RequestsInvariance, PTL

=============================================================================
